SPECIFICATION Spec
CONSTANTS
    r1 = r1
    r2 = r2
    u1 = u1
    u2 = u2
    Requests = {r1, r2}
    Uploads = {u1, u2}
    Keys = {1, 2, 3}
    None = None
    MaxCount = 1
    Retention = 1
    Batch = 1
    LastDay = 1
    Ops = {"UPLOAD", "DELETE", "COMPLETE", "CORRECT", "REVERT", "SYNC", "CLEANUP"}
    Faults = {"storage", "dbError", "ackLoss", "crash"}
    MaxKinds = 1
SYMMETRY Symmetric
INVARIANTS TypeOK ShownPhotosReadable NoOrphanFiles
PROPERTIES ImplementsLedger ScheduledUnlessRaced
CHECK_DEADLOCK FALSE
