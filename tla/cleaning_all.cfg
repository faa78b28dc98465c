SPECIFICATION Spec
CONSTANTS
    Uids = {e1}
    Rooms = {r1, r2}
    NoRoom = NoRoom
    Tasks = {t1, t2}
    Detached = Detached
    Intervals <- TwoNights
    LastDay = 2
    Ops = {"replace", "delete", "move", "revert"}
SYMMETRY Symmetric
INVARIANTS TypeOK
PROPERTIES AuditKept CompletionRespected CommitSettles OrphanedByReversion
CHECK_DEADLOCK FALSE
