SPECIFICATION FairSpec
CONSTANTS
    Jobs = {j1, j2}
    Sources = {s1, s2}
    Rooms = {r1}
    Urls = {u1, u2}
    Logs = {l1}
    None = None
    Ops = {"sync", "replace", "delete"}
    Faults = {"sessionLoss", "ackLoss"}
PROPERTIES LocksReleased DeleteSparesSync
CHECK_DEADLOCK FALSE
