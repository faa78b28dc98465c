SPECIFICATION Spec
CONSTANTS
    Sources = {s1, s2}
    Uids = {e1}
    Rooms = {r1, r2}
    NoRoom = NoRoom
    Intervals <- Nights
    LastDay = 2
    Ops = {"replace", "delete", "dismiss", "toggle", "move"}
SYMMETRY Symmetric
INVARIANTS MirrorsFeed CountsAgree
PROPERTIES ExactAfterSync ConsistencyKept
CHECK_DEADLOCK FALSE
