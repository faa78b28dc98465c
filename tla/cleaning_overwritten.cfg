SPECIFICATION Spec
CONSTANTS
    Uids = {e1}
    Rooms = {r1}
    NoRoom = NoRoom
    Tasks = {t1, t2}
    Detached = Detached
    Intervals <- OneNight
    LastDay = 0
    Ops = {"replace"}
SYMMETRY Symmetric
PROPERTIES OnlyUnfinishedCancelled
CHECK_DEADLOCK FALSE
