SPECIFICATION Spec
CONSTANTS
    Jobs = {j1, j2}
    Sources = {s1, s2}
    Rooms = {r1}
    Urls = {u1, u2}
    Logs = {l1, l2}
    None = None
    Ops = {"sync", "replace", "delete", "edit", "form", "toggle"}
    Faults = {"crash", "dbError"}
SYMMETRY Symmetric
INVARIANTS TypeOK MutualExclusion
PROPERTIES QuarantineSticky OutcomeFinal FeedFollowsUrl
CHECK_DEADLOCK FALSE
