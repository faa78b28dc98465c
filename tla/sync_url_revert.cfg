SPECIFICATION Spec
CONSTANTS
    Jobs = {j1, j2}
    Sources = {s1}
    Rooms = {r1}
    Urls = {u1, u2}
    Logs = {l1}
    None = None
    Ops = {"replace", "form"}
    Faults = {}
PROPERTIES UrlChangesByReplacement
CHECK_DEADLOCK FALSE
