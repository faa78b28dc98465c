SPECIFICATION Spec
CONSTANTS
    Jobs = {j1, j2}
    Urls = {u1, u2}
    Ratings = {a, b}
    Reviews = {r}
    None = None
    Window = 2
    MaxLogs = 3
INVARIANTS ShownIsLatest LogTellsOutcome
SYMMETRY Symmetric
CHECK_DEADLOCK FALSE
