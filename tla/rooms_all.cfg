SPECIFICATION Spec
CONSTANTS
    Properties = {p, q}
    Rooms = {a, b}
    Sources = {s}
    Photos = {x}
    Records = {n}
    Deletions = {d, e}
    None = None
    Gone = Gone
    Ops = {"create", "moveSource", "moveRoom", "record", "crash"}
SYMMETRY Symmetric
CONSTRAINT InFlight
INVARIANTS TypeOK DeletionGoesThrough
PROPERTIES NotUnderSync FilesAccounted
CHECK_DEADLOCK FALSE
