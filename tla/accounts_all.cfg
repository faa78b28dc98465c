SPECIFICATION Spec
CONSTANTS
    Users = {u1, u2}
    Companies = {c1, c2}
    Requests = {q1, q2}
    Developer = Developer
    MaxLoad = 3
SYMMETRY Symmetric
INVARIANTS TypeOK
PROPERTIES ChecksProtect ChangedIsLoggedOut
CHECK_DEADLOCK FALSE
