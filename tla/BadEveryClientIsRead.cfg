SPECIFICATION Spec
CONSTANTS
    Conns = {c1, c2}
    NoConn = NoConn
    MAX_CLIENTS = 2
    MAX_TASKS = 3
    ID_PROTOCOL = TRUE
    COUNT_FLOOR = 0
SYMMETRY ClientSymmetry
INVARIANTS
    EveryClientIsRead
CHECK_DEADLOCK FALSE
