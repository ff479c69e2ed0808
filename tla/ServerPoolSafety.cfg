SPECIFICATION Spec
CONSTANTS
    Conns = {c1, c2}
    NoConn = NoConn
    MAX_CLIENTS = 2
    MAX_TASKS = 2
    ID_PROTOCOL = TRUE
    COUNT_FLOOR = 0
SYMMETRY ClientSymmetry
VIEW LiveState
INVARIANTS
    OpensClosedSocket
    ConnectionsBounded
    ThreadPerStartedTask
    TaskCountBounded
    ClientIDMatches
    AllClosedWhenDone
PROPERTIES
    RefinesConnectionPool
CHECK_DEADLOCK FALSE
