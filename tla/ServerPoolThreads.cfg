SPECIFICATION AnsweringSpec
CONSTANTS
    Conns = {c1}
    NoConn = NoConn
    MAX_CLIENTS = 1
    MAX_TASKS = 3
    ID_PROTOCOL = TRUE
    COUNT_FLOOR = 0
INVARIANTS
    TypeOK
PROPERTIES
    JoinReturns
    ReadersEnd
    DeadClientEndsReader
    StopWindsDown
CHECK_DEADLOCK FALSE
