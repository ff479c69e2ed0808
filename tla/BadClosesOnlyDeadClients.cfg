SPECIFICATION Spec
CONSTANTS
    Conns = {c1, c2}
    NoConn = NoConn
    MAX_CLIENTS = 2
    MAX_TASKS = 2
    ID_PROTOCOL = TRUE
    COUNT_FLOOR = 0
PROPERTIES
    ClosesOnlyDeadClients
CHECK_DEADLOCK FALSE
