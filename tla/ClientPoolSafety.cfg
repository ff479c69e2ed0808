SPECIFICATION Spec
CONSTANTS
    h1 = h1
    h2 = h2
    h3 = h3
    Hosts = {h1, h2, h3}
    NoHost = NoHost
    BadLine = BadLine
    Broadcast = Broadcast
    HOSTFILE <- TwoHosts
    Prefix <- Distinct
    MAX_CLIENTS = 2
    Dests = {h1, Broadcast}
    Reliable = {}
INVARIANTS
    OpensClosedSocket
    OneSocketPerHost
    IDMatchesHost
    FreedOnce
    AllClosedWhenDone
PROPERTIES
    RefinesConnectionPool
CHECK_DEADLOCK FALSE
