SPECIFICATION AnsweringSpec
CONSTANTS
    h1 = h1
    h2 = h2
    h3 = h3
    Hosts = {h1, h2}
    NoHost = NoHost
    BadLine = BadLine
    Broadcast = Broadcast
    HOSTFILE <- TwoHosts
    Prefix <- Distinct
    MAX_CLIENTS = 2
    Dests = {h1}
    Reliable = {h2}
INVARIANTS
    TypeOK
PROPERTIES
    HostsGetConnected
    JoinReturns
CHECK_DEADLOCK FALSE
