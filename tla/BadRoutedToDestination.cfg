SPECIFICATION Spec
CONSTANTS
    h1 = h1
    h2 = h2
    h3 = h3
    Hosts = {h1, h2}
    NoHost = NoHost
    BadLine = BadLine
    Broadcast = Broadcast
    HOSTFILE <- WithBad
    Prefix <- Distinct
    MAX_CLIENTS = 2
    Dests = {h1, h2, Broadcast}
    Reliable = {}
INVARIANTS
    RoutedToDestination
CHECK_DEADLOCK FALSE
