CONSTANTS
    a = a
    b = b
    Nodes = {a, b}
    HOSTFILE <- Hosts
    MAX_CLIENTS = 3
    FAULTS = 1
    RACES = 0
    NoEnd = NoEnd
SPECIFICATION BroadcastSpec
PROPERTIES Reopens
