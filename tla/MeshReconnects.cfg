CONSTANTS
    a = a
    b = b
    Nodes = {a, b}
    HOSTFILE <- Hosts
    MAX_CLIENTS = 3
    FAULTS = 1
    RACES = 1
    NoEnd = NoEnd
SPECIFICATION UnicastSpec
INVARIANTS TypeOK HandshakeAgreement WaitsForPartner
PROPERTIES HandshakesEnd Reopens RefinesHandshake
