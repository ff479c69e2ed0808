SPECIFICATION FairSpec
CONSTANTS
    a = a
    b = b
    Nodes = {a, b}
    GPS = GPS
    simpleProducer = simpleProducer
    Apps = {GPS, simpleProducer}
    Links <- Fan
    POOL = 1
    FRAMER_POOL = 2
    WINDOW = 1
    Busy <- Pings
    Fragile <- Cable
    Nobody = Nobody
INVARIANTS
    TypeOK
    StaticBuffersOnce
    BuffersConserved
    FramerNeverEmpty
    PartsInOrder
PROPERTIES
    HubReleased
