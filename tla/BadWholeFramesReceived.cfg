SPECIFICATION FairSpec
CONSTANTS
    a = a
    b = b
    Nodes = {a, b}
    GPS = GPS
    simpleProducer = simpleProducer
    Apps = {GPS, simpleProducer}
    Links <- Fan
    POOL = 1
    FRAMER_POOL = 2
    WINDOW = 2
    Busy <- Pings
    Fragile = {}
    Nobody = Nobody
PROPERTIES
    WholeFramesReceived
