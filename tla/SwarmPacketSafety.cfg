SPECIFICATION Spec
CONSTANTS
    Sources <- SomeSources
    Dests <- SomeDests
    Payloads <- SomePayloads
    Prefixes <- SomePrefixes
    Trailer <- CRC
    MAX_CLIENTS = 2
    MaskFiles <- SomeMaskFiles
    Absent = Absent
INVARIANTS
    TypeOK
    ScanFindsDestination
    FreedOnce
    DeframedAsFramed
    ReadsInBounds
PROPERTIES
    MaskObeyed
