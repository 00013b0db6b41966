SPECIFICATION ScanSpec
CONSTANTS
    None = None
    Threads <- MCThreads
    Nodes <- MCNodes
    Base = 2
    MaxPushes = 2
INVARIANTS
    TypeOK
    DigestDecides
    ScanExact
