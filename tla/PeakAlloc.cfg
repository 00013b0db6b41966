SPECIFICATION AllocSpec
CONSTANTS
    AllocThreads = {t1, t2, t3}
    Main = t1
    Blocks = {b1, b2, b3}
    Sizes = {1, 2}
    Width = 64
    MaxCalls = 5
INVARIANTS
    CurrentExact
    PeakExact
    PeakNearLive
