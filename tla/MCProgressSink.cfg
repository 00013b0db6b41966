SPECIFICATION ProgressSpec
CONSTANTS
    w1 = w1
    w2 = w2
    Nobody = Nobody
    Workers <- MCWorkers
    Batches <- MCBatches
    Total = 5
    Interval = 2
    MaxTime = 7
INVARIANTS
    LinesAnIntervalApart
    LinesTruthful
PROPERTIES
    EveryEntryCounted
