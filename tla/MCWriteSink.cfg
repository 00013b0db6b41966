SPECIFICATION FairSpec
CONSTANTS
    c1 = c1
    NoAddr = NoAddr
    p0 = p0
    p1 = p1
    p2 = p2
    p3 = p3
    h = h
    hOld = hOld
    w1 = w1
    w2 = w2
    Addr <- MCAddr
    Path <- MCPath
    EmptyPath = p0
    Content <- MCContent
    Workers <- MCWorkers
    Threads = {1, 2}
    Emitted <- MCEmitted
    Owner <- MCOwner
    Capacity = 2
    ChunkSizes = {0, 2, 3}
    Settings = {"unreadable", "v2"}
    Stale <- MCStale
    MaxRuns = 2
INVARIANTS
    TypeOK
    EveryNodeOnce
    OnlySentNodes
    ReportExact
    BoundedMemory
PROPERTIES
    WholeChunks
    ImplementsChunkedBuild
    RunEnds
    FailedCommitEndsRun
