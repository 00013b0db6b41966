SPECIFICATION FairSpec
CONSTANTS
    c1 = c1
    NoAddr = NoAddr
    p0 = p0
    p1 = p1
    p2 = p2
    p3 = p3
    h = h
    hOld = hOld
    Addr <- MCAddr
    Path <- MCPath
    EmptyPath = p0
    Content <- MCContent
    N = 5
    Completes <- MCCompletes
    Thresholds = {1, 2, 4, 9}
    Settings = {"absent", "unreadable", "v1", "v2"}
    Stale <- MCStale
    MaxRuns = 2
    None = None
INVARIANTS
    TypeOK
    WalkContinues
    NothingAhead
    RebuildExact
PROPERTIES
    RebuildEnds
    RebuildImplementsChunkedBuild
