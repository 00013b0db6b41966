SPECIFICATION Spec
CONSTANTS
    c1 = c1
    p0 = p0
    p1 = p1
    p2 = p2
    h = h
    g = g
    NoAddr = NoAddr
    Addr <- MCAddr
    Path <- MCPath
    EmptyPath = p0
    Content <- MCContent
    Updates <- MCUpdates
PROPERTIES
    ImplementsNodeStore
