SPECIFICATION Spec
CONSTANTS
    Workers = {w1, w2}
    MaxEmits = 4
    None = None
    h = h
    g = g
    Nodes <- MCNodes
    Reference <- MCReference
    Walked <- MCWalked
INVARIANTS
    CollectsEmitted
    ParityDecides
    MapsValidateDigest
PROPERTIES
    TestEnds
