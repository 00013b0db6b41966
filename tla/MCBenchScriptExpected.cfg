SPECIFICATION ScriptSpec
CONSTANTS
    top = top
    low = low
    wrong = wrong
    Root = Root
    BadRoot = BadRoot
    None = None
    NoDigest = NoDigest
    Rows <- MCRows
    RethRows <- MCRethRows
    Met <- MCMet
    Args <- MCSerialArgs
    Results <- MCResults
    MaxCalls = 1
    Baselines = {}
    Serials = {}
    Found = {}
INVARIANTS
    ExpectedRootChecked
