SPECIFICATION ScriptSpec
CONSTANTS
    top = top
    low = low
    wrong = wrong
    Root = Root
    BadRoot = BadRoot
    None = None
    NoDigest = NoDigest
    Rows <- MCRows
    RethRows <- MCRethRows
    Met <- MCMet
    Args <- MCArgs
    Results <- MCResults
    MaxCalls = 4
    Baselines = {TRUE, FALSE}
    Serials = {TRUE, FALSE}
    Found <- MCFound
INVARIANTS
    CleanExitVouches
    ParityMeansIdentical
    IdenticalMeansParity
