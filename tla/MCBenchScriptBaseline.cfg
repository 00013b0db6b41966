SPECIFICATION ScriptSpec
CONSTANTS
    top = top
    low = low
    wrong = wrong
    Root = Root
    BadRoot = BadRoot
    None = None
    NoDigest = NoDigest
    Rows <- MCRows
    RethRows <- MCRethRows
    Met <- MCMet
    Args = {}
    Results <- MCResults
    MaxCalls = 4
    Baselines = {FALSE}
    Serials = {TRUE, FALSE}
    Found = {}
INVARIANTS
    SummaryDecides
