SPECIFICATION SynthSpec
CONSTANTS
    a1 = a1
    a2 = a2
    s1 = s1
    s2 = s2
    None = None
    Addr <- MCAddr
    Slot <- MCSlot
    Account <- MCAccount
    Value <- MCValue
    Draws <- MCDraws
    Earlier <- MCEarlier
    Configs <- MCConfigs
INVARIANTS
    CacheFresh
    SynthShape
    RunWalksAll
PROPERTIES
    SourcesAgree
    DatadirHoldsState
