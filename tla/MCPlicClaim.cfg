SPECIFICATION FairSpec
CONSTANTS
    NR_HARTS = 4
    Raises <- FewRaises
    MaxSends <- FewSends
    MaxActive = 1
INVARIANTS
    TypeOK
    SetupConnectsHarts
    ClaimsWereRaised
    HighestFirst
    OnlyOwnTypesInterfere
    LoopInv
PROPERTIES
    LoopReturns
