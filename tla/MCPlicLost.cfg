SPECIFICATION Spec
CONSTANTS
    NR_HARTS = 4
    Raises <- FewRaises
    MaxSends <- FewSends
    MaxActive = 1
INVARIANTS
    PendingUntilClaimed
