SPECIFICATION Spec
CONSTANTS
    NodeCount = 3
    NTests = 2
    NPar = 2
    Cap = 4
    MaxWaitCycles = 0
INVARIANTS
    NeverExecutedTwice
