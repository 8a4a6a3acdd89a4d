SPECIFICATION Spec
CONSTANTS
    NodeCount = 3
    NTests = 2
    NPar = 1
    Cap = 3
    MaxWaitCycles = 1
INVARIANTS
    AllCompletedMeansAllCompleted
