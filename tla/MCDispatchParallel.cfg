SPECIFICATION Spec
CONSTANTS
    NodeCount = 3
    NTests = 3
    NPar = 2
    Cap = 3
    MaxWaitCycles = 0
INVARIANTS
    OneTestAtATime
    ExecutedAtMostOnce
    WaitMeansDone
    CleanInv
