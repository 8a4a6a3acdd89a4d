SPECIFICATION FairSpec
CONSTANTS
    NodeCount = 3
    NTests = 2
    NPar = 1
    Cap = 3
    MaxWaitCycles = 1
INVARIANTS
    TypeOK
    OneTestAtATime
    ExecutedAtMostOnce
    SlotIsPrivate
    WaitMeansDone
    CountersSettle
    StopIsNotLost
    PendingTellsWhoWorked
    LifeInv
    AccountInv
PROPERTIES
    C0Finishes
