\* More threads in all than twice the slots: either condition variable can
\* have every thread of its side waiting.
SPECIFICATION FairSpec
CONSTANTS
    Producers = {p1, p2, p3}
    Consumers = {c1, c2}
    Tasks = {a, b}
    NoTask = NoTask
    Cap = 2
INVARIANTS
    TypeOK
    NoLostWakeup
    PoppedTaskIsKept
PROPERTIES
    ImplementsFifo
    TasksKeepFlowing
