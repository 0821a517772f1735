SPECIFICATION FairSpec
CONSTANTS
    Workers = {w1, w2, w3}
    Tasks = {t1, t2, t3}
    Pill = Pill
    NoTask = NoTask
    MaxQueue = 1
INVARIANTS
    WaitingIsAccurate
    QueueBound
    NoLostWakeup
    ExactlyOnce
    PostOrder
    StackTaskInScope
    DestroyDrains
PROPERTIES
    Implements
