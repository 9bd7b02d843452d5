CONSTANTS
    Tasks = {t1, t2, t3}
    Producers = {p1, p2}
    Channels = {c1, c2}
    EventFd = efd
    NoTask = none
    MaxEvents = 2
SPECIFICATION Spec
INVARIANTS TypeOK NoLostWakeup EventfdReadNeverBlocks
PROPERTIES ImplementsTaskQueue QueuedTaskRuns
