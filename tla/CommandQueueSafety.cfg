\* One lane, three tasks, every priority, cap and timeout, one waiter.
SPECIFICATION Spec
CONSTANTS
    Tasks = {t1, t2, t3}
    Lanes = {main}
    DefaultLane = main
    ProbeLanes = {}
    Waiters = {w1}
    CapRequests <- AllCapRequests
    Priorities <- AllPriorities
    MaxGeneration = 1
VIEW View
INVARIANTS
    TypeOK
    WorkConserving
    SlotsMatchRuns
    PendingWaiterHasActiveTask
PROPERTIES
    StartsWithinCap
    StartsInOrder
    ResetKeepsQueuedWork
    ImplementsSubmittedCommand
CHECK_DEADLOCK FALSE
