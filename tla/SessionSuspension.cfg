\* One configured lane, two tasks, a waiter, two suspensions that may overlap.
SPECIFICATION FairSuspensionSpec
CONSTANTS
    Tasks = {t1, t2}
    Lanes = {main}
    DefaultLane = main
    ProbeLanes = {}
    Waiters = {w1}
    CapRequests = {}
    Priorities = {0}
    MaxGeneration = 0
    ConfiguredLanes = {main}
    ConfigCaps = {1}
    Suspensions = {s1, s2}
INVARIANT SuspendedLaneIsResumed
PROPERTY QueuedEntryLeavesQueue
PROPERTY WaiterAnswered
CHECK_DEADLOCK FALSE
