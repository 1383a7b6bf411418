SPECIFICATION FairSpec
CONSTANTS
    m1 = m1
    m2 = m2
    m3 = m3
    m4 = m4
    m5 = m5
    m6 = m6
    Messages = {m1, m2, m3, m4}
    QueueIds = {q1}
    NoQueue = NoQueue
    NoOwner = NoOwner
    MainTurn = MainTurn
    NoRoute = "noroute"
    Unroutable = "unroutable"
    Settings <- SummarizeCollecting
    RouteOf <- OneRoute
    AuthOf <- TwoSenders
    RuntimeOnly = {m1}
    Abortable = {m1}
    Deliveries <- OnceEach
    MaxMainTurns = 1
    MaxFailures = 1
    MaxStops = 0
INVARIANTS
    QueuedWorkIsAwaited
PROPERTIES
    EventuallyDrained
CHECK_DEADLOCK FALSE
