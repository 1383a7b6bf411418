SPECIFICATION Spec
CONSTANTS
    m1 = m1
    m2 = m2
    m3 = m3
    m4 = m4
    m5 = m5
    m6 = m6
    Messages = {m1, m2, m3, m4, m5, m6}
    QueueIds = {q1, q2}
    NoQueue = NoQueue
    NoOwner = NoOwner
    MainTurn = MainTurn
    NoRoute = "noroute"
    Unroutable = "unroutable"
    Settings <- RejectNew
    RouteOf <- OddRoutes
    AuthOf <- TwoSenders
    RuntimeOnly = {m1}
    Abortable = {m1}
    Deliveries <- SomeTwice
    MaxMainTurns = 1
    MaxFailures = 0
    MaxStops = 1
SYMMETRY SameQueues
INVARIANTS
    TypeOK
    NothingLost
    NothingTwice
    LifecyclesComplete
    TurnsDoNotMix
CHECK_DEADLOCK FALSE
