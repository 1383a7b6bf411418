SPECIFICATION Spec
CONSTANTS
    session = session
    Broadcast = "all"
    Targets = {"all", session}
    NoTarget = "none"
    b1 = b1
    b2 = b2
    BatchIds = {b1, b2}
    RequestPriorities = {2}
    MaxGeneration = 2
    Switches = {FALSE}
VIEW View
SYMMETRY SameBatches
INVARIANTS
    TypeOK
    WakesAreAwaited
    NoRequestLost
    HeartbeatsGoOn
