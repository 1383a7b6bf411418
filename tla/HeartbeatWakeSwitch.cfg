SPECIFICATION Spec
CONSTANTS
    session = session
    Broadcast = "all"
    Targets = {"all"}
    NoTarget = "none"
    b1 = b1
    b2 = b2
    BatchIds = {b1}
    RequestPriorities = {2}
    MaxGeneration = 2
    Switches = {TRUE, FALSE}
INVARIANTS
    HeartbeatsGoOn
