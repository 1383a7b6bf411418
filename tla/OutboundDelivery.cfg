\* A required reply of two parts and a best-effort notice of one, one crash, one write that fails.
SPECIFICATION Spec
CONSTANTS
    reply = reply
    notice = notice
    Deliveries = {reply, notice}
    Parts <- SomeParts
    BestEffort = {notice}
    Required = {reply}
    Reconciles = {reply}
    NoDelivery = "none"
    MaxRetries = 2
    MaxCrashes = 1
    MaxFaults = 1
INVARIANTS
    TypeOK
    OneSender
    LiveSendNeverRepeated
PROPERTIES
    SettledIsFinal
    ImplementsStoredDelivery
