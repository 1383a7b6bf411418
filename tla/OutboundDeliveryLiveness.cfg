\* One delivery under fairness: every stored entry is worked off.
SPECIFICATION FairSpec
CONSTANTS
    reply = reply
    notice = notice
    Deliveries = {reply}
    Parts <- SomeParts
    BestEffort = {}
    Required = {reply}
    Reconciles = {reply}
    NoDelivery = "none"
    MaxRetries = 2
    MaxCrashes = 1
    MaxFaults = 1
PROPERTY
    EventuallySettled
