SPECIFICATION JobsSpec
CONSTANTS
    Workers = {"w1"}
    Merchants = {"m1", "m2"}
    Nets <- MCNets
    MinSettlement = 2
    MaxEntries = 3
    MaxFailures = 1
    Runs = {"r1"}
    Hooks = {"h1", "h2"}
    MaxAttempts = 2
    BatchSize = 1
    MaxDeliveries = 2
    MaxResets = 1
    MaxLost = 1
    MaxFaults = 1
INVARIANTS
    SettlementTypeOK
    PaidIsMarked
    DeliveryTypeOK
    NotDeadEarly
    DeliveredWasAccepted
    DuplicatesExplained
PROPERTIES
    PayoutSpec
    EventuallySettled
    FinalUntilReset
    EventuallyDecided
