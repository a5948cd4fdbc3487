SPECIFICATION DeliverySpec
CONSTANTS
    Runs = {"r1", "r2"}
    Hooks = {"h1"}
    MaxAttempts = 5
    BatchSize = 2
    MaxDeliveries = 2
    MaxResets = 0
    MaxLost = 0
    MaxFaults = 0
INVARIANT
    NoDuplicateDelivery
