SPECIFICATION SettlementSpec
CONSTANTS
    Workers = {"w1", "w2"}
    Merchants = {"m1"}
    Nets <- OneNet
    MinSettlement = 2
    MaxEntries = 3
    MaxFailures = 0
INVARIANT
    OnePendingPerMerchant
