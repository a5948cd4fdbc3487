SPECIFICATION MCPaydaySpec
CONSTANTS
    Reconcilers = {"r1"}
    Invoices <- MCInvoices
    None = "no invoice"
    MuxedId <- MCMuxedId
    Memo <- MCMemo
    NoMemo = "no memo"
    Currency <- MCCurrency
    Gross <- MCGross
    Payers = {"a"}
    PaymentKinds <- MCKinds
    EurcIssuerSet = TRUE
    FreshVerdict = "clear"
    StartCursor = 0
    MaxPayments = 2
    MaxFaults = 1
    Workers = {"w1"}
    Merchants = {"m1", "m2"}
    Nets <- MCNets
    MinSettlement = 4
    MaxEntries = 2
    MaxFailures = 1
    Owner <- MCOwner
    NetOf <- MCNetOf
INVARIANTS
    InvoicesPaidOutOnce
