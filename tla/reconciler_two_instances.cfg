SPECIFICATION Spec
CONSTANTS
    Reconcilers = {"r1", "r2"}
    Invoices <- OneInvoice
    None = "no invoice"
    MuxedId <- OneId
    Memo <- OneMemo
    NoMemo = "no memo"
    Currency <- OneUsdc
    Gross <- OneGross
    Payers = {"a"}
    PaymentKinds <- ToOnlyOne
    EurcIssuerSet = TRUE
    FreshVerdict = "clear"
    StartCursor = 0
    MaxPayments = 2
    MaxFaults = 0
INVARIANT
    LedgerOncePerInvoice
