SPECIFICATION Spec
CONSTANTS
    Reconcilers = {"r1"}
    Invoices <- OneInvoice
    None = "no invoice"
    MuxedId <- OneId
    Memo <- OneMemo
    NoMemo = "no memo"
    Currency <- OneUsdc
    Gross <- OneGross
    Payers = {"a"}
    PaymentKinds <- ToOnlyOne
    EurcIssuerSet = TRUE
    FreshVerdict = "review"
    StartCursor = 0
    MaxPayments = 2
    MaxFaults = 0
INVARIANT
    OnlyClearIsCredited
