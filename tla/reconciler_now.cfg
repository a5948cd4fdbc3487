SPECIFICATION NowSpec
CONSTANTS
    Reconcilers = {"r1"}
    Invoices <- OneInvoice
    None = "no invoice"
    MuxedId <- OneId
    Memo <- OneMemo
    NoMemo = "no memo"
    Currency <- OneUsdc
    Gross <- OneGross
    Payers = {"a"}
    PaymentKinds <- ToOnlyOne
    EurcIssuerSet = TRUE
    FreshVerdict = "clear"
    StartCursor <- NOW
    MaxPayments = 2
    MaxFaults = 1
INVARIANT
    NoPaymentSkipped
