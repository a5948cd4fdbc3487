SPECIFICATION Spec
CONSTANTS
    Reconcilers = {"r1"}
    Invoices <- MCInvoices
    None = "no invoice"
    MuxedId <- MirroredIds
    Memo <- SecondHasMemo
    NoMemo = "no memo"
    Currency <- BothUsdc
    Gross <- SameAmounts
    Payers = {"a"}
    PaymentKinds <- ToFirst
    EurcIssuerSet = TRUE
    FreshVerdict = "clear"
    StartCursor = 0
    MaxPayments = 2
    MaxFaults = 0
INVARIANT
    CreditsAddressee
