SPECIFICATION MCFairSpec
CONSTANTS
    Reconcilers = {"r1"}
    Invoices <- MCInvoices
    None = "no invoice"
    MuxedId <- MirroredIds
    Memo <- SecondHasMemo
    NoMemo = "no memo"
    Currency <- TwoCurrencies
    Gross <- TwoAmounts
    Payers = {"a"}
    PaymentKinds <- MainKinds
    EurcIssuerSet = TRUE
    FreshVerdict = "clear"
    StartCursor = 0
    MaxPayments = 2
    MaxFaults = 1
INVARIANTS
    TypeOK
    LedgerBacked
    BooksAgree
    CursorSafe
    OrphansAreFaults
PROPERTIES
    CursorNeverRegresses
    OutcomeIsFinal
    BookSpec
    EventuallyRecorded
    RecordedIsCredited
