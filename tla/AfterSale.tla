----------------------------- MODULE AfterSale -----------------------------
(***************************************************************************)
(* Refunds and disputes of an invoice (invoices.service.ts refund,         *)
(* disputes.service.ts), beside everything that moves the invoice's own    *)
(* status.  A call reads the invoice, looks for a live refund or an open   *)
(* dispute, and inserts one: three queries, with no lock and no unique     *)
(* index behind them.                                                      *)
(*                                                                         *)
(* Abstractions.  A refund or dispute is known by the call that made it.   *)
(* Whether the merchant has an address is left out; reasons, notes and     *)
(* amounts too.  The submission (submitSorobanRefund builds a transaction  *)
(* and returns its hash) is counted as made.  No migration creates the     *)
(* table disputes: its rows are what the service writes.                   *)
(***************************************************************************)
EXTENDS Integers, FiniteSets

CONSTANTS
    Sales,          \* invoices
    Calls,          \* calls of POST /invoices/:id/refund and POST /disputes
    Due,            \* gross amount of each invoice
    DisputeKeys,    \* Idempotency-Key headers of disputes
    NoDisputeKey

ASSUME AfterSaleAssumption ==
    /\ Sales # {} /\ Due \in [Sales -> Nat \ {0}]
    /\ NoDisputeKey \notin DisputeKeys /\ IsFiniteSet(Calls)

\* The CHECK of migration 002, which 010_partial_payments leaves in force
SaleStatuses == {"pending", "paid", "expired", "cancelled"}
DisputeStatuses == {"submitted", "under_review", "won", "lost", "rejected"}
Terminal == {"won", "lost", "rejected"}

VARIABLES
    sale,       \* status of each invoice
    call,       \* what each call is doing
    refunds,    \* status of each row of refunds, by call
    disputes,   \* status of each row of disputes, by call
    submitted,  \* calls whose refund was submitted
    answers,    \* idempotency_keys of disputes: key, body and answer
    met,        \* invoices two calls of one kind were checking at once
    undone      \* invoices whose refund failed or whose dispute was reopened

afterSaleVars == <<sale, call, refunds, disputes, submitted, answers, met, undone>>

NoCall == [pc |-> "idle", kind |-> "refund", sale |-> CHOOSE s \in Sales : TRUE,
           key |-> NoDisputeKey]

LiveRefunds(s) == {c \in DOMAIN refunds : call[c].sale = s /\ refunds[c] # "failed"}
OpenDisputes(s) == {c \in DOMAIN disputes : call[c].sale = s /\ disputes[c] \notin Terminal}
\* Mutant: a settled refund is no longer looked for.
ExistingSubmitted(kind, s) ==
    IF kind = "refund" THEN {c \in LiveRefunds(s) : refunds[c] = "submitted"} ELSE OpenDisputes(s)

Existing(kind, s) == IF kind = "refund" THEN LiveRefunds(s) ELSE OpenDisputes(s)

\* Calls of a kind that have looked, found nothing and not yet inserted
Checked(kind, s) ==
    {c \in Calls : /\ call[c].kind = kind /\ call[c].sale = s
                   /\ call[c].pc \in {"submit", "insert"}}

AfterSaleInit ==
    /\ sale = [s \in Sales |-> "pending"]
    /\ call = [c \in Calls |-> NoCall]
    /\ refunds = <<>> /\ disputes = <<>>
    /\ submitted = {} /\ answers = {} /\ met = {} /\ undone = {}

CallGoes(c, pc) == call' = [call EXCEPT ![c].pc = pc]

\* get, or the SELECT of the invoice: whether it may be refunded or disputed
\* is decided on the status read here.  A key is looked up before.
Begin(c, kind, s, key) ==
    /\ call[c].pc = "idle"
    /\ kind = "refund" => key = NoDisputeKey
    /\ call' = [call EXCEPT ![c] =
          [pc |-> IF \E a \in answers : a.key = key
                  THEN IF \E a \in answers : a.key = key /\ call[a.answer].sale = s
                       THEN "answered" ELSE "refused"
                  ELSE IF sale[s] = "paid" THEN "look" ELSE "refused",
           kind |-> kind, sale |-> s, key |-> key]]
    /\ UNCHANGED <<sale, refunds, disputes, submitted, answers, met, undone>>

\* The SELECT for a live refund or an open dispute
Look(c) ==
    LET k == call[c].kind
        s == call[c].sale
    IN /\ call[c].pc = "look"
       /\ IF Existing(k, s) # {} THEN CallGoes(c, "refused") /\ UNCHANGED met
          ELSE /\ CallGoes(c, IF k = "refund" THEN "submit" ELSE "insert")
               /\ met' = IF Checked(k, s) # {} THEN met \union {s} ELSE met
       /\ UNCHANGED <<sale, refunds, disputes, submitted, answers, undone>>

Submit(c) ==
    /\ call[c].pc = "submit"
    /\ submitted' = submitted \union {c}
    /\ CallGoes(c, "insert")
    /\ UNCHANGED <<sale, refunds, disputes, answers, met, undone>>

InsertRefund(c) ==
    /\ call[c].pc = "insert" /\ call[c].kind = "refund"
    /\ refunds' = [d \in DOMAIN refunds \union {c} |->
                      IF d = c THEN "submitted" ELSE refunds[d]]
    /\ CallGoes(c, "answered")
    /\ UNCHANGED <<sale, disputes, submitted, answers, met, undone>>

InsertDispute(c) ==
    /\ call[c].pc = "insert" /\ call[c].kind = "dispute"
    /\ disputes' = [d \in DOMAIN disputes \union {c} |->
                       IF d = c THEN "submitted" ELSE disputes[d]]
    /\ CallGoes(c, IF call[c].key = NoDisputeKey THEN "answered" ELSE "save")
    /\ UNCHANGED <<sale, refunds, submitted, answers, met, undone>>

\* idempotency.save: ON CONFLICT DO NOTHING
SaveDispute(c) ==
    /\ call[c].pc = "save"
    /\ answers' = IF \E a \in answers : a.key = call[c].key THEN answers
                  ELSE answers \union {[key |-> call[c].key, answer |-> c]}
    /\ CallGoes(c, "answered")
    /\ UNCHANGED <<sale, refunds, disputes, submitted, met, undone>>

\* A query or the submission fails: nothing is rolled back, there is no
\* transaction.  A submitted refund without a row is forgotten.
CallFails(c) ==
    /\ call[c].pc \in {"look", "submit", "insert", "save"}
    /\ CallGoes(c, "failed")
    /\ undone' = IF c \in submitted THEN undone \union {call[c].sale} ELSE undone
    /\ UNCHANGED <<sale, refunds, disputes, submitted, answers, met>>

\* disputes.patch: any status may follow any other
PatchDispute(c, status) ==
    /\ c \in DOMAIN disputes
    /\ disputes' = [disputes EXCEPT ![c] = status]
    /\ undone' = IF disputes[c] \in Terminal /\ status \notin Terminal
                 THEN undone \union {call[c].sale} ELSE undone
    /\ UNCHANGED <<sale, call, refunds, submitted, answers, met>>

\* Nothing in src moves a refund on; the CHECK allows 'settled' and 'failed'.
RefundEnds(c, status) ==
    /\ c \in DOMAIN refunds /\ refunds[c] = "submitted"
    /\ refunds' = [refunds EXCEPT ![c] = status]
    /\ undone' = IF status = "failed" THEN undone \union {call[c].sale} ELSE undone
    /\ UNCHANGED <<sale, call, disputes, submitted, answers, met>>

-----------------------------------------------------------------------------
\* Everything that moves the status of an invoice.

Active(s) == sale[s] \in {"pending", "partial"}

MoveSale(s, status) ==
    /\ sale' = [sale EXCEPT ![s] = status]
    /\ UNCHANGED <<call, refunds, disputes, submitted, answers, met, undone>>

\* The reconciler's UPDATE ... WHERE status = 'pending'
MarkPaid(s) == sale[s] = "pending" /\ MoveSale(s, "paid")

\* Mutant: the UPDATE does not ask for the status.
EndAnySale(s, status) == sale[s] # status /\ MoveSale(s, status)

\* cancel, expireInvoices, autoCancelUnpaidInvoices
EndSale(s, status) == Active(s) /\ MoveSale(s, status)

\* applyPartialPayment: one transaction on the locked row.  'partial' does
\* not pass the CHECK, and the transaction rolls back.
ApplyPartialPayment(s, paid) ==
    LET newStatus == IF paid = Due[s] THEN "paid" ELSE "partial" IN
    /\ Active(s) /\ paid <= Due[s]
    /\ newStatus \in SaleStatuses
    /\ MoveSale(s, newStatus)

AfterSaleNext ==
    \/ \E c \in Calls :
          \/ \E kind \in {"refund", "dispute"}, s \in Sales,
                key \in DisputeKeys \union {NoDisputeKey} : Begin(c, kind, s, key)
          \/ Look(c) \/ Submit(c) \/ InsertRefund(c) \/ InsertDispute(c) \/ SaveDispute(c)
          \/ CallFails(c)
          \/ \E status \in DisputeStatuses : PatchDispute(c, status)
          \/ \E status \in {"settled", "failed"} : RefundEnds(c, status)
    \/ \E s \in Sales :
          \/ MarkPaid(s)
          \/ EndSale(s, "cancelled") \/ EndSale(s, "expired")
          \/ \E paid \in 1..Due[s] : ApplyPartialPayment(s, paid)

AfterSaleSpec == AfterSaleInit /\ [][AfterSaleNext]_afterSaleVars

-----------------------------------------------------------------------------
CallStates ==
    [pc : {"idle", "look", "submit", "insert", "save", "answered", "refused", "failed"},
     kind : {"refund", "dispute"}, sale : Sales, key : DisputeKeys \union {NoDisputeKey}]

AfterSaleTypeOK ==
    /\ sale \in [Sales -> SaleStatuses]
    /\ call \in [Calls -> CallStates]
    /\ DOMAIN refunds \subseteq Calls /\ DOMAIN disputes \subseteq Calls
    /\ submitted \subseteq Calls /\ met \subseteq Sales /\ undone \subseteq Sales

\* An invoice with a refund or a dispute was paid and stays so, although its
\* status was read three queries before the row was inserted (refund line
\* 246, disputes.service.ts line 66): cancel, the two crons and partial
\* payments run in between.
PaidForGood ==
    \A c \in DOMAIN refunds \union DOMAIN disputes \union submitted :
        sale[call[c].sale] = "paid"

\* An invoice has at most one live refund and one open dispute, and is paid
\* back once, unless two calls looked before either inserted, a refund
\* failed or was forgotten, or a dispute was reopened ("Ensure no existing
\* open dispute for this invoice", disputes.service.ts line 70).
OneLiveUnlessRaced ==
    \A s \in Sales \ (met \union undone) : \A c, d \in Calls :
        (call[c].sale = s /\ call[d].sale = s) =>
            /\ {c, d} \subseteq LiveRefunds(s) \/ {c, d} \subseteq OpenDisputes(s) => c = d
            /\ {c, d} \subseteq submitted => c = d
=============================================================================
