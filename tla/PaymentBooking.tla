--------------------------- MODULE PaymentBooking ---------------------------
(***************************************************************************)
(* What the reconciler promises to the rest of the system, whatever the    *)
(* number of retries, restarts and replays of Horizon's history behind it: *)
(*                                                                         *)
(*  - a payment is judged once and the judgement is never revised;         *)
(*  - the ledger is append-only, a row is written only for a payment that  *)
(*    was judged to pay that very invoice, and neither a payment nor an    *)
(*    invoice is ever credited a second time.                              *)
(*                                                                         *)
(* Reconciler implements this specification when one instance runs.        *)
(***************************************************************************)
EXTENDS Integers, Sequences

CONSTANTS Tokens,    \* the paging tokens of the payments
          Invoices,
          None       \* "no invoice"

VARIABLES booked,    \* the judgement passed on each payment
          credited   \* the credits written to the ledger, in order

bookVars == <<booked, credited>>

\* The verdicts a row of payment_events may carry in its column ofac_result.
Verdicts == {"clear", "review", "blocked", "amount_mismatch"}

\* No row of payment_events has this paging token.
NoEvent == [invoice |-> None, verdict |-> "none"]

EventRows == [invoice : Invoices \cup {None}, verdict : Verdicts]

\* A recorded payment that pays an invoice: it was matched, neither blocked
\* by the screening nor of the wrong amount.
Creditable(row) ==
    /\ row.invoice # None
    /\ row.verdict \in {"clear", "review"}

BookInit ==
    /\ booked = [t \in Tokens |-> NoEvent]
    /\ credited = <<>>

Book(t) ==
    /\ booked[t] = NoEvent
    /\ \E row \in EventRows : booked' = [booked EXCEPT ![t] = row]
    /\ UNCHANGED credited

Credit(t) ==
    /\ Creditable(booked[t])
    /\ \A k \in DOMAIN credited :
          /\ credited[k].event # t
          /\ credited[k].invoice # booked[t].invoice
    /\ credited' = Append(credited, [invoice |-> booked[t].invoice, event |-> t])
    /\ UNCHANGED booked

BookNext == \E t \in Tokens : Book(t) \/ Credit(t)

BookSpec == BookInit /\ [][BookNext]_bookVars
=============================================================================
