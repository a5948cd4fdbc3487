------------------------------- MODULE Payday -------------------------------
(***************************************************************************)
(* The money from the treasury account to the merchant: the reconciler and *)
(* the daily settlement at work on one table, ledger_entries, in one       *)
(* database.  Each has its own view of the table: Reconciler's `ledger'    *)
(* holds what the credit of a payment inserts, Settlement's `entry' what   *)
(* the settlement reads and marks.  The transaction that credits an        *)
(* invoice (processor.rs) adds a row to both; every other step of one side *)
(* leaves the other side alone, and may come between any two of its steps. *)
(***************************************************************************)
EXTENDS Reconciler, Settlement

CONSTANTS Owner,   \* invoices.merchant_id
          NetOf    \* invoices.net_usdc, computed when the invoice is created

ASSUME PaydayAssumption ==
    /\ Owner \in [Invoices -> Merchants]
    /\ NetOf \in [Invoices -> Nets]

paydayVars == <<vars, settlementVars>>

PaydayInit == Init /\ SettlementInit

\* The ledger row carries the merchant and the net of the invoice that was
\* matched, as match_invoice has read them: neither ever changes.
CreditInvoice(r) == CommitCredit(r) /\ Credit(Owner[matched[r]], NetOf[matched[r]])

PaydayNext ==
    \/ \E r \in Reconcilers : CreditInvoice(r)
    \/ BookingSide /\ UNCHANGED settlementVars
    \/ PayoutSide /\ UNCHANGED vars

PaydaySpec == PaydayInit /\ [][PaydayNext]_paydayVars

-----------------------------------------------------------------------------
(* Properties.                                                             *)

\* From end to end: what a merchant is paid is the net of invoices of its own,
\* each recorded as paid and closed for further payments, and no invoice is in
\* two payouts or twice in one, although the reconciler looks at the status of
\* the invoice long before it credits it and the settlement sums the ledger
\* long before it marks it (process_payment, createDailySettlements).
InvoicesPaidOutOnce ==
    \A s \in DOMAIN settlement : \A k \in settlement[s].summed :
        /\ k \in DOMAIN ledger
        /\ LET row == ledger[k] IN
              /\ Owner[row.invoice] = settlement[s].merchant
              /\ NetOf[row.invoice] = entry[k].net
              /\ event[row.event].invoice = row.invoice
              /\ Creditable(event[row.event])
              /\ status[row.invoice] \notin Active
              /\ \A t \in DOMAIN settlement : \A j \in settlement[t].summed :
                    ledger[j].invoice = row.invoice => t = s /\ j = k

-----------------------------------------------------------------------------
(* The inductive invariant behind the proofs (SettlementProofs).           *)

\* The two views are of one table.
OneTable ==
    /\ Len(entry) = Len(ledger)
    /\ \A k \in DOMAIN ledger :
          /\ entry[k].merchant = Owner[ledger[k].invoice]
          /\ entry[k].net = NetOf[ledger[k].invoice]
=============================================================================
