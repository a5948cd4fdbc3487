------------------------------ MODULE MCPayday ------------------------------
(***************************************************************************)
(* An instance of Payday for TLC: two invoices of one merchant and one of  *)
(* another, and payments that a payer may send twice.                      *)
(***************************************************************************)
EXTENDS Payday, TLC

MCInvoices == {"inv1", "inv2", "inv3"}
MCMuxedId  == "inv1" :> 12 @@ "inv2" :> 21 @@ "inv3" :> 33
MCMemo     == [i \in MCInvoices |-> "no memo"]
MCCurrency == [i \in MCInvoices |-> "USDC"]
MCGross    == "inv1" :> 5 @@ "inv2" :> 7 @@ "inv3" :> 5
MCOwner    == "inv1" :> "m1" @@ "inv2" :> "m1" @@ "inv3" :> "m2"
MCNetOf    == "inv1" :> 4 @@ "inv2" :> 6 @@ "inv3" :> 4
MCNets     == {4, 6}

\* To the id that decode_muxed_id takes for the invoice's
Exact(i) == [from |-> "a",
             to |-> [id |-> ReversedDigits(MCMuxedId[i]), form |-> "decimal"],
             memo |-> "no memo", amount |-> MCGross[i], asset |-> "USDC",
             issuer |-> "configured", wellFormed |-> TRUE]
MCKinds == {Exact(i) : i \in MCInvoices}

\* The screening cache is left to the reconciler, cancellations are announced
\* and settlements published by nobody, no merchant defers, and one invoice at
\* most is cancelled or expires.
PaydayBound ==
    /\ Cardinality({i \in Invoices : status[i] \in {"cancelled", "expired"}}) <= 1
    /\ lookups = {} /\ announcing = {} /\ deferred = {}
    /\ \A w \in Workers : toAnnounce[w] = {}

MCPaydaySpec == PaydayInit /\ [][PaydayNext /\ PaydayBound']_paydayVars
=============================================================================
