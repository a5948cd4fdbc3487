---------------------------- MODULE MCReconciler ----------------------------
(***************************************************************************)
(* Instances of Reconciler for TLC: two invoices, the first one addressed  *)
(* by its muxed id and the second one by muxed id or memo.                 *)
(***************************************************************************)
EXTENDS Reconciler, TLC

MCInvoices == {"inv1", "inv2"}

OneInvoice == {"inv1"}

\* Each id is the other one read backwards.
MirroredIds   == "inv1" :> 12 @@ "inv2" :> 21

OneId         == "inv1" :> 11

SecondHasMemo == "inv1" :> "no memo" @@ "inv2" :> "memo2"
TwoCurrencies == "inv1" :> "USDC" @@ "inv2" :> "EURC"
TwoAmounts    == "inv1" :> 5 @@ "inv2" :> 7
BothUsdc      == "inv1" :> "USDC" @@ "inv2" :> "USDC"
SameAmounts   == "inv1" :> 5 @@ "inv2" :> 5

OneMemo       == "inv1" :> "no memo"
OneUsdc       == "inv1" :> "USDC"
OneGross      == "inv1" :> 5

Muxed(id) == [id |-> id, form |-> "decimal"]
Treasury  == [id |-> 0, form |-> "account"]

Payment(from, to, memo, amount, asset, issuer) ==
    [from |-> from, to |-> to, memo |-> memo, amount |-> amount,
     asset |-> asset, issuer |-> issuer, wellFormed |-> TRUE]

Usdc(from, to, amount) == Payment(from, to, "no memo", amount, "USDC", "configured")

\* What decode_muxed_id takes for payments to the first and second invoice
Exact1    == Usdc("a", Muxed(21), 5)
Short1    == Usdc("a", Muxed(21), 4)
Foreign1  == Payment("a", Muxed(21), "no memo", 5, "USDC", "foreign")
Native2   == Payment("a", Muxed(12), "memo2", 7, "native", "configured")

ByMemo2   == Payment("a", Treasury, "memo2", 7, "EURC", "configured")
Creation  == [Exact1 EXCEPT !.wellFormed = FALSE]

MainKinds == {Exact1, Short1, ByMemo2, Native2, Foreign1, Creation}
ToFirst   == {Usdc("a", Muxed(12), 5)}
ToOnlyOne == {Usdc("a", Muxed(11), 5)}

-----------------------------------------------------------------------------
\* Bounds of the main run: the API screens addresses, and what it caches is
\* not "clear", while one payment is there at most; one cancelled invoice at a
\* time waits to be announced.
MCBound ==
    /\ lookups # {} => Len(horizon) <= 1
    /\ \A a \in Payers : cache[a] \in {"blocked", "review"} => Len(horizon) <= 1
    /\ Cardinality(announcing) <= 1

MCFairSpec == Init /\ [][Next /\ MCBound']_vars /\ ProcessFairness
=============================================================================
