------------------------------- MODULE Payouts -------------------------------
(***************************************************************************)
(* What the daily settlement promises to the merchants, whatever is        *)
(* credited while it runs and wherever it fails:                           *)
(*                                                                         *)
(*  - a payout is a sum of what its merchant has earned, each entry is in  *)
(*    one payout at most, and the sum is not below the minimum;            *)
(*  - a merchant gets no payout while another waits to be submitted;       *)
(*  - a payout's sum is never revised, and its status only moves on.       *)
(*                                                                         *)
(* Settlement implements this specification when one cron runs.            *)
(***************************************************************************)
EXTENDS Integers, Sequences, FiniteSetsExt

CONSTANTS Merchants, Nets, MinSettlement

VARIABLES earned,   \* the entries credited to the merchants, in order
          payouts   \* the payouts, each with the entries it sums up

payoutVars == <<earned, payouts>>

PayoutInit ==
    /\ earned = <<>>
    /\ payouts = <<>>

Earn(m, net) ==
    /\ earned' = Append(earned, [merchant |-> m, net |-> net])
    /\ UNCHANGED payouts

EarnedBy(m) == {k \in DOMAIN earned : earned[k].merchant = m}
Earning(k) == earned[k].net

PayOut(m, S) ==
    /\ S \subseteq EarnedBy(m)
    /\ MapThenSumSet(Earning, S) >= MinSettlement
    /\ \A p \in DOMAIN payouts :
          /\ payouts[p].summed \intersect S = {}
          /\ payouts[p].merchant = m => payouts[p].status # "pending"
    /\ payouts' = Append(payouts, [merchant |-> m, summed |-> S, status |-> "pending"])
    /\ UNCHANGED earned

Moves == {<<"pending", "submitted">>, <<"pending", "failed">>,
          <<"submitted", "confirmed">>, <<"submitted", "failed">>}

MoveOn(p) ==
    /\ \E move \in Moves :
          /\ payouts[p].status = move[1]
          /\ payouts' = [payouts EXCEPT ![p].status = move[2]]
    /\ UNCHANGED earned

PayoutNext ==
    \/ \E m \in Merchants, net \in Nets : Earn(m, net)
    \/ \E m \in Merchants : \E S \in SUBSET EarnedBy(m) : PayOut(m, S)
    \/ \E p \in DOMAIN payouts : MoveOn(p)

PayoutSpec == PayoutInit /\ [][PayoutNext]_payoutVars
=============================================================================
