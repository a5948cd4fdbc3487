-------------------------- MODULE MCReconcilerNow --------------------------
(***************************************************************************)
(* Reconciler started from the cursor "now", with an auxiliary variable    *)
(* that remembers where Horizon's history ended when the stream was first  *)
(* opened: what came before that moment was never asked for.               *)
(***************************************************************************)
EXTENDS MCReconciler

VARIABLE since  \* Len(horizon) at the first Connect, NOW before it

NowInit == Init /\ since = NOW

NowNext ==
    /\ Next
    /\ since' = IF since = NOW /\ \E r \in Reconcilers : pc'[r] = "reading"
                THEN Len(horizon)
                ELSE since

NowSpec == NowInit /\ [][NowNext]_<<vars, since>>

\* RECONCILER_INTEGRATION.md promises cursor-based resumable processing: no
\* payment that arrived since the stream was first opened is left behind the
\* saved cursor.  main.rs passes the cursor it read at boot to every retry of
\* run_stream, and "now" means a later moment in each of them.
NoPaymentSkipped == since # NOW => \A t \in (since + 1)..cursor : Settled(t)
=============================================================================
