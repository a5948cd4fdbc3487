---------------------------- MODULE MCSettlement ----------------------------
(***************************************************************************)
(* Instances of Settlement for TLC.  A net of 1 alone is below the minimum *)
(* settlement of 2, so entries wait for one another.                       *)
(***************************************************************************)
EXTENDS Settlement

MCNets == {1, 2}
OneNet == {2}
=============================================================================
