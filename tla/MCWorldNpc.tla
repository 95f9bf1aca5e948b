----------------------------- MODULE MCWorldNpc -----------------------------
(***************************************************************************)
(* Instances of WorldNpc: two players, of one game or of two.              *)
(***************************************************************************)
EXTENDS WorldNpc, TLC

TwoGames == {{1}, {2}}
=============================================================================
