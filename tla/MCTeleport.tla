----------------------------- MODULE MCTeleport -----------------------------
(***************************************************************************)
(* Instances of Teleport: one or two players, public worlds 1 to 3 and a   *)
(* dungeon 7, clients that wait for their arrival or not.                  *)
(***************************************************************************)
EXTENDS Teleport, TLC
=============================================================================
