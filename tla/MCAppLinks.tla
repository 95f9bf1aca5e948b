----------------------------- MODULE MCAppLinks -----------------------------
(***************************************************************************)
(* Instances of AppLinks: a process that dials two others, and a game and  *)
(* a space, both of which have a connector.                                *)
(***************************************************************************)
EXTENDS AppLinks, TLC

CONSTANTS mgr, db, g1, g2

Both == {<<g1, mgr>>, <<g1, db>>}
Star == {<<g1, mgr>>, <<g2, mgr>>}
Chain == {<<g1, mgr>>, <<g2, g1>>}
Pair == {<<g1, mgr>>}
=============================================================================
