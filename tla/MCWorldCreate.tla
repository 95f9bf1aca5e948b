--------------------------- MODULE MCWorldCreate ----------------------------
(***************************************************************************)
(* Instances of WorldCreate: two games whose players want the same world,  *)
(* with and without spaces that die or come late.                          *)
(***************************************************************************)
EXTENDS WorldCreate, TLC

CONSTANTS g1, g2, s1, s2, a, b, c

TwoHomes == a :> g1 @@ b :> g2
ThreeHomes == a :> g1 @@ b :> g2 @@ c :> g2
BothHomes == a :> g1 @@ b :> g1
OneHome == a :> g1
OneWish == a :> 1
SameWish == a :> 1 @@ b :> 1
ThreeWish == a :> 1 @@ b :> 1 @@ c :> 1
=============================================================================
