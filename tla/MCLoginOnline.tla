--------------------------- MODULE MCLoginOnline ----------------------------
(***************************************************************************)
(* Instances of LoginOnline: several clients of one account over one or    *)
(* two login and game processes.                                           *)
(***************************************************************************)
EXTENDS LoginOnline, TLC

CONSTANTS l1, l2, g1, g2, a, b

ClientSymmetry == Permutations(Clients)
\* No process is told from another by its name.
ProcessSymmetry == Permutations(Logins) \union Permutations(Games)
=============================================================================
