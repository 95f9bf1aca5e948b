-------------------------- MODULE MCComponentLife ---------------------------
(***************************************************************************)
(* Instances of ComponentLife: a few objects of each pool, and the types in *)
(* the orders that make a difference.                                      *)
(***************************************************************************)
EXTENDS ComponentLife, TLC

CONSTANTS w1, w2, x1, p1, p2, u1, u2, c1, c2

TypeOf == w1 :> "World" @@ w2 :> "World" @@ x1 :> "WorldProxy" @@ p1 :> "Part" @@ p2 :> "Part"
          @@ u1 :> "UpdateComponent" @@ u2 :> "UpdateComponent"
          @@ c1 :> "MessageCallBack" @@ c2 :> "MessageCallBack"
KindOfAll == [o \in Objects |-> TypeOf[o]]

\* The objects of a type are the same to the thread.
ObjectSymmetry == {f @@ g @@ h @@ k : f \in Permutations({w1, w2} \intersect Objects),
                   g \in Permutations({p1, p2} \intersect Objects),
                   h \in Permutations({u1, u2} \intersect Objects),
                   k \in Permutations({c1, c2} \intersect Objects)}

PartsFirst == <<"Part", "UpdateComponent", "MessageCallBack", "World", "WorldProxy">>
WorldFirst == <<"World", "Part">>
Functions == <<"MessageCallBack", "World", "WorldProxy">>

Periodic == <<"ever", "ever">>
Once == <<"once">>
OnceAndEver == <<"once", "ever">>
NoTimers == <<>>
=============================================================================
