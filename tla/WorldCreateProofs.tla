-------------------------- MODULE WorldCreateProofs --------------------------
(***************************************************************************)
(* appmgr's tables for any number of games, spaces, worlds and crashes;    *)
(* and, as long as no space dies, that a public world is created once and  *)
(* that everybody means the same one.                                      *)
(***************************************************************************)
EXTENDS WorldCreate, FiniteSetTheorems, WellFoundedInduction, TLAPS

(***************************************************************************)
(* Numbers and finite sets.                                                *)
(***************************************************************************)
\* Every nonempty set of numbers has a least one.
LEMMA LeastNumber ==
    ASSUME NEW S \in SUBSET Nat, S # {}
    PROVE  \E x \in S : \A y \in S : x <= y
<1> DEFINE R == {ss \in Nat \X Nat : ss[1] < ss[2]}
<1>1. IsWellFoundedOn(R, Nat)
  BY NatLessThanWellFounded DEF OpToRel
<1>2. \A x, y \in Nat : <<y, x>> \in R \/ x <= y
  OBVIOUS
<1> HIDE DEF R
<1>3. PICK x \in S : \A y \in S : ~ (<<y, x>> \in R)
  BY <1>1, WFMin
<1> QED BY <1>2, <1>3

\* Induction over 0 .. N for a set: the provers take no operator as a parameter.
LEMMA IntervalInduction ==
    ASSUME NEW N \in Nat, NEW S, 0 \in S, \A k \in 0 .. N : k > 0 /\ k - 1 \in S => k \in S
    PROVE  \A k \in 0 .. N : k \in S
<1> DEFINE B == {k \in 0 .. N : k \notin S}
<1> SUFFICES ASSUME B # {} PROVE FALSE
  OBVIOUS
<1>1. B \in SUBSET Nat
  OBVIOUS
<1>2. PICK x \in B : \A y \in B : x <= y
  BY <1>1, LeastNumber
<1>3. x \in 0 .. N /\ x \notin S /\ x > 0
  BY <1>2
<1>4. x - 1 \in 0 .. N /\ x - 1 \notin B
  BY <1>2, <1>3
<1> QED BY <1>3, <1>4

MsgTypes == {"request", "create", "broadcast", "proxy", "sync", "disconnect"}
Message == [type : MsgTypes, arg : Worlds \union Sns \union Spaces]
\* What a link carries: a space announces its own worlds only, appmgr those of all.
Fits(l, m) ==
    /\ m.type \in {"request", "create"} => m.arg \in Worlds
    /\ m.type \in {"broadcast", "proxy"} => m.arg \in Sns
    /\ m.type = "broadcast" => l[1] \in {Mgr, m.arg.space}
Carried(l) == {m \in Message : Fits(l, m)}
LinkStates == {ls \in [Links -> Seq(Message)] : \A l \in Links : ls[l] \in Seq(Carried(l))}
\* What the logic thread of a game finds in its list.
LogicMsgs == {m \in Message : m.type \in {"create", "proxy"} => m.arg \in Sns}

MgrTypes ==
    /\ link \in LinkStates /\ apps \subseteq Spaces /\ up \subseteq Spaces
    /\ creating \in [Worlds -> Spaces \union {None}] /\ created \in [Worlds -> Sns \union {None}]
    /\ alive \subseteq Sns /\ lastSn \in 0 .. MaxSn /\ crashes \in Nat
\* A request to create a world goes to a space appmgr knows, until that space dies.
CreateKnown == \A s \in Spaces : link[<<Mgr, s>>] # <<>> => s \in apps \/ s \notin up
\* What a space announces arrives before the end of its connection, which is the last
\* message of a space that is down.
LastEnd(s, q, known, running) ==
    \A i \in DOMAIN q : /\ q[i].type = "broadcast" => s \in known
                        /\ q[i].type = "disconnect" => i = Len(q) /\ s \notin running
EndsLast == \A s \in Spaces : LastEnd(s, link[<<s, Mgr>>], apps, up)
MgrInv == MgrTypes /\ CreateKnown /\ EndsLast /\ MgrConsistent

GameTypes ==
    /\ posted \in [Games -> Seq(Sns)] /\ inbox \in [Games -> Seq(LogicMsgs)]
    /\ publics \in [Games -> [Worlds -> Sns \union {None}]]
    /\ target \in [Players -> Sns \union {None}]
    /\ waiting \in [Games -> [Worlds -> SUBSET Players]]

-----------------------------------------------------------------------------
(***************************************************************************)
(* While no space dies.                                                    *)
(***************************************************************************)
\* Nothing is said of a world that does not exist.
CalmMsgs(worlds) ==
    {m \in Message : /\ m.type # "disconnect"
                     /\ m.type \in {"broadcast", "proxy"} => m.arg \in worlds}
CalmLogic(worlds) == {m \in Message : m.type \in {"create", "proxy"} /\ m.arg \in worlds}
CalmLinks(worlds) == {ls \in [Links -> Seq(Message)] : \A l \in Links : ls[l] \in Seq(CalmMsgs(worlds))}
Quiet ==
    /\ crashes = 0 /\ up = Spaces /\ link \in CalmLinks(alive)
    /\ \A g \in Games : posted[g] \in Seq(alive) /\ inbox[g] \in Seq(CalmLogic(alive))
\* A world is asked for once: then it is noted as being created, and does not exist yet.
OnceAsked(s, q, noted, worlds) ==
    \A i \in DOMAIN q : q[i].type = "create" =>
        /\ noted[q[i].arg] = s /\ \A a \in worlds : a.world # q[i].arg
        /\ \A j \in DOMAIN q : q[j].type = "create" /\ q[j].arg = q[i].arg => i = j
AskedOnce == \A s \in Spaces : OnceAsked(s, link[<<Mgr, s>>], creating, alive)
\* appmgr knows of every world that exists or is to exist.
AllNoted ==
    \A w \in Worlds :
        /\ creating[w] = None /\ created[w] = None => \A a \in alive : a.world # w
        /\ created[w] # None => creating[w] = None /\ created[w] \in alive /\ created[w].world = w
\* Games and players mean worlds that exist.
Meant ==
    /\ \A g \in Games, w \in Worlds :
           /\ publics[g][w] # None => publics[g][w] \in alive /\ publics[g][w].world = w
           /\ \A p \in waiting[g][w] : Wish[p] = w
    /\ \A p \in Players : target[p] # None => target[p] \in alive /\ target[p].world = Wish[p]
CalmInv == Quiet /\ AskedOnce /\ AllNoted /\ UniqueWorld /\ Meant

-----------------------------------------------------------------------------
(***************************************************************************)
(* Sequences and links.                                                    *)
(***************************************************************************)
LEMMA TailSeq ==
    ASSUME NEW T, NEW q \in Seq(T), q # << >>
    PROVE  /\ Head(q) \in T /\ Head(q) = q[1] /\ 1 \in DOMAIN q /\ Tail(q) \in Seq(T)
           /\ Len(Tail(q)) = Len(q) - 1
           /\ \A i \in DOMAIN Tail(q) : i + 1 \in DOMAIN q /\ Tail(q)[i] = q[i + 1]
  OBVIOUS

LEMMA AppendSeq ==
    ASSUME NEW T, NEW q \in Seq(T), NEW m \in T
    PROVE  /\ Append(q, m) \in Seq(T) /\ Len(Append(q, m)) = Len(q) + 1
           /\ Append(q, m)[Len(q) + 1] = m /\ Append(q, m) # << >>
           /\ \A i \in DOMAIN q : i \in DOMAIN Append(q, m) /\ Append(q, m)[i] = q[i]
           /\ \A i \in DOMAIN Append(q, m) : i \in DOMAIN q \/ i = Len(q) + 1
  OBVIOUS

LEMMA FrontSeq ==
    ASSUME NEW T, NEW q \in Seq(T), NEW k \in Nat, k <= Len(q)
    PROVE  /\ SubSeq(q, 1, k) \in Seq(T) /\ Len(SubSeq(q, 1, k)) = k
           /\ \A i \in DOMAIN SubSeq(q, 1, k) : i \in DOMAIN q /\ SubSeq(q, 1, k)[i] = q[i]
  OBVIOUS

LEMMA SeqMonotonic ==
    ASSUME NEW T, NEW U, T \subseteq U, NEW q \in Seq(T)
    PROVE  q \in Seq(U)
<1>1. q \in [1 .. Len(q) -> T] /\ Len(q) \in Nat
  OBVIOUS
<1>2. q \in [1 .. Len(q) -> U]
  BY <1>1
<1> QED BY <1>1, <1>2

LEMMA LinkTaken ==
    ASSUME link \in LinkStates, NEW l \in Links, link[l] # << >>
    PROVE  /\ Taken(l) \in LinkStates /\ Got(l) \in Carried(l)
           /\ Taken(l)[l] = Tail(link[l]) /\ \A k \in Links \ {l} : Taken(l)[k] = link[k]
<1>1. link \in [Links -> Seq(Message)] /\ \A k \in Links : link[k] \in Seq(Carried(k))
  BY DEF LinkStates
<1>2. link[l] \in Seq(Message) /\ link[l] \in Seq(Carried(l))
  BY <1>1
<1>3. Tail(link[l]) \in Seq(Message) /\ Tail(link[l]) \in Seq(Carried(l)) /\ Head(link[l]) \in Carried(l)
  BY <1>2, TailSeq
<1>4. Taken(l) = [link EXCEPT ![l] = Tail(link[l])]
  BY DEF Taken
<1> QED BY <1>1, <1>3, <1>4 DEF LinkStates, Got

LEMMA LinkPut ==
    ASSUME NEW ls \in LinkStates, NEW l \in Links, NEW m \in Carried(l)
    PROVE  /\ Put(ls, l, m) \in LinkStates
           /\ Put(ls, l, m)[l] = Append(ls[l], m) /\ \A k \in Links \ {l} : Put(ls, l, m)[k] = ls[k]
<1>1. ls \in [Links -> Seq(Message)] /\ \A k \in Links : ls[k] \in Seq(Carried(k))
  BY DEF LinkStates
<1>2. m \in Message
  BY DEF Carried
<1>3. Append(ls[l], m) \in Seq(Message) /\ Append(ls[l], m) \in Seq(Carried(l))
  BY <1>1, <1>2
<1>4. Put(ls, l, m) = [ls EXCEPT ![l] = Append(ls[l], m)]
  BY DEF Put
<1> QED BY <1>1, <1>3, <1>4 DEF LinkStates

LEMMA LinksKnown ==
    /\ \A s \in Spaces : <<s, Mgr>> \in Links /\ <<Mgr, s>> \in Links
    /\ \A g \in Games : <<g, Mgr>> \in Links /\ <<Mgr, g>> \in Links /\ <<g, g>> \in Links
    /\ \A s \in Spaces, g \in Games : <<s, g>> \in Links
    /\ \A s \in Spaces : s # Mgr /\ \A g \in Games : s # g
    /\ \A g \in Games : g # Mgr
  BY ConstantsAssumption DEF Links

LEMMA MsgCarried ==
    ASSUME NEW l
    PROVE  /\ \A w \in Worlds : Msg("request", w) \in Carried(l) /\ Msg("create", w) \in Carried(l)
           /\ \A a \in Sns : Msg("proxy", a) \in Carried(l)
           /\ \A a \in Sns : l[1] \in {Mgr, a.space} => Msg("broadcast", a) \in Carried(l)
           /\ \A s \in Spaces : Msg("sync", s) \in Carried(l) /\ Msg("disconnect", s) \in Carried(l)
  BY DEF Msg, Carried, Message, MsgTypes, Fits
LEMMA BroadcastCarried ==
    ASSUME NEW l, NEW a \in Sns, l[1] \in {Mgr, a.space}
    PROVE  Msg("broadcast", a) \in Carried(l)
  BY MsgCarried

LEMMA LastEndTail ==
    ASSUME NEW s, NEW q \in Seq(Message), q # << >>, NEW known, NEW running, LastEnd(s, q, known, running)
    PROVE  LastEnd(s, Tail(q), known, running)
  BY TailSeq DEF LastEnd

LEMMA LastEndAppend ==
    ASSUME NEW s, NEW q \in Seq(Message), NEW m \in Message, NEW known, NEW running,
           LastEnd(s, q, known, running), s \in running, m.type # "disconnect",
           m.type = "broadcast" => s \in known
    PROVE  LastEnd(s, Append(q, m), known, running)
  BY AppendSeq DEF LastEnd

LEMMA LastEndCrash ==
    ASSUME NEW s, NEW q \in Seq(Message), NEW m \in Message, m.type = "disconnect", NEW known, NEW running,
           LastEnd(s, q, known, running), s \in running, NEW k \in Nat, k <= Len(q)
    PROVE  LastEnd(s, Append(SubSeq(q, 1, k), m), known, running \ {s})
<1> DEFINE f == SubSeq(q, 1, k)
<1>1. f \in Seq(Message) /\ Len(f) = k /\ \A i \in DOMAIN f : i \in DOMAIN q /\ f[i] = q[i]
  BY FrontSeq
<1> HIDE DEF f
<1>2. /\ Len(Append(f, m)) = k + 1 /\ Append(f, m)[k + 1] = m
      /\ \A i \in DOMAIN f : Append(f, m)[i] = f[i]
      /\ \A i \in DOMAIN Append(f, m) : i \in DOMAIN f \/ i = k + 1
  BY <1>1, AppendSeq
<1>3. LastEnd(s, Append(f, m), known, running \ {s})
  BY <1>1, <1>2 DEF LastEnd
<1> QED BY <1>3 DEF f

\* The requests of HandleNetworkDisconnect go to spaces of rest only.
Asked(ls, rest) ==
    {f \in LinkStates : \A l \in Links : (\A s \in rest : l # <<Mgr, s>>) => f[l] = ls[l]}
Stages(f, ls, again, to, m) ==
    f = [k \in 0 .. m |-> IF k = 0 THEN ls ELSE ReqCreateWorld(f[k - 1], again[k], to[again[k]])]

LEMMA StagesExist ==
    ASSUME NEW ls, NEW again, NEW to, NEW N \in Nat
    PROVE  \E f : Stages(f, ls, again, to, N)
<1> DEFINE Step(v, k) == ReqCreateWorld(v, again[k], to[again[k]])
           S == {m \in 0 .. N : \E f : Stages(f, ls, again, to, m)}
<1>1. 0 \in S
  <2> DEFINE f == [k \in 0 .. 0 |-> ls]
  <2>1. f = [k \in 0 .. 0 |-> IF k = 0 THEN ls ELSE Step(f[k - 1], k)]
    <3> HIDE DEF Step
    <3> QED OBVIOUS
  <2>2. Stages(f, ls, again, to, 0)
    BY <2>1 DEF Stages
  <2> QED BY <2>2
<1>2. ASSUME NEW m \in 0 .. N, m > 0, m - 1 \in S PROVE m \in S
  <2>1. PICK f : Stages(f, ls, again, to, m - 1)
    BY <1>2
  <2> DEFINE g == [k \in 0 .. m |-> IF k = m THEN Step(f[m - 1], m) ELSE f[k]]
  <2>2. \A k \in 0 .. m - 1 : f[k] = IF k = 0 THEN ls ELSE Step(f[k - 1], k)
    BY <2>1 DEF Stages
  <2> HIDE DEF Step
  <2>3. g[m] = Step(f[m - 1], m) /\ \A k \in 0 .. m - 1 : g[k] = f[k]
    BY <1>2
  <2>4. ASSUME NEW k \in 0 .. m PROVE g[k] = IF k = 0 THEN ls ELSE Step(g[k - 1], k)
    <3> HIDE DEF g
    <3>1. CASE k = 0
      BY <1>2, <2>2, <2>3, <3>1
    <3>2. CASE k = m
      <4>1. g[m - 1] = f[m - 1]
        BY <1>2, <2>3
      <4> QED BY <1>2, <2>3, <3>2, <4>1
    <3>3. CASE k # 0 /\ k # m
      <4>1. k \in 0 .. m - 1 /\ k - 1 \in 0 .. m - 1
        BY <3>3
      <4>2. g[k] = f[k] /\ g[k - 1] = f[k - 1]
        BY <2>3, <4>1
      <4> QED BY <2>2, <3>3, <4>1, <4>2
    <3> QED BY <3>1, <3>2, <3>3
  <2>5. g = [k \in 0 .. m |-> IF k = 0 THEN ls ELSE Step(g[k - 1], k)]
    <3> DEFINE h == [k \in 0 .. m |-> IF k = 0 THEN ls ELSE Step(g[k - 1], k)]
    <3>1. \A k \in 0 .. m : g[k] = h[k]
      BY <2>4
    <3> QED BY <3>1
  <2>6. Stages(g, ls, again, to, m)
    BY <2>5 DEF Stages, Step
  <2> QED BY <2>6
<1>3. \A k \in 0 .. N : k \in S
  <2> HIDE DEF S
  <2> QED BY <1>1, <1>2, IntervalInduction
<1>4. N \in S
  BY <1>3
<1> QED BY <1>4

LEMMA ResentAsked ==
    ASSUME NEW ls \in LinkStates, NEW lost \in SUBSET Worlds, NEW rest \in SUBSET Spaces,
           NEW to \in [lost -> rest], NEW again \in Ascending(lost)
    PROVE  Resent(ls, again, to) \in Asked(ls, rest)
<1> DEFINE N == Len(again)
           f == CHOOSE g : Stages(g, ls, again, to, N)
<1>1. again \in Seq(lost)
  <2>1. Cardinality(lost) \in Nat
    BY ConstantsAssumption, FS_Subset, FS_CardinalityType
  <2>2. again \in [1 .. Cardinality(lost) -> lost]
    BY DEF Ascending
  <2> QED BY <2>1, <2>2
<1>2. N \in Nat
  BY <1>1
<1>3. Stages(f, ls, again, to, N)
  BY <1>2, StagesExist
<1>4. Resent(ls, again, to) = f[N]
  BY DEF Resent, Stages
<1> HIDE DEF f
<1>5. \A k \in 0 .. N : f[k] = IF k = 0 THEN ls ELSE ReqCreateWorld(f[k - 1], again[k], to[again[k]])
  BY <1>3 DEF Stages
<1> DEFINE T == {k \in 0 .. N : f[k] \in Asked(ls, rest)}
<1>6. 0 \in T
  BY <1>2, <1>5 DEF Asked
<1>7. ASSUME NEW k \in 0 .. N, k > 0, k - 1 \in T PROVE k \in T
  <2> DEFINE w == again[k]
             s == to[w]
             l == <<Mgr, s>>
  <2>0. w \in lost /\ s \in rest
    BY <1>1, <1>7
  <2>1. w \in Worlds /\ s \in rest /\ l \in Links
    <3> HIDE DEF w, s
    <3> QED BY <2>0, LinksKnown
  <2>2. f[k - 1] \in LinkStates /\ Msg("create", w) \in Carried(l)
    BY <1>7, <2>1, MsgCarried DEF Asked
  <2>3. f[k] = Put(f[k - 1], l, Msg("create", w))
    BY <1>5, <1>7 DEF ReqCreateWorld
  <2> HIDE DEF w, l
  <2>4. f[k] \in LinkStates /\ \A x \in Links \ {l} : f[k][x] = f[k - 1][x]
    BY <2>1, <2>2, <2>3, LinkPut
  <2>5. f[k] \in Asked(ls, rest)
    BY <1>7, <2>1, <2>4 DEF Asked, l
  <2> QED BY <2>5
<1>8. \A k \in 0 .. N : k \in T
  <2> HIDE DEF T, N
  <2> QED BY <1>2, <1>6, <1>7, IntervalInduction
<1>9. f[N] \in Asked(ls, rest)
  BY <1>2, <1>8
<1> QED BY <1>4, <1>9

-----------------------------------------------------------------------------
(***************************************************************************)
(* appmgr's tables.                                                        *)
(***************************************************************************)
LEMMA MgrFrame ==
    ASSUME MgrInv, link' \in LinkStates, UNCHANGED <<mgrVars, spaceVars>>,
           \A s \in Spaces : /\ link'[<<Mgr, s>>] = link[<<Mgr, s>>]
                             /\ link'[<<s, Mgr>>] = link[<<s, Mgr>>]
    PROVE  MgrInv'
<1>1. MgrTypes'
  BY DEF MgrInv, MgrTypes, mgrVars, spaceVars
<1>2. CreateKnown'
  BY DEF MgrInv, CreateKnown, mgrVars, spaceVars
<1>3. EndsLast'
  BY DEF MgrInv, EndsLast, mgrVars, spaceVars
<1>4. MgrConsistent'
  BY DEF MgrInv, MgrConsistent, mgrVars
<1> QED BY <1>1, <1>2, <1>3, <1>4 DEF MgrInv

LEMMA LinkSeq ==
    ASSUME NEW ls \in LinkStates, NEW l \in Links
    PROVE  ls[l] \in Seq(Message) /\ ls[l] \in Seq(Carried(l))
  BY DEF LinkStates

LEMMA EnterMgr ==
    ASSUME MgrInv, NEW p \in Players, EnterPublicWorld(p)
    PROVE  MgrInv'
<1> DEFINE l == <<Home[p], Mgr>>
           m == Msg("request", Wish[p])
<1>1. Home[p] \in Games /\ Wish[p] \in Worlds /\ link \in LinkStates
  BY ConstantsAssumption DEF MgrInv, MgrTypes
<1>2. l \in Links /\ m \in Carried(l)
  BY <1>1, LinksKnown, MsgCarried
<1>3. link' = link \/ link' = Put(link, l, m)
  BY DEF EnterPublicWorld
<1>4. \A s \in Spaces : /\ <<Mgr, s>> \in Links \ {l} /\ <<s, Mgr>> \in Links \ {l}
  BY <1>1, LinksKnown
<1> HIDE DEF l, m
<1>5. link' \in LinkStates /\ \A k \in Links \ {l} : link'[k] = link[k]
  BY <1>1, <1>2, <1>3, LinkPut
<1>6. UNCHANGED <<mgrVars, spaceVars>>
  BY DEF EnterPublicWorld
<1> QED BY <1>4, <1>5, <1>6, MgrFrame

LEMMA RequestMgr ==
    ASSUME MgrInv, NEW g \in Games, HandleRequestWorld(g)
    PROVE  MgrInv'
<1> DEFINE l == <<g, Mgr>>
           w == Got(l).arg
           ls == Taken(l)
<1>1. /\ link \in LinkStates /\ l \in Links /\ link[l] # << >> /\ Got(l).type = "request"
      /\ UNCHANGED spaceVars
  BY LinksKnown DEF MgrInv, MgrTypes, HandleRequestWorld, Arrives
<1>2. ls \in LinkStates /\ w \in Worlds /\ \A k \in Links \ {l} : ls[k] = link[k]
  <2> HIDE DEF l
  <2>1. ls \in LinkStates /\ Got(l) \in Carried(l) /\ \A k \in Links \ {l} : ls[k] = link[k]
    BY <1>1, LinkTaken
  <2> QED BY <1>1, <2>1 DEF Carried, Fits
<1>3. \A s \in Spaces : /\ <<Mgr, s>> \in Links \ {l} /\ <<s, Mgr>> \in Links \ {l}
  BY LinksKnown
<1>4. CASE link' = ls /\ UNCHANGED mgrVars
  <2> HIDE DEF l, ls
  <2> QED BY <1>1, <1>2, <1>3, <1>4, MgrFrame
<1>5. CASE /\ created[w] # None /\ link' = Put(ls, <<Mgr, g>>, Msg("broadcast", created[w]))
           /\ UNCHANGED mgrVars
  <2> DEFINE k == <<Mgr, g>>
             m == Msg("broadcast", created[w])
  <2>1. created[w] \in Sns /\ k \in Links /\ k[1] = Mgr
    BY <1>2, <1>5, LinksKnown DEF MgrInv, MgrTypes
  <2>2. m \in Carried(k)
    <3> HIDE DEF k, w
    <3> QED BY <2>1, BroadcastCarried
  <2>3. \A s \in Spaces : /\ <<Mgr, s>> \in Links \ {k} /\ <<s, Mgr>> \in Links \ {k}
    BY LinksKnown
  <2>4. link' = Put(ls, k, m)
    BY <1>5
  <2> HIDE DEF k, m, ls, l
  <2>5. link' \in LinkStates /\ \A x \in Links \ {k} : link'[x] = ls[x]
    BY <1>2, <2>1, <2>2, <2>4, LinkPut
  <2>6. \A s \in Spaces : link'[<<Mgr, s>>] = link[<<Mgr, s>>] /\ link'[<<s, Mgr>>] = link[<<s, Mgr>>]
    BY <1>2, <1>3, <2>3, <2>5
  <2> QED BY <1>1, <1>5, <2>5, <2>6, MgrFrame
<1>6. ASSUME NEW s \in apps, link' = ReqCreateWorld(ls, w, s), creating' = MarkCreating(w, s),
             UNCHANGED <<apps, created>>
      PROVE  MgrInv'
  <2> DEFINE k == <<Mgr, s>>
             m == Msg("create", w)
  <2>1. s \in Spaces /\ k \in Links
    BY <1>6, LinksKnown DEF MgrInv, MgrTypes
  <2>2. m \in Carried(k) /\ link' = Put(ls, k, m)
    <3> HIDE DEF k, w
    <3>1. m \in Carried(k)
      BY <1>2, MsgCarried
    <3> QED BY <1>6, <3>1 DEF ReqCreateWorld, k, w
  <2>3. link' \in LinkStates /\ \A x \in Links \ {k} : link'[x] = ls[x]
    <3> HIDE DEF k, m, ls, l
    <3> QED BY <1>2, <2>1, <2>2, LinkPut
  <2>4. \A t \in Spaces : link'[<<t, Mgr>>] = link[<<t, Mgr>>] /\ (t # s => link'[<<Mgr, t>>] = link[<<Mgr, t>>])
    <3>1. \A t \in Spaces : <<t, Mgr>> \in Links \ {k} /\ (t # s => <<Mgr, t>> \in Links \ {k})
      BY LinksKnown, <2>1
    <3> HIDE DEF k, ls, l
    <3> QED BY <1>2, <1>3, <2>3, <3>1
  <2>5. creating' = [creating EXCEPT ![w] = s]
    BY <1>6 DEF MarkCreating
  <2> HIDE DEF w
  <2>6. MgrTypes'
    BY <1>1, <1>2, <1>6, <2>1, <2>3, <2>5 DEF MgrInv, MgrTypes, spaceVars
  <2>7. CreateKnown'
    BY <1>1, <1>6, <2>4 DEF MgrInv, CreateKnown, spaceVars
  <2>8. EndsLast'
    BY <1>1, <1>6, <2>4 DEF MgrInv, EndsLast, spaceVars
  <2>9. MgrConsistent'
    BY <1>2, <1>6, <2>5 DEF MgrInv, MgrTypes, MgrConsistent
  <2> QED BY <2>6, <2>7, <2>8, <2>9 DEF MgrInv
<1> QED BY <1>4, <1>5, <1>6 DEF HandleRequestWorld

\* What appmgr hears from a space: its link gets shorter.
LEMMA TakenFromSpace ==
    ASSUME MgrInv, NEW s \in Spaces, link[<<s, Mgr>>] # << >>
    PROVE  /\ Taken(<<s, Mgr>>) \in LinkStates /\ Got(<<s, Mgr>>) \in Carried(<<s, Mgr>>)
           /\ Taken(<<s, Mgr>>)[<<s, Mgr>>] = Tail(link[<<s, Mgr>>])
           /\ \A t \in Spaces : /\ Taken(<<s, Mgr>>)[<<Mgr, t>>] = link[<<Mgr, t>>]
                                 /\ LastEnd(t, Taken(<<s, Mgr>>)[<<t, Mgr>>], apps, up)
           /\ link[<<s, Mgr>>] \in Seq(Message)
<1> DEFINE l == <<s, Mgr>>
<1>1. link \in LinkStates /\ l \in Links /\ EndsLast
  BY LinksKnown DEF MgrInv, MgrTypes
<1>2. \A t \in Spaces : <<Mgr, t>> \in Links \ {l} /\ (t # s => <<t, Mgr>> \in Links \ {l})
  BY LinksKnown
<1>3. /\ Taken(l) \in LinkStates /\ Got(l) \in Carried(l)
      /\ Taken(l)[l] = Tail(link[l]) /\ \A k \in Links \ {l} : Taken(l)[k] = link[k]
  <2> HIDE DEF l
  <2> QED BY <1>1, LinkTaken DEF l
<1>4. link[l] \in Seq(Message)
  BY <1>1, LinkSeq
<1>5. ASSUME NEW t \in Spaces PROVE LastEnd(t, Taken(l)[<<t, Mgr>>], apps, up)
  <2>1. CASE t = s
    <3>1. LastEnd(s, link[l], apps, up)
      BY <1>1 DEF EndsLast
    <3>2. LastEnd(s, Tail(link[l]), apps, up)
      BY <1>4, <3>1, LastEndTail
    <3> QED BY <1>3, <2>1, <3>2
  <2>2. CASE t # s
    <3>1. Taken(l)[<<t, Mgr>>] = link[<<t, Mgr>>]
      BY <1>2, <1>3, <2>2
    <3> QED BY <1>1, <3>1 DEF EndsLast
  <2> QED BY <2>1, <2>2
<1> HIDE DEF l
<1>6. \A t \in Spaces : Taken(l)[<<Mgr, t>>] = link[<<Mgr, t>>]
  BY <1>2, <1>3
<1> QED BY <1>3, <1>4, <1>5, <1>6 DEF l

LEMMA BroadcastMgr ==
    ASSUME MgrInv, NEW s \in Spaces, MgrBroadcastCreateWorld(s)
    PROVE  MgrInv'
<1> DEFINE l == <<s, Mgr>>
           sn == Got(l).arg
           ls == Taken(l)
<1>1. /\ link[l] # << >> /\ Got(l).type = "broadcast" /\ link' = ls
      /\ created' = [created EXCEPT ![sn.world] = sn] /\ creating' = [creating EXCEPT ![sn.world] = None]
      /\ UNCHANGED <<apps, spaceVars>>
  BY DEF MgrBroadcastCreateWorld, Arrives
<1>2. /\ ls \in LinkStates /\ Got(l) \in Carried(l) /\ link[l] \in Seq(Message)
      /\ \A t \in Spaces : ls[<<Mgr, t>>] = link[<<Mgr, t>>] /\ LastEnd(t, ls[<<t, Mgr>>], apps, up)
  BY <1>1, TakenFromSpace
<1>3. sn \in Sns /\ sn.space = s
  <2>1. l[1] \in {Mgr, sn.space} /\ l[1] = s /\ s # Mgr /\ sn \in Sns
    BY <1>1, <1>2, ConstantsAssumption DEF Carried, Fits
  <2> QED BY <2>1
<1>4. s \in apps
  <2>1. Got(l) = link[l][1] /\ 1 \in DOMAIN link[l]
    BY <1>1, <1>2, TailSeq DEF Got
  <2>2. LastEnd(s, link[l], apps, up)
    BY DEF MgrInv, EndsLast
  <2> QED BY <1>1, <2>1, <2>2 DEF LastEnd
<1>5. sn.world \in Worlds
  BY <1>3 DEF Sns
<1> HIDE DEF sn, l, ls
<1>6. MgrTypes'
  BY <1>1, <1>2, <1>3, <1>5 DEF MgrInv, MgrTypes, spaceVars
<1>7. CreateKnown'
  BY <1>1, <1>2 DEF MgrInv, CreateKnown, spaceVars
<1>8. EndsLast'
  BY <1>1, <1>2 DEF EndsLast, spaceVars
<1>9. MgrConsistent'
  BY <1>1, <1>3, <1>4, <1>5 DEF MgrInv, MgrTypes, MgrConsistent
<1> QED BY <1>6, <1>7, <1>8, <1>9 DEF MgrInv

LEMMA LastEndMore ==
    ASSUME NEW s, NEW q, NEW known, NEW more, NEW running, known \subseteq more, LastEnd(s, q, known, running)
    PROVE  LastEnd(s, q, more, running)
  BY DEF LastEnd

LEMMA SyncMgr ==
    ASSUME MgrInv, NEW s \in Spaces, MgrAppInfoSync(s)
    PROVE  MgrInv'
<1> DEFINE l == <<s, Mgr>>
           ls == Taken(l)
<1>1. link[l] # << >> /\ link' = ls /\ apps' = apps \union {s} /\ UNCHANGED <<creating, created, spaceVars>>
  BY DEF MgrAppInfoSync, Arrives
<1>2. /\ ls \in LinkStates
      /\ \A t \in Spaces : ls[<<Mgr, t>>] = link[<<Mgr, t>>] /\ LastEnd(t, ls[<<t, Mgr>>], apps, up)
  BY <1>1, TakenFromSpace
<1> HIDE DEF ls, l
<1>3. MgrTypes'
  BY <1>1, <1>2 DEF MgrInv, MgrTypes, spaceVars
<1>4. CreateKnown'
  BY <1>1, <1>2 DEF MgrInv, CreateKnown, spaceVars
<1>5. EndsLast'
  <2>1. ASSUME NEW t \in Spaces PROVE LastEnd(t, ls[<<t, Mgr>>], apps \union {s}, up)
    BY <1>2, LastEndMore
  <2> QED BY <1>1, <2>1 DEF EndsLast, spaceVars
<1>6. MgrConsistent'
  BY <1>1 DEF MgrInv, MgrConsistent
<1> QED BY <1>3, <1>4, <1>5, <1>6 DEF MgrInv

LEMMA DisconnectMgr ==
    ASSUME MgrInv, NEW s \in Spaces, MgrNetworkDisconnect(s)
    PROVE  MgrInv'
<1> DEFINE l == <<s, Mgr>>
           ls == Taken(l)
           rest == apps \ {s}
           lost == {w \in Worlds : creating[w] = s}
<1>1. /\ link[l] # << >> /\ Got(l).type = "disconnect" /\ apps' = rest
      /\ creating' = [w \in Worlds |-> IF w \in lost THEN None ELSE creating[w]]
      /\ created' = DropCreated(s) /\ UNCHANGED spaceVars
      /\ link' = ls \/ \E to \in [lost -> rest], again \in Ascending(lost) : link' = Resent(ls, again, to)
  BY DEF MgrNetworkDisconnect, Arrives, AppsWithout
<1>2. /\ ls \in LinkStates /\ link[l] \in Seq(Message) /\ ls[l] = Tail(link[l])
      /\ \A t \in Spaces : ls[<<Mgr, t>>] = link[<<Mgr, t>>] /\ LastEnd(t, ls[<<t, Mgr>>], apps, up)
  BY <1>1, TakenFromSpace
<1>3. rest \in SUBSET Spaces /\ lost \in SUBSET Worlds /\ apps \subseteq Spaces
  BY DEF MgrInv, MgrTypes
<1>4. s \notin up /\ ls[l] = << >>
  <2>1. Got(l) = link[l][1] /\ 1 \in DOMAIN link[l]
    BY <1>1, <1>2, TailSeq DEF Got
  <2>2. LastEnd(s, link[l], apps, up)
    BY DEF MgrInv, EndsLast
  <2>3. Len(link[l]) = 1 /\ s \notin up
    BY <1>1, <2>1, <2>2 DEF LastEnd
  <2> HIDE DEF ls, l
  <2>4. ls[l] \in Seq(Message) /\ Len(ls[l]) = 0
    BY <1>1, <1>2, <2>3, TailSeq
  <2>5. ls[l] = << >>
    BY <2>4
  <2> QED BY <2>3, <2>5
<1> HIDE DEF ls, lost
<1>5. link' \in Asked(ls, rest)
  <2>1. CASE link' = ls
    BY <1>2, <2>1 DEF Asked
  <2>2. CASE \E to \in [lost -> rest], again \in Ascending(lost) : link' = Resent(ls, again, to)
    BY <1>2, <1>3, <2>2, ResentAsked
  <2> QED BY <1>1, <2>1, <2>2
<1>6. ASSUME NEW t \in Spaces
      PROVE  link'[<<t, Mgr>>] = ls[<<t, Mgr>>] /\ (t \notin rest => link'[<<Mgr, t>>] = link[<<Mgr, t>>])
  <2>1. <<t, Mgr>> \in Links /\ <<Mgr, t>> \in Links /\ t # Mgr
    BY LinksKnown
  <2>2. \A r \in rest : <<t, Mgr>> # <<Mgr, r>> /\ (t \notin rest => <<Mgr, t>> # <<Mgr, r>>)
    BY <2>1
  <2> QED BY <1>2, <1>5, <2>1, <2>2 DEF Asked
<1>7. MgrTypes'
  <2>1. creating' \in [Worlds -> Spaces \union {None}] /\ created' \in [Worlds -> Sns \union {None}]
    BY <1>1 DEF MgrInv, MgrTypes, DropCreated
  <2>2. link' \in LinkStates
    BY <1>5 DEF Asked
  <2> QED BY <1>1, <1>3, <2>1, <2>2 DEF MgrInv, MgrTypes, spaceVars
<1>8. CreateKnown'
  BY <1>1, <1>4, <1>6 DEF MgrInv, CreateKnown, spaceVars
<1>9. EndsLast'
  <2>1. ASSUME NEW t \in Spaces PROVE LastEnd(t, ls[<<t, Mgr>>], rest, up)
    <3>1. CASE t = s
      BY <1>4, <3>1 DEF LastEnd
    <3>2. CASE t # s
      BY <1>2, <3>2 DEF LastEnd
    <3> QED BY <3>1, <3>2
  <2> QED BY <1>1, <1>6, <2>1 DEF EndsLast, spaceVars
<1>10. MgrConsistent'
  BY <1>1 DEF MgrInv, MgrConsistent, MgrTypes, DropCreated, lost
<1> QED BY <1>7, <1>8, <1>9, <1>10 DEF MgrInv

LEMMA CreateMgr ==
    ASSUME MgrInv, NEW s \in Spaces, HandleCreateWorld(s)
    PROVE  MgrInv'
<1> DEFINE l == <<Mgr, s>>
           w == Got(l).arg
           sn == [sn |-> lastSn + 1, space |-> s, world |-> w]
           m == Msg("broadcast", sn)
<1>1. /\ s \in up /\ link[l] # << >> /\ Got(l).type = "create" /\ lastSn < MaxSn
      /\ lastSn' = lastSn + 1 /\ alive' = alive \union {sn}
      /\ link' = [k \in Links |-> IF k[1] = s THEN Append(link[k], m)
                                  ELSE IF k = l THEN Tail(link[k]) ELSE link[k]]
      /\ UNCHANGED <<up, crashes, mgrVars>>
  BY DEF HandleCreateWorld, Arrives
<1>2. link \in LinkStates /\ l \in Links /\ s # Mgr
  BY LinksKnown DEF MgrInv, MgrTypes
<1>3. w \in Worlds
  <2>1. Got(l) \in Carried(l)
    <3> HIDE DEF l
    <3> QED BY <1>1, <1>2, LinkTaken
  <2> QED BY <1>1, <2>1 DEF Carried, Fits
<1>4. sn \in Sns /\ sn.space = s
  BY <1>1, <1>3, ConstantsAssumption DEF MgrInv, MgrTypes, Sns
<1>5. s \in apps
  BY <1>1 DEF MgrInv, CreateKnown
<1>6. m \in Message /\ m.type = "broadcast" /\ \A k \in Links : k[1] = s => m \in Carried(k)
  <2> HIDE DEF sn
  <2>1. \A k \in Links : k[1] = s => m \in Carried(k)
    BY <1>4, BroadcastCarried
  <2>2. m \in Message /\ m.type = "broadcast"
    BY <1>4 DEF Msg, Message, MsgTypes
  <2> QED BY <2>1, <2>2
<1> HIDE DEF sn, m, w
<1>7. link' \in LinkStates
  <2>1. ASSUME NEW k \in Links PROVE link'[k] \in Seq(Message) /\ link'[k] \in Seq(Carried(k))
    <3>1. link[k] \in Seq(Message) /\ link[k] \in Seq(Carried(k))
      BY <1>2, LinkSeq
    <3>2. CASE k[1] = s
      <4>1. link'[k] = Append(link[k], m)
        BY <1>1, <3>2
      <4> QED BY <1>6, <3>1, <3>2, <4>1
    <3>3. CASE k[1] # s /\ k = l
      <4>1. link'[k] = Tail(link[k]) /\ link[k] # << >>
        BY <1>1, <3>3
      <4> QED BY <3>1, <4>1, TailSeq
    <3>4. CASE k[1] # s /\ k # l
      BY <1>1, <3>1, <3>4
    <3> QED BY <3>2, <3>3, <3>4
  <2> QED BY <1>1, <2>1 DEF LinkStates
<1>8. MgrTypes'
  BY <1>1, <1>4, <1>7, ConstantsAssumption DEF MgrInv, MgrTypes, mgrVars
<1>9. CreateKnown'
  <2>1. ASSUME NEW t \in Spaces, t # s PROVE link'[<<Mgr, t>>] = link[<<Mgr, t>>]
    BY <1>1, <1>2, <2>1, LinksKnown
  <2> QED BY <1>1, <1>5, <2>1 DEF MgrInv, CreateKnown, mgrVars
<1>10. EndsLast'
  <2>1. ASSUME NEW t \in Spaces PROVE LastEnd(t, link'[<<t, Mgr>>], apps, up)
    <3>1. <<t, Mgr>> \in Links /\ LastEnd(t, link[<<t, Mgr>>], apps, up) /\ t # Mgr
      BY LinksKnown DEF MgrInv, EndsLast
    <3>2. CASE t = s
      <4>1. link'[<<s, Mgr>>] = Append(link[<<s, Mgr>>], m) /\ link[<<s, Mgr>>] \in Seq(Message)
        BY <1>1, <1>2, <3>1, <3>2, LinkSeq
      <4>2. LastEnd(s, Append(link[<<s, Mgr>>], m), apps, up)
        BY <1>1, <1>5, <1>6, <3>1, <3>2, <4>1, LastEndAppend
      <4> QED BY <3>2, <4>1, <4>2
    <3>3. CASE t # s
      <4>1. link'[<<t, Mgr>>] = link[<<t, Mgr>>]
        BY <1>1, <3>1, <3>3
      <4> QED BY <3>1, <4>1
    <3> QED BY <3>2, <3>3
  <2> QED BY <1>1, <2>1 DEF EndsLast, mgrVars
<1>11. MgrConsistent'
  BY <1>1 DEF MgrInv, MgrConsistent, mgrVars
<1> QED BY <1>8, <1>9, <1>10, <1>11 DEF MgrInv

LEMMA ReportMgr ==
    ASSUME MgrInv, NEW s \in Spaces, SyncSpaceInfo(s)
    PROVE  MgrInv'
<1> DEFINE l == <<s, Mgr>>
           m == Msg("sync", s)
<1>1. s \in up /\ link' = Put(link, l, m) /\ UNCHANGED <<mgrVars, spaceVars>>
  BY DEF SyncSpaceInfo
<1>2. link \in LinkStates /\ l \in Links /\ s # Mgr
  BY LinksKnown DEF MgrInv, MgrTypes
<1>3. m \in Carried(l) /\ m \in Message /\ m.type = "sync"
  BY MsgCarried DEF Msg, Carried
<1>4. /\ link' \in LinkStates /\ link'[l] = Append(link[l], m) /\ link[l] \in Seq(Message)
      /\ \A k \in Links \ {l} : link'[k] = link[k]
  <2> HIDE DEF l, m
  <2> QED BY <1>1, <1>2, <1>3, LinkPut, LinkSeq
<1>5. \A t \in Spaces : <<Mgr, t>> \in Links \ {l} /\ (t # s => <<t, Mgr>> \in Links \ {l})
  BY LinksKnown
<1>6. LastEnd(s, link'[l], apps, up)
  <2>1. LastEnd(s, link[l], apps, up)
    BY DEF MgrInv, EndsLast
  <2>2. m.type # "disconnect" /\ m.type # "broadcast"
    BY <1>3
  <2> HIDE DEF l, m
  <2> QED BY <1>1, <1>3, <1>4, <2>1, <2>2, LastEndAppend
<1>7. MgrTypes'
  BY <1>1, <1>4 DEF MgrInv, MgrTypes, mgrVars, spaceVars
<1>8. CreateKnown'
  BY <1>1, <1>4, <1>5 DEF MgrInv, CreateKnown, mgrVars, spaceVars
<1>9. EndsLast'
  <2>1. ASSUME NEW t \in Spaces PROVE LastEnd(t, link'[<<t, Mgr>>], apps, up)
    <3>1. CASE t = s
      BY <1>6, <3>1
    <3>2. CASE t # s
      <4>1. link'[<<t, Mgr>>] = link[<<t, Mgr>>]
        BY <1>4, <1>5, <3>2
      <4> QED BY <4>1 DEF MgrInv, EndsLast
    <3> QED BY <3>1, <3>2
  <2> QED BY <1>1, <2>1 DEF EndsLast, mgrVars, spaceVars
<1>10. MgrConsistent'
  BY <1>1 DEF MgrInv, MgrConsistent, mgrVars
<1> QED BY <1>7, <1>8, <1>9, <1>10 DEF MgrInv

LEMMA CrashMgr ==
    ASSUME MgrInv, NEW s \in Spaces, Crash(s)
    PROVE  MgrInv'
<1> DEFINE m == Msg("disconnect", s)
<1>1. /\ s \in up /\ up' = up \ {s} /\ alive' = {a \in alive : a.space # s} /\ crashes' = crashes + 1
      /\ UNCHANGED <<lastSn, mgrVars>>
  BY DEF Crash
<1>2. PICK keep \in [{Mgr} \union Games -> 0 .. MaxSn + 1] :
           /\ \A q \in {Mgr} \union Games : keep[q] <= Len(link[<<s, q>>])
           /\ link' = [k \in Links |->
                 IF k = <<Mgr, s>> THEN << >>
                 ELSE IF k[1] = s THEN Append(SubSeq(link[k], 1, keep[k[2]]), m) ELSE link[k]]
  BY DEF Crash
<1>3. link \in LinkStates /\ s # Mgr /\ \A k : m \in Carried(k)
  BY LinksKnown, MsgCarried DEF MgrInv, MgrTypes
<1>4. m \in Message /\ m.type = "disconnect"
  BY DEF Msg, Message, MsgTypes
<1> HIDE DEF m
<1>5. ASSUME NEW k \in Links, k[1] = s
      PROVE  k[2] \in {Mgr} \union Games /\ keep[k[2]] \in Nat /\ keep[k[2]] <= Len(link[k])
  <2>1. k[2] \in {Mgr} \union Games /\ k = <<s, k[2]>>
    BY <1>5, ConstantsAssumption DEF Links
  <2>2. keep[k[2]] \in 0 .. MaxSn + 1
    BY <2>1
  <2>3. keep[k[2]] <= Len(link[<<s, k[2]>>])
    BY <1>2, <2>1
  <2> QED BY <2>1, <2>2, <2>3
<1>6. link' \in LinkStates
  <2>1. ASSUME NEW k \in Links PROVE link'[k] \in Seq(Message) /\ link'[k] \in Seq(Carried(k))
    <3>1. link[k] \in Seq(Message) /\ link[k] \in Seq(Carried(k))
      BY <1>3, LinkSeq
    <3>2. CASE k = <<Mgr, s>>
      BY <1>2, <3>2
    <3>3. CASE k # <<Mgr, s>> /\ k[1] = s
      <4> DEFINE f == SubSeq(link[k], 1, keep[k[2]])
      <4>1. link'[k] = Append(f, m)
        BY <1>2, <3>3
      <4>2. f \in Seq(Message) /\ f \in Seq(Carried(k))
        <5>1. keep[k[2]] \in Nat /\ keep[k[2]] <= Len(link[k])
          BY <1>5, <3>3
        <5> QED BY <3>1, <5>1, FrontSeq
      <4> HIDE DEF f
      <4> QED BY <1>3, <1>4, <4>1, <4>2
    <3>4. CASE k # <<Mgr, s>> /\ k[1] # s
      BY <1>2, <3>1, <3>4
    <3> QED BY <3>2, <3>3, <3>4
  <2> QED BY <1>2, <2>1 DEF LinkStates
<1>7. MgrTypes'
  BY <1>1, <1>6 DEF MgrInv, MgrTypes, mgrVars
<1>8. CreateKnown'
  <2>1. ASSUME NEW t \in Spaces, t # s PROVE link'[<<Mgr, t>>] = link[<<Mgr, t>>]
    BY <1>2, <1>3, <2>1, LinksKnown
  <2> QED BY <1>1, <2>1 DEF MgrInv, CreateKnown, mgrVars
<1>9. EndsLast'
  <2>1. ASSUME NEW t \in Spaces PROVE LastEnd(t, link'[<<t, Mgr>>], apps, up \ {s})
    <3>1. /\ <<t, Mgr>> \in Links /\ LastEnd(t, link[<<t, Mgr>>], apps, up) /\ t # Mgr
          /\ link[<<t, Mgr>>] \in Seq(Message)
      BY <1>3, LinksKnown, LinkSeq DEF MgrInv, EndsLast
    <3>2. CASE t = s
      <4> DEFINE q == link[<<s, Mgr>>]
                 n == keep[Mgr]
      <4>1. link'[<<s, Mgr>>] = Append(SubSeq(q, 1, n), m)
        BY <1>2, <1>3, <3>1, <3>2
      <4>2. n \in Nat /\ n <= Len(q) /\ q \in Seq(Message) /\ LastEnd(s, q, apps, up)
        BY <1>5, <3>1, <3>2
      <4> HIDE DEF q, n
      <4>3. LastEnd(s, Append(SubSeq(q, 1, n), m), apps, up \ {s})
        BY <1>1, <1>4, <4>2, LastEndCrash
      <4> QED BY <3>2, <4>1, <4>3
    <3>3. CASE t # s
      <4>1. link'[<<t, Mgr>>] = link[<<t, Mgr>>]
        BY <1>2, <3>1, <3>3
      <4> QED BY <3>1, <4>1 DEF LastEnd
    <3> QED BY <3>2, <3>3
  <2> QED BY <1>1, <2>1 DEF EndsLast, mgrVars
<1>10. MgrConsistent'
  BY <1>1 DEF MgrInv, MgrConsistent, mgrVars
<1> QED BY <1>7, <1>8, <1>9, <1>10 DEF MgrInv

LEMMA RestartMgr ==
    ASSUME MgrInv, NEW s \in Spaces, Restart(s)
    PROVE  MgrInv'
<1> DEFINE l == <<Mgr, s>>
<1>1. /\ link[<<s, Mgr>>] = << >> /\ up' = up \union {s}
      /\ link' = [link EXCEPT ![l] = << >>] /\ UNCHANGED <<alive, lastSn, crashes, mgrVars>>
  BY DEF Restart
<1>2. link \in LinkStates /\ l \in Links /\ s # Mgr
  BY LinksKnown DEF MgrInv, MgrTypes
<1>3. link' \in LinkStates /\ link'[l] = << >> /\ \A k \in Links \ {l} : link'[k] = link[k]
  <2> HIDE DEF l
  <2>1. << >> \in Seq(Message) /\ << >> \in Seq(Carried(l))
    OBVIOUS
  <2>2. link \in [Links -> Seq(Message)] /\ \A k \in Links : link[k] \in Seq(Carried(k))
    BY <1>2 DEF LinkStates
  <2>3. link' \in [Links -> Seq(Message)] /\ link'[l] = << >> /\ \A k \in Links \ {l} : link'[k] = link[k]
    BY <1>1, <1>2, <2>1, <2>2
  <2> QED BY <2>1, <2>2, <2>3 DEF LinkStates
<1>4. \A t \in Spaces : <<t, Mgr>> \in Links \ {l} /\ (t # s => <<Mgr, t>> \in Links \ {l})
  BY LinksKnown
<1>5. MgrTypes'
  BY <1>1, <1>3 DEF MgrInv, MgrTypes, mgrVars
<1>6. CreateKnown'
  BY <1>1, <1>3, <1>4 DEF MgrInv, CreateKnown, mgrVars
<1>7. EndsLast'
  <2>1. ASSUME NEW t \in Spaces PROVE LastEnd(t, link'[<<t, Mgr>>], apps, up \union {s})
    <3>1. link'[<<t, Mgr>>] = link[<<t, Mgr>>] /\ LastEnd(t, link[<<t, Mgr>>], apps, up)
      BY <1>3, <1>4 DEF MgrInv, EndsLast
    <3>2. CASE t = s
      BY <1>1, <3>1, <3>2 DEF LastEnd
    <3>3. CASE t # s
      BY <3>1, <3>3 DEF LastEnd
    <3> QED BY <3>2, <3>3
  <2> QED BY <1>1, <2>1 DEF EndsLast, mgrVars
<1>8. MgrConsistent'
  BY <1>1 DEF MgrInv, MgrConsistent, mgrVars
<1> QED BY <1>5, <1>6, <1>7, <1>8 DEF MgrInv

\* What happens in a game leaves appmgr's links alone.
LEMMA GameMgr ==
    ASSUME MgrInv, GameTypes, NEW g \in Games, GameStep(g)
    PROVE  MgrInv'
<1>0. link \in LinkStates
  BY DEF MgrInv, MgrTypes
<1>1. ASSUME NEW from \in Spaces \union {Mgr, g}, link[<<from, g>>] # << >>, link' = Taken(<<from, g>>),
             UNCHANGED <<mgrVars, spaceVars>>
      PROVE  MgrInv'
  <2> DEFINE l == <<from, g>>
  <2>1. l \in Links /\ \A s \in Spaces : <<Mgr, s>> \in Links \ {l} /\ <<s, Mgr>> \in Links \ {l}
    BY LinksKnown
  <2> HIDE DEF l
  <2>2. link' \in LinkStates /\ \A k \in Links \ {l} : link'[k] = link[k]
    BY <1>0, <1>1, <2>1, LinkTaken DEF l
  <2> QED BY <1>1, <2>1, <2>2, MgrFrame
<1>2. ASSUME link' = link, UNCHANGED <<mgrVars, spaceVars>> PROVE MgrInv'
  BY <1>0, <1>2, MgrFrame
<1>3. CASE ProxyAwake(g)
  <2> DEFINE l == <<g, g>>
             m == Msg("proxy", Head(inbox[g]).arg)
  <2>1. link' = Put(link, l, m) /\ UNCHANGED <<mgrVars, spaceVars>>
    BY <1>3 DEF ProxyAwake
  <2>2. l \in Links /\ \A s \in Spaces : <<Mgr, s>> \in Links \ {l} /\ <<s, Mgr>> \in Links \ {l}
    BY LinksKnown
  <2>3. Head(inbox[g]).arg \in Sns
    <3>1. inbox[g] \in Seq(LogicMsgs) /\ inbox[g] # << >> /\ Head(inbox[g]).type = "create"
      BY <1>3 DEF GameTypes, ProxyAwake, LogicGets
    <3>2. Head(inbox[g]) \in LogicMsgs
      BY <3>1, TailSeq
    <3> QED BY <3>1, <3>2 DEF LogicMsgs
  <2>4. m \in Carried(l)
    BY <2>3, MsgCarried
  <2> HIDE DEF l, m
  <2>5. link' \in LinkStates /\ \A k \in Links \ {l} : link'[k] = link[k]
    BY <1>0, <2>1, <2>2, <2>4, LinkPut
  <2> QED BY <2>1, <2>2, <2>5, MgrFrame
<1>4. CASE \E from \in Spaces \union {Mgr, g} : LocatorBroadcastCreateWorld(g, from) \/ GameDispatch(g, from)
  BY <1>1, <1>4 DEF LocatorBroadcastCreateWorld, GameDispatch, Arrives
<1>5. CASE GameCreate(g) \/ ProxyNetworkDisconnect(g) \/ LobbyBroadcastCreateWorldProxy(g)
  BY <1>2, <1>5 DEF GameCreate, ProxyNetworkDisconnect, LobbyBroadcastCreateWorldProxy
<1> QED BY <1>3, <1>4, <1>5 DEF GameStep

\* The types of what the games keep.
LEMMA GameTypesStep ==
    ASSUME MgrInv, GameTypes, Next
    PROVE  GameTypes'
<1> USE DEF GameTypes
<1>0. link \in LinkStates
  BY DEF MgrInv, MgrTypes
<1>1. ASSUME UNCHANGED <<gameVars, lobbyVars>> PROVE GameTypes'
  BY <1>1 DEF gameVars, lobbyVars
<1>2. ASSUME NEW p \in Players, EnterPublicWorld(p) PROVE GameTypes'
  <2>1. Home[p] \in Games /\ Wish[p] \in Worlds
    BY ConstantsAssumption
  <2> DEFINE g == Home[p]
             w == Wish[p]
  <2>2. target' \in [Players -> Sns \union {None}]
    <3>1. target' = target \/ target' = [target EXCEPT ![p] = publics[g][w]]
      BY <1>2 DEF EnterPublicWorld
    <3>2. publics[g][w] \in Sns \union {None}
      BY <2>1
    <3> QED BY <3>1, <3>2
  <2>3. waiting' \in [Games -> [Worlds -> SUBSET Players]]
    <3>1. waiting' = waiting \/ waiting' = [waiting EXCEPT ![g][w] = waiting[g][w] \union {p}]
      BY <1>2 DEF EnterPublicWorld
    <3>2. waiting[g][w] \union {p} \in SUBSET Players
      BY <2>1
    <3>3. g \in Games /\ w \in Worlds
      BY <2>1
    <3> HIDE DEF g, w
    <3>4. ASSUME NEW x \in SUBSET Players
          PROVE  [waiting EXCEPT ![g][w] = x] \in [Games -> [Worlds -> SUBSET Players]]
      BY <3>3
    <3> QED BY <3>1, <3>2, <3>4
  <2> QED BY <1>2, <2>2, <2>3 DEF EnterPublicWorld, gameVars
<1>3. CASE MgrStep \/ \E s \in Spaces : SpaceStep(s) \/ Crash(s) \/ Restart(s)
  BY <1>1, <1>3 DEF MgrStep, SpaceStep, HandleRequestWorld, MgrBroadcastCreateWorld, MgrAppInfoSync,
                    MgrNetworkDisconnect, HandleCreateWorld, SyncSpaceInfo, Crash, Restart
<1>4. ASSUME NEW g \in Games, NEW from \in Spaces \union {Mgr, g}, LocatorBroadcastCreateWorld(g, from)
      PROVE  GameTypes'
  <2> DEFINE l == <<from, g>>
  <2>1. l \in Links /\ link[l] # << >> /\ Got(l).type = "broadcast"
    BY <1>4, LinksKnown DEF LocatorBroadcastCreateWorld, Arrives
  <2>2. Got(l).arg \in Sns
    <3> HIDE DEF l
    <3>1. Got(l) \in Carried(l)
      BY <1>0, <2>1, LinkTaken
    <3> QED BY <2>1, <3>1 DEF Carried, Fits
  <2>3. posted' = posted \/ posted' = [posted EXCEPT ![g] = Append(posted[g], Got(l).arg)]
    BY <1>4 DEF LocatorBroadcastCreateWorld
  <2> HIDE DEF l
  <2>4. posted' \in [Games -> Seq(Sns)]
    <3>1. Append(posted[g], Got(l).arg) \in Seq(Sns)
      BY <2>2
    <3> QED BY <2>3, <3>1
  <2> QED BY <1>4, <2>4 DEF LocatorBroadcastCreateWorld, lobbyVars
<1>5. ASSUME NEW g \in Games, NEW from \in Spaces \union {Mgr, g}, GameDispatch(g, from) PROVE GameTypes'
  <2> DEFINE l == <<from, g>>
  <2>1. l \in Links /\ link[l] # << >> /\ Got(l).type \in {"disconnect", "proxy"}
    BY <1>5, LinksKnown DEF GameDispatch
  <2>2. Got(l) \in LogicMsgs
    <3> HIDE DEF l
    <3>1. Got(l) \in Carried(l)
      BY <1>0, <2>1, LinkTaken
    <3> QED BY <2>1, <3>1 DEF Carried, Fits, LogicMsgs
  <2>3. inbox' = [inbox EXCEPT ![g] = Append(inbox[g], Got(l))]
    BY <1>5 DEF GameDispatch
  <2> HIDE DEF l
  <2>4. inbox' \in [Games -> Seq(LogicMsgs)]
    BY <2>2, <2>3
  <2> QED BY <1>5, <2>4 DEF GameDispatch, lobbyVars
<1>6. ASSUME NEW g \in Games, GameCreate(g) PROVE GameTypes'
  <2> DEFINE q == [i \in DOMAIN posted[g] |-> Msg("create", posted[g][i])]
  <2>1. posted[g] \in Seq(Sns) /\ inbox[g] \in Seq(LogicMsgs)
    BY <1>6
  <2>2. \A a \in Sns : Msg("create", a) \in LogicMsgs
    BY DEF Msg, LogicMsgs, Message, MsgTypes
  <2>3. q \in Seq(LogicMsgs)
    <3>1. DOMAIN posted[g] = 1 .. Len(posted[g]) /\ Len(posted[g]) \in Nat
      BY <2>1
    <3>2. \A i \in DOMAIN posted[g] : posted[g][i] \in Sns
      BY <2>1
    <3>3. q \in [1 .. Len(posted[g]) -> LogicMsgs]
      BY <2>2, <3>1, <3>2
    <3> DEFINE n == Len(posted[g])
    <3>4. n \in Nat /\ q \in [1 .. n -> LogicMsgs]
      BY <3>1, <3>3
    <3> HIDE DEF q, n
    <3> QED BY <3>4
  <2>4. inbox' = [inbox EXCEPT ![g] = inbox[g] \o q] /\ posted' = [posted EXCEPT ![g] = << >>]
    BY <1>6 DEF GameCreate
  <2> HIDE DEF q
  <2>5. inbox[g] \o q \in Seq(LogicMsgs) /\ << >> \in Seq(Sns)
    BY <2>1, <2>3
  <2>6. inbox' \in [Games -> Seq(LogicMsgs)] /\ posted' \in [Games -> Seq(Sns)]
    BY <2>4, <2>5
  <2> QED BY <1>6, <2>6 DEF GameCreate, lobbyVars
<1>7. ASSUME NEW g \in Games, NEW type, LogicGets(g, type)
      PROVE  /\ Head(inbox[g]) \in LogicMsgs /\ Head(inbox[g]).type = type
             /\ [inbox EXCEPT ![g] = Tail(inbox[g])] \in [Games -> Seq(LogicMsgs)]
  <2>1. inbox[g] \in Seq(LogicMsgs) /\ inbox[g] # << >> /\ Head(inbox[g]).type = type
    BY <1>7 DEF LogicGets
  <2>2. Head(inbox[g]) \in LogicMsgs /\ Tail(inbox[g]) \in Seq(LogicMsgs)
    BY <2>1, TailSeq
  <2> QED BY <2>1, <2>2
<1>8. ASSUME NEW g \in Games, ProxyAwake(g) PROVE GameTypes'
  <2> DEFINE sn == Head(inbox[g]).arg
  <2>1. LogicGets(g, "create") /\ publics' = RegisterToLocator(g, sn)
        /\ inbox' = [inbox EXCEPT ![g] = Tail(inbox[g])] /\ UNCHANGED <<posted, lobbyVars>>
    BY <1>8 DEF ProxyAwake
  <2>2. sn \in Sns /\ inbox' \in [Games -> Seq(LogicMsgs)]
    BY <1>7, <2>1 DEF LogicMsgs
  <2>3. sn.world \in Worlds
    BY <2>2 DEF Sns
  <2> HIDE DEF sn
  <2>4. publics' \in [Games -> [Worlds -> Sns \union {None}]]
    BY <2>1, <2>2, <2>3 DEF RegisterToLocator
  <2> QED BY <2>1, <2>2, <2>4 DEF lobbyVars
<1>9. ASSUME NEW g \in Games, ProxyNetworkDisconnect(g) PROVE GameTypes'
  <2>1. /\ LogicGets(g, "disconnect") /\ \E sns : publics' = Removed(g, sns)
        /\ inbox' = [inbox EXCEPT ![g] = Tail(inbox[g])] /\ UNCHANGED <<posted, lobbyVars>>
    BY <1>9 DEF ProxyNetworkDisconnect
  <2>2. publics' \in [Games -> [Worlds -> Sns \union {None}]]
    BY <2>1 DEF Removed
  <2>3. inbox' \in [Games -> Seq(LogicMsgs)]
    BY <1>7, <2>1
  <2> QED BY <2>1, <2>2, <2>3 DEF lobbyVars
<1>10. ASSUME NEW g \in Games, LobbyBroadcastCreateWorldProxy(g) PROVE GameTypes'
  <2> DEFINE sn == Head(inbox[g]).arg
  <2>1. /\ LogicGets(g, "proxy") /\ LobbyProxyCreated(g, sn)
        /\ inbox' = [inbox EXCEPT ![g] = Tail(inbox[g])] /\ UNCHANGED <<posted, publics>>
    BY <1>10 DEF LobbyBroadcastCreateWorldProxy
  <2>2. sn \in Sns /\ inbox' \in [Games -> Seq(LogicMsgs)]
    BY <1>7, <2>1 DEF LogicMsgs
  <2>3. sn.world \in Worlds
    BY <2>2 DEF Sns
  <2> HIDE DEF sn
  <2>4. target' \in [Players -> Sns \union {None}] /\ waiting' \in [Games -> [Worlds -> SUBSET Players]]
    BY <2>1, <2>2, <2>3 DEF LobbyProxyCreated
  <2> QED BY <2>1, <2>2, <2>4
<1> QED BY <1>2, <1>3, <1>4, <1>5, <1>6, <1>8, <1>9, <1>10 DEF Next, GameStep

-----------------------------------------------------------------------------
\* The tables of appmgr and all that is on its way stay consistent, whatever spaces
\* die, come back or come late, in any number.
THEOREM MgrCorrect == Spec => [](MgrInv /\ GameTypes)
<1>1. Init => MgrInv /\ GameTypes
  <2> SUFFICES ASSUME Init PROVE MgrInv /\ GameTypes
    OBVIOUS
  <2>1. link \in LinkStates /\ \A l \in Links : link[l] = << >>
    <3>1. link = [l \in Links |-> << >>] /\ << >> \in Seq(Message) /\ \A l : << >> \in Seq(Carried(l))
      BY DEF Init
    <3> QED BY <3>1 DEF LinkStates
  <2>2. MgrTypes
    BY <2>1, ConstantsAssumption DEF Init, MgrTypes
  <2>3. CreateKnown /\ EndsLast
    <3>1. \A s \in Spaces : link[<<s, Mgr>>] = << >> /\ link[<<Mgr, s>>] = << >>
      BY <2>1, LinksKnown
    <3>2. \A s : LastEnd(s, << >>, apps, up)
      BY DEF LastEnd
    <3> QED BY <3>1, <3>2 DEF CreateKnown, EndsLast
  <2>4. MgrConsistent
    BY DEF Init, MgrConsistent
  <2>5. GameTypes
    BY DEF Init, GameTypes
  <2> QED BY <2>2, <2>3, <2>4, <2>5 DEF MgrInv
<1>2. MgrInv /\ GameTypes /\ [Next]_vars => (MgrInv /\ GameTypes)'
  <2> SUFFICES ASSUME MgrInv, GameTypes, [Next]_vars PROVE MgrInv' /\ GameTypes'
    OBVIOUS
  <2>1. CASE Next
    <3>1. GameTypes'
      BY <2>1, GameTypesStep
    <3>2. MgrInv'
      BY <2>1, EnterMgr, RequestMgr, BroadcastMgr, SyncMgr, DisconnectMgr, CreateMgr, ReportMgr,
         CrashMgr, RestartMgr, GameMgr DEF Next, MgrStep, SpaceStep
    <3> QED BY <3>1, <3>2
  <2>2. CASE UNCHANGED vars
    <3>1. link' = link /\ UNCHANGED <<mgrVars, spaceVars>> /\ link \in LinkStates
      BY <2>2 DEF vars, MgrInv, MgrTypes
    <3>2. MgrInv'
      BY <3>1, MgrFrame
    <3>3. GameTypes'
      BY <2>2 DEF vars, gameVars, lobbyVars, GameTypes
    <3> QED BY <3>2, <3>3
  <2> QED BY <2>1, <2>2
<1> QED BY <1>1, <1>2, PTL DEF Spec

\* The type invariant.
THEOREM TypeCorrect == Spec => []TypeOK
<1>1. MgrInv /\ GameTypes => TypeOK
  BY DEF MgrInv, MgrTypes, GameTypes, TypeOK
<1> QED BY <1>1, MgrCorrect, PTL

\* CreateWorldComponent::HandleNetworkDisconnect leaves no entry behind, and none comes
\* later from a message that was still on its way.
THEOREM MgrConsistentCorrect == Spec => []MgrConsistent
<1>1. MgrInv => MgrConsistent
  BY DEF MgrInv
<1> QED BY <1>1, MgrCorrect, PTL

-----------------------------------------------------------------------------
(***************************************************************************)
(* While no space dies: a world is asked for once.                         *)
(***************************************************************************)
Creates == {m \in Message : m.type = "create" => m.arg \in Worlds}

LEMMA OnceTail ==
    ASSUME NEW s, NEW q \in Seq(Creates), q # << >>, NEW noted, NEW worlds, OnceAsked(s, q, noted, worlds),
           NEW a, q[1].type = "create", a.world = q[1].arg
    PROVE  OnceAsked(s, Tail(q), noted, worlds \union {a})
<1>1. \A i \in DOMAIN Tail(q) : i + 1 \in DOMAIN q /\ Tail(q)[i] = q[i + 1] /\ i \in Nat /\ i # 0
  BY TailSeq
<1>2. 1 \in DOMAIN q
  OBVIOUS
<1> SUFFICES ASSUME NEW i \in DOMAIN Tail(q), Tail(q)[i].type = "create"
             PROVE  /\ noted[Tail(q)[i].arg] = s /\ \A b \in worlds \union {a} : b.world # Tail(q)[i].arg
                    /\ \A j \in DOMAIN Tail(q) :
                          Tail(q)[j].type = "create" /\ Tail(q)[j].arg = Tail(q)[i].arg => i = j
  BY DEF OnceAsked
<1>3. i + 1 \in DOMAIN q /\ Tail(q)[i] = q[i + 1] /\ i + 1 # 1
  BY <1>1
<1>4. noted[q[i + 1].arg] = s /\ \A b \in worlds : b.world # q[i + 1].arg
  BY <1>3 DEF OnceAsked
<1>5. \A j \in DOMAIN q : q[j].type = "create" /\ q[j].arg = q[i + 1].arg => i + 1 = j
  BY <1>3 DEF OnceAsked
<1>6. a.world # q[i + 1].arg
  BY <1>2, <1>3, <1>5
<1>7. ASSUME NEW j \in DOMAIN Tail(q), Tail(q)[j].type = "create", Tail(q)[j].arg = Tail(q)[i].arg PROVE i = j
  <2>1. j + 1 \in DOMAIN q /\ Tail(q)[j] = q[j + 1] /\ j \in Nat /\ i \in Nat
    BY <1>1
  <2>2. i + 1 = j + 1
    BY <1>3, <1>5, <1>7, <2>1
  <2> QED BY <2>1, <2>2
<1> QED BY <1>3, <1>4, <1>6, <1>7

\* A world that is noted for another space, or not at all, is not on the way to this one.
LEMMA NotAsked ==
    ASSUME NEW s, NEW q, NEW noted, NEW worlds, OnceAsked(s, q, noted, worlds), NEW w, noted[w] # s
    PROVE  \A i \in DOMAIN q : q[i].type = "create" => q[i].arg # w
  BY DEF OnceAsked

LEMMA OnceOther ==
    ASSUME NEW s, NEW q, NEW noted, NEW worlds, OnceAsked(s, q, noted, worlds), NEW a, noted[a.world] # s
    PROVE  OnceAsked(s, q, noted, worlds \union {a})
  BY DEF OnceAsked

\* The note of a world that is not on the way to this space may change.
LEMMA OnceNoted ==
    ASSUME NEW s, NEW q \in Seq(Creates), NEW noted, DOMAIN noted = Worlds, NEW worlds,
           OnceAsked(s, q, noted, worlds), NEW w \in Worlds, NEW x,
           \A i \in DOMAIN q : q[i].type = "create" => q[i].arg # w
    PROVE  OnceAsked(s, q, [noted EXCEPT ![w] = x], worlds)
<1>1. \A i \in DOMAIN q : q[i].type = "create" => q[i].arg \in Worlds /\ q[i].arg # w
  BY DEF Creates
<1>2. \A v \in Worlds : v # w => [noted EXCEPT ![w] = x][v] = noted[v]
  OBVIOUS
<1> QED BY <1>1, <1>2 DEF OnceAsked

LEMMA OnceAppend ==
    ASSUME NEW s, NEW q \in Seq(Creates), NEW noted, DOMAIN noted = Worlds, NEW worlds,
           OnceAsked(s, q, noted, worlds), NEW w \in Worlds,
           \A i \in DOMAIN q : q[i].type = "create" => q[i].arg # w,
           \A a \in worlds : a.world # w
    PROVE  OnceAsked(s, Append(q, Msg("create", w)), [noted EXCEPT ![w] = s], worlds)
<1> DEFINE m == Msg("create", w)
           n == [noted EXCEPT ![w] = s]
           r == Append(q, m)
<1>1. OnceAsked(s, q, n, worlds)
  BY OnceNoted
<1>2. m.type = "create" /\ m.arg = w /\ m \in Creates /\ n[w] = s
  BY DEF Msg, Creates, Message, MsgTypes
<1> HIDE DEF m, n
<1>3. /\ r[Len(q) + 1] = m /\ Len(q) + 1 \notin DOMAIN q /\ \A i \in DOMAIN q : r[i] = q[i]
      /\ \A i \in DOMAIN r : i \in DOMAIN q \/ i = Len(q) + 1
  BY <1>2, AppendSeq
<1> HIDE DEF r
<1> SUFFICES ASSUME NEW i \in DOMAIN r, r[i].type = "create"
             PROVE  /\ n[r[i].arg] = s /\ \A b \in worlds : b.world # r[i].arg
                    /\ \A j \in DOMAIN r : r[j].type = "create" /\ r[j].arg = r[i].arg => i = j
  BY DEF OnceAsked, m, n, r
<1>4. CASE i \in DOMAIN q
  <2>1. r[i] = q[i] /\ r[i].arg # w
    BY <1>3, <1>4
  <2>2. n[r[i].arg] = s /\ \A b \in worlds : b.world # r[i].arg
    BY <1>1, <1>4, <2>1 DEF OnceAsked
  <2>3. ASSUME NEW j \in DOMAIN r, r[j].type = "create", r[j].arg = r[i].arg PROVE i = j
    <3>1. j \in DOMAIN q /\ r[j] = q[j]
      BY <1>2, <1>3, <2>1, <2>3
    <3> QED BY <1>1, <1>4, <2>1, <2>3, <3>1 DEF OnceAsked
  <2> QED BY <2>2, <2>3
<1>5. CASE i = Len(q) + 1
  <2>1. r[i] = m
    BY <1>3, <1>5
  <2>2. ASSUME NEW j \in DOMAIN r, r[j].type = "create", r[j].arg = w PROVE i = j
    BY <1>3, <1>5, <2>2
  <2> QED BY <1>2, <2>1, <2>2
<1> QED BY <1>3, <1>4, <1>5

LEMMA CalmTaken ==
    ASSUME link \in CalmLinks(alive), NEW l \in Links, link[l] # << >>
    PROVE  Taken(l) \in CalmLinks(alive) /\ Got(l) \in CalmMsgs(alive)
<1>1. link \in [Links -> Seq(Message)] /\ \A k \in Links : link[k] \in Seq(CalmMsgs(alive))
  BY DEF CalmLinks
<1>2. link[l] \in Seq(Message) /\ link[l] \in Seq(CalmMsgs(alive))
  BY <1>1
<1>3. Tail(link[l]) \in Seq(Message) /\ Tail(link[l]) \in Seq(CalmMsgs(alive)) /\ Head(link[l]) \in CalmMsgs(alive)
  BY <1>2, TailSeq
<1>4. Taken(l) = [link EXCEPT ![l] = Tail(link[l])]
  BY DEF Taken
<1> QED BY <1>1, <1>3, <1>4 DEF CalmLinks, Got

LEMMA CalmPut ==
    ASSUME NEW worlds, NEW ls \in CalmLinks(worlds), NEW l \in Links, NEW m \in CalmMsgs(worlds)
    PROVE  Put(ls, l, m) \in CalmLinks(worlds)
<1>1. ls \in [Links -> Seq(Message)] /\ \A k \in Links : ls[k] \in Seq(CalmMsgs(worlds))
  BY DEF CalmLinks
<1>2. m \in Message
  BY DEF CalmMsgs
<1>3. Append(ls[l], m) \in Seq(Message) /\ Append(ls[l], m) \in Seq(CalmMsgs(worlds))
  BY <1>1, <1>2
<1>4. Put(ls, l, m) = [ls EXCEPT ![l] = Append(ls[l], m)]
  BY DEF Put
<1> QED BY <1>1, <1>3, <1>4 DEF CalmLinks

LEMMA CalmCarried ==
    ASSUME NEW worlds, worlds \subseteq Sns
    PROVE  /\ \A w \in Worlds : Msg("request", w) \in CalmMsgs(worlds) /\ Msg("create", w) \in CalmMsgs(worlds)
           /\ \A a \in worlds : Msg("proxy", a) \in CalmMsgs(worlds) /\ Msg("broadcast", a) \in CalmMsgs(worlds)
           /\ \A s \in Spaces : Msg("sync", s) \in CalmMsgs(worlds)
  BY DEF Msg, CalmMsgs, Message, MsgTypes

\* Nothing changes for appmgr and the worlds.
LEMMA CalmFrame ==
    ASSUME CalmInv, UNCHANGED <<mgrVars, spaceVars>>, link' \in CalmLinks(alive),
           \A s \in Spaces : link'[<<Mgr, s>>] = link[<<Mgr, s>>],
           \A g \in Games : posted'[g] \in Seq(alive) /\ inbox'[g] \in Seq(CalmLogic(alive)),
           Meant'
    PROVE  CalmInv'
<1>1. Quiet'
  BY DEF CalmInv, Quiet, spaceVars
<1>2. AskedOnce'
  BY DEF CalmInv, AskedOnce, mgrVars, spaceVars
<1>3. AllNoted'
  BY DEF CalmInv, AllNoted, mgrVars, spaceVars
<1>4. UniqueWorld'
  BY DEF CalmInv, UniqueWorld, spaceVars
<1> QED BY <1>1, <1>2, <1>3, <1>4 DEF CalmInv

LEMMA CreateLinks ==
    ASSUME MgrInv, NEW l \in Links
    PROVE  link[l] \in Seq(Creates)
<1>1. link[l] \in Seq(Carried(l))
  BY LinkSeq DEF MgrInv, MgrTypes
<1>2. Carried(l) \subseteq Creates
  BY DEF Carried, Fits, Creates
<1> QED BY <1>1, <1>2, SeqMonotonic

LEMMA MeantFrame ==
    ASSUME Meant, alive \subseteq alive', UNCHANGED <<publics, lobbyVars>>
    PROVE  Meant'
  BY DEF Meant, lobbyVars

LEMMA EnterCalm ==
    ASSUME MgrInv, GameTypes, CalmInv, NEW p \in Players, EnterPublicWorld(p)
    PROVE  CalmInv'
<1> DEFINE g == Home[p]
           w == Wish[p]
           l == <<g, Mgr>>
           m == Msg("request", w)
<1>1. g \in Games /\ w \in Worlds /\ alive \subseteq Sns
  BY ConstantsAssumption DEF MgrInv, MgrTypes
<1>2. l \in Links /\ m \in CalmMsgs(alive) /\ m \in Carried(l)
  BY <1>1, LinksKnown, CalmCarried, MsgCarried
<1>3. link' = link \/ link' = Put(link, l, m)
  BY DEF EnterPublicWorld
<1>4. \A s \in Spaces : <<Mgr, s>> \in Links \ {l}
  BY <1>1, LinksKnown
<1>5. link \in CalmLinks(alive) /\ link \in LinkStates
  BY DEF CalmInv, Quiet, MgrInv, MgrTypes
<1>6. UNCHANGED <<mgrVars, spaceVars, gameVars>>
  BY DEF EnterPublicWorld
<1>7. Meant'
  <2>1. CASE target' = [target EXCEPT ![p] = publics[g][w]] /\ UNCHANGED waiting
    <3>1. publics[g][w] # None => publics[g][w] \in alive /\ publics[g][w].world = w
      BY <1>1 DEF CalmInv, Meant
    <3>2. ASSUME NEW r \in Players, target'[r] # None PROVE target'[r] \in alive /\ target'[r].world = Wish[r]
      <4>1. CASE r = p
        <5>1. target'[r] = publics[g][w]
          BY <2>1, <4>1 DEF GameTypes
        <5> QED BY <3>1, <3>2, <4>1, <5>1
      <4>2. CASE r # p
        BY <2>1, <3>2, <4>2 DEF GameTypes, CalmInv, Meant
      <4> QED BY <4>1, <4>2
    <3> QED BY <1>6, <2>1, <3>2 DEF CalmInv, Meant, gameVars, spaceVars
  <2>2. CASE waiting' = [waiting EXCEPT ![g][w] = waiting[g][w] \union {p}] /\ UNCHANGED target
    <3>1. ASSUME NEW h \in Games, NEW v \in Worlds, NEW r \in waiting'[h][v] PROVE Wish[r] = v
      <4>1. CASE h = g /\ v = w
        <5>1. waiting'[h][v] = waiting[g][w] \union {p}
          BY <1>1, <2>2, <4>1 DEF GameTypes
        <5>2. r \in waiting[h][v] \/ r = p
          BY <4>1, <5>1
        <5> QED BY <4>1, <5>2 DEF CalmInv, Meant
      <4>2. CASE ~ (h = g /\ v = w)
        <5>1. waiting'[h][v] = waiting[h][v]
          <6> HIDE DEF g, w
          <6> QED BY <1>1, <2>2, <4>2 DEF GameTypes
        <5> QED BY <5>1 DEF CalmInv, Meant
      <4> QED BY <4>1, <4>2
    <3> QED BY <1>6, <2>2, <3>1 DEF CalmInv, Meant, gameVars, spaceVars
  <2> QED BY <2>1, <2>2 DEF EnterPublicWorld
<1> HIDE DEF l, m
<1>8. link' \in CalmLinks(alive) /\ \A k \in Links \ {l} : link'[k] = link[k]
  BY <1>2, <1>3, <1>5, CalmPut, LinkPut
<1>9. \A h \in Games : posted'[h] \in Seq(alive) /\ inbox'[h] \in Seq(CalmLogic(alive))
  BY <1>6 DEF CalmInv, Quiet, gameVars
<1> QED BY <1>4, <1>6, <1>7, <1>8, <1>9, CalmFrame

LEMMA RequestCalm ==
    ASSUME MgrInv, CalmInv, NEW g \in Games, HandleRequestWorld(g)
    PROVE  CalmInv'
<1> DEFINE l == <<g, Mgr>>
           w == Got(l).arg
           ls == Taken(l)
<1>1. /\ link \in LinkStates /\ link \in CalmLinks(alive) /\ l \in Links /\ link[l] # << >>
      /\ Got(l).type = "request" /\ alive \subseteq Sns /\ UNCHANGED <<spaceVars, gameVars, lobbyVars>>
  BY LinksKnown DEF MgrInv, MgrTypes, CalmInv, Quiet, HandleRequestWorld, Arrives
<1>2. /\ ls \in LinkStates /\ ls \in CalmLinks(alive) /\ w \in Worlds
      /\ \A k \in Links \ {l} : ls[k] = link[k]
  <2> HIDE DEF l
  <2>1. /\ ls \in LinkStates /\ ls \in CalmLinks(alive) /\ Got(l) \in Carried(l)
        /\ \A k \in Links \ {l} : ls[k] = link[k]
    BY <1>1, LinkTaken, CalmTaken
  <2> QED BY <1>1, <2>1 DEF Carried, Fits
<1>3. \A s \in Spaces : <<Mgr, s>> \in Links \ {l}
  BY LinksKnown
<1>4. Meant' /\ \A h \in Games : posted'[h] \in Seq(alive) /\ inbox'[h] \in Seq(CalmLogic(alive))
  BY <1>1, MeantFrame DEF CalmInv, Quiet, gameVars, spaceVars
<1>5. CASE link' = ls /\ UNCHANGED mgrVars
  <2> HIDE DEF l, ls
  <2> QED BY <1>1, <1>2, <1>3, <1>4, <1>5, CalmFrame
<1>6. CASE /\ created[w] # None /\ link' = Put(ls, <<Mgr, g>>, Msg("broadcast", created[w]))
           /\ UNCHANGED mgrVars
  <2> DEFINE k == <<Mgr, g>>
             m == Msg("broadcast", created[w])
  <2>1. created[w] \in alive /\ k \in Links /\ \A s \in Spaces : <<Mgr, s>> \in Links \ {k}
    <3>1. k \in Links /\ \A s \in Spaces : <<Mgr, s>> \in Links \ {k}
      BY LinksKnown
    <3>2. created[w] \in alive
      BY <1>2, <1>6 DEF CalmInv, AllNoted
    <3> QED BY <3>1, <3>2
  <2>2. m \in CalmMsgs(alive)
    <3> HIDE DEF w
    <3> QED BY <1>1, <2>1, CalmCarried
  <2>3. link' = Put(ls, k, m) /\ ls \in [Links -> Seq(Message)]
    BY <1>2, <1>6 DEF LinkStates
  <2> HIDE DEF k, m, ls, l
  <2>4. link' \in CalmLinks(alive) /\ \A x \in Links \ {k} : link'[x] = ls[x]
    BY <1>2, <2>1, <2>2, <2>3, CalmPut DEF Put
  <2>5. \A s \in Spaces : link'[<<Mgr, s>>] = link[<<Mgr, s>>]
    BY <1>2, <1>3, <2>1, <2>4
  <2> QED BY <1>1, <1>4, <1>6, <2>4, <2>5, CalmFrame
<1>7. ASSUME ~ BeingCreated(w), created[w] = None,
             NEW s \in apps, link' = ReqCreateWorld(ls, w, s), creating' = MarkCreating(w, s),
             UNCHANGED <<apps, created>>
      PROVE  CalmInv'
  <2> DEFINE k == <<Mgr, s>>
             m == Msg("create", w)
  <2>1. s \in Spaces /\ k \in Links /\ creating[w] = None /\ s # None
    BY <1>7, LinksKnown, NoneAssumption DEF MgrInv, MgrTypes, BeingCreated
  <2>2. m \in CalmMsgs(alive) /\ link' = Put(ls, k, m) /\ ls \in [Links -> Seq(Message)]
    BY <1>1, <1>2, <1>7, CalmCarried DEF ReqCreateWorld, LinkStates
  <2>3. creating' = [creating EXCEPT ![w] = s] /\ creating \in [Worlds -> Spaces \union {None}]
    BY <1>7 DEF MarkCreating, MgrInv, MgrTypes
  <2>4. link' \in CalmLinks(alive) /\ link'[k] = Append(ls[k], m) /\ \A x \in Links \ {k} : link'[x] = ls[x]
    <3> HIDE DEF k, m, ls, l
    <3> QED BY <1>2, <2>1, <2>2, CalmPut DEF Put
  <2>5. \A a \in alive : a.world # w
    BY <1>2, <1>7, <2>1 DEF CalmInv, AllNoted
  <2>6. ASSUME NEW t \in Spaces PROVE OnceAsked(t, link'[<<Mgr, t>>], creating', alive)
    <3> DEFINE q == link[<<Mgr, t>>]
    <3>1. q \in Seq(Creates) /\ OnceAsked(t, q, creating, alive) /\ ls[<<Mgr, t>>] = q /\ t # None
      <4>1. <<Mgr, t>> \in Links \ {l}
        BY <1>3
      <4>2. q \in Seq(Creates)
        BY <4>1, CreateLinks
      <4> HIDE DEF l, ls
      <4> QED BY <1>2, <4>1, <4>2, NoneAssumption DEF CalmInv, AskedOnce
    <3> HIDE DEF q, w
    <3>2. \A i \in DOMAIN q : q[i].type = "create" => q[i].arg # w
      BY <2>1, <3>1, NotAsked
    <3>3. DOMAIN creating = Worlds
      BY <2>3
    <3>4. CASE t = s
      <4>1. OnceAsked(s, Append(q, m), creating', alive)
        BY <1>2, <2>3, <2>5, <3>1, <3>2, <3>3, <3>4, OnceAppend
      <4> QED BY <2>4, <3>1, <3>4, <4>1
    <3>5. CASE t # s
      <4>1. link'[<<Mgr, t>>] = q
        BY <1>3, <2>4, <3>1, <3>5
      <4>2. OnceAsked(t, q, [creating EXCEPT ![w] = s], alive)
        BY <1>2, <3>1, <3>2, <3>3, OnceNoted
      <4> QED BY <2>3, <4>1, <4>2
    <3> QED BY <3>4, <3>5
  <2> HIDE DEF w
  <2>7. Quiet'
    BY <1>1, <1>4, <2>4 DEF CalmInv, Quiet, spaceVars
  <2>8. AskedOnce'
    BY <1>1, <2>6 DEF AskedOnce, spaceVars
  <2>9. AllNoted'
    BY <1>1, <1>2, <1>7, <2>1, <2>3 DEF CalmInv, AllNoted, spaceVars
  <2>10. UniqueWorld'
    BY <1>1 DEF CalmInv, UniqueWorld, spaceVars
  <2> QED BY <1>4, <2>7, <2>8, <2>9, <2>10 DEF CalmInv
<1> QED BY <1>5, <1>6, <1>7 DEF HandleRequestWorld

LEMMA BroadcastCalm ==
    ASSUME MgrInv, CalmInv, NEW s \in Spaces, MgrBroadcastCreateWorld(s)
    PROVE  CalmInv'
<1> DEFINE l == <<s, Mgr>>
           sn == Got(l).arg
           w == sn.world
           ls == Taken(l)
<1>1. /\ link[l] # << >> /\ Got(l).type = "broadcast" /\ link' = ls
      /\ created' = [created EXCEPT ![w] = sn] /\ creating' = [creating EXCEPT ![w] = None]
      /\ UNCHANGED <<apps, spaceVars, gameVars, lobbyVars>>
  BY DEF MgrBroadcastCreateWorld, Arrives
<1>2. /\ link \in LinkStates /\ link \in CalmLinks(alive) /\ l \in Links /\ alive \subseteq Sns
      /\ creating \in [Worlds -> Spaces \union {None}] /\ created \in [Worlds -> Sns \union {None}]
  BY LinksKnown DEF MgrInv, MgrTypes, CalmInv, Quiet
<1>3. \A t \in Spaces : <<Mgr, t>> \in Links \ {l}
  BY LinksKnown
<1>4. /\ ls \in CalmLinks(alive) /\ sn \in alive /\ \A k \in Links \ {l} : ls[k] = link[k]
  <2> HIDE DEF l
  <2>1. /\ ls \in CalmLinks(alive) /\ Got(l) \in CalmMsgs(alive)
        /\ \A k \in Links \ {l} : ls[k] = link[k]
    BY <1>1, <1>2, LinkTaken, CalmTaken
  <2> QED BY <1>1, <2>1 DEF CalmMsgs
<1>5. w \in Worlds /\ sn # None
  BY <1>2, <1>4, NoneAssumption DEF Sns
<1>6. Meant' /\ \A h \in Games : posted'[h] \in Seq(alive) /\ inbox'[h] \in Seq(CalmLogic(alive))
  BY <1>1, MeantFrame DEF CalmInv, Quiet, gameVars, spaceVars
<1>7. ASSUME NEW t \in Spaces PROVE OnceAsked(t, link'[<<Mgr, t>>], creating', alive)
  <2> DEFINE q == link[<<Mgr, t>>]
  <2>1. link'[<<Mgr, t>>] = q
    <3> HIDE DEF l, ls
    <3> QED BY <1>1, <1>3, <1>4
  <2>2. q \in Seq(Creates) /\ OnceAsked(t, q, creating, alive)
    BY <1>3, CreateLinks DEF CalmInv, AskedOnce
  <2> HIDE DEF q
  <2>3. \A i \in DOMAIN q : q[i].type = "create" => q[i].arg # w
    BY <1>4, <2>2 DEF OnceAsked
  <2> HIDE DEF w
  <2>4. OnceAsked(t, q, [creating EXCEPT ![w] = None], alive)
    BY <1>2, <1>5, <2>2, <2>3, OnceNoted
  <2> QED BY <1>1, <2>1, <2>4
<1> HIDE DEF sn, ls
<1>8. Quiet'
  BY <1>1, <1>4, <1>6 DEF CalmInv, Quiet, spaceVars
<1>9. AskedOnce'
  BY <1>1, <1>7 DEF AskedOnce, spaceVars
<1>10. AllNoted'
  BY <1>1, <1>2, <1>4, <1>5 DEF CalmInv, AllNoted, spaceVars
<1>11. UniqueWorld'
  BY <1>1 DEF CalmInv, UniqueWorld, spaceVars
<1> QED BY <1>6, <1>8, <1>9, <1>10, <1>11 DEF CalmInv

LEMMA MoreCalm ==
    ASSUME NEW A, NEW B, A \subseteq B
    PROVE  CalmLinks(A) \subseteq CalmLinks(B) /\ Seq(CalmLogic(A)) \subseteq Seq(CalmLogic(B)) /\ Seq(A) \subseteq Seq(B)
<1>1. CalmMsgs(A) \subseteq CalmMsgs(B) /\ CalmLogic(A) \subseteq CalmLogic(B)
  BY DEF CalmMsgs, CalmLogic
<1>2. CalmLinks(A) \subseteq CalmLinks(B)
  BY <1>1, SeqMonotonic DEF CalmLinks
<1> QED BY <1>1, <1>2, SeqMonotonic

LEMMA CreateCalm ==
    ASSUME MgrInv, CalmInv, NEW s \in Spaces, HandleCreateWorld(s)
    PROVE  CalmInv'
<1> DEFINE l == <<Mgr, s>>
           q == link[l]
           w == Got(l).arg
           sn == [sn |-> lastSn + 1, space |-> s, world |-> w]
           m == Msg("broadcast", sn)
           A == alive \union {sn}
<1>1. /\ q # << >> /\ Got(l).type = "create" /\ lastSn < MaxSn /\ alive' = A
      /\ link' = [k \in Links |-> IF k[1] = s THEN Append(link[k], m)
                                  ELSE IF k = l THEN Tail(link[k]) ELSE link[k]]
      /\ UNCHANGED <<up, crashes, mgrVars, gameVars, lobbyVars>>
  BY DEF HandleCreateWorld, Arrives
<1>2. /\ link \in LinkStates /\ link \in CalmLinks(alive) /\ l \in Links /\ s # Mgr /\ alive \subseteq Sns
      /\ q \in Seq(Creates) /\ OnceAsked(s, q, creating, alive)
  <2>1. l \in Links /\ s # Mgr
    BY LinksKnown
  <2>2. q \in Seq(Creates)
    BY <2>1, CreateLinks
  <2> QED BY <2>1, <2>2 DEF MgrInv, MgrTypes, CalmInv, Quiet, AskedOnce
<1>3. Got(l) = q[1] /\ 1 \in DOMAIN q /\ q[1].type = "create" /\ q[1].arg = w /\ w \in Worlds
  <2>1. Got(l) = q[1] /\ 1 \in DOMAIN q
    BY <1>1, <1>2 DEF Got
  <2> QED BY <1>1, <1>2, <2>1 DEF Creates
<1>4. sn \in Sns /\ sn.world = w
  BY <1>1, <1>3, ConstantsAssumption DEF MgrInv, MgrTypes, Sns
<1>5. creating[w] = s /\ \A a \in alive : a.world # w
  <2> HIDE DEF q, w
  <2> QED BY <1>2, <1>3 DEF OnceAsked
<1>6. A \subseteq Sns /\ alive \subseteq A /\ sn \in A
  BY <1>2, <1>4
<1> HIDE DEF sn, w
<1>7. m \in CalmMsgs(A) /\ m \in Message
  BY <1>6, CalmCarried DEF CalmMsgs
<1> HIDE DEF m
<1>8. link' \in CalmLinks(A)
  <2>0. link \in CalmLinks(A)
    <3> HIDE DEF A
    <3> QED BY <1>2, <1>6, MoreCalm
  <2>1. ASSUME NEW k \in Links PROVE link'[k] \in Seq(Message) /\ link'[k] \in Seq(CalmMsgs(A))
    <3>1. link[k] \in Seq(Message) /\ link[k] \in Seq(CalmMsgs(A))
      BY <2>0 DEF CalmLinks
    <3> HIDE DEF A
    <3>2. CASE k[1] = s
      <4>1. link'[k] = Append(link[k], m)
        BY <1>1, <3>2
      <4> QED BY <1>7, <3>1, <4>1
    <3>3. CASE k[1] # s /\ k = l
      <4>1. link'[k] = Tail(link[k]) /\ link[k] # << >>
        BY <1>1, <3>3
      <4> QED BY <3>1, <4>1, TailSeq
    <3>4. CASE k[1] # s /\ k # l
      BY <1>1, <3>1, <3>4
    <3> QED BY <3>2, <3>3, <3>4
  <2> QED BY <1>1, <2>1 DEF CalmLinks
<1>9. Quiet'
  <2> HIDE DEF A
  <2>1. \A h \in Games : posted'[h] \in Seq(A) /\ inbox'[h] \in Seq(CalmLogic(A))
    BY <1>1, <1>6, MoreCalm DEF CalmInv, Quiet, gameVars
  <2> QED BY <1>1, <1>8, <2>1 DEF CalmInv, Quiet
<1>10. AskedOnce'
  <2>1. ASSUME NEW t \in Spaces PROVE OnceAsked(t, link'[<<Mgr, t>>], creating, A)
    <3>1. CASE t = s
      <4>1. link'[l] = Tail(q)
        BY <1>1, <1>2
      <4>2. OnceAsked(s, Tail(q), creating, A)
        <5> HIDE DEF q
        <5> QED BY <1>1, <1>2, <1>3, <1>4, OnceTail
      <4> QED BY <3>1, <4>1, <4>2
    <3>2. CASE t # s
      <4>1. link'[<<Mgr, t>>] = link[<<Mgr, t>>]
        BY <1>1, <1>2, <3>2, LinksKnown
      <4>2. OnceAsked(t, link[<<Mgr, t>>], creating, alive)
        BY DEF CalmInv, AskedOnce
      <4>3. creating[sn.world] # t
        BY <1>4, <1>5, <3>2
      <4>4. OnceAsked(t, link[<<Mgr, t>>], creating, A)
        BY <4>2, <4>3, OnceOther
      <4> QED BY <4>1, <4>4
    <3> QED BY <3>1, <3>2
  <2> QED BY <1>1, <2>1 DEF AskedOnce, mgrVars
<1>11. AllNoted'
  <2>1. s # None
    BY NoneAssumption
  <2> QED BY <1>1, <1>4, <1>5, <2>1 DEF CalmInv, AllNoted, mgrVars
<1>12. UniqueWorld'
  BY <1>1, <1>4, <1>5 DEF CalmInv, UniqueWorld
<1>13. Meant'
  BY <1>1, <1>6, MeantFrame DEF CalmInv, gameVars
<1> QED BY <1>9, <1>10, <1>11, <1>12, <1>13 DEF CalmInv

LEMMA ReportCalm ==
    ASSUME MgrInv, CalmInv, NEW s \in Spaces, SyncSpaceInfo(s) \/ MgrAppInfoSync(s)
    PROVE  CalmInv'
<1> DEFINE l == <<s, Mgr>>
<1>1. /\ link \in LinkStates /\ link \in CalmLinks(alive) /\ l \in Links /\ alive \subseteq Sns
      /\ \A t \in Spaces : <<Mgr, t>> \in Links \ {l}
  BY LinksKnown DEF MgrInv, MgrTypes, CalmInv, Quiet
<1>2. UNCHANGED <<creating, created, spaceVars, gameVars, lobbyVars>>
  BY DEF SyncSpaceInfo, MgrAppInfoSync, mgrVars
<1>3. link' \in CalmLinks(alive) /\ \A k \in Links \ {l} : link'[k] = link[k]
  <2>1. CASE link' = Put(link, l, Msg("sync", s))
    <3>1. Msg("sync", s) \in CalmMsgs(alive) /\ Msg("sync", s) \in Carried(l)
      BY <1>1, CalmCarried, MsgCarried
    <3> HIDE DEF l
    <3> QED BY <1>1, <2>1, <3>1, CalmPut, LinkPut
  <2>2. CASE link[l] # << >> /\ link' = Taken(l)
    <3> HIDE DEF l
    <3> QED BY <1>1, <2>2, CalmTaken, LinkTaken
  <2> QED BY <2>1, <2>2 DEF SyncSpaceInfo, MgrAppInfoSync, Arrives
<1> HIDE DEF l
<1>4. Quiet'
  BY <1>2, <1>3 DEF CalmInv, Quiet, spaceVars, gameVars
<1>5. AskedOnce'
  BY <1>1, <1>2, <1>3 DEF CalmInv, AskedOnce, spaceVars
<1>6. AllNoted' /\ UniqueWorld'
  BY <1>2 DEF CalmInv, AllNoted, UniqueWorld, spaceVars
<1>7. Meant'
  BY <1>2, MeantFrame DEF CalmInv, spaceVars, gameVars
<1> QED BY <1>4, <1>5, <1>6, <1>7 DEF CalmInv

\* A game hears of worlds that exist, and hands on what it hears.
LEMMA GameCalm ==
    ASSUME MgrInv, GameTypes, CalmInv, NEW g \in Games, GameStep(g)
    PROVE  CalmInv'
<1>0. /\ link \in LinkStates /\ link \in CalmLinks(alive) /\ alive \subseteq Sns /\ Meant
      /\ \A h \in Games : posted[h] \in Seq(alive) /\ inbox[h] \in Seq(CalmLogic(alive))
      /\ posted \in [Games -> Seq(Sns)] /\ inbox \in [Games -> Seq(LogicMsgs)]
  BY DEF MgrInv, MgrTypes, CalmInv, Quiet, GameTypes
<1>1. ASSUME NEW from \in Spaces \union {Mgr, g}, link[<<from, g>>] # << >>
      PROVE  /\ Taken(<<from, g>>) \in CalmLinks(alive) /\ Got(<<from, g>>) \in CalmMsgs(alive)
             /\ \A s \in Spaces : Taken(<<from, g>>)[<<Mgr, s>>] = link[<<Mgr, s>>]
  <2> DEFINE l == <<from, g>>
  <2>1. l \in Links /\ \A s \in Spaces : <<Mgr, s>> \in Links \ {l}
    BY LinksKnown
  <2> HIDE DEF l
  <2>2. /\ Taken(l) \in CalmLinks(alive) /\ Got(l) \in CalmMsgs(alive)
        /\ \A k \in Links \ {l} : Taken(l)[k] = link[k]
    BY <1>0, <1>1, <2>1, LinkTaken, CalmTaken DEF l
  <2> QED BY <2>1, <2>2 DEF l
<1>2. ASSUME NEW from \in Spaces \union {Mgr, g}, LocatorBroadcastCreateWorld(g, from) PROVE CalmInv'
  <2> DEFINE sn == Got(<<from, g>>).arg
  <2>1. /\ link[<<from, g>>] # << >> /\ Got(<<from, g>>).type = "broadcast" /\ link' = Taken(<<from, g>>)
        /\ posted' = posted \/ posted' = [posted EXCEPT ![g] = Append(posted[g], sn)]
        /\ UNCHANGED <<inbox, publics, mgrVars, spaceVars, lobbyVars>>
    BY <1>2 DEF LocatorBroadcastCreateWorld, Arrives
  <2>2. sn \in alive
    BY <1>1, <2>1 DEF CalmMsgs
  <2> HIDE DEF sn
  <2>3. ASSUME NEW h \in Games PROVE posted'[h] \in Seq(alive)
    <3>1. Append(posted[g], sn) \in Seq(alive)
      BY <1>0, <2>2
    <3> QED BY <1>0, <2>1, <3>1
  <2>4. Meant'
    BY <1>0, <2>1, MeantFrame DEF spaceVars
  <2>5. link' \in CalmLinks(alive) /\ \A s \in Spaces : link'[<<Mgr, s>>] = link[<<Mgr, s>>]
    BY <1>1, <2>1
  <2> QED BY <1>0, <2>1, <2>3, <2>4, <2>5, CalmFrame
<1>3. ASSUME NEW from \in Spaces \union {Mgr, g}, GameDispatch(g, from) PROVE CalmInv'
  <2> DEFINE m == Got(<<from, g>>)
  <2>1. /\ link[<<from, g>>] # << >> /\ m.type \in {"disconnect", "proxy"} /\ link' = Taken(<<from, g>>)
        /\ inbox' = [inbox EXCEPT ![g] = Append(inbox[g], m)]
        /\ UNCHANGED <<posted, publics, mgrVars, spaceVars, lobbyVars>>
    BY <1>3 DEF GameDispatch
  <2>2. m \in CalmLogic(alive)
    BY <1>1, <2>1 DEF CalmMsgs, CalmLogic
  <2> HIDE DEF m
  <2>3. ASSUME NEW h \in Games PROVE inbox'[h] \in Seq(CalmLogic(alive))
    <3>1. Append(inbox[g], m) \in Seq(CalmLogic(alive))
      BY <1>0, <2>2
    <3> QED BY <1>0, <2>1, <3>1
  <2>4. Meant'
    BY <1>0, <2>1, MeantFrame DEF spaceVars
  <2>5. link' \in CalmLinks(alive) /\ \A s \in Spaces : link'[<<Mgr, s>>] = link[<<Mgr, s>>]
    BY <1>1, <2>1
  <2> QED BY <1>0, <2>1, <2>3, <2>4, <2>5, CalmFrame
<1>4. CASE GameCreate(g)
  <2> DEFINE q == [i \in DOMAIN posted[g] |-> Msg("create", posted[g][i])]
             n == Len(posted[g])
  <2>1. /\ inbox' = [inbox EXCEPT ![g] = inbox[g] \o q] /\ posted' = [posted EXCEPT ![g] = << >>]
        /\ link' = link /\ UNCHANGED <<publics, mgrVars, spaceVars, lobbyVars>>
    BY <1>4 DEF GameCreate
  <2>2. posted[g] \in Seq(alive) /\ n \in Nat /\ DOMAIN posted[g] = 1 .. n
    BY <1>0
  <2>3. \A a \in alive : Msg("create", a) \in CalmLogic(alive)
    BY <1>0 DEF Msg, CalmLogic, Message, MsgTypes
  <2>4. \A i \in 1 .. n : posted[g][i] \in alive
    BY <2>2
  <2>5. q \in [1 .. n -> CalmLogic(alive)]
    BY <2>2, <2>3, <2>4
  <2> HIDE DEF q, n
  <2>6. q \in Seq(CalmLogic(alive))
    BY <2>2, <2>5
  <2>7. inbox[g] \o q \in Seq(CalmLogic(alive)) /\ << >> \in Seq(alive)
    BY <1>0, <2>6
  <2>8. \A h \in Games : posted'[h] \in Seq(alive) /\ inbox'[h] \in Seq(CalmLogic(alive))
    BY <1>0, <2>1, <2>7
  <2>9. Meant'
    BY <1>0, <2>1, MeantFrame DEF spaceVars
  <2> QED BY <1>0, <2>1, <2>8, <2>9, CalmFrame
<1>5. ASSUME NEW type, LogicGets(g, type)
      PROVE  /\ Head(inbox[g]).type = type /\ type \in {"create", "proxy"} /\ Head(inbox[g]).arg \in alive
             /\ \A h \in Games : [inbox EXCEPT ![g] = Tail(inbox[g])][h] \in Seq(CalmLogic(alive))
  <2>1. inbox[g] \in Seq(CalmLogic(alive)) /\ inbox[g] # << >> /\ Head(inbox[g]).type = type
    BY <1>0, <1>5 DEF LogicGets
  <2>2. Head(inbox[g]) \in CalmLogic(alive) /\ Tail(inbox[g]) \in Seq(CalmLogic(alive))
    BY <2>1, TailSeq
  <2>3. \A h \in Games : [inbox EXCEPT ![g] = Tail(inbox[g])][h] \in Seq(CalmLogic(alive))
    BY <1>0, <2>2
  <2> QED BY <2>1, <2>2, <2>3 DEF CalmLogic
<1>6. CASE ProxyAwake(g)
  <2> DEFINE sn == Head(inbox[g]).arg
             l == <<g, g>>
             m == Msg("proxy", sn)
  <2>1. /\ LogicGets(g, "create") /\ publics' = RegisterToLocator(g, sn) /\ link' = Put(link, l, m)
        /\ inbox' = [inbox EXCEPT ![g] = Tail(inbox[g])]
        /\ UNCHANGED <<posted, mgrVars, spaceVars, lobbyVars>>
    BY <1>6 DEF ProxyAwake
  <2>2. sn \in alive /\ \A h \in Games : inbox'[h] \in Seq(CalmLogic(alive))
    BY <1>5, <2>1
  <2>3. l \in Links /\ \A s \in Spaces : <<Mgr, s>> \in Links \ {l}
    BY LinksKnown
  <2> HIDE DEF sn
  <2>4. m \in CalmMsgs(alive) /\ m \in Carried(l) /\ sn \in Sns /\ sn.world \in Worlds
    BY <1>0, <2>2, CalmCarried, MsgCarried DEF Sns
  <2>5. link' \in CalmLinks(alive) /\ \A s \in Spaces : link'[<<Mgr, s>>] = link[<<Mgr, s>>]
    <3> HIDE DEF l, m
    <3> QED BY <1>0, <2>1, <2>3, <2>4, CalmPut, LinkPut
  <2>6. Meant'
    <3>1. publics \in [Games -> [Worlds -> Sns \union {None}]]
      BY DEF GameTypes
    <3>2. ASSUME NEW h \in Games, NEW v \in Worlds, publics'[h][v] # None
          PROVE  publics'[h][v] \in alive /\ publics'[h][v].world = v
      <4>1. CASE h = g /\ v = sn.world
        <5>1. publics'[h][v] = sn
          BY <2>1, <2>4, <3>1, <4>1 DEF RegisterToLocator
        <5> QED BY <2>2, <4>1, <5>1
      <4>2. CASE ~ (h = g /\ v = sn.world)
        <5>1. publics'[h][v] = publics[h][v]
          BY <2>1, <2>4, <3>1, <4>2 DEF RegisterToLocator
        <5> QED BY <1>0, <3>2, <5>1 DEF Meant
      <4> QED BY <4>1, <4>2
    <3> QED BY <1>0, <2>1, <3>2 DEF Meant, lobbyVars, spaceVars
  <2> QED BY <1>0, <2>1, <2>2, <2>5, <2>6, CalmFrame
<1>7. CASE ProxyNetworkDisconnect(g)
  <2>1. LogicGets(g, "disconnect")
    BY <1>7 DEF ProxyNetworkDisconnect
  <2> QED BY <1>5, <2>1
<1>8. CASE LobbyBroadcastCreateWorldProxy(g)
  <2> DEFINE sn == Head(inbox[g]).arg
  <2>1. /\ LogicGets(g, "proxy") /\ LobbyProxyCreated(g, sn) /\ link' = link
        /\ inbox' = [inbox EXCEPT ![g] = Tail(inbox[g])] /\ UNCHANGED <<posted, publics, mgrVars, spaceVars>>
    BY <1>8 DEF LobbyBroadcastCreateWorldProxy
  <2>2. sn \in alive /\ \A h \in Games : inbox'[h] \in Seq(CalmLogic(alive))
    BY <1>5, <2>1
  <2> HIDE DEF sn
  <2>3. sn.world \in Worlds
    BY <1>0, <2>2 DEF Sns
  <2>4. ASSUME NEW p \in Players, target'[p] # None PROVE target'[p] \in alive /\ target'[p].world = Wish[p]
    <3>1. target'[p] = IF p \in waiting[g][sn.world] THEN sn ELSE target[p]
      BY <2>1 DEF LobbyProxyCreated
    <3>2. p \in waiting[g][sn.world] => Wish[p] = sn.world
      BY <1>0, <2>3 DEF Meant
    <3> QED BY <1>0, <2>2, <2>4, <3>1, <3>2 DEF Meant
  <2>5. ASSUME NEW h \in Games, NEW v \in Worlds, NEW p \in waiting'[h][v] PROVE Wish[p] = v
    <3>1. waiting' = [waiting EXCEPT ![g][sn.world] = {}] /\ waiting \in [Games -> [Worlds -> SUBSET Players]]
      BY <2>1 DEF LobbyProxyCreated, GameTypes
    <3>2. waiting'[h][v] \in {{}, waiting[h][v]}
      BY <3>1
    <3>3. p \in waiting[h][v]
      BY <2>5, <3>2
    <3> QED BY <1>0, <3>3 DEF Meant
  <2>6. Meant'
    BY <1>0, <2>1, <2>4, <2>5 DEF Meant, spaceVars
  <2> QED BY <1>0, <2>1, <2>2, <2>6, CalmFrame
<1> QED BY <1>2, <1>3, <1>4, <1>6, <1>7, <1>8 DEF GameStep

LEMMA CalmStep ==
    ASSUME MaxCrash = 0, MgrInv, GameTypes, CalmInv, Next
    PROVE  CalmInv'
<1>1. ASSUME NEW s \in Spaces, Crash(s) \/ Restart(s) PROVE FALSE
  BY <1>1 DEF CalmInv, Quiet, Crash, Restart
<1>2. ASSUME NEW s \in Spaces, MgrNetworkDisconnect(s) PROVE FALSE
  <2> DEFINE l == <<s, Mgr>>
  <2>1. l \in Links /\ link \in CalmLinks(alive) /\ link[l] # << >> /\ Got(l).type = "disconnect"
    BY <1>2, LinksKnown DEF CalmInv, Quiet, MgrNetworkDisconnect, Arrives
  <2> HIDE DEF l
  <2>2. Got(l) \in CalmMsgs(alive)
    BY <2>1, CalmTaken
  <2> QED BY <2>1, <2>2 DEF CalmMsgs
<1> QED BY <1>1, <1>2, EnterCalm, RequestCalm, BroadcastCalm, CreateCalm, ReportCalm, GameCalm
        DEF Next, MgrStep, SpaceStep

LEMMA CalmStart ==
    ASSUME Init
    PROVE  CalmInv
<1>1. link = [l \in Links |-> << >>] /\ << >> \in Seq(Message) /\ << >> \in Seq(CalmMsgs(alive))
  BY DEF Init
<1>2. link \in CalmLinks(alive) /\ \A l \in Links : link[l] = << >>
  BY <1>1 DEF CalmLinks
<1>3. Quiet
  BY <1>2 DEF Init, Quiet
<1>4. AskedOnce
  <2>1. \A s \in Spaces : link[<<Mgr, s>>] = << >>
    BY <1>2, LinksKnown
  <2>2. \A s : OnceAsked(s, << >>, creating, alive)
    BY DEF OnceAsked
  <2> QED BY <2>1, <2>2 DEF AskedOnce
<1>5. AllNoted /\ UniqueWorld /\ Meant
  BY DEF Init, AllNoted, UniqueWorld, Meant
<1> QED BY <1>3, <1>4, <1>5 DEF CalmInv

\* As long as no space dies, a request to create a world stands for a world that does
\* not exist, and nobody speaks of one that does not.
THEOREM CalmCorrect ==
    ASSUME MaxCrash = 0
    PROVE  Spec => []CalmInv
<1>1. Init => CalmInv
  BY CalmStart
<1>2. (MgrInv /\ GameTypes) /\ CalmInv /\ [Next]_vars => CalmInv'
  <2> SUFFICES ASSUME MgrInv, GameTypes, CalmInv, [Next]_vars PROVE CalmInv'
    OBVIOUS
  <2>1. CASE Next
    BY <2>1, CalmStep
  <2>2. CASE UNCHANGED vars
    <3>1. link' = link /\ UNCHANGED <<mgrVars, spaceVars, gameVars, lobbyVars>> /\ Meant /\ Quiet
      BY <2>2 DEF vars, CalmInv
    <3>2. Meant'
      BY <3>1, MeantFrame DEF gameVars, spaceVars
    <3>3. \A g \in Games : posted'[g] \in Seq(alive) /\ inbox'[g] \in Seq(CalmLogic(alive))
      BY <3>1 DEF Quiet, gameVars
    <3> QED BY <3>1, <3>2, <3>3, CalmFrame DEF Quiet
  <2> QED BY <2>1, <2>2
<1> QED BY <1>1, <1>2, MgrCorrect, PTL DEF Spec

\* CreateWorldComponent::HandleRequestWorld creates a public world once, whatever games
\* ask for it and whenever, as long as no space dies.
THEOREM UniqueWorldCorrect ==
    ASSUME MaxCrash = 0
    PROVE  Spec => []UniqueWorld
<1>1. CalmInv => UniqueWorld
  BY DEF CalmInv
<1> QED BY <1>1, CalmCorrect, PTL

\* The locators of all games and all teleported players then mean the world appmgr knows.
THEOREM GamesAgreeCorrect ==
    ASSUME MaxCrash = 0
    PROVE  Spec => []GamesAgree
<1>1. CalmInv /\ MgrInv => GamesAgree
  <2> SUFFICES ASSUME CalmInv, MgrInv, NEW w \in Worlds, created[w] # None
               PROVE  /\ \A g \in Games : publics[g][w] \in {None, created[w]}
                      /\ \A p \in Players : target[p] # None /\ Wish[p] = w => target[p] = created[w]
    BY DEF GamesAgree
  <2>1. created[w] \in alive /\ created[w].world = w
    BY DEF CalmInv, AllNoted
  <2>2. \A a \in alive : a.world = w => a = created[w]
    BY <2>1 DEF CalmInv, UniqueWorld
  <2> QED BY <2>2 DEF CalmInv, Meant
<1> QED BY <1>1, CalmCorrect, MgrCorrect, PTL
=============================================================================
