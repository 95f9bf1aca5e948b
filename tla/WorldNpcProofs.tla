--------------------------- MODULE WorldNpcProofs ---------------------------
(***************************************************************************)
(* What an Npc points to, what it is said to do and what clients show, for *)
(* any number of players, games, hits and updates.                         *)
(***************************************************************************)
EXTENDS WorldNpc, FiniteSetTheorems, WellFoundedInduction, TLAPS

(***************************************************************************)
(* Numbers and finite sets.                                                *)
(***************************************************************************)
\* Every nonempty set of numbers has a least one.
LEMMA LeastNumber ==
    ASSUME NEW S \in SUBSET Nat, S # {}
    PROVE  \E x \in S : \A y \in S : x <= y
<1> DEFINE R == {ss \in Nat \X Nat : ss[1] < ss[2]}
<1>1. IsWellFoundedOn(R, Nat)
  BY NatLessThanWellFounded DEF OpToRel
<1>2. \A x, y \in Nat : <<y, x>> \in R \/ x <= y
  OBVIOUS
<1> HIDE DEF R
<1>3. PICK x \in S : \A y \in S : ~ (<<y, x>> \in R)
  BY <1>1, WFMin
<1> QED BY <1>2, <1>3

\* Induction over 0 .. N for a set: the provers take no operator as a parameter.
LEMMA IntervalInduction ==
    ASSUME NEW N \in Nat, NEW S, 0 \in S, \A k \in 0 .. N : k > 0 /\ k - 1 \in S => k \in S
    PROVE  \A k \in 0 .. N : k \in S
<1> DEFINE B == {k \in 0 .. N : k \notin S}
<1> SUFFICES ASSUME B # {} PROVE FALSE
  OBVIOUS
<1>1. B \in SUBSET Nat
  OBVIOUS
<1>2. PICK x \in B : \A y \in B : x <= y
  BY <1>1, LeastNumber
<1>3. x \in 0 .. N /\ x \notin S /\ x > 0
  BY <1>2
<1>4. x - 1 \in 0 .. N /\ x - 1 \notin B
  BY <1>2, <1>3
<1> QED BY <1>3, <1>4

\* A family of intervals has finitely many members.
LEMMA FamilyCardinality ==
    ASSUME NEW E, IsFiniteSet(E), NEW f \in [E -> Nat]
    PROVE  Cardinality(UNION {{e} \X (1 .. f[e]) : e \in E}) \in Nat
<1> DEFINE U == UNION {{e} \X (1 .. f[e]) : e \in E}
<1>1. ASSUME NEW e \in E PROVE IsFiniteSet({e} \X (1 .. f[e]))
  <2>1. IsFiniteSet({e})
    BY FS_Singleton
  <2>2. 1 \in Int /\ f[e] \in Int
    OBVIOUS
  <2>3. IsFiniteSet(1 .. f[e])
    BY <2>2, FS_Interval
  <2> QED BY <2>1, <2>3, FS_Product
<1>2. IsFiniteSet({{e} \X (1 .. f[e]) : e \in E})
  <2> DEFINE T == {{e} \X (1 .. f[e]) : e \in E}
             g == [e \in E |-> {e} \X (1 .. f[e])]
  <2>1. g \in Surjection(E, T)
    BY DEF Surjection
  <2> HIDE DEF g, T
  <2>2. IsFiniteSet(T)
    BY <2>1, FS_Surjection
  <2> QED BY <2>2 DEF T
<1>3. IsFiniteSet(U)
  BY <1>1, <1>2, FS_UNION
<1> HIDE DEF U
<1> QED BY <1>3, FS_CardinalityType DEF U

\* Sets of records with two fields of finite sets are finite.
LEMMA RecordsFinite ==
    ASSUME NEW A, NEW B, IsFiniteSet(A), IsFiniteSet(B), NEW D \in SUBSET [id : A, priority : B]
    PROVE  IsFiniteSet(D)
<1> DEFINE R == [id : A, priority : B]
           g == [x \in A \X B |-> [id |-> x[1], priority |-> x[2]]]
<1>1. g \in Surjection(A \X B, R)
  <2>1. g \in [A \X B -> R]
    OBVIOUS
  <2>2. ASSUME NEW r \in R PROVE \E x \in A \X B : g[x] = r
    <3>1. <<r.id, r.priority>> \in A \X B /\ r = [id |-> r.id, priority |-> r.priority]
      OBVIOUS
    <3>2. g[<<r.id, r.priority>>] = r
      BY <3>1
    <3> QED BY <3>1, <3>2
  <2> HIDE DEF g, R
  <2> QED BY <2>1, <2>2 DEF Surjection
<1>2. IsFiniteSet(A \X B)
  BY FS_Product
<1>3. IsFiniteSet(R)
  <2> HIDE DEF g, R
  <2> QED BY <1>1, <1>2, FS_Surjection
<1> QED BY <1>3, FS_Subset

\* Sets of six and of three are finite.
LEMMA SixFinite ==
    ASSUME NEW a, NEW b, NEW c, NEW d, NEW e, NEW f
    PROVE  IsFiniteSet({a, b, c, d, e, f}) /\ IsFiniteSet({a, b, c})
<1>1. IsFiniteSet({a})
  BY FS_Singleton
<1>2. IsFiniteSet({a} \union {b})
  BY <1>1, FS_AddElement
<1>3. IsFiniteSet(({a} \union {b}) \union {c})
  BY <1>2, FS_AddElement
<1>4. IsFiniteSet((({a} \union {b}) \union {c}) \union {d})
  BY <1>3, FS_AddElement
<1>5. IsFiniteSet(((({a} \union {b}) \union {c}) \union {d}) \union {e})
  BY <1>4, FS_AddElement
<1>6. IsFiniteSet((((({a} \union {b}) \union {c}) \union {d}) \union {e}) \union {f})
  BY <1>5, FS_AddElement
<1>7. (((({a} \union {b}) \union {c}) \union {d}) \union {e}) \union {f} = {a, b, c, d, e, f}
  OBVIOUS
<1>8. ({a} \union {b}) \union {c} = {a, b, c}
  OBVIOUS
<1> QED BY <1>3, <1>6, <1>7, <1>8

EventIds == Actions \union {"Birth"}
Events == [id : EventIds, priority : {0, 1, 10}]
Queues == UNION {[D -> Nat \ {0}] : D \in SUBSET Events}
Phases == {"new", "birth", "alive", "death"}

(***************************************************************************)
(* An Npc that points to players of S only.                                *)
(***************************************************************************)
Npcs(S) ==
    [hp : 0 .. InitHp, fleeing : BOOLEAN, target : S \union {None}, linker : S \union {None},
     phase : Phases, curr : Actions \union {"end"}, entered : BOOLEAN, curAct : Actions \union {None},
     events : Queues, told : SUBSET S]
\* The linker was told, and an action runs under the Parallel only.
Sound(n) ==
    /\ n.linker # None => n.linker \in n.told
    /\ n.curAct = IF n.entered THEN n.curr ELSE None
    /\ n.entered => n.phase = "alive"
    /\ n.phase = "alive" => n.curr # "end"
Good(S) == {n \in Npcs(S) : Sound(n)}

\* Two players of the world see each other unless one of them is still to be announced.
Shown ==
    \A p \in players :
        /\ losses = 0 => sees[p] \subseteq players
        /\ \A q \in players : q \in sees[p] \/ p \in adds \/ q \in adds
Cmds == [Players -> {None} \union [type : CmdTypes, target : Players \union {None}]]
WorldInv ==
    /\ players \subseteq Players /\ adds \subseteq Players /\ timers \in BOOLEAN
    /\ sees \in [Players -> SUBSET Players] /\ losses \in Nat /\ cmd \in Cmds
    /\ Shown
\* The Npc is good until a fault; after one its pointers may lead nowhere.
NpcInv ==
    /\ faults = {} => npc \in Good(players)
    /\ npc \in Npcs(Players) /\ npc.told \subseteq players
    /\ npc.phase = "alive" => npc.curr # "end"

-----------------------------------------------------------------------------
(***************************************************************************)
(* The nodes of the tree keep an Npc good.                                 *)
(***************************************************************************)
LEMMA AddEventGood ==
    ASSUME NEW S, NEW n \in Good(S), NEW id \in EventIds, NEW pr \in {0, 1, 10}
    PROVE  /\ AddEvent(n, id, pr) \in Good(S)
           /\ AddEvent(n, id, pr).phase = n.phase /\ AddEvent(n, id, pr).curr = n.curr
           /\ AddEvent(n, id, pr).entered = n.entered /\ AddEvent(n, id, pr).hp = n.hp
<1> DEFINE e == Event(id, pr)
           b == n.events
<1>1. e \in Events
  BY DEF Event, Events
<1>2. PICK D \in SUBSET Events : b \in [D -> Nat \ {0}]
  BY DEF Good, Npcs, Queues
<1> DEFINE more == [x \in DOMAIN b \union {e} |-> IF x # e THEN b[x] ELSE IF e \in DOMAIN b THEN b[e] + 1 ELSE 1]
<1> HIDE DEF e, b
<1>3. more \in [D \union {e} -> Nat \ {0}]
  BY <1>2
<1>4. more \in Queues
  BY <1>1, <1>3 DEF Queues
<1>5. AddEvent(n, id, pr) = [n EXCEPT !.events = more]
  BY DEF AddEvent, b, e
<1> QED BY <1>4, <1>5 DEF Good, Npcs, Sound

LEMMA ExitActionGood ==
    ASSUME NEW S, NEW n \in Good(S)
    PROVE  /\ ExitAction(n) \in Good(S) /\ ExitAction(n).entered = FALSE
           /\ ExitAction(n).phase = n.phase /\ ExitAction(n).curr = n.curr
<1>1. ExitAction(n) \in Npcs(S)
  BY DEF Good, Npcs, ExitAction
<1>2. /\ ExitAction(n).linker = n.linker /\ ExitAction(n).told = n.told /\ ExitAction(n).entered = FALSE
      /\ ExitAction(n).curAct = None /\ ExitAction(n).phase = n.phase /\ ExitAction(n).curr = n.curr
  BY DEF Good, Npcs, ExitAction
<1> QED BY <1>1, <1>2 DEF Good, Sound

LEMMA ExitTreeGood ==
    ASSUME NEW S, NEW n \in Good(S)
    PROVE  ExitTree(n) \in Good(S) /\ ExitTree(n).entered = FALSE
<1>1. CASE n.curr = "end"
  <2>1. n.entered \in BOOLEAN /\ ~ n.entered
    BY <1>1 DEF Good, Npcs, Sound
  <2> QED BY <1>1, <2>1 DEF ExitTree
<1>2. CASE n.curr # "end"
  BY <1>2, ExitActionGood DEF ExitTree
<1> QED BY <1>1, <1>2

LEMMA SwitchNodeGood ==
    ASSUME NEW S, NEW n \in Good(S), NEW id \in Actions
    PROVE  SwitchNode(n, id) \in Good(S)
<1> DEFINE x == ExitAction(n)
<1>1. x \in Good(S) /\ x.entered = FALSE
  BY ExitActionGood
<1> HIDE DEF x
<1>2. [x EXCEPT !.curr = id] \in Good(S)
  BY <1>1 DEF Good, Npcs, Sound, Actions
<1> QED BY <1>2 DEF SwitchNode, x

LEMMA ResetGood ==
    ASSUME NEW S, NEW n \in Good(S)
    PROVE  Reset(n) \in Good(S)
<1> DEFINE x == ExitTree(n)
<1>1. x \in Good(S) /\ x.entered = FALSE
  BY ExitTreeGood
<1> HIDE DEF x
<1>2. [x EXCEPT !.phase = "new"] \in Good(S)
  BY <1>1 DEF Good, Npcs, Sound, Phases
<1> QED BY <1>2 DEF Reset, x

LEMMA HandleEventGood ==
    ASSUME NEW S, NEW n \in Good(S), NEW e \in Events
    PROVE  HandleEvent(n, e) \in Good(S)
<1>1. CASE e.id = "Birth"
  BY <1>1, ResetGood DEF HandleEvent
<1>2. CASE e.id # "Birth"
  <2>1. e.id \in Actions
    BY <1>2 DEF Events, EventIds
  <2> QED BY <1>2, <2>1, SwitchNodeGood DEF HandleEvent
<1> QED BY <1>1, <1>2

\* Handling events one after the other: the recursion has a solution, and each of its
\* values is good.
Stages(f, n, es, m) == f = [k \in 0 .. m |-> IF k = 0 THEN n ELSE HandleEvent(f[k - 1], es[k])]
LEMMA StagesExist ==
    ASSUME NEW n, NEW es, NEW N \in Nat
    PROVE  \E f : Stages(f, n, es, N)
<1> DEFINE S == {m \in 0 .. N : \E f : Stages(f, n, es, m)}
<1>1. 0 \in S
  <2> DEFINE f == [k \in 0 .. 0 |-> n]
  <2>1. f = [k \in 0 .. 0 |-> IF k = 0 THEN n ELSE HandleEvent(f[k - 1], es[k])]
    OBVIOUS
  <2>2. Stages(f, n, es, 0)
    BY <2>1 DEF Stages
  <2> QED BY <2>2
<1>2. ASSUME NEW m \in 0 .. N, m > 0, m - 1 \in S PROVE m \in S
  <2>1. PICK f : Stages(f, n, es, m - 1)
    BY <1>2
  <2> DEFINE g == [k \in 0 .. m |-> IF k = m THEN HandleEvent(f[m - 1], es[m]) ELSE f[k]]
  <2>2. \A k \in 0 .. m - 1 : f[k] = IF k = 0 THEN n ELSE HandleEvent(f[k - 1], es[k])
    BY <2>1 DEF Stages
  <2>3. g[m] = HandleEvent(f[m - 1], es[m]) /\ \A k \in 0 .. m - 1 : g[k] = f[k]
    BY <1>2
  <2>4. ASSUME NEW k \in 0 .. m PROVE g[k] = IF k = 0 THEN n ELSE HandleEvent(g[k - 1], es[k])
    <3> HIDE DEF g
    <3>1. CASE k = 0
      BY <1>2, <2>2, <2>3, <3>1
    <3>2. CASE k = m
      <4>1. g[m - 1] = f[m - 1]
        BY <1>2, <2>3
      <4> QED BY <1>2, <2>3, <3>2, <4>1
    <3>3. CASE k # 0 /\ k # m
      <4>1. k \in 0 .. m - 1 /\ k - 1 \in 0 .. m - 1
        BY <3>3
      <4>2. g[k] = f[k] /\ g[k - 1] = f[k - 1]
        BY <2>3, <4>1
      <4> QED BY <2>2, <3>3, <4>1, <4>2
    <3> QED BY <3>1, <3>2, <3>3
  <2>5. g = [k \in 0 .. m |-> IF k = 0 THEN n ELSE HandleEvent(g[k - 1], es[k])]
    <3> DEFINE h == [k \in 0 .. m |-> IF k = 0 THEN n ELSE HandleEvent(g[k - 1], es[k])]
    <3>1. \A k \in 0 .. m : g[k] = h[k]
      BY <2>4
    <3> QED BY <3>1
  <2>6. Stages(g, n, es, m)
    BY <2>5 DEF Stages
  <2> QED BY <2>6
<1>3. \A k \in 0 .. N : k \in S
  <2> HIDE DEF S
  <2> QED BY <1>1, <1>2, IntervalInduction
<1>4. N \in S
  BY <1>3
<1> QED BY <1>4

LEMMA HandleEventsGood ==
    ASSUME NEW S, NEW n \in Good(S), NEW es \in Seq(Events)
    PROVE  HandleEvents(n, es) \in Good(S)
<1> DEFINE N == Len(es)
           f == CHOOSE g : Stages(g, n, es, N)
<1>0. N \in Nat
  OBVIOUS
<1>1. Stages(f, n, es, N)
  BY <1>0, StagesExist
<1>2. HandleEvents(n, es) = f[N]
  BY DEF HandleEvents, Stages
<1> HIDE DEF f
<1>3. \A k \in 0 .. N : f[k] = IF k = 0 THEN n ELSE HandleEvent(f[k - 1], es[k])
  BY <1>1 DEF Stages
<1> DEFINE T == {k \in 0 .. N : f[k] \in Good(S)}
<1>4. 0 \in T
  BY <1>0, <1>3
<1>5. ASSUME NEW k \in 0 .. N, k > 0, k - 1 \in T PROVE k \in T
  <2>1. es[k] \in Events /\ f[k - 1] \in Good(S)
    BY <1>5
  <2>2. HandleEvent(f[k - 1], es[k]) \in Good(S)
    BY <2>1, HandleEventGood
  <2> QED BY <1>3, <1>5, <2>2
<1>6. \A k \in 0 .. N : k \in T
  <2> HIDE DEF T, N
  <2> QED BY <1>0, <1>4, <1>5, IntervalInduction
<1>7. f[N] \in Good(S)
  BY <1>0, <1>6
<1> QED BY <1>2, <1>7

\* What the queue gives out, in any order it may give, are events.
LEMMA QueueLength ==
    ASSUME NEW b \in Queues
    PROVE  BagToSet(b) \in SUBSET Events /\ Cardinality(Copies(b)) \in Nat
<1>1. PICK D \in SUBSET Events : b \in [D -> Nat \ {0}]
  BY DEF Queues
<1>2. BagToSet(b) = D
  BY <1>1 DEF BagToSet
<1>3. IsFiniteSet(EventIds) /\ IsFiniteSet({0, 1, 10})
  <2>1. EventIds = {"Patrol", "Idle", "Pursue", "Attack", "Flee", "Birth"}
    BY DEF EventIds, Actions
  <2> QED BY <2>1, SixFinite
<1>4. IsFiniteSet(D)
  BY <1>3, RecordsFinite DEF Events
<1>5. b \in [D -> Nat]
  BY <1>1
<1>6. Cardinality(UNION {{e} \X (1 .. b[e]) : e \in D}) \in Nat
  BY <1>4, <1>5, FamilyCardinality
<1> QED BY <1>2, <1>6 DEF Copies

LEMMA HandledEvents ==
    ASSUME NEW b \in Queues, NEW o \in Orders(b)
    PROVE  Handled(o) \in Seq(Events)
<1> DEFINE N == Cardinality(Copies(b))
<1>1. BagToSet(b) \in SUBSET Events /\ N \in Nat
  BY QueueLength
<1>2. o \in [1 .. N -> BagToSet(b)]
  BY DEF Orders
<1> HIDE DEF N
<1>3. o \in Seq(Events)
  BY <1>1, <1>2
<1>4. CASE o = << >>
  BY <1>3, <1>4 DEF Handled
<1>5. CASE o # << >>
  <2>1. Tail(o) \in Seq(Events) /\ Last(o) \in Events
    BY <1>3, <1>5 DEF Last
  <2> QED BY <1>5, <2>1 DEF Handled
<1> QED BY <1>4, <1>5

-----------------------------------------------------------------------------
\* Npc::SetLinkPlayer and ViewTask.
LEMMA SetLinkPlayerGood ==
    ASSUME NEW S, NEW n \in Good(S), NEW p \in S \union {None}
    PROVE  /\ SetLinkPlayer(n, p) \in Good(S)
           /\ SetLinkPlayer(n, p).phase = n.phase /\ SetLinkPlayer(n, p).curr = n.curr
           /\ SetLinkPlayer(n, p).target = n.target /\ SetLinkPlayer(n, p).fleeing = n.fleeing
<1> DEFINE told == (n.told \ {n.linker}) \union ({p} \ {None})
<1>1. told \in SUBSET S /\ (p # None => p \in told)
  BY DEF Good, Npcs
<1> HIDE DEF told
<1>2. SetLinkPlayer(n, p) = [n EXCEPT !.linker = p, !.told = told]
  BY DEF SetLinkPlayer, told
<1>3. SetLinkPlayer(n, p) \in Npcs(S)
  BY <1>1, <1>2 DEF Good, Npcs
<1>4. /\ SetLinkPlayer(n, p).linker = p /\ SetLinkPlayer(n, p).told = told
      /\ SetLinkPlayer(n, p).phase = n.phase /\ SetLinkPlayer(n, p).curr = n.curr
      /\ SetLinkPlayer(n, p).target = n.target /\ SetLinkPlayer(n, p).fleeing = n.fleeing
      /\ SetLinkPlayer(n, p).entered = n.entered /\ SetLinkPlayer(n, p).curAct = n.curAct
  BY <1>2 DEF Good, Npcs
<1> QED BY <1>1, <1>3, <1>4 DEF Good, Sound

LEMMA TargetGood ==
    ASSUME NEW S, NEW n \in Good(S), NEW p \in S \union {None}
    PROVE  /\ [n EXCEPT !.target = p] \in Good(S)
           /\ [n EXCEPT !.target = p].phase = n.phase /\ [n EXCEPT !.target = p].curr = n.curr
           /\ [n EXCEPT !.target = p].fleeing = n.fleeing
  BY DEF Good, Npcs, Sound

LEMMA FleeingGood ==
    ASSUME NEW S, NEW n \in Good(S)
    PROVE  StartFlee(n) \in Good(S) /\ StartFlee(n).phase = n.phase
<1> DEFINE x == [n EXCEPT !.fleeing = TRUE]
<1>1. x \in Good(S) /\ x.phase = n.phase
  BY DEF Good, Npcs, Sound
<1> HIDE DEF x
<1>2. "Flee" \in EventIds
  BY DEF EventIds, Actions
<1>3. AddEvent(x, "Flee", 1) \in Good(S) /\ AddEvent(x, "Flee", 1).phase = x.phase
  BY <1>1, <1>2, AddEventGood
<1> QED BY <1>1, <1>3 DEF StartFlee, x

LEMMA ViewGood ==
    ASSUME NEW S \in SUBSET Nat, NEW n \in Good(S), NEW zone, DOMAIN zone \subseteq S,
           NEW nearest \in S \union {None}, NEW place
    PROVE  View(n, zone, place, nearest) \in Good(S) /\ View(n, zone, place, nearest).phase = n.phase
<1> DEFINE x == ViewLinker(n, nearest)
           y == ViewTarget(x, zone)
<1>1. x \in Good(S) /\ x.phase = n.phase
  BY SetLinkPlayerGood DEF ViewLinker
<1> HIDE DEF x
<1>2. y \in Good(S) /\ y.phase = x.phase
  <2> DEFINE visible == {p \in DOMAIN zone : zone[p] # "out"}
             p == Lowest(visible)
             z == [x EXCEPT !.target = p]
             id == IF zone[p] = "near" THEN "Attack" ELSE "Pursue"
  <2>1. CASE x.target # None \/ visible = {}
    BY <1>1, <2>1 DEF ViewTarget
  <2>2. CASE ~ (x.target # None \/ visible = {})
    <3>1. visible \in SUBSET Nat /\ visible # {}
      BY <2>2
    <3>2. p \in visible
      <4> HIDE DEF visible
      <4> QED BY <3>1, LeastNumber DEF Lowest
    <3>3. p \in S
      BY <3>2
    <3>4. id \in EventIds
      BY DEF EventIds, Actions
    <3>5. y = AddEvent(z, id, 0)
      BY <2>2 DEF ViewTarget
    <3> HIDE DEF visible, p, id
    <3>6. z \in Good(S) /\ z.phase = x.phase
      BY <1>1, <3>3, TargetGood
    <3> HIDE DEF z
    <3>7. AddEvent(z, id, 0) \in Good(S) /\ AddEvent(z, id, 0).phase = z.phase
      BY <3>4, <3>6, AddEventGood
    <3> QED BY <3>5, <3>6, <3>7
  <2> QED BY <2>1, <2>2
<1> HIDE DEF y
<1>3. View(n, zone, place, nearest) = IF ~ n.fleeing /\ place = "far" THEN StartFlee(y) ELSE y
  BY DEF View, x, y
<1>4. StartFlee(y) \in Good(S) /\ StartFlee(y).phase = y.phase
  BY <1>2, FleeingGood
<1> QED BY <1>1, <1>2, <1>3, <1>4

LEMMA SenseGood ==
    ASSUME NEW S, NEW n \in Good(S)
    PROVE  Sense(n) \in Good(S) /\ Sense(n).phase = n.phase
  BY FleeingGood DEF Sense

LEMMA TickActionGood ==
    ASSUME NEW S, NEW n \in Good(S), n.phase = "alive", NEW zone, NEW place, NEW late
    PROVE  TickAction(n, zone, place, late) \in Good(S)
<1> USE ConstantsAssumption
<1> DEFINE x == IF n.entered THEN n ELSE EnterAction(n)
           elapsed == late /\ n.entered
           next == Ends(x, zone, place, elapsed)
<1>1. x \in Good(S) /\ x.curr \in Actions
  <2>1. n.curr \in Actions /\ n.curr # "end"
    BY DEF Good, Npcs, Sound
  <2>2. CASE n.entered
    BY <2>1, <2>2
  <2>3. CASE ~ n.entered
    <3>1. EnterAction(n) \in Npcs(S)
      BY <2>1 DEF Good, Npcs, EnterAction
    <3>2. /\ EnterAction(n).linker = n.linker /\ EnterAction(n).told = n.told
          /\ EnterAction(n).entered = TRUE /\ EnterAction(n).curAct = n.curr
          /\ EnterAction(n).phase = n.phase /\ EnterAction(n).curr = n.curr
      BY DEF Good, Npcs, EnterAction
    <3>3. EnterAction(n) \in Good(S)
      BY <2>1, <3>1, <3>2 DEF Good, Sound
    <3> QED BY <2>1, <2>3, <3>2, <3>3
  <2> QED BY <2>2, <2>3
<1> HIDE DEF x, elapsed
<1>2. next \in Actions \union {None}
  <2>1. CASE x.curr = "Patrol"
    BY <2>1 DEF Ends, Actions
  <2>2. CASE x.curr = "Idle"
    BY <2>2 DEF Ends, Actions
  <2>3. CASE x.curr = "Pursue"
    BY <2>3 DEF Ends, Actions
  <2>4. CASE x.curr = "Attack"
    BY <2>4 DEF Ends, Actions
  <2>5. CASE x.curr = "Flee"
    BY <2>5 DEF Ends, Actions
  <2> QED BY <1>1, <2>1, <2>2, <2>3, <2>4, <2>5 DEF Actions
<1>3. TickAction(n, zone, place, late) =
        IF next = None THEN Heal(x, place, elapsed) ELSE ExitAction(AddEvent(x, next, 0))
  BY DEF TickAction, x, elapsed
<1> HIDE DEF next
<1>4. Heal(x, place, elapsed) \in Good(S)
  <2> DEFINE h == IF x.hp < InitHp THEN x.hp + 1 ELSE InitHp
  <2>1. h \in 0 .. InitHp
    BY <1>1 DEF Good, Npcs
  <2> HIDE DEF h
  <2>2. [x EXCEPT !.hp = h] \in Good(S)
    BY <1>1, <2>1 DEF Good, Npcs, Sound
  <2>3. Heal(x, place, elapsed) \in {x, [x EXCEPT !.hp = h]}
    BY DEF Heal, h
  <2> QED BY <1>1, <2>2, <2>3
<1>5. CASE next # None
  <2>1. next \in EventIds
    BY <1>2, <1>5 DEF EventIds
  <2>2. AddEvent(x, next, 0) \in Good(S)
    BY <1>1, <2>1, AddEventGood
  <2> QED BY <1>3, <1>5, <2>2, ExitActionGood
<1> QED BY <1>3, <1>4, <1>5

LEMMA DieGood ==
    ASSUME NEW S, NEW n \in Good(S)
    PROVE  Die(n) \in Good(S)
<1> DEFINE x == ExitTree(n)
<1>1. x \in Good(S) /\ x.entered = FALSE
  BY ExitTreeGood
<1> HIDE DEF x
<1>2. [x EXCEPT !.phase = "death", !.target = None, !.linker = None] \in Good(S)
  BY <1>1 DEF Good, Npcs, Sound, Phases
<1> QED BY <1>2 DEF Die, x

LEMMA BearGood ==
    ASSUME NEW S, NEW n \in Good(S), n.phase # "alive"
    PROVE  Bear(n) \in Good(S)
<1>1. Bear(n) \in Npcs(S)
  BY DEF Good, Npcs, Phases, Bear
<1>2. /\ Bear(n).linker = None /\ Bear(n).entered = n.entered /\ Bear(n).curAct = n.curAct
      /\ Bear(n).curr = n.curr /\ Bear(n).phase = "birth"
  BY DEF Good, Npcs, Bear
<1>3. n.entered = FALSE
  BY DEF Good, Npcs, Sound
<1> QED BY <1>1, <1>2, <1>3 DEF Good, Sound

LEMMA TickAliveGood ==
    ASSUME NEW S \in SUBSET Nat, NEW n \in Good(S), n.phase = "alive", NEW zone, DOMAIN zone \subseteq S,
           NEW nearest \in S \union {None}, NEW place, NEW late
    PROVE  TickAlive(n, zone, place, late, nearest) \in Good(S)
<1> DEFINE x == View(n, zone, place, nearest)
           y == Sense(x)
<1>1. x \in Good(S) /\ x.phase = "alive"
  BY ViewGood
<1> HIDE DEF x
<1>2. y \in Good(S) /\ y.phase = "alive"
  BY <1>1, SenseGood
<1> HIDE DEF y
<1>3. TickAction(y, zone, place, late) \in Good(S)
  BY <1>2, TickActionGood
<1>4. Die(x) \in Good(S)
  BY <1>1, DieGood
<1> QED BY <1>3, <1>4 DEF TickAlive, x, y

LEMMA TickGood ==
    ASSUME NEW S \in SUBSET Nat, NEW n \in Good(S), NEW zone, DOMAIN zone \subseteq S,
           NEW nearest \in S \union {None}, NEW place, NEW late
    PROVE  Tick(n, zone, place, late, nearest) \in Good(S)
<1>0. n.phase \in Phases
  BY DEF Good, Npcs
<1>1. CASE n.phase = "new"
  BY <1>1, BearGood DEF Tick
<1>2. CASE n.phase = "birth"
  <2> DEFINE x == [n EXCEPT !.phase = "alive", !.hp = InitHp, !.curr = "Patrol", !.entered = FALSE]
  <2>1. x \in Good(S) /\ x.phase = "alive"
    <3>0. InitHp \in 0 .. InitHp /\ "alive" \in Phases /\ "Patrol" \in Actions \union {"end"}
      BY ConstantsAssumption DEF Phases, Actions
    <3>1. x \in Npcs(S)
      BY <3>0 DEF Good, Npcs
    <3>2. n.entered = FALSE /\ n.curAct = None
      BY <1>2 DEF Good, Npcs, Sound
    <3>3. /\ x.phase = "alive" /\ x.entered = FALSE /\ x.curr = "Patrol" /\ x.linker = n.linker
          /\ x.told = n.told /\ x.curAct = n.curAct
      BY DEF Good, Npcs
    <3> HIDE DEF x
    <3> QED BY <3>1, <3>2, <3>3 DEF Good, Sound
  <2>2. ComeAlive(n, zone, place, nearest) = TickAlive(x, zone, place, FALSE, nearest)
    BY DEF ComeAlive
  <2> HIDE DEF x
  <2>3. ComeAlive(n, zone, place, nearest) \in Good(S)
    BY <2>1, <2>2, TickAliveGood
  <2> QED BY <1>2, <2>3 DEF Tick
<1>3. CASE n.phase = "alive"
  <2>1. TickAlive(n, zone, place, late, nearest) \in Good(S)
    BY <1>3, TickAliveGood
  <2> QED BY <1>3, <2>1 DEF Tick
<1>4. CASE n.phase = "death"
  BY <1>4, ResetGood DEF Tick
<1> QED BY <1>0, <1>1, <1>2, <1>3, <1>4 DEF Phases

-----------------------------------------------------------------------------
(***************************************************************************)
(* The actions.                                                            *)
(***************************************************************************)
LEMMA UpdateGood ==
    ASSUME WorldInv, npc \in Good(players), NEW late \in BOOLEAN, Update(late)
    PROVE  npc' \in Good(players)
<1>1. players \in SUBSET Nat
  BY ConstantsAssumption DEF WorldInv
<1>2. npc.target \in players \union {None}
  BY DEF Good, Npcs
<1>3. Watched(late) \subseteq players
  <2>1. CASE ~ Alive(late)
    BY <2>1 DEF Watched
  <2>2. CASE Alive(late) /\ npc.phase = "alive" /\ npc.target # None
    BY <1>2, <2>2 DEF Watched
  <2>3. CASE Alive(late) /\ ~ (npc.phase = "alive" /\ npc.target # None)
    BY <2>3 DEF Watched
  <2> QED BY <2>1, <2>2, <2>3
<1>3a. PICK ticked \in Ticked(late) : \E o \in Orders(ticked.events) :
        \/ npc' = ticked
        \/ npc' = HandleEvents([ticked EXCEPT !.events = EmptyBag], Handled(o))
  BY DEF Update
<1>4. PICK o \in Orders(ticked.events) :
        \/ npc' = ticked
        \/ npc' = HandleEvents([ticked EXCEPT !.events = EmptyBag], Handled(o))
  BY <1>3a
<1>5. ticked \in Good(players)
  <2>1. PICK zone \in [Watched(late) -> {"near", "in", "out"}], place \in Places(late),
             nearest \in players \union {None} :
               ticked = Tick(npc, zone, place, late, nearest)
    BY DEF Ticked
  <2>2. DOMAIN zone \subseteq players
    BY <1>3
  <2> QED BY <1>1, <2>1, <2>2, TickGood
<1>6. Handled(o) \in Seq(Events)
  <2>1. ticked.events \in Queues
    BY <1>5 DEF Good, Npcs
  <2> QED BY <2>1, HandledEvents
<1>7. [ticked EXCEPT !.events = EmptyBag] \in Good(players)
  <2>1. EmptyBag \in Queues
    <3>1. EmptyBag \in [{} -> Nat \ {0}]
      BY DEF EmptyBag, SetToBag
    <3>2. {} \in SUBSET Events
      OBVIOUS
    <3> QED BY <3>1, <3>2 DEF Queues
  <2> QED BY <1>5, <2>1 DEF Good, Npcs, Sound
<1>8. HandleEvents([ticked EXCEPT !.events = EmptyBag], Handled(o)) \in Good(players)
  BY <1>6, <1>7, HandleEventsGood
<1> QED BY <1>4, <1>5, <1>8

LEMMA MorePlayers ==
    ASSUME NEW S, NEW T, S \subseteq T, NEW n \in Good(S)
    PROVE  n \in Good(T)
  BY DEF Good, Npcs

\* A player leaves: neither pointer leads to him any more.
LEMMA DisappearGood ==
    ASSUME NEW p, NEW S, p # None, NEW n \in Good(S),
           NEW nearest \in IF S \ {p} = {} THEN {None} ELSE S \ {p}
    PROVE  [Disappear(n, p, S \ {p}, nearest) EXCEPT !.told = @ \ {p}] \in Good(S \ {p})
<1> DEFINE rest == S \ {p}
           m == [n EXCEPT !.target = None]
           freed == CASE rest = {} -> AddEvent(m, "Birth", 10)
                      [] rest # {} /\ n.target = p -> AddEvent(m, "Idle", 10)
                      [] OTHER -> n
           x == IF n.linker = p THEN SetLinkPlayer(freed, nearest) ELSE freed
<1>1. m \in Good(S) /\ m.target = None /\ m.linker = n.linker
  BY DEF Good, Npcs, Sound
<1>2. /\ "Birth" \in EventIds /\ "Idle" \in EventIds
      /\ AddEvent(m, "Birth", 10).target = None /\ AddEvent(m, "Idle", 10).target = None
      /\ AddEvent(m, "Birth", 10).linker = n.linker /\ AddEvent(m, "Idle", 10).linker = n.linker
  BY <1>1 DEF EventIds, Actions, AddEvent, Good, Npcs
<1>3. AddEvent(m, "Birth", 10) \in Good(S) /\ AddEvent(m, "Idle", 10) \in Good(S)
  <2> HIDE DEF m
  <2> QED BY <1>1, <1>2, AddEventGood
<1>4. freed \in Good(S) /\ freed.target \in rest \union {None} /\ freed.linker = n.linker
  <2> HIDE DEF m
  <2>1. CASE rest = {}
    BY <1>2, <1>3, <2>1
  <2>2. CASE rest # {} /\ n.target = p
    BY <1>2, <1>3, <2>2
  <2>3. CASE rest # {} /\ n.target # p
    BY <2>3 DEF Good, Npcs
  <2> QED BY <2>1, <2>2, <2>3
<1>5. Disappear(n, p, rest, nearest) = x
  BY DEF Disappear
<1> HIDE DEF freed
<1>6. /\ x \in Good(S) /\ x.target \in rest \union {None} /\ x.linker \in rest \union {None}
  <2>1. CASE n.linker = p
    <3>1. nearest \in S \union {None} /\ nearest \in rest \union {None}
      OBVIOUS
    <3>2. SetLinkPlayer(freed, nearest) \in Good(S) /\ SetLinkPlayer(freed, nearest).target = freed.target
      BY <1>4, <3>1, SetLinkPlayerGood
    <3>3. SetLinkPlayer(freed, nearest).linker = nearest
      BY <1>4 DEF SetLinkPlayer, Good, Npcs
    <3> QED BY <1>4, <2>1, <3>1, <3>2, <3>3
  <2>2. CASE n.linker # p
    BY <1>4, <2>2 DEF Good, Npcs
  <2> QED BY <2>1, <2>2
<1> HIDE DEF x
<1>7. [x EXCEPT !.told = @ \ {p}] \in Good(rest)
  <2> DEFINE y == [x EXCEPT !.told = @ \ {p}]
  <2>1. y \in Npcs(rest)
    BY <1>6 DEF Good, Npcs
  <2>2. /\ y.linker = x.linker /\ y.told = x.told \ {p} /\ y.curAct = x.curAct
        /\ y.entered = x.entered /\ y.phase = x.phase /\ y.curr = x.curr
    BY <1>6 DEF Good, Npcs
  <2> HIDE DEF y
  <2>3. Sound(y)
    BY <1>6, <2>2 DEF Good, Sound
  <2> QED BY <2>1, <2>3 DEF Good, y
<1> QED BY <1>5, <1>7

LEMMA GetDamageGood ==
    ASSUME NEW S, npc \in Good(S), NEW p \in S, GetDamage(p)
    PROVE  npc' \in Good(S)
<1> USE ConstantsAssumption
<1> DEFINE hp == Struck(npc.hp)
           hit == [npc EXCEPT !.hp = hp]
           aimed == [hit EXCEPT !.target = p]
<1>1. hp \in 0 .. InitHp
  BY DEF Good, Npcs, Struck
<1>2. npc' = IF npc.target = p THEN hit ELSE AddEvent(aimed, "Pursue", 0)
  BY DEF GetDamage
<1> HIDE DEF hp
<1>3. hit \in Good(S)
  BY <1>1 DEF Good, Npcs, Sound
<1> HIDE DEF hit
<1>4. aimed \in Good(S)
  BY <1>3, TargetGood
<1> HIDE DEF aimed
<1>5. AddEvent(aimed, "Pursue", 0) \in Good(S)
  <2>1. "Pursue" \in EventIds
    BY DEF EventIds, Actions
  <2> QED BY <1>4, <2>1, AddEventGood
<1> QED BY <1>2, <1>3, <1>5

\* A game is lost without a fault: nobody it took with it was pointed to.
LEMMA RemoveAllPlayersGood ==
    ASSUME npc \in Good(players), NEW g, RemoveAllPlayers(g), faults = {}
    PROVE  /\ npc' \in Npcs(players) /\ npc'.told \subseteq players'
           /\ npc'.phase = npc.phase /\ npc'.curr = npc.curr
           /\ faults' = {} => npc' \in Good(players')
<1> DEFINE gone == players \intersect g
<1>1. npc' = [npc EXCEPT !.told = @ \ gone] /\ players' = players \ gone
  BY DEF RemoveAllPlayers
<1>2. faults' = {} => npc.target \notin gone /\ npc.linker \notin gone
  BY DEF RemoveAllPlayers
<1> HIDE DEF gone
<1>3. npc' \in Npcs(players) /\ npc'.told = npc.told \ gone /\ npc.told \subseteq players
  BY <1>1 DEF Good, Npcs
<1>4. /\ npc'.linker = npc.linker /\ npc'.target = npc.target /\ npc'.phase = npc.phase
      /\ npc'.curr = npc.curr /\ npc'.entered = npc.entered /\ npc'.curAct = npc.curAct
  BY <1>1 DEF Good, Npcs
<1>5. ASSUME faults' = {} PROVE npc' \in Good(players')
  <2>1. npc' \in Npcs(players')
    BY <1>1, <1>2, <1>5 DEF Good, Npcs
  <2>2. Sound(npc')
    BY <1>2, <1>3, <1>4, <1>5 DEF Good, Sound
  <2> QED BY <2>1, <2>2 DEF Good
<1> QED BY <1>1, <1>3, <1>4, <1>5

LEMMA NpcStep ==
    ASSUME WorldInv, NpcInv, Next, players' \subseteq Players
    PROVE  NpcInv'
<1>0. faults = {} /\ npc \in Good(players)
  BY DEF Next, NpcInv
<1>1. SUFFICES \/ npc' \in Good(players')
               \/ /\ npc' \in Npcs(players) /\ npc'.told \subseteq players'
                  /\ npc'.phase = npc.phase /\ npc'.curr = npc.curr
                  /\ faults' = {} => npc' \in Good(players')
  <2>1. CASE npc' \in Good(players')
    <3>1. npc' \in Good(Players) /\ npc'.told \subseteq players'
      <4>1. npc'.told \subseteq players'
        BY <2>1 DEF Good, Npcs
      <4> QED BY <2>1, <4>1, MorePlayers
    <3> QED BY <2>1, <3>1 DEF NpcInv, Good, Sound
  <2>2. CASE /\ npc' \in Npcs(players) /\ npc'.told \subseteq players'
             /\ npc'.phase = npc.phase /\ npc'.curr = npc.curr
             /\ faults' = {} => npc' \in Good(players')
    <3>1. players \subseteq Players
      BY DEF WorldInv
    <3>2. npc' \in Npcs(Players)
      BY <2>2, <3>1 DEF Npcs
    <3> QED BY <2>2, <3>2 DEF NpcInv
  <2> QED BY <1>1, <2>1, <2>2
<1>2. ASSUME UNCHANGED <<npc, players>> PROVE npc' \in Good(players')
  BY <1>0, <1>2
<1>3. ASSUME NEW late \in BOOLEAN, Update(late) PROVE npc' \in Good(players')
  <2>1. players' = players
    BY <1>3 DEF Update, worldVars
  <2> QED BY <1>0, <1>3, <2>1, UpdateGood
<1>4. CASE SyncAppearTimer
  BY <1>2, <1>4 DEF SyncAppearTimer
<1>5. ASSUME NEW g \in Games, RemoveAllPlayers(g)
      PROVE  /\ npc' \in Npcs(players) /\ npc'.told \subseteq players'
             /\ npc'.phase = npc.phase /\ npc'.curr = npc.curr
             /\ faults' = {} => npc' \in Good(players')
  BY <1>0, <1>5, RemoveAllPlayersGood
<1>6. ASSUME NEW p \in Players, HandleSyncPlayer(p) PROVE npc' \in Good(players')
  <2>1. npc' = npc /\ players \subseteq players'
    BY <1>6 DEF HandleSyncPlayer
  <2> QED BY <1>0, <2>1, MorePlayers
<1>7. ASSUME NEW p \in Players, NEW stop, Leave(p, stop) PROVE npc' \in Good(players')
  <2>1. p # None
    BY ConstantsAssumption
  <2>2. players' = players \ {p}
    BY <1>7 DEF Leave
  <2>3. PICK nearest \in IF players \ {p} = {} THEN {None} ELSE players \ {p} :
          npc' = [Disappear(npc, p, players \ {p}, nearest) EXCEPT !.told = @ \ {p}]
    BY <1>7 DEF Leave
  <2> QED BY <1>0, <2>1, <2>2, <2>3, DisappearGood
<1>8. ASSUME NEW p \in Players, HitNpc(p) PROVE npc' \in Good(players')
  <2>1. players' = players /\ p \in players /\ GetDamage(p)
    BY <1>8 DEF HitNpc, worldVars
  <2> QED BY <1>0, <2>1, GetDamageGood
<1>9. ASSUME NEW p \in Players, NEW q \in Players, HitPlayer(p, q) PROVE npc' \in Good(players')
  <2>1. players' = players /\ p \in players /\ (npc' = npc \/ GetDamage(p))
    BY <1>9 DEF HitPlayer, worldVars
  <2> QED BY <1>0, <2>1, GetDamageGood
<1>10. ASSUME NEW p \in Players, HandleSyncBtAction(p) PROVE npc' \in Good(players')
  <2>1. players' = players /\ p \in players /\ npc' = SetLinkPlayer(npc, p)
    BY <1>10 DEF HandleSyncBtAction, worldVars
  <2> QED BY <1>0, <2>1, SetLinkPlayerGood
<1>11. ASSUME NEW p \in Players, CmdUpdate(p) PROVE npc' \in Good(players')
  BY <1>2, <1>11 DEF CmdUpdate, worldVars
<1>12. ASSUME NEW p \in Players, NEW q \in Players, HandleReqSyncPlayer(p, q) PROVE npc' \in Good(players')
  BY <1>2, <1>12 DEF HandleReqSyncPlayer, worldVars
<1>13. ASSUME NEW p \in Players, NEW type \in CmdTypes, NEW q \in Players \union {None},
              HandleSyncPlayerCmd(p, type, q)
       PROVE  npc' \in Good(players')
  BY <1>2, <1>13 DEF HandleSyncPlayerCmd, worldVars
<1> QED BY <1>3, <1>4, <1>5, <1>6, <1>7, <1>8, <1>9, <1>10, <1>11, <1>12, <1>13
        DEF Next, HandleNetworkDisconnect, HandleG2SRemovePlayer

LEMMA WorldStep ==
    ASSUME WorldInv, Next
    PROVE  WorldInv'
<1> USE DEF WorldInv
<1>1. ASSUME UNCHANGED <<players, adds, timers, sees, losses>>, cmd' \in Cmds PROVE WorldInv'
  BY <1>1 DEF Shown
<1>2. ASSUME NEW p \in Players PROVE ResetCmd(p) \in Cmds
  BY DEF ResetCmd, Cmds
<1>3. ASSUME NEW late \in BOOLEAN, Update(late) PROVE WorldInv'
  BY <1>1, <1>3 DEF Update, worldVars, countVars
<1>4. CASE SyncAppearTimer
  <2>1. sees' \in [Players -> SUBSET Players]
    BY <1>4 DEF SyncAppearTimer, SyncAppear
  <2>2. ASSUME NEW p \in players PROVE sees'[p] = SyncAppear(p)
    BY <1>4 DEF SyncAppearTimer
  <2>3. ASSUME NEW p \in players, NEW q \in players PROVE q \in SyncAppear(p)
    BY DEF Shown, SyncAppear
  <2>4. ASSUME NEW p \in players, losses = 0 PROVE SyncAppear(p) \subseteq players
    BY <2>4 DEF Shown, SyncAppear
  <2>5. players' = players /\ losses' = losses
    BY <1>4 DEF SyncAppearTimer, countVars
  <2>6. Shown'
    BY <2>2, <2>3, <2>4, <2>5 DEF Shown
  <2> QED BY <1>4, <2>1, <2>6 DEF SyncAppearTimer, countVars
<1>5. ASSUME NEW g \in Games, RemoveAllPlayers(g) PROVE WorldInv'
  <2>1. sees' \in [Players -> SUBSET Players] /\ cmd' \in Cmds
    BY <1>5 DEF RemoveAllPlayers, Cmds
  <2>2. losses' = losses + 1 /\ players' \subseteq players /\ adds' = adds /\ timers' = timers
    BY <1>5 DEF RemoveAllPlayers
  <2>3. ASSUME NEW p \in players' PROVE sees'[p] = sees[p]
    BY <1>5 DEF RemoveAllPlayers
  <2>4. Shown'
    BY <2>2, <2>3 DEF Shown
  <2> QED BY <2>1, <2>2, <2>4
<1>6. ASSUME NEW p \in Players, HandleSyncPlayer(p) PROVE WorldInv'
  <2>1. /\ players' = players \union {p} /\ adds' = adds \union {p} /\ sees' = [sees EXCEPT ![p] = {}]
        /\ losses' = losses /\ timers' = timers
        /\ cmd' \in Pooled(p)
    BY <1>6 DEF HandleSyncPlayer
  <2>2. Shown'
    BY <2>1 DEF Shown
  <2>3. cmd' \in Cmds
    BY <2>1 DEF Pooled, Cmds
  <2> QED BY <2>1, <2>2, <2>3
<1>7. ASSUME NEW p \in Players, NEW stop, Leave(p, stop) PROVE WorldInv'
  <2>1. /\ players' = players \ {p} /\ adds' = adds /\ losses' = losses
        /\ sees' = [q \in Players |-> IF q \in players \ {p} THEN sees[q] \ {p} ELSE {}]
    BY <1>7 DEF Leave, countVars
  <2>2. timers' \in BOOLEAN /\ cmd' \in Cmds
    BY <1>7 DEF Leave, Cmds
  <2>3. Shown'
    BY <2>1 DEF Shown
  <2>4. sees' \in [Players -> SUBSET Players]
    BY <2>1
  <2> QED BY <2>1, <2>2, <2>3, <2>4
<1>8. ASSUME NEW p \in Players, HitNpc(p) PROVE WorldInv'
  BY <1>1, <1>2, <1>8 DEF HitNpc, GetDamage, worldVars
<1>9. ASSUME NEW p \in Players, NEW q \in Players, HitPlayer(p, q) PROVE WorldInv'
  BY <1>1, <1>2, <1>9 DEF HitPlayer, GetDamage, worldVars
<1>10. ASSUME NEW p \in Players, HandleSyncBtAction(p) PROVE WorldInv'
  BY <1>1, <1>10 DEF HandleSyncBtAction, worldVars, countVars
<1>11. ASSUME NEW p \in Players, CmdUpdate(p) PROVE WorldInv'
  <2>1. cmd' \in Cmds
    BY <1>11 DEF CmdUpdate, Cmds
  <2> QED BY <1>1, <1>11, <2>1 DEF CmdUpdate, worldVars, countVars
<1>12. ASSUME NEW p \in Players, NEW q \in Players, HandleReqSyncPlayer(p, q) PROVE WorldInv'
  BY <1>1, <1>12 DEF HandleReqSyncPlayer, worldVars, countVars
<1>13. ASSUME NEW p \in Players, NEW type \in CmdTypes, NEW q \in Players \union {None},
              HandleSyncPlayerCmd(p, type, q)
       PROVE  WorldInv'
  <2>1. cmd' \in Cmds
    BY <1>13 DEF HandleSyncPlayerCmd, Cmds
  <2> QED BY <1>1, <1>13, <2>1 DEF HandleSyncPlayerCmd, worldVars, countVars
<1> QED BY <1>3, <1>4, <1>5, <1>6, <1>7, <1>8, <1>9, <1>10, <1>11, <1>12, <1>13
        DEF Next, HandleNetworkDisconnect, HandleG2SRemovePlayer

-----------------------------------------------------------------------------
(***************************************************************************)
(* The theorems.                                                           *)
(***************************************************************************)
\* The world's records of who is there and who is shown stay right, and the Npc stays
\* good until a fault, through every handler and every update of the behaviour tree.
THEOREM NpcCorrect == Spec => [](WorldInv /\ NpcInv)
<1>1. Init => WorldInv /\ NpcInv
  <2> SUFFICES ASSUME Init PROVE WorldInv /\ NpcInv
    OBVIOUS
  <2>1. EmptyBag \in Queues
    <3>1. EmptyBag \in [{} -> Nat \ {0}]
      BY DEF EmptyBag, SetToBag
    <3> QED BY <3>1 DEF Queues
  <2>2. WorldInv
    BY DEF Init, WorldInv, Shown, Cmds
  <2>3. InitHp \in 0 .. InitHp
    BY ConstantsAssumption
  <2>4. npc \in Npcs(players)
    BY <2>1, <2>3 DEF Init, Npcs, Phases
  <2>5. Sound(npc)
    BY DEF Init, Sound
  <2>6. npc \in Good(players) /\ npc \in Npcs(Players)
    BY <2>4, <2>5, <2>2, MorePlayers DEF Good, WorldInv
  <2> QED BY <2>2, <2>5, <2>6 DEF NpcInv, Sound, Init
<1>2. WorldInv /\ NpcInv /\ [Next]_vars => (WorldInv /\ NpcInv)'
  <2> SUFFICES ASSUME WorldInv, NpcInv, [Next]_vars PROVE WorldInv' /\ NpcInv'
    OBVIOUS
  <2>1. CASE Next
    <3>1. WorldInv'
      BY <2>1, WorldStep
    <3>2. players' \subseteq Players
      BY <3>1 DEF WorldInv
    <3> QED BY <2>1, <3>1, <3>2, NpcStep
  <2>2. CASE UNCHANGED vars
    <3>1. WorldInv'
      BY <2>2 DEF WorldInv, Shown, Cmds, vars, worldVars, countVars
    <3>2. NpcInv'
      BY <2>2 DEF NpcInv, vars, worldVars
    <3> QED BY <3>1, <3>2
  <2> QED BY <2>1, <2>2
<1> QED BY <1>1, <1>2, PTL DEF Spec

\* The type invariant.
THEOREM TypeCorrect == Spec => []TypeOK
<1>1. WorldInv /\ NpcInv => TypeOK
  BY DEF WorldInv, NpcInv, TypeOK, Cmds, Npcs, Phases
<1> QED BY <1>1, NpcCorrect, PTL

\* World::PlayerDisappear forgets every Player it removes: the Npc fights and is moved
\* by players of the world only.
THEOREM PointersLiveCorrect == Spec => []PointersLive
<1>1. NpcInv => PointersLive
  BY DEF NpcInv, Good, Npcs, PointersLive
<1> QED BY <1>1, NpcCorrect, PTL

\* Whoever moves the Npc was told so last, however it came to move it.
THEOREM LinkerToldCorrect == Spec => []LinkerTold
<1>1. NpcInv => LinkerTold
  BY DEF NpcInv, Good, Sound, LinkerTold
<1> QED BY <1>1, NpcCorrect, PTL

\* BtComponent::curAct names the action that runs, through any sequence of events.
THEOREM CurActRunsCorrect == Spec => []CurActRuns
<1>1. NpcInv => CurActRuns
  <2> SUFFICES ASSUME NpcInv, faults = {}
               PROVE  npc.curAct = IF npc.phase = "alive" /\ npc.entered THEN npc.curr ELSE None
    BY DEF CurActRuns
  <2>1. npc.entered \in BOOLEAN /\ Sound(npc)
    BY DEF NpcInv, Good, Npcs
  <2> QED BY <2>1 DEF Sound
<1> QED BY <1>1, NpcCorrect, PTL

\* Every client shows who is there, once World::SyncAppearTimer has announced them.
THEOREM ShowsPlayersCorrect == Spec => []ShowsPlayers
<1>1. WorldInv => ShowsPlayers
  BY DEF WorldInv, Shown, ShowsPlayers
<1> QED BY <1>1, NpcCorrect, PTL
=============================================================================
