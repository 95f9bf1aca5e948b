------------------------ MODULE ComponentLifeProofs -------------------------
(***************************************************************************)
(* Objects of a pool, the parents of components, functions and timers, for *)
(* any number of objects and types in any order.                           *)
(***************************************************************************)
EXTENDS ComponentLife, SequenceTheorems, TLAPS

Entries == [sn : Nat, obj : Objects]
Caches == [objs : SUBSET Entries, adds : SUBSET Entries, removes : SUBSET Nat]

TypeInv ==
    /\ turn \in 1 .. Len(Order) + 4 /\ lastSn \in 0 .. MaxSn
    /\ sn \in [Objects -> Nat] /\ parent \in [Objects -> Objects \union {None}]
    /\ parts \in [Objects -> SUBSET Objects]
    /\ pool \in [Types -> [free : SUBSET Objects, use : Caches]] /\ coll \in [Types -> Caches]
    /\ timers \in [Objects -> Seq(Nat)] /\ heap \subseteq [id : Nat, owner : Objects, once : BOOLEAN]
    /\ asked \subseteq Objects /\ callbacks \subseteq Entries

\* No number is given that is not known to GenerateSN.
ObjectsKnown ==
    /\ \A o \in Objects : sn[o] <= lastSn
    /\ \A t \in Types : \A s \in coll[t].removes : s <= lastSn
TimersKnown == \A o \in Objects : \A k \in DOMAIN timers[o] : timers[o][k] <= lastSn
NumbersGiven == ObjectsKnown /\ TimersKnown

(***************************************************************************)
(* A pool: an object is free or has one entry, entries have different      *)
(* numbers, and the numbers to be removed are those of the dead.           *)
(***************************************************************************)
Free(t) == \A o \in pool[t].free : o \in OfType(t) /\ sn[o] = 0 /\ \A e \in InPool(t) : e.obj # o
InUse(t) ==
    \A e \in InPool(t) :
        /\ e.obj \in OfType(t) /\ e.sn \in 1 .. lastSn
        /\ Live(e.obj) => e.sn = sn[e.obj] /\ e.sn \notin pool[t].use.removes
        /\ ~ Live(e.obj) => e.sn \in pool[t].use.removes
Whole(t) == \A o \in OfType(t) : o \in pool[t].free \/ \E e \in InPool(t) : e.obj = o
Distinct(t) == \A e, f \in InPool(t) : e.obj = f.obj \/ e.sn = f.sn => e = f
Known(t) == \A s \in pool[t].use.removes : \E e \in InPool(t) : e.sn = s
PoolInv == \A t \in Types : Free(t) /\ InUse(t) /\ Whole(t) /\ Distinct(t) /\ Known(t)

\* A collection has the living objects of its type.
CollInv ==
    \A t \in Types :
        /\ \A e \in InColl(t) : e.obj \in OfType(t) /\ Live(e.obj) /\ e.sn = sn[e.obj]
        /\ \A o \in OfType(t) : Live(o) => Entry(sn[o], o) \in InColl(t)

(***************************************************************************)
(* A component is in the list of its entity or noted for removal, and not  *)
(* both.                                                                   *)
(***************************************************************************)
ListedIn(e, o) ==
    /\ Kind[e] \in EntityTypes /\ Kind[o] \in PartTypes
    /\ Live(e) /\ Live(o) /\ parent[o] = e /\ sn[o] \notin coll[Kind[o]].removes
Listed == \A e \in Objects : \A o \in parts[e] : ListedIn(e, o)
HasEntity(o) == parent[o] \in Objects /\ Kind[parent[o]] \in EntityTypes
Noted ==
    \A o \in Objects : Kind[o] \in PartTypes /\ Live(o) =>
        HasEntity(o) /\ (o \in parts[parent[o]] \/ sn[o] \in coll[Kind[o]].removes)
PartInv == Listed /\ Noted

\* A component whose parent's memory is free goes in this frame, before anything is born.
ReuseInv ==
    \A o \in Objects : Kind[o] \in PartTypes /\ Live(o) /\ parent[o] \in pool[Kind[parent[o]]].free =>
        /\ turn > 1
        /\ \E k \in DOMAIN Order : Order[k] = Kind[o] /\ turn <= k + 1

\* Components that hold a function are never removed, and a function that can be found
\* belongs to an entity that is there.
FunctionOf(c) ==
    /\ Kind[c.obj] = "MessageCallBack" /\ Live(c.obj)
    /\ parent[c.obj] \in Objects /\ Live(parent[c.obj]) /\ sn[parent[c.obj]] = c.sn
NeverRemoved == "MessageCallBack" \in Types => coll["MessageCallBack"].removes = {}
FunctionInv == NeverRemoved /\ \A c \in callbacks : FunctionOf(c)

LifeInv == TypeInv /\ NumbersGiven /\ PoolInv /\ CollInv /\ PartInv /\ ReuseInv /\ CallsLive /\ FunctionInv

(***************************************************************************)
(* Timers.  Their numbers are different, and a timer that fires once is    *)
(* the last one a component asks for.                                      *)
(***************************************************************************)
OnceLast == \A k \in DOMAIN Timers : Timers[k] = "once" => k = Len(Timers)
TimerInv ==
    /\ \A o \in Objects : timers[o] # <<>> => Live(o) /\ DOMAIN timers[o] = DOMAIN Timers
    /\ \A o, p \in Objects : \A k \in DOMAIN timers[o], j \in DOMAIN timers[p] :
           timers[o][k] = timers[p][j] => o = p /\ k = j
    /\ \A t \in heap : \E k \in DOMAIN timers[t.owner] :
           t.id = timers[t.owner][k] /\ t.once = (Timers[k] = "once")
    /\ \A o \in Objects : \A k \in DOMAIN timers[o] :
           Timers[k] = "ever" => \E t \in heap : t.id = timers[o][k]

-----------------------------------------------------------------------------
(***************************************************************************)
(* The frame and the types.                                                *)
(***************************************************************************)
LEMMA KindFacts ==
    /\ \A o \in Objects : Kind[o] \in Types
    /\ Order \in Seq(Types) /\ DOMAIN Order = 1 .. Len(Order) /\ Len(Order) \in Nat
    /\ EntityTypes \intersect PartTypes = {} /\ EntityTypes \subseteq Types /\ PartTypes \subseteq Types
    /\ "MessageCallBack" \notin EntityTypes \union PartTypes
    /\ Types \intersect {"pool", "message", "update", "call"} = {}
BY ConstantsAssumption DEF Types, EntityTypes, PartTypes

\* SystemManager::Update: the pools, the collections, the messages, the functions.
LEMMA FramePlaces ==
    /\ Len(Frame) = Len(Order) + 4 /\ DOMAIN Frame = 1 .. Len(Order) + 4
    /\ Frame[1] = "pool" /\ \A k \in 1 .. Len(Order) : Frame[k + 1] = Order[k]
    /\ Frame[Len(Order) + 2] = "message" /\ Frame[Len(Order) + 3] = "update"
    /\ Frame[Len(Order) + 4] = "call"
<1> DEFINE S == {"World", "WorldProxy", "Part", "UpdateComponent", "MessageCallBack",
                 "pool", "message", "update", "call"}
           P == <<"pool">>
           A == P \o Order
           B == <<"message", "update", "call">>
<1>0. Order \in Seq(S) /\ Len(Order) \in Nat
  BY ConstantsAssumption
<1>1. P \in Seq(S) /\ Len(P) = 1 /\ P[1] = "pool"
  OBVIOUS
<1>2. B \in Seq(S) /\ Len(B) = 3 /\ B[1] = "message" /\ B[2] = "update" /\ B[3] = "call"
  OBVIOUS
<1> HIDE DEF S, P, B
<1>3. /\ A \in Seq(S) /\ Len(A) = Len(Order) + 1 /\ A[1] = "pool"
      /\ \A k \in 1 .. Len(Order) : A[k + 1] = Order[k]
  <2>1. A \in Seq(S) /\ Len(A) = Len(P) + Len(Order)
    BY <1>0, <1>1, ConcatProperties
  <2>2. \A i \in 1 .. Len(P) + Len(Order) : A[i] = IF i <= Len(P) THEN P[i] ELSE Order[i - Len(P)]
    BY <1>0, <1>1, ConcatProperties
  <2>3. \A k \in 1 .. Len(Order) : k + 1 \in 1 .. Len(P) + Len(Order) /\ ~(k + 1 <= Len(P)) /\ (k + 1) - Len(P) = k
    BY <1>0, <1>1
  <2>4. 1 \in 1 .. Len(P) + Len(Order) /\ 1 <= Len(P)
    BY <1>0, <1>1
  <2> QED BY <1>0, <1>1, <2>1, <2>2, <2>3, <2>4
<1> HIDE DEF A
<1>4. /\ Len(A \o B) = Len(Order) + 4
      /\ DOMAIN (A \o B) = 1 .. Len(Order) + 4
      /\ \A i \in 1 .. Len(A) + Len(B) : (A \o B)[i] = IF i <= Len(A) THEN A[i] ELSE B[i - Len(A)]
  <2>1. A \o B \in Seq(S) /\ Len(A \o B) = Len(A) + Len(B)
    BY <1>2, <1>3, ConcatProperties
  <2>2. Len(A) + Len(B) = Len(Order) + 4
    BY <1>0, <1>2, <1>3
  <2>3. DOMAIN (A \o B) = 1 .. Len(A \o B)
    BY <2>1
  <2>4. \A i \in 1 .. Len(A) + Len(B) : (A \o B)[i] = IF i <= Len(A) THEN A[i] ELSE B[i - Len(A)]
    BY <1>2, <1>3, ConcatProperties
  <2> QED BY <2>1, <2>2, <2>3, <2>4
<1>5. \A k \in 1 .. Len(Order) : k + 1 \in 1 .. Len(A) + Len(B) /\ k + 1 <= Len(A)
  BY <1>0, <1>2, <1>3
<1>6. \A k \in {2, 3, 4} : /\ Len(Order) + k \in 1 .. Len(A) + Len(B) /\ ~(Len(Order) + k <= Len(A))
                           /\ (Len(Order) + k) - Len(A) = k - 1
  BY <1>0, <1>2, <1>3
<1>7. 1 \in 1 .. Len(A) + Len(B) /\ 1 <= Len(A)
  BY <1>0, <1>2, <1>3
<1>8. Frame = A \o B
  BY DEF Frame, A, B, P
<1>9. /\ (A \o B)[1] = "pool" /\ \A k \in 1 .. Len(Order) : (A \o B)[k + 1] = Order[k]
  BY <1>3, <1>4, <1>5, <1>7
<1>10. /\ (A \o B)[Len(Order) + 2] = "message" /\ (A \o B)[Len(Order) + 3] = "update"
       /\ (A \o B)[Len(Order) + 4] = "call"
  <2>1. \A k \in {2, 3, 4} : (A \o B)[Len(Order) + k] = B[k - 1]
    BY <1>4, <1>6
  <2>2. B[2 - 1] = "message" /\ B[3 - 1] = "update" /\ B[4 - 1] = "call"
    BY <1>2
  <2> QED BY <2>1, <2>2
<1> QED BY <1>4, <1>8, <1>9, <1>10

\* Where the frame is.
LEMMA PhaseAt ==
    ASSUME NEW x \in 1 .. Len(Order) + 4
    PROVE  /\ \A t \in Types : Frame[x] = t => x > 1 /\ x - 1 \in DOMAIN Order /\ Order[x - 1] = t
           /\ Frame[x] = "message" <=> x = Len(Order) + 2
           /\ Frame[x] = "update" <=> x = Len(Order) + 3
           /\ Frame[x] = "call" <=> x = Len(Order) + 4
           /\ Frame[x] = "pool" <=> x = 1
<1>0. Len(Order) \in Nat /\ DOMAIN Order = 1 .. Len(Order)
  BY KindFacts
<1>1. CASE x = 1
  BY <1>0, <1>1, FramePlaces, KindFacts
<1>2. CASE x \in 2 .. Len(Order) + 1
  <2>1. x - 1 \in 1 .. Len(Order) /\ (x - 1) + 1 = x
    BY <1>0, <1>2
  <2>2. Frame[x] = Order[x - 1] /\ Order[x - 1] \in Types
    BY <2>1, FramePlaces DEF Types
  <2> QED BY <1>0, <1>2, <2>1, <2>2, KindFacts
<1>3. CASE x \in {Len(Order) + 2, Len(Order) + 3, Len(Order) + 4}
  BY <1>0, <1>3, FramePlaces, KindFacts
<1> QED BY <1>0, <1>1, <1>2, <1>3

LEMMA PlaceOfPhase ==
    ASSUME turn \in 1 .. Len(Order) + 4
    PROVE  /\ \A t \in Types : At(t) => turn > 1 /\ turn - 1 \in DOMAIN Order /\ Order[turn - 1] = t
           /\ Working => turn > Len(Order) + 1
           /\ At("message") <=> turn = Len(Order) + 2
           /\ At("update") <=> turn = Len(Order) + 3
           /\ At("call") <=> turn = Len(Order) + 4
           /\ At("pool") <=> turn = 1
<1>1. /\ \A t \in Types : At(t) => turn > 1 /\ turn - 1 \in DOMAIN Order /\ Order[turn - 1] = t
      /\ At("message") <=> turn = Len(Order) + 2
      /\ At("update") <=> turn = Len(Order) + 3
      /\ At("call") <=> turn = Len(Order) + 4
      /\ At("pool") <=> turn = 1
  BY PhaseAt DEF At
<1> QED BY <1>1, KindFacts DEF Working

LEMMA TurnTyped ==
    ASSUME TypeInv, NextTurn
    PROVE  turn' \in 1 .. Len(Order) + 4 /\ turn' = IF turn = Len(Order) + 4 THEN 1 ELSE turn + 1
BY FramePlaces, KindFacts DEF TypeInv, NextTurn

(***************************************************************************)
(* Birth: what it does to each pool and collection.                        *)
(***************************************************************************)
Stored(t, o, s) ==
    /\ pool'[t].free = (IF t = Kind[o] THEN pool[t].free \ {o} ELSE pool[t].free)
    /\ pool'[t].use.removes = pool[t].use.removes
    /\ InPool(t)' = (IF t = Kind[o] THEN InPool(t) \union {Entry(s, o)} ELSE InPool(t))
    /\ coll'[t].removes = coll[t].removes /\ coll'[t].objs = coll[t].objs
    /\ InColl(t)' = (IF t = Kind[o] THEN InColl(t) \union {Entry(s, o)} ELSE InColl(t))

LEMMA BirthFacts ==
    ASSUME TypeInv, NEW o \in Objects, NEW s \in Nat, NEW p \in Objects \union {None}, Birth(o, s, p)
    PROVE  /\ o \in pool[Kind[o]].free
           /\ sn' \in [Objects -> Nat] /\ \A q \in Objects : sn'[q] = IF q = o THEN s ELSE sn[q]
           /\ parent' \in [Objects -> Objects \union {None}]
           /\ \A q \in Objects : parent'[q] = IF q = o THEN p ELSE parent[q]
           /\ pool' \in [Types -> [free : SUBSET Objects, use : Caches]] /\ coll' \in [Types -> Caches]
           /\ \A t \in Types : Stored(t, o, s)
<1> DEFINE k == Kind[o]
           P == pool[k]
           C == coll[k]
           E == {Entry(s, o)}
<1>0. k \in Types /\ E \in SUBSET Entries
  BY KindFacts DEF Entry, Entries
<1>1. P \in [free : SUBSET Objects, use : Caches] /\ P.use \in Caches /\ C \in Caches
  BY <1>0 DEF TypeInv
<1>a. \A c \in Caches : [c EXCEPT !.adds = c.adds \union E]
                         = [objs |-> c.objs, adds |-> c.adds \union E, removes |-> c.removes]
  BY DEF Caches
<1>2. /\ o \in pool[Kind[o]].free
      /\ sn' \in [Objects -> Nat] /\ \A q \in Objects : sn'[q] = IF q = o THEN s ELSE sn[q]
      /\ parent' \in [Objects -> Objects \union {None}]
      /\ \A q \in Objects : parent'[q] = IF q = o THEN p ELSE parent[q]
  BY DEF Birth, TypeInv
<1>3. coll' = [coll EXCEPT ![k] = [C EXCEPT !.adds = C.adds \union E]]
  BY DEF Birth
<1>4. [C EXCEPT !.adds = C.adds \union E] = [objs |-> C.objs, adds |-> C.adds \union E, removes |-> C.removes]
  BY <1>1, <1>a
<1>5. pool' = [pool EXCEPT ![k] = [P EXCEPT !.free = P.free \ {o}, !.use.adds = P.use.adds \union E]]
  BY <1>0, <1>1 DEF Birth, TypeInv, Caches
<1>6. [P EXCEPT !.free = P.free \ {o}, !.use.adds = P.use.adds \union E]
        = [free |-> P.free \ {o},
           use |-> [objs |-> P.use.objs, adds |-> P.use.adds \union E, removes |-> P.use.removes]]
  <2> DEFINE f == P.free \ {o}
             c == P.use
             x == P.use.adds \union E
  <2>1. [P EXCEPT !.free = f] = [free |-> f, use |-> c]
    BY <1>1
  <2>2. [[free |-> f, use |-> c] EXCEPT !.use.adds = x] = [free |-> f, use |-> [c EXCEPT !.adds = x]]
    OBVIOUS
  <2>3. [P EXCEPT !.free = f, !.use.adds = x] = [free |-> f, use |-> [c EXCEPT !.adds = x]]
    <3> HIDE DEF P, f, c, x
    <3> QED BY <2>1, <2>2
  <2> QED BY <1>1, <1>a, <2>3
<1>7. pool' \in [Types -> [free : SUBSET Objects, use : Caches]]
  BY <1>0, <1>1, <1>5, <1>6 DEF TypeInv, Caches
<1>8. coll' \in [Types -> Caches]
  BY <1>0, <1>1, <1>3, <1>4 DEF TypeInv, Caches
<1>9. ASSUME NEW t \in Types PROVE Stored(t, o, s)
  <2>1. CASE t = k
    <3>1. coll'[t] = [objs |-> C.objs, adds |-> C.adds \union E, removes |-> C.removes]
      BY <1>0, <1>3, <1>4, <2>1 DEF TypeInv
    <3>2. pool'[t] = [free |-> P.free \ {o},
                      use |-> [objs |-> P.use.objs, adds |-> P.use.adds \union E, removes |-> P.use.removes]]
      BY <1>0, <1>5, <1>6, <2>1 DEF TypeInv
    <3> QED BY <2>1, <3>1, <3>2 DEF Stored, InPool, InColl
  <2>2. CASE t # k
    <3>1. coll'[t] = coll[t] /\ pool'[t] = pool[t]
      BY <1>3, <1>5, <2>2 DEF TypeInv
    <3> QED BY <2>2, <3>1 DEF Stored, InPool, InColl
  <2> QED BY <2>1, <2>2
<1> QED BY <1>2, <1>7, <1>8, <1>9

\* MallocObject and AddComponent with a number that the type does not use.
LEMMA BirthStored ==
    ASSUME TypeInv, PoolInv, CollInv,
           NEW o \in Objects, NEW s \in Nat \ {0}, NEW p \in Objects \union {None}, Birth(o, s, p),
           \A x \in InColl(Kind[o]) \union InPool(Kind[o]) : x.sn # s,
           lastSn' \in Nat, lastSn <= lastSn', s <= lastSn'
    PROVE  PoolInv' /\ CollInv' /\ sn[o] = 0
<1> DEFINE n == Entry(s, o)
<1>0. /\ Kind[o] \in Types /\ n.sn = s /\ n.obj = o /\ lastSn \in Nat /\ s > 0
  BY KindFacts DEF Entry, TypeInv
<1>1. /\ o \in pool[Kind[o]].free
      /\ \A q \in Objects : sn'[q] = IF q = o THEN s ELSE sn[q]
  BY BirthFacts
<1>2. \A t \in Types :
          /\ pool'[t].free = IF t = Kind[o] THEN pool[t].free \ {o} ELSE pool[t].free
          /\ pool'[t].use.removes = pool[t].use.removes
          /\ InPool(t)' = IF t = Kind[o] THEN InPool(t) \union {n} ELSE InPool(t)
          /\ InColl(t)' = IF t = Kind[o] THEN InColl(t) \union {n} ELSE InColl(t)
  <2>1. \A t \in Types : Stored(t, o, s)
    BY BirthFacts
  <2> QED BY <2>1 DEF Stored
<1>3. sn[o] = 0 /\ \A e \in InPool(Kind[o]) : e.obj # o
  BY <1>0, <1>1 DEF PoolInv, Free
<1> HIDE DEF n
<1>4. ASSUME NEW t \in Types, t # Kind[o]
      PROVE  (Free(t) /\ InUse(t) /\ Whole(t) /\ Distinct(t) /\ Known(t))'
  <2>1. /\ pool'[t].free = pool[t].free /\ pool'[t].use.removes = pool[t].use.removes
        /\ InPool(t)' = InPool(t)
    BY <1>2, <1>4
  <2>2. \A q \in OfType(t) : sn'[q] = sn[q]
    BY <1>1, <1>4 DEF OfType
  <2>3. Free(t) /\ InUse(t) /\ Whole(t) /\ Distinct(t) /\ Known(t)
    BY DEF PoolInv
  <2>4. Free(t)' /\ InUse(t)'
    BY <1>0, <2>1, <2>2, <2>3 DEF Free, InUse, Live, OfType
  <2> QED BY <2>1, <2>3, <2>4 DEF Whole, Distinct, Known, OfType
<1>5. ASSUME NEW t \in Types, t = Kind[o]
      PROVE  (Free(t) /\ InUse(t) /\ Whole(t) /\ Distinct(t) /\ Known(t))'
  <2>1. /\ pool'[t].free = pool[t].free \ {o} /\ pool'[t].use.removes = pool[t].use.removes
        /\ InPool(t)' = InPool(t) \union {n}
    BY <1>2, <1>5
  <2>3. Free(t) /\ InUse(t) /\ Whole(t) /\ Distinct(t) /\ Known(t)
    BY DEF PoolInv
  <2>4. Free(t)'
    BY <1>0, <1>1, <2>1, <2>3 DEF Free, OfType
  <2>5. n.sn \notin pool[t].use.removes
    BY <1>0, <1>5, <2>3 DEF Known
  <2>6. InUse(t)'
    <3>1. \A e \in InPool(t) : sn'[e.obj] = sn[e.obj]
      BY <1>1, <1>3, <1>5, <2>3 DEF InUse, OfType
    <3>2. o \in OfType(t) /\ sn'[o] = s
      BY <1>1, <1>5 DEF OfType
    <3>3. ASSUME NEW e \in InPool(t)
          PROVE  /\ e.obj \in OfType(t) /\ e.sn \in 1 .. lastSn'
                 /\ sn'[e.obj] # 0 => e.sn = sn'[e.obj] /\ e.sn \notin pool[t].use.removes
                 /\ sn'[e.obj] = 0 => e.sn \in pool[t].use.removes
      BY <1>0, <2>3, <3>1 DEF InUse, Live
    <3> QED BY <1>0, <2>1, <2>5, <3>2, <3>3 DEF InUse, Live, OfType
  <2>7. Whole(t)'
    BY <1>0, <2>1, <2>3 DEF Whole, OfType
  <2>8. Distinct(t)'
    BY <1>0, <1>3, <1>5, <2>1, <2>3 DEF Distinct
  <2>9. Known(t)'
    BY <2>1, <2>3 DEF Known
  <2> QED BY <2>4, <2>6, <2>7, <2>8, <2>9
<1>6. PoolInv'
  BY <1>4, <1>5 DEF PoolInv
<1>7. CollInv'
  <2> SUFFICES ASSUME NEW t \in Types
               PROVE  /\ \A e \in InColl(t)' : e.obj \in OfType(t) /\ sn'[e.obj] # 0 /\ e.sn = sn'[e.obj]
                      /\ \A q \in OfType(t) : sn'[q] # 0 => Entry(sn'[q], q) \in InColl(t)'
    BY DEF CollInv, Live, OfType
  <2>1. /\ \A e \in InColl(t) : e.obj \in OfType(t) /\ sn[e.obj] # 0 /\ e.sn = sn[e.obj]
        /\ \A q \in OfType(t) : sn[q] # 0 => Entry(sn[q], q) \in InColl(t)
    BY DEF CollInv, Live
  <2>2. \A e \in InColl(t) : sn'[e.obj] = sn[e.obj]
    BY <1>1, <1>3, <2>1 DEF OfType
  <2>3. CASE t = Kind[o]
    <3>1. \A q \in OfType(t) : q # o => sn'[q] = sn[q]
      BY <1>1 DEF OfType
    <3>2. Entry(sn'[o], o) = n /\ o \in OfType(t) /\ sn'[o] = s
      BY <1>1, <2>3 DEF n, OfType
    <3>3. InColl(t)' = InColl(t) \union {n}
      BY <1>2, <2>3
    <3>4. \A e \in InColl(t)' : e.obj \in OfType(t) /\ sn'[e.obj] # 0 /\ e.sn = sn'[e.obj]
      BY <1>0, <2>1, <2>2, <3>2, <3>3
    <3>5. ASSUME NEW q \in OfType(t), sn'[q] # 0 PROVE Entry(sn'[q], q) \in InColl(t)'
      BY <2>1, <3>1, <3>2, <3>3, <3>5
    <3> QED BY <3>4, <3>5
  <2>4. CASE t # Kind[o]
    <3>1. \A q \in OfType(t) : sn'[q] = sn[q]
      BY <1>1, <2>4 DEF OfType
    <3> QED BY <1>2, <2>1, <2>2, <2>4, <3>1
  <2> QED BY <2>3, <2>4
<1> QED BY <1>3, <1>6, <1>7

\* What a birth leaves alone: it happens when no free memory has a living component.
LEMMA BirthAround ==
    ASSUME LifeInv, Working, turn' = turn,
           NEW o \in Objects, NEW s \in Nat \ {0}, NEW p \in Objects \union {None}, Birth(o, s, p),
           sn[o] = 0, Kind[o] \in PartTypes => p \in Objects /\ Live(p)
    PROVE  ReuseInv' /\ CallsLive'
<1>0. Kind[o] \in Types /\ turn \in 1 .. Len(Order) + 4 /\ turn > Len(Order) + 1
  BY KindFacts, PlaceOfPhase DEF LifeInv, TypeInv
<1>1. /\ \A q \in Objects : sn'[q] = IF q = o THEN s ELSE sn[q]
      /\ \A q \in Objects : parent'[q] = IF q = o THEN p ELSE parent[q]
      /\ \A t \in Types : pool'[t].free \subseteq pool[t].free /\ coll'[t].objs = coll[t].objs
  <2>0. TypeInv
    BY DEF LifeInv
  <2>1. /\ \A q \in Objects : sn'[q] = IF q = o THEN s ELSE sn[q]
        /\ \A q \in Objects : parent'[q] = IF q = o THEN p ELSE parent[q]
    BY <2>0, BirthFacts
  <2>2. \A t \in Types : Stored(t, o, s)
    BY <2>0, BirthFacts
  <2> QED BY <2>1, <2>2 DEF Stored
<1>2. \A q \in Objects : Kind[q] \in PartTypes /\ Live(q) => parent[q] \notin pool[Kind[parent[q]]].free
  <2> SUFFICES ASSUME NEW q \in Objects, Kind[q] \in PartTypes, Live(q),
                      parent[q] \in pool[Kind[parent[q]]].free
               PROVE  FALSE
    OBVIOUS
  <2>1. PICK k \in DOMAIN Order : Order[k] = Kind[q] /\ turn <= k + 1
    BY DEF LifeInv, ReuseInv
  <2> QED BY <1>0, <2>1, KindFacts
<1>3. \A q \in Objects : Kind[q] \in PartTypes /\ Live(q) => parent[q] \in Objects
  BY DEF LifeInv, PartInv, Noted, HasEntity
<1>4. ReuseInv'
  <2> SUFFICES ASSUME NEW q \in Objects, Kind[q] \in PartTypes, sn'[q] # 0,
                      parent'[q] \in pool'[Kind[parent'[q]]].free
               PROVE  FALSE
    BY DEF ReuseInv, Live
  <2>1. CASE q = o
    <3>1. parent'[q] = p /\ p \in Objects /\ Live(p) /\ Kind[p] \in Types
      BY <1>1, <2>1, KindFacts
    <3>2. p \in pool[Kind[p]].free
      BY <1>1, <3>1
    <3> QED BY <3>1, <3>2 DEF LifeInv, PoolInv, Free, Live
  <2>2. CASE q # o
    <3>1. parent'[q] = parent[q] /\ Live(q)
      BY <1>1, <2>2 DEF Live
    <3>2. Kind[parent[q]] \in Types
      BY <1>3, <3>1, KindFacts
    <3> QED BY <1>1, <1>2, <3>1, <3>2
  <2> QED BY <2>1, <2>2
<1>5. CallsLive'
  <2> SUFFICES ASSUME "UpdateComponent" \in Types, At("call"), NEW e \in coll["UpdateComponent"].objs
               PROVE  sn'[parent'[e.obj]] # 0
    BY <1>1 DEF CallsLive, Live, At
  <2>1. Live(parent[e.obj])
    BY DEF LifeInv, CallsLive
  <2>2. e.obj \in Objects /\ Kind[e.obj] = "UpdateComponent" /\ Live(e.obj)
    BY DEF LifeInv, CollInv, InColl, OfType
  <2>3. parent[e.obj] \in Objects
    BY <1>3, <2>2 DEF PartTypes
  <2>4. parent'[e.obj] = parent[e.obj]
    BY <1>1, <2>2 DEF Live
  <2> QED BY <1>1, <2>1, <2>3, <2>4 DEF Live
<1> QED BY <1>4, <1>5

\* A birth disturbs no pointer between living objects.
LEMMA BirthLinks ==
    ASSUME LifeInv, NEW o \in Objects, NEW s \in Nat \ {0}, NEW p \in Objects \union {None}, Birth(o, s, p),
           sn[o] = 0
    PROVE  /\ \A e \in Objects : \A q \in parts[e] : ListedIn(e, q)'
           /\ \A q \in Objects \ {o} : Kind[q] \in PartTypes /\ Live(q)' =>
                  /\ parent'[q] = parent[q] /\ HasEntity(q)'
                  /\ q \in parts[parent[q]] \/ sn'[q] \in coll'[Kind[q]].removes
           /\ \A c \in callbacks : FunctionOf(c)'
           /\ NeverRemoved'
<1>0. TypeInv
  BY DEF LifeInv
<1>1. /\ \A q \in Objects : sn'[q] = IF q = o THEN s ELSE sn[q]
      /\ \A q \in Objects : parent'[q] = IF q = o THEN p ELSE parent[q]
  BY <1>0, BirthFacts
<1>2. \A t \in Types : coll'[t].removes = coll[t].removes
  <2>1. \A t \in Types : Stored(t, o, s)
    BY <1>0, BirthFacts
  <2> QED BY <2>1 DEF Stored
<1>3. ASSUME NEW e \in Objects, NEW q \in parts[e] PROVE ListedIn(e, q)'
  <2>1. q \in Objects
    BY <1>0 DEF TypeInv
  <2>2. ListedIn(e, q)
    BY DEF LifeInv, PartInv, Listed
  <2>3. Kind[q] \in Types /\ sn'[q] = sn[q] /\ sn'[e] = sn[e] /\ parent'[q] = parent[q]
    BY <1>1, <2>1, <2>2, KindFacts DEF ListedIn, Live
  <2> QED BY <1>2, <2>2, <2>3 DEF ListedIn, Live
<1>4. ASSUME NEW q \in Objects \ {o}, Kind[q] \in PartTypes, Live(q)'
      PROVE  /\ parent'[q] = parent[q] /\ HasEntity(q)'
             /\ q \in parts[parent[q]] \/ sn'[q] \in coll'[Kind[q]].removes
  <2>1. sn'[q] = sn[q] /\ parent'[q] = parent[q] /\ Live(q)
    BY <1>1, <1>4 DEF Live
  <2> QED BY <1>2, <1>4, <2>1, KindFacts DEF LifeInv, PartInv, Noted, HasEntity
<1>5. ASSUME NEW c \in callbacks PROVE FunctionOf(c)'
  <2>1. c.obj \in Objects /\ FunctionOf(c)
    BY <1>0 DEF TypeInv, Entries, LifeInv, FunctionInv
  <2> QED BY <1>1, <2>1 DEF FunctionOf, Live
<1>6. NeverRemoved'
  BY <1>2 DEF LifeInv, FunctionInv, NeverRemoved
<1> QED BY <1>3, <1>4, <1>5, <1>6

\* A number that GenerateSN has not given yet is the number of nothing.
LEMMA FreshUnused ==
    ASSUME LifeInv
    PROVE  \A t \in Types : \A x \in InColl(t) \union InPool(t) : x.sn \in Nat /\ x.sn <= lastSn
<1> SUFFICES ASSUME NEW t \in Types, NEW x \in InColl(t) \union InPool(t)
             PROVE  x.sn \in Nat /\ x.sn <= lastSn
  OBVIOUS
<1>0. lastSn \in Nat
  BY DEF LifeInv, TypeInv
<1>1. CASE x \in InPool(t)
  BY <1>0, <1>1 DEF LifeInv, PoolInv, InUse
<1>2. CASE x \in InColl(t)
  <2>1. x.obj \in Objects /\ x.sn = sn[x.obj]
    BY <1>2 DEF LifeInv, CollInv, OfType
  <2> QED BY <2>1 DEF LifeInv, TypeInv, NumbersGiven, ObjectsKnown
<1> QED BY <1>1, <1>2

LEMMA FreshNumber ==
    ASSUME LifeInv, NEW n \in Nat \ {0}, Fresh(n), NEW o \in Objects
    PROVE  /\ lastSn + 1 \in Nat \ {0} /\ lastSn' \in 0 .. MaxSn /\ lastSn' = lastSn + n
           /\ lastSn <= lastSn' /\ lastSn + 1 <= lastSn'
           /\ \A x \in InColl(Kind[o]) \union InPool(Kind[o]) : x.sn # lastSn + 1
<1>1. lastSn \in Nat /\ MaxSn \in Nat /\ Kind[o] \in Types
  BY ConstantsAssumption, KindFacts DEF LifeInv, TypeInv
<1>2. lastSn + n <= MaxSn /\ lastSn' = lastSn + n
  BY DEF Fresh
<1> QED BY <1>1, <1>2, FreshUnused

\* The four variables that a birth changes.
BornTyped ==
    /\ lastSn \in 0 .. MaxSn
    /\ sn \in [Objects -> Nat] /\ parent \in [Objects -> Objects \union {None}]
    /\ pool \in [Types -> [free : SUBSET Objects, use : Caches]] /\ coll \in [Types -> Caches]

LEMMA BirthInv ==
    ASSUME LifeInv, Working, turn' = turn,
           NEW o \in Objects, NEW s \in Nat \ {0}, NEW p \in Objects \union {None}, Birth(o, s, p),
           \A x \in InColl(Kind[o]) \union InPool(Kind[o]) : x.sn # s,
           lastSn' \in 0 .. MaxSn, lastSn <= lastSn', s <= lastSn',
           Kind[o] \in PartTypes => p \in Objects /\ Live(p)
    PROVE  /\ PoolInv' /\ CollInv' /\ ReuseInv' /\ CallsLive' /\ BornTyped' /\ ObjectsKnown'
           /\ sn[o] = 0 /\ sn'[o] = s /\ parent'[o] = p
           /\ \A q \in Objects : q # o => sn'[q] = sn[q] /\ parent'[q] = parent[q]
           /\ \A t \in Types : coll'[t].removes = coll[t].removes
<1>0. TypeInv /\ PoolInv /\ CollInv /\ NumbersGiven /\ lastSn' \in Nat /\ lastSn \in Nat
  BY ConstantsAssumption DEF LifeInv, TypeInv
<1>1. PoolInv' /\ CollInv' /\ sn[o] = 0
  BY <1>0, BirthStored
<1>2. ReuseInv' /\ CallsLive'
  BY <1>1, BirthAround
<1>3. BornTyped'
  BY <1>0, BirthFacts DEF BornTyped
<1>4. /\ \A q \in Objects : sn'[q] = IF q = o THEN s ELSE sn[q]
      /\ \A q \in Objects : parent'[q] = IF q = o THEN p ELSE parent[q]
  BY <1>0, BirthFacts
<1>5. \A t \in Types : coll'[t].removes = coll[t].removes
  <2>1. \A t \in Types : Stored(t, o, s)
    BY <1>0, BirthFacts
  <2> QED BY <2>1 DEF Stored
<1>6. ObjectsKnown'
  <2>1. ASSUME NEW q \in Objects PROVE sn'[q] <= lastSn'
    <3>1. sn[q] \in Nat /\ sn[q] <= lastSn
      BY <1>0 DEF TypeInv, NumbersGiven, ObjectsKnown
    <3> QED BY <1>0, <1>4, <3>1
  <2>2. ASSUME NEW t \in Types, NEW x \in coll[t].removes PROVE x <= lastSn'
    <3>1. x <= lastSn /\ coll[t] \in Caches
      BY <1>0 DEF TypeInv, NumbersGiven, ObjectsKnown
    <3>2. x \in Nat
      BY <3>1 DEF Caches
    <3> QED BY <1>0, <3>1, <3>2
  <2> QED BY <1>5, <2>1, <2>2 DEF ObjectsKnown
<1> QED BY <1>1, <1>2, <1>3, <1>4, <1>5, <1>6

\* A component without a place in a list of components.
LEMMA BirthAlone ==
    ASSUME LifeInv, NEW o \in Objects, NEW s \in Nat \ {0}, NEW p \in Objects \union {None}, Birth(o, s, p),
           sn[o] = 0, Kind[o] \notin PartTypes, parts' = parts, timers' = timers,
           lastSn' \in Nat, lastSn <= lastSn'
    PROVE  PartInv' /\ TimersKnown'
<1>1. /\ \A e \in Objects : \A q \in parts[e] : ListedIn(e, q)'
      /\ \A q \in Objects \ {o} : Kind[q] \in PartTypes /\ Live(q)' =>
             /\ parent'[q] = parent[q] /\ HasEntity(q)'
             /\ q \in parts[parent[q]] \/ sn'[q] \in coll'[Kind[q]].removes
  BY BirthLinks
<1>2. PartInv'
  BY <1>1 DEF PartInv, Listed, Noted
<1>3. ASSUME NEW q \in Objects, NEW k \in DOMAIN timers[q] PROVE timers[q][k] <= lastSn'
  <2>1. timers[q] \in Seq(Nat) /\ timers[q][k] <= lastSn /\ lastSn \in Nat
    BY DEF LifeInv, TypeInv, NumbersGiven, TimersKnown
  <2>2. timers[q][k] \in Nat
    BY <2>1
  <2> QED BY <2>1, <2>2
<1> QED BY <1>2, <1>3 DEF TimersKnown

LEMMA AddEntityInv ==
    ASSUME LifeInv, NEW o \in Objects, AddEntity(o)
    PROVE  LifeInv'
<1> DEFINE s == lastSn + 1
<1>1. /\ Birth(o, s, None) /\ Working /\ turn' = turn /\ Kind[o] \in EntityTypes /\ Fresh(1)
      /\ UNCHANGED <<parts, timers, heap, asked, callbacks>>
  BY DEF AddEntity
<1>2. /\ s \in Nat \ {0} /\ lastSn' \in 0 .. MaxSn /\ lastSn <= lastSn' /\ s <= lastSn' /\ lastSn' \in Nat
      /\ \A x \in InColl(Kind[o]) \union InPool(Kind[o]) : x.sn # s
  BY <1>1, FreshNumber, ConstantsAssumption
<1>3. Kind[o] \notin PartTypes
  BY <1>1, KindFacts
<1> HIDE DEF s
<1>4. PoolInv' /\ CollInv' /\ ReuseInv' /\ CallsLive' /\ BornTyped' /\ ObjectsKnown' /\ sn[o] = 0
  BY <1>1, <1>2, <1>3, BirthInv
<1>5. PartInv' /\ TimersKnown'
  BY <1>1, <1>2, <1>3, <1>4, BirthAlone
<1>6. FunctionInv'
  <2>1. (\A c \in callbacks : FunctionOf(c)') /\ NeverRemoved'
    BY <1>1, <1>2, <1>4, BirthLinks
  <2> QED BY <1>1, <2>1 DEF FunctionInv
<1>7. TypeInv'
  BY <1>1, <1>4 DEF TypeInv, BornTyped, LifeInv
<1> QED BY <1>4, <1>5, <1>6, <1>7 DEF LifeInv, NumbersGiven

LEMMA AddTwinInv ==
    ASSUME LifeInv, NEW o \in Objects, NEW e \in Objects, AddTwin(o, e)
    PROVE  LifeInv'
<1> DEFINE s == sn[e]
<1>1. /\ Birth(o, s, None) /\ Working /\ turn' = turn /\ Live(e) /\ Kind[o] \in {"World", "WorldProxy"}
      /\ \A x \in InColl(Kind[o]) \union InPool(Kind[o]) : x.sn # s
      /\ UNCHANGED <<lastSn, parts, timers, heap, asked, callbacks>>
  BY DEF AddTwin
<1>2. s \in Nat \ {0} /\ lastSn' \in 0 .. MaxSn /\ lastSn <= lastSn' /\ s <= lastSn' /\ lastSn' \in Nat
  BY <1>1, ConstantsAssumption DEF LifeInv, TypeInv, NumbersGiven, ObjectsKnown, Live
<1>3. Kind[o] \notin PartTypes
  BY <1>1 DEF PartTypes
<1> HIDE DEF s
<1>4. PoolInv' /\ CollInv' /\ ReuseInv' /\ CallsLive' /\ BornTyped' /\ ObjectsKnown' /\ sn[o] = 0
  BY <1>1, <1>2, <1>3, BirthInv
<1>5. PartInv' /\ TimersKnown'
  BY <1>1, <1>2, <1>3, <1>4, BirthAlone
<1>6. FunctionInv'
  <2>1. (\A c \in callbacks : FunctionOf(c)') /\ NeverRemoved'
    BY <1>1, <1>2, <1>4, BirthLinks
  <2> QED BY <1>1, <2>1 DEF FunctionInv
<1>7. TypeInv'
  BY <1>1, <1>4 DEF TypeInv, BornTyped, LifeInv
<1> QED BY <1>4, <1>5, <1>6, <1>7 DEF LifeInv, NumbersGiven

LEMMA RegisterFunctionInv ==
    ASSUME LifeInv, NEW o \in Objects, NEW e \in Objects, RegisterFunction(e, o)
    PROVE  LifeInv'
<1> DEFINE s == lastSn + 1
<1>1. /\ Birth(o, s, e) /\ Working /\ turn' = turn /\ Kind[o] = "MessageCallBack" /\ Fresh(1) /\ Live(e)
      /\ callbacks' \in {callbacks, callbacks \union {Entry(sn[e], o)}} /\ asked' = asked \union {e}
      /\ UNCHANGED <<parts, timers, heap>>
  BY DEF RegisterFunction
<1>2. /\ s \in Nat \ {0} /\ lastSn' \in 0 .. MaxSn /\ lastSn <= lastSn' /\ s <= lastSn' /\ lastSn' \in Nat
      /\ \A x \in InColl(Kind[o]) \union InPool(Kind[o]) : x.sn # s
  BY <1>1, FreshNumber, ConstantsAssumption
<1>3. Kind[o] \notin PartTypes
  BY <1>1, KindFacts
<1> HIDE DEF s
<1>4. PoolInv' /\ CollInv' /\ ReuseInv' /\ CallsLive' /\ BornTyped' /\ ObjectsKnown' /\ sn[o] = 0
      /\ sn'[o] = s /\ parent'[o] = e /\ \A q \in Objects : q # o => sn'[q] = sn[q]
  BY <1>1, <1>2, <1>3, BirthInv
<1>5. PartInv' /\ TimersKnown'
  BY <1>1, <1>2, <1>3, <1>4, BirthAlone
<1>6. FunctionInv'
  <2>1. (\A c \in callbacks : FunctionOf(c)') /\ NeverRemoved'
    BY <1>1, <1>2, <1>4, BirthLinks
  <2>2. FunctionOf(Entry(sn[e], o))'
    BY <1>1, <1>2, <1>4 DEF FunctionOf, Entry, Live
  <2>3. sn'[e] = sn[e]
    BY <1>1, <1>4 DEF Live
  <2>4. ASSUME NEW c \in callbacks' PROVE FunctionOf(c)'
    <3>1. c \in callbacks \/ c = Entry(sn'[e], o)
      BY <1>1, <2>3
    <3> QED BY <2>1, <2>2, <3>1
  <2> QED BY <2>1, <2>4 DEF FunctionInv
<1>7. TypeInv'
  <2>1. Entry(sn[e], o) \in Entries
    BY DEF LifeInv, TypeInv, Entry, Entries
  <2> QED BY <1>1, <1>4, <2>1 DEF TypeInv, BornTyped, LifeInv
<1> QED BY <1>4, <1>5, <1>6, <1>7 DEF LifeInv, NumbersGiven

\* The timers that a component asks for have the numbers after its own.
LEMMA AskedTyped ==
    ASSUME TypeInv, NEW o \in Objects
    PROVE  /\ Asked(o) \in Seq({"once", "ever"}) /\ Len(Asked(o)) \in Nat
           /\ DOMAIN TimerSns(o) = 1 .. Len(Asked(o)) /\ Len(TimerSns(o)) = Len(Asked(o))
           /\ TimerSns(o) \in Seq(Nat)
           /\ \A k \in 1 .. Len(Asked(o)) : TimerSns(o)[k] = lastSn + 1 + k
           /\ NewTimers(o) \subseteq [id : Nat, owner : Objects, once : BOOLEAN]
<1>1. Asked(o) \in Seq({"once", "ever"}) /\ Len(Asked(o)) \in Nat /\ DOMAIN Asked(o) = 1 .. Len(Asked(o))
  <2>1. <<>> \in Seq({"once", "ever"})
    OBVIOUS
  <2>2. Asked(o) \in Seq({"once", "ever"})
    BY <2>1, ConstantsAssumption DEF Asked
  <2> QED BY <2>2
<1>2. lastSn \in Nat
  BY DEF TypeInv
<1>3. TimerSns(o) = [k \in 1 .. Len(Asked(o)) |-> lastSn + 1 + k]
  BY <1>1 DEF TimerSns
<1>4. TimerSns(o) \in Seq(Nat) /\ Len(TimerSns(o)) = Len(Asked(o)) /\ DOMAIN TimerSns(o) = 1 .. Len(Asked(o))
  BY <1>1, <1>2, <1>3
<1>5. \A k \in 1 .. Len(Asked(o)) : TimerSns(o)[k] = lastSn + 1 + k /\ TimerSns(o)[k] \in Nat
  BY <1>1, <1>2, <1>3
<1>6. NewTimers(o) \subseteq [id : Nat, owner : Objects, once : BOOLEAN]
  <2>1. ASSUME NEW k \in 1 .. Len(Asked(o))
        PROVE  [id |-> TimerSns(o)[k], owner |-> o, once |-> Asked(o)[k] = "once"]
                 \in [id : Nat, owner : Objects, once : BOOLEAN]
    <3>1. (Asked(o)[k] = "once") \in BOOLEAN
      OBVIOUS
    <3> QED BY <1>5, <3>1
  <2> QED BY <1>1, <2>1 DEF NewTimers
<1> QED BY <1>1, <1>4, <1>5, <1>6

LEMMA AddPartInv ==
    ASSUME LifeInv, NEW o \in Objects, NEW e \in Objects, AddPart(e, o)
    PROVE  LifeInv'
<1> DEFINE s == lastSn + 1
           n == 1 + Len(Asked(o))
<1>0. TypeInv /\ PartInv /\ NumbersGiven /\ lastSn \in Nat /\ MaxSn \in Nat
  BY ConstantsAssumption DEF LifeInv, TypeInv
<1>1. /\ Birth(o, s, e) /\ Working /\ turn' = turn /\ Kind[o] \in PartTypes /\ Kind[e] \in EntityTypes
      /\ Fresh(n) /\ Live(e) /\ parts' = [parts EXCEPT ![e] = @ \union {o}]
      /\ timers' = [timers EXCEPT ![o] = TimerSns(o)] /\ heap' = heap \union NewTimers(o)
      /\ UNCHANGED <<asked, callbacks>>
  BY DEF AddPart
<1>2. n \in Nat \ {0}
  BY <1>0, AskedTyped
<1>3. /\ s \in Nat \ {0} /\ lastSn' \in 0 .. MaxSn /\ lastSn' = lastSn + n /\ lastSn <= lastSn' /\ s <= lastSn'
      /\ \A x \in InColl(Kind[o]) \union InPool(Kind[o]) : x.sn # s
  <2> HIDE DEF n
  <2> QED BY <1>1, <1>2, FreshNumber
<1> HIDE DEF s
<1>4. PoolInv' /\ CollInv' /\ ReuseInv' /\ CallsLive' /\ BornTyped' /\ ObjectsKnown' /\ sn[o] = 0
      /\ sn'[o] = s /\ parent'[o] = e /\ \A q \in Objects : q # o => sn'[q] = sn[q] /\ parent'[q] = parent[q]
      /\ \A t \in Types : coll'[t].removes = coll[t].removes
  BY <1>1, <1>3, BirthInv
<1>5. /\ \A d \in Objects : \A q \in parts[d] : ListedIn(d, q)'
      /\ \A q \in Objects \ {o} : Kind[q] \in PartTypes /\ Live(q)' =>
             /\ parent'[q] = parent[q] /\ HasEntity(q)'
             /\ q \in parts[parent[q]] \/ sn'[q] \in coll'[Kind[q]].removes
      /\ (\A c \in callbacks : FunctionOf(c)') /\ NeverRemoved'
  BY <1>1, <1>3, <1>4, BirthLinks
<1>6. FunctionInv'
  BY <1>1, <1>5 DEF FunctionInv
<1>7. \A d \in Objects : parts'[d] = IF d = e THEN parts[e] \union {o} ELSE parts[d]
  BY <1>0, <1>1 DEF TypeInv
<1>8. Listed'
  <2>1. s \notin coll[Kind[o]].removes
    <3>1. \A x \in coll[Kind[o]].removes : x <= lastSn /\ x \in Nat
      BY <1>0, KindFacts DEF NumbersGiven, ObjectsKnown, TypeInv, Caches
    <3> QED BY <1>0, <3>1 DEF s
  <2>2. ListedIn(e, o)'
    <3>1. Kind[o] \in Types
      BY KindFacts
    <3>2. sn'[e] = sn[e] /\ sn[e] # 0
      BY <1>1, <1>4 DEF Live
    <3> QED BY <1>1, <1>3, <1>4, <2>1, <3>1, <3>2 DEF ListedIn, Live
  <2> SUFFICES ASSUME NEW d \in Objects, NEW q \in parts'[d] PROVE ListedIn(d, q)'
    BY DEF Listed
  <2>3. q \in parts[d] \/ (d = e /\ q = o)
    BY <1>7
  <2> QED BY <1>5, <2>2, <2>3
<1>9. Noted'
  <2> SUFFICES ASSUME NEW q \in Objects, Kind[q] \in PartTypes, Live(q)'
               PROVE  HasEntity(q)' /\ (q \in parts'[parent'[q]] \/ sn'[q] \in coll'[Kind[q]].removes)
    BY DEF Noted
  <2>1. CASE q = o
    BY <1>1, <1>4, <1>7, <2>1 DEF HasEntity
  <2>2. CASE q # o
    <3>1. /\ parent'[q] = parent[q] /\ HasEntity(q)'
          /\ q \in parts[parent[q]] \/ sn'[q] \in coll'[Kind[q]].removes
      BY <1>5, <2>2
    <3>2. parent[q] \in Objects
      BY <3>1 DEF HasEntity
    <3> QED BY <1>7, <3>1, <3>2
  <2> QED BY <2>1, <2>2
<1>10. \A q \in Objects : timers'[q] = IF q = o THEN TimerSns(o) ELSE timers[q]
  BY <1>0, <1>1 DEF TypeInv
<1>11. TimersKnown'
  <2> SUFFICES ASSUME NEW q \in Objects, NEW k \in DOMAIN timers'[q] PROVE timers'[q][k] <= lastSn'
    BY DEF TimersKnown
  <2>1. CASE q = o
    <3>1. timers'[q] = TimerSns(o) /\ k \in 1 .. Len(Asked(o)) /\ TimerSns(o)[k] = lastSn + 1 + k
      BY <1>0, <1>10, <2>1, AskedTyped
    <3>2. Len(Asked(o)) \in Nat
      BY <1>0, AskedTyped
    <3> QED BY <1>0, <1>3, <3>1, <3>2
  <2>2. CASE q # o
    <3>1. timers'[q] = timers[q] /\ timers[q] \in Seq(Nat)
      BY <1>0, <1>10, <2>2 DEF TypeInv
    <3>2. timers[q][k] <= lastSn /\ timers[q][k] \in Nat
      BY <1>0, <3>1 DEF NumbersGiven, TimersKnown
    <3> QED BY <1>0, <1>3, <3>1, <3>2
  <2> QED BY <2>1, <2>2
<1>12. TypeInv'
  <2>1. TimerSns(o) \in Seq(Nat) /\ NewTimers(o) \subseteq [id : Nat, owner : Objects, once : BOOLEAN]
    BY <1>0, AskedTyped
  <2> QED BY <1>0, <1>1, <1>4, <2>1 DEF TypeInv, BornTyped
<1> QED BY <1>4, <1>6, <1>8, <1>9, <1>11, <1>12 DEF LifeInv, NumbersGiven, PartInv

(***************************************************************************)
(* Removal only notes a number.                                            *)
(***************************************************************************)
\* Living objects of a type have different numbers.
LEMMA LiveDistinct ==
    ASSUME PoolInv, NEW o \in Objects, NEW q \in Objects, Kind[o] = Kind[q], Live(o), sn[o] = sn[q]
    PROVE  o = q
<1>0. Kind[o] \in Types /\ o \in OfType(Kind[o]) /\ q \in OfType(Kind[o]) /\ sn[o] # 0
  BY KindFacts DEF OfType, Live
<1>1. o \notin pool[Kind[o]].free /\ q \notin pool[Kind[o]].free
  BY <1>0 DEF PoolInv, Free
<1>2. PICK e \in InPool(Kind[o]) : e.obj = o
  BY <1>0, <1>1 DEF PoolInv, Whole
<1>3. PICK f \in InPool(Kind[o]) : f.obj = q
  BY <1>0, <1>1 DEF PoolInv, Whole
<1>4. e.sn = sn[o] /\ f.sn = sn[q]
  BY <1>0, <1>2, <1>3 DEF PoolInv, InUse, Live
<1> QED BY <1>0, <1>2, <1>3, <1>4 DEF PoolInv, Distinct

LEMMA NoteFacts ==
    ASSUME LifeInv, NEW o \in Objects, Live(o), Kind[o] # "MessageCallBack",
           coll' = [coll EXCEPT ![Kind[o]].removes = @ \union {sn[o]}],
           UNCHANGED <<turn, lastSn, sn, parent, pool, callbacks>>
    PROVE  /\ coll' \in [Types -> Caches]
           /\ \A t \in Types : t # Kind[o] => coll'[t] = coll[t]
           /\ coll'[Kind[o]].removes = coll[Kind[o]].removes \union {sn[o]}
           /\ PoolInv' /\ CollInv' /\ ReuseInv' /\ CallsLive' /\ FunctionInv' /\ ObjectsKnown'
<1> DEFINE k == Kind[o]
           C == coll[k]
<1>0. k \in Types /\ C \in Caches /\ sn[o] \in Nat /\ coll \in [Types -> Caches]
  BY KindFacts DEF LifeInv, TypeInv
<1>1. coll' = [coll EXCEPT ![k] = [C EXCEPT !.removes = C.removes \union {sn[o]}]]
  OBVIOUS
<1>2. /\ [C EXCEPT !.removes = C.removes \union {sn[o]}] \in Caches
      /\ [C EXCEPT !.removes = C.removes \union {sn[o]}].removes = C.removes \union {sn[o]}
      /\ [C EXCEPT !.removes = C.removes \union {sn[o]}].objs = C.objs
      /\ [C EXCEPT !.removes = C.removes \union {sn[o]}].adds = C.adds
  BY <1>0 DEF Caches
<1>3. coll' \in [Types -> Caches] /\ \A t \in Types : t # k => coll'[t] = coll[t]
  BY <1>0, <1>1, <1>2
<1>4. coll'[k].removes = C.removes \union {sn[o]} /\ coll'[k].objs = C.objs /\ coll'[k].adds = C.adds
  BY <1>0, <1>1, <1>2
<1>5. \A t \in Types : coll'[t].objs = coll[t].objs /\ InColl(t)' = InColl(t)
  BY <1>3, <1>4 DEF InColl
<1>6. PoolInv'
  BY DEF LifeInv, PoolInv, Free, InUse, Whole, Distinct, Known, InPool, Live, OfType
<1>7. CollInv'
  BY <1>5 DEF LifeInv, CollInv, Live, OfType
<1>8. ReuseInv'
  BY DEF LifeInv, ReuseInv, Live
<1>9. CallsLive'
  BY <1>5 DEF LifeInv, CallsLive, Live, At
<1>10. FunctionInv'
  BY <1>3 DEF LifeInv, FunctionInv, NeverRemoved, FunctionOf, Live
<1>11. ObjectsKnown'
  BY <1>3, <1>4 DEF LifeInv, NumbersGiven, ObjectsKnown
<1> QED BY <1>3, <1>4, <1>6, <1>7, <1>8, <1>9, <1>10, <1>11

LEMMA RemoveEntityInv ==
    ASSUME LifeInv, NEW e \in Objects, RemoveEntity(e)
    PROVE  LifeInv'
<1>1. /\ Live(e) /\ Kind[e] \in EntityTypes /\ coll' = [coll EXCEPT ![Kind[e]].removes = @ \union {sn[e]}]
      /\ UNCHANGED <<turn, lastSn, sn, parent, parts, pool, timers, heap, asked, callbacks>>
  BY DEF RemoveEntity
<1>2. Kind[e] # "MessageCallBack" /\ Kind[e] \notin PartTypes
  BY <1>1, KindFacts
<1>3. /\ coll' \in [Types -> Caches] /\ \A t \in Types : t # Kind[e] => coll'[t] = coll[t]
      /\ PoolInv' /\ CollInv' /\ ReuseInv' /\ CallsLive' /\ FunctionInv' /\ ObjectsKnown'
  BY <1>1, <1>2, NoteFacts
<1>4. PartInv'
  BY <1>1, <1>2, <1>3, KindFacts DEF LifeInv, PartInv, Listed, ListedIn, Noted, HasEntity, Live
<1>5. TypeInv' /\ TimersKnown'
  BY <1>1, <1>3 DEF LifeInv, TypeInv, NumbersGiven, TimersKnown
<1> QED BY <1>3, <1>4, <1>5 DEF LifeInv, NumbersGiven

LEMMA RemovePartInv ==
    ASSUME LifeInv, NEW e \in Objects, NEW o \in Objects, RemovePart(e, o)
    PROVE  LifeInv'
<1>1. /\ o \in parts[e] /\ parts' = [parts EXCEPT ![e] = @ \ {o}]
      /\ coll' = [coll EXCEPT ![Kind[o]].removes = @ \union {sn[o]}]
      /\ UNCHANGED <<turn, lastSn, sn, parent, pool, timers, heap, asked, callbacks>>
  BY DEF RemovePart
<1>2. ListedIn(e, o) /\ Live(o) /\ Kind[o] \in PartTypes /\ Kind[o] # "MessageCallBack"
  BY <1>1, KindFacts DEF LifeInv, PartInv, Listed, ListedIn
<1>3. /\ coll' \in [Types -> Caches] /\ \A t \in Types : t # Kind[o] => coll'[t] = coll[t]
      /\ coll'[Kind[o]].removes = coll[Kind[o]].removes \union {sn[o]}
      /\ PoolInv' /\ CollInv' /\ ReuseInv' /\ CallsLive' /\ FunctionInv' /\ ObjectsKnown'
  BY <1>1, <1>2, NoteFacts
<1>4. parts \in [Objects -> SUBSET Objects]
  BY DEF LifeInv, TypeInv
<1>5. \A d \in Objects : parts'[d] = IF d = e THEN parts[e] \ {o} ELSE parts[d]
  BY <1>1, <1>4
<1>6. Listed'
  <2> SUFFICES ASSUME NEW d \in Objects, NEW q \in parts'[d] PROVE ListedIn(d, q)'
    BY DEF Listed
  <2>1. q \in parts[d] /\ q \in Objects /\ ListedIn(d, q)
    BY <1>4, <1>5 DEF LifeInv, PartInv, Listed
  <2>2. q # o
    BY <1>2, <1>5, <2>1 DEF ListedIn
  <2>3. sn[q] \notin coll'[Kind[q]].removes
    <3>1. CASE Kind[q] = Kind[o]
      <4>1. sn[q] # sn[o]
        BY <1>2, <2>1, <2>2, <3>1, LiveDistinct DEF LifeInv
      <4> QED BY <1>3, <2>1, <3>1, <4>1 DEF ListedIn
    <3>2. CASE Kind[q] # Kind[o]
      BY <1>3, <2>1, <3>2, KindFacts DEF ListedIn
    <3> QED BY <3>1, <3>2
  <2> QED BY <1>1, <2>1, <2>3 DEF ListedIn, Live
<1>7. Noted'
  <2> SUFFICES ASSUME NEW q \in Objects, Kind[q] \in PartTypes, Live(q)
               PROVE  /\ HasEntity(q)
                      /\ q \in parts'[parent[q]] \/ sn[q] \in coll'[Kind[q]].removes
    BY <1>1 DEF Noted, HasEntity, Live
  <2>1. HasEntity(q) /\ (q \in parts[parent[q]] \/ sn[q] \in coll[Kind[q]].removes)
    BY DEF LifeInv, PartInv, Noted
  <2>2. CASE q = o
    BY <1>3, <2>1, <2>2
  <2>3. CASE q # o
    <3>1. q \in parts[parent[q]] => q \in parts'[parent[q]]
      BY <1>5, <2>1, <2>3 DEF HasEntity
    <3>2. coll[Kind[q]].removes \subseteq coll'[Kind[q]].removes
      BY <1>3, KindFacts
    <3> QED BY <2>1, <3>1, <3>2
  <2> QED BY <2>2, <2>3
<1>8. parts' \in [Objects -> SUBSET Objects]
  BY <1>1, <1>4
<1>9. TypeInv' /\ TimersKnown'
  BY <1>1, <1>3, <1>8 DEF LifeInv, TypeInv, NumbersGiven, TimersKnown
<1> QED BY <1>3, <1>6, <1>7, <1>9 DEF LifeInv, NumbersGiven, PartInv

(***************************************************************************)
(* ComponentCollections::Swap.                                             *)
(***************************************************************************)
Dying(t) == {e.obj : e \in Due(coll[t])}

\* The pool and the collection of a type u when those of type t are swapped.
Swapped(t, u) ==
    /\ pool'[u].free = pool[u].free /\ InPool(u)' = InPool(u)
    /\ pool'[u].use.removes = (IF u = t THEN pool[t].use.removes \union {sn[o] : o \in Dying(t)}
                               ELSE pool[u].use.removes)
    /\ InColl(u)' = (IF u = t THEN Kept(t) ELSE InColl(u))
    /\ u = t => coll'[u].objs = Kept(t)
    /\ coll'[u].removes = (IF u = t THEN {} ELSE coll[u].removes \union Orphans(Dying(t), u))

\* Those who die are the living whose number was noted.
LEMMA DyingFacts ==
    ASSUME TypeInv, CollInv, NEW t \in Types
    PROVE  /\ Dying(t) \subseteq Objects
           /\ \A o \in Objects : o \in Dying(t) <=> Kind[o] = t /\ Live(o) /\ sn[o] \in coll[t].removes
<1>1. \A e \in Due(coll[t]) : e \in InColl(t) /\ e.sn \in coll[t].removes
  BY DEF Due, InColl
<1>2. \A e \in InColl(t) : e.obj \in Objects /\ Kind[e.obj] = t /\ Live(e.obj) /\ e.sn = sn[e.obj]
  BY DEF CollInv, OfType
<1>3. ASSUME NEW o \in Objects, Kind[o] = t, Live(o), sn[o] \in coll[t].removes PROVE o \in Dying(t)
  <2>1. Entry(sn[o], o) \in InColl(t)
    BY <1>3 DEF CollInv, OfType
  <2>2. Entry(sn[o], o).sn = sn[o] /\ Entry(sn[o], o).obj = o
    BY DEF Entry
  <2>3. Entry(sn[o], o) \in Due(coll[t])
    BY <1>3, <2>1, <2>2 DEF Due, InColl
  <2> QED BY <2>2, <2>3 DEF Dying
<1> QED BY <1>1, <1>2, <1>3 DEF Dying

LEMMA CacheRemoves ==
    ASSUME NEW c \in Caches, NEW x
    PROVE  [c EXCEPT !.removes = x] = [objs |-> c.objs, adds |-> c.adds, removes |-> x]
BY DEF Caches

LEMMA SwapFacts ==
    ASSUME TypeInv, CollInv, NEW t \in Types, SwapOf(t)
    PROVE  /\ \A o \in Objects :
                  /\ sn'[o] = IF o \in Dying(t) THEN 0 ELSE sn[o]
                  /\ parent'[o] = IF o \in Dying(t) THEN None ELSE parent[o]
                  /\ parts'[o] = IF o \in Dying(t) THEN {} ELSE parts[o]
                  /\ timers'[o] = IF o \in Dying(t) THEN <<>> ELSE timers[o]
           /\ \A u \in Types : Swapped(t, u)
           /\ sn' \in [Objects -> Nat] /\ parent' \in [Objects -> Objects \union {None}]
           /\ parts' \in [Objects -> SUBSET Objects] /\ timers' \in [Objects -> Seq(Nat)]
           /\ pool' \in [Types -> [free : SUBSET Objects, use : Caches]] /\ coll' \in [Types -> Caches]
           /\ callbacks' = callbacks \ Forgotten(Dying(t)) /\ asked' = asked \ Dying(t)
           /\ heap' = {x \in heap : x.id \notin UNION {Erased(o) : o \in Dying(t)}}
<1> DEFINE D == Dying(t)
           P == pool[t]
           R == P.use.removes \union {sn[o] : o \in D}
<1>0. D \subseteq Objects
  BY DyingFacts
<1>1. /\ coll' = [u \in Types |-> IF u = t THEN [NoCache EXCEPT !.objs = Kept(t)]
                                  ELSE [coll[u] EXCEPT !.removes = coll[u].removes \union Orphans(D, u)]]
      /\ pool' = [pool EXCEPT ![t] = Freed(pool[t], D)]
      /\ heap' = {x \in heap : x.id \notin UNION {Erased(o) : o \in D}}
      /\ callbacks' = callbacks \ Forgotten(D) /\ asked' = asked \ D
      /\ sn' = [o \in Objects |-> IF o \in D THEN 0 ELSE sn[o]]
      /\ parent' = [o \in Objects |-> IF o \in D THEN None ELSE parent[o]]
      /\ parts' = [o \in Objects |-> IF o \in D THEN {} ELSE parts[o]]
      /\ timers' = [o \in Objects |-> IF o \in D THEN <<>> ELSE timers[o]]
  BY DEF SwapOf, Dying
<1> HIDE DEF D
<1>2. P \in [free : SUBSET Objects, use : Caches] /\ P.use \in Caches /\ \A u \in Types : coll[u] \in Caches
  BY DEF TypeInv
<1>3. {sn[o] : o \in D} \in SUBSET Nat
  BY <1>0 DEF TypeInv
<1>4. \A u \in Types : Orphans(D, u) \in SUBSET Nat
  BY <1>0 DEF TypeInv, Orphans
<1>5. Freed(pool[t], D) = [free |-> P.free, use |-> [objs |-> P.use.objs, adds |-> P.use.adds, removes |-> R]]
  <2>1. Freed(pool[t], D) = [P EXCEPT !.use.removes = R]
    BY DEF Freed
  <2>2. [P EXCEPT !.use.removes = R] = [free |-> P.free, use |-> [P.use EXCEPT !.removes = R]]
    BY <1>2
  <2>3. [P.use EXCEPT !.removes = R] = [objs |-> P.use.objs, adds |-> P.use.adds, removes |-> R]
    <3> HIDE DEF P, R
    <3> QED BY <1>2, CacheRemoves
  <2> QED BY <2>1, <2>2, <2>3
<1>6. R \in SUBSET Nat
  BY <1>2, <1>3 DEF Caches
<1>7. Freed(pool[t], D) \in [free : SUBSET Objects, use : Caches]
  <2> HIDE DEF R
  <2> QED BY <1>2, <1>5, <1>6 DEF Caches
<1>8. pool' \in [Types -> [free : SUBSET Objects, use : Caches]]
  BY <1>1, <1>7 DEF TypeInv
<1>9. Kept(t) \in SUBSET Entries
  BY <1>2 DEF Kept, InColl, Caches
<1>10. [NoCache EXCEPT !.objs = Kept(t)] = [objs |-> Kept(t), adds |-> {}, removes |-> {}]
  BY DEF NoCache
<1>11. \A u \in Types : [coll[u] EXCEPT !.removes = coll[u].removes \union Orphans(D, u)]
           = [objs |-> coll[u].objs, adds |-> coll[u].adds, removes |-> coll[u].removes \union Orphans(D, u)]
  BY <1>2, CacheRemoves
<1>12. coll' \in [Types -> Caches]
  <2>1. [objs |-> Kept(t), adds |-> {}, removes |-> {}] \in Caches
    BY <1>9 DEF Caches
  <2>2. \A u \in Types :
          [objs |-> coll[u].objs, adds |-> coll[u].adds, removes |-> coll[u].removes \union Orphans(D, u)] \in Caches
    BY <1>2, <1>4 DEF Caches
  <2> QED BY <1>1, <1>10, <1>11, <2>1, <2>2
<1>13. ASSUME NEW u \in Types PROVE Swapped(t, u)
  <2>1. CASE u = t
    <3>1. coll'[u] = [objs |-> Kept(t), adds |-> {}, removes |-> {}]
      BY <1>1, <1>10, <2>1
    <3>2. pool'[u] = [free |-> P.free, use |-> [objs |-> P.use.objs, adds |-> P.use.adds, removes |-> R]]
      BY <1>1, <1>5, <2>1 DEF TypeInv
    <3> QED BY <2>1, <3>1, <3>2 DEF Swapped, InPool, InColl, D
  <2>2. CASE u # t
    <3>1. coll'[u] = [objs |-> coll[u].objs, adds |-> coll[u].adds,
                      removes |-> coll[u].removes \union Orphans(D, u)]
      BY <1>1, <1>11, <2>2
    <3>2. pool'[u] = pool[u]
      BY <1>1, <2>2 DEF TypeInv
    <3> QED BY <2>2, <3>1, <3>2 DEF Swapped, InPool, InColl, D
  <2> QED BY <2>1, <2>2
<1>14. sn' \in [Objects -> Nat] /\ parent' \in [Objects -> Objects \union {None}]
       /\ parts' \in [Objects -> SUBSET Objects]
  BY <1>1 DEF TypeInv
<1>15. timers' \in [Objects -> Seq(Nat)]
  <2>1. <<>> \in Seq(Nat)
    OBVIOUS
  <2> QED BY <1>1, <2>1 DEF TypeInv
<1>16. \A o \in Objects :
            /\ sn'[o] = IF o \in D THEN 0 ELSE sn[o]
            /\ parent'[o] = IF o \in D THEN None ELSE parent[o]
            /\ parts'[o] = IF o \in D THEN {} ELSE parts[o]
            /\ timers'[o] = IF o \in D THEN <<>> ELSE timers[o]
  BY <1>1
<1> QED BY <1>1, <1>8, <1>12, <1>13, <1>14, <1>15, <1>16 DEF D

\* The pool keeps the memory of those who die, and notes their numbers.
LEMMA SwapPool ==
    ASSUME LifeInv, NEW t \in Types, SwapOf(t), lastSn' = lastSn
    PROVE  PoolInv' /\ CollInv'
<1>0. TypeInv /\ CollInv /\ PoolInv
  BY DEF LifeInv
<1>1. \A o \in Objects : sn'[o] = IF o \in Dying(t) THEN 0 ELSE sn[o]
  BY <1>0, SwapFacts
<1>2. \A u \in Types : Swapped(t, u)
  BY <1>0, SwapFacts
<1>3. /\ Dying(t) \subseteq Objects
      /\ \A o \in Objects : o \in Dying(t) <=> Kind[o] = t /\ Live(o) /\ sn[o] \in coll[t].removes
  BY <1>0, DyingFacts
<1>4. ASSUME NEW u \in Types, u # t
      PROVE  (Free(u) /\ InUse(u) /\ Whole(u) /\ Distinct(u) /\ Known(u))'
  <2>1. /\ pool'[u].free = pool[u].free /\ pool'[u].use.removes = pool[u].use.removes
        /\ InPool(u)' = InPool(u)
    BY <1>2, <1>4 DEF Swapped
  <2>2. \A q \in OfType(u) : sn'[q] = sn[q]
    BY <1>1, <1>3, <1>4 DEF OfType
  <2>3. Free(u) /\ InUse(u) /\ Whole(u) /\ Distinct(u) /\ Known(u)
    BY <1>0 DEF PoolInv
  <2>4. Free(u)' /\ InUse(u)'
    BY <2>1, <2>2, <2>3 DEF Free, InUse, Live, OfType
  <2> QED BY <2>1, <2>3, <2>4 DEF Whole, Distinct, Known, OfType
<1>5. (Free(t) /\ InUse(t) /\ Whole(t) /\ Distinct(t) /\ Known(t))'
  <2>1. /\ pool'[t].free = pool[t].free /\ InPool(t)' = InPool(t)
        /\ pool'[t].use.removes = pool[t].use.removes \union {sn[o] : o \in Dying(t)}
    BY <1>2 DEF Swapped
  <2>2. Free(t) /\ InUse(t) /\ Whole(t) /\ Distinct(t) /\ Known(t)
    BY <1>0 DEF PoolInv
  <2>3. Free(t)'
    BY <1>1, <1>3, <2>1, <2>2 DEF Free, OfType, Live
  <2>4. InUse(t)'
    <3> SUFFICES ASSUME NEW e \in InPool(t)
                 PROVE  /\ e.obj \in OfType(t) /\ e.sn \in 1 .. lastSn
                        /\ sn'[e.obj] # 0 => e.sn = sn'[e.obj] /\ e.sn \notin pool'[t].use.removes
                        /\ sn'[e.obj] = 0 => e.sn \in pool'[t].use.removes
      BY <2>1 DEF InUse, Live, OfType
    <3>1. /\ e.obj \in OfType(t) /\ e.sn \in 1 .. lastSn /\ e.obj \in Objects /\ Kind[e.obj] = t
          /\ Live(e.obj) => e.sn = sn[e.obj] /\ e.sn \notin pool[t].use.removes
          /\ ~ Live(e.obj) => e.sn \in pool[t].use.removes
      BY <2>2 DEF InUse, OfType
    <3>2. CASE e.obj \in Dying(t)
      BY <1>1, <1>3, <2>1, <3>1, <3>2
    <3>3. CASE e.obj \notin Dying(t) /\ Live(e.obj)
      <4>1. sn'[e.obj] = sn[e.obj] /\ sn[e.obj] # 0
        BY <1>1, <3>1, <3>3 DEF Live
      <4>2. \A o \in Dying(t) : sn[o] # sn[e.obj]
        BY <1>0, <1>3, <3>1, <3>3, LiveDistinct
      <4> QED BY <2>1, <3>1, <3>3, <4>1, <4>2
    <3>4. CASE ~ Live(e.obj)
      <4>1. sn'[e.obj] = 0
        BY <1>1, <3>1, <3>4 DEF Live
      <4> QED BY <2>1, <3>1, <3>4, <4>1
    <3> QED BY <3>2, <3>3, <3>4
  <2>5. Whole(t)' /\ Distinct(t)'
    BY <2>1, <2>2 DEF Whole, Distinct, OfType
  <2>6. Known(t)'
    <3>1. ASSUME NEW o \in Dying(t) PROVE \E e \in InPool(t) : e.sn = sn[o]
      <4>1. o \in OfType(t) /\ Live(o)
        BY <1>3 DEF OfType
      <4>2. PICK e \in InPool(t) : e.obj = o
        BY <2>2, <4>1 DEF Whole, Free, Live
      <4> QED BY <2>2, <4>1, <4>2 DEF InUse
    <3> QED BY <2>1, <2>2, <3>1 DEF Known
  <2> QED BY <2>3, <2>4, <2>5, <2>6
<1>6. PoolInv'
  BY <1>4, <1>5 DEF PoolInv
<1>7. ASSUME NEW u \in Types
      PROVE  /\ \A e \in InColl(u)' : e.obj \in OfType(u) /\ sn'[e.obj] # 0 /\ e.sn = sn'[e.obj]
             /\ \A q \in OfType(u) : sn'[q] # 0 => Entry(sn'[q], q) \in InColl(u)'
  <2>1. /\ \A e \in InColl(u) : e.obj \in OfType(u) /\ Live(e.obj) /\ e.sn = sn[e.obj]
        /\ \A q \in OfType(u) : Live(q) => Entry(sn[q], q) \in InColl(u)
    BY <1>0 DEF CollInv
  <2>2. CASE u # t
    <3>1. \A q \in OfType(u) : sn'[q] = sn[q]
      BY <1>1, <1>3, <2>2 DEF OfType
    <3>2. InColl(u)' = InColl(u)
      BY <1>2, <2>2 DEF Swapped
    <3> QED BY <2>1, <3>1, <3>2 DEF Live
  <2>3. CASE u = t
    <3>1. InColl(u)' = InColl(t) \ Due(coll[t])
      BY <1>2, <2>3 DEF Swapped, Kept
    <3>2. \A e \in InColl(t) : e \in Due(coll[t]) <=> e.obj \in Dying(t)
      <4>1. \A e \in InColl(t) : e \in Due(coll[t]) <=> e.sn \in coll[t].removes
        BY DEF Due, InColl
      <4> QED BY <1>3, <2>1, <2>3, <4>1 DEF OfType
    <3>3. \A e \in InColl(u)' : e.obj \in OfType(u) /\ sn'[e.obj] # 0 /\ e.sn = sn'[e.obj]
      BY <1>1, <2>1, <2>3, <3>1, <3>2 DEF OfType, Live
    <3>4. ASSUME NEW q \in OfType(u), sn'[q] # 0 PROVE Entry(sn'[q], q) \in InColl(u)'
      <4>1. sn'[q] = sn[q] /\ q \notin Dying(t) /\ Live(q)
        BY <1>1, <3>4 DEF OfType, Live
      <4>2. Entry(sn[q], q) \in InColl(t) /\ Entry(sn[q], q).obj = q
        BY <2>1, <2>3, <4>1 DEF Entry
      <4>3. Entry(sn[q], q) \notin Due(coll[t])
        BY <3>2, <4>1, <4>2
      <4> QED BY <3>1, <4>1, <4>2, <4>3
    <3> QED BY <3>3, <3>4
  <2> QED BY <2>2, <2>3
<1>8. CollInv'
  BY <1>7 DEF CollInv, Live, OfType
<1> QED BY <1>6, <1>8

\* The components of those who die are noted.
LEMMA SwapParts ==
    ASSUME LifeInv, NEW t \in Types, SwapOf(t)
    PROVE  PartInv'
<1>0. TypeInv /\ CollInv /\ PoolInv
  BY DEF LifeInv
<1>1. \A o \in Objects :
          /\ sn'[o] = IF o \in Dying(t) THEN 0 ELSE sn[o]
          /\ parent'[o] = IF o \in Dying(t) THEN None ELSE parent[o]
          /\ parts'[o] = IF o \in Dying(t) THEN {} ELSE parts[o]
  BY <1>0, SwapFacts
<1>2. \A u \in Types : coll'[u].removes = IF u = t THEN {} ELSE coll[u].removes \union Orphans(Dying(t), u)
  <2>1. \A u \in Types : Swapped(t, u)
    BY <1>0, SwapFacts
  <2> QED BY <2>1 DEF Swapped
<1>3. /\ Dying(t) \subseteq Objects
      /\ \A o \in Objects : o \in Dying(t) <=> Kind[o] = t /\ Live(o) /\ sn[o] \in coll[t].removes
  BY <1>0, DyingFacts
<1>4. \A d \in Objects : \A q \in parts[d] : q \in Objects /\ ListedIn(d, q)
  BY <1>0 DEF LifeInv, PartInv, Listed, TypeInv
<1>5. Listed'
  <2> SUFFICES ASSUME NEW d \in Objects, NEW q \in parts'[d] PROVE ListedIn(d, q)'
    BY DEF Listed
  <2>1. d \notin Dying(t) /\ q \in parts[d] /\ q \in Objects /\ ListedIn(d, q)
    BY <1>1, <1>4
  <2>2. q \notin Dying(t)
    BY <1>3, <2>1 DEF ListedIn
  <2>3. sn'[q] = sn[q] /\ sn'[d] = sn[d] /\ parent'[q] = parent[q]
    BY <1>1, <2>1, <2>2
  <2>4. sn[q] \notin Orphans(Dying(t), Kind[q])
    <3> SUFFICES ASSUME NEW o \in Dying(t), NEW p \in parts[o], Kind[p] = Kind[q], sn[p] = sn[q]
                 PROVE  FALSE
      BY DEF Orphans
    <3>1. p \in Objects /\ ListedIn(o, p)
      BY <1>3, <1>4
    <3>2. p = q
      BY <1>0, <2>1, <3>1, LiveDistinct DEF ListedIn
    <3> QED BY <2>1, <3>1, <3>2 DEF ListedIn
  <2>5. sn[q] \notin coll'[Kind[q]].removes
    BY <1>2, <2>1, <2>4, KindFacts DEF ListedIn
  <2> QED BY <2>1, <2>3, <2>5 DEF ListedIn, Live
<1>6. Noted'
  <2> SUFFICES ASSUME NEW q \in Objects, Kind[q] \in PartTypes, sn'[q] # 0
               PROVE  HasEntity(q)' /\ (q \in parts'[parent'[q]] \/ sn'[q] \in coll'[Kind[q]].removes)
    BY DEF Noted, Live
  <2>1. q \notin Dying(t) /\ Live(q) /\ sn'[q] = sn[q] /\ parent'[q] = parent[q]
    BY <1>1 DEF Live
  <2>2. HasEntity(q) /\ (q \in parts[parent[q]] \/ sn[q] \in coll[Kind[q]].removes)
    BY <2>1 DEF LifeInv, PartInv, Noted
  <2>3. HasEntity(q)' /\ parent[q] \in Objects /\ Kind[q] \in Types
    BY <2>1, <2>2, KindFacts DEF HasEntity
  <2>4. CASE sn[q] \in coll[Kind[q]].removes
    BY <1>2, <1>3, <2>1, <2>3, <2>4
  <2>5. CASE q \in parts[parent[q]] /\ parent[q] \notin Dying(t)
    BY <1>1, <2>1, <2>3, <2>5
  <2>6. CASE q \in parts[parent[q]] /\ parent[q] \in Dying(t)
    <3>1. Kind[q] # t
      BY <1>3, <2>2, <2>3, <2>6, KindFacts DEF HasEntity
    <3>2. sn[q] \in Orphans(Dying(t), Kind[q])
      BY <2>6 DEF Orphans
    <3> QED BY <1>2, <2>1, <2>3, <3>1, <3>2
  <2> QED BY <2>2, <2>4, <2>5, <2>6
<1> QED BY <1>5, <1>6 DEF PartInv

\* The functions of those who die are forgotten, and no component that holds a function dies.
LEMMA SwapFunctions ==
    ASSUME LifeInv, NEW t \in Types, SwapOf(t)
    PROVE  FunctionInv'
<1>0. TypeInv /\ CollInv /\ PoolInv
  BY DEF LifeInv
<1>1. \A o \in Objects :
          /\ sn'[o] = IF o \in Dying(t) THEN 0 ELSE sn[o]
          /\ parent'[o] = IF o \in Dying(t) THEN None ELSE parent[o]
  BY <1>0, SwapFacts
<1>2. \A u \in Types : coll'[u].removes = IF u = t THEN {} ELSE coll[u].removes \union Orphans(Dying(t), u)
  <2>1. \A u \in Types : Swapped(t, u)
    BY <1>0, SwapFacts
  <2> QED BY <2>1 DEF Swapped
<1>3. /\ Dying(t) \subseteq Objects
      /\ \A o \in Objects : o \in Dying(t) <=> Kind[o] = t /\ Live(o) /\ sn[o] \in coll[t].removes
  BY <1>0, DyingFacts
<1>4. Orphans(Dying(t), "MessageCallBack") = {}
  <2> SUFFICES ASSUME NEW o \in Dying(t), NEW p \in parts[o], Kind[p] = "MessageCallBack" PROVE FALSE
    BY DEF Orphans
  <2> QED BY <1>3, KindFacts DEF LifeInv, PartInv, Listed, ListedIn
<1>5. NeverRemoved'
  BY <1>2, <1>4 DEF LifeInv, FunctionInv, NeverRemoved
<1>6. ASSUME NEW c \in callbacks' PROVE FunctionOf(c)'
  <2>1. c \in callbacks /\ c \notin Forgotten(Dying(t))
    BY <1>0, SwapFacts
  <2>2. c.obj \in Objects /\ FunctionOf(c)
    BY <1>0, <2>1 DEF TypeInv, Entries, LifeInv, FunctionInv
  <2>3. parent[c.obj] \notin Dying(t)
    BY <2>1, <2>2 DEF Forgotten, FunctionOf
  <2>4. c.obj \notin Dying(t)
    BY <1>3, <2>2 DEF LifeInv, FunctionInv, NeverRemoved, FunctionOf
  <2> QED BY <1>1, <2>2, <2>3, <2>4 DEF FunctionOf, Live
<1> QED BY <1>5, <1>6 DEF FunctionInv

LEMMA SwapTyped ==
    ASSUME LifeInv, NEW t \in Types, SwapOf(t), NextTurn, lastSn' = lastSn
    PROVE  TypeInv' /\ NumbersGiven'
<1>0. TypeInv /\ CollInv /\ NumbersGiven /\ PartInv
  BY DEF LifeInv
<1>1. turn' \in 1 .. Len(Order) + 4
  BY <1>0, TurnTyped
<1>2. /\ sn' \in [Objects -> Nat] /\ parent' \in [Objects -> Objects \union {None}]
      /\ parts' \in [Objects -> SUBSET Objects] /\ timers' \in [Objects -> Seq(Nat)]
      /\ pool' \in [Types -> [free : SUBSET Objects, use : Caches]] /\ coll' \in [Types -> Caches]
      /\ callbacks' \subseteq callbacks /\ asked' \subseteq asked /\ heap' \subseteq heap
  BY <1>0, SwapFacts
<1>3. TypeInv'
  BY <1>0, <1>1, <1>2 DEF TypeInv
<1>4. \A o \in Objects :
          /\ sn'[o] = IF o \in Dying(t) THEN 0 ELSE sn[o]
          /\ timers'[o] = IF o \in Dying(t) THEN <<>> ELSE timers[o]
  BY <1>0, SwapFacts
<1>5. \A u \in Types : coll'[u].removes = IF u = t THEN {} ELSE coll[u].removes \union Orphans(Dying(t), u)
  <2>1. \A u \in Types : Swapped(t, u)
    BY <1>0, SwapFacts
  <2> QED BY <2>1 DEF Swapped
<1>6. ASSUME NEW u \in Types, NEW x \in coll'[u].removes PROVE x <= lastSn
  <2>1. x \in coll[u].removes \/ x \in Orphans(Dying(t), u)
    BY <1>5
  <2>2. \A p \in UNION {parts[o] : o \in Dying(t)} : p \in Objects
    BY <1>0, DyingFacts DEF TypeInv
  <2> QED BY <1>0, <2>1, <2>2 DEF Orphans, NumbersGiven, ObjectsKnown
<1>7. ASSUME NEW o \in Objects PROVE sn'[o] <= lastSn
  <2>1. sn[o] <= lastSn /\ 0 <= lastSn
    BY <1>0 DEF NumbersGiven, ObjectsKnown, TypeInv
  <2> QED BY <1>4, <2>1
<1>8. \A o \in Objects : \A k \in DOMAIN timers'[o] : timers'[o][k] <= lastSn
  BY <1>0, <1>4 DEF NumbersGiven, TimersKnown
<1> QED BY <1>3, <1>6, <1>7, <1>8 DEF NumbersGiven, ObjectsKnown, TimersKnown

\* EntitySystem::Update: a component whose parent's memory is free is noted, and goes
\* when its type is swapped.
LEMMA SwapInv ==
    ASSUME LifeInv, NEW t \in Types, Swap(t)
    PROVE  LifeInv'
<1>1. At(t) /\ NextTurn /\ SwapOf(t) /\ lastSn' = lastSn
  BY DEF Swap
<1>2. TypeInv' /\ NumbersGiven' /\ PoolInv' /\ CollInv' /\ PartInv' /\ FunctionInv'
  BY <1>1, SwapTyped, SwapPool, SwapParts, SwapFunctions
<1>3. TypeInv /\ CollInv /\ PoolInv
  BY DEF LifeInv
<1>4. /\ turn \in 1 .. Len(Order) + 4 /\ turn > 1 /\ turn - 1 \in 1 .. Len(Order) /\ Order[turn - 1] = t
      /\ Len(Order) \in Nat /\ DOMAIN Order = 1 .. Len(Order)
  BY <1>1, <1>3, PlaceOfPhase, KindFacts DEF TypeInv
<1>5. turn' = turn + 1 /\ turn' \in 1 .. Len(Order) + 4 /\ turn' # Len(Order) + 4
  BY <1>1, <1>3, <1>4, TurnTyped
<1>6. \A o \in Objects :
          /\ sn'[o] = IF o \in Dying(t) THEN 0 ELSE sn[o]
          /\ parent'[o] = IF o \in Dying(t) THEN None ELSE parent[o]
  BY <1>1, <1>3, SwapFacts
<1>7. \A u \in Types : pool'[u].free = pool[u].free
  <2>1. \A u \in Types : Swapped(t, u)
    BY <1>1, <1>3, SwapFacts
  <2> QED BY <2>1 DEF Swapped
<1>8. ReuseInv'
  <2> SUFFICES ASSUME NEW q \in Objects, Kind[q] \in PartTypes, sn'[q] # 0,
                      parent'[q] \in pool'[Kind[parent'[q]]].free
               PROVE  turn' > 1 /\ \E k \in DOMAIN Order : Order[k] = Kind[q] /\ turn' <= k + 1
    BY DEF ReuseInv, Live
  <2>1. q \notin Dying(t) /\ Live(q) /\ parent'[q] = parent[q]
    BY <1>6 DEF Live
  <2>2. parent[q] \in Objects /\ Kind[parent[q]] \in Types
        /\ (q \in parts[parent[q]] \/ sn[q] \in coll[Kind[q]].removes)
    BY <2>1, KindFacts DEF LifeInv, PartInv, Noted, HasEntity
  <2>3. parent[q] \in pool[Kind[parent[q]]].free
    BY <1>7, <2>1, <2>2
  <2>4. ~ Live(parent[q])
    BY <1>3, <2>2, <2>3 DEF PoolInv, Free, Live
  <2>5. sn[q] \in coll[Kind[q]].removes
    BY <2>2, <2>4 DEF LifeInv, PartInv, Listed, ListedIn
  <2>6. Kind[q] # t
    BY <1>3, <2>1, <2>5, DyingFacts
  <2>7. PICK k \in DOMAIN Order : Order[k] = Kind[q] /\ turn <= k + 1
    BY <2>1, <2>3 DEF LifeInv, ReuseInv
  <2>8. k # turn - 1
    BY <1>4, <2>6, <2>7
  <2>9. turn + 1 <= k + 1 /\ turn + 1 > 1
    BY <1>4, <2>7, <2>8
  <2> QED BY <1>5, <2>7, <2>9
<1>9. ~ At("call")'
  <2>1. At("call")' <=> turn' = Len(Order) + 4
    BY <1>5, PhaseAt DEF At, Frame
  <2> QED BY <1>5, <2>1
<1>10. CallsLive'
  BY <1>9 DEF CallsLive
<1> QED BY <1>2, <1>8, <1>10 DEF LifeInv

\* UpdateSystem::Update: those it calls afterwards are listed by an entity that is there.
LEMMA UpdateSystemInv ==
    ASSUME LifeInv, UpdateSystem
    PROVE  LifeInv'
<1>1. At("update") /\ NextTurn /\ SwapUpdates /\ lastSn' = lastSn
  BY DEF UpdateSystem
<1>2. TypeInv /\ CollInv /\ PoolInv
  BY DEF LifeInv
<1>3. turn \in 1 .. Len(Order) + 4 /\ turn = Len(Order) + 3 /\ turn' = Len(Order) + 4
      /\ Len(Order) \in Nat /\ DOMAIN Order = 1 .. Len(Order)
  BY <1>1, <1>2, PlaceOfPhase, TurnTyped, KindFacts DEF TypeInv
<1>4. \A q \in Objects : Kind[q] \in PartTypes /\ Live(q) => parent[q] \notin pool[Kind[parent[q]]].free
  BY <1>3 DEF LifeInv, ReuseInv
<1>5. CASE "UpdateComponent" \in Types
  <2> DEFINE t == "UpdateComponent"
  <2>1. SwapOf(t) /\ t \in Types
    BY <1>1, <1>5 DEF SwapUpdates
  <2> HIDE DEF t
  <2>2. TypeInv' /\ NumbersGiven' /\ PoolInv' /\ CollInv' /\ PartInv' /\ FunctionInv'
    BY <1>1, <2>1, SwapTyped, SwapPool, SwapParts, SwapFunctions
  <2>3. \A o \in Objects :
            /\ sn'[o] = IF o \in Dying(t) THEN 0 ELSE sn[o]
            /\ parent'[o] = IF o \in Dying(t) THEN None ELSE parent[o]
    BY <1>2, <2>1, SwapFacts
  <2>4. \A u \in Types : pool'[u].free = pool[u].free /\ (u = t => coll'[u].objs = Kept(t))
    <3>1. \A u \in Types : Swapped(t, u)
      BY <1>2, <2>1, SwapFacts
    <3> QED BY <3>1 DEF Swapped
  <2>5. \A q \in Objects : Kind[q] \in PartTypes /\ Live(q) => Kind[parent[q]] \in Types
    BY KindFacts DEF LifeInv, PartInv, Noted, HasEntity
  <2>6. ReuseInv'
    <3> SUFFICES ASSUME NEW q \in Objects, Kind[q] \in PartTypes, sn'[q] # 0,
                        parent'[q] \in pool'[Kind[parent'[q]]].free
                 PROVE  FALSE
      BY DEF ReuseInv, Live
    <3>1. Live(q) /\ parent'[q] = parent[q]
      BY <2>3 DEF Live
    <3> QED BY <1>4, <2>4, <2>5, <3>1
  <2>7. CallsLive'
    <3> SUFFICES ASSUME NEW e \in Kept(t) PROVE sn'[parent'[e.obj]] # 0
      BY <2>1, <2>4 DEF CallsLive, Live, t
    <3>1. e \in InColl(t) /\ e \notin Due(coll[t])
      BY DEF Kept
    <3>2. e.obj \in Objects /\ Kind[e.obj] = t /\ Live(e.obj) /\ e.sn = sn[e.obj]
      BY <1>2, <2>1, <3>1 DEF CollInv, OfType
    <3>3. sn[e.obj] \notin coll[t].removes
      BY <3>1, <3>2 DEF Due, InColl
    <3>4. t \in PartTypes
      BY <2>1 DEF PartTypes, t
    <3>5. HasEntity(e.obj) /\ e.obj \in parts[parent[e.obj]]
      BY <3>2, <3>3, <3>4 DEF LifeInv, PartInv, Noted
    <3>6. ListedIn(parent[e.obj], e.obj)
      BY <3>5 DEF LifeInv, PartInv, Listed, HasEntity
    <3>7. /\ Dying(t) \subseteq Objects
          /\ \A o \in Objects : o \in Dying(t) <=> Kind[o] = t /\ Live(o) /\ sn[o] \in coll[t].removes
      BY <1>2, <2>1, DyingFacts
    <3>8. e.obj \notin Dying(t) /\ parent[e.obj] \notin Dying(t)
      BY <3>2, <3>3, <3>4, <3>5, <3>7, KindFacts DEF HasEntity
    <3> QED BY <2>3, <3>2, <3>5, <3>6, <3>8 DEF HasEntity, ListedIn, Live
  <2> QED BY <2>2, <2>6, <2>7 DEF LifeInv
<1>6. CASE "UpdateComponent" \notin Types
  <2>1. UNCHANGED <<lastSn, sn, parent, parts, pool, coll, timers, heap, asked, callbacks>>
    BY <1>1, <1>6 DEF SwapUpdates
  <2>2. TypeInv'
    BY <1>2, <1>3, <2>1 DEF TypeInv
  <2>3. NumbersGiven' /\ PartInv' /\ FunctionInv'
    BY <2>1 DEF LifeInv, NumbersGiven, ObjectsKnown, TimersKnown, PartInv, Listed, ListedIn, Noted,
                HasEntity, FunctionInv, FunctionOf, NeverRemoved, Live
  <2>4. PoolInv'
    BY <2>1 DEF LifeInv, PoolInv, Free, InUse, Whole, Distinct, Known, InPool, Live, OfType
  <2>5. CollInv'
    BY <2>1 DEF LifeInv, CollInv, InColl, Live, OfType
  <2>6. ReuseInv' /\ CallsLive'
    BY <1>4, <1>6, <2>1 DEF ReuseInv, CallsLive, Live
  <2> QED BY <2>2, <2>3, <2>4, <2>5, <2>6 DEF LifeInv
<1> QED BY <1>5, <1>6

(***************************************************************************)
(* DynamicObjectPoolCollector::Update: the dead become available.          *)
(***************************************************************************)
LEMMA PoolUpdateInv ==
    ASSUME LifeInv, PoolUpdate
    PROVE  LifeInv'
<1>1. /\ At("pool") /\ NextTurn
      /\ UNCHANGED <<lastSn, sn, parent, parts, coll, timers, heap, asked, callbacks>>
      /\ pool' = [t \in Types |->
                      [free |-> pool[t].free \union {e.obj : e \in Due(pool[t].use)},
                       use |-> [NoCache EXCEPT !.objs = InPool(t) \ Due(pool[t].use)]]]
  BY DEF PoolUpdate, Recycled
<1>2. TypeInv /\ PoolInv /\ turn \in 1 .. Len(Order) + 4
  BY DEF LifeInv, TypeInv
<1>3. turn = 1 /\ turn' = 2 /\ turn' \in 1 .. Len(Order) + 4 /\ Len(Order) \in Nat
  BY <1>1, <1>2, PlaceOfPhase, TurnTyped, KindFacts
<1>4. \A t \in Types : \A e \in InPool(t) : e \in Due(pool[t].use) <=> e.sn \in pool[t].use.removes
  BY DEF Due, InPool
<1>5. \A t \in Types : Due(pool[t].use) \subseteq InPool(t)
  BY DEF Due, InPool
<1>6. \A t \in Types : \A e \in InPool(t) : e \in Due(pool[t].use) <=> ~ Live(e.obj)
  BY <1>2, <1>4 DEF PoolInv, InUse
<1>7. \A t \in Types :
          /\ pool'[t].free = pool[t].free \union {e.obj : e \in Due(pool[t].use)}
          /\ pool'[t].use.removes = {} /\ InPool(t)' = InPool(t) \ Due(pool[t].use)
  <2>1. ASSUME NEW t \in Types
        PROVE  pool'[t].use = [objs |-> InPool(t) \ Due(pool[t].use), adds |-> {}, removes |-> {}]
    BY <1>1 DEF NoCache
  <2>2. \A t \in Types : pool'[t].free = pool[t].free \union {e.obj : e \in Due(pool[t].use)}
    BY <1>1
  <2>3. ASSUME NEW t \in Types
        PROVE  pool'[t].use.removes = {} /\ pool'[t].use.objs \union pool'[t].use.adds = InPool(t) \ Due(pool[t].use)
    <3> DEFINE x == InPool(t) \ Due(pool[t].use)
               u == pool'[t].use
    <3>1. u = [objs |-> x, adds |-> {}, removes |-> {}]
      BY <2>1
    <3> HIDE DEF x, u
    <3>2. u.removes = {} /\ u.objs \union u.adds = x
      BY <3>1
    <3> QED BY <3>2 DEF x, u
  <2> QED BY <2>2, <2>3 DEF InPool
<1>8. \A t \in Types : InPool(t) \subseteq Entries
  BY <1>2 DEF TypeInv, InPool, Caches
<1>9. TypeInv'
  <2>1. ASSUME NEW t \in Types
        PROVE  [free |-> pool[t].free \union {e.obj : e \in Due(pool[t].use)},
                use |-> [NoCache EXCEPT !.objs = InPool(t) \ Due(pool[t].use)]]
                 \in [free : SUBSET Objects, use : Caches]
    <3>1. {e.obj : e \in Due(pool[t].use)} \in SUBSET Objects
      BY <1>5, <1>8 DEF Entries
    <3>2. [NoCache EXCEPT !.objs = InPool(t) \ Due(pool[t].use)] \in Caches
      BY <1>8 DEF NoCache, Caches
    <3>3. pool[t].free \in SUBSET Objects
      BY <1>2 DEF TypeInv
    <3> QED BY <3>1, <3>2, <3>3
  <2>2. pool' \in [Types -> [free : SUBSET Objects, use : Caches]]
    BY <1>1, <2>1
  <2> QED BY <1>1, <1>2, <1>3, <2>2 DEF TypeInv
<1>10. ASSUME NEW t \in Types PROVE (Free(t) /\ InUse(t) /\ Whole(t) /\ Distinct(t) /\ Known(t))'
  <2>1. Free(t) /\ InUse(t) /\ Whole(t) /\ Distinct(t) /\ Known(t)
    BY <1>2 DEF PoolInv
  <2>2. Free(t)'
    <3> SUFFICES ASSUME NEW o \in pool'[t].free
                 PROVE  o \in OfType(t) /\ sn[o] = 0 /\ \A e \in InPool(t) \ Due(pool[t].use) : e.obj # o
      BY <1>1, <1>7 DEF Free, OfType
    <3>1. CASE o \in pool[t].free
      BY <2>1, <3>1 DEF Free
    <3>2. CASE o \notin pool[t].free
      <4>1. PICK e \in Due(pool[t].use) : e.obj = o
        BY <1>7, <3>2
      <4>2. e \in InPool(t) /\ ~ Live(o)
        BY <1>5, <1>6, <4>1
      <4> QED BY <1>6, <2>1, <4>1, <4>2 DEF InUse, Live
    <3> QED BY <3>1, <3>2
  <2>3. InUse(t)'
    BY <1>1, <1>6, <1>7, <2>1 DEF InUse, Live, OfType
  <2>4. Whole(t)'
    <3> SUFFICES ASSUME NEW o \in OfType(t)
                 PROVE  o \in pool'[t].free \/ \E e \in InPool(t)' : e.obj = o
      BY DEF Whole, OfType
    <3>1. CASE o \in pool[t].free
      BY <1>7, <3>1
    <3>2. CASE o \notin pool[t].free
      <4>1. PICK e \in InPool(t) : e.obj = o
        BY <2>1, <3>2 DEF Whole
      <4> QED BY <1>7, <4>1
    <3> QED BY <3>1, <3>2
  <2>5. Distinct(t)' /\ Known(t)'
    BY <1>7, <2>1 DEF Distinct, Known
  <2> QED BY <2>2, <2>3, <2>4, <2>5
<1>11. PoolInv'
  BY <1>10 DEF PoolInv
<1>12. CollInv' /\ NumbersGiven' /\ PartInv' /\ FunctionInv'
  BY <1>1 DEF LifeInv, CollInv, InColl, Live, OfType, NumbersGiven, ObjectsKnown, TimersKnown, PartInv,
              Listed, ListedIn, Noted, HasEntity, FunctionInv, FunctionOf, NeverRemoved
<1>13. ReuseInv'
  <2> SUFFICES ASSUME NEW q \in Objects, Kind[q] \in PartTypes
               PROVE  turn' > 1 /\ \E k \in DOMAIN Order : Order[k] = Kind[q] /\ turn' <= k + 1
    BY DEF ReuseInv
  <2>1. PICK k \in DOMAIN Order : Order[k] = Kind[q]
    BY KindFacts DEF Types
  <2> QED BY <1>3, <2>1, KindFacts
<1>14. CallsLive'
  <2>1. At("call")' <=> turn' = Len(Order) + 4
    BY <1>3, PhaseAt DEF At, Frame
  <2> QED BY <1>3, <2>1 DEF CallsLive
<1> QED BY <1>9, <1>11, <1>12, <1>13, <1>14 DEF LifeInv

\* The rest of the frame changes no object.
LEMMA QuietInv ==
    ASSUME LifeInv, Done \/ (\E t \in heap : Fire(t)) \/ UNCHANGED vars
    PROVE  LifeInv'
<1>1. /\ heap' \subseteq heap
      /\ UNCHANGED <<lastSn, sn, parent, parts, pool, coll, timers, asked, callbacks>>
  BY DEF Done, Fire, vars
<1>2. CollInv' /\ NumbersGiven' /\ PartInv' /\ FunctionInv'
  BY <1>1 DEF LifeInv, CollInv, InColl, Live, OfType, NumbersGiven, ObjectsKnown, TimersKnown, PartInv,
              Listed, ListedIn, Noted, HasEntity, FunctionInv, FunctionOf, NeverRemoved
<1>3. PoolInv'
  BY <1>1 DEF LifeInv, PoolInv, Free, InUse, Whole, Distinct, Known, InPool, Live, OfType
<1>4. TypeInv
  BY DEF LifeInv
<1>5. CASE Done
  <2>1. Working /\ NextTurn /\ turn \in 1 .. Len(Order) + 4
    BY <1>4, <1>5 DEF Done, TypeInv
  <2>2. /\ turn' \in 1 .. Len(Order) + 4 /\ turn \in {Len(Order) + 2, Len(Order) + 4}
        /\ turn' \in {1, Len(Order) + 3} /\ Len(Order) \in Nat /\ DOMAIN Order = 1 .. Len(Order)
    BY <1>4, <2>1, PlaceOfPhase, TurnTyped, KindFacts DEF Working
  <2>3. TypeInv'
    BY <1>1, <1>4, <2>2 DEF TypeInv
  <2>4. \A q \in Objects : Kind[q] \in PartTypes /\ Live(q) => parent[q] \notin pool[Kind[parent[q]]].free
    BY <2>2 DEF LifeInv, ReuseInv
  <2>5. ReuseInv'
    BY <1>1, <2>4 DEF ReuseInv, Live
  <2>6. At("call")' <=> turn' = Len(Order) + 4
    BY <2>2, PhaseAt DEF At, Frame
  <2>7. CallsLive'
    BY <2>2, <2>6 DEF CallsLive
  <2> QED BY <1>2, <1>3, <2>3, <2>5, <2>7 DEF LifeInv
<1>6. CASE turn' = turn
  <2>1. TypeInv'
    BY <1>1, <1>4, <1>6 DEF TypeInv
  <2>2. ReuseInv' /\ CallsLive'
    BY <1>1, <1>6 DEF LifeInv, ReuseInv, CallsLive, Live, At
  <2> QED BY <1>2, <1>3, <2>1, <2>2 DEF LifeInv
<1> QED BY <1>5, <1>6 DEF Fire, vars

LEMMA InitLife == Init => LifeInv
<1> SUFFICES ASSUME Init PROVE LifeInv
  OBVIOUS
<1> USE DEF Init
<1>1. NoCache \in Caches /\ NoCache.objs = {} /\ NoCache.adds = {} /\ NoCache.removes = {}
  BY DEF NoCache, Caches
<1>2. \A t \in Types : InPool(t) = {} /\ InColl(t) = {} /\ pool[t].free = OfType(t)
                       /\ pool[t].use.removes = {} /\ coll[t].removes = {} /\ coll[t].objs = {}
  BY <1>1 DEF InPool, InColl
<1>3. TypeInv
  <2>1. <<>> \in Seq(Nat) /\ 1 \in 1 .. Len(Order) + 4 /\ 0 \in 0 .. MaxSn
    BY KindFacts, ConstantsAssumption
  <2>2. \A t \in Types : OfType(t) \in SUBSET Objects
    BY DEF OfType
  <2> QED BY <1>1, <2>1, <2>2 DEF TypeInv
<1>4. PoolInv
  BY <1>2 DEF PoolInv, Free, InUse, Whole, Distinct, Known, OfType
<1>5. CollInv /\ PartInv /\ ReuseInv /\ NumbersGiven
  BY <1>2 DEF CollInv, PartInv, Listed, Noted, ReuseInv, NumbersGiven, ObjectsKnown, TimersKnown, Live, OfType
<1>6. CallsLive /\ FunctionInv
  BY <1>2 DEF CallsLive, FunctionInv, NeverRemoved
<1> QED BY <1>3, <1>4, <1>5, <1>6 DEF LifeInv

\* Pools, collections, components and functions agree in every state.
THEOREM LifeCorrect == Spec => []LifeInv
<1>1. LifeInv /\ [Next]_vars => LifeInv'
  <2> SUFFICES ASSUME LifeInv, [Next]_vars PROVE LifeInv'
    OBVIOUS
  <2>1. CASE Done \/ (\E t \in heap : Fire(t)) \/ UNCHANGED vars
    BY <2>1, QuietInv
  <2>2. CASE PoolUpdate
    BY <2>2, PoolUpdateInv
  <2>3. CASE UpdateSystem
    BY <2>3, UpdateSystemInv
  <2>4. CASE \E t \in Types : Swap(t)
    BY <2>4, SwapInv
  <2>5. CASE \E o \in Objects : AddEntity(o) \/ RemoveEntity(o)
    BY <2>5, AddEntityInv, RemoveEntityInv
  <2>6. CASE \E e, o \in Objects :
                 AddTwin(o, e) \/ AddPart(e, o) \/ RemovePart(e, o) \/ RegisterFunction(e, o)
    BY <2>6, AddTwinInv, AddPartInv, RemovePartInv, RegisterFunctionInv
  <2> QED BY <2>1, <2>2, <2>3, <2>4, <2>5, <2>6 DEF Next
<1> QED BY <1>1, InitLife, PTL DEF Spec

\* Every variable keeps its type, and a collection has the living objects of its type
\* with their numbers (ComponentCollections).
THEOREM TypeCorrect == Spec => []TypeOK
<1>1. LifeInv => TypeOK
  <2> SUFFICES ASSUME LifeInv PROVE TypeOK
    OBVIOUS
  <2>1. TypeInv /\ PoolInv /\ CollInv /\ ObjectsKnown
    BY DEF LifeInv, NumbersGiven
  <2>2. turn \in DOMAIN Frame /\ lastSn \in 0 .. MaxSn
    BY <2>1, FramePlaces DEF TypeInv
  <2>3. sn \in [Objects -> 0 .. MaxSn] /\ parent \in [Objects -> Objects \union {None}]
    <3>1. \A o \in Objects : sn[o] \in 0 .. MaxSn
      BY <2>1, ConstantsAssumption DEF TypeInv, ObjectsKnown
    <3> QED BY <2>1, <3>1 DEF TypeInv
  <2>4. \A t \in Types : pool[t].free \subseteq OfType(t)
    BY <2>1 DEF PoolInv, Free
  <2>5. ASSUME NEW t \in Types
        PROVE  InColl(t) = {Entry(sn[o], o) : o \in {o \in OfType(t) : Live(o)}}
    <3>1. \A e \in InColl(t) : e \in Entries
      BY <2>1 DEF InColl, TypeInv, Caches
    <3>2. \A e \in InColl(t) : e = Entry(sn[e.obj], e.obj) /\ e.obj \in OfType(t) /\ Live(e.obj)
      BY <2>1, <3>1 DEF CollInv, Entry, Entries
    <3>3. \A o \in OfType(t) : Live(o) => Entry(sn[o], o) \in InColl(t)
      BY <2>1 DEF CollInv
    <3> HIDE DEF Entry
    <3> QED BY <3>2, <3>3
  <2> QED BY <2>2, <2>3, <2>4, <2>5 DEF TypeOK
<1> QED BY <1>1, LifeCorrect, PTL

\* FreeObject and CacheRefresh::Swap lose no object and free none twice.
THEOREM PoolExactCorrect == Spec => []PoolExact
<1>1. LifeInv => PoolExact
  <2> SUFFICES ASSUME LifeInv, NEW t \in Types, NEW o \in OfType(t)
               PROVE  /\ o \in pool[t].free <=> ~ \E e \in InPool(t) : e.obj = o
                      /\ \A e \in InPool(t) : e.obj = o =>
                             IF Live(o) THEN e.sn = sn[o] ELSE e.sn \in pool[t].use.removes
    BY DEF PoolExact
  <2>1. Free(t) /\ InUse(t) /\ Whole(t)
    BY DEF LifeInv, PoolInv
  <2> QED BY <2>1 DEF Free, InUse, Whole
<1> QED BY <1>1, LifeCorrect, PTL

\* IEntity::ComponentBackToPool: a component goes with its entity.
THEOREM PartsFollowCorrect == Spec => []PartsFollow
<1>1. LifeInv => PartsFollow
  BY DEF LifeInv, PartInv, Listed, ListedIn, Noted, HasEntity, PartsFollow, OfType
<1> QED BY <1>1, LifeCorrect, PTL

\* The memory of a parent is not given away while a component points to it.
THEOREM NoReuseCorrect == Spec => []NoReuse
<1>1. LifeInv => NoReuse
  <2> SUFFICES ASSUME LifeInv, NEW o \in Objects, Kind[o] \in PartTypes, Live(o), Working,
                      parent[o] \in pool[Kind[parent[o]]].free
               PROVE  FALSE
    BY DEF NoReuse, OfType
  <2>1. turn \in 1 .. Len(Order) + 4 /\ turn > Len(Order) + 1
    BY PlaceOfPhase DEF LifeInv, TypeInv
  <2>2. PICK k \in DOMAIN Order : turn <= k + 1
    BY DEF LifeInv, ReuseInv
  <2> QED BY <2>1, <2>2, KindFacts
<1> QED BY <1>1, LifeCorrect, PTL

\* UpdateSystem::Update calls the functions of entities that are there.
THEOREM CallsLiveCorrect == Spec => []CallsLive
<1>1. LifeInv => CallsLive
  BY DEF LifeInv
<1> QED BY <1>1, LifeCorrect, PTL

\* MessageSystem finds a function only for the entity that registered it.
THEOREM CallbacksOwnedCorrect == Spec => []CallbacksOwned
<1>1. LifeInv => CallbacksOwned
  BY DEF LifeInv, FunctionInv, FunctionOf, CallbacksOwned
<1> QED BY <1>1, LifeCorrect, PTL

-----------------------------------------------------------------------------
(***************************************************************************)
(* Timers.                                                                 *)
(***************************************************************************)
LEMMA TimersAlone ==
    ASSUME TimerInv, timers' = timers, heap' = heap, \A o \in Objects : Live(o) => Live(o)'
    PROVE  TimerInv'
BY DEF TimerInv

\* IComponent::AddTimer: the timers of a new component have new numbers.
LEMMA AddPartTimers ==
    ASSUME LifeInv, TimerInv, NEW e \in Objects, NEW o \in Objects, AddPart(e, o)
    PROVE  TimerInv'
<1>0. TypeInv /\ TimersKnown /\ lastSn \in Nat
  BY DEF LifeInv, NumbersGiven, TypeInv
<1>1. /\ Birth(o, lastSn + 1, e) /\ timers' = [timers EXCEPT ![o] = TimerSns(o)]
      /\ heap' = heap \union NewTimers(o)
  BY DEF AddPart
<1>2. sn[o] = 0 /\ \A q \in Objects : sn'[q] = IF q = o THEN lastSn + 1 ELSE sn[q]
  <2>1. lastSn + 1 \in Nat
    BY <1>0
  <2>2. o \in pool[Kind[o]].free /\ \A q \in Objects : sn'[q] = IF q = o THEN lastSn + 1 ELSE sn[q]
    BY <1>0, <1>1, <2>1, BirthFacts
  <2> QED BY <2>2, KindFacts DEF LifeInv, PoolInv, Free
<1>3. \A q \in Objects : timers'[q] = IF q = o THEN TimerSns(o) ELSE timers[q]
  BY <1>0, <1>1 DEF TypeInv
<1>4. /\ Asked(o) \in Seq({"once", "ever"}) /\ Len(Asked(o)) \in Nat /\ DOMAIN Asked(o) = 1 .. Len(Asked(o))
      /\ DOMAIN TimerSns(o) = 1 .. Len(Asked(o)) /\ Len(TimerSns(o)) = Len(Asked(o)) /\ TimerSns(o) \in Seq(Nat)
      /\ \A k \in 1 .. Len(Asked(o)) : TimerSns(o)[k] = lastSn + 1 + k
  BY <1>0, AskedTyped
<1>5. timers[o] = <<>> /\ DOMAIN timers[o] = {}
  BY <1>2 DEF TimerInv, Live
<1>6. \A q \in Objects : \A k \in DOMAIN timers[q] : timers[q][k] \in Nat /\ timers[q][k] <= lastSn
  BY <1>0 DEF TypeInv, TimersKnown
<1>7. Asked(o) = Timers \/ Asked(o) = <<>>
  BY DEF Asked
<1>8. \A q \in Objects : timers'[q] # <<>> => Live(q)' /\ DOMAIN timers'[q] = DOMAIN Timers
  <2> SUFFICES ASSUME NEW q \in Objects, timers'[q] # <<>>
               PROVE  Live(q)' /\ DOMAIN timers'[q] = DOMAIN Timers
    OBVIOUS
  <2>1. CASE q = o
    <3>1. Asked(o) # <<>>
      BY <1>3, <1>4, <2>1
    <3> QED BY <1>0, <1>2, <1>3, <1>4, <1>7, <2>1, <3>1 DEF Live
  <2>2. CASE q # o
    BY <1>2, <1>3, <2>2 DEF TimerInv, Live
  <2> QED BY <2>1, <2>2
<1>9. \A q, r \in Objects : \A k \in DOMAIN timers'[q], j \in DOMAIN timers'[r] :
          timers'[q][k] = timers'[r][j] => q = r /\ k = j
  <2>1. \A k \in DOMAIN TimerSns(o) : TimerSns(o)[k] \in Nat /\ TimerSns(o)[k] > lastSn
    BY <1>0, <1>4
  <2>2. \A k, j \in DOMAIN TimerSns(o) : TimerSns(o)[k] = TimerSns(o)[j] => k = j
    BY <1>0, <1>4
  <2> SUFFICES ASSUME NEW q \in Objects, NEW r \in Objects,
                      NEW k \in DOMAIN timers'[q], NEW j \in DOMAIN timers'[r], timers'[q][k] = timers'[r][j]
               PROVE  q = r /\ k = j
    OBVIOUS
  <2>3. CASE q = o /\ r = o
    BY <1>3, <2>2, <2>3
  <2>4. CASE q # o /\ r # o
    BY <1>3, <2>4 DEF TimerInv
  <2>5. CASE q = o /\ r # o
    <3>1. timers'[q] = TimerSns(o) /\ timers'[r] = timers[r]
      BY <1>3, <2>5
    <3>2. TimerSns(o)[k] > lastSn /\ timers[r][j] <= lastSn /\ TimerSns(o)[k] = timers[r][j] /\ timers[r][j] \in Nat
      BY <1>6, <2>1, <3>1
    <3> QED BY <1>0, <3>2
  <2>6. CASE q # o /\ r = o
    <3>1. timers'[r] = TimerSns(o) /\ timers'[q] = timers[q]
      BY <1>3, <2>6
    <3>2. TimerSns(o)[j] > lastSn /\ timers[q][k] <= lastSn /\ TimerSns(o)[j] = timers[q][k] /\ timers[q][k] \in Nat
      BY <1>6, <2>1, <3>1
    <3> QED BY <1>0, <3>2
  <2> QED BY <2>3, <2>4, <2>5, <2>6
<1>10. ASSUME NEW k \in DOMAIN Asked(o)
       PROVE  \E t \in NewTimers(o) : t.id = TimerSns(o)[k]
  <2>1. [id |-> TimerSns(o)[k], owner |-> o, once |-> Asked(o)[k] = "once"] \in NewTimers(o)
    BY DEF NewTimers
  <2> QED BY <2>1
<1>11. ASSUME NEW t \in heap'
       PROVE  \E k \in DOMAIN timers'[t.owner] :
                  t.id = timers'[t.owner][k] /\ t.once = (Timers[k] = "once")
  <2>1. CASE t \in heap
    <3>1. t.owner \in Objects /\ \E k \in DOMAIN timers[t.owner] :
              t.id = timers[t.owner][k] /\ t.once = (Timers[k] = "once")
      BY <1>0, <2>1 DEF TimerInv, TypeInv
    <3>2. t.owner # o
      BY <1>5, <3>1
    <3> QED BY <1>3, <3>1, <3>2
  <2>2. CASE t \in NewTimers(o)
    <3>1. PICK k \in DOMAIN Asked(o) : t = [id |-> TimerSns(o)[k], owner |-> o, once |-> Asked(o)[k] = "once"]
      BY <2>2 DEF NewTimers
    <3>2. Asked(o) = Timers
      BY <1>7, <3>1
    <3>3. t.owner = o /\ t.id = TimerSns(o)[k] /\ t.once = (Asked(o)[k] = "once")
      BY <3>1
    <3>4. timers'[o] = TimerSns(o) /\ k \in DOMAIN TimerSns(o)
      BY <1>3, <1>4
    <3> QED BY <3>2, <3>3, <3>4
  <2> QED BY <1>1, <2>1, <2>2
<1>12. ASSUME NEW q \in Objects, NEW k \in DOMAIN timers'[q], Timers[k] = "ever"
       PROVE  \E t \in heap' : t.id = timers'[q][k]
  <2>1. CASE q = o
    <3>1. timers'[q] = TimerSns(o) /\ k \in DOMAIN Asked(o)
      BY <1>3, <1>4, <2>1
    <3> QED BY <1>1, <1>10, <3>1
  <2>2. CASE q # o
    BY <1>1, <1>3, <1>12, <2>2 DEF TimerInv
  <2> QED BY <2>1, <2>2
<1> QED BY <1>8, <1>9, <1>11, <1>12 DEF TimerInv

\* TimerComponent::Update drops a timer that fires once.
LEMMA FireTimers ==
    ASSUME LifeInv, TimerInv, NEW t \in heap, Fire(t)
    PROVE  TimerInv'
<1>1. t.once /\ heap' = heap \ {t} /\ timers' = timers /\ sn' = sn
  BY DEF Fire
<1>2. t.owner \in Objects
  BY DEF LifeInv, TypeInv
<1>3. PICK j \in DOMAIN timers[t.owner] : t.id = timers[t.owner][j] /\ t.once = (Timers[j] = "once")
  BY DEF TimerInv
<1>4. ASSUME NEW o \in Objects, NEW k \in DOMAIN timers[o], Timers[k] = "ever"
      PROVE  \E x \in heap' : x.id = timers[o][k]
  <2>1. PICK x \in heap : x.id = timers[o][k]
    BY <1>4 DEF TimerInv
  <2>2. x # t
    <3> SUFFICES ASSUME x = t PROVE FALSE
      OBVIOUS
    <3>1. timers[o][k] = timers[t.owner][j]
      BY <1>3, <2>1
    <3>2. k = j
      BY <1>2, <3>1 DEF TimerInv
    <3> QED BY <1>1, <1>3, <1>4, <3>2
  <2> QED BY <1>1, <2>1, <2>2
<1> QED BY <1>1, <1>4 DEF TimerInv, Live

\* TimerComponent::Remove finds all timers of a component that are left, because only
\* the last one in its list can be missing.
LEMMA SwapTimers ==
    ASSUME OnceLast, LifeInv, TimerInv, NEW t \in Types, SwapOf(t)
    PROVE  TimerInv'
<1>0. TypeInv /\ CollInv
  BY DEF LifeInv
<1>1. \A o \in Objects :
          /\ sn'[o] = IF o \in Dying(t) THEN 0 ELSE sn[o]
          /\ timers'[o] = IF o \in Dying(t) THEN <<>> ELSE timers[o]
  BY <1>0, SwapFacts
<1>2. heap' = {x \in heap : x.id \notin UNION {Erased(o) : o \in Dying(t)}}
  BY <1>0, SwapFacts
<1>3. Dying(t) \subseteq Objects
  BY <1>0, DyingFacts
<1>4. Timers \in Seq({"once", "ever"}) /\ DOMAIN Timers = 1 .. Len(Timers) /\ Len(Timers) \in Nat
  BY ConstantsAssumption
<1>5. ASSUME NEW x \in heap' PROVE x \in heap /\ x.owner \in Objects /\ x.owner \notin Dying(t)
  <2>1. x \in heap /\ x.owner \in Objects
    BY <1>0, <1>2 DEF TypeInv
  <2> SUFFICES ASSUME x.owner \in Dying(t) PROVE FALSE
    BY <2>1
  <2> DEFINE o == x.owner
  <2>2. PICK k \in DOMAIN timers[o] : x.id = timers[o][k]
    BY <2>1 DEF TimerInv
  <2>3. DOMAIN timers[o] = 1 .. Len(Timers)
    BY <1>4, <2>1, <2>2 DEF TimerInv
  <2>4. ASSUME NEW j \in 1 .. k PROVE timers[o][j] \in {y.id : y \in heap}
    <3>1. CASE j = k
      BY <2>1, <2>2, <3>1
    <3>2. CASE j # k
      <4>1. j \in DOMAIN Timers /\ j # Len(Timers) /\ j \in DOMAIN timers[o]
        <5>1. k \in 1 .. Len(Timers) /\ j \in 1 .. k /\ j # k /\ Len(Timers) \in Nat
          BY <1>4, <2>2, <2>3, <3>2
        <5>2. j \in 1 .. Len(Timers) /\ j # Len(Timers)
          BY <5>1
        <5> QED BY <1>4, <2>3, <5>2
      <4>2. Timers[j] = "ever"
        <5>1. Timers[j] \in {"once", "ever"}
          BY <1>4, <4>1
        <5> QED BY <4>1, <5>1 DEF OnceLast
      <4>3. PICK y \in heap : y.id = timers[o][j]
        BY <2>1, <4>1, <4>2 DEF TimerInv
      <4> QED BY <4>3
    <3> QED BY <3>1, <3>2
  <2>5. x.id \in Erased(o)
    BY <2>2, <2>4 DEF Erased
  <2> QED BY <1>2, <2>5
<1>6. ASSUME NEW o \in Objects, NEW k \in DOMAIN timers'[o], Timers[k] = "ever"
      PROVE  \E x \in heap' : x.id = timers'[o][k]
  <2>1. o \notin Dying(t) /\ timers'[o] = timers[o] /\ k \in DOMAIN timers[o]
    BY <1>1
  <2>2. PICK x \in heap : x.id = timers[o][k]
    BY <1>6, <2>1 DEF TimerInv
  <2>3. ASSUME NEW d \in Dying(t), x.id \in Erased(d) PROVE FALSE
    <3>1. PICK j \in DOMAIN timers[d] : x.id = timers[d][j]
      BY <2>3 DEF Erased
    <3>2. d \in Objects /\ timers[d][j] = timers[o][k] /\ d # o
      BY <1>3, <2>1, <2>2, <3>1
    <3>3. \A q, p \in Objects : \A l \in DOMAIN timers[q], m \in DOMAIN timers[p] :
              timers[q][l] = timers[p][m] => q = p
      BY DEF TimerInv
    <3> QED BY <2>1, <3>1, <3>2, <3>3
  <2>4. x \in heap'
    BY <1>2, <2>3
  <2> QED BY <2>1, <2>2, <2>4
<1>7. \A o \in Objects : timers'[o] # <<>> => Live(o)' /\ DOMAIN timers'[o] = DOMAIN Timers
  BY <1>1 DEF TimerInv, Live
<1>8. \A o, p \in Objects : \A k \in DOMAIN timers'[o], j \in DOMAIN timers'[p] :
          timers'[o][k] = timers'[p][j] => o = p /\ k = j
  BY <1>1 DEF TimerInv
<1>9. ASSUME NEW x \in heap'
      PROVE  \E k \in DOMAIN timers'[x.owner] :
                 x.id = timers'[x.owner][k] /\ x.once = (Timers[k] = "once")
  BY <1>1, <1>5 DEF TimerInv
<1> QED BY <1>6, <1>7, <1>8, <1>9 DEF TimerInv

\* The heap has the timers of living components and no other.
THEOREM TimersCorrect == ASSUME OnceLast PROVE Spec => []TimerInv
<1>1. Init => TimerInv
  BY DEF Init, TimerInv
<1>2. LifeInv /\ TimerInv /\ [Next]_vars => TimerInv'
  <2> SUFFICES ASSUME LifeInv, TimerInv, [Next]_vars PROVE TimerInv'
    OBVIOUS
  <2>0. TypeInv /\ lastSn \in Nat
    BY DEF LifeInv, TypeInv
  <2>1. CASE PoolUpdate \/ Done \/ UNCHANGED vars
    BY <2>1, TimersAlone DEF PoolUpdate, Done, vars, Live
  <2>2. CASE UpdateSystem
    <3>1. CASE "UpdateComponent" \in Types
      <4>1. SwapOf("UpdateComponent")
        BY <2>2, <3>1 DEF UpdateSystem, SwapUpdates
      <4> QED BY <3>1, <4>1, SwapTimers
    <3>2. CASE "UpdateComponent" \notin Types
      BY <2>2, <3>2, TimersAlone DEF UpdateSystem, SwapUpdates, Live
    <3> QED BY <3>1, <3>2
  <2>3. CASE \E t \in Types : Swap(t)
    BY <2>3, SwapTimers DEF Swap
  <2>4. CASE \E t \in heap : Fire(t)
    BY <2>4, FireTimers
  <2>5. ASSUME NEW o \in Objects, NEW s \in Nat \ {0}, NEW p \in Objects \union {None}, Birth(o, s, p),
               UNCHANGED <<timers, heap>>
        PROVE  TimerInv'
    <3>1. \A q \in Objects : sn'[q] = IF q = o THEN s ELSE sn[q]
      BY <2>0, <2>5, BirthFacts
    <3>2. \A q \in Objects : Live(q) => Live(q)'
      BY <3>1 DEF Live
    <3> QED BY <2>5, <3>2, TimersAlone
  <2>6. lastSn + 1 \in Nat \ {0}
    BY <2>0
  <2>7. CASE \E o \in Objects : AddEntity(o) \/ RemoveEntity(o)
    <3>1. ASSUME NEW o \in Objects, AddEntity(o) PROVE TimerInv'
      <4>1. Birth(o, lastSn + 1, None) /\ UNCHANGED <<timers, heap>>
        BY <3>1 DEF AddEntity
      <4> QED BY <2>5, <2>6, <4>1
    <3>2. ASSUME NEW o \in Objects, RemoveEntity(o) PROVE TimerInv'
      BY <3>2, TimersAlone DEF RemoveEntity, Live
    <3> QED BY <2>7, <3>1, <3>2
  <2>8. ASSUME NEW e \in Objects, NEW o \in Objects,
               AddTwin(o, e) \/ AddPart(e, o) \/ RemovePart(e, o) \/ RegisterFunction(e, o)
        PROVE  TimerInv'
    <3>1. CASE AddPart(e, o)
      BY <3>1, AddPartTimers
    <3>2. CASE RemovePart(e, o)
      BY <3>2, TimersAlone DEF RemovePart, Live
    <3>3. CASE AddTwin(o, e)
      <4>1. Birth(o, sn[e], None) /\ UNCHANGED <<timers, heap>> /\ sn[e] \in Nat \ {0}
        BY <2>0, <3>3 DEF AddTwin, Live, TypeInv
      <4> QED BY <2>5, <4>1
    <3>4. CASE RegisterFunction(e, o)
      <4>1. Birth(o, lastSn + 1, e) /\ UNCHANGED <<timers, heap>>
        BY <3>4 DEF RegisterFunction
      <4> QED BY <2>5, <2>6, <4>1
    <3> QED BY <2>8, <3>1, <3>2, <3>3, <3>4
  <2> QED BY <2>1, <2>2, <2>3, <2>4, <2>7, <2>8 DEF Next
<1> QED BY <1>1, <1>2, LifeCorrect, PTL DEF Spec

\* IComponent::ComponentBackToPool: no timer outlives its component, if a component asks
\* for a timer that fires once after all others only.
THEOREM TimersOwnedCorrect == ASSUME OnceLast PROVE Spec => []TimersOwned
<1>1. LifeInv /\ TimerInv => TimersOwned
  <2> SUFFICES ASSUME LifeInv, TimerInv, NEW t \in heap
               PROVE  Live(t.owner) /\ t.id \in {timers[t.owner][k] : k \in DOMAIN timers[t.owner]}
    BY DEF TimersOwned
  <2>1. t.owner \in Objects
    BY DEF LifeInv, TypeInv
  <2>2. PICK k \in DOMAIN timers[t.owner] : t.id = timers[t.owner][k]
    BY DEF TimerInv
  <2>3. timers[t.owner] # <<>>
    BY <2>2
  <2> QED BY <2>1, <2>2, <2>3 DEF TimerInv
<1> QED BY <1>1, LifeCorrect, TimersCorrect, PTL
=============================================================================
