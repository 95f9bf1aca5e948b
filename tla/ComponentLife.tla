--------------------------- MODULE ComponentLife ----------------------------
(***************************************************************************)
(* The life of entities and components in one thread (libserver: object    *)
(* pools, ComponentCollections, IEntity, IComponent, TimerComponent, the   *)
(* functions of MessageSystem and the frame of SystemManager::Update).     *)
(*                                                                         *)
(* An object of a pool gets a number (sn) and a place in the collection of *)
(* its type; removing it only notes its number.  The collection's Swap, in *)
(* the next frame, sends it BackToPool: it takes back its timers and       *)
(* functions, notes its own components for removal, and waits in the pool  *)
(* for the next frame's Update, which makes it available again.  Objects   *)
(* are found by number, but parents, timers and functions hold pointers.   *)
(***************************************************************************)
EXTENDS Integers, Sequences, FiniteSets

CONSTANTS
    Objects,    \* memory of the objects of all pools
    Kind,       \* type of each object
    Order,      \* the types, in the order of EntitySystem::_objSystems
    Timers,     \* timers a Part asks for in Awake: "once" or "ever"
    MaxSn,      \* bound on the numbers given to objects and timers
    Twins,      \* a world and its proxy may live in the same thread
    None

Types == {Order[k] : k \in DOMAIN Order}
EntityTypes == Types \intersect {"World", "WorldProxy"}
PartTypes == Types \intersect {"Part", "UpdateComponent"}

ASSUME ConstantsAssumption ==
    /\ MaxSn \in Nat /\ Twins \in BOOLEAN /\ Kind \in [Objects -> Types]
    /\ Order \in Seq({"World", "WorldProxy", "Part", "UpdateComponent", "MessageCallBack"})
    /\ Timers \in Seq({"once", "ever"})

VARIABLES
    turn,       \* what SystemManager::Update is at
    lastSn,     \* GenerateSN
    sn,         \* per object: its number, 0 in the pool
    parent,     \* per object: _parent
    parts,      \* per entity: _components
    pool,       \* per type: free objects, and those in use (CacheRefresh)
    coll,       \* per type: the collection
    timers,     \* per object: _timers
    heap,       \* TimerComponent::_heap
    asked,      \* entities that have registered a function for the message
    callbacks   \* MessageSystem::_callbacks of one message: number and function

vars == <<turn, lastSn, sn, parent, parts, pool, coll, timers, heap, asked, callbacks>>

Frame == <<"pool">> \o Order \o <<"message", "update", "call">>
At(phase) == Frame[turn] = phase
NextTurn == turn' = IF turn = Len(Frame) THEN 1 ELSE turn + 1

Live(o) == sn[o] # 0
OfType(t) == {o \in Objects : Kind[o] = t}
InPool(t) == pool[t].use.objs \union pool[t].use.adds
InColl(t) == coll[t].objs \union coll[t].adds
Entry(s, o) == [sn |-> s, obj |-> o]
Due(cache) == {e \in cache.objs \union cache.adds : e.sn \in cache.removes}
NoCache == [objs |-> {}, adds |-> {}, removes |-> {}]

Init ==
    /\ turn = 1 /\ lastSn = 0
    /\ sn = [o \in Objects |-> 0] /\ parent = [o \in Objects |-> None]
    /\ parts = [o \in Objects |-> {}] /\ timers = [o \in Objects |-> <<>>]
    /\ pool = [t \in Types |-> [free |-> OfType(t), use |-> NoCache]]
    /\ coll = [t \in Types |-> NoCache]
    /\ heap = {} /\ asked = {} /\ callbacks = {}

(***************************************************************************)
(* What handlers, functions and timers do: create and remove.              *)
(***************************************************************************)
Working == At("message") \/ At("call")

\* DynamicObjectPool::MallocObject and EntitySystem::AddComponent.
Birth(o, s, p) ==
    /\ o \in pool[Kind[o]].free
    /\ sn' = [sn EXCEPT ![o] = s]
    /\ parent' = [parent EXCEPT ![o] = p]
    /\ pool' = [pool EXCEPT ![Kind[o]].free = @ \ {o},
                            ![Kind[o]].use.adds = @ \union {Entry(s, o)}]
    /\ coll' = [coll EXCEPT ![Kind[o]].adds = @ \union {Entry(s, o)}]

Fresh(n) == lastSn + n <= MaxSn /\ lastSn' = lastSn + n

\* EntitySystem::AddComponent of an entity without a parent.
AddEntity(o) ==
    /\ Working /\ Kind[o] \in EntityTypes /\ Fresh(1)
    /\ Birth(o, lastSn + 1, None)
    /\ UNCHANGED <<turn, parts, timers, heap, asked, callbacks>>

\* AddComponentWithSn, by which a world and its proxy have the same number;
\* a type has one object of a number at a time.
AddTwin(o, e) ==
    /\ Working /\ Twins /\ Live(e)
    /\ {Kind[o], Kind[e]} = {"World", "WorldProxy"}
    /\ sn[e] \notin {x.sn : x \in InColl(Kind[o]) \union InPool(Kind[o])}
    /\ Birth(o, sn[e], None)
    /\ UNCHANGED <<turn, lastSn, parts, timers, heap, asked, callbacks>>

Asked(o) == IF Kind[o] = "Part" THEN Timers ELSE <<>>

\* IComponent::AddTimer keeps the numbers of the timers, TimerComponent the timers.
TimerSns(o) == [k \in DOMAIN Asked(o) |-> lastSn + 1 + k]
NewTimers(o) ==
    {[id |-> TimerSns(o)[k], owner |-> o, once |-> Asked(o)[k] = "once"] : k \in DOMAIN Asked(o)}

\* IEntity::AddComponent: one of each type; its Awake may ask for timers.
AddPart(e, o) ==
    /\ Working /\ Live(e) /\ Kind[e] \in EntityTypes /\ Kind[o] \in PartTypes
    /\ \A p \in parts[e] : Kind[p] # Kind[o]
    /\ Fresh(1 + Len(Asked(o)))
    /\ Birth(o, lastSn + 1, e)
    /\ parts' = [parts EXCEPT ![e] = @ \union {o}]
    /\ timers' = [timers EXCEPT ![o] = TimerSns(o)]
    /\ heap' = heap \union NewTimers(o)
    /\ UNCHANGED <<turn, asked, callbacks>>

\* EntitySystem::RemoveComponent of an entity somebody still holds.
RemoveEntity(e) ==
    /\ Working /\ Live(e) /\ Kind[e] \in EntityTypes
    /\ coll' = [coll EXCEPT ![Kind[e]].removes = @ \union {sn[e]}]
    /\ UNCHANGED <<turn, lastSn, sn, parent, parts, pool, timers, heap, asked, callbacks>>

\* IEntity::RemoveComponent.
RemovePart(e, o) ==
    /\ Working /\ Live(e) /\ o \in parts[e]
    /\ parts' = [parts EXCEPT ![e] = @ \ {o}]
    /\ coll' = [coll EXCEPT ![Kind[o]].removes = @ \union {sn[o]}]
    /\ UNCHANGED <<turn, lastSn, sn, parent, pool, timers, heap, asked, callbacks>>

\* MessageSystem::RegisterFunction: the function is a component of its own; it is
\* found by the number of the entity, and a second one of that number is dropped.
RegisterFunction(e, o) ==
    /\ Working /\ Live(e) /\ Kind[e] \in EntityTypes /\ Kind[o] = "MessageCallBack"
    /\ e \notin asked /\ asked' = asked \union {e} /\ Fresh(1)
    /\ Birth(o, lastSn + 1, e)
    /\ callbacks' = IF \E c \in callbacks : c.sn = sn[e] THEN callbacks
                    ELSE callbacks \union {Entry(sn[e], o)}
    /\ UNCHANGED <<turn, parts, timers, heap>>

\* TimerComponent::Update: a timer that is due is taken from the heap and comes back
\* unless its calls are used up.
Fire(t) ==
    /\ At("call") /\ t \in heap /\ t.once
    /\ heap' = heap \ {t}
    /\ UNCHANGED <<turn, lastSn, sn, parent, parts, pool, coll, timers, asked, callbacks>>

(***************************************************************************)
(* The frame.                                                              *)
(***************************************************************************)
\* TimerComponent::Remove of a list gives up at the first timer it does not find.
\* Mutant: the list is cleared before it is used.
Erased_None(o) == {}
Erased(o) ==
    LET left == {t.id : t \in heap}
    IN {timers[o][k] : k \in {k \in DOMAIN timers[o] : \A j \in 1 .. k : timers[o][j] \in left}}

\* Mutant: the components are forgotten before they are removed.
Orphans_None(D, t) == {}
Orphans(D, t) == {sn[p] : p \in {p \in UNION {parts[o] : o \in D} : Kind[p] = t}}

\* Mutant: the number is reset before the functions are looked up.
Forgotten_None(D) == {}
\* Mutant: all functions of the message go.
Forgotten_All(D) == IF D = {} THEN {} ELSE callbacks
Forgotten(D) == {c \in callbacks : \E o \in D : sn[o] = c.sn}

\* FreeObject only notes the object.  Mutant: it is available at once.
Freed_AtOnce(p, D) ==
    [free |-> p.free \union D,
     use |-> [objs |-> {e \in p.use.objs : e.obj \notin D},
              adds |-> {e \in p.use.adds : e.obj \notin D}, removes |-> p.use.removes]]
Freed(p, D) == [p EXCEPT !.use.removes = @ \union {sn[o] : o \in D}]

Kept(t) == InColl(t) \ Due(coll[t])

\* ComponentCollections::Swap: additions first, then removals go BackToPool.
SwapOf(t) ==
    LET D == {e.obj : e \in Due(coll[t])}
        gone == UNION {Erased(o) : o \in D}
    IN /\ coll' = [u \in Types |->
                       IF u = t
                       THEN [NoCache EXCEPT !.objs = Kept(t)]
                       ELSE [coll[u] EXCEPT !.removes = @ \union Orphans(D, u)]]
       /\ pool' = [pool EXCEPT ![t] = Freed(@, D)]
       /\ heap' = {x \in heap : x.id \notin gone}
       /\ callbacks' = callbacks \ Forgotten(D) /\ asked' = asked \ D
       /\ sn' = [o \in Objects |-> IF o \in D THEN 0 ELSE sn[o]]
       /\ parent' = [o \in Objects |-> IF o \in D THEN None ELSE parent[o]]
       /\ parts' = [o \in Objects |-> IF o \in D THEN {} ELSE parts[o]]
       /\ timers' = [o \in Objects |-> IF o \in D THEN <<>> ELSE timers[o]]

\* EntitySystem::Update.
Swap(t) == At(t) /\ NextTurn /\ SwapOf(t) /\ UNCHANGED lastSn

\* UpdateSystem::Update swaps its own collection once more before it calls.
\* Mutant: it does not.
SwapUpdates_Not == UNCHANGED <<sn, parent, parts, pool, coll, timers, heap, asked, callbacks>>
SwapUpdates ==
    IF "UpdateComponent" \in Types THEN SwapOf("UpdateComponent")
    ELSE UNCHANGED <<sn, parent, parts, pool, coll, timers, heap, asked, callbacks>>

UpdateSystem == At("update") /\ NextTurn /\ SwapUpdates /\ UNCHANGED lastSn

\* CacheRefresh::Swap.  Mutant: removals first, then additions.
Recycled_First(use) == {e \in use.objs : e.sn \in use.removes}
Recycled(use) == Due(use)

\* DynamicObjectPoolCollector::Update.
PoolUpdate ==
    /\ At("pool") /\ NextTurn
    /\ pool' = [t \in Types |->
                    LET out == Recycled(pool[t].use)
                    IN [free |-> pool[t].free \union {e.obj : e \in out},
                        use |-> [NoCache EXCEPT !.objs = InPool(t) \ out]]]
    /\ UNCHANGED <<lastSn, sn, parent, parts, coll, timers, heap, asked, callbacks>>

Done == Working /\ NextTurn
        /\ UNCHANGED <<lastSn, sn, parent, parts, pool, coll, timers, heap, asked, callbacks>>

Next ==
    \/ PoolUpdate \/ UpdateSystem \/ Done
    \/ \E t \in Types : Swap(t)
    \/ \E t \in heap : Fire(t)
    \/ \E o \in Objects : AddEntity(o) \/ RemoveEntity(o)
    \/ \E e, o \in Objects :
           AddTwin(o, e) \/ AddPart(e, o) \/ RemovePart(e, o) \/ RegisterFunction(e, o)

Spec == Init /\ [][Next]_vars

-----------------------------------------------------------------------------
(***************************************************************************)
(* Properties.                                                             *)
(***************************************************************************)
TypeOK ==
    /\ turn \in DOMAIN Frame /\ lastSn \in 0 .. MaxSn
    /\ sn \in [Objects -> 0 .. MaxSn] /\ parent \in [Objects -> Objects \union {None}]
    /\ \A t \in Types : pool[t].free \subseteq OfType(t)
    /\ \A t \in Types : InColl(t) = {Entry(sn[o], o) : o \in {o \in OfType(t) : Live(o)}}

\* No object is lost to its pool and none is there twice: it is free or in use, and
\* one that is in use without a number is about to be freed
\* (DynamicObjectPool::FreeObject, CacheRefresh::Swap).
PoolExact ==
    \A t \in Types : \A o \in OfType(t) :
        /\ o \in pool[t].free <=> ~ \E e \in InPool(t) : e.obj = o
        /\ \A e \in InPool(t) : e.obj = o =>
               IF Live(o) THEN e.sn = sn[o] ELSE e.sn \in pool[t].use.removes

\* No timer outlives the component it calls (IComponent::ComponentBackToPool).
TimersOwned ==
    \A t \in heap : Live(t.owner) /\ t.id \in {timers[t.owner][k] : k \in DOMAIN timers[t.owner]}

\* A component never stays behind without being removed: when its entity is gone, it
\* is noted for removal (IEntity::ComponentBackToPool).
PartsFollow ==
    \A t \in PartTypes : \A o \in OfType(t) :
        Live(o) /\ ~ Live(parent[o]) => sn[o] \in coll[t].removes

\* While a component lives, the memory its _parent points to is not given away.
NoReuse ==
    \A t \in PartTypes : \A o \in OfType(t) :
        Live(o) /\ Working => parent[o] \notin pool[Kind[parent[o]]].free

\* When UpdateSystem calls the functions, each of them belongs to an entity that is
\* there (the second Swap in UpdateSystem::Update).
CallsLive ==
    "UpdateComponent" \in Types /\ At("call") =>
        \A e \in coll["UpdateComponent"].objs : Live(parent[e.obj])

\* A function is only found for an entity that is there, the one that registered it
\* (MessageSystem::RemoveFunction).
CallbacksOwned ==
    \A c \in callbacks : Live(parent[c.obj]) /\ sn[parent[c.obj]] = c.sn

\* An entity that has registered a function for a message is called for it
\* (MessageSystem::RegisterFunction).
Heard ==
    \A e \in asked : \E c \in callbacks : c.sn = sn[e] /\ parent[c.obj] = e

\* The component that RegisterFunction made goes when the function does
\* (MessageSystem::RemoveFunction).
NoFunctionLeft ==
    \A c \in OfType("MessageCallBack") :
        Live(c) => (\E x \in callbacks : x.obj = c) \/ sn[c] \in coll["MessageCallBack"].removes
=============================================================================
