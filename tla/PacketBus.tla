----------------------------- MODULE PacketBus -----------------------------
(***************************************************************************)
(* The packet bus of one server process (libs/libserver): the pool of      *)
(* reusable Packet objects (DynamicPacketPool over CacheRefresh), the two  *)
(* inboxes of ThreadMgr (_packets and _createPackets), the inbox of every  *)
(* thread (MessageSystem::_cachePackets) and the outbox of every network   *)
(* (Network::_sendMsgList).  Every inbox and outbox is a CacheSwap, a pair *)
(* of lists: producers append to the writer list under a lock, the one     *)
(* consumer swaps the lists under the lock and walks the reader list       *)
(* without it.  A packet is recycled when it is _isRefOpen and its _ref    *)
(* count is zero; the count is the only thing between a thread that still  *)
(* walks its reader list and the reuse of the packet's buffer.             *)
(*                                                                         *)
(* One action is one critical section or one step between two of them.     *)
(* Thread 0 is the main thread (ServerApp::Run), the others are the        *)
(* threads of the collectors, numbered in the order in which ThreadMgr     *)
(* walks its std::map<ThreadType, ThreadCollector*> and a collector walks  *)
(* its std::map<uint64, Thread*>.                                          *)
(***************************************************************************)
EXTENDS Integers, Sequences, FiniteSets, Functions

CONSTANTS
    Packets,      \* the packets the heap can supply (bounds new Packet())
    GrowBy,       \* packets allocated when the free list is empty (50)
    Collectors,   \* the entries of ThreadMgr::_threads
    Members,      \* the threads of each collector
    Exclusive,    \* the ThreadCollectorExclusive entries (MysqlThread)
    NetThreads,   \* the threads that run a Network
    Msgs,         \* the messages handlers create
    Emitters,     \* the threads whose callbacks create packets
    MaxEmit,      \* how many packets one callback creates
    NoPacket, NoMsg

Main == 0
Threads == {Main} \union UNION {Members[c] : c \in Collectors}

\* A message: what the code will do with the packet once it is filled in.
\* "net" and "cmd" go through DispatchPacket ("cmd" is MI_CmdThread), "create"
\* through CreateComponentWithSn, "send" to a Network, "close" to the creating
\* thread itself, "ping" and "bad" end in ConnectObj::Recv.
MsgTypes == {"net", "cmd", "create", "send", "close", "ping", "bad"}

ASSUME GrowByAssumption == GrowBy \in Nat \ {0}
ASSUME PacketsAssumption == IsFiniteSet(Packets) /\ NoPacket \notin Packets
ASSUME ThreadsAssumption ==
    /\ Members \in [Collectors -> SUBSET (Nat \ {0})]
    /\ \A c \in Collectors : Members[c] # {}
    /\ IsFiniteSet(Threads)
    /\ Exclusive \subseteq Collectors
    /\ NetThreads \subseteq Threads
ASSUME MsgsAssumption ==
    /\ \A m \in Msgs : m.type \in MsgTypes /\ m.all \in BOOLEAN
    /\ NoMsg \notin Msgs
ASSUME MaxEmitAssumption == MaxEmit \in Nat

\* The CacheSwap instances of the process.
PacketsQ == <<"packets", Main>>
CreateQ == <<"create", Main>>
MsgQ(t) == <<"msg", t>>
SendQ(t) == <<"send", t>>
MsgQueues == {MsgQ(t) : t \in Threads}
OwnerQueues == {PacketsQ, CreateQ} \union {SendQ(t) : t \in NetThreads}
Queues == MsgQueues \union OwnerQueues

VARIABLES
    heap,       \* packets not allocated yet
    free,       \* DynamicObjectPool::_free
    adds,       \* CacheRefresh::_adds
    objs,       \* CacheRefresh::_objs
    removes,    \* removes[p]: how often p's sn is in CacheRefresh::_removes
    ref,        \* Packet::_ref
    open,       \* Packet::_isRefOpen
    msg,        \* Packet::_msgId and payload
    writer,     \* CacheSwap::_writerCache
    reader,     \* CacheSwap::_readerCache, the part not walked yet
    pc,         \* where each thread is in its update loop
    hold,       \* the packet a handler has created and not passed on yet
    emitted,    \* packets created by the running callback
    todo,       \* the threads the packet at hand is still to be added to
    next        \* ThreadCollector::_nextThreadSn

poolVars == <<heap, free, adds, objs, removes>>
cacheVars == <<writer, reader>>
loopVars == <<todo, next>>
vars == <<poolVars, ref, open, msg, cacheVars, pc, hold, emitted, loopVars>>

MainPcs == {"create", "creating", "createOne", "dispatch", "dispatching",
            "dispatchOne", "pool"}
ThreadPcs == {"msg", "proc", "upd", "send", "sending"}

InUse == adds \union objs
Slots(q) == Range(writer[q]) \union Range(reader[q])

Init ==
    /\ heap = Packets /\ free = {} /\ adds = {} /\ objs = {}
    /\ removes = [p \in Packets |-> 0]
    /\ ref = [p \in Packets |-> 0]
    /\ open = [p \in Packets |-> FALSE]
    /\ msg = [p \in Packets |-> NoMsg]
    /\ writer = [q \in Queues |-> <<>>]
    /\ reader = [q \in Queues |-> <<>>]
    /\ pc = [t \in Threads |-> IF t = Main THEN "create" ELSE "msg"]
    /\ hold = [t \in Threads |-> NoPacket]
    /\ emitted = [t \in Threads |-> 0]
    /\ todo = {}
    /\ next = [c \in Collectors |-> Main]

(***************************************************************************)
(* CacheSwap, CacheRefresh and Packet operations.                          *)
(***************************************************************************)
Emplace(q, p) == writer' = [writer EXCEPT ![q] = Append(@, p)]

\* Swap when CanSwap: the reader list was cleared by the walk before.
Swap(q) ==
    IF writer[q] # <<>>
    THEN /\ reader' = [reader EXCEPT ![q] = writer[q]]
         /\ writer' = [writer EXCEPT ![q] = reader[q]]
    ELSE UNCHANGED cacheVars

\* The walk over the reader list moves past its head (the list itself is
\* cleared at the end of the walk, nothing looks back at it).
Advance(q) == reader' = [reader EXCEPT ![q] = Tail(@)]

\* A packet whose sn is 0 is not in use: FreeObject logs it and returns.
FreeObject(p) ==
    removes' = IF p \in InUse THEN [removes EXCEPT ![p] = @ + 1] ELSE removes

\* AddRef under the lock of the list, after the emplace_back.
AddRef(p) == ref' = [ref EXCEPT ![p] = @ + 1]
\* Mutant: the packet enters the list uncounted.
AddPacketToList_NoRef(t, p) == Emplace(MsgQ(t), p) /\ UNCHANGED ref
AddPacketToList(t, p) == Emplace(MsgQ(t), p) /\ AddRef(p)

RemoveRef(p) == ref' = [ref EXCEPT ![p] = @ - 1]
OpenRef(p) == open' = [open EXCEPT ![p] = TRUE]
\* Mutant: _isRefOpen is not looked at.
CanBack2Pool_Closed(p) == ref[p] = 0
CanBack2Pool(p) == open[p] /\ ref[p] = 0

-----------------------------------------------------------------------------
(***************************************************************************)
(* Handlers and component updates.  A callback runs in "proc" (for the     *)
(* packet at the head of the reader list) and in "upd" (component          *)
(* updates, among them ConnectObj::Recv); it creates at most MaxEmit       *)
(* packets and passes each on before it returns.                           *)
(***************************************************************************)
InCallback(t) ==
    \/ pc[t] = "upd"
    \/ pc[t] = "proc" /\ reader[MsgQ(t)] # <<>>

\* Mutant: Awake leaves _isRefOpen as it was.
Malloc_StaleOpen(t, m) ==
    /\ t \in Emitters /\ InCallback(t) /\ hold[t] = NoPacket /\ emitted[t] < MaxEmit
    /\ m.type \in {"close", "ping", "bad"} => t \in NetThreads
    /\ \E grown \in SUBSET heap :
          /\ IF free = {} THEN Cardinality(grown) = GrowBy ELSE grown = {}
          /\ \E p \in free \union grown :
                /\ free' = (free \union grown) \ {p}
                /\ heap' = heap \ grown
                /\ adds' = adds \union {p}
                /\ ref' = [ref EXCEPT ![p] = 0]
                /\ msg' = [msg EXCEPT ![p] = m]
                /\ hold' = [hold EXCEPT ![t] = p]
    /\ emitted' = [emitted EXCEPT ![t] = @ + 1]
    /\ UNCHANGED <<objs, removes, open, cacheVars, pc, loopVars>>

\* DynamicPacketPool::MallocPacket.  std::queue gives the oldest free packet;
\* free packets are alike, so any of them is taken.
Malloc(t, m) ==
    /\ t \in Emitters /\ InCallback(t) /\ hold[t] = NoPacket /\ emitted[t] < MaxEmit
    /\ m.type \in {"close", "ping", "bad"} => t \in NetThreads
    /\ \E grown \in SUBSET heap :
          /\ IF free = {} THEN Cardinality(grown) = GrowBy ELSE grown = {}
          /\ \E p \in free \union grown :
                /\ free' = (free \union grown) \ {p}
                /\ heap' = heap \ grown
                /\ adds' = adds \union {p}
                /\ ref' = [ref EXCEPT ![p] = 0]
                /\ open' = [open EXCEPT ![p] = FALSE]
                /\ msg' = [msg EXCEPT ![p] = m]
                /\ hold' = [hold EXCEPT ![t] = p]
    /\ emitted' = [emitted EXCEPT ![t] = @ + 1]
    /\ UNCHANGED <<objs, removes, cacheVars, pc, loopVars>>

Holds(t, types) == hold[t] # NoPacket /\ msg[hold[t]].type \in types
Release(t) == hold' = [hold EXCEPT ![t] = NoPacket]

\* Mutant: the pointer is cleared before it is queued.
DispatchPacket_Cleared(t) ==
    /\ Holds(t, {"net", "cmd"})
    /\ Release(t)
    /\ Emplace(PacketsQ, hold'[t])
    /\ UNCHANGED <<poolVars, ref, open, msg, reader, pc, emitted, loopVars>>

\* ThreadMgr::DispatchPacket.
DispatchPacket(t) ==
    /\ Holds(t, {"net", "cmd"})
    /\ Emplace(PacketsQ, hold[t])
    /\ Release(t)
    /\ UNCHANGED <<poolVars, ref, open, msg, reader, pc, emitted, loopVars>>

\* ThreadMgr::CreateComponentWithSn.
CreateComponent(t) ==
    /\ Holds(t, {"create"})
    /\ Emplace(CreateQ, hold[t])
    /\ Release(t)
    /\ UNCHANGED <<poolVars, ref, open, msg, reader, pc, emitted, loopVars>>

\* MessageSystemHelp::SendPacket to the Network of the packet's socket.
SendPacket(t, n) ==
    /\ Holds(t, {"send"})
    /\ Emplace(SendQ(n), hold[t])
    /\ Release(t)
    /\ UNCHANGED <<poolVars, ref, open, msg, reader, pc, emitted, loopVars>>

\* ConnectObj::Close: the packet goes to the list of this thread only, and is
\* opened by this thread.
ClosePost(t) ==
    /\ Holds(t, {"close"}) /\ hold[t] \notin Slots(MsgQ(t))
    /\ AddPacketToList(t, hold[t])
    /\ UNCHANGED <<poolVars, open, msg, reader, pc, hold, emitted, loopVars>>

CloseOpen(t) ==
    /\ Holds(t, {"close"}) /\ hold[t] \in Slots(MsgQ(t))
    /\ OpenRef(hold[t])
    /\ Release(t)
    /\ UNCHANGED <<poolVars, ref, msg, cacheVars, pc, emitted, loopVars>>

\* ConnectObj::Recv: a ping is read and forgotten, it never returns to the pool.
RecvPing(t) ==
    /\ Holds(t, {"ping"})
    /\ Release(t)
    /\ UNCHANGED <<poolVars, ref, open, msg, cacheVars, pc, emitted, loopVars>>

\* ConnectObj::Recv: a bad http request is answered and freed at once.
RecvBad(t) ==
    /\ Holds(t, {"bad"})
    /\ FreeObject(hold[t])
    /\ Release(t)
    /\ UNCHANGED <<heap, free, adds, objs, ref, open, msg, cacheVars, pc,
                   emitted, loopVars>>

-----------------------------------------------------------------------------
(***************************************************************************)
(* The update loop every thread runs: SystemManager::Update.               *)
(***************************************************************************)
Goto(t, label) ==
    /\ pc' = [pc EXCEPT ![t] = label]
    /\ emitted' = [emitted EXCEPT ![t] = 0]

MessageSwap(t) ==
    /\ pc[t] = "msg"
    /\ Swap(MsgQ(t))
    /\ Goto(t, "proc")
    /\ UNCHANGED <<poolVars, ref, open, msg, hold, loopVars>>

\* The callbacks for the head of the list have returned.
MessageDone(t) ==
    /\ pc[t] = "proc" /\ reader[MsgQ(t)] # <<>> /\ hold[t] = NoPacket
    /\ RemoveRef(Head(reader[MsgQ(t)]))
    /\ Advance(MsgQ(t))
    /\ Goto(t, "proc")
    /\ UNCHANGED <<poolVars, open, msg, writer, hold, loopVars>>

MessageEnd(t) ==
    /\ pc[t] = "proc" /\ reader[MsgQ(t)] = <<>>
    /\ Goto(t, "upd")
    /\ UNCHANGED <<poolVars, ref, open, msg, cacheVars, hold, loopVars>>

LoopEnd(t) == IF t = Main THEN "pool" ELSE "msg"

UpdateEnd(t) ==
    /\ pc[t] = "upd" /\ hold[t] = NoPacket
    /\ Goto(t, IF t \in NetThreads THEN "send" ELSE LoopEnd(t))
    /\ UNCHANGED <<poolVars, ref, open, msg, cacheVars, hold, loopVars>>

\* Network::OnNetworkUpdate.
NetworkSwap(t) ==
    /\ pc[t] = "send"
    /\ Swap(SendQ(t))
    /\ Goto(t, "sending")
    /\ UNCHANGED <<poolVars, ref, open, msg, hold, loopVars>>

\* Mutant: a packet that has been sent is not freed.
NetworkSend_NotFreed(t) ==
    /\ pc[t] = "sending" /\ reader[SendQ(t)] # <<>>
    /\ Advance(SendQ(t))
    /\ UNCHANGED <<poolVars, ref, open, msg, writer, pc, hold, emitted, loopVars>>

\* Without a connect, with other tags, or copied to the send buffer: the packet
\* is freed in each case.
NetworkSend(t) ==
    /\ pc[t] = "sending" /\ reader[SendQ(t)] # <<>>
    /\ FreeObject(Head(reader[SendQ(t)]))
    /\ Advance(SendQ(t))
    /\ UNCHANGED <<heap, free, adds, objs, ref, open, msg, writer, pc, hold,
                   emitted, loopVars>>

NetworkEnd(t) ==
    /\ pc[t] = "sending" /\ reader[SendQ(t)] = <<>>
    /\ Goto(t, LoopEnd(t))
    /\ UNCHANGED <<poolVars, ref, open, msg, cacheVars, hold, loopVars>>

-----------------------------------------------------------------------------
(***************************************************************************)
(* The main thread: ThreadMgr::Update, then DynamicPacketPool::Update.     *)
(***************************************************************************)
Least(S) == CHOOSE t \in S : \A u \in S : t <= u

\* find(_nextThreadSn), or begin() when it is not there.
NextThread(c) == IF next[c] \in Members[c] THEN next[c] ELSE Least(Members[c])

\* The thread after t in the collector, cyclically.
ThreadAfter(c, t) ==
    LET later == {u \in Members[c] : u > t}
    IN  Least(IF later = {} THEN Members[c] ELSE later)

RoundRobin(c) == [next EXCEPT ![c] = ThreadAfter(c, NextThread(c))]

UpdateCreatePacket ==
    /\ pc[Main] = "create"
    /\ Swap(CreateQ)
    /\ Goto(Main, "creating")
    /\ UNCHANGED <<poolVars, ref, open, msg, hold, loopVars>>

\* Which threads the create packet goes to; without threads, to the main one.
CreateTargets(m) ==
    IF Collectors = {} THEN {Main}
    ELSE IF m.all THEN Members[m.col] ELSE {NextThread(m.col)}

CreateBegin ==
    /\ pc[Main] = "creating" /\ reader[CreateQ] # <<>>
    /\ LET m == msg[Head(reader[CreateQ])] IN
       /\ Collectors # {} => m.col \in Collectors
       /\ todo' = CreateTargets(m)
       /\ next' = IF Collectors = {} \/ m.all THEN next ELSE RoundRobin(m.col)
    /\ Goto(Main, "createOne")
    /\ UNCHANGED <<poolVars, ref, open, msg, cacheVars, hold>>

\* No such thread type: the walk goes on and the packet is never opened.
CreateUnknown ==
    /\ pc[Main] = "creating" /\ reader[CreateQ] # <<>>
    /\ Collectors # {} /\ msg[Head(reader[CreateQ])].col \notin Collectors
    /\ Advance(CreateQ)
    /\ UNCHANGED <<poolVars, ref, open, msg, writer, pc, hold, emitted, loopVars>>

CreateEnd ==
    /\ pc[Main] = "creating" /\ reader[CreateQ] = <<>>
    /\ Goto(Main, "dispatch")
    /\ UNCHANGED <<poolVars, ref, open, msg, cacheVars, hold, loopVars>>

UpdateDispatchPacket ==
    /\ pc[Main] = "dispatch"
    /\ Swap(PacketsQ)
    /\ Goto(Main, "dispatching")
    /\ UNCHANGED <<poolVars, ref, open, msg, hold, loopVars>>

\* Mutant: every thread of an exclusive collector gets the task.
DispatchBegin_All ==
    /\ pc[Main] = "dispatching" /\ reader[PacketsQ] # <<>>
    /\ todo' = Threads /\ next' = next
    /\ Goto(Main, "dispatchOne")
    /\ UNCHANGED <<poolVars, ref, open, msg, cacheVars, hold>>

\* Every thread, but one thread of an exclusive collector unless it is MI_CmdThread.
DispatchBegin ==
    /\ pc[Main] = "dispatching" /\ reader[PacketsQ] # <<>>
    /\ LET one == IF msg[Head(reader[PacketsQ])].type = "cmd" THEN {} ELSE Exclusive
       IN /\ todo' = {Main} \union {NextThread(c) : c \in one}
                            \union UNION {Members[c] : c \in Collectors \ one}
          /\ next' = [c \in Collectors |-> IF c \in one THEN RoundRobin(c)[c] ELSE next[c]]
    /\ Goto(Main, "dispatchOne")
    /\ UNCHANGED <<poolVars, ref, open, msg, cacheVars, hold>>

DispatchEnd ==
    /\ pc[Main] = "dispatching" /\ reader[PacketsQ] = <<>>
    /\ Goto(Main, "msg")
    /\ UNCHANGED <<poolVars, ref, open, msg, cacheVars, hold, loopVars>>

\* The list the packet at hand comes from.
CurrentQ == IF pc[Main] = "createOne" THEN CreateQ ELSE PacketsQ
Delivering == pc[Main] \in {"createOne", "dispatchOne"}

\* One AddPacketToList, under the lock of that thread's list.
Deliver ==
    /\ Delivering
    /\ \E t \in todo :
          /\ \A u \in todo : t <= u
          /\ AddPacketToList(t, Head(reader[CurrentQ]))
          /\ todo' = todo \ {t}
    /\ UNCHANGED <<poolVars, open, msg, reader, pc, hold, emitted, next>>

\* Mutant: the packet is not opened once every thread has it.
DeliverEnd_NotOpened ==
    /\ Delivering /\ todo = {}
    /\ Advance(CurrentQ)
    /\ Goto(Main, IF pc[Main] = "createOne" THEN "creating" ELSE "dispatching")
    /\ UNCHANGED <<poolVars, ref, open, msg, writer, hold, loopVars>>

DeliverEnd ==
    /\ Delivering /\ todo = {}
    /\ OpenRef(Head(reader[CurrentQ]))
    /\ Advance(CurrentQ)
    /\ Goto(Main, IF pc[Main] = "createOne" THEN "creating" ELSE "dispatching")
    /\ UNCHANGED <<poolVars, ref, msg, writer, hold, loopVars>>

\* Mutant: Swap does not clear _removes.
PoolUpdate_KeepsRemoves ==
    /\ pc[Main] = "pool"
    /\ LET gone == {p \in InUse : removes[p] > 0} IN
       /\ objs' = InUse \ gone
       /\ free' = free \union gone
       /\ removes' = [p \in Packets |->
                        IF p \in InUse \ gone /\ CanBack2Pool(p)
                        THEN removes[p] + 1 ELSE removes[p]]
    /\ adds' = {}
    /\ Goto(Main, "create")
    /\ UNCHANGED <<heap, ref, open, msg, cacheVars, hold, loopVars>>

\* DynamicPacketPool::Update.  The lock is held throughout; whether a packet
\* can go back only changes from no to yes meanwhile, so the walk over _objs
\* is one step.
PoolUpdate ==
    /\ pc[Main] = "pool"
    /\ LET gone == {p \in InUse : removes[p] > 0} IN
       /\ objs' = InUse \ gone
       /\ free' = free \union gone
       /\ removes' = [p \in Packets |->
                        IF p \in InUse \ gone /\ CanBack2Pool(p) THEN 1 ELSE 0]
    /\ adds' = {}
    /\ Goto(Main, "create")
    /\ UNCHANGED <<heap, ref, open, msg, cacheVars, hold, loopVars>>

-----------------------------------------------------------------------------
PassOn(t) ==
    \/ DispatchPacket(t) \/ CreateComponent(t) \/ ClosePost(t) \/ CloseOpen(t)
    \/ RecvPing(t) \/ RecvBad(t)
    \/ \E n \in NetThreads : SendPacket(t, n)

Loop(t) ==
    \/ MessageSwap(t) \/ MessageDone(t) \/ MessageEnd(t) \/ UpdateEnd(t)
    \/ t \in NetThreads /\ (NetworkSwap(t) \/ NetworkSend(t) \/ NetworkEnd(t))

MainLoop ==
    \/ UpdateCreatePacket \/ CreateBegin \/ CreateUnknown \/ CreateEnd
    \/ UpdateDispatchPacket \/ DispatchBegin \/ DispatchEnd
    \/ Deliver \/ DeliverEnd \/ PoolUpdate

Next ==
    \/ \E t \in Threads : PassOn(t) \/ Loop(t) \/ \E m \in Msgs : Malloc(t, m)
    \/ MainLoop

\* The operating system runs every thread; a callback creates finitely many
\* packets and returns.
Fairness ==
    /\ \A t \in Threads : WF_vars(PassOn(t) \/ Loop(t))
    /\ WF_vars(MainLoop)

Spec == Init /\ [][Next]_vars /\ Fairness

-----------------------------------------------------------------------------
TypeOK ==
    /\ heap \in SUBSET Packets /\ free \in SUBSET Packets
    /\ adds \in SUBSET Packets /\ objs \in SUBSET Packets
    /\ removes \in [Packets -> Nat]
    /\ ref \in [Packets -> Int]
    /\ open \in [Packets -> BOOLEAN]
    /\ msg \in [Packets -> Msgs \union {NoMsg}]
    /\ writer \in [Queues -> Seq(Packets)]
    /\ reader \in [Queues -> Seq(Packets)]
    /\ pc \in [Threads -> MainPcs \union ThreadPcs]
    /\ hold \in [Threads -> Packets \union {NoPacket}]
    /\ emitted \in [Threads -> Nat]
    /\ todo \in SUBSET Threads
    /\ next \in [Collectors -> Nat]

\* The threads whose list holds p.
Holders(p) == {t \in Threads : p \in Slots(MsgQ(t))}

\* Packet::_ref is the number of lists the packet is in, so RemoveRef never
\* takes it below zero (the LOG_ERROR in Packet::RemoveRef is unreachable).
RefCount == \A p \in Packets : ref[p] = Cardinality(Holders(p))

Listed(p) == \E q \in Queues : p \in Slots(q)
Held(p) == \E t \in Threads : hold[t] = p

\* No list and no handler has a packet that the pool has taken back or is about
\* to take back: nobody reads a buffer that is being reused.
NoUseAfterRecycle ==
    \A p \in Packets :
        Listed(p) \/ Held(p) => p \in InUse /\ removes[p] = 0

\* A packet is handed back to the pool once per life: the warning in
\* CacheRefresh::Swap and the error in DynamicObjectPool::FreeObject are unreachable.
FreedOnce == \A p \in Packets : removes[p] <= 1 /\ (removes[p] = 1 => p \in InUse)

-----------------------------------------------------------------------------
(***************************************************************************)
(* The inductive invariant behind RefCount, NoUseAfterRecycle and          *)
(* FreedOnce: at any time a packet in use has one owner (the handler that  *)
(* holds it, ThreadMgr or a Network) until it is opened, and it can be in  *)
(* a thread's list before that only while its owner is adding it.          *)
(***************************************************************************)
PoolPartition ==
    /\ heap \cap free = {} /\ heap \cap InUse = {} /\ free \cap InUse = {}
    /\ adds \cap objs = {}

ListsDistinct == \A q \in Queues :
    /\ IsInjective(writer[q]) /\ IsInjective(reader[q])
    /\ Range(writer[q]) \cap Range(reader[q]) = {}

OneOwner ==
    /\ \A q1, q2 \in OwnerQueues : q1 # q2 => Slots(q1) \cap Slots(q2) = {}
    /\ \A t \in Threads, q \in OwnerQueues : hold[t] \notin Slots(q)
    /\ \A t, u \in Threads : hold[t] = hold[u] /\ hold[t] # NoPacket => t = u

OpenedHasNoOwner == \A p \in InUse :
    open[p] => ~Held(p) /\ \A q \in OwnerQueues : p \notin Slots(q)

\* The packet the main thread is adding to the threads' lists.
AtHand(p) == Delivering /\ p = Head(reader[CurrentQ])

ListedWhileOwned == \A t \in Threads : \A p \in Slots(MsgQ(t)) :
    \/ open[p]
    \/ AtHand(p) /\ t \notin todo
    \/ hold[t] = p /\ msg[p].type = "close"

DeliveringOne == Delivering => reader[CurrentQ] # <<>>

IInv ==
    /\ TypeOK /\ PoolPartition /\ ListsDistinct /\ OneOwner
    /\ OpenedHasNoOwner /\ ListedWhileOwned /\ DeliveringOne
    /\ RefCount /\ NoUseAfterRecycle /\ FreedOnce

-----------------------------------------------------------------------------
\* A packet given to the threads (ThreadMgr), and one given to a Network, is
\* eventually back in the free list.
DispatchedIsRecycled ==
    \A p \in Packets : p \in Slots(PacketsQ) ~> p \in free
SentIsRecycled ==
    \A p \in Packets : (\E n \in NetThreads : p \in Slots(SendQ(n))) ~> p \in free
=============================================================================
