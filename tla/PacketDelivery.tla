--------------------------- MODULE PacketDelivery ---------------------------
(***************************************************************************)
(* The packet bus implements Mailboxes.  What thread t has still to        *)
(* process is spread over four lists: its own reader and writer list, and  *)
(* the reader and writer list of ThreadMgr::_packets.                      *)
(***************************************************************************)
EXTENDS PacketBus

\* A thread belongs to the collector that created it (ThreadCollector::CreateThread).
ASSUME MembersAssumption ==
    \A c, d \in Collectors : c # d => Members[c] \cap Members[d] = {}

BroadcastThreads == Threads \ UNION {Members[c] : c \in Exclusive}

Dispatched == {p \in Packets : msg[p] # NoMsg /\ msg[p].type \in {"net", "cmd"}}

\* The part of list s that is in D, in order.
Kept(s, D) ==
    LET k[i \in 0 .. Len(s)] ==
            IF i = 0 THEN <<>> ELSE IF s[i] \in D THEN Append(k[i - 1], s[i]) ELSE k[i - 1]
    IN k[Len(s)]

Inbox(t) == reader[MsgQ(t)] \o writer[MsgQ(t)]

\* ThreadMgr's lists as thread t sees them: the packet at hand counts until it is
\* in t's own list.
InTransit(t) ==
    IF pc[Main] = "dispatchOne" /\ t \notin todo
    THEN Tail(reader[PacketsQ]) \o writer[PacketsQ]
    ELSE reader[PacketsQ] \o writer[PacketsQ]

BoxOf(t) == Kept(Inbox(t), Dispatched) \o InTransit(t)

\* Task p of the exclusive collector c: the threads that have it, and one more
\* while it is in ThreadMgr's lists (the packet at hand: while its thread is
\* still to be served).
Unassigned(c, p) ==
    /\ p \in Slots(PacketsQ)
    /\ (pc[Main] = "dispatchOne" /\ p = Head(reader[PacketsQ]))
          => todo \cap Members[c] # {}

IsTask(p) == msg[p] # NoMsg /\ msg[p].type = "net"

PoolOf(c) == [p \in Packets |->
    IF IsTask(p)
    THEN Cardinality(Holders(p) \cap Members[c]) + (IF Unassigned(c, p) THEN 1 ELSE 0)
    ELSE 0]

boxes == [t \in BroadcastThreads |-> BoxOf(t)]
pools == [c \in Exclusive |-> PoolOf(c)]

M == INSTANCE Mailboxes WITH
        Boxes <- BroadcastThreads,
        Pools <- Exclusive,
        box <- boxes,
        pool <- pools

\* Exactly-once, in-order delivery to every broadcast thread and exactly-once
\* delivery to every exclusive collector, through ThreadMgr::UpdateDispatchPacket,
\* HandlerMessage, AddPacketToList and MessageSystem::Update.
Delivery == M!Spec
=============================================================================
