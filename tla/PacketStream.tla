---------------------------- MODULE PacketStream ----------------------------
(***************************************************************************)
(* One direction of a TCP connection between two ConnectObjs               *)
(* (connect_obj.cpp, network_buffer.cpp): packets are framed into the      *)
(* sender's SendNetworkBuffer, ::send moves any number of contiguous bytes *)
(* into the socket, ::recv moves any number out of it into the receiver's  *)
(* RecvNetworkBuffer, and GetTcpPacket cuts packets out again.  A frame is *)
(* total length, head length, head, body.  Connections are closed and the  *)
(* two objects reused from their pools with the allocations they have.     *)
(*                                                                         *)
(* A byte is <<field, value, position>>: a field read back from its first  *)
(* byte has the value written.                                             *)
(***************************************************************************)
EXTENDS RingBuffer, FiniteSets

CONSTANTS
    SendSize, RecvSize,   \* DEFAULT_SEND_BUFFER_SIZE, DEFAULT_RECV_BUFFER_SIZE
    Field,                \* sizeof(TotalSizeType)
    HeadC2S, HeadS2S,     \* sizeof(PacketHead), sizeof(PacketHeadS2S)
    SizeMod,              \* 2 ^ (8 * Field): TotalSizeType wraps here
    WireCap,              \* bytes the sockets and the network hold at most
    Kinds,                \* the packets sent: tag, known id, body length
    MaxSent,              \* packets sent on one connection
    MaxConns,             \* connections made with the two objects
    NoPacket

ASSUME SizesAssumption ==
    /\ SendSize \in Nat \ {0} /\ RecvSize \in Nat \ {0}
    /\ Field \in Nat \ {0} /\ HeadC2S \in Nat \ {0} /\ HeadS2S \in Nat \ {0}
    /\ SizeMod \in Nat \ {0} /\ WireCap \in Nat \ {0}
    /\ Kinds \subseteq [s2s : BOOLEAN, known : BOOLEAN, len : Nat]
    /\ MaxSent \in Nat /\ MaxConns \in Nat \ {0}

\* A packet: the tag Entity decides the head; known is whether the receiver's
\* MsgId enumeration has the id.
Packet == [conn : 1 .. MaxConns, no : 1 .. MaxSent, s2s : BOOLEAN,
           known : BOOLEAN, len : Nat]

VARIABLES
    snd, rcv,   \* the two rings
    wire,       \* bytes in the sockets and on the network
    adding,     \* the packet AddPacket is making room for, or NoPacket
    out,        \* the sender's socket: EPOLLOUT asked for ("on") or not ("off"),
                \* inside the loop of Send ("more"), removed after it ("gone")
    rpc,        \* where the receiver is: "idle", "recv", "parse", "closing"
    sent, got,  \* packets added and packets taken out, on this connection
    conn        \* number of the connection

vars == <<snd, rcv, wire, adding, out, rpc, sent, got, conn>>

Init ==
    /\ snd = NewRing(SendSize) /\ rcv = NewRing(RecvSize) /\ wire = <<>>
    /\ adding = NoPacket /\ out = "on" /\ rpc = "idle"
    /\ sent = <<>> /\ got = <<>> /\ conn = 1

(***************************************************************************)
(* Framing.                                                                *)
(***************************************************************************)
Bytes(field, value, n) == [i \in 1 .. n |-> <<field, value, i>>]
Value(bytes) == bytes[1][2]

\* GetDataLength and totalSize are unsigned short.
GetDataLength(p) == p.len % SizeMod
HeadSize(p) == IF p.s2s THEN HeadS2S ELSE HeadC2S
TotalSize(p) == (GetDataLength(p) + HeadSize(p) + 2 * Field) % SizeMod

Frame(p) ==
    Bytes("total", TotalSize(p), Field) \o Bytes("headSize", HeadSize(p), Field)
      \o Bytes("head", p, HeadSize(p)) \o Bytes("body", p, GetDataLength(p))

(***************************************************************************)
(* The sender: ConnectObj::SendPacket and ConnectObj::Send.                *)
(***************************************************************************)
SendPacket ==
    /\ adding = NoPacket /\ out \in {"on", "off"} /\ Len(sent) < MaxSent
    /\ \E k \in Kinds :
           adding' = [conn |-> conn, no |-> Len(sent) + 1, s2s |-> k.s2s,
                      known |-> k.known, len |-> k.len]
    /\ UNCHANGED <<snd, rcv, wire, out, rpc, sent, got, conn>>

\* while (GetEmptySize() < totalSize) ReAllocBuffer();
AddPacketGrow ==
    /\ adding # NoPacket /\ GetEmptySize(snd) < TotalSize(adding)
    /\ snd' = ReAllocBuffer(snd)
    /\ UNCHANGED <<rcv, wire, adding, out, rpc, sent, got, conn>>

\* The four MemcpyToBuffer calls write one frame; then OnNetworkUpdate asks for
\* EPOLLOUT.
AddPacket ==
    /\ adding # NoPacket /\ GetEmptySize(snd) >= TotalSize(adding)
    /\ snd' = MemcpyToBuffer(snd, Frame(adding))
    /\ sent' = Append(sent, adding) /\ adding' = NoPacket /\ out' = "on"
    /\ UNCHANGED <<rcv, wire, rpc, got, conn>>

\* One ::send: the socket takes some of the bytes up to the end of the data or
\* of the allocation (SendNetworkBuffer::GetBuffer).  Send returns when it took
\* fewer than offered or nothing is left, and Epoll asks for EPOLLOUT no more;
\* otherwise its loop goes on.
Send ==
    /\ adding = NoPacket /\ out \in {"on", "more"} /\ GetReadSize(snd) > 0
    /\ \E n \in 1 .. GetReadSize(snd) :
           /\ Len(wire) + n <= WireCap
           /\ wire' = wire \o MemcpyFromBuffer(snd, n)
           /\ snd' = RemoveData(snd, n)
           /\ out' = IF n < GetReadSize(snd) \/ n = snd.data THEN "off" ELSE "more"
    /\ UNCHANGED <<rcv, adding, rpc, sent, got, conn>>

\* Send finds nothing to send.
SendNothing ==
    /\ adding = NoPacket /\ out = "on" /\ GetReadSize(snd) = 0
    /\ out' = "off"
    /\ UNCHANGED <<snd, rcv, wire, adding, rpc, sent, got, conn>>

\* ::send returns nothing, because the socket is full (EAGAIN) or of an error, and
\* Epoll removes the ConnectObj with what it had to send.
SendFails ==
    /\ adding = NoPacket /\ out \in {"on", "more"} /\ GetReadSize(snd) > 0
    /\ out' = "gone"
    /\ UNCHANGED <<snd, rcv, wire, adding, rpc, sent, got, conn>>

(***************************************************************************)
(* The receiver: ConnectObj::Recv.                                         *)
(***************************************************************************)
MaxHead == HeadS2S + 2 * Field
\* Mutant: the buffer is not enlarged before ::recv.
RecvReady_NoGrow(r) == r
RecvReady(r) == IF GetEmptySize(r) < MaxHead THEN ReAllocBuffer(r) ELSE r

\* The network reports the socket readable (EPOLLIN).
RecvBegin ==
    /\ rpc = "idle" /\ wire # <<>>
    /\ rpc' = "recv"
    /\ UNCHANGED <<snd, rcv, wire, adding, out, sent, got, conn>>

\* One ::recv that returns n bytes.
RecvBytes ==
    /\ rpc = "recv" /\ wire # <<>>
    /\ \E n \in 1 .. Len(wire) :
           /\ n <= GetWriteSize(RecvReady(rcv))
           /\ rcv' = RecvInto(RecvReady(rcv), SubSeq(wire, 1, n))
           /\ wire' = SubSeq(wire, n + 1, Len(wire))
    /\ UNCHANGED <<snd, adding, out, rpc, sent, got, conn>>

\* ::recv finds nothing (EWOULDBLOCK); the packets are taken out next.
RecvEnd ==
    /\ rpc = "recv" /\ wire = <<>>
    /\ rcv' = RecvReady(rcv) /\ rpc' = "parse"
    /\ UNCHANGED <<snd, wire, adding, out, sent, got, conn>>

\* GetTcpPacket has the whole of a packet.
Complete(r) ==
    /\ r.data >= Field
    /\ r.data >= Value(MemcpyFromBuffer(r, Field))

\* Mutant: Recv takes one packet out and not all of them.
GetTcpPacket_Once ==
    /\ rpc = "parse" /\ Complete(rcv)
    /\ LET total == Value(MemcpyFromBuffer(rcv, Field))
           r1 == RemoveData(rcv, Field)
           headSize == Value(MemcpyFromBuffer(r1, Field))
           r2 == RemoveData(r1, Field)
           size == IF headSize = HeadC2S THEN HeadC2S ELSE HeadS2S
           p == Value(MemcpyFromBuffer(r2, size))
           r3 == RemoveData(r2, size)
           n == total - size - 2 * Field
       IN IF p.known
          THEN /\ got' = Append(got, <<p, MemcpyFromBuffer(r3, n)>>)
               /\ rcv' = RemoveData(r3, n) /\ rpc' = "idle"
          ELSE /\ rcv' = r3 /\ got' = got /\ rpc' = "closing"
    /\ UNCHANGED <<snd, wire, adding, out, sent, conn>>

\* Mutant: the body is copied out before the head is removed.
GetTcpPacket_Early ==
    /\ rpc = "parse" /\ Complete(rcv)
    /\ LET total == Value(MemcpyFromBuffer(rcv, Field))
           r1 == RemoveData(rcv, Field)
           headSize == Value(MemcpyFromBuffer(r1, Field))
           r2 == RemoveData(r1, Field)
           size == IF headSize = HeadC2S THEN HeadC2S ELSE HeadS2S
           p == Value(MemcpyFromBuffer(r2, size))
           r3 == RemoveData(r2, size)
           n == total - size - 2 * Field
       IN IF p.known
          THEN /\ got' = Append(got, <<p, MemcpyFromBuffer(r2, n)>>)
               /\ rcv' = RemoveData(r3, n) /\ rpc' = rpc
          ELSE /\ rcv' = r3 /\ got' = got /\ rpc' = "closing"
    /\ UNCHANGED <<snd, wire, adding, out, sent, conn>>

\* GetTcpPacket on a ring that holds a packet: a known id gives the packet, an
\* unknown one leaves the body in the ring and closes the connection.
GetTcpPacket ==
    /\ rpc = "parse" /\ Complete(rcv)
    /\ LET total == Value(MemcpyFromBuffer(rcv, Field))
           r1 == RemoveData(rcv, Field)
           headSize == Value(MemcpyFromBuffer(r1, Field))
           r2 == RemoveData(r1, Field)
           size == IF headSize = HeadC2S THEN HeadC2S ELSE HeadS2S
           p == Value(MemcpyFromBuffer(r2, size))
           r3 == RemoveData(r2, size)
           n == total - size - 2 * Field
       IN IF p.known
          THEN /\ got' = Append(got, <<p, MemcpyFromBuffer(r3, n)>>)
               /\ rcv' = RemoveData(r3, n) /\ rpc' = rpc
          ELSE /\ rcv' = r3 /\ got' = got /\ rpc' = "closing"
    /\ UNCHANGED <<snd, wire, adding, out, sent, conn>>

\* GetTcpPacket returns null: the rest of the packet is still to come.
ParseEnd ==
    /\ rpc = "parse" /\ ~ Complete(rcv)
    /\ rpc' = "idle"
    /\ UNCHANGED <<snd, rcv, wire, adding, out, sent, got, conn>>

BackToPoolBoth == snd' = BackToPool(snd) /\ rcv' = BackToPool(rcv)

\* The connection ends, after a Close or because a side went away, and the two
\* objects are taken from their pools for the next one.
Reconnect ==
    /\ conn < MaxConns /\ adding = NoPacket /\ out # "more" /\ rpc \in {"idle", "closing"}
    /\ BackToPoolBoth
    /\ wire' = <<>> /\ sent' = <<>> /\ got' = <<>> /\ out' = "on"
    /\ rpc' = "idle" /\ conn' = conn + 1
    /\ UNCHANGED adding

Next ==
    \/ SendPacket \/ AddPacketGrow \/ AddPacket \/ Send \/ SendNothing \/ SendFails
    \/ RecvBegin \/ RecvBytes \/ RecvEnd \/ GetTcpPacket \/ ParseEnd \/ Reconnect

\* Network::Update serves every connection on every turn of its thread's loop: a
\* socket with EPOLLOUT is reported when it has room, and then ::send takes some
\* bytes or fails; ready sockets are reported until they are drained.  A socket
\* without EPOLLOUT is not served.  Nothing forces a packet to be sent, nor a
\* connection to end.
Fairness ==
    /\ WF_vars(AddPacketGrow \/ AddPacket)
    /\ WF_vars(Send \/ SendFails)
    /\ WF_vars(RecvBegin \/ RecvBytes \/ RecvEnd \/ GetTcpPacket \/ ParseEnd)

Spec == Init /\ [][Next]_vars /\ Fairness

-----------------------------------------------------------------------------
(***************************************************************************)
(* Properties.                                                             *)
(***************************************************************************)
Ring(r) ==
    /\ RingOK(r) /\ DOMAIN r.buf = 0 .. r.size - 1
    /\ DOMAIN r = {"buf", "size", "begin", "end", "data"}

\* The rings' indices stay inside their allocations and agree with _dataSize,
\* whatever is written, removed and reallocated (NetworkBuffer::FillData,
\* RemoveData, Buffer::ReAllocBuffer).
TypeOK ==
    /\ Ring(snd) /\ Ring(rcv)
    /\ rpc \in {"idle", "recv", "parse", "closing"}
    /\ out \in {"on", "off", "more", "gone"}
    /\ adding \in Packet \union {NoPacket}
    /\ conn \in 1 .. MaxConns

\* Whenever ConnectObj::Recv calls ::recv the space offered is not empty (a
\* result of 0 would be taken for a closed peer) and holds no unread byte.
RecvRoom ==
    LET r == RecvReady(rcv)
    IN GetWriteSize(r) > 0 /\ GetWriteSize(r) <= GetEmptySize(r)

\* All bytes between AddPacket and GetTcpPacket.
Stream == Content(rcv) \o wire \o Content(snd)

\* No step of ConnectObj::Send or Recv loses, repeats or reorders a byte: the
\* stream only grows by a frame at its end, shrinks at its front, or is dropped
\* with its connection.
StreamStep ==
    [][ \/ Stream' = Stream
        \/ adding # NoPacket /\ Stream' = Stream \o Frame(adding)
        \/ Len(Stream') < Len(Stream)
             /\ Stream' = SubSeq(Stream, Len(Stream) - Len(Stream') + 1, Len(Stream))
        \/ conn' # conn /\ Stream' = <<>> ]_vars

\* The receiver gets the packets sent on this connection, in order and with
\* their bodies (GetTcpPacket against AddPacket), and nothing of an earlier
\* connection of the same objects.
Received ==
    /\ Len(got) <= Len(sent)
    /\ \A i \in 1 .. Len(got) :
           got[i] = <<sent[i], Bytes("body", sent[i], sent[i].len)>>

\* What a partial ::send has left in the ring: nothing moves it until another
\* packet is added (network.cpp:342).
LeftOver == out = "off" /\ snd.data > 0

\* Nothing that has left the sender stays on the way.
NoneOnTheWay == wire = <<>> /\ ~ Complete(rcv)

\* The receiver catches up again and again: no byte stays in the sockets and no
\* whole packet in its ring, and if the sender still has bytes they are LeftOver or
\* its ConnectObj is gone, otherwise every packet sent has been taken out; unless
\* the receiver meets an unknown message id and closes (ConnectObj::Recv takes all
\* packets out of what it read; Send tries every byte it was asked to send).
Delivered ==
    []<>(rpc = "closing" \/ (NoneOnTheWay /\ (LeftOver \/ out = "gone" \/ Len(got) = Len(sent))))

\* What a partial ::send has left is sent later, without another packet
\* (connect_obj.cpp:211: in the next frame).
RestIsSent == []<>(rpc = "closing" \/ out = "gone" \/ snd.data = 0)

\* The first field of a frame is the frame's length, as the comment on the
\* format says: when a single packet is under way, the stream is that long.
FrameFormat ==
    (Len(sent) = Len(got) + 1 /\ adding = NoPacket /\ rpc # "closing")
        => Value(Stream) = Len(Stream)
=============================================================================
