--------------------------- MODULE MCPacketStream ---------------------------
(***************************************************************************)
(* PacketStream with one-byte fields and heads of one and two bytes, so    *)
(* that every split of a frame over the end of a ring happens.             *)
(***************************************************************************)
EXTENDS PacketStream

Kind(s2s, known, len) == [s2s |-> s2s, known |-> known, len |-> len]
StreamKinds == {Kind(TRUE, TRUE, 1), Kind(FALSE, FALSE, 1)}
LongKinds == {Kind(FALSE, TRUE, 2), Kind(FALSE, TRUE, 14)}
=============================================================================
