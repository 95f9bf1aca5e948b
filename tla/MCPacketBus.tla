---------------------------- MODULE MCPacketBus ----------------------------
(***************************************************************************)
(* Instances of PacketBus for TLC: a process with two mysql threads, a     *)
(* process with two listen threads of which one runs a network.            *)
(***************************************************************************)
EXTENDS PacketDelivery, TLC

CONSTANTS p1, p2, p3

MysqlMembers == [c \in {"mysql"} |-> {1, 2}]
ListenMembers == [c \in {"listen"} |-> {1, 2}]

Msg(type, col, all) == [type |-> type, col |-> col, all |-> all]
Plain(type) == Msg(type, "none", FALSE)

\* Messages that stay in the process: the last one names a thread type that the
\* process does not have.
InnerMsgs == {Plain("net"), Plain("cmd"), Msg("create", "mysql", FALSE),
              Msg("create", "mysql", TRUE), Msg("create", "logic", FALSE)}

\* Messages of the network threads.
OuterMsgs == {Plain("net"), Plain("send"), Plain("close"), Plain("ping"), Plain("bad")}

Sym == Permutations(Packets)
=============================================================================
