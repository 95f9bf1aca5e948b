----------------------------- MODULE Mailboxes -----------------------------
(***************************************************************************)
(* What the packet bus promises to those who call DispatchPacket: every    *)
(* broadcast thread has a mailbox and takes each packet from it exactly    *)
(* once, in the order of the calls; every exclusive collector has a pool   *)
(* of tasks, and one of its threads takes each task exactly once, in no    *)
(* promised order.                                                         *)
(***************************************************************************)
EXTENDS Integers, Sequences

CONSTANTS Packets, Boxes, Pools

VARIABLES
    box,    \* box[t]: what thread t has still to process, in order
    pool    \* pool[c][p]: how many threads of c have still to process p

Init ==
    /\ box = [t \in Boxes |-> <<>>]
    /\ pool = [c \in Pools |-> [p \in Packets |-> 0]]

\* shared: a task, not a command that every thread executes.
Publish(p, shared) ==
    /\ box' = [t \in Boxes |-> Append(box[t], p)]
    /\ pool' = IF shared
               THEN [c \in Pools |-> [pool[c] EXCEPT ![p] = @ + 1]]
               ELSE pool

Consume(t) ==
    /\ box[t] # <<>>
    /\ box' = [box EXCEPT ![t] = Tail(@)]
    /\ UNCHANGED pool

Take(c, p) ==
    /\ pool[c][p] > 0
    /\ pool' = [pool EXCEPT ![c][p] = @ - 1]
    /\ UNCHANGED box

Next ==
    \/ \E p \in Packets, shared \in BOOLEAN : Publish(p, shared)
    \/ \E t \in Boxes : Consume(t)
    \/ \E c \in Pools, p \in Packets : Take(c, p)

Spec == Init /\ [][Next]_<<box, pool>>
=============================================================================
