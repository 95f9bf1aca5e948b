--------------------------- MODULE TeleportProofs ---------------------------
(***************************************************************************)
(* Proofs about Teleport: what holds for any worlds, players and clients,  *)
(* and what holds of jumps as long as clients wait for their arrival and   *)
(* stay connected.                                                         *)
(***************************************************************************)
EXTENDS Teleport, FiniteSetTheorems, WellFoundedInduction, TLAPS

(***************************************************************************)
(* Numbers and finite sets.                                                *)
(***************************************************************************)
\* Every nonempty set of numbers has a least one.
LEMMA LeastNumber ==
    ASSUME NEW S \in SUBSET Nat, S # {}
    PROVE  \E x \in S : \A y \in S : x <= y
<1> DEFINE R == {ss \in Nat \X Nat : ss[1] < ss[2]}
<1>1. IsWellFoundedOn(R, Nat)
  BY NatLessThanWellFounded DEF OpToRel
<1>2. \A x, y \in Nat : <<y, x>> \in R \/ x <= y
  OBVIOUS
<1> HIDE DEF R
<1>3. PICK x \in S : \A y \in S : ~ (<<y, x>> \in R)
  BY <1>1, WFMin
<1> QED BY <1>2, <1>3

InMsgs ==
    [type : {"enter"}, p : Players, id : Ids] \union [type : {"drop", "after"}, p : Players]
    \union [type : {"sync"}, p : Players, data : Data] \union [type : {"created"}, world : Instances]
    \union [type : {"teleport"}, p : Players, from : Instances, data : Data]
WorldMsgs ==
    [type : {"reqsync", "remove", "leave"}, p : Players] \union [type : {"player"}, p : Players, data : Data]
\* What the lists hold.
Boxes ==
    /\ inbox \in [Instances -> Seq(InMsgs)] /\ worldbox \in [Instances -> Seq(WorldMsgs)]
    /\ requests \in Seq([id : Ids, from : Instances]) /\ base \in [Players -> Data]
Typed == TypeOK /\ Boxes

-----------------------------------------------------------------------------
(***************************************************************************)
(* Messages and lists.                                                     *)
(***************************************************************************)
LEMMA InFields ==
    ASSUME NEW m \in InMsgs
    PROVE  /\ m.type \in {"enter", "drop", "after", "sync", "created", "teleport"}
           /\ m.type # "created" => m.p \in Players
           /\ m.type = "created" => m.world \in Instances
           /\ m.type = "enter" => m.id \in Ids
           /\ m.type = "sync" => m.data \in Data
           /\ m.type = "teleport" => m.data \in Data /\ m.from \in Instances
<1>1. CASE m \in [type : {"enter"}, p : Players, id : Ids]
  BY <1>1
<1>2. CASE m \in [type : {"drop", "after"}, p : Players]
  BY <1>2
<1>3. CASE m \in [type : {"sync"}, p : Players, data : Data]
  BY <1>3
<1>4. CASE m \in [type : {"created"}, world : Instances]
  BY <1>4
<1>5. CASE m \in [type : {"teleport"}, p : Players, from : Instances, data : Data]
  BY <1>5
<1> QED BY <1>1, <1>2, <1>3, <1>4, <1>5 DEF InMsgs

LEMMA WorldFields ==
    ASSUME NEW m \in WorldMsgs
    PROVE  /\ m.type \in {"reqsync", "remove", "leave", "player"} /\ m.p \in Players
           /\ m.type = "player" => m.data \in Data
<1>1. CASE m \in [type : {"reqsync", "remove", "leave"}, p : Players]
  BY <1>1
<1>2. CASE m \in [type : {"player"}, p : Players, data : Data]
  BY <1>2
<1> QED BY <1>1, <1>2 DEF WorldMsgs

LEMMA InMade ==
    ASSUME NEW p \in Players
    PROVE  /\ \A id \in Ids : [type |-> "enter", p |-> p, id |-> id] \in InMsgs
           /\ Plain("drop", p) \in InMsgs /\ Plain("after", p) \in InMsgs
           /\ \A d \in Data : [type |-> "sync", p |-> p, data |-> d] \in InMsgs
           /\ \A d \in Data, i \in Instances :
                 [type |-> "teleport", p |-> p, from |-> i, data |-> d] \in InMsgs
BY DEF InMsgs, Plain

LEMMA CreatedMade == \A w \in Instances : [type |-> "created", world |-> w] \in InMsgs
BY DEF InMsgs

LEMMA WorldMade ==
    ASSUME NEW p \in Players
    PROVE  /\ \A type \in {"reqsync", "remove", "leave"} : Plain(type, p) \in WorldMsgs
           /\ \A d \in Data : [type |-> "player", p |-> p, data |-> d] \in WorldMsgs
BY DEF WorldMsgs, Plain

LEMMA PostType ==
    ASSUME NEW S, NEW box \in [Instances -> Seq(S)], NEW i \in Instances, NEW m \in S
    PROVE  /\ Post(box, i, m) \in [Instances -> Seq(S)]
           /\ Post(box, i, m)[i] = Append(box[i], m)
           /\ \A j \in Instances : j # i => Post(box, i, m)[j] = box[j]
<1>1. Append(box[i], m) \in Seq(S)
  OBVIOUS
<1> QED BY <1>1 DEF Post

LEMMA DoneType ==
    ASSUME NEW S, NEW box \in [Instances -> Seq(S)], NEW i \in Instances, box[i] # <<>>
    PROVE  /\ Done(box, i) \in [Instances -> Seq(S)] /\ Head(box[i]) \in S
           /\ Done(box, i)[i] = Tail(box[i])
           /\ \A j \in Instances : j # i => Done(box, i)[j] = box[j]
<1>1. Tail(box[i]) \in Seq(S) /\ Head(box[i]) \in S
  OBVIOUS
<1> QED BY <1>1 DEF Done

\* The list of a world.
LEMMA PostWorld ==
    ASSUME worldbox \in [Instances -> Seq(WorldMsgs)], NEW i \in Instances, NEW m \in WorldMsgs
    PROVE  /\ Post(worldbox, i, m) \in [Instances -> Seq(WorldMsgs)]
           /\ Post(worldbox, i, m)[i] = Append(worldbox[i], m)
           /\ \A j \in Instances : j # i => Post(worldbox, i, m)[j] = worldbox[j]
BY PostType

\* The list of a proxy.
LEMMA PostInbox ==
    ASSUME inbox \in [Instances -> Seq(InMsgs)], NEW i \in Instances, NEW m \in InMsgs
    PROVE  /\ Post(inbox, i, m) \in [Instances -> Seq(InMsgs)]
           /\ Post(inbox, i, m)[i] = Append(inbox[i], m)
           /\ \A j \in Instances : j # i => Post(inbox, i, m)[j] = inbox[j]
BY PostType

\* Changing what one instance has of one player.
LEMMA SetOne ==
    ASSUME NEW S, NEW f \in [Instances -> [Players -> S]], NEW i \in Instances, NEW p \in Players, NEW v \in S
    PROVE  /\ [f EXCEPT ![i][p] = v] \in [Instances -> [Players -> S]]
           /\ [f EXCEPT ![i][p] = v][i][p] = v
           /\ \A j \in Instances, q \in Players : j # i \/ q # p => [f EXCEPT ![i][p] = v][j][q] = f[j][q]
OBVIOUS

\* The flags of a teleport object.
LEMMA ObjectFlags ==
    ASSUME NEW o \in TeleportObjects
    PROVE  /\ o # None /\ o.id \in Ids /\ o.world \in Flags /\ o.sync \in BOOLEAN
           /\ [o EXCEPT !.sync = TRUE] \in TeleportObjects /\ [o EXCEPT !.sync = TRUE].sync
           /\ [o EXCEPT !.sync = TRUE].id = o.id /\ [o EXCEPT !.sync = TRUE].world = o.world
           /\ \A w \in Instances :
                 /\ [o EXCEPT !.world = w] \in TeleportObjects /\ [o EXCEPT !.world = w].sync = o.sync
                 /\ [o EXCEPT !.world = w].id = o.id /\ [o EXCEPT !.world = w].world = w
BY NoneAssumption DEF TeleportObjects, Flags

LEMMA FirstIs ==
    ASSUME NEW ps \in SUBSET Players, ps # {}
    PROVE  First(ps) \in ps /\ \A q \in ps : First(ps) <= q
<1>1. ps \in SUBSET Nat
  BY ConstantsAssumption
<1>2. \E x \in ps : \A y \in ps : x <= y
  BY <1>1, LeastNumber
<1> QED BY <1>2 DEF First

\* What a jump adds to the list of the target.
Jumps(i, seq) == [k \in DOMAIN seq |->
    [type |-> "teleport", p |-> seq[k], from |-> i, data |-> proxy[i][seq[k]]]]

LEMMA OrderedSeq ==
    ASSUME NEW ps \in SUBSET Players, NEW seq \in InOrder(ps)
    PROVE  /\ seq \in Seq(ps) /\ \A k, l \in DOMAIN seq : seq[k] = seq[l] => k = l
<1> DEFINE n == Cardinality(ps)
<1>1. seq \in [1 .. n -> ps] /\ \A k, l \in DOMAIN seq : k < l => seq[k] < seq[l]
  BY DEF InOrder
<1>2. n \in Nat
  BY ConstantsAssumption, FS_Subset, FS_CardinalityType
<1> HIDE DEF n
<1>3. seq \in Seq(ps) /\ DOMAIN seq = 1 .. n
  BY <1>1, <1>2
<1>4. ASSUME NEW k \in 1 .. n, NEW l \in 1 .. n, seq[k] = seq[l] PROVE k = l
  <2>0. seq[k] \in ps
    BY <1>1
  <2>1a. ps \subseteq Nat
    BY ConstantsAssumption
  <2>1b. k \in Int /\ l \in Int
    BY <1>2
  <2>1. seq[k] \in Nat /\ k \in Int /\ l \in Int
    BY <2>0, <2>1a, <2>1b
  <2>2. ~ (k < l) /\ ~ (l < k)
    BY <1>1, <1>3, <1>4, <2>1
  <2> QED BY <2>1, <2>2
<1> QED BY <1>3, <1>4

-----------------------------------------------------------------------------
(***************************************************************************)
(* What the steps with several outcomes do.                                *)
(***************************************************************************)
\* Check sends the player on or keeps the object.
JumpMsg(i, p, data) == [type |-> "teleport", p |-> p, from |-> i, data |-> data]
Sends(i, p, o, data) ==
    /\ o.sync /\ o.world \in Instances /\ data # None
    /\ objects' = [objects EXCEPT ![i][p] = None] /\ fault' = fault
    /\ inbox' = Post(Done(inbox, i), o.world, JumpMsg(i, p, data))
Keeps(i, p, o, data) ==
    /\ objects' = [objects EXCEPT ![i][p] = o] /\ inbox' = Done(inbox, i)
    /\ fault' \in BOOLEAN /\ (fault' => fault \/ data = None)

LEMMA CheckCases ==
    ASSUME Typed, NEW i \in Instances, NEW p \in Players, NEW o, NEW data, Check(i, p, o, data)
    PROVE  Sends(i, p, o, data) \/ Keeps(i, p, o, data)
<1>0. fault \in BOOLEAN
  BY DEF Typed, TypeOK
<1>1. CASE Ready(o) /\ data # None
  BY <1>0, <1>1 DEF Check, Sends, Ready, JumpMsg
<1>2. CASE ~ (Ready(o) /\ data # None)
  BY <1>0, <1>2 DEF Check, Keeps
<1> QED BY <1>1, <1>2

\* The announcement of a public world sends players on whose objects are ready.
Announced(i, w, gone, seq) ==
    /\ \A p \in gone : /\ objects[i][p] # None /\ objects[i][p].id = w.id /\ objects[i][p].sync
                       /\ proxy[i][p] # None
    /\ inbox' = [Done(inbox, i) EXCEPT ![w] = @ \o Jumps(i, seq)]
    /\ objects' \in [Instances -> [Players -> TeleportObjects \union {None}]]
    /\ \A j \in Instances, p \in Players :
          \/ (j # i \/ p \notin gone) /\ objects'[j][p] = objects[j][p]
          \/ j = i /\ p \in gone /\ objects'[j][p] = None
          \/ /\ j = i /\ p \notin gone /\ objects[i][p] # None /\ objects[i][p].id = w.id
             /\ objects'[i][p] = [objects[i][p] EXCEPT !.world = w]
    /\ hung' \subseteq Instances /\ fault' \in BOOLEAN
    /\ fault' => fault \/ \E p \in Players : objects[i][p] # None /\ proxy[i][p] = None

LEMMA PublicCases ==
    ASSUME Typed, NEW i \in Instances, NEW w \in Instances, PublicCreated(i, w)
    PROVE  \E gone \in SUBSET Players : \E seq \in InOrder(gone) : Announced(i, w, gone, seq)
<1> DEFINE ps == Waiting(i, w.id)
           unready == {p \in ps : ~ Ready([objects[i][p] EXCEPT !.world = w])}
           before == IF unready = {} THEN ps ELSE {p \in ps : p < First(unready)}
           null == {p \in before : proxy[i][p] = None}
           gone == IF null = {} THEN before ELSE {p \in before : p < First(null)}
           noted == [p \in Players |->
              IF p \in gone THEN None
              ELSE IF null = {} /\ unready # {} /\ p = First(unready)
              THEN [objects[i][p] EXCEPT !.world = w] ELSE objects[i][p]]
<1>1. PICK seq \in InOrder(gone) : inbox' = [Done(inbox, i) EXCEPT ![w] = @ \o Jumps(i, seq)]
  BY DEF PublicCreated, Jumps
<1>2. /\ objects' = [objects EXCEPT ![i] = noted] /\ fault' = (fault \/ null # {})
      /\ hung' = IF null = {} /\ unready # {} THEN hung \union {i} ELSE hung
  BY DEF PublicCreated
<1>3. /\ objects \in [Instances -> [Players -> TeleportObjects \union {None}]]
      /\ hung \subseteq Instances /\ fault \in BOOLEAN
  BY DEF Typed, TypeOK
<1>4. ps \subseteq Players /\ \A p \in ps : objects[i][p] # None /\ objects[i][p].id = w.id
  BY DEF Waiting
<1>5. ASSUME NEW p \in ps
      PROVE  objects[i][p] \in TeleportObjects /\ [objects[i][p] EXCEPT !.world = w] \in TeleportObjects
  BY <1>3, <1>4 DEF TeleportObjects, Flags
<1>6. unready \subseteq ps /\ before \subseteq ps /\ gone \subseteq before /\ null \subseteq before
  OBVIOUS
<1>7. ASSUME NEW p \in before PROVE p \notin unready
  <2>1. CASE unready = {}
    BY <2>1
  <2>2. CASE unready # {}
    <3>1. unready \in SUBSET Players
      BY <1>4, <1>6
    <3> HIDE DEF unready
    <3>2. p < First(unready) /\ First(unready) \in unready /\ \A q \in unready : First(unready) <= q
      BY <2>2, <3>1, FirstIs
    <3>3. First(unready) \in Nat /\ p \in Nat
      BY <1>4, <1>6, <3>1, <3>2, ConstantsAssumption
    <3> QED BY <3>2, <3>3
  <2> QED BY <2>1, <2>2
<1>8. ASSUME NEW p \in gone PROVE p \notin null
  <2>1. CASE null = {}
    BY <2>1
  <2>2. CASE null # {}
    <3>1. null \in SUBSET Players
      BY <1>4, <1>6
    <3> HIDE DEF null
    <3>2. p < First(null) /\ First(null) \in null /\ \A q \in null : First(null) <= q
      BY <2>2, <3>1, FirstIs
    <3>3. First(null) \in Nat /\ p \in Nat
      BY <1>4, <1>6, <3>1, <3>2, ConstantsAssumption
    <3> QED BY <3>2, <3>3
  <2> QED BY <2>1, <2>2
<1>9. ASSUME NEW p \in gone
      PROVE  /\ objects[i][p] # None /\ objects[i][p].id = w.id /\ objects[i][p].sync
             /\ proxy[i][p] # None
  <2>1. p \in ps /\ p \notin unready /\ p \notin null /\ p \in before
    BY <1>6, <1>7, <1>8
  <2>2. Ready([objects[i][p] EXCEPT !.world = w]) /\ proxy[i][p] # None
    BY <2>1
  <2>3. objects[i][p].sync
    BY <1>5, <2>1, <2>2 DEF Ready, TeleportObjects
  <2> QED BY <1>4, <2>1, <2>2, <2>3
<1>10. ASSUME unready # {} PROVE First(unready) \in unready
  BY <1>4, <1>6, <1>10, FirstIs
<1>11. ASSUME NEW p \in Players
       PROVE  /\ noted[p] \in TeleportObjects \union {None}
              /\ \/ p \notin gone /\ noted[p] = objects[i][p]
                 \/ p \in gone /\ noted[p] = None
                 \/ /\ p \notin gone /\ objects[i][p] # None /\ objects[i][p].id = w.id
                    /\ noted[p] = [objects[i][p] EXCEPT !.world = w]
  <2>1. CASE p \in gone
    BY <2>1
  <2>2. CASE p \notin gone /\ null = {} /\ unready # {} /\ p = First(unready)
    <3>1. p \in ps
      BY <1>6, <1>10, <2>2
    <3>2. noted[p] = [objects[i][p] EXCEPT !.world = w]
      BY <2>2
    <3> HIDE DEF noted, ps
    <3> QED BY <1>4, <1>5, <2>2, <3>1, <3>2
  <2>3. CASE p \notin gone /\ ~ (null = {} /\ unready # {} /\ p = First(unready))
    <3>1. noted[p] = objects[i][p]
      BY <2>3
    <3> QED BY <1>3, <2>3, <3>1
  <2> QED BY <2>1, <2>2, <2>3
<1>12. noted \in [Players -> TeleportObjects \union {None}]
  <2>1. \A p \in Players : noted[p] \in TeleportObjects \union {None}
    BY <1>11
  <2>2. noted = [p \in Players |-> noted[p]]
    OBVIOUS
  <2> HIDE DEF noted
  <2> QED BY <2>1, <2>2
<1>13. ASSUME null # {} PROVE \E p \in Players : objects[i][p] # None /\ proxy[i][p] = None
  BY <1>4, <1>6, <1>13
<1>14. gone \in SUBSET Players
  BY <1>4, <1>6
<1> HIDE DEF gone, null, unready, before, ps, noted
<1>15. /\ objects' \in [Instances -> [Players -> TeleportObjects \union {None}]]
       /\ objects'[i] = noted /\ \A j \in Instances : j # i => objects'[j] = objects[j]
  BY <1>2, <1>3, <1>12
<1>16. hung' \subseteq Instances /\ fault' \in BOOLEAN /\ (fault' => fault \/ null # {})
  BY <1>2, <1>3
<1>17. \A j \in Instances, p \in Players :
          \/ (j # i \/ p \notin gone) /\ objects'[j][p] = objects[j][p]
          \/ j = i /\ p \in gone /\ objects'[j][p] = None
          \/ /\ j = i /\ p \notin gone /\ objects[i][p] # None /\ objects[i][p].id = w.id
             /\ objects'[i][p] = [objects[i][p] EXCEPT !.world = w]
  BY <1>11, <1>15
<1>18. Announced(i, w, gone, seq)
  BY <1>1, <1>9, <1>13, <1>15, <1>16, <1>17 DEF Announced
<1> QED BY <1>14, <1>18

LEMMA JumpsType ==
    ASSUME Typed, NEW i \in Instances, NEW w \in Instances, inbox[i] # <<>>,
           NEW gone \in SUBSET Players, NEW seq \in InOrder(gone), Announced(i, w, gone, seq)
    PROVE  /\ Jumps(i, seq) \in Seq(InMsgs) /\ inbox' \in [Instances -> Seq(InMsgs)]
           /\ inbox'[w] = Done(inbox, i)[w] \o Jumps(i, seq)
           /\ \A j \in Instances : j # w => inbox'[j] = Done(inbox, i)[j]
<1>1. seq \in Seq(gone)
  BY OrderedSeq
<1>2. proxy \in [Instances -> [Players -> Data \union {None}]] /\ inbox \in [Instances -> Seq(InMsgs)]
  BY DEF Typed, TypeOK, Boxes
<1>3. ASSUME NEW k \in DOMAIN seq PROVE Jumps(i, seq)[k] \in InMsgs
  <2>1. seq[k] \in gone
    BY <1>1
  <2>2. seq[k] \in Players /\ proxy[i][seq[k]] \in Data
    BY <1>2, <2>1 DEF Announced
  <2>3. Jumps(i, seq)[k] = [type |-> "teleport", p |-> seq[k], from |-> i, data |-> proxy[i][seq[k]]]
    BY DEF Jumps
  <2> QED BY <2>2, <2>3, InMade
<1>4. DOMAIN Jumps(i, seq) = 1 .. Len(seq) /\ Len(seq) \in Nat /\ DOMAIN seq = 1 .. Len(seq)
  BY <1>1 DEF Jumps
<1>5. Jumps(i, seq) = [k \in 1 .. Len(seq) |-> Jumps(i, seq)[k]]
  BY <1>4 DEF Jumps
<1>6. Jumps(i, seq) \in Seq(InMsgs)
  BY <1>3, <1>4, <1>5
<1>7. Done(inbox, i) \in [Instances -> Seq(InMsgs)]
  BY <1>2, DoneType
<1>8. inbox' = [Done(inbox, i) EXCEPT ![w] = @ \o Jumps(i, seq)]
  BY DEF Announced
<1>9. Done(inbox, i)[w] \o Jumps(i, seq) \in Seq(InMsgs)
  BY <1>6, <1>7
<1> QED BY <1>6, <1>7, <1>8, <1>9

-----------------------------------------------------------------------------
(***************************************************************************)
(* Types.                                                                  *)
(***************************************************************************)
LEMMA InstanceFacts ==
    /\ Start \in Instances /\ \A id \in Publics : World(id, 0) \in Instances /\ World(id, 0).id = id
    /\ \A w \in Instances : w.id \in Ids
<1>1. \A w \in Instances : w.id \in Ids
  BY DEF Instances, Ids, World
<1>2. \A id \in Publics : World(id, 0) \in Instances /\ World(id, 0).id = id
  BY DEF Instances, World
<1>3. Home \in Publics
  BY ConstantsAssumption
<1> QED BY <1>1, <1>2, <1>3 DEF Start

LEMMA TypeInit == Init => Typed
<1> SUFFICES ASSUME Init PROVE Typed
  OBVIOUS
<1>1. exists \subseteq Instances /\ hung \subseteq Instances /\ fault \in BOOLEAN
  <2>1. \A id \in Known : World(id, 0) \in Instances
    BY ConstantsAssumption, InstanceFacts
  <2> QED BY <2>1 DEF Init
<1>2. 0 \in Data
  BY ConstantsAssumption DEF Data
<1>3. proxy \in [Instances -> [Players -> Data \union {None}]] /\ world = proxy
  BY <1>2 DEF Init, Per
<1>4. objects \in [Instances -> [Players -> TeleportObjects \union {None}]]
  BY DEF Init, Per
<1>5. where \in [Players -> Instances \union {None}] /\ online \subseteq Players /\ waits \subseteq Players
  BY InstanceFacts DEF Init, Per
<1>6. Boxes
  BY <1>2 DEF Boxes, Init, Per
<1> QED BY <1>1, <1>3, <1>4, <1>5, <1>6 DEF Typed, TypeOK

LEMMA CheckType ==
    ASSUME Typed, NEW i \in Instances, NEW p \in Players, NEW o \in TeleportObjects,
           NEW data \in Data \union {None}, inbox[i] # <<>>, Check(i, p, o, data)
    PROVE  /\ inbox' \in [Instances -> Seq(InMsgs)] /\ fault' \in BOOLEAN
           /\ objects' \in [Instances -> [Players -> TeleportObjects \union {None}]]
<1>1. inbox \in [Instances -> Seq(InMsgs)] /\ fault \in BOOLEAN
      /\ objects \in [Instances -> [Players -> TeleportObjects \union {None}]]
  BY DEF Typed, TypeOK, Boxes
<1>2. Done(inbox, i) \in [Instances -> Seq(InMsgs)]
  BY <1>1, DoneType
<1>3. CASE Sends(i, p, o, data)
  <2>1. JumpMsg(i, p, data) \in InMsgs
    BY <1>3, InMade DEF Sends, JumpMsg
  <2>2. Post(Done(inbox, i), o.world, JumpMsg(i, p, data)) \in [Instances -> Seq(InMsgs)]
    BY <1>2, <1>3, <2>1, PostType DEF Sends
  <2>3. [objects EXCEPT ![i][p] = None] \in [Instances -> [Players -> TeleportObjects \union {None}]]
    BY <1>1
  <2> QED BY <1>1, <1>3, <2>2, <2>3 DEF Sends
<1>4. CASE Keeps(i, p, o, data)
  <2>1. [objects EXCEPT ![i][p] = o] \in [Instances -> [Players -> TeleportObjects \union {None}]]
    BY <1>1
  <2> QED BY <1>2, <1>4, <2>1 DEF Keeps
<1> QED BY <1>3, <1>4, CheckCases

LEMMA TypeNext == Typed /\ [Next]_vars => Typed'
<1> SUFFICES ASSUME Typed, [Next]_vars PROVE Typed'
  OBVIOUS
<1>0. /\ exists \subseteq Instances /\ hung \subseteq Instances /\ fault \in BOOLEAN
      /\ proxy \in [Instances -> [Players -> Data \union {None}]]
      /\ world \in [Instances -> [Players -> Data \union {None}]]
      /\ objects \in [Instances -> [Players -> TeleportObjects \union {None}]]
      /\ where \in [Players -> Instances \union {None}]
      /\ online \subseteq Players /\ waits \subseteq Players
      /\ inbox \in [Instances -> Seq(InMsgs)] /\ worldbox \in [Instances -> Seq(WorldMsgs)]
      /\ requests \in Seq([id : Ids, from : Instances]) /\ base \in [Players -> Data]
  BY DEF Typed, TypeOK, Boxes
<1> USE DEF Typed, TypeOK, Boxes
<1>1. ASSUME NEW p \in Players, NEW id \in Ids, ClientEnterWorld(p, id) PROVE Typed'
  <2>1. where[p] \in Instances
    BY <1>0, <1>1 DEF ClientEnterWorld
  <2>2. Post(inbox, where[p], [type |-> "enter", p |-> p, id |-> id]) \in [Instances -> Seq(InMsgs)]
    BY <1>0, <2>1, InMade, PostType
  <2> QED BY <1>0, <1>1, <2>2 DEF ClientEnterWorld, proxyVars
<1>2. ASSUME NEW p \in Players, ClientDisconnect(p) PROVE Typed'
  <2>1. Plain("drop", p) \in InMsgs
    BY InMade
  <2>2. inbox' \in [Instances -> Seq(InMsgs)]
    BY <1>0, <1>2, <2>1 DEF ClientDisconnect
  <2> QED BY <1>0, <1>2, <2>2 DEF ClientDisconnect, proxyVars
<1>3. ASSUME CreateWorld PROVE Typed'
  <2> DEFINE r == Head(requests)
             n == Cardinality({w \in exists : w.id = r.id})
             w == World(r.id, IF r.id \in Publics THEN 0 ELSE n + 1)
  <2>1. requests' \in Seq([id : Ids, from : Instances])
    BY <1>0, <1>3 DEF CreateWorld
  <2>2. CASE w \in exists \/ w \notin Instances
    <3>1. UNCHANGED <<exists, inbox>>
      BY <1>3, <2>2 DEF CreateWorld
    <3> QED BY <1>0, <1>3, <2>1, <3>1 DEF CreateWorld, proxyVars, clientVars
  <2>3. CASE w \notin exists /\ w \in Instances
    <3>1. [type |-> "created", world |-> w] \in InMsgs
      BY <2>3, CreatedMade
    <3>2. /\ exists' = exists \union {w}
          /\ inbox' = [i \in Instances |->
                IF i = r.from \/ (r.id \in Publics /\ i \in exists')
                THEN Append(inbox[i], [type |-> "created", world |-> w]) ELSE inbox[i]]
      BY <1>3, <2>3 DEF CreateWorld
    <3> HIDE DEF w
    <3>3. exists' \subseteq Instances /\ inbox' \in [Instances -> Seq(InMsgs)]
      BY <1>0, <2>3, <3>1, <3>2
    <3> QED BY <1>0, <1>3, <2>1, <3>3 DEF CreateWorld, proxyVars, clientVars
  <2> QED BY <2>2, <2>3
<1>4. ASSUME NEW i \in Instances, ProxyStep(i) PROVE Typed'
  <2> DEFINE m == Head(inbox[i])
  <2>0. /\ inbox[i] # <<>> /\ m \in InMsgs /\ Done(inbox, i) \in [Instances -> Seq(InMsgs)]
    <3>1. inbox[i] # <<>>
      BY <1>4 DEF ProxyStep, HandleC2GEnterWorld, HandleS2GSyncPlayer, HandleBroadcastCreateWorldProxy,
                  HandleTeleport, HandleTeleportAfter, HandleNetworkDisconnect, ProxyForget, ProxyGets, Gets
    <3> QED BY <1>0, <3>1, DoneType
  <2>1. CASE HandleC2GEnterWorld(i)
    <3>1. m.p \in Players /\ m.id \in Ids
      BY <2>0, <2>1, InFields DEF HandleC2GEnterWorld, ProxyGets, Gets
    <3>2. CASE proxy[i][m.p] = None \/ objects[i][m.p] # None
      BY <1>0, <2>0, <2>1, <3>2 DEF HandleC2GEnterWorld, clientVars
    <3>3. CASE ~ (proxy[i][m.p] = None \/ objects[i][m.p] # None)
      <4> DEFINE flag == CreateWorldFlag(m.id)
      <4>1. flag \in Flags
        BY <1>0 DEF CreateWorldFlag, Flags
      <4>2. TeleportObject(m.id, flag) \in TeleportObjects
        BY <3>1, <4>1 DEF TeleportObject, TeleportObjects
      <4>3. Post(worldbox, i, Plain("reqsync", m.p)) \in [Instances -> Seq(WorldMsgs)]
        BY <1>0, <3>1, WorldMade, PostType
      <4>4. /\ inbox' = Done(inbox, i)
            /\ objects' = [objects EXCEPT ![i][m.p] = TeleportObject(m.id, flag)]
            /\ requests' = IF flag = None THEN Append(requests, [id |-> m.id, from |-> i]) ELSE requests
            /\ worldbox' = Post(worldbox, i, Plain("reqsync", m.p))
            /\ base' = [base EXCEPT ![m.p] = IF world[i][m.p] = None THEN @ ELSE world[i][m.p]]
            /\ UNCHANGED <<exists, proxy, world, where, online, waits, hung, fault>>
        BY <2>1, <3>3 DEF HandleC2GEnterWorld, clientVars
      <4> HIDE DEF m, flag
      <4>5. objects' \in [Instances -> [Players -> TeleportObjects \union {None}]]
        BY <1>0, <3>1, <4>2, <4>4
      <4>6. requests' \in Seq([id : Ids, from : Instances])
        <5> DEFINE R == [id : Ids, from : Instances]
                   e == [id |-> m.id, from |-> i]
        <5>1. e \in R
          BY <3>1
        <5>2. requests \in Seq(R) /\ (requests' = Append(requests, e) \/ requests' = requests)
          BY <1>0, <4>4
        <5> HIDE DEF R, e
        <5>3. requests \in Seq(R) => Append(requests, e) \in Seq(R)
          BY <5>1
        <5>4. requests' \in Seq(R)
          BY <5>2, <5>3
        <5> QED BY <5>4 DEF R
      <4>7. base' \in [Players -> Data]
        BY <1>0, <3>1, <4>4
      <4> QED BY <1>0, <2>0, <4>3, <4>4, <4>5, <4>6, <4>7
    <3> QED BY <3>2, <3>3
  <2>2. CASE HandleS2GSyncPlayer(i)
    <3>1. m.p \in Players /\ m.data \in Data
      BY <2>0, <2>2, InFields DEF HandleS2GSyncPlayer, ProxyGets, Gets
    <3>2. /\ UNCHANGED <<exists, requests, worldbox, world, where, online, waits, base, hung>>
          /\ proxy' \in [Instances -> [Players -> Data \union {None}]]
      <4>1. [proxy EXCEPT ![i][m.p] = m.data] \in [Instances -> [Players -> Data \union {None}]]
        <5> HIDE DEF m
        <5> QED BY <1>0, <3>1
      <4>2. proxy' = proxy \/ proxy' = [proxy EXCEPT ![i][m.p] = m.data]
        BY <2>2 DEF HandleS2GSyncPlayer, Parsed, proxyVars
      <4>3. UNCHANGED <<exists, requests, worldbox, world, where, online, waits, base, hung>>
        BY <2>2 DEF HandleS2GSyncPlayer, clientVars
      <4> QED BY <1>0, <4>1, <4>2, <4>3
    <3>3. CASE proxy[i][m.p] = None \/ objects[i][m.p] = None
      <4>1. inbox' = Done(inbox, i) /\ UNCHANGED <<objects, fault>>
        BY <2>2, <3>3 DEF HandleS2GSyncPlayer, proxyVars
      <4> QED BY <1>0, <2>0, <3>2, <4>1
    <3>4. CASE proxy[i][m.p] # None /\ objects[i][m.p] # None
      <4>1. Check(i, m.p, [objects[i][m.p] EXCEPT !.sync = TRUE], m.data)
        BY <2>2, <3>4 DEF HandleS2GSyncPlayer
      <4>2. [objects[i][m.p] EXCEPT !.sync = TRUE] \in TeleportObjects
        <5>1. objects[i][m.p] \in TeleportObjects
          BY <1>0, <3>1, <3>4
        <5> QED BY <5>1, ObjectFlags
      <4> HIDE DEF m
      <4>3. /\ inbox' \in [Instances -> Seq(InMsgs)] /\ fault' \in BOOLEAN
            /\ objects' \in [Instances -> [Players -> TeleportObjects \union {None}]]
        BY <2>0, <3>1, <4>1, <4>2, CheckType
      <4> QED BY <1>0, <3>2, <4>3
    <3> QED BY <3>3, <3>4
  <2>3. CASE HandleBroadcastCreateWorldProxy(i)
    <3> DEFINE w == m.world
    <3>1. w \in Instances
      BY <2>0, <2>3, InFields DEF HandleBroadcastCreateWorldProxy, ProxyGets, Gets
    <3>2. UNCHANGED <<exists, requests, worldbox, proxy, world, where, online, waits, base>>
      BY <2>3 DEF HandleBroadcastCreateWorldProxy, clientVars
    <3>3. CASE PublicCreated(i, w)
      <4> HIDE DEF w, m
      <4>1. PICK gone \in SUBSET Players : \E seq \in InOrder(gone) : Announced(i, w, gone, seq)
        BY <3>1, <3>3, PublicCases
      <4>2. PICK seq \in InOrder(gone) : Announced(i, w, gone, seq)
        BY <4>1
      <4>3. inbox' \in [Instances -> Seq(InMsgs)]
        BY <2>0, <3>1, <4>2, JumpsType
      <4>4. /\ objects' \in [Instances -> [Players -> TeleportObjects \union {None}]]
            /\ hung' \subseteq Instances /\ fault' \in BOOLEAN
        BY <4>2 DEF Announced
      <4> QED BY <1>0, <3>2, <4>3, <4>4
    <3>4. CASE DungeonCreated(i, w)
      <4> DEFINE ps == Waiting(i, w.id)
                 p == First(ps)
      <4>1. CASE ps = {}
        <5>1. inbox' = Done(inbox, i) /\ UNCHANGED <<objects, fault, hung>>
          BY <3>4, <4>1 DEF DungeonCreated
        <5> QED BY <1>0, <2>0, <3>2, <5>1
      <4>2. CASE ps # {}
        <5>1. p \in Players /\ objects[i][p] # None
          <6>1. ps \in SUBSET Players /\ \A q \in ps : objects[i][q] # None
            BY DEF Waiting
          <6> HIDE DEF ps
          <6> QED BY <4>2, <6>1, FirstIs
        <5>2. Check(i, p, [objects[i][p] EXCEPT !.world = w], proxy[i][p]) /\ hung' = hung
          BY <3>4, <4>2 DEF DungeonCreated
        <5> HIDE DEF p, ps, w, m
        <5>3. [objects[i][p] EXCEPT !.world = w] \in TeleportObjects /\ proxy[i][p] \in Data \union {None}
          <6>1. objects[i][p] \in TeleportObjects /\ proxy[i][p] \in Data \union {None}
            BY <1>0, <5>1
          <6> QED BY <3>1, <6>1, ObjectFlags
        <5>4. /\ inbox' \in [Instances -> Seq(InMsgs)] /\ fault' \in BOOLEAN
              /\ objects' \in [Instances -> [Players -> TeleportObjects \union {None}]]
          BY <2>0, <5>1, <5>2, <5>3, CheckType
        <5> QED BY <1>0, <3>2, <5>2, <5>4
      <4> QED BY <4>1, <4>2
    <3> QED BY <2>3, <3>3, <3>4 DEF HandleBroadcastCreateWorldProxy
  <2>4. CASE HandleTeleport(i)
    <3>1. m.p \in Players /\ m.data \in Data /\ m.from \in Instances
      BY <2>0, <2>4, InFields DEF HandleTeleport, ProxyGets, Gets
    <3>2. UNCHANGED <<exists, requests, objects, world, online, waits, base, hung, fault>>
      BY <2>4 DEF HandleTeleport, clientVars
    <3>3. CASE proxy[i][m.p] # None
      <4>1. inbox' = Done(inbox, i) /\ UNCHANGED <<proxy, worldbox, where>>
        BY <2>4, <3>3 DEF HandleTeleport
      <4> QED BY <1>0, <2>0, <3>2, <4>1
    <3>4. CASE proxy[i][m.p] = None
      <4>1. /\ proxy' = AddPlayer(i, m.p, m.data)
            /\ worldbox' = Post(worldbox, i, [type |-> "player", p |-> m.p, data |-> m.data])
            /\ inbox' = Post(Done(inbox, i), m.from, Plain("after", m.p))
            /\ where' = RegisterToLocator(m.p, i)
        BY <2>4, <3>4 DEF HandleTeleport
      <4> HIDE DEF m
      <4>2. worldbox' \in [Instances -> Seq(WorldMsgs)] /\ inbox' \in [Instances -> Seq(InMsgs)]
        BY <1>0, <2>0, <3>1, <4>1, WorldMade, InMade, PostType
      <4>3. proxy' \in [Instances -> [Players -> Data \union {None}]] /\ where' \in [Players -> Instances \union {None}]
        BY <1>0, <3>1, <4>1 DEF AddPlayer, RegisterToLocator
      <4> QED BY <1>0, <3>2, <4>2, <4>3
    <3> QED BY <3>3, <3>4
  <2>5. ASSUME NEW type \in {"after", "drop"}, NEW tell \in {"remove", "leave"}, ProxyForget(i, type, tell)
        PROVE  Typed'
    <3>1. m.p \in Players
      BY <2>0, <2>5, InFields DEF ProxyForget, ProxyGets, Gets
    <3>2. /\ UNCHANGED <<exists, requests, objects, world, where, online, waits, base, hung, fault>>
          /\ inbox' = Done(inbox, i)
          /\ \/ UNCHANGED <<proxy, worldbox>>
             \/ proxy' = RemovePlayer(i, m.p) /\ worldbox' = LetGo(i, m.p, tell)
      BY <2>5 DEF ProxyForget, clientVars
    <3> HIDE DEF m
    <3>3. LetGo(i, m.p, tell) \in [Instances -> Seq(WorldMsgs)]
      BY <1>0, <3>1, WorldMade, PostType DEF LetGo
    <3>4. RemovePlayer(i, m.p) \in [Instances -> [Players -> Data \union {None}]]
      BY <1>0, <3>1 DEF RemovePlayer
    <3> QED BY <1>0, <2>0, <3>2, <3>3, <3>4
  <2> QED BY <1>4, <2>1, <2>2, <2>3, <2>4, <2>5
       DEF ProxyStep, HandleTeleportAfter, HandleNetworkDisconnect
<1>5. ASSUME NEW i \in Instances, WorldStep(i) PROVE Typed'
  <2> DEFINE m == Head(worldbox[i])
  <2>0. /\ worldbox[i] # <<>> /\ m \in WorldMsgs /\ Done(worldbox, i) \in [Instances -> Seq(WorldMsgs)]
    <3>1. worldbox[i] # <<>>
      BY <1>5 DEF WorldStep, HandleRequestSyncPlayer, HandleSyncPlayer, HandleRemovePlayer, Gets
    <3> QED BY <1>0, <3>1, DoneType
  <2>1. m.p \in Players /\ (m.type = "player" => m.data \in Data)
    BY <2>0, WorldFields
  <2>2. CASE HandleRequestSyncPlayer(i)
    <3>1. /\ worldbox' = Done(worldbox, i)
          /\ inbox' = IF world[i][m.p] = None THEN inbox
                      ELSE Post(inbox, i, [type |-> "sync", p |-> m.p, data |-> world[i][m.p]])
          /\ UNCHANGED <<exists, requests, proxy, objects, world, where, online, waits, base, hung, fault>>
      BY <2>2 DEF HandleRequestSyncPlayer, proxyVars, clientVars
    <3> HIDE DEF m
    <3>2. CASE world[i][m.p] = None
      BY <1>0, <2>0, <3>1, <3>2
    <3>3. CASE world[i][m.p] # None
      <4>1. world[i][m.p] \in Data
        BY <1>0, <2>1, <3>3
      <4>2. Post(inbox, i, [type |-> "sync", p |-> m.p, data |-> world[i][m.p]]) \in [Instances -> Seq(InMsgs)]
        BY <1>0, <2>1, <4>1, InMade, PostType
      <4> QED BY <1>0, <2>0, <3>1, <3>3, <4>2
    <3> QED BY <3>2, <3>3
  <2>3. CASE HandleSyncPlayer(i)
    <3>1. m.data \in Data
      BY <2>1, <2>3 DEF HandleSyncPlayer, Gets
    <3>2. /\ worldbox' = Done(worldbox, i)
          /\ UNCHANGED <<exists, requests, inbox, proxy, objects, where, online, base, hung, fault>>
          /\ \/ UNCHANGED <<world, waits>>
             \/ world' = AddToWorld(i, m.p, m.data) /\ waits' = waits \ {m.p}
      BY <2>3 DEF HandleSyncPlayer, proxyVars
    <3> HIDE DEF m
    <3>3. AddToWorld(i, m.p, m.data) \in [Instances -> [Players -> Data \union {None}]]
      BY <1>0, <2>1, <3>1 DEF AddToWorld
    <3> QED BY <1>0, <2>0, <3>2, <3>3
  <2>4. CASE HandleRemovePlayer(i)
    <3>1. /\ worldbox' = Done(worldbox, i) /\ world' = RemovePlayerBySn(i, m.p)
          /\ UNCHANGED <<exists, requests, inbox, proxy, objects, where, online, waits, base, hung, fault>>
      BY <2>4 DEF HandleRemovePlayer, proxyVars, clientVars
    <3> HIDE DEF m
    <3>2. RemovePlayerBySn(i, m.p) \in [Instances -> [Players -> Data \union {None}]]
      BY <1>0, <2>1 DEF RemovePlayerBySn
    <3> QED BY <1>0, <2>0, <3>1, <3>2
  <2> QED BY <1>5, <2>2, <2>3, <2>4 DEF WorldStep
<1>6. ASSUME NEW i \in Instances, NEW p \in Players, Gain(i, p) PROVE Typed'
  <2>1. /\ world[i][p] # None /\ world[i][p] < MaxGain /\ world' = [world EXCEPT ![i][p] = @ + 1]
        /\ UNCHANGED <<exists, requests, inbox, worldbox, proxy, objects, where, online, waits, base, hung, fault>>
    BY <1>6 DEF Gain, proxyVars, clientVars
  <2>2. world[i][p] + 1 \in Data
    BY <1>0, <2>1, ConstantsAssumption DEF Data
  <2>3. world' \in [Instances -> [Players -> Data \union {None}]]
    BY <1>0, <2>1, <2>2
  <2> QED BY <1>0, <2>1, <2>3
<1>7. CASE UNCHANGED vars
  BY <1>0, <1>7 DEF vars, proxyVars, clientVars
<1> QED BY <1>1, <1>2, <1>3, <1>4, <1>5, <1>6, <1>7 DEF Next

\* The model keeps its types, for any number of worlds, players, requests and disconnects.
THEOREM TypeCorrect == Spec => []TypeOK
<1>1. Spec => []Typed
  BY TypeInit, TypeNext, PTL DEF Spec
<1>2. Typed => TypeOK
  BY DEF Typed
<1> QED BY <1>1, <1>2, PTL

-----------------------------------------------------------------------------
(***************************************************************************)
(* A proxy and its world.  What the world will hold of a player when its   *)
(* list is worked off is what the last message about that player says, and *)
(* that is what the proxy holds now.                                       *)
(***************************************************************************)
Tells(m, p) == m.type \in {"player", "remove", "leave"} /\ m.p = p
LastTells(q, p, k) == Tells(q[k], p) /\ \A l \in DOMAIN q : l > k => ~ Tells(q[l], p)
Agrees(q, inWorld, inProxy, p) ==
    \/ /\ \A k \in DOMAIN q : ~ Tells(q[k], p)
       /\ inProxy # None <=> inWorld # None
    \/ \E k \in DOMAIN q : LastTells(q, p, k) /\ (inProxy # None <=> q[k].type = "player")
Matches == \A i \in Instances, p \in Players : Agrees(worldbox[i], world[i][p], proxy[i][p], p)

LEMMA AgreesAppend ==
    ASSUME NEW q \in Seq(WorldMsgs), NEW m \in WorldMsgs, NEW w, NEW x, NEW p,
           \/ ~ Tells(m, p) /\ Agrees(q, w, x, p)
           \/ Tells(m, p) /\ (x # None <=> m.type = "player")
    PROVE  Agrees(Append(q, m), w, x, p)
<1> DEFINE r == Append(q, m)
<1>1. /\ Len(q) \in Nat /\ DOMAIN q = 1 .. Len(q) /\ DOMAIN r = 1 .. Len(q) + 1
      /\ r[Len(q) + 1] = m /\ \A k \in 1 .. Len(q) : r[k] = q[k]
  OBVIOUS
<1> HIDE DEF r
<1>2. CASE Tells(m, p) /\ (x # None <=> m.type = "player")
  <2>1. Len(q) + 1 \in DOMAIN r /\ LastTells(r, p, Len(q) + 1)
    BY <1>1, <1>2 DEF LastTells
  <2> QED BY <1>1, <1>2, <2>1 DEF Agrees, r
<1>3. CASE ~ Tells(m, p) /\ (\A k \in DOMAIN q : ~ Tells(q[k], p)) /\ (x # None <=> w # None)
  <2>1. \A k \in DOMAIN r : ~ Tells(r[k], p)
    BY <1>1, <1>3
  <2> QED BY <1>3, <2>1 DEF Agrees, r
<1>4. ASSUME ~ Tells(m, p), NEW k \in DOMAIN q, LastTells(q, p, k), x # None <=> q[k].type = "player"
      PROVE  Agrees(r, w, x, p)
  <2>1. k \in DOMAIN r /\ r[k] = q[k]
    BY <1>1
  <2>2. ASSUME NEW l \in DOMAIN r, l > k PROVE ~ Tells(r[l], p)
    BY <1>1, <1>4, <2>2 DEF LastTells
  <2>3. LastTells(r, p, k)
    BY <1>4, <2>1, <2>2 DEF LastTells
  <2> QED BY <1>4, <2>1, <2>3 DEF Agrees
<1> QED BY <1>2, <1>3, <1>4 DEF Agrees, r

LEMMA AgreesTail ==
    ASSUME NEW q \in Seq(WorldMsgs), q # <<>>, NEW w, NEW x, NEW p, NEW v, Agrees(q, w, x, p),
           IF Tells(Head(q), p) THEN v # None <=> Head(q).type = "player" ELSE v = w
    PROVE  Agrees(Tail(q), v, x, p)
<1> DEFINE r == Tail(q)
<1>1. /\ Len(q) \in Nat /\ Len(q) > 0 /\ DOMAIN q = 1 .. Len(q) /\ DOMAIN r = 1 .. Len(q) - 1
      /\ Head(q) = q[1] /\ \A k \in 1 .. Len(q) - 1 : r[k] = q[k + 1]
  OBVIOUS
<1> HIDE DEF r
<1>2. CASE (\A k \in DOMAIN q : ~ Tells(q[k], p)) /\ (x # None <=> w # None)
  <2>1. \A k \in DOMAIN r : ~ Tells(r[k], p)
    BY <1>1, <1>2
  <2>2. v = w
    BY <1>1, <1>2
  <2> QED BY <1>2, <2>1, <2>2 DEF Agrees, r
<1>3. ASSUME NEW k \in DOMAIN q, LastTells(q, p, k), x # None <=> q[k].type = "player"
      PROVE  Agrees(r, v, x, p)
  <2>1. CASE k = 1
    <3>1. \A l \in DOMAIN r : ~ Tells(r[l], p)
      BY <1>1, <1>3, <2>1 DEF LastTells
    <3>2. v # None <=> q[1].type = "player"
      BY <1>1, <1>3, <2>1 DEF LastTells
    <3> QED BY <1>3, <2>1, <3>1, <3>2 DEF Agrees
  <2>2. CASE k > 1
    <3>1. k - 1 \in DOMAIN r /\ r[k - 1] = q[k]
      BY <1>1, <2>2
    <3>2. \A l \in DOMAIN r : l > k - 1 => ~ Tells(r[l], p)
      BY <1>1, <1>3, <2>2 DEF LastTells
    <3>3. LastTells(r, p, k - 1)
      BY <1>3, <3>1, <3>2 DEF LastTells
    <3> QED BY <1>3, <3>1, <3>3 DEF Agrees
  <2> QED BY <1>1, <2>1, <2>2
<1> QED BY <1>2, <1>3 DEF Agrees, r

LEMMA MatchesInit == Init => Matches
<1> SUFFICES ASSUME Init, NEW i \in Instances, NEW p \in Players
             PROVE  Agrees(worldbox[i], world[i][p], proxy[i][p], p)
  BY DEF Matches
<1>1. worldbox[i] = <<>> /\ world = proxy
  BY DEF Init
<1> QED BY <1>1 DEF Agrees

LEMMA MatchesNext == Typed /\ Matches /\ [Next]_vars => Matches'
<1> SUFFICES ASSUME Typed, Matches, [Next]_vars, NEW j \in Instances, NEW p \in Players
             PROVE  Agrees(worldbox[j], world[j][p], proxy[j][p], p)'
  BY DEF Matches
<1>0. /\ proxy \in [Instances -> [Players -> Data \union {None}]]
      /\ world \in [Instances -> [Players -> Data \union {None}]]
      /\ inbox \in [Instances -> Seq(InMsgs)] /\ worldbox \in [Instances -> Seq(WorldMsgs)]
      /\ worldbox[j] \in Seq(WorldMsgs) /\ Agrees(worldbox[j], world[j][p], proxy[j][p], p)
  BY DEF Typed, TypeOK, Boxes, Matches
<1> SUFFICES Agrees(worldbox'[j], world'[j][p], proxy'[j][p], p)
  OBVIOUS
<1>1. CASE UNCHANGED <<worldbox, world, proxy>>
  BY <1>0, <1>1
<1>2. ASSUME NEW q \in Players, NEW id \in Ids, ClientEnterWorld(q, id) PROVE UNCHANGED <<worldbox, world, proxy>>
  BY <1>2 DEF ClientEnterWorld, proxyVars
<1>3. ASSUME NEW q \in Players, ClientDisconnect(q) PROVE UNCHANGED <<worldbox, world, proxy>>
  BY <1>3 DEF ClientDisconnect, proxyVars
<1>4. ASSUME CreateWorld PROVE UNCHANGED <<worldbox, world, proxy>>
  BY <1>4 DEF CreateWorld, proxyVars
<1>5. ASSUME NEW i \in Instances, ProxyStep(i) PROVE Agrees(worldbox'[j], world'[j][p], proxy'[j][p], p)
  <2> DEFINE m == Head(inbox[i])
  <2>0. inbox[i] # <<>> /\ m \in InMsgs
    <3>1. inbox[i] # <<>>
      BY <1>5 DEF ProxyStep, HandleC2GEnterWorld, HandleS2GSyncPlayer, HandleBroadcastCreateWorldProxy,
                  HandleTeleport, HandleTeleportAfter, HandleNetworkDisconnect, ProxyForget, ProxyGets, Gets
    <3> QED BY <1>0, <3>1, DoneType
  <2>1. CASE HandleC2GEnterWorld(i)
    <3>1. m.p \in Players
      BY <2>0, <2>1, InFields DEF HandleC2GEnterWorld, ProxyGets, Gets
    <3>2. UNCHANGED <<world, proxy>> /\ (worldbox' = worldbox \/ worldbox' = Post(worldbox, i, Plain("reqsync", m.p)))
      BY <2>1 DEF HandleC2GEnterWorld
    <3> HIDE DEF m
    <3>3. Plain("reqsync", m.p) \in WorldMsgs /\ ~ Tells(Plain("reqsync", m.p), p)
      BY <3>1, WorldMade DEF Tells, Plain
    <3>4. worldbox'[j] = worldbox[j] \/ worldbox'[j] = Append(worldbox[j], Plain("reqsync", m.p))
      BY <1>0, <3>2, <3>3, PostWorld
    <3> QED BY <1>0, <3>2, <3>3, <3>4, AgreesAppend
  <2>2. CASE HandleS2GSyncPlayer(i)
    <3>1. m.p \in Players /\ m.data \in Data
      BY <2>0, <2>2, InFields DEF HandleS2GSyncPlayer, ProxyGets, Gets
    <3>2. /\ UNCHANGED <<world, worldbox>>
          /\ proxy' = proxy \/ (proxy[i][m.p] # None /\ proxy' = [proxy EXCEPT ![i][m.p] = m.data])
      BY <2>2 DEF HandleS2GSyncPlayer, Parsed, proxyVars
    <3> HIDE DEF m
    <3>3. proxy'[j][p] # None <=> proxy[j][p] # None
      <4>1. CASE proxy' = proxy
        BY <4>1
      <4>2. CASE proxy[i][m.p] # None /\ proxy' = [proxy EXCEPT ![i][m.p] = m.data]
        <5>1. proxy'[i][m.p] = m.data /\ (j # i \/ p # m.p => proxy'[j][p] = proxy[j][p])
          BY <1>0, <3>1, <4>2
        <5>2. m.data # None
          BY <3>1, NoneAssumption
        <5> QED BY <4>2, <5>1, <5>2
      <4> QED BY <3>2, <4>1, <4>2
    <3> QED BY <1>0, <3>2, <3>3 DEF Agrees
  <2>3. CASE HandleBroadcastCreateWorldProxy(i)
    BY <1>1, <2>3 DEF HandleBroadcastCreateWorldProxy
  <2>4. CASE HandleTeleport(i)
    <3>1. m.p \in Players /\ m.data \in Data
      BY <2>0, <2>4, InFields DEF HandleTeleport, ProxyGets, Gets
    <3>2. /\ UNCHANGED world
          /\ \/ UNCHANGED <<proxy, worldbox>>
             \/ /\ proxy' = [proxy EXCEPT ![i][m.p] = m.data]
                /\ worldbox' = Post(worldbox, i, [type |-> "player", p |-> m.p, data |-> m.data])
      BY <2>4 DEF HandleTeleport, AddPlayer
    <3> DEFINE e == [type |-> "player", p |-> m.p, data |-> m.data]
    <3>3. e \in WorldMsgs /\ e.type = "player" /\ e.p = m.p
      BY <3>1, WorldMade
    <3>4. CASE proxy' = [proxy EXCEPT ![i][m.p] = m.data] /\ worldbox' = Post(worldbox, i, e)
      <4> HIDE DEF e, m
      <4>1. /\ worldbox'[i] = Append(worldbox[i], e) /\ (j # i => worldbox'[j] = worldbox[j])
        BY <1>0, <3>3, <3>4, PostWorld
      <4>2. proxy'[i][m.p] = m.data /\ (j # i \/ p # m.p => proxy'[j][p] = proxy[j][p]) /\ m.data # None
        BY <1>0, <3>1, <3>4, NoneAssumption
      <4>3. Tells(e, p) <=> p = m.p
        BY <3>3 DEF Tells
      <4>4. CASE j # i
        BY <1>0, <3>2, <4>1, <4>2, <4>4
      <4>5. CASE j = i /\ p # m.p
        <5>1. Agrees(Append(worldbox[i], e), world[i][p], proxy[i][p], p)
          BY <1>0, <3>3, <4>3, <4>5, AgreesAppend
        <5> QED BY <3>2, <4>1, <4>2, <4>5, <5>1
      <4>6. CASE j = i /\ p = m.p
        <5>1. Agrees(Append(worldbox[i], e), world[i][p], proxy'[i][p], p)
          BY <1>0, <3>3, <4>2, <4>3, <4>6, AgreesAppend
        <5> QED BY <3>2, <4>1, <4>6, <5>1
      <4> QED BY <4>4, <4>5, <4>6
    <3> QED BY <1>1, <3>2, <3>4
  <2>5. ASSUME NEW type \in {"after", "drop"}, NEW tell \in {"remove", "leave"}, ProxyForget(i, type, tell)
        PROVE  Agrees(worldbox'[j], world'[j][p], proxy'[j][p], p)
    <3>1. m.p \in Players
      BY <2>0, <2>5, InFields DEF ProxyForget, ProxyGets, Gets
    <3> DEFINE e == Plain(tell, m.p)
    <3>2. /\ UNCHANGED world
          /\ \/ UNCHANGED <<proxy, worldbox>>
             \/ proxy' = [proxy EXCEPT ![i][m.p] = None] /\ worldbox' = Post(worldbox, i, e)
      BY <2>5 DEF ProxyForget, RemovePlayer, LetGo
    <3>3. e \in WorldMsgs /\ e.type \in {"remove", "leave"} /\ e.p = m.p
      BY <3>1, WorldMade DEF Plain
    <3>4. CASE proxy' = [proxy EXCEPT ![i][m.p] = None] /\ worldbox' = Post(worldbox, i, e)
      <4> HIDE DEF e, m
      <4>1. /\ worldbox'[i] = Append(worldbox[i], e) /\ (j # i => worldbox'[j] = worldbox[j])
        BY <1>0, <3>3, <3>4, PostWorld
      <4>2. proxy'[i][m.p] = None /\ (j # i \/ p # m.p => proxy'[j][p] = proxy[j][p])
        BY <1>0, <3>1, <3>4
      <4>3. (Tells(e, p) <=> p = m.p) /\ e.type # "player"
        BY <3>3 DEF Tells
      <4>4. CASE j # i
        BY <1>0, <3>2, <4>1, <4>2, <4>4
      <4>5. CASE j = i /\ p # m.p
        <5>1. Agrees(Append(worldbox[i], e), world[i][p], proxy[i][p], p)
          BY <1>0, <3>3, <4>3, <4>5, AgreesAppend
        <5> QED BY <3>2, <4>1, <4>2, <4>5, <5>1
      <4>6. CASE j = i /\ p = m.p
        <5>1. Agrees(Append(worldbox[i], e), world[i][p], proxy'[i][p], p)
          BY <1>0, <3>3, <4>2, <4>3, <4>6, AgreesAppend
        <5> QED BY <3>2, <4>1, <4>6, <5>1
      <4> QED BY <4>4, <4>5, <4>6
    <3> QED BY <1>1, <3>2, <3>4
  <2> QED BY <1>5, <2>1, <2>2, <2>3, <2>4, <2>5
       DEF ProxyStep, HandleTeleportAfter, HandleNetworkDisconnect
<1>6. ASSUME NEW i \in Instances, WorldStep(i) PROVE Agrees(worldbox'[j], world'[j][p], proxy'[j][p], p)
  <2> DEFINE m == Head(worldbox[i])
  <2>0. /\ worldbox[i] # <<>> /\ m \in WorldMsgs /\ worldbox' = Done(worldbox, i) /\ UNCHANGED proxy
        /\ worldbox'[i] = Tail(worldbox[i]) /\ (j # i => worldbox'[j] = worldbox[j])
    <3>1. worldbox[i] # <<>> /\ worldbox' = Done(worldbox, i) /\ UNCHANGED proxy
      BY <1>6 DEF WorldStep, HandleRequestSyncPlayer, HandleSyncPlayer, HandleRemovePlayer, Gets, proxyVars
    <3> QED BY <1>0, <3>1, DoneType
  <2>1. m.p \in Players /\ (m.type = "player" => m.data \in Data)
    BY <2>0, WorldFields
  <2>2. /\ j # i => world'[j][p] = world[j][p]
        /\ Tells(m, p) => (world'[i][p] # None <=> m.type = "player")
        /\ ~ Tells(m, p) => world'[i][p] = world[i][p]
    <3>1. CASE HandleRequestSyncPlayer(i)
      BY <3>1 DEF HandleRequestSyncPlayer, Gets, Tells
    <3>2. CASE HandleSyncPlayer(i)
      <4>1. m.type = "player" /\ m.data # None
        BY <2>1, <3>2, NoneAssumption DEF HandleSyncPlayer, Gets
      <4>2. \/ world[i][m.p] # None /\ world' = world
            \/ world[i][m.p] = None /\ world' = [world EXCEPT ![i][m.p] = m.data]
        BY <3>2 DEF HandleSyncPlayer, AddToWorld
      <4> HIDE DEF m
      <4>3. CASE world[i][m.p] # None /\ world' = world
        BY <4>1, <4>3 DEF Tells
      <4>4. CASE world[i][m.p] = None /\ world' = [world EXCEPT ![i][m.p] = m.data]
        <5>1. world'[i][m.p] = m.data /\ \A k \in Instances : k # i \/ p # m.p => world'[k][p] = world[k][p]
          BY <1>0, <2>1, <4>4
        <5> QED BY <4>1, <5>1 DEF Tells
      <4> QED BY <4>2, <4>3, <4>4
    <3>3. CASE HandleRemovePlayer(i)
      <4>1. m.type \in {"remove", "leave"} /\ world' = [world EXCEPT ![i][m.p] = None]
        BY <3>3 DEF HandleRemovePlayer, Gets, RemovePlayerBySn
      <4> HIDE DEF m
      <4>2. world'[i][m.p] = None /\ \A k \in Instances : k # i \/ p # m.p => world'[k][p] = world[k][p]
        BY <1>0, <2>1, <4>1
      <4> QED BY <4>1, <4>2 DEF Tells
    <3> QED BY <1>6, <3>1, <3>2, <3>3 DEF WorldStep
  <2>3. CASE j # i
    BY <1>0, <2>0, <2>2, <2>3
  <2>4. CASE j = i
    <3>1. Agrees(Tail(worldbox[i]), world'[i][p], proxy[i][p], p)
      BY <1>0, <2>0, <2>2, <2>4, AgreesTail
    <3> QED BY <2>0, <2>4, <3>1
  <2> QED BY <2>3, <2>4
<1>7. ASSUME NEW i \in Instances, NEW q \in Players, Gain(i, q)
      PROVE  Agrees(worldbox'[j], world'[j][p], proxy'[j][p], p)
  <2>1. /\ world[i][q] # None /\ world' = [world EXCEPT ![i][q] = @ + 1] /\ UNCHANGED <<worldbox, proxy>>
        /\ world[i][q] < MaxGain
    BY <1>7 DEF Gain, proxyVars
  <2>2. world[i][q] + 1 \in Data
    BY <1>0, <2>1, ConstantsAssumption DEF Data
  <2>3. world[i][q] + 1 # None
    BY <2>2, NoneAssumption
  <2>4. world'[j][p] # None <=> world[j][p] # None
    BY <1>0, <2>1, <2>3
  <2> QED BY <1>0, <2>1, <2>4 DEF Agrees
<1>8. CASE UNCHANGED vars
  BY <1>1, <1>8 DEF vars, proxyVars
<1> QED BY <1>1, <1>2, <1>3, <1>4, <1>5, <1>6, <1>7, <1>8 DEF Next

(***************************************************************************)
(* A proxy and its world hold the same players as soon as the messages     *)
(* between them are worked off, however clients ask, jump and disconnect.  *)
(***************************************************************************)
THEOREM MatchesCorrect == Spec => []ProxyMatchesWorld
<1>1. Spec => [](Typed /\ Matches)
  BY TypeInit, TypeNext, MatchesInit, MatchesNext, PTL DEF Spec
<1>2. Typed /\ Matches => ProxyMatchesWorld
  <2> SUFFICES ASSUME Typed, Matches, NEW i \in Instances, worldbox[i] = <<>>, NEW p \in Players
               PROVE  proxy[i][p] # None <=> world[i][p] # None
    BY DEF ProxyMatchesWorld
  <2>1. Agrees(worldbox[i], world[i][p], proxy[i][p], p) /\ DOMAIN worldbox[i] = {}
    BY DEF Matches
  <2> QED BY <2>1 DEF Agrees
<1> QED BY <1>1, <1>2, PTL

-----------------------------------------------------------------------------
(***************************************************************************)
(* Jumps, of clients that wait for their arrival (Patient) and stay        *)
(* connected (MaxDrop = 0).  Without the first a second jump starts in the *)
(* middle of one (MCTeleport_twice refutes OneWorld); with a disconnect a  *)
(* Player may be gone that an object needs (MCTeleport_crash).             *)
(***************************************************************************)
Is(m, type, p) == m.type = type /\ m.p = p
No(q, type, p) == \A k \in DOMAIN q : ~ Is(q[k], type, p)
One(q, type, p) == \A k, l \in DOMAIN q : Is(q[k], type, p) /\ Is(q[l], type, p) => k = l
Before(q, first, then, p) == \A k, l \in DOMAIN q : Is(q[k], first, p) /\ Is(q[l], then, p) => k < l

\* Nobody disconnects and no Player is missing.
NoDrops ==
    /\ online = Players /\ fault = FALSE /\ \A p \in Players : where[p] \in Instances
    /\ \A i \in Instances : /\ \A k \in DOMAIN inbox[i] : inbox[i][k].type # "drop"
                            /\ \A k \in DOMAIN worldbox[i] : worldbox[i][k].type # "leave"

\* The player is held by the proxy SocketLocator names; any other proxy that holds it
\* has been told to let go, once, and any other world is about to hear of it.
Left(p) ==
    /\ proxy[where[p]][p] # None /\ No(inbox[where[p]], "after", p)
    /\ \A i \in Instances : One(inbox[i], "after", p)
    /\ \A i \in Instances : i # where[p] =>
          /\ proxy[i][p] # None <=> ~ No(inbox[i], "after", p)
          /\ world[i][p] # None => ~ No(inbox[i], "after", p) \/ ~ No(worldbox[i], "remove", p)

\* A jump goes through four stages after rest: s, and t, the target that was sent to.
Asked(p, s) ==
    \A i \in Instances :
        /\ One(inbox[i], "enter", p)
        /\ \A k \in DOMAIN inbox[i] : Is(inbox[i][k], "enter", p) =>
              s = "asked" /\ i = where[p] /\ inbox[i][k].id # i.id
Jumping(p, s) ==
    /\ \A i \in Instances : objects[i][p] # None <=> s = "jump" /\ i = where[p]
    /\ s = "jump" =>
          /\ objects[where[p]][p].id # where[p].id
          /\ objects[where[p]][p].world # None => objects[where[p]][p].world.id = objects[where[p]][p].id
          /\ world[where[p]][p] >= base[p]
          /\ objects[where[p]][p].sync => proxy[where[p]][p] >= base[p]
Syncing(p, s) ==
    \A i \in Instances :
        /\ \A k \in DOMAIN inbox[i] : Is(inbox[i][k], "sync", p) => inbox[i][k].data >= base[p]
        /\ One(inbox[i], "sync", p) /\ One(worldbox[i], "reqsync", p)
        /\ No(inbox[i], "sync", p) \/ No(worldbox[i], "reqsync", p)
        /\ ~ No(inbox[i], "sync", p) \/ ~ No(worldbox[i], "reqsync", p) =>
              s = "jump" /\ i = where[p] /\ ~ objects[i][p].sync
Sent(p, s, t) ==
    /\ s = "sent" => t # where[p]
    /\ \A i \in Instances :
          /\ One(inbox[i], "teleport", p) /\ Before(inbox[i], "after", "teleport", p)
          /\ \A k \in DOMAIN inbox[i] : Is(inbox[i][k], "teleport", p) =>
                s = "sent" /\ i = t /\ inbox[i][k].from = where[p] /\ inbox[i][k].data >= base[p]
Entering(p, s) ==
    /\ s # "enter" => world[where[p]][p] # None /\ No(worldbox[where[p]], "remove", p)
    /\ s = "enter" => (world[where[p]][p] # None => ~ No(worldbox[where[p]], "remove", p))
    /\ \A i \in Instances :
          /\ One(worldbox[i], "player", p) /\ Before(worldbox[i], "remove", "player", p)
          /\ ~ No(worldbox[i], "player", p) => s = "enter" /\ i = where[p]
Stage(p, s, t) ==
    /\ s # "rest" => p \in waits
    /\ Asked(p, s) /\ Jumping(p, s) /\ Syncing(p, s) /\ Sent(p, s, t) /\ Entering(p, s)
Staged(p) == Left(p) /\ \E s \in {"rest", "asked", "jump", "sent", "enter"} : \E t \in Instances : Stage(p, s, t)
JumpInv == NoDrops /\ \A p \in Players : Staged(p)

(***************************************************************************)
(* Lists after a step: the messages of the types T about a player are the  *)
(* same, in the same order.                                                *)
(***************************************************************************)
Same(q, r, T, p) ==
    /\ \A type \in T :
          /\ No(q, type, p) <=> No(r, type, p)
          /\ One(q, type, p) => One(r, type, p)
          /\ \A k \in DOMAIN r : Is(r[k], type, p) => \E l \in DOMAIN q : q[l] = r[k]
    /\ \A a, b \in T : Before(q, a, b, p) => Before(r, a, b, p)

LEMMA SameSelf == \A q, T, p : Same(q, q, T, p)
BY DEF Same

LEMMA SameTwice ==
    ASSUME NEW q, NEW r, NEW u, NEW T, NEW p, Same(q, r, T, p), Same(r, u, T, p)
    PROVE  Same(q, u, T, p)
<1>1. ASSUME NEW type \in T, NEW k \in DOMAIN u, Is(u[k], type, p) PROVE \E l \in DOMAIN q : q[l] = u[k]
  <2>1. PICK l \in DOMAIN r : r[l] = u[k]
    BY <1>1 DEF Same
  <2> QED BY <1>1, <2>1 DEF Same
<1> QED BY <1>1 DEF Same

LEMMA SameLess ==
    ASSUME NEW q, NEW r, NEW T, NEW p, Same(q, r, T, p), NEW S \in SUBSET T
    PROVE  Same(q, r, S, p)
BY DEF Same

LEMMA TailParts ==
    ASSUME NEW M, NEW q \in Seq(M), q # <<>>, NEW p
    PROVE  /\ \A type : One(q, type, p) => One(Tail(q), type, p)
           /\ \A type : No(q, type, p) => No(Tail(q), type, p)
           /\ \A type : ~ Is(Head(q), type, p) => (No(q, type, p) <=> No(Tail(q), type, p))
           /\ \A type : One(q, type, p) /\ Is(Head(q), type, p) => No(Tail(q), type, p)
           /\ \A a, b : Before(q, a, b, p) => Before(Tail(q), a, b, p)
           /\ \A a, b : Before(q, a, b, p) /\ Is(Head(q), b, p) => No(q, a, p)
           /\ \A k \in DOMAIN Tail(q) : \E l \in DOMAIN q : q[l] = Tail(q)[k]
           /\ 1 \in DOMAIN q /\ q[1] = Head(q)
<1> DEFINE r == Tail(q)
<1>1. /\ Len(q) \in Nat /\ Len(q) > 0 /\ DOMAIN q = 1 .. Len(q) /\ DOMAIN r = 1 .. Len(q) - 1
      /\ Head(q) = q[1] /\ \A k \in 1 .. Len(q) - 1 : r[k] = q[k + 1]
  OBVIOUS
<1> HIDE DEF r
<1>2. \A k \in DOMAIN r : k \in Int /\ k + 1 \in DOMAIN q /\ r[k] = q[k + 1] /\ k + 1 # 1
  BY <1>1
<1>3. \A l \in DOMAIN q : l \in Int /\ (l = 1 \/ (l - 1 \in DOMAIN r /\ r[l - 1] = q[l]))
  BY <1>1
<1>4. 1 \in DOMAIN q /\ q[1] = Head(q)
  BY <1>1
<1>5. ASSUME NEW type, One(q, type, p) PROVE One(r, type, p)
  BY <1>2, <1>5 DEF One
<1>6. ASSUME NEW type, No(q, type, p) PROVE No(r, type, p)
  BY <1>2, <1>6 DEF No
<1>7. ASSUME NEW type, ~ Is(Head(q), type, p), No(r, type, p) PROVE No(q, type, p)
  BY <1>3, <1>4, <1>7 DEF No
<1>8. ASSUME NEW type, One(q, type, p), Is(Head(q), type, p) PROVE No(r, type, p)
  BY <1>2, <1>4, <1>8 DEF No, One
<1>9. ASSUME NEW a, NEW b, Before(q, a, b, p) PROVE Before(r, a, b, p)
  <2> SUFFICES ASSUME NEW k \in DOMAIN r, NEW l \in DOMAIN r, Is(r[k], a, p), Is(r[l], b, p) PROVE k < l
    BY DEF Before
  <2>1. k + 1 < l + 1
    BY <1>2, <1>9 DEF Before
  <2> QED BY <1>2, <2>1
<1>10. ASSUME NEW a, NEW b, Before(q, a, b, p), Is(Head(q), b, p) PROVE No(q, a, p)
  <2> SUFFICES ASSUME NEW k \in DOMAIN q, Is(q[k], a, p) PROVE FALSE
    BY DEF No
  <2>1. k < 1
    BY <1>4, <1>10 DEF Before
  <2> QED BY <1>1, <2>1
<1>11. \A k \in DOMAIN r : \E l \in DOMAIN q : q[l] = r[k]
  BY <1>2
<1> QED BY <1>4, <1>5, <1>6, <1>7, <1>8, <1>9, <1>10, <1>11 DEF r

LEMMA SameTail ==
    ASSUME NEW M, NEW q \in Seq(M), q # <<>>, NEW T, NEW p, \A type \in T : ~ Is(Head(q), type, p)
    PROVE  Same(q, Tail(q), T, p)
<1>1. /\ \A type : One(q, type, p) => One(Tail(q), type, p)
      /\ \A type : ~ Is(Head(q), type, p) => (No(q, type, p) <=> No(Tail(q), type, p))
      /\ \A a, b : Before(q, a, b, p) => Before(Tail(q), a, b, p)
      /\ \A k \in DOMAIN Tail(q) : \E l \in DOMAIN q : q[l] = Tail(q)[k]
  BY TailParts
<1> QED BY <1>1 DEF Same

LEMMA AppendParts ==
    ASSUME NEW M, NEW q \in Seq(M), NEW m \in M, NEW p
    PROVE  /\ \A type : No(Append(q, m), type, p) <=> No(q, type, p) /\ ~ Is(m, type, p)
           /\ \A type : One(q, type, p) /\ (Is(m, type, p) => No(q, type, p)) => One(Append(q, m), type, p)
           /\ \A a, b : Before(q, a, b, p) /\ (Is(m, a, p) => No(q, b, p)) /\ a # b => Before(Append(q, m), a, b, p)
           /\ \A k \in DOMAIN Append(q, m) : Append(q, m)[k] = m \/ \E l \in DOMAIN q : q[l] = Append(q, m)[k]
<1> DEFINE r == Append(q, m)
           n == Len(q) + 1
<1>1. /\ Len(q) \in Nat /\ DOMAIN q = 1 .. Len(q) /\ DOMAIN r = 1 .. Len(q) + 1
      /\ r[Len(q) + 1] = m /\ \A k \in 1 .. Len(q) : r[k] = q[k]
  OBVIOUS
<1> HIDE DEF r
<1>2. n \in DOMAIN r /\ r[n] = m /\ n \notin DOMAIN q
  BY <1>1
<1>3. \A k \in DOMAIN q : k \in DOMAIN r /\ r[k] = q[k] /\ k < n
  BY <1>1
<1>4. \A k \in DOMAIN r : k = n \/ (k \in DOMAIN q /\ r[k] = q[k])
  BY <1>1
<1> HIDE DEF n
<1>5. ASSUME NEW type PROVE No(r, type, p) <=> No(q, type, p) /\ ~ Is(m, type, p)
  BY <1>2, <1>3, <1>4 DEF No
<1>6. ASSUME NEW type, One(q, type, p), Is(m, type, p) => No(q, type, p) PROVE One(r, type, p)
  BY <1>2, <1>4, <1>6 DEF No, One
<1>7. ASSUME NEW a, NEW b, Before(q, a, b, p), Is(m, a, p) => No(q, b, p), a # b PROVE Before(r, a, b, p)
  <2> SUFFICES ASSUME NEW k \in DOMAIN r, NEW l \in DOMAIN r, Is(r[k], a, p), Is(r[l], b, p) PROVE k < l
    BY DEF Before
  <2>1. CASE k = n /\ l = n
    BY <1>2, <1>7, <2>1 DEF Is
  <2>2. CASE k = n /\ l \in DOMAIN q /\ r[l] = q[l]
    BY <1>2, <1>7, <2>2 DEF No
  <2>3. CASE k \in DOMAIN q /\ r[k] = q[k] /\ l = n
    BY <1>3, <2>3
  <2>4. CASE k \in DOMAIN q /\ r[k] = q[k] /\ l \in DOMAIN q /\ r[l] = q[l]
    BY <1>7, <2>4 DEF Before
  <2> QED BY <1>4, <2>1, <2>2, <2>3, <2>4
<1>8. \A k \in DOMAIN r : r[k] = m \/ \E l \in DOMAIN q : q[l] = r[k]
  BY <1>2, <1>4
<1> QED BY <1>5, <1>6, <1>7, <1>8 DEF r

\* Appending what is of no type of T for the player.
LEMMA SameConcat ==
    ASSUME NEW M, NEW q \in Seq(M), NEW e \in Seq(M), NEW T, NEW p,
           \A type \in T : \A k \in DOMAIN e : ~ Is(e[k], type, p)
    PROVE  Same(q, q \o e, T, p)
<1> DEFINE r == q \o e
<1>1. /\ Len(q) \in Nat /\ Len(e) \in Nat /\ DOMAIN q = 1 .. Len(q) /\ DOMAIN e = 1 .. Len(e)
      /\ DOMAIN r = 1 .. Len(q) + Len(e)
      /\ \A k \in 1 .. Len(q) : r[k] = q[k]
      /\ \A k \in Len(q) + 1 .. Len(q) + Len(e) : r[k] = e[k - Len(q)]
  OBVIOUS
<1> HIDE DEF r
<1>2. \A k \in DOMAIN q : k \in DOMAIN r /\ r[k] = q[k]
  BY <1>1
<1>3. ASSUME NEW k \in DOMAIN r PROVE (k \in DOMAIN q /\ r[k] = q[k]) \/ \A type \in T : ~ Is(r[k], type, p)
  <2>1. CASE k \in DOMAIN q
    BY <1>2, <2>1
  <2>2. CASE k \notin DOMAIN q
    <3>1. k \in Len(q) + 1 .. Len(q) + Len(e) /\ k - Len(q) \in DOMAIN e
      BY <1>1, <2>2
    <3> QED BY <1>1, <3>1
  <2> QED BY <2>1, <2>2
<1>4. ASSUME NEW type \in T
      PROVE  /\ No(q, type, p) <=> No(r, type, p)
             /\ One(q, type, p) => One(r, type, p)
             /\ \A k \in DOMAIN r : Is(r[k], type, p) => \E l \in DOMAIN q : q[l] = r[k]
  BY <1>2, <1>3 DEF No, One
<1>5. ASSUME NEW a \in T, NEW b \in T, Before(q, a, b, p) PROVE Before(r, a, b, p)
  BY <1>3, <1>5 DEF Before
<1> QED BY <1>4, <1>5 DEF Same, r

LEMMA SameAppend ==
    ASSUME NEW M, NEW q \in Seq(M), NEW m \in M, NEW T, NEW p, \A type \in T : ~ Is(m, type, p)
    PROVE  Same(q, Append(q, m), T, p)
<1>1. <<m>> \in Seq(M) /\ Append(q, m) = q \o <<m>> /\ DOMAIN <<m>> = {1} /\ <<m>>[1] = m
  OBVIOUS
<1>2. \A type \in T : \A k \in DOMAIN <<m>> : ~ Is(<<m>>[k], type, p)
  BY <1>1
<1>3. Same(q, q \o <<m>>, T, p)
  BY <1>1, <1>2, SameConcat
<1> QED BY <1>1, <1>3

(***************************************************************************)
(* What a step leaves of a player's stage.                                 *)
(***************************************************************************)
LEMMA FrameLeft ==
    ASSUME NEW p \in Players, Left(p), where[p] \in Instances, where'[p] = where[p],
           \A i \in Instances : /\ Same(inbox[i], inbox'[i], {"after"}, p)
                                /\ Same(worldbox[i], worldbox'[i], {"remove"}, p)
                                /\ proxy'[i][p] # None <=> proxy[i][p] # None
                                /\ world'[i][p] # None => world[i][p] # None
    PROVE  Left(p)'
<1>1. ASSUME NEW i \in Instances
      PROVE  /\ No(inbox[i], "after", p) <=> No(inbox'[i], "after", p)
             /\ One(inbox[i], "after", p) => One(inbox'[i], "after", p)
             /\ No(worldbox[i], "remove", p) <=> No(worldbox'[i], "remove", p)
  BY DEF Same
<1>2. proxy'[where[p]][p] # None /\ No(inbox'[where[p]], "after", p)
  BY <1>1 DEF Left
<1>3. \A i \in Instances : One(inbox'[i], "after", p)
  BY <1>1 DEF Left
<1>4. ASSUME NEW i \in Instances, i # where[p]
      PROVE  /\ proxy'[i][p] # None <=> ~ No(inbox'[i], "after", p)
             /\ world'[i][p] # None => ~ No(inbox'[i], "after", p) \/ ~ No(worldbox'[i], "remove", p)
  BY <1>1, <1>4 DEF Left
<1> QED BY <1>2, <1>3, <1>4 DEF Left

LEMMA FrameAsked ==
    ASSUME NEW p \in Players, NEW s, NEW s2, Asked(p, s), where'[p] = where[p], s2 = s \/ s # "asked",
           \A i \in Instances : Same(inbox[i], inbox'[i], {"enter"}, p)
    PROVE  Asked(p, s2)'
<1> SUFFICES ASSUME NEW i \in Instances
             PROVE  /\ One(inbox'[i], "enter", p)
                    /\ \A k \in DOMAIN inbox'[i] : Is(inbox'[i][k], "enter", p) =>
                          s2 = "asked" /\ i = where[p] /\ inbox'[i][k].id # i.id
  BY DEF Asked
<1>1. One(inbox'[i], "enter", p)
  BY DEF Asked, Same
<1>2. ASSUME NEW k \in DOMAIN inbox'[i], Is(inbox'[i][k], "enter", p)
      PROVE  s2 = "asked" /\ i = where[p] /\ inbox'[i][k].id # i.id
  <2>1. PICK l \in DOMAIN inbox[i] : inbox[i][l] = inbox'[i][k]
    BY <1>2 DEF Same
  <2> QED BY <1>2, <2>1 DEF Asked
<1> QED BY <1>1, <1>2

LEMMA FrameJumping ==
    ASSUME NEW p \in Players, NEW s, NEW s2, Jumping(p, s), where'[p] = where[p], base'[p] = base[p],
           where[p] \in Instances, s2 = s \/ (s # "jump" /\ s2 # "jump"),
           \A i \in Instances : /\ objects'[i][p] = objects[i][p] /\ proxy'[i][p] = proxy[i][p]
                                /\ world'[i][p] = world[i][p]
    PROVE  Jumping(p, s2)'
BY DEF Jumping

LEMMA FrameSyncing ==
    ASSUME NEW p \in Players, NEW s, NEW s2, Syncing(p, s), where'[p] = where[p], base'[p] = base[p],
           s2 = s \/ s # "jump",
           \A i \in Instances : /\ Same(inbox[i], inbox'[i], {"sync"}, p) /\ objects'[i][p].sync = objects[i][p].sync
                                /\ Same(worldbox[i], worldbox'[i], {"reqsync"}, p)
    PROVE  Syncing(p, s2)'
<1> SUFFICES ASSUME NEW i \in Instances
             PROVE  /\ \A k \in DOMAIN inbox'[i] : Is(inbox'[i][k], "sync", p) => inbox'[i][k].data >= base[p]
                    /\ One(inbox'[i], "sync", p) /\ One(worldbox'[i], "reqsync", p)
                    /\ No(inbox'[i], "sync", p) \/ No(worldbox'[i], "reqsync", p)
                    /\ ~ No(inbox'[i], "sync", p) \/ ~ No(worldbox'[i], "reqsync", p) =>
                          s2 = "jump" /\ i = where[p] /\ ~ objects[i][p].sync
  BY DEF Syncing
<1>1. /\ No(inbox[i], "sync", p) <=> No(inbox'[i], "sync", p)
      /\ No(worldbox[i], "reqsync", p) <=> No(worldbox'[i], "reqsync", p)
      /\ One(inbox'[i], "sync", p) /\ One(worldbox'[i], "reqsync", p)
  BY DEF Same, Syncing
<1>2. ASSUME NEW k \in DOMAIN inbox'[i], Is(inbox'[i][k], "sync", p) PROVE inbox'[i][k].data >= base[p]
  <2>1. PICK l \in DOMAIN inbox[i] : inbox[i][l] = inbox'[i][k]
    BY <1>2 DEF Same
  <2> QED BY <1>2, <2>1 DEF Syncing
<1> QED BY <1>1, <1>2 DEF Syncing

LEMMA FrameSent ==
    ASSUME NEW p \in Players, NEW s, NEW s2, NEW t, NEW t2, Sent(p, s, t), where'[p] = where[p], base'[p] = base[p],
           (s2 = s /\ t2 = t) \/ (s # "sent" /\ s2 # "sent"),
           \A i \in Instances : Same(inbox[i], inbox'[i], {"after", "teleport"}, p)
    PROVE  Sent(p, s2, t2)'
<1>1. s2 = "sent" => t2 # where[p]
  BY DEF Sent
<1> SUFFICES ASSUME NEW i \in Instances
             PROVE  /\ One(inbox'[i], "teleport", p) /\ Before(inbox'[i], "after", "teleport", p)
                    /\ \A k \in DOMAIN inbox'[i] : Is(inbox'[i][k], "teleport", p) =>
                          /\ s2 = "sent" /\ i = t2 /\ inbox'[i][k].from = where[p]
                          /\ inbox'[i][k].data >= base[p]
  BY <1>1 DEF Sent
<1>2. One(inbox'[i], "teleport", p) /\ Before(inbox'[i], "after", "teleport", p)
  BY DEF Sent, Same
<1>3. ASSUME NEW k \in DOMAIN inbox'[i], Is(inbox'[i][k], "teleport", p)
      PROVE  s2 = "sent" /\ i = t2 /\ inbox'[i][k].from = where[p] /\ inbox'[i][k].data >= base[p]
  <2>1. PICK l \in DOMAIN inbox[i] : inbox[i][l] = inbox'[i][k]
    BY <1>3 DEF Same
  <2> QED BY <1>3, <2>1 DEF Sent
<1> QED BY <1>2, <1>3

LEMMA FrameEntering ==
    ASSUME NEW p \in Players, NEW s, NEW s2, Entering(p, s), where'[p] = where[p], where[p] \in Instances,
           s2 = s \/ (s # "enter" /\ s2 # "enter"),
           \A i \in Instances : /\ Same(worldbox[i], worldbox'[i], {"remove", "player"}, p)
                                /\ world'[i][p] # None <=> world[i][p] # None
    PROVE  Entering(p, s2)'
<1>1. ASSUME NEW i \in Instances
      PROVE  /\ No(worldbox[i], "remove", p) <=> No(worldbox'[i], "remove", p)
             /\ No(worldbox[i], "player", p) <=> No(worldbox'[i], "player", p)
             /\ One(worldbox'[i], "player", p) /\ Before(worldbox'[i], "remove", "player", p)
  BY DEF Same, Entering
<1> QED BY <1>1 DEF Entering

InKinds == {"enter", "after", "sync", "teleport"}
WorldKinds == {"reqsync", "remove", "player"}
\* A step that is not about the player.
Untouched(p) ==
    /\ where'[p] = where[p] /\ base'[p] = base[p] /\ (p \in waits => p \in waits')
    /\ \A i \in Instances : /\ Same(inbox[i], inbox'[i], InKinds, p)
                            /\ Same(worldbox[i], worldbox'[i], WorldKinds, p)
                            /\ proxy'[i][p] = proxy[i][p] /\ world'[i][p] = world[i][p]
                            /\ objects'[i][p] = objects[i][p]

LEMMA FrameAll ==
    ASSUME NEW p \in Players, where[p] \in Instances, Staged(p), Untouched(p)
    PROVE  Staged(p)'
<1>0. /\ where'[p] = where[p] /\ base'[p] = base[p] /\ (p \in waits => p \in waits')
      /\ \A i \in Instances : /\ Same(inbox[i], inbox'[i], InKinds, p)
                              /\ Same(worldbox[i], worldbox'[i], WorldKinds, p)
                              /\ proxy'[i][p] = proxy[i][p] /\ world'[i][p] = world[i][p]
                              /\ objects'[i][p] = objects[i][p]
  BY DEF Untouched
<1>1. ASSUME NEW i \in Instances
      PROVE  /\ Same(inbox[i], inbox'[i], {"after"}, p) /\ Same(inbox[i], inbox'[i], {"enter"}, p)
             /\ Same(inbox[i], inbox'[i], {"sync"}, p) /\ Same(inbox[i], inbox'[i], {"after", "teleport"}, p)
             /\ Same(worldbox[i], worldbox'[i], {"remove"}, p)
             /\ Same(worldbox[i], worldbox'[i], {"reqsync"}, p)
             /\ Same(worldbox[i], worldbox'[i], {"remove", "player"}, p)
  <2>1. /\ {"after"} \subseteq InKinds /\ {"enter"} \subseteq InKinds /\ {"sync"} \subseteq InKinds
        /\ {"after", "teleport"} \subseteq InKinds
        /\ {"remove"} \subseteq WorldKinds /\ {"reqsync"} \subseteq WorldKinds
        /\ {"remove", "player"} \subseteq WorldKinds
    BY DEF InKinds, WorldKinds
  <2>2. Same(inbox[i], inbox'[i], InKinds, p) /\ Same(worldbox[i], worldbox'[i], WorldKinds, p)
    BY <1>0
  <2> QED BY <2>1, <2>2, SameLess
<1>2. Left(p)'
  BY <1>0, <1>1, FrameLeft DEF Staged
<1>3. PICK s \in {"rest", "asked", "jump", "sent", "enter"} : \E t \in Instances : Stage(p, s, t)
  BY DEF Staged
<1>4. PICK t \in Instances : Stage(p, s, t)
  BY <1>3
<1>5. Asked(p, s) /\ Jumping(p, s) /\ Syncing(p, s) /\ Sent(p, s, t) /\ Entering(p, s) /\ (s # "rest" => p \in waits)
  BY <1>4 DEF Stage
<1>6. Asked(p, s)'
  BY <1>0, <1>1, <1>5, FrameAsked
<1>7. Jumping(p, s)'
  BY <1>0, <1>5, FrameJumping
<1>8. Syncing(p, s)'
  BY <1>0, <1>1, <1>5, FrameSyncing
<1>9. Sent(p, s, t)'
  BY <1>0, <1>1, <1>5, FrameSent
<1>10. Entering(p, s)'
  BY <1>0, <1>1, <1>5, FrameEntering
<1>11. Stage(p, s, t)'
  BY <1>0, <1>5, <1>6, <1>7, <1>8, <1>9, <1>10 DEF Stage
<1> QED BY <1>2, <1>11 DEF Staged

LEMMA DoneSame ==
    ASSUME NEW M, NEW box \in [Instances -> Seq(M)], NEW i \in Instances, box[i] # <<>>, NEW T, NEW p,
           \A type \in T : ~ Is(Head(box[i]), type, p)
    PROVE  \A j \in Instances : Same(box[j], Done(box, i)[j], T, p)
<1>1. Done(box, i)[i] = Tail(box[i]) /\ \A j \in Instances : j # i => Done(box, i)[j] = box[j]
  BY DEF Done
<1>2. box[i] \in Seq(M)
  OBVIOUS
<1>3. Same(box[i], Tail(box[i]), T, p)
  BY <1>2, SameTail
<1> QED BY <1>1, <1>3, SameSelf

LEMMA PostSame ==
    ASSUME NEW M, NEW box \in [Instances -> Seq(M)], NEW i \in Instances, NEW m \in M, NEW T, NEW p,
           \A type \in T : ~ Is(m, type, p)
    PROVE  \A j \in Instances : Same(box[j], Post(box, i, m)[j], T, p)
<1>1. Post(box, i, m)[i] = Append(box[i], m) /\ \A j \in Instances : j # i => Post(box, i, m)[j] = box[j]
  BY DEF Post
<1>2. box[i] \in Seq(M)
  OBVIOUS
<1>3. Same(box[i], Append(box[i], m), T, p)
  BY <1>2, SameAppend
<1> QED BY <1>1, <1>3, SameSelf

\* The same for the two kinds of lists, and for a message handled and another posted.
LEMMA InboxSame ==
    ASSUME inbox \in [Instances -> Seq(InMsgs)], NEW i \in Instances, NEW T, NEW p
    PROVE  /\ \A m \in InMsgs : (\A type \in T : ~ Is(m, type, p)) =>
                 \A j \in Instances : Same(inbox[j], Post(inbox, i, m)[j], T, p)
           /\ inbox[i] # <<>> /\ (\A type \in T : ~ Is(Head(inbox[i]), type, p)) =>
                 \A j \in Instances : Same(inbox[j], Done(inbox, i)[j], T, p)
           /\ inbox[i] # <<>> /\ (\A type \in T : ~ Is(Head(inbox[i]), type, p)) =>
                 \A w \in Instances, m \in InMsgs : (\A type \in T : ~ Is(m, type, p)) =>
                    \A j \in Instances : Same(inbox[j], Post(Done(inbox, i), w, m)[j], T, p)
<1>1. ASSUME NEW m \in InMsgs, \A type \in T : ~ Is(m, type, p)
      PROVE  \A j \in Instances : Same(inbox[j], Post(inbox, i, m)[j], T, p)
  BY <1>1, PostSame
<1>2. ASSUME inbox[i] # <<>>, \A type \in T : ~ Is(Head(inbox[i]), type, p)
      PROVE  \A j \in Instances : Same(inbox[j], Done(inbox, i)[j], T, p)
  BY <1>2, DoneSame
<1>3. ASSUME inbox[i] # <<>>, \A type \in T : ~ Is(Head(inbox[i]), type, p),
             NEW w \in Instances, NEW m \in InMsgs, \A type \in T : ~ Is(m, type, p), NEW j \in Instances
      PROVE  Same(inbox[j], Post(Done(inbox, i), w, m)[j], T, p)
  <2>1. Done(inbox, i) \in [Instances -> Seq(InMsgs)]
    BY <1>3, DoneType
  <2>2. \A k \in Instances : Same(Done(inbox, i)[k], Post(Done(inbox, i), w, m)[k], T, p)
    BY <1>3, <2>1, PostSame
  <2>3. Same(inbox[j], Done(inbox, i)[j], T, p) /\ Same(Done(inbox, i)[j], Post(Done(inbox, i), w, m)[j], T, p)
    BY <1>2, <1>3, <2>2
  <2> QED BY <2>3, SameTwice
<1> QED BY <1>1, <1>2, <1>3

LEMMA WorldboxSame ==
    ASSUME worldbox \in [Instances -> Seq(WorldMsgs)], NEW i \in Instances, NEW T, NEW p
    PROVE  /\ \A m \in WorldMsgs : (\A type \in T : ~ Is(m, type, p)) =>
                 \A j \in Instances : Same(worldbox[j], Post(worldbox, i, m)[j], T, p)
           /\ worldbox[i] # <<>> /\ (\A type \in T : ~ Is(Head(worldbox[i]), type, p)) =>
                 \A j \in Instances : Same(worldbox[j], Done(worldbox, i)[j], T, p)
<1>1. ASSUME NEW m \in WorldMsgs, \A type \in T : ~ Is(m, type, p)
      PROVE  \A j \in Instances : Same(worldbox[j], Post(worldbox, i, m)[j], T, p)
  BY <1>1, PostSame
<1>2. ASSUME worldbox[i] # <<>>, \A type \in T : ~ Is(Head(worldbox[i]), type, p)
      PROVE  \A j \in Instances : Same(worldbox[j], Done(worldbox, i)[j], T, p)
  BY <1>2, DoneSame
<1> QED BY <1>1, <1>2

\* The types, for the steps below.
LEMMA TypeFacts ==
    ASSUME Typed
    PROVE  /\ exists \subseteq Instances
           /\ proxy \in [Instances -> [Players -> Data \union {None}]]
           /\ world \in [Instances -> [Players -> Data \union {None}]]
           /\ objects \in [Instances -> [Players -> TeleportObjects \union {None}]]
           /\ inbox \in [Instances -> Seq(InMsgs)] /\ worldbox \in [Instances -> Seq(WorldMsgs)]
           /\ base \in [Players -> Data] /\ Data \subseteq Int /\ None \notin Data
           /\ where \in [Players -> Instances \union {None}]
BY NoneAssumption DEF Typed, TypeOK, Boxes, Data

\* The step of a client that asks.
LEMMA AskStep ==
    ASSUME Typed, JumpInv, Patient, NEW p \in Players, NEW id \in Ids, ClientEnterWorld(p, id)
    PROVE  Staged(p)'
<1>0. where[p] \in Instances /\ Staged(p)
  BY DEF JumpInv, NoDrops
<1>1. PICK s \in {"rest", "asked", "jump", "sent", "enter"} : \E t \in Instances : Stage(p, s, t)
  BY <1>0 DEF Staged
<1>2. PICK t \in Instances : Stage(p, s, t)
  BY <1>1
<1>3. s = "rest"
  BY <1>2 DEF ClientEnterWorld, Stage
<1>4. Asked(p, s) /\ Jumping(p, s) /\ Syncing(p, s) /\ Sent(p, s, t) /\ Entering(p, s) /\ Left(p)
  BY <1>0, <1>2 DEF Stage, Staged
<1> DEFINE m == [type |-> "enter", p |-> p, id |-> id]
           h == where[p]
<1>5. /\ inbox' = Post(inbox, h, m) /\ waits' = waits \union {p} /\ id # h.id
      /\ UNCHANGED <<worldbox, proxy, objects, world, where, base>>
  BY DEF ClientEnterWorld, proxyVars
<1>6. /\ inbox \in [Instances -> Seq(InMsgs)] /\ m \in InMsgs /\ m.type = "enter" /\ m.p = p /\ m.id = id
  BY TypeFacts, InMade
<1> HIDE DEF m
<1>7. \A i \in Instances : /\ Same(inbox[i], inbox'[i], {"after"}, p) /\ Same(inbox[i], inbox'[i], {"sync"}, p)
                           /\ Same(inbox[i], inbox'[i], {"after", "teleport"}, p)
                           /\ \A T : Same(worldbox[i], worldbox'[i], T, p)
  <2>1. \A type \in {"after", "teleport", "sync"} : ~ Is(m, type, p)
    BY <1>6 DEF Is
  <2>2. \A i \in Instances : Same(inbox[i], Post(inbox, h, m)[i], {"after", "teleport", "sync"}, p)
    BY <1>0, <1>6, <2>1, InboxSame
  <2>3. /\ {"after"} \subseteq {"after", "teleport", "sync"} /\ {"sync"} \subseteq {"after", "teleport", "sync"}
        /\ {"after", "teleport"} \subseteq {"after", "teleport", "sync"}
    OBVIOUS
  <2> QED BY <1>5, <2>2, <2>3, SameLess, SameSelf
<1>8. Left(p)'
  BY <1>0, <1>4, <1>5, <1>7, FrameLeft
<1>9. Jumping(p, "asked")'
  BY <1>0, <1>3, <1>4, <1>5, FrameJumping
<1>10. Syncing(p, "asked")'
  BY <1>3, <1>4, <1>5, <1>7, FrameSyncing
<1>11. Sent(p, "asked", t)'
  BY <1>3, <1>4, <1>5, <1>7, FrameSent
<1>12. Entering(p, "asked")'
  BY <1>0, <1>3, <1>4, <1>5, <1>7, FrameEntering
<1>13. Asked(p, "asked")'
  <2>1. \A i \in Instances : No(inbox[i], "enter", p)
    BY <1>3, <1>4 DEF Asked, No
  <2>2. /\ One(inbox[h], "enter", p) /\ inbox[h] \in Seq(InMsgs)
    BY <1>0, <1>4, <1>6 DEF Asked
  <2>3. /\ One(Append(inbox[h], m), "enter", p)
        /\ \A k \in DOMAIN Append(inbox[h], m) :
              Append(inbox[h], m)[k] = m \/ \E l \in DOMAIN inbox[h] : inbox[h][l] = Append(inbox[h], m)[k]
    <3>1. /\ \A type : One(inbox[h], type, p) /\ (Is(m, type, p) => No(inbox[h], type, p))
                => One(Append(inbox[h], m), type, p)
          /\ \A k \in DOMAIN Append(inbox[h], m) :
                Append(inbox[h], m)[k] = m \/ \E l \in DOMAIN inbox[h] : inbox[h][l] = Append(inbox[h], m)[k]
      <4>1. PICK q \in Seq(InMsgs) : q = inbox[h]
        BY <2>2
      <4>2. m \in InMsgs
        BY <1>6
      <4>3. /\ \A type : One(q, type, p) /\ (Is(m, type, p) => No(q, type, p)) => One(Append(q, m), type, p)
            /\ \A k \in DOMAIN Append(q, m) : Append(q, m)[k] = m \/ \E l \in DOMAIN q : q[l] = Append(q, m)[k]
        BY <4>2, AppendParts
      <4> QED BY <4>1, <4>3
    <3> QED BY <1>0, <2>1, <2>2, <3>1
  <2>4. inbox'[h] = Append(inbox[h], m) /\ \A i \in Instances : i # h => inbox'[i] = inbox[i]
    BY <1>0, <1>5, <1>6, PostInbox
  <2>5. ASSUME NEW i \in Instances, i # h PROVE No(inbox'[i], "enter", p)
    BY <2>1, <2>4, <2>5
  <2>6. ASSUME NEW k \in DOMAIN inbox'[h], Is(inbox'[h][k], "enter", p) PROVE inbox'[h][k] = m
    <3>1. ~ \E l \in DOMAIN inbox[h] : inbox[h][l] = inbox'[h][k]
      BY <1>0, <2>1, <2>6 DEF No
    <3> QED BY <2>3, <2>4, <2>6, <3>1
  <2> SUFFICES ASSUME NEW i \in Instances
               PROVE  /\ One(inbox'[i], "enter", p)
                      /\ \A k \in DOMAIN inbox'[i] : Is(inbox'[i][k], "enter", p) =>
                            i = h /\ inbox'[i][k].id # i.id
    BY <1>5 DEF Asked
  <2>7. CASE i = h
    BY <1>5, <1>6, <2>3, <2>4, <2>6, <2>7
  <2>8. CASE i # h
    BY <2>5, <2>8 DEF No, One
  <2> QED BY <2>7, <2>8
<1>14. Stage(p, "asked", t)' 
  BY <1>5, <1>9, <1>10, <1>11, <1>12, <1>13 DEF Stage
<1> QED BY <1>8, <1>14 DEF Staged

\* What the head of a list means, and the list without it.
LEMMA InboxTail ==
    ASSUME inbox \in [Instances -> Seq(InMsgs)], NEW i \in Instances, inbox[i] # <<>>, NEW p
    PROVE  /\ Head(inbox[i]) \in InMsgs /\ \E k \in DOMAIN inbox[i] : inbox[i][k] = Head(inbox[i])
           /\ Done(inbox, i) \in [Instances -> Seq(InMsgs)]
           /\ Done(inbox, i)[i] = Tail(inbox[i])
           /\ \A j \in Instances : j # i => Done(inbox, i)[j] = inbox[j]
           /\ \A type : One(inbox[i], type, p) /\ Is(Head(inbox[i]), type, p) => No(Tail(inbox[i]), type, p)
           /\ \A j \in Instances :
                 /\ \A type : No(inbox[j], type, p) => No(Done(inbox, i)[j], type, p)
                 /\ \A type : One(inbox[j], type, p) => One(Done(inbox, i)[j], type, p)
                 /\ \A a, b : Before(inbox[j], a, b, p) => Before(Done(inbox, i)[j], a, b, p)
                 /\ \A k \in DOMAIN Done(inbox, i)[j] : \E l \in DOMAIN inbox[j] : inbox[j][l] = Done(inbox, i)[j][k]
<1>1. PICK q \in Seq(InMsgs) : q = inbox[i]
  OBVIOUS
<1>2. q # <<>>
  BY <1>1
<1>3. /\ \A type : One(q, type, p) => One(Tail(q), type, p)
      /\ \A type : No(q, type, p) => No(Tail(q), type, p)
      /\ \A type : One(q, type, p) /\ Is(Head(q), type, p) => No(Tail(q), type, p)
      /\ \A a, b : Before(q, a, b, p) => Before(Tail(q), a, b, p)
      /\ \A k \in DOMAIN Tail(q) : \E l \in DOMAIN q : q[l] = Tail(q)[k]
      /\ 1 \in DOMAIN q /\ q[1] = Head(q)
  BY <1>2, TailParts
<1>4. /\ Done(inbox, i) \in [Instances -> Seq(InMsgs)] /\ Head(inbox[i]) \in InMsgs
      /\ Done(inbox, i)[i] = Tail(inbox[i])
      /\ \A j \in Instances : j # i => Done(inbox, i)[j] = inbox[j]
  BY DoneType
<1>5. ASSUME NEW j \in Instances
      PROVE  /\ \A type : No(inbox[j], type, p) => No(Done(inbox, i)[j], type, p)
             /\ \A type : One(inbox[j], type, p) => One(Done(inbox, i)[j], type, p)
             /\ \A a, b : Before(inbox[j], a, b, p) => Before(Done(inbox, i)[j], a, b, p)
             /\ \A k \in DOMAIN Done(inbox, i)[j] : \E l \in DOMAIN inbox[j] : inbox[j][l] = Done(inbox, i)[j][k]
  <2>1. CASE j = i
    <3>1. Done(inbox, i)[j] = Tail(q) /\ inbox[j] = q
      BY <1>1, <1>4, <2>1
    <3> QED BY <1>3, <3>1
  <2>2. CASE j # i
    BY <1>4, <2>2
  <2> QED BY <2>1, <2>2
<1> QED BY <1>1, <1>3, <1>4, <1>5

LEMMA WorldboxTail ==
    ASSUME worldbox \in [Instances -> Seq(WorldMsgs)], NEW i \in Instances, worldbox[i] # <<>>, NEW p
    PROVE  /\ Head(worldbox[i]) \in WorldMsgs /\ \E k \in DOMAIN worldbox[i] : worldbox[i][k] = Head(worldbox[i])
           /\ Done(worldbox, i)[i] = Tail(worldbox[i])
           /\ \A j \in Instances : j # i => Done(worldbox, i)[j] = worldbox[j]
           /\ \A type : One(worldbox[i], type, p) /\ Is(Head(worldbox[i]), type, p) => No(Tail(worldbox[i]), type, p)
           /\ \A a, b : Before(worldbox[i], a, b, p) /\ Is(Head(worldbox[i]), b, p) => No(worldbox[i], a, p)
           /\ \A j \in Instances :
                 /\ \A type : No(worldbox[j], type, p) => No(Done(worldbox, i)[j], type, p)
                 /\ \A type : One(worldbox[j], type, p) => One(Done(worldbox, i)[j], type, p)
                 /\ \A a, b : Before(worldbox[j], a, b, p) => Before(Done(worldbox, i)[j], a, b, p)
<1>1. PICK q \in Seq(WorldMsgs) : q = worldbox[i]
  OBVIOUS
<1>2. q # <<>>
  BY <1>1
<1>3. /\ \A type : One(q, type, p) => One(Tail(q), type, p)
      /\ \A type : No(q, type, p) => No(Tail(q), type, p)
      /\ \A type : One(q, type, p) /\ Is(Head(q), type, p) => No(Tail(q), type, p)
      /\ \A a, b : Before(q, a, b, p) => Before(Tail(q), a, b, p)
      /\ \A a, b : Before(q, a, b, p) /\ Is(Head(q), b, p) => No(q, a, p)
      /\ 1 \in DOMAIN q /\ q[1] = Head(q)
  BY <1>2, TailParts
<1>4. /\ Head(worldbox[i]) \in WorldMsgs /\ Done(worldbox, i)[i] = Tail(worldbox[i])
      /\ \A j \in Instances : j # i => Done(worldbox, i)[j] = worldbox[j]
  BY DoneType
<1>5. ASSUME NEW j \in Instances
      PROVE  /\ \A type : No(worldbox[j], type, p) => No(Done(worldbox, i)[j], type, p)
             /\ \A type : One(worldbox[j], type, p) => One(Done(worldbox, i)[j], type, p)
             /\ \A a, b : Before(worldbox[j], a, b, p) => Before(Done(worldbox, i)[j], a, b, p)
  <2>1. CASE j = i
    BY <1>1, <1>3, <1>4, <2>1
  <2>2. CASE j # i
    BY <1>4, <2>2
  <2> QED BY <2>1, <2>2
<1> QED BY <1>1, <1>3, <1>4, <1>5

LEMMA WorldboxPost ==
    ASSUME worldbox \in [Instances -> Seq(WorldMsgs)], NEW i \in Instances, NEW m \in WorldMsgs, NEW p
    PROVE  /\ \A j \in Instances : j # i => Post(worldbox, i, m)[j] = worldbox[j]
           /\ \A type : No(Post(worldbox, i, m)[i], type, p) <=> No(worldbox[i], type, p) /\ ~ Is(m, type, p)
           /\ \A type : One(worldbox[i], type, p) /\ (Is(m, type, p) => No(worldbox[i], type, p))
                 => One(Post(worldbox, i, m)[i], type, p)
           /\ \A a, b : Before(worldbox[i], a, b, p) /\ (Is(m, a, p) => No(worldbox[i], b, p)) /\ a # b
                 => Before(Post(worldbox, i, m)[i], a, b, p)
<1>1. PICK q \in Seq(WorldMsgs) : q = worldbox[i]
  OBVIOUS
<1>2. /\ \A type : No(Append(q, m), type, p) <=> No(q, type, p) /\ ~ Is(m, type, p)
      /\ \A type : One(q, type, p) /\ (Is(m, type, p) => No(q, type, p)) => One(Append(q, m), type, p)
      /\ \A a, b : Before(q, a, b, p) /\ (Is(m, a, p) => No(q, b, p)) /\ a # b => Before(Append(q, m), a, b, p)
  BY AppendParts
<1>3. Post(worldbox, i, m)[i] = Append(worldbox[i], m) /\ \A j \in Instances : j # i => Post(worldbox, i, m)[j] = worldbox[j]
  BY PostWorld
<1> QED BY <1>1, <1>2, <1>3

LEMMA InboxPost ==
    ASSUME NEW box \in [Instances -> Seq(InMsgs)], NEW i \in Instances, NEW m \in InMsgs, NEW p
    PROVE  /\ \A j \in Instances : j # i => Post(box, i, m)[j] = box[j]
           /\ \A type : No(Post(box, i, m)[i], type, p) <=> No(box[i], type, p) /\ ~ Is(m, type, p)
           /\ \A type : One(box[i], type, p) /\ (Is(m, type, p) => No(box[i], type, p))
                 => One(Post(box, i, m)[i], type, p)
           /\ \A a, b : Before(box[i], a, b, p) /\ (Is(m, a, p) => No(box[i], b, p)) /\ a # b
                 => Before(Post(box, i, m)[i], a, b, p)
           /\ \A k \in DOMAIN Post(box, i, m)[i] :
                 Post(box, i, m)[i][k] = m \/ \E l \in DOMAIN box[i] : box[i][l] = Post(box, i, m)[i][k]
<1>1. PICK q \in Seq(InMsgs) : q = box[i]
  OBVIOUS
<1>2. /\ \A type : No(Append(q, m), type, p) <=> No(q, type, p) /\ ~ Is(m, type, p)
      /\ \A type : One(q, type, p) /\ (Is(m, type, p) => No(q, type, p)) => One(Append(q, m), type, p)
      /\ \A a, b : Before(q, a, b, p) /\ (Is(m, a, p) => No(q, b, p)) /\ a # b => Before(Append(q, m), a, b, p)
      /\ \A k \in DOMAIN Append(q, m) : Append(q, m)[k] = m \/ \E l \in DOMAIN q : q[l] = Append(q, m)[k]
  BY AppendParts
<1>3. Post(box, i, m)[i] = Append(box[i], m) /\ \A j \in Instances : j # i => Post(box, i, m)[j] = box[j]
  BY DEF Post
<1> QED BY <1>1, <1>2, <1>3

\* What is known of a player's stage.
LEMMA StageOf ==
    ASSUME JumpInv, NEW p \in Players
    PROVE  /\ where[p] \in Instances /\ Staged(p) /\ Left(p)
           /\ \E s \in {"rest", "asked", "jump", "sent", "enter"}, t \in Instances :
                 /\ s # "rest" => p \in waits
                 /\ Asked(p, s) /\ Jumping(p, s) /\ Syncing(p, s) /\ Sent(p, s, t) /\ Entering(p, s)
BY DEF JumpInv, NoDrops, Staged, Stage

\* A request makes a teleport object.
LEMMA EnterStep ==
    ASSUME Typed, JumpInv, NEW i \in Instances, HandleC2GEnterWorld(i), NEW p \in Players
    PROVE  Staged(p)'
<1> DEFINE m == Head(inbox[i])
           flag == CreateWorldFlag(m.id)
           o == TeleportObject(m.id, flag)
           e == Plain("reqsync", m.p)
           Changed == proxy[i][m.p] # None /\ objects[i][m.p] = None
<1>0. /\ inbox \in [Instances -> Seq(InMsgs)] /\ worldbox \in [Instances -> Seq(WorldMsgs)]
      /\ objects \in [Instances -> [Players -> TeleportObjects \union {None}]]
      /\ base \in [Players -> Data] /\ world \in [Instances -> [Players -> Data \union {None}]]
      /\ Data \subseteq Int /\ None \notin Data
  BY TypeFacts
<1>1. inbox[i] # <<>> /\ m.type = "enter"
  BY DEF HandleC2GEnterWorld, ProxyGets, Gets
<1>2. m \in InMsgs /\ m.p \in Players /\ m.id \in Ids /\ (\E k \in DOMAIN inbox[i] : inbox[i][k] = m)
  BY <1>0, <1>1, InboxTail, InFields
<1>3. /\ inbox' = Done(inbox, i) /\ UNCHANGED <<proxy, world, where, waits>>
      /\ ~ Changed => UNCHANGED <<objects, worldbox, base>>
      /\ Changed => /\ objects' = [objects EXCEPT ![i][m.p] = o] /\ worldbox' = Post(worldbox, i, e)
                    /\ base' = [base EXCEPT ![m.p] = IF world[i][m.p] = None THEN @ ELSE world[i][m.p]]
  BY DEF HandleC2GEnterWorld, clientVars
<1>4. e \in WorldMsgs /\ e.type = "reqsync" /\ e.p = m.p
  BY <1>2, WorldMade DEF Plain
<1>5. flag \in Flags /\ (flag # None => flag.id = m.id) /\ o.id = m.id /\ o.world = flag /\ o.sync = FALSE /\ o # None
      /\ o \in TeleportObjects
  <2>1. exists \subseteq Instances
    BY TypeFacts
  <2>2. flag \in Flags /\ (flag # None => flag.id = m.id)
    BY <2>1 DEF CreateWorldFlag, Flags, World
  <2> HIDE DEF flag
  <2>3. o.id = m.id /\ o.world = flag /\ o.sync = FALSE /\ o \in TeleportObjects
    BY <1>2, <2>2 DEF TeleportObject, TeleportObjects
  <2> QED BY <2>2, <2>3, ObjectFlags
<1> HIDE DEF m, flag, o, e, Changed
<1>6. \A j \in Instances : /\ Same(inbox[j], inbox'[j], {"after"}, p) /\ Same(inbox[j], inbox'[j], {"sync"}, p)
                           /\ Same(inbox[j], inbox'[j], {"after", "teleport"}, p)
                           /\ p # m.p => Same(inbox[j], inbox'[j], InKinds, p)
  <2>1. \A type \in {"after", "teleport", "sync"} : ~ Is(m, type, p)
    BY <1>1 DEF Is, m
  <2>2. \A j \in Instances : Same(inbox[j], Done(inbox, i)[j], {"after", "teleport", "sync"}, p)
    BY <1>0, <1>1, <2>1, InboxSame DEF m
  <2>3. /\ {"after"} \subseteq {"after", "teleport", "sync"} /\ {"sync"} \subseteq {"after", "teleport", "sync"}
        /\ {"after", "teleport"} \subseteq {"after", "teleport", "sync"}
    OBVIOUS
  <2>4. p # m.p => \A type \in InKinds : ~ Is(m, type, p)
    BY DEF Is
  <2>5. p # m.p => \A j \in Instances : Same(inbox[j], Done(inbox, i)[j], InKinds, p)
    BY <1>0, <1>1, <2>4, InboxSame DEF m
  <2> QED BY <1>3, <2>2, <2>3, <2>5, SameLess
<1>7. where[p] \in Instances /\ Staged(p) /\ Left(p)
  BY StageOf
<1>8. CASE p # m.p
  <2>1. ~ Changed => \A j \in Instances : Same(worldbox[j], worldbox'[j], WorldKinds, p)
    BY <1>3, SameSelf
  <2>2. Changed => \A j \in Instances : Same(worldbox[j], worldbox'[j], WorldKinds, p)
    <3>1. \A type \in WorldKinds : ~ Is(e, type, p)
      BY <1>4, <1>8 DEF Is
    <3> QED BY <1>0, <1>3, <1>4, <3>1, WorldboxSame
  <2>3. base'[p] = base[p] /\ \A j \in Instances : objects'[j][p] = objects[j][p]
    <3>1. CASE Changed
      BY <1>0, <1>2, <1>3, <1>8, <3>1
    <3>2. CASE ~ Changed
      BY <1>3, <3>2
    <3> QED BY <3>1, <3>2
  <2>4. Untouched(p)
    BY <1>3, <1>6, <1>8, <2>1, <2>2, <2>3 DEF Untouched
  <2> QED BY <1>7, <2>4, FrameAll
<1>9. CASE p = m.p
  <2>1. PICK s \in {"rest", "asked", "jump", "sent", "enter"}, t \in Instances :
           /\ s # "rest" => p \in waits
           /\ Asked(p, s) /\ Jumping(p, s) /\ Syncing(p, s) /\ Sent(p, s, t) /\ Entering(p, s)
    BY StageOf
  <2>2. s = "asked" /\ i = where[p] /\ m.id # i.id
    BY <1>1, <1>2, <1>9, <2>1 DEF Asked, Is
  <2>3. proxy[i][p] # None /\ objects[i][p] = None /\ Changed
    BY <1>7, <1>9, <2>1, <2>2 DEF Left, Jumping, Changed
  <2>4. world[i][p] # None /\ world[i][p] \in Int
    <3>1. world[i][p] # None
      BY <2>1, <2>2 DEF Entering
    <3>2. world[i][p] \in Data \union {None}
      BY <1>0
    <3> QED BY <1>0, <3>1, <3>2
  <2>5. /\ objects'[i][p] = o /\ \A j \in Instances : j # i => objects'[j][p] = objects[j][p]
    BY <1>0, <1>2, <1>3, <1>9, <2>3
  <2>6. base'[p] = world[i][p]
    BY <1>0, <1>3, <1>9, <2>3, <2>4
  <2>7. \A j \in Instances : /\ Same(worldbox[j], worldbox'[j], {"remove"}, p)
                             /\ Same(worldbox[j], worldbox'[j], {"remove", "player"}, p)
    <3>1. \A type \in {"remove", "player"} : ~ Is(e, type, p)
      BY <1>4 DEF Is
    <3>2. \A j \in Instances : Same(worldbox[j], Post(worldbox, i, e)[j], {"remove", "player"}, p)
      BY <1>0, <1>4, <3>1, WorldboxSame
    <3> QED BY <1>3, <2>3, <3>2, SameLess
  <2>8. Left(p)'
    BY <1>3, <1>6, <1>7, <2>7, FrameLeft
  <2>9. Asked(p, "jump")'
    <3>1. \A j \in Instances : One(inbox[j], "enter", p) /\ (j # i => No(inbox[j], "enter", p))
      BY <2>1, <2>2 DEF Asked, No
    <3>2. No(inbox'[i], "enter", p)
      <4>1. /\ Done(inbox, i)[i] = Tail(inbox[i])
            /\ \A type : One(inbox[i], type, p) /\ Is(m, type, p) => No(Tail(inbox[i]), type, p)
        BY <1>0, <1>1, InboxTail DEF m
      <4>2. Is(m, "enter", p)
        BY <1>1, <1>9 DEF Is
      <4> QED BY <1>3, <3>1, <4>1, <4>2
    <3>3. \A j \in Instances : j # i => No(inbox'[j], "enter", p)
      BY <1>0, <1>1, <1>3, <3>1, InboxTail
    <3> QED BY <3>2, <3>3 DEF Asked, No, One
  <2>10. Jumping(p, "jump")'
    <3>1. \A j \in Instances : objects'[j][p] # None <=> j = i
      BY <1>5, <2>1, <2>2, <2>5 DEF Jumping
    <3>2. world[i][p] >= base'[p]
      BY <2>4, <2>6
    <3> QED BY <1>3, <1>5, <2>2, <2>5, <3>1, <3>2 DEF Jumping
  <2>11. \A j \in Instances : No(inbox[j], "sync", p) /\ No(worldbox[j], "reqsync", p)
    BY <2>1, <2>2 DEF Syncing
  <2>12. Syncing(p, "jump")'
    <3>1. \A j \in Instances : No(inbox'[j], "sync", p)
      BY <1>6, <2>11 DEF Same
    <3>2. /\ One(worldbox'[i], "reqsync", p) /\ \A j \in Instances : j # i => worldbox'[j] = worldbox[j]
      <4>1. One(worldbox[i], "reqsync", p)
        BY <2>1 DEF Syncing
      <4>2. /\ \A j \in Instances : j # i => Post(worldbox, i, e)[j] = worldbox[j]
            /\ \A type : One(worldbox[i], type, p) /\ (Is(e, type, p) => No(worldbox[i], type, p))
                  => One(Post(worldbox, i, e)[i], type, p)
        BY <1>0, <1>4, WorldboxPost
      <4> QED BY <1>3, <2>3, <2>11, <4>1, <4>2
    <3>3. \A j \in Instances : One(worldbox'[j], "reqsync", p) /\ One(inbox'[j], "sync", p)
      BY <2>11, <3>1, <3>2 DEF No, One
    <3>4. \A j \in Instances : j # i => No(worldbox'[j], "reqsync", p)
      BY <2>11, <3>2
    <3>5. \A j \in Instances : \A k \in DOMAIN inbox'[j] : ~ Is(inbox'[j][k], "sync", p)
      BY <3>1 DEF No
    <3>6. where'[p] = i /\ ~ objects'[i][p].sync
      BY <1>3, <1>5, <2>2, <2>5
    <3> QED BY <3>1, <3>3, <3>4, <3>5, <3>6 DEF Syncing
  <2>13. Sent(p, "jump", t)'
    <3>1. \A j \in Instances : No(inbox[j], "teleport", p)
      BY <2>1, <2>2 DEF Sent, No
    <3>2. \A j \in Instances : No(inbox'[j], "teleport", p)
      BY <1>6, <3>1 DEF Same
    <3> QED BY <3>2 DEF Sent, No, One, Before
  <2>14. Entering(p, "jump")'
    BY <1>3, <1>7, <2>1, <2>2, <2>7, FrameEntering
  <2>15. Stage(p, "jump", t)'
    BY <1>3, <2>1, <2>2, <2>9, <2>10, <2>12, <2>13, <2>14 DEF Stage
  <2> QED BY <2>8, <2>15 DEF Staged
<1> QED BY <1>8, <1>9

\* A jump is sent on to w.
LEMMA SendOn ==
    ASSUME NEW p \in Players, NEW t \in Instances, NEW w \in Instances, where[p] \in Instances, w # where[p],
           Left(p), Asked(p, "jump"), Entering(p, "jump"), p \in waits', where'[p] = where[p], base'[p] = base[p],
           worldbox' = worldbox,
           \A j \in Instances : /\ proxy'[j][p] # None <=> proxy[j][p] # None
                                /\ world'[j][p] = world[j][p] /\ objects'[j][p] = None
                                /\ Same(inbox[j], inbox'[j], {"after"}, p) /\ Same(inbox[j], inbox'[j], {"enter"}, p)
                                /\ No(inbox'[j], "sync", p) /\ No(worldbox[j], "reqsync", p)
                                /\ j # w => No(inbox'[j], "teleport", p),
           One(inbox'[w], "teleport", p), Before(inbox'[w], "after", "teleport", p),
           \A k \in DOMAIN inbox'[w] : Is(inbox'[w][k], "teleport", p) =>
              inbox'[w][k].from = where[p] /\ inbox'[w][k].data >= base[p]
    PROVE  Staged(p)'
<1>1. \A j \in Instances : \A T : Same(worldbox[j], worldbox'[j], T, p)
  BY SameSelf
<1>2. Left(p)'
  BY <1>1, FrameLeft
<1>3. Asked(p, "sent")'
  <2>1. \A j \in Instances : No(inbox[j], "enter", p)
    BY DEF Asked, No
  <2>2. \A j \in Instances : No(inbox'[j], "enter", p)
    BY <2>1 DEF Same
  <2> QED BY <2>2 DEF Asked, No, One
<1>4. Jumping(p, "sent")'
  BY DEF Jumping
<1>5. Syncing(p, "sent")'
  BY DEF Syncing, No, One
<1>6. Sent(p, "sent", w)'
  <2> SUFFICES ASSUME NEW j \in Instances
               PROVE  /\ One(inbox'[j], "teleport", p) /\ Before(inbox'[j], "after", "teleport", p)
                      /\ \A k \in DOMAIN inbox'[j] : Is(inbox'[j][k], "teleport", p) =>
                            j = w /\ inbox'[j][k].from = where[p] /\ inbox'[j][k].data >= base[p]
    BY DEF Sent
  <2>1. CASE j = w
    BY <2>1
  <2>2. CASE j # w
    BY <2>2 DEF No, One, Before
  <2> QED BY <2>1, <2>2
<1>7. Entering(p, "sent")'
  <2>1. \A j \in Instances : /\ Same(worldbox[j], worldbox'[j], {"remove", "player"}, p)
                             /\ world'[j][p] # None <=> world[j][p] # None
    BY <1>1
  <2> QED BY <2>1, FrameEntering
<1>8. Stage(p, "sent", w)'
  BY <1>3, <1>4, <1>5, <1>6, <1>7 DEF Stage
<1> QED BY <1>2, <1>8 DEF Staged

\* A jump keeps waiting.
LEMMA KeepOn ==
    ASSUME NEW p \in Players, NEW t \in Instances, where[p] \in Instances,
           Left(p), Asked(p, "jump"), Sent(p, "jump", t), Entering(p, "jump"), p \in waits',
           where'[p] = where[p], base'[p] = base[p], worldbox' = worldbox,
           \A j \in Instances : /\ proxy'[j][p] # None <=> proxy[j][p] # None
                                /\ world'[j][p] = world[j][p]
                                /\ Same(inbox[j], inbox'[j], {"after"}, p) /\ Same(inbox[j], inbox'[j], {"enter"}, p)
                                /\ Same(inbox[j], inbox'[j], {"after", "teleport"}, p),
           Jumping(p, "jump")', Syncing(p, "jump")'
    PROVE  Staged(p)'
<1>1. \A j \in Instances : \A T : Same(worldbox[j], worldbox'[j], T, p)
  BY SameSelf
<1>2. Left(p)'
  BY <1>1, FrameLeft
<1>3. Asked(p, "jump")'
  BY FrameAsked
<1>4. Sent(p, "jump", t)'
  BY FrameSent
<1>5. Entering(p, "jump")'
  BY <1>1, FrameEntering
<1>6. Stage(p, "jump", t)'
  BY <1>3, <1>4, <1>5 DEF Stage
<1> QED BY <1>2, <1>6 DEF Staged

\* Check sends the player on.
LEMMA CheckSends ==
    ASSUME Typed, NEW p \in Players, NEW t \in Instances, where[p] \in Instances, NEW i \in Instances, i = where[p],
           Left(p), Asked(p, "jump"), Jumping(p, "jump"), Sent(p, "jump", t), Entering(p, "jump"), p \in waits',
           where'[p] = where[p], base'[p] = base[p], worldbox' = worldbox, world' = world,
           inbox[i] # <<>>, Head(inbox[i]).type \in {"sync", "created"},
           NEW o \in TeleportObjects, NEW data \in Data, Sends(i, p, o, data), o.world.id # i.id, data >= base[p],
           \A j \in Instances : /\ proxy'[j][p] # None <=> proxy[j][p] # None
                                /\ No(Done(inbox, i)[j], "sync", p) /\ No(worldbox[j], "reqsync", p)
    PROVE  Staged(p)'
<1> DEFINE w == o.world
           m == JumpMsg(i, p, data)
           b == Done(inbox, i)
<1>0. /\ inbox \in [Instances -> Seq(InMsgs)]
      /\ objects \in [Instances -> [Players -> TeleportObjects \union {None}]]
  BY TypeFacts
<1>1. /\ w \in Instances /\ w # i /\ inbox' = Post(b, w, m) /\ objects' = [objects EXCEPT ![i][p] = None]
  BY DEF Sends
<1>2. m \in InMsgs /\ m.type = "teleport" /\ m.p = p /\ m.from = i /\ m.data = data
  BY InMade DEF JumpMsg
<1>3. b \in [Instances -> Seq(InMsgs)] /\ \A j \in Instances : Same(inbox[j], b[j], {"after", "enter", "teleport"}, p)
  <2>1. b \in [Instances -> Seq(InMsgs)]
    BY <1>0, InboxTail
  <2>2. \A type \in {"after", "enter", "teleport"} : ~ Is(Head(inbox[i]), type, p)
    BY DEF Is
  <2>3. \A j \in Instances : Same(inbox[j], b[j], {"after", "enter", "teleport"}, p)
    BY <1>0, <2>2, InboxSame
  <2> QED BY <2>1, <2>3
<1> HIDE DEF w, m, b
<1>4. /\ \A j \in Instances : j # w => inbox'[j] = b[j]
      /\ \A type : No(inbox'[w], type, p) <=> No(b[w], type, p) /\ ~ Is(m, type, p)
      /\ \A type : One(b[w], type, p) /\ (Is(m, type, p) => No(b[w], type, p)) => One(inbox'[w], type, p)
      /\ \A a, c : Before(b[w], a, c, p) /\ (Is(m, a, p) => No(b[w], c, p)) /\ a # c => Before(inbox'[w], a, c, p)
      /\ \A k \in DOMAIN inbox'[w] : inbox'[w][k] = m \/ \E l \in DOMAIN b[w] : b[w][l] = inbox'[w][k]
  <2>1. /\ \A j \in Instances : j # w => Post(b, w, m)[j] = b[j]
        /\ \A type : No(Post(b, w, m)[w], type, p) <=> No(b[w], type, p) /\ ~ Is(m, type, p)
        /\ \A type : One(b[w], type, p) /\ (Is(m, type, p) => No(b[w], type, p)) => One(Post(b, w, m)[w], type, p)
        /\ \A a, c : Before(b[w], a, c, p) /\ (Is(m, a, p) => No(b[w], c, p)) /\ a # c
              => Before(Post(b, w, m)[w], a, c, p)
        /\ \A k \in DOMAIN Post(b, w, m)[w] :
              Post(b, w, m)[w][k] = m \/ \E l \in DOMAIN b[w] : b[w][l] = Post(b, w, m)[w][k]
    BY <1>1, <1>2, <1>3, InboxPost
  <2> QED BY <1>1, <2>1
<1>5. \A j \in Instances : Same(b[j], inbox'[j], {"after", "enter"}, p)
  <2>1. \A type \in {"after", "enter"} : ~ Is(m, type, p)
    BY <1>2 DEF Is
  <2>2. \A j \in Instances : Same(b[j], Post(b, w, m)[j], {"after", "enter"}, p)
    BY <1>1, <1>2, <1>3, <2>1, PostSame
  <2> QED BY <1>1, <2>2
<1>6. \A j \in Instances : Same(inbox[j], inbox'[j], {"after"}, p) /\ Same(inbox[j], inbox'[j], {"enter"}, p)
  <2>1. {"after", "enter"} \subseteq {"after", "enter", "teleport"}
    OBVIOUS
  <2>2. \A j \in Instances : Same(inbox[j], b[j], {"after", "enter"}, p)
    BY <1>3, <2>1, SameLess
  <2>3. \A j \in Instances : Same(inbox[j], inbox'[j], {"after", "enter"}, p)
    BY <1>5, <2>2, SameTwice
  <2>4. {"after"} \subseteq {"after", "enter"} /\ {"enter"} \subseteq {"after", "enter"}
    OBVIOUS
  <2> QED BY <2>3, <2>4, SameLess
<1>7. \A j \in Instances : No(inbox'[j], "sync", p)
  BY <1>2, <1>4 DEF Is, b
<1>8. \A j \in Instances : No(b[j], "teleport", p) /\ One(b[j], "teleport", p) /\ Before(b[j], "after", "teleport", p)
  <2>1. \A j \in Instances : No(inbox[j], "teleport", p)
    BY DEF Sent, No
  <2>2. \A j \in Instances : No(b[j], "teleport", p)
    BY <1>3, <2>1 DEF Same
  <2> QED BY <2>2 DEF No, One, Before
<1>9. \A j \in Instances : j # w => No(inbox'[j], "teleport", p)
  BY <1>4, <1>8
<1>10. One(inbox'[w], "teleport", p) /\ Before(inbox'[w], "after", "teleport", p)
  <2>1. One(inbox'[w], "teleport", p)
    BY <1>1, <1>4, <1>8
  <2>2. ~ Is(m, "after", p)
    BY <1>2 DEF Is
  <2>3. Before(inbox'[w], "after", "teleport", p)
    BY <1>1, <1>4, <1>8, <2>2
  <2> QED BY <2>1, <2>3
<1>11. ASSUME NEW k \in DOMAIN inbox'[w], Is(inbox'[w][k], "teleport", p)
       PROVE  inbox'[w][k].from = where[p] /\ inbox'[w][k].data >= base[p]
  <2>1. ~ \E l \in DOMAIN b[w] : b[w][l] = inbox'[w][k]
    BY <1>1, <1>8, <1>11 DEF No
  <2>2. inbox'[w][k] = m
    BY <1>4, <2>1
  <2> QED BY <1>2, <2>2
<1>12. \A j \in Instances : objects'[j][p] = None
  BY <1>0, <1>1 DEF Jumping
<1> QED BY <1>1, <1>6, <1>7, <1>9, <1>10, <1>11, <1>12, SendOn

\* Check does not touch other players.
LEMMA CheckOthers ==
    ASSUME Typed, NEW i \in Instances, NEW q \in Players, NEW p \in Players, p # q, NEW o, NEW data \in Data \union {None},
           Check(i, q, o, data), inbox[i] # <<>>, \A type \in InKinds : ~ Is(Head(inbox[i]), type, p)
    PROVE  \A j \in Instances : Same(inbox[j], inbox'[j], InKinds, p) /\ objects'[j][p] = objects[j][p]
<1>0. /\ inbox \in [Instances -> Seq(InMsgs)]
      /\ objects \in [Instances -> [Players -> TeleportObjects \union {None}]]
  BY TypeFacts
<1>1. CASE Sends(i, q, o, data)
  <2> DEFINE m == JumpMsg(i, q, data)
             w == o.world
  <2>1. w \in Instances /\ inbox' = Post(Done(inbox, i), w, m) /\ objects' = [objects EXCEPT ![i][q] = None]
    BY <1>1 DEF Sends
  <2>2. m \in InMsgs
    BY <1>1, InMade DEF JumpMsg, Sends
  <2>3. \A type \in InKinds : ~ Is(m, type, p)
    BY DEF Is, JumpMsg
  <2> HIDE DEF m, w
  <2>4. \A j \in Instances : Same(inbox[j], Post(Done(inbox, i), w, m)[j], InKinds, p)
    BY <1>0, <2>1, <2>2, <2>3, InboxSame
  <2>5. \A j \in Instances : objects'[j][p] = objects[j][p]
    BY <1>0, <2>1
  <2> QED BY <2>1, <2>4, <2>5
<1>2. CASE Keeps(i, q, o, data)
  <2>1. inbox' = Done(inbox, i) /\ objects' = [objects EXCEPT ![i][q] = o]
    BY <1>2 DEF Keeps
  <2>2. \A j \in Instances : Same(inbox[j], Done(inbox, i)[j], InKinds, p)
    BY <1>0, InboxSame
  <2>3. \A j \in Instances : objects'[j][p] = objects[j][p]
    BY <1>0, <2>1
  <2> QED BY <2>1, <2>2, <2>3
<1> QED BY <1>1, <1>2, CheckCases

\* The player's data comes back.
LEMMA SyncStep ==
    ASSUME Typed, JumpInv, NEW i \in Instances, HandleS2GSyncPlayer(i), NEW p \in Players
    PROVE  Staged(p)' /\ (fault' => fault)
<1> DEFINE m == Head(inbox[i])
           o == [objects[i][m.p] EXCEPT !.sync = TRUE]
<1>0. /\ inbox \in [Instances -> Seq(InMsgs)] /\ base \in [Players -> Data]
      /\ objects \in [Instances -> [Players -> TeleportObjects \union {None}]]
      /\ proxy \in [Instances -> [Players -> Data \union {None}]]
      /\ Data \subseteq Int /\ None \notin Data
  BY TypeFacts
<1>1. inbox[i] # <<>> /\ m.type = "sync"
  BY DEF HandleS2GSyncPlayer, ProxyGets, Gets
<1>2. m \in InMsgs /\ m.p \in Players /\ m.data \in Data /\ (\E k \in DOMAIN inbox[i] : inbox[i][k] = m)
  BY <1>0, <1>1, InboxTail, InFields
<1>3. /\ UNCHANGED <<worldbox, world, where, waits, base>>
      /\ proxy[i][m.p] = None => inbox' = Done(inbox, i) /\ UNCHANGED <<proxy, objects, fault>>
      /\ proxy[i][m.p] # None => proxy' = [proxy EXCEPT ![i][m.p] = m.data]
      /\ proxy[i][m.p] # None /\ objects[i][m.p] = None => inbox' = Done(inbox, i) /\ UNCHANGED <<objects, fault>>
      /\ proxy[i][m.p] # None /\ objects[i][m.p] # None => Check(i, m.p, o, m.data)
  BY DEF HandleS2GSyncPlayer, clientVars, proxyVars, Parsed
<1> HIDE DEF m
<1>4. where[p] \in Instances /\ Staged(p) /\ Left(p)
  BY StageOf
<1>5. fault' => fault
  <2>1. CASE proxy[i][m.p] # None /\ objects[i][m.p] # None
    <3>1. Sends(i, m.p, o, m.data) \/ Keeps(i, m.p, o, m.data)
      BY <1>2, <1>3, <2>1, CheckCases
    <3> QED BY <1>0, <1>2, <3>1 DEF Sends, Keeps
  <2> QED BY <1>3, <2>1
<1>6. CASE p # m.p
  <2>1. \A type \in InKinds : ~ Is(m, type, p)
    BY <1>6 DEF Is
  <2>2. \A j \in Instances : Same(inbox[j], Done(inbox, i)[j], InKinds, p)
    BY <1>0, <1>1, <2>1, InboxSame DEF m
  <2>3. \A j \in Instances : Same(inbox[j], inbox'[j], InKinds, p) /\ objects'[j][p] = objects[j][p]
    <3>1. CASE proxy[i][m.p] = None \/ objects[i][m.p] = None
      BY <1>3, <2>2, <3>1
    <3>2. CASE proxy[i][m.p] # None /\ objects[i][m.p] # None
      <4>1. Check(i, m.p, o, m.data)
        BY <1>3, <3>2
      <4> HIDE DEF o
      <4> QED BY <1>1, <1>2, <1>6, <2>1, <4>1, CheckOthers DEF m
    <3> QED BY <3>1, <3>2
  <2>4. \A j \in Instances : proxy'[j][p] = proxy[j][p]
    <3>1. CASE proxy[i][m.p] = None
      BY <1>3, <3>1
    <3>2. CASE proxy[i][m.p] # None
      <4>1. proxy' = [proxy EXCEPT ![i][m.p] = m.data]
        BY <1>3, <3>2
      <4> QED BY <1>0, <1>2, <1>6, <4>1
    <3> QED BY <3>1, <3>2
  <2>5. \A j \in Instances : Same(worldbox[j], worldbox'[j], WorldKinds, p)
    BY <1>3, SameSelf
  <2>6. Untouched(p)
    BY <1>3, <2>3, <2>4, <2>5 DEF Untouched
  <2> QED BY <1>4, <1>5, <2>6, FrameAll
<1>7. CASE p = m.p
  <2>1. PICK s \in {"rest", "asked", "jump", "sent", "enter"}, t \in Instances :
           /\ s # "rest" => p \in waits
           /\ Asked(p, s) /\ Jumping(p, s) /\ Syncing(p, s) /\ Sent(p, s, t) /\ Entering(p, s)
    BY StageOf
  <2>2. ~ No(inbox[i], "sync", p) /\ m.data >= base[p]
    BY <1>1, <1>2, <1>7, <2>1 DEF Syncing, No, Is
  <2>3. s = "jump" /\ i = where[p] /\ objects[i][p].sync = FALSE
    <3>1. s = "jump" /\ i = where[p] /\ ~ objects[i][p].sync
      BY <2>1, <2>2 DEF Syncing
    <3>2. objects[i][p] \in TeleportObjects
      BY <1>0, <2>1, <3>1 DEF Jumping
    <3> QED BY <3>1, <3>2, ObjectFlags
  <2>4. objects[i][p] \in TeleportObjects /\ proxy[i][p] # None
    BY <1>0, <1>4, <2>1, <2>3 DEF Jumping, Left
  <2>5. /\ o \in TeleportObjects /\ o.sync /\ o.id = objects[i][p].id /\ o.world = objects[i][p].world /\ o # None
    BY <1>7, <2>4, ObjectFlags
  <2> HIDE DEF o
  <2>6. o.id # i.id /\ (o.world # None => o.world.id = o.id)
    BY <2>1, <2>3, <2>5 DEF Jumping
  <2>7. \A j \in Instances : proxy'[j][p] # None <=> proxy[j][p] # None
    <3>1. proxy' = [proxy EXCEPT ![i][p] = m.data]
      BY <1>3, <1>7, <2>4
    <3>2. m.data # None
      BY <1>0, <1>2
    <3>3. proxy'[i][p] = m.data /\ \A j \in Instances : j # i => proxy'[j][p] = proxy[j][p]
      BY <1>0, <3>1
    <3> QED BY <2>4, <3>2, <3>3
  <2>7a. proxy'[i][p] = m.data
    BY <1>0, <1>2, <1>3, <1>7, <2>4
  <2>8. \A j \in Instances : No(Done(inbox, i)[j], "sync", p) /\ No(worldbox[j], "reqsync", p)
    <3>1. \A j \in Instances : j # i => No(inbox[j], "sync", p) /\ No(worldbox[j], "reqsync", p)
      BY <2>1, <2>3 DEF Syncing
    <3>2. No(worldbox[i], "reqsync", p) /\ One(inbox[i], "sync", p)
      BY <2>1, <2>2 DEF Syncing
    <3>3. Is(m, "sync", p)
      BY <1>1, <1>7 DEF Is
    <3>4. /\ Done(inbox, i)[i] = Tail(inbox[i])
          /\ \A j \in Instances : j # i => Done(inbox, i)[j] = inbox[j]
          /\ \A type : One(inbox[i], type, p) /\ Is(m, type, p) => No(Tail(inbox[i]), type, p)
      BY <1>0, <1>1, InboxTail DEF m
    <3> QED BY <3>1, <3>2, <3>3, <3>4
  <2>9. Sends(i, p, o, m.data) \/ Keeps(i, p, o, m.data)
    BY <1>2, <1>3, <1>7, <2>4, CheckCases, ObjectFlags
  <2>10. CASE Sends(i, p, o, m.data)
    <3>1. o.world.id # i.id
      BY <2>6, <2>10, NoneAssumption DEF Sends
    <3>2. Head(inbox[i]).type \in {"sync", "created"}
      BY <1>1 DEF m
    <3>3. p \in waits'
      BY <1>3, <2>1, <2>3
    <3>4. Asked(p, "jump") /\ Jumping(p, "jump") /\ Sent(p, "jump", t) /\ Entering(p, "jump")
      BY <2>1, <2>3
    <3>5. Staged(p)'
      BY <1>1, <1>2, <1>3, <1>4, <2>2, <2>3, <2>5, <2>7, <2>8, <2>10, <3>1, <3>2, <3>3, <3>4, CheckSends
    <3> QED BY <1>5, <3>5
  <2>11. CASE Keeps(i, p, o, m.data)
    <3>1. inbox' = Done(inbox, i) /\ objects' = [objects EXCEPT ![i][p] = o]
      BY <2>11 DEF Keeps
    <3>2. objects'[i][p] = o /\ \A j \in Instances : j # i => objects'[j][p] = objects[j][p]
      BY <1>0, <3>1
    <3>3. \A j \in Instances : Same(inbox[j], inbox'[j], {"after", "enter", "teleport"}, p)
      <4>1. \A type \in {"after", "enter", "teleport"} : ~ Is(m, type, p)
        BY <1>1 DEF Is
      <4> QED BY <1>0, <1>1, <3>1, <4>1, InboxSame DEF m
    <3>4. \A j \in Instances : /\ Same(inbox[j], inbox'[j], {"after"}, p) /\ Same(inbox[j], inbox'[j], {"enter"}, p)
                               /\ Same(inbox[j], inbox'[j], {"after", "teleport"}, p)
      <4>1. /\ {"after"} \subseteq {"after", "enter", "teleport"} /\ {"enter"} \subseteq {"after", "enter", "teleport"}
            /\ {"after", "teleport"} \subseteq {"after", "enter", "teleport"}
        OBVIOUS
      <4> QED BY <3>3, <4>1, SameLess
    <3>5. Jumping(p, "jump")'
      <4>1. \A j \in Instances : objects'[j][p] # None <=> j = i
        BY <2>1, <2>3, <2>5, <3>2 DEF Jumping
      <4>2. world[i][p] >= base[p]
        BY <2>1, <2>3 DEF Jumping
      <4> QED BY <1>3, <2>2, <2>3, <2>6, <2>7a, <3>2, <4>1, <4>2 DEF Jumping
    <3>6. Syncing(p, "jump")'
      <4>1. \A j \in Instances : No(inbox'[j], "sync", p) /\ No(worldbox'[j], "reqsync", p)
        BY <1>3, <2>8, <3>1
      <4> QED BY <4>1 DEF Syncing, No, One
    <3>7. Asked(p, "jump") /\ Sent(p, "jump", t) /\ Entering(p, "jump") /\ p \in waits'
      BY <1>3, <2>1, <2>3
    <3>8. Staged(p)'
      BY <1>3, <1>4, <2>7, <3>4, <3>5, <3>6, <3>7, KeepOn
    <3> QED BY <1>5, <3>8
  <2> QED BY <2>9, <2>10, <2>11
<1> QED BY <1>6, <1>7

\* The jumps in a list carry what the proxy has of the player.
Carry(q, i, p) == \A k \in DOMAIN q : Is(q[k], "teleport", p) => q[k].from = i /\ q[k].data = proxy[i][p]

\* The messages an announcement adds to the target's list.
LEMMA ConcatJumps ==
    ASSUME NEW q \in Seq(InMsgs), NEW i \in Instances, NEW gone \in SUBSET Players, NEW seq \in InOrder(gone),
           Jumps(i, seq) \in Seq(InMsgs), NEW p, NEW r, r = q \o Jumps(i, seq)
    PROVE  /\ p \notin gone => Same(q, r, InKinds, p)
           /\ Same(q, r, {"after", "enter", "sync"}, p)
           /\ No(q, "teleport", p) =>
                 One(r, "teleport", p) /\ Before(r, "after", "teleport", p) /\ Carry(r, i, p)
<1>1. PICK e \in Seq(InMsgs) : e = Jumps(i, seq)
  OBVIOUS
<1>2. seq \in Seq(gone) /\ \A k, l \in DOMAIN seq : seq[k] = seq[l] => k = l
  BY OrderedSeq
<1>3. /\ DOMAIN e = DOMAIN seq
      /\ \A k \in DOMAIN e : /\ e[k].type = "teleport" /\ e[k].p = seq[k] /\ e[k].from = i
                             /\ e[k].data = proxy[i][seq[k]] /\ seq[k] \in gone
  BY <1>1, <1>2 DEF Jumps
<1>4. p \notin gone => Same(q, r, InKinds, p)
  <2> SUFFICES ASSUME p \notin gone PROVE Same(q, r, InKinds, p)
    OBVIOUS
  <2>1. \A type \in InKinds : \A k \in DOMAIN e : ~ Is(e[k], type, p)
    BY <1>3 DEF Is
  <2>2. Same(q, q \o e, InKinds, p)
    BY <2>1, SameConcat
  <2> QED BY <1>1, <2>2
<1>5. Same(q, r, {"after", "enter", "sync"}, p)
  <2>1. \A type \in {"after", "enter", "sync"} : \A k \in DOMAIN e : ~ Is(e[k], type, p)
    BY <1>3 DEF Is
  <2>2. Same(q, q \o e, {"after", "enter", "sync"}, p)
    BY <2>1, SameConcat
  <2> QED BY <1>1, <2>2
<1>6. ASSUME No(q, "teleport", p)
      PROVE  One(r, "teleport", p) /\ Before(r, "after", "teleport", p) /\ Carry(r, i, p)
  <2>1. /\ Len(q) \in Nat /\ Len(e) \in Nat /\ DOMAIN q = 1 .. Len(q) /\ DOMAIN e = 1 .. Len(e)
        /\ DOMAIN r = 1 .. Len(q) + Len(e)
        /\ \A k \in 1 .. Len(q) : r[k] = q[k]
        /\ \A k \in Len(q) + 1 .. Len(q) + Len(e) : r[k] = e[k - Len(q)]
    BY <1>1
  <2>2. ASSUME NEW k \in DOMAIN r, Is(r[k], "teleport", p)
        PROVE  k \in Int /\ k > Len(q) /\ k - Len(q) \in DOMAIN e /\ r[k] = e[k - Len(q)] /\ seq[k - Len(q)] = p
    <3>1. k \notin DOMAIN q
      BY <1>6, <2>1, <2>2 DEF No
    <3>2. k \in Int /\ k > Len(q) /\ k - Len(q) \in DOMAIN e /\ r[k] = e[k - Len(q)]
      BY <2>1, <3>1
    <3> QED BY <1>3, <2>2, <3>2 DEF Is
  <2>3. One(r, "teleport", p)
    <3> SUFFICES ASSUME NEW k \in DOMAIN r, NEW l \in DOMAIN r, Is(r[k], "teleport", p), Is(r[l], "teleport", p)
                 PROVE  k = l
      BY DEF One
    <3> DEFINE a == k - Len(q)
               b == l - Len(q)
    <3>1. k \in Int /\ a \in DOMAIN e /\ seq[a] = p
      BY <2>2
    <3>2. l \in Int /\ b \in DOMAIN e /\ seq[b] = p
      BY <2>2
    <3>3. a = b
      <4> HIDE DEF a, b
      <4> QED BY <1>2, <1>3, <3>1, <3>2
    <3> QED BY <2>1, <3>1, <3>2, <3>3
  <2>4. Before(r, "after", "teleport", p)
    <3> SUFFICES ASSUME NEW k \in DOMAIN r, NEW l \in DOMAIN r, Is(r[k], "after", p), Is(r[l], "teleport", p)
                 PROVE  k < l
      BY DEF Before
    <3>1. k \in 1 .. Len(q)
      <4>1. CASE k \in Len(q) + 1 .. Len(q) + Len(e)
        <5>1. k - Len(q) \in DOMAIN e /\ r[k] = e[k - Len(q)]
          BY <2>1, <4>1
        <5> QED BY <1>3, <5>1 DEF Is
      <4> QED BY <2>1, <4>1
    <3> QED BY <2>1, <2>2, <3>1
  <2>5. Carry(r, i, p)
    BY <1>3, <2>2 DEF Carry
  <2> QED BY <2>3, <2>4, <2>5
<1> QED BY <1>4, <1>5, <1>6

\* An announced world is noted in the object of the player.
LEMMA NoteWorld ==
    ASSUME Typed, JumpInv, NEW p \in Players, NEW i \in Instances, NEW w \in Instances,
           objects[i][p] # None, objects[i][p].id = w.id,
           objects'[i][p] = [objects[i][p] EXCEPT !.world = w],
           \A j \in Instances : j # i => objects'[j][p] = objects[j][p],
           \A j \in Instances : Same(inbox[j], inbox'[j], InKinds, p),
           UNCHANGED <<worldbox, proxy, world, where, waits, base>>
    PROVE  Staged(p)'
<1>1. where[p] \in Instances /\ Left(p)
  BY StageOf
<1>2. PICK s \in {"rest", "asked", "jump", "sent", "enter"}, t \in Instances :
           /\ s # "rest" => p \in waits
           /\ Asked(p, s) /\ Jumping(p, s) /\ Syncing(p, s) /\ Sent(p, s, t) /\ Entering(p, s)
  BY StageOf
<1>3. s = "jump" /\ i = where[p]
  BY <1>2 DEF Jumping
<1>4. objects[i][p] \in TeleportObjects
  BY TypeFacts
<1>5. /\ objects'[i][p] # None /\ objects'[i][p].id = objects[i][p].id /\ objects'[i][p].world = w
      /\ objects'[i][p].sync = objects[i][p].sync
  <2>1. PICK o \in TeleportObjects : o = objects[i][p]
    BY <1>4
  <2>2. /\ [o EXCEPT !.world = w] \in TeleportObjects /\ [o EXCEPT !.world = w].sync = o.sync
        /\ [o EXCEPT !.world = w].id = o.id /\ [o EXCEPT !.world = w].world = w
    BY DEF TeleportObjects, Flags
  <2>3. [o EXCEPT !.world = w] # None /\ objects'[i][p] = [o EXCEPT !.world = w]
    BY <2>1, <2>2, NoneAssumption
  <2> QED BY <2>1, <2>2, <2>3
<1>6. \A j \in Instances : objects'[j][p].sync = objects[j][p].sync
  BY <1>5
<1>7. Jumping(p, "jump")'
  <2>1. \A j \in Instances : objects'[j][p] # None <=> j = i
    BY <1>2, <1>3, <1>5 DEF Jumping
  <2>2. Jumping(p, "jump")
    BY <1>2, <1>3
  <2> QED BY <1>3, <1>5, <2>1, <2>2 DEF Jumping
<1>8. \A j \in Instances : /\ Same(inbox[j], inbox'[j], {"after"}, p) /\ Same(inbox[j], inbox'[j], {"enter"}, p)
                           /\ Same(inbox[j], inbox'[j], {"sync"}, p)
                           /\ Same(inbox[j], inbox'[j], {"after", "teleport"}, p)
  <2>1. /\ {"after"} \subseteq InKinds /\ {"enter"} \subseteq InKinds /\ {"sync"} \subseteq InKinds
        /\ {"after", "teleport"} \subseteq InKinds
    BY DEF InKinds
  <2> QED BY <2>1, SameLess
<1>9. Syncing(p, "jump")'
  <2>1. \A j \in Instances : Same(worldbox[j], worldbox'[j], {"reqsync"}, p)
    BY SameSelf
  <2>2. Syncing(p, "jump")
    BY <1>2, <1>3
  <2> QED BY <1>6, <1>8, <2>1, <2>2, FrameSyncing
<1>10. Asked(p, "jump") /\ Sent(p, "jump", t) /\ Entering(p, "jump") /\ p \in waits'
  BY <1>2, <1>3
<1> QED BY <1>1, <1>7, <1>8, <1>9, <1>10, KeepOn

\* The announcement of a public world.
LEMMA PublicStep ==
    ASSUME Typed, JumpInv, NEW i \in Instances, NEW w \in Instances, inbox[i] # <<>>, Head(inbox[i]).type = "created",
           PublicCreated(i, w), UNCHANGED <<worldbox, proxy, world, where, waits, base>>, NEW p \in Players
    PROVE  Staged(p)' /\ (fault' => fault)
<1>0. inbox \in [Instances -> Seq(InMsgs)] /\ proxy \in [Instances -> [Players -> Data \union {None}]]
  BY TypeFacts
<1>1. PICK gone \in SUBSET Players : \E seq \in InOrder(gone) : Announced(i, w, gone, seq)
  BY PublicCases
<1>2. PICK seq \in InOrder(gone) : Announced(i, w, gone, seq)
  BY <1>1
<1> DEFINE b == Done(inbox, i)
<1>3. b \in [Instances -> Seq(InMsgs)] /\ \A j \in Instances : Same(inbox[j], b[j], InKinds, p)
  <2>1. \A type \in InKinds : ~ Is(Head(inbox[i]), type, p)
    BY DEF Is, InKinds
  <2> QED BY <1>0, <2>1, InboxSame, DoneType
<1>4. /\ Jumps(i, seq) \in Seq(InMsgs)
      /\ inbox'[w] = b[w] \o Jumps(i, seq)
      /\ \A j \in Instances : j # w => inbox'[j] = b[j]
  BY <1>2, JumpsType
<1> HIDE DEF b
<1>5. /\ p \notin gone => Same(b[w], inbox'[w], InKinds, p)
      /\ Same(b[w], inbox'[w], {"after", "enter", "sync"}, p)
      /\ No(b[w], "teleport", p) =>
            One(inbox'[w], "teleport", p) /\ Before(inbox'[w], "after", "teleport", p) /\ Carry(inbox'[w], i, p)
  <2>1. PICK q \in Seq(InMsgs) : q = b[w]
    BY <1>3
  <2>2. PICK r : r = q \o Jumps(i, seq)
    OBVIOUS
  <2>3. Jumps(i, seq) \in Seq(InMsgs)
    BY <1>4
  <2>4. /\ p \notin gone => Same(q, r, InKinds, p)
        /\ Same(q, r, {"after", "enter", "sync"}, p)
        /\ No(q, "teleport", p) =>
              One(r, "teleport", p) /\ Before(r, "after", "teleport", p) /\ Carry(r, i, p)
    <3>1. p \notin gone => Same(q, r, InKinds, p)
      BY <2>2, <2>3, ConcatJumps
    <3>2. Same(q, r, {"after", "enter", "sync"}, p)
      BY <2>2, <2>3, ConcatJumps
    <3>3. No(q, "teleport", p) =>
             One(r, "teleport", p) /\ Before(r, "after", "teleport", p) /\ Carry(r, i, p)
      BY <2>2, <2>3, ConcatJumps
    <3> QED BY <3>1, <3>2, <3>3
  <2>5. inbox'[w] = r /\ b[w] = q
    BY <1>4, <2>1, <2>2
  <2> QED BY <2>4, <2>5
<1>6. where[p] \in Instances /\ Staged(p) /\ Left(p)
  BY StageOf
<1>7. PICK s \in {"rest", "asked", "jump", "sent", "enter"}, t \in Instances :
           /\ s # "rest" => p \in waits
           /\ Asked(p, s) /\ Jumping(p, s) /\ Syncing(p, s) /\ Sent(p, s, t) /\ Entering(p, s)
  BY StageOf
<1>8. fault' => fault
  <2>1. ASSUME NEW q \in Players, objects[i][q] # None PROVE proxy[i][q] # None
    <3>1. Left(q) /\ \E s1 \in {"rest", "asked", "jump", "sent", "enter"} : Jumping(q, s1)
      BY StageOf
    <3> QED BY <2>1, <3>1 DEF Left, Jumping
  <2> QED BY <1>2, <2>1 DEF Announced
<1>9. CASE p \notin gone
  <2>1. \A j \in Instances : Same(inbox[j], inbox'[j], InKinds, p)
    <3> SUFFICES ASSUME NEW j \in Instances PROVE Same(inbox[j], inbox'[j], InKinds, p)
      OBVIOUS
    <3>1. CASE j # w
      BY <1>3, <1>4, <3>1
    <3>2. CASE j = w
      <4>1. Same(inbox[w], b[w], InKinds, p) /\ Same(b[w], inbox'[w], InKinds, p)
        BY <1>3, <1>5, <1>9
      <4> QED BY <3>2, <4>1, SameTwice
    <3> QED BY <3>1, <3>2
  <2>2. \A j \in Instances : j # i => objects'[j][p] = objects[j][p]
    BY <1>2 DEF Announced
  <2>3. CASE objects'[i][p] = objects[i][p]
    <3>1. \A j \in Instances : Same(worldbox[j], worldbox'[j], WorldKinds, p)
      BY SameSelf
    <3>2. \A j \in Instances : objects'[j][p] = objects[j][p]
      BY <2>2, <2>3
    <3>3. Untouched(p)
      BY <2>1, <3>1, <3>2 DEF Untouched
    <3> QED BY <1>6, <1>8, <3>3, FrameAll
  <2>4. CASE objects'[i][p] # objects[i][p]
    <3>1. objects[i][p] # None /\ objects[i][p].id = w.id /\ objects'[i][p] = [objects[i][p] EXCEPT !.world = w]
      BY <1>2, <1>9, <2>4 DEF Announced
    <3> QED BY <1>8, <2>1, <2>2, <3>1, NoteWorld
  <2> QED BY <2>3, <2>4
<1>10. CASE p \in gone
  <2>1. objects[i][p] # None /\ objects[i][p].id = w.id /\ objects[i][p].sync /\ proxy[i][p] # None
    BY <1>2, <1>10 DEF Announced
  <2>2. s = "jump" /\ i = where[p] /\ w # i
    BY <1>7, <2>1 DEF Jumping
  <2>3. \A j \in Instances : No(inbox[j], "sync", p) /\ No(worldbox[j], "reqsync", p)
    BY <1>7, <2>1, <2>2 DEF Syncing
  <2>4. proxy[i][p] >= base[p]
    BY <1>7, <2>1, <2>2 DEF Jumping
  <2>5. \A j \in Instances : /\ Same(inbox[j], inbox'[j], {"after"}, p) /\ Same(inbox[j], inbox'[j], {"enter"}, p)
                             /\ Same(inbox[j], inbox'[j], {"sync"}, p)
    <3> SUFFICES ASSUME NEW j \in Instances PROVE Same(inbox[j], inbox'[j], {"after", "enter", "sync"}, p)
      <4>1. /\ {"after"} \subseteq {"after", "enter", "sync"} /\ {"enter"} \subseteq {"after", "enter", "sync"}
            /\ {"sync"} \subseteq {"after", "enter", "sync"}
        OBVIOUS
      <4> QED BY <4>1, SameLess
    <3>1. Same(inbox[j], b[j], {"after", "enter", "sync"}, p)
      <4>1. {"after", "enter", "sync"} \subseteq InKinds
        BY DEF InKinds
      <4> QED BY <1>3, <4>1, SameLess
    <3>2. CASE j # w
      BY <1>4, <3>1, <3>2
    <3>3. CASE j = w
      BY <1>5, <3>1, <3>3, SameTwice
    <3> QED BY <3>2, <3>3
  <2>6. \A j \in Instances : No(b[j], "teleport", p)
    <3>1. \A j \in Instances : No(inbox[j], "teleport", p)
      BY <1>7, <2>2 DEF Sent, No
    <3> QED BY <1>3, <3>1 DEF Same, InKinds
  <2>7. \A j \in Instances : objects'[j][p] = None
    <3>1. objects'[i][p] = None /\ \A j \in Instances : j # i => objects'[j][p] = objects[j][p]
      BY <1>2, <1>10 DEF Announced
    <3>2. \A j \in Instances : j # i => objects[j][p] = None
      BY <1>7, <2>2 DEF Jumping
    <3> QED BY <3>1, <3>2
  <2>8. \A j \in Instances : No(inbox'[j], "sync", p)
    BY <2>3, <2>5 DEF Same
  <2>9. /\ One(inbox'[w], "teleport", p) /\ Before(inbox'[w], "after", "teleport", p)
        /\ \A k \in DOMAIN inbox'[w] : Is(inbox'[w][k], "teleport", p) =>
              inbox'[w][k].from = where[p] /\ inbox'[w][k].data >= base[p]
    BY <1>5, <2>2, <2>4, <2>6 DEF Carry
  <2>10. \A j \in Instances : j # w => No(inbox'[j], "teleport", p)
    BY <1>4, <2>6
  <2>11. Asked(p, "jump") /\ Entering(p, "jump") /\ p \in waits' /\ w # where[p]
    BY <1>7, <2>2
  <2>12. Staged(p)'
    BY <1>6, <2>3, <2>5, <2>7, <2>8, <2>9, <2>10, <2>11, SendOn
  <2> QED BY <1>8, <2>12
<1> QED BY <1>9, <1>10

\* The announcement of a dungeon.
LEMMA DungeonStep ==
    ASSUME Typed, JumpInv, NEW i \in Instances, NEW w \in Instances, inbox[i] # <<>>, Head(inbox[i]).type = "created",
           DungeonCreated(i, w), UNCHANGED <<worldbox, proxy, world, where, waits, base>>, NEW p \in Players
    PROVE  Staged(p)' /\ (fault' => fault)
<1> DEFINE ps == Waiting(i, w.id)
           q == First(ps)
           o == [objects[i][q] EXCEPT !.world = w]
           data == proxy[i][q]
<1>0. /\ inbox \in [Instances -> Seq(InMsgs)] /\ proxy \in [Instances -> [Players -> Data \union {None}]]
      /\ objects \in [Instances -> [Players -> TeleportObjects \union {None}]]
  BY TypeFacts
<1>1. \A type \in InKinds : ~ Is(Head(inbox[i]), type, p)
  BY DEF Is, InKinds
<1>2. \A j \in Instances : Same(inbox[j], Done(inbox, i)[j], InKinds, p)
  BY <1>0, <1>1, InboxSame
<1>3. where[p] \in Instances /\ Staged(p) /\ Left(p)
  BY StageOf
<1>4. \A j \in Instances : Same(worldbox[j], worldbox'[j], WorldKinds, p)
  BY SameSelf
<1>5. CASE ps = {}
  <2>1. inbox' = Done(inbox, i) /\ UNCHANGED <<objects, fault>>
    BY <1>5 DEF DungeonCreated
  <2>2. Untouched(p)
    BY <1>2, <1>4, <2>1 DEF Untouched
  <2> QED BY <1>3, <2>1, <2>2, FrameAll
<1>6. CASE ps # {}
  <2>1. Check(i, q, o, data)
    BY <1>6 DEF DungeonCreated
  <2>2. q \in Players /\ objects[i][q] # None /\ objects[i][q].id = w.id
    <3>1. ps \in SUBSET Players /\ \A r \in ps : objects[i][r] # None /\ objects[i][r].id = w.id
      BY DEF Waiting
    <3> HIDE DEF ps
    <3> QED BY <1>6, <3>1, FirstIs
  <2> HIDE DEF q, ps
  <2>3. Left(q) /\ \E s1 \in {"rest", "asked", "jump", "sent", "enter"} : Jumping(q, s1)
    BY <2>2, StageOf
  <2>4. data \in Data
    BY <1>0, <2>2, <2>3 DEF Left, Jumping
  <2>5. objects[i][q] \in TeleportObjects
    BY <1>0, <2>2
  <2>6. o \in TeleportObjects /\ o # None /\ o.id = w.id /\ o.world = w /\ o.sync = objects[i][q].sync
    BY <2>2, <2>5, NoneAssumption DEF TeleportObjects, Flags
  <2>7. Sends(i, q, o, data) \/ Keeps(i, q, o, data)
    BY <2>1, <2>2, CheckCases
  <2>8. fault' => fault
    BY <2>4, <2>7, NoneAssumption DEF Sends, Keeps
  <2>9. CASE p # q
    <3>1. \A j \in Instances : Same(inbox[j], inbox'[j], InKinds, p) /\ objects'[j][p] = objects[j][p]
      <4> HIDE DEF o, data
      <4> QED BY <1>1, <2>1, <2>2, <2>4, <2>9, CheckOthers
    <3>2. Untouched(p)
      BY <1>4, <3>1 DEF Untouched
    <3> QED BY <1>3, <2>8, <3>2, FrameAll
  <2>10. CASE p = q /\ Keeps(i, q, o, data)
    <3>1. inbox' = Done(inbox, i) /\ objects' = [objects EXCEPT ![i][p] = o]
      BY <2>10 DEF Keeps
    <3>2. objects'[i][p] = [objects[i][p] EXCEPT !.world = w] /\ \A j \in Instances : j # i => objects'[j][p] = objects[j][p]
      BY <1>0, <2>10, <3>1
    <3>3. \A j \in Instances : Same(inbox[j], inbox'[j], InKinds, p)
      BY <1>2, <3>1
    <3>4. objects[i][p] # None /\ objects[i][p].id = w.id
      BY <2>2, <2>10
    <3> QED BY <2>8, <3>2, <3>3, <3>4, NoteWorld
  <2>11. CASE p = q /\ Sends(i, q, o, data)
    <3>1. PICK s \in {"rest", "asked", "jump", "sent", "enter"}, t \in Instances :
             /\ s # "rest" => p \in waits
             /\ Asked(p, s) /\ Jumping(p, s) /\ Syncing(p, s) /\ Sent(p, s, t) /\ Entering(p, s)
      BY StageOf
    <3>2. s = "jump" /\ i = where[p]
      BY <2>2, <2>11, <3>1 DEF Jumping
    <3>3. Asked(p, "jump") /\ Jumping(p, "jump") /\ Sent(p, "jump", t) /\ Entering(p, "jump") /\ p \in waits'
      BY <3>1, <3>2
    <3>4. objects[i][p].sync /\ o.sync
      BY <2>6, <2>11 DEF Sends
    <3>5. data >= base[p] /\ o.world.id # i.id
      BY <2>2, <2>6, <2>11, <3>2, <3>3, <3>4 DEF Jumping
    <3>6. \A j \in Instances : No(Done(inbox, i)[j], "sync", p) /\ No(worldbox[j], "reqsync", p)
      <4>1. \A j \in Instances : No(inbox[j], "sync", p) /\ No(worldbox[j], "reqsync", p)
        BY <3>1, <3>2, <3>4 DEF Syncing
      <4> QED BY <1>2, <4>1 DEF Same, InKinds
    <3>7. Head(inbox[i]).type \in {"sync", "created"} /\ Sends(i, p, o, data)
      BY <2>11
    <3> HIDE DEF o, data
    <3>8. Staged(p)'
      BY <1>3, <2>4, <2>6, <3>2, <3>3, <3>5, <3>6, <3>7, CheckSends
    <3> QED BY <2>8, <3>8
  <2> QED BY <2>7, <2>9, <2>10, <2>11
<1> QED BY <1>5, <1>6

\* The target takes the player over.
LEMMA TeleportStep ==
    ASSUME Typed, JumpInv, NEW i \in Instances, HandleTeleport(i), NEW p \in Players
    PROVE  Staged(p)' /\ where'[p] \in Instances
<1> DEFINE m == Head(inbox[i])
           e == [type |-> "player", p |-> m.p, data |-> m.data]
           a == Plain("after", m.p)
           b == Done(inbox, i)
<1>0. /\ inbox \in [Instances -> Seq(InMsgs)] /\ worldbox \in [Instances -> Seq(WorldMsgs)]
      /\ proxy \in [Instances -> [Players -> Data \union {None}]] /\ None \notin Data
      /\ where \in [Players -> Instances \union {None}]
  BY TypeFacts
<1>1. inbox[i] # <<>> /\ m.type = "teleport"
  BY DEF HandleTeleport, ProxyGets, Gets
<1>2. m \in InMsgs /\ m.p \in Players /\ m.data \in Data /\ m.from \in Instances
      /\ (\E k \in DOMAIN inbox[i] : inbox[i][k] = m)
  BY <1>0, <1>1, InboxTail, InFields
<1>3. /\ UNCHANGED <<objects, world, waits, base>>
      /\ proxy[i][m.p] # None => inbox' = b /\ UNCHANGED <<proxy, worldbox, where>>
      /\ proxy[i][m.p] = None => /\ proxy' = [proxy EXCEPT ![i][m.p] = m.data] /\ worldbox' = Post(worldbox, i, e)
                                 /\ inbox' = Post(b, m.from, a) /\ where' = [where EXCEPT ![m.p] = i]
  BY DEF HandleTeleport, clientVars, AddPlayer, RegisterToLocator
<1>4. /\ e \in WorldMsgs /\ e.type = "player" /\ e.p = m.p
      /\ a \in InMsgs /\ a.type = "after" /\ a.p = m.p
  BY <1>2, WorldMade, InMade DEF Plain
<1> HIDE DEF m, e, a
<1>5. where[p] \in Instances /\ Staged(p) /\ Left(p)
  BY StageOf
<1>6. CASE p # m.p
  <2>1. \A type \in InKinds : ~ Is(m, type, p) /\ ~ Is(a, type, p)
    BY <1>4, <1>6 DEF Is
  <2>2. \A type \in WorldKinds : ~ Is(e, type, p)
    BY <1>4, <1>6 DEF Is
  <2>3. CASE proxy[i][m.p] # None
    <3>1. \A j \in Instances : Same(inbox[j], inbox'[j], InKinds, p)
      BY <1>0, <1>1, <1>3, <2>1, <2>3, InboxSame DEF m
    <3>2. \A j \in Instances : Same(worldbox[j], worldbox'[j], WorldKinds, p)
      BY <1>3, <2>3, SameSelf
    <3>3. Untouched(p)
      BY <1>3, <2>3, <3>1, <3>2 DEF Untouched
    <3> QED BY <1>3, <1>5, <2>3, <3>3, FrameAll
  <2>4. CASE proxy[i][m.p] = None
    <3>1. \A j \in Instances : Same(inbox[j], Post(b, m.from, a)[j], InKinds, p)
      BY <1>0, <1>1, <1>2, <1>4, <2>1, InboxSame DEF m
    <3>2. \A j \in Instances : Same(worldbox[j], Post(worldbox, i, e)[j], WorldKinds, p)
      BY <1>0, <1>4, <2>2, WorldboxSame
    <3>3. proxy' = [proxy EXCEPT ![i][m.p] = m.data] /\ where' = [where EXCEPT ![m.p] = i]
          /\ inbox' = Post(b, m.from, a) /\ worldbox' = Post(worldbox, i, e)
      BY <1>3, <2>4
    <3>4. \A j \in Instances : proxy'[j][p] = proxy[j][p]
      BY <1>0, <1>2, <1>6, <3>3
    <3>5. where'[p] = where[p]
      BY <1>0, <1>2, <1>6, <3>3
    <3>6. Untouched(p)
      BY <1>3, <3>1, <3>2, <3>3, <3>4, <3>5 DEF Untouched
    <3> QED BY <1>5, <3>5, <3>6, FrameAll
  <2> QED BY <2>3, <2>4
<1>7. CASE p = m.p
  <2> DEFINE h == where[p]
  <2>1. PICK s \in {"rest", "asked", "jump", "sent", "enter"}, t \in Instances :
           /\ s # "rest" => p \in waits
           /\ Asked(p, s) /\ Jumping(p, s) /\ Syncing(p, s) /\ Sent(p, s, t) /\ Entering(p, s)
    BY StageOf
  <2>2. s = "sent" /\ i = t /\ m.from = h /\ m.data >= base[p] /\ i # h
    BY <1>1, <1>2, <1>7, <2>1 DEF Sent, Is
  <2> HIDE DEF h
  <2>3. Is(m, "teleport", p) /\ Is(a, "after", p) /\ Is(e, "player", p)
    BY <1>1, <1>4, <1>7 DEF Is
  <2>4. No(inbox[i], "after", p)
    <3>1. PICK q \in Seq(InMsgs) : q = inbox[i]
      BY <1>0
    <3>2. q # <<>>
      BY <1>1, <3>1
    <3>3. \A c, d : Before(q, c, d, p) /\ Is(Head(q), d, p) => No(q, c, p)
      BY <3>2, TailParts
    <3>4. Before(q, "after", "teleport", p) /\ Is(Head(q), "teleport", p)
      BY <2>1, <2>3, <3>1 DEF Sent, m
    <3>5. No(q, "after", p)
      BY <3>3, <3>4
    <3> QED BY <3>1, <3>5
  <2>5. proxy[i][p] = None
    BY <2>2, <2>4, <1>5 DEF Left, h
  <2>6. /\ proxy' = [proxy EXCEPT ![i][p] = m.data] /\ worldbox' = Post(worldbox, i, e)
        /\ inbox' = Post(b, h, a) /\ where' = [where EXCEPT ![p] = i]
    BY <1>3, <1>7, <2>2, <2>5
  <2>7. where'[p] = i /\ h \in Instances /\ h = where[p]
    BY <1>0, <1>5, <2>6 DEF h
  <2>8. proxy'[i][p] # None /\ \A j \in Instances : j # i => proxy'[j][p] = proxy[j][p]
    <3>1. proxy'[i][p] = m.data
      BY <1>0, <2>6
    <3>2. m.data # None
      BY <1>0, <1>2
    <3> QED BY <1>0, <2>6, <3>1, <3>2
  <2>9. /\ b \in [Instances -> Seq(InMsgs)]
        /\ b[i] = Tail(inbox[i])
        /\ \A j \in Instances : j # i => b[j] = inbox[j]
        /\ \A type : One(inbox[i], type, p) /\ Is(m, type, p) => No(Tail(inbox[i]), type, p)
        /\ \A j \in Instances :
              /\ \A type : No(inbox[j], type, p) => No(b[j], type, p)
              /\ \A type : One(inbox[j], type, p) => One(b[j], type, p)
              /\ \A c, d : Before(inbox[j], c, d, p) => Before(b[j], c, d, p)
    BY <1>0, <1>1, InboxTail DEF m
  <2> HIDE DEF b
  <2>10. /\ \A j \in Instances : j # h => inbox'[j] = b[j]
         /\ \A type : No(inbox'[h], type, p) <=> No(b[h], type, p) /\ ~ Is(a, type, p)
         /\ \A type : One(b[h], type, p) /\ (Is(a, type, p) => No(b[h], type, p)) => One(inbox'[h], type, p)
    <3>1. /\ \A j \in Instances : j # h => Post(b, h, a)[j] = b[j]
          /\ \A type : No(Post(b, h, a)[h], type, p) <=> No(b[h], type, p) /\ ~ Is(a, type, p)
          /\ \A type : One(b[h], type, p) /\ (Is(a, type, p) => No(b[h], type, p)) => One(Post(b, h, a)[h], type, p)
      BY <1>4, <2>7, <2>9, InboxPost
    <3> QED BY <2>6, <3>1
  <2>11. /\ \A j \in Instances : j # i => worldbox'[j] = worldbox[j]
         /\ \A type : No(worldbox'[i], type, p) <=> No(worldbox[i], type, p) /\ ~ Is(e, type, p)
         /\ \A type : One(worldbox[i], type, p) /\ (Is(e, type, p) => No(worldbox[i], type, p))
               => One(worldbox'[i], type, p)
         /\ \A c, d : Before(worldbox[i], c, d, p) /\ (Is(e, c, p) => No(worldbox[i], d, p)) /\ c # d
               => Before(worldbox'[i], c, d, p)
    <3>1. /\ \A j \in Instances : j # i => Post(worldbox, i, e)[j] = worldbox[j]
          /\ \A type : No(Post(worldbox, i, e)[i], type, p) <=> No(worldbox[i], type, p) /\ ~ Is(e, type, p)
          /\ \A type : One(worldbox[i], type, p) /\ (Is(e, type, p) => No(worldbox[i], type, p))
                => One(Post(worldbox, i, e)[i], type, p)
          /\ \A c, d : Before(worldbox[i], c, d, p) /\ (Is(e, c, p) => No(worldbox[i], d, p)) /\ c # d
                => Before(Post(worldbox, i, e)[i], c, d, p)
      BY <1>0, <1>4, WorldboxPost
    <3> QED BY <2>6, <3>1
  <2>12. \A type : type # "after" => ~ Is(a, type, p)
    BY <1>4 DEF Is
  <2>13. \A type : type # "player" => ~ Is(e, type, p)
    BY <1>4 DEF Is
  <2>14. Left(p)'
    <3>1. No(inbox[h], "after", p) /\ proxy[h][p] # None /\ \A j \in Instances : One(inbox[j], "after", p)
      BY <1>5, <2>7 DEF Left
    <3>2. No(inbox'[i], "after", p)
      BY <2>2, <2>4, <2>9, <2>10
    <3>3. b[h] = inbox[h]
      BY <2>2, <2>7, <2>9
    <3>4. ~ No(inbox'[h], "after", p) /\ One(inbox'[h], "after", p)
      <4>1. One(b[h], "after", p) /\ No(b[h], "after", p)
        BY <2>7, <3>1, <3>3
      <4>2. ~ No(inbox'[h], "after", p)
        BY <2>3, <2>10
      <4>3. One(inbox'[h], "after", p)
        BY <2>10, <4>1
      <4> QED BY <4>2, <4>3
    <3>5. \A j \in Instances : j # h /\ j # i => inbox'[j] = inbox[j] /\ worldbox'[j] = worldbox[j]
      BY <2>9, <2>10, <2>11
    <3>6. \A j \in Instances : One(inbox'[j], "after", p)
      BY <2>2, <3>1, <3>2, <3>4, <3>5 DEF One, No
    <3>7. ASSUME NEW j \in Instances, j # i
          PROVE  /\ proxy'[j][p] # None <=> ~ No(inbox'[j], "after", p)
                 /\ world'[j][p] # None => ~ No(inbox'[j], "after", p) \/ ~ No(worldbox'[j], "remove", p)
      <4>1. CASE j = h
        BY <2>2, <2>8, <3>1, <3>4, <4>1
      <4>2. CASE j # h
        BY <1>3, <1>5, <2>7, <2>8, <3>5, <3>7, <4>2 DEF Left
      <4> QED BY <4>1, <4>2
    <3> QED BY <2>7, <2>8, <3>2, <3>6, <3>7 DEF Left
  <2>15. \A j \in Instances : /\ No(inbox'[j], "enter", p) /\ No(inbox'[j], "sync", p)
                              /\ No(inbox'[j], "teleport", p)
    <3>1. \A j \in Instances : No(inbox[j], "enter", p) /\ No(inbox[j], "sync", p)
      BY <2>1, <2>2 DEF Asked, Syncing, No
    <3>2. \A j \in Instances : j # i => No(inbox[j], "teleport", p)
      BY <2>1, <2>2 DEF Sent, No
    <3>3. One(inbox[i], "teleport", p)
      BY <2>1 DEF Sent
    <3>4. No(b[i], "teleport", p)
      BY <2>3, <2>9, <3>3
    <3>5. \A j \in Instances : No(b[j], "enter", p) /\ No(b[j], "sync", p) /\ No(b[j], "teleport", p)
      BY <2>9, <3>1, <3>2, <3>4
    <3> QED BY <2>7, <2>10, <2>12, <3>5
  <2>16. Asked(p, "enter")'
    BY <2>15 DEF Asked, No, One
  <2>17. Jumping(p, "enter")'
    <3>1. \A j \in Instances : objects'[j][p] = None
      BY <1>3, <2>1, <2>2 DEF Jumping
    <3> QED BY <3>1 DEF Jumping
  <2>18. Syncing(p, "enter")'
    <3>1. \A j \in Instances : No(worldbox[j], "reqsync", p)
      BY <2>1, <2>2 DEF Syncing
    <3>2. \A j \in Instances : No(worldbox'[j], "reqsync", p)
      BY <2>11, <2>13, <3>1
    <3> QED BY <2>15, <3>2 DEF Syncing, No, One
  <2>19. Sent(p, "enter", t)'
    BY <2>15 DEF Sent, No, One, Before
  <2>20. \A j \in Instances : /\ No(worldbox[j], "player", p) /\ One(worldbox[j], "player", p)
                              /\ Before(worldbox[j], "remove", "player", p)
    BY <2>1, <2>2 DEF Entering
  <2>21. Entering(p, "enter")'
    <3>1. world[i][p] # None => ~ No(worldbox[i], "remove", p)
      BY <1>5, <2>2, <2>4, <2>7 DEF Left
    <3>2. world'[i][p] # None => ~ No(worldbox'[i], "remove", p)
      BY <1>3, <2>11, <3>1
    <3>3. One(worldbox'[i], "player", p) /\ Before(worldbox'[i], "remove", "player", p)
      BY <2>11, <2>13, <2>20
    <3>4. \A j \in Instances : /\ One(worldbox'[j], "player", p) /\ Before(worldbox'[j], "remove", "player", p)
                               /\ ~ No(worldbox'[j], "player", p) => j = i
      BY <2>11, <2>20, <3>3
    <3> QED BY <2>7, <3>2, <3>4 DEF Entering
  <2>22. Stage(p, "enter", t)'
    BY <1>3, <2>1, <2>2, <2>16, <2>17, <2>18, <2>19, <2>21 DEF Stage
  <2> QED BY <2>7, <2>14, <2>22 DEF Staged
<1> QED BY <1>6, <1>7

\* The requests of the other clients.
LEMMA OtherAskStep ==
    ASSUME Typed, JumpInv, NEW q \in Players, NEW id \in Ids, ClientEnterWorld(q, id), NEW p \in Players, p # q
    PROVE  Staged(p)'
<1> DEFINE m == [type |-> "enter", p |-> q, id |-> id]
<1>1. /\ inbox' = Post(inbox, where[q], m) /\ waits' = waits \union {q}
      /\ UNCHANGED <<worldbox, proxy, objects, world, where, base>>
  BY DEF ClientEnterWorld, proxyVars
<1>2. inbox \in [Instances -> Seq(InMsgs)] /\ m \in InMsgs /\ m.p = q /\ where[q] \in Instances
  BY TypeFacts, InMade DEF JumpInv, NoDrops
<1> HIDE DEF m
<1>3. \A type \in InKinds : ~ Is(m, type, p)
  BY <1>2 DEF Is
<1>4. \A j \in Instances : Same(inbox[j], Post(inbox, where[q], m)[j], InKinds, p)
  BY <1>2, <1>3, InboxSame
<1>5. \A j \in Instances : Same(worldbox[j], worldbox'[j], WorldKinds, p)
  BY <1>1, SameSelf
<1>6. Untouched(p)
  BY <1>1, <1>4, <1>5 DEF Untouched
<1> QED BY <1>6, StageOf, FrameAll

\* The old proxy lets go.
LEMMA AfterStep ==
    ASSUME Typed, JumpInv, NEW i \in Instances, HandleTeleportAfter(i), NEW p \in Players
    PROVE  Staged(p)'
<1> DEFINE m == Head(inbox[i])
           e == Plain("remove", m.p)
           b == Done(inbox, i)
<1>0. /\ inbox \in [Instances -> Seq(InMsgs)] /\ worldbox \in [Instances -> Seq(WorldMsgs)]
      /\ proxy \in [Instances -> [Players -> Data \union {None}]]
  BY TypeFacts
<1>1. inbox[i] # <<>> /\ m.type = "after"
  BY DEF HandleTeleportAfter, ProxyForget, ProxyGets, Gets
<1>2. m \in InMsgs /\ m.p \in Players /\ (\E k \in DOMAIN inbox[i] : inbox[i][k] = m)
  BY <1>0, <1>1, InboxTail, InFields
<1>3. /\ UNCHANGED <<objects, world, where, waits, base>> /\ inbox' = b
      /\ proxy[i][m.p] = None => UNCHANGED <<proxy, worldbox>>
      /\ proxy[i][m.p] # None => proxy' = [proxy EXCEPT ![i][m.p] = None] /\ worldbox' = Post(worldbox, i, e)
  BY DEF HandleTeleportAfter, ProxyForget, clientVars, RemovePlayer, LetGo
<1>4. e \in WorldMsgs /\ e.type = "remove" /\ e.p = m.p
  BY <1>2, WorldMade DEF Plain
<1> HIDE DEF m, e, b
<1>5. where[p] \in Instances /\ Staged(p) /\ Left(p)
  BY StageOf
<1>6. CASE p # m.p
  <2>1. (\A type \in InKinds : ~ Is(m, type, p)) /\ (\A type \in WorldKinds : ~ Is(e, type, p))
    BY <1>4, <1>6 DEF Is
  <2>2. \A j \in Instances : Same(inbox[j], inbox'[j], InKinds, p)
    BY <1>0, <1>1, <1>3, <2>1, InboxSame DEF m, b
  <2>3. \A j \in Instances : Same(worldbox[j], Post(worldbox, i, e)[j], WorldKinds, p)
    BY <1>0, <1>4, <2>1, WorldboxSame
  <2>4. \A j \in Instances : Same(worldbox[j], worldbox'[j], WorldKinds, p)
    BY <1>3, <2>3, SameSelf
  <2>5. \A j \in Instances : proxy'[j][p] = proxy[j][p]
    <3>1. CASE proxy[i][m.p] = None
      BY <1>3, <3>1
    <3>2. CASE proxy[i][m.p] # None
      <4>1. proxy' = [proxy EXCEPT ![i][m.p] = None]
        BY <1>3, <3>2
      <4> QED BY <1>0, <1>2, <1>6, <4>1
    <3> QED BY <3>1, <3>2
  <2>6. Untouched(p)
    BY <1>3, <2>2, <2>4, <2>5 DEF Untouched
  <2> QED BY <1>5, <2>6, FrameAll
<1>7. CASE p = m.p
  <2>1. PICK s \in {"rest", "asked", "jump", "sent", "enter"}, t \in Instances :
           /\ s # "rest" => p \in waits
           /\ Asked(p, s) /\ Jumping(p, s) /\ Syncing(p, s) /\ Sent(p, s, t) /\ Entering(p, s)
    BY StageOf
  <2>2. Is(m, "after", p) /\ Is(e, "remove", p) /\ \A type : type # "remove" => ~ Is(e, type, p)
    BY <1>1, <1>4, <1>7 DEF Is
  <2>3. ~ No(inbox[i], "after", p)
    BY <1>2, <2>2 DEF No
  <2>4. i # where[p] /\ proxy[i][p] # None /\ One(inbox[i], "after", p)
    BY <1>5, <2>3 DEF Left
  <2>5. proxy' = [proxy EXCEPT ![i][p] = None] /\ worldbox' = Post(worldbox, i, e)
    BY <1>3, <1>7, <2>4
  <2>6. proxy'[i][p] = None /\ \A j \in Instances : j # i => proxy'[j][p] = proxy[j][p]
    BY <1>0, <2>5
  <2>7. /\ \A j \in Instances : j # i => inbox'[j] = inbox[j]
        /\ No(inbox'[i], "after", p)
        /\ \A j \in Instances :
              /\ \A type : No(inbox[j], type, p) => No(inbox'[j], type, p)
              /\ \A type : One(inbox[j], type, p) => One(inbox'[j], type, p)
              /\ \A c, d : Before(inbox[j], c, d, p) => Before(inbox'[j], c, d, p)
              /\ \A k \in DOMAIN inbox'[j] : \E l \in DOMAIN inbox[j] : inbox[j][l] = inbox'[j][k]
    <3>1. /\ b[i] = Tail(inbox[i])
          /\ \A j \in Instances : j # i => b[j] = inbox[j]
          /\ \A type : One(inbox[i], type, p) /\ Is(m, type, p) => No(Tail(inbox[i]), type, p)
          /\ \A j \in Instances :
                /\ \A type : No(inbox[j], type, p) => No(b[j], type, p)
                /\ \A type : One(inbox[j], type, p) => One(b[j], type, p)
                /\ \A c, d : Before(inbox[j], c, d, p) => Before(b[j], c, d, p)
                /\ \A k \in DOMAIN b[j] : \E l \in DOMAIN inbox[j] : inbox[j][l] = b[j][k]
      BY <1>0, <1>1, InboxTail DEF m, b
    <3> QED BY <1>3, <2>2, <2>4, <3>1
  <2>8. /\ \A j \in Instances : j # i => worldbox'[j] = worldbox[j]
        /\ ~ No(worldbox'[i], "remove", p)
        /\ \A type : type # "remove" =>
              /\ No(worldbox'[i], type, p) <=> No(worldbox[i], type, p)
              /\ One(worldbox[i], type, p) => One(worldbox'[i], type, p)
        /\ Before(worldbox[i], "remove", "player", p) /\ No(worldbox[i], "player", p)
              => Before(worldbox'[i], "remove", "player", p)
    <3>1. /\ \A j \in Instances : j # i => Post(worldbox, i, e)[j] = worldbox[j]
          /\ \A type : No(Post(worldbox, i, e)[i], type, p) <=> No(worldbox[i], type, p) /\ ~ Is(e, type, p)
          /\ \A type : One(worldbox[i], type, p) /\ (Is(e, type, p) => No(worldbox[i], type, p))
                => One(Post(worldbox, i, e)[i], type, p)
          /\ \A c, d : Before(worldbox[i], c, d, p) /\ (Is(e, c, p) => No(worldbox[i], d, p)) /\ c # d
                => Before(Post(worldbox, i, e)[i], c, d, p)
      BY <1>0, <1>4, WorldboxPost
    <3> QED BY <2>2, <2>5, <3>1
  <2>9. Left(p)'
    <3>1. proxy'[where[p]][p] # None /\ No(inbox'[where[p]], "after", p)
      BY <1>5, <2>4, <2>6, <2>7 DEF Left
    <3>2. \A j \in Instances : One(inbox'[j], "after", p)
      BY <1>5, <2>7 DEF Left
    <3>3. \A j \in Instances : j # where[p] =>
             /\ proxy'[j][p] # None <=> ~ No(inbox'[j], "after", p)
             /\ world'[j][p] # None => ~ No(inbox'[j], "after", p) \/ ~ No(worldbox'[j], "remove", p)
      BY <1>3, <1>5, <2>6, <2>7, <2>8 DEF Left
    <3> QED BY <1>3, <3>1, <3>2, <3>3 DEF Left
  <2>10. Asked(p, s)'
    <3>1. ASSUME NEW j \in Instances, NEW k \in DOMAIN inbox'[j], Is(inbox'[j][k], "enter", p)
          PROVE  s = "asked" /\ j = where[p] /\ inbox'[j][k].id # j.id
      <4>1. PICK l \in DOMAIN inbox[j] : inbox[j][l] = inbox'[j][k]
        BY <2>7
      <4> QED BY <2>1, <3>1, <4>1 DEF Asked
    <3>2. \A j \in Instances : One(inbox'[j], "enter", p)
      BY <2>1, <2>7 DEF Asked
    <3> QED BY <1>3, <3>1, <3>2 DEF Asked
  <2>11. Jumping(p, s)'
    <3>1. proxy'[where[p]][p] = proxy[where[p]][p]
      BY <1>5, <2>4, <2>6
    <3> QED BY <1>3, <2>1, <3>1 DEF Jumping
  <2>12. Syncing(p, s)'
    <3>1. ASSUME NEW j \in Instances, NEW k \in DOMAIN inbox'[j], Is(inbox'[j][k], "sync", p)
          PROVE  inbox'[j][k].data >= base[p]
      <4>1. PICK l \in DOMAIN inbox[j] : inbox[j][l] = inbox'[j][k]
        BY <2>7
      <4> QED BY <2>1, <3>1, <4>1 DEF Syncing
    <3>2. \A j \in Instances : One(inbox'[j], "sync", p) /\ One(worldbox'[j], "reqsync", p)
      BY <2>1, <2>7, <2>8 DEF Syncing
    <3>3. \A j \in Instances : /\ ~ No(inbox'[j], "sync", p) => ~ No(inbox[j], "sync", p)
                               /\ ~ No(worldbox'[j], "reqsync", p) => ~ No(worldbox[j], "reqsync", p)
      BY <2>7, <2>8
    <3> QED BY <1>3, <2>1, <3>1, <3>2, <3>3 DEF Syncing
  <2>13. Sent(p, s, t)'
    <3>1. ASSUME NEW j \in Instances, NEW k \in DOMAIN inbox'[j], Is(inbox'[j][k], "teleport", p)
          PROVE  s = "sent" /\ j = t /\ inbox'[j][k].from = where[p] /\ inbox'[j][k].data >= base[p]
      <4>1. PICK l \in DOMAIN inbox[j] : inbox[j][l] = inbox'[j][k]
        BY <2>7
      <4> QED BY <2>1, <3>1, <4>1 DEF Sent
    <3>2. \A j \in Instances : One(inbox'[j], "teleport", p) /\ Before(inbox'[j], "after", "teleport", p)
      BY <2>1, <2>7 DEF Sent
    <3> QED BY <1>3, <2>1, <3>1, <3>2 DEF Sent
  <2>14. Entering(p, s)'
    <3>1. No(worldbox[i], "player", p)
      BY <2>1, <2>4 DEF Entering
    <3>2. \A j \in Instances : /\ One(worldbox'[j], "player", p) /\ Before(worldbox'[j], "remove", "player", p)
                               /\ ~ No(worldbox'[j], "player", p) => ~ No(worldbox[j], "player", p)
      BY <2>1, <2>8, <3>1 DEF Entering
    <3>3. worldbox'[where[p]] = worldbox[where[p]]
      BY <1>5, <2>4, <2>8
    <3> QED BY <1>3, <2>1, <3>2, <3>3 DEF Entering
  <2>15. Stage(p, s, t)'
    BY <1>3, <2>1, <2>10, <2>11, <2>12, <2>13, <2>14 DEF Stage
  <2> QED BY <2>9, <2>15 DEF Staged
<1> QED BY <1>6, <1>7

\* A new world is announced.
LEMMA CreateStep ==
    ASSUME Typed, JumpInv, CreateWorld, NEW p \in Players
    PROVE  Staged(p)'
<1> DEFINE r == Head(requests)
           n == Cardinality({v \in exists : v.id = r.id})
           w == World(r.id, IF r.id \in Publics THEN 0 ELSE n + 1)
           m == [type |-> "created", world |-> w]
<1>1. /\ UNCHANGED <<worldbox, proxy, objects, world, where, waits, base>>
      /\ \/ inbox' = inbox
         \/ /\ w \in Instances
            /\ inbox' = [i \in Instances |->
                  IF i = r.from \/ (r.id \in Publics /\ i \in exists') THEN Append(inbox[i], m) ELSE inbox[i]]
  BY DEF CreateWorld, proxyVars, clientVars
<1> HIDE DEF r, n, w
<1>2. inbox \in [Instances -> Seq(InMsgs)]
  BY TypeFacts
<1>3. ASSUME NEW j \in Instances PROVE Same(inbox[j], inbox'[j], InKinds, p)
  <2>1. CASE inbox'[j] = inbox[j]
    BY <2>1, SameSelf
  <2>2. CASE inbox'[j] # inbox[j]
    <3>1. inbox'[j] = Append(inbox[j], m) /\ m \in InMsgs
      BY <1>1, <2>2, CreatedMade
    <3>2. PICK q \in Seq(InMsgs) : q = inbox[j]
      BY <1>2
    <3>3. \A type \in InKinds : ~ Is(m, type, p)
      BY DEF Is, InKinds
    <3> HIDE DEF m
    <3>4. Same(q, Append(q, m), InKinds, p)
      BY <3>1, <3>3, SameAppend
    <3> QED BY <3>1, <3>2, <3>4
  <2> QED BY <2>1, <2>2
<1>4. \A j \in Instances : Same(worldbox[j], worldbox'[j], WorldKinds, p)
  BY <1>1, SameSelf
<1>5. Untouched(p)
  BY <1>1, <1>3, <1>4 DEF Untouched
<1> QED BY <1>5, StageOf, FrameAll

\* The world sends the player's data.
LEMMA RequestStep ==
    ASSUME Typed, JumpInv, NEW i \in Instances, HandleRequestSyncPlayer(i), NEW p \in Players
    PROVE  Staged(p)'
<1> DEFINE m == Head(worldbox[i])
           d == world[i][m.p]
           e == [type |-> "sync", p |-> m.p, data |-> d]
<1>0. /\ inbox \in [Instances -> Seq(InMsgs)] /\ worldbox \in [Instances -> Seq(WorldMsgs)]
      /\ world \in [Instances -> [Players -> Data \union {None}]]
  BY TypeFacts
<1>1. worldbox[i] # <<>> /\ m.type = "reqsync"
  BY DEF HandleRequestSyncPlayer, Gets
<1>2. m \in WorldMsgs /\ m.p \in Players /\ (\E k \in DOMAIN worldbox[i] : worldbox[i][k] = m)
  BY <1>0, <1>1, WorldboxTail, WorldFields
<1>3. /\ UNCHANGED <<proxy, objects, world, where, waits, base>> /\ worldbox' = Done(worldbox, i)
      /\ d = None => inbox' = inbox
      /\ d # None => inbox' = Post(inbox, i, e)
  BY DEF HandleRequestSyncPlayer, clientVars, proxyVars
<1>4. d # None => e \in InMsgs /\ e.type = "sync" /\ e.p = m.p /\ e.data = d
  BY <1>0, <1>2, InMade
<1> HIDE DEF m, d, e
<1>5. where[p] \in Instances /\ Staged(p) /\ Left(p)
  BY StageOf
<1>6. CASE p # m.p
  <2>1. \A type \in WorldKinds : ~ Is(m, type, p)
    BY <1>6 DEF Is
  <2>2. \A j \in Instances : Same(worldbox[j], worldbox'[j], WorldKinds, p)
    BY <1>0, <1>1, <1>3, <2>1, WorldboxSame DEF m
  <2>3. \A j \in Instances : Same(inbox[j], inbox'[j], InKinds, p)
    <3>1. CASE d = None
      BY <1>3, <3>1, SameSelf
    <3>2. CASE d # None
      <4>1. \A type \in InKinds : ~ Is(e, type, p)
        BY <1>4, <1>6, <3>2 DEF Is
      <4>2. e \in InMsgs /\ inbox' = Post(inbox, i, e)
        BY <1>3, <1>4, <3>2
      <4>3. \A j \in Instances : Same(inbox[j], Post(inbox, i, e)[j], InKinds, p)
        BY <1>0, <4>1, <4>2, InboxSame
      <4> QED BY <4>2, <4>3
    <3> QED BY <3>1, <3>2
  <2>4. Untouched(p)
    BY <1>3, <2>2, <2>3 DEF Untouched
  <2> QED BY <1>5, <2>4, FrameAll
<1>7. CASE p = m.p
  <2>1. PICK s \in {"rest", "asked", "jump", "sent", "enter"}, t \in Instances :
           /\ s # "rest" => p \in waits
           /\ Asked(p, s) /\ Jumping(p, s) /\ Syncing(p, s) /\ Sent(p, s, t) /\ Entering(p, s)
    BY StageOf
  <2>2. Is(m, "reqsync", p) /\ \A type : type # "reqsync" => ~ Is(m, type, p)
    BY <1>1, <1>7 DEF Is
  <2>3. ~ No(worldbox[i], "reqsync", p)
    BY <1>2, <2>2 DEF No
  <2>4. /\ s = "jump" /\ i = where[p] /\ ~ objects[i][p].sync /\ No(inbox[i], "sync", p)
        /\ One(worldbox[i], "reqsync", p)
    BY <2>1, <2>3 DEF Syncing
  <2>5. d # None /\ d >= base[p]
    BY <1>7, <2>1, <2>4 DEF Entering, Jumping, d
  <2>6. inbox' = Post(inbox, i, e) /\ e \in InMsgs /\ Is(e, "sync", p) /\ e.data = d
        /\ \A type : type # "sync" => ~ Is(e, type, p)
    BY <1>3, <1>4, <1>7, <2>5 DEF Is
  <2>7. \A j \in Instances : Same(inbox[j], inbox'[j], {"after", "enter", "teleport"}, p)
    <3>1. \A type \in {"after", "enter", "teleport"} : ~ Is(e, type, p)
      BY <2>6
    <3>2. \A j \in Instances : Same(inbox[j], Post(inbox, i, e)[j], {"after", "enter", "teleport"}, p)
      BY <1>0, <2>6, <3>1, InboxSame
    <3> QED BY <2>6, <3>2
  <2>8. \A j \in Instances : Same(worldbox[j], worldbox'[j], {"remove", "player"}, p)
    <3>1. \A type \in {"remove", "player"} : ~ Is(m, type, p)
      BY <2>2
    <3> QED BY <1>0, <1>1, <1>3, <3>1, WorldboxSame DEF m
  <2>9. \A j \in Instances : /\ Same(inbox[j], inbox'[j], {"after"}, p) /\ Same(inbox[j], inbox'[j], {"enter"}, p)
                             /\ Same(inbox[j], inbox'[j], {"after", "teleport"}, p)
                             /\ Same(worldbox[j], worldbox'[j], {"remove"}, p)
    <3>1. /\ {"after"} \subseteq {"after", "enter", "teleport"} /\ {"enter"} \subseteq {"after", "enter", "teleport"}
          /\ {"after", "teleport"} \subseteq {"after", "enter", "teleport"} /\ {"remove"} \subseteq {"remove", "player"}
      OBVIOUS
    <3> QED BY <2>7, <2>8, <3>1, SameLess
  <2>10. Left(p)'
    BY <1>3, <1>5, <2>9, FrameLeft
  <2>11. Asked(p, "jump")'
    BY <1>3, <2>1, <2>4, <2>9, FrameAsked
  <2>12. Jumping(p, "jump")'
    BY <1>3, <1>5, <2>1, <2>4, FrameJumping
  <2>13. Sent(p, "jump", t)'
    BY <1>3, <2>1, <2>4, <2>9, FrameSent
  <2>14. Entering(p, "jump")'
    BY <1>3, <1>5, <2>1, <2>4, <2>8, FrameEntering
  <2>15. \A j \in Instances : No(worldbox'[j], "reqsync", p)
    <3>1. \A j \in Instances : j # i => No(worldbox[j], "reqsync", p)
      BY <2>1, <2>4 DEF Syncing
    <3>2. /\ Done(worldbox, i)[i] = Tail(worldbox[i])
          /\ \A j \in Instances : j # i => Done(worldbox, i)[j] = worldbox[j]
          /\ \A type : One(worldbox[i], type, p) /\ Is(m, type, p) => No(Tail(worldbox[i]), type, p)
      BY <1>0, <1>1, WorldboxTail DEF m
    <3> QED BY <1>3, <2>2, <2>4, <3>1, <3>2
  <2>16. /\ \A j \in Instances : j # i => inbox'[j] = inbox[j]
         /\ One(inbox'[i], "sync", p)
         /\ \A k \in DOMAIN inbox'[i] : inbox'[i][k] = e \/ \E l \in DOMAIN inbox[i] : inbox[i][l] = inbox'[i][k]
    <3>1. /\ \A j \in Instances : j # i => Post(inbox, i, e)[j] = inbox[j]
          /\ \A type : One(inbox[i], type, p) /\ (Is(e, type, p) => No(inbox[i], type, p))
                => One(Post(inbox, i, e)[i], type, p)
          /\ \A k \in DOMAIN Post(inbox, i, e)[i] :
                Post(inbox, i, e)[i][k] = e \/ \E l \in DOMAIN inbox[i] : inbox[i][l] = Post(inbox, i, e)[i][k]
      BY <1>0, <2>6, InboxPost
    <3>2. One(inbox[i], "sync", p)
      BY <2>1 DEF Syncing
    <3> QED BY <2>4, <2>6, <3>1, <3>2
  <2>17. \A j \in Instances : j # i => No(inbox'[j], "sync", p)
    BY <2>1, <2>4, <2>16 DEF Syncing
  <2>18. \A k \in DOMAIN inbox'[i] : Is(inbox'[i][k], "sync", p) => inbox'[i][k].data >= base[p]
    <3> SUFFICES ASSUME NEW k \in DOMAIN inbox'[i], Is(inbox'[i][k], "sync", p)
                 PROVE  inbox'[i][k].data >= base[p]
      OBVIOUS
    <3>1. inbox'[i][k] = e
      BY <2>4, <2>16 DEF No
    <3> QED BY <2>5, <2>6, <3>1
  <2>19. Syncing(p, "jump")'
    <3>1. \A j \in Instances : One(inbox'[j], "sync", p) /\ One(worldbox'[j], "reqsync", p)
      BY <2>15, <2>16, <2>17 DEF One, No
    <3>2. \A j \in Instances : \A k \in DOMAIN inbox'[j] : Is(inbox'[j][k], "sync", p) => inbox'[j][k].data >= base[p]
      BY <2>17, <2>18 DEF No
    <3> QED BY <1>3, <2>4, <2>15, <2>17, <3>1, <3>2 DEF Syncing
  <2>20. Stage(p, "jump", t)'
    BY <1>3, <2>1, <2>4, <2>11, <2>12, <2>13, <2>14, <2>19 DEF Stage
  <2> QED BY <2>10, <2>20 DEF Staged
<1> QED BY <1>6, <1>7

\* The player arrives.
LEMMA ArriveStep ==
    ASSUME Typed, JumpInv, NEW i \in Instances, HandleSyncPlayer(i), NEW p \in Players
    PROVE  Staged(p)'
<1> DEFINE m == Head(worldbox[i])
<1>0. /\ worldbox \in [Instances -> Seq(WorldMsgs)] /\ world \in [Instances -> [Players -> Data \union {None}]]
      /\ None \notin Data
  BY TypeFacts
<1>1. worldbox[i] # <<>> /\ m.type = "player"
  BY DEF HandleSyncPlayer, Gets
<1>2. m \in WorldMsgs /\ m.p \in Players /\ m.data \in Data /\ (\E k \in DOMAIN worldbox[i] : worldbox[i][k] = m)
  BY <1>0, <1>1, WorldboxTail, WorldFields
<1>3. /\ UNCHANGED <<inbox, proxy, objects, where, base>> /\ worldbox' = Done(worldbox, i)
      /\ world[i][m.p] # None => UNCHANGED <<world, waits>>
      /\ world[i][m.p] = None => world' = [world EXCEPT ![i][m.p] = m.data] /\ waits' = waits \ {m.p}
  BY DEF HandleSyncPlayer, AddToWorld, proxyVars
<1> HIDE DEF m
<1>4. where[p] \in Instances /\ Staged(p) /\ Left(p)
  BY StageOf
<1>5. CASE p # m.p
  <2>1. \A type \in WorldKinds : ~ Is(m, type, p)
    BY <1>5 DEF Is
  <2>2. \A j \in Instances : Same(worldbox[j], worldbox'[j], WorldKinds, p)
    BY <1>0, <1>1, <1>3, <2>1, WorldboxSame DEF m
  <2>3. \A j \in Instances : Same(inbox[j], inbox'[j], InKinds, p)
    BY <1>3, SameSelf
  <2>4. (\A j \in Instances : world'[j][p] = world[j][p]) /\ (p \in waits => p \in waits')
    <3>1. CASE world[i][m.p] # None
      BY <1>3, <3>1
    <3>2. CASE world[i][m.p] = None
      <4>1. world' = [world EXCEPT ![i][m.p] = m.data] /\ waits' = waits \ {m.p}
        BY <1>3, <3>2
      <4> QED BY <1>0, <1>2, <1>5, <4>1
    <3> QED BY <3>1, <3>2
  <2>5. Untouched(p)
    BY <1>3, <2>2, <2>3, <2>4 DEF Untouched
  <2> QED BY <1>4, <2>5, FrameAll
<1>6. CASE p = m.p
  <2>1. PICK s \in {"rest", "asked", "jump", "sent", "enter"}, t \in Instances :
           /\ s # "rest" => p \in waits
           /\ Asked(p, s) /\ Jumping(p, s) /\ Syncing(p, s) /\ Sent(p, s, t) /\ Entering(p, s)
    BY StageOf
  <2>2. Is(m, "player", p) /\ \A type : type # "player" => ~ Is(m, type, p)
    BY <1>1, <1>6 DEF Is
  <2>3. ~ No(worldbox[i], "player", p)
    BY <1>2, <2>2 DEF No
  <2>4. s = "enter" /\ i = where[p] /\ One(worldbox[i], "player", p) /\ Before(worldbox[i], "remove", "player", p)
    BY <2>1, <2>3 DEF Entering
  <2>5. /\ worldbox'[i] = Tail(worldbox[i])
        /\ \A j \in Instances : j # i => worldbox'[j] = worldbox[j]
        /\ No(worldbox'[i], "player", p) /\ No(worldbox[i], "remove", p)
        /\ \A j \in Instances :
              /\ \A type : No(worldbox[j], type, p) => No(worldbox'[j], type, p)
              /\ \A type : One(worldbox[j], type, p) => One(worldbox'[j], type, p)
              /\ \A a, b : Before(worldbox[j], a, b, p) => Before(worldbox'[j], a, b, p)
    <3>1. /\ Done(worldbox, i)[i] = Tail(worldbox[i])
          /\ \A j \in Instances : j # i => Done(worldbox, i)[j] = worldbox[j]
          /\ \A type : One(worldbox[i], type, p) /\ Is(m, type, p) => No(Tail(worldbox[i]), type, p)
          /\ \A a, b : Before(worldbox[i], a, b, p) /\ Is(m, b, p) => No(worldbox[i], a, p)
          /\ \A j \in Instances :
                /\ \A type : No(worldbox[j], type, p) => No(Done(worldbox, i)[j], type, p)
                /\ \A type : One(worldbox[j], type, p) => One(Done(worldbox, i)[j], type, p)
                /\ \A a, b : Before(worldbox[j], a, b, p) => Before(Done(worldbox, i)[j], a, b, p)
      BY <1>0, <1>1, WorldboxTail DEF m
    <3> QED BY <1>3, <2>2, <2>4, <3>1
  <2>6. world[i][p] = None
    BY <2>1, <2>4, <2>5 DEF Entering
  <2>7. world' = [world EXCEPT ![i][p] = m.data]
    BY <1>3, <1>6, <2>6
  <2>8. world'[i][p] # None /\ \A j \in Instances : j # i => world'[j][p] = world[j][p]
    <3>1. world'[i][p] = m.data
      BY <1>0, <2>7
    <3> QED BY <1>0, <1>2, <2>7, <3>1
  <2>9. Left(p)'
    <3>1. proxy'[where[p]][p] # None /\ No(inbox'[where[p]], "after", p)
          /\ \A j \in Instances : One(inbox'[j], "after", p)
      BY <1>3, <1>4 DEF Left
    <3>2. \A j \in Instances : j # where[p] =>
             /\ proxy'[j][p] # None <=> ~ No(inbox'[j], "after", p)
             /\ world'[j][p] # None => ~ No(inbox'[j], "after", p) \/ ~ No(worldbox'[j], "remove", p)
      BY <1>3, <1>4, <2>4, <2>5, <2>8 DEF Left
    <3> QED BY <1>3, <3>1, <3>2 DEF Left
  <2>10. \A j \in Instances : Same(inbox[j], inbox'[j], {"enter"}, p) /\ Same(inbox[j], inbox'[j], {"after", "teleport"}, p)
    BY <1>3, SameSelf
  <2>11. Asked(p, "rest")' /\ Sent(p, "rest", t)'
    BY <1>3, <2>1, <2>4, <2>10, FrameAsked, FrameSent
  <2>12. Jumping(p, "rest")'
    BY <1>3, <2>1, <2>4 DEF Jumping
  <2>13. Syncing(p, "rest")'
    <3>1. \A j \in Instances : No(inbox[j], "sync", p) /\ No(worldbox[j], "reqsync", p)
      BY <2>1, <2>4 DEF Syncing
    <3>2. \A j \in Instances : No(inbox'[j], "sync", p) /\ No(worldbox'[j], "reqsync", p)
      BY <1>3, <2>5, <3>1
    <3> QED BY <3>2 DEF Syncing, No, One
  <2>14. Entering(p, "rest")'
    <3>1. \A j \in Instances : /\ One(worldbox'[j], "player", p) /\ Before(worldbox'[j], "remove", "player", p)
                               /\ No(worldbox'[j], "player", p)
      BY <2>1, <2>4, <2>5 DEF Entering
    <3>2. No(worldbox'[i], "remove", p)
      BY <2>5
    <3> QED BY <1>3, <2>4, <2>8, <3>1, <3>2 DEF Entering
  <2>15. Stage(p, "rest", t)'
    BY <2>11, <2>12, <2>13, <2>14 DEF Stage
  <2> QED BY <2>9, <2>15 DEF Staged
<1> QED BY <1>5, <1>6

\* The old world lets go.
LEMMA RemoveStep ==
    ASSUME Typed, JumpInv, NEW i \in Instances, HandleRemovePlayer(i), NEW p \in Players
    PROVE  Staged(p)'
<1> DEFINE m == Head(worldbox[i])
<1>0. /\ worldbox \in [Instances -> Seq(WorldMsgs)] /\ world \in [Instances -> [Players -> Data \union {None}]]
  BY TypeFacts
<1>1. worldbox[i] # <<>> /\ m.type \in {"remove", "leave"}
  BY DEF HandleRemovePlayer, Gets
<1>2. m \in WorldMsgs /\ m.p \in Players /\ (\E k \in DOMAIN worldbox[i] : worldbox[i][k] = m)
  BY <1>0, <1>1, WorldboxTail, WorldFields
<1>2a. m.type = "remove"
  BY <1>1, <1>2 DEF JumpInv, NoDrops
<1>3. /\ UNCHANGED <<inbox, proxy, objects, where, base, waits>> /\ worldbox' = Done(worldbox, i)
      /\ world' = [world EXCEPT ![i][m.p] = None]
  BY DEF HandleRemovePlayer, RemovePlayerBySn, proxyVars, clientVars
<1> HIDE DEF m
<1>4. where[p] \in Instances /\ Staged(p) /\ Left(p)
  BY StageOf
<1>5. CASE p # m.p
  <2>1. \A type \in WorldKinds : ~ Is(m, type, p)
    BY <1>5 DEF Is
  <2>2. \A j \in Instances : Same(worldbox[j], worldbox'[j], WorldKinds, p)
    BY <1>0, <1>1, <1>3, <2>1, WorldboxSame DEF m
  <2>3. \A j \in Instances : Same(inbox[j], inbox'[j], InKinds, p)
    BY <1>3, SameSelf
  <2>4. \A j \in Instances : world'[j][p] = world[j][p]
    BY <1>0, <1>2, <1>3, <1>5
  <2>5. Untouched(p)
    BY <1>3, <2>2, <2>3, <2>4 DEF Untouched
  <2> QED BY <1>4, <2>5, FrameAll
<1>6. CASE p = m.p
  <2>1. PICK s \in {"rest", "asked", "jump", "sent", "enter"}, t \in Instances :
           /\ s # "rest" => p \in waits
           /\ Asked(p, s) /\ Jumping(p, s) /\ Syncing(p, s) /\ Sent(p, s, t) /\ Entering(p, s)
    BY StageOf
  <2>2. Is(m, "remove", p) /\ \A type : type # "remove" => ~ Is(m, type, p)
    BY <1>2a, <1>6 DEF Is
  <2>3. ~ No(worldbox[i], "remove", p)
    BY <1>2, <2>2 DEF No
  <2>4. i = where[p] => s = "enter"
    BY <2>1, <2>3 DEF Entering
  <2>5. world'[i][p] = None /\ \A j \in Instances : j # i => world'[j][p] = world[j][p]
    BY <1>0, <1>2, <1>3, <1>6
  <2>6. /\ \A j \in Instances : j # i => worldbox'[j] = worldbox[j]
        /\ \A j \in Instances :
              /\ \A type : One(worldbox[j], type, p) => One(worldbox'[j], type, p)
              /\ \A type : No(worldbox[j], type, p) => No(worldbox'[j], type, p)
              /\ \A a, b : Before(worldbox[j], a, b, p) => Before(worldbox'[j], a, b, p)
    <3>1. /\ \A j \in Instances : j # i => Done(worldbox, i)[j] = worldbox[j]
          /\ \A j \in Instances :
                /\ \A type : No(worldbox[j], type, p) => No(Done(worldbox, i)[j], type, p)
                /\ \A type : One(worldbox[j], type, p) => One(Done(worldbox, i)[j], type, p)
                /\ \A a, b : Before(worldbox[j], a, b, p) => Before(Done(worldbox, i)[j], a, b, p)
      BY <1>0, <1>1, WorldboxTail DEF m
    <3> QED BY <1>3, <3>1
  <2>7. \A j \in Instances : /\ Same(worldbox[j], worldbox'[j], {"reqsync"}, p)
                             /\ \A T : Same(inbox[j], inbox'[j], T, p)
    <3>1. \A type \in {"reqsync"} : ~ Is(m, type, p)
      BY <2>2
    <3> QED BY <1>0, <1>1, <1>3, <3>1, WorldboxSame, SameSelf DEF m
  <2>8. Left(p)'
    <3>1. proxy'[where[p]][p] # None /\ No(inbox'[where[p]], "after", p)
          /\ \A j \in Instances : One(inbox'[j], "after", p)
      BY <1>3, <1>4 DEF Left
    <3>2. \A j \in Instances : j # where[p] =>
             /\ proxy'[j][p] # None <=> ~ No(inbox'[j], "after", p)
             /\ world'[j][p] # None => ~ No(inbox'[j], "after", p) \/ ~ No(worldbox'[j], "remove", p)
      BY <1>3, <1>4, <2>5, <2>6 DEF Left
    <3> QED BY <1>3, <3>1, <3>2 DEF Left
  <2>9. Asked(p, s)' /\ Sent(p, s, t)'
    BY <1>3, <2>1, <2>7, FrameAsked, FrameSent
  <2>10. Jumping(p, s)'
    <3>1. s = "jump" => world'[where[p]][p] = world[where[p]][p]
      BY <1>4, <2>4, <2>5
    <3> QED BY <1>3, <2>1, <3>1 DEF Jumping
  <2>11. Syncing(p, s)'
    BY <1>3, <2>1, <2>7, FrameSyncing
  <2>12. Entering(p, s)'
    <3>1. s # "enter" => world'[where[p]][p] # None /\ No(worldbox'[where[p]], "remove", p)
      BY <1>4, <2>1, <2>4, <2>5, <2>6 DEF Entering
    <3>2. world'[where[p]][p] # None => ~ No(worldbox'[where[p]], "remove", p) \/ s # "enter"
      BY <1>4, <2>1, <2>5, <2>6 DEF Entering
    <3>3. \A j \in Instances :
             /\ One(worldbox'[j], "player", p) /\ Before(worldbox'[j], "remove", "player", p)
             /\ ~ No(worldbox'[j], "player", p) => s = "enter" /\ j = where[p]
      BY <2>1, <2>6 DEF Entering
    <3> QED BY <1>3, <3>1, <3>2, <3>3 DEF Entering
  <2>13. Stage(p, s, t)'
    BY <1>3, <2>1, <2>9, <2>10, <2>11, <2>12 DEF Stage
  <2> QED BY <2>8, <2>13 DEF Staged
<1> QED BY <1>5, <1>6

\* The player's data grows.
LEMMA GainStep ==
    ASSUME Typed, JumpInv, NEW i \in Instances, NEW q \in Players, Gain(i, q), NEW p \in Players
    PROVE  Staged(p)'
<1>0. /\ world \in [Instances -> [Players -> Data \union {None}]] /\ base \in [Players -> Data]
      /\ Data \subseteq Int /\ None \notin Data
  BY TypeFacts
<1>1. /\ UNCHANGED <<inbox, worldbox, proxy, objects, where, waits, base>>
      /\ world' = [world EXCEPT ![i][q] = @ + 1]
  BY DEF Gain, proxyVars, clientVars
<1>2. where[p] \in Instances /\ Staged(p) /\ Left(p)
  BY StageOf
<1>3. \A j \in Instances : \A T : Same(inbox[j], inbox'[j], T, p) /\ Same(worldbox[j], worldbox'[j], T, p)
  BY <1>1, SameSelf
<1>4. CASE p # q
  <2>1. \A j \in Instances : world'[j][p] = world[j][p]
    BY <1>0, <1>1, <1>4
  <2>2. Untouched(p)
    BY <1>1, <1>3, <2>1 DEF Untouched
  <2> QED BY <1>2, <2>2, FrameAll
<1>5. CASE p = q
  <2>1. PICK s \in {"rest", "asked", "jump", "sent", "enter"}, t \in Instances :
           /\ s # "rest" => p \in waits
           /\ Asked(p, s) /\ Jumping(p, s) /\ Syncing(p, s) /\ Sent(p, s, t) /\ Entering(p, s)
    BY StageOf
  <2>2. world[i][p] \in Data /\ world[i][p] # None /\ world[i][p] < MaxGain
    BY <1>0, <1>5 DEF Gain
  <2>3. world'[i][p] = world[i][p] + 1 /\ \A j \in Instances : j # i => world'[j][p] = world[j][p]
    BY <1>0, <1>1, <1>5
  <2>4. world'[i][p] # None
    <3>1. world[i][p] + 1 \in Data
      BY <2>2, ConstantsAssumption DEF Data
    <3> QED BY <1>0, <2>3, <3>1
  <2>5. \A j \in Instances : world'[j][p] # None <=> world[j][p] # None
    BY <2>2, <2>3, <2>4
  <2>6. Left(p)'
    BY <1>1, <1>2, <1>3, <2>5, FrameLeft
  <2>7. Asked(p, s)' /\ Syncing(p, s)' /\ Sent(p, s, t)'
    BY <1>1, <1>3, <2>1, FrameAsked, FrameSyncing, FrameSent
  <2>8. Entering(p, s)'
    BY <1>1, <1>2, <1>3, <2>1, <2>5, FrameEntering
  <2>9. Jumping(p, s)'
    <3>1. s = "jump" => world'[where[p]][p] >= base[p]
      <4>1. CASE where[p] = i
        <5>1. s = "jump" => world[i][p] >= base[p]
          BY <2>1, <4>1 DEF Jumping
        <5>2. world[i][p] \in Int /\ base[p] \in Int
          BY <1>0, <2>2
        <5> QED BY <2>3, <4>1, <5>1, <5>2
      <4>2. CASE where[p] # i
        BY <1>2, <2>1, <2>3, <4>2 DEF Jumping
      <4> QED BY <4>1, <4>2
    <3> QED BY <1>1, <2>1, <3>1 DEF Jumping
  <2>10. Stage(p, s, t)'
    BY <1>1, <2>1, <2>7, <2>8, <2>9 DEF Stage
  <2> QED BY <2>6, <2>10 DEF Staged
<1> QED BY <1>4, <1>5

(***************************************************************************)
(* Nobody disconnects: the lists never hold the messages of a disconnect.  *)
(***************************************************************************)
Lacks(box, type) == \A j \in Instances : \A k \in DOMAIN box[j] : box[j][k].type # type

LEMMA LacksDone ==
    ASSUME NEW M, NEW box \in [Instances -> Seq(M)], NEW i \in Instances, box[i] # <<>>, NEW type, Lacks(box, type)
    PROVE  Lacks(Done(box, i), type) /\ Done(box, i) \in [Instances -> Seq(M)] /\ Head(box[i]).type # type
<1>1. Done(box, i)[i] = Tail(box[i]) /\ \A j \in Instances : j # i => Done(box, i)[j] = box[j]
  BY DEF Done
<1>2. PICK q \in Seq(M) : q = box[i]
  OBVIOUS
<1>3. q # <<>>
  BY <1>2
<1>4. (\A k \in DOMAIN Tail(q) : \E l \in DOMAIN q : q[l] = Tail(q)[k]) /\ 1 \in DOMAIN q /\ q[1] = Head(q)
  BY <1>3, TailParts
<1>5. \A k \in DOMAIN q : q[k].type # type
  BY <1>2 DEF Lacks
<1>6. \A k \in DOMAIN Tail(q) : Tail(q)[k].type # type
  BY <1>4, <1>5
<1>7. Lacks(Done(box, i), type)
  BY <1>1, <1>2, <1>6 DEF Lacks
<1> QED BY <1>2, <1>4, <1>5, <1>7, DoneType

LEMMA LacksPost ==
    ASSUME NEW M, NEW box \in [Instances -> Seq(M)], NEW i \in Instances, NEW m \in M, NEW type,
           Lacks(box, type), m.type # type
    PROVE  Lacks(Post(box, i, m), type)
<1>1. Post(box, i, m)[i] = Append(box[i], m) /\ \A j \in Instances : j # i => Post(box, i, m)[j] = box[j]
  BY DEF Post
<1>2. PICK q \in Seq(M) : q = box[i]
  OBVIOUS
<1>3. \A k \in DOMAIN Append(q, m) : Append(q, m)[k] = m \/ \E l \in DOMAIN q : q[l] = Append(q, m)[k]
  BY AppendParts
<1>4. \A k \in DOMAIN q : q[k].type # type
  BY <1>2 DEF Lacks
<1>5. \A k \in DOMAIN Append(q, m) : Append(q, m)[k].type # type
  BY <1>3, <1>4
<1> QED BY <1>1, <1>2, <1>5 DEF Lacks

LEMMA LacksFacts ==
    ASSUME JumpInv
    PROVE  Lacks(inbox, "drop") /\ Lacks(worldbox, "leave")
BY DEF JumpInv, NoDrops, Lacks

\* An object that is checked.
LEMMA LacksCheck ==
    ASSUME Typed, JumpInv, NEW i \in Instances, NEW p \in Players, NEW o, NEW data \in Data \union {None},
           inbox[i] # <<>>, Check(i, p, o, data)
    PROVE  Lacks(inbox', "drop")
<1> DEFINE b == Done(inbox, i)
<1>0. inbox \in [Instances -> Seq(InMsgs)]
  BY TypeFacts
<1>1. Lacks(b, "drop") /\ b \in [Instances -> Seq(InMsgs)]
  BY <1>0, LacksFacts, LacksDone
<1>2. CASE Keeps(i, p, o, data)
  BY <1>1, <1>2 DEF Keeps
<1>3. CASE Sends(i, p, o, data)
  <2> DEFINE e == JumpMsg(i, p, data)
  <2>1. inbox' = Post(b, o.world, e) /\ o.world \in Instances /\ data # None
    BY <1>3 DEF Sends
  <2>2. e \in InMsgs /\ e.type # "drop"
    BY <2>1, InMade DEF JumpMsg
  <2> HIDE DEF b, e
  <2>3. Lacks(Post(b, o.world, e), "drop")
    BY <1>1, <2>1, <2>2, LacksPost
  <2> QED BY <2>1, <2>3
<1> QED BY <1>2, <1>3, CheckCases

\* An announcement.
LEMMA LacksPublic ==
    ASSUME Typed, JumpInv, NEW i \in Instances, NEW w \in Instances, inbox[i] # <<>>, PublicCreated(i, w)
    PROVE  Lacks(inbox', "drop") /\ (Players = {} => (fault' => fault))
<1>1. PICK gone \in SUBSET Players : \E seq \in InOrder(gone) : Announced(i, w, gone, seq)
  BY PublicCases
<1>2. PICK seq \in InOrder(gone) : Announced(i, w, gone, seq)
  BY <1>1
<1>3. inbox \in [Instances -> Seq(InMsgs)]
  BY TypeFacts
<1>4. Lacks(Done(inbox, i), "drop") /\ Done(inbox, i) \in [Instances -> Seq(InMsgs)]
  BY <1>3, LacksFacts, LacksDone
<1>5. /\ Jumps(i, seq) \in Seq(InMsgs)
      /\ inbox'[w] = Done(inbox, i)[w] \o Jumps(i, seq)
      /\ \A j \in Instances : j # w => inbox'[j] = Done(inbox, i)[j]
  BY <1>2, JumpsType
<1>6. PICK q \in Seq(InMsgs) : q = Done(inbox, i)[w]
  BY <1>4
<1>7. PICK e \in Seq(InMsgs) : e = Jumps(i, seq)
  BY <1>5
<1>8. \A k \in DOMAIN e : e[k].type = "teleport"
  BY <1>7 DEF Jumps
<1>9. \A k \in DOMAIN q : q[k].type # "drop"
  BY <1>4, <1>6 DEF Lacks
<1>10. \A k \in DOMAIN (q \o e) : (q \o e)[k].type # "drop"
  <2> SUFFICES ASSUME NEW k \in DOMAIN (q \o e) PROVE (q \o e)[k].type # "drop"
    OBVIOUS
  <2>1. CASE k \in 1 .. Len(q)
    BY <1>9, <2>1
  <2>2. CASE k \notin 1 .. Len(q)
    <3>1. k - Len(q) \in DOMAIN e /\ (q \o e)[k] = e[k - Len(q)]
      BY <2>2
    <3> QED BY <1>8, <3>1
  <2> QED BY <2>1, <2>2
<1>11. Lacks(inbox', "drop")
  BY <1>4, <1>5, <1>6, <1>7, <1>10 DEF Lacks
<1> QED BY <1>2, <1>11 DEF Announced

LEMMA NobodyDrops ==
    ASSUME JumpInv, MaxDrop = 0
    PROVE  \A p \in Players : ~ ClientDisconnect(p)
<1>1. Players \ online = {}
  BY DEF JumpInv, NoDrops
<1>2. Cardinality(Players \ online) = 0
  BY <1>1, FS_EmptySet
<1> QED BY <1>2 DEF ClientDisconnect

LEMMA NoDropsProxy ==
    ASSUME Typed, JumpInv, NEW i \in Instances, ProxyStep(i)
    PROVE  NoDrops'
<1> DEFINE m == Head(inbox[i])
           b == Done(inbox, i)
<1>0. /\ inbox \in [Instances -> Seq(InMsgs)] /\ worldbox \in [Instances -> Seq(WorldMsgs)]
      /\ proxy \in [Instances -> [Players -> Data \union {None}]]
  BY TypeFacts
<1>1. Lacks(inbox, "drop") /\ Lacks(worldbox, "leave")
  BY LacksFacts
<1>2. online = Players /\ fault = FALSE /\ \A p \in Players : where[p] \in Instances
  BY DEF JumpInv, NoDrops
<1>3. inbox[i] # <<>>
  BY DEF ProxyStep, HandleC2GEnterWorld, HandleS2GSyncPlayer, HandleBroadcastCreateWorldProxy, HandleTeleport,
         HandleTeleportAfter, HandleNetworkDisconnect, ProxyForget, ProxyGets, Gets
<1>4. Lacks(b, "drop") /\ b \in [Instances -> Seq(InMsgs)] /\ m \in InMsgs /\ m.type # "drop"
  <2>1. Lacks(b, "drop") /\ b \in [Instances -> Seq(InMsgs)] /\ m.type # "drop"
    <3>1. inbox \in [Instances -> Seq(InMsgs)] /\ Lacks(inbox, "drop")
      BY <1>0, <1>1
    <3>2. /\ Lacks(Done(inbox, i), "drop") /\ Done(inbox, i) \in [Instances -> Seq(InMsgs)]
          /\ Head(inbox[i]).type # "drop"
      BY <1>3, <3>1, LacksDone
    <3> QED BY <3>2
  <2>2. m \in InMsgs
    BY <1>0, <1>3, InboxTail
  <2> QED BY <2>1, <2>2
<1>5. /\ m.type # "created" => m.p \in Players
      /\ m.type = "created" => m.world \in Instances
      /\ m.type = "teleport" => m.data \in Data /\ m.from \in Instances
      /\ m.type = "sync" => m.data \in Data
  BY <1>4, InFields
<1> SUFFICES /\ online' = Players /\ fault' = FALSE /\ \A p \in Players : where'[p] \in Instances
             /\ Lacks(inbox', "drop") /\ Lacks(worldbox', "leave")
  BY DEF NoDrops, Lacks
<1>6. CASE HandleC2GEnterWorld(i)
  <2> DEFINE e == Plain("reqsync", m.p)
  <2>1. /\ UNCHANGED <<online, fault, where>> /\ inbox' = b
        /\ worldbox' = worldbox \/ worldbox' = Post(worldbox, i, e)
    BY <1>6 DEF HandleC2GEnterWorld, clientVars
  <2>2. m.type = "enter"
    BY <1>6 DEF HandleC2GEnterWorld, ProxyGets, Gets
  <2>3. e \in WorldMsgs /\ e.type # "leave"
    BY <1>5, <2>2, WorldMade DEF Plain
  <2> HIDE DEF e, m, b
  <2>4. Lacks(Post(worldbox, i, e), "leave")
    BY <1>0, <1>1, <2>3, LacksPost
  <2> QED BY <1>1, <1>2, <1>4, <2>1, <2>4
<1>7. CASE HandleS2GSyncPlayer(i)
  <2> DEFINE o == [objects[i][m.p] EXCEPT !.sync = TRUE]
  <2>1. /\ UNCHANGED <<online, where, worldbox>>
        /\ inbox' = b \/ Check(i, m.p, o, m.data)
    BY <1>7 DEF HandleS2GSyncPlayer, clientVars
  <2>2. m.type = "sync"
    BY <1>7 DEF HandleS2GSyncPlayer, ProxyGets, Gets
  <2>3. m.p \in Players /\ m.data \in Data
    BY <1>5, <2>2
  <2>4. fault' => fault
    BY <1>7, <2>3, SyncStep
  <2>5. Lacks(inbox', "drop")
    <3> HIDE DEF o, m
    <3>1. CASE Check(i, m.p, o, m.data)
      BY <1>3, <2>3, <3>1, LacksCheck
    <3> QED BY <1>4, <2>1, <3>1
  <2>6. fault' \in BOOLEAN
    <3>1. Typed'
      BY <1>7, TypeNext DEF Next, ProxyStep
    <3> QED BY <3>1 DEF Typed, TypeOK
  <2> QED BY <1>1, <1>2, <2>1, <2>4, <2>5, <2>6
<1>8. CASE HandleBroadcastCreateWorldProxy(i)
  <2> DEFINE w == m.world
  <2>1. /\ UNCHANGED <<online, where, worldbox, proxy, world, waits, base>>
        /\ PublicCreated(i, w) \/ DungeonCreated(i, w)
    BY <1>8 DEF HandleBroadcastCreateWorldProxy, clientVars
  <2>2. m.type = "created"
    BY <1>8 DEF HandleBroadcastCreateWorldProxy, ProxyGets, Gets
  <2>3. w \in Instances
    BY <1>5, <2>2
  <2> HIDE DEF w
  <2>4. CASE PublicCreated(i, w)
    <3>1. Lacks(inbox', "drop") /\ (Players = {} => (fault' => fault))
      BY <1>3, <2>3, <2>4, LacksPublic
    <3>2. ASSUME NEW p \in Players PROVE fault' => fault
      BY <1>3, <2>1, <2>2, <2>3, <2>4, PublicStep
    <3>3. fault' => fault
      BY <3>1, <3>2
    <3>4. fault' \in BOOLEAN
      <4>1. Typed'
        BY <1>8, TypeNext DEF Next, ProxyStep
      <4> QED BY <4>1 DEF Typed, TypeOK
    <3> QED BY <1>1, <1>2, <2>1, <3>1, <3>3, <3>4
  <2>5. CASE DungeonCreated(i, w)
    <3> DEFINE ps == Waiting(i, w.id)
               q == First(ps)
               o == [objects[i][q] EXCEPT !.world = w]
    <3>1. CASE ps = {}
      BY <1>1, <1>2, <1>4, <2>1, <2>5, <3>1 DEF DungeonCreated
    <3>2. CASE ps # {}
      <4>1. Check(i, q, o, proxy[i][q])
        BY <2>5, <3>2 DEF DungeonCreated
      <4>2. ps \subseteq Players
        BY DEF Waiting
      <4>3. q \in Players
        BY <3>2, <4>2, ConstantsAssumption, FirstIs
      <4>4. proxy[i][q] \in Data \union {None}
        BY <1>0, <4>3
      <4>5. fault' => fault
        BY <1>3, <2>1, <2>2, <2>3, <2>5, <4>3, DungeonStep
      <4>6. Lacks(inbox', "drop")
        <5> HIDE DEF o, q
        <5> QED BY <1>3, <4>1, <4>3, <4>4, LacksCheck
      <4>7. fault' \in BOOLEAN
        <5>1. Typed'
          BY <1>8, TypeNext DEF Next, ProxyStep
        <5> QED BY <5>1 DEF Typed, TypeOK
      <4> QED BY <1>1, <1>2, <2>1, <4>5, <4>6, <4>7
    <3> QED BY <3>1, <3>2
  <2> QED BY <2>1, <2>4, <2>5
<1>9. CASE HandleTeleport(i)
  <2> DEFINE e == [type |-> "player", p |-> m.p, data |-> m.data]
             a == Plain("after", m.p)
  <2>1. /\ UNCHANGED <<online, fault>>
        /\ \/ inbox' = b /\ worldbox' = worldbox
           \/ inbox' = Post(b, m.from, a) /\ worldbox' = Post(worldbox, i, e)
    BY <1>9 DEF HandleTeleport, clientVars
  <2>2. m.type = "teleport"
    BY <1>9 DEF HandleTeleport, ProxyGets, Gets
  <2>3. e \in WorldMsgs /\ e.type # "leave" /\ a \in InMsgs /\ a.type # "drop" /\ m.from \in Instances
    BY <1>5, <2>2, WorldMade, InMade DEF Plain
  <2> HIDE DEF e, a, m, b
  <2>4. Lacks(Post(worldbox, i, e), "leave") /\ Lacks(Post(b, m.from, a), "drop")
    BY <1>0, <1>1, <1>4, <2>3, LacksPost
  <2>5. \A p \in Players : where'[p] \in Instances
    BY <1>9, TeleportStep
  <2> QED BY <1>1, <1>2, <1>4, <2>1, <2>4, <2>5
<1>10. CASE HandleTeleportAfter(i)
  <2> DEFINE e == Plain("remove", m.p)
  <2>1. /\ UNCHANGED <<online, fault, where>> /\ inbox' = b
        /\ worldbox' = worldbox \/ worldbox' = Post(worldbox, i, e)
    BY <1>10 DEF HandleTeleportAfter, ProxyForget, LetGo, clientVars
  <2>2. m.type = "after"
    BY <1>10 DEF HandleTeleportAfter, ProxyForget, ProxyGets, Gets
  <2>3. e \in WorldMsgs /\ e.type # "leave"
    BY <1>5, <2>2, WorldMade DEF Plain
  <2> HIDE DEF e, m, b
  <2>4. Lacks(Post(worldbox, i, e), "leave")
    BY <1>0, <1>1, <2>3, LacksPost
  <2> QED BY <1>1, <1>2, <1>4, <2>1, <2>4
<1>11. ~ HandleNetworkDisconnect(i)
  BY <1>4 DEF HandleNetworkDisconnect, ProxyForget, ProxyGets, Gets
<1> QED BY <1>6, <1>7, <1>8, <1>9, <1>10, <1>11 DEF ProxyStep

LEMMA NoDropsNext ==
    ASSUME Typed, JumpInv, MaxDrop = 0, Next
    PROVE  NoDrops'
<1>0. /\ inbox \in [Instances -> Seq(InMsgs)] /\ worldbox \in [Instances -> Seq(WorldMsgs)]
      /\ world \in [Instances -> [Players -> Data \union {None}]]
  BY TypeFacts
<1>1. Lacks(inbox, "drop") /\ Lacks(worldbox, "leave")
  BY LacksFacts
<1>2. online = Players /\ fault = FALSE /\ \A p \in Players : where[p] \in Instances
  BY DEF JumpInv, NoDrops
<1> SUFFICES ASSUME ~ \E i \in Instances : ProxyStep(i)
             PROVE  /\ online' = Players /\ fault' = FALSE /\ \A p \in Players : where'[p] \in Instances
                    /\ Lacks(inbox', "drop") /\ Lacks(worldbox', "leave")
  BY NoDropsProxy DEF NoDrops, Lacks
<1>3. ASSUME NEW p \in Players, NEW id \in Ids, ClientEnterWorld(p, id)
      PROVE  UNCHANGED <<online, fault, where, worldbox>> /\ Lacks(inbox', "drop")
  <2> DEFINE m == [type |-> "enter", p |-> p, id |-> id]
  <2>1. UNCHANGED <<online, fault, where, worldbox>> /\ inbox' = Post(inbox, where[p], m)
    BY <1>3 DEF ClientEnterWorld
  <2>2. m \in InMsgs /\ m.type # "drop" /\ where[p] \in Instances
    BY <1>2, InMade
  <2> HIDE DEF m
  <2>3. Lacks(Post(inbox, where[p], m), "drop")
    BY <1>0, <1>1, <2>2, LacksPost
  <2> QED BY <2>1, <2>3
<1>4. ASSUME CreateWorld PROVE UNCHANGED <<online, fault, where, worldbox>> /\ Lacks(inbox', "drop")
  <2> DEFINE r == Head(requests)
             n == Cardinality({v \in exists : v.id = r.id})
             w == World(r.id, IF r.id \in Publics THEN 0 ELSE n + 1)
             m == [type |-> "created", world |-> w]
  <2>1. /\ UNCHANGED <<online, fault, where, worldbox>>
        /\ \/ inbox' = inbox
           \/ /\ w \in Instances
              /\ inbox' = [i \in Instances |->
                    IF i = r.from \/ (r.id \in Publics /\ i \in exists') THEN Append(inbox[i], m) ELSE inbox[i]]
    BY <1>4 DEF CreateWorld, clientVars
  <2> HIDE DEF r, n, w
  <2>2. ASSUME NEW j \in Instances, NEW k \in DOMAIN inbox'[j] PROVE inbox'[j][k].type # "drop"
    <3>1. CASE inbox'[j] = inbox[j]
      BY <1>1, <3>1 DEF Lacks
    <3>2. CASE inbox'[j] # inbox[j]
      <4>1. inbox'[j] = Append(inbox[j], m) /\ m \in InMsgs /\ m.type # "drop"
        BY <2>1, <3>2, CreatedMade
      <4>2. PICK q \in Seq(InMsgs) : q = inbox[j]
        BY <1>0
      <4> HIDE DEF m
      <4>3. \A l \in DOMAIN Append(q, m) : Append(q, m)[l] = m \/ \E h \in DOMAIN q : q[h] = Append(q, m)[l]
        BY <4>1, AppendParts
      <4> QED BY <1>1, <4>1, <4>2, <4>3 DEF Lacks
    <3> QED BY <3>1, <3>2
  <2>3. Lacks(inbox', "drop")
    BY <2>2 DEF Lacks
  <2> QED BY <2>1, <2>3
<1>5. ASSUME NEW i \in Instances, WorldStep(i)
      PROVE  UNCHANGED <<online, fault, where>> /\ Lacks(inbox', "drop") /\ Lacks(worldbox', "leave")
  <2> DEFINE m == Head(worldbox[i])
             e == [type |-> "sync", p |-> m.p, data |-> world[i][m.p]]
  <2>1. /\ UNCHANGED <<online, fault, where>> /\ worldbox' = Done(worldbox, i) /\ worldbox[i] # <<>>
        /\ inbox' = inbox \/ (world[i][m.p] # None /\ inbox' = Post(inbox, i, e))
    BY <1>5 DEF WorldStep, HandleRequestSyncPlayer, HandleSyncPlayer, HandleRemovePlayer, Gets, clientVars
  <2>2. Lacks(Done(worldbox, i), "leave") /\ m \in WorldMsgs
    BY <1>0, <1>1, <2>1, LacksDone, WorldboxTail
  <2>3. m.p \in Players
    BY <2>2, WorldFields
  <2>4. CASE world[i][m.p] # None /\ inbox' = Post(inbox, i, e)
    <3>1. e \in InMsgs /\ e.type # "drop"
      BY <1>0, <2>3, <2>4, InMade
    <3> HIDE DEF e
    <3>2. Lacks(Post(inbox, i, e), "drop")
      BY <1>0, <1>1, <3>1, LacksPost
    <3> QED BY <2>1, <2>2, <2>4, <3>2
  <2> QED BY <1>1, <2>1, <2>2, <2>4
<1>6. ASSUME NEW i \in Instances, NEW p \in Players, Gain(i, p)
      PROVE  UNCHANGED <<online, fault, where, inbox, worldbox>>
  BY <1>6 DEF Gain, clientVars
<1>7. CASE \E p \in Players, id \in Ids : ClientEnterWorld(p, id)
  BY <1>1, <1>2, <1>3, <1>7
<1>8. CASE CreateWorld
  BY <1>1, <1>2, <1>4, <1>8
<1>9. CASE \E i \in Instances : WorldStep(i)
  BY <1>2, <1>5, <1>9
<1>10. CASE \E i \in Instances, p \in Players : Gain(i, p)
  BY <1>1, <1>2, <1>6, <1>10
<1> QED BY <1>7, <1>8, <1>9, <1>10, NobodyDrops DEF Next

LEMMA JumpInit == Init => JumpInv
<1> SUFFICES ASSUME Init PROVE JumpInv
  OBVIOUS
<1>1. Start \in Instances /\ 0 \in Data /\ None \notin Data
  BY InstanceFacts, ConstantsAssumption, NoneAssumption DEF Data
<1>2. /\ \A i \in Instances : inbox[i] = <<>> /\ worldbox[i] = <<>>
      /\ online = Players /\ fault = FALSE /\ waits = {}
      /\ \A p \in Players :
            /\ where[p] = Start /\ base[p] = 0
            /\ \A i \in Instances : /\ objects[i][p] = None /\ world[i][p] = proxy[i][p]
                                    /\ proxy[i][p] = IF i = Start THEN 0 ELSE None
  BY DEF Init, Per
<1>3. NoDrops
  BY <1>1, <1>2 DEF NoDrops
<1>4. ASSUME NEW p \in Players PROVE Staged(p)
  <2>1. \A i \in Instances : \A type : No(inbox[i], type, p) /\ No(worldbox[i], type, p)
    BY <1>2 DEF No
  <2>2. \A i \in Instances : \A type : One(inbox[i], type, p) /\ One(worldbox[i], type, p)
    BY <1>2 DEF One
  <2>3. \A i \in Instances : \A a, b : Before(inbox[i], a, b, p) /\ Before(worldbox[i], a, b, p)
    BY <1>2 DEF Before
  <2>4. where[p] = Start /\ proxy[Start][p] # None /\ world[Start][p] # None
        /\ \A i \in Instances : i # Start => proxy[i][p] = None /\ world[i][p] = None
    BY <1>1, <1>2
  <2>5. Left(p)
    BY <1>1, <2>1, <2>2, <2>4 DEF Left
  <2>6. Asked(p, "rest") /\ Sent(p, "rest", Start)
    BY <2>1, <2>2, <2>3 DEF Asked, Sent, No
  <2>7. Jumping(p, "rest")
    BY <1>2 DEF Jumping
  <2>8. Syncing(p, "rest")
    BY <2>1, <2>2 DEF Syncing, No
  <2>9. Entering(p, "rest")
    BY <1>1, <2>1, <2>2, <2>3, <2>4 DEF Entering
  <2>10. Stage(p, "rest", Start)
    BY <2>6, <2>7, <2>8, <2>9 DEF Stage
  <2> QED BY <1>1, <2>5, <2>10 DEF Staged
<1> QED BY <1>3, <1>4 DEF JumpInv

LEMMA StagedNext ==
    ASSUME Typed, JumpInv, Patient, MaxDrop = 0, Next, NEW p \in Players
    PROVE  Staged(p)'
<1>1. ASSUME NEW q \in Players, NEW id \in Ids, ClientEnterWorld(q, id) PROVE Staged(p)'
  BY <1>1, AskStep, OtherAskStep
<1>2. ASSUME NEW i \in Instances, HandleBroadcastCreateWorldProxy(i) PROVE Staged(p)'
  <2> DEFINE w == Head(inbox[i]).world
  <2>1. /\ UNCHANGED <<worldbox, proxy, world, where, waits, base>>
        /\ inbox[i] # <<>> /\ Head(inbox[i]).type = "created"
        /\ PublicCreated(i, w) \/ DungeonCreated(i, w)
    BY <1>2 DEF HandleBroadcastCreateWorldProxy, clientVars, ProxyGets, Gets
  <2>2. inbox \in [Instances -> Seq(InMsgs)]
    BY TypeFacts
  <2>3. Head(inbox[i]) \in InMsgs
    BY <2>1, <2>2, InboxTail
  <2>4. w \in Instances
    BY <2>1, <2>3, InFields
  <2> HIDE DEF w
  <2>5. CASE PublicCreated(i, w)
    BY <2>1, <2>4, <2>5, PublicStep
  <2>6. CASE DungeonCreated(i, w)
    BY <2>1, <2>4, <2>6, DungeonStep
  <2> QED BY <2>1, <2>5, <2>6
<1>3. ASSUME NEW i \in Instances, HandleNetworkDisconnect(i) PROVE FALSE
  <2>1. inbox[i] # <<>> /\ Head(inbox[i]).type = "drop"
    BY <1>3 DEF HandleNetworkDisconnect, ProxyForget, ProxyGets, Gets
  <2>2. \E k \in DOMAIN inbox[i] : inbox[i][k] = Head(inbox[i])
    BY <2>1, TypeFacts, InboxTail
  <2> QED BY <2>1, <2>2 DEF JumpInv, NoDrops
<1>4. ASSUME NEW i \in Instances, ProxyStep(i) PROVE Staged(p)'
  BY <1>2, <1>3, <1>4, EnterStep, SyncStep, TeleportStep, AfterStep DEF ProxyStep
<1>5. ASSUME NEW i \in Instances, WorldStep(i) PROVE Staged(p)'
  BY <1>5, RequestStep, ArriveStep, RemoveStep DEF WorldStep
<1> QED BY <1>1, <1>4, <1>5, CreateStep, GainStep, NobodyDrops DEF Next

LEMMA JumpNext ==
    ASSUME Patient, MaxDrop = 0
    PROVE  Typed /\ JumpInv /\ [Next]_vars => JumpInv'
<1>1. ASSUME Typed, JumpInv, Next PROVE JumpInv'
  BY <1>1, NoDropsNext, StagedNext DEF JumpInv
<1>2. ASSUME JumpInv, UNCHANGED vars PROVE JumpInv'
  <2>1. UNCHANGED <<inbox, worldbox, proxy, objects, world, where, online, waits, base, fault>>
    BY <1>2 DEF vars, proxyVars, clientVars
  <2> QED BY <1>2, <2>1 DEF JumpInv, NoDrops, Staged, Left, Stage, Asked, Jumping, Syncing, Sent, Entering
<1> QED BY <1>1, <1>2

\* The inductive invariant of jumps, for any number of worlds, players, jumps and changes of
\* data: between HandleC2GEnterWorld and HandleSyncPlayer of the target a player passes the
\* stages asked, jump, sent and enter, and SocketLocator names the proxy that has it.
THEOREM JumpCorrect ==
    ASSUME Patient, MaxDrop = 0
    PROVE  Spec => []JumpInv
BY TypeInit, TypeNext, JumpInit, JumpNext, PTL DEF Spec

\* Of two proxies that hold a player, and of two worlds that do, one is told to let go, for
\* any number of worlds, players, jumps and changes of data: the target takes the player over
\* and tells the old proxy in one step, the old proxy tells its world when it lets go
\* (WorldProxy::HandleTeleport, HandleTeleportAfter).
THEOREM OneWorldCorrect ==
    ASSUME Patient, MaxDrop = 0
    PROVE  Spec => []OneWorld
<1>1. JumpInv => OneWorld
  <2> SUFFICES ASSUME JumpInv, NEW p \in Players, NEW i \in Instances, NEW j \in Instances, i # j
               PROVE  /\ proxy[i][p] # None /\ proxy[j][p] # None => On(inbox, i, "after", p) \/ On(inbox, j, "after", p)
                      /\ world[i][p] # None /\ world[j][p] # None =>
                            \E k \in {i, j} : On(inbox, k, "after", p) \/ On(worldbox, k, "remove", p)
    BY DEF OneWorld
  <2>1. \A k \in Instances : /\ ~ No(inbox[k], "after", p) <=> On(inbox, k, "after", p)
                             /\ ~ No(worldbox[k], "remove", p) <=> On(worldbox, k, "remove", p)
    BY DEF On, No, Is
  <2>2. Left(p)
    BY StageOf
  <2>3. PICK k \in {i, j} : k # where[p]
    OBVIOUS
  <2> QED BY <2>1, <2>2, <2>3 DEF Left
<1> QED BY <1>1, JumpCorrect, PTL

\* A player is held by a proxy at every moment, the one SocketLocator names: the old proxy
\* lets go only after the new one has taken over (WorldProxy::HandleTeleport).
THEOREM NeverNowhereCorrect ==
    ASSUME Patient, MaxDrop = 0
    PROVE  Spec => []NeverNowhere
<1>1. JumpInv => NeverNowhere
  <2> SUFFICES ASSUME JumpInv, NEW p \in online PROVE \E i \in Instances : proxy[i][p] # None
    BY DEF NeverNowhere
  <2>1. p \in Players
    BY DEF JumpInv, NoDrops
  <2>2. where[p] \in Instances /\ Left(p)
    BY <2>1, StageOf
  <2> QED BY <2>2 DEF Left
<1> QED BY <1>1, JumpCorrect, PTL

\* A jump carries the player's data at least as it was when the wish was handled, in whatever
\* order the data and the target world arrive (TeleportObject, WorldComponentTeleport::Check).
THEOREM SyncedDataCorrect ==
    ASSUME Patient, MaxDrop = 0
    PROVE  Spec => []SyncedData
<1>1. Typed /\ JumpInv => SyncedData
  <2> SUFFICES ASSUME Typed, JumpInv, NEW i \in Instances, NEW k \in DOMAIN inbox[i], inbox[i][k].type = "teleport"
               PROVE  inbox[i][k].data >= base[inbox[i][k].p]
    BY DEF SyncedData
  <2> DEFINE p == inbox[i][k].p
  <2>1. inbox[i] \in Seq(InMsgs)
    BY TypeFacts
  <2>2. inbox[i][k] \in InMsgs
    BY <2>1
  <2>3. p \in Players
    BY <2>2, InFields
  <2>4. \E s, t : Sent(p, s, t)
    BY <2>3, StageOf
  <2> QED BY <2>4 DEF Sent, Is
<1>2. Spec => []Typed
  BY TypeInit, TypeNext, PTL DEF Spec
<1> QED BY <1>1, <1>2, JumpCorrect, PTL

\* No handler uses a Player that is gone, as long as nobody disconnects in the middle of a
\* jump: a proxy that holds an object holds its player (WorldComponentTeleport::Check).
THEOREM NoNullPlayerCorrect ==
    ASSUME Patient, MaxDrop = 0
    PROVE  Spec => []NoNullPlayer
<1>1. JumpInv => NoNullPlayer
  BY DEF JumpInv, NoDrops, NoNullPlayer
<1> QED BY <1>1, JumpCorrect, PTL
=============================================================================
