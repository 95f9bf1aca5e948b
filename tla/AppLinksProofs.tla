--------------------------- MODULE AppLinksProofs ---------------------------
(***************************************************************************)
(* That whoever dials a process that dials nobody is never led elsewhere,  *)
(* and dials it once, for any number of processes, sockets, connections,   *)
(* breaks and crashes, whatever order they come in.                        *)
(***************************************************************************)
EXTENDS AppLinks, FiniteSetTheorems, WellFoundedInduction, TLAPS

Mail == [type : {"disconnect"}, fd : Fds, tag : Procs \union {None}]
        \union [type : {"register"}, fd : Fds, tag : Procs]
KeyMail == [fd : Fds, tag : Procs]
Packets == [fd : Fds, to : Procs, type : {"register", "data"}]
\* What the lists hold; a connection that waits for accept() is one.
Boxes ==
    /\ mainbox \in [Procs -> Seq(Mail)] /\ netbox \in [Procs -> Seq(KeyMail)]
    /\ sends \in [Procs -> [Nets -> Seq(Packets)]] /\ backlog \in [Procs -> Seq(Conns)]
    /\ wire \in [Conns -> Seq({"register", "data"})]
    /\ \A p \in Procs : \A i \in DOMAIN backlog[p] : tcp[backlog[p][i]] # None
Typed == TypeOK /\ Boxes

-----------------------------------------------------------------------------
(***************************************************************************)
(* Numbers, lists and connections.                                         *)
(***************************************************************************)
\* Every nonempty set of numbers has a least one, and Lowest is it.
LEMMA LowestMember ==
    ASSUME NEW S \in SUBSET Nat, S # {}
    PROVE  Lowest(S) \in S
<1> DEFINE R == {ss \in Nat \X Nat : ss[1] < ss[2]}
<1>1. IsWellFoundedOn(R, Nat)
  BY NatLessThanWellFounded DEF OpToRel
<1>2. \A x, y \in Nat : <<y, x>> \in R \/ x <= y
  OBVIOUS
<1> HIDE DEF R
<1>3. PICK x \in S : \A y \in S : ~ (<<y, x>> \in R)
  BY <1>1, WFMin
<1>4. \A y \in S : x <= y
  BY <1>2, <1>3
<1> QED BY <1>4 DEF Lowest

LEMMA AppendParts ==
    ASSUME NEW M, NEW s \in Seq(M), NEW m \in M
    PROVE  /\ Append(s, m) \in Seq(M) /\ Len(s) \in Nat
           /\ DOMAIN Append(s, m) = DOMAIN s \union {Len(s) + 1} /\ Len(s) + 1 \notin DOMAIN s
           /\ Append(s, m)[Len(s) + 1] = m /\ \A i \in DOMAIN s : Append(s, m)[i] = s[i]
           /\ \A i \in DOMAIN s : i \in Nat /\ i < Len(s) + 1
<1>1. /\ Append(s, m) \in Seq(M) /\ Len(s) \in Nat /\ DOMAIN s = 1 .. Len(s)
      /\ DOMAIN Append(s, m) = 1 .. Len(s) + 1
      /\ Append(s, m)[Len(s) + 1] = m /\ \A i \in 1 .. Len(s) : Append(s, m)[i] = s[i]
  OBVIOUS
<1> QED BY <1>1

LEMMA TailParts ==
    ASSUME NEW M, NEW s \in Seq(M), s # <<>>
    PROVE  /\ Tail(s) \in Seq(M) /\ Head(s) \in M
           /\ 1 \in DOMAIN s /\ s[1] = Head(s)
           /\ \A i \in DOMAIN Tail(s) : i + 1 \in DOMAIN s /\ i + 1 # 1 /\ Tail(s)[i] = s[i + 1]
           /\ \A i \in DOMAIN Tail(s) : i \in Nat
           /\ \A i \in DOMAIN s : i # 1 => i - 1 \in DOMAIN Tail(s) /\ (i - 1) + 1 = i
           /\ \A i \in DOMAIN s : i \in Nat /\ s[i] \in M
<1>1. /\ Tail(s) \in Seq(M) /\ Head(s) = s[1] /\ Len(s) \in Nat /\ Len(s) > 0 /\ DOMAIN s = 1 .. Len(s)
      /\ DOMAIN Tail(s) = 1 .. Len(s) - 1 /\ \A i \in 1 .. Len(s) - 1 : Tail(s)[i] = s[i + 1]
      /\ \A i \in 1 .. Len(s) : s[i] \in M
  OBVIOUS
<1> QED BY <1>1

\* A socket and a connection that Connect and Accept take.
LEMMA FreeTaken ==
    ASSUME NEW p \in Procs
    PROVE  /\ FreeFds(p) # {} => Lowest(FreeFds(p)) \in Fds /\ obj[p][Lowest(FreeFds(p))] = None
           /\ FreeConns # {} => Lowest(FreeConns) \in Conns /\ tcp[Lowest(FreeConns)] = None
<1>1. FreeFds(p) \in SUBSET Nat /\ FreeConns \in SUBSET Nat
  BY NumbersAssumption DEF FreeFds, FreeConns
<1>2. FreeFds(p) # {} => Lowest(FreeFds(p)) \in FreeFds(p)
  BY <1>1, LowestMember
<1>3. FreeConns # {} => Lowest(FreeConns) \in FreeConns
  BY <1>1, LowestMember
<1> QED BY <1>2, <1>3 DEF FreeFds, FreeConns

\* A connection that someone has stays.
LEMMA HeldStays ==
    ASSUME NEW t, NEW objs, NEW log
    PROVE  /\ \A p \in Procs, fd \in Fds :
                objs[p][fd] # None /\ objs[p][fd].conn \in Conns =>
                    Collected(t, objs, log)[objs[p][fd].conn] = t[objs[p][fd].conn]
           /\ \A p \in Procs : \A i \in DOMAIN log[p] :
                log[p][i] \in Conns => Collected(t, objs, log)[log[p][i]] = t[log[p][i]]
           /\ \A c \in Conns : Collected(t, objs, log)[c] \in {t[c], None}
           /\ Collected(t, objs, log) = [c \in Conns |-> Collected(t, objs, log)[c]]
BY DEF Collected, Held, Range

-----------------------------------------------------------------------------
(***************************************************************************)
(* Types.                                                                  *)
(***************************************************************************)
\* A list that is not touched, gets a message or loses one holds what it held.
LEMMA PostDone ==
    ASSUME NEW M, NEW box \in [Procs -> Seq(M)], NEW p \in Procs
    PROVE  /\ \A m \in M : Post(box, p, m) \in [Procs -> Seq(M)]
           /\ box[p] # <<>> => Done(box, p) \in [Procs -> Seq(M)]
<1>1. \A m \in M : Append(box[p], m) \in Seq(M)
  OBVIOUS
<1>2. box[p] # <<>> => Tail(box[p]) \in Seq(M)
  OBVIOUS
<1> QED BY <1>1, <1>2 DEF Post, Done

\* What a ConnectObj is made of.
LEMMA ObjParts ==
    ASSUME Typed, NEW p \in Procs, NEW fd \in Fds, obj[p][fd] # None
    PROVE  /\ obj[p][fd] \in ConnectObjs /\ obj[p][fd].conn \in Conns
           /\ obj[p][fd].net \in {"listen", "connector"} /\ obj[p][fd].tag \in Procs \union {None}
           /\ tcp[obj[p][fd].conn] \in Connections /\ tcp[obj[p][fd].conn] # None
           /\ tcp[obj[p][fd].conn].from \in Procs /\ tcp[obj[p][fd].conn].to \in Procs
           /\ Other(obj[p][fd]) \in Procs
<1>1. obj[p][fd] \in ConnectObjs /\ tcp[obj[p][fd].conn] # None
  BY DEF Typed, TypeOK
<1>2. obj[p][fd].conn \in Conns
  BY <1>1 DEF ConnectObjs
<1>3. tcp[obj[p][fd].conn] \in Connections
  BY <1>1, <1>2 DEF Typed, TypeOK
<1> QED BY <1>1, <1>2, <1>3 DEF ConnectObjs, Nets, Connections, Other

\* One entry of a table of tables.
LEMMA EntryType ==
    ASSUME NEW V, NEW f \in [Procs -> [Procs -> V]], NEW p \in Procs, NEW q, NEW v \in V
    PROVE  [f EXCEPT ![p][q] = v] \in [Procs -> [Procs -> V]]
<1>1. [f[p] EXCEPT ![q] = v] \in [Procs -> V]
  OBVIOUS
<1> QED BY <1>1

LEMMA TypedConnect ==
    ASSUME Typed, NEW p \in Procs, NEW q \in Procs, Connect(p, q)
    PROVE  Typed'
<1> DEFINE fd == Lowest(FreeFds(p))
           c == Lowest(FreeConns)
           t == [from |-> p, to |-> q, cut |-> q \notin up]
<1> USE DEF Typed, TypeOK, Boxes
<1>1. /\ fd \in Fds /\ c \in Conns /\ obj[p][fd] = None /\ tcp[c] = None
      /\ want' = [want EXCEPT ![p][q] = @ - 1] /\ tcp' = [tcp EXCEPT ![c] = t]
      /\ backlog' = IF q \in up THEN Post(backlog, q, c) ELSE backlog
      /\ \E s \in {"connecting", "connected"} : obj' = [obj EXCEPT ![p][fd] = [conn |-> c, net |-> "connector", tag |-> q, state |-> s]]
      /\ want[p][q] > 0
      /\ UNCHANGED <<up, locator, mainbox, netbox, sends, wire>>
  BY FreeTaken DEF Connect, CreateConnectObj, Waiting, Asked
<1> HIDE DEF fd, c
<1>2. t \in Connections
  BY DEF Connections
<1>3. \A s \in {"connecting", "connected"} : [conn |-> c, net |-> "connector", tag |-> q, state |-> s] \in ConnectObjs
  BY <1>1 DEF ConnectObjs, Nets
<1>4. backlog' \in [Procs -> Seq(Conns)]
  BY <1>1, PostDone
<1>5. want' \in [Procs -> [Procs -> Nat]]
  BY <1>1
<1>6. tcp' \in [Conns -> Connections \union {None}] /\ t # None
  BY <1>1, <1>2, NoneAssumption
<1>7. \A d \in Conns : tcp[d] # None => tcp'[d] # None
  BY <1>1, <1>6
<1>8. obj' \in [Procs -> [Fds -> ConnectObjs \union {None}]]
  BY <1>1, <1>3
<1>9. \A p_1 \in Procs, fd_1 \in Fds : obj'[p_1][fd_1] # None => tcp'[obj'[p_1][fd_1].conn] # None
  <2> SUFFICES ASSUME NEW r \in Procs, NEW fe \in Fds, obj'[r][fe] # None PROVE tcp'[obj'[r][fe].conn] # None
    OBVIOUS
  <2>1. CASE r = p /\ fe = fd
    <3>1. obj'[r][fe].conn = c
      BY <1>1, <2>1
    <3> QED BY <1>1, <1>6, <3>1
  <2>2. CASE ~ (r = p /\ fe = fd)
    <3>1. obj'[r][fe] = obj[r][fe] /\ obj[r][fe].conn \in Conns
      <4>1. obj'[r][fe] = obj[r][fe]
        BY <1>1, <2>2
      <4> QED BY <4>1, ObjParts
    <3>2. tcp[obj[r][fe].conn] # None
      BY <3>1
    <3> QED BY <1>7, <3>1, <3>2
  <2> QED BY <2>1, <2>2
<1>10. \A r \in Procs : \A i \in DOMAIN backlog'[r] : tcp'[backlog'[r][i]] # None
  <2> SUFFICES ASSUME NEW r \in Procs, NEW i \in DOMAIN backlog'[r] PROVE tcp'[backlog'[r][i]] # None
    OBVIOUS
  <2>1. backlog[r] \in Seq(Conns)
    OBVIOUS
  <2>2. CASE r = q /\ q \in up
    <3>1. backlog'[r] = Append(backlog[r], c)
      BY <1>1, <2>2 DEF Post
    <3>2. \/ i \in DOMAIN backlog[r] /\ Append(backlog[r], c)[i] = backlog[r][i]
          \/ Append(backlog[r], c)[i] = c
      <4> HIDE DEF Typed, TypeOK, Boxes
      <4>1. i \in DOMAIN Append(backlog[r], c) /\ c \in Conns
        BY <1>1, <3>1
      <4> QED BY <2>1, <4>1, AppendParts
    <3>3. CASE i \in DOMAIN backlog[r] /\ Append(backlog[r], c)[i] = backlog[r][i]
      <4>1. backlog[r][i] \in Conns /\ tcp[backlog[r][i]] # None
        <5>1. tcp[backlog[r][i]] # None
          BY <3>3
        <5> HIDE DEF Typed, TypeOK, Boxes
        <5> QED BY <2>1, <3>3, <5>1
      <4> QED BY <1>7, <4>1, <3>1, <3>3
    <3>4. CASE Append(backlog[r], c)[i] = c
      <4>1. tcp'[c] = t
        BY <1>1
      <4> QED BY <1>6, <3>1, <3>4, <4>1
    <3> QED BY <3>2, <3>3, <3>4
  <2>3. CASE ~ (r = q /\ q \in up)
    <3>1. backlog'[r] = backlog[r]
      BY <1>1, <2>3 DEF Post
    <3>2. backlog[r][i] \in Conns
      BY <2>1, <3>1
    <3> QED BY <1>7, <3>1, <3>2
  <2> QED BY <2>2, <2>3
<1> QED BY <1>1, <1>4, <1>5, <1>6, <1>8, <1>9, <1>10

\* A ConnectObj changes its state only.
LEMMA StateChanged ==
    ASSUME Typed, NEW p \in Procs, NEW fd \in Fds, NEW s \in {"entered", "connected"}, obj[p][fd] # None,
           obj' = [obj EXCEPT ![p][fd].state = s], tcp' = tcp
    PROVE  /\ obj' \in [Procs -> [Fds -> ConnectObjs \union {None}]]
           /\ \A r \in Procs, fe \in Fds :
                /\ obj'[r][fe] # None <=> obj[r][fe] # None
                /\ obj[r][fe] # None => /\ obj'[r][fe].conn = obj[r][fe].conn /\ obj'[r][fe].net = obj[r][fe].net
                                        /\ obj'[r][fe].tag = obj[r][fe].tag
                /\ ~ (r = p /\ fe = fd) => obj'[r][fe] = obj[r][fe]
           /\ \A r \in Procs, fe \in Fds : obj'[r][fe] # None => tcp'[obj'[r][fe].conn] # None
<1> DEFINE o == obj[p][fd]
           u == [o EXCEPT !.state = s]
<1>1. o \in ConnectObjs
  BY ObjParts
<1>2. u \in ConnectObjs /\ u.conn = o.conn /\ u.net = o.net /\ u.tag = o.tag
  BY <1>1 DEF ConnectObjs
<1>3. u # None
  BY <1>2, NoneAssumption
<1>4. obj \in [Procs -> [Fds -> ConnectObjs \union {None}]]
  BY DEF Typed, TypeOK
<1>5. obj' = [obj EXCEPT ![p] = [obj[p] EXCEPT ![fd] = u]]
  BY <1>4
<1> HIDE DEF u
<1>6. obj'[p][fd] = u /\ \A r \in Procs, fe \in Fds : ~ (r = p /\ fe = fd) => obj'[r][fe] = obj[r][fe]
  BY <1>4, <1>5
<1>7. obj' \in [Procs -> [Fds -> ConnectObjs \union {None}]]
  BY <1>2, <1>4, <1>5
<1>8. \A r \in Procs, fe \in Fds :
        /\ obj'[r][fe] # None <=> obj[r][fe] # None
        /\ obj[r][fe] # None => /\ obj'[r][fe].conn = obj[r][fe].conn /\ obj'[r][fe].net = obj[r][fe].net
                                /\ obj'[r][fe].tag = obj[r][fe].tag
  BY <1>2, <1>3, <1>6
<1> QED BY <1>6, <1>7, <1>8, ObjParts

LEMMA TypedChangeState ==
    ASSUME Typed, NEW p \in Procs, NEW fd \in Fds, ChangeStateToConnected(p, fd)
    PROVE  Typed'
<1> DEFINE k == [fd |-> fd, net |-> "connector"]
<1>1. /\ obj[p][fd] # None /\ obj' = [obj EXCEPT ![p][fd].state = "entered"]
      /\ locator' = [locator EXCEPT ![p][obj[p][fd].tag] = k]
      /\ UNCHANGED <<up, want, mainbox, netbox, sends, tcp, backlog, wire>>
  BY DEF ChangeStateToConnected, netVars
<1>2. k \in SocketKeys
  BY DEF SocketKeys, Nets
<1> HIDE DEF k
<1>3. locator' \in [Procs -> [Procs -> SocketKeys \union {None}]]
  BY <1>1, <1>2, EntryType DEF Typed, TypeOK
<1>4. /\ obj' \in [Procs -> [Fds -> ConnectObjs \union {None}]]
      /\ \A r \in Procs, fe \in Fds : obj'[r][fe] # None => tcp'[obj'[r][fe].conn] # None
  BY <1>1, StateChanged
<1> QED BY <1>1, <1>3, <1>4 DEF Typed, TypeOK, Boxes

\* A packet to a process goes into the list of the network its entry names.
LEMMA SentParts ==
    ASSUME Typed, NEW p \in Procs, NEW q \in Procs, NEW type \in {"register", "data"}, SendTo(p, q, type)
    PROVE  /\ sends' \in [Procs -> [Nets -> Seq(Packets)]]
           /\ \/ sends' = sends
              \/ /\ locator[p][q] # None /\ locator[p][q].net \in Nets
                 /\ \E m \in Packets : m.to = q /\ sends'[p][locator[p][q].net] = Append(sends[p][locator[p][q].net], m)
                 /\ \A r \in Procs, net \in Nets : ~ (r = p /\ net = locator[p][q].net) => sends'[r][net] = sends[r][net]
<1>1. CASE locator[p][q] = None
  BY <1>1 DEF SendTo, Typed, Boxes
<1>2. CASE locator[p][q] # None
  <2>1. PICK k \in SocketKeys : locator[p][q] = k
    BY <1>2 DEF Typed, TypeOK
  <2>2. k.fd \in Fds /\ k.net \in Nets
    BY DEF SocketKeys
  <2>3. PICK m : m = [fd |-> k.fd, to |-> q, type |-> type]
    OBVIOUS
  <2>4. m \in Packets /\ m.to = q
    BY <2>2, <2>3 DEF Packets
  <2>5. sends' = [sends EXCEPT ![p][k.net] = Append(@, m)]
    BY <1>2, <2>1, <2>3 DEF SendTo
  <2>6. sends \in [Procs -> [Nets -> Seq(Packets)]]
    BY DEF Typed, Boxes
  <2>7. Append(sends[p][k.net], m) \in Seq(Packets)
    BY <2>2, <2>4, <2>6
  <2>8. /\ sends' \in [Procs -> [Nets -> Seq(Packets)]]
        /\ sends'[p][k.net] = Append(sends[p][k.net], m)
        /\ \A r \in Procs, net \in Nets : ~ (r = p /\ net = k.net) => sends'[r][net] = sends[r][net]
    BY <2>2, <2>5, <2>6, <2>7
  <2> QED BY <1>2, <2>1, <2>2, <2>4, <2>8
<1> QED BY <1>1, <1>2

LEMMA TypedRegister ==
    ASSUME Typed, NEW p \in Procs, NEW fd \in Fds, Register(p, fd)
    PROVE  Typed'
<1>1. /\ obj[p][fd] # None /\ obj' = [obj EXCEPT ![p][fd].state = "connected"]
      /\ \/ obj[p][fd].tag \in Greeted /\ SendTo(p, obj[p][fd].tag, "register")
         \/ sends' = sends
      /\ UNCHANGED <<up, want, locator, mainbox, netbox, tcp, backlog, wire>>
  BY DEF Register, netVars
<1>2. sends' \in [Procs -> [Nets -> Seq(Packets)]]
  BY <1>1, SentParts, ConstantsAssumption DEF Typed, Boxes
<1>3. /\ obj' \in [Procs -> [Fds -> ConnectObjs \union {None}]]
      /\ \A r \in Procs, fe \in Fds : obj'[r][fe] # None => tcp'[obj'[r][fe].conn] # None
  BY <1>1, StateChanged
<1> QED BY <1>1, <1>2, <1>3 DEF Typed, TypeOK, Boxes

LEMMA TypedRemove ==
    ASSUME Typed, NEW p \in Procs, NEW fd \in Fds, RemoveConnectObj(p, fd)
    PROVE  Typed'
<1> DEFINE o == obj[p][fd]
<1> USE DEF Typed, TypeOK, Boxes
<1>1. /\ obj' = [obj EXCEPT ![p] = [obj[p] EXCEPT ![fd] = None]] /\ tcp' = Collected(tcp, obj', backlog)
      /\ mainbox' = Post(mainbox, p, [type |-> "disconnect", fd |-> fd, tag |-> o.tag])
      /\ UNCHANGED <<up, want, locator, netbox, sends, backlog, wire>> /\ o # None
  BY DEF RemoveConnectObj, Notice
<1>2. [type |-> "disconnect", fd |-> fd, tag |-> o.tag] \in Mail
  BY <1>1 DEF Mail, ConnectObjs
<1>3. mainbox' \in [Procs -> Seq(Mail)]
  BY <1>1, <1>2, PostDone
<1>4. obj' \in [Procs -> [Fds -> ConnectObjs \union {None}]]
  BY <1>1
<1>5. \A r \in Procs, fe \in Fds : obj'[r][fe] # None => obj'[r][fe] = obj[r][fe] /\ obj[r][fe].conn \in Conns
  BY <1>1 DEF ConnectObjs
<1>6. tcp' \in [Conns -> Connections \union {None}]
  BY <1>1, HeldStays
<1>7. \A r \in Procs, fe \in Fds : obj'[r][fe] # None => tcp'[obj'[r][fe].conn] # None
  <2> SUFFICES ASSUME NEW r \in Procs, NEW fe \in Fds, obj'[r][fe] # None PROVE tcp'[obj'[r][fe].conn] # None
    OBVIOUS
  <2>1. obj'[r][fe] = obj[r][fe] /\ obj'[r][fe].conn \in Conns /\ tcp[obj[r][fe].conn] # None
    BY <1>5
  <2>2. tcp'[obj'[r][fe].conn] = tcp[obj'[r][fe].conn]
    <3> HIDE DEF Typed, TypeOK, Boxes
    <3>1. Collected(tcp, obj', backlog)[obj'[r][fe].conn] = tcp[obj'[r][fe].conn]
      BY <2>1, HeldStays
    <3> QED BY <1>1, <3>1
  <2> QED BY <2>1, <2>2
<1>8. \A r \in Procs : \A i \in DOMAIN backlog'[r] : tcp'[backlog'[r][i]] # None
  <2> SUFFICES ASSUME NEW r \in Procs, NEW i \in DOMAIN backlog[r] PROVE tcp'[backlog[r][i]] # None
    BY <1>1
  <2>1. backlog[r] \in Seq(Conns)
    OBVIOUS
  <2>2. backlog[r][i] \in Conns
    BY <2>1
  <2> QED BY <1>1, <2>2, HeldStays
<1> QED BY <1>1, <1>3, <1>4, <1>6, <1>7, <1>8

LEMMA TypedAccept ==
    ASSUME Typed, NEW p \in Procs, Accept(p)
    PROVE  Typed'
<1> DEFINE fd == Lowest(FreeFds(p))
           c == Head(backlog[p])
           o == [conn |-> c, net |-> "listen", tag |-> None, state |-> "connected"]
<1> USE DEF Typed, TypeOK, Boxes
<1>1. /\ fd \in Fds /\ obj[p][fd] = None /\ backlog[p] # <<>> /\ backlog[p] \in Seq(Conns)
      /\ obj' = [obj EXCEPT ![p][fd] = o] /\ backlog' = Done(backlog, p)
      /\ UNCHANGED <<up, want, locator, mainbox, netbox, sends, tcp, wire>>
  BY FreeTaken DEF Accept, CreateConnectObj
<1> HIDE DEF fd
<1>2. c \in Conns /\ 1 \in DOMAIN backlog[p] /\ backlog[p][1] = c
  BY <1>1, TailParts
<1>3. o \in ConnectObjs
  BY <1>2 DEF ConnectObjs, Nets
<1>4. obj' \in [Procs -> [Fds -> ConnectObjs \union {None}]]
  BY <1>1, <1>3
<1>5. \A r \in Procs, fe \in Fds : obj'[r][fe] # None => tcp'[obj'[r][fe].conn] # None
  <2> SUFFICES ASSUME NEW r \in Procs, NEW fe \in Fds, obj'[r][fe] # None PROVE tcp'[obj'[r][fe].conn] # None
    OBVIOUS
  <2>1. r = p /\ fe = fd => obj'[r][fe] = o
    BY <1>1
  <2>2. ~ (r = p /\ fe = fd) => obj'[r][fe] = obj[r][fe]
    BY <1>1
  <2>3. tcp[c] # None /\ o.conn = c
    BY <1>2
  <2> HIDE DEF o
  <2> QED BY <1>1, <2>1, <2>2, <2>3
<1>6. backlog' \in [Procs -> Seq(Conns)]
  BY <1>1, PostDone
<1>7. \A r \in Procs : \A i \in DOMAIN backlog'[r] : tcp'[backlog'[r][i]] # None
  <2> SUFFICES ASSUME NEW r \in Procs, NEW i \in DOMAIN backlog'[r] PROVE tcp[backlog'[r][i]] # None
    BY <1>1
  <2>1. CASE r = p
    <3>1. backlog'[r] = Tail(backlog[p])
      BY <1>1, <2>1 DEF Done
    <3>2. i + 1 \in DOMAIN backlog[p] /\ backlog'[r][i] = backlog[p][i + 1]
      BY <1>1, <3>1, TailParts
    <3> QED BY <3>2
  <2>2. CASE r # p
    BY <1>1, <2>2 DEF Done
  <2> QED BY <2>1, <2>2
<1> QED BY <1>1, <1>4, <1>5, <1>6, <1>7

LEMMA TypedRecv ==
    ASSUME Typed, NEW p \in Procs, NEW fd \in Fds, Recv(p, fd)
    PROVE  Typed'
<1> DEFINE o == obj[p][fd]
           m == [type |-> "register", fd |-> fd, tag |-> Other(o)]
<1> USE DEF Typed, TypeOK, Boxes
<1>1. /\ o # None /\ wire[o.conn] # <<>> /\ wire' = Done(wire, o.conn)
      /\ mainbox' = Post(mainbox, p, m) \/ mainbox' = mainbox
      /\ UNCHANGED <<up, want, obj, locator, netbox, sends, tcp, backlog>> /\ o.net = "listen"
  BY DEF Recv
<1>2. o.conn \in Conns /\ tcp[o.conn] \in Connections
  BY <1>1 DEF ConnectObjs
<1>3. m \in Mail
  BY <1>1, <1>2 DEF Mail, Other, Connections
<1>4. mainbox' \in [Procs -> Seq(Mail)]
  <2> HIDE DEF m
  <2>1. Post(mainbox, p, m) \in [Procs -> Seq(Mail)]
    BY <1>3, PostDone
  <2> QED BY <1>1, <2>1
<1>5. wire' \in [Conns -> Seq({"register", "data"})]
  <2>1. Tail(wire[o.conn]) \in Seq({"register", "data"})
    BY <1>1, <1>2
  <2> QED BY <1>1, <2>1 DEF Done
<1> QED BY <1>1, <1>4, <1>5

\* A network takes a packet from its list.
LEMMA UpdateParts ==
    ASSUME Typed, NEW p \in Procs, NEW net \in Nets, OnNetworkUpdate(p, net)
    PROVE  /\ sends[p][net] # <<>> /\ sends[p][net] \in Seq(Packets) /\ Head(sends[p][net]) \in Packets
           /\ sends' \in [Procs -> [Nets -> Seq(Packets)]] /\ sends'[p][net] = Tail(sends[p][net])
           /\ \A r \in Procs, n \in Nets : ~ (r = p /\ n = net) => sends'[r][n] = sends[r][n]
<1>1. /\ sends[p][net] # <<>> /\ sends[p][net] \in Seq(Packets) /\ sends \in [Procs -> [Nets -> Seq(Packets)]]
      /\ sends' = [sends EXCEPT ![p][net] = Tail(@)]
  BY DEF OnNetworkUpdate, Typed, Boxes
<1>2. Head(sends[p][net]) \in Packets /\ Tail(sends[p][net]) \in Seq(Packets)
  BY <1>1, TailParts
<1> QED BY <1>1, <1>2

LEMMA TypedOnNetworkUpdate ==
    ASSUME Typed, NEW p \in Procs, NEW net \in Nets, OnNetworkUpdate(p, net)
    PROVE  Typed'
<1>1. PICK m : m = Head(sends[p][net])
  OBVIOUS
<1>2. PICK o : o = obj[p][m.fd]
  OBVIOUS
<1>3. /\ UNCHANGED <<up, want, obj, locator, mainbox, netbox, tcp, backlog>>
      /\ wire' = wire \/ (o # None /\ wire' = Post(wire, o.conn, m.type))
  BY <1>1, <1>2 DEF OnNetworkUpdate
<1>4. m.type \in {"register", "data"} /\ m.fd \in Fds
  BY <1>1, UpdateParts DEF Packets
<1>5. wire' \in [Conns -> Seq({"register", "data"})]
  <2>1. CASE wire' = wire
    BY <2>1 DEF Typed, Boxes
  <2>2. CASE o # None /\ wire' = Post(wire, o.conn, m.type)
    <3>1. o.conn \in Conns
      BY <1>2, <1>4, <2>2, ObjParts
    <3>2. wire \in [Conns -> Seq({"register", "data"})]
      BY DEF Typed, Boxes
    <3>3. Append(wire[o.conn], m.type) \in Seq({"register", "data"})
      BY <1>4, <3>1, <3>2
    <3> QED BY <2>2, <3>2, <3>3 DEF Post
  <2> QED BY <1>3, <2>1, <2>2
<1>6. sends' \in [Procs -> [Nets -> Seq(Packets)]]
  BY UpdateParts
<1> QED BY <1>3, <1>5, <1>6 DEF Typed, TypeOK, Boxes

LEMMA TypedListenKey ==
    ASSUME Typed, NEW p \in Procs, HandleListenKey(p)
    PROVE  Typed'
<1> DEFINE m == Head(netbox[p])
<1> USE DEF Typed, TypeOK, Boxes
<1>1. /\ netbox[p] # <<>> /\ netbox' = Done(netbox, p) /\ netbox[p] \in Seq(KeyMail)
      /\ UNCHANGED <<up, want, locator, mainbox, sends, tcp, backlog, wire>>
      /\ obj' = [obj EXCEPT ![p] = [fe \in Fds |-> IF fe \in KeyedObjs(p, m) THEN [obj[p][fe] EXCEPT !.tag = m.tag] ELSE obj[p][fe]]]
  BY DEF HandleListenKey, netVars
<1>2. m.tag \in Procs
  <2>1. m \in KeyMail
    BY <1>1, TailParts
  <2> QED BY <2>1 DEF KeyMail
<1>3. netbox' \in [Procs -> Seq(KeyMail)]
  BY <1>1, PostDone
<1>4. \A r \in Procs, fe \in Fds :
        obj'[r][fe] = IF r = p /\ fe \in KeyedObjs(p, m) THEN [obj[r][fe] EXCEPT !.tag = m.tag] ELSE obj[r][fe]
  BY <1>1
<1>5. \A fe \in Fds : fe \in KeyedObjs(p, m) => [obj[p][fe] EXCEPT !.tag = m.tag] \in ConnectObjs
  <2> SUFFICES ASSUME NEW fe \in Fds, fe \in KeyedObjs(p, m) PROVE [obj[p][fe] EXCEPT !.tag = m.tag] \in ConnectObjs
    OBVIOUS
  <2>1. obj[p][fe] \in ConnectObjs
    BY ObjParts DEF KeyedObjs
  <2> HIDE DEF Typed, TypeOK, Boxes, m
  <2> QED BY <1>2, <2>1 DEF ConnectObjs
<1>6. obj' \in [Procs -> [Fds -> ConnectObjs \union {None}]]
  BY <1>1, <1>5
<1>7. \A r \in Procs, fe \in Fds : obj'[r][fe] # None => tcp'[obj'[r][fe].conn] # None
  <2> SUFFICES ASSUME NEW r \in Procs, NEW fe \in Fds, obj'[r][fe] # None PROVE tcp'[obj'[r][fe].conn] # None
    OBVIOUS
  <2>1. obj[r][fe] # None
    BY <1>4 DEF KeyedObjs
  <2>2. obj[r][fe] \in ConnectObjs /\ tcp[obj[r][fe].conn] # None
    BY <2>1, ObjParts
  <2>3. obj'[r][fe].conn = obj[r][fe].conn
    BY <1>4, <2>2 DEF ConnectObjs
  <2> QED BY <1>1, <2>2, <2>3
<1> QED BY <1>1, <1>3, <1>6, <1>7

LEMMA TypedAppRegister ==
    ASSUME Typed, NEW p \in Procs, HandleAppRegister(p)
    PROVE  Typed'
<1> DEFINE m == Head(mainbox[p])
           k == [fd |-> m.fd, tag |-> m.tag]
           e == [fd |-> m.fd, net |-> "listen"]
<1> USE DEF Typed, TypeOK, Boxes
<1>1. /\ mainbox[p] # <<>> /\ m.type = "register" /\ mainbox' = Done(mainbox, p) /\ mainbox[p] \in Seq(Mail)
      /\ UNCHANGED <<up, want, obj, sends, tcp, backlog, wire>>
      /\ \/ UNCHANGED <<locator, netbox>>
         \/ locator' = [locator EXCEPT ![p][m.tag] = e] /\ netbox' = Post(netbox, p, k)
  BY DEF HandleAppRegister, netVars, Gets
<1>2. m \in Mail
  BY <1>1, TailParts
<1>3. m.tag \in Procs /\ m.fd \in Fds
  BY <1>1, <1>2 DEF Mail
<1>4. mainbox' \in [Procs -> Seq(Mail)]
  BY <1>1, PostDone
<1>5. k \in KeyMail /\ e \in SocketKeys
  BY <1>3 DEF KeyMail, SocketKeys, Nets
<1> HIDE DEF k, m, e
<1>6. netbox' \in [Procs -> Seq(KeyMail)]
  <2>1. Post(netbox, p, k) \in [Procs -> Seq(KeyMail)]
    BY <1>5, PostDone
  <2> QED BY <1>1, <2>1
<1>7. locator' \in [Procs -> [Procs -> SocketKeys \union {None}]]
  <2>1. [locator EXCEPT ![p][m.tag] = e] \in [Procs -> [Procs -> SocketKeys \union {None}]]
    BY <1>3, <1>5, EntryType
  <2> QED BY <1>1, <2>1
<1> QED BY <1>1, <1>4, <1>6, <1>7

LEMMA TypedDisconnect ==
    ASSUME Typed, NEW p \in Procs, HandleNetworkDisconnect(p)
    PROVE  Typed'
<1> DEFINE q == Head(mainbox[p]).tag
<1> USE DEF Typed, TypeOK, Boxes
<1>1. /\ mainbox[p] # <<>> /\ mainbox' = Done(mainbox, p) /\ mainbox[p] \in Seq(Mail)
      /\ UNCHANGED <<up, obj, netbox, sends, tcp, backlog, wire>>
      /\ \/ UNCHANGED <<locator, want>>
         \/ locator' = [locator EXCEPT ![p][q] = None] /\ want' \in {want, [want EXCEPT ![p][q] = @ + 1]}
  BY DEF HandleNetworkDisconnect, netVars, Gets, Erased, Redial
<1>2. q \in Procs \union {None}
  <2>1. Head(mainbox[p]) \in Mail
    BY <1>1, TailParts
  <2> QED BY <2>1 DEF Mail
<1>3. mainbox' \in [Procs -> Seq(Mail)]
  BY <1>1, PostDone
<1> HIDE DEF q
<1>4. locator' \in [Procs -> [Procs -> SocketKeys \union {None}]]
  <2>1. [locator EXCEPT ![p][q] = None] \in [Procs -> [Procs -> SocketKeys \union {None}]]
    BY EntryType
  <2> QED BY <1>1, <2>1
<1>5. want' \in [Procs -> [Procs -> Nat]]
  <2>1. CASE q \in Procs
    <3>1. want[p][q] + 1 \in Nat
      BY <2>1
    <3>2. \A v \in Nat : [want EXCEPT ![p][q] = v] \in [Procs -> [Procs -> Nat]]
      BY EntryType
    <3> QED BY <1>1, <3>1, <3>2
  <2>2. CASE q \notin Procs
    BY <1>1, <2>2
  <2> QED BY <2>1, <2>2
<1> QED BY <1>1, <1>3, <1>4, <1>5

LEMMA TypedSendPacket ==
    ASSUME Typed, NEW p \in Procs, NEW q \in Procs, SendPacket(p, q)
    PROVE  Typed'
<1>1. SendTo(p, q, "data") /\ UNCHANGED <<up, want, obj, locator, mainbox, netbox, tcp, backlog, wire>>
  BY DEF SendPacket, netVars
<1>2. sends' \in [Procs -> [Nets -> Seq(Packets)]]
  BY <1>1, SentParts
<1> QED BY <1>1, <1>2 DEF Typed, TypeOK, Boxes

\* A connection that is cut is still one, with the same ends.
LEMMA CutParts ==
    ASSUME Typed, NEW c \in Conns, tcp[c] # None
    PROVE  /\ [tcp[c] EXCEPT !.cut = TRUE] \in Connections /\ [tcp[c] EXCEPT !.cut = TRUE] # None
           /\ [tcp[c] EXCEPT !.cut = TRUE].from = tcp[c].from /\ [tcp[c] EXCEPT !.cut = TRUE].to = tcp[c].to
<1>1. tcp[c] \in Connections
  BY DEF Typed, TypeOK
<1> QED BY <1>1, NoneAssumption DEF Connections

LEMMA TypedDrop ==
    ASSUME Typed, NEW c \in Conns, Drop(c)
    PROVE  Typed'
<1> USE DEF Typed, TypeOK, Boxes
<1>1. /\ tcp[c] # None /\ tcp' = [tcp EXCEPT ![c] = [tcp[c] EXCEPT !.cut = TRUE]]
      /\ wire' = [wire EXCEPT ![c] = <<>>]
      /\ UNCHANGED <<up, want, obj, locator, mainbox, netbox, sends, backlog>>
  BY DEF Drop, procVars
<1>2. tcp' \in [Conns -> Connections \union {None}] /\ \A d \in Conns : tcp[d] # None => tcp'[d] # None
  BY <1>1, CutParts
<1>3. wire' \in [Conns -> Seq({"register", "data"})]
  BY <1>1
<1>4. \A r \in Procs, fe \in Fds : obj'[r][fe] # None => tcp'[obj'[r][fe].conn] # None
  BY <1>1, <1>2, ObjParts
<1>5. \A r \in Procs : \A i \in DOMAIN backlog'[r] : tcp'[backlog'[r][i]] # None
  <2> SUFFICES ASSUME NEW r \in Procs, NEW i \in DOMAIN backlog[r] PROVE tcp'[backlog[r][i]] # None
    BY <1>1
  <2>1. backlog[r] \in Seq(Conns)
    OBVIOUS
  <2>2. backlog[r][i] \in Conns
    BY <2>1
  <2> QED BY <1>2, <2>2
<1> QED BY <1>1, <1>2, <1>3, <1>4, <1>5

\* What a crash leaves of the connections.
LEMMA CrashParts ==
    ASSUME Typed, NEW p \in Procs, Crash(p)
    PROVE  /\ tcp' \in [Conns -> Connections \union {None}]
           /\ \A r \in Procs : r # p =>
                /\ obj'[r] = obj[r] /\ locator'[r] = locator[r] /\ mainbox'[r] = mainbox[r]
                /\ netbox'[r] = netbox[r] /\ backlog'[r] = backlog[r] /\ want'[r] = want[r]
           /\ \A r \in Procs, fe \in Fds : obj'[r][fe] # None =>
                LET c == obj[r][fe].conn
                IN /\ r # p /\ obj[r][fe] # None /\ tcp'[c] # None /\ tcp'[c].from = tcp[c].from /\ tcp'[c].to = tcp[c].to
                   /\ p \notin {tcp[c].from, tcp[c].to} => tcp'[c].cut = tcp[c].cut
           /\ \A r \in Procs : \A i \in DOMAIN backlog'[r] :
                LET c == backlog[r][i]
                IN /\ r # p /\ tcp'[c] # None /\ tcp'[c].from = tcp[c].from /\ tcp'[c].to = tcp[c].to
                   /\ p \notin {tcp[c].from, tcp[c].to} => tcp'[c].cut = tcp[c].cut
<1> DEFINE lost == {c \in Conns : tcp[c] # None /\ p \in {tcp[c].from, tcp[c].to}}
           t == [c \in Conns |-> IF c \in lost THEN [tcp[c] EXCEPT !.cut = TRUE] ELSE tcp[c]]
<1> USE DEF Typed, TypeOK, Boxes
<1>1. /\ want' = [want EXCEPT ![p] = [q \in Procs |-> 0]] /\ obj' = [obj EXCEPT ![p] = [fd \in Fds |-> None]]
      /\ locator' = [locator EXCEPT ![p] = [q \in Procs |-> None]]
      /\ mainbox' = [mainbox EXCEPT ![p] = <<>>] /\ netbox' = [netbox EXCEPT ![p] = <<>>]
      /\ backlog' = [backlog EXCEPT ![p] = <<>>] /\ tcp' = Collected(t, obj', backlog')
  BY DEF Crash
<1>2. \A c \in Conns : tcp[c] # None => /\ t[c] # None /\ t[c].from = tcp[c].from /\ t[c].to = tcp[c].to
                                        /\ p \notin {tcp[c].from, tcp[c].to} => t[c].cut = tcp[c].cut
  BY CutParts
<1>3. t \in [Conns -> Connections \union {None}]
  BY CutParts
<1> HIDE DEF t
<1>4. tcp' \in [Conns -> Connections \union {None}]
  BY <1>1, <1>3, HeldStays
<1>5. \A r \in Procs : r # p =>
        /\ obj'[r] = obj[r] /\ locator'[r] = locator[r] /\ mainbox'[r] = mainbox[r]
        /\ netbox'[r] = netbox[r] /\ backlog'[r] = backlog[r] /\ want'[r] = want[r]
  BY <1>1
<1>6. ASSUME NEW r \in Procs, NEW fe \in Fds, obj'[r][fe] # None
      PROVE  r # p /\ obj[r][fe] # None /\ obj[r][fe].conn \in Conns /\ tcp[obj[r][fe].conn] # None
             /\ tcp'[obj[r][fe].conn] = t[obj[r][fe].conn]
  <2>1. r # p /\ obj'[r][fe] = obj[r][fe]
    BY <1>1, <1>6
  <2>2. obj[r][fe].conn \in Conns /\ tcp[obj[r][fe].conn] # None
    BY <1>6, <2>1, ObjParts
  <2>3. Collected(t, obj', backlog')[obj'[r][fe].conn] = t[obj'[r][fe].conn]
    BY <1>6, <2>1, <2>2, HeldStays
  <2> QED BY <1>1, <1>6, <2>1, <2>2, <2>3
<1>7. ASSUME NEW r \in Procs, NEW i \in DOMAIN backlog'[r]
      PROVE  r # p /\ backlog[r][i] \in Conns /\ tcp[backlog[r][i]] # None /\ tcp'[backlog[r][i]] = t[backlog[r][i]]
  <2>1. r # p /\ backlog'[r] = backlog[r]
    BY <1>1, <1>7
  <2>2. backlog[r] \in Seq(Conns)
    OBVIOUS
  <2>3. backlog[r][i] \in Conns /\ tcp[backlog[r][i]] # None
    BY <2>1, <2>2
  <2>4. Collected(t, obj', backlog')[backlog'[r][i]] = t[backlog'[r][i]]
    BY <1>7, <2>1, <2>3, HeldStays
  <2> QED BY <1>1, <2>1, <2>3, <2>4
<1> HIDE DEF Typed, TypeOK, Boxes
<1> QED BY <1>2, <1>4, <1>5, <1>6, <1>7

LEMMA TypedCrash ==
    ASSUME Typed, NEW p \in Procs, Crash(p)
    PROVE  Typed'
<1>1. /\ up' \subseteq Procs /\ want' \in [Procs -> [Procs -> Nat]]
      /\ obj' \in [Procs -> [Fds -> ConnectObjs \union {None}]]
      /\ locator' \in [Procs -> [Procs -> SocketKeys \union {None}]]
  BY DEF Typed, TypeOK, Crash
<1>2. /\ mainbox' \in [Procs -> Seq(Mail)] /\ netbox' \in [Procs -> Seq(KeyMail)]
      /\ sends' \in [Procs -> [Nets -> Seq(Packets)]] /\ backlog' \in [Procs -> Seq(Conns)]
      /\ wire' \in [Conns -> Seq({"register", "data"})]
  BY DEF Typed, Boxes, Crash
<1>3. \A r \in Procs, fe \in Fds : obj'[r][fe] # None => tcp'[obj'[r][fe].conn] # None
  BY CrashParts
<1>4. \A r \in Procs : \A i \in DOMAIN backlog'[r] : tcp'[backlog'[r][i]] # None
  BY CrashParts
<1>5. tcp' \in [Conns -> Connections \union {None}]
  BY CrashParts
<1> QED BY <1>1, <1>2, <1>3, <1>4, <1>5 DEF Typed, TypeOK, Boxes

LEMMA TypedRestart ==
    ASSUME Typed, NEW p \in Procs, Restart(p)
    PROVE  Typed'
<1>1. want' \in [Procs -> [Procs -> Nat]] /\ up' \subseteq Procs
  BY DEF Typed, TypeOK, Restart, Dialed
<1> QED BY <1>1 DEF Typed, TypeOK, Boxes, Restart, netVars

LEMMA TypedInit == Init => Typed
<1> SUFFICES ASSUME Init PROVE Typed
  OBVIOUS
<1>1. want \in [Procs -> [Procs -> Nat]]
  BY DEF Init, Dialed
<1> QED BY <1>1 DEF Init, Typed, TypeOK, Boxes

LEMMA TypedStep == Typed /\ [Next]_vars => Typed'
<1> SUFFICES ASSUME Typed, [Next]_vars PROVE Typed'
  OBVIOUS
<1>1. ASSUME NEW p \in Procs, NEW fd \in Fds, NetworkStep(p, fd) PROVE Typed'
  BY <1>1, TypedChangeState, TypedRegister, TypedRemove, TypedRecv DEF NetworkStep
<1>2. ASSUME NEW p \in Procs, NEW q \in Procs, Connect(p, q) \/ SendPacket(p, q) PROVE Typed'
  BY <1>2, TypedConnect, TypedSendPacket
<1>3. ASSUME NEW p \in Procs, Accept(p) \/ HandleListenKey(p) \/ MainStep(p) PROVE Typed'
  BY <1>3, TypedAccept, TypedListenKey, TypedAppRegister, TypedDisconnect DEF MainStep
<1>4. ASSUME NEW p \in Procs, Crash(p) \/ Restart(p) PROVE Typed'
  BY <1>4, TypedCrash, TypedRestart
<1>5. CASE UNCHANGED vars
  BY <1>5 DEF vars, procVars, netVars, countVars, Typed, TypeOK, Boxes
<1> QED BY <1>1, <1>2, <1>3, <1>4, <1>5, TypedDrop, TypedOnNetworkUpdate DEF Next

\* Sockets, entries, connections and lists always hold what they are made for
\* (Network::_connects, NetworkLocator::_netIdentify).
THEOREM TypeCorrect == Spec => []TypeOK
<1>1. Typed => TypeOK
  BY DEF Typed
<1> QED BY <1>1, TypedInit, TypedStep, PTL DEF Spec


-----------------------------------------------------------------------------
(***************************************************************************)
(* The invariant.  Nothing is assumed of the order in which the two ends   *)
(* of a connection learn that it broke, nor of the numbers of sockets: it  *)
(* rests on that a process that dials tags its ConnectObj itself, with the *)
(* process it dialed, and asks for another connection only when the notice *)
(* of the end is handled.                                                  *)
(***************************************************************************)
\* appmgr and dbmgr.
Sinks == Procs \ Connectors
Mine(p, fd, q) == obj[p][fd] # None /\ obj[p][fd].net = "connector" /\ obj[p][fd].tag = q
Ended(p, q, i) == mainbox[p][i].type = "disconnect" /\ mainbox[p][i].tag = q
Quiet(p, q) == \A i \in DOMAIN mainbox[p] : ~ Ended(p, q, i)
Single(p, q) == \A i, j \in DOMAIN mainbox[p] : Ended(p, q, i) /\ Ended(p, q, j) => i = j

\* A connection that was dialed has the tag of the process it was dialed to; one that
\* was accepted gets the tag of a process that dials.
Own(p) ==
    /\ p \notin Connectors => \A q \in Procs : want[p][q] = 0
    /\ \A fd \in Fds : obj[p][fd] # None =>
         LET o == obj[p][fd]
             t == tcp[o.conn]
         IN \/ o.net = "connector" /\ t.from = p /\ t.to = o.tag /\ p \in Connectors
            \/ o.net = "listen" /\ t.to = p /\ o.state = "connected" /\ o.tag \in Connectors \union {None}
Mails(p) ==
    /\ \A i \in DOMAIN mainbox[p] : mainbox[p][i].type = "register" => mainbox[p][i].tag \in Connectors
    /\ \A i \in DOMAIN netbox[p] : netbox[p][i].tag \in Connectors

\* A process is asked for, connected or given up, once and never two of these.
Once(p) ==
    \A q \in Sinks :
        /\ want[p][q] \in {0, 1}
        /\ want[p][q] = 1 => Quiet(p, q) /\ \A fd \in Fds : ~ Mine(p, fd, q)
        /\ \A fd \in Fds : Mine(p, fd, q) => Quiet(p, q)
        /\ \A fd, fe \in Fds : Mine(p, fd, q) /\ Mine(p, fe, q) => fd = fe
        /\ Single(p, q)
Entry(p) ==
    \A q \in Sinks : locator[p][q] # None =>
        locator[p][q].net = "connector" /\ (Mine(p, locator[p][q].fd, q) \/ ~ Quiet(p, q))
\* What goes into a connection that was accepted is for a process that dials.
Sending(p) == \A i \in DOMAIN sends[p]["listen"] : sends[p]["listen"][i].to \in Connectors
\* What is down has nothing.
Empty(p) ==
    p \notin up =>
        /\ \A fd \in Fds : obj[p][fd] = None
        /\ \A q \in Procs : locator[p][q] = None
        /\ mainbox[p] = <<>>

\* A connection is accepted once.
Accepted(p, fd, c) == obj[p][fd] # None /\ obj[p][fd].net = "listen" /\ obj[p][fd].conn = c
Accepting(p) ==
    /\ \A c \in Conns, fd, fe \in Fds : Accepted(p, fd, c) /\ Accepted(p, fe, c) => fd = fe
    /\ \A c \in Conns, fd \in Fds : Accepted(p, fd, c) => \A i \in DOMAIN backlog[p] : backlog[p][i] # c
    /\ \A i \in DOMAIN backlog[p] :
         /\ tcp[backlog[p][i]].to = p
         /\ \A j \in DOMAIN backlog[p] : backlog[p][j] = backlog[p][i] => j = i
Local(p) == Own(p) /\ Mails(p) /\ Once(p) /\ Entry(p) /\ Sending(p) /\ Empty(p) /\ Accepting(p)

\* A connection that is not broken has its ConnectObj at the process that dialed it.
Anchor(p, fd, c) == obj[p][fd] # None /\ obj[p][fd].net = "connector" /\ obj[p][fd].conn = c
Anchored(c) ==
    tcp[c] # None => /\ tcp[c].from \in Connectors
                     /\ ~ tcp[c].cut => \E fd \in Fds : Anchor(tcp[c].from, fd, c)

Invariant == Typed /\ (\A p \in Procs : Local(p)) /\ (\A c \in Conns : Anchored(c))

-----------------------------------------------------------------------------
(***************************************************************************)
(* What an action leaves alone.                                            *)
(***************************************************************************)
Stays(c) == tcp'[c].from = tcp[c].from /\ tcp'[c].to = tcp[c].to
\* A socket of p keeps its ConnectObj; one that was accepted may get another tag.
Alike(p) ==
    \A fd \in Fds :
        /\ obj'[p][fd] # None <=> obj[p][fd] # None
        /\ obj[p][fd] # None =>
             LET o == obj[p][fd]
                 u == obj'[p][fd]
             IN /\ u.conn = o.conn /\ u.net = o.net /\ Stays(o.conn)
                /\ o.net = "connector" => u.tag = o.tag
                /\ o.net = "listen" => u.state = o.state /\ (u.tag = o.tag \/ u.tag \in Connectors)
Waits(p) == backlog'[p] = backlog[p] /\ \A i \in DOMAIN backlog[p] : Stays(backlog[p][i])
NoNews(p) == mainbox'[p] = mainbox[p] /\ netbox'[p] = netbox[p]

LEMMA OwnAlike ==
    ASSUME NEW p \in Procs, Own(p), Alike(p), want'[p] = want[p]
    PROVE  Own(p)'
BY DEF Own, Alike, Stays

LEMMA MineAlike ==
    ASSUME NEW p \in Procs, Alike(p), Own(p)
    PROVE  /\ \A fd \in Fds : \A q : Mine(p, fd, q)' <=> Mine(p, fd, q)
           /\ \A fd \in Fds : \A c : Accepted(p, fd, c)' <=> Accepted(p, fd, c)
           /\ \A fd \in Fds : \A c : Anchor(p, fd, c)' <=> Anchor(p, fd, c)
<1> SUFFICES ASSUME NEW fd \in Fds
             PROVE  /\ \A q : Mine(p, fd, q)' <=> Mine(p, fd, q)
                    /\ \A c : Accepted(p, fd, c)' <=> Accepted(p, fd, c)
                    /\ \A c : Anchor(p, fd, c)' <=> Anchor(p, fd, c)
  OBVIOUS
<1> QED BY DEF Mine, Accepted, Anchor, Alike

LEMMA AcceptingAlike ==
    ASSUME NEW p \in Procs, Own(p), Accepting(p), Alike(p), Waits(p)
    PROVE  Accepting(p)'
BY MineAlike DEF Accepting, Waits, Stays

\* An action of p that changes its ConnectObjs in the way of Alike, and no notice.
LEMMA OnceAlike ==
    ASSUME NEW p \in Procs, Own(p), Once(p), Alike(p), want'[p] = want[p],
           \A q \in Sinks : (Quiet(p, q)' <=> Quiet(p, q)) /\ Single(p, q)'
    PROVE  Once(p)'
<1> SUFFICES ASSUME NEW q \in Sinks
             PROVE  /\ want'[p][q] \in {0, 1}
                    /\ want'[p][q] = 1 => Quiet(p, q)' /\ \A fd \in Fds : ~ Mine(p, fd, q)'
                    /\ \A fd \in Fds : Mine(p, fd, q)' => Quiet(p, q)'
                    /\ \A fd, fe \in Fds : Mine(p, fd, q)' /\ Mine(p, fe, q)' => fd = fe
  BY DEF Once
<1>1. \A fd \in Fds : Mine(p, fd, q)' <=> Mine(p, fd, q)
  BY MineAlike
<1> QED BY <1>1 DEF Once

LEMMA SameNotices ==
    ASSUME NEW p \in Procs, Once(p), mainbox'[p] = mainbox[p]
    PROVE  \A q \in Sinks : (Quiet(p, q)' <=> Quiet(p, q)) /\ Single(p, q)'
BY DEF Once, Quiet, Single, Ended

LEMMA EntryAlike ==
    ASSUME Typed, NEW p \in Procs, Own(p), Entry(p), Alike(p), locator'[p] = locator[p],
           \A q \in Sinks : Quiet(p, q)' <=> Quiet(p, q)
    PROVE  Entry(p)'
<1> SUFFICES ASSUME NEW q \in Sinks, locator[p][q] # None
             PROVE  locator[p][q].net = "connector" /\ (Mine(p, locator[p][q].fd, q)' \/ ~ Quiet(p, q)')
  BY DEF Entry, Mine
<1>1. locator[p][q] \in SocketKeys
  BY DEF Typed, TypeOK, Sinks
<1>2. locator[p][q].fd \in Fds
  BY <1>1 DEF SocketKeys
<1> QED BY <1>2, MineAlike DEF Entry

\* A process that takes no part.
LEMMA LocalFrame ==
    ASSUME Typed, NEW p \in Procs, Local(p), obj'[p] = obj[p], want'[p] = want[p], locator'[p] = locator[p],
           NoNews(p), sends'[p]["listen"] = sends[p]["listen"], Waits(p), p \in up' \/ p \notin up,
           \A fd \in Fds : obj[p][fd] # None => Stays(obj[p][fd].conn)
    PROVE  Local(p)' /\ Alike(p)
<1>1. Alike(p)
  BY DEF Alike
<1>2. Own(p)' /\ Once(p)' /\ Entry(p)' /\ Accepting(p)'
  BY <1>1, OwnAlike, OnceAlike, SameNotices, EntryAlike, AcceptingAlike DEF Local, NoNews
<1>3. Mails(p)'
  BY DEF Local, Mails, NoNews
<1>4. Sending(p)'
  BY DEF Local, Sending
<1>5. Empty(p)'
  BY DEF Local, Empty, NoNews
<1> QED BY <1>1, <1>2, <1>3, <1>4, <1>5 DEF Local

LEMMA AnchorKept ==
    ASSUME NEW c \in Conns, Anchored(c),
           tcp'[c] # None => /\ tcp[c] # None /\ tcp'[c].from = tcp[c].from
                             /\ ~ tcp'[c].cut => ~ tcp[c].cut /\ \A fd \in Fds : Anchor(tcp[c].from, fd, c) => Anchor(tcp[c].from, fd, c)'
    PROVE  Anchored(c)'
BY DEF Anchored, Anchor

\* An action that leaves connections, and who has them, as they are.
LEMMA AnchorsAlike ==
    ASSUME Invariant, tcp' = tcp, \A p \in Procs : Alike(p)
    PROVE  \A c \in Conns : Anchored(c)'
<1> SUFFICES ASSUME NEW c \in Conns PROVE Anchored(c)'
  OBVIOUS
<1>1. Anchored(c) /\ (tcp[c] # None => tcp[c].from \in Procs)
  BY ConstantsAssumption DEF Invariant, Anchored
<1>2. ASSUME NEW p \in Procs, NEW fd \in Fds, Anchor(p, fd, c) PROVE Anchor(p, fd, c)'
  BY <1>2, MineAlike DEF Invariant, Local
<1> QED BY <1>1, <1>2, AnchorKept

\* The same for an action of p; what remains is to show what it does to p itself.
LEMMA StepOf ==
    ASSUME Invariant, Typed', NEW p \in Procs, tcp' = tcp, up' = up, backlog' = backlog, Alike(p),
           \A r \in Procs : r # p => /\ obj'[r] = obj[r] /\ want'[r] = want[r] /\ locator'[r] = locator[r]
                                     /\ NoNews(r) /\ sends'[r]["listen"] = sends[r]["listen"],
           Mails(p)', Once(p)', Entry(p)', Sending(p)', p \in up,
           want'[p] = want[p] \/ p \in Connectors
    PROVE  Invariant'
<1>1. Typed /\ Local(p)
  BY DEF Invariant
<1>2. \A r \in Procs : Waits(r)
  BY DEF Waits, Stays
<1>3. ASSUME NEW r \in Procs, r # p PROVE Local(r)' /\ Alike(r)
  <2>1. \A fd \in Fds : obj[r][fd] # None => Stays(obj[r][fd].conn)
    BY DEF Stays
  <2>2. /\ obj'[r] = obj[r] /\ want'[r] = want[r] /\ locator'[r] = locator[r]
        /\ NoNews(r) /\ sends'[r]["listen"] = sends[r]["listen"] /\ Local(r)
    BY <1>3 DEF Invariant
  <2> QED BY <1>1, <1>2, <2>1, <2>2, LocalFrame
<1>4. Own(p)'
  BY <1>1 DEF Own, Local, Alike, Stays
<1>5. Accepting(p)'
  BY <1>1, <1>2, AcceptingAlike DEF Local
<1>6. Local(p)'
  BY <1>4, <1>5 DEF Local, Empty
<1>7. \A c \in Conns : Anchored(c)'
  BY <1>3, AnchorsAlike
<1> QED BY <1>3, <1>6, <1>7 DEF Invariant

-----------------------------------------------------------------------------
(***************************************************************************)
(* Every action keeps it.                                                  *)
(***************************************************************************)
\* The list of the main thread gets a message.
LEMMA MainPosted ==
    ASSUME Typed, NEW p \in Procs, NEW m \in Mail, mainbox' = Post(mainbox, p, m)
    PROVE  LET n == Len(mainbox[p]) + 1
           IN /\ DOMAIN mainbox'[p] = DOMAIN mainbox[p] \union {n} /\ n \notin DOMAIN mainbox[p]
              /\ mainbox'[p][n] = m /\ \A i \in DOMAIN mainbox[p] : mainbox'[p][i] = mainbox[p][i] /\ i <= n
              /\ n \in Nat /\ \A r \in Procs : r # p => mainbox'[r] = mainbox[r]
<1>1. mainbox[p] \in Seq(Mail) /\ mainbox'[p] = Append(mainbox[p], m) /\ \A r \in Procs : r # p => mainbox'[r] = mainbox[r]
  BY DEF Typed, Boxes, Post
<1> HIDE DEF Mail
<1>2. /\ DOMAIN mainbox'[p] = DOMAIN mainbox[p] \union {Len(mainbox[p]) + 1}
      /\ Len(mainbox[p]) + 1 \notin DOMAIN mainbox[p] /\ Len(mainbox[p]) \in Nat
      /\ mainbox'[p][Len(mainbox[p]) + 1] = m
      /\ \A i \in DOMAIN mainbox[p] : mainbox'[p][i] = mainbox[p][i] /\ i \in Nat /\ i < Len(mainbox[p]) + 1
  BY <1>1, AppendParts
<1> QED BY <1>1, <1>2

\* The main thread takes a message.
LEMMA MainTaken ==
    ASSUME Typed, NEW p \in Procs, mainbox[p] # <<>>, mainbox' = Done(mainbox, p)
    PROVE  /\ \A i \in DOMAIN mainbox'[p] : i \in Nat /\ i + 1 \in DOMAIN mainbox[p] /\ i + 1 # 1 /\ mainbox'[p][i] = mainbox[p][i + 1]
           /\ 1 \in DOMAIN mainbox[p] /\ mainbox[p][1] = Head(mainbox[p]) /\ Head(mainbox[p]) \in Mail
           /\ \A i \in DOMAIN mainbox[p] : i \in Nat
           /\ \A i \in DOMAIN mainbox[p] : i # 1 => i - 1 \in DOMAIN mainbox'[p] /\ (i - 1) + 1 = i
           /\ \A r \in Procs : r # p => mainbox'[r] = mainbox[r]
<1>1. mainbox[p] \in Seq(Mail) /\ mainbox'[p] = Tail(mainbox[p]) /\ \A r \in Procs : r # p => mainbox'[r] = mainbox[r]
  BY DEF Typed, Boxes, Done
<1> QED BY <1>1, TailParts

\* A registration in the list is no notice.
LEMMA RegisterPosted ==
    ASSUME Typed, NEW p \in Procs, Once(p), NEW m \in Mail, m.type = "register", mainbox' = Post(mainbox, p, m)
    PROVE  \A q \in Sinks : (Quiet(p, q)' <=> Quiet(p, q)) /\ Single(p, q)'
<1> DEFINE n == Len(mainbox[p]) + 1
<1>1. /\ DOMAIN mainbox'[p] = DOMAIN mainbox[p] \union {n}
      /\ mainbox'[p][n].type = "register" /\ \A i \in DOMAIN mainbox[p] : mainbox'[p][i] = mainbox[p][i]
  BY MainPosted
<1> HIDE DEF n
<1>2. \A q : \A i \in DOMAIN mainbox'[p] : Ended(p, q, i)' => i \in DOMAIN mainbox[p] /\ Ended(p, q, i)
  BY <1>1 DEF Ended
<1>3. \A q : \A i \in DOMAIN mainbox[p] : Ended(p, q, i) => i \in DOMAIN mainbox'[p] /\ Ended(p, q, i)'
  BY <1>1 DEF Ended
<1> QED BY <1>2, <1>3 DEF Quiet, Single, Once

\* Nor is one that is taken; a notice that is taken was the only one.
LEMMA MailTaken ==
    ASSUME Typed, NEW p \in Procs, Once(p), mainbox[p] # <<>>, mainbox' = Done(mainbox, p), NEW q \in Sinks
    PROVE  /\ Single(p, q)'
           /\ Ended(p, q, 1) => ~ Quiet(p, q) /\ Quiet(p, q)'
           /\ ~ Ended(p, q, 1) => (Quiet(p, q)' <=> Quiet(p, q))
<1>1. /\ \A i \in DOMAIN mainbox'[p] : i \in Nat /\ i + 1 \in DOMAIN mainbox[p] /\ i + 1 # 1 /\ mainbox'[p][i] = mainbox[p][i + 1]
      /\ 1 \in DOMAIN mainbox[p] /\ \A i \in DOMAIN mainbox[p] : i \in Nat
      /\ \A i \in DOMAIN mainbox[p] : i # 1 => i - 1 \in DOMAIN mainbox'[p] /\ (i - 1) + 1 = i
  BY MainTaken
<1>2. \A i \in DOMAIN mainbox'[p] : Ended(p, q, i)' <=> Ended(p, q, i + 1)
  BY <1>1 DEF Ended
<1>3. \A i, j \in DOMAIN mainbox[p] : Ended(p, q, i) /\ Ended(p, q, j) => i = j
  BY DEF Once, Single
<1>4. Single(p, q)'
  <2> SUFFICES ASSUME NEW i \in DOMAIN mainbox'[p], NEW j \in DOMAIN mainbox'[p], Ended(p, q, i)', Ended(p, q, j)'
               PROVE  i = j
    BY DEF Single
  <2>1. i + 1 = j + 1
    BY <1>1, <1>2, <1>3
  <2> QED BY <1>1, <2>1
<1>5. Ended(p, q, 1) => ~ Quiet(p, q) /\ Quiet(p, q)'
  BY <1>1, <1>2, <1>3 DEF Quiet
<1>6. ASSUME ~ Ended(p, q, 1) PROVE Quiet(p, q)' <=> Quiet(p, q)
  <2>1. ASSUME Quiet(p, q) PROVE Quiet(p, q)'
    BY <1>1, <1>2, <2>1 DEF Quiet
  <2>2. ASSUME Quiet(p, q)' PROVE Quiet(p, q)
    <3> SUFFICES ASSUME NEW i \in DOMAIN mainbox[p], Ended(p, q, i) PROVE FALSE
      BY DEF Quiet
    <3>1. i # 1 /\ i \in Nat
      BY <1>1, <1>6
    <3>2. i - 1 \in DOMAIN mainbox'[p] /\ (i - 1) + 1 = i
      BY <1>1, <3>1
    <3>3. Ended(p, q, i - 1)'
      BY <1>2, <3>2
    <3> QED BY <2>2, <3>2, <3>3 DEF Quiet
  <2> QED BY <2>1, <2>2
<1> QED BY <1>4, <1>5, <1>6

\* A process that touches no ConnectObj.
LEMMA SameObjs ==
    ASSUME NEW p \in Procs, obj'[p] = obj[p], tcp' = tcp
    PROVE  Alike(p)
BY DEF Alike, Stays

LEMMA InvariantChangeState ==
    ASSUME Invariant, Typed', NEW p \in Procs, NEW fd \in Fds, ChangeStateToConnected(p, fd)
    PROVE  Invariant'
<1>1. PICK t : t = obj[p][fd].tag
  OBVIOUS
<1>2. /\ obj[p][fd] # None /\ obj[p][fd].state = "connecting" /\ p \in up /\ tcp' = tcp
      /\ obj' = [obj EXCEPT ![p][fd].state = "entered"]
      /\ locator' = [locator EXCEPT ![p][t] = [fd |-> fd, net |-> "connector"]]
      /\ UNCHANGED <<up, want, mainbox, netbox, sends, backlog>>
  BY <1>1 DEF ChangeStateToConnected, netVars
<1>3. Typed /\ Local(p) /\ Typed'
  BY DEF Invariant
<1>4. \A r \in Procs, fe \in Fds :
        /\ obj'[r][fe] # None <=> obj[r][fe] # None
        /\ obj[r][fe] # None => /\ obj'[r][fe].conn = obj[r][fe].conn /\ obj'[r][fe].net = obj[r][fe].net
                                /\ obj'[r][fe].tag = obj[r][fe].tag
        /\ ~ (r = p /\ fe = fd) => obj'[r][fe] = obj[r][fe]
  BY <1>2, <1>3, StateChanged
<1>5. obj[p][fd].net = "connector"
  BY <1>2, <1>3 DEF Local, Own
<1>6. Alike(p)
  BY <1>2, <1>4, <1>5 DEF Alike, Stays
<1>7. Mails(p)' /\ Sending(p)'
  BY <1>2, <1>3 DEF Local, Mails, Sending
<1>8. Once(p)'
  BY <1>2, <1>3, <1>6, OnceAlike, SameNotices DEF Local
<1>9. Entry(p)'
  <2> SUFFICES ASSUME NEW q \in Sinks, NEW k, k = locator'[p][q], k # None
               PROVE  k.net = "connector" /\ (Mine(p, k.fd, q)' \/ ~ Quiet(p, q)')
    <3>1. \A q \in Sinks : \A k : k = locator'[p][q] /\ k # None =>
            k.net = "connector" /\ (Mine(p, k.fd, q)' \/ ~ Quiet(p, q)')
      OBVIOUS
    <3> QED BY <3>1 DEF Entry, Mine
  <2>1. locator \in [Procs -> [Procs -> SocketKeys \union {None}]] /\ q \in Procs
    BY <1>3 DEF Typed, TypeOK, Sinks
  <2>2. CASE q = t
    <3>1. k.fd = fd /\ k.net = "connector"
      BY <1>2, <2>1, <2>2
    <3>2. Mine(p, fd, q)
      BY <1>1, <1>2, <1>5, <2>2 DEF Mine
    <3>3. Mine(p, fd, q)'
      BY <1>3, <1>6, <3>2, MineAlike DEF Local
    <3> QED BY <3>1, <3>3
  <2>3. CASE q # t
    <3>1. k = locator[p][q]
      BY <1>2, <2>1, <2>3
    <3>2. k \in SocketKeys
      BY <2>1, <3>1
    <3>3. k.fd \in Fds
      BY <3>2 DEF SocketKeys
    <3>4. Quiet(p, q)' <=> Quiet(p, q)
      BY <1>2 DEF Quiet, Ended
    <3>5. k.net = "connector" /\ (Mine(p, k.fd, q) \/ ~ Quiet(p, q))
      BY <1>3, <3>1 DEF Local, Entry
    <3> QED BY <1>3, <1>6, <3>3, <3>4, <3>5, MineAlike DEF Local
  <2> QED BY <2>2, <2>3
<1>10. \A r \in Procs : r # p => obj'[r] = obj[r] /\ locator'[r] = locator[r]
  <2>1. obj \in [Procs -> [Fds -> ConnectObjs \union {None}]] /\ locator \in [Procs -> [Procs -> SocketKeys \union {None}]]
    BY <1>3 DEF Typed, TypeOK
  <2> QED BY <1>2, <2>1
<1> QED BY <1>2, <1>3, <1>6, <1>7, <1>8, <1>9, <1>10, StepOf DEF NoNews

\* Register and SendPacket take the entry: for appmgr and dbmgr it is a dialed connection.
LEMMA SendingSent ==
    ASSUME Typed, NEW p \in Procs, NEW q \in Procs, NEW type \in {"register", "data"},
           SendTo(p, q, type), Entry(p), Sending(p)
    PROVE  Sending(p)' /\ \A r \in Procs : r # p => sends'[r]["listen"] = sends[r]["listen"]
<1>1. "listen" \in Nets
  BY DEF Nets
<1>2. CASE sends' = sends
  BY <1>2 DEF Sending
<1>3. CASE sends' # sends
  <2>1. PICK net \in Nets : locator[p][q] # None /\ locator[p][q].net = net
    BY <1>3, SentParts
  <2>2. PICK m \in Packets : m.to = q /\ sends'[p][net] = Append(sends[p][net], m)
    <3>1. \E m \in Packets : m.to = q /\ sends'[p][locator[p][q].net] = Append(sends[p][locator[p][q].net], m)
      BY <1>3, SentParts
    <3> QED BY <2>1, <3>1
  <2>3. \A r \in Procs, n \in Nets : ~ (r = p /\ n = net) => sends'[r][n] = sends[r][n]
    BY <1>3, <2>1, SentParts
  <2>4. CASE net = "listen"
    <3>1. q \in Connectors
      BY <2>1, <2>4 DEF Entry, Sinks
    <3>2. sends[p]["listen"] \in Seq(Packets)
      BY <1>1 DEF Typed, Boxes
    <3>3. \A i \in DOMAIN Append(sends[p]["listen"], m) : Append(sends[p]["listen"], m)[i].to \in Connectors
      BY <2>2, <3>1, <3>2, AppendParts DEF Sending
    <3> QED BY <1>1, <2>2, <2>3, <2>4, <3>3 DEF Sending
  <2>5. CASE net # "listen"
    <3>1. sends'[p]["listen"] = sends[p]["listen"]
      BY <1>1, <2>3, <2>5
    <3>2. Sending(p)'
      BY <3>1 DEF Sending
    <3>3. \A r \in Procs : r # p => sends'[r]["listen"] = sends[r]["listen"]
      BY <1>1, <2>3
    <3> QED BY <3>2, <3>3
  <2> QED BY <2>4, <2>5
<1> QED BY <1>2, <1>3

LEMMA InvariantRegister ==
    ASSUME Invariant, Typed', NEW p \in Procs, NEW fd \in Fds, Register(p, fd)
    PROVE  Invariant'
<1>1. /\ obj[p][fd] # None /\ obj[p][fd].state = "entered" /\ p \in up /\ tcp' = tcp
      /\ obj' = [obj EXCEPT ![p][fd].state = "connected"]
      /\ \/ obj[p][fd].tag \in Greeted /\ SendTo(p, obj[p][fd].tag, "register")
         \/ sends' = sends
      /\ UNCHANGED <<up, want, locator, mainbox, netbox, backlog>>
  BY DEF Register, netVars
<1>2. Typed /\ Local(p) /\ Typed'
  BY DEF Invariant
<1>3. \A r \in Procs, fe \in Fds :
        /\ obj'[r][fe] # None <=> obj[r][fe] # None
        /\ obj[r][fe] # None => /\ obj'[r][fe].conn = obj[r][fe].conn /\ obj'[r][fe].net = obj[r][fe].net
                                /\ obj'[r][fe].tag = obj[r][fe].tag
        /\ ~ (r = p /\ fe = fd) => obj'[r][fe] = obj[r][fe]
  BY <1>1, <1>2, StateChanged
<1>4. obj[p][fd].net = "connector"
  BY <1>1, <1>2 DEF Local, Own
<1>5. Alike(p)
  BY <1>1, <1>3, <1>4 DEF Alike, Stays
<1>6. Mails(p)'
  BY <1>1, <1>2 DEF Local, Mails
<1>7. Once(p)' /\ Entry(p)'
  BY <1>1, <1>2, <1>5, OnceAlike, SameNotices, EntryAlike DEF Local
<1>8. Sending(p)' /\ \A r \in Procs : r # p => sends'[r]["listen"] = sends[r]["listen"]
  <2>1. CASE sends' = sends
    BY <1>2, <2>1 DEF Local, Sending
  <2>2. CASE obj[p][fd].tag \in Greeted /\ SendTo(p, obj[p][fd].tag, "register")
    BY <1>2, <2>2, SendingSent, ConstantsAssumption DEF Local
  <2> QED BY <1>1, <2>1, <2>2
<1>9. \A r \in Procs : r # p => obj'[r] = obj[r]
  <2>1. obj \in [Procs -> [Fds -> ConnectObjs \union {None}]]
    BY <1>2 DEF Typed, TypeOK
  <2> QED BY <1>1, <2>1
<1> QED BY <1>1, <1>2, <1>5, <1>6, <1>7, <1>8, <1>9, StepOf DEF NoNews

LEMMA InvariantSendPacket ==
    ASSUME Invariant, Typed', NEW p \in Procs, NEW q \in Procs, SendPacket(p, q)
    PROVE  Invariant'
<1>1. /\ p \in up /\ SendTo(p, q, "data")
      /\ UNCHANGED <<up, want, obj, locator, mainbox, netbox, tcp, backlog>>
  BY DEF SendPacket, netVars
<1>2. Typed /\ Local(p) /\ Typed'
  BY DEF Invariant
<1>3. Alike(p)
  BY <1>1, SameObjs
<1>4. Mails(p)'
  BY <1>1, <1>2 DEF Local, Mails
<1>5. Once(p)' /\ Entry(p)'
  BY <1>1, <1>2, <1>3, OnceAlike, SameNotices, EntryAlike DEF Local
<1>6. Sending(p)' /\ \A r \in Procs : r # p => sends'[r]["listen"] = sends[r]["listen"]
  BY <1>1, <1>2, SendingSent DEF Local
<1> QED BY <1>1, <1>2, <1>3, <1>4, <1>5, <1>6, StepOf DEF NoNews

LEMMA InvariantOnNetworkUpdate ==
    ASSUME Invariant, Typed', NEW p \in Procs, NEW net \in Nets, OnNetworkUpdate(p, net)
    PROVE  Invariant'
<1>1. p \in up /\ UNCHANGED <<up, want, obj, locator, mainbox, netbox, tcp, backlog>>
  BY DEF OnNetworkUpdate
<1>2. Typed /\ Local(p) /\ Typed' /\ "listen" \in Nets
  BY DEF Invariant, Nets
<1>3. Alike(p)
  BY <1>1, SameObjs
<1>4. Mails(p)'
  BY <1>1, <1>2 DEF Local, Mails
<1>5. Once(p)' /\ Entry(p)'
  BY <1>1, <1>2, <1>3, OnceAlike, SameNotices, EntryAlike DEF Local
<1>6. /\ sends[p][net] # <<>> /\ sends[p][net] \in Seq(Packets) /\ sends'[p][net] = Tail(sends[p][net])
      /\ \A r \in Procs, n \in Nets : ~ (r = p /\ n = net) => sends'[r][n] = sends[r][n]
  BY <1>2, UpdateParts
<1>7. Sending(p)'
  <2>1. CASE net = "listen"
    <3> SUFFICES ASSUME NEW i \in DOMAIN sends'[p]["listen"] PROVE sends'[p]["listen"][i].to \in Connectors
      BY DEF Sending
    <3>1. i + 1 \in DOMAIN sends[p][net] /\ sends'[p][net][i] = sends[p][net][i + 1]
      <4>1. \A j \in DOMAIN Tail(sends[p][net]) : j + 1 \in DOMAIN sends[p][net] /\ Tail(sends[p][net])[j] = sends[p][net][j + 1]
        BY <1>6, TailParts
      <4> QED BY <1>6, <2>1, <4>1
    <3> QED BY <1>2, <2>1, <3>1 DEF Local, Sending
  <2>2. CASE net # "listen"
    <3>1. sends'[p]["listen"] = sends[p]["listen"]
      BY <1>2, <1>6, <2>2
    <3> QED BY <1>2, <3>1 DEF Local, Sending
  <2> QED BY <2>1, <2>2
<1>8. \A r \in Procs : r # p => sends'[r]["listen"] = sends[r]["listen"]
  BY <1>2, <1>6
<1> QED BY <1>1, <1>2, <1>3, <1>4, <1>5, <1>7, <1>8, StepOf DEF NoNews

LEMMA InvariantRecv ==
    ASSUME Invariant, Typed', NEW p \in Procs, NEW fd \in Fds, Recv(p, fd)
    PROVE  Invariant'
<1>1. PICK m : m = [type |-> "register", fd |-> fd, tag |-> Other(obj[p][fd])]
  OBVIOUS
<1>2. /\ p \in up /\ obj[p][fd] # None /\ obj[p][fd].net = "listen"
      /\ mainbox' = Post(mainbox, p, m) \/ mainbox' = mainbox
      /\ UNCHANGED <<up, want, obj, locator, netbox, sends, tcp, backlog>>
  BY <1>1 DEF Recv
<1>3. Typed /\ Local(p) /\ Typed'
  BY DEF Invariant
<1>4. m \in Mail /\ m.type = "register" /\ m.tag \in Connectors
  <2>1. obj[p][fd].conn \in Conns /\ tcp[obj[p][fd].conn] # None /\ Other(obj[p][fd]) \in Procs
    BY <1>2, <1>3, ObjParts
  <2>2. Other(obj[p][fd]) \in Connectors
    BY <1>2, <2>1 DEF Invariant, Anchored, Other
  <2> QED BY <1>1, <2>1, <2>2 DEF Mail
<1>5. Alike(p)
  BY <1>2, SameObjs
<1>6. \A q \in Sinks : (Quiet(p, q)' <=> Quiet(p, q)) /\ Single(p, q)'
  BY <1>2, <1>3, <1>4, RegisterPosted, SameNotices DEF Local
<1>7. Once(p)' /\ Entry(p)'
  BY <1>2, <1>3, <1>5, <1>6, OnceAlike, EntryAlike DEF Local
<1>8. Mails(p)' /\ \A r \in Procs : r # p => mainbox'[r] = mainbox[r]
  <2>1. CASE mainbox' = mainbox
    BY <1>2, <1>3, <2>1 DEF Local, Mails
  <2>2. CASE mainbox' = Post(mainbox, p, m)
    <3>1. \A i \in DOMAIN mainbox'[p] : \/ mainbox'[p][i] = m
                                        \/ i \in DOMAIN mainbox[p] /\ mainbox'[p][i] = mainbox[p][i]
      BY <1>3, <1>4, <2>2, MainPosted
    <3>2. \A r \in Procs : r # p => mainbox'[r] = mainbox[r]
      BY <1>3, <1>4, <2>2, MainPosted
    <3> QED BY <1>2, <1>3, <1>4, <3>1, <3>2 DEF Local, Mails
  <2> QED BY <1>2, <2>1, <2>2
<1>9. Sending(p)'
  BY <1>2, <1>3 DEF Local, Sending
<1> QED BY <1>2, <1>3, <1>5, <1>7, <1>8, <1>9, StepOf DEF NoNews

LEMMA InvariantListenKey ==
    ASSUME Invariant, Typed', NEW p \in Procs, HandleListenKey(p)
    PROVE  Invariant'
<1>1. PICK m : m = Head(netbox[p])
  OBVIOUS
<1>2. /\ p \in up /\ netbox[p] # <<>> /\ netbox' = Done(netbox, p)
      /\ UNCHANGED <<up, want, locator, mainbox, sends, tcp, backlog>>
      /\ obj' = [obj EXCEPT ![p] = [fe \in Fds |-> IF fe \in KeyedObjs(p, m) THEN [obj[p][fe] EXCEPT !.tag = m.tag] ELSE obj[p][fe]]]
  BY <1>1 DEF HandleListenKey, netVars
<1>3. /\ Typed /\ Local(p) /\ Typed' /\ netbox \in [Procs -> Seq(KeyMail)]
      /\ obj \in [Procs -> [Fds -> ConnectObjs \union {None}]]
  BY DEF Invariant, Typed, TypeOK, Boxes
<1>4. m \in KeyMail /\ m = netbox[p][1] /\ 1 \in DOMAIN netbox[p]
  BY <1>1, <1>2, <1>3, TailParts
<1>5. m.tag \in Connectors
  BY <1>3, <1>4 DEF Local, Mails
<1>6. \A fe \in Fds :
        obj'[p][fe] = IF fe \in KeyedObjs(p, m) THEN [obj[p][fe] EXCEPT !.tag = m.tag] ELSE obj[p][fe]
  BY <1>2, <1>3
<1>7. Alike(p)
  <2> SUFFICES ASSUME NEW fe \in Fds
               PROVE  /\ obj'[p][fe] # None <=> obj[p][fe] # None
                      /\ obj[p][fe] # None =>
                           LET o == obj[p][fe]
                               u == obj'[p][fe]
                           IN /\ u.conn = o.conn /\ u.net = o.net /\ Stays(o.conn)
                              /\ o.net = "connector" => u.tag = o.tag
                              /\ o.net = "listen" => u.state = o.state /\ (u.tag = o.tag \/ u.tag \in Connectors)
    BY DEF Alike
  <2>1. CASE fe \in KeyedObjs(p, m)
    <3>1. PICK o \in ConnectObjs : o = obj[p][fe] /\ o # None /\ o.net = "listen"
      BY <1>3, <2>1 DEF KeyedObjs
    <3>2. PICK u : u = [o EXCEPT !.tag = m.tag]
      OBVIOUS
    <3>3. u.conn = o.conn /\ u.net = o.net /\ u.state = o.state /\ u.tag = m.tag /\ u \in ConnectObjs
      BY <1>5, <3>2, ConstantsAssumption DEF ConnectObjs
    <3>4. obj'[p][fe] = u /\ u # None
      BY <1>6, <2>1, <3>1, <3>2, <3>3, NoneAssumption
    <3> QED BY <1>2, <1>5, <3>1, <3>3, <3>4 DEF Stays
  <2>2. CASE fe \notin KeyedObjs(p, m)
    BY <1>2, <1>6, <2>2 DEF Stays
  <2> QED BY <2>1, <2>2
<1>8. Once(p)' /\ Entry(p)'
  BY <1>2, <1>3, <1>7, OnceAlike, SameNotices, EntryAlike DEF Local
<1>9. netbox'[p] = Tail(netbox[p]) /\ \A r \in Procs : r # p => netbox'[r] = netbox[r] /\ obj'[r] = obj[r]
  BY <1>2, <1>3 DEF Done
<1>10. \A i \in DOMAIN netbox'[p] : i + 1 \in DOMAIN netbox[p] /\ netbox'[p][i] = netbox[p][i + 1]
  BY <1>2, <1>3, <1>9, TailParts
<1>11. Mails(p)' /\ Sending(p)'
  BY <1>2, <1>3, <1>10 DEF Local, Mails, Sending
<1> QED BY <1>2, <1>3, <1>7, <1>8, <1>9, <1>11, StepOf DEF NoNews

LEMMA InvariantAppRegister ==
    ASSUME Invariant, Typed', NEW p \in Procs, HandleAppRegister(p)
    PROVE  Invariant'
<1>1. PICK m : m = Head(mainbox[p])
  OBVIOUS
<1>2. PICK k : k = [fd |-> m.fd, tag |-> m.tag]
  OBVIOUS
<1>3. /\ p \in up /\ mainbox[p] # <<>> /\ m.type = "register" /\ mainbox' = Done(mainbox, p)
      /\ UNCHANGED <<up, want, obj, sends, tcp, backlog>>
      /\ \/ UNCHANGED <<locator, netbox>>
         \/ locator' = [locator EXCEPT ![p][m.tag] = [fd |-> m.fd, net |-> "listen"]] /\ netbox' = Post(netbox, p, k)
  BY <1>1, <1>2 DEF HandleAppRegister, netVars, Gets
<1>4. /\ Typed /\ Local(p) /\ Typed' /\ netbox \in [Procs -> Seq(KeyMail)]
      /\ locator \in [Procs -> [Procs -> SocketKeys \union {None}]]
  BY DEF Invariant, Typed, TypeOK, Boxes
<1>5. m \in Mail /\ mainbox[p][1] = m /\ 1 \in DOMAIN mainbox[p] /\ \A r \in Procs : r # p => mainbox'[r] = mainbox[r]
  BY <1>1, <1>3, <1>4, MainTaken
<1>6. m.tag \in Connectors /\ m.fd \in Fds /\ k \in KeyMail /\ k.tag = m.tag
  <2>1. m.tag \in Connectors /\ m.fd \in Fds
    BY <1>3, <1>4, <1>5 DEF Local, Mails, Mail
  <2> QED BY <1>2, <2>1, ConstantsAssumption DEF KeyMail
<1>7. Alike(p)
  BY <1>3, SameObjs
<1>8. \A q \in Sinks : (Quiet(p, q)' <=> Quiet(p, q)) /\ Single(p, q)'
  <2>1. \A q : ~ Ended(p, q, 1)
    BY <1>3, <1>5 DEF Ended
  <2> QED BY <1>3, <1>4, <2>1, MailTaken DEF Local
<1>9. Once(p)'
  BY <1>3, <1>4, <1>7, <1>8, OnceAlike DEF Local
<1>10. (\A q \in Sinks : locator'[p][q] = locator[p][q]) /\ \A r \in Procs : r # p => locator'[r] = locator[r]
  BY <1>3, <1>4, <1>6 DEF Sinks
<1>11. Entry(p)'
  BY <1>3, <1>4, <1>8, <1>10 DEF Local, Entry, Mine
<1>12. /\ \A r \in Procs : r # p => netbox'[r] = netbox[r]
       /\ \A i \in DOMAIN netbox'[p] : netbox'[p][i].tag \in Connectors
  <2>1. CASE netbox' = netbox
    BY <1>4, <2>1 DEF Local, Mails
  <2>2. CASE netbox' = Post(netbox, p, k)
    <3>1. netbox'[p] = Append(netbox[p], k) /\ netbox[p] \in Seq(KeyMail) /\ \A r \in Procs : r # p => netbox'[r] = netbox[r]
      BY <1>4, <2>2 DEF Post
    <3>2. \A i \in DOMAIN netbox'[p] : netbox'[p][i] = k \/ (i \in DOMAIN netbox[p] /\ netbox'[p][i] = netbox[p][i])
      BY <1>6, <3>1, AppendParts
    <3> QED BY <1>4, <1>6, <3>1, <3>2 DEF Local, Mails
  <2> QED BY <1>3, <2>1, <2>2
<1>13. Mails(p)'
  <2>1. \A i \in DOMAIN mainbox'[p] : i + 1 \in DOMAIN mainbox[p] /\ mainbox'[p][i] = mainbox[p][i + 1]
    BY <1>3, <1>4, MainTaken
  <2> QED BY <1>4, <1>12, <2>1 DEF Local, Mails
<1>14. Sending(p)'
  BY <1>3, <1>4 DEF Local, Sending
<1> QED BY <1>3, <1>4, <1>5, <1>7, <1>9, <1>10, <1>11, <1>12, <1>13, <1>14, StepOf DEF NoNews

LEMMA InvariantDisconnect ==
    ASSUME Invariant, Typed', NEW p \in Procs, HandleNetworkDisconnect(p)
    PROVE  Invariant'
<1>1. PICK m : m = Head(mainbox[p])
  OBVIOUS
<1>2. PICK t : t = m.tag
  OBVIOUS
<1>3. /\ p \in up /\ mainbox[p] # <<>> /\ m.type = "disconnect" /\ mainbox' = Done(mainbox, p)
      /\ UNCHANGED <<up, obj, netbox, sends, tcp, backlog>>
      /\ \/ t = None /\ UNCHANGED <<locator, want>>
         \/ /\ locator' = [locator EXCEPT ![p][t] = None]
            /\ \/ p \in Connectors /\ want' = [want EXCEPT ![p][t] = @ + 1]
               \/ p \notin Connectors /\ want' = want
  BY <1>1, <1>2 DEF HandleNetworkDisconnect, netVars, Gets, Erased, Redial
<1>4. /\ Typed /\ Local(p) /\ Typed' /\ want \in [Procs -> [Procs -> Nat]]
      /\ locator \in [Procs -> [Procs -> SocketKeys \union {None}]]
  BY DEF Invariant, Typed, TypeOK
<1>5. m \in Mail /\ mainbox[p][1] = m /\ 1 \in DOMAIN mainbox[p] /\ \A r \in Procs : r # p => mainbox'[r] = mainbox[r]
  BY <1>1, <1>3, <1>4, MainTaken
<1>6. Alike(p)
  BY <1>3, SameObjs
<1>7. \A r \in Procs : r # p => want'[r] = want[r] /\ locator'[r] = locator[r]
  BY <1>3, <1>4
<1>8. \A q \in Procs : q # t => want'[p][q] = want[p][q] /\ locator'[p][q] = locator[p][q]
  BY <1>3, <1>4
<1>9. ASSUME NEW q \in Sinks
      PROVE  /\ Single(p, q)'
             /\ q = t => /\ Quiet(p, q)' /\ ~ Quiet(p, q) /\ locator'[p][q] = None
                         /\ \/ want'[p][q] = want[p][q] + 1
                            \/ want'[p][q] = want[p][q]
             /\ q # t => (Quiet(p, q)' <=> Quiet(p, q))
  <2>1. Ended(p, q, 1) <=> q = t
    BY <1>2, <1>3, <1>5 DEF Ended
  <2>2. q \in Procs /\ q # None
    BY NoneAssumption DEF Sinks
  <2>3. q = t => locator'[p][q] = None /\ (want'[p][q] = want[p][q] + 1 \/ want'[p][q] = want[p][q])
    BY <1>3, <1>4, <2>2
  <2> QED BY <1>3, <1>4, <2>1, <2>3, MailTaken DEF Local
<1>10. Once(p)'
  <2> SUFFICES ASSUME NEW q \in Sinks
               PROVE  /\ want'[p][q] \in {0, 1}
                      /\ want'[p][q] = 1 => Quiet(p, q)' /\ \A fd \in Fds : ~ Mine(p, fd, q)
                      /\ \A fd \in Fds : Mine(p, fd, q) => Quiet(p, q)'
                      /\ \A fd, fe \in Fds : Mine(p, fd, q) /\ Mine(p, fe, q) => fd = fe
    BY <1>3, <1>9 DEF Once, Mine
  <2>1. /\ want[p][q] \in {0, 1}
        /\ want[p][q] = 1 => Quiet(p, q) /\ \A fd \in Fds : ~ Mine(p, fd, q)
        /\ \A fd \in Fds : Mine(p, fd, q) => Quiet(p, q)
        /\ \A fd, fe \in Fds : Mine(p, fd, q) /\ Mine(p, fe, q) => fd = fe
    BY <1>4 DEF Local, Once
  <2>2. CASE q = t
    <3>1. Quiet(p, q)' /\ want[p][q] = 0 /\ \A fd \in Fds : ~ Mine(p, fd, q)
      BY <1>9, <2>1, <2>2
    <3>2. want'[p][q] \in {0, 1}
      BY <1>9, <2>2, <3>1
    <3> QED BY <3>1, <3>2
  <2>3. CASE q # t
    BY <1>8, <1>9, <2>1, <2>3 DEF Sinks
  <2> QED BY <2>2, <2>3
<1>11. Entry(p)'
  <2> SUFFICES ASSUME NEW q \in Sinks, locator'[p][q] # None
               PROVE  locator'[p][q].net = "connector" /\ (Mine(p, locator'[p][q].fd, q) \/ ~ Quiet(p, q)')
    BY <1>3 DEF Entry, Mine
  <2>1. q # t /\ q \in Procs
    BY <1>9 DEF Sinks
  <2>2. locator'[p][q] = locator[p][q] /\ (Quiet(p, q)' <=> Quiet(p, q))
    BY <1>8, <1>9, <2>1
  <2> QED BY <1>4, <2>2 DEF Local, Entry
<1>12. Mails(p)'
  <2>1. \A i \in DOMAIN mainbox'[p] : i + 1 \in DOMAIN mainbox[p] /\ mainbox'[p][i] = mainbox[p][i + 1]
    BY <1>3, <1>4, MainTaken
  <2> QED BY <1>3, <1>4, <2>1 DEF Local, Mails
<1>13. Sending(p)'
  BY <1>3, <1>4 DEF Local, Sending
<1>14. want'[p] = want[p] \/ p \in Connectors
  BY <1>3
<1> QED BY <1>3, <1>4, <1>5, <1>6, <1>7, <1>10, <1>11, <1>12, <1>13, <1>14, StepOf DEF NoNews

\* A connection that somebody has, or that waits, is one; a new one is not any of them.
LEMMA HeldIsOne ==
    ASSUME Typed, NEW r \in Procs
    PROVE  /\ \A fd \in Fds : obj[r][fd] # None => obj[r][fd].conn \in Conns /\ tcp[obj[r][fd].conn] # None
           /\ \A i \in DOMAIN backlog[r] : backlog[r][i] \in Conns /\ tcp[backlog[r][i]] # None
<1>1. backlog[r] \in Seq(Conns) /\ \A i \in DOMAIN backlog[r] : tcp[backlog[r][i]] # None
  BY DEF Typed, Boxes
<1>2. \A i \in DOMAIN backlog[r] : backlog[r][i] \in Conns
  BY <1>1
<1> QED BY <1>1, <1>2, ObjParts

LEMMA InvariantConnect ==
    ASSUME Invariant, Typed', NEW p \in Procs, NEW q \in Procs, Connect(p, q)
    PROVE  Invariant'
<1>1. PICK fd, c : fd = Lowest(FreeFds(p)) /\ c = Lowest(FreeConns)
  OBVIOUS
<1>2. PICK t : t = [from |-> p, to |-> q, cut |-> q \notin up]
  OBVIOUS
<1>3. Typed /\ Local(p) /\ Local(q)
  BY DEF Invariant
<1>4. /\ fd \in Fds /\ obj[p][fd] = None /\ c \in Conns /\ tcp[c] = None /\ p \in up /\ want[p][q] > 0
      /\ want' = [want EXCEPT ![p][q] = @ - 1] /\ tcp' = [tcp EXCEPT ![c] = t]
      /\ backlog' = IF q \in up THEN Post(backlog, q, c) ELSE backlog
      /\ UNCHANGED <<up, locator, mainbox, netbox, sends>>
  BY <1>1, <1>2, FreeTaken DEF Connect, Waiting, Asked
<1>5. PICK o : /\ o.conn = c /\ o.net = "connector" /\ o.tag = q /\ o # None
               /\ obj' = [obj EXCEPT ![p][fd] = o]
  <2>1. PICK s \in {"connecting", "connected"} :
          obj' = [obj EXCEPT ![p][fd] = [conn |-> c, net |-> "connector", tag |-> q, state |-> s]]
    BY <1>1 DEF Connect, CreateConnectObj
  <2>2. PICK o : o = [conn |-> c, net |-> "connector", tag |-> q, state |-> s]
    OBVIOUS
  <2>3. o \in ConnectObjs
    BY <1>4, <2>2 DEF ConnectObjs, Nets
  <2> QED BY <2>1, <2>2, <2>3, NoneAssumption
<1>6. obj'[p][fd] = o /\ \A r \in Procs, fe \in Fds : ~ (r = p /\ fe = fd) => obj'[r][fe] = obj[r][fe]
  <2>1. obj \in [Procs -> [Fds -> ConnectObjs \union {None}]]
    BY <1>3 DEF Typed, TypeOK
  <2> QED BY <1>4, <1>5, <2>1
<1>7. \A r \in Procs : r # p => obj'[r] = obj[r] /\ want'[r] = want[r]
  <2>1. obj \in [Procs -> [Fds -> ConnectObjs \union {None}]] /\ want \in [Procs -> [Procs -> Nat]]
    BY <1>3 DEF Typed, TypeOK
  <2> QED BY <1>4, <1>5, <2>1
<1>8. want'[p][q] = want[p][q] - 1 /\ \A r \in Procs : r # q => want'[p][r] = want[p][r]
  <2>1. want \in [Procs -> [Procs -> Nat]]
    BY <1>3 DEF Typed, TypeOK
  <2> QED BY <1>4, <2>1
<1>9. p \in Connectors
  BY <1>3, <1>4 DEF Local, Own
<1>10. tcp'[c] = t /\ t.from = p /\ t.to = q /\ \A d \in Conns : d # c => tcp'[d] = tcp[d] /\ Stays(d)
  <2>1. tcp \in [Conns -> Connections \union {None}]
    BY <1>3 DEF Typed, TypeOK
  <2> QED BY <1>2, <1>4, <2>1 DEF Stays
<1>11. ASSUME NEW r \in Procs
       PROVE  /\ \A fe \in Fds : obj[r][fe] # None => obj[r][fe].conn # c /\ Stays(obj[r][fe].conn)
              /\ \A i \in DOMAIN backlog[r] : backlog[r][i] # c /\ Stays(backlog[r][i])
  BY <1>3, <1>4, <1>10, HeldIsOne
<1>12. ASSUME NEW r \in Procs
       PROVE  /\ \A fe, d : (fe \in Fds /\ Accepted(r, fe, d)') <=> (fe \in Fds /\ Accepted(r, fe, d))
              /\ \A fe \in Fds : ~ Accepted(r, fe, c)
  <2>1. ASSUME NEW fe \in Fds, NEW d PROVE Accepted(r, fe, d)' <=> Accepted(r, fe, d)
    <3>1. CASE r = p /\ fe = fd
      BY <1>4, <1>5, <1>6, <3>1 DEF Accepted
    <3>2. CASE ~ (r = p /\ fe = fd)
      BY <1>6, <3>2 DEF Accepted
    <3> QED BY <3>1, <3>2
  <2> QED BY <1>11, <2>1 DEF Accepted
<1>13. ASSUME NEW r \in Procs PROVE Accepting(r)'
  <2>1. Accepting(r)
    BY DEF Invariant, Local
  <2>2. CASE backlog'[r] = backlog[r]
    BY <1>11, <1>12, <2>1, <2>2 DEF Accepting, Stays
  <2>3. CASE backlog'[r] # backlog[r]
    <3>1. r = q /\ backlog'[r] = Append(backlog[r], c) /\ backlog[r] \in Seq(Conns)
      BY <1>3, <1>4, <2>3 DEF Typed, Boxes, Post
    <3>2. PICK n : n = Len(backlog[r]) + 1
      OBVIOUS
    <3>3. /\ DOMAIN backlog'[r] = DOMAIN backlog[r] \union {n} /\ n \notin DOMAIN backlog[r]
          /\ backlog'[r][n] = c /\ \A i \in DOMAIN backlog[r] : backlog'[r][i] = backlog[r][i]
      BY <1>4, <3>1, <3>2, AppendParts
    <3>4. \A i \in DOMAIN backlog[r] : backlog'[r][i] # c /\ Stays(backlog[r][i])
      BY <1>11, <3>3
    <3>5. \A i \in DOMAIN backlog'[r] :
            /\ tcp'[backlog'[r][i]].to = r
            /\ \A j \in DOMAIN backlog'[r] : backlog'[r][j] = backlog'[r][i] => j = i
      <4> SUFFICES ASSUME NEW i \in DOMAIN backlog'[r]
                   PROVE  /\ tcp'[backlog'[r][i]].to = r
                          /\ \A j \in DOMAIN backlog'[r] : backlog'[r][j] = backlog'[r][i] => j = i
        OBVIOUS
      <4>1. CASE i = n
        BY <1>10, <3>1, <3>3, <3>4, <4>1
      <4>2. CASE i \in DOMAIN backlog[r]
        BY <2>1, <3>3, <3>4, <4>2 DEF Accepting, Stays
      <4> QED BY <3>3, <4>1, <4>2
    <3>6. \A d \in Conns, fe \in Fds : Accepted(r, fe, d)' => \A i \in DOMAIN backlog'[r] : backlog'[r][i] # d
      BY <1>12, <2>1, <3>3 DEF Accepting
    <3>7. \A d \in Conns, fe, ff \in Fds : Accepted(r, fe, d)' /\ Accepted(r, ff, d)' => fe = ff
      BY <1>12, <2>1 DEF Accepting
    <3> QED BY <3>5, <3>6, <3>7 DEF Accepting
  <2> QED BY <2>2, <2>3
<1>14. ASSUME NEW r \in Procs, r # p
       PROVE  Own(r)' /\ Mails(r)' /\ Once(r)' /\ Entry(r)' /\ Sending(r)' /\ Empty(r)'
  <2>1. Local(r) /\ obj'[r] = obj[r] /\ want'[r] = want[r]
    BY <1>7, <1>14 DEF Invariant
  <2>2. Alike(r)
    BY <1>11, <2>1 DEF Alike
  <2>3. Own(r)' /\ Once(r)' /\ Entry(r)'
    BY <1>3, <1>4, <2>1, <2>2, OwnAlike, OnceAlike, SameNotices, EntryAlike DEF Local
  <2>4. Mails(r)'
    BY <1>4, <2>1 DEF Local, Mails
  <2>5. Sending(r)' /\ Empty(r)'
    BY <1>4, <2>1 DEF Local, Sending, Empty
  <2> QED BY <2>3, <2>4, <2>5
<1>15. Mails(p)' /\ Sending(p)' /\ Empty(p)'
  BY <1>3, <1>4 DEF Local, Mails, Sending, Empty
<1>16. Own(p)'
  <2> SUFFICES ASSUME NEW fe \in Fds, obj'[p][fe] # None
               PROVE  LET u == obj'[p][fe]
                          s == tcp'[u.conn]
                      IN \/ u.net = "connector" /\ s.from = p /\ s.to = u.tag /\ p \in Connectors
                         \/ u.net = "listen" /\ s.to = p /\ u.state = "connected" /\ u.tag \in Connectors \union {None}
    BY <1>9 DEF Own
  <2>1. CASE fe = fd
    BY <1>5, <1>6, <1>9, <1>10, <2>1
  <2>2. CASE fe # fd
    <3>1. obj'[p][fe] = obj[p][fe] /\ Stays(obj[p][fe].conn)
      BY <1>6, <1>11, <2>2
    <3> QED BY <1>3, <3>1 DEF Local, Own, Stays
  <2> QED BY <2>1, <2>2
<1>17. \A fe \in Fds : \A g : Mine(p, fe, g)' <=> Mine(p, fe, g) \/ (fe = fd /\ g = q)
  <2> SUFFICES ASSUME NEW fe \in Fds, NEW g PROVE Mine(p, fe, g)' <=> Mine(p, fe, g) \/ (fe = fd /\ g = q)
    OBVIOUS
  <2>1. CASE fe = fd
    BY <1>4, <1>5, <1>6, <2>1 DEF Mine
  <2>2. CASE fe # fd
    BY <1>6, <2>2 DEF Mine
  <2> QED BY <2>1, <2>2
<1>18. \A g : (Quiet(p, g)' <=> Quiet(p, g)) /\ (Single(p, g)' <=> Single(p, g))
  BY <1>4 DEF Quiet, Single, Ended
<1>19. Once(p)'
  <2> SUFFICES ASSUME NEW g \in Sinks
               PROVE  /\ want'[p][g] \in {0, 1}
                      /\ want'[p][g] = 1 => Quiet(p, g) /\ \A fe \in Fds : ~ Mine(p, fe, g)'
                      /\ \A fe \in Fds : Mine(p, fe, g)' => Quiet(p, g)
                      /\ \A fe, ff \in Fds : Mine(p, fe, g)' /\ Mine(p, ff, g)' => fe = ff
                      /\ Single(p, g)
    BY <1>18 DEF Once
  <2>1. /\ want[p][g] \in {0, 1} /\ Single(p, g)
        /\ want[p][g] = 1 => Quiet(p, g) /\ \A fe \in Fds : ~ Mine(p, fe, g)
        /\ \A fe \in Fds : Mine(p, fe, g) => Quiet(p, g)
        /\ \A fe, ff \in Fds : Mine(p, fe, g) /\ Mine(p, ff, g) => fe = ff
    BY <1>3 DEF Local, Once
  <2>2. CASE g = q
    <3>1. want[p][g] = 1 /\ want'[p][g] = 0
      BY <1>4, <1>8, <2>1, <2>2
    <3>2. \A fe \in Fds : Mine(p, fe, g)' <=> fe = fd
      BY <1>17, <2>1, <2>2, <3>1
    <3> QED BY <2>1, <3>1, <3>2
  <2>3. CASE g # q
    BY <1>8, <1>17, <2>1, <2>3 DEF Sinks
  <2> QED BY <2>2, <2>3
<1>20. Entry(p)'
  <2> SUFFICES ASSUME NEW g \in Sinks, NEW k, k = locator[p][g], k # None
               PROVE  k.net = "connector" /\ (Mine(p, k.fd, g)' \/ ~ Quiet(p, g))
    <3>1. \A g \in Sinks : \A k : k = locator[p][g] /\ k # None =>
            k.net = "connector" /\ (Mine(p, k.fd, g)' \/ ~ Quiet(p, g)')
      BY <1>18
    <3> QED BY <1>4, <3>1 DEF Entry, Mine
  <2>1. k \in SocketKeys
    BY <1>3 DEF Typed, TypeOK, Sinks
  <2>2. k.fd \in Fds
    BY <2>1 DEF SocketKeys
  <2> QED BY <1>3, <1>17, <2>2 DEF Local, Entry
<1>21. ASSUME NEW d \in Conns PROVE Anchored(d)'
  <2>1. CASE d = c
    <3>1. Anchor(p, fd, c)'
      BY <1>5, <1>6 DEF Anchor
    <3>2. tcp'[c].from = p
      BY <1>10
    <3> QED BY <1>4, <1>5, <1>6, <1>9, <2>1, <3>2 DEF Anchored, Anchor
  <2>2. CASE d # c
    <3>1. Anchored(d) /\ tcp'[d] = tcp[d]
      BY <1>10, <2>2 DEF Invariant
    <3>2. \A r \in Procs, fe \in Fds : Anchor(r, fe, d) => Anchor(r, fe, d)'
      <4> SUFFICES ASSUME NEW r \in Procs, NEW fe \in Fds, Anchor(r, fe, d) PROVE Anchor(r, fe, d)'
        OBVIOUS
      <4>1. ~ (r = p /\ fe = fd)
        BY <1>4 DEF Anchor
      <4> QED BY <1>6, <4>1 DEF Anchor
    <3>3. tcp[d] # None => tcp[d].from \in Procs
      BY <3>1, ConstantsAssumption DEF Anchored
    <3> QED BY <3>1, <3>2, <3>3, AnchorKept
  <2> QED BY <2>1, <2>2
<1>22. ASSUME NEW r \in Procs PROVE Local(r)'
  BY <1>13, <1>14, <1>15, <1>16, <1>19, <1>20 DEF Local
<1> QED BY <1>21, <1>22 DEF Invariant

\* What the end of a connection leaves.
LEMMA RemoveParts ==
    ASSUME Typed, Typed', NEW p \in Procs, NEW fd \in Fds, RemoveConnectObj(p, fd)
    PROVE  /\ \A r \in Procs, fe \in Fds : obj'[r][fe] # None =>
                obj'[r][fe] = obj[r][fe] /\ tcp'[obj[r][fe].conn] = tcp[obj[r][fe].conn]
           /\ \A r \in Procs, fe \in Fds : ~ (r = p /\ fe = fd) => obj'[r][fe] = obj[r][fe]
           /\ obj'[p][fd] = None /\ obj[p][fd] # None /\ tcp[obj[p][fd].conn].cut
           /\ \A r \in Procs : \A i \in DOMAIN backlog[r] : tcp'[backlog[r][i]] = tcp[backlog[r][i]]
           /\ \A r \in Procs : r # p => obj'[r] = obj[r]
           /\ UNCHANGED <<want, locator, netbox, backlog>>
<1>1. /\ obj' = [obj EXCEPT ![p] = [obj[p] EXCEPT ![fd] = None]] /\ tcp' = Collected(tcp, obj', backlog)
      /\ mainbox' = Post(mainbox, p, [type |-> "disconnect", fd |-> fd, tag |-> obj[p][fd].tag])
      /\ UNCHANGED <<want, locator, netbox, backlog>> /\ obj[p][fd] # None /\ tcp[obj[p][fd].conn].cut
  BY DEF RemoveConnectObj, Notice
<1>2. obj \in [Procs -> [Fds -> ConnectObjs \union {None}]]
  BY DEF Typed, TypeOK
<1>3. /\ \A r \in Procs, fe \in Fds : ~ (r = p /\ fe = fd) => obj'[r][fe] = obj[r][fe]
      /\ obj'[p][fd] = None /\ \A r \in Procs : r # p => obj'[r] = obj[r]
  BY <1>1, <1>2
<1>4. ASSUME NEW r \in Procs, NEW fe \in Fds, obj'[r][fe] # None
      PROVE  obj'[r][fe] = obj[r][fe] /\ tcp'[obj[r][fe].conn] = tcp[obj[r][fe].conn]
  <2>1. obj'[r][fe] = obj[r][fe] /\ obj[r][fe].conn \in Conns
    BY <1>3, <1>4, ObjParts
  <2>2. Collected(tcp, obj', backlog)[obj'[r][fe].conn] = tcp[obj'[r][fe].conn]
    BY <1>4, <2>1, HeldStays
  <2> QED BY <1>1, <2>1, <2>2
<1>5. ASSUME NEW r \in Procs, NEW i \in DOMAIN backlog[r] PROVE tcp'[backlog[r][i]] = tcp[backlog[r][i]]
  <2>1. backlog[r] \in Seq(Conns)
    BY DEF Typed, Boxes
  <2>2. backlog[r][i] \in Conns
    BY <2>1
  <2> QED BY <1>1, <2>2, HeldStays
<1> QED BY <1>1, <1>3, <1>4, <1>5

LEMMA InvariantRemove ==
    ASSUME Invariant, Typed', NEW p \in Procs, NEW fd \in Fds, RemoveConnectObj(p, fd)
    PROVE  Invariant'
<1>1. PICK m : m = [type |-> "disconnect", fd |-> fd, tag |-> obj[p][fd].tag]
  OBVIOUS
<1>2. PICK t : t = obj[p][fd].tag
  OBVIOUS
<1>3. Typed /\ Local(p) /\ Typed'
  BY DEF Invariant
<1>4. /\ p \in up /\ obj[p][fd] # None /\ mainbox' = Post(mainbox, p, m)
      /\ UNCHANGED <<up, want, locator, netbox, sends, backlog>>
      /\ tcp' = Collected(tcp, obj', backlog)
  BY <1>1 DEF RemoveConnectObj, Notice
<1>5. m \in Mail /\ m.type = "disconnect" /\ m.tag = t
  BY <1>1, <1>2, <1>3, <1>4, ObjParts DEF Mail
<1>6. /\ \A r \in Procs, fe \in Fds : obj'[r][fe] # None =>
           obj'[r][fe] = obj[r][fe] /\ tcp'[obj[r][fe].conn] = tcp[obj[r][fe].conn]
      /\ \A r \in Procs, fe \in Fds : ~ (r = p /\ fe = fd) => obj'[r][fe] = obj[r][fe]
      /\ obj'[p][fd] = None /\ tcp[obj[p][fd].conn].cut
      /\ \A r \in Procs : \A i \in DOMAIN backlog[r] : tcp'[backlog[r][i]] = tcp[backlog[r][i]]
      /\ \A r \in Procs : r # p => obj'[r] = obj[r]
  BY <1>3, RemoveParts
<1>7. PICK n : n = Len(mainbox[p]) + 1
  OBVIOUS
<1>8. /\ DOMAIN mainbox'[p] = DOMAIN mainbox[p] \union {n} /\ n \notin DOMAIN mainbox[p]
      /\ mainbox'[p][n] = m /\ \A i \in DOMAIN mainbox[p] : mainbox'[p][i] = mainbox[p][i]
      /\ \A r \in Procs : r # p => mainbox'[r] = mainbox[r]
  BY <1>3, <1>4, <1>5, <1>7, MainPosted
<1>9. ASSUME NEW r \in Procs
      PROVE  (\A fe \in Fds : obj'[r][fe] # None => Stays(obj[r][fe].conn)) /\ Waits(r)
  BY <1>4, <1>6 DEF Stays, Waits
<1>10. ASSUME NEW r \in Procs, r # p PROVE Local(r)'
  <2>1. Local(r) /\ NoNews(r) /\ obj'[r] = obj[r]
    BY <1>4, <1>6, <1>8, <1>10 DEF Invariant, NoNews
  <2>2. \A fe \in Fds : obj[r][fe] # None => Stays(obj[r][fe].conn)
    BY <1>9, <2>1
  <2>3. want'[r] = want[r] /\ locator'[r] = locator[r] /\ sends'[r]["listen"] = sends[r]["listen"] /\ (r \in up' \/ r \notin up)
    BY <1>4
  <2> QED BY <1>3, <1>9, <2>1, <2>2, <2>3, LocalFrame
<1>11. Own(p)'
  BY <1>3, <1>4, <1>6 DEF Local, Own
<1>12. Mails(p)' /\ Sending(p)' /\ Empty(p)'
  <2>1. \A i \in DOMAIN mainbox'[p] : mainbox'[p][i].type = "register" => mainbox'[p][i].tag \in Connectors
    BY <1>3, <1>5, <1>8 DEF Local, Mails
  <2> QED BY <1>3, <1>4, <2>1 DEF Local, Mails, Sending, Empty
<1>13. \A fe \in Fds : \A q : Mine(p, fe, q)' <=> Mine(p, fe, q) /\ fe # fd
  <2> SUFFICES ASSUME NEW fe \in Fds, NEW q PROVE Mine(p, fe, q)' <=> Mine(p, fe, q) /\ fe # fd
    OBVIOUS
  <2> QED BY <1>6 DEF Mine
<1>14. ASSUME NEW q \in Sinks, t = q PROVE Mine(p, fd, q)
  <2>1. q \in Procs /\ q \notin Connectors /\ q # None
    BY NoneAssumption DEF Sinks
  <2> QED BY <1>2, <1>3, <1>4, <1>14, <2>1 DEF Local, Own, Mine
<1>15. ASSUME NEW q
       PROVE  /\ \A i \in DOMAIN mainbox'[p] : Ended(p, q, i)' <=> (i \in DOMAIN mainbox[p] /\ Ended(p, q, i)) \/ (i = n /\ t = q)
              /\ Quiet(p, q)' <=> Quiet(p, q) /\ t # q
              /\ Quiet(p, q) \/ (Single(p, q) /\ t # q) => Single(p, q)'
  <2>1. \A i \in DOMAIN mainbox'[p] : Ended(p, q, i)' <=> (i \in DOMAIN mainbox[p] /\ Ended(p, q, i)) \/ (i = n /\ t = q)
    BY <1>5, <1>8 DEF Ended
  <2>2. Quiet(p, q)' <=> Quiet(p, q) /\ t # q
    BY <1>8, <2>1 DEF Quiet
  <2>3. Quiet(p, q) \/ (Single(p, q) /\ t # q) => Single(p, q)'
    BY <1>8, <2>1 DEF Quiet, Single
  <2> QED BY <2>1, <2>2, <2>3
<1>16. Once(p)'
  <2> SUFFICES ASSUME NEW q \in Sinks
               PROVE  /\ want'[p][q] \in {0, 1}
                      /\ want'[p][q] = 1 => Quiet(p, q)' /\ \A fe \in Fds : ~ Mine(p, fe, q)'
                      /\ \A fe \in Fds : Mine(p, fe, q)' => Quiet(p, q)'
                      /\ \A fe, ff \in Fds : Mine(p, fe, q)' /\ Mine(p, ff, q)' => fe = ff
                      /\ Single(p, q)'
    BY DEF Once
  <2>1. /\ want[p][q] \in {0, 1} /\ Single(p, q)
        /\ want[p][q] = 1 => Quiet(p, q) /\ \A fe \in Fds : ~ Mine(p, fe, q)
        /\ \A fe \in Fds : Mine(p, fe, q) => Quiet(p, q)
        /\ \A fe, ff \in Fds : Mine(p, fe, q) /\ Mine(p, ff, q) => fe = ff
    BY <1>3 DEF Local, Once
  <2>2. want'[p][q] = want[p][q]
    BY <1>4
  <2>3. t = q => Quiet(p, q)
    BY <1>14, <2>1
  <2>4. Single(p, q)' /\ (Quiet(p, q)' <=> Quiet(p, q) /\ t # q)
    BY <1>15, <2>1, <2>3
  <2> QED BY <1>13, <1>14, <2>1, <2>2, <2>4
<1>17. Entry(p)'
  <2> SUFFICES ASSUME NEW q \in Sinks, NEW k, k = locator[p][q], k # None
               PROVE  k.net = "connector" /\ (Mine(p, k.fd, q)' \/ ~ Quiet(p, q)')
    <3>1. \A q \in Sinks : \A k : k = locator[p][q] /\ k # None =>
            k.net = "connector" /\ (Mine(p, k.fd, q)' \/ ~ Quiet(p, q)')
      OBVIOUS
    <3> QED BY <1>4, <3>1 DEF Entry, Mine
  <2>1. k \in SocketKeys
    BY <1>3 DEF Typed, TypeOK, Sinks
  <2>2. k.fd \in Fds
    BY <2>1 DEF SocketKeys
  <2>3. k.net = "connector" /\ (Mine(p, k.fd, q) \/ ~ Quiet(p, q))
    BY <1>3 DEF Local, Entry
  <2>4. k.fd = fd /\ Mine(p, fd, q) => t = q
    BY <1>2 DEF Mine
  <2> QED BY <1>13, <1>15, <2>2, <2>3, <2>4
<1>18. Accepting(p)'
  <2>1. \A fe \in Fds : \A d : Accepted(p, fe, d)' => Accepted(p, fe, d)
    BY <1>6 DEF Accepted
  <2>2. Accepting(p) /\ Waits(p)
    BY <1>3, <1>9 DEF Local
  <2> QED BY <2>1, <2>2 DEF Accepting, Waits, Stays
<1>19. ASSUME NEW d \in Conns PROVE Anchored(d)'
  <2>1. Anchored(d)
    BY DEF Invariant
  <2>2. tcp'[d] \in {tcp[d], None}
    BY <1>4, HeldStays
  <2>3. CASE tcp'[d] = None
    BY <2>3 DEF Anchored
  <2>4. CASE tcp'[d] = tcp[d] /\ tcp[d] # None
    <3>1. tcp[d].from \in Procs
      BY <2>1, <2>4, ConstantsAssumption DEF Anchored
    <3>2. ASSUME ~ tcp[d].cut, NEW fe \in Fds, Anchor(tcp[d].from, fe, d) PROVE Anchor(tcp[d].from, fe, d)'
      <4>1. PICK r \in Procs : r = tcp[d].from
        BY <3>1
      <4>2. Anchor(r, fe, d)
        BY <3>2, <4>1
      <4>3. ~ (r = p /\ fe = fd)
        BY <1>6, <3>2, <4>2 DEF Anchor
      <4>4. obj'[r][fe] = obj[r][fe]
        BY <1>6, <4>3
      <4> QED BY <2>4, <4>1, <4>2, <4>4 DEF Anchor
    <3> QED BY <2>1, <2>4, <3>2 DEF Anchored, Anchor
  <2> QED BY <2>2, <2>3, <2>4
<1>20. Local(p)'
  BY <1>11, <1>12, <1>16, <1>17, <1>18 DEF Local
<1> QED BY <1>10, <1>19, <1>20 DEF Invariant

LEMMA InvariantAccept ==
    ASSUME Invariant, Typed', NEW p \in Procs, Accept(p)
    PROVE  Invariant'
<1>1. PICK fd, c : fd = Lowest(FreeFds(p)) /\ c = Head(backlog[p])
  OBVIOUS
<1>2. Typed /\ Local(p) /\ Typed'
  BY DEF Invariant
<1>3. /\ fd \in Fds /\ obj[p][fd] = None /\ backlog[p] # <<>> /\ p \in up
      /\ backlog' = Done(backlog, p)
      /\ UNCHANGED <<up, want, locator, mainbox, netbox, sends, tcp>>
  BY <1>1, FreeTaken DEF Accept
<1>4. PICK o : /\ o.conn = c /\ o.net = "listen" /\ o.tag = None /\ o.state = "connected" /\ o # None
               /\ obj' = [obj EXCEPT ![p][fd] = o]
  <2>1. PICK o : o = [conn |-> c, net |-> "listen", tag |-> None, state |-> "connected"]
    OBVIOUS
  <2>2. backlog[p] \in Seq(Conns)
    BY <1>2 DEF Typed, Boxes
  <2>3. c \in Conns
    BY <1>1, <1>3, <2>2, TailParts
  <2>4. o \in ConnectObjs
    BY <2>1, <2>3 DEF ConnectObjs, Nets
  <2>5. obj' = [obj EXCEPT ![p][fd] = o]
    BY <1>1, <2>1 DEF Accept, CreateConnectObj
  <2> QED BY <2>1, <2>4, <2>5, NoneAssumption
<1>5. obj'[p][fd] = o /\ \A r \in Procs, fe \in Fds : ~ (r = p /\ fe = fd) => obj'[r][fe] = obj[r][fe]
  <2>1. obj \in [Procs -> [Fds -> ConnectObjs \union {None}]]
    BY <1>2 DEF Typed, TypeOK
  <2> QED BY <1>3, <1>4, <2>1
<1>6. \A r \in Procs : r # p => obj'[r] = obj[r] /\ backlog'[r] = backlog[r]
  <2>1. obj \in [Procs -> [Fds -> ConnectObjs \union {None}]] /\ backlog \in [Procs -> Seq(Conns)]
    BY <1>2 DEF Typed, TypeOK, Boxes
  <2> QED BY <1>3, <1>4, <2>1 DEF Done
<1>7. /\ \A i \in DOMAIN backlog'[p] : i \in Nat /\ i + 1 \in DOMAIN backlog[p] /\ i + 1 # 1 /\ backlog'[p][i] = backlog[p][i + 1]
      /\ 1 \in DOMAIN backlog[p] /\ backlog[p][1] = c
  <2>1. backlog[p] \in Seq(Conns) /\ backlog'[p] = Tail(backlog[p])
    BY <1>2, <1>3 DEF Typed, Boxes, Done
  <2>2. /\ 1 \in DOMAIN backlog[p] /\ backlog[p][1] = Head(backlog[p])
        /\ \A i \in DOMAIN Tail(backlog[p]) : i + 1 \in DOMAIN backlog[p] /\ i + 1 # 1 /\ Tail(backlog[p])[i] = backlog[p][i + 1]
        /\ \A i \in DOMAIN Tail(backlog[p]) : i \in Nat
    BY <1>3, <2>1, TailParts
  <2> QED BY <1>1, <2>1, <2>2
<1>8. \A d : Stays(d)
  BY <1>3 DEF Stays
<1>9. ASSUME NEW r \in Procs, r # p PROVE Local(r)'
  <2>1. Local(r) /\ obj'[r] = obj[r] /\ backlog'[r] = backlog[r]
    BY <1>6, <1>9 DEF Invariant
  <2>2. /\ NoNews(r) /\ Waits(r) /\ want'[r] = want[r] /\ locator'[r] = locator[r]
        /\ sends'[r]["listen"] = sends[r]["listen"] /\ (r \in up' \/ r \notin up)
    BY <1>3, <1>8, <2>1 DEF NoNews, Waits
  <2> QED BY <1>2, <1>8, <2>1, <2>2, LocalFrame
<1>10. Own(p)'
  <2> SUFFICES ASSUME NEW fe \in Fds, obj'[p][fe] # None
               PROVE  LET u == obj'[p][fe]
                          s == tcp[u.conn]
                      IN \/ u.net = "connector" /\ s.from = p /\ s.to = u.tag /\ p \in Connectors
                         \/ u.net = "listen" /\ s.to = p /\ u.state = "connected" /\ u.tag \in Connectors \union {None}
    BY <1>2, <1>3 DEF Local, Own
  <2>1. CASE fe = fd
    <3>1. tcp[c].to = p
      BY <1>2, <1>7 DEF Local, Accepting
    <3> QED BY <1>4, <1>5, <2>1, <3>1
  <2>2. CASE fe # fd
    BY <1>2, <1>5, <2>2 DEF Local, Own
  <2> QED BY <2>1, <2>2
<1>11. Mails(p)' /\ Sending(p)' /\ Empty(p)'
  BY <1>2, <1>3 DEF Local, Mails, Sending, Empty
<1>12. \A fe \in Fds : \A q : Mine(p, fe, q)' <=> Mine(p, fe, q)
  <2> SUFFICES ASSUME NEW fe \in Fds, NEW q PROVE Mine(p, fe, q)' <=> Mine(p, fe, q)
    OBVIOUS
  <2>1. CASE fe = fd
    BY <1>3, <1>4, <1>5, <2>1 DEF Mine
  <2>2. CASE fe # fd
    BY <1>5, <2>2 DEF Mine
  <2> QED BY <2>1, <2>2
<1>13. \A q : (Quiet(p, q)' <=> Quiet(p, q)) /\ (Single(p, q)' <=> Single(p, q))
  BY <1>3 DEF Quiet, Single, Ended
<1>14. Once(p)'
  BY <1>2, <1>3, <1>12, <1>13 DEF Local, Once
<1>15. Entry(p)'
  <2> SUFFICES ASSUME NEW q \in Sinks, NEW k, k = locator[p][q], k # None
               PROVE  k.net = "connector" /\ (Mine(p, k.fd, q)' \/ ~ Quiet(p, q)')
    <3>1. \A q \in Sinks : \A k : k = locator[p][q] /\ k # None =>
            k.net = "connector" /\ (Mine(p, k.fd, q)' \/ ~ Quiet(p, q)')
      OBVIOUS
    <3> QED BY <1>3, <3>1 DEF Entry, Mine
  <2>1. k \in SocketKeys
    BY <1>2 DEF Typed, TypeOK, Sinks
  <2>2. k.fd \in Fds
    BY <2>1 DEF SocketKeys
  <2> QED BY <1>2, <1>12, <1>13, <2>2 DEF Local, Entry
<1>16. Accepting(p)'
  <2>1. /\ \A d \in Conns, fe, ff \in Fds : Accepted(p, fe, d) /\ Accepted(p, ff, d) => fe = ff
        /\ \A d \in Conns, fe \in Fds : Accepted(p, fe, d) => \A i \in DOMAIN backlog[p] : backlog[p][i] # d
        /\ \A i \in DOMAIN backlog[p] :
             /\ tcp[backlog[p][i]].to = p
             /\ \A j \in DOMAIN backlog[p] : backlog[p][j] = backlog[p][i] => j = i
    BY <1>2 DEF Local, Accepting
  <2>2. \A fe \in Fds : \A d : Accepted(p, fe, d)' <=> Accepted(p, fe, d) \/ (fe = fd /\ d = c)
    <3> SUFFICES ASSUME NEW fe \in Fds, NEW d PROVE Accepted(p, fe, d)' <=> Accepted(p, fe, d) \/ (fe = fd /\ d = c)
      OBVIOUS
    <3>1. CASE fe = fd
      BY <1>3, <1>4, <1>5, <3>1 DEF Accepted
    <3>2. CASE fe # fd
      BY <1>5, <3>2 DEF Accepted
    <3> QED BY <3>1, <3>2
  <2>3. \A fe \in Fds : ~ Accepted(p, fe, c)
    <3>1. c \in Conns
      BY <1>2, <1>7, HeldIsOne
    <3> QED BY <1>7, <2>1, <3>1
  <2>4. \A d \in Conns, fe, ff \in Fds : Accepted(p, fe, d)' /\ Accepted(p, ff, d)' => fe = ff
    BY <2>1, <2>2, <2>3
  <2>5. \A i \in DOMAIN backlog'[p] : backlog'[p][i] # c
    BY <1>7, <2>1
  <2>6. \A d \in Conns, fe \in Fds : Accepted(p, fe, d)' => \A i \in DOMAIN backlog'[p] : backlog'[p][i] # d
    BY <1>7, <2>1, <2>2, <2>5
  <2>7. \A i \in DOMAIN backlog'[p] : tcp[backlog'[p][i]].to = p
    BY <1>7, <2>1
  <2>8. \A i, j \in DOMAIN backlog'[p] : backlog'[p][j] = backlog'[p][i] => j = i
    <3> SUFFICES ASSUME NEW i \in DOMAIN backlog'[p], NEW j \in DOMAIN backlog'[p], backlog'[p][j] = backlog'[p][i] PROVE j = i
      OBVIOUS
    <3>1. i + 1 = j + 1
      BY <1>7, <2>1
    <3> QED BY <1>7, <3>1
  <2> QED BY <1>3, <2>4, <2>6, <2>7, <2>8 DEF Accepting
<1>17. ASSUME NEW d \in Conns PROVE Anchored(d)'
  <2>1. Anchored(d)
    BY DEF Invariant
  <2>2. ASSUME NEW r \in Procs, NEW fe \in Fds, Anchor(r, fe, d) PROVE Anchor(r, fe, d)'
    <3>1. ~ (r = p /\ fe = fd)
      BY <1>3, <2>2 DEF Anchor
    <3> QED BY <1>5, <2>2, <3>1 DEF Anchor
  <2>3. tcp[d] # None => tcp[d].from \in Procs
    BY <2>1, ConstantsAssumption DEF Anchored
  <2> QED BY <1>3, <2>1, <2>2, <2>3, AnchorKept
<1>18. Local(p)'
  BY <1>10, <1>11, <1>14, <1>15, <1>16 DEF Local
<1> QED BY <1>9, <1>17, <1>18 DEF Invariant

\* A connection may break at any moment.
LEMMA InvariantDrop ==
    ASSUME Invariant, Typed', NEW c \in Conns, Drop(c)
    PROVE  Invariant'
<1>1. /\ tcp[c] # None /\ tcp' = [tcp EXCEPT ![c] = [tcp[c] EXCEPT !.cut = TRUE]]
      /\ UNCHANGED <<up, want, obj, locator, mainbox, netbox, sends, backlog>>
  BY DEF Drop, procVars
<1>2. Typed /\ tcp \in [Conns -> Connections \union {None}]
  BY DEF Invariant, Typed, TypeOK
<1>3. tcp[c] \in Connections
  BY <1>1, <1>2
<1>4. \A d \in Conns : tcp[d] # None => Stays(d) /\ (d # c => tcp'[d] = tcp[d])
  BY <1>1, <1>2, <1>3, CutParts DEF Stays
<1>5. tcp'[c].cut
  BY <1>1, <1>2, <1>3 DEF Connections
<1>6. ASSUME NEW r \in Procs PROVE Local(r)'
  <2>1. Local(r)
    BY DEF Invariant
  <2>2. Waits(r) /\ \A fe \in Fds : obj[r][fe] # None => Stays(obj[r][fe].conn)
    BY <1>1, <1>2, <1>4, HeldIsOne DEF Waits
  <2>3. NoNews(r) /\ obj'[r] = obj[r] /\ want'[r] = want[r] /\ locator'[r] = locator[r]
        /\ sends'[r]["listen"] = sends[r]["listen"] /\ (r \in up' \/ r \notin up)
    BY <1>1 DEF NoNews
  <2> QED BY <1>2, <2>1, <2>2, <2>3, LocalFrame
<1>7. ASSUME NEW d \in Conns PROVE Anchored(d)'
  <2>1. Anchored(d)
    BY DEF Invariant
  <2>2. CASE d = c
    BY <1>1, <1>4, <1>5, <2>1, <2>2 DEF Anchored, Stays
  <2>3. CASE d # c
    <3>1. tcp'[d] = tcp[d]
      BY <1>1, <1>2, <2>3
    <3> QED BY <1>1, <2>1, <3>1 DEF Anchored, Anchor
  <2> QED BY <2>2, <2>3
<1> QED BY <1>6, <1>7 DEF Invariant

\* A process that crashes has nothing left; the others find their connections to it cut.
LEMMA InvariantCrash ==
    ASSUME Invariant, Typed', NEW p \in Procs, Crash(p)
    PROVE  Invariant'
<1>1. Typed /\ Local(p)
  BY DEF Invariant
<1>2. /\ \A r \in Procs : r # p =>
           /\ obj'[r] = obj[r] /\ locator'[r] = locator[r] /\ NoNews(r)
           /\ backlog'[r] = backlog[r] /\ want'[r] = want[r]
      /\ \A r \in Procs : \A fe \in Fds : obj'[r][fe] # None => Stays(obj[r][fe].conn)
      /\ \A r \in Procs : \A i \in DOMAIN backlog'[r] : Stays(backlog[r][i])
  BY <1>1, CrashParts DEF NoNews, Stays
<1>3. up' = up \ {p} /\ \A r \in Procs : r # p => sends'[r]["listen"] = sends[r]["listen"]
  BY <1>1 DEF Crash, Typed, Boxes
<1>4. ASSUME NEW r \in Procs, r # p PROVE Local(r)'
  <2>1. Local(r) /\ Waits(r)
    BY <1>2, <1>4 DEF Invariant, Waits
  <2>2. \A fe \in Fds : obj[r][fe] # None => Stays(obj[r][fe].conn)
    BY <1>2, <1>4
  <2>3. r \in up' \/ r \notin up
    BY <1>3, <1>4
  <2> QED BY <1>1, <1>2, <1>3, <1>4, <2>1, <2>2, <2>3, LocalFrame
<1>5. /\ want'[p] = [r \in Procs |-> 0] /\ obj'[p] = [fd \in Fds |-> None] /\ locator'[p] = [r \in Procs |-> None]
      /\ mainbox'[p] = <<>> /\ netbox'[p] = <<>> /\ backlog'[p] = <<>> /\ sends'[p] = [net \in Nets |-> <<>>]
  BY <1>1 DEF Crash, Typed, TypeOK, Boxes
<1>6. /\ \A r \in Procs : want'[p][r] = 0 /\ locator'[p][r] = None
      /\ \A fd \in Fds : obj'[p][fd] = None
      /\ sends'[p]["listen"] = <<>>
      /\ \A i : i \notin DOMAIN mainbox'[p] /\ i \notin DOMAIN netbox'[p] /\ i \notin DOMAIN backlog'[p]
                /\ i \notin DOMAIN sends'[p]["listen"]
  BY <1>5 DEF Nets
<1>7. Own(p)' /\ Mails(p)' /\ Sending(p)' /\ Empty(p)'
  BY <1>5, <1>6 DEF Own, Mails, Sending, Empty
<1>8. Once(p)' /\ Entry(p)'
  BY <1>6 DEF Once, Entry, Mine, Quiet, Single, Sinks
<1>9. Accepting(p)'
  BY <1>6 DEF Accepting, Accepted
<1>10. ASSUME NEW d \in Conns PROVE Anchored(d)'
  <2>1. PICK t : t = IF tcp[d] # None /\ p \in {tcp[d].from, tcp[d].to} THEN [tcp[d] EXCEPT !.cut = TRUE] ELSE tcp[d]
    OBVIOUS
  <2>2. tcp'[d] \in {t, None} /\ Anchored(d)
    <3>1. PICK lost : lost = {e \in Conns : tcp[e] # None /\ p \in {tcp[e].from, tcp[e].to}}
      OBVIOUS
    <3>2. PICK s : s = [e \in Conns |-> IF e \in lost THEN [tcp[e] EXCEPT !.cut = TRUE] ELSE tcp[e]]
      OBVIOUS
    <3>3. tcp' = Collected(s, obj', backlog')
      BY <3>1, <3>2 DEF Crash
    <3>4. tcp'[d] \in {s[d], None}
      BY <3>3, HeldStays
    <3>5. s[d] = t
      BY <2>1, <3>1, <3>2
    <3> QED BY <3>4, <3>5 DEF Invariant
  <2>3. CASE tcp'[d] = None
    BY <2>3 DEF Anchored
  <2>4. CASE tcp[d] # None /\ p \in {tcp[d].from, tcp[d].to} /\ tcp'[d] = t
    <3>1. t.cut /\ t.from = tcp[d].from
      <4>1. tcp[d] \in Connections
        BY <1>1, <2>4 DEF Typed, TypeOK
      <4> QED BY <2>1, <2>4, <4>1 DEF Connections
    <3> QED BY <2>2, <2>4, <3>1 DEF Anchored
  <2>5. CASE tcp[d] # None /\ p \notin {tcp[d].from, tcp[d].to} /\ tcp'[d] = t
    <3>1. PICK r \in Procs : r = tcp[d].from /\ r # p
      BY <2>2, <2>5, ConstantsAssumption DEF Anchored
    <3>2. tcp'[d] = tcp[d] /\ obj'[r] = obj[r]
      BY <1>2, <2>1, <2>5, <3>1
    <3>3. \A fe \in Fds : Anchor(r, fe, d)' <=> Anchor(r, fe, d)
      BY <3>2 DEF Anchor
    <3> QED BY <2>2, <2>5, <3>1, <3>2, <3>3 DEF Anchored, Anchor
  <2>6. CASE tcp[d] = None
    BY <2>1, <2>2, <2>6 DEF Anchored
  <2> QED BY <2>1, <2>2, <2>3, <2>4, <2>5, <2>6
<1>11. Local(p)'
  BY <1>7, <1>8, <1>9 DEF Local
<1> QED BY <1>4, <1>10, <1>11 DEF Invariant

\* What is dialed at the start.
LEMMA DialedWants ==
    ASSUME NEW p \in Procs, NEW q \in Procs
    PROVE  Dialed(p)[q] \in {0, 1} /\ (p \notin Connectors => Dialed(p)[q] = 0)
BY ConstantsAssumption DEF Dialed

LEMMA InvariantRestart ==
    ASSUME Invariant, Typed', NEW p \in Procs, Restart(p)
    PROVE  Invariant'
<1>1. Typed /\ Local(p)
  BY DEF Invariant
<1>2. /\ p \notin up /\ up' = up \union {p} /\ want' = [want EXCEPT ![p] = Dialed(p)]
      /\ UNCHANGED <<obj, locator, mainbox, netbox, sends, tcp, backlog>>
  BY DEF Restart, netVars
<1>3. want'[p] = Dialed(p) /\ \A r \in Procs : r # p => want'[r] = want[r]
  BY <1>1, <1>2 DEF Typed, TypeOK
<1>4. \A r \in Procs : Waits(r) /\ Alike(r) /\ NoNews(r)
  BY <1>2 DEF Waits, Alike, NoNews, Stays
<1>5. ASSUME NEW r \in Procs, r # p PROVE Local(r)'
  <2>1. Local(r) /\ \A fe \in Fds : obj[r][fe] # None => Stays(obj[r][fe].conn)
    BY <1>2 DEF Invariant, Stays
  <2>2. /\ want'[r] = want[r] /\ (r \in up' \/ r \notin up) /\ obj'[r] = obj[r] /\ locator'[r] = locator[r]
        /\ sends'[r]["listen"] = sends[r]["listen"]
    BY <1>2, <1>3, <1>5
  <2> QED BY <1>1, <1>4, <2>1, <2>2, LocalFrame
<1>6. /\ \A fd \in Fds : obj[p][fd] = None
      /\ \A i : i \notin DOMAIN mainbox[p]
  <2>1. (\A fd \in Fds : obj[p][fd] = None) /\ mainbox[p] = <<>>
    BY <1>1, <1>2 DEF Local, Empty
  <2> QED BY <2>1
<1>7. Own(p)'
  BY <1>2, <1>3, <1>6, DialedWants DEF Own
<1>8. Once(p)'
  BY <1>2, <1>3, <1>6, DialedWants DEF Once, Mine, Quiet, Single, Sinks
<1>9. Entry(p)' /\ Accepting(p)'
  <2>1. \A q \in Sinks : Quiet(p, q)' <=> Quiet(p, q)
    BY <1>2 DEF Quiet, Ended
  <2> QED BY <1>1, <1>2, <1>4, <2>1, EntryAlike, AcceptingAlike DEF Local
<1>10. Mails(p)' /\ Sending(p)' /\ Empty(p)'
  BY <1>1, <1>2 DEF Local, Mails, Sending, Empty
<1>11. \A c \in Conns : Anchored(c)'
  BY <1>2, <1>4, AnchorsAlike
<1>12. Local(p)'
  BY <1>7, <1>8, <1>9, <1>10 DEF Local
<1> QED BY <1>5, <1>11, <1>12 DEF Invariant

LEMMA InvariantInit == Init => Invariant
<1> SUFFICES ASSUME Init PROVE Invariant
  OBVIOUS
<1>1. Typed
  BY TypedInit
<1>2. ASSUME NEW p \in Procs
      PROVE  /\ \A fd \in Fds : obj[p][fd] = None
             /\ \A q \in Procs : locator[p][q] = None /\ want[p][q] = Dialed(p)[q]
             /\ \A i : i \notin DOMAIN mainbox[p] /\ i \notin DOMAIN netbox[p] /\ i \notin DOMAIN backlog[p]
                       /\ i \notin DOMAIN sends[p]["listen"]
             /\ mainbox[p] = <<>>
  <2>1. mainbox[p] = <<>> /\ netbox[p] = <<>> /\ backlog[p] = <<>> /\ sends[p]["listen"] = <<>>
    BY DEF Init, Nets
  <2> QED BY <2>1 DEF Init
<1>3. ASSUME NEW p \in Procs PROVE Local(p)
  <2>1. Own(p)
    BY <1>2, DialedWants DEF Own
  <2>2. Once(p)
    BY <1>2, DialedWants DEF Once, Mine, Quiet, Single, Sinks
  <2>3. Mails(p) /\ Sending(p) /\ Empty(p)
    BY <1>2 DEF Mails, Sending, Empty
  <2>4. Entry(p) /\ Accepting(p)
    BY <1>2 DEF Entry, Accepting, Accepted, Sinks
  <2> QED BY <2>1, <2>2, <2>3, <2>4 DEF Local
<1>4. \A c \in Conns : Anchored(c)
  BY DEF Anchored, Init
<1> QED BY <1>1, <1>3, <1>4 DEF Invariant

LEMMA InvariantFrame ==
    ASSUME Invariant, Typed', UNCHANGED vars
    PROVE  Invariant'
<1>1. UNCHANGED <<up, want, obj, locator, mainbox, netbox, sends, tcp, backlog>>
  BY DEF vars, procVars, netVars
<1>2. Typed /\ \A r \in Procs : Waits(r) /\ Alike(r) /\ NoNews(r)
  BY <1>1 DEF Invariant, Waits, Alike, NoNews, Stays
<1>3. ASSUME NEW r \in Procs PROVE Local(r)'
  <2>1. Local(r) /\ \A fe \in Fds : obj[r][fe] # None => Stays(obj[r][fe].conn)
    BY <1>1 DEF Invariant, Stays
  <2> QED BY <1>1, <1>2, <2>1, LocalFrame
<1>4. \A c \in Conns : Anchored(c)'
  BY <1>1, <1>2, AnchorsAlike
<1> QED BY <1>3, <1>4 DEF Invariant

LEMMA InvariantStep == Invariant /\ [Next]_vars => Invariant'
<1> SUFFICES ASSUME Invariant, [Next]_vars PROVE Invariant'
  OBVIOUS
<1>0. Typed'
  BY TypedStep DEF Invariant
<1>1. ASSUME NEW p \in Procs, NEW fd \in Fds, NetworkStep(p, fd) PROVE Invariant'
  BY <1>0, <1>1, InvariantChangeState, InvariantRegister, InvariantRemove, InvariantRecv DEF NetworkStep
<1>2. ASSUME NEW p \in Procs, NEW q \in Procs, Connect(p, q) \/ SendPacket(p, q) PROVE Invariant'
  BY <1>0, <1>2, InvariantConnect, InvariantSendPacket
<1>3. ASSUME NEW p \in Procs, NEW net \in Nets, OnNetworkUpdate(p, net) PROVE Invariant'
  BY <1>0, <1>3, InvariantOnNetworkUpdate
<1>4. ASSUME NEW p \in Procs, Accept(p) \/ HandleListenKey(p) \/ MainStep(p) PROVE Invariant'
  BY <1>0, <1>4, InvariantAccept, InvariantListenKey, InvariantAppRegister, InvariantDisconnect DEF MainStep
<1>5. ASSUME NEW p \in Procs, Crash(p) \/ Restart(p) PROVE Invariant'
  BY <1>0, <1>5, InvariantCrash, InvariantRestart
<1>6. ASSUME NEW c \in Conns, Drop(c) PROVE Invariant'
  BY <1>0, <1>6, InvariantDrop
<1> QED BY <1>0, <1>1, <1>2, <1>3, <1>4, <1>5, <1>6, InvariantFrame DEF Next

-----------------------------------------------------------------------------
(***************************************************************************)
(* What follows.                                                           *)
(***************************************************************************)
LEMMA InvariantLeads == Invariant => RouteLeads
<1> SUFFICES ASSUME Invariant, NEW p \in Procs, NEW q \in Procs \ Connectors, NEW k, k = locator[p][q], k # None
             PROVE  (obj[p][k.fd] # None /\ obj[p][k.fd].net = k.net /\ Other(obj[p][k.fd]) = q) \/ Ending(p, q)
  BY DEF RouteLeads, Leads, Way
<1>1. k.net = "connector" /\ (Mine(p, k.fd, q) \/ ~ Quiet(p, q))
  BY DEF Invariant, Local, Entry, Sinks
<1>2. CASE ~ Quiet(p, q)
  BY <1>2 DEF Quiet, Ended, Ending
<1>3. CASE Mine(p, k.fd, q)
  <2>1. k \in SocketKeys
    BY DEF Invariant, Typed, TypeOK
  <2>2. k.fd \in Fds
    BY <2>1 DEF SocketKeys
  <2> QED BY <1>1, <1>3, <2>2 DEF Invariant, Local, Own, Mine, Other
<1> QED BY <1>1, <1>2, <1>3

\* A set without two members has at most one.
LEMMA AtMostOne ==
    ASSUME NEW S, \A x, y \in S : x = y
    PROVE  Cardinality(S) <= 1
<1>1. CASE S = {}
  BY <1>1, FS_EmptySet
<1>2. CASE S # {}
  <2>1. PICK x \in S : S = {x}
    BY <1>2
  <2>2. Cardinality({x}) = 1
    BY FS_Singleton
  <2> QED BY <2>1, <2>2
<1> QED BY <1>1, <1>2

LEMMA InvariantOnce == Invariant => DialedOnce
<1> SUFFICES ASSUME Invariant, NEW p \in Procs, NEW q \in Procs \ Connectors
             PROVE  Cardinality(Ways(p, q)) <= 1 /\ Cardinality(Ways(q, p)) <= 1
  BY DEF DialedOnce
<1>0. Typed /\ Local(p) /\ Local(q) /\ q \in Sinks /\ q \in Procs
  BY DEF Invariant, Sinks
<1>1. \A fd \in Fds : obj[p][fd] # None /\ Other(obj[p][fd]) = q => Mine(p, fd, q)
  <2> SUFFICES ASSUME NEW fd \in Fds, obj[p][fd] # None, Other(obj[p][fd]) = q PROVE Mine(p, fd, q)
    OBVIOUS
  <2>1. obj[p][fd].conn \in Conns /\ tcp[obj[p][fd].conn] # None
    BY <1>0, ObjParts
  <2>2. tcp[obj[p][fd].conn].from \in Connectors
    BY <2>1 DEF Invariant, Anchored
  <2> QED BY <1>0, <2>2 DEF Local, Own, Mine, Other
<1>2. \A fd, fe \in Fds : Mine(p, fd, q) /\ Mine(p, fe, q) => fd = fe
  BY <1>0 DEF Local, Once
<1>3. Cardinality(Ways(p, q)) <= 1
  BY <1>1, <1>2, AtMostOne DEF Ways
<1>4. ASSUME NEW fd \in Ways(q, p)
      PROVE  LET c == obj[q][fd].conn
             IN c \in Conns /\ Accepted(q, fd, c) /\ \E f \in Fds : Anchor(p, f, c) /\ Mine(p, f, q)
  <2>1. fd \in Fds /\ obj[q][fd] # None /\ Other(obj[q][fd]) = p /\ ~ tcp[obj[q][fd].conn].cut
    BY <1>4 DEF Ways
  <2>2. PICK c : c = obj[q][fd].conn
    OBVIOUS
  <2>3. c \in Conns /\ tcp[c] # None
    BY <1>0, <2>1, <2>2, ObjParts
  <2>4. obj[q][fd].net = "listen" /\ tcp[c].to = q
    BY <1>0, <2>1, <2>2 DEF Local, Own
  <2>5. tcp[c].from = p
    BY <2>1, <2>2, <2>4 DEF Other
  <2>6. PICK f \in Fds : Anchor(p, f, c)
    BY <2>1, <2>2, <2>3, <2>5 DEF Invariant, Anchored
  <2>7. Mine(p, f, q)
    BY <1>0, <2>4, <2>6 DEF Local, Own, Anchor, Mine
  <2> QED BY <2>1, <2>2, <2>3, <2>4, <2>6, <2>7 DEF Accepted
<1>5. ASSUME NEW fd \in Ways(q, p), NEW fe \in Ways(q, p) PROVE fd = fe
  <2>1. PICK c, d : c = obj[q][fd].conn /\ d = obj[q][fe].conn
    OBVIOUS
  <2>2. fd \in Fds /\ fe \in Fds
    BY DEF Ways
  <2>3. c \in Conns /\ Accepted(q, fd, c) /\ \E f \in Fds : Anchor(p, f, c) /\ Mine(p, f, q)
    BY <1>4, <2>1
  <2>4. d \in Conns /\ Accepted(q, fe, d) /\ \E f \in Fds : Anchor(p, f, d) /\ Mine(p, f, q)
    BY <1>4, <2>1
  <2>5. c = d
    BY <1>2, <2>3, <2>4 DEF Anchor
  <2> QED BY <1>0, <2>2, <2>3, <2>4, <2>5 DEF Local, Accepting
<1>6. Cardinality(Ways(q, p)) <= 1
  BY <1>5, AtMostOne
<1> QED BY <1>3, <1>6

\* What is written into a dialed connection has its tag, and what is written into an
\* accepted one is for a process that dials.
LEMMA SafeStep ==
    ASSUME Invariant, RegisteredSafe, [Next]_vars
    PROVE  RegisteredSafe'
<1>1. ASSUME NEW p \in Procs, NEW net \in Nets, OnNetworkUpdate(p, net) PROVE RegisteredSafe'
  <2>0. Typed /\ Local(p)
    BY DEF Invariant
  <2>1. PICK m : m = Head(sends[p][net])
    OBVIOUS
  <2>2. PICK o : o = obj[p][m.fd]
    OBVIOUS
  <2>3. \/ astray' = astray
        \/ o # None /\ o.net = net /\ CompareTags(o, m.to) /\ Other(o) # m.to /\ astray' = astray \union {m.to}
    BY <1>1, <2>1, <2>2 DEF OnNetworkUpdate
  <2>4. m \in Packets /\ sends[p][net] \in Seq(Packets) /\ sends[p][net] # <<>>
    BY <1>1, <2>0, <2>1, UpdateParts
  <2>5. m.fd \in Fds
    BY <2>4 DEF Packets
  <2>6. CASE net = "listen"
    <3>1. 1 \in DOMAIN sends[p][net] /\ sends[p][net][1] = m
      BY <2>1, <2>4, TailParts
    <3>2. m.to \in Connectors
      BY <2>0, <2>6, <3>1 DEF Local, Sending
    <3> QED BY <2>3, <3>2 DEF RegisteredSafe
  <2>7. CASE net = "connector"
    <3>1. o # None /\ o.net = net => o.tag = Other(o) /\ Other(o) \in Procs
      <4> SUFFICES ASSUME o # None, o.net = net PROVE o.tag = Other(o) /\ Other(o) \in Procs
        OBVIOUS
      <4>1. o.tag = Other(o)
        BY <2>0, <2>2, <2>5, <2>7 DEF Local, Own, Other
      <4> QED BY <2>0, <2>2, <2>5, <4>1, ObjParts
    <3>2. astray' = astray
      BY <2>3, <3>1, NoneAssumption DEF CompareTags
    <3> QED BY <3>2 DEF RegisteredSafe
  <2> QED BY <2>6, <2>7 DEF Nets
<1>2. \/ astray' = astray
      \/ \E p \in Procs, net \in Nets : OnNetworkUpdate(p, net)
  <2>1. ASSUME NEW p \in Procs, NEW fd \in Fds, NetworkStep(p, fd) PROVE astray' = astray
    BY <2>1 DEF NetworkStep, ChangeStateToConnected, Register, RemoveConnectObj, Recv, countVars
  <2>2. ASSUME NEW p \in Procs, NEW q \in Procs, Connect(p, q) \/ SendPacket(p, q) PROVE astray' = astray
    BY <2>2 DEF Connect, SendPacket, countVars
  <2>3. ASSUME NEW p \in Procs, Accept(p) \/ HandleListenKey(p) \/ MainStep(p) \/ Crash(p) \/ Restart(p) PROVE astray' = astray
    BY <2>3 DEF Accept, HandleListenKey, MainStep, HandleAppRegister, HandleNetworkDisconnect, Crash, Restart, countVars
  <2>4. ASSUME NEW c \in Conns, Drop(c) PROVE astray' = astray
    BY <2>4 DEF Drop
  <2>5. CASE UNCHANGED vars
    BY <2>5 DEF vars, countVars
  <2> QED BY <2>1, <2>2, <2>3, <2>4, <2>5 DEF Next
<1> QED BY <1>1, <1>2 DEF RegisteredSafe

\* Whoever has an entry for a process that dials nobody is led to it, or the notice of
\* its end is waiting, whenever connections break and in whatever order the two ends
\* learn of it (ConnectObj::BackToPool, NetworkLocator::HandleNetworkDisconnect).
THEOREM RoutesLead == Spec => []RouteLeads
<1> QED BY InvariantInit, InvariantStep, InvariantLeads, PTL DEF Spec

\* A process that dials nobody has at most one connection with each other one, at both
\* ends, although attempts fail and are repeated (NetworkConnector::Update, Connect).
THEOREM DialedOnceCorrect == Spec => []DialedOnce
<1> QED BY InvariantInit, InvariantStep, InvariantOnce, PTL DEF Spec

\* A packet to a process that dials nobody is never written to another one, however
\* long it waits in _sendMsgList (Network::OnNetworkUpdate).
THEOREM PacketsRegisteredSafe == Spec => []RegisteredSafe
<1>1. Init => Invariant /\ RegisteredSafe
  BY InvariantInit DEF Init, RegisteredSafe
<1>2. Invariant /\ RegisteredSafe /\ [Next]_vars => (Invariant /\ RegisteredSafe)'
  BY InvariantStep, SafeStep
<1> QED BY <1>1, <1>2, PTL DEF Spec
=============================================================================
