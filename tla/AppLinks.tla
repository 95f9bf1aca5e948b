------------------------------ MODULE AppLinks ------------------------------
(***************************************************************************)
(* How the processes keep connections to one another (libserver: network,  *)
(* network_listen, network_connector, connect_obj, network_locator).       *)
(*                                                                         *)
(* A NetworkConnector dials the processes it is told of.  When its socket  *)
(* turns out to be connected, NetworkLocator enters it as the way to that  *)
(* process and sends MI_AppRegister over it; the other side's              *)
(* NetworkLocator enters the accepted socket and sends MI_NetworkListenKey *)
(* to its NetworkListen, which tags the ConnectObj.  When a connection     *)
(* ends, each side's ConnectObj sends MI_NetworkDisconnect with its tag to *)
(* NetworkLocator, which forgets the entry and asks for a new connection.  *)
(*                                                                         *)
(* Everything is found by socket number, and the system hands out a number *)
(* again as soon as it is closed.  NetworkLocator runs in the main thread, *)
(* the networks in threads of their own; their lists are FIFO (see         *)
(* PacketBus).  Update of a network is Epoll, Accept and OnNetworkUpdate in*)
(* turn; what arrives in between is taken in a later turn, so the three    *)
(* interleave with everything else.                                        *)
(***************************************************************************)
EXTENDS Integers, Sequences, FiniteSets, SequencesExt

CONSTANTS
    Procs,       \* processes, by appKey
    Dials,       \* pairs <<p, q>>: p connects to q when it starts
    Connectors,  \* processes that have a TcpConnector (all but appmgr and dbmgr)
    Greeted,     \* processes that get MI_AppRegister (appmgr, space, game)
    Fds,         \* socket numbers of each process
    Conns,       \* connections, used again when both ends are closed
    Fallible,    \* processes that may crash and start again
    MaxDrop,     \* how many connections break
    MaxCrash,    \* how many processes crash
    MaxSend,     \* how many packets are sent to another process
    Immediate,   \* connect() may succeed at once
    None

ASSUME ConstantsAssumption ==
    /\ Dials \subseteq Connectors \X Procs /\ Connectors \subseteq Procs
    /\ Greeted \subseteq Procs /\ Fallible \subseteq Procs
    /\ MaxDrop \in Nat /\ MaxCrash \in Nat /\ MaxSend \in Nat
    /\ Immediate \in BOOLEAN
ASSUME NumbersAssumption == Fds \subseteq Nat /\ Conns \subseteq Nat

Nets == {"listen", "connector"}
SocketKeys == [fd : Fds, net : Nets]
\* "entered": connected, and about to register (AddNetworkIdentify).
ConnectObjs == [conn : Conns, net : Nets, tag : Procs \union {None},
                state : {"connecting", "entered", "connected"}]
Connections == [from : Procs, to : Procs, cut : BOOLEAN]
ASSUME NoneAssumption == None \notin Procs /\ None \notin SocketKeys \union ConnectObjs \union Connections

VARIABLES
    up,       \* running processes
    want,     \* per pair: ConnectDetails of a connector, and MI_NetworkConnects on their way to it
    obj,      \* per process and socket: Network::_connects, the ConnectObj or None
    locator,  \* per pair: NetworkLocator::_netIdentify, a SocketKey or None
    mainbox,  \* per process: list of the main thread
    netbox,   \* per process: MI_NetworkListenKey in the list of the listening thread
    sends,    \* per process and network: Network::_sendMsgList
    tcp,      \* per connection: [from, to, cut], or None
    backlog,  \* per process: connections that accept() will return
    wire,     \* per connection: bytes from the dialing end
    drops, crashes, sent,  \* counters
    astray    \* whom the packets were for that were written to another process

procVars == <<want, obj, locator, mainbox, netbox, sends>>
netVars == <<tcp, backlog, wire>>
countVars == <<drops, crashes, sent, astray>>
vars == <<up, procVars, netVars, countVars>>

Pairs == Procs \X Procs
Dialed(p) == [q \in Procs |-> IF <<p, q>> \in Dials THEN 1 ELSE 0]

Init ==
    /\ up = Procs
    /\ want = [p \in Procs |-> Dialed(p)]
    /\ obj = [p \in Procs |-> [fd \in Fds |-> None]]
    /\ locator = [p \in Procs |-> [q \in Procs |-> None]]
    /\ mainbox = [p \in Procs |-> <<>>] /\ netbox = [p \in Procs |-> <<>>]
    /\ sends = [p \in Procs |-> [net \in Nets |-> <<>>]]
    /\ tcp = [c \in Conns |-> None] /\ backlog = [p \in Procs |-> <<>>]
    /\ wire = [c \in Conns |-> <<>>]
    /\ drops = 0 /\ crashes = 0 /\ sent = 0 /\ astray = {}

Post(box, p, m) == [box EXCEPT ![p] = Append(@, m)]
Done(box, p) == [box EXCEPT ![p] = Tail(@)]
Gets(p, type) == mainbox[p] # <<>> /\ Head(mainbox[p]).type = type
\* The process at the other end of a ConnectObj's connection.
Other(o) == IF o.net = "connector" THEN tcp[o.conn].to ELSE tcp[o.conn].from
\* The system hands out the lowest number that is free.
Lowest(ns) == CHOOSE n \in ns : \A k \in ns : n <= k
FreeFds(p) == {fd \in Fds : obj[p][fd] = None}
FreeConns == {c \in Conns : tcp[c] = None}
\* The thread of the connector is in AddNetworkIdentify.
Busy(p) == \E fd \in Fds : obj[p][fd] # None /\ obj[p][fd].state = "entered"

\* A connection that neither end has any more is nothing; its number is free.
Held(objs, log, c) ==
    \/ \E p \in Procs, fd \in Fds : objs[p][fd] # None /\ objs[p][fd].conn = c
    \/ \E p \in Procs : c \in Range(log[p])
Collected(t, objs, log) == [c \in Conns |-> IF Held(objs, log, c) THEN t[c] ELSE None]

(***************************************************************************)
(* Network, NetworkConnector and ConnectObj.                               *)
(***************************************************************************)
\* CreateConnectObj and ConnectObj::Awake.  The number is free: a ConnectObj closes
\* its socket when it leaves _connects.
CreateConnectObj(p, fd, c, net, tag, state) ==
    obj' = [obj EXCEPT ![p][fd] = [conn |-> c, net |-> net, tag |-> tag, state |-> state]]

\* NetworkConnector::Update: something is in the list.
Waiting(p, q) == want[p][q] > 0
\* Mutant: what was dialed stays in the list.
Asked_Kept(p, q) == want
\* What was dialed is taken out of the list.
Asked(p, q) == [want EXCEPT ![p][q] = @ - 1]

\* NetworkConnector::Update and Connect: an attempt on a process that is down is
\* found out later, by an event on the socket.
Connect(p, q) ==
    LET fd == Lowest(FreeFds(p))
        c == Lowest(FreeConns)
    IN /\ p \in up /\ ~ Busy(p) /\ Waiting(p, q) /\ FreeFds(p) # {} /\ FreeConns # {}
       /\ want' = Asked(p, q)
       /\ tcp' = [tcp EXCEPT ![c] = [from |-> p, to |-> q, cut |-> q \notin up]]
       /\ backlog' = IF q \in up THEN Post(backlog, q, c) ELSE backlog
       /\ \/ CreateConnectObj(p, fd, c, "connector", q, "connecting")
          \/ /\ Immediate /\ q \in up
             /\ CreateConnectObj(p, fd, c, "connector", q, "connected")
    /\ UNCHANGED <<up, locator, mainbox, netbox, sends, wire, countVars>>

\* ConnectObj::ChangeStateToConnected: NetworkLocator::AddNetworkIdentify replaces
\* an entry that is there.
ChangeStateToConnected(p, fd) ==
    LET o == obj[p][fd]
    IN /\ p \in up /\ ~ Busy(p) /\ o # None /\ o.state = "connecting" /\ ~ tcp[o.conn].cut
       /\ obj' = [obj EXCEPT ![p][fd].state = "entered"]
       /\ locator' = [locator EXCEPT ![p][o.tag] = [fd |-> fd, net |-> "connector"]]
    /\ UNCHANGED <<up, want, mainbox, netbox, sends, netVars, countVars>>

\* MessageSystemHelp::SendPacket to a process: it takes the way the locator has now.
SendTo(p, q, type) ==
    LET key == locator[p][q]
    IN sends' = IF key = None THEN sends
                ELSE [sends EXCEPT ![p][key.net] = Append(@, [fd |-> key.fd, to |-> q, type |-> type])]

\* AddNetworkIdentify, without its lock: MI_AppRegister to the other process.
Register(p, fd) ==
    LET o == obj[p][fd]
    IN /\ p \in up /\ o # None /\ o.state = "entered"
       /\ obj' = [obj EXCEPT ![p][fd].state = "connected"]
       /\ IF o.tag \in Greeted THEN SendTo(p, o.tag, "register") ELSE UNCHANGED sends
    /\ UNCHANGED <<up, want, locator, mainbox, netbox, netVars, countVars>>

\* Mutant: nobody hears of a connection that never got connected.
Notice_Connected(p, fd) ==
    IF obj[p][fd].state = "connecting" THEN mainbox
    ELSE Post(mainbox, p, [type |-> "disconnect", fd |-> fd, tag |-> obj[p][fd].tag])
\* ConnectObj::BackToPool tells everybody, with the tag the connection has by now.
Notice(p, fd) == Post(mainbox, p, [type |-> "disconnect", fd |-> fd, tag |-> obj[p][fd].tag])

\* RemoveConnectObj, after an error or the end of the connection in Epoll or Select;
\* what was not read is lost.
RemoveConnectObj(p, fd) ==
    /\ p \in up /\ obj[p][fd] # None /\ tcp[obj[p][fd].conn].cut
    /\ obj[p][fd].net = "listen" \/ ~ Busy(p)
    /\ mainbox' = Notice(p, fd)
    /\ obj' = [obj EXCEPT ![p][fd] = None]
    /\ tcp' = Collected(tcp, obj', backlog)
    /\ UNCHANGED <<up, want, locator, netbox, sends, backlog, wire, countVars>>

\* NetworkListen::Accept: the connection has no tag.
Accept(p) ==
    LET c == Head(backlog[p])
    IN /\ p \in up /\ backlog[p] # <<>> /\ FreeFds(p) # {}
       /\ CreateConnectObj(p, Lowest(FreeFds(p)), c, "listen", None, "connected")
       /\ backlog' = Done(backlog, p)
    /\ UNCHANGED <<up, want, locator, mainbox, netbox, sends, tcp, wire, countVars>>

\* ConnectObj::Recv: the packet goes to the main thread with the socket it came by.
Recv(p, fd) ==
    LET o == obj[p][fd]
    IN /\ p \in up /\ o # None /\ o.net = "listen"
       /\ ~ tcp[o.conn].cut /\ wire[o.conn] # <<>>
       /\ wire' = Done(wire, o.conn)
       /\ mainbox' = IF Head(wire[o.conn]) = "register"
                     THEN Post(mainbox, p, [type |-> "register", fd |-> fd, tag |-> Other(o)])
                     ELSE mainbox
    /\ UNCHANGED <<up, want, obj, locator, netbox, sends, tcp, backlog, countVars>>

\* Mutant: the tag of the connection is not looked at.
CompareTags_Any(o, to) == TRUE
\* TagKey::CompareTags: a connection without a tag takes everything.
CompareTags(o, to) == o.tag = None \/ o.tag = to

\* Network::OnNetworkUpdate, one packet: it goes into the connection of this network
\* that has its number now, unless there is none or one with another tag.
OnNetworkUpdate(p, net) ==
    LET m == Head(sends[p][net])
        o == obj[p][m.fd]
        written == o # None /\ o.net = net /\ CompareTags(o, m.to)
    IN /\ p \in up /\ sends[p][net] # <<>>
       /\ net = "listen" \/ ~ Busy(p)
       /\ sends' = [sends EXCEPT ![p][net] = Tail(@)]
       /\ wire' = IF written /\ net = "connector" /\ ~ tcp[o.conn].cut
                  THEN Post(wire, o.conn, m.type) ELSE wire
       /\ astray' = IF written /\ Other(o) # m.to THEN astray \union {m.to} ELSE astray
    /\ UNCHANGED <<up, want, obj, locator, mainbox, netbox, tcp, backlog, drops, crashes, sent>>

\* Whatever connection of NetworkListen has the number by now.
KeyedObjs(p, m) == {fd \in {m.fd} : obj[p][fd] # None /\ obj[p][fd].net = "listen"}

\* NetworkListen::HandleListenKey.
HandleListenKey(p) ==
    LET m == Head(netbox[p])
        keyed == KeyedObjs(p, m)
    IN /\ p \in up /\ netbox[p] # <<>>
       /\ netbox' = Done(netbox, p)
       /\ obj' = [obj EXCEPT ![p] = [fd \in Fds |-> IF fd \in keyed THEN [@[fd] EXCEPT !.tag = m.tag] ELSE @[fd]]]
    /\ UNCHANGED <<up, want, locator, mainbox, sends, netVars, countVars>>

(***************************************************************************)
(* NetworkLocator and MessageSystemHelp.                                   *)
(***************************************************************************)
\* HandleAppRegister: an entry that is there keeps its socket.
HandleAppRegister(p) ==
    LET m == Head(mainbox[p])
    IN /\ p \in up /\ Gets(p, "register")
       /\ mainbox' = Done(mainbox, p)
       /\ IF locator[p][m.tag] # None THEN UNCHANGED <<locator, netbox>>
          ELSE /\ locator' = [locator EXCEPT ![p][m.tag] = [fd |-> m.fd, net |-> "listen"]]
               /\ netbox' = Post(netbox, p, [fd |-> m.fd, tag |-> m.tag])
    /\ UNCHANGED <<up, want, obj, sends, netVars, countVars>>

\* Mutant: the entry stays until the process registers again.
Erased_Kept(p, q) == locator
Erased(p, q) == [locator EXCEPT ![p][q] = None]

\* Mutant: only a process that was dialed at the start is dialed again.
Redial_Never(p, q) == want
\* MessageSystemHelp::CreateConnect; without a connector nobody listens.
Redial(p, q) == IF p \in Connectors THEN [want EXCEPT ![p][q] = @ + 1] ELSE want

\* HandleNetworkDisconnect: for a connection with an App tag the entry goes,
\* whatever socket it has, and a connection is asked for.
HandleNetworkDisconnect(p) ==
    LET q == Head(mainbox[p]).tag
    IN /\ p \in up /\ Gets(p, "disconnect")
       /\ mainbox' = Done(mainbox, p)
       /\ IF q = None THEN UNCHANGED <<locator, want>>
          ELSE locator' = Erased(p, q) /\ want' = Redial(p, q)
    /\ UNCHANGED <<up, obj, netbox, sends, netVars, countVars>>

\* Anybody sends a packet to a process; without an entry it is an error.
SendPacket(p, q) ==
    /\ p \in up /\ locator[p][q] # None /\ sent < MaxSend
    /\ SendTo(p, q, "data")
    /\ sent' = sent + 1
    /\ UNCHANGED <<up, want, obj, locator, mainbox, netbox, netVars, drops, crashes, astray>>

(***************************************************************************)
(* Faults.                                                                 *)
(***************************************************************************)
Drop(c) ==
    /\ drops < MaxDrop /\ tcp[c] # None /\ ~ tcp[c].cut
    /\ tcp' = [tcp EXCEPT ![c].cut = TRUE] /\ wire' = [wire EXCEPT ![c] = <<>>]
    /\ drops' = drops + 1
    /\ UNCHANGED <<up, procVars, backlog, crashes, sent, astray>>

Crash(p) ==
    LET lost == {c \in Conns : tcp[c] # None /\ p \in {tcp[c].from, tcp[c].to}}
    IN /\ p \in up \intersect Fallible /\ crashes < MaxCrash
       /\ up' = up \ {p} /\ crashes' = crashes + 1
       /\ want' = [want EXCEPT ![p] = [q \in Procs |-> 0]]
       /\ obj' = [obj EXCEPT ![p] = [fd \in Fds |-> None]]
       /\ locator' = [locator EXCEPT ![p] = [q \in Procs |-> None]]
       /\ mainbox' = [mainbox EXCEPT ![p] = <<>>] /\ netbox' = [netbox EXCEPT ![p] = <<>>]
       /\ sends' = [sends EXCEPT ![p] = [net \in Nets |-> <<>>]]
       /\ backlog' = [backlog EXCEPT ![p] = <<>>]
       /\ tcp' = Collected([c \in Conns |-> IF c \in lost THEN [tcp[c] EXCEPT !.cut = TRUE] ELSE tcp[c]],
                           obj', backlog')
       /\ wire' = [c \in Conns |-> IF c \in lost THEN <<>> ELSE wire[c]]
    /\ UNCHANGED <<drops, sent, astray>>

Restart(p) ==
    /\ p \notin up /\ up' = up \union {p} /\ want' = [want EXCEPT ![p] = Dialed(p)]
    /\ UNCHANGED <<obj, locator, mainbox, netbox, sends, netVars, countVars>>

NetworkStep(p, fd) == ChangeStateToConnected(p, fd) \/ Register(p, fd) \/ RemoveConnectObj(p, fd) \/ Recv(p, fd)
MainStep(p) == HandleAppRegister(p) \/ HandleNetworkDisconnect(p)

Next ==
    \/ \E p \in Procs :
         \/ Accept(p) \/ HandleListenKey(p) \/ MainStep(p)
         \/ Crash(p) \/ Restart(p)
         \/ \E fd \in Fds : NetworkStep(p, fd)
         \/ \E net \in Nets : OnNetworkUpdate(p, net)
         \/ \E q \in Procs : Connect(p, q) \/ SendPacket(p, q)
    \/ \E c \in Conns : Drop(c)

\* Every thread keeps running its loop, and a process that crashed is started again.
Fairness ==
    \A p \in Procs :
        /\ WF_vars(Accept(p)) /\ WF_vars(HandleListenKey(p))
        /\ \A net \in Nets : WF_vars(OnNetworkUpdate(p, net))
        /\ WF_vars(MainStep(p)) /\ WF_vars(Restart(p))
        /\ \A fd \in Fds : WF_vars(NetworkStep(p, fd))
        /\ \A q \in Procs : WF_vars(Connect(p, q))

Spec == Init /\ [][Next]_vars /\ Fairness

-----------------------------------------------------------------------------
(***************************************************************************)
(* Properties.                                                             *)
(***************************************************************************)
TypeOK ==
    /\ up \subseteq Procs /\ want \in [Procs -> [Procs -> Nat]]
    /\ obj \in [Procs -> [Fds -> ConnectObjs \union {None}]]
    /\ locator \in [Procs -> [Procs -> SocketKeys \union {None}]]
    /\ tcp \in [Conns -> Connections \union {None}]
    /\ \A p \in Procs, fd \in Fds : obj[p][fd] # None => tcp[obj[p][fd].conn] # None

\* The entry p has for q is the way to it: the socket leads there, or the notice of
\* its end is waiting for p's NetworkLocator.
Way(p, q) ==
    LET o == obj[p][locator[p][q].fd]
    IN o # None /\ o.net = locator[p][q].net /\ Other(o) = q
Ending(p, q) == \E k \in DOMAIN mainbox[p] : mainbox[p][k].type = "disconnect" /\ mainbox[p][k].tag = q
Leads(p, q) == locator[p][q] # None => Way(p, q) \/ Ending(p, q)

\* Whoever dials appmgr or dbmgr, which dial nobody, is never led elsewhere, wherever
\* and how often connections break: not by an old entry whose number somebody else has
\* by now, and not because a late notice took the entry of a new connection
\* (ConnectObj::BackToPool, NetworkLocator::HandleNetworkDisconnect).
RouteLeads == \A p \in Procs, q \in Procs \ Connectors : Leads(p, q)

\* So it is at both ends.
EntryLeads == \A p, q \in Procs : Leads(p, q)

\* Connections of p that lead to q and are not broken.
Ways(p, q) == {fd \in Fds : obj[p][fd] # None /\ Other(obj[p][fd]) = q /\ ~ tcp[obj[p][fd].conn].cut}

\* A process has one connection to one that dials nobody, and that has one to it: a
\* connection that is lost is asked for once (NetworkLocator::HandleNetworkDisconnect),
\* though an attempt may fail in each of its steps.
DialedOnce ==
    \A p \in Procs, q \in Procs \ Connectors : Cardinality(Ways(p, q)) <= 1 /\ Cardinality(Ways(q, p)) <= 1

\* Two processes keep one connection for each time one is told to dial the other.
OneConnection ==
    \A p, q \in Procs : Cardinality(Ways(p, q)) <= Cardinality(Dials \intersect {<<p, q>>, <<q, p>>})

\* A connection is tagged with the process at its other end or not at all, although
\* tags are given by socket number (NetworkListen::HandleListenKey).
TagsTrue ==
    \A p \in Procs, fd \in Fds : obj[p][fd] # None => obj[p][fd].tag \in {None, Other(obj[p][fd])}

\* A packet to a process that dials nobody never gets to another one, however long it
\* waits in _sendMsgList and whoever has the number of its socket by then
\* (Network::OnNetworkUpdate).
RegisteredSafe == astray \subseteq Connectors

\* A packet never gets to another process.
NoMisdelivery == astray = {}

\* p's entry for q is a connection to it that is up.
Linked(p, q) ==
    /\ locator[p][q] # None /\ Way(p, q)
    /\ LET o == obj[p][locator[p][q].fd] IN o.state = "connected" /\ ~ tcp[o.conn].cut

\* Whoever dials a process that dials nobody has a connection to it in the end, in its
\* locator, when nothing breaks any more (NetworkLocator::HandleNetworkDisconnect asks
\* for it again).
Reconnects == \A d \in Dials : d[2] \notin Connectors => <>[] Linked(d[1], d[2])

\* The process that is dialed finds the one that dials it again, too
\* (NetworkLocator::HandleAppRegister).
FoundAgain == \A d \in Dials : d[2] \in Greeted => <>[] Linked(d[2], d[1])
=============================================================================
