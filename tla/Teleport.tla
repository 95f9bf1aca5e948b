------------------------------ MODULE Teleport ------------------------------
(***************************************************************************)
(* How a player moves from one world to another inside a game process      *)
(* (apps/game/world_component_teleport, world_proxy, world_proxy_help and  *)
(* the world of apps/space that each proxy stands for).                    *)
(*                                                                         *)
(* The proxy of the old world makes a TeleportObject, which waits for the  *)
(* target world to exist and for the player's data to come back from the   *)
(* old world; then the target proxy takes the player over and tells the    *)
(* old proxy to let go.  Proxies and worlds run in their own threads, each *)
(* with its own list of messages; a message posted to a thread is behind   *)
(* every message posted to it before (see PacketBus).  A player's data is  *)
(* a version number that grows with every change made to it in a world.    *)
(***************************************************************************)
EXTENDS Integers, Sequences, FiniteSets

CONSTANTS
    Publics,     \* ids of the public worlds
    Dungeons,    \* ids of the dungeons: every creation is a world of its own
    Known,       \* public worlds that exist at the start
    Home,        \* the world the players start in
    Players,     \* player sns, naturals (order of the std::map _objects)
    MaxDungeon,  \* how many dungeon worlds are created
    MaxAsk,      \* how often each player asks to go elsewhere
    MaxGain,     \* how often each player's data changes
    MaxDrop,     \* how many clients disconnect
    Patient,     \* a client asks again only when it has arrived
    None

ASSUME ConstantsAssumption ==
    /\ Known \subseteq Publics /\ Home \in Known /\ Players \subseteq Nat /\ IsFiniteSet(Players)
    /\ Publics \intersect Dungeons = {} /\ Patient \in BOOLEAN
    /\ MaxDungeon \in Nat /\ MaxAsk \in Nat /\ MaxGain \in Nat /\ MaxDrop \in Nat

\* A world by its sn: the id, and a number that tells the dungeons apart.
World(id, n) == [id |-> id, n |-> n]
Instances == {World(id, 0) : id \in Publics} \union {World(id, n) : id \in Dungeons, n \in 1 .. MaxDungeon}
Ids == Publics \union Dungeons
Data == 0 .. MaxGain
Flags == Instances \union {None}
TeleportObjects == [id : Ids, world : Flags, sync : BOOLEAN]

ASSUME NoneAssumption == None \notin Data /\ None \notin Instances /\ None \notin TeleportObjects

VARIABLES
    exists,    \* worlds whose proxy is registered with WorldProxyLocator
    requests,  \* creations under way: [id, from]
    inbox,     \* messages for the thread of each proxy
    worldbox,  \* messages for the thread of each world
    proxy,     \* per proxy and player: the Player's data in its collector, or None
    world,     \* per world and player: the Player's data in the world, or None
    objects,   \* per proxy and player: WorldComponentTeleport::_objects
    where,     \* SocketLocator: the proxy a client's messages are tagged with
    online,    \* clients that are connected
    waits,     \* clients that have asked and not arrived since
    asked,     \* per player: times asked
    base,      \* per player: its data in the world when its last wish was handled
    hung,      \* proxies whose thread never leaves a loop
    fault      \* a null Player was used

proxyVars == <<proxy, objects>>
clientVars == <<online, waits, asked>>
vars == <<exists, requests, inbox, worldbox, proxyVars, world, where, clientVars, base, hung, fault>>

Start == World(Home, 0)
Per(v) == [p \in Players |-> v]

Init ==
    /\ exists = {World(id, 0) : id \in Known} /\ requests = <<>>
    /\ inbox = [i \in Instances |-> <<>>] /\ worldbox = [i \in Instances |-> <<>>]
    /\ proxy = [i \in Instances |-> Per(IF i = Start THEN 0 ELSE None)]
    /\ world = proxy
    /\ objects = [i \in Instances |-> Per(None)]
    /\ where = Per(Start) /\ online = Players
    /\ waits = {} /\ asked = Per(0) /\ base = Per(0)
    /\ hung = {} /\ fault = FALSE

Post(box, i, m) == [box EXCEPT ![i] = Append(@, m)]
Gets(box, i, type) == box[i] # <<>> /\ Head(box[i]).type = type
Done(box, i) == [box EXCEPT ![i] = Tail(@)]
\* A proxy's thread handles the head of its list unless it hangs.
ProxyGets(i, type) == i \notin hung /\ ~ fault /\ Gets(inbox, i, type)
Plain(type, p) == [type |-> type, p |-> p]

(***************************************************************************)
(* Clients.                                                                *)
(***************************************************************************)
\* A portal leads to another world.  The network tags the request with what
\* SocketLocator knows.
ClientEnterWorld(p, id) ==
    /\ p \in online /\ where[p] # None /\ asked[p] < MaxAsk
    /\ Patient => p \notin waits
    /\ id # where[p].id
    /\ inbox' = Post(inbox, where[p], [type |-> "enter", p |-> p, id |-> id])
    /\ waits' = waits \union {p} /\ asked' = [asked EXCEPT ![p] = @ + 1]
    /\ UNCHANGED <<exists, requests, worldbox, proxyVars, world, where, online, base, hung, fault>>

\* A disconnect goes to SocketLocator and to every proxy.
ClientDisconnect(p) ==
    /\ p \in online /\ Cardinality(Players \ online) < MaxDrop
    /\ online' = online \ {p} /\ where' = [where EXCEPT ![p] = None]
    /\ inbox' = [i \in Instances |->
                   IF i \in exists THEN Append(inbox[i], Plain("drop", p)) ELSE inbox[i]]
    /\ UNCHANGED <<exists, requests, worldbox, proxyVars, world, waits, asked, base, hung, fault>>

(***************************************************************************)
(* WorldComponentTeleport.                                                 *)
(***************************************************************************)
\* Mutant: the jump does not wait for the player's data.
Ready_NoSync(o) == o.world \in Instances
Ready(o) == o.sync /\ o.world \in Instances

\* Check(o), o being the object of player p at proxy i: when both flags are
\* completed the player is sent on with the data the proxy has, and the object is
\* gone.  The Player may be gone as well; it is used all the same.
Check(i, p, o, data) ==
    /\ objects' = [objects EXCEPT ![i][p] = IF Ready(o) /\ data # None THEN None ELSE o]
    /\ inbox' = IF Ready(o) /\ data # None
                THEN Post(Done(inbox, i), o.world,
                          [type |-> "teleport", p |-> p, from |-> i, data |-> data])
                ELSE Done(inbox, i)
    /\ fault' = (fault \/ (Ready(o) /\ data = None))

\* Mutant: a known public world is asked for and waited for again.
CreateWorldFlag_Ask(id) == None
\* A public world that exists is taken, any other is asked for and waited for.
CreateWorldFlag(id) == IF World(id, 0) \in exists THEN World(id, 0) ELSE None

TeleportObject(id, flag) == [id |-> id, world |-> flag, sync |-> FALSE]

\* HandleC2GEnterWorld and CreateTeleportObject: nothing for a player who is
\* gone or already has an object.
HandleC2GEnterWorld(i) ==
    LET m == Head(inbox[i])
        flag == CreateWorldFlag(m.id)
    IN /\ ProxyGets(i, "enter")
       /\ inbox' = Done(inbox, i)
       /\ IF proxy[i][m.p] = None \/ objects[i][m.p] # None
          THEN UNCHANGED <<objects, requests, worldbox, base>>
          ELSE /\ objects' = [objects EXCEPT ![i][m.p] = TeleportObject(m.id, flag)]
               /\ requests' = IF flag = None THEN Append(requests, [id |-> m.id, from |-> i])
                              ELSE requests
               /\ worldbox' = Post(worldbox, i, Plain("reqsync", m.p))
               /\ base' = [base EXCEPT ![m.p] = IF world[i][m.p] = None THEN @ ELSE world[i][m.p]]
    /\ UNCHANGED <<exists, proxy, world, where, clientVars, hung, fault>>

\* Mutant: a player about to jump is moved out of the proxy with its data.
Parsed_Moved(i, p, data) == [proxy EXCEPT ![i][p] = IF objects[i][p] # None THEN None ELSE data]
Parsed(i, p, data) == [proxy EXCEPT ![i][p] = data]

\* HandleS2GSyncPlayer and BroadcastSyncPlayer.
HandleS2GSyncPlayer(i) ==
    LET m == Head(inbox[i])
        o == objects[i][m.p]
    IN /\ ProxyGets(i, "sync")
       /\ IF proxy[i][m.p] = None
          THEN inbox' = Done(inbox, i) /\ UNCHANGED <<proxyVars, fault>>
          ELSE /\ proxy' = Parsed(i, m.p, m.data)
               /\ IF o = None THEN inbox' = Done(inbox, i) /\ UNCHANGED <<objects, fault>>
                  ELSE Check(i, m.p, [o EXCEPT !.sync = TRUE], m.data)
    /\ UNCHANGED <<exists, requests, worldbox, world, where, clientVars, base, hung>>

\* The objects that wait for a world id, in the order of the map.
Waiting(i, id) == {p \in Players : objects[i][p] # None /\ objects[i][p].id = id}
First(ps) == CHOOSE p \in ps : \A q \in ps : p <= q
InOrder(ps) == {seq \in [1 .. Cardinality(ps) -> ps] : \A k, l \in DOMAIN seq : k < l => seq[k] < seq[l]}

\* HandleBroadcastCreateWorldProxy for a public world: the first object of that
\* target gets the world and is checked, until there is none left.  An object
\* that is not ready stays, and is found again, for ever.
PublicCreated(i, w) ==
    LET ps == Waiting(i, w.id)
        unready == {p \in ps : ~ Ready([objects[i][p] EXCEPT !.world = w])}
        before == IF unready = {} THEN ps ELSE {p \in ps : p < First(unready)}
        null == {p \in before : proxy[i][p] = None}
        gone == IF null = {} THEN before ELSE {p \in before : p < First(null)}
    IN /\ \E seq \in InOrder(gone) :
              inbox' = [Done(inbox, i) EXCEPT ![w] = @ \o [k \in DOMAIN seq |->
                  [type |-> "teleport", p |-> seq[k], from |-> i, data |-> proxy[i][seq[k]]]]]
       /\ objects' = [objects EXCEPT ![i] = [p \in Players |->
              IF p \in gone THEN None
              ELSE IF null = {} /\ unready # {} /\ p = First(unready)
              THEN [objects[i][p] EXCEPT !.world = w] ELSE objects[i][p]]]
       /\ fault' = (fault \/ null # {})
       /\ hung' = IF null = {} /\ unready # {} THEN hung \union {i} ELSE hung

\* For a dungeon only the first object of that target gets it.
DungeonCreated(i, w) ==
    LET ps == Waiting(i, w.id)
        p == First(ps)
    IN /\ IF ps = {} THEN inbox' = Done(inbox, i) /\ UNCHANGED <<objects, fault>>
          ELSE Check(i, p, [objects[i][p] EXCEPT !.world = w], proxy[i][p])
       /\ UNCHANGED hung

HandleBroadcastCreateWorldProxy(i) ==
    LET w == Head(inbox[i]).world
    IN /\ ProxyGets(i, "created")
       /\ IF w.id \in Publics THEN PublicCreated(i, w) ELSE DungeonCreated(i, w)
    /\ UNCHANGED <<exists, requests, worldbox, proxy, world, where, clientVars, base>>

(***************************************************************************)
(* WorldProxy.                                                             *)
(***************************************************************************)
\* PlayerCollectorComponent of a proxy, and SocketLocator::RegisterToLocator.
AddPlayer(i, p, data) == [proxy EXCEPT ![i][p] = data]
RemovePlayer(i, p) == [proxy EXCEPT ![i][p] = None]
RegisterToLocator(p, i) == [where EXCEPT ![p] = i]

\* HandleTeleport: a player whose socket is known here is refused.
HandleTeleport(i) ==
    LET m == Head(inbox[i])
    IN /\ ProxyGets(i, "teleport")
       /\ IF proxy[i][m.p] # None
          THEN inbox' = Done(inbox, i) /\ UNCHANGED <<proxy, worldbox, where>>
          ELSE /\ proxy' = AddPlayer(i, m.p, m.data)
               /\ worldbox' = Post(worldbox, i, [type |-> "player", p |-> m.p, data |-> m.data])
               /\ inbox' = Post(Done(inbox, i), m.from, Plain("after", m.p))
               /\ where' = RegisterToLocator(m.p, i)
    /\ UNCHANGED <<exists, requests, objects, world, clientVars, base, hung, fault>>

\* Mutant: the real world is not told that the player has left.
LetGo_NoRemove(i, p, type) == worldbox
LetGo(i, p, type) == Post(worldbox, i, Plain(type, p))

\* HandleTeleportAfter, and HandleNetworkDisconnect of a client: the proxy forgets
\* the player and tells its world, which will remove it or save and remove it.
ProxyForget(i, type, tell) ==
    LET p == Head(inbox[i]).p
    IN /\ ProxyGets(i, type)
       /\ inbox' = Done(inbox, i)
       /\ IF proxy[i][p] = None THEN UNCHANGED <<proxy, worldbox>>
          ELSE /\ proxy' = RemovePlayer(i, p)
               /\ worldbox' = LetGo(i, p, tell)
    /\ UNCHANGED <<exists, requests, objects, world, where, clientVars, base, hung, fault>>
HandleTeleportAfter(i) == ProxyForget(i, "after", "remove")
HandleNetworkDisconnect(i) == ProxyForget(i, "drop", "leave")

(***************************************************************************)
(* The worlds, and what creates them.                                      *)
(***************************************************************************)
\* appmgr and the spaces (see WorldCreate): a public world is created once and
\* announced to every proxy, a dungeon to the one that asked.
CreateWorld ==
    LET r == Head(requests)
        n == Cardinality({w \in exists : w.id = r.id})
        w == World(r.id, IF r.id \in Publics THEN 0 ELSE n + 1)
    IN /\ requests # <<>> /\ ~ fault /\ requests' = Tail(requests)
       /\ IF w \in exists \/ w \notin Instances THEN UNCHANGED <<exists, inbox>>
          ELSE /\ exists' = exists \union {w}
               /\ inbox' = [i \in Instances |->
                      IF i = r.from \/ (r.id \in Publics /\ i \in exists')
                      THEN Append(inbox[i], [type |-> "created", world |-> w]) ELSE inbox[i]]
    /\ UNCHANGED <<worldbox, proxyVars, world, where, clientVars, base, hung, fault>>

\* World::HandleRequestSyncPlayer.
HandleRequestSyncPlayer(i) ==
    LET p == Head(worldbox[i]).p
    IN /\ Gets(worldbox, i, "reqsync") /\ ~ fault
       /\ worldbox' = Done(worldbox, i)
       /\ inbox' = IF world[i][p] = None THEN inbox
                   ELSE Post(inbox, i, [type |-> "sync", p |-> p, data |-> world[i][p]])
    /\ UNCHANGED <<exists, requests, proxyVars, world, where, clientVars, base, hung, fault>>

\* PlayerManagerComponent::AddPlayer and RemovePlayerBySn.
AddToWorld(i, p, data) == [world EXCEPT ![i][p] = data]
RemovePlayerBySn(i, p) == [world EXCEPT ![i][p] = None]

\* World::HandleSyncPlayer: the player is added and its client told to enter; one
\* that is still here is refused.
HandleSyncPlayer(i) ==
    LET m == Head(worldbox[i])
    IN /\ Gets(worldbox, i, "player") /\ ~ fault
       /\ worldbox' = Done(worldbox, i)
       /\ IF world[i][m.p] # None THEN UNCHANGED <<world, waits>>
          ELSE world' = AddToWorld(i, m.p, m.data) /\ waits' = waits \ {m.p}
    /\ UNCHANGED <<exists, requests, inbox, proxyVars, where, online, asked, base, hung, fault>>

\* World::HandleG2SRemovePlayer, and World::HandleNetworkDisconnect of a player.
HandleRemovePlayer(i) ==
    LET p == Head(worldbox[i]).p
    IN /\ (Gets(worldbox, i, "remove") \/ Gets(worldbox, i, "leave")) /\ ~ fault
       /\ worldbox' = Done(worldbox, i)
       /\ world' = RemovePlayerBySn(i, p)
    /\ UNCHANGED <<exists, requests, inbox, proxyVars, where, clientVars, base, hung, fault>>

\* Fighting and looting change the data of a player in its world (Player::GetDamage,
\* World::HandleUpdateKnapItem and the like).
Gain(i, p) ==
    /\ world[i][p] # None /\ world[i][p] < MaxGain /\ ~ fault
    /\ world' = [world EXCEPT ![i][p] = @ + 1]
    /\ UNCHANGED <<exists, requests, inbox, worldbox, proxyVars, where, clientVars, base, hung, fault>>

ProxyStep(i) ==
    \/ HandleC2GEnterWorld(i) \/ HandleS2GSyncPlayer(i) \/ HandleBroadcastCreateWorldProxy(i)
    \/ HandleTeleport(i) \/ HandleTeleportAfter(i) \/ HandleNetworkDisconnect(i)
WorldStep(i) == HandleRequestSyncPlayer(i) \/ HandleSyncPlayer(i) \/ HandleRemovePlayer(i)

Next ==
    \/ \E p \in Players : (\E id \in Ids : ClientEnterWorld(p, id)) \/ ClientDisconnect(p)
    \/ CreateWorld
    \/ \E i \in Instances : ProxyStep(i) \/ WorldStep(i) \/ \E p \in Players : Gain(i, p)

\* The threads keep working off their lists, and creation finishes.
Fairness ==
    /\ WF_vars(CreateWorld)
    /\ \A i \in Instances : WF_vars(ProxyStep(i)) /\ WF_vars(WorldStep(i))

Spec == Init /\ [][Next]_vars /\ Fairness

-----------------------------------------------------------------------------
(***************************************************************************)
(* Properties.                                                             *)
(***************************************************************************)
TypeOK ==
    /\ exists \subseteq Instances /\ hung \subseteq Instances /\ fault \in BOOLEAN
    /\ proxy \in [Instances -> [Players -> Data \union {None}]]
    /\ world \in [Instances -> [Players -> Data \union {None}]]
    /\ objects \in [Instances -> [Players -> TeleportObjects \union {None}]]
    /\ where \in [Players -> Instances \union {None}]
    /\ online \subseteq Players /\ waits \subseteq Players

On(box, i, type, p) == \E k \in DOMAIN box[i] : box[i][k].type = type /\ box[i][k].p = p

\* A player is in one place: when two proxies hold it, one of them has been told
\* to let go, and when two worlds do, the one it leaves is about to hear of it
\* (WorldProxy::HandleTeleport to WorldProxy::HandleTeleportAfter).
OneWorld ==
    \A p \in Players : \A i, j \in Instances : i # j =>
        /\ proxy[i][p] # None /\ proxy[j][p] # None => On(inbox, i, "after", p) \/ On(inbox, j, "after", p)
        /\ world[i][p] # None /\ world[j][p] # None =>
               \E k \in {i, j} : On(inbox, k, "after", p) \/ On(worldbox, k, "remove", p)

\* A client that is connected is held by a proxy at every moment, also in the
\* middle of a jump (the old proxy lets go only after the new one has taken over).
NeverNowhere == \A p \in online : \E i \in Instances : proxy[i][p] # None

\* A proxy and its world hold the same players as soon as the messages between
\* them are worked off.
ProxyMatchesWorld ==
    \A i \in Instances : worldbox[i] = <<>> =>
        \A p \in Players : (proxy[i][p] # None) <=> (world[i][p] # None)

\* A jump carries the player's data at least as it was in the old world when the
\* jump began, however the answers of the world and of appmgr are ordered
\* (TeleportObject: the jump waits for the data from the real world).
SyncedData ==
    \A i \in Instances : \A k \in DOMAIN inbox[i] :
        inbox[i][k].type = "teleport" => inbox[i][k].data >= base[inbox[i][k].p]

\* Nothing the old world does to a player after its data was copied is lost: what
\* arrives in a world is what the player had when the old world removed it.
NoLostProgress ==
    \A p \in Players : \A i, j \in Instances :
        i # j /\ proxy[i][p] = None /\ world[i][p] # None /\ world[j][p] # None
        => world[j][p] >= world[i][p]

\* A client that asks to go to another world gets there: a jump waits for the
\* target world and for the player's data, and for nothing else (TeleportObject).
Arrives == \A p \in Players : (p \in waits /\ p \in online) ~> (p \notin waits \/ p \notin online)

\* No handler uses a Player that is gone (WorldComponentTeleport::Check).
NoNullPlayer == ~ fault

\* When everything is worked off, a client that has disconnected is in no world.
NoGhost ==
    (\A i \in Instances : inbox[i] = <<>> /\ worldbox[i] = <<>>) =>
        \A p \in Players \ online : \A i \in Instances : world[i][p] = None
=============================================================================
