---------------------------- MODULE WorldCreate -----------------------------
(***************************************************************************)
(* How a public world comes to exist (apps/appmgr/create_world_component,  *)
(* apps/space/world_operator_component, apps/game/lobby and                *)
(* world_proxy_locator, world_proxy): the lobby of a game process asks     *)
(* appmgr for the world, appmgr asks one space process, the space creates  *)
(* it and tells appmgr and every game, and each game makes a WorldProxy    *)
(* for it, whose Awake tells the lobby to let the waiting players in.      *)
(*                                                                         *)
(* Processes talk over TCP links: each is FIFO, nothing orders two of      *)
(* them.  Inside a game, the main thread handles what arrives and posts    *)
(* creations; a logic thread runs the proxies and the lobby from its own   *)
(* list.  A space may die (its links end in a disconnect, possibly losing  *)
(* the last messages) and come back under the same app id.                 *)
(***************************************************************************)
EXTENDS Integers, Sequences, FiniteSets, Functions

CONSTANTS
    Worlds,      \* ids of public worlds, naturals (std::map order)
    Spaces,      \* app ids of the space processes
    Games,       \* app ids of the game processes
    Registered,  \* spaces appmgr knows of at the start
    Players,     \* players that log in
    Home,        \* the game a player logs in to
    Wish,        \* the world the player was last in
    MaxSn,       \* how many worlds are created
    MaxCrash,    \* how often a space dies
    Mgr, None

ASSUME ConstantsAssumption ==
    /\ Worlds \subseteq Nat /\ IsFiniteSet(Worlds) /\ Registered \subseteq Spaces
    /\ Games \intersect Spaces = {} /\ Mgr \notin Games \union Spaces
    /\ Home \in [Players -> Games] /\ Wish \in [Players -> Worlds]
    /\ MaxSn \in Nat /\ MaxCrash \in Nat

VARIABLES
    link,      \* messages on their way, per ordered pair of processes
    apps,      \* SyncComponent::_apps of appmgr: the spaces
    creating,  \* CreateWorldComponent::_creating: world id -> space
    created,   \* CreateWorldComponent::_created: world id -> world
    up,        \* running space processes
    alive,     \* worlds that exist on a running space
    lastSn,    \* number of the last world created
    crashes,   \* deaths of space processes
    posted,    \* per game: creations in ThreadMgr::_createPackets
    inbox,     \* per game: the list of the logic thread
    publics,   \* per game: WorldProxyLocator::_publics
    proxies,   \* per game: the WorldProxy objects, by their world
    waiting,   \* per game: Lobby::_waitingForWorld
    target     \* per player: None, or the world the lobby teleported it to

mgrVars == <<apps, creating, created>>
spaceVars == <<up, alive, lastSn, crashes>>
gameVars == <<posted, inbox, publics, proxies>>
lobbyVars == <<waiting, target>>
vars == <<link, mgrVars, spaceVars, gameVars, lobbyVars>>

\* A world: GetAppIdFromSN of its sn is the space.
Sns == [sn : 1 .. MaxSn, space : Spaces, world : Worlds]
Links == ((Games \union Spaces) \X {Mgr}) \union ({Mgr} \X (Games \union Spaces))
           \union (Spaces \X Games) \union {<<g, g>> : g \in Games}
ASSUME NoneAssumption == None \notin Spaces \union Sns

Init ==
    /\ link = [l \in Links |-> <<>>]
    /\ apps = Registered
    /\ creating = [w \in Worlds |-> None] /\ created = [w \in Worlds |-> None]
    /\ up = Spaces /\ alive = {} /\ lastSn = 0 /\ crashes = 0
    /\ posted = [g \in Games |-> <<>>] /\ inbox = [g \in Games |-> <<>>]
    /\ publics = [g \in Games |-> [w \in Worlds |-> None]]
    /\ proxies = [g \in Games |-> <<>>]
    /\ waiting = [g \in Games |-> [w \in Worlds |-> {}]]
    /\ target = [p \in Players |-> None]

Msg(type, arg) == [type |-> type, arg |-> arg]
Put(ls, l, m) == [ls EXCEPT ![l] = Append(@, m)]
Got(l) == Head(link[l])
Taken(l) == [link EXCEPT ![l] = Tail(@)]
Arrives(l, type) == link[l] # <<>> /\ Got(l).type = type

(***************************************************************************)
(* Game: the lobby.                                                        *)
(***************************************************************************)
\* HandleQueryPlayerRs, for a player without a last dungeon, ends in
\* EnterPublicWorld: teleport to the world if its proxy is known, otherwise wait,
\* and ask appmgr when nobody waits yet.
EnterPublicWorld(p) ==
    LET g == Home[p]
        w == Wish[p]
    IN /\ target[p] = None /\ p \notin waiting[g][w]
       /\ IF publics[g][w] # None
          THEN target' = [target EXCEPT ![p] = publics[g][w]] /\ UNCHANGED <<waiting, link>>
          ELSE /\ waiting' = [waiting EXCEPT ![g][w] = @ \union {p}]
               /\ link' = IF waiting[g][w] = {} THEN Put(link, <<g, Mgr>>, Msg("request", w))
                          ELSE link
               /\ UNCHANGED target
    /\ UNCHANGED <<mgrVars, spaceVars, gameVars>>

\* Mutant: the waiting set is dropped after one of its players.
LobbyProxyCreated_One(g, s) ==
    /\ target' = [p \in Players |->
           IF p \in waiting[g][s.world] /\ p = CHOOSE q \in waiting[g][s.world] : TRUE
           THEN s ELSE target[p]]
    /\ waiting' = [waiting EXCEPT ![g][s.world] = {}]

\* HandleBroadcastCreateWorldProxy: everybody who waits for the world goes there.
LobbyProxyCreated(g, s) ==
    /\ target' = [p \in Players |-> IF p \in waiting[g][s.world] THEN s ELSE target[p]]
    /\ waiting' = [waiting EXCEPT ![g][s.world] = {}]

(***************************************************************************)
(* Appmgr.                                                                 *)
(***************************************************************************)
\* GetOneApp takes the space with the fewest players online, any of those known.
ReqCreateWorld(ls, w, s) == Put(ls, <<Mgr, s>>, Msg("create", w))

\* Mutant: _creating is not looked at.
BeingCreated_Never(w) == FALSE
BeingCreated(w) == creating[w] # None

MarkCreating(w, s) == [creating EXCEPT ![w] = s]

\* A world being created is waited for, a created one is announced to the game
\* that asks, any other is created; without a space the request is dropped.
HandleRequestWorld(g) ==
    LET w == Got(<<g, Mgr>>).arg
        ls == Taken(<<g, Mgr>>)
    IN /\ Arrives(<<g, Mgr>>, "request")
       /\ \/ BeingCreated(w) /\ link' = ls /\ UNCHANGED mgrVars
          \/ /\ ~ BeingCreated(w) /\ created[w] # None
             /\ link' = Put(ls, <<Mgr, g>>, Msg("broadcast", created[w]))
             /\ UNCHANGED mgrVars
          \/ /\ ~ BeingCreated(w) /\ created[w] = None /\ apps = {}
             /\ link' = ls /\ UNCHANGED mgrVars
          \/ /\ ~ BeingCreated(w) /\ created[w] = None
             /\ \E s \in apps :
                    /\ link' = ReqCreateWorld(ls, w, s)
                    /\ creating' = MarkCreating(w, s)
             /\ UNCHANGED <<apps, created>>
    /\ UNCHANGED <<spaceVars, gameVars, lobbyVars>>

MgrBroadcastCreateWorld(s) ==
    LET sn == Got(<<s, Mgr>>).arg
    IN /\ Arrives(<<s, Mgr>>, "broadcast")
       /\ created' = [created EXCEPT ![sn.world] = sn]
       /\ creating' = [creating EXCEPT ![sn.world] = None]
       /\ link' = Taken(<<s, Mgr>>)
    /\ UNCHANGED <<apps, spaceVars, gameVars, lobbyVars>>

MgrAppInfoSync(s) ==
    /\ Arrives(<<s, Mgr>>, "sync")
    /\ apps' = apps \union {s} /\ link' = Taken(<<s, Mgr>>)
    /\ UNCHANGED <<creating, created, spaceVars, gameVars, lobbyVars>>

\* Mutant: the worlds created on the space are kept.
DropCreated_Kept(s) == created
DropCreated(s) ==
    [w \in Worlds |-> IF created[w] # None /\ created[w].space = s THEN None ELSE created[w]]

\* SyncComponent::HandleNetworkDisconnect; GetOneApp chooses among the rest.
AppsWithout(s) == apps \ {s}

\* The worlds of a set in the order of a std::map.
Ascending(S) ==
    {f \in [1 .. Cardinality(S) -> S] : \A i, j \in DOMAIN f : i < j => f[i] < f[j]}
\* The requests sent one after the other, each to the space GetOneApp gave.
Resent(ls, again, to) ==
    LET after[k \in 0 .. Len(again)] ==
            IF k = 0 THEN ls ELSE ReqCreateWorld(after[k - 1], again[k], to[again[k]])
    IN after[Len(again)]

\* Every world that was being created on the lost space is asked for again
\* elsewhere, but does not return to _creating; the created ones are forgotten.
MgrNetworkDisconnect(s) ==
    LET rest == AppsWithout(s)
        lost == {w \in Worlds : creating[w] = s}
        ls == Taken(<<s, Mgr>>)
    IN /\ Arrives(<<s, Mgr>>, "disconnect")
       /\ apps' = rest
       /\ creating' = [w \in Worlds |-> IF w \in lost THEN None ELSE creating[w]]
       /\ created' = DropCreated(s)
       /\ IF rest = {} THEN link' = ls
          ELSE \E to \in [lost -> rest], again \in Ascending(lost) : link' = Resent(ls, again, to)
    /\ UNCHANGED <<spaceVars, gameVars, lobbyVars>>

(***************************************************************************)
(* Space.                                                                  *)
(***************************************************************************)
\* HandleCreateWorld: a new world, announced to appmgr and to every game.
HandleCreateWorld(s) ==
    LET w == Got(<<Mgr, s>>).arg
        sn == [sn |-> lastSn + 1, space |-> s, world |-> w]
        m == Msg("broadcast", sn)
    IN /\ s \in up /\ Arrives(<<Mgr, s>>, "create") /\ lastSn < MaxSn
       /\ lastSn' = lastSn + 1 /\ alive' = alive \union {sn}
       /\ link' = [l \in Links |->
                     IF l[1] = s THEN Append(link[l], m)
                     ELSE IF l = <<Mgr, s>> THEN Tail(link[l]) ELSE link[l]]
    /\ UNCHANGED <<up, crashes, mgrVars, gameVars, lobbyVars>>

\* SyncSpaceInfo runs on a timer for ever; the report of a space that appmgr knows
\* changes nothing, so only one that adds the space is a step.
SyncSpaceInfo(s) ==
    /\ s \in up /\ s \notin apps
    /\ ~ \E i \in DOMAIN link[<<s, Mgr>>] : link[<<s, Mgr>>][i].type = "sync"
    /\ link' = Put(link, <<s, Mgr>>, Msg("sync", s))
    /\ UNCHANGED <<mgrVars, spaceVars, gameVars, lobbyVars>>

\* The process dies: what was sent to it is lost, of what it sent some front part
\* still arrives, followed by the end of the connection.
Crash(s) ==
    /\ s \in up /\ crashes < MaxCrash
    /\ up' = up \ {s} /\ alive' = {a \in alive : a.space # s}
    /\ crashes' = crashes + 1
    /\ \E keep \in [{Mgr} \union Games -> 0 .. MaxSn + 1] :
           /\ \A q \in DOMAIN keep : keep[q] <= Len(link[<<s, q>>])
           /\ link' = [l \in Links |->
                 IF l = <<Mgr, s>> THEN <<>>
                 ELSE IF l[1] = s
                 THEN Append(SubSeq(link[l], 1, keep[l[2]]), Msg("disconnect", s))
                 ELSE link[l]]
    /\ UNCHANGED <<lastSn, mgrVars, gameVars, lobbyVars>>

\* The process is back once its old connections have been taken down.
Restart(s) ==
    /\ s \notin up /\ \A q \in {Mgr} \union Games : link[<<s, q>>] = <<>>
    /\ up' = up \union {s}
    /\ link' = [link EXCEPT ![<<Mgr, s>>] = <<>>]
    /\ UNCHANGED <<alive, lastSn, crashes, mgrVars, gameVars, lobbyVars>>

(***************************************************************************)
(* Game: the main thread and the logic thread.                             *)
(***************************************************************************)
LocatorAccepts(g, sn) == publics[g][sn.world] = None

\* WorldProxyLocator::HandleBroadcastCreateWorld, in the main thread.
LocatorBroadcastCreateWorld(g, from) ==
    LET sn == Got(<<from, g>>).arg
    IN /\ Arrives(<<from, g>>, "broadcast")
       /\ posted' = IF LocatorAccepts(g, sn) THEN [posted EXCEPT ![g] = Append(@, sn)] ELSE posted
       /\ link' = Taken(<<from, g>>)
    /\ UNCHANGED <<inbox, publics, proxies, mgrVars, spaceVars, lobbyVars>>

\* Everything else goes on to the logic thread.
GameDispatch(g, from) ==
    /\ link[<<from, g>>] # <<>> /\ Got(<<from, g>>).type \in {"disconnect", "proxy"}
    /\ inbox' = [inbox EXCEPT ![g] = Append(@, Got(<<from, g>>))]
    /\ link' = Taken(<<from, g>>)
    /\ UNCHANGED <<posted, publics, proxies, mgrVars, spaceVars, lobbyVars>>

\* ThreadMgr::UpdateCreatePacket hands the posted creations to the logic thread.
GameCreate(g) ==
    /\ posted[g] # <<>>
    /\ inbox' = [inbox EXCEPT ![g] = @ \o [i \in DOMAIN posted[g] |-> Msg("create", posted[g][i])]]
    /\ posted' = [posted EXCEPT ![g] = <<>>]
    /\ UNCHANGED <<link, publics, proxies, mgrVars, spaceVars, lobbyVars>>

LogicGets(g, type) == inbox[g] # <<>> /\ Head(inbox[g]).type = type

\* RegisterToLocator and Remove of WorldProxyLocator: the entry of a world id is
\* overwritten, and removed, whatever world it stands for.
RegisterToLocator(g, sn) == [publics EXCEPT ![g][sn.world] = sn]
Removed(g, sns) ==
    [publics EXCEPT ![g] = [w \in Worlds |-> IF \E a \in sns : a.world = w THEN None ELSE @[w]]]

\* WorldProxy::Awake: registered with the locator, announced in the process.
ProxyAwake(g) ==
    LET sn == Head(inbox[g]).arg
    IN /\ LogicGets(g, "create")
       /\ publics' = RegisterToLocator(g, sn)
       /\ proxies' = [proxies EXCEPT ![g] = Append(@, sn)]
       /\ link' = Put(link, <<g, g>>, Msg("proxy", sn))
       /\ inbox' = [inbox EXCEPT ![g] = Tail(@)]
    /\ UNCHANGED <<posted, mgrVars, spaceVars, lobbyVars>>

\* WorldProxy::HandleNetworkDisconnect of every proxy of the lost space.
ProxyNetworkDisconnect(g) ==
    LET s == Head(inbox[g]).arg
        mine == {a \in Range(proxies[g]) : a.space = s}
    IN /\ LogicGets(g, "disconnect")
       /\ publics' = Removed(g, mine)
       /\ proxies' = [proxies EXCEPT ![g] = SelectSeq(@, LAMBDA a : a.space # s)]
       /\ inbox' = [inbox EXCEPT ![g] = Tail(@)]
    /\ UNCHANGED <<link, posted, mgrVars, spaceVars, lobbyVars>>

LobbyBroadcastCreateWorldProxy(g) ==
    /\ LogicGets(g, "proxy")
    /\ LobbyProxyCreated(g, Head(inbox[g]).arg)
    /\ inbox' = [inbox EXCEPT ![g] = Tail(@)]
    /\ UNCHANGED <<link, posted, publics, proxies, mgrVars, spaceVars>>

GameStep(g) ==
    \/ \E from \in Spaces \union {Mgr, g} :
           LocatorBroadcastCreateWorld(g, from) \/ GameDispatch(g, from)
    \/ GameCreate(g) \/ ProxyAwake(g) \/ ProxyNetworkDisconnect(g)
    \/ LobbyBroadcastCreateWorldProxy(g)

MgrStep ==
    \/ \E g \in Games : HandleRequestWorld(g)
    \/ \E s \in Spaces :
           MgrBroadcastCreateWorld(s) \/ MgrAppInfoSync(s) \/ MgrNetworkDisconnect(s)

SpaceStep(s) == HandleCreateWorld(s) \/ SyncSpaceInfo(s)

Next ==
    \/ \E p \in Players : EnterPublicWorld(p)
    \/ MgrStep
    \/ \E s \in Spaces : SpaceStep(s) \/ Crash(s) \/ Restart(s)
    \/ \E g \in Games : GameStep(g)

\* Every process keeps running its update loops while it is up, and a link is
\* delivered in the end: strong fairness is not needed, a message at the head of
\* a link stays there.  Players need not come, spaces need not die.
Fairness ==
    /\ \A g \in Games : /\ WF_vars(GameCreate(g))
                        /\ WF_vars(ProxyAwake(g) \/ ProxyNetworkDisconnect(g)
                                     \/ LobbyBroadcastCreateWorldProxy(g))
                        /\ WF_vars(HandleRequestWorld(g))
                        /\ \A from \in Spaces \union {Mgr, g} :
                               WF_vars(LocatorBroadcastCreateWorld(g, from) \/ GameDispatch(g, from))
    /\ \A s \in Spaces : /\ WF_vars(HandleCreateWorld(s)) /\ WF_vars(SyncSpaceInfo(s))
                         /\ WF_vars(MgrBroadcastCreateWorld(s) \/ MgrAppInfoSync(s)
                                      \/ MgrNetworkDisconnect(s))

Spec == Init /\ [][Next]_vars /\ Fairness

-----------------------------------------------------------------------------
(***************************************************************************)
(* Properties.                                                             *)
(***************************************************************************)
TypeOK ==
    /\ apps \subseteq Spaces /\ up \subseteq Spaces
    /\ creating \in [Worlds -> Spaces \union {None}]
    /\ created \in [Worlds -> Sns \union {None}]
    /\ alive \subseteq Sns
    /\ publics \in [Games -> [Worlds -> Sns \union {None}]]
    /\ target \in [Players -> Sns \union {None}]

\* appmgr never holds on to a space it has seen disconnect: whatever is being
\* created is being created on a space it knows, and every created world lives on
\* one (CreateWorldComponent::HandleNetworkDisconnect).
MgrConsistent ==
    \A w \in Worlds : /\ creating[w] # None => creating[w] \in apps
                      /\ created[w] # None => created[w].space \in apps

\* A public world exists once (CreateWorldComponent::HandleRequestWorld: a world
\* that is being created or has been created is not created again).
UniqueWorld == \A a, b \in alive : a.world = b.world => a = b

\* The processes agree on which world a public id stands for: no game's locator
\* and no teleported player has another one than appmgr.
GamesAgree ==
    \A w \in Worlds : created[w] # None =>
        /\ \A g \in Games : publics[g][w] \in {None, created[w]}
        /\ \A p \in Players : target[p] # None /\ Wish[p] = w => target[p] = created[w]

\* A player who waits in the lobby gets into the world in the end
\* (Lobby::EnterPublicWorld to Lobby::HandleBroadcastCreateWorldProxy).
WaitersEnter ==
    \A p \in Players :
        (p \in waiting[Home[p]][Wish[p]]) ~> (target[p] # None)

\* When a game has worked off all it was sent, its proxies belong to worlds whose
\* space is still up (WorldProxy::HandleNetworkDisconnect: the proxy has to be
\* destroyed when its space goes).
NoStaleProxy ==
    \A g \in Games :
        (/\ inbox[g] = <<>> /\ posted[g] = <<>>
         /\ \A s \in Spaces : link[<<s, g>>] = <<>>)
        => \A i \in DOMAIN proxies[g] : proxies[g][i] \in alive

\* A game has one proxy for a world (WorldProxyLocator::HandleBroadcastCreateWorld
\* refuses a world id that is registered).
OneProxy ==
    \A g \in Games : \A i, j \in DOMAIN proxies[g] :
        proxies[g][i].world = proxies[g][j].world => i = j
=============================================================================
