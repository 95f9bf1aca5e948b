# Verification of Unity-MMO-Server

TLA+ models, TLC runs and TLAPS proofs for the game server under
`src/tcp_server/src`. The server is a set of C++ processes (login, game, space,
appmgr, dbmgr, or all of them in one "allinone" process) built on one framework
library, `libs/libserver`. Vendored code (`src/include`, `src/libs`, mongoose),
generated protobuf code and the Visual Studio and CMake files are left aside. The
repository has no tests; what the code promises is read from its comments, its
logged errors and its conditions.

Paths below are relative to `src/tcp_server/src`. `PROJECT.json` lists the
components, the runs, the source lines of every definition, the mutants, the
hazards and the theorems.

## 1. Inventory

### The framework (`libs/libserver`)

| component | state | operations | interacts with |
|---|---|---|---|
| Packet pool: `object_pool.h`, `object_pool_packet.cpp`, `packet.cpp`, `cache_refresh.h` | `_free`, `_objs`, `_adds`, `_removes`; per packet `_ref`, `_isRefOpen` | MallocPacket, FreeObject, Update, AddRef, RemoveRef, OpenRef | every thread |
| Dispatch: `thread_mgr.*`, `thread_collector*.cpp`, `cache_swap.h` | `_packets`, `_createPackets`, `_nextThreadSn` | DispatchPacket, CreateComponentWithSn, UpdateCreatePacket, UpdateDispatchPacket | the lists of all threads |
| Message system: `message_system.cpp` | `_cachePackets`, `_callbacks` | AddPacketToList, RegisterFunction, RemoveFunction, Update | components |
| Entities and components: `entity*.cpp`, `component*.cpp`, `object_pool.h`, `update_system.cpp`, `timer_component.cpp` | pools, a collection per type, `_components`, timers and their heap | AddComponent, RemoveComponent, BackToPool, Swap, AddTimer, Update | all of the game code |
| Network: `network*.cpp`, `connect_obj.cpp` | connections, `_sendMsgList` | Accept, Connect, Recv, Send, Close, SendPacket | sockets, packet bus |
| Buffers and framing: `base_buffer.cpp`, `network_buffer.cpp` | ring with `_beginIndex`, `_endIndex`, `_dataSize` | AddPacket, GetTcpPacket, GetHttpPacket, ReAllocBuffer | ConnectObj |
| Locators: `network_locator.cpp`, `socket_locator.cpp`, `message_system_help.cpp` | process to connection, socket to world | RegisterToLocator, SendPacket | network |
| State of other processes: `sync_component.cpp` | `_apps` | Parse, GetOneApp, HandleNetworkDisconnect | appmgr, game |
| Threads: `thread.cpp`, `server_app.cpp` | state of each thread | Start, Stop, Dispose | packet bus |
| Numbers: `global.cpp` | `_snTicket` | GenerateSN | everything that has a number |
| Redis: `redis_connector.cpp` | a connection | Setnx, Setex, Get, Delete | login, game |
| Console, log, tracing, configuration | none that matters here | | |

### The processes (`apps`, `libs/libplayer`)

| component | state | operations | interacts with |
|---|---|---|---|
| Creation of worlds: `appmgr/create_world_component.cpp`, `space/world_operator_component.cpp`, `game/world_proxy_locator.cpp`, `game/lobby.cpp` | `_creating`, `_created`, `_publics`, `_waitingForWorld` | HandleRequestWorld, HandleCreateWorld, HandleBroadcastCreateWorld, HandleNetworkDisconnect | appmgr, space and game by messages |
| Teleport: `game/world_component_teleport.cpp`, `game/world_proxy.cpp`, `space/world.cpp` | `_objects`, players of each proxy and world | HandleC2GEnterWorld, CreateTeleportObject, Check, HandleTeleport, HandleTeleportAfter | two proxies and two worlds |
| Login and online state: `login/account.cpp`, `login/redis_login.cpp`, `game/redis_game.cpp`, `game/lobby.cpp`, the online components | two online keys and a token in redis, `_accounts` | HandleAccountCheck, HandleSelectPlayer, HandleLoginByToken, BackToPool | login, game, redis |
| Teams, trades, duels: `game/world_proxy.cpp`, `game/world_proxy_gather.cpp` | `teamMap`, `tradeMap` | invitations and answers | proxies, clients |
| Worlds: `space/world.cpp`, `space/player_manager_component.cpp` | `_players`, `_adds`, two timers | HandleSyncPlayer, HandleG2SRemovePlayer, HandleNetworkDisconnect, SyncAppearTimer, RemoveAllPlayers | games, clients, npcs |
| Npcs: `space/npc.cpp`, `ai_system.cpp`, `bt_*`, `move_*` (`fsm_*` is not used any more) | hit points, `target`, `linker`, behaviour tree, event queue | Update, AddEvent, GetDamage, SetLinkPlayer | players of the world |
| Commands of players: `libplayer/cmd_*` | current and previous command | Execute | players, npcs |
| Database: `dbmgr/mysql_*` | a connection per thread | query, create, save | login, lobby, worlds |

### What is hard here

* Many threads share packets. The only thing between a thread that still reads a
  packet and the reuse of its buffer is a counter and a flag that others change.
* Every list is double-buffered; a packet goes through two of them in a row.
* Objects are pooled. A pointer to an object outlives it in the language's sense,
  but not in the program's: the memory is given to the next object of that type.
* TCP delivers bytes. A frame may be cut anywhere, at the end of the ring too.
* The creation of a world takes four processes, of which a space may die at any
  time; the same event reaches a game over several connections and threads.
* A player's jump is a hand-over between two proxies and two worlds, none of which
  sees the others' state, while the client goes on sending and may disconnect.
* Connections between processes are known by socket number, and the system gives a
  closed number to the next connection at once, while packets and tags for the old
  one are still in lists of other threads.
* Npcs and commands hold pointers to players, who leave by messages, disconnects or
  with their whole game; events for an Npc come in every phase of its life.
* The state of an account is spread over redis keys that are read and written one
  command at a time by several processes.

For each component the properties that make it correct are those of section 4;
what is exposed and not covered yet is in `PROJECT.json` under "hazards", with a note.

## 2. Modules

| module | models | state, in the code's terms |
|---|---|---|
| `PacketBus` | packet pool, dispatch and message lists of one process, with its threads | `writer`/`reader` are the two lists of every CacheSwap, `pc` is where a thread is in its loop, `hold` is a packet a handler has allocated and not passed on |
| `Mailboxes` | what the bus promises: a mailbox per broadcast thread, a pool of tasks per exclusive collector | `box`, `pool` |
| `PacketDelivery` | the refinement mapping from `PacketBus` to `Mailboxes` | `BoxOf`: what a thread has in its two lists, then what ThreadMgr's two lists hold for it; `PoolOf`: how many threads of a collector have a task |
| `RingBuffer` | `Buffer` and `NetworkBuffer` as operators on a record | the fields of the C++ object |
| `PacketStream` | one direction of a connection: AddPacket, partial `::send` and `::recv`, GetTcpPacket, reuse of the pooled objects | two rings and the bytes on the wire |
| `WorldCreate` | creation of public worlds by appmgr, spaces and games | `_creating`, `_created`, `_publics`, proxies, waiting players, a FIFO link per connection |
| `Teleport` | jumps of players between proxies and worlds | a message list per proxy and world, `_objects`, the players each holds |
| `LoginOnline` | an account between login processes, redis and games | three redis keys, the request a redis thread is at, the answers on their way |
| `ComponentLife` | one thread's frame: pools, collections, components, timers, functions | `_objs`, `_addObjs`, `_removeObjs` of pools and collections, `_components`, `_timers`, the heap, `_callbacks` |
| `AppLinks` | the connections between processes: dialing, accepting, registering, tagging, breaking, dialing again, and the packets sent over them | `obj` is `Network::_connects` by socket number, `locator` is `NetworkLocator::_netIdentify`, a list per thread, the bytes and the state of each TCP connection |
| `WorldNpc` | a world of a space: its players, what clients show, one Npc with its behaviour tree, commands of players | `npc` is the Npc, its nodes' status and its event queue; `players`, `_adds`, `sees`, `cmd` |
| `PacketBusProofs`, `PacketStreamProofs` (rings and streams), `WorldCreateProofs`, `LoginOnlineProofs`, `ComponentLifeProofs`, `WorldNpcProofs`, `TeleportProofs`, `AppLinksProofs` | theorems, see section 5 | the inductive invariants |
| `MC...` | constants for TLC | |

Correspondence worth knowing:

* **PacketBus.** One action is one critical section or one step between two.
  Thread 0 is the main thread (`ServerApp::Run`: `ThreadMgr::Update`, its own
  message list, the pool's update). What callbacks do with a packet is one of the
  message types of `Msgs`. `CreateBegin`, `DispatchBegin`, `Deliver` and
  `DeliverEnd` are one turn of the loops of `UpdateCreatePacket` and
  `UpdateDispatchPacket`: the packet enters the list of one thread at a time and is
  opened (`OpenRef`) when the last one has it, so a thread may be done with it
  before the next one gets it. Pings are read and never freed
  (`connect_obj.cpp:145-152`), and so are creations for a thread type that does not
  exist (`thread_mgr.cpp:130-134`): both leaks are in the model, which is why the
  liveness properties speak of dispatched and of sent packets only. Two more leaks
  are left out, since a packet on those paths is in no list: a packet whose socket's
  network is unknown (`message_system_help.cpp:179`) and one that reaches a network
  of another type (`network.cpp:352-356`) are logged and never freed; `SendPacket`
  has the packet in `_sendMsgList` in the same step.
* **PacketStream.** Bytes are records of field, value and position, so that a byte
  out of place is seen. Field and head sizes are scaled down (1, 1 and 2 bytes) and
  `SizeMod` stands for 2^16. `out` is what Epoll does with the sender's socket:
  AddPacket asks for EPOLLOUT; a `::send` that took fewer bytes than offered, or the
  last ones, ends the loop of `ConnectObj::Send`, and EPOLLOUT is dropped
  (`network.cpp:230`) until another packet is added (`network.cpp:342`); a `::send`
  that takes none, EAGAIN included, removes the connection (`SendFails`).
* **WorldCreate.** A link is a TCP connection: in order, nothing lost while both
  ends are up; when a space dies, what it had sent arrives up to some point and is
  followed by the disconnect. Numbers of worlds carry the space, as
  `GetAppIdFromSN` does. The periodic report of a space is a step only when it
  changes something.
* **Teleport.** The data of a player is a version that grows with every change in a
  world. `CreateWorld` stands for what `WorldCreate` models in detail. The loop of
  `HandleBroadcastCreateWorldProxy` over public worlds is computed in one step; a
  loop that would not end puts the proxy into `hung`.
* **LoginOnline.** All clients are of one account, the only case in which they
  meet; those in `Enter` go on to a game. Each redis command is a step. `checks` are
  the password checks and the queries of the account's players under way: their
  answer goes to whoever has the account by then, who may then select a player. Timers
  (`SetOnlineFlag`) are steps of their own. `last` is the account in the lobby's
  collector: a jump or a disconnect of a lobby's Player removes it, one of a proxy's
  Player does not. `letIn` is a history variable. Keys of somebody who is there do not
  expire (they are refreshed at half their time), all others may.
* **ComponentLife.** `Order` is the order of the collections in
  `EntitySystem::Update` (a hash map: any order happens). Handlers run in the
  message phase and in the call phase.

* **AppLinks.** A connection is a TCP connection with two ends; a socket number is
  the lowest free one of its process, as the system gives it. `Epoll`, `Accept`
  and `OnNetworkUpdate` of a network interleave with the main thread, which runs
  `NetworkLocator`. A connection may break at any moment, also before anybody has
  accepted, entered or tagged it. `AddNetworkIdentify` is two steps, as it enters the
  socket under its lock and registers without it (`Busy`: the network's thread is in
  between). A process that dies loses all it had; its peers see the end of their
  connections.
* **WorldNpc.** The tree is Repeat(Sequence(Birth, Parallel(View, Sense, EdSelector),
  Death)); `phase` is the child at which the Sequence is, `curr` the child of the
  selector, `entered` whether it has status Running. Distances and whether a time
  has run out are inputs of an update, so every walk of everybody is covered.
  `BtComponent::Update` keeps a reference to the top of its queue and reads it after
  `pop`: the next event has moved there, so of several events the first is lost
  and the last is handled twice (`Handled`). Equal priorities come in any order.
  A CmdComponent keeps its command in the pool (`cmd_component.cpp:9-11`), so who comes
  may find the one of somebody who left (`Pooled`); `cmd` keeps it for that, until its
  owner comes again.
  Steps with undefined behaviour are recorded in `faults` and end the behaviour.

Bounds are constants of the modules (`Packets`, `MaxEmit`, `MaxSent`, `MaxConns`,
`WireCap`, `MaxSn`, `MaxDungeon`, `MaxAsk`, `MaxGain`, `MaxDrop`,
`MaxToken`, `MaxVersion`, `MaxPending`, `MaxTimed`, `MaxCrash`, `MaxSend`, `MaxJoin`, `MaxHit`,
`MaxLoss`). Nothing else is cut off.

## 3. Plan

Done: the modules above; the theorems of section 5.

Next, in this order:

1. `ComponentLife` with two entities of one type and number in one frame: the
   second is in neither list of its collection.
2. Teams and trades over several proxies (`TeamTrade`), members jumping and
   disconnecting; the short cut of a team into its dungeon.
3. The way back into a dungeon (`Lobby::HandleQueryPlayerRs`, `QueryWorld`) as an
   extension of `WorldCreate`.
4. `PlayerSave`: saves of one player over several mysql threads, failing queries.
5. Start and stop of threads, `GenerateSN` as a pure algorithm, times in
   `TimerComponent`.

Runs stay few: one or two per module, each checking all properties that share its
instance.

## 4. Runs

Every passing run has a mutant per property: an operator next to the definition it
stands in for, changed as a plausible bug would, under which TLC finds the property
violated.

| run | instance | shows |
|---|---|---|
| `bus_threads` | main thread, two mysql threads, two packets, two threads that emit | `_ref` is the number of lists a packet is in (`RefCount`); no list and no handler has a packet the pool has taken or will take (`NoUseAfterRecycle`); a packet is freed once per life (`FreedOnce`); the bus implements `Mailboxes` (`Delivery`) |
| `bus_network` | two listen threads, one with a network | the inductive invariant `IInv`; dispatched and sent packets come back to the free list |
| `stream` | two connections over the same objects, two packets each of known and unknown ids, rings of 5 and 6 bytes | no byte lost, repeated or reordered (`StreamStep`), `::recv` always has room (`RecvRoom`), the receiver has the packets of its connection and no others (`Received`), and whatever has left the sender is taken out in the end: packets stay behind only where a partial `::send` has left a rest or the connection is removed (`Delivered`) |
| `world_calm` | three players on two games, two spaces, nobody dies | a public world is created once, all agree on it, whoever waits gets in |
| `world_crash` | two spaces, two deaths, one space unknown at first | appmgr's tables never point to a space it has seen disconnect |
| `world_twice` | one space dies | violation: see below |
| `teleport_jump` | two players, a known world, a world to be created and a dungeon, data that changes | nobody is in two places (`OneWorld`) or nowhere (`NeverNowhere`), and a jump carries data at least as new as when it began (`SyncedData`) |
| `teleport_drop` | one player, three jumps, a disconnect anywhere | a proxy and its world agree when the messages between them are worked off; a jump of a client that stays ends |
| `login` | two clients of one account, two login processes, two games, a token, two Players in turn | an account is logging in at one process at most, though both ask at once (`OneLogin`), the online flag follows the Players of a session (`FlagFollowsPlayer`), a game lets nobody in twice with one token (`TokenLetsInOnce`) |
| `life_frame` | a world and its proxy (of one number or two), a component with a timer, an update function, a registered function | pools lose and duplicate nothing, components go with their entities before the memory is reused, no timer, update or function calls what is gone |
| `links` | a game dials appmgr and dbmgr; a connection breaks at any moment, appmgr dies and comes back, a packet waits to be sent | the game's entries lead to the process they name or the notice of the end is waiting (`RouteLeads`), there is one connection to each (`DialedOnce`), a packet never gets to the other process although both have had the same socket number (`RegisteredSafe`), and in the end the game is connected to both (`Reconnects`) |
| `npc_life` | two players of two games, one Npc that dies at the second hit, one game lost | the Npc points at nobody who is gone as long as its players' games are up (`PointersLive`), the client that moves it was told so (`LinkerTold`), what clients are told it does is what runs (`CurActRuns`), clients show who is there (`ShowsPlayers`); a dead Npc lives again (`LivesAgain`) and gets a client to move it (`GetsLinker`), whatever events are lost |

The type invariants (`TypeOK`) of the other modules hold in their runs as well; the
configurations list the properties a fault in the code would break.

Why the bounds are enough to be interesting. Two packets and three threads give the
cases in which a packet is in some lists and through with others while the second is
allocated or recycled. Rings of 5 and 6 bytes are smaller than two frames, so every
cut, wrap and reallocation happens. Two spaces, two deaths and two games are what the
orders of request, answer and disconnect need. Two players on one target and three
jumps let one jump meet the leftovers of another. In `life_frame` five numbers let
every object be used twice. In `links` two socket numbers per process are given
out again after every break, so that the number of one connection is soon that of the
other; the safety properties hold with three connections and two breaks, with two
games on one appmgr and with games in a chain, too. In `npc_life` four hit points and
hits of three make an Npc flee at the first hit and die at the second, and two players
let one leave while the other is the target, the linker or neither; their commands
are attacks (`CmdTypes`), the other kinds are used where a statement below needs them.
In `login` both login processes ask redis before either is answered, and a token is
presented a second time, at the game that knows it or at the other one.

`CHECK_DEADLOCK FALSE` is set where the environment may simply stop: clients that
ask no more, connections with nothing left to send. The packet bus and the frame
never stop and are checked for deadlock.

**Fairness.** Weak fairness of the threads' own loops, which run for ever
(`ServerApp::Run`, `Thread::Start`), and of links, which deliver what is at their
head. Clients, crashes, allocations, reconnects, changes of data and expiring keys
have none. `LoginOnline` and `ComponentLife` have only safety properties. In
`PacketStream` a socket for which EPOLLOUT is set gets its `::send`, which takes bytes
or fails (`Send \/ SendFails`), as Epoll reports it when it has room; without EPOLLOUT
nothing is sent, and no packet need be added. In `AppLinks` a process that died is
started again, and connect() answers in the end. In `WorldNpc` updates go on and the
clock moves, so that some update finds a waiting node's time run out (`TimeRunsOut`,
recorded by the parity `clock`), and the world's timer comes round; nothing is assumed
about where anybody stands, and no client needs to ask for anything.

**Instances that are narrowed on purpose.** In `world_calm` no space dies and all
are known; in `teleport_jump` and `teleport_drop` a client waits for its arrival
before it asks again (`Patient`); in `teleport_drop` there is one player; in
`login` a client returns when its old Player is quite gone and is at one game at a
time (`Rejoin = FALSE`; `OneLogin` and `TokenLetsInOnce` do not need it, see the
proofs); in `links` connect() never succeeds at once (`Immediate = FALSE`), and the
properties are those of the side that dials: what the side that is dialed knows of a
connection comes late and by socket number, and is not always true; in `npc_life`
clients name players who are there (`Present`) and hit an Npc that has been alive
(`Awake`). Without these the code does not keep the property; that is what the
following section is about. In `life_frame` there is one object of a number and type
at a time (`AddTwin`): a second one in the same collection is given up by
`CacheRefresh::AddObj` (`cache_refresh.h:42`, `component_collections.cpp:23-27`), so
that it is never updated and never goes back to its pool; `MCWorldCreate_proxy` shows
how two WorldProxy of one number come about.

### Statements the model refutes

One is a run of the project and a finding in `PROJECT.json`:

* `world_twice` (`UniqueWorld`): when a space dies, `CreateWorldComponent` asks
  another space for the worlds it was creating but does not put them back into
  `_creating` (`create_world_component.cpp:110`); the next request for the world
  creates it a second time.

The others are stated in the modules and refuted by TLC with the configuration
named, with this statement in place of the ones it lists and the constants changed as
noted; they are kept for the day the code changes.

| configuration | statement | what happens |
|---|---|---|
| `MCWorldCreate_late` | `WaitersEnter` | a request made before any space is known is dropped; the lobby has somebody waiting and never asks again |
| `MCWorldCreate_stale` | `NoStaleProxy` | the disconnect of a space overtakes the posted creation of a proxy |
| `MCWorldCreate_proxy` | `OneProxy` | the announcement and appmgr's answer both pass the locator's check |
| `MCTeleport_hang` | `Arrives` | the loop over waiting jumps for a new public world (`world_component_teleport.cpp:112`) finds the same object again while its data is missing, and the thread that would receive the data is the one that loops |
| `MCTeleport_pair` | `Arrives` | two players, one dungeon id: both announcements go to the first object |
| `MCTeleport_twice` | `OneWorld` | a second request between MI_Teleport and MI_TeleportAfter starts a second jump |
| `MCTeleport_lost` | `NoLostProgress` | changes after the copy of the data are lost |
| `MCTeleport_crash` | `NoNullPlayer` | an object whose player has left is completed |
| `MCTeleport_crash` | `NoGhost` | a disconnect while the jump's message is under way leaves the player in the target world |
| `MCLoginOnline_double` | `OneSession` | between the two online keys an account has neither |
| `MCLoginOnline_lockout` | `KeyOwned` | the login key is taken although the answer is no, and stays |
| `MCLoginOnline_rejoin` | `FlagFollowsPlayer` | old and new Player both have version 1, the old one deletes the flag |
| `MCLoginOnline_rejoin`, `Games = {g1, g2}` | `TokenIsSingleUse` | a client presents its token at two games and both read it before either removes it |
| `MCLoginOnline_refused` | `RemovesUsedToken` | a refused client removes the token of another login |
| `MCComponentLife_twins` | `Heard` | two entities of one number in one thread: the second function is dropped |
| `MCComponentLife_leak` | `NoFunctionLeft` | the component of a function is never given back |
| `MCComponentLife_giveup` | `TimersOwned` | Remove(list) gives up at a timer that has run out (no component of today has such a pair) |
| `MCAppLinks_star` | `NoMisdelivery` | a packet waits in `_sendMsgList` while its socket is closed and its number is accepted again: a connection that is not tagged yet takes it |
| `MCAppLinks_star` | `EntryLeads` | a connection ends before MI_NetworkListenKey has tagged it: its notice has no tag and the entry of the side that was dialed stays |
| `MCAppLinks_star` | `TagsTrue` | MI_NetworkListenKey meets the next owner of the number |
| `MCAppLinks_lost` | `FoundAgain` | a register that meets an old entry does not replace its socket; the notice of the old connection then takes the entry |
| `MCAppLinks_both`, `Immediate = TRUE` | `Reconnects` | a connect() that succeeds at once never enters its socket |
| `MCAppLinks_twoways` | `OneConnection` | both ends of a broken connection have a connector, and both dial |
| `MCWorldNpc_life`, `Awake = FALSE` | `NoEndNode` | a hit before the Npc was ever alive: `SwitchNode` follows the end of its list |
| `MCWorldNpc_life` | `NoDangling` | a game is lost: `RemoveAllPlayers` leaves the Npcs' pointers to its Players |
| `MCWorldNpc_life`, `Present = FALSE` | `NoNullPlayer` | an Observe or Pvp command, or a question, names a player who has just left |
| `MCWorldNpc_life`, `CmdTypes = {"attack", "duel"}` | `NoStaleCommand` | a command keeps its Player after that player has left |
| `MCWorldNpc_life`, `Present = FALSE` | `NoStrayHit` | a hit at a player who has just left: `npcIdxMap[sn]` makes an entry 0, the first Npc is hurt |
| `MCWorldNpc_life`, `MaxHit = 3` | `PaidOnce` | a hit on a dead Npc pays again |
| `MCWorldNpc_life` | `OneMover` | Birth and Death forget the linker without telling its client, the next one is told too |
| `MCWorldNpc_life` | `FleesIfItMust` | Flee and another event at once: Flee is the one that is lost, `fleeing` stays set |
| `MCWorldNpc_life` | `BornAnew` | the last player leaves while the Npc decides to flee: Birth is lost |
| `MCWorldNpc_life`, `Dungeon = TRUE` | `Announced` | the timers of an empty dungeon are removed; who enters later is not announced |
| `MCPacketStream_stream`, `MaxSent = 1` | `RestIsSent` | after a partial `::send` Epoll drops EPOLLOUT, and the rest stays until another packet is added |
| `MCPacketStream_long` | `FrameFormat` | a body close to 2^16 bytes wraps the length field |

## 5. Proofs

**`PacketBusProofs`.** For every set of packets, threads, collectors and messages,
the single-threaded process without collectors included:

    Spec => []IInv, []TypeOK, []RefCount, []NoUseAfterRecycle, []FreedOnce

`RefCount`, `NoUseAfterRecycle` and `FreedOnce` are not inductive. What makes them so
is ownership. `IInv` adds: heap, free list and use are disjoint (`PoolPartition`); no
list has a packet twice (`ListsDistinct`); a packet has at most one owner among the
handlers that hold one, ThreadMgr's lists and the networks' lists (`OneOwner`); an
opened packet has no owner (`OpenedHasNoOwner`); a packet that is not open is in a
thread's list only while its owner is adding it (`ListedWhileOwned`); while a packet
is being delivered it is at the head of the list (`DeliveringOne`). So a count of zero
on an opened packet means that nobody has it or ever will, which is what
`CanBack2Pool` relies on. There is one lemma per kind of step: `HandOver` (a handler
passes its packet to a list), `AddFacts` (a list gets a packet and its count),
`OpenAndLetGo`, `LetGo`, `FreeFacts`, `MessageDoneStep`, `MallocStep`,
`PoolUpdateStep`; the loops' other steps change nothing but the program counter
(`LoopStep`). Assumptions: those of `PacketBus` (finite sets of packets and threads,
collectors with threads, numbers that are naturals), evaluated by TLC in every run.

Then the refinement, for the same constants:

    Spec => Delivery

`Delivery` is `Mailboxes` with what each thread has still to process: the dispatched
packets in its own lists, then ThreadMgr's lists, where the packet at hand counts until
the thread has it. `BusInv` adds to `IInv` what this mapping needs: a reader list is
walked to its end before the next swap, so a swap changes no order (`Walked`); a packet
in ThreadMgr's lists has been filled in with one of the types it dispatches, a packet
in the list of components to create has not (`Kinds`); a task at hand is still to be
added to at most one thread of an exclusive collector (`OneEach`). Each step of the
program is a step of the mailboxes or none: `DispatchPacket` is `Publish`
(`DispatchMap`); a thread that is done with a packet does `Consume`, or `Take` if it
belongs to an exclusive collector (`MessageDoneMap`); everything between moves packets
from one list to another and no mailbox sees it, in particular the packet at hand being
added to a list (`DeliverMap`: gone from ThreadMgr's lists and at the end of the
thread's own in one step) and the other packets threads post to themselves (`AddOther`).
`Kept` takes the dispatched packets out of a thread's lists; what it does to the head
and the end of a list is proved by `IntervalInduction` over positions (`KeptHead`,
`KeptAppend`). The mapping assumes that a thread belongs to one collector
(`MembersAssumption`; `ThreadCollector::CreateThread` makes its own threads).

**`PacketStreamProofs`.** First the ring, for every ring size, content and
`Additional > 0`: a reallocation keeps the content (`ReAllocKeepsContent`), a write
that fits appends (`MemcpyAppends`), `::recv` into `GetWriteSize` bytes appends
(`RecvAppends`), `RemoveData` drops the front (`RemoveDataDropsFront`) and a read
returns it (`ReadIsFront`). Each also shows that the ring stays well-formed
(`GoodRing`), the case of equal indices included. `Content` reads the ring through
`Slot`, which wraps; the proofs compare it position by position before and after.

Then the connection, for every size of rings, fields and heads, every set of packets
and every way to cut the stream:

    NoWrap => (Spec => []StreamInv, StreamStep, []Received, []RecvRoom, []FrameFormat, []TypeOK)

`Received` is not inductive: what GetTcpPacket will cut out depends on the bytes under
way. `StreamInv` says what they are: receiver's ring, wire and sender's ring together
are the frames of the packets sent and not yet received (`Framed`: there are offsets
at which each frame begins and ends, so no recursion is needed). `FramedAppend` is
AddPacket, `FramedHead` and `FramedDrop` are GetTcpPacket; `ParseFrame` follows its four
reads and removals through the ring; `StreamSend`, `StreamRecv` and `StreamDrop` say that the
other steps only move the borders between the three parts. The hypothesis `NoWrap` is
that the frames of `Kinds` fit the 16-bit length field. The code does not ensure it, and
without it even the rings overflow (`MCPacketStream_long`): AddPacket makes room for the
wrapped length.

**`LoginOnlineProofs`.** For any number of clients, login and game processes and tokens:

    Spec => []LoginInv, []OneLogin, []TokenInv, []TokenLetsInOnce, []TypeOK
    OneClient, ~ Rejoin:  Spec => []FlagInv, []FlagFollowsPlayer

An account's claim on the login key passes through five places: taken by the redis
thread, granted in an answer under way, an Account that is in, one that is leaving, a
delete request in the queue. `LoginInv`: there is one claim at most among all login
processes, and the key is set while there is one. So the `setnx` that grants the next
claim meets none (no matter that keys expire when nobody refreshes them: that is an
action without a claim). `TokenInv`: tokens to come are greater than all there are
(`Issued`); a game is told once of a token (`ToldOnce`) and has let in at most one
Player with it (`LetInOnce`), and then the token is neither in redis nor read by the
game's redis thread (`Spent`), which removes what it has read before it answers. Another
game may have read it, too: so each game counts for itself, and `TokenIsSingleUse` is
refuted. Assumptions: the names of login and game processes differ and `None` is none
of them (`NamesAssumption`), and no record of a Player (`PlayersAssumption`).

The flag follows the Player when one client goes on to a game (`OneClient`) and comes
back, there or at another one, when its old Players are gone (`~ Rejoin`), which is what
run `login` checks, over any number of games.
Both hypotheses are needed: `MCLoginOnline_rejoin` refutes the property with `Rejoin`, and
two clients that hold tokens of one account are in with version 1 each, so that the one
that leaves deletes the flag of the other. `FlagInv`: one game at most has a Player, a
Player waiting for `BackToPool` or a delete request (`OneGame`); every request that sets
the flag to a version is covered by one of these, a delete request only if it comes later in
the queue (`SyncLives`), and so is the flag itself (`FlagLives`); the Player that is there has
its version in the flag or in a request still to be done, or its timer is still to ask,
and everything that will delete the flag is of an earlier version (`Latest`), so that
`HandlePlayerDeleteOnlineToRedis` leaves it alone; nobody writes the flag between the GET and the SET or DEL of a redis thread
(`ReadNow`), which follows from `OneGame` and makes the three steps as good as one.

**`ComponentLifeProofs`.** For any objects, types and order of the collections:

    Spec => []LifeInv, []PoolExact, []PartsFollow, []NoReuse, []CallsLive, []CallbacksOwned, []TypeOK
    OnceLast => (Spec => []TimerInv, []TimersOwned)

`LifeInv` ties pools and collections together: an object is free or has one entry in
its pool (`PoolInv`); a collection has exactly the living objects of its type, under the
numbers they have now (`CollInv`); a component is listed by its entity or noted for removal
(`PartInv`); the memory of a dead parent is free only until the component's own
collection has its turn in the same frame (`ReuseInv`); the component of a function is never
removed (`FunctionInv`, which is also the leak of `MCComponentLife_leak`). The swap of a
collection is the one step that touches all of it at once; it has its lemmas
(`Swapped`). `TimersOwned` needs `OnceLast`: of the timers a component registers, one
that runs out comes last. All components of today are like that; with another order
`Remove(list)` gives up early and TLC refutes it (`MCComponentLife_giveup`).

**`WorldNpcProofs`.** For any players, games, hit points and updates:

    Spec => [](WorldInv /\ NpcInv), []PointersLive, []LinkerTold, []CurActRuns, []ShowsPlayers, []TypeOK

`Good(S)` is the set of Npcs that point only to players of `S`, whose linker was told,
and that run an action only below the Parallel node, where the action clients are told is
the one that runs. Each node of the tree, each event and each call from outside takes a
Good Npc to a Good Npc, with the players it points to among those present; so there is a
lemma per node and the theorem follows the tree. The events of one update are a
loop over a queue of any length; what it keeps is shown with `IntervalInduction` over the
stages of the loop (`Stages`). `ShowsPlayers` rests on `Shown`: two players of a world see
each other unless one is still in `_adds`.

**`WorldCreateProofs`.** For any number of games, spaces, worlds, requests and crashes

    Spec => [](MgrInv /\ GameTypes), []MgrConsistent, []TypeOK

and, as long as no space dies,

    MaxCrash = 0 => (Spec => []CalmInv, []UniqueWorld, []GamesAgree)

`MgrInv`: appmgr asks only spaces it knows or that have died since (`CreateKnown`), and
what a dead space announced arrives before its disconnect, which is the last message of
the link (`EndsLast`); so no announcement can put a space back into tables from which the
disconnect has removed it. `CalmInv`: a create under way stands for a world that does not
exist, is noted in `_creating` and was asked for once (`AskedOnce`); appmgr has every world
that exists in `_creating` or `_created`, and one in `_created` exists and is no longer in
`_creating` (`AllNoted`); no message speaks of a world that does not exist (`Quiet`), and
neither do the tables of the games or the targets of the players (`Meant`). The hypothesis cannot be dropped: `world_twice` refutes `UniqueWorld`
with one crash. The loop of `HandleNetworkDisconnect` (`Resent`) is handled with
`IntervalInduction`. Assumptions: finitely many worlds; games, spaces and appmgr
have different names.

**`TeleportProofs`.** For any worlds, players, clients and disconnects:

    Spec => [](Typed /\ Matches), []ProxyMatchesWorld, []TypeOK

and for clients that wait for their arrival before they ask again and stay connected

    Patient, MaxDrop = 0 => (Spec => []JumpInv, []OneWorld, []NeverNowhere, []SyncedData, []NoNullPlayer)

`Matches`: of the messages about a player in a world's list, the last one that adds or
removes it says what the proxy holds now; with none the two agree. `JumpInv` follows each
player through its jump: at rest, asked (the request is in the list of its proxy), jump
(there is an object, and at most one question or answer about the data), sent (MI_Teleport
is in the target's list), enter (the target world is to add it). The proxy that
`SocketLocator` names has the player in every stage and nobody has told it to let go;
any other proxy that has it has MI_TeleportAfter in its list once, and any other world is
about to hear of it (`Left`). The order inside the lists matters: MI_TeleportAfter is
before an MI_Teleport that brings the player back to the same proxy, and the removal
before the player's return to the same world (`Before`). So `HandleTeleport` never
refuses a player and neither does `World::HandleSyncPlayer`. A step about another player
leaves all this alone (`FrameAll`); there is one lemma per handler for the player it is
about. Neither hypothesis can be dropped: `MCTeleport_twice` refutes `OneWorld` for an
impatient client, `MCTeleport_crash` refutes `NoNullPlayer` with one disconnect.
Assumptions: finitely many players; `None` is no data, world or object
(`NoneAssumption`).

**`AppLinksProofs`.** For any processes, sockets, connections, breaks and crashes, with
no assumption about who dials whom, when a connection breaks and in what order the two
ends learn of it:

    Spec => []TypeOK, []RouteLeads, []DialedOnce, []RegisteredSafe

The last three speak of processes that dial nobody (`Sinks`: appmgr and dbmgr), to which
all others have to find. `Invariant` is what the side that dials can rely on. It tags its
ConnectObj itself, when the socket is created, so the tag is right from the beginning
(`Own`) and the notice of the end carries it. It asks for a connection again only when
that notice is handled: so each such process is asked for, has a ConnectObj or has a
notice in the main thread's list, once and never two of these (`Once`); the entry is
of the connector's network, and leads to that ConnectObj or waits for that notice
(`Entry`). A late notice therefore meets no newer entry on this side. The side that is
dialed has none of this: it tags late and by socket number. What it does know is whom it
may tag a connection with, namely processes that dial (`Mails`, `Own`), and that it
sends into accepted connections only what is for those (`Sending`); so a packet for a
process that dials nobody goes through the connector, where tags are true. That nobody
who dials nobody has two connections to the same process follows from `Once`, as an
unbroken connection has its ConnectObj at the process that dialed it (`Anchored`) and is
accepted once (`Accepting`). For the side that is dialed `EntryLeads`, `TagsTrue` and
`FoundAgain` are false, in a network of two games and appmgr already (TLC, section 4).
Assumptions: sockets and connections are numbers (`NumbersAssumption`); `None` is none of
the others (`NoneAssumption`).

**Lemmas on numbers and finite sets.** Least number, induction over `0 .. N` for a set
instead of a predicate (`IntervalInduction`; the library's theorems take an operator,
which the provers cannot instantiate), the cardinality of a family and finite sets of
records are proved in the modules that use them.

**Only model-checked**: liveness (`Delivered`, `DispatchedIsRecycled`,
`SentIsRecycled`, `WaitersEnter`, `Arrives`, `Reconnects`, `LivesAgain`, `GetsLinker`),
which needs fairness and is out of the provers' reach.

## 6. Not modelled

Select instead of epoll, connections closed on request, the bound on the number of
clients, HTTP framing and the password check, loss of the redis or database
connection, SQL, the choice of a process by load, start and stop of threads, times of
timers and keys, teams and trades, positions and the knapsack, the unused state
machines of Npcs, configuration, console and log. `PROJECT.json` gives the reason for
each component; section 3 says which are to follow.

Seen while reading and outside the models: `WorldGather::_players` is changed by the
worlds of several logic threads without a lock, and players lost with their game stay
in it; `Player::GetDamage` follows a null pointer when a member of the team is in
another space.
