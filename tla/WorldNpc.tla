------------------------------ MODULE WorldNpc ------------------------------
(***************************************************************************)
(* A World of a space process: its players, one of its Npcs and the        *)
(* commands of the players (space: world, player_manager_component, npc,   *)
(* bt_component, bt_node, ai_system; libplayer: cmd_component, commands).  *)
(*                                                                         *)
(* The Npc's behaviour tree is                                             *)
(*   Repeat(Sequence(Birth, Parallel(View, Sense, EdSelector), Death))     *)
(* with one action under EdSelector running at a time; events switch it.   *)
(* An Npc holds pointers to Players: the one it fights and the one whose   *)
(* client moves it (linker).  Players come and go by messages of the games.*)
(*                                                                         *)
(* A world and what belongs to it run in one thread, so a handler or an    *)
(* update is one step.  Distances and times are inputs of each update.     *)
(* Npcs do not act on each other; one stands for all.                      *)
(***************************************************************************)
EXTENDS Integers, Sequences, FiniteSets, SequencesExt

CONSTANTS
    Players,    \* players, by number: the order of PlayerManagerComponent::_players
    Games,      \* the players of each game process
    InitHp,     \* ResourceNpc::initHp
    Atk,        \* what a hit takes
    Rebirth,    \* BtConfig::rebirth
    Dungeon,    \* ResourceWorldType::Dungeon
    Present,    \* clients name only players who are in the world
    Awake,      \* clients hit the Npc only when it has been alive before
    CmdTypes,   \* of "lasting", "passing", "attack" and "duel": see HandleSyncPlayerCmd
    MaxJoin,    \* how often players enter
    MaxHit,     \* how often the Npc is hit
    MaxLoss,    \* how many games are lost
    None

ASSUME ConstantsAssumption ==
    /\ Players \subseteq Nat /\ None \notin Players /\ InitHp \in Nat \ {0} /\ Atk \in Nat \ {0}
    /\ \A b \in {Rebirth, Dungeon, Present, Awake} : b \in BOOLEAN
    /\ MaxJoin \in Nat /\ MaxHit \in Nat /\ MaxLoss \in Nat

VARIABLES
    players,  \* PlayerManagerComponent::_players
    adds,     \* World::_adds
    timers,   \* the timers of the world run
    sees,     \* per player of the world: whom its client shows
    npc,      \* the Npc and its BtComponent
    cmd,      \* per player: CmdComponent::_currCmd, or None; of one who left: in the pool
    faults,   \* undefined behaviour met so far
    clock,    \* parity of the updates that found the time of a waiting node run out
    joins, hits, losses  \* counters

worldVars == <<players, adds, timers, sees>>
countVars == <<joins, hits, losses>>
vars == <<worldVars, npc, cmd, faults, clock, countVars>>

Actions == {"Patrol", "Idle", "Pursue", "Attack", "Flee"}
Event(id, priority) == [id |-> id, priority |-> priority]
\* The queue is a bag.
AddEvent(n, id, priority) ==
    LET e == Event(id, priority)
    IN [n EXCEPT !.events = [x \in DOMAIN @ \union {e} |->
            IF x # e THEN @[x] ELSE IF e \in DOMAIN @ THEN @[e] + 1 ELSE 1]]
Lowest(ps) == CHOOSE p \in ps : \A q \in ps : p <= q

\* Npc::Awake and BtComponent::Awake.  phase is the child at which the Sequence is,
\* "new" before Birth is entered; curr is BtEdSelector::_curr, which is the end of the
\* list until the selector is entered; entered: the action at curr has status Running;
\* told: players whose client was told last that it moves the Npc.
Init ==
    /\ players = {} /\ adds = {} /\ timers = TRUE
    /\ sees = [p \in Players |-> {}]
    /\ npc = [hp |-> InitHp, fleeing |-> FALSE, target |-> None, linker |-> None,
              phase |-> "new", curr |-> "end", entered |-> FALSE, curAct |-> None,
              events |-> EmptyBag, told |-> {}]
    /\ cmd = [p \in Players |-> None] /\ faults = {} /\ clock = FALSE
    /\ joins = 0 /\ hits = 0 /\ losses = 0

(***************************************************************************)
(* The behaviour tree: what each node makes of the Npc.                    *)
(***************************************************************************)
\* Exit of the action at curr: Flee also forgets the target.
ExitAction(n) ==
    [n EXCEPT !.entered = FALSE, !.curAct = None,
              !.target = IF n.curr = "Flee" THEN None ELSE @,
              !.fleeing = IF n.curr = "Flee" THEN FALSE ELSE @]
\* BtEdSelector::Exit and BtComposite::Exit above it.
ExitTree(n) == IF n.curr = "end" THEN n ELSE ExitAction(n)

\* Mutant: the action that was running is not left.
SwitchNode_NoExit(n, id) == [n EXCEPT !.curr = id, !.entered = FALSE]
\* BtEdSelector::SwitchNode.
SwitchNode(n, id) == [ExitAction(n) EXCEPT !.curr = id]

\* Mutant: the Sequence stays at its last child.
Reset_Kept(n) == ExitTree(n)
\* BtRepeat::HandleRebirth, and Execute when the Sequence has come to its end.
Reset(n) == [ExitTree(n) EXCEPT !.phase = "new"]

HandleEvent(n, e) == IF e.id = "Birth" THEN Reset(n) ELSE SwitchNode(n, e.id)
HandleEvents(n, es) ==
    LET after[k \in 0 .. Len(es)] == IF k = 0 THEN n ELSE HandleEvent(after[k - 1], es[k])
    IN after[Len(es)]

\* Mutant: the client is not told.
SetLinkPlayer_Silent(n, p) == [n EXCEPT !.linker = p, !.told = @ \ {n.linker}]
\* Npc::SetLinkPlayer, and S2C_ReqLinkPlayer to the new linker, which every caller sends.
SetLinkPlayer(n, p) == [n EXCEPT !.linker = p, !.told = (@ \ {n.linker}) \union ({p} \ {None})]

\* Mutant: the Npc waits for a client that asks for it.
ViewLinker_Never(n, nearest) == n
\* BtActView::ViewTask.  zone: how far each player is; nearest: GetNearestPlayer,
\* whose limit of 9999 no map reaches.
ViewLinker(n, nearest) == IF n.linker = None THEN SetLinkPlayer(n, nearest) ELSE n
ViewTarget(n, zone) ==
    LET visible == {p \in DOMAIN zone : zone[p] # "out"}
        p == Lowest(visible)
    IN IF n.target # None \/ visible = {} THEN n
       ELSE AddEvent([n EXCEPT !.target = p], IF zone[p] = "near" THEN "Attack" ELSE "Pursue", 0)
StartFlee(n) == AddEvent([n EXCEPT !.fleeing = TRUE], "Flee", 1)
View(n, zone, place, nearest) ==
    LET seen == ViewTarget(ViewLinker(n, nearest), zone)
    IN IF ~ n.fleeing /\ place = "far" THEN StartFlee(seen) ELSE seen

\* BtActSense::SenseTask, unless the Npc is dead.
Sense(n) == IF ~ n.fleeing /\ 10 * n.hp <= 3 * InitHp THEN StartFlee(n) ELSE n

\* Enter of the action at curr.
EnterAction(n) ==
    [n EXCEPT !.entered = TRUE, !.curAct = n.curr,
              !.target = IF n.curr \in {"Patrol", "Idle"} THEN None ELSE @]
Near(n, zone) == n.target # None /\ zone[n.target] = "near"
Sees(n, zone) == n.target # None /\ zone[n.target] # "out"
Healthy(n) == n.hp >= (7 * InitHp) \div 10
\* The event that makes the action end, or None (PatrolTask, IdleTask, PursueTask,
\* AttackTask, FleeTask); late: the time of Idle has run out since it was entered.
Ends(n, zone, place, late) ==
    CASE n.curr = "Patrol" -> IF place = "arrived" THEN "Idle" ELSE None
      [] n.curr = "Idle" -> IF late THEN "Patrol" ELSE None
      [] n.curr = "Pursue" -> IF Near(n, zone) THEN "Attack" ELSE IF Sees(n, zone) THEN None ELSE "Idle"
      [] n.curr = "Attack" -> IF Near(n, zone) THEN None ELSE "Pursue"
      [] n.curr = "Flee" -> IF place = "arrived" /\ Healthy(n) THEN "Patrol" ELSE None
\* FleeTask: one twentieth of initHp each second, here one unit.
Heal(n, place, late) ==
    IF n.curr = "Flee" /\ place = "arrived" /\ late /\ ~ Healthy(n)
    THEN [n EXCEPT !.hp = IF @ < InitHp THEN @ + 1 ELSE InitHp] ELSE n
TickAction(n, zone, place, late) ==
    LET entered == IF n.entered THEN n ELSE EnterAction(n)
        elapsed == late /\ n.entered
        next == Ends(entered, zone, place, elapsed)
    IN IF next = None THEN Heal(entered, place, elapsed)
       ELSE ExitAction(AddEvent(entered, next, 0))

\* BtActDeath::Enter, after BtParallel has left its children.
Die(n) == [ExitTree(n) EXCEPT !.phase = "death", !.target = None, !.linker = None]
\* BtActBirth::Enter.
Bear(n) == [n EXCEPT !.phase = "birth", !.target = None, !.linker = None, !.fleeing = FALSE]
\* BtParallel::Execute, and what follows when Sense aborts it.
TickAlive(n, zone, place, late, nearest) ==
    LET seen == View(n, zone, place, nearest)
    IN IF seen.hp = 0 THEN Die(seen) ELSE TickAction(Sense(seen), zone, place, late)
\* BirthTask has succeeded: BtEdSelector::Enter, and the Parallel runs at once.
ComeAlive(n, zone, place, nearest) ==
    TickAlive([n EXCEPT !.phase = "alive", !.hp = InitHp, !.curr = "Patrol", !.entered = FALSE],
              zone, place, FALSE, nearest)

\* BtRepeat and BtSequence.
Tick(n, zone, place, late, nearest) ==
    CASE n.phase = "new" -> Bear(n)
      [] n.phase = "birth" -> IF late /\ players # {} THEN ComeAlive(n, zone, place, nearest) ELSE n
      [] n.phase = "alive" -> TickAlive(n, zone, place, late, nearest)
      [] n.phase = "death" -> IF late /\ Rebirth THEN Reset(n) ELSE n

\* A priority_queue gives no order among equal priorities.
Copies(events) == UNION {{e} \X (1 .. events[e]) : e \in BagToSet(events)}
Orders(events) ==
    {o \in [1 .. Cardinality(Copies(events)) -> BagToSet(events)] :
        /\ \A e \in BagToSet(events) : Cardinality({k \in DOMAIN o : o[k] = e}) = events[e]
        /\ \A j, k \in DOMAIN o : j < k => o[j].priority >= o[k].priority}
\* What BtComponent::Update hands to the tree: e refers to the top of the queue and is
\* read after pop, when the next event, if there is one, has moved there.
Handled(o) == IF o = <<>> THEN o ELSE Append(Tail(o), Last(o))

\* The players whose distance the tree asks for: none unless the Npc is or comes alive.
Alive(late) == npc.phase = "alive" \/ (npc.phase = "birth" /\ late)
Watched(late) ==
    CASE ~ Alive(late) -> {}
      [] Alive(late) /\ npc.phase = "alive" /\ npc.target # None -> {npc.target}
      [] OTHER -> players

Places(late) == IF Alive(late) THEN {"arrived", "between", "far"} ELSE {"between"}
\* What the tree may make of the Npc, for all distances.
Ticked(late) ==
    {Tick(npc, zone, place, late, nearest) :
        zone \in [Watched(late) -> {"near", "in", "out"}], place \in Places(late),
        nearest \in IF Watched(late) = {} \/ npc.linker # None THEN {None} ELSE players}

\* BtComponent::Update, called by AISystem.  An event other than Birth that meets the
\* selector before it was ever entered makes SwitchNode follow the end of the list.
Update(late) ==
    /\ \E ticked \in Ticked(late) : \E o \in Orders(ticked.events) :
          LET handled == Handled(o)
              early == ticked.curr = "end" /\ \E k \in DOMAIN handled : handled[k].id # "Birth"
          IN /\ faults' = IF early THEN faults \union {"end"} ELSE faults
             /\ npc' = IF early THEN ticked
                       ELSE HandleEvents([ticked EXCEPT !.events = EmptyBag], handled)
    /\ clock' = (clock # late)
    /\ UNCHANGED <<worldVars, cmd, countVars>>

(***************************************************************************)
(* The handlers of World.                                                  *)
(***************************************************************************)
\* A CmdComponent keeps its command in the pool (BackToPool): a player gets one nobody
\* has had yet, or one of a player who left, with the command.
Pooled(p) ==
    {[cmd EXCEPT ![p] = None]} \union {[cmd EXCEPT ![q] = None, ![p] = cmd[q]] : q \in Players \ players}

\* HandleSyncPlayer: a player arrives; its client loads the map.
HandleSyncPlayer(p) ==
    /\ p \notin players /\ joins < MaxJoin
    /\ players' = players \union {p} /\ adds' = adds \union {p}
    /\ sees' = [sees EXCEPT ![p] = {}]
    /\ joins' = joins + 1
    /\ cmd' \in Pooled(p)
    /\ UNCHANGED <<clock, timers, npc, faults, hits, losses>>

\* Mutant: the players who were there are not sent to the new ones.
SyncAppear_NewOnly(p) == sees[p] \union (adds \intersect players)
\* What the client of a player shows after both messages of SyncAppearTimer.
SyncAppear(p) ==
    sees[p] \union (adds \intersect players) \union (IF p \in adds THEN players \ adds ELSE {})

SyncAppearTimer ==
    /\ timers /\ adds # {}
    /\ sees' = [p \in Players |-> IF p \in players THEN SyncAppear(p) ELSE sees[p]]
    /\ adds' = {}
    /\ UNCHANGED <<clock, players, timers, npc, cmd, faults, countVars>>

\* Mutant: only the target is looked at.
Disappear_Target(n, p, rest, nearest) ==
    IF n.target = p THEN AddEvent([n EXCEPT !.target = None], "Idle", 10) ELSE n
\* PlayerDisappear for one Npc; rest: the players who stay.
Disappear(n, p, rest, nearest) ==
    LET freed ==
          CASE rest = {} -> AddEvent([n EXCEPT !.target = None], "Birth", 10)
            [] rest # {} /\ n.target = p -> AddEvent([n EXCEPT !.target = None], "Idle", 10)
            [] OTHER -> n
    IN IF n.linker = p THEN SetLinkPlayer(freed, nearest) ELSE freed

StopsTimers(rest) == Dungeon /\ rest = {}
\* A player leaves with a word to everybody: HandleNetworkDisconnect of its client
\* and HandleG2SRemovePlayer, which stops the timers of an empty dungeon.
Leave(p, stop) ==
    LET rest == players \ {p}
    IN /\ p \in players /\ players' = rest
       /\ \E nearest \in IF rest = {} THEN {None} ELSE rest :
             npc' = [Disappear(npc, p, rest, nearest) EXCEPT !.told = @ \ {p}]
       /\ sees' = [q \in Players |-> IF q \in rest THEN sees[q] \ {p} ELSE {}]
       /\ timers' = (timers /\ ~ (stop /\ StopsTimers(rest)))
    /\ UNCHANGED <<clock, adds, cmd, faults, countVars>>
HandleNetworkDisconnect(p) == Leave(p, FALSE)
HandleG2SRemovePlayer(p) == Leave(p, TRUE)

\* PlayerManagerComponent::RemoveAllPlayers when a game is lost: nobody is told, and
\* pointers to the Players stay where they are.
RemoveAllPlayers(g) ==
    LET gone == players \intersect g
        held == {npc.target, npc.linker} \union {cmd[p].target : p \in {q \in players \ g : cmd[q] # None}}
    IN /\ losses < MaxLoss /\ gone # {}
       /\ players' = players \ gone
       /\ sees' = [p \in Players |-> IF p \in gone THEN {} ELSE sees[p]]
       /\ npc' = [npc EXCEPT !.told = @ \ gone]
       /\ faults' = IF held \intersect gone # {} THEN faults \union {"dangling"} ELSE faults
       /\ losses' = losses + 1
    /\ UNCHANGED <<clock, adds, timers, cmd, joins, hits>>

Struck(hp) == IF hp > Atk THEN hp - Atk ELSE 0
\* A NoneCommand stands and does nothing, as no command.
ResetCmd(p) == [cmd EXCEPT ![p] = None]

\* Npc::GetDamage: every hit that leaves no hit points is rewarded, also on a dead Npc.
GetDamage(p) ==
    LET hp == Struck(npc.hp)
        hit == [npc EXCEPT !.hp = hp]
    IN /\ npc' = IF npc.target = p THEN hit ELSE AddEvent([hit EXCEPT !.target = p], "Pursue", 0)
       /\ cmd' = IF hp = 0 THEN ResetCmd(p) ELSE cmd

\* HandlePlayerAtkEvent against the Npc; against a player who has left, whose number
\* is looked up among the Npcs and makes the first one the victim; against a player.
HitNpc(p) ==
    /\ p \in players /\ hits < MaxHit /\ hits' = hits + 1
    /\ Awake => npc.curr # "end"
    /\ GetDamage(p)
    /\ UNCHANGED <<clock, worldVars, faults, joins, losses>>
HitPlayer(p, q) ==
    /\ p \in players /\ p # q /\ hits < MaxHit /\ hits' = hits + 1
    /\ Present => q \in players
    /\ IF q \in players
       THEN /\ cmd' \in {cmd, ResetCmd(p)}
            /\ UNCHANGED <<clock, npc, faults>>
       ELSE GetDamage(p) /\ faults' = faults \union {"stray"}
    /\ UNCHANGED <<clock, worldVars, joins, losses>>

\* HandleSyncBtAction: a client asks what the Npc does.
HandleSyncBtAction(p) ==
    /\ p \in players /\ npc.linker = None
    /\ npc' = SetLinkPlayer(npc, p)
    /\ UNCHANGED <<clock, worldVars, cmd, faults, countVars>>

\* HandleSyncPlayerCmd: Pick lasts, Move and Teleport pass, Attack ends with its Npc;
\* Observe and Pvp ("duel") read the number of the Player they found.
HandleSyncPlayerCmd(p, type, q) ==
    /\ p \in players
    /\ type = "duel" => q \in Players \ {p} /\ (Present => q \in players)
    /\ type # "duel" => q = None
    /\ IF type = "duel" /\ q \notin players
       THEN faults' = faults \union {"null"} /\ UNCHANGED cmd
       ELSE cmd' = [cmd EXCEPT ![p] = [type |-> type, target |-> q]] /\ UNCHANGED faults
    /\ UNCHANGED <<clock, worldVars, npc, countVars>>

\* HandleReqSyncPlayer: a client asks what another player does; its command is read.
HandleReqSyncPlayer(p, q) ==
    /\ p \in players /\ (Present => q \in players)
    /\ faults' = faults \union
          CASE q \notin players -> {"null"}
            [] q \in players /\ cmd[q] # None /\ cmd[q].target \notin players \union {None} -> {"stale"}
            [] OTHER -> {}
    /\ UNCHANGED <<clock, worldVars, npc, cmd, countVars>>

\* CmdComponent::Update, called by CmdSystem: a command that has finished goes.
CmdUpdate(p) ==
    /\ p \in players /\ cmd[p] # None
    /\ cmd[p].type = "passing" \/ (cmd[p].type = "attack" /\ npc.hp = 0)
    /\ cmd' = [cmd EXCEPT ![p] = None]
    /\ UNCHANGED <<clock, worldVars, npc, faults, countVars>>

Next ==
    /\ faults = {}
    /\ \/ \E late \in BOOLEAN : Update(late)
       \/ SyncAppearTimer
       \/ \E g \in Games : RemoveAllPlayers(g)
       \/ \E p \in Players :
            \/ HandleSyncPlayer(p) \/ HandleNetworkDisconnect(p) \/ HandleG2SRemovePlayer(p)
            \/ HitNpc(p) \/ HandleSyncBtAction(p) \/ CmdUpdate(p)
            \/ \E q \in Players : HitPlayer(p, q) \/ HandleReqSyncPlayer(p, q)
            \/ \E type \in CmdTypes, q \in Players \union {None} : HandleSyncPlayerCmd(p, type, q)

\* The thread keeps updating and its clock moves on, so that an update finds the time of
\* a waiting node run out; the timer comes round.
TimeRunsOut == faults = {} /\ clock' = ~ clock
TimerComes == faults = {} /\ SyncAppearTimer
Spec == Init /\ [][Next]_vars /\ WF_clock(TimeRunsOut) /\ WF_vars(TimerComes)

-----------------------------------------------------------------------------
(***************************************************************************)
(* Properties.                                                             *)
(***************************************************************************)
TypeOK ==
    /\ players \subseteq Players /\ adds \subseteq Players /\ timers \in BOOLEAN
    /\ sees \in [Players -> SUBSET Players]
    /\ npc.hp \in 0 .. InitHp /\ npc.fleeing \in BOOLEAN /\ npc.told \subseteq players
    /\ npc.phase \in {"new", "birth", "alive", "death"} /\ npc.curr \in Actions \union {"end"}
    /\ npc.phase = "alive" => npc.curr # "end"
    /\ \A p \in Players : cmd[p] # None => cmd[p].type \in CmdTypes

\* The Npc never points at a Player who is not in the world (World::PlayerDisappear),
\* whatever order hits, jumps, disconnects and updates come in, as long as no game
\* is lost with players the Npc knows.
PointersLive == faults = {} => {npc.target, npc.linker} \subseteq players \union {None}

\* The client that moves the Npc knows it does: it was told so last
\* (Npc::SetLinkPlayer, BtActView::ViewTask, World::PlayerDisappear).
LinkerTold == faults = {} /\ npc.linker # None => npc.linker \in npc.told

\* The action other clients are told of is the one that runs (BtComponent::curAct,
\* BtEdSelector::SwitchNode).
CurActRuns ==
    faults = {} => npc.curAct = IF npc.phase = "alive" /\ npc.entered THEN npc.curr ELSE None

\* Every client shows the players of the world, and nobody else but players lost with
\* their game, once those who came have been announced (World::SyncAppearTimer).
ShowsPlayers ==
    \A p \in players :
        /\ losses = 0 => sees[p] \subseteq players
        /\ adds = {} => players \subseteq sees[p]

\* A dead Npc that may be born again lives again while somebody is there to see it.
LivesAgain == npc.hp = 0 ~> npc.hp > 0 \/ players = {} \/ faults # {}

\* While there are players, one of their clients gets to move the Npc.
GetsLinker == players # {} ~> npc.linker # None \/ players = {} \/ faults # {}

\* Who has come is shown to the others.
Announced == adds # {} ~> adds = {} \/ players = {} \/ faults # {}

\* No event meets a selector that was never entered (BtEdSelector::SwitchNode).
NoEndNode == "end" \notin faults
\* The loss of a game leaves no pointer to its Players behind.
NoDangling == "dangling" \notin faults
\* A command names a player that is there.
NoNullPlayer == "null" \notin faults
\* A command of a player reads a Player that is there.
NoStaleCommand == "stale" \notin faults
\* A hit meant for a player does not hurt an Npc.
NoStrayHit == "stray" \notin faults
\* The Npc's death is rewarded once.
PaidOnce == [][\A p \in Players : HitNpc(p) /\ npc'.hp = 0 => npc.hp > 0]_vars
\* At most one client moves the Npc.
OneMover == Cardinality(npc.told) <= 1
\* An Npc that has decided to flee does so (BtActSense::SenseTask).
FleesIfItMust == npc.fleeing /\ npc.events = EmptyBag /\ npc.phase = "alive" => npc.curr = "Flee"
\* When nobody is left the Npc goes back to its birth (World::PlayerDisappear).
BornAnew == players = {} ~> npc.phase = "birth" \/ players # {} \/ faults # {}
=============================================================================
