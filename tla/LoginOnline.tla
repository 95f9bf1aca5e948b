---------------------------- MODULE LoginOnline -----------------------------
(***************************************************************************)
(* How one account gets from a login process into a game process, and what *)
(* redis knows of it (apps/login/account and redis_login, apps/game/lobby, *)
(* redis_game and player_component_onlinegame).                            *)
(*                                                                         *)
(* Redis holds three keys of the account: that it is logging in (taken     *)
(* with SETNX by the login process that checks it), that it is in a game   *)
(* (with the version of the Player that says so), and the token that lets  *)
(* it into a game.  Every process has one redis thread that works off the  *)
(* requests of the process in order; a handler sends redis one command     *)
(* after the other, and other processes' commands fall in between.         *)
(***************************************************************************)
EXTENDS Integers, Sequences, FiniteSets, Functions

CONSTANTS
    Clients,     \* clients that use the account
    Enter,       \* those of them that go on to a game with the token they are given
    Logins,      \* login processes
    Games,       \* game processes
    MaxToken,    \* how many tokens are generated
    MaxVersion,  \* bound on the Players a session has in turn
    Rejoin,      \* clients may come back before the Player they left is quite gone,
                 \* and use one token at several games
    MaxPending,  \* bound on the requests clients cause before they are answered
    MaxTimed,    \* timers ask while fewer than this many requests are pending
    None

ASSUME ConstantsAssumption == MaxToken \in Nat /\ MaxVersion \in Nat \ {0} /\ MaxPending \in Nat /\ MaxTimed \in Nat
                                   /\ Rejoin \in BOOLEAN /\ Enter \subseteq Clients
ASSUME NamesAssumption ==
    /\ Logins \intersect Games = {}
    /\ None \notin Clients /\ None \notin Nat /\ None \notin {"taken", "held"}
\* A Player is not the absence of one.
ASSUME PlayersAssumption == None \notin [version : Nat, in : BOOLEAN, token : Nat, due : BOOLEAN]

VARIABLES
    loginKey,  \* RedisKeyAccountOnlineLogin is set
    gameKey,   \* RedisKeyAccountOnlineGame: a version, 0 when not set
    tokenKey,  \* RedisKeyAccountTokey: a token or None
    queue,     \* per process: requests for its redis thread
    read,      \* per process: what the redis thread read for the request it is at
    replies,   \* per process: answers of its redis thread
    account,   \* per login process: the client whose Player has the account
    inLogin,   \* login processes whose Player has PlayerComponentOnlineInLogin
    checks,    \* per login process: checks of the password and queries of the players under way
    listed,    \* login processes whose Player has PlayerComponentProtoList
    tokens,    \* tokens generated so far
    have,      \* per client: the token it was given
    session,   \* per game and client in Enter: its Player there; due: SetOnlineFlag has yet to be called
    last,      \* per game: the client AddPlayer saw last (_accounts of the lobby's collector)
    letIn,     \* history, per game and token: how many Players HandleGameTokenToRedisRs let in
    recycle    \* per process: versions (login: 1) of Players removed but not yet BackToPool

redisVars == <<loginKey, gameKey, tokenKey>>
threadVars == <<queue, read, replies>>
loginVars == <<account, inLogin, checks, listed, tokens, have>>
gameVars == <<session, last, letIn>>
vars == <<redisVars, threadVars, loginVars, gameVars, recycle>>

Processes == Logins \union Games
Versions == 1 .. MaxVersion
Tokens == 1 .. MaxToken
Req(type, arg) == [type |-> type, arg |-> arg]
Ask(p, r) == [queue EXCEPT ![p] = Append(@, r)]
\* No Player of a game is going away.
Quiet == \A g \in Games : recycle[g] = {} /\ \A k \in DOMAIN queue[g] : queue[g][k].type # "deleteGame"
Pending(p) == Len(queue[p]) + Len(replies[p]) + (IF p \in Logins THEN checks[p] ELSE 0)
Room == FoldFunction(+, 0, [p \in Processes |-> Pending(p)]) < MaxPending
TimerRoom(p) == Pending(p) < MaxTimed

Init ==
    /\ loginKey = FALSE /\ gameKey = 0 /\ tokenKey = None
    /\ queue = [p \in Processes |-> <<>>] /\ read = [p \in Processes |-> None]
    /\ replies = [p \in Processes |-> <<>>]
    /\ account = [l \in Logins |-> None] /\ inLogin = {} /\ tokens = 0
    /\ checks = [l \in Logins |-> 0] /\ listed = {}
    /\ have = [c \in Clients |-> None]
    /\ session = [g \in Games |-> [c \in Enter |-> None]]
    /\ letIn = [g \in Games |-> [t \in Tokens |-> 0]]
    /\ last = [g \in Games |-> None] /\ recycle = [p \in Processes |-> {}]

(***************************************************************************)
(* Login: AccountMgr.                                                      *)
(***************************************************************************)
Outside(c) == \A l \in Logins : account[l] # c

\* HandleAccountCheck: one client at a time; any other is disconnected.  A client
\* that starts again has no use for an earlier token.
HandleAccountCheck(l, c) ==
    /\ Outside(c) /\ Room /\ account[l] = None
    /\ \A g \in Games : c \in Enter => session[g][c] = None
    /\ account' = [account EXCEPT ![l] = c] /\ have' = [have EXCEPT ![c] = None]
    /\ queue' = Ask(l, Req("query", None))
    /\ UNCHANGED <<redisVars, read, replies, inLogin, checks, listed, tokens, gameVars, recycle>>

Reply(p, type) == replies[p] # <<>> /\ Head(replies[p]).type = type
Handled(p) == [replies EXCEPT ![p] = Tail(@)]

Found(l) == account[l] # None

\* HandleAccountQueryOnlineToRedisRs: the answer goes to whoever has the account
\* by now; one that is online is told so and stays connected.
HandleAccountQueryOnlineToRedisRs(l) ==
    /\ Reply(l, "query") /\ replies' = Handled(l)
    /\ IF Found(l) /\ Head(replies[l]).arg = "offline"
       THEN inLogin' = inLogin \union {l} /\ checks' = [checks EXCEPT ![l] = @ + 1]
       ELSE UNCHANGED <<inLogin, checks>>
    /\ UNCHANGED <<redisVars, queue, read, account, listed, tokens, have, gameVars, recycle>>

\* HandleHttpOuterResponse and HandleQueryPlayerListRs: the check ends without a
\* list (the password is wrong, there is no player), or its list goes to whoever
\* has the account by now, if anybody has.
HandleQueryPlayerListRs(l) ==
    /\ checks[l] > 0 /\ checks' = [checks EXCEPT ![l] = @ - 1]
    /\ \/ Found(l) /\ listed' = listed \union {l}
       \/ UNCHANGED listed
    /\ UNCHANGED <<redisVars, threadVars, account, inLogin, tokens, have, gameVars, recycle>>

\* PlayerComponentOnlineInLogin::SetOnlineFlag, called by its timer in a later frame
\* and again and again until BackToPool.
SetOnlineInLogin(l) ==
    /\ l \in inLogin \/ recycle[l] # {}
    /\ TimerRoom(l) /\ queue' = Ask(l, Req("syncLogin", None))
    /\ UNCHANGED <<redisVars, read, replies, loginVars, gameVars, recycle>>

\* HandleSelectPlayer: the client that has a list selects a player (RequestToken).
HandleSelectPlayer(l) ==
    /\ Found(l) /\ l \in listed /\ tokens < MaxToken /\ Room
    /\ queue' = Ask(l, Req("token", None))
    /\ UNCHANGED <<redisVars, read, replies, loginVars, gameVars, recycle>>

HandleTokenToRedisRs(l) ==
    /\ Reply(l, "token") /\ replies' = Handled(l)
    /\ have' = IF account[l] = None THEN have ELSE [have EXCEPT ![account[l]] = Head(replies[l]).arg]
    /\ UNCHANGED <<redisVars, queue, read, account, inLogin, checks, listed, tokens, gameVars, recycle>>

\* Mutant: the key is deleted for a client that never got it.
Releases_Always(l) == TRUE
Releases(l) == l \in inLogin

\* HandleNetworkDisconnect: PlayerComponentOnlineInLogin, if there is one, deletes
\* the key when it goes BackToPool.
LeaveLogin(l) ==
    /\ account[l] # None
    /\ account' = [account EXCEPT ![l] = None] /\ inLogin' = inLogin \ {l}
    /\ listed' = listed \ {l}
    /\ recycle' = IF Releases(l) THEN [recycle EXCEPT ![l] = {1}] ELSE recycle
    /\ UNCHANGED <<redisVars, threadVars, checks, tokens, have, gameVars>>

(***************************************************************************)
(* Game: the lobby, and the Players that follow one another.               *)
(***************************************************************************)
\* PlayerCollectorComponent::AddPlayer; RemovePlayer also forgets the account,
\* whoever it stands for.
AddPlayer(g, c) == [last EXCEPT ![g] = c]
RemovePlayer(g) == [last EXCEPT ![g] = None]

\* HandleLoginByToken: the Player is there before the token is read.  A client may
\* come back with a token it has used before, or use it at another game.
HandleLoginByToken(g, c) ==
    /\ have[c] # None /\ session[g][c] = None /\ Room
    /\ Rejoin \/ (Quiet /\ \A h \in Games : session[h][c] = None)
    /\ session' = [session EXCEPT ![g][c] = [version |-> 1, in |-> FALSE, token |-> have[c], due |-> TRUE]]
    /\ last' = AddPlayer(g, c)
    /\ queue' = Ask(g, Req("gameToken", None))
    /\ UNCHANGED <<redisVars, read, replies, loginVars, letIn, recycle>>

\* HandleGameTokenToRedisRs: the Player the account stands for now is let in if it
\* gave the token that was in redis.
Admits(g, c) == c # None /\ session[g][c] # None /\ session[g][c].token = Head(replies[g]).arg
HandleGameTokenToRedisRs(g) ==
    LET c == last[g]
    IN /\ Reply(g, "gameToken") /\ replies' = Handled(g)
       /\ IF Admits(g, c)
          THEN /\ session' = [session EXCEPT ![g][c].in = TRUE]
               /\ letIn' = [letIn EXCEPT ![g][session[g][c].token] = @ + 1]
          ELSE UNCHANGED <<session, letIn>>
    /\ UNCHANGED <<redisVars, queue, read, loginVars, last, recycle>>

\* PlayerComponentOnlineInGame::SetOnlineFlag, called by the timer of every Player
\* that is there or has not gone BackToPool yet.
SetOnlineInGame(g, v) ==
    /\ v \in recycle[g] \/ \E c \in Enter : session[g][c] # None /\ session[g][c].version = v
    /\ TimerRoom(g) /\ queue' = Ask(g, Req("syncGame", v))
    /\ session' = [session EXCEPT ![g] = [c \in Enter |->
                       IF @[c] # None /\ @[c].version = v THEN [@[c] EXCEPT !.due = FALSE] ELSE @[c]]]
    /\ UNCHANGED <<redisVars, read, replies, loginVars, last, letIn, recycle>>

\* The Player of a session is the lobby's until its first jump.
InLobby(s) == s.version = 1

\* A jump to a world (see Teleport): a new Player with the next version takes over
\* (PlayerComponentOnlineInGame::Awake), the old one goes BackToPool later.  The
\* lobby removes its Player with the account (Lobby::HandleTeleportAfter), a proxy
\* has a collector of its own.
Teleport(g, c) ==
    LET s == session[g][c]
    IN /\ s # None /\ s.in /\ s.version < MaxVersion
       /\ session' = [session EXCEPT ![g][c] = [s EXCEPT !.version = @ + 1, !.due = TRUE]]
       /\ last' = IF InLobby(s) THEN RemovePlayer(g) ELSE last
       /\ recycle' = [recycle EXCEPT ![g] = @ \union {s.version}]
    /\ UNCHANGED <<redisVars, threadVars, loginVars, letIn>>

\* BackToPool of PlayerComponentOnlineInLogin and PlayerComponentOnlineInGame.
BackToPool(p, v) ==
    /\ v \in recycle[p]
    /\ recycle' = [recycle EXCEPT ![p] = @ \ {v}]
    /\ queue' = Ask(p, IF p \in Logins THEN Req("deleteLogin", None) ELSE Req("deleteGame", v))
    /\ UNCHANGED <<redisVars, read, replies, loginVars, gameVars>>

\* HandleNetworkDisconnect of the lobby or the proxy.
LeaveGame(g, c) ==
    /\ session[g][c] # None
    /\ session' = [session EXCEPT ![g][c] = None]
    /\ last' = IF InLobby(session[g][c]) THEN RemovePlayer(g) ELSE last
    /\ recycle' = [recycle EXCEPT ![g] = @ \union {session[g][c].version}]
    /\ UNCHANGED <<redisVars, threadVars, loginVars, letIn>>

(***************************************************************************)
(* The redis threads, one command at a time.                               *)
(***************************************************************************)
At(p, type) == queue[p] # <<>> /\ Head(queue[p]).type = type
First(p, type, value) ==
    /\ At(p, type) /\ read[p] = None
    /\ read' = [read EXCEPT ![p] = value]
    /\ UNCHANGED <<queue, replies>>
Finish(p) ==
    /\ queue' = [queue EXCEPT ![p] = Tail(@)]
    /\ read' = [read EXCEPT ![p] = None]
Answer(p, type, arg) == replies' = [replies EXCEPT ![p] = Append(@, Req(type, arg))]

\* RedisLogin::HandleAccountQueryOnline: SETNX, then GET of the game's key.
Setnx(l) ==
    /\ First(l, "query", IF loginKey THEN "held" ELSE "taken")
    /\ loginKey' = TRUE
    /\ UNCHANGED <<gameKey, tokenKey, loginVars, gameVars, recycle>>

\* Mutant: only the game's key counts.
Offline_GameOnly(l) == gameKey = 0
Offline(l) == read[l] = "taken" /\ gameKey = 0

QueryGame(l) ==
    /\ At(l, "query") /\ read[l] # None /\ Finish(l)
    /\ Answer(l, "query", IF Offline(l) THEN "offline" ELSE "online")
    /\ UNCHANGED <<redisVars, loginVars, gameVars, recycle>>

\* HandleAccountSyncOnlineToRedis and HandleAccountDeleteOnlineToRedis.
SetLogin(l) ==
    /\ At(l, "syncLogin") \/ At(l, "deleteLogin")
    /\ loginKey' = At(l, "syncLogin")
    /\ Finish(l) /\ UNCHANGED <<replies, gameKey, tokenKey, loginVars, gameVars, recycle>>

\* HandleLoginTokenToRedis: a fresh token replaces the old one.
LoginToken(l) ==
    /\ At(l, "token") /\ tokens < MaxToken
    /\ tokens' = tokens + 1 /\ tokenKey' = tokens + 1
    /\ Finish(l) /\ Answer(l, "token", tokens + 1)
    /\ UNCHANGED <<loginKey, gameKey, account, inLogin, checks, listed, have, gameVars, recycle>>

\* RedisGame::HandleGameTokenToRedis: GET, then DEL of the token.
GetToken(g) ==
    First(g, "gameToken", IF tokenKey = None THEN 0 ELSE tokenKey)
    /\ UNCHANGED <<redisVars, loginVars, gameVars, recycle>>
\* Mutant: the token that was read is kept.
TokenLeft_Kept(g) == IF tokenKey = read[g] THEN tokenKey ELSE None
TokenLeft(g) == None

DeleteToken(g) ==
    /\ At(g, "gameToken") /\ read[g] # None /\ Finish(g)
    /\ tokenKey' = TokenLeft(g) /\ Answer(g, "gameToken", read[g])
    /\ UNCHANGED <<loginKey, gameKey, loginVars, gameVars, recycle>>

\* HandlePlayerSyncOnlineToRedis and HandlePlayerDeleteOnlineToRedis: GET, then
\* SETEX or DEL unless redis has a later version.
GetGame(g) ==
    (First(g, "syncGame", gameKey) \/ First(g, "deleteGame", gameKey))
    /\ UNCHANGED <<redisVars, loginVars, gameVars, recycle>>

\* Mutant: an old version deletes the flag of a new one.
Current_Any(g) == TRUE
Current(g) == Head(queue[g]).arg >= read[g]

SetGame(g) ==
    /\ (At(g, "syncGame") \/ At(g, "deleteGame")) /\ read[g] # None
    /\ gameKey' = IF ~ Current(g) THEN gameKey
                  ELSE IF At(g, "syncGame") THEN Head(queue[g]).arg ELSE 0
    /\ Finish(g) /\ UNCHANGED <<replies, loginKey, tokenKey, loginVars, gameVars, recycle>>

\* Keys that nobody refreshes run out; those of a client that is there are
\* refreshed at half their time (SetOnlineFlag), and no request lasts that long.
Idle ==
    /\ \A p \in Processes : queue[p] = <<>> /\ replies[p] = <<>> /\ recycle[p] = {}
    /\ \A g \in Games, c \in Enter : session[g][c] # None => ~ session[g][c].due
Expire ==
    /\ Idle /\ inLogin = {} /\ \A g \in Games, c \in Enter : session[g][c] = None
    /\ loginKey \/ gameKey # 0
    /\ loginKey' = FALSE /\ gameKey' = 0
    /\ UNCHANGED <<tokenKey, threadVars, loginVars, gameVars, recycle>>
ExpireToken ==
    /\ tokenKey # None /\ tokenKey' = None
    /\ UNCHANGED <<loginKey, gameKey, threadVars, loginVars, gameVars, recycle>>

RedisStep(p) ==
    \/ p \in Logins /\ (Setnx(p) \/ QueryGame(p) \/ SetLogin(p) \/ LoginToken(p))
    \/ p \in Games /\ (GetToken(p) \/ DeleteToken(p) \/ GetGame(p) \/ SetGame(p))
LoginStep(l) ==
    \/ HandleAccountQueryOnlineToRedisRs(l) \/ HandleTokenToRedisRs(l) \/ HandleQueryPlayerListRs(l)
    \/ SetOnlineInLogin(l)

Next ==
    \/ \E p \in Processes : RedisStep(p) \/ \E v \in Versions : BackToPool(p, v)
    \/ \E l \in Logins :
           \/ LoginStep(l) \/ HandleSelectPlayer(l) \/ LeaveLogin(l)
           \/ \E c \in Clients : HandleAccountCheck(l, c)
    \/ \E g \in Games :
           \/ HandleGameTokenToRedisRs(g)
           \/ \E v \in Versions : SetOnlineInGame(g, v)
           \/ \E c \in Enter : HandleLoginByToken(g, c) \/ Teleport(g, c) \/ LeaveGame(g, c)
    \/ Expire \/ ExpireToken

Spec == Init /\ [][Next]_vars

-----------------------------------------------------------------------------
(***************************************************************************)
(* Properties.                                                             *)
(***************************************************************************)
Sessions == [version : Versions, in : BOOLEAN, token : Tokens, due : BOOLEAN]
TypeOK ==
    /\ loginKey \in BOOLEAN /\ gameKey \in Versions \union {0} /\ tokenKey \in Tokens \union {None}
    /\ account \in [Logins -> Clients \union {None}] /\ inLogin \subseteq Logins
    /\ have \in [Clients -> Tokens \union {None}]
    /\ session \in [Games -> [Enter -> Sessions \union {None}]]
    /\ checks \in [Logins -> Nat] /\ listed \subseteq Logins
    /\ letIn \in [Games -> [Tokens -> Nat]]
    /\ recycle \in [Processes -> SUBSET Versions]
    /\ \A l \in inLogin \union listed : account[l] # None

\* An account is logging in at one login process at most, though clients of it are at
\* several and the checks of their redis threads interleave, and while it is, its
\* key is in redis (RedisLogin::HandleAccountQueryOnline).
OneLogin ==
    /\ \A k, l \in inLogin : k = l
    /\ inLogin # {} => loginKey

\* A player who is in a game is marked online when the work is done: the flag a
\* jump sets with the new version survives the deletion by the Player it replaced
\* (RedisGame::HandlePlayerDeleteOnlineToRedis), and it goes with the last Player.
FlagFollowsPlayer ==
    Idle =>
        ((gameKey # 0) <=> \E g \in Games, c \in Enter : session[g][c] # None)

\* A game lets one Player in with a token at most, whoever presents it how often
\* and whatever its redis thread was asked in between: what it has read it has also
\* removed before it answers (RedisGame::HandleGameTokenToRedis).
TokenLetsInOnce == \A g \in Games : \A t \in Tokens : letIn[g][t] <= 1

\* A token lets in once: not at two games either.
TokenIsSingleUse == \A g, h \in Games : \A t \in Tokens : letIn[g][t] > 0 /\ letIn[h][t] > 0 => g = h

\* The token that a game removes is the one of a player who logs in with it
\* (RedisGame::HandleGameTokenToRedis).
RemovesUsedToken ==
    [][\A g \in Games :
           DeleteToken(g) /\ tokenKey # None /\ (\E c \in Enter : session[g][c] # None) =>
           \E c \in Enter : session[g][c] # None /\ session[g][c].token = tokenKey]_vars

\* The account is in one game at most (RedisLogin::HandleAccountQueryOnline asks
\* whether it is logging in or in a game).
OneSession ==
    \A g, h \in Games : \A c, d \in Enter :
        /\ session[g][c] # None /\ session[g][c].in
        /\ session[h][d] # None /\ session[h][d].in
        => g = h /\ c = d

\* The login key says that somebody is logging in: when nothing is under way, a
\* login process has a Player that will delete it.
KeyOwned == Idle /\ loginKey => inLogin # {}
=============================================================================
