------------------------- MODULE LoginOnlineProofs --------------------------
(***************************************************************************)
(* An account is logging in at one login process at most, and a game lets  *)
(* one Player in with a token, for any number of clients and processes.  The *)
(* online flag follows the Players of one client through any number of     *)
(* games and jumps.                                                        *)
(***************************************************************************)
EXTENDS LoginOnline, TLAPS

(***************************************************************************)
(* The requests and answers that the redis thread of each process has.     *)
(***************************************************************************)
LoginRequests == [type : {"query", "syncLogin", "token", "deleteLogin"}, arg : {None}]
GameRequests == [type : {"gameToken"}, arg : {None}]
                  \union [type : {"syncGame", "deleteGame"}, arg : Versions]
LoginReplies == [type : {"query"}, arg : {"offline", "online"}] \union [type : {"token"}, arg : Tokens]
GameReplies == [type : {"gameToken"}, arg : 0 .. MaxToken]

Queues ==
    /\ queue \in [Processes -> Seq(LoginRequests \union GameRequests)]
    /\ \A l \in Logins : queue[l] \in Seq(LoginRequests)
    /\ \A g \in Games : queue[g] \in Seq(GameRequests)
Replies ==
    /\ replies \in [Processes -> Seq(LoginReplies \union GameReplies)]
    /\ \A l \in Logins : replies[l] \in Seq(LoginReplies)
    /\ \A g \in Games : replies[g] \in Seq(GameReplies)
\* What a redis thread has read belongs to the request at the head of its queue.
Reads ==
    /\ read \in [Processes -> {None, "taken", "held"} \union Nat]
    /\ \A l \in Logins : read[l] = "taken" => At(l, "query")
    /\ \A g \in Games : read[g] # None => queue[g] # <<>>
    /\ \A g \in Games : At(g, "gameToken") => read[g] \in {None} \union 0 .. MaxToken
TypeInv == TypeOK /\ tokens \in 0 .. MaxToken /\ last \in [Games -> Enter \union {None}]
           /\ Queues /\ Replies /\ Reads

(***************************************************************************)
(* The login key.  A login process has a claim on it from the moment its   *)
(* SETNX takes the key to the moment the key is deleted: the claim goes    *)
(* from the redis thread to the answer, to the Player, to the Player's     *)
(* removal and to the request that deletes the key.                        *)
(***************************************************************************)
Granted(l, i) == i \in DOMAIN replies[l] /\ replies[l][i].type = "query" /\ replies[l][i].arg = "offline"
Deleting(l, i) == i \in DOMAIN queue[l] /\ queue[l][i].type = "deleteLogin"
Claims(l, kind) ==
    \/ kind = "taken" /\ read[l] = "taken"
    \/ kind = "granted" /\ \E i \in Nat : Granted(l, i)
    \/ kind = "in" /\ l \in inLogin
    \/ kind = "leaving" /\ recycle[l] # {}
    \/ kind = "deleting" /\ \E i \in Nat : Deleting(l, i)
Kinds == {"taken", "granted", "in", "leaving", "deleting"}
\* There is one claim at most among all login processes, and it is on a key that is set.
OneClaim ==
    /\ \A k, l \in Logins : \A x, y \in Kinds : Claims(k, x) /\ Claims(l, y) => k = l /\ x = y
    /\ \A l \in Logins : \A i, j \in Nat : Granted(l, i) /\ Granted(l, j) => i = j
    /\ \A l \in Logins : \A i, j \in Nat : Deleting(l, i) /\ Deleting(l, j) => i = j
    /\ \A l \in Logins : recycle[l] \subseteq {1}
KeyHeld == \A l \in Logins : \A x \in Kinds : Claims(l, x) => loginKey
LoginInv == OneClaim /\ KeyHeld

(***************************************************************************)
(* Tokens.  A token is in one place at a time: in redis, read by a game    *)
(* that has yet to remove it, in one answer, or with the Player let in.    *)
(***************************************************************************)
Told(g, i) == i \in DOMAIN replies[g] /\ replies[g][i].type = "gameToken"
\* The redis thread of the game has read the token t.
HasRead(g, t) == At(g, "gameToken") /\ read[g] = t
\* No token that was given out will be given out again.
Issued ==
    /\ tokenKey # None => tokenKey <= tokens
    /\ \A g \in Games : \A t \in Tokens : HasRead(g, t) => t <= tokens
    /\ \A g \in Games : \A i \in Nat : Told(g, i) => replies[g][i].arg <= tokens
    /\ \A g \in Games : \A t \in Tokens : letIn[g][t] # 0 => t <= tokens
\* What a game was told of, or has let somebody in with, is gone from redis, and its
\* redis thread does not have it a second time.
Spent(g, t) == tokenKey # t /\ ~ HasRead(g, t)
ToldOnce ==
    \A g \in Games : \A t \in Tokens :
        /\ \A i \in Nat : Told(g, i) /\ replies[g][i].arg = t => Spent(g, t) /\ letIn[g][t] = 0
        /\ \A i, j \in Nat : Told(g, i) /\ Told(g, j) /\ replies[g][i].arg = t /\ replies[g][j].arg = t => i = j
LetInOnce == \A g \in Games : \A t \in Tokens : letIn[g][t] # 0 => letIn[g][t] = 1 /\ Spent(g, t)
TokenInv == Issued /\ ToldOnce /\ LetInOnce

-----------------------------------------------------------------------------
(***************************************************************************)
(* Lists.                                                                  *)
(***************************************************************************)
\* What Append does to the places of a list.
LEMMA AppendPlaces ==
    ASSUME NEW S, NEW s \in Seq(S), NEW e \in S
    PROVE  /\ Append(s, e) \in Seq(S) /\ Append(s, e) # <<>>
           /\ DOMAIN Append(s, e) = 1 .. Len(s) + 1 /\ DOMAIN s = 1 .. Len(s) /\ Len(s) \in Nat
           /\ Append(s, e)[Len(s) + 1] = e
           /\ \A i \in DOMAIN s : Append(s, e)[i] = s[i]
           /\ s # <<>> => Head(Append(s, e)) = Head(s)
           /\ s = <<>> => Head(Append(s, e)) = e
<1>1. /\ Append(s, e) \in Seq(S)
      /\ DOMAIN Append(s, e) = 1 .. Len(s) + 1 /\ DOMAIN s = 1 .. Len(s) /\ Len(s) \in Nat
      /\ Append(s, e)[Len(s) + 1] = e
      /\ \A i \in DOMAIN s : Append(s, e)[i] = s[i]
  OBVIOUS
<1>2. Append(s, e) # <<>> /\ Head(Append(s, e)) = Append(s, e)[1]
  BY <1>1
<1>3. s # <<>> => 1 \in DOMAIN s /\ Head(s) = s[1]
  OBVIOUS
<1>4. s = <<>> => Len(s) = 0
  OBVIOUS
<1> QED BY <1>1, <1>2, <1>3, <1>4

\* What Tail does to the places of a list.
LEMMA TailPlaces ==
    ASSUME NEW S, NEW s \in Seq(S), s # <<>>
    PROVE  /\ Tail(s) \in Seq(S) /\ Head(s) \in S /\ Head(s) = s[1] /\ 1 \in DOMAIN s
           /\ \A i \in DOMAIN Tail(s) : i \in Nat /\ i + 1 \in DOMAIN s /\ Tail(s)[i] = s[i + 1]
OBVIOUS

-----------------------------------------------------------------------------
(***************************************************************************)
(* Types.                                                                  *)
(***************************************************************************)
\* A process asks its redis thread for something.
LEMMA AskTyped ==
    ASSUME TypeInv, NEW p \in Processes, NEW r,
           p \in Logins => r \in LoginRequests, p \in Games => r \in GameRequests,
           queue' = Ask(p, r), read' = read
    PROVE  Queues' /\ Reads'
<1> USE NamesAssumption DEF TypeInv, Queues
<1>1. r \in LoginRequests \union GameRequests
  BY DEF Processes
<1>2. /\ queue' \in [Processes -> Seq(LoginRequests \union GameRequests)]
      /\ \A q \in Processes : queue'[q] = IF q = p THEN Append(queue[p], r) ELSE queue[q]
  BY <1>1, AppendPlaces DEF Ask
<1>3. Queues'
  <2>1. \A l \in Logins : l = p => Append(queue[l], r) \in Seq(LoginRequests)
    BY AppendPlaces
  <2>2. \A g \in Games : g = p => Append(queue[g], r) \in Seq(GameRequests)
    BY AppendPlaces
  <2> QED BY <1>2, <2>1, <2>2 DEF Processes
<1>4. \A q \in Processes : queue[q] # <<>> => queue'[q] # <<>> /\ Head(queue'[q]) = Head(queue[q])
  <2>1. queue[p] \in Seq(LoginRequests \union GameRequests)
    OBVIOUS
  <2>2. queue[p] # <<>> => Append(queue[p], r) # <<>> /\ Head(Append(queue[p], r)) = Head(queue[p])
    BY <1>1, <2>1, AppendPlaces
  <2> QED BY <1>2, <2>2
<1>5. \A g \in Games : At(g, "gameToken")' => read[g] \in {None} \union 0 .. MaxToken
  <2> SUFFICES ASSUME NEW g \in Games, At(g, "gameToken")' PROVE read[g] \in {None} \union 0 .. MaxToken
    OBVIOUS
  <2>1. CASE queue[g] = <<>>
    BY <2>1 DEF Reads
  <2>2. CASE queue[g] # <<>>
    BY <1>4, <2>2 DEF Reads, At, Processes
  <2> QED BY <2>1, <2>2
<1> QED BY <1>3, <1>4, <1>5 DEF Reads, At, Processes
\* The redis thread has finished with the request at the head.
LEMMA FinishTyped ==
    ASSUME TypeInv, NEW p \in Processes, queue[p] # <<>>, Finish(p)
    PROVE  Queues' /\ Reads'
<1> USE NamesAssumption DEF TypeInv, Queues, Finish
<1>1. /\ queue' \in [Processes -> Seq(LoginRequests \union GameRequests)]
      /\ \A q \in Processes : queue'[q] = IF q = p THEN Tail(queue[p]) ELSE queue[q]
  BY TailPlaces
<1>2. Queues'
  <2>1. \A l \in Logins : l = p => Tail(queue[l]) \in Seq(LoginRequests)
    BY TailPlaces
  <2>2. \A g \in Games : g = p => Tail(queue[g]) \in Seq(GameRequests)
    BY TailPlaces
  <2> QED BY <1>1, <2>1, <2>2 DEF Processes
<1>3. /\ read' \in [Processes -> {None, "taken", "held"} \union Nat]
      /\ \A q \in Processes : read'[q] = IF q = p THEN None ELSE read[q]
  BY DEF Reads
<1> QED BY <1>1, <1>2, <1>3 DEF Reads, At, Processes

\* The redis thread has read a key for the request at the head.
LEMMA FirstTyped ==
    ASSUME TypeInv, NEW p \in Processes, NEW type, NEW value \in {None, "taken", "held"} \union Nat,
           First(p, type, value),
           p \in Logins => type = "query",
           type = "gameToken" => value \in 0 .. MaxToken
    PROVE  Queues' /\ Replies' /\ Reads'
<1> USE NamesAssumption DEF TypeInv, First
<1>1. Queues' /\ Replies'
  BY DEF Queues, Replies
<1>2. /\ read' \in [Processes -> {None, "taken", "held"} \union Nat]
      /\ \A q \in Processes : read'[q] = IF q = p THEN value ELSE read[q]
  BY DEF Reads
<1> QED BY <1>1, <1>2 DEF Reads, At, Processes

\* The redis thread answers, the process takes an answer.
LEMMA AnswerTyped ==
    ASSUME TypeInv, NEW p \in Processes, NEW type, NEW arg,
           p \in Logins => Req(type, arg) \in LoginReplies,
           p \in Games => Req(type, arg) \in GameReplies,
           Answer(p, type, arg)
    PROVE  Replies'
<1> USE NamesAssumption DEF TypeInv, Replies
<1> DEFINE r == Req(type, arg)
<1>1. r \in LoginReplies \union GameReplies
  BY DEF Processes
<1>2. replies' = [replies EXCEPT ![p] = Append(@, r)]
  BY DEF Answer
<1> HIDE DEF r
<1>3. /\ replies' \in [Processes -> Seq(LoginReplies \union GameReplies)]
      /\ \A q \in Processes : replies'[q] = IF q = p THEN Append(replies[p], r) ELSE replies[q]
  BY <1>1, <1>2, AppendPlaces
<1>4. \A l \in Logins : l = p => Append(replies[l], r) \in Seq(LoginReplies)
  BY AppendPlaces DEF r
<1>5. \A g \in Games : g = p => Append(replies[g], r) \in Seq(GameReplies)
  BY AppendPlaces DEF r
<1> QED BY <1>3, <1>4, <1>5 DEF Processes

LEMMA HandledTyped ==
    ASSUME TypeInv, NEW p \in Processes, replies[p] # <<>>, replies' = Handled(p)
    PROVE  Replies'
<1> USE NamesAssumption DEF TypeInv, Replies, Handled
<1>1. /\ replies' \in [Processes -> Seq(LoginReplies \union GameReplies)]
      /\ \A q \in Processes : replies'[q] = IF q = p THEN Tail(replies[p]) ELSE replies[q]
  BY TailPlaces
<1>2. \A l \in Logins : l = p => Tail(replies[l]) \in Seq(LoginReplies)
  BY TailPlaces
<1>3. \A g \in Games : g = p => Tail(replies[g]) \in Seq(GameReplies)
  BY TailPlaces
<1> QED BY <1>1, <1>2, <1>3 DEF Processes
\* The types hold at the start.
LEMMA InitTyped == Init => TypeInv
<1> SUFFICES ASSUME Init PROVE TypeInv
  OBVIOUS
<1> USE ConstantsAssumption, NamesAssumption DEF Init
<1>1. TypeOK /\ tokens \in 0 .. MaxToken /\ last \in [Games -> Enter \union {None}]
  <2>1. loginKey \in BOOLEAN /\ gameKey \in Versions \union {0} /\ tokenKey \in Tokens \union {None}
    OBVIOUS
  <2>2. session \in [Games -> [Enter -> Sessions \union {None}]]
    OBVIOUS
  <2>3. recycle \in [Processes -> SUBSET Versions]
    OBVIOUS
  <2> QED BY <2>1, <2>2, <2>3 DEF TypeOK
<1>2. Queues
  BY DEF Queues, Processes
<1>3. Replies
  BY DEF Replies, Processes
<1>4. Reads
  BY <1>2 DEF Reads, At, Processes
<1> QED BY <1>1, <1>2, <1>3, <1>4 DEF TypeInv

\* Steps of a login process.
LEMMA LoginTyped ==
    ASSUME TypeInv, NEW l \in Logins,
           \/ LoginStep(l) \/ HandleSelectPlayer(l) \/ LeaveLogin(l)
           \/ \E c \in Clients : HandleAccountCheck(l, c)
    PROVE  TypeInv'
<1> USE ConstantsAssumption, NamesAssumption DEF redisVars, threadVars, loginVars, gameVars
<1>0. l \in Processes /\ l \notin Games
  BY DEF Processes
<1>1. CASE \E c \in Clients : HandleAccountCheck(l, c)
  <2> PICK c \in Clients : HandleAccountCheck(l, c)
    BY <1>1
  <2>1. Req("query", None) \in LoginRequests
    BY DEF Req, LoginRequests
  <2>2. Queues' /\ Reads'
    BY <1>0, <2>1, AskTyped DEF HandleAccountCheck
  <2>3. Replies'
    BY DEF HandleAccountCheck, TypeInv, Replies
  <2>4. TypeOK'
    BY DEF HandleAccountCheck, TypeInv, TypeOK
  <2> QED BY <2>2, <2>3, <2>4 DEF HandleAccountCheck, TypeInv
<1>2. CASE HandleAccountQueryOnlineToRedisRs(l)
  <2>1. Replies'
    BY <1>0, <1>2, HandledTyped DEF HandleAccountQueryOnlineToRedisRs, Reply
  <2>2. Queues' /\ Reads'
    BY <1>2 DEF HandleAccountQueryOnlineToRedisRs, TypeInv, Queues, Reads, At
  <2>3. checks' \in [Logins -> Nat]
    <3>1. checks \in [Logins -> Nat]
      BY DEF TypeInv, TypeOK
    <3>2. checks' = checks \/ checks' = [checks EXCEPT ![l] = @ + 1]
      BY <1>2 DEF HandleAccountQueryOnlineToRedisRs
    <3> QED BY <3>1, <3>2
  <2>4. TypeOK'
    BY <1>2, <2>3 DEF HandleAccountQueryOnlineToRedisRs, TypeInv, TypeOK, Found
  <2> QED BY <1>2, <2>1, <2>2, <2>4 DEF HandleAccountQueryOnlineToRedisRs, TypeInv
<1>3. CASE HandleTokenToRedisRs(l)
  <2>1. Replies'
    BY <1>0, <1>3, HandledTyped DEF HandleTokenToRedisRs, Reply
  <2>2. Queues' /\ Reads'
    BY <1>3 DEF HandleTokenToRedisRs, TypeInv, Queues, Reads, At
  <2>3. Head(replies[l]).arg \in Tokens
    <3>1. Head(replies[l]) \in LoginReplies
      BY <1>3, TailPlaces DEF HandleTokenToRedisRs, Reply, TypeInv, Replies
    <3> QED BY <1>3, <3>1 DEF HandleTokenToRedisRs, Reply, LoginReplies
  <2>4. TypeOK'
    BY <1>3, <2>3 DEF HandleTokenToRedisRs, TypeInv, TypeOK
  <2> QED BY <1>3, <2>1, <2>2, <2>4 DEF HandleTokenToRedisRs, TypeInv
<1>4. CASE HandleSelectPlayer(l)
  <2>1. Req("token", None) \in LoginRequests
    BY DEF Req, LoginRequests
  <2>2. Queues' /\ Reads'
    BY <1>0, <1>4, <2>1, AskTyped DEF HandleSelectPlayer
  <2>3. TypeOK' /\ Replies'
    BY <1>4 DEF HandleSelectPlayer, TypeInv, TypeOK, Replies
  <2> QED BY <1>4, <2>2, <2>3 DEF HandleSelectPlayer, TypeInv
<1>5. CASE LeaveLogin(l)
  <2>1. TypeOK'
    <3>1. recycle' \in [Processes -> SUBSET Versions]
      BY <1>0, <1>5 DEF LeaveLogin, TypeInv, TypeOK, Versions
    <3> QED BY <1>5, <3>1 DEF LeaveLogin, TypeInv, TypeOK
  <2> QED BY <1>5, <2>1 DEF LeaveLogin, TypeInv, Queues, Replies, Reads, At
<1>6. CASE HandleQueryPlayerListRs(l)
  <2>1. checks' \in [Logins -> Nat]
    BY <1>6 DEF HandleQueryPlayerListRs, TypeInv, TypeOK
  <2>2. TypeOK'
    BY <1>6, <2>1 DEF HandleQueryPlayerListRs, TypeInv, TypeOK, Found
  <2> QED BY <1>6, <2>2 DEF HandleQueryPlayerListRs, TypeInv, Queues, Replies, Reads, At
<1>7. CASE SetOnlineInLogin(l)
  <2>1. Req("syncLogin", None) \in LoginRequests
    BY DEF Req, LoginRequests
  <2>2. Queues' /\ Reads'
    BY <1>0, <1>7, <2>1, AskTyped DEF SetOnlineInLogin
  <2>3. TypeOK' /\ Replies'
    BY <1>7 DEF SetOnlineInLogin, TypeInv, TypeOK, Replies
  <2> QED BY <1>7, <2>2, <2>3 DEF SetOnlineInLogin, TypeInv
<1> QED BY <1>1, <1>2, <1>3, <1>4, <1>5, <1>6, <1>7 DEF LoginStep

\* Steps of a game process.
LEMMA GameTyped ==
    ASSUME TypeInv, NEW g \in Games,
           \/ HandleGameTokenToRedisRs(g) \/ \E v \in Versions : SetOnlineInGame(g, v)
           \/ \E c \in Enter : HandleLoginByToken(g, c) \/ Teleport(g, c) \/ LeaveGame(g, c)
    PROVE  TypeInv'
<1> USE ConstantsAssumption, NamesAssumption DEF redisVars, threadVars, loginVars, gameVars
<1>0. g \in Processes /\ g \notin Logins
  BY DEF Processes
<1>1. CASE HandleGameTokenToRedisRs(g)
  <2>1. Replies'
    BY <1>0, <1>1, HandledTyped DEF HandleGameTokenToRedisRs, Reply
  <2>2. Queues' /\ Reads'
    BY <1>1 DEF HandleGameTokenToRedisRs, TypeInv, Queues, Reads, At
  <2>3. session' \in [Games -> [Enter -> Sessions \union {None}]] /\ letIn' \in [Games -> [Tokens -> Nat]]
    <3> DEFINE c == last[g]
    <3>1. session \in [Games -> [Enter -> Sessions \union {None}]] /\ letIn \in [Games -> [Tokens -> Nat]]
      BY DEF TypeInv, TypeOK
    <3>2. CASE Admits(g, c)
      <4>1. c \in Enter
        BY <3>2 DEF TypeInv, Admits
      <4>2. session[g][c] \in Sessions
        BY <3>1, <3>2, <4>1 DEF Admits
      <4>3. [session[g][c] EXCEPT !.in = TRUE] \in Sessions /\ session[g][c].token \in Tokens
        BY <4>2 DEF Sessions
      <4>4. /\ session' = [session EXCEPT ![g][c].in = TRUE]
            /\ letIn' = [letIn EXCEPT ![g][session[g][c].token] = @ + 1]
        BY <1>1, <3>2 DEF HandleGameTokenToRedisRs
      <4>5. session' \in [Games -> [Enter -> Sessions \union {None}]]
        BY <3>1, <4>1, <4>3, <4>4
      <4>6. letIn' \in [Games -> [Tokens -> Nat]]
        BY <3>1, <4>3, <4>4
      <4> QED BY <4>5, <4>6
    <3>3. CASE ~ Admits(g, c)
      BY <1>1, <3>1, <3>3 DEF HandleGameTokenToRedisRs
    <3> QED BY <3>2, <3>3
  <2>4. TypeOK'
    BY <1>1, <2>3 DEF HandleGameTokenToRedisRs, TypeInv, TypeOK
  <2> QED BY <1>1, <2>1, <2>2, <2>4 DEF HandleGameTokenToRedisRs, TypeInv
<1>2. ASSUME NEW c \in Enter, HandleLoginByToken(g, c)
      PROVE  TypeInv'
  <2> USE <1>2 DEF HandleLoginByToken
  <2>1. Req("gameToken", None) \in GameRequests
    BY DEF Req, GameRequests
  <2>2. Queues' /\ Reads'
    BY <1>0, <2>1, AskTyped
  <2>3. TypeOK'
    <3>1. [version |-> 1, in |-> FALSE, token |-> have[c], due |-> TRUE] \in Sessions
      BY DEF TypeInv, TypeOK, Sessions, Versions
    <3>2. session' \in [Games -> [Enter -> Sessions \union {None}]]
      BY <3>1 DEF TypeInv, TypeOK
    <3> QED BY <3>2 DEF TypeInv, TypeOK
  <2>4. last' \in [Games -> Enter \union {None}]
    BY DEF TypeInv, AddPlayer
  <2> QED BY <2>2, <2>3, <2>4 DEF TypeInv, Replies
<1>3. ASSUME NEW c \in Enter, Teleport(g, c)
      PROVE  TypeInv'
  <2>1. session[g][c] \in Sessions /\ session[g][c].version \in Versions
        /\ session[g][c].version + 1 \in Versions
    <3>1. session[g][c] # None /\ session[g][c].version < MaxVersion
      BY <1>3 DEF Teleport
    <3>2. session \in [Games -> [Enter -> Sessions \union {None}]]
      BY DEF TypeInv, TypeOK
    <3>3. session[g][c] \in Sessions
      BY <3>1, <3>2
    <3>4. session[g][c].version \in Versions
      BY <3>3 DEF Sessions
    <3> QED BY <3>1, <3>3, <3>4 DEF Versions
  <2> USE <1>3 DEF Teleport
  <2>2. TypeOK'
    <3>1. [session[g][c] EXCEPT !.version = @ + 1, !.due = TRUE] \in Sessions
      BY <2>1 DEF Sessions
    <3>2. session' \in [Games -> [Enter -> Sessions \union {None}]]
      BY <3>1 DEF TypeInv, TypeOK
    <3>3. recycle' \in [Processes -> SUBSET Versions]
      BY <1>0, <2>1 DEF TypeInv, TypeOK
    <3> QED BY <3>2, <3>3 DEF TypeInv, TypeOK
  <2>3. last' \in [Games -> Enter \union {None}]
    BY DEF TypeInv, RemovePlayer
  <2> QED BY <2>2, <2>3 DEF TypeInv, Queues, Replies, Reads, At
<1>5. ASSUME NEW v \in Versions, SetOnlineInGame(g, v)
      PROVE  TypeInv'
  <2> USE <1>5 DEF SetOnlineInGame
  <2>1. Req("syncGame", v) \in GameRequests
    BY DEF Req, GameRequests
  <2>2. Queues' /\ Reads'
    BY <1>0, <2>1, AskTyped
  <2>3. session' \in [Games -> [Enter -> Sessions \union {None}]]
    <3>1. session \in [Games -> [Enter -> Sessions \union {None}]]
      BY DEF TypeInv, TypeOK
    <3>2. \A s \in Sessions : [s EXCEPT !.due = FALSE] \in Sessions
      BY DEF Sessions
    <3> QED BY <3>1, <3>2
  <2>4. TypeOK'
    BY <2>3 DEF TypeInv, TypeOK
  <2> QED BY <2>2, <2>4 DEF TypeInv, Replies
<1>4. ASSUME NEW c \in Enter, LeaveGame(g, c)
      PROVE  TypeInv'
  <2> USE <1>4 DEF LeaveGame
  <2>1. session[g][c] \in Sessions /\ session[g][c].version \in Versions
    BY DEF TypeInv, TypeOK, Sessions
  <2>2. recycle' \in [Processes -> SUBSET Versions]
    BY <1>0, <2>1 DEF TypeInv, TypeOK
  <2>3. session' \in [Games -> [Enter -> Sessions \union {None}]]
    BY DEF TypeInv, TypeOK
  <2>4. TypeOK' /\ last' \in [Games -> Enter \union {None}]
    BY <2>2, <2>3 DEF TypeInv, TypeOK, RemovePlayer
  <2> QED BY <2>4 DEF TypeInv, Queues, Replies, Reads, At
<1> QED BY <1>1, <1>2, <1>3, <1>4, <1>5

\* Steps of the redis threads, and what objects going back to their pools ask of them.
LEMMA RedisTyped ==
    ASSUME TypeInv, NEW p \in Processes, RedisStep(p) \/ \E v \in Versions : BackToPool(p, v)
    PROVE  TypeInv'
<1> USE ConstantsAssumption, NamesAssumption DEF redisVars, threadVars, loginVars, gameVars
<1>0. (p \in Logins <=> p \notin Games) /\ (p \in Logins \/ p \in Games)
  BY DEF Processes
<1>1. ASSUME NEW v \in Versions, BackToPool(p, v)
      PROVE  TypeInv'
  <2> USE <1>1 DEF BackToPool
  <2> DEFINE r == IF p \in Logins THEN Req("deleteLogin", None) ELSE Req("deleteGame", v)
  <2>1. (p \in Logins => r \in LoginRequests) /\ (p \in Games => r \in GameRequests)
    BY <1>0 DEF Req, LoginRequests, GameRequests
  <2>2. queue' = Ask(p, r)
    OBVIOUS
  <2> HIDE DEF r
  <2>3. Queues' /\ Reads'
    BY <2>1, <2>2, AskTyped
  <2>4. recycle' \in [Processes -> SUBSET Versions]
    BY DEF TypeInv, TypeOK
  <2>5. TypeOK'
    BY <2>4 DEF TypeInv, TypeOK
  <2> QED BY <2>3, <2>5 DEF TypeInv, Replies
<1>2. CASE p \in Logins /\ Setnx(p)
  <2>1. Queues' /\ Replies' /\ Reads'
    BY <1>2, FirstTyped DEF Setnx
  <2>2. TypeOK'
    BY <1>2 DEF Setnx, TypeInv, TypeOK
  <2> QED BY <1>2, <2>1, <2>2 DEF Setnx, TypeInv
<1>3. CASE p \in Logins /\ QueryGame(p)
  <2>1. Queues' /\ Reads'
    BY <1>3, FinishTyped DEF QueryGame, At
  <2>2. Replies'
    <3> DEFINE a == IF Offline(p) THEN "offline" ELSE "online"
    <3>1. Req("query", a) \in LoginReplies
      BY DEF Req, LoginReplies
    <3>2. Answer(p, "query", a)
      BY <1>3 DEF QueryGame
    <3> HIDE DEF a
    <3> QED BY <1>0, <1>3, <3>1, <3>2, AnswerTyped
  <2>3. TypeOK'
    BY <1>3 DEF QueryGame, TypeInv, TypeOK
  <2> QED BY <1>3, <2>1, <2>2, <2>3 DEF QueryGame, TypeInv
<1>4. CASE p \in Logins /\ SetLogin(p)
  <2>1. Queues' /\ Reads'
    BY <1>4, FinishTyped DEF SetLogin, At
  <2>2. loginKey' \in BOOLEAN
    BY <1>4 DEF SetLogin, At
  <2>3. TypeOK' /\ Replies'
    BY <1>4, <2>2 DEF SetLogin, TypeInv, TypeOK, Replies
  <2> QED BY <1>4, <2>1, <2>3 DEF SetLogin, TypeInv
<1>5. CASE p \in Logins /\ LoginToken(p)
  <2>1. Queues' /\ Reads'
    BY <1>5, FinishTyped DEF LoginToken, At
  <2>2. tokens + 1 \in Tokens
    BY <1>5 DEF LoginToken, TypeInv, Tokens
  <2>3. Replies'
    <3>1. Req("token", tokens + 1) \in LoginReplies
      BY <2>2 DEF Req, LoginReplies
    <3> QED BY <1>0, <1>5, <3>1, AnswerTyped DEF LoginToken
  <2>4. TypeOK' /\ tokens' \in 0 .. MaxToken
    BY <1>5, <2>2 DEF LoginToken, TypeInv, TypeOK, Tokens
  <2> QED BY <1>5, <2>1, <2>3, <2>4 DEF LoginToken, TypeInv
<1>6. CASE p \in Games /\ GetToken(p)
  <2> DEFINE v == IF tokenKey = None THEN 0 ELSE tokenKey
  <2>1. v \in 0 .. MaxToken /\ v \in Nat
    BY DEF TypeInv, TypeOK, Tokens
  <2>2. First(p, "gameToken", v)
    BY <1>6 DEF GetToken
  <2> HIDE DEF v
  <2>3. Queues' /\ Replies' /\ Reads'
    BY <1>0, <1>6, <2>1, <2>2, FirstTyped
  <2>4. TypeOK'
    BY <1>6 DEF GetToken, TypeInv, TypeOK
  <2> QED BY <1>6, <2>3, <2>4 DEF GetToken, TypeInv
<1>7. CASE p \in Games /\ DeleteToken(p)
  <2>1. Queues' /\ Reads'
    BY <1>7, FinishTyped DEF DeleteToken, At
  <2>2. Replies'
    <3>1. read[p] \in 0 .. MaxToken
      BY <1>7 DEF DeleteToken, TypeInv, Reads
    <3>2. Req("gameToken", read[p]) \in GameReplies
      BY <3>1 DEF Req, GameReplies
    <3> QED BY <1>0, <1>7, <3>2, AnswerTyped DEF DeleteToken
  <2>3. TypeOK'
    BY <1>7 DEF DeleteToken, TypeInv, TypeOK, TokenLeft
  <2> QED BY <1>7, <2>1, <2>2, <2>3 DEF DeleteToken, TypeInv
<1>8. CASE p \in Games /\ GetGame(p)
  <2>1. gameKey \in Nat
    BY DEF TypeInv, TypeOK, Versions
  <2>2. Queues' /\ Replies' /\ Reads'
    BY <1>0, <1>8, <2>1, FirstTyped DEF GetGame
  <2>3. TypeOK'
    BY <1>8 DEF GetGame, TypeInv, TypeOK
  <2> QED BY <1>8, <2>2, <2>3 DEF GetGame, TypeInv, First
<1>9. CASE p \in Games /\ SetGame(p)
  <2>1. Queues' /\ Reads'
    BY <1>9, FinishTyped DEF SetGame, At
  <2>2. gameKey' \in Versions \union {0}
    <3>1. Head(queue[p]) \in GameRequests
      BY <1>9, TailPlaces DEF SetGame, At, TypeInv, Queues
    <3>2. At(p, "syncGame") => Head(queue[p]).arg \in Versions
      BY <3>1 DEF At, GameRequests
    <3> QED BY <1>9, <3>2 DEF SetGame, TypeInv, TypeOK
  <2>3. TypeOK' /\ Replies'
    BY <1>9, <2>2 DEF SetGame, TypeInv, TypeOK, Replies
  <2> QED BY <1>9, <2>1, <2>3 DEF SetGame, TypeInv
<1> QED BY <1>0, <1>1, <1>2, <1>3, <1>4, <1>5, <1>6, <1>7, <1>8, <1>9 DEF RedisStep

\* Every state of the specification has the types of TypeInv.
THEOREM TypesCorrect == Spec => []TypeInv
<1>1. Init => TypeInv
  BY InitTyped
<1>2. TypeInv /\ [Next]_vars => TypeInv'
  <2> SUFFICES ASSUME TypeInv, [Next]_vars PROVE TypeInv'
    OBVIOUS
  <2> USE DEF redisVars, threadVars, loginVars, gameVars
  <2>1. CASE Expire \/ ExpireToken
    BY <2>1 DEF Expire, ExpireToken, TypeInv, TypeOK, Queues, Replies, Reads, At
  <2>2. CASE UNCHANGED vars
    BY <2>2 DEF vars, TypeInv, TypeOK, Queues, Replies, Reads, At
  <2> QED BY <2>1, <2>2, LoginTyped, GameTyped, RedisTyped DEF Next
<1> QED BY <1>1, <1>2, PTL DEF Spec
-----------------------------------------------------------------------------
(***************************************************************************)
(* The login key.                                                          *)
(***************************************************************************)
\* The last three parts of OneClaim: no process has two claims of the same kind.
Single ==
    /\ \A l \in Logins : \A i, j \in Nat : Granted(l, i) /\ Granted(l, j) => i = j
    /\ \A l \in Logins : \A i, j \in Nat : Deleting(l, i) /\ Deleting(l, j) => i = j
    /\ \A l \in Logins : recycle[l] \subseteq {1}

\* Which requests of a login process delete the key, when it asks for one more and
\* when its redis thread has finished one.
LEMMA AskDeleting ==
    ASSUME TypeInv, NEW l \in Logins, NEW r \in LoginRequests, queue' = Ask(l, r), NEW k \in Logins, NEW i \in Nat
    PROVE  Deleting(k, i)' <=>
               Deleting(k, i) \/ (k = l /\ r.type = "deleteLogin" /\ i = Len(queue[l]) + 1)
<1>1. queue[l] \in Seq(LoginRequests) /\ queue'[k] = IF k = l THEN Append(queue[l], r) ELSE queue[k]
  BY DEF TypeInv, Queues, Ask, Processes
<1> QED BY <1>1, AppendPlaces DEF Deleting

LEMMA FinishDeleting ==
    ASSUME TypeInv, NEW l \in Logins, queue[l] # <<>>, Finish(l), NEW k \in Logins, NEW i \in Nat
    PROVE  /\ k # l => (Deleting(k, i)' <=> Deleting(k, i)) /\ read'[k] = read[k]
           /\ Deleting(l, i)' => Deleting(l, i + 1) /\ i + 1 # 1
           /\ Deleting(l, 1) <=> Head(queue[l]).type = "deleteLogin"
           /\ read'[l] = None
<1>1. /\ queue[l] \in Seq(LoginRequests)
      /\ queue'[k] = IF k = l THEN Tail(queue[l]) ELSE queue[k]
      /\ queue'[l] = Tail(queue[l])
      /\ read'[k] = IF k = l THEN None ELSE read[k]
      /\ read'[l] = None
  BY DEF TypeInv, Queues, Finish, Processes, Reads
<1>2. \A j \in DOMAIN Tail(queue[l]) : j \in Nat \ {0} /\ j + 1 \in DOMAIN queue[l] /\ Tail(queue[l])[j] = queue[l][j + 1]
  BY <1>1
<1>3. Head(queue[l]) = queue[l][1] /\ 1 \in DOMAIN queue[l]
  BY <1>1
<1> QED BY <1>1, <1>2, <1>3 DEF Deleting

\* Which answers grant the key, when there is one more and when one has been taken.
LEMMA AnswerGranted ==
    ASSUME TypeInv, NEW l \in Logins, NEW r \in LoginReplies,
           replies' = [replies EXCEPT ![l] = Append(@, r)], NEW k \in Logins, NEW i \in Nat
    PROVE  Granted(k, i)' <=>
               Granted(k, i) \/ (k = l /\ r.type = "query" /\ r.arg = "offline" /\ i = Len(replies[l]) + 1)
<1>1. replies[l] \in Seq(LoginReplies) /\ replies'[k] = IF k = l THEN Append(replies[l], r) ELSE replies[k]
  BY DEF TypeInv, Replies, Processes
<1>2. /\ DOMAIN Append(replies[l], r) = 1 .. Len(replies[l]) + 1 /\ Len(replies[l]) \in Nat
      /\ DOMAIN replies[l] = 1 .. Len(replies[l]) /\ Append(replies[l], r)[Len(replies[l]) + 1] = r
      /\ \A j \in DOMAIN replies[l] : Append(replies[l], r)[j] = replies[l][j]
  BY <1>1, AppendPlaces
<1>3. CASE k # l
  BY <1>1, <1>3 DEF Granted
<1>4. CASE k = l
  <2>1. replies'[k] = Append(replies[l], r)
    BY <1>1, <1>4
  <2> QED BY <1>2, <1>4, <2>1 DEF Granted
<1> QED BY <1>3, <1>4

LEMMA HandledGranted ==
    ASSUME TypeInv, Single, NEW l \in Logins, replies[l] # <<>>, replies' = Handled(l)
    PROVE  /\ \A k \in Logins : \A i, j \in Nat : Granted(k, i)' /\ Granted(k, j)' => i = j
           /\ \A k \in Logins : (\E i \in Nat : Granted(k, i)') => \E i \in Nat : Granted(k, i) /\ (k = l => i # 1)
           /\ Granted(l, 1) <=> Head(replies[l]).type = "query" /\ Head(replies[l]).arg = "offline"
<1>1. /\ replies[l] \in Seq(LoginReplies)
      /\ \A k \in Logins : replies'[k] = IF k = l THEN Tail(replies[l]) ELSE replies[k]
  BY DEF TypeInv, Replies, Handled, Processes
<1>2. \A j \in DOMAIN Tail(replies[l]) : j \in Nat \ {0} /\ j + 1 \in DOMAIN replies[l] /\ Tail(replies[l])[j] = replies[l][j + 1]
  BY <1>1
<1>3. Head(replies[l]) = replies[l][1] /\ 1 \in DOMAIN replies[l]
  BY <1>1
<1>4. \A k \in Logins : \A i \in Nat : Granted(k, i)' =>
          IF k = l THEN i + 1 \in Nat /\ i + 1 # 1 /\ Granted(k, i + 1) ELSE Granted(k, i)
  <2> SUFFICES ASSUME NEW k \in Logins, NEW i \in Nat, Granted(k, i)'
               PROVE  IF k = l THEN i + 1 \in Nat /\ i + 1 # 1 /\ Granted(k, i + 1) ELSE Granted(k, i)
    OBVIOUS
  <2>1. CASE k = l
    <3>1. replies'[k] = Tail(replies[l])
      BY <1>1, <2>1
    <3> QED BY <1>2, <2>1, <3>1 DEF Granted
  <2>2. CASE k # l
    BY <1>1, <2>2 DEF Granted
  <2> QED BY <2>1, <2>2
<1>5. \A k \in Logins : \A i, j \in Nat : Granted(k, i)' /\ Granted(k, j)' => i = j
  <2> SUFFICES ASSUME NEW k \in Logins, NEW i \in Nat, NEW j \in Nat, Granted(k, i)', Granted(k, j)'
               PROVE  i = j
    OBVIOUS
  <2>1. CASE k = l
    <3>1. i + 1 = j + 1
      BY <1>4, <2>1 DEF Single
    <3> QED BY <3>1
  <2>2. CASE k # l
    BY <1>4, <2>2 DEF Single
  <2> QED BY <2>1, <2>2
<1>6. \A k \in Logins : (\E i \in Nat : Granted(k, i)') => \E i \in Nat : Granted(k, i) /\ (k = l => i # 1)
  BY <1>4
<1>7. Granted(l, 1) <=> Head(replies[l]).type = "query" /\ Head(replies[l]).arg = "offline"
  BY <1>3 DEF Granted
<1> QED BY <1>5, <1>6, <1>7

\* A step that makes no claim keeps the invariant.
LEMMA NoNewClaim ==
    ASSUME LoginInv, Single', \A l \in Logins : \A x \in Kinds : Claims(l, x)' => Claims(l, x),
           loginKey => loginKey'
    PROVE  LoginInv'
BY DEF LoginInv, OneClaim, KeyHeld, Single

\* So does a step that turns a claim into another.
LEMMA ClaimMoves ==
    ASSUME LoginInv, Single', NEW l \in Logins, NEW x \in Kinds, NEW y \in Kinds,
           Claims(l, x), loginKey' = loginKey,
           \A k \in Logins : \A z \in Kinds : Claims(k, z)' =>
               (k = l /\ z = y) \/ (~ (k = l /\ z = x) /\ Claims(k, z))
    PROVE  LoginInv'
BY DEF LoginInv, OneClaim, KeyHeld, Single

\* Games do not touch what the login processes have.
LEMMA LoginsAlone ==
    ASSUME LoginInv, UNCHANGED <<loginKey, inLogin>>,
           \A l \in Logins : UNCHANGED <<queue[l], replies[l], read[l], recycle[l]>>
    PROVE  LoginInv'
<1>1. \A l \in Logins : \A i \in Nat : (Granted(l, i)' <=> Granted(l, i)) /\ (Deleting(l, i)' <=> Deleting(l, i))
  BY DEF Granted, Deleting
<1>2. Single'
  BY <1>1 DEF LoginInv, OneClaim, Single
<1>3. \A l \in Logins : \A x \in Kinds : Claims(l, x)' => Claims(l, x)
  BY <1>1 DEF Claims
<1> QED BY <1>2, <1>3, NoNewClaim

\* Steps of a login process.
LEMMA LoginClaims ==
    ASSUME TypeInv, LoginInv, NEW l \in Logins,
           \/ LoginStep(l) \/ HandleSelectPlayer(l) \/ LeaveLogin(l)
           \/ \E c \in Clients : HandleAccountCheck(l, c)
    PROVE  LoginInv'
<1> USE NamesAssumption DEF redisVars, threadVars, loginVars, gameVars
<1>0. l \in Processes /\ Single
  BY DEF Processes, LoginInv, OneClaim, Single
<1>1. ASSUME NEW r \in LoginRequests, r.type # "deleteLogin", queue' = Ask(l, r),
             UNCHANGED <<loginKey, read, replies, inLogin, recycle>>
      PROVE  LoginInv'
  <2>1. \A k \in Logins : \A i \in Nat : (Deleting(k, i)' <=> Deleting(k, i)) /\ (Granted(k, i)' <=> Granted(k, i))
    BY <1>1, AskDeleting DEF Granted
  <2>2. Single'
    BY <1>0, <1>1, <2>1 DEF Single
  <2>3. \A k \in Logins : \A x \in Kinds : Claims(k, x)' => Claims(k, x)
    BY <1>1, <2>1 DEF Claims
  <2> QED BY <1>1, <2>2, <2>3, NoNewClaim
<1>2. CASE \E c \in Clients : HandleAccountCheck(l, c)
  <2>1. Req("query", None) \in LoginRequests /\ Req("query", None).type # "deleteLogin"
    BY DEF Req, LoginRequests
  <2> QED BY <1>1, <1>2, <2>1 DEF HandleAccountCheck
<1>3. CASE HandleSelectPlayer(l)
  <2>1. Req("token", None) \in LoginRequests /\ Req("token", None).type # "deleteLogin"
    BY DEF Req, LoginRequests
  <2> QED BY <1>1, <1>3, <2>1 DEF HandleSelectPlayer
<1>4. CASE HandleTokenToRedisRs(l)
  <2> USE <1>4 DEF HandleTokenToRedisRs
  <2>1. /\ \A k \in Logins : \A i, j \in Nat : Granted(k, i)' /\ Granted(k, j)' => i = j
        /\ \A k \in Logins : (\E i \in Nat : Granted(k, i)') => \E i \in Nat : Granted(k, i)
    BY <1>0, HandledGranted DEF Reply
  <2>2. \A k \in Logins : \A i \in Nat : Deleting(k, i)' <=> Deleting(k, i)
    BY DEF Deleting
  <2>3. Single'
    BY <1>0, <2>1, <2>2 DEF Single
  <2>4. \A k \in Logins : \A x \in Kinds : Claims(k, x)' => Claims(k, x)
    BY <2>1, <2>2 DEF Claims
  <2> QED BY <2>3, <2>4, NoNewClaim
<1>5. CASE HandleAccountQueryOnlineToRedisRs(l)
  <2> USE <1>5 DEF HandleAccountQueryOnlineToRedisRs
  <2>1. /\ \A k \in Logins : \A i, j \in Nat : Granted(k, i)' /\ Granted(k, j)' => i = j
        /\ \A k \in Logins : (\E i \in Nat : Granted(k, i)') => \E i \in Nat : Granted(k, i) /\ (k = l => i # 1)
        /\ Head(replies[l]).arg = "offline" => Granted(l, 1)
    BY <1>0, HandledGranted DEF Reply
  <2>2. \A k \in Logins : \A i \in Nat : Deleting(k, i)' <=> Deleting(k, i)
    BY DEF Deleting
  <2>4. Single'
    BY <1>0, <2>1, <2>2 DEF Single
  <2>6. CASE inLogin' = inLogin
    <3>1. \A k \in Logins : \A x \in Kinds : Claims(k, x)' => Claims(k, x)
      BY <2>2, <2>1, <2>6 DEF Claims
    <3> QED BY <2>4, <3>1, NoNewClaim
  <2>7. CASE Head(replies[l]).arg = "offline" /\ inLogin' = inLogin \union {l}
    <3>1. Granted(l, 1) /\ 1 \in Nat
      BY <2>1, <2>7
    <3>2. Claims(l, "granted")
      BY <3>1 DEF Claims
    <3>3. \A i \in Nat : ~ Granted(l, i)'
      BY <1>0, <2>1, <3>1 DEF Single
    <3>4. \A k \in Logins : \A z \in Kinds : Claims(k, z)' =>
              (k = l /\ z = "in") \/ (~ (k = l /\ z = "granted") /\ Claims(k, z))
      BY <2>2, <2>1, <2>7, <3>3 DEF Claims
    <3> QED BY <2>4, <3>2, <3>4, ClaimMoves DEF Kinds
  <2> QED BY <2>6, <2>7
<1>6. CASE LeaveLogin(l)
  <2> USE <1>6 DEF LeaveLogin
  <2>1. \A k \in Logins : \A i \in Nat : (Deleting(k, i)' <=> Deleting(k, i)) /\ (Granted(k, i)' <=> Granted(k, i))
    BY DEF Deleting, Granted
  <2>2. \A k \in Logins : recycle'[k] = IF k = l /\ l \in inLogin THEN {1} ELSE recycle[k]
    BY DEF TypeInv, TypeOK, Releases, Processes
  <2>3. Single'
    BY <1>0, <2>1, <2>2 DEF Single
  <2>4. CASE l \in inLogin
    <3>1. Claims(l, "in")
      BY <2>4 DEF Claims
    <3>2. \A k \in Logins : \A z \in Kinds : Claims(k, z)' =>
              (k = l /\ z = "leaving") \/ (~ (k = l /\ z = "in") /\ Claims(k, z))
      BY <2>1, <2>2 DEF Claims
    <3> QED BY <2>3, <3>1, <3>2, ClaimMoves DEF Kinds
  <2>5. CASE l \notin inLogin
    <3>1. \A k \in Logins : \A x \in Kinds : Claims(k, x)' => Claims(k, x)
      BY <2>1, <2>2, <2>5 DEF Claims
    <3> QED BY <2>3, <3>1, NoNewClaim
  <2> QED BY <2>4, <2>5
<1>7. CASE HandleQueryPlayerListRs(l)
  <2>1. UNCHANGED <<loginKey, inLogin>> /\ \A k \in Logins : UNCHANGED <<queue[k], replies[k], read[k], recycle[k]>>
    BY <1>7 DEF HandleQueryPlayerListRs
  <2> QED BY <2>1, LoginsAlone
<1>8. CASE SetOnlineInLogin(l)
  <2>1. Req("syncLogin", None) \in LoginRequests /\ Req("syncLogin", None).type # "deleteLogin"
    BY DEF Req, LoginRequests
  <2> QED BY <1>1, <1>8, <2>1 DEF SetOnlineInLogin
<1> QED BY <1>2, <1>3, <1>4, <1>5, <1>6, <1>7, <1>8 DEF LoginStep
\* Steps of the redis threads, and what objects going back to their pools ask of them.
LEMMA RedisClaims ==
    ASSUME TypeInv, LoginInv, NEW p \in Processes, RedisStep(p) \/ \E v \in Versions : BackToPool(p, v)
    PROVE  LoginInv'
<1> USE NamesAssumption DEF redisVars, threadVars, loginVars, gameVars
<1>0. Single
  BY DEF LoginInv, OneClaim, Single
<1>1. CASE p \notin Logins
  <2>1. \A l \in Logins : UNCHANGED <<queue[l], replies[l], read[l], recycle[l]>>
    <3>1. ASSUME NEW v \in Versions, BackToPool(p, v)
          PROVE  \A l \in Logins : UNCHANGED <<queue[l], replies[l], read[l], recycle[l]>>
      BY <1>1, <3>1 DEF BackToPool, Ask, TypeInv, TypeOK, Queues, Processes
    <3>2. CASE GetToken(p) \/ GetGame(p)
      BY <1>1, <3>2 DEF GetToken, GetGame, First, TypeInv, Reads, Processes
    <3>3. CASE DeleteToken(p) \/ SetGame(p)
      BY <1>1, <3>3 DEF DeleteToken, SetGame, Finish, Answer, TypeInv, Queues, Replies, Reads, Processes
    <3> QED BY <1>1, <3>1, <3>2, <3>3 DEF RedisStep
  <2>2. UNCHANGED <<loginKey, inLogin>>
    BY <1>1 DEF RedisStep, BackToPool, GetToken, GetGame, DeleteToken, SetGame
  <2> QED BY <2>1, <2>2, LoginsAlone
<1>2. ASSUME p \in Logins, NEW v \in Versions, BackToPool(p, v)
      PROVE  LoginInv'
  <2> USE <1>2 DEF BackToPool
  <2>1. Req("deleteLogin", None) \in LoginRequests /\ queue' = Ask(p, Req("deleteLogin", None))
    BY DEF Req, LoginRequests
  <2>2. \A k \in Logins : \A i \in Nat : Deleting(k, i)' => Deleting(k, i) \/ (k = p /\ i = Len(queue[p]) + 1)
    BY <2>1, AskDeleting
  <2>3. \A k \in Logins : \A i \in Nat : Granted(k, i)' <=> Granted(k, i)
    BY DEF Granted
  <2>4. Claims(p, "leaving") /\ \A k \in Logins : recycle'[k] = IF k = p THEN {} ELSE recycle[k]
    <3>1. recycle[p] = {v}
      BY <1>0 DEF Single
    <3>2. \A k \in Logins : recycle'[k] = IF k = p THEN recycle[p] \ {v} ELSE recycle[k]
      BY DEF TypeInv, TypeOK, Processes
    <3> QED BY <3>1, <3>2 DEF Claims
  <2>5. \A i \in Nat : ~ Deleting(p, i)
    BY <2>4 DEF LoginInv, OneClaim, Claims, Kinds
  <2>6. Single'
    BY <1>0, <2>2, <2>3, <2>4, <2>5 DEF Single
  <2>7. \A k \in Logins : \A z \in Kinds : Claims(k, z)' =>
            (k = p /\ z = "deleting") \/ (~ (k = p /\ z = "leaving") /\ Claims(k, z))
    BY <2>2, <2>3, <2>4 DEF Claims
  <2> QED BY <1>2, <2>4, <2>6, <2>7, ClaimMoves DEF Kinds
<1>3. CASE p \in Logins /\ Setnx(p)
  <2> USE <1>3 DEF Setnx, First
  <2>1. \A k \in Logins : \A i \in Nat : (Deleting(k, i)' <=> Deleting(k, i)) /\ (Granted(k, i)' <=> Granted(k, i))
    BY DEF Deleting, Granted
  <2>2. \A k \in Logins : read'[k] = IF k = p THEN (IF loginKey THEN "held" ELSE "taken") ELSE read[k]
    BY DEF TypeInv, Reads, Processes
  <2>3. Single'
    BY <1>0, <2>1 DEF Single
  <2>4. CASE loginKey
    <3>1. \A k \in Logins : \A x \in Kinds : Claims(k, x)' => Claims(k, x)
      BY <2>1, <2>2, <2>4 DEF Claims
    <3> QED BY <2>3, <3>1, NoNewClaim
  <2>5. CASE ~ loginKey
    <3>1. \A k \in Logins : \A x \in Kinds : ~ Claims(k, x)
      BY <2>5 DEF LoginInv, KeyHeld
    <3>2. \A k \in Logins : \A x \in Kinds : Claims(k, x)' => Claims(k, x) \/ (k = p /\ x = "taken")
      BY <2>1, <2>2 DEF Claims
    <3> QED BY <2>3, <3>1, <3>2 DEF LoginInv, OneClaim, KeyHeld, Single
  <2> QED BY <2>4, <2>5
<1>4. ASSUME p \in Logins, queue[p] # <<>>, Finish(p), UNCHANGED recycle,
             \A k \in Logins : \A i, j \in Nat : Granted(k, i)' /\ Granted(k, j)' => i = j
      PROVE  /\ Single'
             /\ \A k \in Logins : (\E i \in Nat : Deleting(k, i)') => \E i \in Nat : Deleting(k, i) /\ (k = p => i # 1)
             /\ \A k \in Logins : read'[k] = IF k = p THEN None ELSE read[k]
             /\ Deleting(p, 1) <=> Head(queue[p]).type = "deleteLogin"
  <2>1. /\ \A k \in Logins : \A i \in Nat : k # p => (Deleting(k, i)' <=> Deleting(k, i)) /\ read'[k] = read[k]
        /\ \A i \in Nat : Deleting(p, i)' => i + 1 \in Nat /\ Deleting(p, i + 1) /\ i + 1 # 1
        /\ Deleting(p, 1) <=> Head(queue[p]).type = "deleteLogin"
        /\ read'[p] = None
    BY <1>4, FinishDeleting
  <2>2. \A k \in Logins : \A i, j \in Nat : Deleting(k, i)' /\ Deleting(k, j)' => i = j
    <3> SUFFICES ASSUME NEW k \in Logins, NEW i \in Nat, NEW j \in Nat, Deleting(k, i)', Deleting(k, j)'
                 PROVE  i = j
      OBVIOUS
    <3>1. CASE k = p
      <4>1. i + 1 = j + 1
        BY <1>0, <2>1, <3>1 DEF Single
      <4> QED BY <4>1
    <3>2. CASE k # p
      BY <1>0, <2>1, <3>2 DEF Single
    <3> QED BY <3>1, <3>2
  <2>3. \A k \in Logins : recycle'[k] \subseteq {1}
    BY <1>0, <1>4 DEF Single
  <2>4. Single'
    BY <1>4, <2>2, <2>3 DEF Single
  <2>5. \A k \in Logins : read'[k] = IF k = p THEN None ELSE read[k]
    BY <2>1
  <2>6. \A k \in Logins : (\E i \in Nat : Deleting(k, i)') => \E i \in Nat : Deleting(k, i) /\ (k = p => i # 1)
    BY <2>1
  <2> QED BY <2>1, <2>4, <2>5, <2>6
<1>5. CASE p \in Logins /\ QueryGame(p)
  <2> USE <1>5 DEF QueryGame, Answer
  <2> DEFINE r == Req("query", IF Offline(p) THEN "offline" ELSE "online")
  <2>1. r \in LoginReplies /\ r.type = "query" /\ (r.arg = "offline" <=> Offline(p))
    BY DEF Req, LoginReplies
  <2>2. replies' = [replies EXCEPT ![p] = Append(@, r)]
    OBVIOUS
  <2> HIDE DEF r
  <2>3. \A k \in Logins : \A i \in Nat : Granted(k, i)' =>
            Granted(k, i) \/ (k = p /\ Offline(p) /\ i = Len(replies[p]) + 1)
    <3> SUFFICES ASSUME NEW k \in Logins, NEW i \in Nat, Granted(k, i)'
                 PROVE  Granted(k, i) \/ (k = p /\ Offline(p) /\ i = Len(replies[p]) + 1)
      OBVIOUS
    <3>1. p \in Logins
      OBVIOUS
    <3>2. Granted(k, i)' <=>
              Granted(k, i) \/ (k = p /\ r.type = "query" /\ r.arg = "offline" /\ i = Len(replies[p]) + 1)
      BY ONLY TypeInv, <2>1, <2>2, <3>1, AnswerGranted, k \in Logins, i \in Nat
    <3> QED BY <2>1, <3>2
  <2>4. Offline(p) => Claims(p, "taken")
    BY DEF Offline, Claims
  <2>5. Offline(p) => \A k \in Logins : \A i \in Nat : ~ Granted(k, i)
    BY <2>4 DEF LoginInv, OneClaim, Claims, Kinds
  <2>6. \A k \in Logins : \A i, j \in Nat : Granted(k, i)' /\ Granted(k, j)' => i = j
    BY <1>0, <2>3, <2>5 DEF Single
  <2>7. /\ Single'
        /\ \A k \in Logins : (\E i \in Nat : Deleting(k, i)') => \E i \in Nat : Deleting(k, i)
        /\ \A k \in Logins : read'[k] = IF k = p THEN None ELSE read[k]
    BY <1>4, <2>6 DEF At
  <2>8. CASE Offline(p)
    <3>1. \A k \in Logins : \A z \in Kinds : Claims(k, z)' =>
              (k = p /\ z = "granted") \/ (~ (k = p /\ z = "taken") /\ Claims(k, z))
      BY <2>3, <2>7 DEF Claims
    <3> QED BY <2>4, <2>7, <2>8, <3>1, ClaimMoves DEF Kinds
  <2>9. CASE ~ Offline(p)
    <3>1. \A k \in Logins : \A x \in Kinds : Claims(k, x)' => Claims(k, x)
      BY <2>3, <2>7, <2>9 DEF Claims
    <3> QED BY <2>7, <3>1, NoNewClaim
  <2> QED BY <2>8, <2>9
<1>6. CASE p \in Logins /\ LoginToken(p)
  <2> USE <1>6 DEF LoginToken, Answer
  <2>1. Req("token", tokens + 1) \in LoginReplies /\ Req("token", tokens + 1).type # "query"
    BY ConstantsAssumption DEF Req, LoginReplies, TypeInv, Tokens
  <2>2. \A k \in Logins : \A i \in Nat : Granted(k, i)' => Granted(k, i)
    BY <2>1, AnswerGranted
  <2>3. /\ Single'
        /\ \A k \in Logins : (\E i \in Nat : Deleting(k, i)') => \E i \in Nat : Deleting(k, i)
        /\ \A k \in Logins : read'[k] = IF k = p THEN None ELSE read[k]
    BY <1>0, <1>4, <2>2 DEF At, Single
  <2>4. \A k \in Logins : \A x \in Kinds : Claims(k, x)' => Claims(k, x)
    BY <2>2, <2>3 DEF Claims
  <2> QED BY <2>3, <2>4, NoNewClaim
<1>7. CASE p \in Logins /\ SetLogin(p)
  <2> USE <1>7 DEF SetLogin
  <2>1. \A k \in Logins : \A i \in Nat : Granted(k, i)' <=> Granted(k, i)
    BY DEF Granted
  <2>2. /\ Single'
        /\ \A k \in Logins : (\E i \in Nat : Deleting(k, i)') => \E i \in Nat : Deleting(k, i) /\ (k = p => i # 1)
        /\ \A k \in Logins : read'[k] = IF k = p THEN None ELSE read[k]
        /\ Deleting(p, 1) <=> Head(queue[p]).type = "deleteLogin"
    BY <1>0, <1>4, <2>1 DEF At, Single
  <2>3. \A k \in Logins : \A x \in Kinds : Claims(k, x)' => Claims(k, x)
    BY <2>1, <2>2 DEF Claims
  <2>4. CASE At(p, "syncLogin")
    BY <2>2, <2>3, <2>4, NoNewClaim
  <2>5. CASE ~ At(p, "syncLogin")
    <3>1. Deleting(p, 1) /\ 1 \in Nat
      BY <2>2, <2>5 DEF At
    <3>2. Claims(p, "deleting")
      BY <3>1 DEF Claims
    <3>3. \A k \in Logins : \A x \in Kinds : Claims(k, x) => k = p /\ x = "deleting"
      BY <1>7, <3>2 DEF LoginInv, OneClaim, Kinds
    <3>4. \A i \in Nat : ~ Deleting(p, i)'
      BY <1>0, <1>7, <2>2, <3>1 DEF Single
    <3>5. ~ Claims(p, "deleting")'
      BY <3>4 DEF Claims
    <3>6. \A k \in Logins : \A x \in Kinds : ~ Claims(k, x)'
      BY <2>3, <3>3, <3>5
    <3> QED BY <2>2, <3>6 DEF LoginInv, OneClaim, KeyHeld, Single
  <2> QED BY <2>4, <2>5
<1> QED BY <1>1, <1>2, <1>3, <1>5, <1>6, <1>7 DEF RedisStep

\* There is never more than one claim on the login key.
THEOREM ClaimsCorrect == Spec => []LoginInv
<1>1. Init => LoginInv
  <2> SUFFICES ASSUME Init PROVE LoginInv
    OBVIOUS
  <2>1. \A l \in Logins : \A i \in Nat : ~ Granted(l, i) /\ ~ Deleting(l, i)
    BY DEF Init, Granted, Deleting, Processes
  <2>2. \A l \in Logins : read[l] # "taken" /\ recycle[l] = {} /\ l \notin inLogin
    BY NamesAssumption DEF Init, Processes
  <2>3. \A l \in Logins : \A x \in Kinds : ~ Claims(l, x)
    BY <2>1, <2>2 DEF Claims
  <2> QED BY <2>1, <2>2, <2>3 DEF LoginInv, OneClaim, KeyHeld
<1>2. TypeInv /\ LoginInv /\ [Next]_vars => LoginInv'
  <2> SUFFICES ASSUME TypeInv, LoginInv, [Next]_vars PROVE LoginInv'
    OBVIOUS
  <2> USE DEF redisVars, threadVars, loginVars, gameVars
  <2>1. CASE UNCHANGED vars \/ ExpireToken
    BY <2>1, LoginsAlone DEF vars, ExpireToken
  <2>2. CASE Expire
    <3>1. \A l \in Logins : \A i \in Nat : ~ Granted(l, i) /\ ~ Deleting(l, i)
      BY <2>2 DEF Expire, Idle, Granted, Deleting, Processes
    <3>2. \A l \in Logins : read[l] # "taken" /\ recycle[l] = {} /\ l \notin inLogin
      BY <2>2 DEF Expire, Idle, TypeInv, Reads, At, Processes
    <3>3. \A l \in Logins : \A x \in Kinds : ~ Claims(l, x)
      BY <3>1, <3>2 DEF Claims
    <3>4. \A l \in Logins : \A x \in Kinds : ~ Claims(l, x)'
      BY <2>2, <3>3 DEF Expire, Claims, Granted, Deleting
    <3>5. Single'
      BY <2>2, <3>1, <3>2 DEF Expire, Single, Granted, Deleting
    <3> QED BY <3>4, <3>5 DEF LoginInv, OneClaim, KeyHeld, Single
  <2>3. ASSUME NEW g \in Games,
               \/ HandleGameTokenToRedisRs(g) \/ \E v \in Versions : SetOnlineInGame(g, v)
               \/ \E c \in Enter : HandleLoginByToken(g, c) \/ Teleport(g, c) \/ LeaveGame(g, c)
        PROVE  LoginInv'
    <3>1. \A l \in Logins : l # g
      BY NamesAssumption
    <3>2. \A l \in Logins : UNCHANGED <<queue[l], replies[l], read[l], recycle[l]>>
      BY <2>3, <3>1 DEF HandleGameTokenToRedisRs, HandleLoginByToken, SetOnlineInGame, Teleport, LeaveGame, Handled, Ask,
                        TypeInv, TypeOK, Queues, Replies, Processes
    <3>3. UNCHANGED <<loginKey, inLogin>>
      BY <2>3 DEF HandleGameTokenToRedisRs, HandleLoginByToken, SetOnlineInGame, Teleport, LeaveGame
    <3> QED BY <3>2, <3>3, LoginsAlone
  <2> QED BY <2>1, <2>2, <2>3, LoginClaims, RedisClaims DEF Next
<1> QED BY <1>1, <1>2, TypesCorrect, PTL DEF Spec

\* RedisLogin::HandleAccountQueryOnline lets one login process have the account at a
\* time, and its key stays in redis as long as that process has a Player for it.
THEOREM OneLoginCorrect == Spec => []OneLogin
<1>1. TypeInv /\ LoginInv => OneLogin
  <2> SUFFICES ASSUME TypeInv, LoginInv PROVE OneLogin
    OBVIOUS
  <2>1. \A l \in inLogin : l \in Logins /\ Claims(l, "in") /\ "in" \in Kinds
    BY DEF TypeInv, TypeOK, Claims, Kinds
  <2> QED BY <2>1 DEF LoginInv, OneClaim, KeyHeld, OneLogin
<1> QED BY <1>1, TypesCorrect, ClaimsCorrect, PTL
-----------------------------------------------------------------------------
(***************************************************************************)
(* Tokens.                                                                 *)
(***************************************************************************)
\* A step that leaves the token, what games were told and the players let in alone.
LEMMA TokensAlone ==
    ASSUME TokenInv, UNCHANGED <<tokenKey, tokens, letIn>>,
           \A g \in Games : \A t \in Tokens : HasRead(g, t)' => HasRead(g, t),
           \A g \in Games : UNCHANGED replies[g]
    PROVE  TokenInv'
<1>1. \A g \in Games : \A i \in Nat : Told(g, i)' => Told(g, i) /\ replies'[g][i] = replies[g][i]
  BY DEF Told
<1>2. \A g \in Games : \A t \in Tokens : Spent(g, t) => Spent(g, t)'
  BY DEF Spent
<1>3. Issued'
  BY <1>1 DEF TokenInv, Issued
<1>4. ToldOnce'
  BY <1>1, <1>2 DEF TokenInv, ToldOnce
<1>5. LetInOnce'
  BY <1>2 DEF TokenInv, LetInOnce
<1> QED BY <1>3, <1>4, <1>5 DEF TokenInv

\* More requests do not change the one at the head.
LEMMA AskHead ==
    ASSUME TypeInv, NEW p \in Processes, NEW r \in LoginRequests \union GameRequests,
           queue' = Ask(p, r), read' = read, NEW g \in Games, NEW t \in Tokens, HasRead(g, t)'
    PROVE  HasRead(g, t)
<1>1. queue[g] # <<>> /\ read[g] = t
  BY NamesAssumption DEF TypeInv, Reads, HasRead, Tokens
<1>2. queue[p] \in Seq(LoginRequests \union GameRequests) /\ g \in Processes
  BY DEF TypeInv, Queues, Processes
<1>3. queue'[g] = IF g = p THEN Append(queue[p], r) ELSE queue[g]
  BY <1>2 DEF TypeInv, Queues, Ask
<1>4. g = p => Head(Append(queue[p], r)) = Head(queue[p])
  BY <1>1, <1>2, AppendPlaces
<1> QED BY <1>1, <1>3, <1>4 DEF HasRead, At

\* Steps of a login process.
LEMMA LoginTokens ==
    ASSUME TypeInv, TokenInv, NEW l \in Logins,
           \/ LoginStep(l) \/ HandleSelectPlayer(l) \/ LeaveLogin(l)
           \/ \E c \in Clients : HandleAccountCheck(l, c)
    PROVE  TokenInv'
<1> USE NamesAssumption DEF redisVars, threadVars, loginVars, gameVars
<1>0. l \in Processes /\ l \notin Games
  BY DEF Processes
<1>1. UNCHANGED <<tokenKey, tokens, letIn, read>>
  BY DEF LoginStep, HandleAccountQueryOnlineToRedisRs, HandleTokenToRedisRs, HandleQueryPlayerListRs,
         SetOnlineInLogin, HandleSelectPlayer, LeaveLogin, HandleAccountCheck
<1>2. \A g \in Games : UNCHANGED <<queue[g], replies[g]>>
  BY <1>0 DEF LoginStep, HandleAccountQueryOnlineToRedisRs, HandleTokenToRedisRs, HandleQueryPlayerListRs,
              SetOnlineInLogin, HandleSelectPlayer, LeaveLogin, HandleAccountCheck, Handled, Ask,
              TypeInv, Queues, Replies, Processes
<1> QED BY <1>1, <1>2, TokensAlone DEF HasRead, At

\* Steps of a game process.
LEMMA GameTokens ==
    ASSUME TypeInv, TokenInv, NEW g \in Games,
           \/ HandleGameTokenToRedisRs(g) \/ \E v \in Versions : SetOnlineInGame(g, v)
           \/ \E c \in Enter : HandleLoginByToken(g, c) \/ Teleport(g, c) \/ LeaveGame(g, c)
    PROVE  TokenInv'
<1> USE NamesAssumption DEF redisVars, threadVars, loginVars, gameVars
<1>0. g \in Processes /\ session \in [Games -> [Enter -> Sessions \union {None}]] /\ letIn \in [Games -> [Tokens -> Nat]]
  BY DEF Processes, TypeInv, TypeOK
<1>1. CASE HandleGameTokenToRedisRs(g)
  <2> USE <1>1 DEF HandleGameTokenToRedisRs
  <2> DEFINE d == last[g]
  <2>1. /\ replies[g] \in Seq(GameReplies) /\ replies[g] # <<>> /\ Head(replies[g]).type = "gameToken"
        /\ \A h \in Games : replies'[h] = IF h = g THEN Tail(replies[g]) ELSE replies[h]
    BY DEF Reply, Handled, TypeInv, Replies, Processes
  <2>2. Head(replies[g]) = replies[g][1] /\ Told(g, 1) /\ 1 \in Nat
    BY <2>1 DEF Told
  <2>3. \A i \in DOMAIN Tail(replies[g]) : i \in Nat \ {0} /\ i + 1 \in DOMAIN replies[g] /\ Tail(replies[g])[i] = replies[g][i + 1]
    BY <2>1
  <2>4. \A h \in Games : \A i \in Nat : Told(h, i)' =>
            IF h = g THEN i + 1 \in Nat /\ i + 1 # 1 /\ Told(g, i + 1) /\ replies'[g][i] = replies[g][i + 1]
            ELSE Told(h, i) /\ replies'[h][i] = replies[h][i]
    <3> SUFFICES ASSUME NEW h \in Games, NEW i \in Nat, Told(h, i)'
                 PROVE  IF h = g THEN i + 1 \in Nat /\ i + 1 # 1 /\ Told(g, i + 1) /\ replies'[g][i] = replies[g][i + 1]
                        ELSE Told(h, i) /\ replies'[h][i] = replies[h][i]
      OBVIOUS
    <3>1. CASE h = g
      <4>1. replies'[h] = Tail(replies[g])
        BY <2>1, <3>1
      <4> QED BY <2>3, <3>1, <4>1 DEF Told
    <3>2. CASE h # g
      BY <2>1, <3>2 DEF Told
    <3> QED BY <3>1, <3>2
  <2>5. \A h \in Games : \A t \in Tokens : Spent(h, t) => Spent(h, t)'
    BY DEF Spent, HasRead, At
  \* Nothing that a game is still told of is what it is told of first.
  <2>6. \A h \in Games : \A i \in Nat : \A t \in Tokens : Told(h, i)' /\ replies'[h][i].arg = t =>
            /\ Spent(h, t) /\ letIn[h][t] = 0 /\ t <= tokens
            /\ h = g => t # Head(replies[g]).arg
    <3> SUFFICES ASSUME NEW h \in Games, NEW i \in Nat, NEW t \in Tokens, Told(h, i)', replies'[h][i].arg = t
                 PROVE  /\ Spent(h, t) /\ letIn[h][t] = 0 /\ t <= tokens
                        /\ h = g => t # Head(replies[g]).arg
      OBVIOUS
    <3>1. CASE h = g
      <4>1. PICK j \in Nat : j # 1 /\ Told(g, j) /\ replies[g][j].arg = t
        BY <2>4, <3>1
      <4> QED BY <2>2, <3>1, <4>1 DEF TokenInv, ToldOnce, Issued
    <3>2. CASE h # g
      <4>1. Told(h, i) /\ replies[h][i].arg = t
        BY <2>4, <3>2
      <4> QED BY <3>2, <4>1 DEF TokenInv, ToldOnce, Issued
    <3> QED BY <3>1, <3>2
  <2>7. \A h \in Games : \A t \in Tokens : \A i, j \in Nat :
            Told(h, i)' /\ Told(h, j)' /\ replies'[h][i].arg = t /\ replies'[h][j].arg = t => i = j
    <3> SUFFICES ASSUME NEW h \in Games, NEW t \in Tokens, NEW i \in Nat, NEW j \in Nat,
                        Told(h, i)', Told(h, j)', replies'[h][i].arg = t, replies'[h][j].arg = t
                 PROVE  i = j
      OBVIOUS
    <3>1. CASE h = g
      <4>1. /\ i + 1 \in Nat /\ Told(g, i + 1) /\ replies[g][i + 1].arg = t
            /\ j + 1 \in Nat /\ Told(g, j + 1) /\ replies[g][j + 1].arg = t
        BY <2>4, <3>1
      <4>2. i + 1 = j + 1
        BY <4>1 DEF TokenInv, ToldOnce
      <4> QED BY <4>2
    <3>2. CASE h # g
      <4>1. Told(h, i) /\ replies[h][i].arg = t /\ Told(h, j) /\ replies[h][j].arg = t
        BY <2>4, <3>2
      <4> QED BY <4>1 DEF TokenInv, ToldOnce
    <3> QED BY <3>1, <3>2
  <2>8. \A h \in Games : \A i \in Nat : Told(h, i)' => replies'[h][i].arg <= tokens
    <3> SUFFICES ASSUME NEW h \in Games, NEW i \in Nat, Told(h, i)' PROVE replies'[h][i].arg <= tokens
      OBVIOUS
    <3>1. PICK j \in Nat : Told(h, j) /\ replies'[h][i] = replies[h][j]
      BY <2>4
    <3> QED BY <3>1 DEF TokenInv, Issued
  <2>9. \A h \in Games : \A t \in Tokens : HasRead(h, t)' <=> HasRead(h, t)
    BY DEF HasRead, At
  <2>10. CASE ~ Admits(g, d)
    <3>1. letIn' = letIn
      BY <2>10
    <3> QED BY <2>5, <2>6, <2>7, <2>8, <2>9, <3>1 DEF TokenInv, Issued, ToldOnce, LetInOnce
  <2>11. CASE Admits(g, d)
    <3>1. d \in Enter /\ session[g][d] \in Sessions
      BY <1>0, <2>11 DEF TypeInv, Admits
    <3> PICK s \in Tokens : s = session[g][d].token
      BY <3>1 DEF Sessions
    <3>2. s = Head(replies[g]).arg /\ letIn' = [letIn EXCEPT ![g][s] = @ + 1]
      BY <2>11 DEF Admits
    <3>3. Spent(g, s) /\ letIn[g][s] = 0 /\ s <= tokens
      BY <2>2, <3>2 DEF TokenInv, ToldOnce, Issued
    <3>4. \A h \in Games : \A t \in Tokens : letIn'[h][t] = IF h = g /\ t = s THEN 1 ELSE letIn[h][t]
      BY <1>0, <3>2, <3>3
    <3>5. Issued'
      BY <2>8, <2>9, <3>3, <3>4 DEF TokenInv, Issued
    <3>6. ToldOnce'
      BY <2>5, <2>6, <2>7, <3>2, <3>4 DEF ToldOnce
    <3>7. LetInOnce'
      BY <2>5, <3>3, <3>4 DEF TokenInv, LetInOnce
    <3> QED BY <3>5, <3>6, <3>7 DEF TokenInv
  <2> QED BY <2>10, <2>11
<1>2. ASSUME NEW c \in Enter, HandleLoginByToken(g, c)
      PROVE  TokenInv'
  <2> USE <1>2 DEF HandleLoginByToken
  <2>1. Req("gameToken", None) \in LoginRequests \union GameRequests
    BY DEF Req, GameRequests
  <2>2. \A h \in Games : \A t \in Tokens : HasRead(h, t)' => HasRead(h, t)
    BY <1>0, <2>1, AskHead
  <2> QED BY <2>2, TokensAlone
<1>3. ASSUME NEW v \in Versions, SetOnlineInGame(g, v)
      PROVE  TokenInv'
  <2> USE <1>3 DEF SetOnlineInGame
  <2>1. Req("syncGame", v) \in LoginRequests \union GameRequests
    BY DEF Req, GameRequests
  <2>2. \A h \in Games : \A t \in Tokens : HasRead(h, t)' => HasRead(h, t)
    BY <1>0, <2>1, AskHead
  <2> QED BY <2>2, TokensAlone
<1>4. CASE \E c \in Enter : Teleport(g, c) \/ LeaveGame(g, c)
  <2>1. UNCHANGED <<tokenKey, tokens, letIn, queue, read, replies>>
    BY <1>4 DEF Teleport, LeaveGame
  <2> QED BY <2>1, TokensAlone DEF HasRead, At
<1> QED BY <1>1, <1>2, <1>3, <1>4

\* Steps of the redis threads, and what objects going back to their pools ask of them.
LEMMA RedisTokens ==
    ASSUME TypeInv, TokenInv, NEW p \in Processes, RedisStep(p) \/ \E v \in Versions : BackToPool(p, v)
    PROVE  TokenInv'
<1> USE NamesAssumption DEF redisVars, threadVars, loginVars, gameVars
<1>0. (p \in Logins <=> p \notin Games) /\ (p \in Logins \/ p \in Games)
  BY DEF Processes
<1>1. ASSUME NEW v \in Versions, BackToPool(p, v)
      PROVE  TokenInv'
  <2> USE <1>1 DEF BackToPool
  <2>1. (IF p \in Logins THEN Req("deleteLogin", None) ELSE Req("deleteGame", v)) \in LoginRequests \union GameRequests
    BY <1>0 DEF Req, LoginRequests, GameRequests
  <2>2. \A h \in Games : \A t \in Tokens : HasRead(h, t)' => HasRead(h, t)
    BY <2>1, AskHead
  <2> QED BY <2>2, TokensAlone
<1>2. ASSUME p \in Logins, RedisStep(p), ~ LoginToken(p)
      PROVE  TokenInv'
  <2>1. UNCHANGED <<tokenKey, tokens, letIn>>
    BY <1>0, <1>2 DEF RedisStep, Setnx, QueryGame, SetLogin
  <2>2. \A g \in Games : UNCHANGED <<queue[g], read[g], replies[g]>>
    BY <1>0, <1>2 DEF RedisStep, Setnx, First, QueryGame, SetLogin, Finish, Answer,
                      TypeInv, Queues, Replies, Reads, Processes
  <2> QED BY <2>1, <2>2, TokensAlone DEF HasRead, At
<1>3. ASSUME p \in Logins, LoginToken(p)
      PROVE  TokenInv'
  <2> USE <1>3 DEF LoginToken
  <2>1. \A g \in Games : UNCHANGED <<queue[g], read[g], replies[g]>> /\ letIn' = letIn
    BY <1>0 DEF Finish, Answer, TypeInv, Queues, Replies, Reads, Processes
  <2>2. tokens \in Int /\ tokens' = tokens + 1 /\ tokenKey' = tokens + 1
    BY ConstantsAssumption DEF TypeInv
  <2>3. \A g \in Games : \A t \in Tokens : HasRead(g, t)' <=> HasRead(g, t)
    BY <2>1 DEF HasRead, At
  <2>4. \A g \in Games : \A i \in Nat :
            /\ Told(g, i)' <=> Told(g, i)
            /\ Told(g, i) => replies'[g][i] = replies[g][i] /\ replies[g][i].arg \in Int /\ replies[g][i].arg <= tokens
    <3> SUFFICES ASSUME NEW g \in Games, NEW i \in Nat, Told(g, i)
                 PROVE  replies[g][i].arg \in Int /\ replies[g][i].arg <= tokens
      BY <2>1 DEF Told
    <3>1. replies[g][i] \in GameReplies
      BY DEF Told, TypeInv, Replies
    <3> QED BY <3>1, ConstantsAssumption DEF GameReplies, TokenInv, Issued
  <2>5. \A g \in Games : \A t \in Tokens : Spent(g, t) /\ t <= tokens => Spent(g, t)'
    BY <2>2, <2>3, ConstantsAssumption DEF Spent, Tokens
  <2>6. Issued'
    <3>1. \A t \in Tokens : t <= tokens => t <= tokens + 1
      BY <2>2, ConstantsAssumption DEF Tokens
    <3>2. \A g \in Games : \A i \in Nat : Told(g, i)' => replies'[g][i].arg <= tokens + 1
      BY <2>2, <2>4
    <3>3. tokenKey' # None => tokenKey' <= tokens + 1
      BY <2>2
    <3>4. \A g \in Games : \A t \in Tokens : (HasRead(g, t)' => t <= tokens + 1) /\ (letIn'[g][t] # 0 => t <= tokens + 1)
      BY <2>1, <2>3, <3>1 DEF TokenInv, Issued
    <3> QED BY <2>2, <3>2, <3>3, <3>4 DEF Issued
  <2>7. ToldOnce'
    <3> SUFFICES ASSUME NEW g \in Games, NEW t \in Tokens
                 PROVE  /\ \A i \in Nat : Told(g, i)' /\ replies'[g][i].arg = t => Spent(g, t)' /\ letIn'[g][t] = 0
                        /\ \A i, j \in Nat : Told(g, i)' /\ Told(g, j)' /\ replies'[g][i].arg = t /\ replies'[g][j].arg = t => i = j
      BY DEF ToldOnce
    <3>1. \A i \in Nat : Told(g, i)' /\ replies'[g][i].arg = t => Told(g, i) /\ replies[g][i].arg = t /\ t <= tokens
      BY <2>4
    <3> QED BY <2>1, <2>5, <3>1 DEF TokenInv, ToldOnce
  <2>8. LetInOnce'
    BY <2>1, <2>5 DEF TokenInv, LetInOnce, Issued
  <2> QED BY <2>6, <2>7, <2>8 DEF TokenInv
<1>4. ASSUME p \in Games, GetToken(p)
      PROVE  TokenInv'
  <2> USE <1>4 DEF GetToken, First
  <2>1. UNCHANGED <<tokenKey, tokens, letIn, queue, replies>> /\ At(p, "gameToken") /\ read[p] = None
    OBVIOUS
  <2>2. \A g \in Games : read'[g] = IF g = p THEN (IF tokenKey = None THEN 0 ELSE tokenKey) ELSE read[g]
    BY DEF TypeInv, Reads, Processes
  <2>3. \A g \in Games : \A t \in Tokens : HasRead(g, t)' => HasRead(g, t) \/ (g = p /\ t = tokenKey)
    BY <2>1, <2>2, ConstantsAssumption DEF HasRead, At, Tokens
  <2>4. \A g \in Games : \A t \in Tokens : Spent(g, t) => Spent(g, t)'
    BY <2>1, <2>3 DEF Spent
  <2>5. \A g \in Games : \A i \in Nat : Told(g, i)' <=> Told(g, i)
    BY <2>1 DEF Told
  <2>6. Issued'
    BY <2>1, <2>3, <2>5, NamesAssumption, ConstantsAssumption DEF TokenInv, Issued, Tokens
  <2>7. ToldOnce'
    BY <2>1, <2>4, <2>5 DEF TokenInv, ToldOnce
  <2>8. LetInOnce'
    BY <2>1, <2>4 DEF TokenInv, LetInOnce
  <2> QED BY <2>6, <2>7, <2>8 DEF TokenInv
<1>5. ASSUME p \in Games, GetGame(p) \/ SetGame(p)
      PROVE  TokenInv'
  <2>1. UNCHANGED <<tokenKey, tokens, letIn, replies>> /\ ~ At(p, "gameToken")
    BY <1>5 DEF GetGame, SetGame, First, At
  <2>2. /\ \A g \in Games : g # p => read'[g] = read[g] /\ queue'[g] = queue[g]
        /\ read'[p] = None \/ queue'[p] = queue[p]
    BY <1>5 DEF GetGame, SetGame, First, Finish, TypeInv, Queues, Reads, Processes
  <2>3. \A g \in Games : \A t \in Tokens : HasRead(g, t)' => HasRead(g, t)
    BY <1>5, <2>1, <2>2, ConstantsAssumption DEF HasRead, At, Tokens
  <2> QED BY <2>1, <2>3, TokensAlone
<1>6. ASSUME p \in Games, DeleteToken(p)
      PROVE  TokenInv'
  <2> USE <1>6 DEF DeleteToken, TokenLeft, Answer
  <2> DEFINE r == Req("gameToken", read[p])
             n == Len(replies[p]) + 1
  <2>1. /\ tokenKey' = None /\ UNCHANGED <<tokens, letIn>>
        /\ \A g \in Games : /\ read'[g] = IF g = p THEN None ELSE read[g]
                            /\ g # p => queue'[g] = queue[g]
                            /\ replies'[g] = IF g = p THEN Append(replies[p], r) ELSE replies[g]
    BY DEF Finish, TypeInv, Queues, Replies, Reads, Processes
  <2>2. read[p] \in 0 .. MaxToken /\ read[p] \in Nat /\ (read[p] \in Tokens => HasRead(p, read[p]))
    BY ConstantsAssumption DEF TypeInv, Reads, HasRead
  <2>3. r \in GameReplies /\ r.arg = read[p] /\ r.type = "gameToken"
    BY <2>2 DEF Req, GameReplies
  <2> HIDE DEF r
  <2>4. /\ n \in Nat /\ replies[p] \in Seq(GameReplies)
        /\ DOMAIN Append(replies[p], r) = 1 .. n /\ DOMAIN replies[p] = 1 .. Len(replies[p]) /\ Len(replies[p]) \in Nat
        /\ Append(replies[p], r)[n] = r /\ \A i \in DOMAIN replies[p] : Append(replies[p], r)[i] = replies[p][i]
    <3>1. replies[p] \in Seq(GameReplies)
      BY DEF TypeInv, Replies
    <3> QED BY <2>3, <3>1, AppendPlaces
  <2>5. \A g \in Games : \A i \in Nat : Told(g, i)' =>
            \/ Told(g, i) /\ replies'[g][i] = replies[g][i]
            \/ g = p /\ i = n /\ replies'[g][i].arg = read[p]
    <3> SUFFICES ASSUME NEW g \in Games, NEW i \in Nat, Told(g, i)'
                 PROVE  \/ Told(g, i) /\ replies'[g][i] = replies[g][i]
                        \/ g = p /\ i = n /\ replies'[g][i].arg = read[p]
      OBVIOUS
    <3>1. CASE g # p
      BY <2>1, <3>1 DEF Told
    <3>2. CASE g = p
      <4>1. replies'[g] = Append(replies[p], r) /\ i \in 1 .. n
        BY <2>1, <2>4, <3>2 DEF Told
      <4>2. CASE i = n
        BY <2>3, <2>4, <3>2, <4>1, <4>2
      <4>3. CASE i # n
        <5>1. i \in DOMAIN replies[p]
          BY <2>4, <4>1, <4>3
        <5> QED BY <2>4, <3>2, <4>1, <5>1 DEF Told
      <4> QED BY <4>2, <4>3
    <3> QED BY <3>1, <3>2
  <2> HIDE DEF n
  <2>6. \A g \in Games : \A t \in Tokens : (HasRead(g, t)' => HasRead(g, t) /\ g # p)
    BY <2>1, NamesAssumption, ConstantsAssumption DEF HasRead, At, Tokens
  <2>7. \A g \in Games : \A t \in Tokens : Spent(g, t) \/ g = p => Spent(g, t)'
    BY <2>1, <2>6, NamesAssumption, ConstantsAssumption DEF Spent, Tokens
  \* The token that was read has not been told of before.
  <2>8. \A t \in Tokens : t = read[p] => letIn[p][t] = 0 /\ t <= tokens /\ \A i \in Nat : Told(p, i) => replies[p][i].arg # t
    BY <2>2 DEF TokenInv, Issued, ToldOnce, LetInOnce, Spent
  <2>9. read[p] <= tokens
    <3>1. read[p] = 0 \/ read[p] \in Tokens
      BY <2>2, ConstantsAssumption DEF Tokens
    <3> QED BY <2>8, <3>1, ConstantsAssumption DEF TypeInv
  <2>10. Issued'
    <3>1. \A g \in Games : \A i \in Nat : Told(g, i)' => replies'[g][i].arg <= tokens
      BY <2>5, <2>9 DEF TokenInv, Issued
    <3>2. \A g \in Games : \A t \in Tokens : (HasRead(g, t)' => t <= tokens) /\ (letIn[g][t] # 0 => t <= tokens)
      BY <2>6 DEF TokenInv, Issued
    <3> QED BY <2>1, <3>1, <3>2 DEF Issued
  <2>11. ToldOnce'
    <3> SUFFICES ASSUME NEW g \in Games, NEW t \in Tokens
                 PROVE  /\ \A i \in Nat : Told(g, i)' /\ replies'[g][i].arg = t => Spent(g, t)' /\ letIn'[g][t] = 0
                        /\ \A i, j \in Nat : Told(g, i)' /\ Told(g, j)' /\ replies'[g][i].arg = t /\ replies'[g][j].arg = t => i = j
      BY DEF ToldOnce
    <3>1. \A i \in Nat : Told(g, i)' /\ replies'[g][i].arg = t =>
              (Told(g, i) /\ replies[g][i].arg = t) \/ (g = p /\ i = n /\ t = read[p])
      BY <2>5
    <3>2. \A i \in Nat : Told(g, i) /\ replies[g][i].arg = t => Spent(g, t) /\ letIn[g][t] = 0
      BY DEF TokenInv, ToldOnce
    <3>3. \A i \in Nat : Told(g, i)' /\ replies'[g][i].arg = t => Spent(g, t)' /\ letIn[g][t] = 0
      BY <2>7, <2>8, <3>1, <3>2
    <3>4. \A i, j \in Nat : Told(g, i)' /\ Told(g, j)' /\ replies'[g][i].arg = t /\ replies'[g][j].arg = t => i = j
      BY <2>8, <3>1 DEF TokenInv, ToldOnce
    <3> QED BY <2>1, <3>3, <3>4
  <2>12. LetInOnce'
    BY <2>1, <2>7 DEF TokenInv, LetInOnce
  <2> QED BY <2>10, <2>11, <2>12 DEF TokenInv
<1> QED BY <1>0, <1>1, <1>2, <1>3, <1>4, <1>5, <1>6 DEF RedisStep

\* A token that a game was told of is in no other place.
THEOREM TokensCorrect == Spec => []TokenInv
<1>1. Init => TokenInv
  <2> SUFFICES ASSUME Init PROVE TokenInv
    OBVIOUS
  <2>1. \A g \in Games : /\ \A i \in Nat : ~ Told(g, i)
                         /\ \A t \in Tokens : letIn[g][t] = 0 /\ ~ HasRead(g, t)
    BY DEF Init, Told, HasRead, At, Processes
  <2> QED BY <2>1 DEF Init, TokenInv, Issued, ToldOnce, LetInOnce
<1>2. TypeInv /\ TokenInv /\ [Next]_vars => TokenInv'
  <2> SUFFICES ASSUME TypeInv, TokenInv, [Next]_vars PROVE TokenInv'
    OBVIOUS
  <2> USE DEF redisVars, threadVars, loginVars, gameVars
  <2>1. CASE UNCHANGED vars \/ Expire
    BY <2>1, TokensAlone DEF vars, Expire, HasRead, At
  <2>2. CASE ExpireToken
    <3>1. UNCHANGED <<tokens, letIn, replies, queue, read>> /\ tokenKey' = None
      BY <2>2 DEF ExpireToken
    <3>2. \A g \in Games : /\ \A i \in Nat : Told(g, i)' <=> Told(g, i)
                           /\ \A t \in Tokens : HasRead(g, t)' <=> HasRead(g, t)
      BY <3>1 DEF Told, HasRead, At
    <3>3. \A g \in Games : \A t \in Tokens : Spent(g, t) => Spent(g, t)'
      BY <3>1, <3>2, NamesAssumption, ConstantsAssumption DEF Spent, Tokens
    <3>4. Issued'
      BY <3>1, <3>2 DEF TokenInv, Issued
    <3>5. ToldOnce' /\ LetInOnce'
      BY <3>1, <3>2, <3>3 DEF TokenInv, ToldOnce, LetInOnce
    <3> QED BY <3>4, <3>5 DEF TokenInv
  <2> QED BY <2>1, <2>2, LoginTokens, GameTokens, RedisTokens DEF Next
<1> QED BY <1>1, <1>2, TypesCorrect, PTL DEF Spec

\* RedisGame::HandleGameTokenToRedis: no game lets two Players in with one token,
\* whoever logs in with it how often and in whatever order the requests are worked off.
THEOREM TokenLetsInOnceCorrect == Spec => []TokenLetsInOnce
<1>1. TypeInv /\ TokenInv => TokenLetsInOnce
  <2> SUFFICES ASSUME TypeInv, TokenInv, NEW g \in Games, NEW t \in Tokens PROVE letIn[g][t] <= 1
    BY DEF TokenLetsInOnce
  <2> QED BY DEF TokenInv, LetInOnce
<1> QED BY <1>1, TypesCorrect, TokensCorrect, PTL

\* Every variable keeps its type, and a Player of a login process that holds the key
\* has a client.
THEOREM TypeCorrect == Spec => []TypeOK
<1>1. TypeInv => TypeOK
  BY DEF TypeInv
<1> QED BY <1>1, TypesCorrect, PTL

-----------------------------------------------------------------------------
(***************************************************************************)
(* The online flag of a session, for the clients for which the code keeps  *)
(* it: one client (two that hold tokens of one account at a time are in    *)
(* with the same version) that returns when its old Players are gone.      *)
(***************************************************************************)
OneClient == \A c, d \in Enter : c = d

Wants(g, type, v, i) == i \in DOMAIN queue[g] /\ queue[g][i] = Req(type, v)
Holds(g, v) == \E c \in Enter : session[g][c] # None /\ session[g][c].version = v
\* A Player of this version is there whose timer has yet to set the flag.
Due(g, v) == \E c \in Enter : session[g][c] # None /\ session[g][c].version = v /\ session[g][c].due
\* A Player of this version is there, or its BackToPool will delete the flag.
Living(g, v) == Holds(g, v) \/ v \in recycle[g] \/ \E i \in Nat : Wants(g, "deleteGame", v, i)
OneGame == \A g, h \in Games : \A v, w \in Versions : Living(g, v) /\ Living(h, w) => g = h
\* A request that sets the flag is followed by one that deletes it.
SyncLives ==
    \A g \in Games : \A v \in Versions : \A i \in Nat :
        Wants(g, "syncGame", v, i) =>
            Holds(g, v) \/ v \in recycle[g] \/ \E j \in Nat : j > i /\ Wants(g, "deleteGame", v, j)
FlagLives == gameKey # 0 => \E g \in Games : Living(g, gameKey)
\* The Player that is there has the greatest version, and its flag is set or will be.
Latest ==
    \A g \in Games : \A n \in Versions : Holds(g, n) =>
        /\ gameKey = n \/ Due(g, n) \/ \E i \in Nat : Wants(g, "syncGame", n, i)
        /\ \A v \in Versions : v \in recycle[g] => v < n
        /\ \A v \in Versions : \A i \in Nat :
              (Wants(g, "deleteGame", v, i) => v < n) /\ (Wants(g, "syncGame", v, i) => v <= n)
\* What the redis thread has read of the flag is still so.
ReadNow ==
    \A g \in Games : (At(g, "syncGame") \/ At(g, "deleteGame")) /\ read[g] # None => read[g] = gameKey
FlagInv == OneGame /\ SyncLives /\ FlagLives /\ Latest /\ ReadNow

LEMMA GameTypes ==
    ASSUME TypeInv
    PROVE  /\ gameKey \in Versions \union {0} /\ Versions \subseteq Nat /\ 0 \notin Versions
           /\ session \in [Games -> [Enter -> Sessions \union {None}]]
           /\ recycle \in [Processes -> SUBSET Versions] /\ Games \subseteq Processes
           /\ queue \in [Processes -> Seq(LoginRequests \union GameRequests)]
           /\ \A g \in Games : queue[g] \in Seq(GameRequests)
BY DEF TypeInv, TypeOK, Versions, Processes, Queues

\* The requests about the flag that a game has after one more and after one less.
LEMMA AskWants ==
    ASSUME TypeInv, NEW g \in Games, NEW r \in GameRequests, queue' = Ask(g, r)
    PROVE  /\ \A h \in Games : h # g => queue'[h] = queue[h]
           /\ \A type, v : \A i \in Nat :
                 Wants(g, type, v, i)' <=> Wants(g, type, v, i) \/ (r = Req(type, v) /\ i = Len(queue[g]) + 1)
           /\ \A type, v : \A i \in Nat : Wants(g, type, v, i) => i < Len(queue[g]) + 1
           /\ Len(queue[g]) + 1 \in Nat
           /\ queue[g] # <<>> => queue'[g] # <<>> /\ Head(queue'[g]) = Head(queue[g])
<1>1. /\ queue[g] \in Seq(GameRequests)
      /\ queue'[g] = Append(queue[g], r) /\ \A h \in Games : h # g => queue'[h] = queue[h]
  BY GameTypes DEF Ask
<1>2. /\ DOMAIN Append(queue[g], r) = 1 .. Len(queue[g]) + 1 /\ Len(queue[g]) \in Nat
      /\ DOMAIN queue[g] = 1 .. Len(queue[g]) /\ Append(queue[g], r)[Len(queue[g]) + 1] = r
      /\ \A j \in DOMAIN queue[g] : Append(queue[g], r)[j] = queue[g][j]
      /\ Append(queue[g], r) # <<>>
      /\ queue[g] # <<>> => Head(Append(queue[g], r)) = Head(queue[g])
  BY <1>1, AppendPlaces
<1>3. \A type, v : \A i \in Nat :
         Wants(g, type, v, i)' <=> Wants(g, type, v, i) \/ (r = Req(type, v) /\ i = Len(queue[g]) + 1)
  BY <1>1, <1>2 DEF Wants, Req
<1>4. \A type, v : \A i \in Nat : Wants(g, type, v, i) => i < Len(queue[g]) + 1
  BY <1>2 DEF Wants
<1> QED BY <1>1, <1>2, <1>3, <1>4

LEMMA FinishWants ==
    ASSUME TypeInv, NEW g \in Games, queue[g] # <<>>, Finish(g)
    PROVE  /\ \A h \in Games : h # g => queue'[h] = queue[h] /\ read'[h] = read[h]
           /\ read'[g] = None
           /\ \A type, v : \A i \in Nat : Wants(g, type, v, i)' <=> i # 0 /\ Wants(g, type, v, i + 1)
           /\ \A type, v : Wants(g, type, v, 1) <=> Head(queue[g]) = Req(type, v)
           /\ \A type, v : ~ Wants(g, type, v, 0)
           /\ Head(queue[g]) \in GameRequests
<1>1. /\ queue[g] \in Seq(GameRequests)
      /\ queue'[g] = Tail(queue[g]) /\ \A h \in Games : h # g => queue'[h] = queue[h] /\ read'[h] = read[h]
      /\ read'[g] = None
  BY GameTypes DEF Finish, TypeInv, Reads
<1>2. /\ \A i \in Nat : i \in DOMAIN Tail(queue[g]) <=> i # 0 /\ i + 1 \in DOMAIN queue[g]
      /\ \A i \in DOMAIN Tail(queue[g]) : Tail(queue[g])[i] = queue[g][i + 1]
      /\ 1 \in DOMAIN queue[g] /\ Head(queue[g]) = queue[g][1] /\ 0 \notin DOMAIN queue[g]
      /\ Head(queue[g]) \in GameRequests
  BY <1>1
<1>3. \A type, v : \A i \in Nat : Wants(g, type, v, i)' <=> i # 0 /\ Wants(g, type, v, i + 1)
  BY <1>1, <1>2 DEF Wants, Req
<1>4. \A type, v : (Wants(g, type, v, 1) <=> Head(queue[g]) = Req(type, v)) /\ ~ Wants(g, type, v, 0)
  BY <1>2 DEF Wants
<1> QED BY <1>1, <1>2, <1>3, <1>4

\* A request at the head of a game's queue that is about the flag.
LEMMA HeadWants ==
    ASSUME TypeInv, NEW g \in Games, NEW type \in {"syncGame", "deleteGame"}, At(g, type)
    PROVE  /\ Head(queue[g]).arg \in Versions /\ Head(queue[g]) = Req(type, Head(queue[g]).arg)
           /\ Wants(g, type, Head(queue[g]).arg, 1)
<1>1. queue[g] \in Seq(GameRequests) /\ queue[g] # <<>> /\ Head(queue[g]).type = type
  BY GameTypes DEF At
<1>2. Head(queue[g]) \in GameRequests /\ Head(queue[g]) = queue[g][1] /\ 1 \in DOMAIN queue[g]
  BY <1>1
<1>3. Head(queue[g]) \in [type : {"syncGame", "deleteGame"}, arg : Versions]
  BY <1>1, <1>2 DEF GameRequests
<1>4. Head(queue[g]).arg \in Versions /\ Head(queue[g]) = [type |-> type, arg |-> Head(queue[g]).arg]
  BY <1>1, <1>3
<1> QED BY <1>2, <1>4 DEF Wants, Req

\* A Player's version is the only one its game holds, and the flag is never later.
LEMMA HoldsOne ==
    ASSUME TypeInv, FlagInv, OneClient, NEW g \in Games, NEW n \in Versions, Holds(g, n)
    PROVE  /\ \A m : Holds(g, m) => m = n
           /\ gameKey <= n
           /\ \A h \in Games : \A w \in Versions : Living(h, w) => h = g
<1>1. \A m : Holds(g, m) => m = n
  BY DEF Holds, OneClient
<1>2. \A h \in Games : \A w \in Versions : Living(h, w) => h = g
  BY DEF Living, FlagInv, OneGame
<1>3. gameKey \in Versions \union {0} /\ n \in Nat /\ \A v \in Versions : v \in Nat
  BY GameTypes
<1>4. CASE gameKey = 0
  BY <1>1, <1>2, <1>3, <1>4
<1>5. CASE gameKey # 0
  <2>1. Living(g, gameKey) /\ gameKey \in Versions
    BY <1>2, <1>3, <1>5 DEF FlagInv, FlagLives
  <2>2. Holds(g, gameKey) => gameKey = n
    BY <1>1
  <2>3. gameKey \in recycle[g] \/ (\E i \in Nat : Wants(g, "deleteGame", gameKey, i)) => gameKey < n
    BY <2>1 DEF FlagInv, Latest
  <2> QED BY <1>1, <1>2, <1>3, <2>1, <2>2, <2>3 DEF Living
<1> QED BY <1>1, <1>2, <1>4, <1>5

\* Steps that leave the flag, the Players and the requests about them alone.
LEMMA FlagAlone ==
    ASSUME FlagInv, gameKey' = gameKey, ReadNow',
           \A g \in Games : /\ \A v : (Holds(g, v)' <=> Holds(g, v)) /\ (Due(g, v)' <=> Due(g, v))
                            /\ recycle'[g] = recycle[g] /\ queue'[g] = queue[g]
    PROVE  FlagInv'
<1>1. \A g \in Games : \A type, v, i : Wants(g, type, v, i)' <=> Wants(g, type, v, i)
  BY DEF Wants, Req
<1>2. \A g \in Games : \A v : Living(g, v)' <=> Living(g, v)
  BY <1>1 DEF Living
<1>3. OneGame' /\ FlagLives'
  BY <1>2 DEF FlagInv, OneGame, FlagLives
<1>4. SyncLives'
  BY <1>1 DEF FlagInv, SyncLives
<1>5. Latest'
  BY <1>1 DEF FlagInv, Latest
<1> QED BY <1>3, <1>4, <1>5 DEF FlagInv

\* Requests join a queue behind the one whose key was read.
LEMMA ReadStays ==
    ASSUME TypeInv, FlagInv, gameKey' = gameKey, read' = read,
           \A g \in Games : queue[g] # <<>> => queue'[g] # <<>> /\ Head(queue'[g]) = Head(queue[g])
    PROVE  ReadNow'
<1> SUFFICES ASSUME NEW g \in Games, At(g, "syncGame")' \/ At(g, "deleteGame")', read[g] # None
             PROVE  read[g] = gameKey
  BY DEF ReadNow
<1>1. queue[g] # <<>>
  BY DEF TypeInv, Reads
<1> QED BY <1>1 DEF FlagInv, ReadNow, At

\* Steps of a login process and of its redis thread.
LEMMA LoginFlag ==
    ASSUME TypeInv, FlagInv, NEW l \in Logins,
           \/ LoginStep(l) \/ HandleSelectPlayer(l) \/ LeaveLogin(l)
           \/ \E c \in Clients : HandleAccountCheck(l, c)
           \/ RedisStep(l) \/ \E v \in Versions : BackToPool(l, v)
    PROVE  FlagInv'
<1> USE NamesAssumption DEF redisVars, threadVars, loginVars, gameVars
<1>0. l \in Processes /\ l \notin Games
  BY DEF Processes
<1>1. UNCHANGED <<gameKey, session>> /\ \A g \in Games : UNCHANGED <<queue[g], read[g], recycle[g]>>
  <2>1. CASE LoginStep(l) \/ HandleSelectPlayer(l) \/ LeaveLogin(l) \/ \E c \in Clients : HandleAccountCheck(l, c)
    BY <1>0, <2>1 DEF LoginStep, HandleAccountQueryOnlineToRedisRs, HandleTokenToRedisRs, HandleQueryPlayerListRs,
                      SetOnlineInLogin, HandleSelectPlayer, LeaveLogin, HandleAccountCheck, Ask, TypeInv, TypeOK, Queues, Processes
  <2>2. CASE \E v \in Versions : BackToPool(l, v)
    BY <1>0, <2>2 DEF BackToPool, Ask, TypeInv, TypeOK, Queues, Processes
  <2>3. CASE RedisStep(l)
    BY <1>0, <2>3 DEF RedisStep, Setnx, First, QueryGame, SetLogin, LoginToken, Finish,
                      TypeInv, Queues, Reads, Processes
  <2> QED BY <2>1, <2>2, <2>3
<1>2. \A g \in Games : \A v : (Holds(g, v)' <=> Holds(g, v)) /\ (Due(g, v)' <=> Due(g, v))
  BY <1>1 DEF Holds, Due
<1>3. ReadNow'
  BY <1>1 DEF FlagInv, ReadNow, At
<1> QED BY <1>1, <1>2, <1>3, FlagAlone

\* A Player is there.
LEMMA PlayerThere == \A s \in Sessions : s # None
BY PlayersAssumption, ConstantsAssumption DEF Sessions, Versions, Tokens

\* A game reads a key, or lets a Player in.
LEMMA ReadFlag ==
    ASSUME TypeInv, FlagInv, NEW g \in Games, GetGame(g) \/ GetToken(g) \/ HandleGameTokenToRedisRs(g)
    PROVE  FlagInv'
<1> USE NamesAssumption DEF redisVars, threadVars, loginVars, gameVars
<1>0. g \in Processes /\ session \in [Games -> [Enter -> Sessions \union {None}]] /\ last[g] \in Enter \union {None}
  BY DEF Processes, TypeInv, TypeOK
<1>1. CASE GetGame(g) \/ GetToken(g)
  <2>1. UNCHANGED <<gameKey, session, queue, recycle>>
    BY <1>1 DEF GetGame, GetToken, First
  <2>2. /\ \A h \in Games : h # g => read'[h] = read[h]
        /\ At(g, "gameToken") \/ read'[g] = gameKey
    <3>1. ASSUME NEW value, read' = [read EXCEPT ![g] = value]
          PROVE  read'[g] = value /\ \A h \in Games : h # g => read'[h] = read[h]
      BY <1>0, <3>1 DEF TypeInv, Reads
    <3> QED BY <1>1, <3>1 DEF GetGame, GetToken, First
  <2>3. ReadNow'
    BY <2>1, <2>2 DEF FlagInv, ReadNow, At
  <2>4. \A h \in Games : \A v : (Holds(h, v)' <=> Holds(h, v)) /\ (Due(h, v)' <=> Due(h, v))
    BY <2>1 DEF Holds, Due
  <2> QED BY <2>1, <2>3, <2>4, FlagAlone
<1>2. CASE HandleGameTokenToRedisRs(g)
  <2> USE <1>2 DEF HandleGameTokenToRedisRs
  <2>1. UNCHANGED <<gameKey, queue, read, recycle>>
    OBVIOUS
  <2>2. ReadNow'
    BY <2>1 DEF FlagInv, ReadNow, At
  <2>3. \A h \in Games, c \in Enter :
            /\ session'[h][c] = None <=> session[h][c] = None
            /\ session[h][c] # None => /\ session'[h][c].version = session[h][c].version
                                       /\ session'[h][c].due = session[h][c].due
    <3> DEFINE d == last[g]
    <3>1. CASE session' = session
      BY <3>1
    <3>2. CASE Admits(g, d) /\ session' = [session EXCEPT ![g][d].in = TRUE]
      <4>1. d \in Enter /\ session[g][d] \in Sessions
        BY <1>0, <3>2 DEF Admits
      <4> DEFINE s == [session[g][d] EXCEPT !.in = TRUE]
      <4>2. s \in Sessions /\ s.version = session[g][d].version /\ s.due = session[g][d].due
        BY <4>1 DEF Sessions
      <4>3. \A h \in Games, c \in Enter :
                session'[h][c] = IF h = g /\ c = d THEN s ELSE session[h][c]
        BY <1>0, <3>2, <4>1
      <4> HIDE DEF s
      <4>4. session[g][d] # None /\ s # None
        BY <4>1, <4>2, PlayerThere
      <4> QED BY <4>2, <4>3, <4>4
    <3> QED BY <3>1, <3>2
  <2>4. \A h \in Games : \A v : (Holds(h, v)' <=> Holds(h, v)) /\ (Due(h, v)' <=> Due(h, v))
    BY <2>3 DEF Holds, Due
  <2> QED BY <2>1, <2>2, <2>4, FlagAlone
<1> QED BY <1>1, <1>2

\* What a request is made of.
LEMMA ReqParts == \A type, arg : Req(type, arg).type = type /\ Req(type, arg).arg = arg
BY DEF Req

\* A game removes a token.
LEMMA TokenFlag ==
    ASSUME TypeInv, FlagInv, NEW g \in Games, DeleteToken(g)
    PROVE  FlagInv'
<1> USE DEF redisVars, threadVars, loginVars, gameVars
<1>1. UNCHANGED <<gameKey, session, recycle>> /\ Finish(g) /\ queue[g] # <<>> /\ Head(queue[g]).type = "gameToken"
  BY DEF DeleteToken, At
<1>2. /\ \A h \in Games : h # g => queue'[h] = queue[h] /\ read'[h] = read[h]
      /\ read'[g] = None
      /\ \A type, v : \A i \in Nat : Wants(g, type, v, i)' <=> i # 0 /\ Wants(g, type, v, i + 1)
      /\ \A type, v : Wants(g, type, v, 1) <=> Head(queue[g]) = Req(type, v)
      /\ \A type, v : ~ Wants(g, type, v, 0)
  BY <1>1, FinishWants
<1>3. \A v : ~ Wants(g, "syncGame", v, 1) /\ ~ Wants(g, "deleteGame", v, 1)
  BY <1>1, <1>2, ReqParts
<1>4. \A h \in Games : \A v : (Holds(h, v)' <=> Holds(h, v)) /\ (Due(h, v)' <=> Due(h, v))
  BY <1>1 DEF Holds, Due
<1>5. \A h \in Games : \A type \in {"syncGame", "deleteGame"} : \A v : \A i \in Nat :
          /\ Wants(h, type, v, i)' => \E j \in Nat : j >= i /\ Wants(h, type, v, j) /\ (h = g => j = i + 1)
          /\ Wants(h, type, v, i) =>
                 \E j \in Nat : j <= i /\ Wants(h, type, v, j)' /\ (IF h = g THEN j = i - 1 ELSE j = i)
  <2> SUFFICES ASSUME NEW h \in Games, NEW type \in {"syncGame", "deleteGame"}, NEW v, NEW i \in Nat
               PROVE  /\ Wants(h, type, v, i)' => \E j \in Nat : j >= i /\ Wants(h, type, v, j) /\ (h = g => j = i + 1)
                      /\ Wants(h, type, v, i) =>
                             \E j \in Nat : j <= i /\ Wants(h, type, v, j)' /\ (IF h = g THEN j = i - 1 ELSE j = i)
    OBVIOUS
  <2>1. CASE h # g
    BY <1>2, <2>1 DEF Wants
  <2>2. CASE h = g
    <3>1. Wants(g, type, v, i)' => i + 1 \in Nat /\ i + 1 >= i /\ Wants(g, type, v, i + 1)
      BY <1>2
    <3>2. Wants(g, type, v, i) => i - 1 \in Nat /\ i - 1 # 0 /\ Wants(g, type, v, (i - 1) + 1)
      <4>1. Wants(g, type, v, i) => i # 0 /\ i # 1
        BY <1>2, <1>3
      <4>2. i # 0 /\ i # 1 => i - 1 \in Nat /\ i - 1 # 0 /\ (i - 1) + 1 = i
        OBVIOUS
      <4> QED BY <4>1, <4>2
    <3>3. Wants(g, type, v, i) => i - 1 \in Nat /\ i - 1 <= i /\ Wants(g, type, v, i - 1)'
      BY <1>2, <3>2
    <3> QED BY <2>2, <3>1, <3>3
  <2> QED BY <2>1, <2>2
<1>6. \A h \in Games : \A v : Living(h, v)' <=> Living(h, v)
  BY <1>1, <1>4, <1>5 DEF Living
<1>7. OneGame' /\ FlagLives'
  BY <1>1, <1>6 DEF FlagInv, OneGame, FlagLives
<1>8. SyncLives'
  <2> SUFFICES ASSUME NEW h \in Games, NEW v \in Versions, NEW i \in Nat, Wants(h, "syncGame", v, i)',
                      ~ Holds(h, v)', v \notin recycle'[h]
               PROVE  \E k \in Nat : k > i /\ Wants(h, "deleteGame", v, k)'
    BY DEF SyncLives
  <2>1. PICK j \in Nat : Wants(h, "syncGame", v, j) /\ j >= i /\ (h = g => j = i + 1)
    BY <1>5
  <2>2. PICK k \in Nat : k > j /\ Wants(h, "deleteGame", v, k)
    BY <1>1, <1>4, <2>1 DEF FlagInv, SyncLives
  <2>3. PICK m \in Nat : Wants(h, "deleteGame", v, m)' /\ (IF h = g THEN m = k - 1 ELSE m = k)
    BY <1>5, <2>2
  <2> QED BY <2>1, <2>2, <2>3
<1>9. Latest'
  BY <1>1, <1>4, <1>5 DEF FlagInv, Latest
<1>10. ReadNow'
  BY <1>1, <1>2 DEF FlagInv, ReadNow, At
<1> QED BY <1>7, <1>8, <1>9, <1>10 DEF FlagInv

\* A game has set or deleted the flag, or left that of a later version alone.
LEMMA SetFlag ==
    ASSUME TypeInv, FlagInv, OneClient, NEW g \in Games, SetGame(g)
    PROVE  FlagInv'
<1> USE DEF redisVars, threadVars, loginVars, gameVars
<1>1. /\ UNCHANGED <<session, recycle>> /\ Finish(g) /\ queue[g] # <<>> /\ read[g] = gameKey
      /\ At(g, "syncGame") \/ At(g, "deleteGame")
      /\ ~ (At(g, "syncGame") /\ At(g, "deleteGame"))
  BY DEF SetGame, At, FlagInv, ReadNow
<1>2. /\ \A h \in Games : h # g => queue'[h] = queue[h] /\ read'[h] = read[h]
      /\ read'[g] = None
      /\ \A type, w : \A i \in Nat : Wants(g, type, w, i)' <=> i # 0 /\ Wants(g, type, w, i + 1)
      /\ \A type, w : Wants(g, type, w, 1) <=> Head(queue[g]) = Req(type, w)
      /\ \A type, w : ~ Wants(g, type, w, 0)
  BY <1>1, FinishWants
<1> PICK v \in Versions : v = Head(queue[g]).arg
  BY <1>1, HeadWants
<1>3. v \in Nat /\ gameKey \in Nat /\ \A w \in Versions : w \in Nat /\ w # 0
  BY GameTypes
<1>4. /\ At(g, "syncGame") => Wants(g, "syncGame", v, 1)
      /\ At(g, "deleteGame") => Wants(g, "deleteGame", v, 1)
  BY HeadWants
<1>5. /\ At(g, "syncGame") => gameKey' = IF v >= gameKey THEN v ELSE gameKey
      /\ At(g, "deleteGame") => gameKey' = IF v >= gameKey THEN 0 ELSE gameKey
  BY <1>1 DEF SetGame, Current
<1>6. \A type, w : Wants(g, type, w, 1) => w = v /\ At(g, type)
  BY <1>1, <1>2, ReqParts DEF At
<1>7. \A h \in Games : \A w : (Holds(h, w)' <=> Holds(h, w)) /\ (Due(h, w)' <=> Due(h, w))
  BY <1>1 DEF Holds, Due
\* Every request moves up by one.
<1>8. \A h \in Games : \A type, w : \A i \in Nat :
          Wants(h, type, w, i)' => \E j \in Nat : Wants(h, type, w, j) /\ (IF h = g THEN j = i + 1 ELSE j = i)
  <2> SUFFICES ASSUME NEW h \in Games, NEW type, NEW w, NEW i \in Nat, Wants(h, type, w, i)'
               PROVE  \E j \in Nat : Wants(h, type, w, j) /\ (IF h = g THEN j = i + 1 ELSE j = i)
    OBVIOUS
  <2>1. CASE h # g
    BY <1>2, <2>1 DEF Wants
  <2>2. CASE h = g
    BY <1>2, <2>2
  <2> QED BY <2>1, <2>2
<1>9. \A h \in Games : \A type, w : \A i \in Nat :
          Wants(h, type, w, i) /\ ~ (h = g /\ i = 1) =>
              \E j \in Nat : Wants(h, type, w, j)' /\ (IF h = g THEN j = i - 1 ELSE j = i)
  <2> SUFFICES ASSUME NEW h \in Games, NEW type, NEW w, NEW i \in Nat, Wants(h, type, w, i), ~ (h = g /\ i = 1)
               PROVE  \E j \in Nat : Wants(h, type, w, j)' /\ (IF h = g THEN j = i - 1 ELSE j = i)
    OBVIOUS
  <2>1. CASE h # g
    BY <1>2, <2>1 DEF Wants
  <2>2. CASE h = g
    <3>1. i # 0 /\ i # 1
      BY <1>2, <2>2
    <3>2. i - 1 \in Nat /\ i - 1 # 0 /\ (i - 1) + 1 = i
      BY <3>1
    <3> QED BY <1>2, <2>2, <3>2
  <2> QED BY <2>1, <2>2
<1>10. \A h \in Games : \A w : Living(h, w)' => Living(h, w)
  BY <1>1, <1>7, <1>8 DEF Living
<1>11. \A h \in Games : \A w : Living(h, w) => Living(h, w)' \/ (h = g /\ w = v /\ At(g, "deleteGame"))
  <2> SUFFICES ASSUME NEW h \in Games, NEW w, NEW i \in Nat, Wants(h, "deleteGame", w, i),
                      ~ (h = g /\ w = v /\ At(g, "deleteGame"))
               PROVE  \E j \in Nat : Wants(h, "deleteGame", w, j)'
    BY <1>1, <1>7 DEF Living
  <2> QED BY <1>6, <1>9
<1>12. Living(g, v)
  <2>1. CASE At(g, "syncGame")
    BY <1>3, <1>4, <2>1 DEF Living, FlagInv, SyncLives
  <2>2. CASE At(g, "deleteGame")
    BY <1>4, <2>2 DEF Living
  <2> QED BY <1>1, <2>1, <2>2
<1>13. \A h \in Games : \A w \in Versions : Living(h, w) => h = g
  BY <1>3, <1>12 DEF FlagInv, OneGame
<1>14. OneGame'
  BY <1>10 DEF FlagInv, OneGame
<1>15. SyncLives'
  <2> SUFFICES ASSUME NEW h \in Games, NEW w \in Versions, NEW i \in Nat, Wants(h, "syncGame", w, i)',
                      ~ Holds(h, w)', w \notin recycle'[h]
               PROVE  \E k \in Nat : k > i /\ Wants(h, "deleteGame", w, k)'
    BY DEF SyncLives
  <2>1. PICK j \in Nat : Wants(h, "syncGame", w, j) /\ (IF h = g THEN j = i + 1 ELSE j = i)
    BY <1>8
  <2>2. PICK k \in Nat : k > j /\ Wants(h, "deleteGame", w, k)
    BY <1>1, <1>7, <2>1 DEF FlagInv, SyncLives
  <2>3. ~ (h = g /\ k = 1)
    BY <2>1, <2>2
  <2>4. PICK m \in Nat : Wants(h, "deleteGame", w, m)' /\ (IF h = g THEN m = k - 1 ELSE m = k)
    BY <1>9, <2>2, <2>3
  <2> QED BY <2>1, <2>2, <2>4
<1>16. FlagLives'
  <2> SUFFICES ASSUME NEW k, k = gameKey', k # 0 PROVE \E h \in Games : Living(h, k)'
    BY DEF FlagLives, Living, Holds, Wants, Req
  <2>1. CASE gameKey' = gameKey
    <3>1. PICK h \in Games : Living(h, gameKey)
      BY <2>1 DEF FlagInv, FlagLives
    <3>2. ~ (gameKey = v /\ At(g, "deleteGame"))
      BY <1>3, <1>5, <2>1
    <3> QED BY <1>11, <2>1, <3>1, <3>2
  <2>2. CASE gameKey' # gameKey
    <3>1. At(g, "syncGame") /\ gameKey' = v
      BY <1>1, <1>5, <2>2
    <3>2. Living(g, v)'
      BY <1>1, <1>11, <1>12, <3>1
    <3> QED BY <3>1, <3>2
  <2> QED BY <2>1, <2>2
<1>17. Latest'
  <2> SUFFICES ASSUME NEW h \in Games, NEW n \in Versions, Holds(h, n)
               PROVE  /\ gameKey' = n \/ Due(h, n) \/ \E i \in Nat : Wants(h, "syncGame", n, i)'
                      /\ \A w \in Versions : w \in recycle[h] => w < n
                      /\ \A w \in Versions : \A i \in Nat :
                            (Wants(h, "deleteGame", w, i)' => w < n) /\ (Wants(h, "syncGame", w, i)' => w <= n)
    BY <1>1, <1>7 DEF Latest
  <2>1. h = g /\ gameKey <= n /\ n \in Nat
    BY <1>3, <1>13, HoldsOne DEF Living
  <2>2. /\ gameKey = n \/ Due(h, n) \/ \E i \in Nat : Wants(h, "syncGame", n, i)
        /\ \A w \in Versions : w \in recycle[h] => w < n
        /\ \A w \in Versions : \A i \in Nat :
              (Wants(h, "deleteGame", w, i) => w < n) /\ (Wants(h, "syncGame", w, i) => w <= n)
    BY DEF FlagInv, Latest
  <2>3. \A w \in Versions : \A i \in Nat :
            (Wants(h, "deleteGame", w, i)' => w < n) /\ (Wants(h, "syncGame", w, i)' => w <= n)
    BY <1>8, <2>2
  <2>4. (At(g, "syncGame") => v <= n) /\ (At(g, "deleteGame") => v < n)
    BY <1>3, <1>4, <2>1, <2>2
  <2>5. CASE gameKey = n
    BY <1>1, <1>3, <1>5, <2>1, <2>2, <2>3, <2>4, <2>5
  <2>6. CASE Due(h, n)
    BY <2>2, <2>3, <2>6
  <2>7. CASE \E i \in Nat : Wants(h, "syncGame", n, i)
    <3>1. PICK i \in Nat : Wants(h, "syncGame", n, i)
      BY <2>7
    <3>2. CASE i = 1
      <4>1. n = v /\ At(g, "syncGame")
        BY <1>6, <2>1, <3>1, <3>2
      <4> QED BY <1>3, <1>5, <2>1, <2>2, <2>3, <4>1
    <3>3. CASE i # 1
      BY <1>9, <2>2, <2>3, <3>1, <3>3
    <3> QED BY <3>2, <3>3
  <2> QED BY <2>2, <2>5, <2>6, <2>7
<1>18. ReadNow'
  <2> SUFFICES ASSUME NEW h \in Games, At(h, "syncGame")' \/ At(h, "deleteGame")', read'[h] # None
               PROVE  FALSE
    BY DEF ReadNow
  <2>1. h # g /\ (At(h, "syncGame") \/ At(h, "deleteGame"))
    BY <1>2 DEF At
  <2>2. \E w \in Versions : Living(h, w)
    <3>1. CASE At(h, "syncGame")
      BY <3>1, HeadWants DEF Living, FlagInv, SyncLives
    <3>2. CASE At(h, "deleteGame")
      BY <3>2, HeadWants DEF Living
    <3> QED BY <2>1, <3>1, <3>2
  <2> QED BY <1>13, <2>1, <2>2
<1> QED BY <1>14, <1>15, <1>16, <1>17, <1>18 DEF FlagInv

\* A client comes back when nothing of its earlier Players is left.
LEMMA ComeFlag ==
    ASSUME TypeInv, FlagInv, OneClient, ~ Rejoin, NEW g \in Games, NEW c \in Enter, HandleLoginByToken(g, c)
    PROVE  FlagInv'
<1> USE DEF redisVars, threadVars, loginVars, gameVars
<1> DEFINE s == [version |-> 1, in |-> FALSE, token |-> have[c], due |-> TRUE]
<1>1. /\ UNCHANGED <<gameKey, read, recycle>> /\ \A h \in Games : session[h][c] = None
      /\ \A h \in Games : recycle[h] = {} /\ \A k \in DOMAIN queue[h] : queue[h][k].type # "deleteGame"
      /\ session' = [session EXCEPT ![g][c] = s]
      /\ queue' = Ask(g, Req("gameToken", None))
  BY DEF HandleLoginByToken, Quiet
<1>2. /\ gameKey \in Versions \union {0} /\ 1 \in Versions /\ \A w \in Versions : w \in Nat
      /\ session \in [Games -> [Enter -> Sessions \union {None}]]
      /\ \A h \in Games : queue[h] \in Seq(GameRequests)
  BY GameTypes, ConstantsAssumption DEF Versions
<1>3. \A h \in Games : \A w : ~ Living(h, w)
  <2>1. \A h \in Games : \A w : \A i \in Nat : ~ Wants(h, "deleteGame", w, i)
    BY <1>1, ReqParts DEF Wants
  <2>2. \A h \in Games : \A w : ~ Holds(h, w)
    BY <1>1 DEF Holds, OneClient
  <2> QED BY <1>1, <2>1, <2>2 DEF Living
<1>4. gameKey = 0 /\ \A h \in Games : \A w \in Versions : \A i \in Nat : ~ Wants(h, "syncGame", w, i)
  BY <1>2, <1>3 DEF FlagInv, FlagLives, SyncLives, Living
<1>5. /\ \A h \in Games : h # g => queue'[h] = queue[h]
      /\ \A type, v : \A i \in Nat :
             Wants(g, type, v, i)' <=> Wants(g, type, v, i) \/ (Req("gameToken", None) = Req(type, v) /\ i = Len(queue[g]) + 1)
      /\ queue[g] # <<>> => queue'[g] # <<>> /\ Head(queue'[g]) = Head(queue[g])
  <2>1. Req("gameToken", None) \in GameRequests
    BY DEF Req, GameRequests
  <2> QED BY <1>1, <2>1, AskWants
<1>6. s # None /\ s.version = 1 /\ s.due
  <2>1. have[c] \in Tokens
    BY ConstantsAssumption DEF HandleLoginByToken, TypeInv, TypeOK
  <2>2. s \in Sessions
    BY <1>2, <2>1 DEF Sessions
  <2> QED BY <2>2, PlayerThere
<1> HIDE DEF s
<1>7. \A h \in Games : \A w : (Holds(h, w)' <=> h = g /\ w = 1) /\ (Holds(h, w)' => Due(h, w)')
  <2>1. \A d \in Enter : d = c
    BY DEF OneClient
  <2>2. \A h \in Games : session'[h][c] = IF h = g THEN s ELSE None
    BY <1>1, <1>2
  <2> QED BY <1>6, <2>1, <2>2 DEF Holds, Due
<1>8. \A h \in Games : \A type \in {"syncGame", "deleteGame"} : \A w \in Versions : \A i \in Nat : ~ Wants(h, type, w, i)'
  <2> SUFFICES ASSUME NEW h \in Games, NEW type \in {"syncGame", "deleteGame"}, NEW w \in Versions, NEW i \in Nat,
                      Wants(h, type, w, i)'
               PROVE  FALSE
    OBVIOUS
  <2>1. ~ Wants(h, type, w, i)
    BY <1>3, <1>4 DEF Living
  <2>2. Req("gameToken", None) # Req(type, w)
    BY ReqParts
  <2>3. CASE h # g
    BY <1>5, <2>1, <2>3 DEF Wants
  <2>4. CASE h = g
    BY <1>5, <2>1, <2>2, <2>4
  <2> QED BY <2>3, <2>4
<1>9. OneGame' /\ SyncLives' /\ FlagLives' /\ Latest'
  <2>1. \A h \in Games : \A w \in Versions : Living(h, w)' => h = g
    BY <1>1, <1>7, <1>8 DEF Living
  <2>2. Latest'
    BY <1>1, <1>7, <1>8 DEF Latest
  <2> QED BY <1>1, <1>4, <1>8, <2>1, <2>2 DEF OneGame, SyncLives, FlagLives
<1>10. ReadNow'
  BY <1>1, <1>5, ReadStays
<1> QED BY <1>9, <1>10 DEF FlagInv

\* A jump: the new Player has a later version and has yet to say so, and the old one
\* waits for BackToPool.
LEMMA TeleportFlag ==
    ASSUME TypeInv, FlagInv, OneClient, NEW g \in Games, NEW c \in Enter, Teleport(g, c)
    PROVE  FlagInv'
<1> USE DEF redisVars, threadVars, loginVars, gameVars
<1>1. /\ session \in [Games -> [Enter -> Sessions \union {None}]] /\ \A w \in Versions : w \in Nat
      /\ recycle \in [Processes -> SUBSET Versions] /\ g \in Processes /\ \A h \in Games : h \in Processes
  BY GameTypes
<1> DEFINE s == [session[g][c] EXCEPT !.version = @ + 1, !.due = TRUE]
<1>2. /\ UNCHANGED <<gameKey, read, queue>>
      /\ session[g][c] # None /\ session[g][c].version < MaxVersion
      /\ session' = [session EXCEPT ![g][c] = s]
      /\ recycle' = [recycle EXCEPT ![g] = @ \union {session[g][c].version}]
  BY DEF Teleport
<1> PICK n \in Versions : n = session[g][c].version /\ session[g][c] \in Sessions
  BY <1>1, <1>2 DEF Sessions
<1>3. n + 1 \in Versions /\ n \in Nat /\ s \in Sessions /\ s.version = n + 1 /\ s.due
  <2>1. n + 1 \in Versions /\ n \in Nat
    BY <1>1, <1>2, ConstantsAssumption DEF Versions
  <2>2. s \in Sessions /\ s.version = n + 1 /\ s.due
    BY <2>1 DEF Sessions
  <2> QED BY <2>1, <2>2
<1> HIDE DEF s
<1>4. Holds(g, n) /\ gameKey <= n /\ \A h \in Games : \A w \in Versions : Living(h, w) => h = g
  <2>1. Holds(g, n)
    BY <1>2 DEF Holds
  <2> QED BY <2>1, HoldsOne
<1>5. \A h \in Games : \A w \in Versions : (Holds(h, w)' <=> h = g /\ w = n + 1) /\ (Holds(h, w)' => Due(h, w)')
  <2>1. \A h \in Games : session'[h][c] = IF h = g THEN s ELSE session[h][c]
    BY <1>1, <1>2
  <2>2. \A h \in Games : h # g => session[h][c] = None
    <3> SUFFICES ASSUME NEW h \in Games, session[h][c] # None PROVE h = g
      OBVIOUS
    <3>1. session[h][c].version \in Versions /\ Holds(h, session[h][c].version)
      BY <1>1 DEF Holds, Sessions
    <3> QED BY <1>4, <3>1 DEF Living
  <2>3. s # None
    BY <1>3, PlayerThere
  <2>4. \A d \in Enter : d = c
    BY DEF OneClient
  <2> QED BY <1>3, <2>1, <2>2, <2>3, <2>4 DEF Holds, Due
<1>6. \A h \in Games : recycle'[h] = IF h = g THEN recycle[g] \union {n} ELSE recycle[h]
  BY <1>1, <1>2
<1>7. \A h \in Games : \A type, w : \A i \in Nat : Wants(h, type, w, i)' <=> Wants(h, type, w, i)
  BY <1>2 DEF Wants, Req
<1>8. \A h \in Games : \A w \in Versions : Living(h, w)' => h = g
  <2> SUFFICES ASSUME NEW h \in Games, NEW w \in Versions, Living(h, w)', h # g PROVE Living(h, w)
    BY <1>4
  <2> QED BY <1>5, <1>6, <1>7 DEF Living
<1>9. OneGame'
  BY <1>8 DEF OneGame
<1>10. SyncLives'
  <2> SUFFICES ASSUME NEW h \in Games, NEW w \in Versions, NEW i \in Nat, Wants(h, "syncGame", w, i)
               PROVE  \/ Holds(h, w)' \/ w \in recycle'[h]
                      \/ \E j \in Nat : j > i /\ Wants(h, "deleteGame", w, j)'
    BY <1>7 DEF SyncLives
  <2>1. Holds(h, w) => h = g /\ w = n
    BY <1>4, HoldsOne DEF Living
  <2> QED BY <1>6, <1>7, <2>1 DEF FlagInv, SyncLives
<1>11. FlagLives'
  <2> SUFFICES ASSUME NEW k, k = gameKey, k # 0 PROVE \E h \in Games : Living(h, k)'
    BY <1>2 DEF FlagLives, Living, Holds, Wants, Req
  <2>1. PICK h \in Games : Living(h, k)
    BY DEF FlagInv, FlagLives
  <2>2. k \in Versions
    BY GameTypes
  <2>3. Holds(h, k) => h = g /\ k = n
    BY <1>4, <2>2, HoldsOne DEF Living
  <2> QED BY <1>6, <1>7, <2>1, <2>3 DEF Living
<1>12. Latest'
  <2>1. \A w \in Versions : w \in recycle'[g] => w < n + 1
    BY <1>1, <1>3, <1>4, <1>6 DEF FlagInv, Latest
  <2>2. \A w \in Versions : \A i \in Nat :
            (Wants(g, "deleteGame", w, i) => w < n) /\ (Wants(g, "syncGame", w, i) => w <= n)
    BY <1>4 DEF FlagInv, Latest
  <2>3. \A w \in Versions : \A i \in Nat :
            (Wants(g, "deleteGame", w, i)' => w < n + 1) /\ (Wants(g, "syncGame", w, i)' => w <= n + 1)
    BY <1>1, <1>3, <1>7, <2>2
  <2> QED BY <1>5, <2>1, <2>3 DEF Latest
<1>13. ReadNow'
  BY <1>2 DEF FlagInv, ReadNow, At
<1> QED BY <1>9, <1>10, <1>11, <1>12, <1>13 DEF FlagInv

\* A Player's timer asks for the flag to be set.
LEMMA SyncFlag ==
    ASSUME TypeInv, FlagInv, OneClient, NEW g \in Games, NEW v \in Versions, SetOnlineInGame(g, v)
    PROVE  FlagInv'
<1> USE DEF redisVars, threadVars, loginVars, gameVars
<1>1. /\ UNCHANGED <<gameKey, read, recycle>>
      /\ v \in recycle[g] \/ Holds(g, v)
      /\ queue' = Ask(g, Req("syncGame", v)) /\ Req("syncGame", v) \in GameRequests
  BY DEF SetOnlineInGame, Holds, Req, GameRequests
<1>2. /\ session \in [Games -> [Enter -> Sessions \union {None}]] /\ \A w \in Versions : w \in Nat
  BY GameTypes
<1>3. /\ \A h \in Games : h # g => queue'[h] = queue[h]
      /\ \A type, w : \A i \in Nat :
            Wants(g, type, w, i)' <=> Wants(g, type, w, i) \/ (Req("syncGame", v) = Req(type, w) /\ i = Len(queue[g]) + 1)
      /\ Len(queue[g]) + 1 \in Nat
      /\ queue[g] # <<>> => queue'[g] # <<>> /\ Head(queue'[g]) = Head(queue[g])
  BY <1>1, AskWants
<1>4. \A h \in Games : \A type, w : \A i \in Nat :
          /\ Wants(h, type, w, i) => Wants(h, type, w, i)'
          /\ Wants(h, type, w, i)' => Wants(h, type, w, i) \/ (h = g /\ type = "syncGame" /\ w = v)
  <2> SUFFICES ASSUME NEW h \in Games, NEW type, NEW w, NEW i \in Nat
               PROVE  /\ Wants(h, type, w, i) => Wants(h, type, w, i)'
                      /\ Wants(h, type, w, i)' => Wants(h, type, w, i) \/ (h = g /\ type = "syncGame" /\ w = v)
    OBVIOUS
  <2>1. CASE h # g
    BY <1>3, <2>1 DEF Wants
  <2>2. CASE h = g
    <3>1. Req("syncGame", v) = Req(type, w) => type = "syncGame" /\ w = v
      BY ReqParts
    <3> QED BY <1>3, <2>2, <3>1
  <2> QED BY <2>1, <2>2
<1>5. \E k \in Nat : Wants(g, "syncGame", v, k)'
  <2>1. PICK k \in Nat : k = Len(queue[g]) + 1
    BY <1>3
  <2> QED BY <1>3, <2>1
<1>6. \A h \in Games, c \in Enter :
          /\ session'[h][c] = None <=> session[h][c] = None
          /\ session[h][c] # None => session'[h][c].version = session[h][c].version
          /\ session[h][c] # None /\ ~ (h = g /\ session[h][c].version = v) => session'[h][c].due = session[h][c].due
  <2> SUFFICES ASSUME NEW h \in Games, NEW c \in Enter
               PROVE  /\ session'[h][c] = None <=> session[h][c] = None
                      /\ session[h][c] # None => session'[h][c].version = session[h][c].version
                      /\ session[h][c] # None /\ ~ (h = g /\ session[h][c].version = v) =>
                             session'[h][c].due = session[h][c].due
    OBVIOUS
  <2> DEFINE s == [session[h][c] EXCEPT !.due = FALSE]
  <2>1. session'[h][c] = IF h = g /\ session[h][c] # None /\ session[h][c].version = v THEN s ELSE session[h][c]
    BY <1>2 DEF SetOnlineInGame
  <2>2. session[h][c] # None => s \in Sessions /\ s.version = session[h][c].version
    <3>1. session[h][c] # None => session[h][c] \in Sessions
      BY <1>2
    <3> QED BY <3>1 DEF Sessions
  <2> HIDE DEF s
  <2>3. session[h][c] # None => s # None
    BY <2>2, PlayerThere
  <2> QED BY <2>1, <2>2, <2>3
<1>7. \A h \in Games : \A w : (Holds(h, w)' <=> Holds(h, w)) /\ (Due(h, w) => Due(h, w)' \/ (h = g /\ w = v))
  BY <1>6 DEF Holds, Due
<1>8. \A h \in Games : \A w : Living(h, w)' <=> Living(h, w)
  BY <1>1, <1>4, <1>7 DEF Living
<1>9. OneGame' /\ FlagLives'
  BY <1>1, <1>8 DEF FlagInv, OneGame, FlagLives
<1>10. SyncLives'
  BY <1>1, <1>4, <1>7 DEF FlagInv, SyncLives
<1>11. Latest'
  <2> SUFFICES ASSUME NEW h \in Games, NEW n \in Versions, Holds(h, n)
               PROVE  /\ gameKey' = n \/ Due(h, n)' \/ \E i \in Nat : Wants(h, "syncGame", n, i)'
                      /\ \A w \in Versions : w \in recycle'[h] => w < n
                      /\ \A w \in Versions : \A i \in Nat :
                            (Wants(h, "deleteGame", w, i)' => w < n) /\ (Wants(h, "syncGame", w, i)' => w <= n)
    BY <1>7 DEF Latest
  <2>1. /\ gameKey = n \/ Due(h, n) \/ \E i \in Nat : Wants(h, "syncGame", n, i)
        /\ \A w \in Versions : w \in recycle[h] => w < n
        /\ \A w \in Versions : \A i \in Nat :
              (Wants(h, "deleteGame", w, i) => w < n) /\ (Wants(h, "syncGame", w, i) => w <= n)
    BY DEF FlagInv, Latest
  <2>2. h = g => v <= n
    <3>1. Holds(g, v) /\ h = g => v = n
      BY HoldsOne
    <3> QED BY <1>1, <1>2, <2>1, <3>1
  <2>3. gameKey' = n \/ Due(h, n)' \/ \E i \in Nat : Wants(h, "syncGame", n, i)'
    BY <1>1, <1>4, <1>5, <1>7, <2>1
  <2>4. \A w \in Versions : \A i \in Nat :
            (Wants(h, "deleteGame", w, i)' => w < n) /\ (Wants(h, "syncGame", w, i)' => w <= n)
    BY <1>4, <2>1, <2>2
  <2> QED BY <1>1, <2>1, <2>3, <2>4
<1>12. ReadNow'
  BY <1>1, <1>3, ReadStays
<1> QED BY <1>9, <1>10, <1>11, <1>12 DEF FlagInv

\* A client leaves: its Player waits for BackToPool.
LEMMA LeaveFlag ==
    ASSUME TypeInv, FlagInv, OneClient, NEW g \in Games, NEW c \in Enter, LeaveGame(g, c)
    PROVE  FlagInv'
<1> USE DEF redisVars, threadVars, loginVars, gameVars
<1>1. /\ session \in [Games -> [Enter -> Sessions \union {None}]] /\ \A w \in Versions : w \in Nat
      /\ recycle \in [Processes -> SUBSET Versions] /\ g \in Processes /\ \A h \in Games : h \in Processes
  BY GameTypes
<1>2. session[g][c] \in Sessions /\ session[g][c].version \in Versions
  BY <1>1 DEF LeaveGame, Sessions
<1> PICK n \in Versions : n = session[g][c].version
  BY <1>2
<1>3. /\ UNCHANGED <<gameKey, read, queue>>
      /\ session' = [session EXCEPT ![g][c] = None]
      /\ \A h \in Games : recycle'[h] = IF h = g THEN recycle[g] \union {n} ELSE recycle[h]
  BY <1>1 DEF LeaveGame
<1>4. Holds(g, n)
  BY DEF LeaveGame, Holds
<1>5. /\ \A h \in Games : \A w \in Versions : Living(h, w) => h = g
      /\ \A w : Holds(g, w) => w = n
  BY <1>4, HoldsOne
<1>6. \A h \in Games : \A w : ~ Holds(h, w)'
  <2>1. \A h \in Games : h # g => session[h][c] = None
    <3> SUFFICES ASSUME NEW h \in Games, session[h][c] # None PROVE h = g
      OBVIOUS
    <3>1. session[h][c].version \in Versions /\ Holds(h, session[h][c].version)
      BY <1>1 DEF Holds, Sessions
    <3> QED BY <1>5, <3>1 DEF Living
  <2>2. \A h \in Games : session'[h][c] = None
    BY <1>1, <1>3, <2>1
  <2>3. \A d \in Enter : d = c
    BY DEF OneClient
  <2> QED BY <2>2, <2>3 DEF Holds
<1>7. \A h \in Games : \A type, w : \A i \in Nat : Wants(h, type, w, i)' <=> Wants(h, type, w, i)
  BY <1>3 DEF Wants, Req
<1>8. \A h \in Games : \A w \in Versions : Holds(h, w) => h = g /\ w = n
  BY <1>5 DEF Living
<1>9. \A h \in Games : \A w \in Versions : Living(h, w)' <=> Living(h, w)
  BY <1>3, <1>4, <1>6, <1>7, <1>8 DEF Living
<1>10. OneGame'
  BY <1>9 DEF FlagInv, OneGame
<1>11. SyncLives'
  BY <1>3, <1>7, <1>8 DEF FlagInv, SyncLives
<1>12. FlagLives'
  <2> SUFFICES ASSUME NEW k, k = gameKey, k # 0 PROVE \E h \in Games : Living(h, k)'
    BY <1>3 DEF FlagLives, Living, Holds, Wants, Req
  <2>1. k \in Versions
    BY GameTypes
  <2> QED BY <1>9, <2>1 DEF FlagInv, FlagLives
<1>13. Latest'
  BY <1>6 DEF Latest
<1>14. ReadNow'
  BY <1>3 DEF FlagInv, ReadNow, At
<1> QED BY <1>10, <1>11, <1>12, <1>13, <1>14 DEF FlagInv

\* A Player that went away asks for its flag to be deleted.
LEMMA BackFlag ==
    ASSUME TypeInv, FlagInv, NEW g \in Games, NEW v \in Versions, BackToPool(g, v)
    PROVE  FlagInv'
<1> USE DEF redisVars, threadVars, loginVars, gameVars
<1>1. /\ recycle \in [Processes -> SUBSET Versions] /\ g \in Processes /\ g \notin Logins
      /\ \A h \in Games : h \in Processes
  BY GameTypes, NamesAssumption
<1>2. /\ UNCHANGED <<gameKey, read, session>> /\ v \in recycle[g]
      /\ queue' = Ask(g, Req("deleteGame", v)) /\ Req("deleteGame", v) \in GameRequests
      /\ \A h \in Games : recycle'[h] = IF h = g THEN recycle[g] \ {v} ELSE recycle[h]
  BY <1>1 DEF BackToPool, Req, GameRequests
<1>3. /\ \A h \in Games : h # g => queue'[h] = queue[h]
      /\ \A type, w : \A i \in Nat :
            Wants(g, type, w, i)' <=> Wants(g, type, w, i) \/ (Req("deleteGame", v) = Req(type, w) /\ i = Len(queue[g]) + 1)
      /\ \A type, w : \A i \in Nat : Wants(g, type, w, i) => i < Len(queue[g]) + 1
      /\ Len(queue[g]) + 1 \in Nat
      /\ queue[g] # <<>> => queue'[g] # <<>> /\ Head(queue'[g]) = Head(queue[g])
  BY <1>2, AskWants
<1> PICK k \in Nat : k = Len(queue[g]) + 1
  BY <1>3
<1>4. Wants(g, "deleteGame", v, k)' /\ \A type, w : \A i \in Nat : Wants(g, type, w, i) => i < k
  BY <1>3
<1>5. \A h \in Games : \A type, w : \A i \in Nat :
          /\ Wants(h, type, w, i) => Wants(h, type, w, i)'
          /\ Wants(h, type, w, i)' => Wants(h, type, w, i) \/ (h = g /\ type = "deleteGame" /\ w = v)
  <2> SUFFICES ASSUME NEW h \in Games, NEW type, NEW w, NEW i \in Nat
               PROVE  /\ Wants(h, type, w, i) => Wants(h, type, w, i)'
                      /\ Wants(h, type, w, i)' => Wants(h, type, w, i) \/ (h = g /\ type = "deleteGame" /\ w = v)
    OBVIOUS
  <2>1. CASE h # g
    BY <1>3, <2>1 DEF Wants
  <2>2. CASE h = g
    <3>1. Req("deleteGame", v) = Req(type, w) => type = "deleteGame" /\ w = v
      BY ReqParts
    <3> QED BY <1>3, <2>2, <3>1
  <2> QED BY <2>1, <2>2
<1>6. \A h \in Games : \A w : (Holds(h, w)' <=> Holds(h, w)) /\ (Due(h, w)' <=> Due(h, w))
  BY <1>2 DEF Holds, Due
<1>7. \A h \in Games : \A w : Living(h, w)' <=> Living(h, w)
  <2> SUFFICES ASSUME NEW h \in Games, NEW w PROVE Living(h, w)' <=> Living(h, w)
    OBVIOUS
  <2>1. Living(h, w)' => Living(h, w)
    BY <1>2, <1>5, <1>6 DEF Living
  <2>2. Living(h, w) => Living(h, w)'
    BY <1>2, <1>4, <1>5, <1>6 DEF Living
  <2> QED BY <2>1, <2>2
<1>8. OneGame' /\ FlagLives'
  BY <1>2, <1>7 DEF FlagInv, OneGame, FlagLives
<1>9. SyncLives'
  <2> SUFFICES ASSUME NEW h \in Games, NEW w \in Versions, NEW i \in Nat, Wants(h, "syncGame", w, i)',
                      ~ Holds(h, w)', w \notin recycle'[h]
               PROVE  \E j \in Nat : j > i /\ Wants(h, "deleteGame", w, j)'
    BY DEF SyncLives
  <2>1. Wants(h, "syncGame", w, i)
    BY <1>5
  <2>2. CASE h = g /\ w = v
    <3>1. i < k
      BY <1>4, <2>1, <2>2
    <3> QED BY <1>4, <2>2, <3>1
  <2>3. CASE ~ (h = g /\ w = v)
    BY <1>2, <1>5, <1>6, <2>1, <2>3 DEF FlagInv, SyncLives
  <2> QED BY <2>2, <2>3
<1>10. Latest'
  <2> SUFFICES ASSUME NEW h \in Games, NEW n \in Versions, Holds(h, n)
               PROVE  /\ gameKey = n \/ Due(h, n) \/ \E i \in Nat : Wants(h, "syncGame", n, i)'
                      /\ \A w \in Versions : w \in recycle'[h] => w < n
                      /\ \A w \in Versions : \A i \in Nat :
                            (Wants(h, "deleteGame", w, i)' => w < n) /\ (Wants(h, "syncGame", w, i)' => w <= n)
    BY <1>2, <1>6 DEF Latest
  <2>1. /\ gameKey = n \/ Due(h, n) \/ \E i \in Nat : Wants(h, "syncGame", n, i)
        /\ \A w \in Versions : w \in recycle[h] => w < n
        /\ \A w \in Versions : \A i \in Nat :
              (Wants(h, "deleteGame", w, i) => w < n) /\ (Wants(h, "syncGame", w, i) => w <= n)
    BY DEF FlagInv, Latest
  <2>2. h = g => v < n
    BY <1>2, <2>1
  <2>3. \A w \in Versions : w \in recycle'[h] => w < n
    BY <1>2, <2>1
  <2>4. \A w \in Versions : \A i \in Nat :
            (Wants(h, "deleteGame", w, i)' => w < n) /\ (Wants(h, "syncGame", w, i)' => w <= n)
    BY <1>5, <2>1, <2>2
  <2> QED BY <1>5, <2>1, <2>3, <2>4
<1>11. ReadNow'
  BY <1>2, <1>3, ReadStays
<1> QED BY <1>8, <1>9, <1>10, <1>11 DEF FlagInv

\* The keys run out when nothing is under way.
LEMMA ExpireFlag ==
    ASSUME TypeInv, Expire
    PROVE  FlagInv'
<1> USE DEF redisVars, threadVars, loginVars, gameVars
<1>1. /\ gameKey' = 0 /\ UNCHANGED <<session, recycle, queue>>
      /\ \A g \in Games : queue[g] = <<>> /\ recycle[g] = {} /\ \A c \in Enter : session[g][c] = None
  BY DEF Expire, Idle, Processes
<1>2. \A g \in Games : /\ \A v : ~ Holds(g, v)'
                       /\ \A type, v : \A i \in Nat : ~ Wants(g, type, v, i)'
                       /\ recycle'[g] = {} /\ ~ At(g, "syncGame")' /\ ~ At(g, "deleteGame")'
  BY <1>1 DEF Holds, Wants, At
<1>3. OneGame' /\ SyncLives' /\ FlagLives'
  BY <1>1, <1>2 DEF OneGame, SyncLives, FlagLives, Living
<1>4. Latest' /\ ReadNow'
  BY <1>2 DEF Latest, ReadNow
<1> QED BY <1>3, <1>4 DEF FlagInv

\* At most one game has anything to do with the flag, and the Player there, if any,
\* has the greatest version and its flag set or about to be.
THEOREM FlagsCorrect ==
    ASSUME OneClient, ~ Rejoin
    PROVE  Spec => []FlagInv
<1>1. Init => FlagInv
  <2> SUFFICES ASSUME Init PROVE FlagInv
    OBVIOUS
  <2>1. \A g \in Games : /\ \A v : ~ Holds(g, v)
                         /\ \A type, v : \A i \in Nat : ~ Wants(g, type, v, i)
                         /\ recycle[g] = {} /\ ~ At(g, "syncGame") /\ ~ At(g, "deleteGame")
    BY DEF Init, Holds, Wants, At, Processes
  <2>2. OneGame /\ SyncLives /\ FlagLives
    BY <2>1 DEF Init, OneGame, SyncLives, FlagLives, Living
  <2>3. Latest /\ ReadNow
    BY <2>1 DEF Latest, ReadNow
  <2> QED BY <2>2, <2>3 DEF FlagInv
<1>2. TypeInv /\ FlagInv /\ [Next]_vars => FlagInv'
  <2> SUFFICES ASSUME TypeInv, FlagInv, [Next]_vars PROVE FlagInv'
    OBVIOUS
  <2> USE DEF redisVars, threadVars, loginVars, gameVars
  <2>1. CASE UNCHANGED vars \/ ExpireToken
    <3>1. UNCHANGED <<gameKey, session, recycle, queue, read>>
      BY <2>1 DEF vars, ExpireToken
    <3>2. ReadNow' /\ \A g \in Games : \A v : (Holds(g, v)' <=> Holds(g, v)) /\ (Due(g, v)' <=> Due(g, v))
      BY <3>1 DEF FlagInv, ReadNow, At, Holds, Due
    <3> QED BY <3>1, <3>2, FlagAlone
  <2>2. ASSUME NEW p \in Processes, RedisStep(p) \/ \E v \in Versions : BackToPool(p, v)
        PROVE  FlagInv'
    <3>1. CASE p \in Logins
      BY <2>2, <3>1, LoginFlag
    <3>2. CASE p \in Games
      <4>1. CASE RedisStep(p)
        BY <3>2, <4>1, NamesAssumption, ReadFlag, TokenFlag, SetFlag DEF RedisStep
      <4>2. CASE \E v \in Versions : BackToPool(p, v)
        BY <3>2, <4>2, BackFlag
      <4> QED BY <2>2, <4>1, <4>2
    <3> QED BY <2>2, <3>1, <3>2 DEF Processes
  <2> QED BY <2>1, <2>2, LoginFlag, ReadFlag, ComeFlag, SyncFlag, TeleportFlag, LeaveFlag, ExpireFlag DEF Next
<1> QED BY <1>1, <1>2, TypesCorrect, PTL DEF Spec

\* RedisGame::HandlePlayerDeleteOnlineToRedis: when the work is done the account is
\* marked online exactly if its Player is in a game, whatever Players followed one
\* another and however slow each redis thread was, for a client that comes back when
\* its old Players are gone.
THEOREM FlagFollowsPlayerCorrect ==
    ASSUME OneClient, ~ Rejoin
    PROVE  Spec => []FlagFollowsPlayer
<1>1. TypeInv /\ FlagInv => FlagFollowsPlayer
  <2> SUFFICES ASSUME TypeInv, FlagInv, Idle
               PROVE  (gameKey # 0) <=> \E g \in Games, c \in Enter : session[g][c] # None
    BY DEF FlagFollowsPlayer
  <2>1. \A g \in Games : /\ recycle[g] = {} /\ \A type, v : \A i \in Nat : ~ Wants(g, type, v, i)
                         /\ \A v : ~ Due(g, v)
    BY DEF Idle, Wants, Due, Processes
  <2>2. ASSUME gameKey # 0
        PROVE  \E g \in Games, c \in Enter : session[g][c] # None
    BY <2>1, <2>2 DEF FlagInv, FlagLives, Living, Holds
  <2>3. ASSUME NEW g \in Games, NEW c \in Enter, session[g][c] # None
        PROVE  gameKey # 0
    <3>1. session[g][c].version \in Versions /\ Holds(g, session[g][c].version)
      BY <2>3, GameTypes DEF Holds, Sessions
    <3> QED BY <2>1, <3>1, GameTypes DEF FlagInv, Latest
  <2> QED BY <2>2, <2>3
<1> QED BY <1>1, TypesCorrect, FlagsCorrect, PTL
=============================================================================
