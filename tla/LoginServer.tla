----------------------------- MODULE LoginServer ----------------------------
(***************************************************************************)
(* SSL_CLoginServer: the table of sessions that wait for a login and the   *)
(* table of those logged in, each under a lock of its own, and the threads *)
(* that move between them: the accept thread and the workers of CLanServer *)
(* in the callbacks OnAccept, OnRecv and OnRelease, AuthThread, which      *)
(* handles packets and looks for silent sessions, and DB workers.          *)
(*                                                                         *)
(* A step is what a thread does under one lock, or between two.  Of        *)
(* CLanServer the model has what LanServer shows it to promise: an id is   *)
(* given to OnAccept, then with messages to OnRecv, and once to OnRelease  *)
(* when the client left or Disconnect was called, with no OnRecv after it. *)
(***************************************************************************)
EXTENDS Integers, Sequences, FiniteSets, Folds, Functions

SeqExt == INSTANCE SequencesExt

CONSTANTS
  Sessions,      \* session ids
  Patient,       \* those whose clients wait for each answer and leave after a login
  Accounts,      \* account numbers; sessions may log in to the same one
  DBThreads,     \* DBworkerThread
  WaitLimit,     \* 50000 ms of silence before a login
  AuthLimit,     \* 30000 ms after one
  Wrap,          \* 2^32: timeGetTime() is a DWORD
  MaxPackets     \* bound: packets of all clients

ASSUME LoginServerAssumption ==
  /\ IsFiniteSet(Sessions) /\ IsFiniteSet(DBThreads)
  /\ {WaitLimit, AuthLimit, Wrap, MaxPackets} \subseteq Nat
  /\ Patient \subseteq Sessions
  /\ WaitLimit < Wrap /\ AuthLimit < Wrap

VARIABLES
  wait, auth,        \* _SessionID_wait_hash, _SessionID_auth_hash: id -> _lastTime
  _AuthThreadQueue,  \* packets OnRecv pushed
  dbIocp,            \* _hDBIocp: sessions whose login is to be looked up
  _DB_ReqCnt,
  tokens,            \* the sessions whose tokens were committed to the Redis key of an
                     \* account, "session:" and its number; the last one is there now
  ath, db,           \* AuthThread, DB workers: position and local variables
  now,               \* timeGetTime()
  net, accTime,      \* what CLanServer did with a session; OnAccept's reading of the time
  nSent, answers,    \* packets of a client, answers given to CLanServer for it
  told,              \* the accounts of whose login a client was told
  dropped,           \* requests of a session that ended without an answer
  expired,           \* sessions HeartBeat disconnected
  broken             \* the __debugbreak that stopped the server, and for whom

tables == <<wait, auth>>
queues == <<_AuthThreadQueue, dbIocp>>
login  == <<_DB_ReqCnt, tokens, dropped>>
client == <<nSent, answers, told>>
lan    == <<net, accTime>>
vars   == <<tables, queues, login, ath, db, now, client, lan, expired, broken>>

Time    == 0 .. Wrap - 1
Kinds   == {"REQ_LOGIN", "REQ_ECHO", "other"}
Packet  == [own : Sessions, kind : Kinds]
Running == [at |-> "nowhere"]

Put(table, s, t) == [x \in DOMAIN table \cup {s} |-> IF x = s THEN t ELSE table[x]]
Erase(table, s)  == [x \in DOMAIN table \ {s} |-> table[x]]

\* DWORD subtraction
Elapsed(t, last) == (t - last) % Wrap

\* CLanServer::Disconnect of the sessions S: those OnRelease was not begun for
\* will be released.
Disconnect(S) ==
  net' = [s \in Sessions |-> IF s \in S /\ net[s] = "open" THEN "closed" ELSE net[s]]

\* SendPacket: an id that is being released or was released gets nothing.
SendPacket(s) ==
  answers' = [answers EXCEPT ![s] = IF net[s] \in {"open", "closed"} THEN @ + 1 ELSE @]

Break(where, s) == broken' = [at |-> where, own |-> s]
Up == broken = Running

-----------------------------------------------------------------------------
(* The callbacks, on threads of CLanServer.  There is one accept thread. *)

\* The time is read before the lock is taken.
OnAccept(s) ==
  /\ net[s] = "new"
  /\ \A r \in Sessions : net[r] # "accept"
  /\ net' = [net EXCEPT ![s] = "accept"]
  /\ accTime' = now
  /\ UNCHANGED <<tables, queues, login, ath, db, now, client, expired, broken>>

OnAcceptInsert(s) ==
  /\ net[s] = "accept"
  /\ IF s \in DOMAIN wait
       THEN Break("OnAccept", s) /\ UNCHANGED <<wait, lan>>
       ELSE /\ wait' = Put(wait, s, accTime)
            /\ net' = [net EXCEPT ![s] = "open"]
            /\ accTime' = 0
            /\ UNCHANGED broken
  /\ UNCHANGED <<auth, queues, login, ath, db, now, client, expired>>

\* A patient client sends when it has its answers and is not logged in.
MaySend(s) == s \in Patient => net[s] = "open" /\ nSent[s] = answers[s] /\ told[s] = {}

\* The client sends a packet: OnRecv pushes it, to any place, as its node may be linked
\* behind one that is not in the lock-free queue yet.  SetEvent ends AuthThread's wait
\* early; a wait of 6 s ends anyway, so the event is not part of the state.  A worker
\* may be in the middle of what it received when the session is disconnected.
OnRecv(s, kind) ==
  /\ net[s] \in {"open", "closed"}
  /\ FoldFunction(+, 0, nSent) < MaxPackets
  /\ MaySend(s)
  /\ s \in Patient => kind # "other"
  /\ nSent' = [nSent EXCEPT ![s] = @ + 1]
  /\ \E i \in 1 .. Len(_AuthThreadQueue) + 1 :
       _AuthThreadQueue' = SeqExt!InsertAt(_AuthThreadQueue, i, [own |-> s, kind |-> kind])
  /\ UNCHANGED <<tables, dbIocp, login, ath, db, now, answers, told, lan, expired, broken>>

\* The client leaves.
Leave(s) ==
  /\ net[s] = "open"
  /\ s \in Patient => nSent[s] = answers[s]
  /\ Disconnect({s})
  /\ UNCHANGED <<tables, queues, login, ath, db, now, client, accTime, expired, broken>>

\* OnRelease under _srw_Wait.  bChk, whether it found the session, is in the position.
OnReleaseWait(s) ==
  /\ net[s] = "closed"
  /\ wait' = Erase(wait, s)
  /\ net' = [net EXCEPT ![s] = IF s \in DOMAIN wait THEN "found" ELSE "missed"]
  /\ UNCHANGED <<auth, queues, login, ath, db, now, client, accTime, expired, broken>>

\* OnRelease under _srw_Auth
OnReleaseAuth(s) ==
  /\ net[s] \in {"found", "missed"}
  /\ auth' = Erase(auth, s)
  /\ net' = [net EXCEPT ![s] = "released"]
  /\ IF net[s] = "missed" /\ s \notin DOMAIN auth THEN Break("OnRelease", s) ELSE UNCHANGED broken
  /\ UNCHANGED <<wait, queues, login, ath, db, now, client, accTime, expired>>

-----------------------------------------------------------------------------
(* AuthThread *)

Waits == [at |-> "wait"]

\* The wait ends; while there are packets they are handled.
AuthPop ==
  /\ ath = Waits
  /\ _AuthThreadQueue # <<>>
  /\ ath' = [at |-> "PacketProc", msg |-> Head(_AuthThreadQueue)]
  /\ _AuthThreadQueue' = Tail(_AuthThreadQueue)
  /\ UNCHANGED <<tables, dbIocp, login, db, now, client, lan, expired, broken>>

Handles(kind) == ath.at = "PacketProc" /\ ath.msg.kind = kind

\* REQ_LOGIN posts the request to the DB workers.
REQ_LOGIN ==
  /\ Handles("REQ_LOGIN")
  /\ dbIocp' = Append(dbIocp, ath.msg.own)
  /\ ath' = Waits
  /\ UNCHANGED <<tables, _AuthThreadQueue, login, db, now, client, lan, expired, broken>>

\* REQ_ECHO under _srw_Wait.  A text is not longer than 512.
REQ_ECHO ==
  LET s == ath.msg.own IN
  /\ Handles("REQ_ECHO")
  /\ IF s \in DOMAIN wait
       THEN /\ wait' = [wait EXCEPT ![s] = now]
            /\ ath' = [at |-> "RES_ECHO", own |-> s]
            /\ UNCHANGED broken
       ELSE Break("REQ_ECHO", s) /\ UNCHANGED <<wait, ath>>
  /\ UNCHANGED <<auth, queues, login, db, now, client, lan, expired>>

RES_ECHO ==
  /\ ath.at = "RES_ECHO"
  /\ SendPacket(ath.own)
  /\ ath' = Waits
  /\ UNCHANGED <<tables, queues, login, db, now, nSent, told, lan, expired, broken>>

\* PacketProc returns false for a packet of another type or one that is too short.
BadPacket ==
  /\ Handles("other")
  /\ Disconnect({ath.msg.own})
  /\ ath' = Waits
  /\ UNCHANGED <<tables, queues, login, db, now, client, accTime, expired, broken>>

\* HeartBeat runs when no packet is left, and reads the time once, before it takes
\* the locks.
HeartBeatTime ==
  /\ ath = Waits
  /\ _AuthThreadQueue = <<>>
  /\ ath' = [at |-> "beatWait", currentTime |-> now]
  /\ UNCHANGED <<tables, queues, login, db, now, client, lan, expired, broken>>

\* One loop of HeartBeat: the sessions of a table that were silent for longer
\* than limit are disconnected.
HeartBeat(table, limit) ==
  LET late == {s \in DOMAIN table : Elapsed(ath.currentTime, table[s]) > limit} IN
  /\ Disconnect(late)
  /\ expired' = expired \cup {s \in late : net[s] = "open"}
  /\ UNCHANGED <<tables, queues, login, db, now, client, accTime, broken>>

HeartBeatWait ==
  /\ ath.at = "beatWait"
  /\ HeartBeat(wait, WaitLimit)
  /\ ath' = [ath EXCEPT !.at = "beatAuth"]

\* Mutant: the second loop goes over the first table.
BeatWaitTwice ==
  /\ ath.at = "beatAuth"
  /\ HeartBeat(wait, AuthLimit)
  /\ ath' = Waits

HeartBeatAuth ==
  /\ ath.at = "beatAuth"
  /\ HeartBeat(auth, AuthLimit)
  /\ ath' = Waits

-----------------------------------------------------------------------------
(* DBworkerThread: DB_PacketProc, PacketProc_LoginAuth *)

\* A request at work; accountNo is 0 until the query found the account.
Request == [at : {"WaitDB", "failed", "RES_LOGIN"}, own : Sessions, accountNo : {0}]
             \cup [at : {"takeWait", "putAuth", "redis", "OK"}, own : Sessions, accountNo : Accounts]
Idle    == [at |-> "GQCS"]

Goto(d, label) == db' = [db EXCEPT ![d].at = label]
Ends(d)        == db' = [db EXCEPT ![d] = Idle]

\* A completion is taken and the request counted.
DBTake(d) ==
  /\ db[d] = Idle
  /\ dbIocp # <<>>
  /\ db' = [db EXCEPT ![d] = [at |-> "WaitDB", own |-> Head(dbIocp), accountNo |-> 0]]
  /\ dbIocp' = Tail(dbIocp)
  /\ _DB_ReqCnt' = _DB_ReqCnt + 1
  /\ UNCHANGED <<tables, _AuthThreadQueue, tokens, dropped, ath, now, client, lan, expired, broken>>

\* The query finds the account of id and password, or not (ID_MISS and PASSWORD_MISS
\* alike).
WaitDB(d) ==
  /\ db[d].at = "WaitDB"
  /\ \/ Goto(d, "failed")
     \/ \E no \in Accounts : db' = [db EXCEPT ![d] = [at |-> "takeWait", own |-> @.own, accountNo |-> no]]
  /\ UNCHANGED <<tables, queues, login, ath, now, client, lan, expired, broken>>

\* An early return: the request stays counted, its message is not freed.
Drop(d) ==
  /\ dropped' = [dropped EXCEPT ![db[d].own] = @ + 1]
  /\ Ends(d)

\* Mutant: a session that is not in the table any more is entered in the other one.
TakeAnyway(d) ==
  /\ db[d].at = "takeWait"
  /\ wait' = Erase(wait, db[d].own)
  /\ Goto(d, "putAuth")
  /\ UNCHANGED <<auth, queues, login, ath, now, client, lan, expired, broken>>

\* Login succeeded: out of the wait table, under _srw_Wait.
TakeFromWait(d) ==
  LET s == db[d].own IN
  /\ db[d].at = "takeWait"
  /\ IF s \in DOMAIN wait
       THEN /\ wait' = Erase(wait, s)
            /\ Goto(d, "putAuth")
            /\ UNCHANGED dropped
       ELSE Drop(d) /\ UNCHANGED wait
  /\ UNCHANGED <<auth, queues, _DB_ReqCnt, tokens, ath, now, client, lan, expired, broken>>

\* Into the auth table, under _srw_Auth.
PutIntoAuth(d) ==
  LET s == db[d].own IN
  /\ db[d].at = "putAuth"
  /\ IF s \in DOMAIN auth
       THEN Drop(d) /\ UNCHANGED auth
       ELSE /\ auth' = Put(auth, s, now)
            /\ Goto(d, "redis")
            /\ UNCHANGED dropped
  /\ UNCHANGED <<wait, queues, _DB_ReqCnt, tokens, ath, now, client, lan, expired, broken>>

\* Mutant: sync_commit is left out, the commands stay in the client's buffer.
NoCommit(d) ==
  /\ db[d].at = "redis"
  /\ Goto(d, "OK")
  /\ UNCHANGED <<tables, queues, login, ath, now, client, lan, expired, broken>>

\* hmset, expire and sync_commit: the token is put under the key of the account, where
\* it replaces that of an earlier login.
Redis(d) ==
  /\ db[d].at = "redis"
  /\ tokens' = [tokens EXCEPT ![db[d].accountNo] = Append(@, db[d].own)]
  /\ Goto(d, "OK")
  /\ UNCHANGED <<tables, queues, _DB_ReqCnt, dropped, ath, now, client, lan, expired, broken>>

\* Mutant: a failed login takes the session out of the table.
FailureErases(d) ==
  LET s == db[d].own IN
  /\ db[d].at = "failed"
  /\ IF s \in DOMAIN wait
       THEN wait' = Erase(wait, s) /\ Goto(d, "RES_LOGIN") /\ UNCHANGED dropped
       ELSE Drop(d) /\ UNCHANGED wait
  /\ UNCHANGED <<auth, queues, _DB_ReqCnt, tokens, ath, now, client, lan, expired, broken>>

\* Mutant: the other table is looked at.
FailureLooksInAuth(d) ==
  /\ db[d].at = "failed"
  /\ IF db[d].own \in DOMAIN auth THEN Goto(d, "RES_LOGIN") /\ UNCHANGED dropped ELSE Drop(d)
  /\ UNCHANGED <<tables, queues, _DB_ReqCnt, tokens, ath, now, client, lan, expired, broken>>

\* Login failed: a session that still waits is answered.
LoginFails(d) ==
  /\ db[d].at = "failed"
  /\ IF db[d].own \in DOMAIN wait THEN Goto(d, "RES_LOGIN") /\ UNCHANGED dropped ELSE Drop(d)
  /\ UNCHANGED <<tables, queues, _DB_ReqCnt, tokens, ath, now, client, lan, expired, broken>>

\* The request is counted no more and answered.
RES_LOGIN(d) ==
  LET s == db[d].own IN
  /\ db[d].at \in {"OK", "RES_LOGIN"}
  /\ _DB_ReqCnt' = _DB_ReqCnt - 1
  /\ SendPacket(s)
  /\ told' = IF db[d].at = "OK" /\ net[s] \in {"open", "closed"}
               THEN [told EXCEPT ![s] = @ \cup {db[d].accountNo}]
               ELSE told
  /\ Ends(d)
  /\ UNCHANGED <<tables, queues, tokens, dropped, ath, now, nSent, lan, expired, broken>>

-----------------------------------------------------------------------------
\* The time moves, whatever AuthThread is doing: while its queue does not become empty,
\* any amount of time may pass between two heart-beats.
Tick ==
  /\ now' = (now + 1) % Wrap
  /\ UNCHANGED <<tables, queues, login, ath, db, client, lan, expired, broken>>

Init ==
  /\ wait = <<>> /\ auth = <<>>
  /\ _AuthThreadQueue = <<>> /\ dbIocp = <<>>
  /\ _DB_ReqCnt = 0
  /\ ath = Waits
  /\ db = [d \in DBThreads |-> Idle]
  /\ now = 0
  /\ net = [s \in Sessions |-> "new"] /\ accTime = 0
  /\ told = [s \in Sessions |-> {}] /\ expired = {}
  /\ nSent = [s \in Sessions |-> 0] /\ answers = [s \in Sessions |-> 0]
  /\ tokens = [a \in Accounts |-> <<>>] /\ dropped = [s \in Sessions |-> 0]
  /\ broken = Running

\* What AuthThread goes on with; that its queue becomes empty is up to the clients.
AuthGoesOn ==
  \/ AuthPop \/ REQ_LOGIN \/ REQ_ECHO \/ RES_ECHO \/ BadPacket
  \/ HeartBeatWait \/ HeartBeatAuth

AuthThread == AuthGoesOn \/ HeartBeatTime

DBworkerThread(d) ==
  \/ DBTake(d) \/ WaitDB(d) \/ TakeFromWait(d) \/ PutIntoAuth(d) \/ Redis(d)
  \/ LoginFails(d) \/ RES_LOGIN(d)

Callback(s) == OnAcceptInsert(s) \/ OnReleaseWait(s) \/ OnReleaseAuth(s)

Client(s) == OnAccept(s) \/ Leave(s) \/ \E kind \in Kinds : OnRecv(s, kind)

\* A __debugbreak ends the process.
Next ==
  /\ Up
  /\ \/ AuthThread \/ Tick
     \/ \E d \in DBThreads : DBworkerThread(d)
     \/ \E s \in Sessions : Callback(s) \/ Client(s)

Spec == Init /\ [][Next]_vars

\* Threads run, callbacks end, and CLanServer releases a session that was disconnected
\* (LanServer).  No fairness lets AuthThread find its queue empty: clients of any
\* number may keep it busy, more than MaxPackets lets them send here.
Fairness ==
  /\ WF_vars(Up /\ AuthGoesOn)
  /\ \A d \in DBThreads : WF_vars(Up /\ DBworkerThread(d))
  /\ \A s \in Sessions : WF_vars(Up /\ Callback(s))

FairSpec == Spec /\ Fairness

-----------------------------------------------------------------------------
TypeOK ==
  /\ \A table \in {wait, auth} : DOMAIN table \subseteq Sessions /\ \A s \in DOMAIN table : table[s] \in Time
  /\ _AuthThreadQueue \in Seq(Packet)
  /\ dbIocp \in Seq(Sessions)
  /\ _DB_ReqCnt \in Nat
  /\ ath \in {Waits} \cup [at : {"PacketProc"}, msg : Packet] \cup [at : {"RES_ECHO"}, own : Sessions]
            \cup [at : {"beatWait", "beatAuth"}, currentTime : Time]
  /\ db \in [DBThreads -> {Idle} \cup Request]
  /\ {now, accTime} \subseteq Time
  /\ net \in [Sessions -> {"new", "accept", "open", "closed", "found", "missed", "released"}]
  /\ {nSent, answers, dropped} \subseteq [Sessions -> Nat]
  /\ tokens \in [Accounts -> Seq(Sessions)]
  /\ told \in [Sessions -> SUBSET Accounts]
  /\ expired \subseteq Sessions
  /\ broken \in {Running} \cup [at : {"OnAccept", "OnRelease", "REQ_ECHO"}, own : Sessions]

\* DB workers that took session s out of one table and have not put it in the other
Moving(s) == {d \in DBThreads : db[d].at = "putAuth" /\ db[d].own = s}

\* The places session s is in
Places(s) ==
  (IF s \in DOMAIN wait THEN 1 ELSE 0) + (IF s \in DOMAIN auth THEN 1 ELSE 0)
  + Cardinality(Moving(s))

\* From the end of OnAccept to the beginning of OnRelease a session is in one of
\* the tables or with one DB worker that moves it, and never in two of these
\* places; before and after it is in none, so that the tables keep no session that
\* is gone (OnAccept, OnRelease, PacketProc_LoginAuth).
OnePlace ==
  Up => \A s \in Sessions :
          Places(s) = IF net[s] \in {"open", "closed", "missed"} THEN 1 ELSE 0

\* A session puts one token into Redis at most, for one account or several, however
\* many login requests of it are handled at a time; and a client that was told of its
\* login to an account has had its token put there.  So the token it was sent is in
\* Redis, for the time expire gives it, until another session logs in to that account,
\* which may happen before it is sent (PacketProc_LoginAuth).
TokenStays ==
  /\ \A a, b \in Accounts : \A i \in 1 .. Len(tokens[a]), j \in 1 .. Len(tokens[b]) :
       tokens[a][i] = tokens[b][j] => a = b /\ i = j
  /\ \A s \in Sessions : \A a \in told[s] : \E i \in 1 .. Len(tokens[a]) : tokens[a][i] = s

\* _DB_ReqCnt, which the monitor shows as the length of the DB queue, counts the
\* requests at work and those that were dropped for ever; a request is dropped only
\* when its session is logged in or on its way there, or gone.
DroppedIsGone ==
  /\ _DB_ReqCnt = Cardinality({d \in DBThreads : db[d] # Idle})
                    + FoldFunction(+, 0, dropped)
  /\ \A s \in Sessions :
       dropped[s] > 0 => \/ s \in DOMAIN auth \/ Moving(s) # {}
                         \/ net[s] \in {"found", "missed", "released"}

\* A client that waits for its answers and leaves after its login does not meet a
\* __debugbreak, unless HeartBeat disconnected it: OnRelease finds its session and
\* its echo does (OnRelease, REQ_ECHO).
PatientIsSafe == ~Up => broken.own \notin Patient \ expired

\* HeartBeat runs again and again in each unit of time; that it does depends on the
\* traffic.
Beats == \A t \in Time : []<>(ath.at = "beatWait" /\ ath.currentTime = t)

\* As long as AuthThread gets to its HeartBeat, no connection stays for ever: a client
\* that falls silent, logged in or not, is disconnected and released, though others
\* send and a DB worker moves it while HeartBeat goes through the tables (HeartBeat,
\* OnRelease).
SilentLeaves == Beats => \A s \in Sessions : net[s] = "open" ~> net[s] = "released"
=============================================================================
