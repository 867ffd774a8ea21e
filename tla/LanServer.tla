----------------------------- MODULE LanServer ------------------------------
(***************************************************************************)
(* CLanServer, the network library of the login server: sessions in slots, *)
(* the count m_ioCount with its release bit, the send flag, a limit on the *)
(* send queue, one accept thread, worker threads, and threads of the       *)
(* application that call SendPacket and Disconnect.                        *)
(*                                                                         *)
(* It does what NetworkLib does with other means: accept() in a thread of  *)
(* its own, a 64-bit count, and Disconnect counting for itself, called     *)
(* also by workers and by a sender that finds the queue full.  A step is   *)
(* one interlocked operation, one read of shared state or one system call. *)
(*                                                                         *)
(* m_SessionIdxStack is the abstract stack that LockFreeStack implements.  *)
(* Of the lock-free queue m_sendBuffer it is used that a message is in the *)
(* queue, once, from the moment its Push counted it, and that Pop waits    *)
(* for a message that is counted; where it comes out among the others is   *)
(* left open (LockFreeQueue shows why).                                    *)
(***************************************************************************)
EXTENDS Integers, Sequences, FiniteSets
SeqExt == INSTANCE SequencesExt

CONSTANTS
  Workers,            \* WorkerThread
  Acceptor,           \* AcceptThread
  Contents,           \* threads of the application
  MaxSessions,        \* sessions in sessions_vec
  SENDWSABUF_MAX,     \* messages of one WSASend
  SendBufferLimit,    \* a queue this long disconnects
  RELEASE,            \* (ull)1 << 47
  MaxAccepts,         \* bound: connections
  MaxMsgs,            \* bound: messages sent
  MaxIoCount          \* bound: m_ioCount when a call with a stale id raises it

Threads == Workers \cup {Acceptor} \cup Contents
Slots   == 0 .. MaxSessions - 1

ASSUME LanServerAssumption ==
  /\ IsFiniteSet(Workers) /\ IsFiniteSet(Contents)
  /\ Acceptor \notin Workers \cup Contents
  /\ Workers \cap Contents = {}
  /\ {MaxSessions, SENDWSABUF_MAX, SendBufferLimit, RELEASE} \subseteq Nat \ {0}
  /\ {MaxAccepts, MaxMsgs, MaxIoCount} \subseteq Nat

VARIABLES
  m_SeqID,            \* [Slots -> Nat]: the part below the index
  m_ioCount, m_blive, m_flag,
  m_sendBuffer,       \* queued messages
  m_sendOverlapped,   \* msgs[0 .. msgCnt - 1]
  m_SessionIdxStack,  \* free slots, the top first
  session_id,         \* of the next connection
  kernel, iocp,       \* operations outstanding, completions queued
  conn,               \* the connection behind m_sock
  pc, ses, id, call,  \* thread-local: position, slot, SessionID, SendPacket or Disconnect
  accepted, released, \* ids OnAccept and OnRelease were given
  done,               \* messages OnSend was given
  nMsgs,              \* messages sent so far
  orphaned            \* slots a Disconnect with another id left at zero

session == <<m_SeqID, m_ioCount, m_blive, m_flag, m_sendBuffer, m_sendOverlapped>>
pool    == <<m_SessionIdxStack, session_id>>
io      == <<kernel, iocp, conn>>
local   == <<ses, id, call>>
log     == <<accepted, released, done, nMsgs, orphaned>>
vars    == <<session, pool, io, pc, local, log>>

Ops         == {"recv", "send"}
Completions == {"recv", "fin", "send", "release"}
Calls       == {"SendPacket", "Disconnect"}
Message     == [own : Slots \X Nat, n : Nat]

Goto(t, label) == pc' = [pc EXCEPT ![t] = label]

\* Where thread t goes when it has nothing to do for a session.
Home(t) == IF t \in Workers THEN "GQCS" ELSE IF t = Acceptor THEN "accept" ELSE "idle"

\* Interlocked operations on m_ioCount
Add(s, n)     == m_ioCount' = [m_ioCount EXCEPT ![s] = @ + n]
ReleaseBit(n) == n >= RELEASE

Posted(s, c) == iocp' = [iocp EXCEPT ![s][c] = @ + 1]

\* CancelIoEx: what the system holds completes with transferred = 0.
CancelRecv(s) ==
  /\ kernel' = [kernel EXCEPT ![s].recv = 0]
  /\ iocp' = [iocp EXCEPT ![s].fin = @ + kernel[s].recv]

CancelSend(s) ==
  /\ kernel' = [kernel EXCEPT ![s].send = 0]
  /\ iocp' = [iocp EXCEPT ![s].send = @ + kernel[s].send]

\* CancelIO_Routine
CancelBoth(s) ==
  /\ kernel' = [kernel EXCEPT ![s] = [k \in Ops |-> 0]]
  /\ iocp' = [iocp EXCEPT ![s].fin = @ + kernel[s].recv, ![s].send = @ + kernel[s].send]

\* The CAS of m_ioCount from 0 to the bit; the winner posts the release.
TryRelease(s) ==
  IF m_ioCount[s] = 0 THEN Add(s, RELEASE) /\ Posted(s, "release")
                      ELSE UNCHANGED <<m_ioCount, iocp>>

-----------------------------------------------------------------------------
(* AcceptThread *)

\* accept() and a slot for the client; without a slot the client is dropped.
\* The id is in place before the count.
AcceptSession(t) ==
  /\ t = Acceptor /\ pc[t] = "accept"
  /\ session_id < MaxAccepts
  /\ m_SessionIdxStack # <<>>
  /\ LET s == Head(m_SessionIdxStack) IN
       /\ ses' = [ses EXCEPT ![t] = s]
       /\ m_blive' = [m_blive EXCEPT ![s] = TRUE]
       /\ m_flag' = [m_flag EXCEPT ![s] = FALSE]
       /\ m_SeqID' = [m_SeqID EXCEPT ![s] = session_id]
       /\ conn' = [conn EXCEPT ![s] = "up"]
       /\ orphaned' = orphaned \ {s}
  /\ m_SessionIdxStack' = Tail(m_SessionIdxStack)
  /\ session_id' = session_id + 1
  /\ Goto(t, "accCount")
  /\ UNCHANGED <<m_ioCount, m_sendBuffer, m_sendOverlapped, kernel, iocp, id, call,
                 accepted, released, done, nMsgs>>

\* Mutant: the count the release left is raised, not set.
AcceptRaises(t) ==
  /\ pc[t] = "accCount"
  /\ Add(ses[t], 1)
  /\ Goto(t, "OnAccept")
  /\ UNCHANGED <<m_SeqID, m_blive, m_flag, m_sendBuffer, m_sendOverlapped, pool, io, local, log>>

AcceptCount(t) ==
  /\ pc[t] = "accCount"
  /\ m_ioCount' = [m_ioCount EXCEPT ![ses[t]] = 1]
  /\ Goto(t, "OnAccept")
  /\ UNCHANGED <<m_SeqID, m_blive, m_flag, m_sendBuffer, m_sendOverlapped, pool, io, local, log>>

\* CreateIoCompletionPort fails: the socket is closed, and the session keeps the
\* reference of the accept for ever.
NoPort(t) ==
  /\ pc[t] = "OnAccept"
  /\ conn' = [conn EXCEPT ![ses[t]] = "lost"]
  /\ Goto(t, "accept")
  /\ UNCHANGED <<session, pool, kernel, iocp, local, log>>

\* OnAccept may refuse the session: it is released without a receive.
OnAccept(t) ==
  /\ pc[t] = "OnAccept"
  /\ accepted' = accepted \cup {<<ses[t], m_SeqID[ses[t]]>>}
  /\ \/ Goto(t, "RecvPacket")
     \/ Goto(t, "dec")
  /\ UNCHANGED <<session, pool, io, local, released, done, nMsgs, orphaned>>

-----------------------------------------------------------------------------
(* WorkerThread, and DecrementIoCountAndMaybeDeleteSession *)

Entry(c) == CASE c = "recv"    -> "RecvComplete"
              [] c = "fin"     -> "fin"
              [] c = "send"    -> "SendComplete"
              [] c = "release" -> "ReleaseComplete"

TakeCompletion(w, s, c) ==
  /\ pc[w] = "GQCS"
  /\ iocp[s][c] > 0
  /\ iocp' = [iocp EXCEPT ![s][c] = @ - 1]
  /\ ses' = [ses EXCEPT ![w] = s]
  /\ Goto(w, Entry(c))
  /\ UNCHANGED <<session, pool, kernel, conn, id, call, log>>

\* transferred == 0.  No message is complete in the receive buffer then.
Fin(w) ==
  /\ pc[w] = "fin"
  /\ m_blive' = [m_blive EXCEPT ![ses[w]] = FALSE]
  /\ Goto(w, "RecvPacket")
  /\ UNCHANGED <<m_SeqID, m_ioCount, m_flag, m_sendBuffer, m_sendOverlapped, pool, io, local, log>>

Dec(t) ==
  /\ pc[t] = "dec"
  /\ Add(ses[t], -1)
  /\ Goto(t, IF m_ioCount[ses[t]] = 1 THEN "CAS" ELSE Home(t))
  /\ UNCHANGED <<m_SeqID, m_blive, m_flag, m_sendBuffer, m_sendOverlapped, pool, io, local, log>>

\* also after SessionLock and SessionUnLock
CAS(t) ==
  /\ pc[t] = "CAS"
  /\ TryRelease(ses[t])
  /\ Goto(t, Home(t))
  /\ UNCHANGED <<m_SeqID, m_blive, m_flag, m_sendBuffer, m_sendOverlapped, pool, kernel, conn,
                 local, log>>

-----------------------------------------------------------------------------
(* RecvComplete and RecvPacket *)

\* Messages go to OnRecv.  Too many or too long ones disconnect; a bad checksum
\* gives the session up without Disconnect.
RecvComplete(w) ==
  LET s == ses[w] IN
  /\ pc[w] = "RecvComplete"
  /\ \/ Goto(w, "RecvPacket") /\ UNCHANGED <<m_blive, kernel, iocp, id>>
     \/ /\ id' = [id EXCEPT ![w] = m_SeqID[s]]
        /\ Goto(w, "Disconnect")
        /\ UNCHANGED <<m_blive, kernel, iocp>>
     \/ /\ m_blive' = [m_blive EXCEPT ![s] = FALSE]
        /\ CancelSend(s)
        /\ Goto(w, "dec")
        /\ UNCHANGED id
  /\ UNCHANGED <<m_SeqID, m_ioCount, m_flag, m_sendBuffer, m_sendOverlapped, pool, conn, ses,
                 call, log>>

\* A full buffer gives the session up; otherwise m_blive decides.
RecvPacket(t) ==
  LET s == ses[t] IN
  /\ pc[t] = "RecvPacket"
  /\ \/ /\ t \in Workers
        /\ m_blive' = [m_blive EXCEPT ![s] = FALSE]
        /\ CancelSend(s)
        /\ Goto(t, "dec")
     \/ /\ Goto(t, IF m_blive[s] THEN "WSARecv" ELSE "dec")
        /\ UNCHANGED <<m_blive, kernel, iocp>>
  /\ UNCHANGED <<m_SeqID, m_ioCount, m_flag, m_sendBuffer, m_sendOverlapped, pool, conn, local, log>>

\* The overlapped call k, after the count was raised: it is pending, has
\* completed, or fails without a completion.
WSACall(t, k) ==
  LET s == ses[t] IN
  /\ Add(s, 1)
  /\ \/ /\ kernel' = [kernel EXCEPT ![s][k] = @ + 1]
        /\ Goto(t, IF k = "recv" THEN "recvPending" ELSE "sendPending")
        /\ UNCHANGED iocp
     \/ conn[s] = "up" /\ Posted(s, k) /\ Goto(t, "dec") /\ UNCHANGED kernel
     \/ /\ conn[s] = "reset"
        /\ Goto(t, IF k = "recv" THEN "recvError" ELSE "sendError")
        /\ UNCHANGED <<kernel, iocp>>
  /\ UNCHANGED <<m_SeqID, m_blive, m_flag, m_sendBuffer, m_sendOverlapped, pool, conn, local, log>>

WSARecv(t) == pc[t] = "WSARecv" /\ WSACall(t, "recv")

\* WSARecvError and WSASendError: any error but WSA_IO_PENDING
IoError(t) ==
  /\ pc[t] \in {"recvError", "sendError"}
  /\ m_blive' = [m_blive EXCEPT ![ses[t]] = FALSE]
  /\ Add(ses[t], -1)
  /\ Goto(t, "dec")
  /\ UNCHANGED <<m_SeqID, m_flag, m_sendBuffer, m_sendOverlapped, pool, io, local, log>>

\* WSA_IO_PENDING: a session given up meanwhile is cancelled again.
IoPending(t) ==
  LET s == ses[t] IN
  /\ pc[t] \in {"recvPending", "sendPending"}
  /\ \/ m_blive[s] /\ UNCHANGED <<kernel, iocp>>
     \/ ~m_blive[s] /\ pc[t] = "recvPending" /\ CancelRecv(s)
     \/ ~m_blive[s] /\ pc[t] = "sendPending" /\ CancelSend(s)
  /\ Goto(t, "dec")
  /\ UNCHANGED <<session, pool, conn, local, log>>

-----------------------------------------------------------------------------
(* SendComplete *)

\* What was sent goes to OnSend and back to the pool; then the queue is looked at.
SendComplete(w) ==
  LET s == ses[w] IN
  /\ pc[w] = "SendComplete"
  /\ done' = done \o m_sendOverlapped[s]
  /\ m_sendOverlapped' = [m_sendOverlapped EXCEPT ![s] = <<>>]
  /\ Goto(w, IF m_sendBuffer[s] = <<>> THEN "flagOff" ELSE "Pop")
  /\ UNCHANGED <<m_SeqID, m_ioCount, m_blive, m_flag, m_sendBuffer, pool, io, local,
                 accepted, released, nMsgs, orphaned>>

\* CAS of m_flag from 1 to 0
FlagOff(w) ==
  LET s == ses[w] IN
  /\ pc[w] = "flagOff"
  /\ m_flag' = [m_flag EXCEPT ![s] = FALSE]
  /\ Goto(w, IF m_flag[s] THEN "recheck" ELSE "dec")
  /\ UNCHANGED <<m_SeqID, m_ioCount, m_blive, m_sendBuffer, m_sendOverlapped, pool, io, local, log>>

\* Mutant: the queue is not looked at again.
NoRecheck(w) ==
  /\ pc[w] = "recheck"
  /\ Goto(w, "dec")
  /\ UNCHANGED <<session, pool, io, local, log>>

Recheck(w) ==
  /\ pc[w] = "recheck"
  /\ Goto(w, IF m_sendBuffer[ses[w]] = <<>> THEN "dec" ELSE "flagOn")
  /\ UNCHANGED <<session, pool, io, local, log>>

\* Mutant: a send completion is posted whoever has the flag.
PostAlways(s) ==
  /\ m_flag' = [m_flag EXCEPT ![s] = TRUE]
  /\ Add(s, 1)
  /\ Posted(s, "send")

\* CAS of m_flag from 0 to 1; the winner posts a send completion.
PostSend(s) ==
  IF m_flag[s] THEN UNCHANGED <<m_flag, m_ioCount, iocp>>
  ELSE /\ m_flag' = [m_flag EXCEPT ![s] = TRUE]
       /\ Add(s, 1)
       /\ Posted(s, "send")

FlagOn(w) ==
  /\ pc[w] = "flagOn"
  /\ PostSend(ses[w])
  /\ Goto(w, "dec")
  /\ UNCHANGED <<m_SeqID, m_blive, m_sendBuffer, m_sendOverlapped, pool, kernel, conn, local, log>>

PopSend(w) ==
  LET s == ses[w]
      n == IF Len(m_sendBuffer[s]) < SENDWSABUF_MAX THEN Len(m_sendBuffer[s]) ELSE SENDWSABUF_MAX
  IN
  /\ pc[w] = "Pop"
  /\ m_sendOverlapped' = [m_sendOverlapped EXCEPT ![s] = SubSeq(m_sendBuffer[s], 1, n)]
  /\ m_sendBuffer' = [m_sendBuffer EXCEPT ![s] = SubSeq(@, n + 1, Len(@))]
  /\ Goto(w, "sendLive")
  /\ UNCHANGED <<m_SeqID, m_ioCount, m_blive, m_flag, pool, io, local, log>>

SendLive(w) ==
  /\ pc[w] = "sendLive"
  /\ Goto(w, IF m_blive[ses[w]] THEN "WSASend" ELSE "dec")
  /\ UNCHANGED <<session, pool, io, local, log>>

WSASend(w) == pc[w] = "WSASend" /\ WSACall(w, "send")

-----------------------------------------------------------------------------
(* ReleaseComplete *)

OnRelease(w) ==
  LET s == ses[w] IN
  /\ pc[w] = "ReleaseComplete"
  /\ released' = released \cup {<<s, m_SeqID[s]>>}
  /\ m_sendBuffer' = [m_sendBuffer EXCEPT ![s] = <<>>]           \* clsSession::Release
  /\ m_sendOverlapped' = [m_sendOverlapped EXCEPT ![s] = <<>>]
  /\ conn' = [conn EXCEPT ![s] = "none"]                         \* closesocket
  /\ Goto(w, "Push")
  /\ UNCHANGED <<m_SeqID, m_ioCount, m_blive, m_flag, pool, kernel, iocp, local, accepted,
                 done, nMsgs, orphaned>>

PushIdx(w) ==
  /\ pc[w] = "Push"
  /\ m_SessionIdxStack' = <<ses[w]>> \o m_SessionIdxStack
  /\ Goto(w, "GQCS")
  /\ UNCHANGED <<session, session_id, io, local, log>>

-----------------------------------------------------------------------------
(* SendPacket: Unicast.  BroadCast does the same for each id of its list. *)

\* A thread of the application calls op with an id OnAccept gave out, maybe long ago.
Call(t, who, op) ==
  /\ pc[t] = "idle"
  /\ who \in accepted
  /\ op = "SendPacket" => nMsgs < MaxMsgs
  /\ ses' = [ses EXCEPT ![t] = who[1]]
  /\ id' = [id EXCEPT ![t] = who[2]]
  /\ call' = [call EXCEPT ![t] = op]
  /\ Goto(t, IF op = "SendPacket" THEN "SessionLock" ELSE "Disconnect")
  /\ nMsgs' = IF op = "SendPacket" THEN nMsgs + 1 ELSE nMsgs
  /\ UNCHANGED <<session, pool, io, accepted, released, done, orphaned>>

\* Bound: a released session collects no more calls.
Room(s) == ReleaseBit(m_ioCount[s]) => m_ioCount[s] < MaxIoCount

\* Mutant: the id is not compared.
LockAnyID(t) ==
  LET s == ses[t] IN
  /\ pc[t] = "SessionLock"
  /\ Room(s)
  /\ Add(s, 1)
  /\ Goto(t, IF ReleaseBit(m_ioCount[s]) THEN "idle"
              ELSE IF m_ioCount[s] = 0 THEN "lockUndo" ELSE "push")
  /\ UNCHANGED <<m_SeqID, m_blive, m_flag, m_sendBuffer, m_sendOverlapped, pool, io, local, log>>

\* The count is raised, and holds the session from then on.
SessionLock(t) ==
  LET s == ses[t] IN
  /\ pc[t] = "SessionLock"
  /\ Room(s)
  /\ Add(s, 1)
  /\ Goto(t, IF ReleaseBit(m_ioCount[s]) THEN "idle"
              ELSE IF m_SeqID[s] # id[t] \/ m_ioCount[s] = 0 THEN "lockUndo" ELSE "push")
  /\ UNCHANGED <<m_SeqID, m_blive, m_flag, m_sendBuffer, m_sendOverlapped, pool, io, local, log>>

LockUndo(t) ==
  /\ pc[t] = "lockUndo"
  /\ Add(ses[t], -1)
  /\ Goto(t, "CAS")
  /\ UNCHANGED <<m_SeqID, m_blive, m_flag, m_sendBuffer, m_sendOverlapped, pool, io, local, log>>

\* m_size counts the message.  Its node may be linked behind one that is not in
\* the queue yet, so it is taken at any place among the messages queued.
PushSend(t) ==
  LET m == [own |-> <<ses[t], id[t]>>, n |-> nMsgs] IN
  /\ pc[t] = "push"
  /\ \E i \in 1 .. Len(m_sendBuffer[ses[t]]) + 1 :
       m_sendBuffer' = [m_sendBuffer EXCEPT ![ses[t]] = SeqExt!InsertAt(@, i, m)]
  /\ Goto(t, "post")
  /\ UNCHANGED <<m_SeqID, m_ioCount, m_blive, m_flag, m_sendOverlapped, pool, io, local, log>>

Post(t) ==
  /\ pc[t] = "post"
  /\ PostSend(ses[t])
  /\ Goto(t, "limit")
  /\ UNCHANGED <<m_SeqID, m_blive, m_sendBuffer, m_sendOverlapped, pool, kernel, conn, local, log>>

\* Mutant: a queue that reached the limit is let through.
LimitAbove(t) ==
  /\ pc[t] = "limit"
  /\ Goto(t, IF Len(m_sendBuffer[ses[t]]) > SendBufferLimit THEN "Disconnect" ELSE "SessionUnLock")
  /\ UNCHANGED <<session, pool, io, local, log>>

Limit(t) ==
  /\ pc[t] = "limit"
  /\ Goto(t, IF Len(m_sendBuffer[ses[t]]) >= SendBufferLimit THEN "Disconnect" ELSE "SessionUnLock")
  /\ UNCHANGED <<session, pool, io, local, log>>

SessionUnLock(t) ==
  /\ pc[t] = "SessionUnLock"
  /\ Add(ses[t], -1)
  /\ Goto(t, "CAS")
  /\ UNCHANGED <<m_SeqID, m_blive, m_flag, m_sendBuffer, m_sendOverlapped, pool, io, local, log>>

-----------------------------------------------------------------------------
(* Disconnect, called by a worker, by the application, or by SendPacket *)

Return(t) ==
  CASE t \in Workers                               -> "dec"
    [] t \in Contents /\ call[t] = "SendPacket"    -> "SessionUnLock"
    [] OTHER                                       -> "idle"

Disconnect(t) ==
  LET s == ses[t] IN
  /\ pc[t] = "Disconnect"
  /\ Room(s)
  /\ Add(s, 1)
  /\ Goto(t, IF ReleaseBit(m_ioCount[s]) THEN Return(t)
              ELSE IF m_SeqID[s] # id[t] THEN "discMis" ELSE "discLive")
  /\ UNCHANGED <<m_SeqID, m_blive, m_flag, m_sendBuffer, m_sendOverlapped, pool, io, local, log>>

\* The reference of another session is given back, whatever is left of the count.
DisconnectMismatch(t) ==
  LET s == ses[t] IN
  /\ pc[t] = "discMis"
  /\ Add(s, -1)
  /\ orphaned' = IF m_ioCount[s] = 1 THEN orphaned \cup {s} ELSE orphaned
  /\ Goto(t, Return(t))
  /\ UNCHANGED <<m_SeqID, m_blive, m_flag, m_sendBuffer, m_sendOverlapped, pool, io, local,
                 accepted, released, done, nMsgs>>

DisconnectLive(t) ==
  /\ pc[t] = "discLive"
  /\ m_blive' = [m_blive EXCEPT ![ses[t]] = FALSE]
  /\ Goto(t, "discCancel")
  /\ UNCHANGED <<m_SeqID, m_ioCount, m_flag, m_sendBuffer, m_sendOverlapped, pool, io, local, log>>

DisconnectCancel(t) ==
  /\ pc[t] = "discCancel"
  /\ CancelBoth(ses[t])
  /\ Goto(t, "discDec")
  /\ UNCHANGED <<session, pool, conn, local, log>>

\* Mutant: the last reference is given back without a look at the count.
DisconnectReturns(t) ==
  /\ pc[t] = "discDec"
  /\ Add(ses[t], -1)
  /\ Goto(t, Return(t))
  /\ UNCHANGED <<m_SeqID, m_blive, m_flag, m_sendBuffer, m_sendOverlapped, pool, io, local, log>>

DisconnectDec(t) ==
  /\ pc[t] = "discDec"
  /\ Add(ses[t], -1)
  /\ Goto(t, "discCAS")
  /\ UNCHANGED <<m_SeqID, m_blive, m_flag, m_sendBuffer, m_sendOverlapped, pool, io, local, log>>

DisconnectCAS(t) ==
  /\ pc[t] = "discCAS"
  /\ TryRelease(ses[t])
  /\ Goto(t, Return(t))
  /\ UNCHANGED <<m_SeqID, m_blive, m_flag, m_sendBuffer, m_sendOverlapped, pool, kernel, conn,
                 local, log>>

-----------------------------------------------------------------------------
(* The system and the clients *)

\* A pending operation completes: c is "fin" for a receive of no bytes.
Complete(s, k, c) ==
  /\ kernel[s][k] > 0
  /\ kernel' = [kernel EXCEPT ![s][k] = @ - 1]
  /\ Posted(s, c)
  /\ UNCHANGED <<session, pool, conn, pc, local, log>>

Received(s) == conn[s] = "up" /\ Complete(s, "recv", "recv")
ReceiveEnds(s) == Complete(s, "recv", "fin")
Sent(s) == Complete(s, "send", "send")

Reset(s) ==
  /\ conn[s] = "up"
  /\ conn' = [conn EXCEPT ![s] = "reset"]
  /\ UNCHANGED <<session, pool, kernel, iocp, pc, local, log>>

-----------------------------------------------------------------------------
\* After Start: every slot is on the stack and no client has come.
Init ==
  /\ m_SeqID    = [s \in Slots |-> 0]
  /\ m_ioCount  = [s \in Slots |-> 0]
  /\ m_blive    = [s \in Slots |-> FALSE]
  /\ m_flag     = [s \in Slots |-> FALSE]
  /\ m_sendBuffer     = [s \in Slots |-> <<>>]
  /\ m_sendOverlapped = [s \in Slots |-> <<>>]
  /\ m_SessionIdxStack = [i \in 1 .. MaxSessions |-> MaxSessions - i]
  /\ session_id = 0
  /\ kernel     = [s \in Slots |-> [k \in Ops |-> 0]]
  /\ iocp       = [s \in Slots |-> [c \in Completions |-> 0]]
  /\ conn       = [s \in Slots |-> "none"]
  /\ pc         = [t \in Threads |-> Home(t)]
  /\ ses        = [t \in Threads |-> CHOOSE s \in Slots : TRUE]
  /\ id         = [t \in Threads |-> 0]
  /\ call       = [t \in Threads |-> "Disconnect"]
  /\ accepted = {} /\ released = {}
  /\ done = <<>>
  /\ nMsgs = 0
  /\ orphaned = {}

AcceptStep(t) == AcceptSession(t) \/ AcceptCount(t) \/ NoPort(t) \/ OnAccept(t)

WorkerStep(w) ==
  \/ Fin(w) \/ RecvComplete(w)
  \/ SendComplete(w) \/ FlagOff(w) \/ Recheck(w) \/ FlagOn(w)
  \/ PopSend(w) \/ SendLive(w) \/ WSASend(w)
  \/ OnRelease(w) \/ PushIdx(w)

\* What the accept thread and the workers share, and what all threads do.
IoStep(t) ==
  \/ RecvPacket(t) \/ WSARecv(t) \/ IoError(t) \/ IoPending(t) \/ Dec(t) \/ CAS(t)
  \/ Disconnect(t) \/ DisconnectMismatch(t) \/ DisconnectLive(t) \/ DisconnectCancel(t)
  \/ DisconnectDec(t) \/ DisconnectCAS(t)

SendStep(t) ==
  \/ SessionLock(t) \/ LockUndo(t) \/ PushSend(t) \/ Post(t) \/ Limit(t) \/ SessionUnLock(t)

KernelStep(s) == Received(s) \/ ReceiveEnds(s) \/ Sent(s) \/ Reset(s)

Next ==
  \/ AcceptStep(Acceptor)
  \/ \E w \in Workers : \/ WorkerStep(w)
                        \/ \E s \in Slots, c \in Completions : TakeCompletion(w, s, c)
  \/ \E t \in Threads : IoStep(t)
  \/ \E t \in Contents : \/ SendStep(t)
                         \/ \E who \in accepted, op \in Calls : Call(t, who, op)
  \/ \E s \in Slots : KernelStep(s)

Spec == Init /\ [][Next]_vars

-----------------------------------------------------------------------------
(* Who refers to a session. *)

SendLabels == {"SendComplete", "flagOff", "Pop", "sendLive", "WSASend"}
RecvLabels == {"RecvComplete", "fin", "RecvPacket", "WSARecv"}
LockLabels == {"lockUndo", "push", "post", "limit", "SessionUnLock"}

\* Disconnect has a reference of its own at the first, its caller at all of them.
DiscLabels == {"discMis", "discLive", "discCancel", "discDec"}
CallLabels == DiscLabels \cup {"Disconnect", "discCAS"}

WorkLabels == SendLabels \cup RecvLabels \cup CallLabels \cup
  {"recheck", "flagOn", "recvPending", "sendPending", "recvError", "sendError", "dec"}

Labels == WorkLabels \cup LockLabels \cup
  {"GQCS", "accept", "idle", "accCount", "OnAccept", "CAS", "ReleaseComplete", "Push",
   "SessionLock"}

At(T, L, s) == {t \in T : ses[t] = s /\ pc[t] \in L}
Count(T, L, s) == Cardinality(At(T, L, s))

\* References of session s that somebody will give back; one that lost its
\* connection before it had a port keeps one.
Refs(s) ==
  kernel[s].recv + kernel[s].send + iocp[s].recv + iocp[s].fin + iocp[s].send
  + Count(Workers \cup {Acceptor}, WorkLabels \cup {"OnAccept"}, s)
  + Count(Threads, {"recvError", "sendError"} \cup DiscLabels \cup LockLabels, s)
  + Cardinality({t \in At(Contents, CallLabels, s) : call[t] = "SendPacket"})
  + (IF conn[s] = "lost" THEN 1 ELSE 0)

\* Ways in which slot s is out of use: free, being opened or being released.
Closed(s) ==
  Cardinality({i \in DOMAIN m_SessionIdxStack : m_SessionIdxStack[i] = s})
  + iocp[s].release
  + Count(Threads, {"accCount", "ReleaseComplete", "Push"}, s)

Open(s) == Closed(s) = 0

-----------------------------------------------------------------------------
TypeOK ==
  /\ {m_SeqID, m_ioCount} \subseteq [Slots -> Nat]
  /\ {m_blive, m_flag} \subseteq [Slots -> BOOLEAN]
  /\ {m_sendBuffer, m_sendOverlapped} \subseteq [Slots -> Seq(Message)]
  /\ m_SessionIdxStack \in Seq(Slots)
  /\ session_id \in Nat
  /\ kernel \in [Slots -> [Ops -> Nat]]
  /\ iocp \in [Slots -> [Completions -> Nat]]
  /\ conn \in [Slots -> {"none", "up", "reset", "lost"}]
  /\ pc \in [Threads -> Labels]
  /\ ses \in [Threads -> Slots]
  /\ id \in [Threads -> Nat]
  /\ call \in [Threads -> Calls]
  /\ accepted \cup released \subseteq Slots \X Nat
  /\ done \in Seq(Message)
  /\ nMsgs \in Nat
  /\ orphaned \subseteq Slots

\* A slot is on the stack, being opened, being released, or open, and never in
\* two of these places.  The count of an open session is the number of operations,
\* completions and threads that refer to it; nothing refers to a closed one, however
\* many calls with old ids were made (SessionLock, Disconnect).
RefCount ==
  \A s \in Slots :
    \/ Closed(s) = 0 /\ m_ioCount[s] = Refs(s)
    \/ Closed(s) = 1 /\ Refs(s) = 0

\* A count that reached zero is still going to be looked at.
ZeroIsLookedAt(s) ==
  Open(s) /\ m_ioCount[s] = 0 => Count(Threads, {"CAS", "discCAS"}, s) > 0

\* Whoever gives back the last reference of a session tries to release it
\* (DecrementIoCountAndMaybeDeleteSession, SessionLock, SessionUnLock and the end
\* of Disconnect), except for a Disconnect with the id of another session.
ZeroIsSeen == \A s \in Slots \ orphaned : ZeroIsLookedAt(s)

\* A session has at most one receive, and one send while m_flag is set:
\* m_recvOverlapped and m_sendOverlapped are not used by two operations.
SingleIO ==
  \A s \in Slots :
    /\ kernel[s].recv + iocp[s].recv + iocp[s].fin
         + Count(Threads, RecvLabels \cup {"recvError"}, s) <= 1
    /\ kernel[s].send + iocp[s].send + Count(Workers, SendLabels \cup {"sendError"}, s)
         <= IF m_flag[s] THEN 1 ELSE 0

\* While a session is live its queued messages have somebody to send them: a send
\* is under way, or a thread is about to look at the flag (Unicast, SendComplete).
NoLostWakeup ==
  \A s \in Slots :
    Open(s) /\ m_blive[s] /\ m_sendBuffer[s] # <<>> =>
      kernel[s].send + iocp[s].send
        + Count(Threads, SendLabels \cup {"post", "recheck", "flagOn", "sendError"}, s) > 0

\* A session whose queue is as long as SendBufferLimit is disconnected, or somebody
\* is on the way to do it (Unicast).
QueueLimited ==
  \A s \in Slots :
    Open(s) /\ Len(m_sendBuffer[s]) >= SendBufferLimit =>
      \/ ~m_blive[s]
      \/ Count(Contents, {"post", "limit", "Disconnect", "discLive"}, s) > 0

\* The comment of Disconnect says that no IO count becomes 0 in it, as it is called
\* by worker threads; then no session would be left with a count of zero that
\* nobody looks at.
ZeroIsReleased == \A s \in Slots : ZeroIsLookedAt(s)

\* An id is given to OnAccept before it is given to OnRelease, but for sessions
\* that have no port.
Served(s) == <<s, m_SeqID[s]>> \in accepted \ released

Service == INSTANCE SessionService WITH
  Seqs     <- 0 .. MaxAccepts,
  Messages <- [own : Slots \X (0 .. MaxAccepts), n : 1 .. MaxMsgs],
  InOrder  <- FALSE,
  current  <- [s \in Slots |-> IF Served(s) THEN m_SeqID[s] ELSE -1],
  pending  <- [s \in Slots |-> IF Served(s) THEN m_sendOverlapped[s] \o m_sendBuffer[s]
                                            ELSE <<>>]

\* CLanServer promises its application what NetworkLib does, but for the order of
\* the messages: each one posted to an open session is given to OnSend at most
\* once, and only while that session lives (Unicast, SendComplete, ReleaseSession).
ServiceSpec == Service!Spec
=============================================================================
