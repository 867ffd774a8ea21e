----------------------------- MODULE NetworkLib -----------------------------
(***************************************************************************)
(* The session life cycle of the IOCP network library: sessions living in  *)
(* a fixed array of slots, the reference count mIOcnt that decides when a  *)
(* session is released and its slot accepts again, and the lock-free send  *)
(* path guarded by mSendFlag.                                              *)
(*                                                                         *)
(* Threads are the worker threads, which take completions from the I/O     *)
(* completion port, and the application's contents threads, which call     *)
(* sendPost and disconnectSession with session ids they were given by      *)
(* onAccept.  A step is one interlocked operation, one read of shared      *)
(* state or one system call, with the thread-local code around it.  The    *)
(* received bytes are abstracted: what the ring buffer holds only matters  *)
(* here as "full", "bad header" or neither.                                *)
(***************************************************************************)
EXTENDS Integers, Sequences, FiniteSets

CONSTANTS
  Workers,                       \* worker threads (CONFIG_WORKER_THREAD_CNT)
  Contents,                      \* application threads that call the library
  CONFIG_SESSION_MAX,            \* number of session slots
  CONFIG_SEND_MESSAGE_MAXCOUNT,  \* messages of one WSASend
  RELEASE_IOCOUNT,               \* the release bit of mIOcnt, 1 << 14: a
                                 \* short ends at 2 * RELEASE_IOCOUNT - 1
  RereadsQSize,                  \* the build reads mSenqQSize twice
  MaxSeq,                        \* bound: sequence number of a connection
  MaxMsgs,                       \* bound: messages enqueued
  MaxIOcnt                       \* bound: mIOcnt when sessionLock increments

Slots   == 0 .. (CONFIG_SESSION_MAX - 1)
Threads == Workers \cup Contents

ASSUME NetworkLibAssumption ==
  /\ IsFiniteSet(Workers) /\ IsFiniteSet(Contents)
  /\ Workers \cap Contents = {}
  /\ CONFIG_SESSION_MAX \in Nat \ {0}
  /\ CONFIG_SEND_MESSAGE_MAXCOUNT \in Nat \ {0}
  /\ RELEASE_IOCOUNT \in Nat \ {0}
  /\ RereadsQSize \in BOOLEAN
  /\ MaxSeq \in Nat /\ MaxMsgs \in Nat /\ MaxIOcnt \in Nat
  /\ MaxMsgs < 6 * RELEASE_IOCOUNT   \* mSenqQSize wraps at most once

VARIABLES
  mSessionID,        \* [Slots -> Nat]: the Seq half; the Idx half is the slot
  mIOcnt,            \* the short reference count with its release bit
  mLive,
  mSendFlag,
  mSendQ,            \* queued messages; see QSize for mSenqQSize
  mSendOv,           \* mSendMsgs[0 .. mMsgCnt - 1]
  mStackSessionIdx,  \* free slots, the top first
  mSeqID,
  kernel,            \* overlapped operations the system still holds
  iocp,              \* completions queued at mHcp
  conn,              \* the connection behind mSock
  pc, ses, tgt, op, cnt,     \* thread-local: position, session, requested id,
                             \* call in progress, msgCnt
  accepted, released,        \* session ids onAccept and onRelease were given
  done,                      \* messages onSend was given, in order
  nMsgs                      \* messages enqueued so far

session == <<mSessionID, mIOcnt, mLive, mSendFlag, mSendQ, mSendOv>>
pool    == <<mStackSessionIdx, mSeqID>>
io      == <<kernel, iocp, conn>>
local   == <<ses, tgt, op, cnt>>
log     == <<accepted, released, done, nMsgs>>
vars    == <<session, pool, io, pc, local, log>>

Ops         == {"accept", "recv", "send"}
Completions == {"accept", "recv", "fin", "send", "release"}
Message     == [own : Slots \X Nat, n : Nat]

Goto(t, label) == pc' = [pc EXCEPT ![t] = label]

-----------------------------------------------------------------------------
(* The 16-bit counters mIOcnt and mSenqQSize. *)

Short(x) == IF x < 2 * RELEASE_IOCOUNT THEN x ELSE x - 4 * RELEASE_IOCOUNT
Inc16(x) == Short(x + 1)
Dec16(x) == IF x = -2 * RELEASE_IOCOUNT THEN 2 * RELEASE_IOCOUNT - 1 ELSE x - 1

\* (x & RELEASE_IOCOUNT) != 0 for a two's complement x of 16 bits
ReleaseBit(x) == \/ RELEASE_IOCOUNT <= x /\ x < 2 * RELEASE_IOCOUNT
                 \/ -RELEASE_IOCOUNT <= x /\ x < 0

\* mSenqQSize, the short that EnQueueMsg and DeQueueMsgOrNull keep
QSize(s) == Short(Len(mSendQ[s]))

SmallerOf(a, b) == IF a < b THEN a ELSE b

\* PostQueuedCompletionStatus of a completion of kind k
Queued(s, k) == iocp' = [iocp EXCEPT ![s][k] = @ + 1]

\* CancelIoEx of the operations ks of s: those the system holds complete
\* with transferred = 0
CancelIo(s, ks) ==
  /\ kernel' = [kernel EXCEPT ![s] = [k \in Ops |-> IF k \in ks THEN 0 ELSE @[k]]]
  /\ iocp' = [iocp EXCEPT
       ![s].fin  = @ + (IF "recv" \in ks THEN kernel[s].recv ELSE 0),
       ![s].send = @ + (IF "send" \in ks THEN kernel[s].send ELSE 0)]

\* Interlocked CAS of mIOcnt from 0 to RELEASE_IOCOUNT; the thread that wins
\* posts the release completion.
TryRelease(s) ==
  IF mIOcnt[s] = 0
    THEN /\ mIOcnt' = [mIOcnt EXCEPT ![s] = RELEASE_IOCOUNT]
         /\ Queued(s, "release")
    ELSE UNCHANGED <<mIOcnt, iocp>>

-----------------------------------------------------------------------------
(* Worker thread: GetQueuedCompletionStatus and the dispatch on the mode. *)

Entry(k) == CASE k = "accept"  -> "accLive"
              [] k = "recv"    -> "completeRecv"
              [] k = "fin"     -> "finLive"
              [] k = "send"    -> "completeSend"
              [] k = "release" -> "onRelease"

TakeCompletion(w, s, k) ==
  /\ pc[w] = "GQCS"
  /\ iocp[s][k] > 0
  /\ iocp' = [iocp EXCEPT ![s][k] = @ - 1]
  /\ ses' = [ses EXCEPT ![w] = s]
  /\ Goto(w, Entry(k))
  /\ UNCHANGED <<session, pool, kernel, conn, tgt, op, cnt, log>>

\* The client's FIN, or a receive that failed or was cancelled.
FinLive(w) ==
  /\ pc[w] = "finLive"
  /\ mLive' = [mLive EXCEPT ![ses[w]] = FALSE]
  /\ Goto(w, "finCancel")
  /\ UNCHANGED <<mSessionID, mIOcnt, mSendFlag, mSendQ, mSendOv, pool, io, local, log>>

FinCancel(w) ==
  /\ pc[w] = "finCancel"
  /\ CancelIo(ses[w], {"send"})
  /\ Goto(w, "dec")
  /\ UNCHANGED <<session, pool, conn, local, log>>

\* The end of the loop body: the completion gives up its reference.
WorkerDec(w) ==
  LET n == Dec16(mIOcnt[ses[w]]) IN
  /\ pc[w] = "dec"
  /\ mIOcnt' = [mIOcnt EXCEPT ![ses[w]] = n]
  /\ Goto(w, IF n = 0 THEN "decCAS" ELSE "GQCS")
  /\ UNCHANGED <<mSessionID, mLive, mSendFlag, mSendQ, mSendOv, pool, io, local, log>>

WorkerCAS(w) ==
  /\ pc[w] = "decCAS"
  /\ TryRelease(ses[w])
  /\ Goto(w, "GQCS")
  /\ UNCHANGED <<mSessionID, mLive, mSendFlag, mSendQ, mSendOv, pool,
                 kernel, conn, local, log>>

-----------------------------------------------------------------------------
(* completeAcceptEx *)

AcceptLive(w) ==
  /\ pc[w] = "accLive"
  /\ mLive' = [mLive EXCEPT ![ses[w]] = TRUE]
  /\ Goto(w, "accCount")
  /\ UNCHANGED <<mSessionID, mIOcnt, mSendFlag, mSendQ, mSendOv, pool, io, local, log>>

\* Mutant: the count left by the release is raised, not reset.
AcceptCountRaises(w) ==
  /\ pc[w] = "accCount"
  /\ mIOcnt' = [mIOcnt EXCEPT ![ses[w]] = Inc16(@)]
  /\ Goto(w, "onAccept")
  /\ UNCHANGED <<mSessionID, mLive, mSendFlag, mSendQ, mSendOv, pool, io, local, log>>

AcceptCount(w) ==
  /\ pc[w] = "accCount"
  /\ mIOcnt' = [mIOcnt EXCEPT ![ses[w]] = 1]
  /\ Goto(w, "onAccept")
  /\ UNCHANGED <<mSessionID, mLive, mSendFlag, mSendQ, mSendOv, pool, io, local, log>>

OnAccept(w) ==
  /\ pc[w] = "onAccept"
  /\ accepted' = accepted \cup {<<ses[w], mSessionID[ses[w]]>>}
  /\ Goto(w, "registerRecv")
  /\ UNCHANGED <<session, pool, io, local, released, done, nMsgs>>

-----------------------------------------------------------------------------
(* completeRecv and registerRecv *)

\* A call of disconnectSession(session.mSessionID) from a worker.
EnterDisconnect(w) ==
  /\ tgt' = [tgt EXCEPT ![w] = mSessionID[ses[w]]]
  /\ op' = [op EXCEPT ![w] = "disconnect"]
  /\ Goto(w, "lock")

\* The messages in the buffer go to onRecv; a header with Len <= 0 disconnects.
CompleteRecv(w) ==
  /\ pc[w] = "completeRecv"
  /\ \/ Goto(w, "registerRecv") /\ UNCHANGED <<tgt, op>>
     \/ EnterDisconnect(w)
  /\ UNCHANGED <<session, pool, io, ses, cnt, log>>

\* freeSize == 0 disconnects, otherwise mLive decides.
RegisterRecv(w) ==
  /\ pc[w] = "registerRecv"
  /\ \/ EnterDisconnect(w)
     \/ /\ Goto(w, IF mLive[ses[w]] THEN "WSARecv" ELSE "dec")
        /\ UNCHANGED <<tgt, op>>
  /\ UNCHANGED <<session, pool, io, ses, cnt, log>>

\* The overlapped call k of session s: the count is raised, then the call is
\* made.  It completes at once ("dec"), is pending, or fails because the
\* connection was reset; a failed call queues no completion.
WSACall(w, k) ==
  LET s == ses[w] IN
  /\ mIOcnt' = [mIOcnt EXCEPT ![s] = Inc16(@)]
  /\ \/ /\ kernel' = [kernel EXCEPT ![s][k] = @ + 1]
        /\ Goto(w, "ioPending")
        /\ UNCHANGED iocp
     \/ /\ conn[s] = "up"
        /\ Queued(s, k)
        /\ Goto(w, "dec")
        /\ UNCHANGED kernel
     \/ /\ conn[s] = "reset"
        /\ Goto(w, "ioError")
        /\ UNCHANGED <<kernel, iocp>>
  /\ UNCHANGED <<mSessionID, mLive, mSendFlag, mSendQ, mSendOv, pool, conn, local, log>>

WSARecv(w) == pc[w] = "WSARecv" /\ WSACall(w, "recv")

\* Mutant: a pending operation of a dead session is left alone.
IoPendingIgnored(w) ==
  /\ pc[w] = "ioPending"
  /\ Goto(w, "dec")
  /\ UNCHANGED <<session, pool, io, local, log>>

\* checkAndHandleIoError(WSA_IO_PENDING)
IoPending(w) ==
  /\ pc[w] = "ioPending"
  /\ IF mLive[ses[w]] THEN UNCHANGED <<kernel, iocp>>
                      ELSE CancelIo(ses[w], {"recv", "send"})
  /\ Goto(w, "dec")
  /\ UNCHANGED <<session, pool, conn, local, log>>

\* checkAndHandleIoError(WSAECONNRESET, WSAECONNABORTED, WSAENOTSOCK)
IoError(w) ==
  /\ pc[w] = "ioError"
  /\ mLive' = [mLive EXCEPT ![ses[w]] = FALSE]
  /\ mIOcnt' = [mIOcnt EXCEPT ![ses[w]] = Dec16(@)]
  /\ Goto(w, "dec")
  /\ UNCHANGED <<mSessionID, mSendFlag, mSendQ, mSendOv, pool, io, local, log>>

-----------------------------------------------------------------------------
(* completeSend and registerSend *)

\* Mutant: mMsgCnt keeps its value.
CompleteSendKeeps(w) ==
  /\ pc[w] = "completeSend"
  /\ done' = done \o mSendOv[ses[w]]
  /\ Goto(w, "registerSend")
  /\ UNCHANGED <<session, pool, io, local, accepted, released, nMsgs>>

CompleteSend(w) ==
  /\ pc[w] = "completeSend"
  /\ done' = done \o mSendOv[ses[w]]
  /\ mSendOv' = [mSendOv EXCEPT ![ses[w]] = <<>>]
  /\ Goto(w, "registerSend")
  /\ UNCHANGED <<mSessionID, mIOcnt, mLive, mSendFlag, mSendQ, pool, io, local,
                 accepted, released, nMsgs>>

\* MAX < mSenqQSize ? MAX : mSenqQSize, evaluated with one read or with two.
RegisterSend(w) ==
  LET n == QSize(ses[w]) IN
  /\ pc[w] = "registerSend"
  /\ IF RereadsQSize /\ n <= CONFIG_SEND_MESSAGE_MAXCOUNT
       THEN Goto(w, "rereadQSize") /\ UNCHANGED cnt
       ELSE /\ cnt' = [cnt EXCEPT ![w] = SmallerOf(n, CONFIG_SEND_MESSAGE_MAXCOUNT)]
            /\ Goto(w, IF n = 0 THEN "flagOff" ELSE "dequeue")
  /\ UNCHANGED <<session, pool, io, ses, tgt, op, log>>

RereadQSize(w) ==
  LET n == QSize(ses[w]) IN
  /\ pc[w] = "rereadQSize"
  /\ cnt' = [cnt EXCEPT ![w] = n]
  /\ Goto(w, IF n = 0 THEN "flagOff" ELSE "dequeue")
  /\ UNCHANGED <<session, pool, io, ses, tgt, op, log>>

\* Nothing to send: give the flag back ...
FlagOff(w) ==
  /\ pc[w] = "flagOff"
  /\ mSendFlag' = [mSendFlag EXCEPT ![ses[w]] = FALSE]
  /\ Goto(w, IF mSendFlag[ses[w]] THEN "recheck" ELSE "dec")
  /\ UNCHANGED <<mSessionID, mIOcnt, mLive, mSendQ, mSendOv, pool, io, local, log>>

\* Mutant: the queue is not looked at again.
NoRecheck(w) ==
  /\ pc[w] = "recheck"
  /\ Goto(w, "dec")
  /\ UNCHANGED <<session, pool, io, local, log>>

\* ... look again ...
Recheck(w) ==
  /\ pc[w] = "recheck"
  /\ Goto(w, IF QSize(ses[w]) = 0 THEN "dec" ELSE "flagOn")
  /\ UNCHANGED <<session, pool, io, local, log>>

\* Mutant: the flag is set without being tested.
PostAlways(s) ==
  /\ mSendFlag' = [mSendFlag EXCEPT ![s] = TRUE]
  /\ mIOcnt' = [mIOcnt EXCEPT ![s] = Inc16(@)]
  /\ Queued(s, "send")

\* The CAS of mSendFlag from 0 to 1; the winner raises the count and posts.
PostSend(s) ==
  IF mSendFlag[s]
    THEN UNCHANGED <<mSendFlag, mIOcnt, iocp>>
    ELSE /\ mSendFlag' = [mSendFlag EXCEPT ![s] = TRUE]
         /\ mIOcnt' = [mIOcnt EXCEPT ![s] = Inc16(@)]
         /\ Queued(s, "send")

\* ... and take it again for a message that came in between.
FlagOn(w) ==
  /\ pc[w] = "flagOn"
  /\ PostSend(ses[w])
  /\ Goto(w, "dec")
  /\ UNCHANGED <<mSessionID, mLive, mSendQ, mSendOv, pool, kernel, conn, local, log>>

\* msgCnt calls of DeQueueMsgOrNull; a negative msgCnt makes none
Dequeue(w) ==
  LET s == ses[w]
      n == IF cnt[w] < 0 THEN 0 ELSE SmallerOf(cnt[w], Len(mSendQ[s])) IN
  /\ pc[w] = "dequeue"
  /\ mSendOv' = [mSendOv EXCEPT ![s] = SubSeq(mSendQ[s], 1, n)]
  /\ mSendQ'  = [mSendQ  EXCEPT ![s] = SubSeq(@, n + 1, Len(@))]
  /\ Goto(w, "sendLive")
  /\ UNCHANGED <<mSessionID, mIOcnt, mLive, mSendFlag, pool, io, local, log>>

SendLive(w) ==
  /\ pc[w] = "sendLive"
  /\ Goto(w, IF mLive[ses[w]] THEN "WSASend" ELSE "dec")
  /\ UNCHANGED <<session, pool, io, local, log>>

\* A negative msgCnt fails with an error checkAndHandleIoError does not list:
\* RT_ASSERT(false) stops the thread here.
WSASend(w) == pc[w] = "WSASend" /\ cnt[w] > 0 /\ WSACall(w, "send")

-----------------------------------------------------------------------------
(* completeRelease, Session::ReleaseSession and registerAcceptEx *)

OnRelease(w) ==
  /\ pc[w] = "onRelease"
  /\ released' = released \cup {<<ses[w], mSessionID[ses[w]]>>}
  /\ Goto(w, "releaseSession")
  /\ UNCHANGED <<session, pool, io, local, accepted, done, nMsgs>>

\* Mutants: the count is reset here; the slot accepts before it is pushed.
ReleaseSessionResets(w) ==
  LET s == ses[w] IN
  /\ pc[w] = "releaseSession"
  /\ mIOcnt' = [mIOcnt EXCEPT ![s] = 0]
  /\ mSendQ' = [mSendQ EXCEPT ![s] = <<>>]
  /\ mSendOv' = [mSendOv EXCEPT ![s] = <<>>]
  /\ mSendFlag' = [mSendFlag EXCEPT ![s] = FALSE]
  /\ Goto(w, "pushIdx")
  /\ UNCHANGED <<mSessionID, mLive, pool, io, local, log>>

\* Mutant: the slot is taken for the next accept before it is pushed.
AcceptBeforePush(w) ==
  /\ pc[w] = "releaseSession"
  /\ Goto(w, "registerAcceptEx")
  /\ UNCHANGED <<session, pool, io, local, log>>

ReleaseSession(w) ==
  LET s == ses[w] IN
  /\ pc[w] = "releaseSession"
  /\ mSendQ'    = [mSendQ    EXCEPT ![s] = <<>>]
  /\ mSendOv'   = [mSendOv   EXCEPT ![s] = <<>>]
  /\ mSendFlag' = [mSendFlag EXCEPT ![s] = FALSE]
  /\ conn'      = [conn      EXCEPT ![s] = "none"]
  /\ Goto(w, "pushIdx")
  /\ UNCHANGED <<mSessionID, mIOcnt, mLive, pool, kernel, iocp, local, log>>

StackPush(s) == mStackSessionIdx' = <<s>> \o mStackSessionIdx

\* Mutant: the Seq half of the id is pushed for its Idx half.
PushSeq(w) ==
  /\ pc[w] = "pushIdx"
  /\ StackPush(mSessionID[ses[w]])
  /\ Goto(w, "registerAcceptEx")
  /\ UNCHANGED <<session, mSeqID, io, local, log>>

PushIdx(w) ==
  /\ pc[w] = "pushIdx"
  /\ StackPush(ses[w])
  /\ Goto(w, "registerAcceptEx")
  /\ UNCHANGED <<session, mSeqID, io, local, log>>

RegisterAcceptEx(w) ==
  /\ pc[w] = "registerAcceptEx"
  /\ IF mStackSessionIdx = <<>>
       THEN Goto(w, "GQCS") /\ UNCHANGED <<mStackSessionIdx, ses>>
       ELSE /\ mStackSessionIdx' = Tail(mStackSessionIdx)
            /\ ses' = [ses EXCEPT ![w] = Head(mStackSessionIdx)]
            /\ Goto(w, "acceptEx")
  /\ UNCHANGED <<session, mSeqID, io, tgt, op, cnt, log>>

\* The popped slot gets a new id and a new socket to accept on.  When AcceptEx
\* fails the slot goes back to the stack and nothing retries it.
AcceptEx(w) ==
  LET s == ses[w] IN
  /\ pc[w] = "acceptEx"
  /\ mSeqID' = mSeqID + 1
  /\ mSessionID' = [mSessionID EXCEPT ![s] = mSeqID + 1]
  /\ \/ /\ kernel' = [kernel EXCEPT ![s].accept = @ + 1]
        /\ UNCHANGED mStackSessionIdx
     \/ /\ StackPush(s)
        /\ UNCHANGED kernel
  /\ Goto(w, "GQCS")
  /\ UNCHANGED <<mIOcnt, mLive, mSendFlag, mSendQ, mSendOv, iocp, conn, local, log>>

-----------------------------------------------------------------------------
(* sessionLock, sessionUnLock and the two calls that use them.  A worker   *)
(* that called disconnectSession returns to the end of its loop body.      *)

Return(t) == Goto(t, IF t \in Workers THEN "dec" ELSE "idle")

\* Calls of sendPost that have not enqueued their message.
Sending == {t \in Contents : op[t] = "send" /\ pc[t] \in {"lock", "lockID", "enqueue"}}

\* The application calls sendPost or disconnectSession with an id it knows.
Call(t, id, o) ==
  /\ pc[t] = "idle"
  /\ o = "send" => nMsgs + Cardinality(Sending) < MaxMsgs
  /\ ses' = [ses EXCEPT ![t] = id[1]]
  /\ tgt' = [tgt EXCEPT ![t] = id[2]]
  /\ op'  = [op  EXCEPT ![t] = o]
  /\ Goto(t, "lock")
  /\ UNCHANGED <<session, pool, io, cnt, log>>

SessionLock(t) ==
  LET n == Inc16(mIOcnt[ses[t]]) IN
  /\ pc[t] = "lock"
  /\ mIOcnt[ses[t]] < MaxIOcnt
  /\ mIOcnt' = [mIOcnt EXCEPT ![ses[t]] = n]
  /\ IF ReleaseBit(n) THEN Return(t) ELSE Goto(t, "lockID")
  /\ UNCHANGED <<mSessionID, mLive, mSendFlag, mSendQ, mSendOv, pool, io, local, log>>

LockID(t) ==
  /\ pc[t] = "lockID"
  /\ Goto(t, IF mSessionID[ses[t]] # tgt[t] THEN "lockUndo"
             ELSE IF op[t] = "send" THEN "enqueue" ELSE "discLive")
  /\ UNCHANGED <<session, pool, io, local, log>>

LockUndo(t) ==
  /\ pc[t] = "lockUndo"
  /\ mIOcnt' = [mIOcnt EXCEPT ![ses[t]] = Dec16(@)]
  /\ Goto(t, "lockCAS")
  /\ UNCHANGED <<mSessionID, mLive, mSendFlag, mSendQ, mSendOv, pool, io, local, log>>

LockCAS(t) ==
  /\ pc[t] = "lockCAS"
  /\ TryRelease(ses[t])
  /\ Return(t)
  /\ UNCHANGED <<mSessionID, mLive, mSendFlag, mSendQ, mSendOv, pool,
                 kernel, conn, local, log>>

\* n numbers the messages of the whole run in the order they are enqueued.
EnQueueMsg(t) ==
  LET m == [own |-> <<ses[t], tgt[t]>>, n |-> nMsgs + 1] IN
  /\ pc[t] = "enqueue"
  /\ mSendQ' = [mSendQ EXCEPT ![ses[t]] = Append(@, m)]
  /\ nMsgs' = nMsgs + 1
  /\ Goto(t, "postSend")
  /\ UNCHANGED <<mSessionID, mIOcnt, mLive, mSendFlag, mSendOv, pool, io, local,
                 accepted, released, done>>

SendPost(t) ==
  /\ pc[t] = "postSend"
  /\ PostSend(ses[t])
  /\ Goto(t, "unlock")
  /\ UNCHANGED <<mSessionID, mLive, mSendQ, mSendOv, pool, kernel, conn, local, log>>

DisconnectLive(t) ==
  /\ pc[t] = "discLive"
  /\ mLive' = [mLive EXCEPT ![ses[t]] = FALSE]
  /\ Goto(t, "discCancel")
  /\ UNCHANGED <<mSessionID, mIOcnt, mSendFlag, mSendQ, mSendOv, pool, io, local, log>>

DisconnectCancel(t) ==
  /\ pc[t] = "discCancel"
  /\ CancelIo(ses[t], {"recv", "send"})
  /\ Goto(t, "unlock")
  /\ UNCHANGED <<session, pool, conn, local, log>>

\* Mutant: the last one out does not release the session.
UnLockReturns(t) ==
  /\ pc[t] = "unlock"
  /\ mIOcnt' = [mIOcnt EXCEPT ![ses[t]] = Dec16(@)]
  /\ Return(t)
  /\ UNCHANGED <<mSessionID, mLive, mSendFlag, mSendQ, mSendOv, pool, io, local, log>>

SessionUnLock(t) ==
  LET n == Dec16(mIOcnt[ses[t]]) IN
  /\ pc[t] = "unlock"
  /\ mIOcnt' = [mIOcnt EXCEPT ![ses[t]] = n]
  /\ IF n = 0 THEN Goto(t, "lockCAS") ELSE Return(t)
  /\ UNCHANGED <<mSessionID, mLive, mSendFlag, mSendQ, mSendOv, pool, io, local, log>>

-----------------------------------------------------------------------------
(* The system and the clients.  A connection that was reset completes what *)
(* it holds; a client need not send, read or close.                        *)

Complete(s, k, c) ==
  /\ kernel[s][k] > 0
  /\ kernel' = [kernel EXCEPT ![s][k] = @ - 1]
  /\ Queued(s, c)

\* A client connects (MaxSeq bounds the connections).
Connect(s) ==
  /\ mSessionID[s] <= MaxSeq
  /\ Complete(s, "accept", "accept")
  /\ conn' = [conn EXCEPT ![s] = "up"]
  /\ UNCHANGED <<session, pool, pc, local, log>>

Received(s) ==
  /\ conn[s] = "up"
  /\ Complete(s, "recv", "recv")
  /\ UNCHANGED <<session, pool, conn, pc, local, log>>

ReceiveEnds(s) ==
  /\ Complete(s, "recv", "fin")
  /\ UNCHANGED <<session, pool, conn, pc, local, log>>

Sent(s) ==
  /\ Complete(s, "send", "send")
  /\ UNCHANGED <<session, pool, conn, pc, local, log>>

Reset(s) ==
  /\ conn[s] = "up"
  /\ conn' = [conn EXCEPT ![s] = "reset"]
  /\ UNCHANGED <<session, pool, kernel, iocp, pc, local, log>>

-----------------------------------------------------------------------------
\* After the constructor, which pushes, pops and accepts on each slot in turn.
\* Its AcceptEx calls succeed here; a later one may fail.
Init ==
  /\ mSessionID = [s \in Slots |-> s]
  /\ mIOcnt     = [s \in Slots |-> 0]
  /\ mLive      = [s \in Slots |-> FALSE]
  /\ mSendFlag  = [s \in Slots |-> FALSE]
  /\ mSendQ     = [s \in Slots |-> <<>>]
  /\ mSendOv    = [s \in Slots |-> <<>>]
  /\ mStackSessionIdx = <<>>
  /\ mSeqID     = CONFIG_SESSION_MAX - 1
  /\ kernel     = [s \in Slots |-> [k \in Ops |-> IF k = "accept" THEN 1 ELSE 0]]
  /\ iocp       = [s \in Slots |-> [c \in Completions |-> 0]]
  /\ conn       = [s \in Slots |-> "none"]
  /\ pc         = [t \in Threads |-> IF t \in Workers THEN "GQCS" ELSE "idle"]
  /\ ses        = [t \in Threads |-> 0]
  /\ tgt        = [t \in Threads |-> 0]
  /\ op         = [t \in Threads |-> "send"]
  /\ cnt        = [t \in Threads |-> 0]
  /\ accepted   = {}
  /\ released   = {}
  /\ done       = <<>>
  /\ nMsgs      = 0

\* What a thread does once it has something to do.
LockStep(t) ==
  \/ SessionLock(t) \/ LockID(t) \/ LockUndo(t) \/ LockCAS(t) \/ SessionUnLock(t)
  \/ EnQueueMsg(t) \/ SendPost(t) \/ DisconnectLive(t) \/ DisconnectCancel(t)

WorkerStep(w) ==
  \/ FinLive(w) \/ FinCancel(w) \/ WorkerDec(w) \/ WorkerCAS(w)
  \/ AcceptLive(w) \/ AcceptCount(w) \/ OnAccept(w)
  \/ CompleteRecv(w) \/ RegisterRecv(w) \/ WSARecv(w) \/ IoPending(w) \/ IoError(w)
  \/ CompleteSend(w) \/ RegisterSend(w) \/ RereadQSize(w) \/ FlagOff(w) \/ Recheck(w)
  \/ FlagOn(w) \/ Dequeue(w) \/ SendLive(w) \/ WSASend(w)
  \/ OnRelease(w) \/ ReleaseSession(w) \/ PushIdx(w) \/ RegisterAcceptEx(w) \/ AcceptEx(w)

KernelStep(s) == Connect(s) \/ Received(s) \/ ReceiveEnds(s) \/ Sent(s) \/ Reset(s)

Next ==
  \/ \E w \in Workers : \/ WorkerStep(w)
                        \/ \E s \in Slots, c \in Completions : TakeCompletion(w, s, c)
  \/ \E t \in Threads : LockStep(t)
  \/ \E t \in Contents, id \in accepted, o \in {"send", "disconnect"} : Call(t, id, o)
  \/ \E s \in Slots : KernelStep(s)

Spec == Init /\ [][Next]_vars

\* The scheduler runs every thread; the port hands out completions in the order
\* they were queued, so none is passed over for ever; and the system completes
\* the operations of a connection that was reset.
Fairness ==
  /\ \A w \in Workers : WF_vars(WorkerStep(w))
  /\ \A t \in Threads : WF_vars(LockStep(t))
  /\ \A s \in Slots, c \in Completions :
       SF_vars(\E w \in Workers : TakeCompletion(w, s, c))
  /\ \A s \in Slots : /\ WF_vars(conn[s] = "reset" /\ ReceiveEnds(s))
                      /\ WF_vars(conn[s] = "reset" /\ Sent(s))

FairSpec == Spec /\ Fairness

-----------------------------------------------------------------------------
(* Who refers to a session. *)

Labels == {"GQCS", "idle", "lock", "lockID", "lockUndo", "lockCAS", "unlock",
           "enqueue", "postSend", "discLive", "discCancel",
           "finLive", "finCancel", "dec", "decCAS",
           "accLive", "accCount", "onAccept",
           "completeRecv", "registerRecv", "WSARecv", "ioPending", "ioError",
           "completeSend", "registerSend", "rereadQSize", "flagOff", "recheck",
           "flagOn", "dequeue", "sendLive", "WSASend",
           "onRelease", "releaseSession", "pushIdx", "registerAcceptEx", "acceptEx"}

\* Threads inside sessionLock .. sessionUnLock hold a reference of their own.
LockLabels == {"lockID", "lockUndo", "unlock", "enqueue", "postSend",
               "discLive", "discCancel"}

\* Workers handling a completion hold the reference it came with, also while
\* they call disconnectSession.
WorkLabels == LockLabels \cup
  {"lock", "lockCAS", "finLive", "finCancel", "dec", "onAccept", "completeRecv",
   "registerRecv", "WSARecv", "ioPending", "ioError", "completeSend", "registerSend",
   "rereadQSize", "flagOff", "recheck", "flagOn", "dequeue", "sendLive", "WSASend"}

SendLabels == {"completeSend", "registerSend", "rereadQSize", "flagOff", "dequeue",
               "sendLive", "WSASend"}

ClosedLabels == {"accLive", "accCount", "onRelease", "releaseSession", "pushIdx", "acceptEx"}

At(T, L, s) == {t \in T : ses[t] = s /\ pc[t] \in L}
Count(T, L, s) == Cardinality(At(T, L, s))

\* References of session s that somebody will give back.
Refs(s) == kernel[s].recv + kernel[s].send + iocp[s].recv + iocp[s].fin + iocp[s].send
           + Count(Workers, WorkLabels, s) + Count(Threads, LockLabels, s)
           + Count(Workers, {"ioError"}, s)

\* Ways in which slot s is out of use: free, accepting or being released.
OnStack(s) == IF \E i \in DOMAIN mStackSessionIdx : mStackSessionIdx[i] = s THEN 1 ELSE 0
Closed(s) == OnStack(s) + kernel[s].accept + iocp[s].accept + iocp[s].release
             + Count(Workers, ClosedLabels, s)

Id(s) == <<s, mSessionID[s]>>

-----------------------------------------------------------------------------
TypeOK ==
  /\ mSessionID \in [Slots -> Nat]
  /\ mIOcnt \in [Slots -> -2 * RELEASE_IOCOUNT .. 2 * RELEASE_IOCOUNT - 1]
  /\ mLive \in [Slots -> BOOLEAN]
  /\ mSendFlag \in [Slots -> BOOLEAN]
  /\ mSendQ \in [Slots -> Seq(Message)]
  /\ mSendOv \in [Slots -> Seq(Message)]
  /\ mStackSessionIdx \in Seq(Slots)
  /\ mSeqID \in Nat
  /\ kernel \in [Slots -> [Ops -> Nat]]
  /\ iocp \in [Slots -> [Completions -> Nat]]
  /\ conn \in [Slots -> {"none", "up", "reset"}]
  /\ pc \in [Threads -> Labels]
  /\ ses \in [Threads -> Slots]
  /\ tgt \in [Threads -> Nat]
  /\ op \in [Threads -> {"send", "disconnect"}]
  /\ cnt \in [Threads -> Int]
  /\ accepted \subseteq Slots \X Nat
  /\ released \subseteq Slots \X Nat
  /\ done \in Seq(Message)
  /\ nMsgs \in Nat

\* A slot is in one place: on the stack, waiting for a client, being opened,
\* being released, or open.  mIOcnt of an open session is the number of
\* references to it; no operation, completion or thread refers to a session
\* that is not open (completeRelease, registerAcceptEx).
RefCount ==
  /\ \A s \in Slots :
       \/ Closed(s) = 0 /\ mIOcnt[s] = Refs(s)
       \/ Closed(s) = 1 /\ Refs(s) = 0
  /\ \A i, j \in DOMAIN mStackSessionIdx :
       mStackSessionIdx[i] = mStackSessionIdx[j] => i = j

\* A count that reached zero is still going to be looked at: some thread is
\* about to try the CAS that releases the session (workerThread, sessionLock,
\* sessionUnLock).
ZeroIsSeen ==
  \A s \in Slots :
    Closed(s) = 0 /\ mIOcnt[s] = 0 =>
      Count(Workers, {"decCAS"}, s) + Count(Contents, {"lockCAS"}, s) > 0

\* At most one receive of a session is outstanding or being handled, and at
\* most one send, and none without mSendFlag: mRecvBuffer and mSendOv have one
\* user (README.md: the CAS on the send flag admits a single sender).
SingleIO ==
  \A s \in Slots :
    /\ kernel[s].recv + iocp[s].recv + iocp[s].fin
       + Count(Workers, {"completeRecv", "registerRecv", "WSARecv"}, s) <= 1
    /\ kernel[s].send + iocp[s].send + Count(Workers, SendLabels, s)
       <= IF mSendFlag[s] THEN 1 ELSE 0

\* A message is never left in the queue of a live session with the flag off and
\* nobody about to take the flag (registerSend gives the flag back, then looks
\* again; sendPost enqueues, then tries the flag).
NoLostWakeup ==
  \A s \in Slots :
    mSendQ[s] # <<>> /\ ~mSendFlag[s] =>
      Count(Threads, {"postSend", "recheck", "flagOn"}, s) > 0

\* registerSend dequeues what it counted: at least one message, or WSASend fails
\* with an error checkAndHandleIoError asserts never to see; at most the
\* CONFIG_SEND_MESSAGE_MAXCOUNT that mSendMsgs has room for; and no null
\* (RT_ASSERT(msg != nullptr)).
MsgCntInRange ==
  \A w \in Workers : pc[w] = "dequeue" =>
    1 <= cnt[w] /\ cnt[w] <= CONFIG_SEND_MESSAGE_MAXCOUNT /\ cnt[w] <= Len(mSendQ[ses[w]])

\* registerAcceptEx always finds a slot: its "session pool exhausted" return is
\* never taken.
SlotToAccept ==
  Cardinality({w \in Workers : pc[w] = "registerAcceptEx"}) <= Len(mStackSessionIdx)

\* Once the release bit is set only the next accept clears it: a call with a
\* stale id finds the session gone ("already disconnected" in sessionLock).
ReleaseBitHolds ==
  [][\A s \in Slots : ReleaseBit(mIOcnt[s]) /\ ~ReleaseBit(mIOcnt'[s]) =>
       \E w \in Workers : pc[w] = "accCount" /\ ses[w] = s]_vars

\* A session that is no longer live is released, its slot with it, whatever the
\* order in which the operations outstanding on it end.
DeadIsReleased ==
  \A s \in Slots : \A q \in 0 .. MaxSeq :
    (<<s, q>> \in accepted /\ mSessionID[s] = q /\ ~mLive[s]) ~> <<s, q>> \in released

\* A queued message does not stay queued, unless the client stops reading what
\* it is sent.
QueuedMoves ==
  \A s \in Slots : \A n \in 1 .. MaxMsgs :
    (\E i \in DOMAIN mSendQ[s] : mSendQ[s][i].n = n) ~>
      ((\A i \in DOMAIN mSendQ[s] : mSendQ[s][i].n # n) \/ kernel[s].send > 0)

-----------------------------------------------------------------------------
\* What the application sees of a session, as SessionService promises it.
Service == INSTANCE SessionService WITH
  Seqs     <- 0 .. MaxSeq,
  Messages <- [own : Slots \X (0 .. MaxSeq), n : 1 .. MaxMsgs],
  InOrder  <- TRUE,
  current  <- [s \in Slots |-> IF Id(s) \in accepted \ released THEN mSessionID[s] ELSE -1],
  pending  <- [s \in Slots |-> IF Id(s) \in accepted \ released
                                THEN mSendOv[s] \o mSendQ[s] ELSE <<>>]

\* The library implements the session service.
ServiceSpec == Service!Spec
=============================================================================

