-------------------------- MODULE NetworkLib_proofs --------------------------
(***************************************************************************)
(* Theorems about NetworkLib, for any number of workers, application       *)
(* threads and slots.                                                      *)
(***************************************************************************)
EXTENDS NetworkLib, FiniteSetTheorems, TLAPS

-----------------------------------------------------------------------------
(* Types *)

LEMMA Shorts ==
  ASSUME NEW x \in -2 * RELEASE_IOCOUNT .. 2 * RELEASE_IOCOUNT - 1
  PROVE  /\ Inc16(x) \in -2 * RELEASE_IOCOUNT .. 2 * RELEASE_IOCOUNT - 1
         /\ Dec16(x) \in -2 * RELEASE_IOCOUNT .. 2 * RELEASE_IOCOUNT - 1
BY NetworkLibAssumption DEF Inc16, Dec16, Short

LEMMA InitType == Init => TypeOK
BY NetworkLibAssumption DEF Init, TypeOK, Slots, Threads, Labels, Ops, Completions, Message

\* Counters of a slot's operations and completions.
LEMMA SlotCounters ==
  ASSUME NEW K, NEW f \in [Slots -> [K -> Nat]], NEW s \in Slots, NEW k \in K
  PROVE  /\ [f EXCEPT ![s][k] = @ + 1] \in [Slots -> [K -> Nat]]
         /\ f[s][k] > 0 => [f EXCEPT ![s][k] = @ - 1] \in [Slots -> [K -> Nat]]
<1>1. f[s] \in [K -> Nat] /\ f[s][k] \in Nat
  OBVIOUS
<1>2. [f[s] EXCEPT ![k] = @ + 1] \in [K -> Nat]
  BY <1>1
<1>3. f[s][k] > 0 => [f[s] EXCEPT ![k] = @ - 1] \in [K -> Nat]
  BY <1>1
<1> QED
  BY <1>2, <1>3

LEMMA QueuedType ==
  ASSUME TypeOK, NEW s \in Slots, NEW k \in Completions, Queued(s, k)
  PROVE  iocp' \in [Slots -> [Completions -> Nat]]
BY SlotCounters DEF TypeOK, Queued

LEMMA CancelType ==
  ASSUME TypeOK, NEW s \in Slots, NEW K, CancelIo(s, K)
  PROVE  /\ kernel' \in [Slots -> [Ops -> Nat]]
         /\ iocp' \in [Slots -> [Completions -> Nat]]
<1>1. kernel[s].recv \in Nat /\ kernel[s].send \in Nat /\ kernel[s] \in [Ops -> Nat]
      /\ iocp[s] \in [Completions -> Nat] /\ iocp[s].fin \in Nat /\ iocp[s].send \in Nat
  BY DEF TypeOK, Ops, Completions
<1>2. [k \in Ops |-> IF k \in K THEN 0 ELSE kernel[s][k]] \in [Ops -> Nat]
  BY <1>1
<1>3. kernel' \in [Slots -> [Ops -> Nat]]
  BY <1>2 DEF TypeOK, CancelIo
<1> DEFINE a == IF "recv" \in K THEN kernel[s].recv ELSE 0
           b == IF "send" \in K THEN kernel[s].send ELSE 0
           c == [iocp[s] EXCEPT !.fin = @ + a, !.send = @ + b]
<1>4. c \in [Completions -> Nat]
  <2>1. a \in Nat /\ b \in Nat
    BY <1>1
  <2>2. iocp[s].fin + a \in Nat /\ iocp[s].send + b \in Nat
    BY <1>1, <2>1
  <2>3. "fin" \in Completions /\ "send" \in Completions
    BY DEF Completions
  <2> QED
    BY <1>1, <2>2, <2>3
<1>5. iocp' = [iocp EXCEPT ![s] = c]
  BY <1>1 DEF TypeOK, CancelIo, Completions
<1> QED
  BY <1>3, <1>4, <1>5 DEF TypeOK

LEMMA WSACallType ==
  ASSUME TypeOK, NEW w \in Workers, NEW k \in {"recv", "send"}, WSACall(w, k)
  PROVE  TypeOK'
<1> DEFINE s == ses[w]
<1>1. s \in Slots /\ w \in Threads /\ k \in Ops /\ k \in Completions
  BY DEF TypeOK, Threads, Ops, Completions
<1>2. mIOcnt' \in [Slots -> -2 * RELEASE_IOCOUNT .. 2 * RELEASE_IOCOUNT - 1]
  BY <1>1, Shorts DEF TypeOK, WSACall
<1>3. kernel' \in [Slots -> [Ops -> Nat]]
  <2>1. [kernel EXCEPT ![s][k] = @ + 1] \in [Slots -> [Ops -> Nat]]
    BY <1>1, SlotCounters DEF TypeOK
  <2> QED
    BY <2>1 DEF TypeOK, WSACall
<1>4. iocp' \in [Slots -> [Completions -> Nat]]
  BY <1>1, QueuedType DEF TypeOK, WSACall
<1>5. pc' \in [Threads -> Labels]
  <2>1. PICK l \in {"ioPending", "dec", "ioError"} : pc' = [pc EXCEPT ![w] = l]
    BY DEF WSACall, Goto
  <2>2. l \in Labels
    BY DEF Labels
  <2> QED
    BY <2>1, <2>2 DEF TypeOK
<1> QED
  BY <1>2, <1>3, <1>4, <1>5 DEF TypeOK, WSACall, session, pool, io, local, log

LEMMA TryReleaseType ==
  ASSUME TypeOK, NEW s \in Slots, TryRelease(s)
  PROVE  /\ mIOcnt' \in [Slots -> -2 * RELEASE_IOCOUNT .. 2 * RELEASE_IOCOUNT - 1]
         /\ iocp' \in [Slots -> [Completions -> Nat]]
<1>1. "release" \in Completions
  BY DEF Completions
<1>2. RELEASE_IOCOUNT \in -2 * RELEASE_IOCOUNT .. 2 * RELEASE_IOCOUNT - 1
  BY NetworkLibAssumption
<1>3. CASE mIOcnt[s] = 0
  <2>1. mIOcnt' = [mIOcnt EXCEPT ![s] = RELEASE_IOCOUNT] /\ Queued(s, "release")
    BY <1>3 DEF TryRelease
  <2> QED
    BY <1>1, <1>2, <2>1, QueuedType DEF TypeOK
<1>4. CASE mIOcnt[s] # 0
  BY <1>4 DEF TypeOK, TryRelease
<1> QED
  BY <1>3, <1>4

LEMMA PostSendType ==
  ASSUME TypeOK, NEW s \in Slots, PostSend(s)
  PROVE  /\ mIOcnt' \in [Slots -> -2 * RELEASE_IOCOUNT .. 2 * RELEASE_IOCOUNT - 1]
         /\ iocp' \in [Slots -> [Completions -> Nat]]
         /\ mSendFlag' \in [Slots -> BOOLEAN]
<1>1. "send" \in Completions
  BY DEF Completions
<1>2. CASE mSendFlag[s]
  BY <1>2 DEF TypeOK, PostSend
<1>3. CASE ~mSendFlag[s]
  <2>1. /\ mSendFlag' = [mSendFlag EXCEPT ![s] = TRUE]
        /\ mIOcnt' = [mIOcnt EXCEPT ![s] = Inc16(@)]
        /\ Queued(s, "send")
    BY <1>3 DEF PostSend
  <2>2. mIOcnt[s] \in -2 * RELEASE_IOCOUNT .. 2 * RELEASE_IOCOUNT - 1
    BY DEF TypeOK
  <2> QED
    BY <1>1, <2>1, <2>2, QueuedType, Shorts DEF TypeOK
<1> QED
  BY <1>2, <1>3

LEMMA CompleteType ==
  ASSUME TypeOK, NEW s \in Slots, NEW k \in Ops, NEW c \in Completions, Complete(s, k, c)
  PROVE  /\ kernel' \in [Slots -> [Ops -> Nat]]
         /\ iocp' \in [Slots -> [Completions -> Nat]]
<1>1. [kernel EXCEPT ![s][k] = @ - 1] \in [Slots -> [Ops -> Nat]]
  BY SlotCounters DEF TypeOK, Complete
<1> QED
  BY <1>1, QueuedType DEF TypeOK, Complete

LEMMA EnterDisconnectType ==
  ASSUME TypeOK, NEW w \in Workers, EnterDisconnect(w),
         UNCHANGED <<session, pool, io, ses, cnt, log>>
  PROVE  TypeOK'
<1>1. w \in Threads /\ ses[w] \in Slots
  BY DEF TypeOK, Threads
<1>2. pc' \in [Threads -> Labels]
  BY <1>1 DEF TypeOK, EnterDisconnect, Goto, Labels
<1>3. tgt' \in [Threads -> Nat]
  BY <1>1 DEF TypeOK, EnterDisconnect
<1>4. op' \in [Threads -> {"send", "disconnect"}]
  BY <1>1 DEF TypeOK, EnterDisconnect
<1> QED
  BY <1>2, <1>3, <1>4 DEF TypeOK, session, pool, io, log

LEMMA ReturnType ==
  ASSUME TypeOK, NEW t \in Threads, Return(t)
  PROVE  pc' \in [Threads -> Labels]
<1>1. CASE t \in Workers
  BY <1>1 DEF TypeOK, Return, Goto, Labels
<1>2. CASE t \notin Workers
  BY <1>2 DEF TypeOK, Return, Goto, Labels
<1> QED
  BY <1>1, <1>2

LEMMA GotoType ==
  ASSUME TypeOK, NEW t \in Threads, NEW l \in Labels
  PROVE  [pc EXCEPT ![t] = l] \in [Threads -> Labels]
BY DEF TypeOK

\* Every action keeps the types.
LEMMA NextType == TypeOK /\ [Next]_vars => TypeOK'
<1> SUFFICES ASSUME TypeOK, [Next]_vars PROVE TypeOK'
  OBVIOUS
<1> USE DEF Goto, session, pool, io, local, log
<1>t. \A t \in Threads : ses[t] \in Slots
  BY DEF TypeOK
<1>1. ASSUME NEW w \in Workers, FinLive(w) PROVE TypeOK'
  BY <1>t, <1>1, NetworkLibAssumption DEF TypeOK, FinLive, Labels, Threads
<1>2. ASSUME NEW w \in Workers, FinCancel(w) PROVE TypeOK'
  BY <1>t, <1>2, CancelType DEF TypeOK, FinCancel, Labels, Threads
<1>3. ASSUME NEW w \in Workers, WorkerDec(w) PROVE TypeOK'
  BY <1>t, <1>3, NetworkLibAssumption, Shorts DEF TypeOK, WorkerDec, Labels, Threads
<1>4. ASSUME NEW w \in Workers, WorkerCAS(w) PROVE TypeOK'
  BY <1>t, <1>4, TryReleaseType DEF TypeOK, WorkerCAS, Labels, Threads
<1>5. ASSUME NEW w \in Workers, AcceptLive(w) PROVE TypeOK'
  BY <1>t, <1>5, NetworkLibAssumption DEF TypeOK, AcceptLive, Labels, Threads
<1>6. ASSUME NEW w \in Workers, AcceptCount(w) PROVE TypeOK'
  <2>pc. pc' \in [Threads -> Labels]
    BY <1>6 DEF TypeOK, AcceptCount, Labels
  <2> QED
    BY <1>t, <1>6, <2>pc, NetworkLibAssumption DEF TypeOK, AcceptCount, Threads
<1>7. ASSUME NEW w \in Workers, OnAccept(w) PROVE TypeOK'
  <2>pc. pc' \in [Threads -> Labels]
    BY <1>7 DEF TypeOK, OnAccept, Labels, Threads
  <2>1. accepted' \subseteq Slots \X Nat
    BY <1>t, <1>7 DEF TypeOK, OnAccept, Threads
  <2> QED
    BY <1>7, <2>pc, <2>1 DEF TypeOK, OnAccept
<1>8. ASSUME NEW w \in Workers, CompleteRecv(w) PROVE TypeOK'
  <2>1. CASE EnterDisconnect(w)
    BY <1>t, <1>8, <2>1, EnterDisconnectType DEF CompleteRecv
  <2>2. CASE ~EnterDisconnect(w)
    <3>pc. pc' \in [Threads -> Labels]
      <4> DEFINE l == "registerRecv"
      <4>1. pc' = [pc EXCEPT ![w] = l]
        BY <1>8, <2>2 DEF CompleteRecv
      <4>2. l \in Labels
        BY DEF Labels
      <4> HIDE DEF l
      <4> QED
        BY <4>1, <4>2, GotoType DEF Threads
    <3> QED
      BY <1>8, <2>2, <3>pc DEF TypeOK, CompleteRecv
  <2> QED
    BY <2>1, <2>2
<1>9. ASSUME NEW w \in Workers, RegisterRecv(w) PROVE TypeOK'
  <2>1. CASE EnterDisconnect(w)
    BY <1>t, <1>9, <2>1, EnterDisconnectType DEF RegisterRecv
  <2>2. CASE ~EnterDisconnect(w)
    <3>pc. pc' \in [Threads -> Labels]
      <4> DEFINE l == IF mLive[ses[w]] THEN "WSARecv" ELSE "dec"
      <4>1. pc' = [pc EXCEPT ![w] = l]
        BY <1>9, <2>2 DEF RegisterRecv
      <4>2. l \in Labels
        BY DEF Labels
      <4> HIDE DEF l
      <4> QED
        BY <4>1, <4>2, GotoType DEF Threads
    <3> QED
      BY <1>9, <2>2, <3>pc DEF TypeOK, RegisterRecv
  <2> QED
    BY <2>1, <2>2
<1>10. ASSUME NEW w \in Workers, WSARecv(w) PROVE TypeOK'
  BY <1>10, WSACallType DEF WSARecv
<1>11. ASSUME NEW w \in Workers, IoPending(w) PROVE TypeOK'
  BY <1>t, <1>11, CancelType DEF TypeOK, IoPending, Labels, Threads
<1>12. ASSUME NEW w \in Workers, IoError(w) PROVE TypeOK'
  BY <1>t, <1>12, NetworkLibAssumption, Shorts DEF TypeOK, IoError, Labels, Threads
<1>13. ASSUME NEW w \in Workers, CompleteSend(w) PROVE TypeOK'
  <2>pc. pc' \in [Threads -> Labels]
    BY <1>13 DEF TypeOK, CompleteSend, Labels
  <2>1. ses[w] \in Slots
    BY <1>t DEF Threads
  <2>2. mSendOv' \in [Slots -> Seq(Message)]
    BY <1>13, <2>1 DEF TypeOK, CompleteSend
  <2>3. done' \in Seq(Message)
    BY <1>13, <2>1 DEF TypeOK, CompleteSend
  <2> QED
    BY <1>13, <2>pc, <2>2, <2>3 DEF TypeOK, CompleteSend
<1>14. ASSUME NEW w \in Workers, RegisterSend(w) PROVE TypeOK'
  <2>pc. pc' \in [Threads -> Labels]
    <3> DEFINE l == IF RereadsQSize /\ QSize(ses[w]) <= CONFIG_SEND_MESSAGE_MAXCOUNT
                THEN "rereadQSize" ELSE IF QSize(ses[w]) = 0 THEN "flagOff" ELSE "dequeue"
    <3>1. pc' = [pc EXCEPT ![w] = l]
      BY <1>14 DEF RegisterSend
    <3>2. l \in Labels
      BY DEF Labels
    <3> HIDE DEF l
    <3> QED
      BY <3>1, <3>2, GotoType DEF Threads
  <2>1. \A s \in Slots : QSize(s) \in Int
    BY NetworkLibAssumption DEF TypeOK, QSize, Short
  <2>2. cnt' \in [Threads -> Int]
    BY <1>t, <2>1, <1>14, NetworkLibAssumption DEF TypeOK, RegisterSend, SmallerOf, Threads
  <2> QED
    BY <1>14, <2>pc, <2>1, <2>2 DEF TypeOK, RegisterSend
<1>15. ASSUME NEW w \in Workers, RereadQSize(w) PROVE TypeOK'
  <2>pc. pc' \in [Threads -> Labels]
    BY <1>15 DEF TypeOK, RereadQSize, Labels, Threads
  <2>1. \A s \in Slots : QSize(s) \in Int
    BY NetworkLibAssumption DEF TypeOK, QSize, Short
  <2>2. cnt' \in [Threads -> Int]
    BY <1>t, <2>1, <1>15 DEF TypeOK, RereadQSize, Threads
  <2> QED
    BY <1>15, <2>pc, <2>1, <2>2 DEF TypeOK, RereadQSize
<1>16. ASSUME NEW w \in Workers, FlagOff(w) PROVE TypeOK'
  BY <1>t, <1>16, NetworkLibAssumption DEF TypeOK, FlagOff, Labels, Threads
<1>17. ASSUME NEW w \in Workers, Recheck(w) PROVE TypeOK'
  BY <1>t, <1>17, NetworkLibAssumption DEF TypeOK, Recheck, Labels, Threads
<1>18. ASSUME NEW w \in Workers, FlagOn(w) PROVE TypeOK'
  BY <1>t, <1>18, PostSendType DEF TypeOK, FlagOn, Labels, Threads
<1>19. ASSUME NEW w \in Workers, Dequeue(w) PROVE TypeOK'
  <2> DEFINE q == mSendQ[ses[w]]
             n == IF cnt[w] < 0 THEN 0 ELSE SmallerOf(cnt[w], Len(q))
  <2>pc. pc' \in [Threads -> Labels]
    BY <1>19 DEF TypeOK, Dequeue, Labels, Threads
  <2>1. ses[w] \in Slots /\ q \in Seq(Message) /\ cnt[w] \in Int
    BY <1>t DEF TypeOK, Threads
  <2>2. n \in 0 .. Len(q)
    BY <2>1 DEF SmallerOf
  <2>3. SubSeq(q, 1, n) \in Seq(Message) /\ SubSeq(q, n + 1, Len(q)) \in Seq(Message)
    BY <2>1, <2>2
  <2>4. /\ mSendOv' = [mSendOv EXCEPT ![ses[w]] = SubSeq(q, 1, n)]
        /\ mSendQ' = [mSendQ EXCEPT ![ses[w]] = SubSeq(q, n + 1, Len(q))]
    BY <1>19, <2>1 DEF TypeOK, Dequeue
  <2>5. mSendOv' \in [Slots -> Seq(Message)] /\ mSendQ' \in [Slots -> Seq(Message)]
    BY <2>3, <2>4 DEF TypeOK
  <2> QED
    BY <1>19, <2>pc, <2>5 DEF TypeOK, Dequeue
<1>20. ASSUME NEW w \in Workers, SendLive(w) PROVE TypeOK'
  BY <1>t, <1>20, NetworkLibAssumption DEF TypeOK, SendLive, Labels, Threads
<1>21. ASSUME NEW w \in Workers, WSASend(w) PROVE TypeOK'
  BY <1>21, WSACallType DEF WSASend
<1>22. ASSUME NEW w \in Workers, OnRelease(w) PROVE TypeOK'
  <2>pc. pc' \in [Threads -> Labels]
    BY <1>22 DEF TypeOK, OnRelease, Labels, Threads
  <2>1. released' \subseteq Slots \X Nat
    BY <1>t, <1>22 DEF TypeOK, OnRelease, Threads
  <2> QED
    BY <1>22, <2>pc, <2>1 DEF TypeOK, OnRelease
<1>23. ASSUME NEW w \in Workers, ReleaseSession(w) PROVE TypeOK'
  <2>pc. pc' \in [Threads -> Labels]
    BY <1>23 DEF TypeOK, ReleaseSession, Labels, Threads
  <2>1. mSendQ' \in [Slots -> Seq(Message)] /\ mSendOv' \in [Slots -> Seq(Message)]
    BY <1>t, <1>23 DEF TypeOK, ReleaseSession, Threads
  <2>2. mSendFlag' \in [Slots -> BOOLEAN] /\ conn' \in [Slots -> {"none", "up", "reset"}]
    BY <1>t, <1>23 DEF TypeOK, ReleaseSession, Threads
  <2> QED
    BY <1>23, <2>pc, <2>1, <2>2 DEF TypeOK, ReleaseSession
<1>24. ASSUME NEW w \in Workers, PushIdx(w) PROVE TypeOK'
  <2>pc. pc' \in [Threads -> Labels]
    BY <1>24 DEF TypeOK, PushIdx, Labels, Threads
  <2>1. <<ses[w]>> \in Seq(Slots)
    BY <1>t DEF Threads
  <2>2. mStackSessionIdx' \in Seq(Slots)
    BY <2>1, <1>24 DEF TypeOK, PushIdx, StackPush
  <2> QED
    BY <1>24, <2>pc, <2>1, <2>2 DEF TypeOK, PushIdx
<1>25. ASSUME NEW w \in Workers, RegisterAcceptEx(w) PROVE TypeOK'
  <2>pc. pc' \in [Threads -> Labels]
    <3> DEFINE l == IF mStackSessionIdx = <<>> THEN "GQCS" ELSE "acceptEx"
    <3>1. pc' = [pc EXCEPT ![w] = l]
      BY <1>25 DEF RegisterAcceptEx
    <3>2. l \in Labels
      BY DEF Labels
    <3> HIDE DEF l
    <3> QED
      BY <3>1, <3>2, GotoType DEF Threads
  <2>1. mStackSessionIdx # <<>> => Head(mStackSessionIdx) \in Slots /\ Tail(mStackSessionIdx) \in Seq(Slots)
    BY DEF TypeOK
  <2>2. mStackSessionIdx' \in Seq(Slots) /\ ses' \in [Threads -> Slots]
    BY <2>1, <1>25 DEF TypeOK, RegisterAcceptEx, Threads
  <2> QED
    BY <1>25, <2>pc, <2>1, <2>2 DEF TypeOK, RegisterAcceptEx
<1>26. ASSUME NEW w \in Workers, AcceptEx(w) PROVE TypeOK'
  <2>pc. pc' \in [Threads -> Labels]
    BY <1>26 DEF TypeOK, AcceptEx, Labels, Threads
  <2>1. <<ses[w]>> \in Seq(Slots)
    BY <1>t DEF Threads
  <2>2. mStackSessionIdx' \in Seq(Slots)
    <3>1. <<ses[w]>> \o mStackSessionIdx \in Seq(Slots)
      BY <2>1 DEF TypeOK
    <3> QED
      BY <3>1, <1>26 DEF TypeOK, AcceptEx, StackPush
  <2>3. mSessionID' \in [Slots -> Nat] /\ mSeqID' \in Nat
    BY <1>t, <1>26 DEF TypeOK, AcceptEx, Threads
  <2>4. kernel' \in [Slots -> [Ops -> Nat]]
    <3>1. [kernel EXCEPT ![ses[w]]["accept"] = @ + 1] \in [Slots -> [Ops -> Nat]]
      BY <1>t, SlotCounters DEF TypeOK, Threads, Ops
    <3> QED
      BY <1>26, <3>1 DEF TypeOK, AcceptEx
  <2> QED
    BY <1>26, <2>pc, <2>1, <2>2, <2>3, <2>4 DEF TypeOK, AcceptEx
<1>27. ASSUME NEW t \in Threads, SessionLock(t) PROVE TypeOK'
  <2>pc. pc' \in [Threads -> Labels]
    <3>1. CASE Return(t)
      BY <3>1, ReturnType
    <3>2. CASE ~Return(t)
      <4>1. pc' = [pc EXCEPT ![t] = "lockID"]
        BY <1>27, <3>2 DEF SessionLock
      <4>2. "lockID" \in Labels
        BY DEF Labels
      <4> QED
        BY <4>1, <4>2, GotoType
    <3> QED
      BY <3>1, <3>2
  <2>1. mIOcnt' \in [Slots -> -2 * RELEASE_IOCOUNT .. 2 * RELEASE_IOCOUNT - 1]
    BY <1>t, <1>27, Shorts DEF TypeOK, SessionLock
  <2> QED
    BY <1>27, <2>pc, <2>1 DEF TypeOK, SessionLock
<1>28. ASSUME NEW t \in Threads, LockID(t) PROVE TypeOK'
  BY <1>t, <1>28, NetworkLibAssumption DEF TypeOK, LockID, Labels, Threads
<1>29. ASSUME NEW t \in Threads, LockUndo(t) PROVE TypeOK'
  BY <1>t, <1>29, NetworkLibAssumption, Shorts DEF TypeOK, LockUndo, Labels, Threads
<1>30. ASSUME NEW t \in Threads, LockCAS(t) PROVE TypeOK'
  BY <1>t, <1>30, TryReleaseType DEF TypeOK, LockCAS, Return, Labels, Threads
<1>31. ASSUME NEW t \in Threads, SessionUnLock(t) PROVE TypeOK'
  <2>pc. pc' \in [Threads -> Labels]
    <3>1. CASE Return(t)
      BY <3>1, ReturnType
    <3>2. CASE ~Return(t)
      <4>1. pc' = [pc EXCEPT ![t] = "lockCAS"]
        BY <1>31, <3>2 DEF SessionUnLock
      <4>2. "lockCAS" \in Labels
        BY DEF Labels
      <4> QED
        BY <4>1, <4>2, GotoType
    <3> QED
      BY <3>1, <3>2
  <2>1. mIOcnt' \in [Slots -> -2 * RELEASE_IOCOUNT .. 2 * RELEASE_IOCOUNT - 1]
    BY <1>t, <1>31, Shorts DEF TypeOK, SessionUnLock
  <2> QED
    BY <1>31, <2>pc, <2>1 DEF TypeOK, SessionUnLock
<1>32. ASSUME NEW t \in Threads, EnQueueMsg(t) PROVE TypeOK'
  <2> DEFINE m == [own |-> <<ses[t], tgt[t]>>, n |-> nMsgs + 1]
  <2>pc. pc' \in [Threads -> Labels]
    BY <1>32 DEF TypeOK, EnQueueMsg, Labels
  <2>1. m \in Message
    BY <1>t DEF TypeOK, Message
  <2>2. mSendQ' = [mSendQ EXCEPT ![ses[t]] = Append(@, m)]
    BY <1>32 DEF EnQueueMsg
  <2>3. mSendQ' \in [Slots -> Seq(Message)]
    BY <1>t, <2>1, <2>2 DEF TypeOK
  <2>4. nMsgs' \in Nat
    BY <1>32 DEF TypeOK, EnQueueMsg
  <2> HIDE DEF m
  <2> QED
    BY <1>32, <2>pc, <2>3, <2>4 DEF TypeOK, EnQueueMsg
<1>33. ASSUME NEW t \in Threads, SendPost(t) PROVE TypeOK'
  BY <1>t, <1>33, PostSendType DEF TypeOK, SendPost, Labels, Threads
<1>34. ASSUME NEW t \in Threads, DisconnectLive(t) PROVE TypeOK'
  BY <1>t, <1>34, NetworkLibAssumption DEF TypeOK, DisconnectLive, Labels, Threads
<1>35. ASSUME NEW t \in Threads, DisconnectCancel(t) PROVE TypeOK'
  BY <1>t, <1>35, CancelType DEF TypeOK, DisconnectCancel, Labels, Threads
<1>36. ASSUME NEW w \in Workers, NEW s \in Slots, NEW c \in Completions, TakeCompletion(w, s, c)
      PROVE  TypeOK'
  BY <1>36, SlotCounters, NetworkLibAssumption DEF TypeOK, TakeCompletion, Entry, Completions, Labels, Threads
<1>37. ASSUME NEW t \in Contents, NEW id \in accepted, NEW o \in {"send", "disconnect"}, Call(t, id, o)
      PROVE  TypeOK'
  BY <1>37, NetworkLibAssumption DEF TypeOK, Call, Labels, Threads
<1>38. ASSUME NEW s \in Slots, KernelStep(s) PROVE TypeOK'
  <2> USE DEF Ops, Completions
  <2>1. CASE Connect(s)
    BY <2>1, CompleteType DEF TypeOK, Connect
  <2>2. CASE Received(s)
    BY <2>2, CompleteType DEF TypeOK, Received
  <2>3. CASE ReceiveEnds(s)
    BY <2>3, CompleteType DEF TypeOK, ReceiveEnds
  <2>4. CASE Sent(s)
    BY <2>4, CompleteType DEF TypeOK, Sent
  <2>5. CASE Reset(s)
    BY <2>5 DEF TypeOK, Reset
  <2> QED
    BY <1>38, <2>1, <2>2, <2>3, <2>4, <2>5 DEF KernelStep
<1>39. CASE UNCHANGED vars
  BY <1>39 DEF TypeOK, vars
<1> QED
  BY <1>1, <1>2, <1>3, <1>4, <1>5, <1>6, <1>7, <1>8, <1>9, <1>10, <1>11, <1>12,
     <1>13, <1>14, <1>15, <1>16, <1>17, <1>18, <1>19, <1>20, <1>21, <1>22, <1>23,
     <1>24, <1>25, <1>26, <1>27, <1>28, <1>29, <1>30, <1>31, <1>32, <1>33, <1>34,
     <1>35, <1>36, <1>37, <1>38, <1>39
  DEF Next, WorkerStep, LockStep
\* TypeOK holds for any number of threads and slots, whatever the bounds.
THEOREM TypeCorrect == Spec => []TypeOK
BY InitType, NextType, PTL DEF Spec
-----------------------------------------------------------------------------
(***************************************************************************)
(* The reference count.  RefCount is not inductive by itself: a stale call *)
(* must find the release bit on a closed session, which takes that the     *)
(* count of an open one stays below the bit (so the references are bounded,*)
(* Tokens and Room), and that a slot which never had a client, whose count *)
(* is 0 without the bit, is unknown to everybody (Flagged).                *)
(***************************************************************************)

\* The release bit is out of reach of the references, and the bound on stale
\* calls keeps the count within a short.
Room == /\ RELEASE_IOCOUNT > 3 + 2 * Cardinality(Workers) + Cardinality(Threads)
        /\ MaxIOcnt < 2 * RELEASE_IOCOUNT

\* Threads that will look at mIOcnt without holding a reference.
CasLabels == {"lock", "lockCAS", "decCAS"}

RecvLabels == {"onAccept", "completeRecv", "registerRecv", "WSARecv"}

\* The references, tokens and places of slot s that the system, the port and
\* the stack hold ...
IoRecv(s)   == kernel[s].recv + iocp[s].recv + iocp[s].fin
IoSend(s)   == kernel[s].send + iocp[s].send
IoClosed(s) == OnStack(s) + kernel[s].accept + iocp[s].accept + iocp[s].release

\* ... and those that the threads hold.
ThreadRefs(s) == Count(Workers, WorkLabels, s) + Count(Threads, LockLabels, s)
                 + Count(Workers, {"ioError"}, s)
ThreadsClosed(s) == Count(Workers, ClosedLabels, s)
ThreadsRecv(s)   == Count(Workers, RecvLabels, s)
ThreadsSend(s)   == Count(Workers, SendLabels, s)
Seers(s) == Count(Workers, {"decCAS"}, s) + Count(Contents, {"lockCAS"}, s)

AllRefs(s) == IoRecv(s) + IoSend(s) + ThreadRefs(s)
Places(s)  == IoClosed(s) + ThreadsClosed(s)

\* The inductive invariant for one slot.
Counted(s) == \/ Places(s) = 0 /\ mIOcnt[s] = AllRefs(s)
              \/ Places(s) = 1 /\ AllRefs(s) = 0

Flagged(s) ==
  Places(s) = 1 =>
    \/ RELEASE_IOCOUNT <= mIOcnt[s]
    \/ /\ mIOcnt[s] = 0
       /\ \A id \in accepted : id[1] # s
       /\ \A t \in Threads : ses[t] = s => pc[t] \notin CasLabels

Tokens(s) == /\ IoRecv(s) + ThreadsRecv(s) <= 1
             /\ IoSend(s) + ThreadsSend(s) <= IF mSendFlag[s] THEN 1 ELSE 0

Seen(s) == Places(s) = 0 /\ mIOcnt[s] = 0 => Seers(s) > 0

SlotInv(s) == Counted(s) /\ Flagged(s) /\ Tokens(s) /\ Seen(s)

OneTime == \A i, j \in DOMAIN mStackSessionIdx :
             mStackSessionIdx[i] = mStackSessionIdx[j] => i = j

IInv == TypeOK /\ OneTime /\ \A s \in Slots : SlotInv(s)

-----------------------------------------------------------------------------
(* Counting threads. *)

In(b) == IF b THEN 1 ELSE 0

LEMMA FiniteThreads ==
  ASSUME NEW T \in SUBSET Threads, NEW L, NEW s
  PROVE  /\ IsFiniteSet(At(T, L, s)) /\ IsFiniteSet(T)
         /\ Count(T, L, s) \in Nat
         /\ Cardinality(T) \in Nat
         /\ Count(T, L, s) <= Cardinality(T)
<1>1. IsFiniteSet(Threads)
  BY NetworkLibAssumption, FS_Union DEF Threads
<1>2. IsFiniteSet(T)
  BY <1>1, FS_Subset
<1>3. At(T, L, s) \in SUBSET T
  BY DEF At
<1> QED
  BY <1>2, <1>3, FS_Subset, FS_CardinalityType DEF Count

\* More labels, more threads.
LEMMA SubCount ==
  ASSUME NEW T \in SUBSET Threads, NEW L, NEW M, L \subseteq M, NEW s
  PROVE  Count(T, L, s) <= Count(T, M, s)
<1>1. At(T, L, s) \subseteq At(T, M, s)
  BY DEF At
<1> QED
  BY <1>1, FiniteThreads, FS_Subset DEF Count

\* Two sets that differ in t at most.
LEMMA SetStep ==
  ASSUME NEW A, NEW B, NEW t, IsFiniteSet(A), IsFiniteSet(B), A \ {t} = B \ {t}
  PROVE  /\ Cardinality(A) \in Nat /\ Cardinality(B) \in Nat
         /\ Cardinality(A) >= In(t \in A)
         /\ Cardinality(B) = Cardinality(A) - In(t \in A) + In(t \in B)
<1>1. Cardinality(A) \in Nat /\ Cardinality(B) \in Nat
  BY FS_CardinalityType
<1>2. Cardinality(A \ {t}) = IF t \in A THEN Cardinality(A) - 1 ELSE Cardinality(A)
  BY FS_RemoveElement
<1>3. Cardinality(B \ {t}) = IF t \in B THEN Cardinality(B) - 1 ELSE Cardinality(B)
  BY FS_RemoveElement
<1>4. Cardinality(A \ {t}) \in Nat
  BY FS_RemoveElement, FS_CardinalityType
<1> QED
  BY <1>1, <1>2, <1>3, <1>4 DEF In

\* The count of threads T at L on s changes by what t was and is.
CountStep(T, L, t, s) ==
  /\ Count(T, L, s) \in Nat
  /\ Count(T, L, s)' \in Nat
  /\ Count(T, L, s) >= In(t \in T /\ ses[t] = s /\ pc[t] \in L)
  /\ Count(T, L, s)' = Count(T, L, s) - In(t \in T /\ ses[t] = s /\ pc[t] \in L)
                                      + In(t \in T /\ ses'[t] = s /\ pc'[t] \in L)

\* Thread t is the only one that moves.
Moves(t) == \A u \in Threads : u # t => pc'[u] = pc[u] /\ ses'[u] = ses[u]

LEMMA Move ==
  ASSUME NEW t \in Threads, Moves(t), NEW T \in SUBSET Threads, NEW L, NEW s
  PROVE  CountStep(T, L, t, s)
<1> DEFINE A == At(T, L, s)
           B == {u \in T : ses'[u] = s /\ pc'[u] \in L}
<1>1. IsFiniteSet(A) /\ Count(T, L, s) = Cardinality(A)
  BY FiniteThreads DEF Count
<1>2. IsFiniteSet(B) /\ Count(T, L, s)' = Cardinality(B)
  BY FiniteThreads, FS_Subset DEF Count, At
<1>3. A \ {t} = B \ {t}
  BY DEF At, Moves
<1>4. /\ (t \in A) = (t \in T /\ ses[t] = s /\ pc[t] \in L)
      /\ (t \in B) = (t \in T /\ ses'[t] = s /\ pc'[t] \in L)
  BY DEF At
<1> HIDE DEF A, B
<1>5. /\ Cardinality(A) \in Nat /\ Cardinality(B) \in Nat
      /\ Cardinality(A) >= In(t \in A)
      /\ Cardinality(B) = Cardinality(A) - In(t \in A) + In(t \in B)
  BY <1>1, <1>2, <1>3, SetStep
<1> QED
  BY <1>1, <1>2, <1>4, <1>5 DEF CountStep

\* What thread t at label l holds of its slot.
RefW(t, l) == In(t \in Workers /\ l \in WorkLabels) + In(l \in LockLabels)
              + In(t \in Workers /\ l = "ioError")
ClosedW(t, l) == In(t \in Workers /\ l \in ClosedLabels)
RecvW(t, l)   == In(t \in Workers /\ l \in RecvLabels)
SendW(t, l)   == In(t \in Workers /\ l \in SendLabels)
SeerW(t, l)   == In(t \in Workers /\ l = "decCAS") + In(t \in Contents /\ l = "lockCAS")

On(b, n) == IF b THEN n ELSE 0

SlotNats(s) ==
  /\ IoRecv(s) \in Nat /\ IoSend(s) \in Nat /\ IoClosed(s) \in Nat
  /\ mIOcnt[s] \in Int /\ OnStack(s) \in {0, 1}
  /\ ThreadRefs(s) \in Nat /\ ThreadsClosed(s) \in Nat /\ ThreadsRecv(s) \in Nat
  /\ ThreadsSend(s) \in Nat /\ Seers(s) \in Nat

FieldsOK(s) ==
  /\ kernel[s].accept \in Nat /\ kernel[s].recv \in Nat /\ kernel[s].send \in Nat
  /\ iocp[s].accept \in Nat /\ iocp[s].recv \in Nat /\ iocp[s].fin \in Nat
  /\ iocp[s].send \in Nat /\ iocp[s].release \in Nat

LEMMA FieldNats ==
  ASSUME TypeOK, NEW s \in Slots
  PROVE  FieldsOK(s)
BY DEF FieldsOK, TypeOK, Ops, Completions

LEMMA AllNats == TypeOK => \A s \in Slots : SlotNats(s)
<1> SUFFICES ASSUME TypeOK, NEW s \in Slots PROVE SlotNats(s)
  OBVIOUS
<1>1. Workers \in SUBSET Threads /\ Contents \in SUBSET Threads /\ Threads \in SUBSET Threads
  BY DEF Threads
<1>2. /\ Count(Workers, WorkLabels, s) \in Nat /\ Count(Threads, LockLabels, s) \in Nat
      /\ Count(Workers, {"ioError"}, s) \in Nat /\ Count(Workers, ClosedLabels, s) \in Nat
      /\ Count(Workers, RecvLabels, s) \in Nat /\ Count(Workers, SendLabels, s) \in Nat
      /\ Count(Workers, {"decCAS"}, s) \in Nat /\ Count(Contents, {"lockCAS"}, s) \in Nat
  BY <1>1, FiniteThreads
<1>3. OnStack(s) \in {0, 1} /\ mIOcnt[s] \in Int
  BY DEF OnStack, TypeOK
<1>4. FieldsOK(s)
  BY FieldNats
<1>5. /\ ThreadRefs(s) \in Nat /\ ThreadsClosed(s) \in Nat /\ ThreadsRecv(s) \in Nat
      /\ ThreadsSend(s) \in Nat /\ Seers(s) \in Nat
  BY <1>2 DEF ThreadRefs, ThreadsClosed, ThreadsRecv, ThreadsSend, Seers
<1>6. IoRecv(s) \in Nat /\ IoSend(s) \in Nat /\ IoClosed(s) \in Nat
  BY <1>3, <1>4 DEF FieldsOK, IoRecv, IoSend, IoClosed
<1> QED
  BY <1>3, <1>5, <1>6 DEF SlotNats

LEMMA AllNatsNext == TypeOK' => \A s \in Slots : SlotNats(s)'
<1>1. (TypeOK => \A s \in Slots : SlotNats(s))'
  BY AllNats, PTL
<1> QED
  BY <1>1

\* The sums of the specification are these.
LEMMA SameSums == TypeOK => \A s \in Slots : Refs(s) = AllRefs(s) /\ Closed(s) = Places(s)
<1> SUFFICES ASSUME TypeOK, NEW s \in Slots
             PROVE  Refs(s) = AllRefs(s) /\ Closed(s) = Places(s)
  OBVIOUS
<1>1. /\ Count(Workers, WorkLabels, s) \in Nat /\ Count(Threads, LockLabels, s) \in Nat
      /\ Count(Workers, {"ioError"}, s) \in Nat /\ Count(Workers, ClosedLabels, s) \in Nat
  BY FiniteThreads DEF Threads
<1>2. FieldsOK(s)
  BY FieldNats
<1>3. OnStack(s) \in Nat
  BY DEF OnStack
<1>4. Refs(s) = AllRefs(s)
  BY <1>1, <1>2 DEF FieldsOK, Refs, AllRefs, IoRecv, IoSend, ThreadRefs
<1>5. Closed(s) = Places(s)
  BY <1>1, <1>2, <1>3 DEF FieldsOK, Closed, Places, IoClosed, ThreadsClosed
<1> QED
  BY <1>4, <1>5

\* Only thread t moves, possibly from one slot to another.
Weighs(t, s) ==
  /\ ThreadRefs(s)' = ThreadRefs(s) - On(ses[t] = s, RefW(t, pc[t]))
                                    + On(ses'[t] = s, RefW(t, pc'[t]))
  /\ ThreadsClosed(s)' = ThreadsClosed(s) - On(ses[t] = s, ClosedW(t, pc[t]))
                                          + On(ses'[t] = s, ClosedW(t, pc'[t]))
  /\ ThreadsRecv(s)' = ThreadsRecv(s) - On(ses[t] = s, RecvW(t, pc[t]))
                                      + On(ses'[t] = s, RecvW(t, pc'[t]))
  /\ ThreadsSend(s)' = ThreadsSend(s) - On(ses[t] = s, SendW(t, pc[t]))
                                      + On(ses'[t] = s, SendW(t, pc'[t]))
  /\ Seers(s)' = Seers(s) - On(ses[t] = s, SeerW(t, pc[t]))
                          + On(ses'[t] = s, SeerW(t, pc'[t]))

Holds(t, s) ==
  /\ ThreadRefs(s) >= On(ses[t] = s, RefW(t, pc[t]))
  /\ ThreadsClosed(s) >= On(ses[t] = s, ClosedW(t, pc[t]))
  /\ ThreadsRecv(s) >= On(ses[t] = s, RecvW(t, pc[t]))
  /\ ThreadsSend(s) >= On(ses[t] = s, SendW(t, pc[t]))

LEMMA Weighed ==
  ASSUME NEW t \in Threads, Moves(t), NEW s \in Slots
  PROVE  Weighs(t, s) /\ Holds(t, s)
<1>1. Workers \in SUBSET Threads /\ Contents \in SUBSET Threads /\ Threads \in SUBSET Threads
  BY DEF Threads
<1>2. /\ CountStep(Workers, WorkLabels, t, s) /\ CountStep(Threads, LockLabels, t, s)
      /\ CountStep(Workers, {"ioError"}, t, s)
  BY <1>1, Move
<1>3. /\ CountStep(Workers, ClosedLabels, t, s) /\ CountStep(Workers, RecvLabels, t, s)
      /\ CountStep(Workers, SendLabels, t, s)
  BY <1>1, Move
<1>4. CountStep(Workers, {"decCAS"}, t, s) /\ CountStep(Contents, {"lockCAS"}, t, s)
  BY <1>1, Move
<1>5. ThreadRefs(s)' = ThreadRefs(s) - On(ses[t] = s, RefW(t, pc[t]))
                                     + On(ses'[t] = s, RefW(t, pc'[t]))
  BY <1>2 DEF CountStep, ThreadRefs, RefW, In, On
<1>6. ThreadRefs(s) >= On(ses[t] = s, RefW(t, pc[t]))
  BY <1>2 DEF CountStep, ThreadRefs, RefW, In, On
<1>7. ThreadsClosed(s)' = ThreadsClosed(s) - On(ses[t] = s, ClosedW(t, pc[t]))
                                           + On(ses'[t] = s, ClosedW(t, pc'[t]))
  BY <1>3 DEF CountStep, ThreadsClosed, ClosedW, In, On
<1>8. ThreadsRecv(s)' = ThreadsRecv(s) - On(ses[t] = s, RecvW(t, pc[t]))
                                       + On(ses'[t] = s, RecvW(t, pc'[t]))
  BY <1>3 DEF CountStep, ThreadsRecv, RecvW, In, On
<1>9. ThreadsSend(s)' = ThreadsSend(s) - On(ses[t] = s, SendW(t, pc[t]))
                                       + On(ses'[t] = s, SendW(t, pc'[t]))
  BY <1>3 DEF CountStep, ThreadsSend, SendW, In, On
<1>10. /\ ThreadsClosed(s) >= On(ses[t] = s, ClosedW(t, pc[t]))
       /\ ThreadsRecv(s) >= On(ses[t] = s, RecvW(t, pc[t]))
       /\ ThreadsSend(s) >= On(ses[t] = s, SendW(t, pc[t]))
  BY <1>3 DEF CountStep, ThreadsClosed, ThreadsRecv, ThreadsSend, ClosedW, RecvW, SendW, In, On
<1>11. Seers(s)' = Seers(s) - On(ses[t] = s, SeerW(t, pc[t]))
                            + On(ses'[t] = s, SeerW(t, pc'[t]))
  BY <1>4 DEF CountStep, Seers, SeerW, In, On
<1> QED
  BY <1>5, <1>6, <1>7, <1>8, <1>9, <1>10, <1>11 DEF Weighs, Holds

\* The threads that receive or send on s are among those that refer to it.
LEMMA Included ==
  ASSUME NEW s \in Slots
  PROVE  ThreadsRecv(s) <= ThreadRefs(s) /\ ThreadsSend(s) <= ThreadRefs(s)
<1>1. Workers \in SUBSET Threads /\ Threads \in SUBSET Threads
  BY DEF Threads
<1>2. RecvLabels \subseteq WorkLabels /\ SendLabels \subseteq WorkLabels
  BY DEF RecvLabels, SendLabels, WorkLabels
<1>3. /\ Count(Workers, RecvLabels, s) <= Count(Workers, WorkLabels, s)
      /\ Count(Workers, SendLabels, s) <= Count(Workers, WorkLabels, s)
  BY <1>1, <1>2, SubCount
<1>4. /\ Count(Workers, WorkLabels, s) \in Nat /\ Count(Threads, LockLabels, s) \in Nat
      /\ Count(Workers, {"ioError"}, s) \in Nat /\ Count(Workers, RecvLabels, s) \in Nat
      /\ Count(Workers, SendLabels, s) \in Nat
  BY <1>1, FiniteThreads
<1> QED
  BY <1>3, <1>4 DEF ThreadRefs, ThreadsRecv, ThreadsSend

\* The references stay below the release bit.
LEMMA CountInRange ==
  ASSUME Room, TypeOK, NEW s \in Slots, SlotInv(s)
  PROVE  /\ Places(s) \in {0, 1}
         /\ AllRefs(s) \in Nat /\ AllRefs(s) + 1 < RELEASE_IOCOUNT
         /\ Places(s) = 0 => mIOcnt[s] = AllRefs(s)
         /\ Places(s) = 1 => AllRefs(s) = 0
         /\ mIOcnt[s] >= 0
<1>1. SlotNats(s)
  BY AllNats
<1>2. Workers \in SUBSET Threads /\ Threads \in SUBSET Threads
  BY DEF Threads
<1>3. /\ Count(Workers, WorkLabels, s) <= Cardinality(Workers)
      /\ Count(Threads, LockLabels, s) <= Cardinality(Threads)
      /\ Count(Workers, {"ioError"}, s) <= Cardinality(Workers)
      /\ Count(Workers, WorkLabels, s) \in Nat /\ Count(Threads, LockLabels, s) \in Nat
      /\ Count(Workers, {"ioError"}, s) \in Nat
      /\ Cardinality(Workers) \in Nat /\ Cardinality(Threads) \in Nat
  BY <1>2, FiniteThreads
<1>4. ThreadRefs(s) <= 2 * Cardinality(Workers) + Cardinality(Threads)
  BY <1>3 DEF ThreadRefs
<1>5. IoRecv(s) <= 1 /\ IoSend(s) <= 1
  BY <1>1 DEF SlotInv, Tokens, SlotNats
<1>6. RELEASE_IOCOUNT \in Nat
  BY NetworkLibAssumption
<1>7. AllRefs(s) \in Nat /\ AllRefs(s) + 1 < RELEASE_IOCOUNT
  BY <1>1, <1>3, <1>4, <1>5, <1>6 DEF AllRefs, SlotNats, Room
<1>8. /\ Places(s) \in {0, 1}
      /\ Places(s) = 0 => mIOcnt[s] = AllRefs(s)
      /\ Places(s) = 1 => AllRefs(s) = 0
  BY <1>7 DEF SlotInv, Counted
<1> QED
  BY <1>1, <1>6, <1>7, <1>8 DEF SlotInv, Flagged, SlotNats

-----------------------------------------------------------------------------
(* One step, slot by slot. *)

\* Slot o keeps everything but its threads.
Same(o) == /\ mIOcnt'[o] = mIOcnt[o] /\ mSendFlag'[o] = mSendFlag[o]
           /\ kernel'[o] = kernel[o] /\ iocp'[o] = iocp[o]
           /\ OnStack(o)' = OnStack(o)


Unbound == {"GQCS", "idle", "registerAcceptEx"}

LEMMA UnboundWeight ==
  ASSUME NEW t, NEW l \in Unbound
  PROVE  /\ RefW(t, l) = 0 /\ ClosedW(t, l) = 0 /\ RecvW(t, l) = 0
         /\ SendW(t, l) = 0 /\ SeerW(t, l) = 0 /\ l \notin CasLabels
<1>1. /\ l \notin LockLabels /\ l \notin WorkLabels /\ l # "ioError"
      /\ l \notin ClosedLabels /\ l \notin RecvLabels /\ l \notin SendLabels
      /\ l # "decCAS" /\ l # "lockCAS" /\ l \notin CasLabels
  BY DEF Unbound, LockLabels, WorkLabels, ClosedLabels, RecvLabels, SendLabels, CasLabels
<1> QED
  BY <1>1 DEF RefW, ClosedW, RecvW, SendW, SeerW, In

\* A slot whose threads keep what they hold keeps its part of the invariant.
LEMMA Elsewhere ==
  ASSUME TypeOK, TypeOK', NEW t \in Threads, Moves(t), NEW o \in Slots, SlotInv(o), Same(o),
         ses[t] = o => pc[t] \in Unbound,
         ses'[t] = o => pc'[t] \in Unbound,
         \A id \in accepted' : id \in accepted \/ id[1] # o
  PROVE  SlotInv(o)'
<1>1. Weighs(t, o)
  BY Weighed
<1>2. SlotNats(o)
  BY AllNats
<1>3. /\ On(ses[t] = o, RefW(t, pc[t])) = 0 /\ On(ses'[t] = o, RefW(t, pc'[t])) = 0
      /\ On(ses[t] = o, ClosedW(t, pc[t])) = 0 /\ On(ses'[t] = o, ClosedW(t, pc'[t])) = 0
      /\ On(ses[t] = o, RecvW(t, pc[t])) = 0 /\ On(ses'[t] = o, RecvW(t, pc'[t])) = 0
      /\ On(ses[t] = o, SendW(t, pc[t])) = 0 /\ On(ses'[t] = o, SendW(t, pc'[t])) = 0
      /\ On(ses[t] = o, SeerW(t, pc[t])) = 0 /\ On(ses'[t] = o, SeerW(t, pc'[t])) = 0
  BY UnboundWeight DEF On
<1>4. /\ ThreadRefs(o)' = ThreadRefs(o) /\ ThreadsClosed(o)' = ThreadsClosed(o)
      /\ ThreadsRecv(o)' = ThreadsRecv(o) /\ ThreadsSend(o)' = ThreadsSend(o)
      /\ Seers(o)' = Seers(o)
  BY <1>1, <1>2, <1>3 DEF Weighs, SlotNats
<1>5. IoRecv(o)' = IoRecv(o) /\ IoSend(o)' = IoSend(o) /\ IoClosed(o)' = IoClosed(o)
  BY DEF IoRecv, IoSend, IoClosed, Same
<1>6. AllRefs(o)' = AllRefs(o) /\ Places(o)' = Places(o)
  BY <1>4, <1>5 DEF AllRefs, Places
<1>7. Counted(o)' /\ Tokens(o)' /\ Seen(o)'
  BY <1>4, <1>5, <1>6 DEF SlotInv, Counted, Tokens, Seen, Same
<1>8. Flagged(o)'
  <2> SUFFICES ASSUME Places(o) = 1, ~(RELEASE_IOCOUNT <= mIOcnt'[o])
               PROVE  /\ mIOcnt'[o] = 0
                      /\ \A id \in accepted' : id[1] # o
                      /\ \A u \in Threads : ses'[u] = o => pc'[u] \notin CasLabels
    BY <1>6 DEF Flagged
  <2>1. /\ mIOcnt[o] = 0
        /\ \A id \in accepted : id[1] # o
        /\ \A u \in Threads : ses[u] = o => pc[u] \notin CasLabels
    BY DEF SlotInv, Flagged, Same
  <2>2. ses'[t] = o => pc'[t] \notin CasLabels
    BY UnboundWeight
  <2> QED
    BY <2>1, <2>2 DEF Same, Moves
<1> QED
  BY <1>7, <1>8 DEF SlotInv

\* Thread t stays on slot s: what the slot holds changes by what t does.
Stays(t, s) ==
  /\ ThreadRefs(s)' = ThreadRefs(s) - RefW(t, pc[t]) + RefW(t, pc'[t])
  /\ ThreadsClosed(s)' = ThreadsClosed(s) - ClosedW(t, pc[t]) + ClosedW(t, pc'[t])
  /\ ThreadsRecv(s)' = ThreadsRecv(s) - RecvW(t, pc[t]) + RecvW(t, pc'[t])
  /\ ThreadsSend(s)' = ThreadsSend(s) - SendW(t, pc[t]) + SendW(t, pc'[t])
  /\ Seers(s)' = Seers(s) - SeerW(t, pc[t]) + SeerW(t, pc'[t])
  /\ ThreadRefs(s) >= RefW(t, pc[t]) /\ ThreadsClosed(s) >= ClosedW(t, pc[t])
  /\ ThreadsRecv(s) >= RecvW(t, pc[t]) /\ ThreadsSend(s) >= SendW(t, pc[t])

LEMMA Staying ==
  ASSUME NEW t \in Threads, Moves(t), NEW s \in Slots, ses[t] = s, ses'[t] = s
  PROVE  Stays(t, s)
BY Weighed DEF Weighs, Holds, On, Stays

\* What a step of a thread on slot s leaves alone.
Local(t, s) == /\ Moves(t) /\ ses[t] = s /\ ses'[t] = s
               /\ \A o \in Slots : o # s => Same(o)
               /\ \A id \in accepted' : id \in accepted \/ id[1] = s
               /\ mStackSessionIdx' = mStackSessionIdx

LEMMA Packed ==
  ASSUME IInv, TypeOK', NEW t \in Threads, NEW s \in Slots, Local(t, s), SlotInv(s)'
  PROVE  IInv'
<1>1. \A o \in Slots : SlotInv(o)'
  <2> SUFFICES ASSUME NEW o \in Slots, o # s PROVE SlotInv(o)'
    OBVIOUS
  <2>1. ses[t] # o /\ ses'[t] # o /\ Moves(t) /\ Same(o)
    BY DEF Local
  <2>2. \A id \in accepted' : id \in accepted \/ id[1] # o
    BY DEF Local
  <2> QED
    BY <2>1, <2>2, Elsewhere DEF IInv
<1>2. OneTime'
  BY DEF IInv, OneTime, Local
<1> QED
  BY <1>1, <1>2 DEF IInv

\* Thread t at label l holds r references, c places, rv receive tokens and sd
\* send tokens, and is sr times about to look at a count of 0.
Has(t, l, r, c, rv, sd, sr) ==
  RefW(t, l) = r /\ ClosedW(t, l) = c /\ RecvW(t, l) = rv /\ SendW(t, l) = sd /\ SeerW(t, l) = sr

\* Labels of a worker whose only hold is the reference of its completion.
PlainLabels == {"lock", "lockCAS", "finLive", "finCancel", "dec", "recheck", "flagOn", "ioPending"}

LEMMA WorkerHas ==
  ASSUME NEW w \in Workers
  PROVE  /\ \A l \in PlainLabels  : Has(w, l, 1, 0, 0, 0, 0)
         /\ \A l \in RecvLabels   : Has(w, l, 1, 0, 1, 0, 0)
         /\ \A l \in SendLabels   : Has(w, l, 1, 0, 0, 1, 0)
         /\ \A l \in LockLabels   : Has(w, l, 2, 0, 0, 0, 0)
         /\ \A l \in ClosedLabels : Has(w, l, 0, 1, 0, 0, 0)
         /\ \A l \in Unbound      : Has(w, l, 0, 0, 0, 0, 0)
         /\ Has(w, "ioError", 2, 0, 0, 0, 0)
         /\ Has(w, "decCAS", 0, 0, 0, 0, 1)
<1>1. w \notin Contents
  BY NetworkLibAssumption
<1>2. \A l \in PlainLabels : Has(w, l, 1, 0, 0, 0, 0)
  BY <1>1 DEF Has, RefW, ClosedW, RecvW, SendW, SeerW, In, PlainLabels, RecvLabels, SendLabels,
              LockLabels, WorkLabels, ClosedLabels
<1>3. \A l \in RecvLabels : Has(w, l, 1, 0, 1, 0, 0)
  BY <1>1 DEF Has, RefW, ClosedW, RecvW, SendW, SeerW, In, RecvLabels, SendLabels,
              LockLabels, WorkLabels, ClosedLabels
<1>4. \A l \in SendLabels : Has(w, l, 1, 0, 0, 1, 0)
  BY <1>1 DEF Has, RefW, ClosedW, RecvW, SendW, SeerW, In, RecvLabels, SendLabels,
              LockLabels, WorkLabels, ClosedLabels
<1>5. \A l \in LockLabels : Has(w, l, 2, 0, 0, 0, 0)
  BY <1>1 DEF Has, RefW, ClosedW, RecvW, SendW, SeerW, In, RecvLabels, SendLabels,
              LockLabels, WorkLabels, ClosedLabels
<1>6. \A l \in ClosedLabels : Has(w, l, 0, 1, 0, 0, 0)
  BY <1>1 DEF Has, RefW, ClosedW, RecvW, SendW, SeerW, In, RecvLabels, SendLabels,
              LockLabels, WorkLabels, ClosedLabels
<1>7. \A l \in Unbound : Has(w, l, 0, 0, 0, 0, 0)
  BY UnboundWeight DEF Has
<1>8. Has(w, "ioError", 2, 0, 0, 0, 0) /\ Has(w, "decCAS", 0, 0, 0, 0, 1)
  BY <1>1 DEF Has, RefW, ClosedW, RecvW, SendW, SeerW, In, RecvLabels, SendLabels,
              LockLabels, WorkLabels, ClosedLabels
<1> QED
  BY <1>2, <1>3, <1>4, <1>5, <1>6, <1>7, <1>8

LEMMA ContentsHas ==
  ASSUME NEW c \in Contents
  PROVE  /\ \A l \in LockLabels : Has(c, l, 1, 0, 0, 0, 0)
         /\ \A l \in Unbound    : Has(c, l, 0, 0, 0, 0, 0)
         /\ Has(c, "lock", 0, 0, 0, 0, 0)
         /\ Has(c, "lockCAS", 0, 0, 0, 0, 1)
<1>1. c \notin Workers
  BY NetworkLibAssumption
<1>2. \A l \in LockLabels : Has(c, l, 1, 0, 0, 0, 0)
  BY <1>1 DEF Has, RefW, ClosedW, RecvW, SendW, SeerW, In, LockLabels
<1>3. \A l \in Unbound : Has(c, l, 0, 0, 0, 0, 0)
  BY UnboundWeight DEF Has
<1>4. Has(c, "lock", 0, 0, 0, 0, 0) /\ Has(c, "lockCAS", 0, 0, 0, 0, 1)
  BY <1>1 DEF Has, RefW, ClosedW, RecvW, SendW, SeerW, In, LockLabels
<1> QED
  BY <1>2, <1>3, <1>4

\* What SlotInv(s)' takes of slot s once the step is worked out in numbers.
LEMMA Settled ==
  ASSUME NEW s \in Slots, NEW r \in Nat, NEW c \in {0, 1},
         AllRefs(s)' = r, Places(s)' = c,
         c = 0 => mIOcnt'[s] = r, c = 1 => r = 0,
         c = 1 => RELEASE_IOCOUNT <= mIOcnt'[s],
         Tokens(s)',
         c = 0 /\ r = 0 => Seers(s)' > 0
  PROVE  SlotInv(s)'
<1>1. Counted(s)' /\ Flagged(s)' /\ Seen(s)'
  BY DEF Counted, Flagged, Seen
<1> QED
  BY <1>1 DEF SlotInv

\* A step that touches neither the system nor the port, and after which thread t
\* holds what it held, except that it may give up the right to receive or send.
LEMMA Quiet ==
  ASSUME Room, IInv, TypeOK', NEW t \in Threads, NEW s \in Slots, Local(t, s), Same(s),
         RefW(t, pc'[t]) = RefW(t, pc[t]), ClosedW(t, pc'[t]) = ClosedW(t, pc[t]),
         RecvW(t, pc'[t]) <= RecvW(t, pc[t]), SendW(t, pc'[t]) <= SendW(t, pc[t]),
         SeerW(t, pc'[t]) = SeerW(t, pc[t]),
         RefW(t, pc[t]) \in Nat, ClosedW(t, pc[t]) \in Nat, RecvW(t, pc[t]) \in Nat,
         SendW(t, pc[t]) \in Nat, SeerW(t, pc[t]) \in Nat,
         RecvW(t, pc'[t]) \in Nat, SendW(t, pc'[t]) \in Nat,
         RefW(t, pc[t]) > 0 \/ (accepted' = accepted /\ pc'[t] \notin CasLabels)
  PROVE  IInv'
<1>1. SlotInv(s) /\ SlotNats(s) /\ SlotNats(s)'
  BY AllNats, AllNatsNext DEF IInv
<1>2. Stays(t, s)
  BY Staying DEF Local
<1>3. IoRecv(s)' = IoRecv(s) /\ IoSend(s)' = IoSend(s) /\ IoClosed(s)' = IoClosed(s)
  BY DEF IoRecv, IoSend, IoClosed, Same
<1>4. /\ ThreadRefs(s)' = ThreadRefs(s) /\ ThreadsClosed(s)' = ThreadsClosed(s)
      /\ ThreadsRecv(s)' <= ThreadsRecv(s) /\ ThreadsSend(s)' <= ThreadsSend(s)
      /\ Seers(s)' = Seers(s)
  BY <1>1, <1>2 DEF Stays, SlotNats
<1>5. AllRefs(s)' = AllRefs(s) /\ Places(s)' = Places(s)
  BY <1>3, <1>4 DEF AllRefs, Places
<1>6. Counted(s)' /\ Seen(s)'
  BY <1>1, <1>4, <1>5 DEF SlotInv, Counted, Seen, Same
<1>7. Tokens(s)'
  BY <1>1, <1>3, <1>4 DEF SlotInv, Tokens, Same, SlotNats
<1>8. Flagged(s)'
  <2>1. CASE RefW(t, pc[t]) > 0
    <3>1. AllRefs(s) > 0
      BY <1>1, <1>2, <2>1 DEF Stays, AllRefs, SlotNats
    <3> QED
      BY <3>1, <1>1, <1>5 DEF SlotInv, Counted, Flagged
  <2>2. CASE accepted' = accepted /\ pc'[t] \notin CasLabels
    BY <2>2, <1>1, <1>5 DEF SlotInv, Flagged, Same, Local, Moves
  <2> QED
    BY <2>1, <2>2
<1> QED
  BY <1>6, <1>7, <1>8, Packed DEF SlotInv

\* The label a thread goes to, seen from the one it is at.
Softer(t, l) ==
  \/ pc[t] \in LockLabels /\ l \in LockLabels
  \/ /\ t \in Workers
     /\ \/ pc[t] \in PlainLabels  /\ l \in PlainLabels
        \/ pc[t] \in RecvLabels   /\ l \in RecvLabels \cup PlainLabels
        \/ pc[t] \in SendLabels   /\ l \in SendLabels \cup PlainLabels
        \/ pc[t] \in ClosedLabels /\ l \in ClosedLabels /\ accepted' = accepted

LEMMA Going ==
  ASSUME TypeOK, NEW t \in Threads, NEW l, Goto(t, l), ses' = ses
  PROVE  Moves(t) /\ pc'[t] = l /\ ses'[t] = ses[t] /\ ses[t] \in Slots
BY DEF TypeOK, Goto, Moves

LEMMA QuietStep ==
  ASSUME Room, IInv, TypeOK', NEW t \in Threads, NEW l, Goto(t, l), Softer(t, l),
         UNCHANGED <<mIOcnt, mSendFlag, kernel, iocp, mStackSessionIdx, ses>>,
         \A id \in accepted' : id \in accepted \/ id[1] = ses[t]
  PROVE  IInv'
<1> PICK s \in Slots : s = ses[t]
  BY Going DEF IInv
<1>1. Moves(t) /\ pc'[t] = l /\ ses'[t] = s
  BY Going DEF IInv
<1>2. \A o \in Slots : Same(o)
  BY DEF Same, OnStack
<1>3. Local(t, s)
  BY <1>1, <1>2 DEF Local
<1>4. CASE pc[t] \in LockLabels /\ l \in LockLabels
  <2>1. \/ Has(t, pc[t], 2, 0, 0, 0, 0) /\ Has(t, l, 2, 0, 0, 0, 0)
        \/ Has(t, pc[t], 1, 0, 0, 0, 0) /\ Has(t, l, 1, 0, 0, 0, 0)
    BY <1>4, WorkerHas, ContentsHas DEF Threads
  <2> QED
    BY <2>1, <1>1, <1>2, <1>3, Quiet DEF Has
<1>5. CASE /\ t \in Workers
           /\ \/ pc[t] \in PlainLabels  /\ l \in PlainLabels
              \/ pc[t] \in RecvLabels   /\ l \in RecvLabels \cup PlainLabels
              \/ pc[t] \in SendLabels   /\ l \in SendLabels \cup PlainLabels
  <2>1. \/ Has(t, pc[t], 1, 0, 0, 0, 0) /\ Has(t, l, 1, 0, 0, 0, 0)
        \/ Has(t, pc[t], 1, 0, 1, 0, 0) /\ Has(t, l, 1, 0, 1, 0, 0)
        \/ Has(t, pc[t], 1, 0, 1, 0, 0) /\ Has(t, l, 1, 0, 0, 0, 0)
        \/ Has(t, pc[t], 1, 0, 0, 1, 0) /\ Has(t, l, 1, 0, 0, 1, 0)
        \/ Has(t, pc[t], 1, 0, 0, 1, 0) /\ Has(t, l, 1, 0, 0, 0, 0)
    BY <1>5, WorkerHas
  <2> QED
    BY <2>1, <1>1, <1>2, <1>3, Quiet DEF Has
<1>6. CASE t \in Workers /\ pc[t] \in ClosedLabels /\ l \in ClosedLabels /\ accepted' = accepted
  <2>1. Has(t, pc[t], 0, 1, 0, 0, 0) /\ Has(t, l, 0, 1, 0, 0, 0)
    BY <1>6, WorkerHas
  <2>2. l \notin CasLabels
    BY <1>6 DEF ClosedLabels, CasLabels
  <2> QED
    BY <2>1, <2>2, <1>6, <1>1, <1>2, <1>3, Quiet DEF Has
<1> QED
  BY <1>4, <1>5, <1>6 DEF Softer

LEMMA QuietActions ==
  ASSUME Room, IInv, TypeOK', NEW w \in Workers,
         \/ FinLive(w) \/ AcceptLive(w) \/ OnAccept(w) \/ CompleteRecv(w) \/ RegisterRecv(w)
         \/ CompleteSend(w) \/ RegisterSend(w) \/ RereadQSize(w) \/ Recheck(w) \/ Dequeue(w)
         \/ SendLive(w) \/ OnRelease(w)
  PROVE  IInv'
<1> USE DEF session, pool, io, local, log
<1> w \in Threads
  BY DEF Threads
<1>1. CASE FinLive(w)
  <2>1. Softer(w, "finCancel")
    BY <1>1 DEF FinLive, Softer, PlainLabels
  <2> QED
    BY <1>1, <2>1, QuietStep DEF FinLive
<1>2. CASE AcceptLive(w)
  <2>1. Softer(w, "accCount")
    BY <1>2 DEF AcceptLive, Softer, ClosedLabels
  <2> QED
    BY <1>2, <2>1, QuietStep DEF AcceptLive
<1>3. CASE OnAccept(w)
  <2>1. Softer(w, "registerRecv")
    BY <1>3 DEF OnAccept, Softer, RecvLabels
  <2> QED
    BY <1>3, <2>1, QuietStep DEF OnAccept
<1>4. CASE CompleteRecv(w)
  <2>1. Softer(w, "registerRecv") /\ Softer(w, "lock")
    BY <1>4 DEF CompleteRecv, Softer, RecvLabels, PlainLabels
  <2>2. Goto(w, "registerRecv") \/ Goto(w, "lock")
    BY <1>4 DEF CompleteRecv, EnterDisconnect
  <2> QED
    BY <1>4, <2>1, <2>2, QuietStep DEF CompleteRecv
<1>5. CASE RegisterRecv(w)
  <2>1. Softer(w, "lock") /\ Softer(w, "WSARecv") /\ Softer(w, "dec")
    BY <1>5 DEF RegisterRecv, Softer, RecvLabels, PlainLabels
  <2>2. Goto(w, "lock") \/ Goto(w, "WSARecv") \/ Goto(w, "dec")
    BY <1>5 DEF RegisterRecv, EnterDisconnect
  <2> QED
    BY <1>5, <2>1, <2>2, QuietStep DEF RegisterRecv
<1>6. CASE CompleteSend(w)
  <2>1. Softer(w, "registerSend")
    BY <1>6 DEF CompleteSend, Softer, SendLabels
  <2> QED
    BY <1>6, <2>1, QuietStep DEF CompleteSend
<1>7. CASE RegisterSend(w)
  <2>1. Softer(w, "rereadQSize") /\ Softer(w, "flagOff") /\ Softer(w, "dequeue")
    BY <1>7 DEF RegisterSend, Softer, SendLabels
  <2>2. Goto(w, "rereadQSize") \/ Goto(w, "flagOff") \/ Goto(w, "dequeue")
    BY <1>7 DEF RegisterSend
  <2> QED
    BY <1>7, <2>1, <2>2, QuietStep DEF RegisterSend
<1>8. CASE RereadQSize(w)
  <2>1. Softer(w, "flagOff") /\ Softer(w, "dequeue")
    BY <1>8 DEF RereadQSize, Softer, SendLabels
  <2>2. Goto(w, "flagOff") \/ Goto(w, "dequeue")
    BY <1>8 DEF RereadQSize
  <2> QED
    BY <1>8, <2>1, <2>2, QuietStep DEF RereadQSize
<1>9. CASE Recheck(w)
  <2>1. Softer(w, "dec") /\ Softer(w, "flagOn")
    BY <1>9 DEF Recheck, Softer, PlainLabels
  <2>2. Goto(w, "dec") \/ Goto(w, "flagOn")
    BY <1>9 DEF Recheck
  <2> QED
    BY <1>9, <2>1, <2>2, QuietStep DEF Recheck
<1>10. CASE Dequeue(w)
  <2>1. Softer(w, "sendLive")
    BY <1>10 DEF Dequeue, Softer, SendLabels
  <2> QED
    BY <1>10, <2>1, QuietStep DEF Dequeue
<1>11. CASE SendLive(w)
  <2>1. Softer(w, "WSASend") /\ Softer(w, "dec")
    BY <1>11 DEF SendLive, Softer, SendLabels, PlainLabels
  <2>2. Goto(w, "WSASend") \/ Goto(w, "dec")
    BY <1>11 DEF SendLive
  <2> QED
    BY <1>11, <2>1, <2>2, QuietStep DEF SendLive
<1>12. CASE OnRelease(w)
  <2>1. Softer(w, "releaseSession")
    BY <1>12 DEF OnRelease, Softer, ClosedLabels
  <2> QED
    BY <1>12, <2>1, QuietStep DEF OnRelease
<1> QED
  BY <1>1, <1>2, <1>3, <1>4, <1>5, <1>6, <1>7, <1>8, <1>9, <1>10, <1>11, <1>12

LEMMA QuietLocks ==
  ASSUME Room, IInv, TypeOK', NEW t \in Threads,
         LockID(t) \/ EnQueueMsg(t) \/ DisconnectLive(t)
  PROVE  IInv'
<1> USE DEF session, pool, io, local, log
<1>1. CASE LockID(t)
  <2>1. Softer(t, "lockUndo") /\ Softer(t, "enqueue") /\ Softer(t, "discLive")
    BY <1>1 DEF LockID, Softer, LockLabels
  <2>2. Goto(t, "lockUndo") \/ Goto(t, "enqueue") \/ Goto(t, "discLive")
    BY <1>1 DEF LockID
  <2> QED
    BY <1>1, <2>1, <2>2, QuietStep DEF LockID
<1>2. CASE EnQueueMsg(t)
  <2>1. Softer(t, "postSend")
    BY <1>2 DEF EnQueueMsg, Softer, LockLabels
  <2> QED
    BY <1>2, <2>1, QuietStep DEF EnQueueMsg
<1>3. CASE DisconnectLive(t)
  <2>1. Softer(t, "discCancel")
    BY <1>3 DEF DisconnectLive, Softer, LockLabels
  <2> QED
    BY <1>3, <2>1, QuietStep DEF DisconnectLive
<1> QED
  BY <1>1, <1>2, <1>3

-----------------------------------------------------------------------------
(* Steps that change the count. *)

\* What is known where thread t goes from its label to l on slot s.
Facts(t, s, l) ==
  /\ Moves(t) /\ ses[t] = s /\ ses'[t] = s /\ pc'[t] = l /\ s \in Slots
  /\ SlotInv(s) /\ SlotNats(s) /\ SlotNats(s)' /\ Stays(t, s)
  /\ Places(s) \in {0, 1} /\ AllRefs(s) \in Nat /\ AllRefs(s) + 1 < RELEASE_IOCOUNT
  /\ Places(s) = 0 => mIOcnt[s] = AllRefs(s)
  /\ Places(s) = 1 => AllRefs(s) = 0
  /\ mIOcnt[s] >= 0

LEMMA Here ==
  ASSUME Room, IInv, TypeOK', NEW t \in Threads, NEW l, Goto(t, l), ses' = ses
  PROVE  \E s \in Slots : Facts(t, s, l)
<1> PICK s \in Slots : s = ses[t]
  BY Going DEF IInv
<1>1. Moves(t) /\ ses[t] = s /\ ses'[t] = s /\ pc'[t] = l
  BY Going DEF IInv
<1>2. SlotInv(s) /\ SlotNats(s) /\ SlotNats(s)' /\ Stays(t, s)
  BY <1>1, AllNats, AllNatsNext, Staying DEF IInv
<1>3. /\ Places(s) \in {0, 1} /\ AllRefs(s) \in Nat /\ AllRefs(s) + 1 < RELEASE_IOCOUNT
      /\ Places(s) = 0 => mIOcnt[s] = AllRefs(s)
      /\ Places(s) = 1 => AllRefs(s) = 0
      /\ mIOcnt[s] >= 0
  BY <1>2, CountInRange DEF IInv
<1> QED
  BY <1>1, <1>2, <1>3 DEF Facts

\* Only the count of s changes.
CountOnly(s) == /\ \A o \in Slots : o # s => mIOcnt'[o] = mIOcnt[o]
                /\ UNCHANGED <<mSendFlag, kernel, iocp, mStackSessionIdx, accepted>>

LEMMA CountLocal ==
  ASSUME NEW t \in Threads, NEW s, NEW l, Facts(t, s, l), CountOnly(s)
  PROVE  /\ Local(t, s)
         /\ IoRecv(s)' = IoRecv(s) /\ IoSend(s)' = IoSend(s) /\ IoClosed(s)' = IoClosed(s)
         /\ mSendFlag'[s] = mSendFlag[s]
<1>1. \A o \in Slots : o # s => Same(o)
  BY DEF Same, OnStack, CountOnly
<1>2. IoRecv(s)' = IoRecv(s) /\ IoSend(s)' = IoSend(s) /\ IoClosed(s)' = IoClosed(s)
  BY DEF IoRecv, IoSend, IoClosed, OnStack, CountOnly
<1> QED
  BY <1>1, <1>2 DEF Local, Facts, CountOnly

\* A reference is given up, with the count: whoever sees 0 goes for the CAS.
LEMMA GivenUp ==
  ASSUME Room, IInv, TypeOK', NEW t \in Threads, NEW s, NEW l, Facts(t, s, l), CountOnly(s),
         mIOcnt'[s] = Dec16(mIOcnt[s]),
         NEW r \in Nat, NEW q \in Nat,
         Has(t, pc[t], r + 1, 0, 0, 0, 0), Has(t, l, r, 0, 0, 0, q),
         r + q > 0 \/ mIOcnt'[s] # 0
  PROVE  IInv'
<1>1. /\ Local(t, s)
      /\ IoRecv(s)' = IoRecv(s) /\ IoSend(s)' = IoSend(s) /\ IoClosed(s)' = IoClosed(s)
      /\ mSendFlag'[s] = mSendFlag[s]
  BY CountLocal
<1>2. /\ ThreadRefs(s)' = ThreadRefs(s) - 1 /\ ThreadRefs(s) >= r + 1
      /\ ThreadsClosed(s)' = ThreadsClosed(s)
      /\ ThreadsRecv(s)' = ThreadsRecv(s) /\ ThreadsSend(s)' = ThreadsSend(s)
      /\ Seers(s)' = Seers(s) + q
  BY DEF Facts, Stays, Has, SlotNats
<1>3. AllRefs(s)' = AllRefs(s) - 1 /\ AllRefs(s) >= r + 1 /\ Places(s)' = Places(s)
  BY <1>1, <1>2 DEF AllRefs, Places, Facts, SlotNats
<1>4. Places(s) = 0 /\ mIOcnt[s] = AllRefs(s)
  BY <1>3 DEF Facts
<1>5. mIOcnt'[s] = mIOcnt[s] - 1
  BY <1>3, <1>4, NetworkLibAssumption DEF Dec16, Facts
<1>6. Tokens(s)'
  BY <1>1, <1>2 DEF Facts, SlotInv, Tokens
<1>7. AllRefs(s)' \in Nat /\ Places(s)' = 0 /\ mIOcnt'[s] = AllRefs(s)'
  BY <1>3, <1>4, <1>5 DEF Facts
<1>8. AllRefs(s)' = 0 => Seers(s)' > 0
  BY <1>2, <1>3, <1>7 DEF Facts, SlotNats
<1>9. SlotInv(s)'
  BY <1>6, <1>7, <1>8, Settled DEF Facts
<1> QED
  BY <1>1, <1>9, Packed DEF Facts

LEMMA Decs ==
  ASSUME Room, IInv, TypeOK', NEW w \in Workers, WorkerDec(w) \/ IoError(w)
  PROVE  IInv'
<1> USE DEF session, pool, io, local, log
<1> w \in Threads
  BY DEF Threads
<1>1. CASE WorkerDec(w)
  <2> PICK l \in {"decCAS", "GQCS"} :
        Goto(w, l) /\ (l = "decCAS" <=> Dec16(mIOcnt[ses[w]]) = 0)
    BY <1>1 DEF WorkerDec
  <2>1. PICK s \in Slots : Facts(w, s, l)
    BY <1>1, Here DEF WorkerDec
  <2>2. CountOnly(s) /\ mIOcnt'[s] = Dec16(mIOcnt[s])
    BY <1>1, <2>1 DEF WorkerDec, CountOnly, Facts, IInv, TypeOK
  <2>3. Has(w, pc[w], 1, 0, 0, 0, 0)
    BY <1>1, WorkerHas DEF WorkerDec, PlainLabels
  <2>4. CASE l = "decCAS"
    <3>1. Has(w, l, 0, 0, 0, 0, 1)
      BY <2>4, WorkerHas
    <3> QED
      BY <2>1, <2>2, <2>3, <3>1, GivenUp
  <2>5. CASE l = "GQCS"
    <3>1. Has(w, l, 0, 0, 0, 0, 0)
      BY <2>5, WorkerHas DEF Unbound
    <3>2. mIOcnt'[s] # 0
      BY <2>1, <2>2, <2>5 DEF Facts
    <3> QED
      BY <2>1, <2>2, <2>3, <3>1, <3>2, GivenUp
  <2> QED
    BY <2>4, <2>5
<1>2. CASE IoError(w)
  <2>1. PICK s \in Slots : Facts(w, s, "dec")
    BY <1>2, Here DEF IoError
  <2>2. CountOnly(s) /\ mIOcnt'[s] = Dec16(mIOcnt[s])
    BY <1>2, <2>1 DEF IoError, CountOnly, Facts, IInv, TypeOK
  <2>3. Has(w, pc[w], 2, 0, 0, 0, 0) /\ Has(w, "dec", 1, 0, 0, 0, 0)
    BY <1>2, WorkerHas DEF IoError, PlainLabels
  <2> QED
    BY <2>1, <2>2, <2>3, GivenUp
<1> QED
  BY <1>1, <1>2

LEMMA Undos ==
  ASSUME Room, IInv, TypeOK', NEW t \in Threads, LockUndo(t) \/ SessionUnLock(t)
  PROVE  IInv'
<1> USE DEF session, pool, io, local, log
<1>1. PICK l \in {"lockCAS", "dec", "idle"} :
        /\ Goto(t, l)
        /\ l = "dec" => t \in Workers
        /\ l = "idle" => t \in Contents
        /\ l # "lockCAS" => Dec16(mIOcnt[ses[t]]) # 0
  BY DEF LockUndo, SessionUnLock, Return, Threads
<1>2. PICK s \in Slots : Facts(t, s, l)
  BY <1>1, Here DEF LockUndo, SessionUnLock
<1>3. CountOnly(s) /\ mIOcnt'[s] = Dec16(mIOcnt[s])
  BY <1>2, SMTT(40) DEF LockUndo, SessionUnLock, CountOnly, Facts, IInv, TypeOK
<1>4. pc[t] \in LockLabels
  BY DEF LockUndo, SessionUnLock, LockLabels
<1>5. l # "lockCAS" => mIOcnt'[s] # 0
  BY <1>1, <1>2, <1>3 DEF Facts
<1>6. CASE t \in Workers
  <2>1. Has(t, pc[t], 2, 0, 0, 0, 0) /\ Has(t, l, 1, 0, 0, 0, 0)
    BY <1>1, <1>4, <1>6, WorkerHas, NetworkLibAssumption DEF PlainLabels
  <2> QED
    BY <1>2, <1>3, <2>1, GivenUp
<1>7. CASE t \in Contents
  <2>1. Has(t, pc[t], 1, 0, 0, 0, 0)
    BY <1>4, <1>7, ContentsHas
  <2>2. \/ l = "lockCAS" /\ Has(t, l, 0, 0, 0, 0, 1)
        \/ l = "idle" /\ Has(t, l, 0, 0, 0, 0, 0)
    BY <1>1, <1>7, ContentsHas, NetworkLibAssumption DEF Unbound
  <2> QED
    BY <1>2, <1>3, <1>5, <2>1, <2>2, GivenUp
<1> QED
  BY <1>6, <1>7 DEF Threads

LEMMA Lock ==
  ASSUME Room, IInv, TypeOK', NEW t \in Threads, SessionLock(t)
  PROVE  IInv'
<1> USE DEF session, pool, io, local, log
<1>1. PICK l \in {"lockID", "dec", "idle"} :
        /\ Goto(t, l)
        /\ l = "dec" => t \in Workers
        /\ l = "idle" => t \in Contents
        /\ l = "lockID" <=> ~ReleaseBit(Inc16(mIOcnt[ses[t]]))
  BY DEF SessionLock, Return, Threads
<1>2. PICK s \in Slots : Facts(t, s, l)
  BY <1>1, Here DEF SessionLock
<1>3. CountOnly(s) /\ mIOcnt'[s] = Inc16(mIOcnt[s])
  BY <1>2 DEF SessionLock, CountOnly, Facts, IInv, TypeOK
<1>4. /\ Local(t, s)
      /\ IoRecv(s)' = IoRecv(s) /\ IoSend(s)' = IoSend(s) /\ IoClosed(s)' = IoClosed(s)
      /\ mSendFlag'[s] = mSendFlag[s]
  BY <1>2, <1>3, CountLocal
<1>5. pc[t] = "lock" /\ mIOcnt[s] < MaxIOcnt /\ MaxIOcnt \in Nat /\ RELEASE_IOCOUNT \in Nat \ {0}
  BY <1>2, NetworkLibAssumption DEF SessionLock, Facts
<1>6. mIOcnt[s] + 1 < 2 * RELEASE_IOCOUNT /\ mIOcnt'[s] = mIOcnt[s] + 1
  BY <1>2, <1>3, <1>5 DEF Room, Inc16, Short, Facts, SlotNats
<1>7. l = "lockID" <=> mIOcnt[s] + 1 < RELEASE_IOCOUNT
  BY <1>1, <1>2, <1>3, <1>5, <1>6 DEF ReleaseBit, Facts, SlotNats
<1>8. CASE Places(s) = 0
  <2>1. l = "lockID" /\ mIOcnt[s] = AllRefs(s)
    BY <1>2, <1>7, <1>8 DEF Facts
  <2>2. \/ Has(t, pc[t], 1, 0, 0, 0, 0) /\ Has(t, l, 2, 0, 0, 0, 0)
        \/ Has(t, pc[t], 0, 0, 0, 0, 0) /\ Has(t, l, 1, 0, 0, 0, 0)
    BY <1>5, <2>1, WorkerHas, ContentsHas DEF Threads, PlainLabels, LockLabels
  <2>3. /\ ThreadRefs(s)' = ThreadRefs(s) + 1 /\ ThreadsClosed(s)' = ThreadsClosed(s)
        /\ ThreadsRecv(s)' = ThreadsRecv(s) /\ ThreadsSend(s)' = ThreadsSend(s)
    BY <1>2, <2>2 DEF Facts, Stays, Has, SlotNats
  <2>4. AllRefs(s)' = AllRefs(s) + 1 /\ Places(s)' = 0
    BY <1>2, <1>4, <1>8, <2>3 DEF AllRefs, Places, Facts, SlotNats
  <2>5. Tokens(s)'
    BY <1>2, <1>4, <2>3 DEF Facts, SlotInv, Tokens
  <2>6. SlotInv(s)'
    BY <1>2, <1>6, <2>1, <2>4, <2>5, Settled DEF Facts
  <2> QED
    BY <1>4, <2>6, Packed
<1>9. CASE Places(s) = 1
  <2>1. AllRefs(s) = 0 /\ RELEASE_IOCOUNT <= mIOcnt[s]
    BY <1>2, <1>5, <1>9 DEF Facts, SlotInv, Flagged, CasLabels
  <2>2. t \in Contents
    <3> SUFFICES ASSUME t \in Workers PROVE FALSE
      BY DEF Threads
    <3>1. Has(t, pc[t], 1, 0, 0, 0, 0)
      BY <1>5, WorkerHas DEF PlainLabels
    <3>2. ThreadRefs(s) >= 1
      BY <1>2, <3>1 DEF Facts, Stays, Has
    <3> QED
      BY <1>2, <2>1, <3>2 DEF Facts, SlotNats, AllRefs
  <2>3. l = "idle"
    <3>1. l # "lockID"
      BY <1>2, <1>5, <1>7, <2>1 DEF Facts, SlotNats
    <3>2. l # "dec"
      BY <1>1, <2>2, NetworkLibAssumption
    <3> QED
      BY <3>1, <3>2
  <2>4. Has(t, pc[t], 0, 0, 0, 0, 0) /\ Has(t, l, 0, 0, 0, 0, 0)
    BY <1>5, <2>2, <2>3, ContentsHas DEF Unbound
  <2>5. /\ ThreadRefs(s)' = ThreadRefs(s) /\ ThreadsClosed(s)' = ThreadsClosed(s)
        /\ ThreadsRecv(s)' = ThreadsRecv(s) /\ ThreadsSend(s)' = ThreadsSend(s)
    BY <1>2, <2>4 DEF Facts, Stays, Has, SlotNats
  <2>6. AllRefs(s)' = 0 /\ Places(s)' = 1
    BY <1>4, <1>9, <2>1, <2>5 DEF AllRefs, Places
  <2>7. Tokens(s)'
    BY <1>2, <1>4, <2>5 DEF Facts, SlotInv, Tokens
  <2>8. RELEASE_IOCOUNT <= mIOcnt'[s]
    BY <1>2, <1>5, <1>6, <2>1 DEF Facts, SlotNats
  <2>9. SlotInv(s)'
    BY <1>2, <2>6, <2>7, <2>8, Settled
  <2> QED
    BY <1>4, <2>9, Packed
<1> QED
  BY <1>2, <1>8, <1>9 DEF Facts

LEMMA CASes ==
  ASSUME Room, IInv, TypeOK', NEW t \in Threads,
         (t \in Workers /\ WorkerCAS(t)) \/ LockCAS(t)
  PROVE  IInv'
<1> USE DEF session, pool, io, local, log
<1>1. PICK l \in {"GQCS", "dec", "idle"} :
        /\ Goto(t, l) /\ pc[t] \in {"decCAS", "lockCAS"}
        /\ \/ pc[t] = "decCAS"  /\ l = "GQCS" /\ t \in Workers
           \/ pc[t] = "lockCAS" /\ l = "dec"  /\ t \in Workers
           \/ pc[t] = "lockCAS" /\ l = "idle" /\ t \in Contents
  BY DEF WorkerCAS, LockCAS, Return, Threads
<1>2. PICK s \in Slots : Facts(t, s, l)
  BY <1>1, Here DEF WorkerCAS, LockCAS
<1>3. pc[t] \in CasLabels /\ l \notin CasLabels
  BY <1>1 DEF CasLabels
<1>4. PICK r \in {0, 1}, q \in {0, 1} : Has(t, pc[t], r, 0, 0, 0, q) /\ Has(t, l, r, 0, 0, 0, 0)
  BY <1>1, WorkerHas, ContentsHas DEF PlainLabels, Unbound
<1>5. /\ ThreadRefs(s)' = ThreadRefs(s) /\ ThreadsClosed(s)' = ThreadsClosed(s)
      /\ ThreadsRecv(s)' = ThreadsRecv(s) /\ ThreadsSend(s)' = ThreadsSend(s)
  BY <1>2, <1>4 DEF Facts, Stays, Has, SlotNats
<1>6. RELEASE_IOCOUNT \in Nat \ {0}
  BY NetworkLibAssumption
<1>7. TryRelease(s) /\ UNCHANGED <<mSendFlag, kernel, mStackSessionIdx, accepted>>
  BY <1>2 DEF WorkerCAS, LockCAS, Facts
<1>8. Places(s) = 1 => RELEASE_IOCOUNT <= mIOcnt[s]
  BY <1>2, <1>3 DEF Facts, SlotInv, Flagged
<1>9. CASE mIOcnt[s] # 0
  <2>1. CountOnly(s) /\ mIOcnt'[s] = mIOcnt[s]
    BY <1>7, <1>9 DEF TryRelease, CountOnly
  <2>2. /\ Local(t, s)
        /\ IoRecv(s)' = IoRecv(s) /\ IoSend(s)' = IoSend(s) /\ IoClosed(s)' = IoClosed(s)
        /\ mSendFlag'[s] = mSendFlag[s]
    BY <1>2, <2>1, CountLocal
  <2>3. AllRefs(s)' = AllRefs(s) /\ Places(s)' = Places(s)
    BY <1>5, <2>2 DEF AllRefs, Places
  <2>4. Tokens(s)'
    BY <1>2, <1>5, <2>2 DEF Facts, SlotInv, Tokens
  <2>5. SlotInv(s)'
    BY <1>2, <1>8, <1>9, <2>1, <2>3, <2>4, Settled DEF Facts
  <2> QED
    BY <2>2, <2>5, Packed
<1>10. CASE mIOcnt[s] = 0
  <2>1. Places(s) = 0 /\ AllRefs(s) = 0
    BY <1>2, <1>6, <1>8, <1>10 DEF Facts
  <2>2. /\ mIOcnt' = [mIOcnt EXCEPT ![s] = RELEASE_IOCOUNT]
        /\ iocp' = [iocp EXCEPT ![s]["release"] = @ + 1]
    BY <1>7, <1>10 DEF TryRelease, Queued
  <2>3. /\ iocp'[s].recv = iocp[s].recv /\ iocp'[s].fin = iocp[s].fin
        /\ iocp'[s].send = iocp[s].send /\ iocp'[s].accept = iocp[s].accept
        /\ iocp'[s].release = iocp[s].release + 1 /\ mIOcnt'[s] = RELEASE_IOCOUNT
    BY <1>2, <2>2 DEF Facts, IInv, TypeOK, Completions
  <2>4. IoRecv(s)' = IoRecv(s) /\ IoSend(s)' = IoSend(s)
    BY <1>7, <2>3 DEF IoRecv, IoSend
  <2>5. IoClosed(s)' = IoClosed(s) + 1
    <3>1. /\ kernel[s].accept \in Nat /\ iocp[s].accept \in Nat /\ iocp[s].release \in Nat
      BY <1>2, FieldNats DEF Facts, IInv, FieldsOK
    <3>2. OnStack(s) \in Nat /\ OnStack(s)' = OnStack(s)
      BY <1>7 DEF OnStack
    <3> QED
      BY <1>7, <2>3, <3>1, <3>2 DEF IoClosed
  <2>6. \A o \in Slots : o # s => Same(o)
    BY <1>7, <2>2 DEF Same, OnStack, IInv, TypeOK
  <2>7. Local(t, s)
    BY <1>2, <1>7, <2>6 DEF Local, Facts
  <2>8. AllRefs(s)' = 0 /\ Places(s)' = 1
    BY <1>2, <1>5, <2>1, <2>4, <2>5 DEF AllRefs, Places, Facts, SlotNats
  <2>9. Tokens(s)'
    BY <1>2, <1>5, <1>7, <2>4 DEF Facts, SlotInv, Tokens
  <2>10. SlotInv(s)'
    BY <1>6, <2>3, <2>8, <2>9, Settled
  <2> QED
    BY <2>7, <2>10, Packed
<1> QED
  BY <1>9, <1>10

\* The slot opens: its worker turns the place into the first reference.
LEMMA Opens ==
  ASSUME Room, IInv, TypeOK', NEW w \in Workers, AcceptCount(w)
  PROVE  IInv'
<1> USE DEF session, pool, io, local, log
<1> w \in Threads
  BY DEF Threads
<1>1. PICK s \in Slots : Facts(w, s, "onAccept")
  BY Here DEF AcceptCount
<1>2. CountOnly(s) /\ mIOcnt'[s] = 1
  BY <1>1 DEF AcceptCount, CountOnly, Facts, IInv, TypeOK
<1>3. /\ Local(w, s)
      /\ IoRecv(s)' = IoRecv(s) /\ IoSend(s)' = IoSend(s) /\ IoClosed(s)' = IoClosed(s)
      /\ mSendFlag'[s] = mSendFlag[s]
  BY <1>1, <1>2, CountLocal
<1>4. Has(w, pc[w], 0, 1, 0, 0, 0) /\ Has(w, "onAccept", 1, 0, 1, 0, 0)
  BY WorkerHas DEF AcceptCount, ClosedLabels, RecvLabels
<1>5. /\ ThreadRefs(s)' = ThreadRefs(s) + 1 /\ ThreadsClosed(s)' = ThreadsClosed(s) - 1
      /\ ThreadsRecv(s)' = ThreadsRecv(s) + 1 /\ ThreadsSend(s)' = ThreadsSend(s)
      /\ ThreadsClosed(s) >= 1
  BY <1>1, <1>4 DEF Facts, Stays, Has, SlotNats
<1>6. Places(s) = 1 /\ AllRefs(s) = 0
  BY <1>1, <1>5 DEF Facts, Places, SlotNats
<1>7. AllRefs(s)' = 1 /\ Places(s)' = 0
  <2>1. Places(s)' = 0
    BY <1>1, <1>3, <1>5, <1>6 DEF Places, Facts, SlotNats
  <2>2. AllRefs(s)' = 1
    BY <1>1, <1>3, <1>5, <1>6 DEF AllRefs, Facts, SlotNats
  <2> QED
    BY <2>1, <2>2
<1>8. ThreadsRecv(s) <= ThreadRefs(s)
  BY <1>1, Included DEF Facts
<1>9. IoRecv(s) = 0 /\ ThreadsRecv(s) = 0
  BY <1>1, <1>6, <1>8 DEF AllRefs, Facts, SlotNats
<1>10. Tokens(s)'
  BY <1>1, <1>3, <1>5, <1>9 DEF Facts, SlotInv, Tokens, SlotNats
<1>11. SlotInv(s)'
  BY <1>2, <1>7, <1>10, Settled
<1> QED
  BY <1>3, <1>11, Packed

-----------------------------------------------------------------------------
(* Steps that move operations between the system and the port. *)

IoKept(s) == IoRecv(s)' = IoRecv(s) /\ IoSend(s)' = IoSend(s) /\ IoClosed(s)' = IoClosed(s)

LEMMA CancelKeeps ==
  ASSUME TypeOK, NEW s \in Slots, NEW ks, "send" \in ks, "accept" \notin ks, CancelIo(s, ks),
         mStackSessionIdx' = mStackSessionIdx
  PROVE  /\ IoKept(s)
         /\ \A o \in Slots : o # s => kernel'[o] = kernel[o] /\ iocp'[o] = iocp[o]
<1>1. FieldsOK(s)
  BY FieldNats
<1>2. /\ kernel'[s].accept = IF "accept" \in ks THEN 0 ELSE kernel[s].accept
      /\ kernel'[s].recv = IF "recv" \in ks THEN 0 ELSE kernel[s].recv
      /\ kernel'[s].send = 0
  BY DEF CancelIo, TypeOK, Ops
<1>3. /\ iocp'[s].fin = iocp[s].fin + (IF "recv" \in ks THEN kernel[s].recv ELSE 0)
      /\ iocp'[s].send = iocp[s].send + kernel[s].send
      /\ iocp'[s].recv = iocp[s].recv /\ iocp'[s].accept = iocp[s].accept
      /\ iocp'[s].release = iocp[s].release
  BY DEF CancelIo, TypeOK, Completions
<1>4. OnStack(s)' = OnStack(s)
  BY DEF OnStack
<1>5. IoKept(s)
  BY <1>1, <1>2, <1>3, <1>4 DEF IoKept, IoRecv, IoSend, IoClosed, FieldsOK
<1>6. \A o \in Slots : o # s => kernel'[o] = kernel[o] /\ iocp'[o] = iocp[o]
  BY DEF CancelIo, TypeOK
<1> QED
  BY <1>5, <1>6

\* Nothing is counted anew on slot s.
LEMMA SumsKept ==
  ASSUME NEW s \in Slots, SlotInv(s), IoKept(s),
         mIOcnt'[s] = mIOcnt[s], mSendFlag'[s] = mSendFlag[s], accepted' = accepted,
         ThreadRefs(s)' = ThreadRefs(s), ThreadsClosed(s)' = ThreadsClosed(s),
         ThreadsRecv(s)' = ThreadsRecv(s), ThreadsSend(s)' = ThreadsSend(s),
         Seers(s)' = Seers(s),
         \A t \in Threads : ses'[t] = s /\ pc'[t] \in CasLabels =>
                              ses[t] = s /\ pc[t] \in CasLabels
  PROVE  SlotInv(s)'
<1>1. AllRefs(s)' = AllRefs(s) /\ Places(s)' = Places(s)
  BY DEF AllRefs, Places, IoKept
<1>2. Counted(s)' /\ Tokens(s)' /\ Seen(s)'
  BY <1>1 DEF SlotInv, Counted, Tokens, Seen, IoKept
<1>3. Flagged(s)'
  BY <1>1 DEF SlotInv, Flagged
<1> QED
  BY <1>2, <1>3 DEF SlotInv

LEMMA Cancels ==
  ASSUME Room, IInv, TypeOK', NEW t \in Threads,
         (t \in Workers /\ (FinCancel(t) \/ IoPending(t))) \/ DisconnectCancel(t)
  PROVE  IInv'
<1> USE DEF session, pool, io, local, log
<1>1. PICK l \in {"dec", "unlock"} :
        /\ Goto(t, l)
        /\ \/ t \in Workers /\ pc[t] \in {"finCancel", "ioPending"} /\ l = "dec"
           \/ pc[t] = "discCancel" /\ l = "unlock"
  BY DEF FinCancel, IoPending, DisconnectCancel
<1>2. PICK s \in Slots : Facts(t, s, l)
  BY <1>1, Here DEF FinCancel, IoPending, DisconnectCancel
<1>3. UNCHANGED <<mIOcnt, mSendFlag, mStackSessionIdx, accepted>>
  BY DEF FinCancel, IoPending, DisconnectCancel
<1>4. \/ UNCHANGED <<kernel, iocp>>
      \/ CancelIo(s, {"send"}) \/ CancelIo(s, {"recv", "send"})
  BY <1>2 DEF FinCancel, IoPending, DisconnectCancel, Facts
<1>5. /\ IoKept(s)
      /\ \A o \in Slots : o # s => kernel'[o] = kernel[o] /\ iocp'[o] = iocp[o]
  <2>1. CASE UNCHANGED <<kernel, iocp>>
    BY <2>1, <1>3 DEF IoKept, IoRecv, IoSend, IoClosed, OnStack
  <2>2. CASE CancelIo(s, {"send"}) \/ CancelIo(s, {"recv", "send"})
    BY <2>2, <1>3, CancelKeeps DEF IInv
  <2> QED
    BY <1>4, <2>1, <2>2
<1>6. PICK r \in {1, 2} : Has(t, pc[t], r, 0, 0, 0, 0) /\ Has(t, l, r, 0, 0, 0, 0)
  BY <1>1, WorkerHas, ContentsHas DEF PlainLabels, LockLabels, Threads
<1>7. /\ ThreadRefs(s)' = ThreadRefs(s) /\ ThreadsClosed(s)' = ThreadsClosed(s)
      /\ ThreadsRecv(s)' = ThreadsRecv(s) /\ ThreadsSend(s)' = ThreadsSend(s)
      /\ Seers(s)' = Seers(s)
  BY <1>2, <1>6 DEF Facts, Stays, Has, SlotNats
<1>8. \A u \in Threads : ses'[u] = s /\ pc'[u] \in CasLabels =>
                          ses[u] = s /\ pc[u] \in CasLabels
  BY <1>1, <1>2 DEF Facts, Moves, CasLabels
<1>9. SlotInv(s)'
  BY <1>2, <1>3, <1>5, <1>7, <1>8, SumsKept DEF Facts
<1>10. \A o \in Slots : o # s => Same(o)
  BY <1>3, <1>5 DEF Same, OnStack
<1>11. Local(t, s)
  BY <1>2, <1>3, <1>10 DEF Local, Facts
<1> QED
  BY <1>9, <1>11, Packed

\* The system completes an operation, or a connection is reset.
LEMMA CompleteKeeps ==
  ASSUME TypeOK, NEW s \in Slots, mStackSessionIdx' = mStackSessionIdx,
         NEW k, NEW c, Complete(s, k, c),
         \/ k = "accept" /\ c = "accept"
         \/ k = "recv" /\ c \in {"recv", "fin"}
         \/ k = "send" /\ c = "send"
  PROVE  /\ IoKept(s)
         /\ \A o \in Slots : o # s => kernel'[o] = kernel[o] /\ iocp'[o] = iocp[o]
<1>1. FieldsOK(s)
  BY FieldNats
<1>2. \A j \in Ops : kernel'[s][j] = IF j = k THEN kernel[s][j] - 1 ELSE kernel[s][j]
  BY DEF Complete, TypeOK, Ops
<1>3. \A j \in Completions : iocp'[s][j] = IF j = c THEN iocp[s][j] + 1 ELSE iocp[s][j]
  BY DEF Complete, Queued, TypeOK, Completions
<1>4. OnStack(s)' = OnStack(s)
  BY DEF OnStack
<1>5. IoRecv(s)' = IoRecv(s)
  BY <1>1, <1>2, <1>3 DEF FieldsOK, IoRecv, Ops, Completions
<1>6. IoSend(s)' = IoSend(s)
  BY <1>1, <1>2, <1>3 DEF FieldsOK, IoSend, Ops, Completions
<1>7. IoClosed(s)' = IoClosed(s)
  BY <1>1, <1>2, <1>3, <1>4 DEF FieldsOK, IoClosed, OnStack, Ops, Completions
<1>8. \A o \in Slots : o # s => kernel'[o] = kernel[o] /\ iocp'[o] = iocp[o]
  BY DEF Complete, Queued, TypeOK
<1> QED
  BY <1>5, <1>6, <1>7, <1>8 DEF IoKept

LEMMA KernelSteps ==
  ASSUME IInv, TypeOK', NEW s \in Slots, KernelStep(s)
  PROVE  IInv'
<1> USE DEF session, pool, io, local, log
<1>1. /\ UNCHANGED <<mIOcnt, mSendFlag, mStackSessionIdx, accepted, pc, ses>>
      /\ TypeOK /\ OneTime
  BY DEF KernelStep, Connect, Received, ReceiveEnds, Sent, Reset, IInv
<1>2. \/ UNCHANGED <<kernel, iocp>>
      \/ Complete(s, "accept", "accept") \/ Complete(s, "recv", "recv")
      \/ Complete(s, "recv", "fin") \/ Complete(s, "send", "send")
  BY DEF KernelStep, Connect, Received, ReceiveEnds, Sent, Reset
<1>3. \A o \in Slots : IoKept(o)
  <2>1. CASE UNCHANGED <<kernel, iocp>>
    BY <2>1, <1>1 DEF IoKept, IoRecv, IoSend, IoClosed, OnStack
  <2>2. CASE ~UNCHANGED <<kernel, iocp>>
    <3>1. /\ IoKept(s)
          /\ \A o \in Slots : o # s => kernel'[o] = kernel[o] /\ iocp'[o] = iocp[o]
      BY <1>1, <1>2, <2>2, CompleteKeeps
    <3> QED
      BY <1>1, <3>1 DEF IoKept, IoRecv, IoSend, IoClosed, OnStack
  <2> QED
    BY <2>1, <2>2
<1>4. ASSUME NEW o \in Slots PROVE SlotInv(o)'
  <2>1. /\ ThreadRefs(o)' = ThreadRefs(o) /\ ThreadsClosed(o)' = ThreadsClosed(o)
        /\ ThreadsRecv(o)' = ThreadsRecv(o) /\ ThreadsSend(o)' = ThreadsSend(o)
        /\ Seers(o)' = Seers(o)
    BY <1>1 DEF ThreadRefs, ThreadsClosed, ThreadsRecv, ThreadsSend, Seers, Count, At
  <2> QED
    BY <1>1, <1>3, <2>1, SumsKept DEF IInv
<1>5. OneTime'
  BY <1>1 DEF OneTime
<1> QED
  BY <1>4, <1>5 DEF IInv

-----------------------------------------------------------------------------
(* The overlapped calls and the send flag. *)

\* A reference is taken on an open slot, by thread t on itself or by an
\* operation it starts; the tokens stay in number.
LEMMA Taken ==
  ASSUME Room, IInv, TypeOK', NEW t \in Threads, NEW s, NEW l, Facts(t, s, l), Local(t, s),
         mIOcnt'[s] = Inc16(mIOcnt[s]), ThreadRefs(s) >= 1,
         IoClosed(s)' = IoClosed(s), ThreadsClosed(s)' = ThreadsClosed(s),
         IoRecv(s)' + IoSend(s)' + ThreadRefs(s)' = IoRecv(s) + IoSend(s) + ThreadRefs(s) + 1,
         Tokens(s)'
  PROVE  IInv'
<1>1. AllRefs(s)' = AllRefs(s) + 1 /\ Places(s)' = Places(s) /\ AllRefs(s) >= 1
  BY DEF AllRefs, Places, Facts, SlotNats
<1>2. Places(s) = 0 /\ mIOcnt[s] = AllRefs(s)
  BY <1>1 DEF Facts
<1>3. mIOcnt'[s] = mIOcnt[s] + 1
  BY <1>2, NetworkLibAssumption DEF Inc16, Short, Facts
<1>4. SlotInv(s)'
  BY <1>1, <1>2, <1>3, Settled DEF Facts
<1> QED
  BY <1>4, Packed DEF Facts

LEMMA WSACalls ==
  ASSUME Room, IInv, TypeOK', NEW w \in Workers, WSARecv(w) \/ WSASend(w)
  PROVE  IInv'
<1> USE DEF session, pool, io, local, log
<1> w \in Threads
  BY DEF Threads
<1>1. PICK k \in {"recv", "send"} :
        /\ WSACall(w, k)
        /\ k = "recv" => pc[w] = "WSARecv"
        /\ k = "send" => pc[w] = "WSASend"
  BY DEF WSARecv, WSASend
<1>2. PICK l \in {"ioPending", "dec", "ioError"} : Goto(w, l)
  BY <1>1 DEF WSACall
<1>3. PICK s \in Slots : Facts(w, s, l)
  BY <1>1, <1>2, Here DEF WSACall
<1>4. UNCHANGED <<mSendFlag, mStackSessionIdx, accepted, ses>>
  BY <1>1 DEF WSACall
<1>5. /\ mIOcnt'[s] = Inc16(mIOcnt[s])
      /\ \A o \in Slots : o # s => mIOcnt'[o] = mIOcnt[o]
  BY <1>1, <1>3 DEF WSACall, Facts, IInv, TypeOK
<1>6. \/ kernel' = [kernel EXCEPT ![s][k] = @ + 1] /\ iocp' = iocp /\ l = "ioPending"
      \/ kernel' = kernel /\ iocp' = [iocp EXCEPT ![s][k] = @ + 1] /\ l = "dec"
      \/ kernel' = kernel /\ iocp' = iocp /\ l = "ioError"
  <2>1. pc'[w] = l /\ ses[w] = s
    BY <1>3 DEF Facts
  <2>2. pc \in [Threads -> Labels]
    BY DEF IInv, TypeOK
  <2> QED
    BY <1>1, <2>1, <2>2 DEF WSACall, Goto, Queued
<1>7. FieldsOK(s) /\ kernel \in [Slots -> [Ops -> Nat]] /\ iocp \in [Slots -> [Completions -> Nat]]
  BY <1>3, FieldNats DEF Facts, IInv, TypeOK
<1>8. \A o \in Slots : o # s => kernel'[o] = kernel[o] /\ iocp'[o] = iocp[o]
  BY <1>6, <1>7
<1>9. Local(w, s)
  BY <1>3, <1>4, <1>5, <1>8 DEF Local, Facts, Same, OnStack
<1>10. LET n == IF l = "ioError" THEN 0 ELSE 1 IN
       /\ IoRecv(s)' = IoRecv(s) + (IF k = "recv" THEN n ELSE 0)
       /\ IoSend(s)' = IoSend(s) + (IF k = "send" THEN n ELSE 0)
  <2>1. CASE l = "ioPending"
    <3>1. kernel' = [kernel EXCEPT ![s][k] = @ + 1] /\ iocp' = iocp
      BY <1>6, <2>1
    <3>2. /\ kernel'[s].recv = kernel[s].recv + (IF k = "recv" THEN 1 ELSE 0)
          /\ kernel'[s].send = kernel[s].send + (IF k = "send" THEN 1 ELSE 0)
      BY <1>7, <3>1 DEF Ops, FieldsOK
    <3>3. FieldsOK(s) /\ l # "ioError"
      BY <1>7, <2>1
    <3>4. IoRecv(s)' = IoRecv(s) + (IF k = "recv" THEN 1 ELSE 0)
      BY <3>1, <3>2, <3>3 DEF IoRecv, FieldsOK
    <3>5. IoSend(s)' = IoSend(s) + (IF k = "send" THEN 1 ELSE 0)
      BY <3>1, <3>2, <3>3 DEF IoSend, FieldsOK
    <3> QED
      BY <3>3, <3>4, <3>5
  <2>2. CASE l = "dec"
    <3>1. iocp' = [iocp EXCEPT ![s][k] = @ + 1] /\ kernel' = kernel
      BY <1>6, <2>2
    <3>2. /\ iocp'[s].recv = iocp[s].recv + (IF k = "recv" THEN 1 ELSE 0)
          /\ iocp'[s].send = iocp[s].send + (IF k = "send" THEN 1 ELSE 0)
          /\ iocp'[s].fin = iocp[s].fin
      BY <1>7, <3>1 DEF Completions, FieldsOK
    <3>3. FieldsOK(s) /\ l # "ioError"
      BY <1>7, <2>2
    <3>4. IoRecv(s)' = IoRecv(s) + (IF k = "recv" THEN 1 ELSE 0)
      BY <3>1, <3>2, <3>3 DEF IoRecv, FieldsOK
    <3>5. IoSend(s)' = IoSend(s) + (IF k = "send" THEN 1 ELSE 0)
      BY <3>1, <3>2, <3>3 DEF IoSend, FieldsOK
    <3> QED
      BY <3>3, <3>4, <3>5
  <2>3. CASE l = "ioError"
    <3>1. iocp' = iocp /\ kernel' = kernel
      BY <1>6, <2>3
    <3> QED
      BY <1>7, <2>3, <3>1 DEF IoRecv, IoSend, FieldsOK
  <2> QED
    BY <2>1, <2>2, <2>3
<1>11. IoClosed(s)' = IoClosed(s)
  <2>1. /\ kernel'[s].accept = kernel[s].accept
        /\ iocp'[s].accept = iocp[s].accept /\ iocp'[s].release = iocp[s].release
    BY <1>6, <1>7 DEF Ops, Completions
  <2>2. OnStack(s)' = OnStack(s)
    BY <1>4 DEF OnStack
  <2> QED
    BY <2>1, <2>2 DEF IoClosed
<1>12. /\ k = "recv" => Has(w, pc[w], 1, 0, 1, 0, 0)
       /\ k = "send" => Has(w, pc[w], 1, 0, 0, 1, 0)
       /\ l # "ioError" => Has(w, l, 1, 0, 0, 0, 0)
       /\ l = "ioError" => Has(w, l, 2, 0, 0, 0, 0)
  BY <1>1, WorkerHas DEF PlainLabels, RecvLabels, SendLabels
<1>13. /\ ThreadRefs(s)' = ThreadRefs(s) + (IF l = "ioError" THEN 1 ELSE 0)
       /\ ThreadRefs(s) >= 1 /\ ThreadsClosed(s)' = ThreadsClosed(s)
       /\ ThreadsRecv(s)' = ThreadsRecv(s) - (IF k = "recv" THEN 1 ELSE 0)
       /\ ThreadsSend(s)' = ThreadsSend(s) - (IF k = "send" THEN 1 ELSE 0)
  BY <1>3, <1>12 DEF Facts, Stays, Has, SlotNats
<1>14. IoRecv(s)' + IoSend(s)' + ThreadRefs(s)' = IoRecv(s) + IoSend(s) + ThreadRefs(s) + 1
  BY <1>3, <1>10, <1>13 DEF Facts, SlotNats
<1>15. Tokens(s)'
  BY <1>3, <1>4, <1>10, <1>13 DEF Facts, SlotNats, SlotInv, Tokens
<1> QED
  BY <1>3, <1>5, <1>9, <1>11, <1>13, <1>14, <1>15, Taken

\* The flag is taken, by a thread that holds a reference.
LEMMA Posts ==
  ASSUME Room, IInv, TypeOK', NEW t \in Threads,
         (t \in Workers /\ FlagOn(t)) \/ SendPost(t)
  PROVE  IInv'
<1> USE DEF session, pool, io, local, log
<1>1. PICK l \in {"dec", "unlock"} :
        /\ Goto(t, l)
        /\ \/ t \in Workers /\ pc[t] = "flagOn" /\ l = "dec"
           \/ pc[t] = "postSend" /\ l = "unlock"
  BY DEF FlagOn, SendPost
<1>2. CASE mSendFlag[ses[t]]
  <2>1. Softer(t, l)
    BY <1>1 DEF Softer, PlainLabels, LockLabels
  <2>2. UNCHANGED <<mIOcnt, mSendFlag, kernel, iocp, mStackSessionIdx, ses, accepted>>
    BY <1>2 DEF FlagOn, SendPost, PostSend
  <2> QED
    BY <1>1, <2>1, <2>2, QuietStep
<1>3. CASE ~mSendFlag[ses[t]]
  <2>1. PICK s \in Slots : Facts(t, s, l)
    BY <1>1, Here DEF FlagOn, SendPost
  <2>2. /\ mSendFlag' = [mSendFlag EXCEPT ![s] = TRUE]
        /\ mIOcnt' = [mIOcnt EXCEPT ![s] = Inc16(@)]
        /\ iocp' = [iocp EXCEPT ![s]["send"] = @ + 1]
        /\ UNCHANGED <<kernel, mStackSessionIdx, accepted>>
        /\ ~mSendFlag[s]
    BY <1>3, <2>1 DEF FlagOn, SendPost, PostSend, Queued, Facts
  <2>3. FieldsOK(s) /\ TypeOK
    BY <2>1, FieldNats DEF Facts, IInv
  <2>4. /\ mSendFlag'[s] = TRUE /\ mIOcnt'[s] = Inc16(mIOcnt[s])
        /\ \A o \in Slots : o # s => Same(o)
    BY <2>1, <2>2, <2>3 DEF TypeOK, Same, OnStack
  <2>5. /\ iocp'[s].recv = iocp[s].recv /\ iocp'[s].fin = iocp[s].fin
        /\ iocp'[s].accept = iocp[s].accept /\ iocp'[s].release = iocp[s].release
        /\ iocp'[s].send = iocp[s].send + 1
    BY <2>1, <2>2, <2>3 DEF TypeOK, Completions, Facts
  <2>6. IoRecv(s)' = IoRecv(s) /\ IoSend(s)' = IoSend(s) + 1 /\ IoClosed(s)' = IoClosed(s)
    BY <2>2, <2>3, <2>5 DEF IoRecv, IoSend, IoClosed, OnStack, FieldsOK
  <2>7. PICK r \in {1, 2} : Has(t, pc[t], r, 0, 0, 0, 0) /\ Has(t, l, r, 0, 0, 0, 0)
    BY <1>1, WorkerHas, ContentsHas DEF PlainLabels, LockLabels, Threads
  <2>8. /\ ThreadRefs(s)' = ThreadRefs(s) /\ ThreadsClosed(s)' = ThreadsClosed(s)
        /\ ThreadsRecv(s)' = ThreadsRecv(s) /\ ThreadsSend(s)' = ThreadsSend(s)
        /\ ThreadRefs(s) >= 1
    BY <2>1, <2>7 DEF Facts, Stays, Has, SlotNats
  <2>9. Tokens(s)'
    BY <2>1, <2>2, <2>4, <2>6, <2>8 DEF Facts, SlotNats, SlotInv, Tokens
  <2>10. IoRecv(s)' + IoSend(s)' + ThreadRefs(s)' = IoRecv(s) + IoSend(s) + ThreadRefs(s) + 1
    BY <2>1, <2>6, <2>8 DEF Facts, SlotNats
  <2>11. Local(t, s)
    BY <2>1, <2>2, <2>4 DEF Local, Facts
  <2> QED
    BY <2>1, <2>4, <2>6, <2>8, <2>9, <2>10, <2>11, Taken
<1> QED
  BY <1>2, <1>3

LEMMA FlagsOff ==
  ASSUME Room, IInv, TypeOK', NEW w \in Workers, FlagOff(w)
  PROVE  IInv'
<1> USE DEF session, pool, io, local, log
<1> w \in Threads
  BY DEF Threads
<1>1. PICK l \in {"recheck", "dec"} : Goto(w, l)
  BY DEF FlagOff
<1>2. PICK s \in Slots : Facts(w, s, l)
  BY <1>1, Here DEF FlagOff
<1>3. /\ UNCHANGED <<mIOcnt, kernel, iocp, mStackSessionIdx, accepted>>
      /\ mSendFlag'[s] = FALSE
      /\ \A o \in Slots : o # s => mSendFlag'[o] = mSendFlag[o]
  BY <1>2 DEF FlagOff, Facts, IInv, TypeOK
<1>4. Has(w, pc[w], 1, 0, 0, 1, 0) /\ Has(w, l, 1, 0, 0, 0, 0)
  BY WorkerHas DEF FlagOff, SendLabels, PlainLabels
<1>5. /\ ThreadRefs(s)' = ThreadRefs(s) /\ ThreadsClosed(s)' = ThreadsClosed(s)
      /\ ThreadsRecv(s)' = ThreadsRecv(s) /\ ThreadsSend(s)' = ThreadsSend(s) - 1
      /\ ThreadRefs(s) >= 1 /\ ThreadsSend(s) >= 1
  BY <1>2, <1>4 DEF Facts, Stays, Has, SlotNats
<1>6. IoKept(s)
  BY <1>3 DEF IoKept, IoRecv, IoSend, IoClosed, OnStack
<1>7. AllRefs(s)' = AllRefs(s) /\ Places(s)' = Places(s) /\ AllRefs(s) >= 1
  BY <1>2, <1>5, <1>6 DEF AllRefs, Places, IoKept, Facts, SlotNats
<1>8. Tokens(s)'
  BY <1>2, <1>3, <1>5, <1>6 DEF Facts, SlotNats, SlotInv, Tokens, IoKept
<1>9. SlotInv(s)'
  BY <1>2, <1>3, <1>7, <1>8, Settled DEF Facts
<1>10. Local(w, s)
  BY <1>2, <1>3 DEF Local, Facts, Same, OnStack
<1> QED
  BY <1>9, <1>10, Packed

LEMMA Releases ==
  ASSUME Room, IInv, TypeOK', NEW w \in Workers, ReleaseSession(w)
  PROVE  IInv'
<1> USE DEF session, pool, io, local, log
<1> w \in Threads
  BY DEF Threads
<1>1. PICK s \in Slots : Facts(w, s, "pushIdx")
  BY Here DEF ReleaseSession
<1>2. /\ UNCHANGED <<mIOcnt, kernel, iocp, mStackSessionIdx, accepted>>
      /\ \A o \in Slots : o # s => mSendFlag'[o] = mSendFlag[o]
  BY <1>1 DEF ReleaseSession, Facts, IInv, TypeOK
<1>3. Has(w, pc[w], 0, 1, 0, 0, 0) /\ Has(w, "pushIdx", 0, 1, 0, 0, 0)
  BY WorkerHas DEF ReleaseSession, ClosedLabels
<1>4. /\ ThreadRefs(s)' = ThreadRefs(s) /\ ThreadsClosed(s)' = ThreadsClosed(s)
      /\ ThreadsRecv(s)' = ThreadsRecv(s) /\ ThreadsSend(s)' = ThreadsSend(s)
      /\ Seers(s)' = Seers(s) /\ ThreadsClosed(s) >= 1
  BY <1>1, <1>3 DEF Facts, Stays, Has, SlotNats
<1>5. IoKept(s)
  BY <1>2 DEF IoKept, IoRecv, IoSend, IoClosed, OnStack
<1>6. AllRefs(s)' = AllRefs(s) /\ Places(s)' = Places(s)
  BY <1>4, <1>5 DEF AllRefs, Places, IoKept
<1>7. Places(s) = 1 /\ AllRefs(s) = 0
  BY <1>1, <1>4 DEF Facts, Places, SlotNats
<1>8. ThreadsSend(s) <= ThreadRefs(s)
  BY Included
<1>9. IoSend(s) = 0 /\ ThreadsSend(s) = 0
  BY <1>1, <1>7, <1>8 DEF AllRefs, Facts, SlotNats
<1>10. Tokens(s)'
  BY <1>1, <1>4, <1>5, <1>9 DEF Facts, SlotNats, SlotInv, Tokens, IoKept
<1>11. Flagged(s)'
  BY <1>1, <1>2, <1>7, <1>6 DEF Facts, SlotInv, Flagged, Moves, CasLabels
<1>12. Counted(s)' /\ Seen(s)'
  BY <1>6, <1>7 DEF Counted, Seen
<1>13. Local(w, s)
  BY <1>1, <1>2 DEF Local, Facts, Same, OnStack
<1> QED
  BY <1>10, <1>11, <1>12, <1>13, Packed DEF SlotInv

-----------------------------------------------------------------------------
(* The stack of free slots. *)

LEMMA Pushed ==
  ASSUME TypeOK, OneTime, NEW s \in Slots, StackPush(s), OnStack(s) = 0
  PROVE  /\ OneTime' /\ OnStack(s)' = 1
         /\ \A o \in Slots : o # s => OnStack(o)' = OnStack(o)
<1> DEFINE q == mStackSessionIdx
<1>1. q \in Seq(Slots) /\ q' = <<s>> \o q
  BY DEF TypeOK, StackPush
<1>2. /\ DOMAIN q = 1 .. Len(q) /\ DOMAIN q' = 1 .. (Len(q) + 1) /\ Len(q) \in Nat
      /\ q'[1] = s
      /\ \A i \in 1 .. Len(q) : q'[i + 1] = q[i]
  BY <1>1
<1>3. \A i \in 2 .. (Len(q) + 1) : i - 1 \in 1 .. Len(q) /\ q'[i] = q[i - 1]
  <2> TAKE i \in 2 .. (Len(q) + 1)
  <2>1. i - 1 \in 1 .. Len(q) /\ (i - 1) + 1 = i
    BY <1>2
  <2> QED
    BY <1>2, <2>1
<1>4. \A i \in 1 .. Len(q) : q[i] # s
  BY <1>2 DEF OnStack
<1> HIDE DEF q
<1>5. \A i, j \in DOMAIN q : q[i] = q[j] => i = j
  BY DEF OneTime, q
<1>6. \A i, j \in DOMAIN q' : q'[i] = q'[j] => i = j
  <2> SUFFICES ASSUME NEW i \in DOMAIN q', NEW j \in DOMAIN q', q'[i] = q'[j] PROVE i = j
    OBVIOUS
  <2>1. CASE i = 1 \/ j = 1
    BY <2>1, <1>2, <1>3, <1>4
  <2>2. CASE i # 1 /\ j # 1
    <3>1. i \in 2 .. (Len(q) + 1) /\ j \in 2 .. (Len(q) + 1)
      BY <2>2, <1>2
    <3>2. q[i - 1] = q[j - 1] /\ i - 1 \in DOMAIN q /\ j - 1 \in DOMAIN q
      BY <3>1, <1>2, <1>3
    <3>3. i - 1 = j - 1
      BY <3>2, <1>5
    <3> QED
      BY <3>1, <3>3
  <2> QED
    BY <2>1, <2>2
<1>7. 1 \in DOMAIN q'
  BY <1>2
<1>8. \A o \in Slots : o # s =>
        ((\E i \in DOMAIN q' : q'[i] = o) <=> (\E i \in DOMAIN q : q[i] = o))
  <2> SUFFICES ASSUME NEW o \in Slots, o # s
               PROVE  (\E i \in DOMAIN q' : q'[i] = o) <=> (\E i \in DOMAIN q : q[i] = o)
    OBVIOUS
  <2>1. ASSUME NEW i \in DOMAIN q', q'[i] = o PROVE \E j \in DOMAIN q : q[j] = o
    <3>1. i \in 2 .. (Len(q) + 1)
      BY <1>2, <2>1
    <3> QED
      BY <1>2, <1>3, <2>1, <3>1
  <2>2. ASSUME NEW i \in DOMAIN q, q[i] = o PROVE \E j \in DOMAIN q' : q'[j] = o
    <3>1. i + 1 \in DOMAIN q' /\ q'[i + 1] = o
      BY <1>2, <2>2
    <3> QED
      BY <3>1
  <2> QED
    BY <2>1, <2>2
<1>9. OneTime'
  BY <1>6 DEF OneTime, q
<1>10. OnStack(s)' = 1
  BY <1>2, <1>7 DEF OnStack, q
<1>11. \A o \in Slots : o # s => OnStack(o)' = OnStack(o)
  BY <1>8 DEF OnStack, q
<1> QED
  BY <1>9, <1>10, <1>11

LEMMA Popped ==
  ASSUME TypeOK, OneTime, mStackSessionIdx # <<>>,
         mStackSessionIdx' = Tail(mStackSessionIdx), NEW s, s = Head(mStackSessionIdx)
  PROVE  /\ s \in Slots /\ OneTime' /\ OnStack(s) = 1 /\ OnStack(s)' = 0
         /\ \A o \in Slots : o # s => OnStack(o)' = OnStack(o)
<1> DEFINE q == mStackSessionIdx
<1>1. q \in Seq(Slots) /\ q' = Tail(q) /\ q # <<>> /\ s = q[1]
  BY DEF TypeOK
<1>2. /\ DOMAIN q = 1 .. Len(q) /\ DOMAIN q' = 1 .. (Len(q) - 1) /\ Len(q) \in Nat \ {0}
      /\ \A i \in 1 .. (Len(q) - 1) : q'[i] = q[i + 1]
  BY <1>1
<1>3. s \in Slots /\ 1 \in DOMAIN q
  BY <1>1, <1>2
<1>4. \A i, j \in DOMAIN q : q[i] = q[j] => i = j
  BY DEF OneTime
<1> HIDE DEF q
<1>5. \A i \in DOMAIN q' : i + 1 \in DOMAIN q /\ i + 1 # 1 /\ q'[i] = q[i + 1]
  BY <1>2
<1>6. \A i, j \in DOMAIN q' : q'[i] = q'[j] => i = j
  <2> SUFFICES ASSUME NEW i \in DOMAIN q', NEW j \in DOMAIN q', q'[i] = q'[j] PROVE i = j
    OBVIOUS
  <2>1. i + 1 = j + 1
    BY <1>4, <1>5
  <2> QED
    BY <1>2, <2>1
<1>7. \A i \in DOMAIN q' : q'[i] # s
  BY <1>1, <1>3, <1>4, <1>5
<1>8. \A o \in Slots : o # s =>
        ((\E i \in DOMAIN q' : q'[i] = o) <=> (\E i \in DOMAIN q : q[i] = o))
  <2> SUFFICES ASSUME NEW o \in Slots, o # s
               PROVE  (\E i \in DOMAIN q' : q'[i] = o) <=> (\E i \in DOMAIN q : q[i] = o)
    OBVIOUS
  <2>1. ASSUME NEW i \in DOMAIN q', q'[i] = o PROVE \E j \in DOMAIN q : q[j] = o
    BY <1>5, <2>1
  <2>2. ASSUME NEW i \in DOMAIN q, q[i] = o PROVE \E j \in DOMAIN q' : q'[j] = o
    <3>1. i # 1
      BY <1>1, <2>2
    <3>2. i - 1 \in DOMAIN q' /\ (i - 1) + 1 = i
      BY <1>2, <2>2, <3>1
    <3> QED
      BY <1>5, <2>2, <3>2
  <2> QED
    BY <2>1, <2>2
<1>9. OneTime'
  BY <1>6 DEF OneTime, q
<1>10. OnStack(s) = 1 /\ OnStack(s)' = 0
  BY <1>1, <1>3, <1>7 DEF OnStack, q
<1>11. \A o \in Slots : o # s => OnStack(o)' = OnStack(o)
  BY <1>8 DEF OnStack, q
<1> QED
  BY <1>3, <1>9, <1>10, <1>11

\* A worker at a place of s lets go of it; the slot is in another place.
LEMMA Moved ==
  ASSUME Room, IInv, TypeOK', OneTime', NEW w \in Workers, NEW s, NEW l, Facts(w, s, l),
         pc[w] \in ClosedLabels, l \in Unbound,
         UNCHANGED <<mIOcnt, mSendFlag, accepted>>,
         IoRecv(s)' = IoRecv(s), IoSend(s)' = IoSend(s), IoClosed(s)' = IoClosed(s) + 1,
         \A o \in Slots : o # s => Same(o)
  PROVE  IInv'
<1>1. w \in Threads /\ s \in Slots /\ Moves(w) /\ ses[w] = s /\ ses'[w] = s /\ pc'[w] = l
  BY DEF Threads, Facts
<1>2. Has(w, pc[w], 0, 1, 0, 0, 0) /\ Has(w, l, 0, 0, 0, 0, 0)
  BY WorkerHas
<1>3. /\ ThreadRefs(s)' = ThreadRefs(s) /\ ThreadsClosed(s)' = ThreadsClosed(s) - 1
      /\ ThreadsRecv(s)' = ThreadsRecv(s) /\ ThreadsSend(s)' = ThreadsSend(s)
      /\ ThreadsClosed(s) >= 1
  BY <1>2 DEF Facts, Stays, Has, SlotNats
<1>4. AllRefs(s)' = AllRefs(s) /\ Places(s)' = Places(s) /\ Places(s) = 1
  BY <1>3 DEF AllRefs, Places, Facts, SlotNats
<1>5. Counted(s)' /\ Tokens(s)' /\ Seen(s)'
  BY <1>3, <1>4 DEF Facts, SlotInv, Counted, Tokens, Seen
<1>6. l \notin CasLabels
  BY DEF Unbound, CasLabels
<1>7. Flagged(s)'
  BY <1>1, <1>4, <1>6 DEF Facts, SlotInv, Flagged, Moves
<1>8. ASSUME NEW o \in Slots, o # s PROVE SlotInv(o)'
  BY <1>1, <1>8, Elsewhere DEF IInv
<1> QED
  BY <1>5, <1>7, <1>8 DEF SlotInv, IInv

LEMMA Places1 ==
  ASSUME Room, IInv, TypeOK', NEW w \in Workers, NEW s, NEW l, Facts(w, s, l),
         pc[w] \in ClosedLabels
  PROVE  IoClosed(s) = 0 /\ OnStack(s) = 0
<1>1. Has(w, pc[w], 0, 1, 0, 0, 0)
  BY WorkerHas
<1>2. ThreadsClosed(s) >= 1
  BY <1>1 DEF Facts, Stays, Has
<1>3. IoClosed(s) = 0
  BY <1>2 DEF Facts, Places, SlotNats
<1>4. FieldsOK(s) /\ OnStack(s) \in {0, 1}
  BY FieldNats DEF Facts, IInv, SlotNats
<1> QED
  BY <1>3, <1>4 DEF IoClosed, FieldsOK

LEMMA StackSums ==
  ASSUME TypeOK, NEW s \in Slots, StackPush(s), OneTime, OnStack(s) = 0,
         UNCHANGED <<mIOcnt, mSendFlag, kernel, iocp>>
  PROVE  /\ OneTime' /\ IoRecv(s)' = IoRecv(s) /\ IoSend(s)' = IoSend(s)
         /\ IoClosed(s)' = IoClosed(s) + 1
         /\ \A o \in Slots : o # s => Same(o)
<1>1. FieldsOK(s)
  BY FieldNats
<1>2. /\ OneTime' /\ OnStack(s)' = 1
      /\ \A o \in Slots : o # s => OnStack(o)' = OnStack(o)
  BY Pushed
<1>3. IoRecv(s)' = IoRecv(s) /\ IoSend(s)' = IoSend(s)
  BY DEF IoRecv, IoSend
<1>4. IoClosed(s)' = IoClosed(s) + 1
  BY <1>1, <1>2 DEF IoClosed, FieldsOK
<1> QED
  BY <1>2, <1>3, <1>4 DEF Same

LEMMA Pushes ==
  ASSUME Room, IInv, TypeOK', NEW w \in Workers, PushIdx(w) \/ AcceptEx(w)
  PROVE  IInv'
<1> USE DEF session, pool, io, local, log
<1> w \in Threads
  BY DEF Threads
<1>1. PICK l \in Unbound : Goto(w, l)
  BY DEF PushIdx, AcceptEx, Unbound
<1>2. PICK s \in Slots : Facts(w, s, l)
  BY <1>1, Here DEF PushIdx, AcceptEx
<1>3. pc[w] \in ClosedLabels
  BY DEF PushIdx, AcceptEx, ClosedLabels
<1>4. IoClosed(s) = 0 /\ OnStack(s) = 0
  BY <1>2, <1>3, Places1
<1>5. UNCHANGED <<mIOcnt, mSendFlag, iocp, accepted>> /\ TypeOK /\ OneTime
  BY DEF PushIdx, AcceptEx, IInv
<1>6. \/ StackPush(s) /\ kernel' = kernel
      \/ kernel' = [kernel EXCEPT ![s]["accept"] = @ + 1] /\ mStackSessionIdx' = mStackSessionIdx
  BY <1>2 DEF PushIdx, AcceptEx, Facts
<1>7. CASE StackPush(s) /\ kernel' = kernel
  <2>1. /\ OneTime' /\ IoRecv(s)' = IoRecv(s) /\ IoSend(s)' = IoSend(s)
        /\ IoClosed(s)' = IoClosed(s) + 1
        /\ \A o \in Slots : o # s => Same(o)
    BY <1>4, <1>5, <1>7, StackSums
  <2> QED
    BY <1>1, <1>2, <1>3, <1>5, <2>1, Moved
<1>8. CASE /\ kernel' = [kernel EXCEPT ![s]["accept"] = @ + 1]
           /\ mStackSessionIdx' = mStackSessionIdx
  <2>1. OneTime'
    BY <1>5, <1>8 DEF OneTime
  <2>2. FieldsOK(s)
    BY <1>5, FieldNats
  <2>3. /\ kernel'[s].accept = kernel[s].accept + 1
        /\ kernel'[s].recv = kernel[s].recv /\ kernel'[s].send = kernel[s].send
        /\ \A o \in Slots : o # s => kernel'[o] = kernel[o]
    BY <1>5, <1>8 DEF TypeOK, Ops
  <2>4. IoRecv(s)' = IoRecv(s) /\ IoSend(s)' = IoSend(s)
    BY <1>5, <2>3 DEF IoRecv, IoSend
  <2>5. OnStack(s)' = OnStack(s) /\ OnStack(s) \in Nat
    BY <1>8 DEF OnStack
  <2>6. IoClosed(s)' = IoClosed(s) + 1
    BY <1>5, <2>2, <2>3, <2>5 DEF IoClosed, FieldsOK
  <2>7. \A o \in Slots : o # s => Same(o)
    BY <1>5, <1>8, <2>3 DEF Same, OnStack
  <2> QED
    BY <1>1, <1>2, <1>3, <1>5, <2>1, <2>4, <2>6, <2>7, Moved
<1> QED
  BY <1>6, <1>7, <1>8

-----------------------------------------------------------------------------
(* Threads that come to a slot. *)

\* Thread t, bound to no slot, comes to s.
Comes(t, s, l) ==
  /\ ThreadRefs(s)' = ThreadRefs(s) + RefW(t, l)
  /\ ThreadsClosed(s)' = ThreadsClosed(s) + ClosedW(t, l)
  /\ ThreadsRecv(s)' = ThreadsRecv(s) + RecvW(t, l)
  /\ ThreadsSend(s)' = ThreadsSend(s) + SendW(t, l)
  /\ Seers(s)' = Seers(s) + SeerW(t, l)

LEMMA Coming ==
  ASSUME TypeOK, NEW t \in Threads, NEW s \in Slots, NEW l, pc[t] \in Unbound,
         Goto(t, l), ses' = [ses EXCEPT ![t] = s]
  PROVE  Moves(t) /\ ses'[t] = s /\ pc'[t] = l /\ Comes(t, s, l)
<1>1. Moves(t) /\ ses'[t] = s /\ pc'[t] = l
  BY DEF TypeOK, Goto, Moves
<1>2. Weighs(t, s) /\ SlotNats(s)
  BY <1>1, Weighed, AllNats
<1>3. /\ On(ses[t] = s, RefW(t, pc[t])) = 0 /\ On(ses[t] = s, ClosedW(t, pc[t])) = 0
      /\ On(ses[t] = s, RecvW(t, pc[t])) = 0 /\ On(ses[t] = s, SendW(t, pc[t])) = 0
      /\ On(ses[t] = s, SeerW(t, pc[t])) = 0
  BY UnboundWeight DEF On
<1>4. /\ On(ses'[t] = s, RefW(t, pc'[t])) = RefW(t, l)
      /\ On(ses'[t] = s, ClosedW(t, pc'[t])) = ClosedW(t, l)
      /\ On(ses'[t] = s, RecvW(t, pc'[t])) = RecvW(t, l)
      /\ On(ses'[t] = s, SendW(t, pc'[t])) = SendW(t, l)
      /\ On(ses'[t] = s, SeerW(t, pc'[t])) = SeerW(t, l)
  BY <1>1 DEF On
<1>5. Comes(t, s, l)
  BY <1>2, <1>3, <1>4 DEF Weighs, Comes, SlotNats
<1> QED
  BY <1>1, <1>5

LEMMA Arrived ==
  ASSUME IInv, TypeOK', OneTime', NEW t \in Threads, NEW s \in Slots, Moves(t), ses'[t] = s,
         pc[t] \in Unbound, accepted' = accepted,
         \A o \in Slots : o # s => Same(o),
         SlotInv(s)'
  PROVE  IInv'
<1>1. ASSUME NEW o \in Slots, o # s PROVE SlotInv(o)'
  BY <1>1, Elsewhere DEF IInv
<1> QED
  BY <1>1 DEF IInv

LEMMA Calls ==
  ASSUME Room, IInv, TypeOK', NEW t \in Contents, NEW id \in accepted,
         NEW o \in {"send", "disconnect"}, Call(t, id, o)
  PROVE  IInv'
<1> USE DEF session, pool, io, local, log
<1> t \in Threads
  BY DEF Threads
<1>1. PICK s \in Slots : s = id[1]
  BY DEF IInv, TypeOK
<1>2. TypeOK /\ pc[t] \in Unbound /\ Goto(t, "lock") /\ ses' = [ses EXCEPT ![t] = s]
  BY <1>1 DEF Call, IInv, Unbound
<1>3. Moves(t) /\ ses'[t] = s /\ pc'[t] = "lock" /\ Comes(t, s, "lock")
  BY <1>2, Coming
<1>4. Has(t, "lock", 0, 0, 0, 0, 0)
  BY ContentsHas
<1>5. SlotInv(s) /\ SlotNats(s)
  BY <1>2, AllNats DEF IInv
<1>6. /\ ThreadRefs(s)' = ThreadRefs(s) /\ ThreadsClosed(s)' = ThreadsClosed(s)
      /\ ThreadsRecv(s)' = ThreadsRecv(s) /\ ThreadsSend(s)' = ThreadsSend(s)
      /\ Seers(s)' = Seers(s)
  BY <1>3, <1>4, <1>5 DEF Comes, Has, SlotNats
<1>7. UNCHANGED <<mIOcnt, mSendFlag, kernel, iocp, mStackSessionIdx, accepted>>
  BY DEF Call
<1>8. IoKept(s) /\ \A u \in Slots : Same(u)
  BY <1>7 DEF IoKept, IoRecv, IoSend, IoClosed, OnStack, Same
<1>9. AllRefs(s)' = AllRefs(s) /\ Places(s)' = Places(s)
  BY <1>6, <1>8 DEF AllRefs, Places, IoKept
<1>10. Counted(s)' /\ Tokens(s)' /\ Seen(s)'
  BY <1>5, <1>6, <1>7, <1>8, <1>9 DEF SlotInv, Counted, Tokens, Seen, IoKept
<1>11. Flagged(s)'
  BY <1>1, <1>5, <1>7, <1>9 DEF SlotInv, Flagged
<1>12. OneTime'
  BY <1>7 DEF IInv, OneTime
<1> QED
  BY <1>2, <1>3, <1>7, <1>8, <1>10, <1>11, <1>12, Arrived DEF SlotInv

LEMMA Takes ==
  ASSUME Room, IInv, TypeOK', NEW w \in Workers, NEW s \in Slots, NEW k \in Completions,
         TakeCompletion(w, s, k)
  PROVE  IInv'
<1> USE DEF session, pool, io, local, log
<1> w \in Threads
  BY DEF Threads
<1> DEFINE l == Entry(k)
<1>1. TypeOK /\ pc[w] \in Unbound /\ Goto(w, l) /\ ses' = [ses EXCEPT ![w] = s]
  BY DEF TakeCompletion, IInv, Unbound
<1> HIDE DEF l
<1>2. Moves(w) /\ ses'[w] = s /\ pc'[w] = l /\ Comes(w, s, l)
  BY <1>1, Coming
<1>3. SlotInv(s) /\ SlotNats(s) /\ FieldsOK(s)
  BY <1>1, AllNats, FieldNats DEF IInv
<1>4. UNCHANGED <<mIOcnt, mSendFlag, kernel, mStackSessionIdx, accepted>>
  BY DEF TakeCompletion
<1>5. /\ iocp[s][k] > 0
      /\ \A j \in Completions : iocp'[s][j] = IF j = k THEN iocp[s][j] - 1 ELSE iocp[s][j]
      /\ \A o \in Slots : o # s => iocp'[o] = iocp[o]
  BY <1>1 DEF TakeCompletion, TypeOK
<1>6. /\ k = "accept"  => l = "accLive"
      /\ k = "recv"    => l = "completeRecv"
      /\ k = "fin"     => l = "finLive"
      /\ k = "send"    => l = "completeSend"
      /\ k = "release" => l = "onRelease"
  BY DEF l, Entry
<1>7. /\ k \in {"accept", "release"} => Has(w, l, 0, 1, 0, 0, 0)
      /\ k = "recv" => Has(w, l, 1, 0, 1, 0, 0)
      /\ k = "fin"  => Has(w, l, 1, 0, 0, 0, 0)
      /\ k = "send" => Has(w, l, 1, 0, 0, 1, 0)
  BY <1>6, WorkerHas DEF ClosedLabels, RecvLabels, PlainLabels, SendLabels
<1>8. OnStack(s)' = OnStack(s)
  BY <1>4 DEF OnStack
<1>9. /\ IoRecv(s)' = IoRecv(s) - (IF k \in {"recv", "fin"} THEN 1 ELSE 0)
      /\ IoRecv(s) >= (IF k \in {"recv", "fin"} THEN 1 ELSE 0)
  BY <1>3, <1>4, <1>5 DEF IoRecv, FieldsOK, Completions
<1>10. /\ IoSend(s)' = IoSend(s) - (IF k = "send" THEN 1 ELSE 0)
       /\ IoSend(s) >= (IF k = "send" THEN 1 ELSE 0)
  BY <1>3, <1>4, <1>5 DEF IoSend, FieldsOK, Completions
<1>11. /\ IoClosed(s)' = IoClosed(s) - (IF k \in {"accept", "release"} THEN 1 ELSE 0)
       /\ IoClosed(s) >= (IF k \in {"accept", "release"} THEN 1 ELSE 0)
  BY <1>3, <1>4, <1>5, <1>8 DEF IoClosed, FieldsOK, Completions, SlotNats
<1>12. k \in {"accept", "recv", "fin", "send", "release"}
  BY DEF Completions
<1>13. /\ ThreadRefs(s)' = ThreadRefs(s) + (IF k \in {"recv", "fin", "send"} THEN 1 ELSE 0)
       /\ ThreadsClosed(s)' = ThreadsClosed(s) + (IF k \in {"accept", "release"} THEN 1 ELSE 0)
       /\ ThreadsRecv(s)' = ThreadsRecv(s) + (IF k = "recv" THEN 1 ELSE 0)
       /\ ThreadsSend(s)' = ThreadsSend(s) + (IF k = "send" THEN 1 ELSE 0)
       /\ Seers(s)' = Seers(s)
  BY <1>2, <1>3, <1>7, <1>12 DEF Comes, Has, SlotNats
<1>14. Places(s)' = Places(s)
  BY <1>3, <1>11, <1>13 DEF Places, SlotNats
<1>15. AllRefs(s)' = AllRefs(s)
  BY <1>3, <1>9, <1>10, <1>12, <1>13 DEF AllRefs, SlotNats
<1>16. Counted(s)' /\ Seen(s)'
  BY <1>3, <1>4, <1>13, <1>14, <1>15 DEF SlotInv, Counted, Seen
<1>17. Tokens(s)'
  BY <1>3, <1>4, <1>9, <1>10, <1>12, <1>13 DEF SlotInv, Tokens, SlotNats
<1>18. l \notin CasLabels
  BY <1>6, <1>12 DEF CasLabels
<1>19. Flagged(s)'
  BY <1>2, <1>3, <1>4, <1>14, <1>18 DEF SlotInv, Flagged, Moves
<1>20. \A o \in Slots : o # s => Same(o)
  BY <1>4, <1>5 DEF Same, OnStack
<1>21. OneTime'
  BY <1>4 DEF IInv, OneTime
<1> QED
  BY <1>1, <1>2, <1>4, <1>16, <1>17, <1>19, <1>20, <1>21, Arrived DEF SlotInv

LEMMA Registers ==
  ASSUME Room, IInv, TypeOK', NEW w \in Workers, RegisterAcceptEx(w)
  PROVE  IInv'
<1> USE DEF session, pool, io, local, log
<1> w \in Threads
  BY DEF Threads
<1>1. /\ TypeOK /\ OneTime /\ pc[w] \in Unbound
      /\ UNCHANGED <<mIOcnt, mSendFlag, kernel, iocp, accepted>>
  BY DEF RegisterAcceptEx, IInv, Unbound
<1>2. CASE mStackSessionIdx = <<>>
  <2>1. Goto(w, "GQCS") /\ ses' = ses /\ mStackSessionIdx' = mStackSessionIdx
    BY <1>2 DEF RegisterAcceptEx
  <2>2. Moves(w) /\ pc'[w] = "GQCS" /\ "GQCS" \in Unbound
    BY <1>1, <2>1, Going DEF Unbound
  <2>3. ASSUME NEW o \in Slots PROVE SlotInv(o)'
    <3>1. Same(o)
      BY <1>1, <2>1 DEF Same, OnStack
    <3> QED
      BY <1>1, <2>2, <3>1, Elsewhere DEF IInv
  <2>4. OneTime'
    BY <1>1, <2>1 DEF OneTime
  <2> QED
    BY <2>3, <2>4 DEF IInv
<1>3. CASE mStackSessionIdx # <<>>
  <2>1. PICK s : s = Head(mStackSessionIdx)
    OBVIOUS
  <2>2. /\ mStackSessionIdx' = Tail(mStackSessionIdx)
        /\ ses' = [ses EXCEPT ![w] = s] /\ Goto(w, "acceptEx")
    BY <1>3, <2>1 DEF RegisterAcceptEx
  <2>3. /\ s \in Slots /\ OneTime' /\ OnStack(s) = 1 /\ OnStack(s)' = 0
        /\ \A o \in Slots : o # s => OnStack(o)' = OnStack(o)
    BY <1>1, <1>3, <2>1, <2>2, Popped
  <2>4. Moves(w) /\ ses'[w] = s /\ pc'[w] = "acceptEx" /\ Comes(w, s, "acceptEx")
    BY <1>1, <2>2, <2>3, Coming
  <2>5. Has(w, "acceptEx", 0, 1, 0, 0, 0)
    BY WorkerHas DEF ClosedLabels
  <2>6. SlotInv(s) /\ SlotNats(s) /\ FieldsOK(s)
    BY <1>1, <2>3, AllNats, FieldNats DEF IInv
  <2>7. /\ ThreadRefs(s)' = ThreadRefs(s) /\ ThreadsClosed(s)' = ThreadsClosed(s) + 1
        /\ ThreadsRecv(s)' = ThreadsRecv(s) /\ ThreadsSend(s)' = ThreadsSend(s)
        /\ Seers(s)' = Seers(s)
    BY <2>4, <2>5, <2>6 DEF Comes, Has, SlotNats
  <2>8. IoRecv(s)' = IoRecv(s) /\ IoSend(s)' = IoSend(s)
    BY <1>1 DEF IoRecv, IoSend
  <2>9. IoClosed(s)' = IoClosed(s) - 1
    BY <1>1, <2>3, <2>6 DEF IoClosed, FieldsOK
  <2>10. Places(s)' = Places(s) /\ AllRefs(s)' = AllRefs(s)
    BY <2>6, <2>7, <2>8, <2>9 DEF Places, AllRefs, SlotNats
  <2>11. Counted(s)' /\ Tokens(s)' /\ Seen(s)'
    BY <1>1, <2>6, <2>7, <2>8, <2>10 DEF SlotInv, Counted, Tokens, Seen
  <2>12. Flagged(s)'
    BY <1>1, <2>4, <2>6, <2>10 DEF SlotInv, Flagged, Moves, CasLabels
  <2>13. \A o \in Slots : o # s => Same(o)
    BY <1>1, <2>3 DEF Same
  <2> QED
    BY <1>1, <2>3, <2>4, <2>11, <2>12, <2>13, Arrived DEF SlotInv
<1> QED
  BY <1>2, <1>3

-----------------------------------------------------------------------------
(* The invariant holds, and with it what the runs check. *)

LEMMA InitInv == Init => IInv
<1> SUFFICES ASSUME Init PROVE IInv
  OBVIOUS
<1>1. TypeOK
  BY InitType
<1>2. OneTime
  BY DEF Init, OneTime
<1>3. \A t \in Threads : pc[t] \in Unbound
  BY DEF Init, Unbound
<1>4. ASSUME NEW s \in Slots PROVE SlotInv(s)
  <2>1. \A T \in SUBSET Threads : \A L : L \cap Unbound = {} => Count(T, L, s) = 0
    <3> SUFFICES ASSUME NEW T \in SUBSET Threads, NEW L, L \cap Unbound = {}
                 PROVE  Count(T, L, s) = 0
      OBVIOUS
    <3>1. At(T, L, s) = {}
      BY <1>3 DEF At
    <3> QED
      BY <3>1, FS_EmptySet DEF Count
  <2>2. /\ WorkLabels \cap Unbound = {} /\ LockLabels \cap Unbound = {}
        /\ {"ioError"} \cap Unbound = {} /\ ClosedLabels \cap Unbound = {}
        /\ RecvLabels \cap Unbound = {} /\ SendLabels \cap Unbound = {}
    BY DEF Unbound, WorkLabels, LockLabels, ClosedLabels, RecvLabels, SendLabels
  <2>3. ThreadRefs(s) = 0 /\ ThreadsClosed(s) = 0 /\ ThreadsRecv(s) = 0 /\ ThreadsSend(s) = 0
    BY <2>1, <2>2 DEF ThreadRefs, ThreadsClosed, ThreadsRecv, ThreadsSend, Threads
  <2>4. OnStack(s) = 0
    BY DEF Init, OnStack
  <2>5. /\ kernel[s].accept = 1 /\ kernel[s].recv = 0 /\ kernel[s].send = 0
        /\ \A c \in Completions : iocp[s][c] = 0
    BY DEF Init, Ops
  <2>6. IoRecv(s) = 0 /\ IoSend(s) = 0 /\ IoClosed(s) = 1
    BY <2>4, <2>5 DEF IoRecv, IoSend, IoClosed, Completions
  <2>7. AllRefs(s) = 0 /\ Places(s) = 1
    BY <2>3, <2>6 DEF AllRefs, Places
  <2>8. Counted(s) /\ Tokens(s) /\ Seen(s)
    BY <2>3, <2>6, <2>7 DEF Counted, Tokens, Seen
  <2>9. mIOcnt[s] = 0 /\ accepted = {}
    BY DEF Init
  <2>10. \A t \in Threads : pc[t] \notin CasLabels
    BY <1>3 DEF Unbound, CasLabels
  <2>11. Flagged(s)
    BY <2>9, <2>10 DEF Flagged
  <2> QED
    BY <2>8, <2>11 DEF SlotInv
<1> QED
  BY <1>1, <1>2, <1>4 DEF IInv

LEMMA NextInv == Room /\ IInv /\ [Next]_vars => IInv'
<1> SUFFICES ASSUME Room, IInv, [Next]_vars PROVE IInv'
  OBVIOUS
<1>1. TypeOK'
  BY NextType DEF IInv
<1>2. CASE UNCHANGED vars
  <2>1. UNCHANGED <<mIOcnt, mSendFlag, mStackSessionIdx, accepted, kernel, iocp, pc, ses>>
    BY <1>2 DEF vars, session, pool, io, local, log
  <2>2. ASSUME NEW o \in Slots PROVE SlotInv(o)'
    <3>1. IoKept(o)
      BY <2>1 DEF IoKept, IoRecv, IoSend, IoClosed, OnStack
    <3>2. /\ ThreadRefs(o)' = ThreadRefs(o) /\ ThreadsClosed(o)' = ThreadsClosed(o)
          /\ ThreadsRecv(o)' = ThreadsRecv(o) /\ ThreadsSend(o)' = ThreadsSend(o)
          /\ Seers(o)' = Seers(o)
      BY <2>1 DEF ThreadRefs, ThreadsClosed, ThreadsRecv, ThreadsSend, Seers, Count, At
    <3> QED
      BY <2>1, <3>1, <3>2, SumsKept DEF IInv
  <2>3. OneTime'
    BY <2>1 DEF IInv, OneTime
  <2> QED
    BY <1>1, <2>2, <2>3 DEF IInv
<1>3. ASSUME NEW w \in Workers, WorkerStep(w) PROVE IInv'
  <2>1. w \in Threads
    BY DEF Threads
  <2>2. CASE \/ FinLive(w) \/ AcceptLive(w) \/ OnAccept(w) \/ CompleteRecv(w) \/ RegisterRecv(w)
             \/ CompleteSend(w) \/ RegisterSend(w) \/ RereadQSize(w) \/ Recheck(w) \/ Dequeue(w)
             \/ SendLive(w) \/ OnRelease(w)
    BY <1>1, <2>2, QuietActions
  <2>3. CASE FinCancel(w) \/ IoPending(w)
    BY <1>1, <2>1, <2>3, Cancels
  <2>4. CASE WorkerDec(w) \/ IoError(w)
    BY <1>1, <2>4, Decs
  <2>5. CASE WorkerCAS(w)
    BY <1>1, <2>1, <2>5, CASes
  <2>6. CASE AcceptCount(w)
    BY <1>1, <2>6, Opens
  <2>7. CASE WSARecv(w) \/ WSASend(w)
    BY <1>1, <2>7, WSACalls
  <2>8. CASE FlagOff(w)
    BY <1>1, <2>8, FlagsOff
  <2>9. CASE FlagOn(w)
    BY <1>1, <2>1, <2>9, Posts
  <2>10. CASE ReleaseSession(w)
    BY <1>1, <2>10, Releases
  <2>11. CASE PushIdx(w) \/ AcceptEx(w)
    BY <1>1, <2>11, Pushes
  <2>12. CASE RegisterAcceptEx(w)
    BY <1>1, <2>12, Registers
  <2> QED
    BY <1>3, <2>2, <2>3, <2>4, <2>5, <2>6, <2>7, <2>8, <2>9, <2>10, <2>11, <2>12 DEF WorkerStep
<1>4. ASSUME NEW t \in Threads, LockStep(t) PROVE IInv'
  <2>1. CASE SessionLock(t)
    BY <1>1, <2>1, Lock
  <2>2. CASE LockID(t) \/ EnQueueMsg(t) \/ DisconnectLive(t)
    BY <1>1, <2>2, QuietLocks
  <2>3. CASE LockUndo(t) \/ SessionUnLock(t)
    BY <1>1, <2>3, Undos
  <2>4. CASE LockCAS(t)
    BY <1>1, <2>4, CASes
  <2>5. CASE SendPost(t)
    BY <1>1, <2>5, Posts
  <2>6. CASE DisconnectCancel(t)
    BY <1>1, <2>6, Cancels
  <2> QED
    BY <1>4, <2>1, <2>2, <2>3, <2>4, <2>5, <2>6 DEF LockStep
<1>5. ASSUME NEW w \in Workers, NEW s \in Slots, NEW k \in Completions, TakeCompletion(w, s, k)
      PROVE  IInv'
  BY <1>1, <1>5, Takes
<1>6. ASSUME NEW t \in Contents, NEW id \in accepted, NEW o \in {"send", "disconnect"},
             Call(t, id, o)
      PROVE  IInv'
  BY <1>1, <1>6, Calls
<1>7. ASSUME NEW s \in Slots, KernelStep(s) PROVE IInv'
  BY <1>1, <1>7, KernelSteps
<1> QED
  BY <1>2, <1>3, <1>4, <1>5, <1>6, <1>7 DEF Next

LEMMA InvHolds == ASSUME Room PROVE Spec => []IInv
<1>1. IInv /\ [Next]_vars => IInv'
  BY NextInv
<1> QED
  BY InitInv, <1>1, PTL DEF Spec

\* Whatever the numbers of threads and slots, every slot is in one place, and the
\* count of an open session is the number of references to it: the memory of a
\* session is released once, and only when no completion, operation or call
\* refers to it (workerThread, sessionLock, sessionUnLock, completeRelease).
THEOREM RefCountHolds == ASSUME Room PROVE Spec => []RefCount
<1>1. IInv => RefCount
  BY SameSums DEF IInv, OneTime, SlotInv, Counted, RefCount
<1> QED
  BY InvHolds, <1>1, PTL

\* A count of zero never goes unnoticed: a thread is on its way to the CAS that
\* releases the session (sessionUnLock and the end of workerThread's loop).
THEOREM ZeroIsSeenHolds == ASSUME Room PROVE Spec => []ZeroIsSeen
<1>1. IInv => ZeroIsSeen
  BY SameSums DEF IInv, SlotInv, Seen, Seers, ZeroIsSeen
<1> QED
  BY InvHolds, <1>1, PTL

\* The receive buffer and mSendOv of a session have one user at a time, and the
\* sender holds mSendFlag (registerRecv, registerSend, sendPost).
THEOREM SingleIOHolds == ASSUME Room PROVE Spec => []SingleIO
<1>1. TypeOK => \A s \in Slots :
        Count(Workers, {"completeRecv", "registerRecv", "WSARecv"}, s) <= ThreadsRecv(s)
  BY SubCount DEF ThreadsRecv, RecvLabels, Threads
<1>2. IInv => SingleIO
  <2> SUFFICES ASSUME IInv, NEW s \in Slots
               PROVE  /\ kernel[s].recv + iocp[s].recv + iocp[s].fin
                         + Count(Workers, {"completeRecv", "registerRecv", "WSARecv"}, s) <= 1
                      /\ kernel[s].send + iocp[s].send + Count(Workers, SendLabels, s)
                         <= IF mSendFlag[s] THEN 1 ELSE 0
    BY DEF SingleIO
  <2>1. /\ IoRecv(s) + ThreadsRecv(s) <= 1
        /\ IoSend(s) + ThreadsSend(s) <= IF mSendFlag[s] THEN 1 ELSE 0
    BY DEF IInv, SlotInv, Tokens
  <2>2. FieldsOK(s) /\ SlotNats(s)
    BY FieldNats, AllNats DEF IInv
  <2>3. Count(Workers, {"completeRecv", "registerRecv", "WSARecv"}, s) \in Nat
    BY FiniteThreads DEF Threads
  <2>4. Count(Workers, {"completeRecv", "registerRecv", "WSARecv"}, s) <= ThreadsRecv(s)
    BY <1>1 DEF IInv
  <2> QED
    BY <2>1, <2>2, <2>3, <2>4 DEF IoRecv, IoSend, ThreadsSend, FieldsOK, SlotNats
<1> QED
  BY InvHolds, <1>2, PTL

\* Who changes a count, and that it is the count of the slot the thread is on.
Holding(t) ==
  \/ t \in Workers /\ (WorkerDec(t) \/ WSARecv(t) \/ IoError(t) \/ FlagOn(t) \/ WSASend(t))
  \/ LockUndo(t) \/ SessionUnLock(t) \/ SendPost(t)

LEMMA Changers ==
  ASSUME TypeOK, [Next]_vars, NEW s \in Slots, mIOcnt'[s] # mIOcnt[s]
  PROVE  \E t \in Threads :
           /\ s = ses[t] /\ ses' = ses /\ \E l : Goto(t, l)
           /\ \/ Holding(t) \/ SessionLock(t) \/ LockCAS(t)
              \/ t \in Workers /\ (WorkerCAS(t) \/ AcceptCount(t))
<1> USE DEF session, pool, io, local, log
<1>1. mIOcnt' # mIOcnt
  OBVIOUS
<1>2. CASE \E w \in Workers : WorkerStep(w)
  <2>1. PICK w \in Workers : WorkerStep(w)
    BY <1>2
  <2>2. \/ WorkerDec(w) \/ WSARecv(w) \/ IoError(w) \/ FlagOn(w) \/ WSASend(w)
        \/ WorkerCAS(w) \/ AcceptCount(w)
    BY <1>1, <2>1 DEF WorkerStep, FinLive, FinCancel, AcceptLive, OnAccept, CompleteRecv,
       RegisterRecv, IoPending, CompleteSend, RegisterSend, RereadQSize, FlagOff, Recheck,
       Dequeue, SendLive, OnRelease, ReleaseSession, PushIdx, RegisterAcceptEx, AcceptEx
  <2>3. s = ses[w]
    BY <2>2 DEF WorkerDec, WSARecv, IoError, FlagOn, WSASend, WorkerCAS, AcceptCount, WSACall,
                PostSend, TryRelease, TypeOK
  <2>4. ses' = ses /\ \E l : Goto(w, l)
    BY <2>2 DEF WorkerDec, WSARecv, IoError, FlagOn, WSASend, WorkerCAS, AcceptCount, WSACall
  <2> QED
    BY <2>2, <2>3, <2>4 DEF Holding, Threads
<1>3. CASE \E t \in Threads : LockStep(t)
  <2>1. PICK t \in Threads : LockStep(t)
    BY <1>3
  <2>2. LockUndo(t) \/ SessionUnLock(t) \/ SendPost(t) \/ SessionLock(t) \/ LockCAS(t)
    BY <1>1, <2>1 DEF LockStep, LockID, EnQueueMsg, DisconnectLive, DisconnectCancel
  <2>3. s = ses[t]
    BY <2>2 DEF LockUndo, SessionUnLock, SendPost, SessionLock, LockCAS, PostSend, TryRelease,
                TypeOK
  <2>4. ses' = ses /\ \E l : Goto(t, l)
    BY <2>2 DEF LockUndo, SessionUnLock, SendPost, SessionLock, LockCAS, Return
  <2> QED
    BY <2>2, <2>3, <2>4 DEF Holding
<1> QED
  BY <1>1, <1>2, <1>3 DEF Next, vars, TakeCompletion, Call, KernelStep, Connect, Received,
                          ReceiveEnds, Sent, Reset

\* Once the release bit of a session is set, only the accept that opens its slot
\* again clears it, so a call with a stale id always finds it (sessionLock).
THEOREM ReleaseBitTheorem == ASSUME Room PROVE Spec => ReleaseBitHolds
<1>1. ASSUME IInv, IInv', [Next]_vars, NEW s \in Slots,
             ReleaseBit(mIOcnt[s]), ~ReleaseBit(mIOcnt'[s])
      PROVE  \E w \in Workers : pc[w] = "accCount" /\ ses[w] = s
  <2>1. TypeOK /\ TypeOK' /\ SlotInv(s) /\ mIOcnt[s] \in Int /\ RELEASE_IOCOUNT \in Nat \ {0}
    BY <1>1, NetworkLibAssumption, AllNats DEF IInv, SlotNats
  <2>2. RELEASE_IOCOUNT <= mIOcnt[s] /\ AllRefs(s) = 0
    BY <1>1, <2>1, CountInRange DEF ReleaseBit
  <2>3. PICK t \in Threads :
          /\ s = ses[t] /\ ses' = ses /\ \E l : Goto(t, l)
          /\ \/ Holding(t) \/ SessionLock(t) \/ LockCAS(t)
             \/ t \in Workers /\ (WorkerCAS(t) \/ AcceptCount(t))
    BY <1>1, <2>1, Changers
  <2>4. PICK l : Facts(t, s, l)
    BY <1>1, <2>1, <2>3, Here DEF Facts
  <2>5. ~Holding(t)
    <3> SUFFICES ASSUME Holding(t) PROVE FALSE
      OBVIOUS
    <3>1. \/ t \in Workers /\ pc[t] \in PlainLabels \cup RecvLabels \cup SendLabels
          \/ t \in Workers /\ pc[t] = "ioError"
          \/ pc[t] \in LockLabels
      BY DEF Holding, WorkerDec, WSARecv, IoError, FlagOn, WSASend, LockUndo, SessionUnLock,
             SendPost, PlainLabels, RecvLabels, SendLabels, LockLabels
    <3>2. RefW(t, pc[t]) \in {1, 2}
      BY <3>1, WorkerHas, ContentsHas DEF Has, Threads
    <3>3. ThreadRefs(s) >= 1
      BY <2>4, <3>2 DEF Facts, Stays, SlotNats
    <3> QED
      BY <2>2, <2>4, <3>3 DEF Facts, SlotNats, AllRefs
  <2>6. ~SessionLock(t)
    <3> SUFFICES ASSUME SessionLock(t) PROVE FALSE
      OBVIOUS
    <3>1. mIOcnt[s] < MaxIOcnt /\ mIOcnt'[s] = Inc16(mIOcnt[s]) /\ MaxIOcnt \in Nat
      BY <2>1, <2>3, NetworkLibAssumption DEF SessionLock, TypeOK
    <3>2. mIOcnt'[s] = mIOcnt[s] + 1 /\ mIOcnt'[s] < 2 * RELEASE_IOCOUNT
      BY <2>1, <3>1 DEF Inc16, Short, Room
    <3> QED
      BY <1>1, <2>1, <2>2, <3>2 DEF ReleaseBit
  <2>7. ~LockCAS(t) /\ ~WorkerCAS(t)
    BY <1>1, <2>1, <2>2, <2>3 DEF LockCAS, WorkerCAS, TryRelease
  <2> QED
    BY <2>3, <2>5, <2>6, <2>7 DEF AcceptCount
<1>2. IInv /\ IInv' /\ [Next]_vars =>
        [\A s \in Slots : ReleaseBit(mIOcnt[s]) /\ ~ReleaseBit(mIOcnt'[s]) =>
           \E w \in Workers : pc[w] = "accCount" /\ ses[w] = s]_vars
  BY <1>1
<1> QED
  BY InvHolds, <1>2, PTL DEF ReleaseBitHolds, Spec

-----------------------------------------------------------------------------
(* Slots to accept on. *)

Accepting == {w \in Workers : pc[w] = "registerAcceptEx"}

\* A step that neither touches the stack nor sends a worker to registerAcceptEx.
LEMMA NoMoreAccept ==
  ASSUME SlotToAccept, mStackSessionIdx' = mStackSessionIdx, TypeOK,
         \A w \in Workers : pc'[w] = "registerAcceptEx" => pc[w] = "registerAcceptEx"
  PROVE  SlotToAccept'
<1>1. Accepting' \subseteq Accepting
  BY DEF Accepting
<1>2. IsFiniteSet(Accepting)
  BY NetworkLibAssumption, FS_Subset DEF Accepting
<1>3. Cardinality(Accepting') <= Cardinality(Accepting)
      /\ Cardinality(Accepting') \in Nat /\ Cardinality(Accepting) \in Nat
  BY <1>1, <1>2, FS_Subset, FS_CardinalityType
<1>4. Len(mStackSessionIdx) \in Nat
  BY DEF TypeOK
<1> QED
  BY <1>3, <1>4 DEF SlotToAccept, Accepting

\* Worker w alone moves, and the stack grows by d.
LEMMA OneAccepts ==
  ASSUME TypeOK, SlotToAccept, NEW w \in Workers, NEW l, Goto(w, l), NEW d \in Int,
         Len(mStackSessionIdx') = Len(mStackSessionIdx) + d,
         In(l = "registerAcceptEx") <= In(pc[w] = "registerAcceptEx") + d
  PROVE  SlotToAccept'
<1>1. IsFiniteSet(Accepting) /\ IsFiniteSet(Accepting')
  BY NetworkLibAssumption, FS_Subset DEF Accepting
<1>2. pc' = [pc EXCEPT ![w] = l] /\ w \in DOMAIN pc
  BY DEF Goto, TypeOK, Threads
<1>3. Accepting \ {w} = Accepting' \ {w}
  BY <1>2 DEF Accepting
<1>4. /\ (w \in Accepting) = (pc[w] = "registerAcceptEx")
      /\ (w \in Accepting') = (l = "registerAcceptEx")
  BY <1>2 DEF Accepting
<1>5. /\ Cardinality(Accepting) \in Nat /\ Cardinality(Accepting') \in Nat
      /\ Cardinality(Accepting') =
           Cardinality(Accepting) - In(w \in Accepting) + In(w \in Accepting')
  BY <1>1, <1>3, SetStep
<1>6. Len(mStackSessionIdx) \in Nat
  BY DEF TypeOK
<1>7. Cardinality(Accepting') <= Cardinality(Accepting) + d
  BY <1>4, <1>5 DEF In
<1>8. Cardinality(Accepting) <= Len(mStackSessionIdx)
  BY DEF SlotToAccept, Accepting
<1>9. Cardinality(Accepting') <= Len(mStackSessionIdx')
  BY <1>5, <1>6, <1>7, <1>8
<1> QED
  BY <1>9 DEF SlotToAccept, Accepting

LEMMA SlotNext == TypeOK /\ SlotToAccept /\ [Next]_vars => SlotToAccept'
<1> SUFFICES ASSUME TypeOK, SlotToAccept, [Next]_vars PROVE SlotToAccept'
  OBVIOUS
<1> USE DEF session, pool, io, local, log
<1> DEFINE NoNew == \A u \in Workers : pc'[u] = "registerAcceptEx" => pc[u] = "registerAcceptEx"
<1>1. pc \in [Threads -> Labels] /\ Workers \subseteq Threads /\ mStackSessionIdx \in Seq(Slots)
  BY DEF TypeOK, Threads
<1>2. ASSUME NEW t \in Threads, NEW l, Goto(t, l), l # "registerAcceptEx" PROVE NoNew
  BY <1>1, <1>2 DEF Goto
<1> HIDE DEF NoNew
<1>3. ASSUME NoNew, mStackSessionIdx' = mStackSessionIdx PROVE SlotToAccept'
  BY <1>3, NoMoreAccept DEF NoNew
<1>4. ASSUME NEW w \in Workers, PushIdx(w) PROVE SlotToAccept'
  <2>1. Goto(w, "registerAcceptEx") /\ pc[w] # "registerAcceptEx" /\ ses[w] \in Slots
    BY <1>4 DEF PushIdx, TypeOK, Threads
  <2>2. Len(mStackSessionIdx') = Len(mStackSessionIdx) + 1
    BY <1>1, <1>4, <2>1 DEF PushIdx, StackPush
  <2> QED
    BY <2>1, <2>2, OneAccepts DEF In
<1>5. ASSUME NEW w \in Workers, RegisterAcceptEx(w) PROVE SlotToAccept'
  <2>1. PICK l : Goto(w, l) /\ l # "registerAcceptEx"
    BY <1>5 DEF RegisterAcceptEx
  <2>2. pc[w] = "registerAcceptEx"
    BY <1>5 DEF RegisterAcceptEx
  <2>3. CASE mStackSessionIdx = <<>>
    <3>1. mStackSessionIdx' = mStackSessionIdx
      BY <1>5, <2>3 DEF RegisterAcceptEx
    <3> QED
      BY <1>1, <1>2, <1>3, <2>1, <3>1
  <2>4. CASE mStackSessionIdx # <<>>
    <3>1. Len(mStackSessionIdx') = Len(mStackSessionIdx) + (-1)
      BY <1>1, <1>5, <2>4 DEF RegisterAcceptEx
    <3> QED
      BY <2>1, <2>2, <3>1, OneAccepts DEF In
  <2> QED
    BY <2>3, <2>4
<1>6. ASSUME NEW w \in Workers, AcceptEx(w) PROVE SlotToAccept'
  <2>1. Goto(w, "GQCS") /\ ses[w] \in Slots
    BY <1>6 DEF AcceptEx, TypeOK, Threads
  <2>2. CASE mStackSessionIdx' = mStackSessionIdx
    BY <1>1, <1>2, <1>3, <2>1, <2>2
  <2>3. CASE StackPush(ses[w])
    <3>1. Len(mStackSessionIdx') = Len(mStackSessionIdx) + 1
      BY <1>1, <2>1, <2>3 DEF StackPush
    <3> QED
      BY <2>1, <3>1, OneAccepts DEF In
  <2> QED
    BY <1>6, <2>2, <2>3 DEF AcceptEx
<1>7. ASSUME NEW w \in Workers, WorkerStep(w),
             ~(PushIdx(w) \/ RegisterAcceptEx(w) \/ AcceptEx(w))
      PROVE  SlotToAccept'
  <2>1. mStackSessionIdx' = mStackSessionIdx
    BY <1>7 DEF WorkerStep, FinLive, FinCancel, WorkerDec, WorkerCAS, AcceptLive, AcceptCount,
       OnAccept, CompleteRecv, RegisterRecv, WSARecv, WSACall, IoPending, IoError, CompleteSend,
       RegisterSend, RereadQSize, FlagOff, Recheck, FlagOn, Dequeue, SendLive, WSASend,
       OnRelease, ReleaseSession
  <2>2. \E l : Goto(w, l) /\ l # "registerAcceptEx"
    BY <1>7 DEF WorkerStep, FinLive, FinCancel, WorkerDec, WorkerCAS, AcceptLive, AcceptCount,
       OnAccept, CompleteRecv, RegisterRecv, EnterDisconnect, WSARecv, WSACall, IoPending,
       IoError, CompleteSend, RegisterSend, RereadQSize, FlagOff, Recheck, FlagOn, Dequeue,
       SendLive, WSASend, OnRelease, ReleaseSession
  <2> QED
    BY <1>1, <1>2, <1>3, <2>1, <2>2
<1>8. ASSUME NEW w \in Workers, NEW s \in Slots, NEW k \in Completions, TakeCompletion(w, s, k)
      PROVE  SlotToAccept'
  <2>1. mStackSessionIdx' = mStackSessionIdx /\ Goto(w, Entry(k))
    BY <1>8 DEF TakeCompletion
  <2>2. Entry(k) # "registerAcceptEx"
    BY <1>8 DEF Entry, Completions
  <2> QED
    BY <1>1, <1>2, <1>3, <2>1, <2>2
<1>9. ASSUME NEW t \in Threads, LockStep(t) PROVE SlotToAccept'
  <2>1. mStackSessionIdx' = mStackSessionIdx
    BY <1>9 DEF LockStep, SessionLock, LockID, LockUndo, LockCAS, SessionUnLock, EnQueueMsg,
                SendPost, DisconnectLive, DisconnectCancel
  <2>2. \E l : Goto(t, l) /\ l # "registerAcceptEx"
    BY <1>9 DEF LockStep, SessionLock, LockID, LockUndo, LockCAS, SessionUnLock, EnQueueMsg,
                SendPost, DisconnectLive, DisconnectCancel, Return
  <2> QED
    BY <1>2, <1>3, <2>1, <2>2
<1>10. ASSUME NEW t \in Contents, NEW id \in accepted, NEW o \in {"send", "disconnect"},
              Call(t, id, o)
       PROVE  SlotToAccept'
  <2>1. mStackSessionIdx' = mStackSessionIdx /\ Goto(t, "lock") /\ t \in Threads
    BY <1>10 DEF Call, Threads
  <2> QED
    BY <1>2, <1>3, <2>1
<1>11. ASSUME pc' = pc, mStackSessionIdx' = mStackSessionIdx PROVE SlotToAccept'
  BY <1>3, <1>11 DEF NoNew
<1>12. ASSUME NEW s \in Slots, KernelStep(s) PROVE SlotToAccept'
  BY <1>11, <1>12 DEF KernelStep, Connect, Received, ReceiveEnds, Sent, Reset
<1>13. vars' = vars => SlotToAccept'
  BY <1>11 DEF vars
<1> QED
  BY <1>4, <1>5, <1>6, <1>7, <1>8, <1>9, <1>10, <1>12, <1>13 DEF Next

\* However many workers release sessions at once, each finds a slot to accept on:
\* registerAcceptEx never takes its "session pool exhausted" return, so no slot is
\* left closed but by an AcceptEx that failed.
THEOREM SlotToAcceptHolds == Spec => []SlotToAccept
<1>1. Init => SlotToAccept
  <2> SUFFICES ASSUME Init PROVE SlotToAccept
    OBVIOUS
  <2>1. {w \in Workers : pc[w] = "registerAcceptEx"} = {}
    BY DEF Init, Threads
  <2>2. Cardinality({w \in Workers : pc[w] = "registerAcceptEx"}) = 0
    BY <2>1, FS_EmptySet
  <2>3. mStackSessionIdx = <<>>
    BY DEF Init
  <2>4. Len(mStackSessionIdx) = 0
    BY <2>3
  <2> QED
    BY <2>2, <2>4 DEF SlotToAccept
<1> QED
  BY <1>1, SlotNext, TypeCorrect, PTL DEF Spec

-----------------------------------------------------------------------------
(* NoLostWakeup: no message is forgotten in a queue, short of those that wrap
   mSenqQSize. *)

\* A thread that is about to set mSendFlag, or to look whether it has to.
Wakers   == {"postSend", "recheck", "flagOn"}
Waker(s) == \E t \in Threads : ses[t] = s /\ pc[t] \in Wakers

Woken == \A s \in Slots : mSendQ[s] # <<>> /\ ~mSendFlag[s] => Waker(s)

\* Only a sendPost of the application enqueues, and its messages are bounded.
Senders ==
  /\ \A w \in Workers : /\ pc[w] # "enqueue"
                        /\ pc[w] \in {"lock", "lockID"} => op[w] = "disconnect"
  /\ \A t \in Contents : pc[t] = "enqueue" => op[t] = "send"

Bounded ==
  /\ nMsgs + Cardinality(Sending) <= MaxMsgs
  /\ \A s \in Slots : Len(mSendQ[s]) <= nMsgs

SendInv == TypeOK /\ Senders /\ Bounded

LEMMA SomeWaker == \A s \in Slots : Waker(s) <=> Count(Threads, Wakers, s) > 0
<1> SUFFICES ASSUME NEW s \in Slots PROVE Waker(s) <=> Count(Threads, Wakers, s) > 0
  OBVIOUS
<1>1. IsFiniteSet(At(Threads, Wakers, s))
  BY FiniteThreads
<1>2. Cardinality(At(Threads, Wakers, s)) = 0 <=> At(Threads, Wakers, s) = {}
  BY <1>1, FS_EmptySet
<1>3. Cardinality(At(Threads, Wakers, s)) \in Nat
  BY <1>1, FS_CardinalityType
<1>4. Waker(s) <=> At(Threads, Wakers, s) # {}
  BY DEF Waker, At
<1> QED
  BY <1>2, <1>3, <1>4 DEF Count

LEMMA WokenIs == Woken <=> NoLostWakeup
BY SomeWaker DEF Woken, NoLostWakeup, Wakers

-----------------------------------------------------------------------------
(* The messages are bounded. *)

\* One step of thread t, which ends at l: it enqueues nothing.
Plain(t, l) ==
  /\ Goto(t, l)
  /\ \A u \in Threads : u # t => op'[u] = op[u]
  /\ nMsgs' = nMsgs

\* No queue grows.
NoLonger == \A s \in Slots : Len(mSendQ'[s]) <= Len(mSendQ[s])

LEMMA FewerSending ==
  ASSUME TypeOK, Bounded, nMsgs' = nMsgs, NoLonger, TypeOK', Sending' \subseteq Sending
  PROVE  Bounded'
<1>1. IsFiniteSet(Sending)
  BY NetworkLibAssumption, FS_Subset DEF Sending
<1>2. Cardinality(Sending') <= Cardinality(Sending)
      /\ Cardinality(Sending') \in Nat /\ Cardinality(Sending) \in Nat
  BY <1>1, FS_Subset, FS_CardinalityType
<1>3. nMsgs \in Nat /\ MaxMsgs \in Nat
  BY NetworkLibAssumption DEF TypeOK
<1>4. nMsgs' + Cardinality(Sending') <= MaxMsgs
  BY <1>2, <1>3 DEF Bounded
<1>5. \A s \in Slots : Len(mSendQ'[s]) \in Nat /\ Len(mSendQ[s]) \in Nat
  BY DEF TypeOK
<1>6. \A s \in Slots : Len(mSendQ'[s]) <= nMsgs'
  BY <1>3, <1>5 DEF Bounded, NoLonger
<1> QED
  BY <1>4, <1>6 DEF Bounded

LEMMA WorkerSends ==
  ASSUME SendInv, TypeOK', NEW w \in Workers, NEW l, Plain(w, l), NoLonger,
         l \notin {"enqueue", "lockID"}, l = "lock" => op'[w] = "disconnect"
  PROVE  Senders' /\ Bounded'
<1>1. w \in Threads /\ w \notin Contents /\ pc \in [Threads -> Labels]
  BY NetworkLibAssumption DEF SendInv, TypeOK, Threads
<1>2. pc'[w] = l /\ \A u \in Threads : u # w => pc'[u] = pc[u] /\ op'[u] = op[u]
  BY <1>1 DEF Plain, Goto
<1>3. Senders'
  BY <1>1, <1>2 DEF SendInv, Senders, Threads
<1>4. Sending' \subseteq Sending
  BY <1>1, <1>2 DEF Sending, Threads
<1> QED
  BY <1>3, <1>4, FewerSending DEF SendInv, Plain

LEMMA QueueShrinks ==
  ASSUME TypeOK, NEW w \in Workers, Dequeue(w) \/ ReleaseSession(w)
  PROVE  NoLonger
<1> DEFINE s == ses[w]
           q == mSendQ[s]
           n == IF cnt[w] < 0 THEN 0 ELSE SmallerOf(cnt[w], Len(q))
<1>1. s \in Slots /\ q \in Seq(Message) /\ mSendQ \in [Slots -> Seq(Message)] /\ cnt[w] \in Int
  BY DEF TypeOK, Threads
<1>2. CASE Dequeue(w)
  <2>1. n \in 0 .. Len(q)
    BY <1>1 DEF SmallerOf
  <2>2. mSendQ' = [mSendQ EXCEPT ![s] = SubSeq(q, n + 1, Len(q))]
    BY <1>2 DEF Dequeue
  <2>3. Len(SubSeq(q, n + 1, Len(q))) <= Len(q)
    BY <1>1, <2>1
  <2>4. \A o \in Slots : Len(mSendQ[o]) \in Nat
    BY <1>1
  <2> HIDE DEF q, n
  <2>5. \A o \in Slots : mSendQ'[o] = IF o = s THEN SubSeq(q, n + 1, Len(q)) ELSE mSendQ[o]
    BY <1>1, <2>2
  <2>6. Len(mSendQ'[s]) <= Len(mSendQ[s])
    BY <1>1, <2>3, <2>5 DEF q
  <2>7. \A o \in Slots : o # s => Len(mSendQ'[o]) <= Len(mSendQ[o])
    BY <2>4, <2>5
  <2> QED
    BY <2>6, <2>7 DEF NoLonger
<1>3. CASE ReleaseSession(w)
  <2>1. mSendQ' = [mSendQ EXCEPT ![s] = <<>>]
    BY <1>3 DEF ReleaseSession
  <2> QED
    BY <1>1, <2>1 DEF NoLonger
<1> QED
  BY <1>2, <1>3

LEMMA SendNext == SendInv /\ TypeOK' /\ [Next]_vars => Senders' /\ Bounded'
<1> SUFFICES ASSUME SendInv, TypeOK', [Next]_vars PROVE Senders' /\ Bounded'
  OBVIOUS
<1> USE DEF session, pool, io, local, log
<1>1. TypeOK /\ Senders /\ Bounded
  BY DEF SendInv
<1>2. /\ pc \in [Threads -> Labels] /\ op \in [Threads -> {"send", "disconnect"}]
      /\ mSendQ \in [Slots -> Seq(Message)] /\ ses \in [Threads -> Slots]
      /\ nMsgs \in Nat /\ MaxMsgs \in Nat
      /\ Workers \subseteq Threads /\ Contents \subseteq Threads
      /\ Workers \cap Contents = {} /\ Threads = Workers \cup Contents
  BY <1>1, NetworkLibAssumption DEF TypeOK, Threads
<1>3. mSendQ' = mSendQ => NoLonger
  BY <1>2 DEF NoLonger
<1>4. ASSUME NEW w \in Workers, WorkerStep(w) PROVE Senders' /\ Bounded'
  <2>1. \E l : Plain(w, l) /\ l \notin {"enqueue", "lockID"} /\ (l = "lock" => op'[w] = "disconnect")
    <3>1. nMsgs' = nMsgs
      BY <1>4 DEF WorkerStep, FinLive, FinCancel, WorkerDec, WorkerCAS, AcceptLive,
         AcceptCount, OnAccept, CompleteRecv, RegisterRecv, WSARecv, WSACall,
         IoPending, IoError, CompleteSend, RegisterSend, RereadQSize, FlagOff, Recheck, FlagOn,
         Dequeue, SendLive, WSASend, OnRelease, ReleaseSession, PushIdx, RegisterAcceptEx, AcceptEx
    <3>2. CASE EnterDisconnect(w)
      BY <1>2, <3>1, <3>2 DEF Plain, EnterDisconnect
    <3>3. CASE ~EnterDisconnect(w)
      <4>1. op' = op
        BY <1>4, <3>3 DEF WorkerStep, FinLive, FinCancel, WorkerDec, WorkerCAS, AcceptLive,
           AcceptCount, OnAccept, CompleteRecv, RegisterRecv, WSARecv, WSACall,
           IoPending, IoError, CompleteSend, RegisterSend, RereadQSize, FlagOff, Recheck, FlagOn,
           Dequeue, SendLive, WSASend, OnRelease, ReleaseSession, PushIdx, RegisterAcceptEx, AcceptEx
      <4>2. \E l : Goto(w, l) /\ l \notin {"enqueue", "lockID", "lock"}
        BY <1>4, <3>3 DEF WorkerStep, FinLive, FinCancel, WorkerDec, WorkerCAS, AcceptLive,
           AcceptCount, OnAccept, CompleteRecv, RegisterRecv, WSARecv, WSACall,
           IoPending, IoError, CompleteSend, RegisterSend, RereadQSize, FlagOff, Recheck, FlagOn,
           Dequeue, SendLive, WSASend, OnRelease, ReleaseSession, PushIdx, RegisterAcceptEx, AcceptEx
      <4> QED
        BY <3>1, <4>1, <4>2 DEF Plain
    <3> QED
      BY <3>2, <3>3
  <2>2. CASE Dequeue(w) \/ ReleaseSession(w)
    BY <1>1, <2>1, <2>2, QueueShrinks, WorkerSends
  <2>3. CASE ~(Dequeue(w) \/ ReleaseSession(w))
    <3>1. mSendQ' = mSendQ
      BY <1>4, <2>3 DEF WorkerStep, FinLive, FinCancel, WorkerDec, WorkerCAS, AcceptLive,
         AcceptCount, OnAccept, CompleteRecv, RegisterRecv, WSARecv, WSACall,
         IoPending, IoError, CompleteSend, RegisterSend, RereadQSize, FlagOff, Recheck, FlagOn,
         SendLive, WSASend, OnRelease, PushIdx, RegisterAcceptEx, AcceptEx
    <3> QED
      BY <1>3, <2>1, <3>1, WorkerSends
  <2> QED
    BY <2>2, <2>3
<1>5. ASSUME NEW w \in Workers, NEW s \in Slots, NEW k \in Completions, TakeCompletion(w, s, k)
      PROVE  Senders' /\ Bounded'
  <2>1. Plain(w, Entry(k)) /\ mSendQ' = mSendQ
    BY <1>5 DEF Plain, TakeCompletion
  <2>2. Entry(k) \notin {"enqueue", "lockID", "lock"}
    BY <1>5 DEF Entry, Completions
  <2> QED
    BY <1>3, <2>1, <2>2, WorkerSends
<1>6. ASSUME NEW t \in Threads, LockStep(t), ~EnQueueMsg(t) PROVE Senders' /\ Bounded'
  <2>1. mSendQ' = mSendQ /\ nMsgs' = nMsgs /\ op' = op
    BY <1>6 DEF LockStep, SessionLock, LockID, LockUndo, LockCAS, SessionUnLock,
                SendPost, DisconnectLive, DisconnectCancel
  <2>2. PICK l : /\ Goto(t, l)
                 /\ l # "lock"
                 /\ l = "lockID" => pc[t] = "lock"
                 /\ l = "enqueue" => pc[t] = "lockID" /\ op[t] = "send"
    <3>1. CASE LockID(t)
      BY <3>1 DEF LockID
    <3>2. CASE SessionLock(t)
      BY <3>2 DEF SessionLock, Return
    <3>3. CASE ~LockID(t) /\ ~SessionLock(t)
      <4>1. \E l : Goto(t, l) /\ l \notin {"lock", "lockID", "enqueue"}
        BY <1>6, <3>3 DEF LockStep, LockUndo, LockCAS, SessionUnLock, SendPost, DisconnectLive,
                          DisconnectCancel, Return
      <4> QED
        BY <4>1
    <3> QED
      BY <3>1, <3>2, <3>3
  <2>3. pc'[t] = l /\ \A u \in Threads : u # t => pc'[u] = pc[u]
    BY <1>2, <2>2 DEF Goto
  <2>4. Senders'
    <3>1. \A w \in Workers : w # t => pc'[w] = pc[w]
      BY <1>2, <2>3
    <3>2. l = "lockID" /\ t \in Workers => op[t] = "disconnect"
      BY <1>1, <2>2 DEF Senders
    <3>3. l = "enqueue" => t \notin Workers
      BY <1>1, <2>2 DEF Senders
    <3> QED
      <4>1. ASSUME NEW w \in Workers
            PROVE  pc'[w] # "enqueue" /\ (pc'[w] \in {"lock", "lockID"} => op'[w] = "disconnect")
        BY <1>1, <2>1, <2>2, <2>3, <3>1, <3>2, <3>3 DEF Senders
      <4>2. ASSUME NEW u \in Contents, pc'[u] = "enqueue" PROVE op'[u] = "send"
        BY <1>1, <1>2, <2>1, <2>2, <2>3, <4>2 DEF Senders
      <4> QED
        BY <4>1, <4>2 DEF Senders
  <2>5. Sending' \subseteq Sending
    BY <1>2, <2>1, <2>2, <2>3 DEF Sending
  <2> QED
    BY <1>1, <1>3, <2>1, <2>4, <2>5, FewerSending
<1>7. ASSUME NEW t \in Threads, EnQueueMsg(t) PROVE Senders' /\ Bounded'
  <2> DEFINE m == [own |-> <<ses[t], tgt[t]>>, n |-> nMsgs + 1]
  <2>1. pc[t] = "enqueue" /\ Goto(t, "postSend") /\ nMsgs' = nMsgs + 1 /\ op' = op
        /\ mSendQ' = [mSendQ EXCEPT ![ses[t]] = Append(@, m)]
    BY <1>7 DEF EnQueueMsg
  <2>2. t \in Contents /\ op[t] = "send"
    BY <1>1, <1>2, <2>1 DEF Senders
  <2>3. pc'[t] = "postSend" /\ \A u \in Threads : u # t => pc'[u] = pc[u]
    BY <1>2, <2>1 DEF Goto
  <2>4. Senders'
    BY <1>1, <1>2, <2>1, <2>3 DEF Senders
  <2>5. Sending' = Sending \ {t} /\ t \in Sending
    BY <1>2, <2>1, <2>2, <2>3 DEF Sending
  <2>6. IsFiniteSet(Sending)
    BY NetworkLibAssumption, FS_Subset DEF Sending
  <2>7. Cardinality(Sending') = Cardinality(Sending) - 1 /\ Cardinality(Sending) \in Nat
    BY <2>5, <2>6, FS_RemoveElement, FS_CardinalityType
  <2>8. nMsgs' + Cardinality(Sending') <= MaxMsgs
    BY <1>1, <1>2, <2>1, <2>7 DEF Bounded
  <2> HIDE DEF m
  <2>9. \A s \in Slots : Len(mSendQ'[s]) <= nMsgs'
    <3> SUFFICES ASSUME NEW s \in Slots PROVE Len(mSendQ'[s]) <= nMsgs'
      OBVIOUS
    <3>1. mSendQ[s] \in Seq(Message) /\ Len(mSendQ[s]) <= nMsgs
      BY <1>1, <1>2 DEF Bounded
    <3>2. Len(Append(mSendQ[s], m)) = Len(mSendQ[s]) + 1
      BY <3>1
    <3>3. mSendQ'[s] = Append(mSendQ[s], m) \/ mSendQ'[s] = mSendQ[s]
      BY <1>2, <2>1
    <3> QED
      BY <1>2, <2>1, <3>1, <3>2, <3>3
  <2> QED
    BY <2>4, <2>8, <2>9 DEF Bounded
<1>8. ASSUME NEW t \in Contents, NEW id \in accepted, NEW o \in {"send", "disconnect"},
             Call(t, id, o)
      PROVE  Senders' /\ Bounded'
  <2>1. /\ pc[t] = "idle" /\ Goto(t, "lock") /\ op' = [op EXCEPT ![t] = o]
        /\ nMsgs' = nMsgs /\ mSendQ' = mSendQ
        /\ o = "send" => nMsgs + Cardinality(Sending) < MaxMsgs
    BY <1>8 DEF Call
  <2>2. /\ pc'[t] = "lock" /\ op'[t] = o
        /\ \A u \in Threads : u # t => pc'[u] = pc[u] /\ op'[u] = op[u]
    BY <1>2, <2>1 DEF Goto
  <2>3. Senders'
    BY <1>1, <1>2, <2>2 DEF Senders
  <2>4. CASE o = "disconnect"
    <3>1. Sending' \subseteq Sending
      BY <1>2, <2>2, <2>4 DEF Sending
    <3> QED
      BY <1>1, <1>3, <2>1, <2>3, <3>1, FewerSending
  <2>5. CASE o = "send"
    <3>1. Sending' = Sending \cup {t}
      BY <1>2, <2>1, <2>2, <2>5 DEF Sending
    <3>2. IsFiniteSet(Sending)
      BY NetworkLibAssumption, FS_Subset DEF Sending
    <3>3. Cardinality(Sending') = Cardinality(Sending) + 1 /\ Cardinality(Sending) \in Nat
      <4>1. t \notin Sending
        BY <2>1 DEF Sending
      <4> QED
        BY <3>1, <3>2, <4>1, FS_AddElement, FS_CardinalityType
    <3>4. nMsgs' + Cardinality(Sending') <= MaxMsgs
      BY <1>2, <2>1, <2>5, <3>3
    <3> QED
      BY <1>1, <2>1, <2>3, <3>4 DEF Bounded
  <2> QED
    BY <2>4, <2>5
<1>9. ASSUME pc' = pc, op' = op, nMsgs' = nMsgs, mSendQ' = mSendQ PROVE Senders' /\ Bounded'
  BY <1>1, <1>9 DEF Senders, Bounded, Sending
<1>10. ASSUME NEW s \in Slots, KernelStep(s) PROVE Senders' /\ Bounded'
  BY <1>9, <1>10 DEF KernelStep, Connect, Received, ReceiveEnds, Sent, Reset
<1>11. vars' = vars => Senders' /\ Bounded'
  BY <1>9 DEF vars
<1> QED
  BY <1>4, <1>5, <1>6, <1>7, <1>8, <1>10, <1>11 DEF Next

-----------------------------------------------------------------------------
(* Somebody sees each message that waits. *)

\* mSenqQSize does not come back to zero.
Unwrapped == MaxMsgs < 4 * RELEASE_IOCOUNT

LEMMA EmptyIsZero ==
  ASSUME SendInv, Unwrapped, NEW s \in Slots, QSize(s) = 0
  PROVE  mSendQ[s] = <<>>
<1>1. mSendQ[s] \in Seq(Message) /\ nMsgs \in Nat /\ MaxMsgs \in Nat /\ RELEASE_IOCOUNT \in Nat \ {0}
  BY NetworkLibAssumption DEF SendInv, TypeOK
<1>2. IsFiniteSet(Sending)
  BY NetworkLibAssumption, FS_Subset DEF Sending
<1>3. Cardinality(Sending) \in Nat
  BY <1>2, FS_CardinalityType
<1>4. Len(mSendQ[s]) \in Nat /\ Len(mSendQ[s]) < 4 * RELEASE_IOCOUNT
  BY <1>1, <1>3 DEF SendInv, Bounded, Unwrapped
<1>5. Len(mSendQ[s]) = 0
  BY <1>1, <1>4 DEF QSize, Short
<1> QED
  BY <1>1, <1>5

\* Nothing begins to wait, and no thread that was to look turns away.
LEMMA StillWoken ==
  ASSUME Woken, NEW t \in Threads, Moves(t), pc[t] \notin Wakers,
         \A s \in Slots : mSendQ'[s] # <<>> /\ ~mSendFlag'[s] => mSendQ[s] # <<>> /\ ~mSendFlag[s]
  PROVE  Woken'
<1> SUFFICES ASSUME NEW s \in Slots, mSendQ'[s] # <<>>, ~mSendFlag'[s] PROVE Waker(s)'
  BY DEF Woken
<1>1. PICK u \in Threads : ses[u] = s /\ pc[u] \in Wakers
  BY DEF Woken, Waker
<1>2. ses'[u] = s /\ pc'[u] \in Wakers
  BY <1>1 DEF Moves
<1> QED
  BY <1>2 DEF Waker

\* What thread t does concerns slot s alone: there nothing waits, or t is to look.
LEMMA WokenAt ==
  ASSUME TypeOK, Woken, NEW t \in Threads, Moves(t), NEW s \in Slots, ses[t] = s,
         \A o \in Slots : o # s => mSendQ'[o] = mSendQ[o] /\ mSendFlag'[o] = mSendFlag[o],
         \/ mSendQ'[s] = <<>>
         \/ mSendFlag'[s]
         \/ ses'[t] = s /\ pc'[t] \in Wakers
  PROVE  Woken'
<1>1. ASSUME NEW o \in Slots, o # s, mSendQ'[o] # <<>>, ~mSendFlag'[o] PROVE Waker(o)'
  <2>1. PICK u \in Threads : ses[u] = o /\ pc[u] \in Wakers
    BY <1>1 DEF Woken, Waker
  <2>2. ses'[u] = o /\ pc'[u] \in Wakers
    BY <1>1, <2>1 DEF Moves
  <2> QED
    BY <2>2 DEF Waker
<1>2. ASSUME mSendQ'[s] # <<>>, ~mSendFlag'[s] PROVE Waker(s)'
  BY <1>2 DEF Waker
<1> QED
  BY <1>1, <1>2 DEF Woken

LEMMA WokenNext == SendInv /\ Unwrapped /\ Woken /\ [Next]_vars => Woken'
<1> SUFFICES ASSUME SendInv, Unwrapped, Woken, [Next]_vars PROVE Woken'
  OBVIOUS
<1> USE DEF session, pool, io, local, log
<1>1. TypeOK
  BY DEF SendInv
<1>2. /\ pc \in [Threads -> Labels] /\ ses \in [Threads -> Slots]
      /\ mSendQ \in [Slots -> Seq(Message)] /\ mSendFlag \in [Slots -> BOOLEAN]
      /\ Workers \subseteq Threads /\ Contents \subseteq Threads
  BY <1>1 DEF TypeOK, Threads
<1>3. ASSUME NEW t \in Threads, NEW l, Goto(t, l),
             ses' = ses \/ \E s : ses' = [ses EXCEPT ![t] = s]
      PROVE  Moves(t) /\ pc'[t] = l
  BY <1>2, <1>3 DEF Moves, Goto
<1>4. ASSUME NEW t \in Threads, FlagOn(t) \/ SendPost(t) PROVE Woken'
  <2>1. mSendQ' = mSendQ /\ ses' = ses /\ PostSend(ses[t])
    BY <1>4 DEF FlagOn, SendPost
  <2>2. Moves(t)
    BY <1>3, <1>4, <2>1 DEF FlagOn, SendPost
  <2>3. mSendFlag'[ses[t]] /\ \A o \in Slots : o # ses[t] => mSendFlag'[o] = mSendFlag[o]
    BY <1>2, <2>1 DEF PostSend
  <2> QED
    BY <1>1, <1>2, <2>1, <2>2, <2>3, WokenAt
<1>5. ASSUME NEW t \in Threads, EnQueueMsg(t) PROVE Woken'
  <2>1. /\ Goto(t, "postSend") /\ ses' = ses /\ mSendFlag' = mSendFlag
        /\ \A o \in Slots : o # ses[t] => mSendQ'[o] = mSendQ[o]
    BY <1>2, <1>5 DEF EnQueueMsg
  <2>2. Moves(t) /\ pc'[t] = "postSend"
    BY <1>3, <2>1
  <2> QED
    BY <1>1, <1>2, <2>1, <2>2, WokenAt DEF Wakers
<1>6. ASSUME NEW w \in Workers, FlagOff(w) PROVE Woken'
  <2>1. /\ pc[w] = "flagOff" /\ ses' = ses /\ mSendQ' = mSendQ
        /\ mSendFlag' = [mSendFlag EXCEPT ![ses[w]] = FALSE]
        /\ Goto(w, IF mSendFlag[ses[w]] THEN "recheck" ELSE "dec")
    BY <1>6 DEF FlagOff
  <2>2. w \in Threads /\ Moves(w) /\ pc'[w] = IF mSendFlag[ses[w]] THEN "recheck" ELSE "dec"
    BY <1>2, <1>3, <2>1
  <2>3. CASE mSendFlag[ses[w]]
    BY <1>1, <1>2, <2>1, <2>2, <2>3, WokenAt DEF Wakers
  <2>4. CASE ~mSendFlag[ses[w]]
    <3>1. mSendFlag' = mSendFlag
      BY <1>2, <2>1, <2>4
    <3> QED
      BY <2>1, <2>2, <3>1, StillWoken DEF Wakers
  <2> QED
    BY <2>3, <2>4
<1>7. ASSUME NEW w \in Workers, Recheck(w) PROVE Woken'
  <2>1. /\ ses' = ses /\ mSendQ' = mSendQ /\ mSendFlag' = mSendFlag
        /\ Goto(w, IF QSize(ses[w]) = 0 THEN "dec" ELSE "flagOn")
    BY <1>7 DEF Recheck
  <2>2. w \in Threads /\ ses[w] \in Slots
        /\ Moves(w) /\ pc'[w] = IF QSize(ses[w]) = 0 THEN "dec" ELSE "flagOn"
    BY <1>2, <1>3, <2>1
  <2>3. QSize(ses[w]) = 0 => mSendQ[ses[w]] = <<>>
    BY <2>2, EmptyIsZero
  <2> QED
    BY <1>1, <2>1, <2>2, <2>3, WokenAt DEF Wakers
<1>8. ASSUME NEW w \in Workers, ReleaseSession(w) PROVE Woken'
  <2>1. /\ ses' = ses /\ \E l : Goto(w, l)
        /\ mSendQ' = [mSendQ EXCEPT ![ses[w]] = <<>>]
        /\ mSendFlag' = [mSendFlag EXCEPT ![ses[w]] = FALSE]
    BY <1>8 DEF ReleaseSession
  <2>2. w \in Threads /\ Moves(w) /\ ses[w] \in Slots
    BY <1>2, <1>3, <2>1
  <2>3. mSendQ'[ses[w]] = <<>>
    BY <1>2, <2>1, <2>2
  <2>4. \A o \in Slots : o # ses[w] => mSendQ'[o] = mSendQ[o] /\ mSendFlag'[o] = mSendFlag[o]
    BY <1>2, <2>1
  <2> QED
    BY <1>1, <2>2, <2>3, <2>4, WokenAt
<1>9. ASSUME NEW w \in Workers, Dequeue(w) PROVE Woken'
  <2>1. pc[w] = "dequeue" /\ ses' = ses /\ mSendFlag' = mSendFlag /\ Goto(w, "sendLive")
    BY <1>9 DEF Dequeue
  <2>2. w \in Threads /\ Moves(w) /\ ses[w] \in Slots
    BY <1>2, <1>3, <2>1
  <2>3. \A o \in Slots : o # ses[w] => mSendQ'[o] = mSendQ[o]
    BY <1>2, <1>9 DEF Dequeue
  <2>4. mSendQ[ses[w]] = <<>> => mSendQ'[ses[w]] = <<>>
    <3> SUFFICES ASSUME mSendQ[ses[w]] = <<>> PROVE mSendQ'[ses[w]] = <<>>
      OBVIOUS
    <3> DEFINE n == IF cnt[w] < 0 THEN 0 ELSE SmallerOf(cnt[w], Len(mSendQ[ses[w]]))
    <3>1. mSendQ'[ses[w]] = SubSeq(mSendQ[ses[w]], n + 1, Len(mSendQ[ses[w]]))
      BY <1>2, <1>9, <2>2 DEF Dequeue
    <3>2. n = 0
      BY <1>1, <1>2 DEF SmallerOf, TypeOK
    <3> QED
      BY <3>1, <3>2
  <2> QED
    BY <2>1, <2>2, <2>3, <2>4, StillWoken DEF Wakers
<1>10. ASSUME NEW w \in Workers, WorkerStep(w),
              ~(FlagOff(w) \/ Recheck(w) \/ FlagOn(w) \/ Dequeue(w) \/ ReleaseSession(w))
       PROVE  Woken'
  <2>1. mSendQ' = mSendQ /\ mSendFlag' = mSendFlag
    BY <1>10 DEF WorkerStep, FinLive, FinCancel, WorkerDec, WorkerCAS, AcceptLive,
       AcceptCount, OnAccept, CompleteRecv, RegisterRecv, WSARecv, WSACall,
       IoPending, IoError, CompleteSend, RegisterSend, RereadQSize,
       SendLive, WSASend, OnRelease, PushIdx, RegisterAcceptEx, AcceptEx
  <2>2. pc[w] \notin Wakers
    BY <1>10 DEF Wakers, WorkerStep, FinLive, FinCancel, WorkerDec, WorkerCAS, AcceptLive,
       AcceptCount, OnAccept, CompleteRecv, RegisterRecv, WSARecv,
       IoPending, IoError, CompleteSend, RegisterSend, RereadQSize,
       SendLive, WSASend, OnRelease, PushIdx, RegisterAcceptEx, AcceptEx
  <2>3. \E l : Goto(w, l)
    BY <1>10 DEF WorkerStep, FinLive, FinCancel, WorkerDec, WorkerCAS, AcceptLive,
       AcceptCount, OnAccept, CompleteRecv, RegisterRecv, EnterDisconnect, WSARecv, WSACall,
       IoPending, IoError, CompleteSend, RegisterSend, RereadQSize,
       SendLive, WSASend, OnRelease, PushIdx, RegisterAcceptEx, AcceptEx
  <2>4. ses' = ses \/ \E s : ses' = [ses EXCEPT ![w] = s]
    BY <1>10 DEF WorkerStep, FinLive, FinCancel, WorkerDec, WorkerCAS, AcceptLive,
       AcceptCount, OnAccept, CompleteRecv, RegisterRecv, EnterDisconnect, WSARecv, WSACall,
       IoPending, IoError, CompleteSend, RegisterSend, RereadQSize,
       SendLive, WSASend, OnRelease, PushIdx, RegisterAcceptEx, AcceptEx
  <2>5. w \in Threads /\ Moves(w)
    BY <1>2, <1>3, <2>3, <2>4
  <2> QED
    BY <2>1, <2>2, <2>5, StillWoken
<1>11. ASSUME NEW w \in Workers, NEW s \in Slots, NEW k \in Completions, TakeCompletion(w, s, k)
       PROVE  Woken'
  <2>1. /\ pc[w] \notin Wakers /\ Goto(w, Entry(k)) /\ ses' = [ses EXCEPT ![w] = s]
        /\ mSendQ' = mSendQ /\ mSendFlag' = mSendFlag
    BY <1>11 DEF TakeCompletion, Wakers
  <2>2. w \in Threads /\ Moves(w)
    BY <1>2, <1>3, <2>1
  <2> QED
    BY <2>1, <2>2, StillWoken
<1>12. ASSUME NEW t \in Threads, LockStep(t), ~EnQueueMsg(t), ~SendPost(t) PROVE Woken'
  <2>1. /\ pc[t] \notin Wakers /\ mSendQ' = mSendQ /\ mSendFlag' = mSendFlag /\ ses' = ses
        /\ \E l : Goto(t, l)
    BY <1>12 DEF Wakers, LockStep, SessionLock, LockID, LockUndo, LockCAS, SessionUnLock,
                 DisconnectLive, DisconnectCancel, Return
  <2>2. Moves(t)
    BY <1>3, <2>1
  <2> QED
    BY <2>1, <2>2, StillWoken
<1>13. ASSUME NEW t \in Contents, NEW id \in accepted, NEW o \in {"send", "disconnect"},
              Call(t, id, o)
       PROVE  Woken'
  <2>1. /\ pc[t] \notin Wakers /\ Goto(t, "lock") /\ ses' = [ses EXCEPT ![t] = id[1]]
        /\ mSendQ' = mSendQ /\ mSendFlag' = mSendFlag
    BY <1>13 DEF Call, Wakers
  <2>2. t \in Threads /\ Moves(t)
    BY <1>2, <1>3, <2>1
  <2> QED
    BY <2>1, <2>2, StillWoken
<1>14. ASSUME UNCHANGED <<pc, ses, mSendQ, mSendFlag>> PROVE Woken'
  BY <1>14 DEF Woken, Waker
<1>15. ASSUME NEW s \in Slots, KernelStep(s) PROVE Woken'
  BY <1>14, <1>15 DEF KernelStep, Connect, Received, ReceiveEnds, Sent, Reset
<1>16. vars' = vars => Woken'
  BY <1>14 DEF vars
<1> QED
  BY <1>2, <1>4, <1>5, <1>6, <1>7, <1>8, <1>9, <1>10, <1>11, <1>12, <1>13, <1>15, <1>16 DEF Next

LEMMA SendInit == Init => Senders /\ Bounded /\ Woken
<1> SUFFICES ASSUME Init PROVE Senders /\ Bounded /\ Woken
  OBVIOUS
<1>1. \A s \in Slots : mSendQ[s] = <<>>
  BY DEF Init
<1>2. \A t \in Threads : pc[t] \in {"GQCS", "idle"}
  BY DEF Init
<1>3. Sending = {}
  BY <1>2 DEF Sending, Threads
<1>4. Cardinality(Sending) = 0
  BY <1>3, FS_EmptySet
<1>5. nMsgs = 0 /\ MaxMsgs \in Nat
  BY NetworkLibAssumption DEF Init
<1>6. Senders
  BY <1>2 DEF Senders, Threads
<1>7. Bounded
  BY <1>1, <1>4, <1>5 DEF Bounded
<1> QED
  BY <1>1, <1>6, <1>7 DEF Woken

\* A message never waits in a queue whose flag is off without a thread that is
\* about to set the flag or to look at the queue again: between the sendPost that
\* finds the flag set and the registerSend that gives it back, one of the two sees
\* the other.  It needs what the code relies on without a check, fewer messages
\* than bring mSenqQSize back to zero.
THEOREM NoLostWakeupHolds == ASSUME Unwrapped PROVE Spec => []NoLostWakeup
<1>1. Spec => [](TypeOK /\ Senders /\ Bounded)
  <2>1. TypeOK /\ TypeOK' /\ Senders /\ Bounded /\ [Next]_vars => Senders' /\ Bounded'
    BY SendNext DEF SendInv
  <2> QED
    BY <2>1, SendInit, TypeCorrect, PTL DEF Spec
<1>2. TypeOK /\ Senders /\ Bounded /\ Woken /\ [Next]_vars => Woken'
  BY WokenNext DEF SendInv
<1> QED
  BY <1>1, <1>2, SendInit, WokenIs, PTL DEF Spec
==============================================================================
