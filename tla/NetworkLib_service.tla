-------------------------- MODULE NetworkLib_service --------------------------
(***************************************************************************)
(* NetworkLib implements SessionService, for any number of threads, slots  *)
(* and messages.                                                           *)
(***************************************************************************)
EXTENDS NetworkLib_proofs, SequenceTheorems

LEMMA InsertLast ==
  ASSUME NEW S, NEW q \in Seq(S), NEW e \in S
  PROVE  Service!InsertAt(q, Len(q) + 1, e) = Append(q, e)
<1> DEFINE l == Len(q) + 1
<1>1. SubSeq(q, 1, l - 1) = q /\ SubSeq(q, l, Len(q)) = <<>>
  OBVIOUS
<1>2. Service!InsertAt(q, l, e) = (SubSeq(q, 1, l - 1) \o <<e>>) \o SubSeq(q, l, Len(q))
  BY DEF Service!InsertAt
<1>3. q \o <<e>> = Append(q, e) /\ Append(q, e) \in Seq(S)
  OBVIOUS
<1>4. (q \o <<e>>) \o <<>> = Append(q, e)
  BY <1>3
<1> QED
  BY <1>1, <1>2, <1>4

\* A slot is Early from the AcceptEx call to onAccept, Late from onRelease to the
\* next AcceptEx call, and in between a session is open in it.
EarlyLabels == {"accLive", "accCount", "onAccept"}
IdleLabels  == {"pushIdx", "acceptEx"}
LateLabels  == IdleLabels \cup {"releaseSession"}
ReadyLabels == {"registerSend", "rereadQSize", "dequeue"}

Doing(L, s) == \E w \in Workers : ses[w] = s /\ pc[w] \in L
Stacked(s)  == \E i \in DOMAIN mStackSessionIdx : mStackSessionIdx[i] = s

Opening(s) == iocp[s].accept > 0 \/ Doing(EarlyLabels, s)
Early(s)   == kernel[s].accept > 0 \/ Opening(s)
Idle(s)    == Stacked(s) \/ Doing(IdleLabels, s)
Late(s)    == Stacked(s) \/ Doing(LateLabels, s)
Open(s)    == Id(s) \in accepted /\ Id(s) \notin released

Stage(s) == /\ Early(s) => Id(s) \notin accepted
            /\ Late(s) => ~Open(s)
            /\ ~Early(s) /\ ~Late(s) => Open(s)

\* No message stays in a slot for its next session ...
Drained(s) == Early(s) \/ Idle(s) => mSendQ[s] = <<>> /\ mSendOv[s] = <<>>

\* ... nor in mSendOv when registerSend fills it.
Ready(s) == Doing(ReadyLabels, s) => mSendOv[s] = <<>>

\* Connections are bounded when they come.
InRange(s) == Opening(s) => mSessionID[s] <= MaxSeq

SlotService(s) == Stage(s) /\ Drained(s) /\ Ready(s) /\ InRange(s)

\* Ids are given once, and those of a slot in ascending order.
Ids ==
  /\ released \subseteq accepted
  /\ \A s \in Slots : mSessionID[s] <= mSeqID
  /\ \A s, o \in Slots : mSessionID[s] = mSessionID[o] => s = o
  /\ \A id \in accepted : /\ id[2] <= MaxSeq
                          /\ id[2] <= mSessionID[id[1]]
                          /\ \A s \in Slots : id[2] = mSessionID[s] => id[1] = s

\* The application names sessions it was given, and enqueues when it named the
\* session that lives in the slot.
Known ==
  /\ \A t \in Contents : pc[t] # "idle" => <<ses[t], tgt[t]>> \in accepted
  /\ \A t \in Threads : pc[t] = "enqueue" => tgt[t] = mSessionID[ses[t]]

ServiceInv == Ids /\ Known /\ \A s \in Slots : SlotService(s)

-----------------------------------------------------------------------------
(* Who else is on a slot, from the invariant of the reference count. *)

LEMMA Somebody ==
  ASSUME NEW T \in SUBSET Threads, NEW L, NEW s, NEW t \in T, ses[t] = s, pc[t] \in L
  PROVE  /\ Count(T, L, s) \in Nat /\ Count(T, L, s) >= 1
         /\ Count(T, L, s) <= 1 => \A u \in T : ses[u] = s /\ pc[u] \in L => u = t
<1>1. IsFiniteSet(At(T, L, s)) /\ t \in At(T, L, s) /\ Count(T, L, s) \in Nat
  BY FiniteThreads DEF At
<1>2. Count(T, L, s) # 0
  BY <1>1, FS_EmptySet DEF Count
<1>3. ASSUME Count(T, L, s) <= 1, NEW u \in T, ses[u] = s, pc[u] \in L PROVE u = t
  <2>1. Cardinality(At(T, L, s)) = 1
    BY <1>1, <1>2, <1>3 DEF Count
  <2>2. \E x : At(T, L, s) = {x}
    BY <1>1, <2>1, FS_Singleton
  <2>3. u \in At(T, L, s)
    BY <1>3 DEF At
  <2> QED
    BY <1>1, <2>2, <2>3
<1> QED
  BY <1>1, <1>2, <1>3

LEMMA NoneOfFour ==
  ASSUME NEW a \in Nat, NEW b \in Nat, NEW c \in Nat, NEW d \in Nat, a + b + c + d = 0
  PROVE  a = 0 /\ b = 0 /\ c = 0
OBVIOUS

\* A thread that holds a reference of s: the slot is not out of use.
LEMMA Held ==
  ASSUME IInv, NEW s \in Slots, NEW t \in Threads, ses[t] = s,
         pc[t] \in LockLabels \/ (t \in Workers /\ pc[t] \in WorkLabels)
  PROVE  /\ kernel[s].accept = 0 /\ iocp[s].accept = 0 /\ ~Stacked(s)
         /\ \A w \in Workers : ses[w] = s => pc[w] \notin ClosedLabels
<1>1. SlotNats(s) /\ FieldsOK(s) /\ Counted(s)
  BY AllNats, FieldNats DEF IInv, SlotInv
<1>2. Workers \in SUBSET Threads /\ Threads \in SUBSET Threads
  BY DEF Threads
<1>3. /\ Count(Workers, WorkLabels, s) \in Nat /\ Count(Threads, LockLabels, s) \in Nat
      /\ Count(Workers, {"ioError"}, s) \in Nat
  BY <1>2, FiniteThreads
<1>4. Count(Workers, WorkLabels, s) >= 1 \/ Count(Threads, LockLabels, s) >= 1
  BY <1>2, Somebody
<1>5. AllRefs(s) >= 1
  BY <1>1, <1>3, <1>4 DEF AllRefs, ThreadRefs, SlotNats
<1>6. Places(s) = 0
  BY <1>1, <1>5 DEF Counted
<1>7. ThreadsClosed(s) = 0 /\ OnStack(s) = 0 /\ kernel[s].accept = 0 /\ iocp[s].accept = 0
  <2>1. ThreadsClosed(s) = 0 /\ IoClosed(s) = 0 /\ OnStack(s) \in Nat
    BY <1>1, <1>6 DEF Places, SlotNats
  <2>2. kernel[s].accept \in Nat /\ iocp[s].accept \in Nat /\ iocp[s].release \in Nat
    BY <1>1 DEF FieldsOK
  <2>3. OnStack(s) + kernel[s].accept + iocp[s].accept + iocp[s].release = 0
    BY <2>1 DEF IoClosed
  <2>4. OnStack(s) = 0 /\ kernel[s].accept = 0 /\ iocp[s].accept = 0
    BY <2>1, <2>2, <2>3, NoneOfFour
  <2> QED
    BY <2>1, <2>4
<1>8. ASSUME NEW w \in Workers, ses[w] = s, pc[w] \in ClosedLabels PROVE FALSE
  <2>1. Count(Workers, ClosedLabels, s) >= 1
    BY <1>2, <1>8, Somebody
  <2>2. Count(Workers, ClosedLabels, s) = 0
    BY <1>7 DEF ThreadsClosed
  <2> QED
    BY <2>1, <2>2
<1>9. ~Stacked(s)
  BY <1>7 DEF OnStack, Stacked
<1>10. \A w \in Workers : ses[w] = s => pc[w] \notin ClosedLabels
  BY <1>8
<1> QED
  BY <1>7, <1>9, <1>10

\* A worker that releases or accepts on s is alone there.
LEMMA Alone ==
  ASSUME IInv, NEW s \in Slots, NEW w \in Workers, ses[w] = s, pc[w] \in ClosedLabels
  PROVE  /\ kernel[s].accept = 0 /\ iocp[s].accept = 0 /\ ~Stacked(s)
         /\ \A u \in Workers : ses[u] = s /\ pc[u] \in ClosedLabels => u = w
         /\ \A u \in Workers : ses[u] = s => pc[u] \notin WorkLabels
         /\ \A t \in Threads : ses[t] = s => pc[t] \notin LockLabels
<1>1. SlotNats(s) /\ FieldsOK(s) /\ Counted(s)
  BY AllNats, FieldNats DEF IInv, SlotInv
<1>2. Workers \in SUBSET Threads /\ w \in Threads
  BY DEF Threads
<1>3. ThreadsClosed(s) >= 1
  BY <1>2, Somebody DEF ThreadsClosed
<1>4. Places(s) = 1
  BY <1>1, <1>3 DEF Counted, Places, SlotNats
<1>5. ThreadsClosed(s) <= 1 /\ OnStack(s) = 0 /\ kernel[s].accept = 0 /\ iocp[s].accept = 0
  <2>1. ThreadsClosed(s) <= 1 /\ IoClosed(s) = 0 /\ OnStack(s) \in Nat
    BY <1>1, <1>3, <1>4 DEF Places, SlotNats
  <2>2. kernel[s].accept \in Nat /\ iocp[s].accept \in Nat /\ iocp[s].release \in Nat
    BY <1>1 DEF FieldsOK
  <2>3. OnStack(s) + kernel[s].accept + iocp[s].accept + iocp[s].release = 0
    BY <2>1 DEF IoClosed
  <2>4. OnStack(s) = 0 /\ kernel[s].accept = 0 /\ iocp[s].accept = 0
    BY <2>1, <2>2, <2>3, NoneOfFour
  <2> QED
    BY <2>1, <2>4
<1>6. \A u \in Workers : ses[u] = s /\ pc[u] \in ClosedLabels => u = w
  BY <1>2, <1>5, Somebody DEF ThreadsClosed
<1>7. ASSUME NEW t \in Threads, ses[t] = s,
             pc[t] \in LockLabels \/ (t \in Workers /\ pc[t] \in WorkLabels)
      PROVE  FALSE
  BY <1>7, Held
<1>8. ~Stacked(s)
  BY <1>5 DEF OnStack, Stacked
<1>9. \A u \in Workers : ses[u] = s => pc[u] \notin WorkLabels
  BY <1>2, <1>7
<1>10. \A t \in Threads : ses[t] = s => pc[t] \notin LockLabels
  BY <1>7
<1> QED
  BY <1>5, <1>6, <1>8, <1>9, <1>10

LEMMA OneReceives ==
  ASSUME IInv, NEW w \in Workers, pc[w] \in RecvLabels,
         NEW u \in Workers, ses[u] = ses[w], pc[u] \in RecvLabels
  PROVE  u = w
<1>1. w \in Threads /\ Workers \in SUBSET Threads
  BY DEF Threads
<1> PICK s \in Slots : s = ses[w]
  BY <1>1 DEF IInv, TypeOK
<1>2. SlotNats(s) /\ Tokens(s)
  BY AllNats DEF IInv, SlotInv
<1>3. ThreadsRecv(s) <= 1
  BY <1>2 DEF Tokens, SlotNats
<1> QED
  BY <1>1, <1>3, Somebody DEF ThreadsRecv

LEMMA OneSends ==
  ASSUME IInv, NEW w \in Workers, pc[w] \in SendLabels,
         NEW u \in Workers, ses[u] = ses[w], pc[u] \in SendLabels
  PROVE  u = w
<1>1. w \in Threads /\ Workers \in SUBSET Threads
  BY DEF Threads
<1> PICK s \in Slots : s = ses[w]
  BY <1>1 DEF IInv, TypeOK
<1>2. SlotNats(s) /\ Tokens(s)
  BY AllNats DEF IInv, SlotInv
<1>3. ThreadsSend(s) <= 1
  BY <1>2 DEF Tokens, SlotNats
<1> QED
  BY <1>1, <1>3, Somebody DEF ThreadsSend

-----------------------------------------------------------------------------
(* Slots and steps that the service does not see. *)

\* What the system, the stack and the application's knowledge say of slot o stays.
SameSlot(o) ==
  /\ kernel'[o].accept = kernel[o].accept /\ iocp'[o].accept = iocp[o].accept
  /\ mSessionID'[o] = mSessionID[o]
  /\ Stacked(o)' <=> Stacked(o)
  /\ Id(o) \in accepted' <=> Id(o) \in accepted
  /\ Id(o) \in released' <=> Id(o) \in released
  /\ mSendQ'[o] = mSendQ[o] /\ mSendOv'[o] = mSendOv[o]

\* Thread t neither was nor is at a label that counts for slot o.
Outside(t, o) ==
  /\ ses[t] = o => pc[t] \notin EarlyLabels \cup LateLabels
  /\ ses'[t] = o => /\ pc'[t] \notin EarlyLabels \cup LateLabels
                    /\ pc'[t] \in ReadyLabels => pc[t] \in ReadyLabels /\ ses[t] = o

LEMMA DoingKept ==
  ASSUME NEW t \in Threads, Moves(t), NEW L, NEW o,
         ses[t] = o => pc[t] \notin L, ses'[t] = o => pc'[t] \notin L
  PROVE  Doing(L, o)' <=> Doing(L, o)
<1>1. Workers \subseteq Threads
  BY DEF Threads
<1>2. ASSUME Doing(L, o) PROVE Doing(L, o)'
  <2>1. PICK w \in Workers : ses[w] = o /\ pc[w] \in L
    BY <1>2 DEF Doing
  <2>2. w # t
    BY <2>1
  <2>3. ses'[w] = o /\ pc'[w] \in L
    BY <1>1, <2>1, <2>2 DEF Moves
  <2> QED
    BY <2>3 DEF Doing
<1>3. ASSUME Doing(L, o)' PROVE Doing(L, o)
  <2>1. PICK w \in Workers : ses'[w] = o /\ pc'[w] \in L
    BY <1>3 DEF Doing
  <2>2. w # t
    BY <2>1
  <2>3. ses[w] = o /\ pc[w] \in L
    BY <1>1, <2>1, <2>2 DEF Moves
  <2> QED
    BY <2>3 DEF Doing
<1> QED
  BY <1>2, <1>3

LEMMA SlotKept ==
  ASSUME NEW o \in Slots, SlotService(o), SameSlot(o),
         Doing(EarlyLabels, o)' <=> Doing(EarlyLabels, o),
         Doing(IdleLabels, o)' <=> Doing(IdleLabels, o),
         Doing(LateLabels, o)' <=> Doing(LateLabels, o),
         Doing(ReadyLabels, o)' => Doing(ReadyLabels, o)
  PROVE  SlotService(o)'
<1>1. /\ Opening(o)' <=> Opening(o)
      /\ Early(o)' <=> Early(o)
      /\ Idle(o)' <=> Idle(o)
      /\ Late(o)' <=> Late(o)
  BY DEF Opening, Early, Idle, Late, SameSlot
<1>2. Id(o)' = Id(o)
  BY DEF Id, SameSlot
<1>3. Open(o)' <=> Open(o)
  BY <1>2 DEF Open, SameSlot
<1>4. Stage(o)'
  BY <1>1, <1>2, <1>3 DEF Stage, SlotService, SameSlot
<1>5. Drained(o)' /\ Ready(o)' /\ InRange(o)'
  BY <1>1 DEF Drained, Ready, InRange, SlotService, SameSlot
<1> QED
  BY <1>4, <1>5 DEF SlotService

LEMMA Untouched ==
  ASSUME NEW t \in Threads, Moves(t), NEW o \in Slots, SlotService(o), SameSlot(o), Outside(t, o)
  PROVE  SlotService(o)'
<1>1. \A L \in SUBSET (EarlyLabels \cup LateLabels) : Doing(L, o)' <=> Doing(L, o)
  BY DoingKept DEF Outside
<1>2. EarlyLabels \subseteq EarlyLabels \cup LateLabels
      /\ IdleLabels \subseteq EarlyLabels \cup LateLabels
      /\ LateLabels \subseteq EarlyLabels \cup LateLabels
  BY DEF LateLabels
<1>3. Doing(ReadyLabels, o)' => Doing(ReadyLabels, o)
  <2> SUFFICES ASSUME NEW w \in Workers, ses'[w] = o, pc'[w] \in ReadyLabels
               PROVE  \E u \in Workers : ses[u] = o /\ pc[u] \in ReadyLabels
    BY DEF Doing
  <2>1. ses[w] = o /\ pc[w] \in ReadyLabels
    BY DEF Outside, Moves, Threads
  <2> QED
    BY <2>1
<1> QED
  BY <1>1, <1>2, <1>3, SlotKept

\* A step of thread t that the service does not see.
Calm(t) ==
  /\ Moves(t)
  /\ \A s \in Slots : kernel'[s].accept = kernel[s].accept /\ iocp'[s].accept = iocp[s].accept
  /\ UNCHANGED <<mSessionID, mSeqID, mStackSessionIdx, accepted, released, mSendQ, mSendOv, done>>
  /\ pc[t] \notin EarlyLabels \cup LateLabels
  /\ pc'[t] \notin EarlyLabels \cup LateLabels
  /\ pc'[t] \in ReadyLabels => pc[t] \in ReadyLabels /\ ses'[t] = ses[t]

\* The ids that thread t has after its step.
Knows(t) ==
  /\ \A u \in Threads : u # t => tgt'[u] = tgt[u]
  /\ t \in Contents /\ pc'[t] # "idle" => <<ses'[t], tgt'[t]>> \in accepted
  /\ pc'[t] = "enqueue" => tgt'[t] = mSessionID[ses'[t]]

LEMMA StillKnown ==
  ASSUME Known, NEW t \in Threads, Moves(t), Knows(t), accepted \subseteq accepted',
         mSessionID' = mSessionID
  PROVE  Known'
<1>1. \A u \in Threads : u # t => pc'[u] = pc[u] /\ ses'[u] = ses[u] /\ tgt'[u] = tgt[u]
  BY DEF Moves, Knows
<1>2. ASSUME NEW u \in Contents, pc'[u] # "idle" PROVE <<ses'[u], tgt'[u]>> \in accepted'
  <2>1. u \in Threads
    BY DEF Threads
  <2>2. CASE u = t
    BY <1>2, <2>2 DEF Knows
  <2>3. CASE u # t
    BY <1>1, <1>2, <2>1, <2>3 DEF Known
  <2> QED
    BY <2>2, <2>3
<1>3. ASSUME NEW u \in Threads, pc'[u] = "enqueue" PROVE tgt'[u] = mSessionID'[ses'[u]]
  <2>1. CASE u = t
    BY <1>3, <2>1 DEF Knows
  <2>2. CASE u # t
    BY <1>1, <1>3, <2>2 DEF Known
  <2> QED
    BY <2>1, <2>2
<1> QED
  BY <1>2, <1>3 DEF Known

\* The service's view does not change.
Unseen == UNCHANGED Service!service

LEMMA SameView ==
  ASSUME UNCHANGED <<mSessionID, accepted, released, mSendQ, mSendOv, done>>
  PROVE  Unseen
BY DEF Unseen, Service!service, Id

LEMMA CalmStep ==
  ASSUME ServiceInv, NEW t \in Threads, Calm(t), Knows(t)
  PROVE  ServiceInv' /\ Unseen
<1>1. \A s \in Slots : SameSlot(s) /\ Outside(t, s)
  BY DEF Calm, SameSlot, Outside, Stacked
<1>2. \A s \in Slots : SlotService(s)'
  BY <1>1, Untouched DEF ServiceInv, Calm
<1>3. Ids'
  BY DEF Ids, ServiceInv, Calm
<1>4. Known'
  BY StillKnown DEF ServiceInv, Calm
<1>5. Unseen
  BY SameView DEF Calm
<1> QED
  BY <1>2, <1>3, <1>4, <1>5 DEF ServiceInv

AcceptsKept ==
  \A s \in Slots : kernel'[s].accept = kernel[s].accept /\ iocp'[s].accept = iocp[s].accept

LEMMA QueuedAccepts ==
  ASSUME TypeOK, NEW s \in Slots, NEW k \in Completions \ {"accept"}, Queued(s, k), kernel' = kernel
  PROVE  AcceptsKept
<1>1. iocp \in [Slots -> [Completions -> Nat]] /\ "accept" \in Completions
  BY DEF TypeOK, Completions
<1>2. \A o \in Slots : iocp'[o].accept = iocp[o].accept
  BY <1>1 DEF Queued
<1> QED
  BY <1>2 DEF AcceptsKept

LEMMA CancelAccepts ==
  ASSUME TypeOK, NEW s \in Slots, NEW K \in SUBSET {"recv", "send"}, CancelIo(s, K)
  PROVE  AcceptsKept
<1>1. /\ iocp \in [Slots -> [Completions -> Nat]] /\ kernel \in [Slots -> [Ops -> Nat]]
      /\ "accept" \in Completions /\ "accept" \in Ops /\ "accept" \notin K
  BY DEF TypeOK, Completions, Ops
<1>2. \A o \in Slots : kernel'[o].accept = kernel[o].accept
  BY <1>1 DEF CancelIo
<1>3. \A o \in Slots : iocp'[o].accept = iocp[o].accept
  BY <1>1 DEF CancelIo
<1> QED
  BY <1>2, <1>3 DEF AcceptsKept

LEMMA CallAccepts ==
  ASSUME TypeOK, NEW w \in Workers, NEW k \in {"recv", "send"}, WSACall(w, k)
  PROVE  AcceptsKept
<1>1. ses[w] \in Slots /\ k \in Completions \ {"accept"} /\ k \in Ops
  BY DEF TypeOK, Threads, Completions, Ops
<1>2. CASE kernel' = [kernel EXCEPT ![ses[w]][k] = @ + 1] /\ iocp' = iocp
  <2>1. kernel \in [Slots -> [Ops -> Nat]] /\ "accept" \in Ops /\ k # "accept"
    BY DEF TypeOK, Ops
  <2>2. \A o \in Slots : kernel'[o].accept = kernel[o].accept
    BY <1>1, <1>2, <2>1
  <2> QED
    BY <1>2, <2>2 DEF AcceptsKept
<1>3. CASE Queued(ses[w], k) /\ kernel' = kernel
  BY <1>1, <1>3, QueuedAccepts
<1>4. CASE kernel' = kernel /\ iocp' = iocp
  BY <1>4 DEF AcceptsKept
<1> QED
  BY <1>2, <1>3, <1>4 DEF WSACall

LEMMA PostAccepts ==
  ASSUME TypeOK, NEW s \in Slots, TryRelease(s) \/ PostSend(s), kernel' = kernel
  PROVE  AcceptsKept
<1>1. {"release", "send"} \subseteq Completions \ {"accept"}
  BY DEF Completions
<1>2. CASE Queued(s, "release") \/ Queued(s, "send")
  BY <1>1, <1>2, QueuedAccepts
<1>3. CASE iocp' = iocp
  BY <1>3 DEF AcceptsKept
<1> QED
  BY <1>2, <1>3 DEF TryRelease, PostSend

Special(w) ==
  \/ AcceptLive(w) \/ AcceptCount(w) \/ OnAccept(w) \/ CompleteSend(w) \/ Dequeue(w)
  \/ OnRelease(w) \/ ReleaseSession(w) \/ PushIdx(w) \/ RegisterAcceptEx(w) \/ AcceptEx(w)

LEMMA CalmWorker ==
  ASSUME TypeOK, NEW w \in Workers, WorkerStep(w), ~Special(w)
  PROVE  Calm(w) /\ Knows(w)
<1> USE DEF session, pool, io, local, log
<1>1. w \in Threads /\ w \notin Contents /\ ses[w] \in Slots /\ tgt \in [Threads -> Nat]
  BY NetworkLibAssumption DEF TypeOK, Threads
<1>2. /\ UNCHANGED <<mSessionID, mSeqID, mStackSessionIdx, accepted, released, mSendQ, mSendOv, done>>
      /\ ses' = ses
  BY DEF WorkerStep, Special, FinLive, FinCancel, WorkerDec, WorkerCAS, CompleteRecv,
     RegisterRecv, EnterDisconnect, WSARecv, WSACall, IoPending, IoError, RegisterSend,
     RereadQSize, FlagOff, Recheck, FlagOn, SendLive, WSASend
<1>3. AcceptsKept
  <2>1. CASE FinCancel(w) \/ IoPending(w)
    <3>1. CancelIo(ses[w], {"send"}) \/ CancelIo(ses[w], {"recv", "send"})
          \/ (kernel' = kernel /\ iocp' = iocp)
      BY <2>1 DEF FinCancel, IoPending
    <3> QED
      BY <1>1, <3>1, CancelAccepts DEF AcceptsKept
  <2>2. CASE WorkerCAS(w) \/ FlagOn(w)
    BY <1>1, <2>2, PostAccepts DEF WorkerCAS, FlagOn
  <2>3. CASE WSARecv(w) \/ WSASend(w)
    BY <2>3, CallAccepts DEF WSARecv, WSASend
  <2>4. CASE ~(FinCancel(w) \/ IoPending(w) \/ WorkerCAS(w) \/ FlagOn(w) \/ WSARecv(w) \/ WSASend(w))
    <3>1. kernel' = kernel /\ iocp' = iocp
      BY <2>4 DEF WorkerStep, Special, FinLive, WorkerDec, CompleteRecv, RegisterRecv,
         IoError, RegisterSend, RereadQSize, FlagOff, Recheck, SendLive
    <3> QED
      BY <3>1 DEF AcceptsKept
  <2> QED
    BY <2>1, <2>2, <2>3, <2>4
<1>4. PICK l : Goto(w, l) /\ l \notin EarlyLabels \cup LateLabels \cup {"enqueue"}
               /\ (l \in ReadyLabels => pc[w] \in ReadyLabels)
  BY DEF WorkerStep, Special, FinLive, FinCancel, WorkerDec, WorkerCAS, CompleteRecv,
     RegisterRecv, EnterDisconnect, WSARecv, WSACall, IoPending, IoError, RegisterSend,
     RereadQSize, FlagOff, Recheck, FlagOn, SendLive, WSASend,
     EarlyLabels, IdleLabels, LateLabels, ReadyLabels
<1>5. pc[w] \notin EarlyLabels \cup LateLabels
  BY DEF WorkerStep, Special, FinLive, FinCancel, WorkerDec, WorkerCAS, CompleteRecv,
     RegisterRecv, WSARecv, IoPending, IoError, RegisterSend,
     RereadQSize, FlagOff, Recheck, FlagOn, SendLive, WSASend,
     EarlyLabels, IdleLabels, LateLabels
<1>6. \A u \in Threads : u # w => tgt'[u] = tgt[u]
  BY <1>1 DEF WorkerStep, Special, FinLive, FinCancel, WorkerDec, WorkerCAS, CompleteRecv,
     RegisterRecv, EnterDisconnect, WSARecv, WSACall, IoPending, IoError, RegisterSend,
     RereadQSize, FlagOff, Recheck, FlagOn, SendLive, WSASend
<1>7. Moves(w) /\ pc'[w] = l
  BY <1>1, <1>2, <1>4, Going
<1>8. Calm(w)
  BY <1>2, <1>3, <1>4, <1>5, <1>7 DEF Calm, AcceptsKept
<1>9. Knows(w)
  BY <1>1, <1>4, <1>6, <1>7 DEF Knows
<1> QED
  BY <1>8, <1>9

LEMMA CalmLock ==
  ASSUME TypeOK, Known, NEW t \in Threads, LockStep(t), ~EnQueueMsg(t)
  PROVE  Calm(t) /\ Knows(t)
<1> USE DEF session, pool, io, local, log
<1>1. ses[t] \in Slots /\ tgt \in [Threads -> Nat] /\ pc[t] # "idle"
  BY DEF TypeOK, LockStep, SessionLock, LockID, LockUndo, LockCAS, SessionUnLock, SendPost,
         DisconnectLive, DisconnectCancel
<1>2. UNCHANGED <<mSessionID, mSeqID, mStackSessionIdx, accepted, released, mSendQ, mSendOv, done,
                  ses, tgt>>
  BY DEF LockStep, SessionLock, LockID, LockUndo, LockCAS, SessionUnLock, SendPost,
         DisconnectLive, DisconnectCancel
<1>3. AcceptsKept
  <2>1. CASE DisconnectCancel(t)
    BY <1>1, <2>1, CancelAccepts DEF DisconnectCancel
  <2>2. CASE LockCAS(t) \/ SendPost(t)
    BY <1>1, <2>2, PostAccepts DEF LockCAS, SendPost
  <2>3. CASE ~(DisconnectCancel(t) \/ LockCAS(t) \/ SendPost(t))
    <3>1. kernel' = kernel /\ iocp' = iocp
      BY <2>3 DEF LockStep, SessionLock, LockID, LockUndo, SessionUnLock, DisconnectLive
    <3> QED
      BY <3>1 DEF AcceptsKept
  <2> QED
    BY <2>1, <2>2, <2>3
<1>4. PICK l : Goto(t, l) /\ l \notin EarlyLabels \cup LateLabels \cup ReadyLabels
               /\ (l = "enqueue" => tgt[t] = mSessionID[ses[t]])
  BY DEF LockStep, SessionLock, LockID, LockUndo, LockCAS, SessionUnLock, SendPost,
         DisconnectLive, DisconnectCancel, Return, EarlyLabels, IdleLabels, LateLabels, ReadyLabels
<1>5. pc[t] \notin EarlyLabels \cup LateLabels
  BY DEF LockStep, SessionLock, LockID, LockUndo, LockCAS, SessionUnLock, SendPost,
         DisconnectLive, DisconnectCancel, EarlyLabels, IdleLabels, LateLabels
<1>6. Moves(t) /\ pc'[t] = l
  BY <1>2, <1>4, Going
<1>7. Calm(t)
  BY <1>2, <1>3, <1>4, <1>5, <1>6 DEF Calm, AcceptsKept
<1>8. Knows(t)
  BY <1>1, <1>2, <1>4, <1>6 DEF Knows, Known
<1> QED
  BY <1>7, <1>8

LEMMA CalmCall ==
  ASSUME TypeOK, NEW t \in Contents, NEW id \in accepted, NEW o \in {"send", "disconnect"},
         Call(t, id, o)
  PROVE  Calm(t) /\ Knows(t)
<1>1. t \in Threads /\ id = <<id[1], id[2]>> /\ pc \in [Threads -> Labels]
      /\ ses \in [Threads -> Slots] /\ tgt \in [Threads -> Nat]
  BY DEF TypeOK, Threads
<1>2. /\ UNCHANGED <<mSessionID, mSeqID, mStackSessionIdx, accepted, released, mSendQ, mSendOv, done,
                     kernel, iocp>>
      /\ pc[t] = "idle" /\ pc' = [pc EXCEPT ![t] = "lock"]
      /\ ses' = [ses EXCEPT ![t] = id[1]] /\ tgt' = [tgt EXCEPT ![t] = id[2]]
  BY DEF Call, Goto, session, pool, io, log
<1>3. /\ Moves(t) /\ pc'[t] = "lock" /\ ses'[t] = id[1] /\ tgt'[t] = id[2]
      /\ \A u \in Threads : u # t => tgt'[u] = tgt[u]
  BY <1>1, <1>2 DEF Moves
<1> QED
  BY <1>1, <1>2, <1>3 DEF Calm, Knows, EarlyLabels, IdleLabels, LateLabels, ReadyLabels

LEMMA CalmTake ==
  ASSUME TypeOK, NEW w \in Workers, NEW s \in Slots, NEW k \in Completions, TakeCompletion(w, s, k),
         k # "accept"
  PROVE  Calm(w) /\ Knows(w)
<1>1. w \in Threads /\ w \notin Contents /\ pc \in [Threads -> Labels]
      /\ ses \in [Threads -> Slots] /\ iocp \in [Slots -> [Completions -> Nat]]
      /\ "accept" \in Completions
  BY NetworkLibAssumption DEF TypeOK, Threads, Completions
<1>2. /\ UNCHANGED <<mSessionID, mSeqID, mStackSessionIdx, accepted, released, mSendQ, mSendOv, done,
                     kernel, tgt>>
      /\ pc[w] = "GQCS" /\ pc' = [pc EXCEPT ![w] = Entry(k)]
      /\ ses' = [ses EXCEPT ![w] = s]
      /\ iocp' = [iocp EXCEPT ![s][k] = @ - 1]
  BY DEF TakeCompletion, Goto, session, pool, log
<1>3. Moves(w) /\ pc'[w] = Entry(k) /\ ses'[w] = s
  BY <1>1, <1>2 DEF Moves
<1>4. Entry(k) \in {"completeRecv", "finLive", "completeSend", "onRelease"}
  BY DEF Entry, Completions
<1>5. \A o \in Slots : iocp'[o].accept = iocp[o].accept
  BY <1>1, <1>2
<1> QED
  BY <1>1, <1>2, <1>3, <1>4, <1>5
     DEF Calm, Knows, EarlyLabels, IdleLabels, LateLabels, ReadyLabels

-----------------------------------------------------------------------------
(* Steps inside a stage, which the service does not see either. *)

SameLife(o) ==
  /\ mSessionID'[o] = mSessionID[o]
  /\ Id(o) \in accepted' <=> Id(o) \in accepted
  /\ Id(o) \in released' <=> Id(o) \in released

LEMMA StageKept ==
  ASSUME NEW o \in Slots, Stage(o), SameLife(o), Early(o)' <=> Early(o), Late(o)' <=> Late(o)
  PROVE  Stage(o)'
<1>1. Id(o)' = Id(o)
  BY DEF Id, SameLife
<1>2. Open(o)' <=> Open(o)
  BY <1>1 DEF Open, SameLife
<1> QED
  BY <1>1, <1>2 DEF Stage, SameLife

LEMMA SlotMoved ==
  ASSUME NEW o \in Slots, SlotService(o), SameLife(o),
         mSendQ'[o] = mSendQ[o], mSendOv'[o] = mSendOv[o],
         Opening(o)' => mSessionID[o] <= MaxSeq,
         Early(o)' <=> Early(o), Late(o)' <=> Late(o), Idle(o)' => Idle(o),
         Doing(ReadyLabels, o)' => Doing(ReadyLabels, o)
  PROVE  SlotService(o)'
<1>1. Stage(o)'
  BY StageKept DEF SlotService
<1>2. Drained(o)' /\ Ready(o)' /\ InRange(o)'
  BY DEF SlotService, Drained, Ready, InRange, SameLife
<1> QED
  BY <1>1, <1>2 DEF SlotService

\* Thread t's step concerns slot s; the others stay.
LEMMA Others ==
  ASSUME ServiceInv, NEW t \in Threads, Moves(t), NEW s \in Slots, ses'[t] = s,
         ses[t] = s \/ pc[t] \notin EarlyLabels \cup LateLabels,
         \A o \in Slots : o # s => SameSlot(o),
         SlotService(s)'
  PROVE  \A o \in Slots : SlotService(o)'
<1>1. ASSUME NEW o \in Slots, o # s PROVE SlotService(o)'
  <2>1. SlotService(o) /\ SameSlot(o)
    BY <1>1 DEF ServiceInv
  <2>2. Outside(t, o)
    BY <1>1 DEF Outside
  <2> QED
    BY <2>1, <2>2, Untouched
<1> QED
  BY <1>1

LEMMA KernelSeen ==
  ASSUME TypeOK, ServiceInv, NEW s \in Slots, KernelStep(s)
  PROVE  ServiceInv' /\ Unseen
<1> USE DEF session, pool, local, log
<1>1. /\ UNCHANGED <<mSessionID, mSeqID, mStackSessionIdx, accepted, released, mSendQ, mSendOv, done>>
      /\ UNCHANGED <<pc, ses, tgt>>
  BY DEF KernelStep, Connect, Received, ReceiveEnds, Sent, Reset
<1>2. /\ kernel \in [Slots -> [Ops -> Nat]] /\ iocp \in [Slots -> [Completions -> Nat]]
      /\ "accept" \in Ops /\ "accept" \in Completions
  BY DEF TypeOK, Ops, Completions
<1>3. \A L, o : Doing(L, o)' <=> Doing(L, o)
  BY <1>1 DEF Doing
<1>4. \A o : Stacked(o)' <=> Stacked(o)
  BY <1>1 DEF Stacked
<1>5. CASE Connect(s)
  <2>1. /\ mSessionID[s] <= MaxSeq /\ kernel[s].accept > 0
        /\ kernel' = [kernel EXCEPT ![s]["accept"] = @ - 1]
        /\ iocp' = [iocp EXCEPT ![s]["accept"] = @ + 1]
    BY <1>5 DEF Connect, Complete, Queued
  <2>2. iocp'[s].accept > 0
    BY <1>2, <2>1
  <2>3. \A o \in Slots : o # s => kernel'[o] = kernel[o] /\ iocp'[o] = iocp[o]
    BY <1>2, <2>1
  <2>4. SlotService(s)'
    <3>1. Early(s)' /\ Early(s)
      BY <2>1, <2>2 DEF Early, Opening
    <3>2. (Late(s)' <=> Late(s)) /\ (Idle(s)' <=> Idle(s))
      BY <1>3, <1>4 DEF Late, Idle
    <3>3. SameLife(s)
      BY <1>1 DEF SameLife
    <3> QED
      BY <1>1, <1>3, <2>1, <3>1, <3>2, <3>3, SlotMoved DEF ServiceInv
  <2>5. ASSUME NEW o \in Slots, o # s PROVE SlotService(o)'
    <3>1. SameSlot(o)
      BY <1>1, <1>4, <2>3, <2>5 DEF SameSlot
    <3> QED
      BY <1>3, <3>1, SlotKept DEF ServiceInv
  <2> QED
    BY <1>1, <2>4, <2>5, SameView DEF ServiceInv, Ids, Known
<1>6. CASE ~Connect(s)
  <2>1. AcceptsKept
    <3>1. CASE kernel' = kernel /\ iocp' = iocp
      BY <3>1 DEF AcceptsKept
    <3>2. ASSUME NEW k \in {"recv", "send"}, NEW c \in {"recv", "fin", "send"}, Complete(s, k, c)
          PROVE  AcceptsKept
      <4>1. kernel' = [kernel EXCEPT ![s][k] = @ - 1] /\ iocp' = [iocp EXCEPT ![s][c] = @ + 1]
        BY <3>2 DEF Complete, Queued
      <4>2. k \in Ops /\ c \in Completions /\ k # "accept" /\ c # "accept"
        BY DEF Ops, Completions
      <4>3. \A o \in Slots : kernel'[o].accept = kernel[o].accept
        BY <1>2, <4>1, <4>2
      <4>4. \A o \in Slots : iocp'[o].accept = iocp[o].accept
        BY <1>2, <4>1, <4>2
      <4> QED
        BY <4>3, <4>4 DEF AcceptsKept
    <3> QED
      BY <1>6, <3>1, <3>2 DEF KernelStep, Received, ReceiveEnds, Sent, Reset
  <2>2. \A o \in Slots : SameSlot(o)
    BY <1>1, <1>4, <2>1 DEF SameSlot, AcceptsKept
  <2>3. \A o \in Slots : SlotService(o)'
    BY <1>3, <2>2, SlotKept DEF ServiceInv
  <2> QED
    BY <1>1, <2>3, SameView DEF ServiceInv, Ids, Known
<1> QED
  BY <1>5, <1>6

LEMMA TakeAccept ==
  ASSUME TypeOK, ServiceInv, NEW w \in Workers, NEW s \in Slots, TakeCompletion(w, s, "accept")
  PROVE  ServiceInv' /\ Unseen
<1>1. w \in Threads /\ w \notin Contents /\ pc \in [Threads -> Labels]
      /\ ses \in [Threads -> Slots] /\ iocp \in [Slots -> [Completions -> Nat]]
      /\ "accept" \in Completions
  BY NetworkLibAssumption DEF TypeOK, Threads, Completions
<1>2. /\ UNCHANGED <<mSessionID, mSeqID, mStackSessionIdx, accepted, released, mSendQ, mSendOv, done,
                     kernel, tgt>>
      /\ pc[w] = "GQCS" /\ pc' = [pc EXCEPT ![w] = "accLive"]
      /\ ses' = [ses EXCEPT ![w] = s]
      /\ iocp[s].accept > 0 /\ iocp' = [iocp EXCEPT ![s]["accept"] = @ - 1]
  BY DEF TakeCompletion, Goto, Entry, session, pool, log
<1>3. Moves(w) /\ pc'[w] = "accLive" /\ ses'[w] = s
  BY <1>1, <1>2 DEF Moves
<1>4. \A o \in Slots : o # s => iocp'[o] = iocp[o]
  BY <1>1, <1>2
<1>5. Opening(s) /\ Opening(s)'
  BY <1>2, <1>3 DEF Opening, Doing, EarlyLabels
<1>6. \A L : {"GQCS", "accLive"} \cap L = {} => (Doing(L, s)' <=> Doing(L, s))
  BY <1>1, <1>2, <1>3, DoingKept
<1>7. /\ {"GQCS", "accLive"} \cap IdleLabels = {} /\ {"GQCS", "accLive"} \cap LateLabels = {}
      /\ {"GQCS", "accLive"} \cap ReadyLabels = {}
  BY DEF IdleLabels, LateLabels, ReadyLabels
<1>8. Stacked(s)' <=> Stacked(s)
  BY <1>2 DEF Stacked
<1>9. SlotService(s)'
  <2>1. Early(s) /\ Early(s)'
    BY <1>5 DEF Early
  <2>2. (Late(s)' <=> Late(s)) /\ (Idle(s)' <=> Idle(s))
    BY <1>6, <1>7, <1>8 DEF Late, Idle
  <2>3. SameLife(s)
    BY <1>2 DEF SameLife
  <2>4. mSessionID[s] <= MaxSeq
    BY <1>5 DEF ServiceInv, SlotService, InRange
  <2>5. Doing(ReadyLabels, s)' <=> Doing(ReadyLabels, s)
    BY <1>6, <1>7
  <2> QED
    BY <1>2, <2>1, <2>2, <2>3, <2>4, <2>5, SlotMoved DEF ServiceInv
<1>10. \A o \in Slots : o # s => SameSlot(o)
  BY <1>2, <1>4 DEF SameSlot, Stacked
<1>11. pc[w] \notin EarlyLabels \cup LateLabels
  BY <1>2 DEF EarlyLabels, IdleLabels, LateLabels
<1>12. \A o \in Slots : SlotService(o)'
  BY <1>1, <1>3, <1>9, <1>10, <1>11, Others
<1>13. Known'
  <2>1. Knows(w)
    BY <1>1, <1>2, <1>3 DEF Knows
  <2> QED
    BY <1>1, <1>2, <1>3, <2>1, StillKnown DEF ServiceInv
<1>14. Ids' /\ Unseen
  BY <1>2, SameView DEF ServiceInv, Ids
<1> QED
  BY <1>12, <1>13, <1>14 DEF ServiceInv

\* Worker w goes from label l to label m and stays on slot s.
At2(w, s, l, m) ==
  /\ w \in Threads /\ w \notin Contents /\ s \in Slots
  /\ ses[w] = s /\ ses'[w] = s /\ pc[w] = l /\ pc'[w] = m
  /\ Moves(w) /\ tgt' = tgt

LEMMA Stepping ==
  ASSUME TypeOK, NEW w \in Workers, NEW l, pc[w] = l, NEW m, Goto(w, m), ses' = ses, tgt' = tgt
  PROVE  \E s \in Slots : s = ses[w] /\ At2(w, s, l, m)
<1>1. w \in Threads /\ w \notin Contents
  BY NetworkLibAssumption DEF Threads
<1> QED
  BY <1>1, Going DEF At2

LEMMA SteppingKnows ==
  ASSUME ServiceInv, NEW w, NEW s, NEW l, NEW m, At2(w, s, l, m), m # "enqueue",
         accepted \subseteq accepted', mSessionID' = mSessionID
  PROVE  Known'
<1>1. Knows(w)
  BY DEF Knows, At2
<1> QED
  BY <1>1, StillKnown DEF ServiceInv, At2

\* Labels the worker neither leaves nor reaches.
LEMMA SteppingKeeps ==
  ASSUME NEW w, NEW s, NEW l, NEW m, At2(w, s, l, m), NEW L, l \notin L, m \notin L
  PROVE  Doing(L, s)' <=> Doing(L, s)
BY DoingKept DEF At2

LEMMA AcceptSteps ==
  ASSUME TypeOK, ServiceInv, NEW w \in Workers, AcceptLive(w) \/ AcceptCount(w)
  PROVE  ServiceInv' /\ Unseen
<1>1. PICK l, m \in EarlyLabels : pc[w] = l /\ Goto(w, m)
  BY DEF AcceptLive, AcceptCount, EarlyLabels
<1>2. UNCHANGED <<mSessionID, mSeqID, mStackSessionIdx, accepted, released, mSendQ, mSendOv, done,
                  kernel, iocp, ses, tgt>>
  BY DEF AcceptLive, AcceptCount, pool, io, local, log
<1>3. PICK s \in Slots : At2(w, s, l, m)
  BY <1>1, <1>2, Stepping
<1>4. Doing(EarlyLabels, s) /\ Doing(EarlyLabels, s)'
  BY <1>1, <1>3 DEF Doing, At2
<1>5. l \notin LateLabels \cup ReadyLabels /\ m \notin LateLabels \cup ReadyLabels
      /\ l \notin IdleLabels /\ m \notin IdleLabels /\ m # "enqueue"
  BY <1>1 DEF EarlyLabels, IdleLabels, LateLabels, ReadyLabels
<1>6. \A o \in Slots : SameSlot(o)
  BY <1>2 DEF SameSlot, Stacked
<1>7. SlotService(s)'
  <2>1. /\ Doing(IdleLabels, s)' <=> Doing(IdleLabels, s)
        /\ Doing(LateLabels, s)' <=> Doing(LateLabels, s)
        /\ Doing(ReadyLabels, s)' <=> Doing(ReadyLabels, s)
    BY <1>3, <1>5, SteppingKeeps
  <2> QED
    BY <1>4, <1>6, <2>1, SlotKept DEF ServiceInv
<1>8. \A o \in Slots : SlotService(o)'
  BY <1>3, <1>6, <1>7, Others DEF At2
<1>9. Known'
  BY <1>2, <1>3, <1>5, SteppingKnows
<1>10. Ids' /\ Unseen
  BY <1>2, SameView DEF ServiceInv, Ids
<1> QED
  BY <1>8, <1>9, <1>10 DEF ServiceInv

LEMMA PushStep ==
  ASSUME IInv, ServiceInv, NEW w \in Workers, PushIdx(w)
  PROVE  ServiceInv' /\ Unseen
<1>1. /\ UNCHANGED <<mSessionID, mSeqID, accepted, released, mSendQ, mSendOv, done,
                     kernel, iocp, ses, tgt>>
      /\ pc[w] = "pushIdx" /\ Goto(w, "registerAcceptEx") /\ StackPush(ses[w])
  BY DEF PushIdx, session, io, local, log
<1>2. PICK s \in Slots : s = ses[w] /\ At2(w, s, "pushIdx", "registerAcceptEx")
  BY <1>1, Stepping DEF IInv
<1>3. ~Stacked(s)
  BY <1>1, <1>2, Alone DEF ClosedLabels, At2
<1>4. OnStack(s) = 0
  BY <1>3 DEF Stacked, OnStack
<1>5. OnStack(s)' = 1 /\ \A o \in Slots : o # s => OnStack(o)' = OnStack(o)
  BY <1>1, <1>2, <1>4, Pushed DEF IInv
<1>6. \A o \in Slots : o # s => (Stacked(o)' <=> Stacked(o))
  BY <1>5 DEF OnStack, Stacked
<1>7. Stacked(s)'
  BY <1>5 DEF OnStack, Stacked
<1>8. SlotService(s)'
  <2>1. Idle(s) /\ Idle(s)' /\ Late(s) /\ Late(s)'
    BY <1>2, <1>7 DEF Idle, Late, Doing, IdleLabels, LateLabels, At2
  <2>2. Doing(EarlyLabels, s)' <=> Doing(EarlyLabels, s)
    BY <1>2, SteppingKeeps DEF EarlyLabels
  <2>3. Doing(ReadyLabels, s)' <=> Doing(ReadyLabels, s)
    BY <1>2, SteppingKeeps DEF ReadyLabels
  <2>4. (Opening(s)' <=> Opening(s)) /\ (Early(s)' <=> Early(s))
    BY <1>1, <2>2 DEF Opening, Early
  <2>5. SameLife(s) /\ (Opening(s) => mSessionID[s] <= MaxSeq)
    BY <1>1 DEF SameLife, ServiceInv, SlotService, InRange
  <2> QED
    BY <1>1, <2>1, <2>3, <2>4, <2>5, SlotMoved DEF ServiceInv
<1>9. \A o \in Slots : o # s => SameSlot(o)
  BY <1>1, <1>6 DEF SameSlot
<1>10. \A o \in Slots : SlotService(o)'
  BY <1>2, <1>8, <1>9, Others DEF At2
<1>11. Known'
  BY <1>1, <1>2, SteppingKnows
<1>12. Ids' /\ Unseen
  BY <1>1, SameView DEF ServiceInv, Ids
<1> QED
  BY <1>10, <1>11, <1>12 DEF ServiceInv

LEMMA PopStep ==
  ASSUME IInv, ServiceInv, NEW w \in Workers, RegisterAcceptEx(w)
  PROVE  ServiceInv' /\ Unseen
<1>1. /\ UNCHANGED <<mSessionID, mSeqID, accepted, released, mSendQ, mSendOv, done,
                     kernel, iocp, tgt>>
      /\ pc[w] = "registerAcceptEx"
  BY DEF RegisterAcceptEx, session, io, log
<1>2. /\ w \in Threads /\ w \notin Contents
      /\ pc \in [Threads -> Labels] /\ ses \in [Threads -> Slots]
  BY NetworkLibAssumption DEF IInv, TypeOK, Threads
<1>3. CASE mStackSessionIdx = <<>>
  <2>1. ses' = ses /\ mStackSessionIdx' = mStackSessionIdx /\ Goto(w, "GQCS")
    BY <1>3 DEF RegisterAcceptEx
  <2>2. Moves(w) /\ pc'[w] = "GQCS"
    BY <2>1, <1>2, Going DEF IInv
  <2>3. Calm(w)
    BY <1>1, <2>1, <2>2 DEF Calm, EarlyLabels, IdleLabels, LateLabels, ReadyLabels
  <2>4. Knows(w)
    BY <1>1, <1>2, <2>2 DEF Knows
  <2> QED
    BY <1>2, <2>3, <2>4, CalmStep
<1>4. CASE mStackSessionIdx # <<>>
  <2>1. PICK s : s = Head(mStackSessionIdx)
    OBVIOUS
  <2>2. /\ mStackSessionIdx' = Tail(mStackSessionIdx)
        /\ ses' = [ses EXCEPT ![w] = s] /\ pc' = [pc EXCEPT ![w] = "acceptEx"]
    BY <1>4, <2>1 DEF RegisterAcceptEx, Goto
  <2>3. /\ s \in Slots /\ OnStack(s) = 1
        /\ \A o \in Slots : o # s => OnStack(o)' = OnStack(o)
    BY <1>4, <2>1, <2>2, Popped DEF IInv
  <2>4. Moves(w) /\ pc'[w] = "acceptEx" /\ ses'[w] = s
    BY <1>2, <2>2 DEF Moves
  <2>5. \A o \in Slots : o # s => (Stacked(o)' <=> Stacked(o))
    BY <2>3 DEF OnStack, Stacked
  <2>6. Stacked(s)
    BY <2>3 DEF OnStack, Stacked
  <2>7. Doing(IdleLabels, s)' /\ Doing(LateLabels, s)'
    BY <2>4 DEF Doing, IdleLabels, LateLabels
  <2>8. Doing(EarlyLabels, s)' <=> Doing(EarlyLabels, s)
    BY <1>1, <1>2, <2>4, DoingKept DEF EarlyLabels
  <2>9. Doing(ReadyLabels, s)' <=> Doing(ReadyLabels, s)
    BY <1>1, <1>2, <2>4, DoingKept DEF ReadyLabels
  <2>10. SlotService(s)'
    <3>1. Idle(s) /\ Idle(s)' /\ Late(s) /\ Late(s)'
      BY <2>6, <2>7 DEF Idle, Late
    <3>2. (Opening(s)' <=> Opening(s)) /\ (Early(s)' <=> Early(s))
      BY <1>1, <2>8 DEF Opening, Early
    <3>3. SameLife(s) /\ (Opening(s) => mSessionID[s] <= MaxSeq)
      BY <1>1, <2>3 DEF SameLife, ServiceInv, SlotService, InRange
    <3> QED
      BY <1>1, <2>3, <2>9, <3>1, <3>2, <3>3, SlotMoved DEF ServiceInv
  <2>11. \A o \in Slots : o # s => SameSlot(o)
    BY <1>1, <2>5 DEF SameSlot
  <2>12. pc[w] \notin EarlyLabels \cup LateLabels
    BY <1>1 DEF EarlyLabels, IdleLabels, LateLabels
  <2>13. \A o \in Slots : SlotService(o)'
    BY <1>2, <2>3, <2>4, <2>10, <2>11, <2>12, Others
  <2>14. Known'
    <3>1. Knows(w)
      BY <1>1, <1>2, <2>4 DEF Knows
    <3> QED
      BY <1>1, <1>2, <2>4, <3>1, StillKnown DEF ServiceInv
  <2>15. Ids' /\ Unseen
    BY <1>1, SameView DEF ServiceInv, Ids
  <2> QED
    BY <2>13, <2>14, <2>15 DEF ServiceInv
<1> QED
  BY <1>3, <1>4

-----------------------------------------------------------------------------
(* The service's view of a slot. *)

Current(s) == IF Open(s) THEN mSessionID[s] ELSE -1
Pending(s) == IF Open(s) THEN mSendOv[s] \o mSendQ[s] ELSE <<>>

Currents == [s \in Slots |-> Current(s)]
Pendings == [s \in Slots |-> Pending(s)]

LEMMA View == Service!service = <<Currents, Pendings, accepted, released, done>>
BY DEF Service!service, Currents, Pendings, Current, Pending, Open, Id

LEMMA Views ==
  /\ Currents = [s \in Slots |-> IF Id(s) \in accepted \ released THEN mSessionID[s] ELSE -1]
  /\ Pendings = [s \in Slots |-> IF Id(s) \in accepted \ released THEN mSendOv[s] \o mSendQ[s]
                                                                 ELSE <<>>]
BY DEF Currents, Pendings, Current, Pending, Open, Id

LEMMA SameViews ==
  ASSUME UNCHANGED <<accepted, released, done>>,
         \A o \in Slots : Current(o)' = Current(o) /\ Pending(o)' = Pending(o)
  PROVE  Unseen
<1>1. Currents' = Currents /\ Pendings' = Pendings
  BY DEF Currents, Pendings
<1>2. Service!service' = <<Currents', Pendings', accepted', released', done'>>
  BY DEF Service!service, Currents, Pendings, Current, Pending, Open, Id
<1> QED
  BY <1>1, <1>2, View DEF Unseen

LEMMA SameOpen ==
  ASSUME UNCHANGED <<mSessionID, accepted, released, done>>,
         \A o \in Slots : Open(o) => mSendOv'[o] \o mSendQ'[o] = mSendOv[o] \o mSendQ[o]
  PROVE  Unseen
<1>1. \A o \in Slots : (Open(o)' <=> Open(o)) /\ Current(o)' = Current(o)
  BY DEF Open, Id, Current
<1>2. \A o \in Slots : Pending(o)' = Pending(o)
  BY <1>1 DEF Pending
<1> QED
  BY <1>1, <1>2, SameViews

LEMMA ClearStep ==
  ASSUME IInv, ServiceInv, NEW w \in Workers, ReleaseSession(w)
  PROVE  ServiceInv' /\ Unseen
<1>1. /\ UNCHANGED <<mSessionID, mSeqID, mStackSessionIdx, accepted, released, done,
                     kernel, iocp, ses, tgt>>
      /\ pc[w] = "releaseSession" /\ Goto(w, "pushIdx")
  BY DEF ReleaseSession, pool, local, log
<1>2. PICK s \in Slots : s = ses[w] /\ At2(w, s, "releaseSession", "pushIdx")
  BY <1>1, Stepping DEF IInv
<1>3. /\ mSendQ'[s] = <<>> /\ mSendOv'[s] = <<>>
      /\ \A o \in Slots : o # s => mSendQ'[o] = mSendQ[o] /\ mSendOv'[o] = mSendOv[o]
  BY <1>2 DEF ReleaseSession, IInv, TypeOK
<1>4. Late(s) /\ Late(s)'
  BY <1>2 DEF Late, Doing, LateLabels, IdleLabels, At2
<1>5. SlotService(s)'
  <2>1. Doing(EarlyLabels, s)' <=> Doing(EarlyLabels, s)
    BY <1>2, SteppingKeeps DEF EarlyLabels
  <2>2. (Opening(s)' <=> Opening(s)) /\ (Early(s)' <=> Early(s)) /\ SameLife(s)
    BY <1>1, <2>1 DEF Opening, Early, SameLife
  <2>3. Stage(s)'
    BY <1>4, <2>2, StageKept DEF ServiceInv, SlotService
  <2>4. Drained(s)' /\ Ready(s)'
    BY <1>3 DEF Drained, Ready
  <2>5. InRange(s)'
    BY <1>1, <2>2 DEF InRange, ServiceInv, SlotService
  <2> QED
    BY <2>3, <2>4, <2>5 DEF SlotService
<1>6. \A o \in Slots : o # s => SameSlot(o)
  BY <1>1, <1>3 DEF SameSlot, Stacked
<1>7. \A o \in Slots : SlotService(o)'
  BY <1>2, <1>5, <1>6, Others DEF At2
<1>8. Known' /\ Ids'
  BY <1>1, <1>2, SteppingKnows DEF ServiceInv, Ids
<1>9. Unseen
  <2>1. ~Open(s)
    BY <1>4 DEF ServiceInv, SlotService, Stage
  <2> QED
    BY <1>1, <1>3, <2>1, SameOpen
<1> QED
  BY <1>7, <1>8, <1>9 DEF ServiceInv

LEMMA Split ==
  ASSUME NEW q \in Seq(Message), NEW n \in 0 .. Len(q)
  PROVE  /\ SubSeq(q, 1, n) \o SubSeq(q, n + 1, Len(q)) = q
         /\ q = <<>> => SubSeq(q, 1, n) = <<>> /\ SubSeq(q, n + 1, Len(q)) = <<>>
<1>1. SubSeq(q, 1, n) \o SubSeq(q, n + 1, Len(q)) = SubSeq(q, 1, Len(q))
  <2>1. 1 \in 1 .. Len(q) + 1 /\ n \in 1 - 1 .. Len(q) /\ Len(q) \in n .. Len(q)
    OBVIOUS
  <2> QED
    BY <2>1, ConcatAdjacentSubSeq
<1>2. SubSeq(q, 1, Len(q)) = q
  BY SubSeqFull
<1>3. ASSUME q = <<>> PROVE SubSeq(q, 1, n) = <<>> /\ SubSeq(q, n + 1, Len(q)) = <<>>
  <2>1. Len(q) = 0 /\ n = 0
    BY <1>3
  <2> QED
    BY <2>1, SubSeqEmpty
<1> QED
  BY <1>1, <1>2, <1>3

LEMMA DequeueStep ==
  ASSUME IInv, ServiceInv, NEW w \in Workers, Dequeue(w)
  PROVE  ServiceInv' /\ Unseen
<1>1. /\ UNCHANGED <<mSessionID, mSeqID, mStackSessionIdx, accepted, released, done,
                     kernel, iocp, ses, tgt>>
      /\ pc[w] = "dequeue" /\ Goto(w, "sendLive")
  BY DEF Dequeue, pool, io, local, log
<1>2. PICK s \in Slots : s = ses[w] /\ At2(w, s, "dequeue", "sendLive")
  BY <1>1, Stepping DEF IInv
<1>3. PICK q \in Seq(Message) : q = mSendQ[s]
  BY <1>2 DEF IInv, TypeOK
<1>4. PICK n \in 0 .. Len(q) :
        /\ mSendOv' = [mSendOv EXCEPT ![s] = SubSeq(q, 1, n)]
        /\ mSendQ' = [mSendQ EXCEPT ![s] = SubSeq(q, n + 1, Len(q))]
  <2>1. cnt[w] \in Int
    BY <1>2 DEF IInv, TypeOK, At2
  <2>2. (IF cnt[w] < 0 THEN 0 ELSE SmallerOf(cnt[w], Len(q))) \in 0 .. Len(q)
    BY <2>1 DEF SmallerOf
  <2> QED
    BY <1>2, <1>3, <2>2 DEF Dequeue
<1>5. /\ mSendOv'[s] = SubSeq(q, 1, n) /\ mSendQ'[s] = SubSeq(q, n + 1, Len(q))
      /\ \A o \in Slots : o # s => mSendQ'[o] = mSendQ[o] /\ mSendOv'[o] = mSendOv[o]
  BY <1>2, <1>4 DEF IInv, TypeOK
<1>6. mSendOv[s] = <<>>
  BY <1>2 DEF ServiceInv, SlotService, Ready, Doing, ReadyLabels, At2
<1>7. /\ Doing(EarlyLabels, s)' <=> Doing(EarlyLabels, s)
      /\ Doing(IdleLabels, s)' <=> Doing(IdleLabels, s)
      /\ Doing(LateLabels, s)' <=> Doing(LateLabels, s)
  BY <1>2, SteppingKeeps DEF EarlyLabels, IdleLabels, LateLabels
<1>8. SlotService(s)'
  <2>1. /\ Opening(s)' <=> Opening(s)
        /\ Early(s)' <=> Early(s)
        /\ Idle(s)' <=> Idle(s)
        /\ Late(s)' <=> Late(s)
        /\ SameLife(s)
    BY <1>1, <1>7 DEF Opening, Early, Idle, Late, SameLife, Stacked
  <2>2. Stage(s)'
    BY <2>1, StageKept DEF ServiceInv, SlotService
  <2>3. Drained(s)'
    BY <1>3, <1>5, <2>1, Split DEF Drained, ServiceInv, SlotService
  <2>4. Ready(s)'
    <3> SUFFICES ASSUME NEW u \in Workers, ses'[u] = s, pc'[u] \in ReadyLabels PROVE FALSE
      BY DEF Ready, Doing
    <3>1. u # w
      BY <1>2 DEF At2, ReadyLabels
    <3>2. ses[u] = s /\ pc[u] \in ReadyLabels
      BY <1>2, <3>1 DEF At2, Moves, Threads
    <3> QED
      BY <1>2, <3>1, <3>2, OneSends DEF At2, ReadyLabels, SendLabels
  <2>5. InRange(s)'
    BY <1>1, <2>1 DEF InRange, ServiceInv, SlotService
  <2> QED
    BY <2>2, <2>3, <2>4, <2>5 DEF SlotService
<1>9. \A o \in Slots : o # s => SameSlot(o)
  BY <1>1, <1>5 DEF SameSlot, Stacked
<1>10. \A o \in Slots : SlotService(o)'
  BY <1>2, <1>8, <1>9, Others DEF At2
<1>11. Known' /\ Ids'
  BY <1>1, <1>2, SteppingKnows DEF ServiceInv, Ids
<1>12. Unseen
  <2>1. <<>> \o q = q
    OBVIOUS
  <2>2. mSendOv'[s] \o mSendQ'[s] = q
    BY <1>5, Split
  <2>3. mSendOv'[s] \o mSendQ'[s] = mSendOv[s] \o mSendQ[s]
    BY <1>3, <1>6, <2>1, <2>2
  <2> QED
    BY <1>1, <1>5, <2>3, SameOpen
<1> QED
  BY <1>10, <1>11, <1>12 DEF ServiceInv

LEMMA NewStep ==
  ASSUME IInv, ServiceInv, NEW w \in Workers, AcceptEx(w)
  PROVE  ServiceInv' /\ Unseen
<1>1. /\ UNCHANGED <<accepted, released, done, mSendQ, mSendOv, iocp, ses, tgt>>
      /\ pc[w] = "acceptEx" /\ Goto(w, "GQCS")
  BY DEF AcceptEx, local, log
<1>2. PICK s \in Slots : s = ses[w] /\ At2(w, s, "acceptEx", "GQCS")
  BY <1>1, Stepping DEF IInv
<1>3. /\ mSeqID \in Nat /\ mSessionID \in [Slots -> Nat] /\ kernel \in [Slots -> [Ops -> Nat]]
      /\ accepted \subseteq Slots \X Nat /\ "accept" \in Ops
  BY DEF IInv, TypeOK, Ops
<1>4. /\ mSeqID' = mSeqID + 1 /\ mSessionID'[s] = mSeqID + 1
      /\ \A o \in Slots : o # s => mSessionID'[o] = mSessionID[o]
  BY <1>2, <1>3 DEF AcceptEx
<1>5. /\ kernel[s].accept = 0 /\ iocp[s].accept = 0 /\ ~Stacked(s)
      /\ \A u \in Workers : ses[u] = s /\ pc[u] \in ClosedLabels => u = w
      /\ \A u \in Workers : ses[u] = s => pc[u] \notin WorkLabels
      /\ \A t \in Threads : ses[t] = s => pc[t] \notin LockLabels
  BY <1>2, Alone DEF ClosedLabels, At2
<1>6. \A id \in accepted : id[2] <= mSeqID
  BY <1>3 DEF ServiceInv, Ids
<1>7. Id(s)' \notin accepted'
  BY <1>1, <1>3, <1>4, <1>6 DEF Id
<1>8. \A o \in Slots : o # s => kernel'[o] = kernel[o] /\ (Stacked(o)' <=> Stacked(o))
  <2>1. CASE mStackSessionIdx' = mStackSessionIdx
    BY <1>2, <1>3, <2>1 DEF AcceptEx, Stacked
  <2>2. CASE StackPush(s) /\ kernel' = kernel
    <3>1. OnStack(s) = 0
      BY <1>5 DEF OnStack, Stacked
    <3>2. \A o \in Slots : o # s => OnStack(o)' = OnStack(o)
      BY <2>2, <3>1, Pushed DEF IInv
    <3> QED
      BY <2>2, <3>2 DEF OnStack, Stacked
  <2> QED
    BY <1>2, <2>1, <2>2 DEF AcceptEx
<1>9. Early(s)' \/ Late(s)'
  <2>1. CASE kernel' = [kernel EXCEPT ![s]["accept"] = @ + 1]
    <3>1. kernel'[s].accept > 0
      BY <1>3, <2>1
    <3> QED
      BY <3>1 DEF Early
  <2>2. CASE StackPush(s)
    <3>1. OnStack(s) = 0
      BY <1>5 DEF OnStack, Stacked
    <3>2. OnStack(s)' = 1
      BY <2>2, <3>1, Pushed DEF IInv
    <3> QED
      BY <3>2 DEF OnStack, Stacked, Late
  <2> QED
    BY <1>2, <2>1, <2>2 DEF AcceptEx
<1>10. SlotService(s)'
  <2>1. Stage(s)'
    BY <1>7, <1>9 DEF Stage, Open
  <2>2. Idle(s)
    BY <1>2 DEF Idle, Doing, IdleLabels, At2
  <2>3. Drained(s)'
    BY <1>1, <2>2 DEF Drained, ServiceInv, SlotService
  <2>4. \A u \in Workers : ses'[u] = s => pc'[u] \notin EarlyLabels \cup ReadyLabels
    <3> SUFFICES ASSUME NEW u \in Workers, ses'[u] = s, pc'[u] \in EarlyLabels \cup ReadyLabels
                 PROVE  FALSE
      OBVIOUS
    <3>1. u # w
      BY <1>2 DEF At2, EarlyLabels, ReadyLabels
    <3>2. ses[u] = s /\ pc[u] \in EarlyLabels \cup ReadyLabels
      BY <1>2, <3>1 DEF At2, Moves, Threads
    <3>3. pc[u] \in ClosedLabels \/ pc[u] \in WorkLabels
      BY <3>2 DEF EarlyLabels, ReadyLabels, ClosedLabels, WorkLabels
    <3> QED
      BY <1>5, <3>1, <3>2, <3>3
  <2>5. Ready(s)' /\ InRange(s)'
    BY <1>1, <1>5, <2>4 DEF Ready, InRange, Opening, Doing
  <2> QED
    BY <2>1, <2>3, <2>5 DEF SlotService
<1>11. \A o \in Slots : o # s => SameSlot(o)
  BY <1>1, <1>4, <1>8 DEF SameSlot, Id
<1>12. \A o \in Slots : SlotService(o)'
  BY <1>2, <1>10, <1>11, Others DEF At2
<1>13. Known'
  <2>1. ASSUME NEW t \in Contents, pc'[t] # "idle" PROVE <<ses'[t], tgt'[t]>> \in accepted'
    BY <1>1, <1>2, <2>1 DEF ServiceInv, Known, At2, Moves, Threads
  <2>2. ASSUME NEW t \in Threads, pc'[t] = "enqueue" PROVE tgt'[t] = mSessionID'[ses'[t]]
    <3>1. t # w /\ pc[t] = "enqueue"
      BY <1>2, <2>2 DEF At2, Moves
    <3>2. ses[t] \in Slots /\ ses[t] # s
      BY <1>5, <3>1 DEF LockLabels, IInv, TypeOK
    <3> QED
      BY <1>1, <1>4, <3>1, <3>2 DEF ServiceInv, Known
  <2> QED
    BY <2>1, <2>2 DEF Known
<1>14. Ids'
  <2>1. released' \subseteq accepted' /\ \A o \in Slots : mSessionID'[o] <= mSeqID'
    BY <1>1, <1>3, <1>4 DEF ServiceInv, Ids
  <2>2. \A o, p \in Slots : mSessionID'[o] = mSessionID'[p] => o = p
    BY <1>3, <1>4 DEF ServiceInv, Ids
  <2>3. ASSUME NEW id \in accepted
        PROVE  /\ id[2] <= MaxSeq /\ id[2] <= mSessionID'[id[1]]
               /\ \A o \in Slots : id[2] = mSessionID'[o] => id[1] = o
    <3>1. id[1] \in Slots /\ id[2] \in Nat /\ id[2] <= mSeqID
      BY <1>3, <1>6
    <3> QED
      BY <1>3, <1>4, <3>1 DEF ServiceInv, Ids
  <2> QED
    BY <1>1, <2>1, <2>2, <2>3 DEF Ids
<1>15. Unseen
  <2>1. ~Open(s) /\ ~Open(s)'
    <3>1. Late(s)
      BY <1>2 DEF Late, Doing, LateLabels, IdleLabels, At2
    <3> QED
      BY <1>7, <3>1 DEF Open, ServiceInv, SlotService, Stage
  <2>2. Current(s)' = Current(s) /\ Pending(s)' = Pending(s)
    BY <2>1 DEF Current, Pending
  <2>3. \A o \in Slots : o # s => Current(o)' = Current(o) /\ Pending(o)' = Pending(o)
    BY <1>1, <1>4 DEF Current, Pending, Open, Id
  <2> QED
    BY <1>1, <2>2, <2>3, SameViews
<1> QED
  BY <1>12, <1>13, <1>14, <1>15 DEF ServiceInv

-----------------------------------------------------------------------------
(* The steps that the service sees. *)

LEMMA HeldNotLate ==
  ASSUME IInv, NEW s \in Slots, NEW t \in Threads, ses[t] = s,
         pc[t] \in LockLabels \/ (t \in Workers /\ pc[t] \in WorkLabels)
  PROVE  ~Late(s) /\ ~Idle(s)
<1>1. ~Stacked(s) /\ \A w \in Workers : ses[w] = s => pc[w] \notin ClosedLabels
  BY Held
<1>2. LateLabels \subseteq ClosedLabels /\ IdleLabels \subseteq LateLabels
  BY DEF LateLabels, IdleLabels, ClosedLabels
<1> QED
  BY <1>1, <1>2 DEF Late, Idle, Doing

LEMMA AcceptSeen ==
  ASSUME IInv, ServiceInv, NEW w \in Workers, OnAccept(w)
  PROVE  ServiceInv' /\ \E s \in Slots, q \in 0 .. MaxSeq : Service!Accept(s, q)
<1>1. /\ UNCHANGED <<mSessionID, mSeqID, mStackSessionIdx, released, done, mSendQ, mSendOv,
                     kernel, iocp, ses, tgt>>
      /\ pc[w] = "onAccept" /\ Goto(w, "registerRecv")
  BY DEF OnAccept, session, pool, io, local
<1>2. PICK s \in Slots : s = ses[w] /\ At2(w, s, "onAccept", "registerRecv")
  BY <1>1, Stepping DEF IInv
<1>3. PICK q \in Nat : q = mSessionID[s]
  BY DEF IInv, TypeOK
<1>4. accepted' = accepted \cup {<<s, q>>} /\ Id(s) = <<s, q>> /\ Id(s)' = <<s, q>>
  BY <1>1, <1>2, <1>3 DEF OnAccept, Id
<1>5. /\ kernel[s].accept = 0 /\ iocp[s].accept = 0 /\ ~Late(s) /\ ~Idle(s)
      /\ \A u \in Workers : ses[u] = s => pc[u] \notin ClosedLabels
  BY <1>2, Held, HeldNotLate DEF At2, WorkLabels
<1>6. Doing(EarlyLabels, s)
  BY <1>2 DEF Doing, EarlyLabels, At2
<1>7. ~Early(s)' /\ ~Opening(s)'
  <2>1. ASSUME NEW u \in Workers, ses'[u] = s, pc'[u] \in EarlyLabels PROVE FALSE
    <3>1. u # w
      BY <1>2, <2>1 DEF At2, EarlyLabels
    <3>2. ses[u] = s /\ pc[u] \in EarlyLabels
      BY <1>2, <2>1, <3>1 DEF At2, Moves, Threads
    <3>3. pc[u] \in ClosedLabels \/ pc[u] \in RecvLabels
      BY <3>2 DEF EarlyLabels, ClosedLabels, RecvLabels
    <3> QED
      BY <1>2, <1>5, <3>1, <3>2, <3>3, OneReceives DEF At2, RecvLabels
  <2> QED
    BY <1>1, <1>5, <2>1 DEF Early, Opening, Doing
<1>8. Early(s) /\ Id(s) \notin accepted /\ Id(s) \notin released /\ q <= MaxSeq
      /\ mSendQ[s] = <<>> /\ mSendOv[s] = <<>>
  BY <1>3, <1>6 DEF Early, Opening, ServiceInv, SlotService, Stage, Drained, InRange, Ids
<1>9. Open(s)' /\ ~Open(s)
  BY <1>1, <1>4, <1>8 DEF Open
<1>10. SlotService(s)'
  <2>1. /\ Doing(IdleLabels, s)' <=> Doing(IdleLabels, s)
        /\ Doing(LateLabels, s)' <=> Doing(LateLabels, s)
        /\ Doing(ReadyLabels, s)' <=> Doing(ReadyLabels, s)
    BY <1>2, SteppingKeeps DEF IdleLabels, LateLabels, ReadyLabels
  <2>2. ~Late(s)' /\ ~Idle(s)'
    BY <1>1, <1>5, <2>1 DEF Late, Idle, Stacked
  <2>3. Stage(s)'
    BY <1>7, <1>9, <2>2 DEF Stage
  <2>4. Drained(s)' /\ Ready(s)' /\ InRange(s)'
    BY <1>1, <1>7, <2>1, <2>2 DEF Drained, Ready, InRange, ServiceInv, SlotService
  <2> QED
    BY <2>3, <2>4 DEF SlotService
<1>11. \A o \in Slots : o # s => SameSlot(o)
  <2>1. \A o \in Slots : o # s => (Id(o) \in accepted' <=> Id(o) \in accepted)
    BY <1>4 DEF Id
  <2> QED
    BY <1>1, <2>1 DEF SameSlot, Stacked
<1>12. \A o \in Slots : SlotService(o)'
  BY <1>2, <1>10, <1>11, Others DEF At2
<1>13. Known'
  BY <1>1, <1>2, <1>4, SteppingKnows
<1>14. Ids'
  <2>1. ASSUME NEW id \in accepted'
        PROVE  /\ id[2] <= MaxSeq /\ id[2] <= mSessionID[id[1]]
               /\ \A o \in Slots : id[2] = mSessionID[o] => id[1] = o
    BY <1>3, <1>4, <1>8, <2>1 DEF ServiceInv, Ids
  <2>2. released' \subseteq accepted'
    BY <1>1, <1>4 DEF ServiceInv, Ids
  <2> QED
    BY <1>1, <2>1, <2>2 DEF ServiceInv, Ids
<1>15. Service!Accept(s, q)
  <2>1. Current(s) = -1 /\ Current(s)' = q
    BY <1>1, <1>3, <1>9 DEF Current
  <2>2. \A o \in Slots : o # s => Current(o)' = Current(o) /\ Pending(o)' = Pending(o)
    <3>1. \A o \in Slots : o # s => (Open(o)' <=> Open(o))
      BY <1>1, <1>4 DEF Open, Id
    <3> QED
      BY <1>1, <3>1 DEF Current, Pending
  <2>3. Pending(s)' = Pending(s)
    <3>1. mSendOv'[s] = <<>> /\ mSendQ'[s] = <<>>
      BY <1>1, <1>8
    <3>2. Pending(s)' = <<>> \o <<>> /\ Pending(s) = <<>>
      BY <1>9, <3>1 DEF Pending
    <3> QED
      BY <3>2
  <2>4. Currents[s] = -1 /\ Currents' = [Currents EXCEPT ![s] = q] /\ Pendings' = Pendings
    BY <2>1, <2>2, <2>3 DEF Currents, Pendings
  <2>5. ASSUME NEW id \in accepted PROVE id[2] # q /\ (id[1] = s => id[2] < q)
    <3>1. id = <<id[1], id[2]>> /\ id[2] \in Nat
      BY DEF IInv, TypeOK
    <3>2. id[2] = q => id[1] = s
      BY <1>3 DEF ServiceInv, Ids
    <3>3. id[2] # q
      BY <1>4, <1>8, <3>1, <3>2
    <3>4. id[1] = s => id[2] <= q
      BY <1>3 DEF ServiceInv, Ids
    <3> QED
      BY <3>1, <3>3, <3>4
  <2> QED
    BY <1>1, <1>4, <2>4, <2>5 DEF Service!Accept, Currents, Pendings, Current, Pending, Open, Id
<1> QED
  BY <1>3, <1>8, <1>12, <1>13, <1>14, <1>15 DEF ServiceInv

LEMMA ReleaseSeen ==
  ASSUME IInv, ServiceInv, NEW w \in Workers, OnRelease(w)
  PROVE  ServiceInv' /\ \E s \in Slots : Service!Release(s)
<1>1. /\ UNCHANGED <<mSessionID, mSeqID, mStackSessionIdx, accepted, done, mSendQ, mSendOv,
                     kernel, iocp, ses, tgt>>
      /\ pc[w] = "onRelease" /\ Goto(w, "releaseSession")
  BY DEF OnRelease, session, pool, io, local
<1>2. PICK s \in Slots : s = ses[w] /\ At2(w, s, "onRelease", "releaseSession")
  BY <1>1, Stepping DEF IInv
<1>3. PICK q \in Nat : q = mSessionID[s]
  BY DEF IInv, TypeOK
<1>4. released' = released \cup {<<s, q>>} /\ Id(s) = <<s, q>> /\ Id(s)' = <<s, q>>
  BY <1>1, <1>2, <1>3 DEF OnRelease, Id
<1>5. /\ kernel[s].accept = 0 /\ iocp[s].accept = 0 /\ ~Stacked(s)
      /\ \A u \in Workers : ses[u] = s /\ pc[u] \in ClosedLabels => u = w
      /\ \A u \in Workers : ses[u] = s => pc[u] \notin WorkLabels
  BY <1>2, Alone DEF ClosedLabels, At2
<1>6. \A u \in Workers : ses[u] = s => pc[u] \notin EarlyLabels \cup LateLabels
  <2> SUFFICES ASSUME NEW u \in Workers, ses[u] = s, pc[u] \in EarlyLabels \cup LateLabels
               PROVE  FALSE
    OBVIOUS
  <2>1. pc[u] \in WorkLabels \/ (pc[u] \in ClosedLabels /\ pc[u] # "onRelease")
    BY DEF EarlyLabels, LateLabels, IdleLabels, WorkLabels, ClosedLabels
  <2> QED
    BY <1>1, <1>5, <2>1
<1>7. ~Early(s) /\ ~Opening(s) /\ ~Late(s) /\ ~Idle(s)
  BY <1>5, <1>6 DEF Early, Opening, Late, Idle, Doing, LateLabels
<1>8. Open(s) /\ ~Open(s)'
  BY <1>4, <1>7 DEF ServiceInv, SlotService, Stage, Open
<1>9. SlotService(s)'
  <2>1. /\ Doing(EarlyLabels, s)' <=> Doing(EarlyLabels, s)
        /\ Doing(IdleLabels, s)' <=> Doing(IdleLabels, s)
        /\ Doing(ReadyLabels, s)' <=> Doing(ReadyLabels, s)
    BY <1>2, SteppingKeeps DEF EarlyLabels, IdleLabels, ReadyLabels
  <2>2. ~Early(s)' /\ ~Opening(s)' /\ ~Idle(s)'
    BY <1>1, <1>7, <2>1 DEF Early, Opening, Idle, Stacked
  <2>3. Late(s)'
    BY <1>2 DEF Late, Doing, LateLabels, At2
  <2>4. Stage(s)'
    BY <1>8, <2>2, <2>3 DEF Stage
  <2>5. Drained(s)' /\ Ready(s)' /\ InRange(s)'
    BY <1>1, <2>1, <2>2 DEF Drained, Ready, InRange, ServiceInv, SlotService
  <2> QED
    BY <2>4, <2>5 DEF SlotService
<1>10. \A o \in Slots : o # s => SameSlot(o)
  <2>1. \A o \in Slots : o # s => (Id(o) \in released' <=> Id(o) \in released)
    BY <1>4 DEF Id
  <2> QED
    BY <1>1, <2>1 DEF SameSlot, Stacked
<1>11. \A o \in Slots : SlotService(o)'
  BY <1>2, <1>9, <1>10, Others DEF At2
<1>12. Known'
  BY <1>1, <1>2, SteppingKnows
<1>13. Ids'
  <2>1. released' \subseteq accepted'
    BY <1>1, <1>4, <1>8 DEF ServiceInv, Ids, Open
  <2> QED
    BY <1>1, <2>1 DEF ServiceInv, Ids
<1>14. Service!Release(s)
  <2>1. Current(s) = q /\ Current(s)' = -1 /\ Pending(s)' = <<>>
    BY <1>3, <1>8 DEF Current, Pending
  <2>2. \A o \in Slots : o # s => Current(o)' = Current(o) /\ Pending(o)' = Pending(o)
    <3>1. \A o \in Slots : o # s => (Open(o)' <=> Open(o))
      BY <1>1, <1>4 DEF Open, Id
    <3> QED
      BY <1>1, <3>1 DEF Current, Pending
  <2>3. /\ Currents[s] = q /\ q # -1
        /\ Currents' = [Currents EXCEPT ![s] = -1] /\ Pendings' = [Pendings EXCEPT ![s] = <<>>]
    <3>1. Currents[s] = q /\ q # -1
      BY <2>1 DEF Currents
    <3>2. Currents' = [Currents EXCEPT ![s] = -1]
      BY <2>1, <2>2 DEF Currents
    <3>3. Pendings' = [Pendings EXCEPT ![s] = <<>>]
      BY <2>1, <2>2 DEF Pendings
    <3> QED
      BY <3>1, <3>2, <3>3
  <2> QED
    BY <1>1, <1>4, <2>3 DEF Service!Release, Currents, Pendings, Current, Pending, Open, Id
<1> QED
  BY <1>11, <1>12, <1>13, <1>14 DEF ServiceInv

\* The queues of s as the service sees them.
LEMMA Parted ==
  ASSUME NEW a \in Seq(Message), NEW b \in Seq(Message), a # <<>>
  PROVE  /\ Len(a) \in 1 .. Len(a \o b)
         /\ SubSeq(a \o b, 1, Len(a)) = a
         /\ SubSeq(a \o b, Len(a) + 1, Len(a \o b)) = b
<1>1. /\ Len(a) \in Nat /\ Len(b) \in Nat /\ Len(a) # 0 /\ a \o b \in Seq(Message)
      /\ Len(a \o b) = Len(a) + Len(b)
  OBVIOUS
<1>2. SubSeq(a \o b, 1, Len(a)) = a
  <2>1. 1 \in 1 .. Len(a) /\ Len(a) \in 1 .. Len(a)
    BY <1>1
  <2>2. SubSeq(a \o b, 1, Len(a)) = SubSeq(a, 1, Len(a))
    BY <2>1, SubSeqOfConcat1
  <2> QED
    BY <2>2, SubSeqFull
<1>3. SubSeq(a \o b, Len(a) + 1, Len(a \o b)) = b
  <2>1. CASE b = <<>>
    <3>1. Len(a \o b) < Len(a) + 1 /\ Len(a) + 1 \in Int /\ Len(a \o b) \in Int
      BY <1>1, <2>1
    <3> QED
      BY <2>1, <3>1, SubSeqEmpty
  <2>2. CASE b # <<>>
    <3>1. Len(b) # 0
      BY <2>2
    <3>2. /\ Len(a) + 1 \in Len(a) + 1 .. Len(a) + Len(b)
          /\ Len(a) + Len(b) \in Len(a) + 1 .. Len(a) + Len(b)
      BY <1>1, <3>1
    <3>3. SubSeq(a \o b, Len(a) + 1, Len(a) + Len(b))
            = SubSeq(b, Len(a) + 1 - Len(a), Len(a) + Len(b) - Len(a))
      BY <3>2, SubSeqOfConcat2
    <3>4. Len(a) + 1 - Len(a) = 1 /\ Len(a) + Len(b) - Len(a) = Len(b)
      BY <1>1
    <3> QED
      BY <1>1, <3>3, <3>4, SubSeqFull
  <2> QED
    BY <2>1, <2>2
<1> QED
  BY <1>1, <1>2, <1>3

LEMMA DeliverSeen ==
  ASSUME IInv, ServiceInv, NEW w \in Workers, CompleteSend(w)
  PROVE  /\ ServiceInv'
         /\ \/ Unseen
            \/ \E s \in Slots : \E n \in 1 .. Len(Pendings[s]) : Service!Deliver(s, n)
<1>1. /\ UNCHANGED <<mSessionID, mSeqID, mStackSessionIdx, accepted, released, mSendQ,
                     kernel, iocp, ses, tgt>>
      /\ pc[w] = "completeSend" /\ Goto(w, "registerSend")
  BY DEF CompleteSend, pool, io, local
<1>2. PICK s \in Slots : s = ses[w] /\ At2(w, s, "completeSend", "registerSend")
  BY <1>1, Stepping DEF IInv
<1>3. PICK a, b \in Seq(Message) : a = mSendOv[s] /\ b = mSendQ[s]
  BY DEF IInv, TypeOK
<1>4. /\ done' = done \o a /\ mSendOv'[s] = <<>> /\ mSendQ'[s] = b
      /\ \A o \in Slots : o # s => mSendOv'[o] = mSendOv[o]
  BY <1>1, <1>2, <1>3 DEF CompleteSend, IInv, TypeOK
<1>5. ~Late(s) /\ ~Idle(s)
  BY <1>2, HeldNotLate DEF At2, WorkLabels
<1>6. SlotService(s)'
  <2>1. /\ Doing(EarlyLabels, s)' <=> Doing(EarlyLabels, s)
        /\ Doing(IdleLabels, s)' <=> Doing(IdleLabels, s)
        /\ Doing(LateLabels, s)' <=> Doing(LateLabels, s)
    BY <1>2, SteppingKeeps DEF EarlyLabels, IdleLabels, LateLabels
  <2>2. /\ Opening(s)' <=> Opening(s)
        /\ Early(s)' <=> Early(s)
        /\ Idle(s)' <=> Idle(s)
        /\ Late(s)' <=> Late(s)
        /\ SameLife(s)
    BY <1>1, <2>1 DEF Opening, Early, Idle, Late, SameLife, Stacked
  <2>3. Stage(s)'
    BY <2>2, StageKept DEF ServiceInv, SlotService
  <2>4. Drained(s)' /\ Ready(s)' /\ InRange(s)'
    BY <1>1, <1>4, <2>2 DEF Drained, Ready, InRange, ServiceInv, SlotService
  <2> QED
    BY <2>3, <2>4 DEF SlotService
<1>7. \A o \in Slots : o # s => SameSlot(o)
  BY <1>1, <1>4 DEF SameSlot, Stacked
<1>8. \A o \in Slots : SlotService(o)'
  BY <1>2, <1>6, <1>7, Others DEF At2
<1>9. Known' /\ Ids'
  BY <1>1, <1>2, SteppingKnows DEF ServiceInv, Ids
<1>10. CASE a = <<>>
  <2>1. done' = done
    <3>1. done \in Seq(Message)
      BY DEF IInv, TypeOK
    <3> QED
      BY <1>4, <1>10, <3>1
  <2>2. \A o \in Slots : mSendOv'[o] = mSendOv[o]
    BY <1>3, <1>4, <1>10
  <2>3. Unseen
    BY <1>1, <2>1, <2>2, SameOpen
  <2> QED
    BY <1>8, <1>9, <2>3 DEF ServiceInv
<1>11. CASE a # <<>>
  <2>1. Open(s) /\ Open(s)'
    <3>1. ~Early(s)
      BY <1>3, <1>11 DEF ServiceInv, SlotService, Drained
    <3> QED
      BY <1>1, <1>5, <3>1 DEF ServiceInv, SlotService, Stage, Open, Id
  <2>2. Pending(s) = a \o b /\ Pending(s)' = b
    <3>1. <<>> \o b = b
      OBVIOUS
    <3> QED
      BY <1>3, <1>4, <2>1, <3>1 DEF Pending
  <2>3. /\ \A o \in Slots : Current(o)' = Current(o)
        /\ \A o \in Slots : o # s => Pending(o)' = Pending(o)
    BY <1>1, <1>4 DEF Current, Pending, Open, Id
  <2>4. /\ Currents' = Currents /\ Pendings[s] = a \o b
        /\ Pendings' = [Pendings EXCEPT ![s] = b]
    BY <2>2, <2>3 DEF Currents, Pendings
  <2>5. PICK n \in 1 .. Len(a \o b) :
          n = Len(a) /\ SubSeq(a \o b, 1, n) = a /\ SubSeq(a \o b, n + 1, Len(a \o b)) = b
    BY <1>11, Parted
  <2>6. /\ done' = done \o SubSeq(Pendings[s], 1, n)
        /\ Pendings' = [Pendings EXCEPT ![s] = SubSeq(@, n + 1, Len(@))]
    BY <1>4, <2>4, <2>5
  <2>7. Service!Deliver(s, n)
    BY <1>1, <2>4, <2>6 DEF Service!Deliver, Currents, Pendings, Current, Pending, Open, Id
  <2> QED
    BY <1>8, <1>9, <2>2, <2>4, <2>5, <2>7 DEF ServiceInv
<1> QED
  BY <1>10, <1>11

LEMMA PostSeen ==
  ASSUME IInv, SendInv, ServiceInv, NEW t \in Threads, EnQueueMsg(t)
  PROVE  /\ ServiceInv'
         /\ \E s \in Slots, m \in [own : Slots \X (0 .. MaxSeq), n : 1 .. MaxMsgs] :
              Service!Post(s, m)
<1>1. /\ UNCHANGED <<mSessionID, mSeqID, mStackSessionIdx, accepted, released, done, mSendOv,
                     kernel, iocp, ses, tgt>>
      /\ pc[t] = "enqueue" /\ Goto(t, "postSend")
  BY DEF EnQueueMsg, pool, io, local
<1>2. PICK s \in Slots : s = ses[t]
  BY DEF IInv, TypeOK
<1>3. Moves(t) /\ pc'[t] = "postSend" /\ ses'[t] = s
  BY <1>1, <1>2, Going DEF IInv
<1>4. t \in Contents /\ op[t] = "send"
  BY <1>1 DEF SendInv, Senders, Threads
<1>5. PICK q \in Nat : q = mSessionID[s]
  BY DEF IInv, TypeOK
<1>6. tgt[t] = q /\ <<s, q>> \in accepted /\ Id(s) = <<s, q>>
  BY <1>1, <1>2, <1>4, <1>5 DEF ServiceInv, Known, Id
<1>7. q \in 0 .. MaxSeq
  BY <1>6, NetworkLibAssumption DEF ServiceInv, Ids
<1>8. nMsgs + 1 \in 1 .. MaxMsgs
  <2>1. t \in Sending
    BY <1>1, <1>4 DEF Sending
  <2>2. IsFiniteSet(Sending)
    BY NetworkLibAssumption, FS_Subset DEF Sending
  <2>3. Cardinality(Sending) \in Nat /\ Cardinality(Sending) # 0
    BY <2>1, <2>2, FS_EmptySet, FS_CardinalityType
  <2>4. nMsgs \in Nat /\ MaxMsgs \in Nat
    BY NetworkLibAssumption DEF IInv, TypeOK
  <2> QED
    BY <2>3, <2>4 DEF SendInv, Bounded
<1>9. PICK m \in [own : Slots \X (0 .. MaxSeq), n : 1 .. MaxMsgs] :
        m = [own |-> <<s, q>>, n |-> nMsgs + 1]
  BY <1>7, <1>8
<1>10. m \in Message /\ m.own = <<s, q>>
  BY <1>7, <1>8, <1>9 DEF Message
<1>11. PICK a, b \in Seq(Message) : a = mSendOv[s] /\ b = mSendQ[s]
  BY DEF IInv, TypeOK
<1>12. mSendQ' = [mSendQ EXCEPT ![s] = Append(@, m)]
  BY <1>2, <1>6, <1>9 DEF EnQueueMsg
<1>13. mSendQ'[s] = Append(b, m) /\ \A o \in Slots : o # s => mSendQ'[o] = mSendQ[o]
  BY <1>11, <1>12 DEF IInv, TypeOK
<1>14. ~Late(s) /\ ~Idle(s)
  BY <1>1, <1>2, HeldNotLate DEF LockLabels
<1>15. ~Early(s)
  BY <1>6 DEF ServiceInv, SlotService, Stage
<1>16. Open(s) /\ Open(s)'
  BY <1>1, <1>14, <1>15 DEF ServiceInv, SlotService, Stage, Open, Id
<1>17. SlotService(s)'
  <2>1. /\ Doing(EarlyLabels, s)' <=> Doing(EarlyLabels, s)
        /\ Doing(IdleLabels, s)' <=> Doing(IdleLabels, s)
        /\ Doing(LateLabels, s)' <=> Doing(LateLabels, s)
        /\ Doing(ReadyLabels, s)' <=> Doing(ReadyLabels, s)
    BY <1>1, <1>3, DoingKept DEF EarlyLabels, IdleLabels, LateLabels, ReadyLabels
  <2>2. /\ Opening(s)' <=> Opening(s)
        /\ Early(s)' <=> Early(s)
        /\ Idle(s)' <=> Idle(s)
        /\ Late(s)' <=> Late(s)
        /\ SameLife(s)
    BY <1>1, <2>1 DEF Opening, Early, Idle, Late, SameLife, Stacked
  <2>3. Stage(s)'
    BY <2>2, StageKept DEF ServiceInv, SlotService
  <2>4. Drained(s)' /\ Ready(s)' /\ InRange(s)'
    BY <1>1, <1>14, <1>15, <2>1, <2>2 DEF Drained, Ready, InRange, ServiceInv, SlotService
  <2> QED
    BY <2>3, <2>4 DEF SlotService
<1>18. \A o \in Slots : o # s => SameSlot(o)
  BY <1>1, <1>13 DEF SameSlot, Stacked
<1>19. \A o \in Slots : SlotService(o)'
  BY <1>2, <1>3, <1>17, <1>18, Others
<1>20. Known'
  <2>1. Knows(t)
    BY <1>1, <1>2, <1>3, <1>6 DEF Knows
  <2> QED
    BY <1>1, <1>3, <2>1, StillKnown DEF ServiceInv
<1>21. Ids'
  BY <1>1 DEF ServiceInv, Ids
<1>22. Service!Post(s, m)
  <2>1. Current(s) = q /\ Pending(s) = a \o b /\ Pending(s)' = a \o Append(b, m)
    BY <1>1, <1>5, <1>11, <1>13, <1>16 DEF Current, Pending
  <2>2. a \o Append(b, m) = Append(a \o b, m)
    BY <1>10, SMTT(20)
  <2>3. /\ \A o \in Slots : Current(o)' = Current(o)
        /\ \A o \in Slots : o # s => Pending(o)' = Pending(o)
    BY <1>1, <1>13 DEF Current, Pending, Open, Id
  <2>4. Currents[s] = q /\ q # -1 /\ Currents' = Currents
    BY <2>1, <2>3 DEF Currents
  <2>5. Pendings' = [Pendings EXCEPT ![s] = Append(@, m)]
    <3>1. \A o \in Slots : Pendings'[o] = IF o = s THEN Append(Pendings[s], m) ELSE Pendings[o]
      BY <2>1, <2>2, <2>3 DEF Pendings
    <3> QED
      BY <3>1 DEF Pendings
  <2>6. Append(Pendings[s], m) = Service!InsertAt(Pendings[s], Len(Pendings[s]) + 1, m)
    <3>1. Pendings[s] = a \o b /\ a \o b \in Seq(Message)
      BY <2>1 DEF Pendings
    <3> QED
      BY <1>10, <3>1, InsertLast
  <2>7. \E i \in Service!Places(Len(Pendings[s])) :
          Pendings' = [Pendings EXCEPT ![s] = Service!InsertAt(@, i, m)]
    BY <2>5, <2>6 DEF Service!Places
  <2>8. /\ Currents' = [o \in Slots |-> IF Id(o) \in accepted \ released THEN mSessionID[o] ELSE -1]'
        /\ Pendings' = [o \in Slots |-> IF Id(o) \in accepted \ released THEN mSendOv[o] \o mSendQ[o]
                                                                       ELSE <<>>]'
    BY DEF Currents, Pendings, Current, Pending, Open, Id
  <2> QED
    BY <1>1, <1>10, <2>4, <2>7, <2>8, Views DEF Service!Post
<1> QED
  BY <1>19, <1>20, <1>21, <1>22 DEF ServiceInv

-----------------------------------------------------------------------------
LEMMA ServiceInit == Init => ServiceInv /\ Service!Init
<1> SUFFICES ASSUME Init PROVE ServiceInv /\ Service!Init
  OBVIOUS
<1>1. \A s \in Slots : s \in Nat /\ s <= CONFIG_SESSION_MAX - 1
  BY NetworkLibAssumption DEF Slots
<1>2. Ids
  BY <1>1 DEF Init, Ids
<1>3. \A t \in Threads : pc[t] \in {"GQCS", "idle"} /\ (t \in Contents => pc[t] = "idle")
  BY NetworkLibAssumption DEF Init, Threads
<1>4. Known
  BY <1>3 DEF Known, Threads
<1>5. ASSUME NEW s \in Slots PROVE SlotService(s) /\ ~Open(s)
  <2>1. kernel[s].accept = 1 /\ iocp[s].accept = 0 /\ accepted = {}
    BY DEF Init, Ops, Completions
  <2>2. \A L : L \cap {"GQCS", "idle"} = {} => ~Doing(L, s)
    BY <1>3 DEF Doing, Threads
  <2>3. ~Doing(EarlyLabels, s) /\ ~Doing(LateLabels, s) /\ ~Doing(IdleLabels, s)
        /\ ~Doing(ReadyLabels, s)
    BY <2>2 DEF EarlyLabels, LateLabels, IdleLabels, ReadyLabels
  <2>4. ~Stacked(s) /\ mSendQ[s] = <<>> /\ mSendOv[s] = <<>>
    BY DEF Init, Stacked
  <2>5. ~Opening(s) /\ Early(s) /\ ~Late(s) /\ ~Open(s)
    BY <2>1, <2>3, <2>4 DEF Opening, Early, Late, Open
  <2> QED
    BY <2>1, <2>3, <2>4, <2>5 DEF SlotService, Stage, Drained, Ready, InRange
<1>6. Currents = [s \in Slots |-> -1] /\ Pendings = [s \in Slots |-> <<>>]
  BY <1>5 DEF Currents, Pendings, Current, Pending
<1>7. Service!Init
  BY <1>6 DEF Init, Service!Init, Currents, Pendings, Current, Pending, Open, Id
<1> QED
  BY <1>2, <1>4, <1>5, <1>7 DEF ServiceInv

LEMMA ServiceStep ==
  ASSUME IInv, SendInv, ServiceInv, [Next]_vars
  PROVE  ServiceInv' /\ [Service!Next]_(Service!service)
<1>1. TypeOK /\ Known
  BY DEF IInv, ServiceInv
<1>2. ASSUME NEW w \in Workers, WorkerStep(w)
      PROVE  ServiceInv' /\ (Service!Next \/ Unseen)
  <2>1. CASE ~Special(w)
    BY <1>1, <1>2, <2>1, CalmWorker, CalmStep DEF Threads
  <2>2. CASE AcceptLive(w) \/ AcceptCount(w)
    BY <1>1, <2>2, AcceptSteps
  <2>3. CASE OnAccept(w)
    BY <2>3, AcceptSeen DEF Service!Next
  <2>4. CASE CompleteSend(w)
    <3>1. CASE Unseen
      BY <2>4, <3>1, DeliverSeen
    <3>2. ASSUME NEW s \in Slots, NEW n \in 1 .. Len(Pendings[s]), Service!Deliver(s, n)
          PROVE  Service!Next
      BY <3>2 DEF Service!Next, Pendings, Pending, Open, Id
    <3> QED
      BY <2>4, <3>1, <3>2, DeliverSeen
  <2>5. CASE Dequeue(w)
    BY <2>5, DequeueStep
  <2>6. CASE OnRelease(w)
    BY <2>6, ReleaseSeen DEF Service!Next
  <2>7. CASE ReleaseSession(w)
    BY <2>7, ClearStep
  <2>8. CASE PushIdx(w)
    BY <2>8, PushStep
  <2>9. CASE RegisterAcceptEx(w)
    BY <2>9, PopStep
  <2>10. CASE AcceptEx(w)
    BY <2>10, NewStep
  <2> QED
    BY <2>1, <2>2, <2>3, <2>4, <2>5, <2>6, <2>7, <2>8, <2>9, <2>10 DEF Special
<1>3. ASSUME NEW w \in Workers, NEW s \in Slots, NEW k \in Completions, TakeCompletion(w, s, k)
      PROVE  ServiceInv' /\ Unseen
  <2>1. CASE k = "accept"
    BY <1>1, <1>3, <2>1, TakeAccept
  <2>2. CASE k # "accept"
    BY <1>1, <1>3, <2>2, CalmTake, CalmStep DEF Threads
  <2> QED
    BY <2>1, <2>2
<1>4. ASSUME NEW t \in Threads, LockStep(t)
      PROVE  ServiceInv' /\ (Service!Next \/ Unseen)
  <2>1. CASE EnQueueMsg(t)
    BY <2>1, PostSeen DEF Service!Next
  <2>2. CASE ~EnQueueMsg(t)
    BY <1>1, <1>4, <2>2, CalmLock, CalmStep
  <2> QED
    BY <2>1, <2>2
<1>5. ASSUME NEW t \in Contents, NEW id \in accepted, NEW o \in {"send", "disconnect"},
             Call(t, id, o)
      PROVE  ServiceInv' /\ Unseen
  BY <1>1, <1>5, CalmCall, CalmStep DEF Threads
<1>6. ASSUME NEW s \in Slots, KernelStep(s) PROVE ServiceInv' /\ Unseen
  BY <1>1, <1>6, KernelSeen
<1>7. ASSUME vars' = vars PROVE ServiceInv' /\ Unseen
  <2>1. /\ UNCHANGED <<mSessionID, mSeqID, mStackSessionIdx, accepted, released, done, mSendQ, mSendOv,
                       kernel, iocp, pc, ses, tgt>>
    BY <1>7 DEF vars, session, pool, io, local, log
  <2>2. \A s \in Slots : SlotService(s)'
    BY <2>1 DEF ServiceInv, SlotService, Stage, Drained, Ready, InRange, Early, Opening, Idle, Late,
                Open, Id, Doing, Stacked
  <2>3. Unseen
    BY <2>1, SameView
  <2> QED
    BY <2>1, <2>2, <2>3 DEF ServiceInv, Ids, Known
<1>8. ServiceInv' /\ (Service!Next \/ Unseen)
  BY <1>2, <1>3, <1>4, <1>5, <1>6, <1>7 DEF Next
<1> QED
  BY <1>8 DEF Unseen

\* What the application sees of NetworkLib is what SessionService promises: ids
\* never come back, a message is queued only for the session it was posted to,
\* onSend gets the messages of a session in order and once, and after onRelease
\* the session's id does nothing.  Each step of the library is one step of that
\* service or none.
THEOREM ServiceImplemented == ASSUME Room PROVE Spec => ServiceSpec
<1>1. Spec => []IInv
  BY InvHolds
<1>2. Spec => [](TypeOK /\ Senders /\ Bounded)
  <2>1. TypeOK /\ TypeOK' /\ Senders /\ Bounded /\ [Next]_vars => Senders' /\ Bounded'
    BY SendNext DEF SendInv
  <2> QED
    BY <2>1, SendInit, TypeCorrect, PTL DEF Spec
<1>3. IInv /\ TypeOK /\ Senders /\ Bounded /\ ServiceInv /\ [Next]_vars
        => ServiceInv' /\ [Service!Next]_(Service!service)
  BY ServiceStep DEF SendInv
<1>4. Init => ServiceInv /\ Service!Init
  BY ServiceInit
<1> QED
  BY <1>1, <1>2, <1>3, <1>4, PTL DEF Spec, ServiceSpec, Service!Spec
=============================================================================
