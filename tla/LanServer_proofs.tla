-------------------------- MODULE LanServer_proofs ---------------------------
(***************************************************************************)
(* Theorems about LanServer, for any number of workers, threads of the     *)
(* application and sessions.                                               *)
(***************************************************************************)
EXTENDS LanServer, FiniteSetTheorems, SequenceTheorems, TLAPS

-----------------------------------------------------------------------------
(* A message put among others.                                             *)

LEMMA InsertFacts ==
  ASSUME NEW S, NEW q \in Seq(S), NEW e \in S, NEW i \in 1 .. Len(q) + 1
  PROVE  SeqExt!InsertAt(q, i, e) \in Seq(S) /\ Len(SeqExt!InsertAt(q, i, e)) = Len(q) + 1
<1>1. SubSeq(q, 1, i - 1) \in Seq(S) /\ Len(SubSeq(q, 1, i - 1)) = i - 1
  BY SubSeqProperties
<1>2. SubSeq(q, i, Len(q)) \in Seq(S) /\ Len(SubSeq(q, i, Len(q))) = Len(q) - i + 1
  OBVIOUS
<1>3. <<e>> \in Seq(S) /\ Len(<<e>>) = 1
  OBVIOUS
<1>4. PICK a, b, d \in Seq(S) :
        /\ a = SubSeq(q, 1, i - 1) /\ b = SubSeq(q, i, Len(q)) /\ d = <<e>>
        /\ Len(a) = i - 1 /\ Len(b) = Len(q) - i + 1 /\ Len(d) = 1
  BY <1>1, <1>2, <1>3, Zenon
<1>5. a \o d \in Seq(S) /\ Len(a \o d) = i
  BY <1>4, ConcatProperties
<1>6. (a \o d) \o b \in Seq(S) /\ Len((a \o d) \o b) = i + Len(b)
  BY <1>5, ConcatProperties
<1>7. i + Len(b) = Len(q) + 1
  BY <1>4
<1>8. SeqExt!InsertAt(q, i, e) = (a \o d) \o b
  BY <1>4, Zenon DEF SeqExt!InsertAt
<1> QED
  BY <1>6, <1>7, <1>8

LEMMA InsertBehind ==
  ASSUME NEW S, NEW a \in Seq(S), NEW b \in Seq(S), NEW e \in S, NEW i \in 1 .. Len(b) + 1
  PROVE  a \o SeqExt!InsertAt(b, i, e) = SeqExt!InsertAt(a \o b, Len(a) + i, e)
<1> DEFINE l == SubSeq(b, 1, i - 1)
           r == SubSeq(b, i, Len(b))
           k == Len(a) + i
<1>1. l \in Seq(S) /\ r \in Seq(S)
  BY SubSeqProperties
<1>2. a \o b \in Seq(S) /\ Len(a \o b) = Len(a) + Len(b)
  OBVIOUS
<1>3. SubSeq(a \o b, 1, k - 1) = a \o l
  <2>1. SubSeq(a \o b, 1, k - 1) \in Seq(S) /\ Len(SubSeq(a \o b, 1, k - 1)) = Len(a) + i - 1
    BY <1>2
  <2>2. a \o l \in Seq(S) /\ Len(a \o l) = Len(a) + i - 1
    BY <1>1
  <2>3. \A j \in 1 .. Len(a) + i - 1 : SubSeq(a \o b, 1, k - 1)[j] = (a \o l)[j]
    OBVIOUS
  <2> HIDE DEF l, k
  <2> QED
    BY <2>1, <2>2, <2>3, SeqEqual
<1>4. SubSeq(a \o b, k, Len(a \o b)) = r
  <2>1. /\ SubSeq(a \o b, k, Len(a \o b)) \in Seq(S)
        /\ Len(SubSeq(a \o b, k, Len(a \o b))) = Len(b) - i + 1
    BY <1>2
  <2>2. r \in Seq(S) /\ Len(r) = Len(b) - i + 1
    BY <1>1
  <2>3. \A j \in 1 .. Len(b) - i + 1 : SubSeq(a \o b, k, Len(a \o b))[j] = r[j]
    BY <1>2
  <2> HIDE DEF r, k
  <2> QED
    BY <2>1, <2>2, <2>3, SeqEqual
<1>5. a \o ((l \o <<e>>) \o r) = ((a \o l) \o <<e>>) \o r
  <2>1. <<e>> \in Seq(S)
    OBVIOUS
  <2> HIDE DEF l, r
  <2>2. PICK x, y, d \in Seq(S) : x = l /\ y = r /\ d = <<e>>
    BY <1>1, <2>1, Zenon
  <2>3. a \o ((x \o d) \o y) = ((a \o x) \o d) \o y
    <3>1. x \o d \in Seq(S)
      BY ConcatProperties
    <3>2. (a \o (x \o d)) \o y = a \o ((x \o d) \o y)
      BY <3>1, SMTT(20)
    <3>3. (a \o x) \o d = a \o (x \o d)
      BY SMTT(20)
    <3> QED
      BY <3>2, <3>3, Zenon
  <2> QED
    BY <2>2, <2>3, Zenon
<1>6. SeqExt!InsertAt(b, i, e) = (l \o <<e>>) \o r
  BY DEF SeqExt!InsertAt
<1>7. SeqExt!InsertAt(a \o b, k, e) = ((a \o l) \o <<e>>) \o r
  BY <1>3, <1>4 DEF SeqExt!InsertAt
<1> QED
  BY <1>5, <1>6, <1>7

-----------------------------------------------------------------------------
(* Types.  That the count does not become negative follows from what it    *)
(* counts, so m_ioCount is an integer to begin with.                       *)

WorkerLabels   == WorkLabels \cup {"GQCS", "CAS", "ReleaseComplete", "Push"}
AcceptorLabels == {"accept", "accCount", "OnAccept", "RecvPacket", "WSARecv", "recvPending",
                   "recvError", "dec", "CAS"}
ContentsLabels == CallLabels \cup LockLabels \cup {"idle", "SessionLock", "CAS"}

\* Where thread t may be; op is the call a thread of the application is in.
Allowed(t, l, op) ==
  \/ t \in Workers /\ l \in WorkerLabels
  \/ t = Acceptor /\ l \in AcceptorLabels
  \/ /\ t \in Contents /\ l \in ContentsLabels
     /\ l \in LockLabels \cup {"SessionLock"} => op = "SendPacket"

Placed == \A t \in Threads : Allowed(t, pc[t], call[t])

Types ==
  /\ m_SeqID \in [Slots -> Nat] /\ m_ioCount \in [Slots -> Int]
  /\ m_blive \in [Slots -> BOOLEAN] /\ m_flag \in [Slots -> BOOLEAN]
  /\ m_sendBuffer \in [Slots -> Seq(Message)] /\ m_sendOverlapped \in [Slots -> Seq(Message)]
  /\ m_SessionIdxStack \in Seq(Slots) /\ session_id \in Nat
  /\ kernel \in [Slots -> [Ops -> Nat]]
  /\ iocp \in [Slots -> [Completions -> Nat]]
  /\ conn \in [Slots -> {"none", "up", "reset", "lost"}]
  /\ pc \in [Threads -> Labels] /\ ses \in [Threads -> Slots]
  /\ id \in [Threads -> Nat] /\ call \in [Threads -> Calls]
  /\ accepted \subseteq Slots \X Nat /\ released \subseteq Slots \X Nat
  /\ done \in Seq(Message) /\ nMsgs \in Nat /\ orphaned \subseteq Slots
  /\ Placed

LEMMA SlotsExist == 0 \in Slots /\ Slots \subseteq Nat /\ MaxSessions \in Nat \ {0}
BY LanServerAssumption DEF Slots

LEMMA AllowedLabel ==
  ASSUME NEW t, NEW l, NEW op, Allowed(t, l, op)
  PROVE  l \in Labels
BY DEF Allowed, WorkerLabels, AcceptorLabels, ContentsLabels, Labels, WorkLabels, LockLabels,
       CallLabels, DiscLabels, SendLabels, RecvLabels

\* Which threads are at a label.
LEMMA Kinds ==
  ASSUME Placed, NEW t \in Threads
  PROVE  /\ pc[t] \in {"RecvPacket", "WSARecv", "recvPending", "recvError", "dec"} =>
              t \in Workers \cup {Acceptor}
         /\ pc[t] \in SendLabels \cup {"recheck", "flagOn", "sendPending", "sendError", "fin",
                                       "RecvComplete", "ReleaseComplete", "Push", "GQCS"} =>
              t \in Workers
         /\ pc[t] \in CallLabels => t \in Workers \cup Contents
         /\ pc[t] \in LockLabels \cup {"SessionLock"} => t \in Contents /\ call[t] = "SendPacket"
         /\ pc[t] \in {"accept", "accCount", "OnAccept"} => t = Acceptor
         /\ pc[t] = "idle" => t \in Contents
BY DEF Placed, Allowed, WorkerLabels, AcceptorLabels, ContentsLabels, WorkLabels, LockLabels,
       CallLabels, DiscLabels, SendLabels, RecvLabels

LEMMA GotoPlaced ==
  ASSUME Types, NEW t \in Threads, NEW l, Goto(t, l), Allowed(t, l, call[t]), call' = call
  PROVE  pc' \in [Threads -> Labels] /\ Placed'
<1>1. l \in Labels
  BY AllowedLabel
<1>2. pc' = [pc EXCEPT ![t] = l] /\ pc \in [Threads -> Labels]
  BY DEF Types, Goto
<1>3. \A u \in Threads : Allowed(u, pc'[u], call[u])
  BY <1>2 DEF Types, Placed
<1>4. \A u \in Threads : Allowed(u, pc'[u], call'[u])
  BY <1>3
<1>5. Placed'
  BY <1>4 DEF Placed, Allowed
<1> QED
  BY <1>1, <1>2, <1>5

LEMMA InitTypes == Init => Types
<1> SUFFICES ASSUME Init PROVE Types
  OBVIOUS
<1>1. (CHOOSE s \in Slots : TRUE) \in Slots
  BY SlotsExist
<1>2. /\ m_SeqID \in [Slots -> Nat] /\ m_ioCount \in [Slots -> Int]
      /\ m_blive \in [Slots -> BOOLEAN] /\ m_flag \in [Slots -> BOOLEAN]
      /\ m_sendBuffer \in [Slots -> Seq(Message)] /\ m_sendOverlapped \in [Slots -> Seq(Message)]
      /\ session_id \in Nat /\ nMsgs \in Nat
      /\ conn \in [Slots -> {"none", "up", "reset", "lost"}]
      /\ id \in [Threads -> Nat] /\ done \in Seq(Message)
      /\ accepted \subseteq Slots \X Nat /\ released \subseteq Slots \X Nat /\ orphaned \subseteq Slots
  BY DEF Init
<1>3. m_SessionIdxStack \in Seq(Slots)
  <2>1. \A i \in 1 .. MaxSessions : MaxSessions - i \in Slots
    BY SlotsExist DEF Slots
  <2>2. m_SessionIdxStack \in [1 .. MaxSessions -> Slots]
    BY <2>1 DEF Init
  <2> QED
    BY <2>2, SlotsExist
<1>4. kernel \in [Slots -> [Ops -> Nat]] /\ iocp \in [Slots -> [Completions -> Nat]]
  BY DEF Init
<1>5. ses \in [Threads -> Slots] /\ call \in [Threads -> Calls]
  BY <1>1 DEF Init, Calls
<1>6. \A t \in Threads : Allowed(t, Home(t), "Disconnect")
  BY DEF Allowed, Home, WorkerLabels, AcceptorLabels, ContentsLabels, Threads, LockLabels
<1>7. \A t \in Threads : pc[t] = Home(t) /\ call[t] = "Disconnect"
  BY DEF Init
<1>8. Placed
  BY <1>6, <1>7 DEF Placed
<1>9. pc \in [Threads -> Labels]
  BY <1>6, AllowedLabel DEF Init
<1> QED
  BY <1>2, <1>3, <1>4, <1>5, <1>8, <1>9 DEF Types

\* Counters of a slot's operations and completions.
LEMMA SlotCounters ==
  ASSUME NEW K, NEW f \in [Slots -> [K -> Nat]], NEW s \in Slots, NEW k \in K
  PROVE  /\ [f EXCEPT ![s][k] = @ + 1] \in [Slots -> [K -> Nat]]
         /\ f[s][k] > 0 => [f EXCEPT ![s][k] = @ - 1] \in [Slots -> [K -> Nat]]
<1>1. f[s] \in [K -> Nat] /\ f[s][k] \in Nat
  OBVIOUS
<1>2. [f[s] EXCEPT ![k] = @ + 1] \in [K -> Nat]
  BY <1>1
<1>3. f[s][k] > 0 => [f[s] EXCEPT ![k] = @ - 1] \in [K -> Nat]
  BY <1>1
<1> QED
  BY <1>2, <1>3

LEMMA PostedType ==
  ASSUME Types, NEW s \in Slots, NEW c \in Completions, Posted(s, c)
  PROVE  iocp' \in [Slots -> [Completions -> Nat]]
BY SlotCounters DEF Types, Posted

FieldsOK(s) ==
  /\ kernel[s].recv \in Nat /\ kernel[s].send \in Nat
  /\ iocp[s].recv \in Nat /\ iocp[s].fin \in Nat
  /\ iocp[s].send \in Nat /\ iocp[s].release \in Nat

LEMMA FieldNats ==
  ASSUME Types, NEW s \in Slots
  PROVE  FieldsOK(s)
BY DEF FieldsOK, Types, Ops, Completions

\* What a cancellation leaves of the operations of s: all become completions.
Cancels(s) ==
  /\ kernel' \in [Slots -> [Ops -> Nat]] /\ iocp' \in [Slots -> [Completions -> Nat]]
  /\ \A o \in Slots : o # s => kernel'[o] = kernel[o] /\ iocp'[o] = iocp[o]
  /\ iocp'[s].recv = iocp[s].recv /\ iocp'[s].release = iocp[s].release
  /\ kernel'[s].recv + iocp'[s].fin = kernel[s].recv + iocp[s].fin
  /\ kernel'[s].send + iocp'[s].send = kernel[s].send + iocp[s].send

LEMMA Cancelled ==
  ASSUME Types, NEW s \in Slots, CancelRecv(s) \/ CancelSend(s) \/ CancelBoth(s)
  PROVE  Cancels(s)
<1>1. FieldsOK(s) /\ kernel[s] \in [Ops -> Nat] /\ iocp[s] \in [Completions -> Nat]
  BY FieldNats DEF Types
<1>2. kernel \in [Slots -> [Ops -> Nat]] /\ iocp \in [Slots -> [Completions -> Nat]]
  BY DEF Types
<1>3. CASE CancelRecv(s)
  <2> DEFINE a == [kernel[s] EXCEPT !.recv = 0]
             b == [iocp[s] EXCEPT !.fin = @ + kernel[s].recv]
  <2>1. kernel' = [kernel EXCEPT ![s] = a] /\ iocp' = [iocp EXCEPT ![s] = b]
    BY <1>1, <1>2, <1>3 DEF CancelRecv, Completions
  <2>2. a \in [Ops -> Nat] /\ b \in [Completions -> Nat]
    BY <1>1 DEF Ops, Completions, FieldsOK
  <2>3. /\ a.recv = 0 /\ a.send = kernel[s].send
        /\ b.fin = iocp[s].fin + kernel[s].recv /\ b.recv = iocp[s].recv
        /\ b.send = iocp[s].send /\ b.release = iocp[s].release
    BY <1>1 DEF Ops, Completions
  <2> HIDE DEF a, b
  <2> QED
    BY <1>1, <1>2, <2>1, <2>2, <2>3 DEF Cancels, FieldsOK
<1>4. CASE CancelSend(s)
  <2> DEFINE a == [kernel[s] EXCEPT !.send = 0]
             b == [iocp[s] EXCEPT !.send = @ + kernel[s].send]
  <2>1. kernel' = [kernel EXCEPT ![s] = a] /\ iocp' = [iocp EXCEPT ![s] = b]
    BY <1>1, <1>2, <1>4 DEF CancelSend, Completions
  <2>2. a \in [Ops -> Nat] /\ b \in [Completions -> Nat]
    BY <1>1 DEF Ops, Completions, FieldsOK
  <2>3. /\ a.send = 0 /\ a.recv = kernel[s].recv
        /\ b.send = iocp[s].send + kernel[s].send /\ b.recv = iocp[s].recv
        /\ b.fin = iocp[s].fin /\ b.release = iocp[s].release
    BY <1>1 DEF Ops, Completions
  <2> HIDE DEF a, b
  <2> QED
    BY <1>1, <1>2, <2>1, <2>2, <2>3 DEF Cancels, FieldsOK
<1>5. CASE CancelBoth(s)
  <2> DEFINE a == [k \in Ops |-> 0]
             b == [iocp[s] EXCEPT !.fin = @ + kernel[s].recv, !.send = @ + kernel[s].send]
  <2>1. kernel' = [kernel EXCEPT ![s] = a] /\ iocp' = [iocp EXCEPT ![s] = b]
    BY <1>1, <1>2, <1>5 DEF CancelBoth, Completions
  <2>2. a \in [Ops -> Nat] /\ b \in [Completions -> Nat]
    <3>1. iocp[s].fin + kernel[s].recv \in Nat /\ iocp[s].send + kernel[s].send \in Nat
      BY <1>1 DEF FieldsOK
    <3>2. [iocp[s] EXCEPT !.fin = @ + kernel[s].recv] \in [Completions -> Nat]
      BY <1>1, <3>1
    <3>3. b = [[iocp[s] EXCEPT !.fin = @ + kernel[s].recv]
                 EXCEPT !.send = iocp[s].send + kernel[s].send]
      BY <1>1 DEF Completions
    <3> QED
      BY <3>1, <3>2, <3>3
  <2>3. /\ a.send = 0 /\ a.recv = 0
        /\ b.send = iocp[s].send + kernel[s].send /\ b.recv = iocp[s].recv
        /\ b.fin = iocp[s].fin + kernel[s].recv /\ b.release = iocp[s].release
    BY <1>1 DEF Ops, Completions
  <2> HIDE DEF a, b
  <2> QED
    BY <1>1, <1>2, <2>1, <2>2, <2>3 DEF Cancels, FieldsOK
<1> QED
  BY <1>3, <1>4, <1>5

LEMMA AddType ==
  ASSUME Types, NEW s \in Slots, NEW n \in Int, Add(s, n)
  PROVE  m_ioCount' \in [Slots -> Int]
BY DEF Types, Add

LEMMA TryReleaseType ==
  ASSUME Types, NEW s \in Slots, TryRelease(s)
  PROVE  m_ioCount' \in [Slots -> Int] /\ iocp' \in [Slots -> [Completions -> Nat]]
<1>1. "release" \in Completions /\ RELEASE \in Int
  BY LanServerAssumption DEF Completions
<1>2. CASE m_ioCount[s] = 0
  BY <1>1, <1>2, AddType, PostedType DEF TryRelease
<1>3. CASE m_ioCount[s] # 0
  BY <1>3 DEF TryRelease, Types
<1> QED
  BY <1>2, <1>3

LEMMA PostSendType ==
  ASSUME Types, NEW s \in Slots, PostSend(s)
  PROVE  /\ m_ioCount' \in [Slots -> Int] /\ iocp' \in [Slots -> [Completions -> Nat]]
         /\ m_flag' \in [Slots -> BOOLEAN]
<1>1. "send" \in Completions
  BY DEF Completions
<1>2. CASE m_flag[s]
  BY <1>2 DEF PostSend, Types
<1>3. CASE ~m_flag[s]
  <2>1. m_flag' = [m_flag EXCEPT ![s] = TRUE] /\ Add(s, 1) /\ Posted(s, "send")
    BY <1>3 DEF PostSend
  <2>2. m_flag' \in [Slots -> BOOLEAN]
    BY <2>1 DEF Types
  <2>3. m_ioCount' \in [Slots -> Int]
    BY <2>1, AddType
  <2>4. iocp' \in [Slots -> [Completions -> Nat]]
    BY <1>1, <2>1, PostedType
  <2> QED
    BY <2>2, <2>3, <2>4
<1> QED
  BY <1>2, <1>3

\* Where an overlapped call leads.
CallLabel(k) == {IF k = "recv" THEN "recvPending" ELSE "sendPending", "dec",
                 IF k = "recv" THEN "recvError" ELSE "sendError"}

LEMMA WSACallType ==
  ASSUME Types, NEW t \in Threads, NEW k \in Ops, WSACall(t, k), Types,
         \A l \in CallLabel(k) : Allowed(t, l, call[t])
  PROVE  Types'
<1> DEFINE s == ses[t]
<1>1. s \in Slots /\ k \in Completions
  BY DEF Types, Ops, Completions
<1>2. m_ioCount' \in [Slots -> Int]
  BY <1>1, AddType DEF WSACall
<1>3. kernel' \in [Slots -> [Ops -> Nat]]
  <2>1. [kernel EXCEPT ![s][k] = @ + 1] \in [Slots -> [Ops -> Nat]]
    BY <1>1, SlotCounters DEF Types
  <2> QED
    BY <2>1 DEF Types, WSACall
<1>4. iocp' \in [Slots -> [Completions -> Nat]]
  BY <1>1, PostedType DEF Types, WSACall
<1>5. pc' \in [Threads -> Labels] /\ Placed'
  <2>1. PICK l \in CallLabel(k) : Goto(t, l)
    BY DEF WSACall, CallLabel
  <2>2. call' = call
    BY DEF WSACall, local
  <2> QED
    BY <2>1, <2>2, GotoPlaced
<1> QED
  BY <1>2, <1>3, <1>4, <1>5 DEF Types, WSACall, pool, local, log

LEMMA CompleteType ==
  ASSUME Types, NEW s \in Slots, NEW k \in Ops, NEW c \in Completions, Complete(s, k, c)
  PROVE  kernel' \in [Slots -> [Ops -> Nat]] /\ iocp' \in [Slots -> [Completions -> Nat]]
<1>1. [kernel EXCEPT ![s][k] = @ - 1] \in [Slots -> [Ops -> Nat]]
  BY SlotCounters DEF Types, Complete
<1> QED
  BY <1>1, PostedType DEF Types, Complete

LEMMA StackType ==
  ASSUME m_SessionIdxStack \in Seq(Slots)
  PROVE  /\ m_SessionIdxStack # <<>> => Head(m_SessionIdxStack) \in Slots
         /\ m_SessionIdxStack # <<>> => Tail(m_SessionIdxStack) \in Seq(Slots)
         /\ \A s \in Slots : <<s>> \o m_SessionIdxStack \in Seq(Slots)
OBVIOUS

\* The labels an action goes to are those of its thread.
LEMMA Destinations ==
  ASSUME Placed, NEW t \in Threads
  PROVE  /\ t \in Workers => \A l \in WorkerLabels : Allowed(t, l, call[t])
         /\ t = Acceptor => \A l \in AcceptorLabels : Allowed(t, l, call[t])
         /\ t \in Contents =>
              \A l \in CallLabels \cup {"idle", "CAS"} : Allowed(t, l, call[t])
         /\ t \in Contents /\ call[t] = "SendPacket" =>
              \A l \in ContentsLabels : Allowed(t, l, call[t])
BY DEF Allowed, ContentsLabels, CallLabels, DiscLabels, LockLabels

LEMMA AcceptCountTypes ==
  ASSUME Types, NEW t \in Threads, AcceptCount(t)
  PROVE  Types'
<1>1. PICK l \in {"OnAccept"} : Goto(t, l) /\ Allowed(t, l, call[t])
  BY Kinds, Destinations DEF AcceptCount, Types, WorkerLabels, AcceptorLabels, ContentsLabels, WorkLabels, CallLabels, SendLabels, RecvLabels, DiscLabels, LockLabels
<1>2. pc' \in [Threads -> Labels] /\ Placed'
  BY <1>1, GotoPlaced DEF AcceptCount, local
<1>3. m_ioCount' \in [Slots -> Int]
  BY DEF AcceptCount, Types
<1> QED
  BY <1>2, <1>3 DEF AcceptCount, Types, session, pool, io, local, log

LEMMA NoPortTypes ==
  ASSUME Types, NEW t \in Threads, NoPort(t)
  PROVE  Types'
<1>1. PICK l \in {"accept"} : Goto(t, l) /\ Allowed(t, l, call[t])
  BY Kinds, Destinations DEF NoPort, Types, WorkerLabels, AcceptorLabels, ContentsLabels, WorkLabels, CallLabels, SendLabels, RecvLabels, DiscLabels, LockLabels
<1>2. pc' \in [Threads -> Labels] /\ Placed'
  BY <1>1, GotoPlaced DEF NoPort, local
<1>3. conn' \in [Slots -> {"none", "up", "reset", "lost"}]
  BY DEF NoPort, Types
<1> QED
  BY <1>2, <1>3 DEF NoPort, Types, session, pool, io, local, log

LEMMA OnAcceptTypes ==
  ASSUME Types, NEW t \in Threads, OnAccept(t)
  PROVE  Types'
<1>1. PICK l \in {"RecvPacket", "dec"} : Goto(t, l) /\ Allowed(t, l, call[t])
  BY Kinds, Destinations DEF OnAccept, Types, WorkerLabels, AcceptorLabels, ContentsLabels, WorkLabels, CallLabels, SendLabels, RecvLabels, DiscLabels, LockLabels
<1>2. pc' \in [Threads -> Labels] /\ Placed'
  BY <1>1, GotoPlaced DEF OnAccept, local
<1>3. accepted' \subseteq Slots \X Nat
  BY DEF OnAccept, Types
<1> QED
  BY <1>2, <1>3 DEF OnAccept, Types, session, pool, io, local, log

LEMMA FinTypes ==
  ASSUME Types, NEW t \in Threads, Fin(t)
  PROVE  Types'
<1>1. PICK l \in {"RecvPacket"} : Goto(t, l) /\ Allowed(t, l, call[t])
  BY Kinds, Destinations DEF Fin, Types, WorkerLabels, AcceptorLabels, ContentsLabels, WorkLabels, CallLabels, SendLabels, RecvLabels, DiscLabels, LockLabels
<1>2. pc' \in [Threads -> Labels] /\ Placed'
  BY <1>1, GotoPlaced DEF Fin, local
<1>3. m_blive' \in [Slots -> BOOLEAN]
  BY DEF Fin, Types
<1> QED
  BY <1>2, <1>3 DEF Fin, Types, session, pool, io, local, log

LEMMA DecTypes ==
  ASSUME Types, NEW t \in Threads, Dec(t)
  PROVE  Types'
<1>1. PICK l \in {"CAS", "GQCS", "accept"} : Goto(t, l) /\ Allowed(t, l, call[t])
  BY Kinds, Destinations DEF Dec, Types, Home, WorkerLabels, AcceptorLabels, ContentsLabels, WorkLabels, CallLabels, SendLabels, RecvLabels, DiscLabels, LockLabels
<1>2. pc' \in [Threads -> Labels] /\ Placed'
  BY <1>1, GotoPlaced DEF Dec, local
<1>3. m_ioCount' \in [Slots -> Int]
  BY DEF Dec, Add, Types
<1> QED
  BY <1>2, <1>3 DEF Dec, Types, session, pool, io, local, log

LEMMA CASTypes ==
  ASSUME Types, NEW t \in Threads, CAS(t)
  PROVE  Types'
<1>1. PICK l \in {"GQCS", "accept", "idle"} : Goto(t, l) /\ Allowed(t, l, call[t])
  BY Kinds, Destinations, LanServerAssumption DEF CAS, Types, Home, Threads, WorkerLabels, AcceptorLabels, ContentsLabels, WorkLabels, CallLabels, SendLabels, RecvLabels, DiscLabels, LockLabels
<1>2. pc' \in [Threads -> Labels] /\ Placed'
  BY <1>1, GotoPlaced DEF CAS, local
<1>3. m_ioCount' \in [Slots -> Int] /\ iocp' \in [Slots -> [Completions -> Nat]]
  BY TryReleaseType DEF CAS, Types
<1> QED
  BY <1>2, <1>3 DEF CAS, Types, session, pool, io, local, log

LEMMA RecvCompleteTypes ==
  ASSUME Types, NEW t \in Threads, RecvComplete(t)
  PROVE  Types'
<1>1. PICK l \in {"RecvPacket", "Disconnect", "dec"} : Goto(t, l) /\ Allowed(t, l, call[t])
  BY Kinds, Destinations DEF RecvComplete, Types, WorkerLabels, AcceptorLabels, ContentsLabels, WorkLabels, CallLabels, SendLabels, RecvLabels, DiscLabels, LockLabels
<1>2. pc' \in [Threads -> Labels] /\ Placed'
  BY <1>1, GotoPlaced DEF RecvComplete, local
<1>3. kernel' \in [Slots -> [Ops -> Nat]] /\ iocp' \in [Slots -> [Completions -> Nat]]
  BY Cancelled DEF RecvComplete, Types, Cancels
<1>4. m_blive' \in [Slots -> BOOLEAN]
  BY DEF RecvComplete, Types
<1>5. id' \in [Threads -> Nat]
  BY DEF RecvComplete, Types
<1> QED
  BY <1>2, <1>3, <1>4, <1>5 DEF RecvComplete, Types, session, pool, io, local, log

LEMMA RecvPacketTypes ==
  ASSUME Types, NEW t \in Threads, RecvPacket(t)
  PROVE  Types'
<1>1. PICK l \in {"WSARecv", "dec"} : Goto(t, l) /\ Allowed(t, l, call[t])
  BY Kinds, Destinations DEF RecvPacket, Types, WorkerLabels, AcceptorLabels, ContentsLabels, WorkLabels, CallLabels, SendLabels, RecvLabels, DiscLabels, LockLabels
<1>2. pc' \in [Threads -> Labels] /\ Placed'
  BY <1>1, GotoPlaced DEF RecvPacket, local
<1>3. kernel' \in [Slots -> [Ops -> Nat]] /\ iocp' \in [Slots -> [Completions -> Nat]]
  BY Cancelled DEF RecvPacket, Types, Cancels
<1>4. m_blive' \in [Slots -> BOOLEAN]
  BY DEF RecvPacket, Types
<1> QED
  BY <1>2, <1>3, <1>4 DEF RecvPacket, Types, session, pool, io, local, log

LEMMA IoErrorTypes ==
  ASSUME Types, NEW t \in Threads, IoError(t)
  PROVE  Types'
<1>1. PICK l \in {"dec"} : Goto(t, l) /\ Allowed(t, l, call[t])
  BY Kinds, Destinations DEF IoError, Types, WorkerLabels, AcceptorLabels, ContentsLabels, WorkLabels, CallLabels, SendLabels, RecvLabels, DiscLabels, LockLabels
<1>2. pc' \in [Threads -> Labels] /\ Placed'
  BY <1>1, GotoPlaced DEF IoError, local
<1>3. m_ioCount' \in [Slots -> Int]
  BY DEF IoError, Add, Types
<1>4. m_blive' \in [Slots -> BOOLEAN]
  BY DEF IoError, Types
<1> QED
  BY <1>2, <1>3, <1>4 DEF IoError, Types, session, pool, io, local, log

LEMMA IoPendingTypes ==
  ASSUME Types, NEW t \in Threads, IoPending(t)
  PROVE  Types'
<1>1. PICK l \in {"dec"} : Goto(t, l) /\ Allowed(t, l, call[t])
  BY Kinds, Destinations DEF IoPending, Types, WorkerLabels, AcceptorLabels, ContentsLabels, WorkLabels, CallLabels, SendLabels, RecvLabels, DiscLabels, LockLabels
<1>2. pc' \in [Threads -> Labels] /\ Placed'
  BY <1>1, GotoPlaced DEF IoPending, local
<1>3. kernel' \in [Slots -> [Ops -> Nat]] /\ iocp' \in [Slots -> [Completions -> Nat]]
  BY Cancelled DEF IoPending, Types, Cancels, io
<1> QED
  BY <1>2, <1>3 DEF IoPending, Types, session, pool, io, local, log

LEMMA SendCompleteTypes ==
  ASSUME Types, NEW t \in Threads, SendComplete(t)
  PROVE  Types'
<1>1. PICK l \in {"flagOff", "Pop"} : Goto(t, l) /\ Allowed(t, l, call[t])
  BY Kinds, Destinations DEF SendComplete, Types, WorkerLabels, AcceptorLabels, ContentsLabels, WorkLabels, CallLabels, SendLabels, RecvLabels, DiscLabels, LockLabels
<1>2. pc' \in [Threads -> Labels] /\ Placed'
  BY <1>1, GotoPlaced DEF SendComplete, local
<1>3. m_sendOverlapped' \in [Slots -> Seq(Message)]
  BY DEF SendComplete, Types
<1>4. done' \in Seq(Message)
  BY DEF SendComplete, Types
<1> QED
  BY <1>2, <1>3, <1>4 DEF SendComplete, Types, session, pool, io, local, log

LEMMA FlagOffTypes ==
  ASSUME Types, NEW t \in Threads, FlagOff(t)
  PROVE  Types'
<1>1. PICK l \in {"recheck", "dec"} : Goto(t, l) /\ Allowed(t, l, call[t])
  BY Kinds, Destinations DEF FlagOff, Types, WorkerLabels, AcceptorLabels, ContentsLabels, WorkLabels, CallLabels, SendLabels, RecvLabels, DiscLabels, LockLabels
<1>2. pc' \in [Threads -> Labels] /\ Placed'
  BY <1>1, GotoPlaced DEF FlagOff, local
<1>3. m_flag' \in [Slots -> BOOLEAN]
  BY DEF FlagOff, Types
<1> QED
  BY <1>2, <1>3 DEF FlagOff, Types, session, pool, io, local, log

LEMMA RecheckTypes ==
  ASSUME Types, NEW t \in Threads, Recheck(t)
  PROVE  Types'
<1>1. PICK l \in {"dec", "flagOn"} : Goto(t, l) /\ Allowed(t, l, call[t])
  BY Kinds, Destinations DEF Recheck, Types, WorkerLabels, AcceptorLabels, ContentsLabels, WorkLabels, CallLabels, SendLabels, RecvLabels, DiscLabels, LockLabels
<1>2. pc' \in [Threads -> Labels] /\ Placed'
  BY <1>1, GotoPlaced DEF Recheck, local
<1> QED
  BY <1>2 DEF Recheck, Types, session, pool, io, local, log

LEMMA FlagOnTypes ==
  ASSUME Types, NEW t \in Threads, FlagOn(t)
  PROVE  Types'
<1>1. PICK l \in {"dec"} : Goto(t, l) /\ Allowed(t, l, call[t])
  BY Kinds, Destinations DEF FlagOn, Types, WorkerLabels, AcceptorLabels, ContentsLabels, WorkLabels, CallLabels, SendLabels, RecvLabels, DiscLabels, LockLabels
<1>2. pc' \in [Threads -> Labels] /\ Placed'
  BY <1>1, GotoPlaced DEF FlagOn, local
<1>3. m_ioCount' \in [Slots -> Int] /\ iocp' \in [Slots -> [Completions -> Nat]] /\ m_flag' \in [Slots -> BOOLEAN]
  BY PostSendType DEF FlagOn, Types
<1> QED
  BY <1>2, <1>3 DEF FlagOn, Types, session, pool, io, local, log

LEMMA SendLiveTypes ==
  ASSUME Types, NEW t \in Threads, SendLive(t)
  PROVE  Types'
<1>1. PICK l \in {"WSASend", "dec"} : Goto(t, l) /\ Allowed(t, l, call[t])
  BY Kinds, Destinations DEF SendLive, Types, WorkerLabels, AcceptorLabels, ContentsLabels, WorkLabels, CallLabels, SendLabels, RecvLabels, DiscLabels, LockLabels
<1>2. pc' \in [Threads -> Labels] /\ Placed'
  BY <1>1, GotoPlaced DEF SendLive, local
<1> QED
  BY <1>2 DEF SendLive, Types, session, pool, io, local, log

LEMMA OnReleaseTypes ==
  ASSUME Types, NEW t \in Threads, OnRelease(t)
  PROVE  Types'
<1>1. PICK l \in {"Push"} : Goto(t, l) /\ Allowed(t, l, call[t])
  BY Kinds, Destinations DEF OnRelease, Types, WorkerLabels, AcceptorLabels, ContentsLabels, WorkLabels, CallLabels, SendLabels, RecvLabels, DiscLabels, LockLabels
<1>2. pc' \in [Threads -> Labels] /\ Placed'
  BY <1>1, GotoPlaced DEF OnRelease, local
<1>3. released' \subseteq Slots \X Nat
  BY DEF OnRelease, Types
<1>4. m_sendBuffer' \in [Slots -> Seq(Message)] /\ m_sendOverlapped' \in [Slots -> Seq(Message)]
  BY DEF OnRelease, Types
<1>5. conn' \in [Slots -> {"none", "up", "reset", "lost"}]
  BY DEF OnRelease, Types
<1> QED
  BY <1>2, <1>3, <1>4, <1>5 DEF OnRelease, Types, session, pool, io, local, log

LEMMA PushIdxTypes ==
  ASSUME Types, NEW t \in Threads, PushIdx(t)
  PROVE  Types'
<1>1. PICK l \in {"GQCS"} : Goto(t, l) /\ Allowed(t, l, call[t])
  BY Kinds, Destinations DEF PushIdx, Types, WorkerLabels, AcceptorLabels, ContentsLabels, WorkLabels, CallLabels, SendLabels, RecvLabels, DiscLabels, LockLabels
<1>2. pc' \in [Threads -> Labels] /\ Placed'
  BY <1>1, GotoPlaced DEF PushIdx, local
<1>3. m_SessionIdxStack' \in Seq(Slots)
  BY StackType DEF PushIdx, Types
<1> QED
  BY <1>2, <1>3 DEF PushIdx, Types, session, pool, io, local, log

LEMMA SessionLockTypes ==
  ASSUME Types, NEW t \in Threads, SessionLock(t)
  PROVE  Types'
<1>1. PICK l \in {"idle", "lockUndo", "push"} : Goto(t, l) /\ Allowed(t, l, call[t])
  BY Kinds, Destinations DEF SessionLock, Types, WorkerLabels, AcceptorLabels, ContentsLabels, WorkLabels, CallLabels, SendLabels, RecvLabels, DiscLabels, LockLabels
<1>2. pc' \in [Threads -> Labels] /\ Placed'
  BY <1>1, GotoPlaced DEF SessionLock, local
<1>3. m_ioCount' \in [Slots -> Int]
  BY DEF SessionLock, Add, Types
<1> QED
  BY <1>2, <1>3 DEF SessionLock, Types, session, pool, io, local, log

LEMMA LockUndoTypes ==
  ASSUME Types, NEW t \in Threads, LockUndo(t)
  PROVE  Types'
<1>1. PICK l \in {"CAS"} : Goto(t, l) /\ Allowed(t, l, call[t])
  BY Kinds, Destinations DEF LockUndo, Types, WorkerLabels, AcceptorLabels, ContentsLabels, WorkLabels, CallLabels, SendLabels, RecvLabels, DiscLabels, LockLabels
<1>2. pc' \in [Threads -> Labels] /\ Placed'
  BY <1>1, GotoPlaced DEF LockUndo, local
<1>3. m_ioCount' \in [Slots -> Int]
  BY DEF LockUndo, Add, Types
<1> QED
  BY <1>2, <1>3 DEF LockUndo, Types, session, pool, io, local, log

LEMMA PostTypes ==
  ASSUME Types, NEW t \in Threads, Post(t)
  PROVE  Types'
<1>1. PICK l \in {"limit"} : Goto(t, l) /\ Allowed(t, l, call[t])
  BY Kinds, Destinations DEF Post, Types, WorkerLabels, AcceptorLabels, ContentsLabels, WorkLabels, CallLabels, SendLabels, RecvLabels, DiscLabels, LockLabels
<1>2. pc' \in [Threads -> Labels] /\ Placed'
  BY <1>1, GotoPlaced DEF Post, local
<1>3. m_ioCount' \in [Slots -> Int] /\ iocp' \in [Slots -> [Completions -> Nat]] /\ m_flag' \in [Slots -> BOOLEAN]
  BY PostSendType DEF Post, Types
<1> QED
  BY <1>2, <1>3 DEF Post, Types, session, pool, io, local, log

LEMMA LimitTypes ==
  ASSUME Types, NEW t \in Threads, Limit(t)
  PROVE  Types'
<1>1. PICK l \in {"Disconnect", "SessionUnLock"} : Goto(t, l) /\ Allowed(t, l, call[t])
  BY Kinds, Destinations DEF Limit, Types, WorkerLabels, AcceptorLabels, ContentsLabels, WorkLabels, CallLabels, SendLabels, RecvLabels, DiscLabels, LockLabels
<1>2. pc' \in [Threads -> Labels] /\ Placed'
  BY <1>1, GotoPlaced DEF Limit, local
<1> QED
  BY <1>2 DEF Limit, Types, session, pool, io, local, log

LEMMA SessionUnLockTypes ==
  ASSUME Types, NEW t \in Threads, SessionUnLock(t)
  PROVE  Types'
<1>1. PICK l \in {"CAS"} : Goto(t, l) /\ Allowed(t, l, call[t])
  BY Kinds, Destinations DEF SessionUnLock, Types, WorkerLabels, AcceptorLabels, ContentsLabels, WorkLabels, CallLabels, SendLabels, RecvLabels, DiscLabels, LockLabels
<1>2. pc' \in [Threads -> Labels] /\ Placed'
  BY <1>1, GotoPlaced DEF SessionUnLock, local
<1>3. m_ioCount' \in [Slots -> Int]
  BY DEF SessionUnLock, Add, Types
<1> QED
  BY <1>2, <1>3 DEF SessionUnLock, Types, session, pool, io, local, log

LEMMA DisconnectTypes ==
  ASSUME Types, NEW t \in Threads, Disconnect(t)
  PROVE  Types'
<1>1. PICK l \in {"dec", "SessionUnLock", "idle", "discMis", "discLive"} : Goto(t, l) /\ Allowed(t, l, call[t])
  BY Kinds, Destinations, LanServerAssumption DEF Disconnect, Types, Return, Calls, WorkerLabels, AcceptorLabels, ContentsLabels, WorkLabels, CallLabels, SendLabels, RecvLabels, DiscLabels, LockLabels
<1>2. pc' \in [Threads -> Labels] /\ Placed'
  BY <1>1, GotoPlaced DEF Disconnect, local
<1>3. m_ioCount' \in [Slots -> Int]
  BY DEF Disconnect, Add, Types
<1> QED
  BY <1>2, <1>3 DEF Disconnect, Types, session, pool, io, local, log

LEMMA DisconnectMismatchTypes ==
  ASSUME Types, NEW t \in Threads, DisconnectMismatch(t)
  PROVE  Types'
<1>1. PICK l \in {"dec", "SessionUnLock", "idle"} : Goto(t, l) /\ Allowed(t, l, call[t])
  BY Kinds, Destinations, LanServerAssumption DEF DisconnectMismatch, Types, Return, Calls, WorkerLabels, AcceptorLabels, ContentsLabels, WorkLabels, CallLabels, SendLabels, RecvLabels, DiscLabels, LockLabels
<1>2. pc' \in [Threads -> Labels] /\ Placed'
  BY <1>1, GotoPlaced DEF DisconnectMismatch, local
<1>3. m_ioCount' \in [Slots -> Int]
  BY DEF DisconnectMismatch, Add, Types
<1>4. orphaned' \subseteq Slots
  BY DEF DisconnectMismatch, Types
<1> QED
  BY <1>2, <1>3, <1>4 DEF DisconnectMismatch, Types, session, pool, io, local, log

LEMMA DisconnectLiveTypes ==
  ASSUME Types, NEW t \in Threads, DisconnectLive(t)
  PROVE  Types'
<1>1. PICK l \in {"discCancel"} : Goto(t, l) /\ Allowed(t, l, call[t])
  BY Kinds, Destinations DEF DisconnectLive, Types, WorkerLabels, AcceptorLabels, ContentsLabels, WorkLabels, CallLabels, SendLabels, RecvLabels, DiscLabels, LockLabels
<1>2. pc' \in [Threads -> Labels] /\ Placed'
  BY <1>1, GotoPlaced DEF DisconnectLive, local
<1>3. m_blive' \in [Slots -> BOOLEAN]
  BY DEF DisconnectLive, Types
<1> QED
  BY <1>2, <1>3 DEF DisconnectLive, Types, session, pool, io, local, log

LEMMA DisconnectCancelTypes ==
  ASSUME Types, NEW t \in Threads, DisconnectCancel(t)
  PROVE  Types'
<1>1. PICK l \in {"discDec"} : Goto(t, l) /\ Allowed(t, l, call[t])
  BY Kinds, Destinations DEF DisconnectCancel, Types, WorkerLabels, AcceptorLabels, ContentsLabels, WorkLabels, CallLabels, SendLabels, RecvLabels, DiscLabels, LockLabels
<1>2. pc' \in [Threads -> Labels] /\ Placed'
  BY <1>1, GotoPlaced DEF DisconnectCancel, local
<1>3. kernel' \in [Slots -> [Ops -> Nat]] /\ iocp' \in [Slots -> [Completions -> Nat]]
  BY Cancelled DEF DisconnectCancel, Types, Cancels
<1> QED
  BY <1>2, <1>3 DEF DisconnectCancel, Types, session, pool, io, local, log

LEMMA DisconnectDecTypes ==
  ASSUME Types, NEW t \in Threads, DisconnectDec(t)
  PROVE  Types'
<1>1. PICK l \in {"discCAS"} : Goto(t, l) /\ Allowed(t, l, call[t])
  BY Kinds, Destinations DEF DisconnectDec, Types, WorkerLabels, AcceptorLabels, ContentsLabels, WorkLabels, CallLabels, SendLabels, RecvLabels, DiscLabels, LockLabels
<1>2. pc' \in [Threads -> Labels] /\ Placed'
  BY <1>1, GotoPlaced DEF DisconnectDec, local
<1>3. m_ioCount' \in [Slots -> Int]
  BY DEF DisconnectDec, Add, Types
<1> QED
  BY <1>2, <1>3 DEF DisconnectDec, Types, session, pool, io, local, log

LEMMA DisconnectCASTypes ==
  ASSUME Types, NEW t \in Threads, DisconnectCAS(t)
  PROVE  Types'
<1>1. PICK l \in {"dec", "SessionUnLock", "idle"} : Goto(t, l) /\ Allowed(t, l, call[t])
  BY Kinds, Destinations, LanServerAssumption DEF DisconnectCAS, Types, Return, Calls, WorkerLabels, AcceptorLabels, ContentsLabels, WorkLabels, CallLabels, SendLabels, RecvLabels, DiscLabels, LockLabels
<1>2. pc' \in [Threads -> Labels] /\ Placed'
  BY <1>1, GotoPlaced DEF DisconnectCAS, local
<1>3. m_ioCount' \in [Slots -> Int] /\ iocp' \in [Slots -> [Completions -> Nat]]
  BY TryReleaseType DEF DisconnectCAS, Types
<1> QED
  BY <1>2, <1>3 DEF DisconnectCAS, Types, session, pool, io, local, log

\* A thread that changes its slot.
LEMMA GotoElsewhere ==
  ASSUME Types, NEW t \in Threads, NEW l, NEW op \in Calls, Goto(t, l), Allowed(t, l, op),
         call' = [call EXCEPT ![t] = op]
  PROVE  pc' \in [Threads -> Labels] /\ call' \in [Threads -> Calls] /\ Placed'
<1>1. l \in Labels
  BY AllowedLabel
<1>2. pc' = [pc EXCEPT ![t] = l] /\ pc \in [Threads -> Labels] /\ call \in [Threads -> Calls]
  BY DEF Types, Goto
<1>3. \A u \in Threads : Allowed(u, pc'[u], call'[u])
  <2> SUFFICES ASSUME NEW u \in Threads PROVE Allowed(u, pc'[u], call'[u])
    OBVIOUS
  <2>1. CASE u = t
    <3>1. pc'[u] = l /\ call'[u] = op
      BY <1>2, <2>1
    <3> QED
      BY <2>1, <3>1
  <2>2. CASE u # t
    <3>1. pc'[u] = pc[u] /\ call'[u] = call[u]
      BY <1>2, <2>2
    <3> QED
      BY <3>1 DEF Types, Placed
  <2> QED
    BY <2>1, <2>2
<1>4. Placed'
  BY <1>3 DEF Placed, Allowed
<1> QED
  BY <1>1, <1>2, <1>4

LEMMA AcceptSessionTypes ==
  ASSUME Types, NEW t \in Threads, AcceptSession(t)
  PROVE  Types'
<1>1. Goto(t, "accCount") /\ Allowed(t, "accCount", call[t])
  BY Destinations DEF AcceptSession, Types, AcceptorLabels
<1>2. pc' \in [Threads -> Labels] /\ Placed'
  BY <1>1, GotoPlaced DEF AcceptSession, local
<1> DEFINE s == Head(m_SessionIdxStack)
<1>3. s \in Slots /\ m_SessionIdxStack' \in Seq(Slots)
  BY StackType DEF AcceptSession, Types
<1>4. m_SeqID' \in [Slots -> Nat] /\ session_id' \in Nat
  BY DEF AcceptSession, Types
<1>5. m_blive' \in [Slots -> BOOLEAN] /\ m_flag' \in [Slots -> BOOLEAN]
      /\ conn' \in [Slots -> {"none", "up", "reset", "lost"}]
  BY DEF AcceptSession, Types
<1>6. ses' \in [Threads -> Slots] /\ orphaned' \subseteq Slots
  BY <1>3 DEF AcceptSession, Types
<1> QED
  BY <1>2, <1>3, <1>4, <1>5, <1>6 DEF AcceptSession, Types

LEMMA PopSendTypes ==
  ASSUME Types, NEW t \in Threads, PopSend(t)
  PROVE  Types'
<1>1. Goto(t, "sendLive") /\ Allowed(t, "sendLive", call[t])
  BY Kinds, Destinations DEF PopSend, Types, WorkerLabels, WorkLabels, SendLabels
<1>2. pc' \in [Threads -> Labels] /\ Placed'
  BY <1>1, GotoPlaced DEF PopSend, local
<1> DEFINE q == m_sendBuffer[ses[t]]
           n == IF Len(q) < SENDWSABUF_MAX THEN Len(q) ELSE SENDWSABUF_MAX
<1>3. q \in Seq(Message) /\ ses[t] \in Slots /\ SENDWSABUF_MAX \in Nat
  BY LanServerAssumption DEF Types
<1>4. n \in 0 .. Len(q)
  BY <1>3
<1>5. SubSeq(q, 1, n) \in Seq(Message) /\ SubSeq(q, n + 1, Len(q)) \in Seq(Message)
  BY <1>3, <1>4
<1>6. /\ m_sendOverlapped' = [m_sendOverlapped EXCEPT ![ses[t]] = SubSeq(q, 1, n)]
      /\ m_sendBuffer' = [m_sendBuffer EXCEPT ![ses[t]] = SubSeq(q, n + 1, Len(q))]
  BY <1>3 DEF PopSend, Types
<1>7. m_sendOverlapped' \in [Slots -> Seq(Message)] /\ m_sendBuffer' \in [Slots -> Seq(Message)]
  BY <1>5, <1>6 DEF Types
<1> QED
  BY <1>2, <1>7 DEF PopSend, Types, pool, io, local, log

LEMMA PushSendTypes ==
  ASSUME Types, NEW t \in Threads, PushSend(t)
  PROVE  Types'
<1>1. Goto(t, "post") /\ Allowed(t, "post", call[t])
  BY Kinds, Destinations DEF PushSend, Types, ContentsLabels, LockLabels
<1>2. pc' \in [Threads -> Labels] /\ Placed'
  BY <1>1, GotoPlaced DEF PushSend, local
<1> DEFINE m == [own |-> <<ses[t], id[t]>>, n |-> nMsgs]
<1>3. m \in Message
  BY DEF Types, Message
<1> DEFINE q == m_sendBuffer[ses[t]]
<1>4. q \in Seq(Message)
  BY DEF Types
<1>5. PICK i \in 1 .. Len(q) + 1 :
        m_sendBuffer' = [m_sendBuffer EXCEPT ![ses[t]] = SeqExt!InsertAt(q, i, m)]
  BY DEF PushSend, Types
<1>6. SeqExt!InsertAt(q, i, m) \in Seq(Message)
  BY <1>3, <1>4, InsertFacts
<1> HIDE DEF m, q
<1>7. m_sendBuffer' \in [Slots -> Seq(Message)]
  BY <1>5, <1>6 DEF Types
<1> QED
  BY <1>2, <1>7 DEF PushSend, Types, pool, io, local, log

LEMMA WSARecvTypes ==
  ASSUME Types, NEW t \in Threads, WSARecv(t)
  PROVE  Types'
<1>1. \A l \in CallLabel("recv") : Allowed(t, l, call[t])
  <2>1. t \in Workers \cup {Acceptor}
    BY Kinds DEF Types, WSARecv
  <2> QED
    BY <2>1, Destinations DEF Types, CallLabel, WorkerLabels, AcceptorLabels, WorkLabels
<1> QED
  BY <1>1, WSACallType DEF WSARecv, Ops

LEMMA WSASendTypes ==
  ASSUME Types, NEW t \in Threads, WSASend(t)
  PROVE  Types'
<1>1. \A l \in CallLabel("send") : Allowed(t, l, call[t])
  <2>1. t \in Workers
    BY Kinds DEF Types, WSASend, SendLabels
  <2> QED
    BY <2>1, Destinations DEF Types, CallLabel, WorkerLabels, WorkLabels
<1> QED
  BY <1>1, WSACallType DEF WSASend, Ops

LEMMA TakeCompletionTypes ==
  ASSUME Types, NEW w \in Workers, NEW s \in Slots, NEW c \in Completions, TakeCompletion(w, s, c)
  PROVE  Types'
<1> w \in Threads
  BY DEF Threads
<1>1. Goto(w, Entry(c)) /\ Allowed(w, Entry(c), call[w])
  BY Destinations DEF TakeCompletion, Types, WorkerLabels, WorkLabels, RecvLabels, SendLabels,
                      Entry, Completions
<1>2. pc' \in [Threads -> Labels] /\ Placed'
  BY <1>1, GotoPlaced DEF TakeCompletion
<1>3. iocp' \in [Slots -> [Completions -> Nat]]
  BY SlotCounters DEF TakeCompletion, Types
<1>4. ses' \in [Threads -> Slots]
  BY DEF TakeCompletion, Types
<1> QED
  BY <1>2, <1>3, <1>4 DEF TakeCompletion, Types, session, pool, log

LEMMA CallTypes ==
  ASSUME Types, NEW t \in Contents, NEW who \in accepted, NEW op \in Calls, Call(t, who, op)
  PROVE  Types'
<1> t \in Threads
  BY DEF Threads
<1>1. PICK l \in {"SessionLock", "Disconnect"} : Goto(t, l) /\ Allowed(t, l, op)
  BY DEF Call, Calls, Allowed, ContentsLabels, CallLabels, LockLabels
<1>2. call' = [call EXCEPT ![t] = op]
  BY DEF Call
<1>3. pc' \in [Threads -> Labels] /\ call' \in [Threads -> Calls] /\ Placed'
  BY <1>1, <1>2, GotoElsewhere
<1>4. who[1] \in Slots /\ who[2] \in Nat
  BY DEF Types
<1>5. ses' \in [Threads -> Slots] /\ id' \in [Threads -> Nat] /\ nMsgs' \in Nat
  BY <1>4 DEF Call, Types
<1> QED
  BY <1>3, <1>5 DEF Call, Types, session, pool, io

LEMMA KernelTypes ==
  ASSUME Types, NEW s \in Slots, KernelStep(s)
  PROVE  Types'
<1>1. CASE Reset(s)
  <2>1. conn' \in [Slots -> {"none", "up", "reset", "lost"}]
    BY <1>1 DEF Reset, Types
  <2>2. Placed'
    BY <1>1 DEF Reset, Types, Placed, Allowed, local
  <2> QED
    BY <1>1, <2>1, <2>2 DEF Reset, Types, session, pool, local, log
<1>2. ASSUME NEW k \in Ops, NEW c \in Completions, Complete(s, k, c) PROVE Types'
  <2>1. kernel' \in [Slots -> [Ops -> Nat]] /\ iocp' \in [Slots -> [Completions -> Nat]]
    BY <1>2, CompleteType
  <2>2. Placed'
    BY <1>2 DEF Complete, Types, Placed, Allowed, local
  <2> QED
    BY <1>2, <2>1, <2>2 DEF Complete, Types, session, pool, local, log
<1>3. "recv" \in Ops /\ "send" \in Ops /\ {"recv", "fin", "send"} \subseteq Completions
  BY DEF Ops, Completions
<1> QED
  BY <1>1, <1>2, <1>3 DEF KernelStep, Received, ReceiveEnds, Sent

LEMMA StutterTypes == Types /\ UNCHANGED vars => Types'
BY DEF vars, session, pool, io, local, log, Types, Placed, Allowed

\* Every action keeps the types.
LEMMA NextTypes == Types /\ [Next]_vars => Types'
<1> SUFFICES ASSUME Types, [Next]_vars PROVE Types'
  OBVIOUS
<1>1. ASSUME AcceptStep(Acceptor) PROVE Types'
  BY <1>1, AcceptSessionTypes, AcceptCountTypes, NoPortTypes, OnAcceptTypes DEF AcceptStep, Threads
<1>2. ASSUME NEW w \in Workers, WorkerStep(w) PROVE Types'
  BY <1>2, FinTypes, RecvCompleteTypes, SendCompleteTypes, FlagOffTypes, RecheckTypes,
     FlagOnTypes, PopSendTypes, SendLiveTypes, WSASendTypes, OnReleaseTypes, PushIdxTypes
  DEF WorkerStep, Threads
<1>3. ASSUME NEW t \in Threads, IoStep(t) PROVE Types'
  BY <1>3, RecvPacketTypes, WSARecvTypes, IoErrorTypes, IoPendingTypes, DecTypes, CASTypes,
     DisconnectTypes, DisconnectMismatchTypes, DisconnectLiveTypes, DisconnectCancelTypes,
     DisconnectDecTypes, DisconnectCASTypes
  DEF IoStep
<1>4. ASSUME NEW t \in Contents, SendStep(t) PROVE Types'
  BY <1>4, SessionLockTypes, LockUndoTypes, PushSendTypes, PostTypes, LimitTypes,
     SessionUnLockTypes
  DEF SendStep, Threads
<1> QED
  BY <1>1, <1>2, <1>3, <1>4, TakeCompletionTypes, CallTypes, KernelTypes, StutterTypes DEF Next

LEMMA TypesHold == Spec => []Types
BY InitTypes, NextTypes, PTL DEF Spec

-----------------------------------------------------------------------------
(***************************************************************************)
(* The reference count.  RefCount is not inductive by itself: a stale call *)
(* must find the release bit on a closed session, which takes that the     *)
(* count of an open one stays below the bit (so the references are         *)
(* bounded, Tokens and BitRoom), and that a slot which never had a client, *)
(* whose count is 0 without the bit, is unknown to everybody (Flagged).    *)
(***************************************************************************)

\* The release bit is out of reach of the references.
BitRoom == RELEASE > 3 + 3 * Cardinality(Threads)

\* Labels of threads that look at the count of a session they need not hold.
CasLabels == {"SessionLock", "Disconnect", "CAS", "discCAS"}

Holders      == Workers \cup {Acceptor}
HoldLabels   == WorkLabels \cup {"OnAccept"}
TwiceLabels  == {"recvError", "sendError"} \cup DiscLabels \cup LockLabels
ClosedLabels == {"accCount", "ReleaseComplete", "Push"}
RecvTokens   == RecvLabels \cup {"recvError", "OnAccept"}
SendTokens   == SendLabels \cup {"sendError"}
SeeLabels    == {"CAS", "discCAS"}

\* What the system, the port and the stack hold of slot s ...
OnStack(s)  == IF \E i \in DOMAIN m_SessionIdxStack : m_SessionIdxStack[i] = s THEN 1 ELSE 0
IoRecv(s)   == kernel[s].recv + iocp[s].recv + iocp[s].fin
IoSend(s)   == kernel[s].send + iocp[s].send
IoClosed(s) == OnStack(s) + iocp[s].release
Lost(s)     == IF conn[s] = "lost" THEN 1 ELSE 0

\* ... and what the threads hold.
Sending(s)       == {t \in At(Contents, CallLabels, s) : call[t] = "SendPacket"}
ThreadRefs(s)    == Count(Holders, HoldLabels, s) + Count(Threads, TwiceLabels, s)
                    + Cardinality(Sending(s))
ThreadsClosed(s) == Count(Threads, ClosedLabels, s)
ThreadsRecv(s)   == Count(Threads, RecvTokens, s)
ThreadsSend(s)   == Count(Threads, SendTokens, s)
Seers(s)         == Count(Threads, SeeLabels, s)

AllRefs(s) == IoRecv(s) + IoSend(s) + ThreadRefs(s) + Lost(s)
Places(s)  == IoClosed(s) + ThreadsClosed(s)

\* The inductive invariant for one slot.
Counted(s) == \/ Places(s) = 0 /\ m_ioCount[s] = AllRefs(s)
              \/ Places(s) = 1 /\ AllRefs(s) = 0

Flagged(s) ==
  Places(s) = 1 =>
    \/ RELEASE <= m_ioCount[s]
    \/ /\ m_ioCount[s] = 0
       /\ \A who \in accepted : who[1] # s
       /\ \A t \in Threads : ses[t] = s => pc[t] \notin CasLabels

\* A session that has lost its connection before it had a port never receives.
Tokens(s) == /\ IoRecv(s) + ThreadsRecv(s) + Lost(s) <= 1
             /\ IoSend(s) + ThreadsSend(s) <= IF m_flag[s] THEN 1 ELSE 0

Seen(s) == Places(s) = 0 /\ m_ioCount[s] = 0 /\ s \notin orphaned => Seers(s) > 0

SlotInv(s) == Counted(s) /\ Flagged(s) /\ Tokens(s) /\ Seen(s)

OneTime == \A i, j \in DOMAIN m_SessionIdxStack :
             m_SessionIdxStack[i] = m_SessionIdxStack[j] => i = j

IInv == Types /\ OneTime /\ \A s \in Slots : SlotInv(s)

-----------------------------------------------------------------------------
(* Counting threads. *)

In(b) == IF b THEN 1 ELSE 0

LEMMA FiniteSubset ==
  ASSUME NEW T \in SUBSET Threads
  PROVE  IsFiniteSet(T) /\ Cardinality(T) \in Nat /\ Cardinality(T) <= Cardinality(Threads)
<1>1. IsFiniteSet(Threads)
  <2>1. IsFiniteSet({Acceptor})
    BY FS_Singleton
  <2>2. IsFiniteSet(Workers \cup {Acceptor})
    BY <2>1, LanServerAssumption, FS_Union
  <2> QED
    BY <2>2, LanServerAssumption, FS_Union DEF Threads
<1> QED
  BY <1>1, FS_Subset, FS_CardinalityType

LEMMA FiniteAt ==
  ASSUME NEW T \in SUBSET Threads, NEW L, NEW s
  PROVE  /\ IsFiniteSet(At(T, L, s))
         /\ Count(T, L, s) \in Nat /\ Count(T, L, s) <= Cardinality(Threads)
<1>1. At(T, L, s) \in SUBSET Threads
  BY DEF At
<1> QED
  BY <1>1, FiniteSubset DEF Count

\* More labels and more threads at them.
LEMMA SubCount ==
  ASSUME NEW T \in SUBSET Threads, NEW U \in SUBSET T, NEW L, NEW M, L \subseteq M, NEW s
  PROVE  Count(U, L, s) <= Count(T, M, s)
<1>1. At(U, L, s) \subseteq At(T, M, s)
  BY DEF At
<1> QED
  BY <1>1, FiniteAt, FS_Subset DEF Count

\* Two sets that differ in t at most.
LEMMA SetStep ==
  ASSUME NEW A, NEW B, NEW t, IsFiniteSet(A), IsFiniteSet(B), A \ {t} = B \ {t}
  PROVE  /\ Cardinality(A) \in Nat /\ Cardinality(B) \in Nat
         /\ Cardinality(A) >= In(t \in A)
         /\ Cardinality(B) = Cardinality(A) - In(t \in A) + In(t \in B)
<1>1. Cardinality(A) \in Nat /\ Cardinality(B) \in Nat
  BY FS_CardinalityType
<1>2. /\ Cardinality(A \ {t}) = IF t \in A THEN Cardinality(A) - 1 ELSE Cardinality(A)
      /\ Cardinality(B \ {t}) = IF t \in B THEN Cardinality(B) - 1 ELSE Cardinality(B)
  BY FS_RemoveElement
<1>3. Cardinality(A \ {t}) \in Nat
  BY FS_RemoveElement, FS_CardinalityType
<1> QED
  BY <1>1, <1>2, <1>3 DEF In

\* Thread t is the only one that moves.
Moves(t) == \A u \in Threads : u # t => pc'[u] = pc[u] /\ ses'[u] = ses[u] /\ call'[u] = call[u]

\* The count of threads T at L on s changes by what t was and is.
CountStep(T, L, t, s) ==
  /\ Count(T, L, s) \in Nat /\ Count(T, L, s)' \in Nat
  /\ Count(T, L, s) >= In(t \in T /\ ses[t] = s /\ pc[t] \in L)
  /\ Count(T, L, s)' = Count(T, L, s) - In(t \in T /\ ses[t] = s /\ pc[t] \in L)
                                      + In(t \in T /\ ses'[t] = s /\ pc'[t] \in L)

LEMMA Move ==
  ASSUME NEW t \in Threads, Moves(t), NEW T \in SUBSET Threads, NEW L, NEW s
  PROVE  CountStep(T, L, t, s)
<1> DEFINE A == At(T, L, s)
           B == {u \in T : ses'[u] = s /\ pc'[u] \in L}
<1>1. IsFiniteSet(A) /\ Count(T, L, s) = Cardinality(A)
  BY FiniteAt DEF Count
<1>2. B \in SUBSET Threads /\ Count(T, L, s)' = Cardinality(B)
  BY DEF Count, At
<1>3. IsFiniteSet(B)
  BY <1>2, FiniteSubset
<1>4. A \ {t} = B \ {t}
  BY DEF At, Moves
<1>5. /\ (t \in A) = (t \in T /\ ses[t] = s /\ pc[t] \in L)
      /\ (t \in B) = (t \in T /\ ses'[t] = s /\ pc'[t] \in L)
  BY DEF At
<1> HIDE DEF A, B
<1>6. /\ Cardinality(A) \in Nat /\ Cardinality(B) \in Nat
      /\ Cardinality(A) >= In(t \in A)
      /\ Cardinality(B) = Cardinality(A) - In(t \in A) + In(t \in B)
  BY <1>1, <1>3, <1>4, SetStep
<1> QED
  BY <1>1, <1>2, <1>5, <1>6 DEF CountStep

\* Thread t, in call op at label l, is a sender in a Disconnect.
Sends(t, l, op) == t \in Contents /\ l \in CallLabels /\ op = "SendPacket"

LEMMA MoveSending ==
  ASSUME NEW t \in Threads, Moves(t), NEW s
  PROVE  /\ Cardinality(Sending(s)) \in Nat /\ Cardinality(Sending(s)') \in Nat
         /\ Cardinality(Sending(s)) >= In(ses[t] = s /\ Sends(t, pc[t], call[t]))
         /\ Cardinality(Sending(s)') = Cardinality(Sending(s))
              - In(ses[t] = s /\ Sends(t, pc[t], call[t]))
              + In(ses'[t] = s /\ Sends(t, pc'[t], call'[t]))
<1> DEFINE A == Sending(s)
           B == {u \in Contents : ses'[u] = s /\ pc'[u] \in CallLabels /\ call'[u] = "SendPacket"}
<1>1. A \in SUBSET Threads /\ B \in SUBSET Threads /\ Sending(s)' = B
  BY DEF Sending, At, Threads
<1>2. IsFiniteSet(A) /\ IsFiniteSet(B)
  BY <1>1, FiniteSubset
<1>3. A \ {t} = B \ {t}
  BY DEF Sending, At, Moves, Threads
<1>4. /\ (t \in A) = (ses[t] = s /\ Sends(t, pc[t], call[t]))
      /\ (t \in B) = (ses'[t] = s /\ Sends(t, pc'[t], call'[t]))
  BY DEF Sending, At, Sends
<1> HIDE DEF A, B
<1>5. /\ Cardinality(A) \in Nat /\ Cardinality(B) \in Nat
      /\ Cardinality(A) >= In(t \in A)
      /\ Cardinality(B) = Cardinality(A) - In(t \in A) + In(t \in B)
  BY <1>2, <1>3, SetStep
<1>6. A = Sending(s)
  BY DEF A
<1> QED
  BY <1>1, <1>4, <1>5, <1>6

-----------------------------------------------------------------------------
(* What one thread holds. *)

RefW(t, l, op) == In(t \in Holders /\ l \in HoldLabels) + In(l \in TwiceLabels)
                  + In(Sends(t, l, op))
ClosedW(l) == In(l \in ClosedLabels)
RecvW(l)   == In(l \in RecvTokens)
SendW(l)   == In(l \in SendTokens)
SeerW(l)   == In(l \in SeeLabels)

On(b, n) == IF b THEN n ELSE 0

SlotNats(s) ==
  /\ IoRecv(s) \in Nat /\ IoSend(s) \in Nat /\ IoClosed(s) \in Nat
  /\ Lost(s) \in {0, 1} /\ OnStack(s) \in {0, 1} /\ m_ioCount[s] \in Int
  /\ ThreadRefs(s) \in Nat /\ ThreadsClosed(s) \in Nat /\ ThreadsRecv(s) \in Nat
  /\ ThreadsSend(s) \in Nat /\ Seers(s) \in Nat

LEMMA AllNats == Types => \A s \in Slots : SlotNats(s)
<1> SUFFICES ASSUME Types, NEW s \in Slots PROVE SlotNats(s)
  OBVIOUS
<1>1. Holders \in SUBSET Threads /\ Threads \in SUBSET Threads /\ Sending(s) \in SUBSET Threads
  BY DEF Threads, Holders, Sending, At
<1>2. /\ Count(Holders, HoldLabels, s) \in Nat /\ Count(Threads, TwiceLabels, s) \in Nat
      /\ Count(Threads, ClosedLabels, s) \in Nat /\ Count(Threads, RecvTokens, s) \in Nat
      /\ Count(Threads, SendTokens, s) \in Nat /\ Count(Threads, SeeLabels, s) \in Nat
      /\ Cardinality(Sending(s)) \in Nat
  BY <1>1, FiniteAt, FiniteSubset
<1>3. OnStack(s) \in {0, 1} /\ Lost(s) \in {0, 1} /\ m_ioCount[s] \in Int
  BY DEF OnStack, Lost, Types
<1>4. FieldsOK(s)
  BY FieldNats
<1>5. /\ ThreadRefs(s) \in Nat /\ ThreadsClosed(s) \in Nat /\ ThreadsRecv(s) \in Nat
      /\ ThreadsSend(s) \in Nat /\ Seers(s) \in Nat
  BY <1>2 DEF ThreadRefs, ThreadsClosed, ThreadsRecv, ThreadsSend, Seers
<1>6. IoRecv(s) \in Nat /\ IoSend(s) \in Nat /\ IoClosed(s) \in Nat
  BY <1>3, <1>4 DEF FieldsOK, IoRecv, IoSend, IoClosed
<1> QED
  BY <1>3, <1>5, <1>6 DEF SlotNats

LEMMA AllNatsNext == Types' => \A s \in Slots : SlotNats(s)'
<1>1. (Types => \A s \in Slots : SlotNats(s))'
  BY AllNats, PTL
<1> QED
  BY <1>1

\* What the threads hold of s when thread t alone moves, and what t held.
Weighs(t, s) ==
  /\ ThreadRefs(s)' = ThreadRefs(s) - On(ses[t] = s, RefW(t, pc[t], call[t]))
                                    + On(ses'[t] = s, RefW(t, pc'[t], call'[t]))
  /\ ThreadsClosed(s)' = ThreadsClosed(s) - On(ses[t] = s, ClosedW(pc[t]))
                                          + On(ses'[t] = s, ClosedW(pc'[t]))
  /\ ThreadsRecv(s)' = ThreadsRecv(s) - On(ses[t] = s, RecvW(pc[t]))
                                      + On(ses'[t] = s, RecvW(pc'[t]))
  /\ ThreadsSend(s)' = ThreadsSend(s) - On(ses[t] = s, SendW(pc[t]))
                                      + On(ses'[t] = s, SendW(pc'[t]))
  /\ Seers(s)' = Seers(s) - On(ses[t] = s, SeerW(pc[t])) + On(ses'[t] = s, SeerW(pc'[t]))

Holds(t, s) ==
  /\ ThreadRefs(s) >= On(ses[t] = s, RefW(t, pc[t], call[t]))
  /\ ThreadsClosed(s) >= On(ses[t] = s, ClosedW(pc[t]))
  /\ ThreadsRecv(s) >= On(ses[t] = s, RecvW(pc[t]))
  /\ ThreadsSend(s) >= On(ses[t] = s, SendW(pc[t]))

LEMMA Weighed ==
  ASSUME NEW t \in Threads, Moves(t), NEW s \in Slots
  PROVE  Weighs(t, s) /\ Holds(t, s)
<1>1. Holders \in SUBSET Threads /\ Threads \in SUBSET Threads
  BY DEF Threads, Holders
<1>2. CountStep(Holders, HoldLabels, t, s) /\ CountStep(Threads, TwiceLabels, t, s)
  BY <1>1, Move
<1>3. CountStep(Threads, ClosedLabels, t, s) /\ CountStep(Threads, RecvTokens, t, s)
  BY <1>1, Move
<1>4. CountStep(Threads, SendTokens, t, s) /\ CountStep(Threads, SeeLabels, t, s)
  BY <1>1, Move
<1>5. /\ Cardinality(Sending(s)) \in Nat /\ Cardinality(Sending(s)') \in Nat
      /\ Cardinality(Sending(s)) >= In(ses[t] = s /\ Sends(t, pc[t], call[t]))
      /\ Cardinality(Sending(s)') = Cardinality(Sending(s))
           - In(ses[t] = s /\ Sends(t, pc[t], call[t]))
           + In(ses'[t] = s /\ Sends(t, pc'[t], call'[t]))
  BY MoveSending
<1>6. ThreadRefs(s)' = ThreadRefs(s) - On(ses[t] = s, RefW(t, pc[t], call[t]))
                                     + On(ses'[t] = s, RefW(t, pc'[t], call'[t]))
  <2> DEFINE a == Count(Holders, HoldLabels, s)
             b == Count(Threads, TwiceLabels, s)
  <2>1. ThreadRefs(s)' = a' + b' + Cardinality(Sending(s)')
    BY DEF ThreadRefs
  <2>2. ThreadRefs(s) = a + b + Cardinality(Sending(s))
    BY DEF ThreadRefs
  <2> HIDE DEF a, b
  <2>3. /\ a \in Nat /\ a' \in Nat /\ b \in Nat /\ b' \in Nat
        /\ a' = a - In(t \in Holders /\ ses[t] = s /\ pc[t] \in HoldLabels)
                  + In(t \in Holders /\ ses'[t] = s /\ pc'[t] \in HoldLabels)
        /\ b' = b - In(t \in Threads /\ ses[t] = s /\ pc[t] \in TwiceLabels)
                  + In(t \in Threads /\ ses'[t] = s /\ pc'[t] \in TwiceLabels)
    BY <1>2 DEF CountStep, a, b
  <2>4. On(ses[t] = s, RefW(t, pc[t], call[t])) =
          In(t \in Holders /\ ses[t] = s /\ pc[t] \in HoldLabels)
          + In(t \in Threads /\ ses[t] = s /\ pc[t] \in TwiceLabels)
          + In(ses[t] = s /\ Sends(t, pc[t], call[t]))
    BY DEF On, RefW, In
  <2>5. On(ses'[t] = s, RefW(t, pc'[t], call'[t])) =
          In(t \in Holders /\ ses'[t] = s /\ pc'[t] \in HoldLabels)
          + In(t \in Threads /\ ses'[t] = s /\ pc'[t] \in TwiceLabels)
          + In(ses'[t] = s /\ Sends(t, pc'[t], call'[t]))
    BY DEF On, RefW, In
  <2>6. \A bool : In(bool) \in Nat
    BY DEF In
  <2> QED
    BY <1>5, <2>1, <2>2, <2>3, <2>4, <2>5, <2>6
<1>7. ThreadRefs(s) >= On(ses[t] = s, RefW(t, pc[t], call[t]))
  BY <1>2, <1>5 DEF CountStep, ThreadRefs, RefW, In, On
<1>8. /\ ThreadsClosed(s)' = ThreadsClosed(s) - On(ses[t] = s, ClosedW(pc[t]))
                                              + On(ses'[t] = s, ClosedW(pc'[t]))
      /\ ThreadsRecv(s)' = ThreadsRecv(s) - On(ses[t] = s, RecvW(pc[t]))
                                          + On(ses'[t] = s, RecvW(pc'[t]))
      /\ ThreadsClosed(s) >= On(ses[t] = s, ClosedW(pc[t]))
      /\ ThreadsRecv(s) >= On(ses[t] = s, RecvW(pc[t]))
  BY <1>3 DEF CountStep, ThreadsClosed, ThreadsRecv, ClosedW, RecvW, In, On
<1>9. /\ ThreadsSend(s)' = ThreadsSend(s) - On(ses[t] = s, SendW(pc[t]))
                                          + On(ses'[t] = s, SendW(pc'[t]))
      /\ Seers(s)' = Seers(s) - On(ses[t] = s, SeerW(pc[t])) + On(ses'[t] = s, SeerW(pc'[t]))
      /\ ThreadsSend(s) >= On(ses[t] = s, SendW(pc[t]))
  BY <1>4 DEF CountStep, ThreadsSend, Seers, SendW, SeerW, In, On
<1> QED
  BY <1>6, <1>7, <1>8, <1>9 DEF Weighs, Holds

\* The threads that receive or send on s refer to it.
LEMMA Included ==
  ASSUME Types, NEW s \in Slots
  PROVE  ThreadsRecv(s) <= ThreadRefs(s) /\ ThreadsSend(s) <= ThreadRefs(s)
<1>1. Holders \in SUBSET Threads /\ Threads \in SUBSET Threads /\ Sending(s) \in SUBSET Threads
  BY DEF Threads, Holders, Sending, At
<1>2. /\ At(Threads, RecvTokens, s) \subseteq At(Holders, HoldLabels, s)
      /\ At(Threads, SendTokens, s) \subseteq At(Holders, HoldLabels, s)
  BY DEF At, Types, Placed, Allowed, Holders, HoldLabels, RecvTokens, SendTokens, RecvLabels,
         SendLabels, WorkLabels, ContentsLabels, CallLabels, DiscLabels, LockLabels
<1>3. /\ Cardinality(At(Threads, RecvTokens, s)) <= Cardinality(At(Holders, HoldLabels, s))
      /\ Cardinality(At(Threads, SendTokens, s)) <= Cardinality(At(Holders, HoldLabels, s))
  BY <1>1, <1>2, FiniteAt, FS_Subset
<1>4. /\ Count(Holders, HoldLabels, s) \in Nat /\ Count(Threads, TwiceLabels, s) \in Nat
      /\ Cardinality(Sending(s)) \in Nat
      /\ Count(Threads, RecvTokens, s) \in Nat /\ Count(Threads, SendTokens, s) \in Nat
  BY <1>1, FiniteAt, FiniteSubset
<1> QED
  BY <1>3, <1>4 DEF Count, ThreadRefs, ThreadsRecv, ThreadsSend

\* The references stay below the release bit.
LEMMA CountInRange ==
  ASSUME BitRoom, Types, NEW s \in Slots, SlotInv(s)
  PROVE  /\ Places(s) \in {0, 1}
         /\ AllRefs(s) \in Nat /\ AllRefs(s) + 1 < RELEASE
         /\ Places(s) = 0 => m_ioCount[s] = AllRefs(s)
         /\ Places(s) = 1 => AllRefs(s) = 0
         /\ m_ioCount[s] >= 0
<1>1. SlotNats(s)
  BY AllNats
<1>2. Holders \in SUBSET Threads /\ Threads \in SUBSET Threads /\ Sending(s) \in SUBSET Threads
  BY DEF Threads, Holders, Sending, At
<1>3. /\ Count(Holders, HoldLabels, s) <= Cardinality(Threads)
      /\ Count(Threads, TwiceLabels, s) <= Cardinality(Threads)
      /\ Cardinality(Sending(s)) <= Cardinality(Threads)
      /\ Count(Holders, HoldLabels, s) \in Nat /\ Count(Threads, TwiceLabels, s) \in Nat
      /\ Cardinality(Sending(s)) \in Nat /\ Cardinality(Threads) \in Nat
  BY <1>2, FiniteAt, FiniteSubset
<1>4. ThreadRefs(s) <= 3 * Cardinality(Threads)
  BY <1>3 DEF ThreadRefs
<1>5. IoRecv(s) + Lost(s) <= 1 /\ IoSend(s) <= 1
  BY <1>1 DEF SlotInv, Tokens, SlotNats
<1>6. RELEASE \in Nat
  BY LanServerAssumption
<1>7. AllRefs(s) \in Nat /\ AllRefs(s) + 1 < RELEASE
  BY <1>1, <1>3, <1>4, <1>5, <1>6 DEF AllRefs, SlotNats, BitRoom
<1>8. /\ Places(s) \in {0, 1}
      /\ Places(s) = 0 => m_ioCount[s] = AllRefs(s)
      /\ Places(s) = 1 => AllRefs(s) = 0
  BY <1>7 DEF SlotInv, Counted
<1> QED
  BY <1>1, <1>6, <1>7, <1>8 DEF SlotInv, Flagged, SlotNats

-----------------------------------------------------------------------------
(* One step, slot by slot. *)

\* Slot o keeps everything but its threads.
Same(o) == /\ m_ioCount'[o] = m_ioCount[o] /\ m_flag'[o] = m_flag[o]
           /\ kernel'[o] = kernel[o] /\ iocp'[o] = iocp[o]
           /\ OnStack(o)' = OnStack(o) /\ Lost(o)' = Lost(o)
           /\ (o \in orphaned') = (o \in orphaned)

Unbound == {"GQCS", "accept", "idle"}

LEMMA UnboundWeight ==
  ASSUME NEW t, NEW l \in Unbound, NEW op
  PROVE  /\ RefW(t, l, op) = 0 /\ ClosedW(l) = 0 /\ RecvW(l) = 0
         /\ SendW(l) = 0 /\ SeerW(l) = 0 /\ l \notin CasLabels
<1>1. /\ l \notin HoldLabels /\ l \notin TwiceLabels /\ l \notin CallLabels
      /\ l \notin ClosedLabels /\ l \notin RecvTokens /\ l \notin SendTokens
      /\ l \notin SeeLabels /\ l \notin CasLabels
  BY DEF Unbound, HoldLabels, TwiceLabels, CallLabels, DiscLabels, LockLabels, WorkLabels,
         ClosedLabels, RecvTokens, SendTokens, RecvLabels, SendLabels, SeeLabels, CasLabels
<1> QED
  BY <1>1 DEF RefW, ClosedW, RecvW, SendW, SeerW, In, Sends

\* A slot whose threads keep what they hold keeps its part of the invariant.
LEMMA Elsewhere ==
  ASSUME Types, Types', NEW t \in Threads, Moves(t), NEW o \in Slots, SlotInv(o), Same(o),
         ses[t] = o => pc[t] \in Unbound,
         ses'[t] = o => pc'[t] \in Unbound,
         \A who \in accepted' : who \in accepted \/ who[1] # o
  PROVE  SlotInv(o)'
<1>1. Weighs(t, o)
  BY Weighed
<1>2. SlotNats(o)
  BY AllNats
<1>3. /\ On(ses[t] = o, RefW(t, pc[t], call[t])) = 0
      /\ On(ses'[t] = o, RefW(t, pc'[t], call'[t])) = 0
      /\ On(ses[t] = o, ClosedW(pc[t])) = 0 /\ On(ses'[t] = o, ClosedW(pc'[t])) = 0
      /\ On(ses[t] = o, RecvW(pc[t])) = 0 /\ On(ses'[t] = o, RecvW(pc'[t])) = 0
      /\ On(ses[t] = o, SendW(pc[t])) = 0 /\ On(ses'[t] = o, SendW(pc'[t])) = 0
      /\ On(ses[t] = o, SeerW(pc[t])) = 0 /\ On(ses'[t] = o, SeerW(pc'[t])) = 0
  BY UnboundWeight DEF On
<1>4. /\ ThreadRefs(o)' = ThreadRefs(o) /\ ThreadsClosed(o)' = ThreadsClosed(o)
      /\ ThreadsRecv(o)' = ThreadsRecv(o) /\ ThreadsSend(o)' = ThreadsSend(o)
      /\ Seers(o)' = Seers(o)
  BY <1>1, <1>2, <1>3 DEF Weighs, SlotNats
<1>5. IoRecv(o)' = IoRecv(o) /\ IoSend(o)' = IoSend(o) /\ IoClosed(o)' = IoClosed(o)
  BY DEF IoRecv, IoSend, IoClosed, Same
<1>6. AllRefs(o)' = AllRefs(o) /\ Places(o)' = Places(o)
  BY <1>4, <1>5 DEF AllRefs, Places, Same
<1>7. Counted(o)' /\ Tokens(o)' /\ Seen(o)'
  BY <1>4, <1>5, <1>6 DEF SlotInv, Counted, Tokens, Seen, Same
<1>8. Flagged(o)'
  <2> SUFFICES ASSUME Places(o) = 1, ~(RELEASE <= m_ioCount'[o])
               PROVE  /\ m_ioCount'[o] = 0
                      /\ \A who \in accepted' : who[1] # o
                      /\ \A u \in Threads : ses'[u] = o => pc'[u] \notin CasLabels
    BY <1>6 DEF Flagged
  <2>1. /\ m_ioCount[o] = 0
        /\ \A who \in accepted : who[1] # o
        /\ \A u \in Threads : ses[u] = o => pc[u] \notin CasLabels
    BY DEF SlotInv, Flagged, Same
  <2>2. ses'[t] = o => pc'[t] \notin CasLabels
    BY UnboundWeight
  <2> QED
    BY <2>1, <2>2 DEF Same, Moves
<1> QED
  BY <1>7, <1>8 DEF SlotInv

\* Thread t stays on slot s: what the slot holds changes by what t does.
Stays(t, s) ==
  /\ ThreadRefs(s)' = ThreadRefs(s) - RefW(t, pc[t], call[t]) + RefW(t, pc'[t], call[t])
  /\ ThreadsClosed(s)' = ThreadsClosed(s) - ClosedW(pc[t]) + ClosedW(pc'[t])
  /\ ThreadsRecv(s)' = ThreadsRecv(s) - RecvW(pc[t]) + RecvW(pc'[t])
  /\ ThreadsSend(s)' = ThreadsSend(s) - SendW(pc[t]) + SendW(pc'[t])
  /\ Seers(s)' = Seers(s) - SeerW(pc[t]) + SeerW(pc'[t])
  /\ ThreadRefs(s) >= RefW(t, pc[t], call[t]) /\ ThreadsClosed(s) >= ClosedW(pc[t])
  /\ ThreadsRecv(s) >= RecvW(pc[t]) /\ ThreadsSend(s) >= SendW(pc[t])

LEMMA Staying ==
  ASSUME NEW t \in Threads, Moves(t), NEW s \in Slots, ses[t] = s, ses'[t] = s,
         call'[t] = call[t]
  PROVE  Stays(t, s)
BY Weighed DEF Weighs, Holds, On, Stays

\* What a step of a thread on slot s leaves alone.
Local(t, s) == /\ Moves(t) /\ ses[t] = s /\ ses'[t] = s
               /\ \A o \in Slots : o # s => Same(o)
               /\ \A who \in accepted' : who \in accepted \/ who[1] = s
               /\ m_SessionIdxStack' = m_SessionIdxStack

LEMMA Packed ==
  ASSUME IInv, Types', NEW t \in Threads, NEW s \in Slots, Local(t, s), SlotInv(s)'
  PROVE  IInv'
<1>1. \A o \in Slots : SlotInv(o)'
  <2> SUFFICES ASSUME NEW o \in Slots, o # s PROVE SlotInv(o)'
    OBVIOUS
  <2>1. ses[t] # o /\ ses'[t] # o /\ Moves(t) /\ Same(o)
    BY DEF Local
  <2>2. \A who \in accepted' : who \in accepted \/ who[1] # o
    BY DEF Local
  <2> QED
    BY <2>1, <2>2, Elsewhere DEF IInv
<1>2. OneTime'
  BY DEF IInv, OneTime, Local
<1> QED
  BY <1>1, <1>2 DEF IInv

\* Thread t at label l holds r references, c places, rv receive tokens and sd
\* send tokens, and is sr times about to look at a count of 0.
Has(t, l, r, c, rv, sd, sr) ==
  RefW(t, l, call[t]) = r /\ ClosedW(l) = c /\ RecvW(l) = rv /\ SendW(l) = sd /\ SeerW(l) = sr

\* Labels at which a worker or the accept thread has one reference and no more.
PlainLabels == {"recheck", "flagOn", "recvPending", "sendPending", "dec", "Disconnect"}

LEMMA HolderHas ==
  ASSUME NEW t \in Holders
  PROVE  /\ \A l \in PlainLabels  : Has(t, l, 1, 0, 0, 0, 0)
         /\ \A l \in RecvLabels \cup {"OnAccept"} : Has(t, l, 1, 0, 1, 0, 0)
         /\ \A l \in SendLabels   : Has(t, l, 1, 0, 0, 1, 0)
         /\ \A l \in DiscLabels   : Has(t, l, 2, 0, 0, 0, 0)
         /\ \A l \in ClosedLabels : Has(t, l, 0, 1, 0, 0, 0)
         /\ \A l \in Unbound      : Has(t, l, 0, 0, 0, 0, 0)
         /\ Has(t, "discCAS", 1, 0, 0, 0, 1) /\ Has(t, "CAS", 0, 0, 0, 0, 1)
         /\ Has(t, "recvError", 2, 0, 1, 0, 0) /\ Has(t, "sendError", 2, 0, 0, 1, 0)
<1>1. \A l, op : ~Sends(t, l, op)
  BY LanServerAssumption DEF Sends, Holders
<1> USE <1>1 DEF Has, RefW, ClosedW, RecvW, SendW, SeerW, In, HoldLabels, TwiceLabels,
                 ClosedLabels, RecvTokens, SendTokens, SeeLabels, WorkLabels, CallLabels
<1>2. \A l \in PlainLabels : Has(t, l, 1, 0, 0, 0, 0)
  BY DEF PlainLabels, RecvLabels, SendLabels, DiscLabels, LockLabels
<1>3. \A l \in RecvLabels \cup {"OnAccept"} : Has(t, l, 1, 0, 1, 0, 0)
  BY DEF RecvLabels, SendLabels, DiscLabels, LockLabels
<1>4. \A l \in SendLabels : Has(t, l, 1, 0, 0, 1, 0)
  BY DEF RecvLabels, SendLabels, DiscLabels, LockLabels
<1>5. \A l \in DiscLabels : Has(t, l, 2, 0, 0, 0, 0)
  BY DEF RecvLabels, SendLabels, DiscLabels, LockLabels
<1>6. \A l \in ClosedLabels : Has(t, l, 0, 1, 0, 0, 0)
  BY DEF RecvLabels, SendLabels, DiscLabels, LockLabels
<1>7. \A l \in Unbound : Has(t, l, 0, 0, 0, 0, 0)
  BY UnboundWeight DEF Has
<1>8. Has(t, "discCAS", 1, 0, 0, 0, 1) /\ Has(t, "CAS", 0, 0, 0, 0, 1)
  BY DEF RecvLabels, SendLabels, DiscLabels, LockLabels
<1>9. Has(t, "recvError", 2, 0, 1, 0, 0) /\ Has(t, "sendError", 2, 0, 0, 1, 0)
  BY DEF RecvLabels, SendLabels, DiscLabels, LockLabels
<1> QED
  BY <1>2, <1>3, <1>4, <1>5, <1>6, <1>7, <1>8, <1>9

\* A call of SendPacket has a reference while it is in Disconnect.
Own(t) == In(call[t] = "SendPacket")

LEMMA ContentsHas ==
  ASSUME NEW t \in Contents
  PROVE  /\ \A l \in LockLabels : Has(t, l, 1, 0, 0, 0, 0)
         /\ \A l \in DiscLabels : Has(t, l, Own(t) + 1, 0, 0, 0, 0)
         /\ \A l \in Unbound \cup {"SessionLock"} : Has(t, l, 0, 0, 0, 0, 0)
         /\ Has(t, "Disconnect", Own(t), 0, 0, 0, 0)
         /\ Has(t, "discCAS", Own(t), 0, 0, 0, 1) /\ Has(t, "CAS", 0, 0, 0, 0, 1)
         /\ Own(t) \in {0, 1}
<1>1. t \notin Holders /\ Own(t) \in {0, 1}
  BY LanServerAssumption DEF Holders, Own, In
<1> USE <1>1 DEF Has, RefW, ClosedW, RecvW, SendW, SeerW, In, TwiceLabels, Sends, Own,
                 ClosedLabels, RecvTokens, SendTokens, SeeLabels, CallLabels
<1>2. \A l \in LockLabels : Has(t, l, 1, 0, 0, 0, 0)
  BY DEF RecvLabels, SendLabels, DiscLabels, LockLabels
<1>3. \A l \in DiscLabels : Has(t, l, Own(t) + 1, 0, 0, 0, 0)
  BY DEF RecvLabels, SendLabels, DiscLabels, LockLabels
<1>4. \A l \in Unbound : Has(t, l, 0, 0, 0, 0, 0)
  BY UnboundWeight DEF Has
<1>5. Has(t, "SessionLock", 0, 0, 0, 0, 0) /\ Has(t, "Disconnect", Own(t), 0, 0, 0, 0)
  BY DEF RecvLabels, SendLabels, DiscLabels, LockLabels
<1>6. Has(t, "discCAS", Own(t), 0, 0, 0, 1) /\ Has(t, "CAS", 0, 0, 0, 0, 1)
  BY DEF RecvLabels, SendLabels, DiscLabels, LockLabels
<1> QED
  BY <1>1, <1>2, <1>3, <1>4, <1>5, <1>6

LEMMA WeightNats ==
  ASSUME NEW t, NEW l, NEW op
  PROVE  /\ RefW(t, l, op) \in Nat /\ ClosedW(l) \in Nat /\ RecvW(l) \in Nat
         /\ SendW(l) \in Nat /\ SeerW(l) \in Nat
BY DEF RefW, ClosedW, RecvW, SendW, SeerW, In

-----------------------------------------------------------------------------
(* Steps that do not change the count. *)

\* What SlotInv(s)' takes of slot s once the step is worked out in numbers.
LEMMA Settled ==
  ASSUME NEW s \in Slots, NEW r \in Nat, NEW c \in {0, 1},
         AllRefs(s)' = r, Places(s)' = c,
         c = 0 => m_ioCount'[s] = r, c = 1 => r = 0,
         c = 1 => RELEASE <= m_ioCount'[s],
         Tokens(s)',
         c = 0 /\ r = 0 => Seers(s)' > 0 \/ s \in orphaned'
  PROVE  SlotInv(s)'
<1>1. Counted(s)' /\ Flagged(s)' /\ Seen(s)'
  BY DEF Counted, Flagged, Seen
<1> QED
  BY <1>1 DEF SlotInv

\* What is known where thread t goes from its label to l on slot s.
Facts(t, s, l) ==
  /\ Moves(t) /\ ses[t] = s /\ ses'[t] = s /\ pc'[t] = l /\ s \in Slots
  /\ SlotInv(s) /\ SlotNats(s) /\ SlotNats(s)' /\ Stays(t, s)
  /\ Places(s) \in {0, 1} /\ AllRefs(s) \in Nat /\ AllRefs(s) + 1 < RELEASE
  /\ Places(s) = 0 => m_ioCount[s] = AllRefs(s)
  /\ Places(s) = 1 => AllRefs(s) = 0
  /\ m_ioCount[s] >= 0

LEMMA Going ==
  ASSUME Types, NEW t \in Threads, NEW l, Goto(t, l), UNCHANGED <<ses, call>>
  PROVE  Moves(t) /\ pc'[t] = l /\ ses'[t] = ses[t] /\ ses[t] \in Slots /\ call'[t] = call[t]
BY DEF Types, Goto, Moves

LEMMA Here ==
  ASSUME BitRoom, IInv, Types', NEW t \in Threads, NEW l, Goto(t, l), UNCHANGED <<ses, call>>
  PROVE  \E s \in Slots : Facts(t, s, l)
<1> PICK s \in Slots : s = ses[t]
  BY Going DEF IInv
<1>1. Moves(t) /\ ses[t] = s /\ ses'[t] = s /\ pc'[t] = l /\ call'[t] = call[t]
  BY Going DEF IInv
<1>2. SlotInv(s) /\ SlotNats(s) /\ SlotNats(s)' /\ Stays(t, s)
  BY <1>1, AllNats, AllNatsNext, Staying DEF IInv
<1>3. /\ Places(s) \in {0, 1} /\ AllRefs(s) \in Nat /\ AllRefs(s) + 1 < RELEASE
      /\ Places(s) = 0 => m_ioCount[s] = AllRefs(s)
      /\ Places(s) = 1 => AllRefs(s) = 0
      /\ m_ioCount[s] >= 0
  BY <1>2, CountInRange DEF IInv
<1> QED
  BY <1>1, <1>2, <1>3 DEF Facts

IoKept(s) == IoRecv(s)' = IoRecv(s) /\ IoSend(s)' = IoSend(s) /\ IoClosed(s)' = IoClosed(s)

\* At l thread t holds what it held, but perhaps no right to receive or send.
Lighter(t, l) ==
  /\ RefW(t, l, call[t]) = RefW(t, pc[t], call[t]) /\ ClosedW(l) = ClosedW(pc[t])
  /\ RecvW(l) <= RecvW(pc[t]) /\ SendW(l) <= SendW(pc[t]) /\ SeerW(l) = SeerW(pc[t])

\* A step of t that counts nothing anew.
LEMMA Quiet ==
  ASSUME BitRoom, IInv, Types', NEW t \in Threads, NEW s, NEW l, Facts(t, s, l), Local(t, s),
         Lighter(t, l), IoKept(s),
         m_ioCount'[s] = m_ioCount[s], m_flag'[s] = m_flag[s], Lost(s)' = Lost(s),
         orphaned' = orphaned,
         RefW(t, pc[t], call[t]) > 0 \/ (accepted' = accepted /\ l \notin CasLabels)
  PROVE  IInv'
<1>1. /\ RefW(t, pc[t], call[t]) \in Nat /\ ClosedW(pc[t]) \in Nat /\ RecvW(pc[t]) \in Nat
      /\ SendW(pc[t]) \in Nat /\ SeerW(pc[t]) \in Nat /\ RecvW(l) \in Nat /\ SendW(l) \in Nat
  BY WeightNats
<1>2. /\ ThreadRefs(s)' = ThreadRefs(s) /\ ThreadsClosed(s)' = ThreadsClosed(s)
      /\ ThreadsRecv(s)' <= ThreadsRecv(s) /\ ThreadsSend(s)' <= ThreadsSend(s)
      /\ Seers(s)' = Seers(s)
  BY <1>1 DEF Facts, Stays, SlotNats, Lighter
<1>3. AllRefs(s)' = AllRefs(s) /\ Places(s)' = Places(s)
  BY <1>2 DEF AllRefs, Places, IoKept
<1>4. Counted(s)' /\ Seen(s)'
  BY <1>2, <1>3 DEF Facts, SlotInv, Counted, Seen
<1>5. Tokens(s)'
  BY <1>2 DEF Facts, SlotInv, Tokens, SlotNats, IoKept
<1>6. Flagged(s)'
  <2>1. CASE RefW(t, pc[t], call[t]) > 0
    <3>1. AllRefs(s) > 0
      BY <1>1, <2>1 DEF Facts, Stays, AllRefs, SlotNats
    <3> QED
      BY <3>1, <1>3 DEF Facts, Flagged
  <2>2. CASE accepted' = accepted /\ l \notin CasLabels
    BY <2>2, <1>3 DEF Facts, SlotInv, Flagged, Moves
  <2> QED
    BY <2>1, <2>2
<1>7. SlotInv(s)'
  BY <1>4, <1>5, <1>6 DEF SlotInv
<1> QED
  BY <1>7, Packed DEF Facts

LEMMA CancelKeeps ==
  ASSUME Types, NEW s \in Slots, Cancels(s), m_SessionIdxStack' = m_SessionIdxStack
  PROVE  IoKept(s)
<1>1. FieldsOK(s)
  BY FieldNats
<1>2. /\ kernel'[s].recv \in Nat /\ kernel'[s].send \in Nat
      /\ iocp'[s].fin \in Nat /\ iocp'[s].send \in Nat
  BY DEF Cancels, Ops, Completions
<1>3. OnStack(s)' = OnStack(s)
  BY DEF OnStack
<1>4. IoRecv(s)' = IoRecv(s)
  <2>1. /\ iocp'[s].recv = iocp[s].recv /\ iocp[s].recv \in Nat
        /\ kernel[s].recv \in Nat /\ iocp[s].fin \in Nat
        /\ kernel'[s].recv + iocp'[s].fin = kernel[s].recv + iocp[s].fin
    BY <1>1 DEF Cancels, FieldsOK
  <2> QED
    BY <1>2, <2>1 DEF IoRecv
<1>5. IoSend(s)' = IoSend(s) /\ IoClosed(s)' = IoClosed(s)
  BY <1>3 DEF Cancels, IoSend, IoClosed
<1> QED
  BY <1>4, <1>5 DEF IoKept

LEMMA QuietStep ==
  ASSUME BitRoom, IInv, Types', NEW t \in Threads, NEW l, Goto(t, l), Lighter(t, l),
         UNCHANGED <<m_ioCount, m_flag, m_SessionIdxStack, conn, ses, call, orphaned>>,
         UNCHANGED <<kernel, iocp>> \/ Cancels(ses[t]),
         \A who \in accepted' : who \in accepted \/ who[1] = ses[t],
         RefW(t, pc[t], call[t]) > 0 \/ (accepted' = accepted /\ l \notin CasLabels)
  PROVE  IInv'
<1>1. PICK s \in Slots : Facts(t, s, l)
  BY Here
<1>2. ses[t] = s
  BY <1>1 DEF Facts
<1>3. IoKept(s) /\ \A o \in Slots : o # s => kernel'[o] = kernel[o] /\ iocp'[o] = iocp[o]
  <2>1. CASE UNCHANGED <<kernel, iocp>>
    BY <2>1 DEF IoKept, IoRecv, IoSend, IoClosed, OnStack
  <2>2. CASE Cancels(ses[t])
    BY <2>2, <1>2, CancelKeeps DEF IInv, Cancels
  <2> QED
    BY <2>1, <2>2
<1>4. \A o \in Slots : o # s => Same(o)
  BY <1>3 DEF Same, OnStack, Lost
<1>5. Local(t, s)
  BY <1>1, <1>2, <1>4 DEF Local, Facts
<1>6. Lost(s)' = Lost(s)
  BY DEF Lost
<1> QED
  BY <1>1, <1>3, <1>5, <1>6, Quiet

\* The steps of workers and the accept thread that QuietStep covers.
LEMMA HolderLighter ==
  ASSUME NEW t \in Holders, NEW l,
         \/ pc[t] \in PlainLabels /\ l \in PlainLabels
         \/ pc[t] \in RecvLabels \cup {"OnAccept"} /\ l \in RecvLabels \cup PlainLabels
         \/ pc[t] \in SendLabels /\ l \in SendLabels \cup PlainLabels
         \/ pc[t] \in DiscLabels /\ l \in DiscLabels
  PROVE  Lighter(t, l) /\ RefW(t, pc[t], call[t]) > 0
<1>1. \/ Has(t, pc[t], 1, 0, 0, 0, 0) /\ Has(t, l, 1, 0, 0, 0, 0)
      \/ Has(t, pc[t], 1, 0, 1, 0, 0) /\ Has(t, l, 1, 0, 1, 0, 0)
      \/ Has(t, pc[t], 1, 0, 1, 0, 0) /\ Has(t, l, 1, 0, 0, 0, 0)
      \/ Has(t, pc[t], 1, 0, 0, 1, 0) /\ Has(t, l, 1, 0, 0, 1, 0)
      \/ Has(t, pc[t], 1, 0, 0, 1, 0) /\ Has(t, l, 1, 0, 0, 0, 0)
      \/ Has(t, pc[t], 2, 0, 0, 0, 0) /\ Has(t, l, 2, 0, 0, 0, 0)
  BY HolderHas
<1> QED
  BY <1>1 DEF Has, Lighter

\* ... and those of threads of the application.
LEMMA ContentsLighter ==
  ASSUME NEW t \in Contents, NEW l,
         \/ pc[t] \in LockLabels /\ l \in LockLabels
         \/ pc[t] \in LockLabels /\ l = "Disconnect" /\ call[t] = "SendPacket"
         \/ pc[t] \in DiscLabels /\ l \in DiscLabels
  PROVE  Lighter(t, l) /\ RefW(t, pc[t], call[t]) > 0
<1>1. Own(t) \in {0, 1} /\ (call[t] = "SendPacket" => Own(t) = 1)
  BY ContentsHas DEF Own, In
<1>2. \/ Has(t, pc[t], 1, 0, 0, 0, 0) /\ Has(t, l, 1, 0, 0, 0, 0)
      \/ Has(t, pc[t], Own(t) + 1, 0, 0, 0, 0) /\ Has(t, l, Own(t) + 1, 0, 0, 0, 0)
  BY <1>1, ContentsHas
<1> QED
  BY <1>1, <1>2 DEF Has, Lighter

-----------------------------------------------------------------------------
(* The actions, one lemma for each kind of step. *)

LEMMA QuietWork ==
  ASSUME BitRoom, IInv, Types', NEW t \in Workers,
         Fin(t) \/ SendComplete(t) \/ Recheck(t) \/ PopSend(t) \/ SendLive(t)
  PROVE  IInv'
<1> USE DEF session, pool, io, local, log
<1> t \in Threads
  BY DEF Threads
<1>1. CASE Fin(t)
  <2>1. PICK l \in {"RecvPacket"} : Goto(t, l)
    BY <1>1 DEF Fin
  <2>2. Lighter(t, l) /\ RefW(t, pc[t], call[t]) > 0
    BY <1>1, HolderLighter DEF Fin, Holders, RecvLabels
  <2> QED
    BY <1>1, <2>1, <2>2, QuietStep DEF Fin
<1>2. CASE SendComplete(t)
  <2>1. PICK l \in {"flagOff", "Pop"} : Goto(t, l)
    BY <1>2 DEF SendComplete
  <2>2. Lighter(t, l) /\ RefW(t, pc[t], call[t]) > 0
    BY <1>2, HolderLighter DEF SendComplete, Holders, SendLabels
  <2> QED
    BY <1>2, <2>1, <2>2, QuietStep DEF SendComplete
<1>3. CASE Recheck(t)
  <2>1. PICK l \in {"dec", "flagOn"} : Goto(t, l)
    BY <1>3 DEF Recheck
  <2>2. Lighter(t, l) /\ RefW(t, pc[t], call[t]) > 0
    BY <1>3, HolderLighter DEF Recheck, Holders, PlainLabels
  <2> QED
    BY <1>3, <2>1, <2>2, QuietStep DEF Recheck
<1>4. CASE PopSend(t)
  <2>1. PICK l \in {"sendLive"} : Goto(t, l)
    BY <1>4 DEF PopSend
  <2>2. Lighter(t, l) /\ RefW(t, pc[t], call[t]) > 0
    BY <1>4, HolderLighter DEF PopSend, Holders, SendLabels
  <2> QED
    BY <1>4, <2>1, <2>2, QuietStep DEF PopSend
<1>5. CASE SendLive(t)
  <2>1. PICK l \in {"WSASend", "dec"} : Goto(t, l)
    BY <1>5 DEF SendLive
  <2>2. Lighter(t, l) /\ RefW(t, pc[t], call[t]) > 0
    BY <1>5, HolderLighter DEF SendLive, Holders, SendLabels, PlainLabels
  <2> QED
    BY <1>5, <2>1, <2>2, QuietStep DEF SendLive
<1> QED
  BY <1>1, <1>2, <1>3, <1>4, <1>5

LEMMA QuietCancels ==
  ASSUME BitRoom, IInv, Types', NEW t \in Threads,
         (t \in Workers /\ RecvComplete(t)) \/ RecvPacket(t) \/ IoPending(t)
  PROVE  IInv'
<1> USE DEF session, pool, io, local, log
<1>1. t \in Holders /\ ses[t] \in Slots /\ Types
  BY Kinds DEF IInv, Types, RecvPacket, IoPending, Holders
<1>2. PICK l \in {"RecvPacket", "WSARecv", "Disconnect", "dec"} :
        /\ Goto(t, l)
        /\ l \in {"RecvPacket", "WSARecv"} => pc[t] \in RecvLabels
        /\ pc[t] \in RecvLabels \cup PlainLabels
  BY DEF RecvComplete, RecvPacket, IoPending, RecvLabels, PlainLabels
<1>3. Lighter(t, l) /\ RefW(t, pc[t], call[t]) > 0
  BY <1>1, <1>2, HolderLighter DEF RecvLabels, PlainLabels
<1>4. UNCHANGED <<kernel, iocp>> \/ CancelRecv(ses[t]) \/ CancelSend(ses[t])
  BY DEF RecvComplete, RecvPacket, IoPending
<1>5. UNCHANGED <<kernel, iocp>> \/ Cancels(ses[t])
  BY <1>1, <1>4, Cancelled
<1>6. UNCHANGED <<m_ioCount, m_flag, m_SessionIdxStack, conn, ses, call, orphaned, accepted>>
  BY DEF RecvComplete, RecvPacket, IoPending
<1> QED
  BY <1>2, <1>3, <1>5, <1>6, QuietStep

LEMMA QuietAccept ==
  ASSUME BitRoom, IInv, Types', NEW t \in Threads, OnAccept(t)
  PROVE  IInv'
<1> USE DEF session, pool, io, local, log
<1>1. t \in Holders
  BY Kinds DEF IInv, Types, OnAccept, Holders
<1>2. PICK l \in {"RecvPacket", "dec"} : Goto(t, l)
  BY DEF OnAccept
<1>3. Lighter(t, l) /\ RefW(t, pc[t], call[t]) > 0
  BY <1>1, HolderLighter DEF OnAccept, RecvLabels, PlainLabels
<1>4. \A who \in accepted' : who \in accepted \/ who[1] = ses[t]
  BY DEF OnAccept
<1> QED
  BY <1>2, <1>3, <1>4, QuietStep DEF OnAccept

LEMMA QuietCalls ==
  ASSUME BitRoom, IInv, Types', NEW t \in Threads,
         PushSend(t) \/ Limit(t) \/ DisconnectLive(t) \/ DisconnectCancel(t)
  PROVE  IInv'
<1> USE DEF session, pool, io, local, log
<1>1. CASE PushSend(t) \/ Limit(t)
  <2>1. t \in Contents /\ call[t] = "SendPacket"
    BY <1>1, Kinds DEF IInv, Types, PushSend, Limit, LockLabels
  <2>2. PICK l \in {"post", "Disconnect", "SessionUnLock"} : Goto(t, l)
    BY <1>1 DEF PushSend, Limit
  <2>3. Lighter(t, l) /\ RefW(t, pc[t], call[t]) > 0
    BY <1>1, <2>1, ContentsLighter DEF PushSend, Limit, LockLabels
  <2> QED
    BY <1>1, <2>2, <2>3, QuietStep DEF PushSend, Limit
<1>2. CASE DisconnectLive(t) \/ DisconnectCancel(t)
  <2>1. t \in Holders \/ t \in Contents
    BY DEF Threads, Holders
  <2>2. PICK l \in {"discCancel", "discDec"} : Goto(t, l)
    BY <1>2 DEF DisconnectLive, DisconnectCancel
  <2>3. pc[t] \in DiscLabels /\ l \in DiscLabels
    BY <1>2 DEF DisconnectLive, DisconnectCancel, DiscLabels
  <2>4. Lighter(t, l) /\ RefW(t, pc[t], call[t]) > 0
    BY <2>1, <2>3, HolderLighter, ContentsLighter
  <2>5. UNCHANGED <<kernel, iocp>> \/ Cancels(ses[t])
    BY <1>2, Cancelled DEF DisconnectLive, DisconnectCancel, IInv, Types
  <2>6. UNCHANGED <<m_ioCount, m_flag, m_SessionIdxStack, conn, ses, call, orphaned, accepted>>
    BY <1>2 DEF DisconnectLive, DisconnectCancel
  <2> QED
    BY <2>2, <2>4, <2>5, <2>6, QuietStep
<1> QED
  BY <1>1, <1>2

\* The connection of a released session is closed.
LEMMA Releases ==
  ASSUME BitRoom, IInv, Types', NEW w \in Workers, OnRelease(w)
  PROVE  IInv'
<1> USE DEF session, pool, io, local, log
<1> w \in Threads /\ w \in Holders
  BY DEF Threads, Holders
<1>1. PICK s \in Slots : Facts(w, s, "Push")
  BY Here DEF OnRelease
<1>2. ses[w] = s
  BY <1>1 DEF Facts
<1>3. Has(w, pc[w], 0, 1, 0, 0, 0) /\ Has(w, "Push", 0, 1, 0, 0, 0)
  BY HolderHas DEF OnRelease, ClosedLabels
<1>4. ThreadsClosed(s) >= 1
  BY <1>1, <1>3 DEF Facts, Stays, Has
<1>5. Places(s) = 1 /\ AllRefs(s) = 0
  BY <1>1, <1>4 DEF Facts, Places, SlotNats
<1>6. Lost(s) = 0
  BY <1>1, <1>5 DEF AllRefs, Facts, SlotNats
<1>7. conn' = [conn EXCEPT ![s] = "none"] /\ conn \in [Slots -> {"none", "up", "reset", "lost"}]
  BY <1>2 DEF OnRelease, IInv, Types
<1>8. Lost(s)' = Lost(s) /\ \A o \in Slots : o # s => Lost(o)' = Lost(o)
  BY <1>6, <1>7 DEF Lost
<1>9. Local(w, s)
  BY <1>1, <1>8 DEF OnRelease, Local, Facts, Same, OnStack
<1>10. IoKept(s)
  BY DEF OnRelease, IoKept, IoRecv, IoSend, IoClosed, OnStack
<1>11. Lighter(w, "Push") /\ "Push" \notin CasLabels
  BY <1>3 DEF Lighter, Has, CasLabels
<1> QED
  BY <1>1, <1>8, <1>9, <1>10, <1>11, Quiet DEF OnRelease

-----------------------------------------------------------------------------
(* Steps that change the count. *)

\* Only the count of s changes, and s may become orphaned.
CountOnly(s) == /\ \A o \in Slots : o # s => m_ioCount'[o] = m_ioCount[o]
                /\ \A o \in Slots : o # s => (o \in orphaned') = (o \in orphaned)
                /\ UNCHANGED <<m_flag, kernel, iocp, m_SessionIdxStack, conn, accepted>>

LEMMA CountLocal ==
  ASSUME NEW t \in Threads, NEW s, NEW l, Facts(t, s, l), CountOnly(s)
  PROVE  Local(t, s) /\ IoKept(s) /\ Lost(s)' = Lost(s) /\ m_flag'[s] = m_flag[s]
<1>1. \A o \in Slots : o # s => Same(o)
  BY DEF Same, OnStack, Lost, CountOnly
<1>2. IoKept(s) /\ Lost(s)' = Lost(s)
  BY DEF IoKept, IoRecv, IoSend, IoClosed, OnStack, Lost, CountOnly
<1> QED
  BY <1>1, <1>2 DEF Local, Facts, CountOnly

\* A reference is given up, with the count: whoever sees 0 goes for the CAS.
LEMMA GivenUp ==
  ASSUME BitRoom, IInv, Types', NEW t \in Threads, NEW s, NEW l, Facts(t, s, l), CountOnly(s),
         m_ioCount'[s] = m_ioCount[s] - 1,
         NEW r \in Nat, NEW q \in Nat, NEW rv \in Nat, NEW sd \in Nat,
         Has(t, pc[t], r + 1, 0, rv, sd, 0), Has(t, l, r, 0, 0, 0, q),
         r + q > 0 \/ m_ioCount'[s] # 0 \/ s \in orphaned'
  PROVE  IInv'
<1>1. Local(t, s) /\ IoKept(s) /\ Lost(s)' = Lost(s) /\ m_flag'[s] = m_flag[s]
  BY CountLocal
<1>2. /\ ThreadRefs(s)' = ThreadRefs(s) - 1 /\ ThreadRefs(s) >= r + 1
      /\ ThreadsClosed(s)' = ThreadsClosed(s)
      /\ ThreadsRecv(s)' <= ThreadsRecv(s) /\ ThreadsSend(s)' <= ThreadsSend(s)
      /\ Seers(s)' = Seers(s) + q
  BY DEF Facts, Stays, Has, SlotNats
<1>3. AllRefs(s)' = AllRefs(s) - 1 /\ AllRefs(s) >= r + 1 /\ Places(s)' = Places(s)
  BY <1>1, <1>2 DEF AllRefs, Places, Facts, SlotNats, IoKept
<1>4. Places(s) = 0 /\ m_ioCount[s] = AllRefs(s)
  BY <1>3 DEF Facts
<1>5. Tokens(s)'
  BY <1>1, <1>2 DEF Facts, SlotInv, Tokens, SlotNats, IoKept
<1>6. AllRefs(s)' \in Nat /\ Places(s)' = 0 /\ m_ioCount'[s] = AllRefs(s)'
  BY <1>3, <1>4 DEF Facts
<1>7. AllRefs(s)' = 0 => Seers(s)' > 0 \/ s \in orphaned'
  BY <1>2, <1>3, <1>6 DEF Facts, SlotNats
<1>8. SlotInv(s)'
  BY <1>5, <1>6, <1>7, Settled DEF Facts
<1> QED
  BY <1>1, <1>8, Packed DEF Facts

LEMMA Decs ==
  ASSUME BitRoom, IInv, Types', NEW t \in Threads, Dec(t) \/ IoError(t)
  PROVE  IInv'
<1> USE DEF session, pool, io, local, log
<1>1. t \in Holders
  BY Kinds DEF IInv, Types, Dec, IoError, Holders, SendLabels
<1>2. CASE Dec(t)
  <2> PICK l \in {"CAS", Home(t)} : Goto(t, l) /\ (m_ioCount[ses[t]] = 1 => l = "CAS")
    BY <1>2 DEF Dec
  <2>1. PICK s \in Slots : Facts(t, s, l)
    BY <1>2, Here DEF Dec
  <2>2. CountOnly(s) /\ m_ioCount'[s] = m_ioCount[s] - 1
    BY <1>2, <2>1 DEF Dec, Add, CountOnly, Facts, IInv, Types
  <2>3. Has(t, pc[t], 0 + 1, 0, 0, 0, 0)
    BY <1>1, <1>2, HolderHas DEF Dec, PlainLabels
  <2>4. CASE l = "CAS"
    <3>1. Has(t, l, 0, 0, 0, 0, 1)
      BY <1>1, <2>4, HolderHas
    <3> QED
      BY <2>1, <2>2, <2>3, <3>1, GivenUp
  <2>5. CASE l # "CAS"
    <3>1. Has(t, l, 0, 0, 0, 0, 0)
      BY <1>1, <2>5, HolderHas DEF Unbound, Home
    <3>2. m_ioCount'[s] # 0
      BY <2>1, <2>2, <2>5 DEF Facts, SlotNats
    <3> QED
      BY <2>1, <2>2, <2>3, <3>1, <3>2, GivenUp
  <2> QED
    BY <2>4, <2>5
<1>3. CASE IoError(t)
  <2>1. PICK s \in Slots : Facts(t, s, "dec")
    BY <1>3, Here DEF IoError
  <2>2. CountOnly(s) /\ m_ioCount'[s] = m_ioCount[s] - 1
    BY <1>3, <2>1 DEF IoError, Add, CountOnly, Facts, IInv, Types
  <2>3. Has(t, pc[t], 2, 0, 1, 0, 0) \/ Has(t, pc[t], 2, 0, 0, 1, 0)
    BY <1>1, <1>3, HolderHas DEF IoError
  <2>4. Has(t, "dec", 1, 0, 0, 0, 0)
    BY <1>1, HolderHas DEF PlainLabels
  <2> QED
    BY <2>1, <2>2, <2>3, <2>4, GivenUp
<1> QED
  BY <1>2, <1>3

LEMMA Undos ==
  ASSUME BitRoom, IInv, Types', NEW t \in Threads, LockUndo(t) \/ SessionUnLock(t)
  PROVE  IInv'
<1> USE DEF session, pool, io, local, log
<1>1. t \in Contents /\ Goto(t, "CAS") /\ pc[t] \in LockLabels
  BY Kinds DEF IInv, Types, LockUndo, SessionUnLock, LockLabels
<1>2. PICK s \in Slots : Facts(t, s, "CAS")
  BY <1>1, Here DEF LockUndo, SessionUnLock
<1>3. CountOnly(s) /\ m_ioCount'[s] = m_ioCount[s] - 1
  <2>1. ses[t] = s /\ s \in Slots /\ m_ioCount \in [Slots -> Int]
    BY <1>2 DEF Facts, IInv, Types
  <2>2. /\ m_ioCount' = [m_ioCount EXCEPT ![s] = @ + -1]
        /\ UNCHANGED <<m_flag, kernel, iocp, m_SessionIdxStack, conn, accepted, orphaned>>
    BY <2>1 DEF LockUndo, SessionUnLock, Add
  <2>3. m_ioCount'[s] = m_ioCount[s] - 1 /\ \A o \in Slots : o # s => m_ioCount'[o] = m_ioCount[o]
    BY <2>1, <2>2
  <2> QED
    BY <2>2, <2>3 DEF CountOnly
<1>4. Has(t, pc[t], 1, 0, 0, 0, 0) /\ Has(t, "CAS", 0, 0, 0, 0, 1)
  BY <1>1, ContentsHas
<1> QED
  BY <1>2, <1>3, <1>4, GivenUp

\* What a thread that returns from Disconnect goes on with.
LEMMA Returns ==
  ASSUME NEW t \in Threads, t # Acceptor
  PROVE  /\ t \in Holders => /\ Return(t) = "dec" /\ Has(t, Return(t), 1, 0, 0, 0, 0)
                             /\ t \in Workers
         /\ t \in Contents => /\ Return(t) \in {"SessionUnLock", "idle"}
                              /\ Has(t, Return(t), Own(t), 0, 0, 0, 0)
         /\ t \in Holders \/ t \in Contents
         /\ Return(t) \notin CasLabels
<1>1. CASE t \in Workers
  <2>1. Return(t) = "dec" /\ t \in Holders /\ t \notin Contents
    BY <1>1, LanServerAssumption DEF Return, Holders
  <2> QED
    BY <1>1, <2>1, HolderHas DEF PlainLabels, CasLabels
<1>2. CASE t \in Contents
  <2>1. t \notin Workers /\ t \notin Holders
    BY <1>2, LanServerAssumption DEF Holders
  <2>2. Return(t) = IF call[t] = "SendPacket" THEN "SessionUnLock" ELSE "idle"
    BY <1>2, <2>1 DEF Return
  <2>3. Has(t, Return(t), Own(t), 0, 0, 0, 0)
    BY <1>2, <2>2, ContentsHas DEF Own, In, LockLabels, Unbound
  <2> QED
    BY <1>2, <2>1, <2>2, <2>3 DEF CasLabels
<1> QED
  BY <1>1, <1>2 DEF Threads

LEMMA NotAcceptor ==
  ASSUME Types, NEW t \in Threads, pc[t] \in CallLabels
  PROVE  t # Acceptor
BY Kinds, LanServerAssumption DEF Types

LEMMA Mismatches ==
  ASSUME BitRoom, IInv, Types', NEW t \in Threads, DisconnectMismatch(t)
  PROVE  IInv'
<1> USE DEF session, pool, io, local, log
<1>1. pc[t] = "discMis" /\ "discMis" \in DiscLabels /\ t # Acceptor
  BY NotAcceptor DEF DisconnectMismatch, DiscLabels, CallLabels, IInv
<1> DEFINE l == Return(t)
<1>2. PICK s \in Slots : Facts(t, s, l)
  BY Here DEF DisconnectMismatch
<1>3. /\ CountOnly(s) /\ m_ioCount'[s] = m_ioCount[s] - 1
      /\ m_ioCount[s] = 1 => s \in orphaned'
  BY <1>2 DEF DisconnectMismatch, Add, CountOnly, Facts, IInv, Types
<1>4. m_ioCount'[s] # 0 \/ s \in orphaned'
  BY <1>2, <1>3 DEF Facts, SlotNats
<1>5. CASE t \in Holders
  <2>1. Has(t, pc[t], 2, 0, 0, 0, 0) /\ Has(t, l, 1, 0, 0, 0, 0)
    BY <1>1, <1>5, HolderHas, Returns
  <2> HIDE DEF l
  <2> QED
    BY <1>2, <1>3, <1>4, <2>1, GivenUp
<1>6. CASE t \in Contents
  <2>1. Has(t, pc[t], Own(t) + 1, 0, 0, 0, 0) /\ Has(t, l, Own(t), 0, 0, 0, 0) /\ Own(t) \in Nat
    BY <1>1, <1>6, ContentsHas, Returns
  <2> HIDE DEF l
  <2> QED
    BY <1>2, <1>3, <1>4, <2>1, GivenUp
<1> QED
  BY <1>5, <1>6 DEF Threads, Holders

LEMMA LastDecs ==
  ASSUME BitRoom, IInv, Types', NEW t \in Threads, DisconnectDec(t)
  PROVE  IInv'
<1> USE DEF session, pool, io, local, log
<1>1. pc[t] \in DiscLabels
  BY DEF DisconnectDec, DiscLabels
<1>2. PICK s \in Slots : Facts(t, s, "discCAS")
  BY Here DEF DisconnectDec
<1>3. CountOnly(s) /\ m_ioCount'[s] = m_ioCount[s] - 1
  BY <1>2 DEF DisconnectDec, Add, CountOnly, Facts, IInv, Types
<1>4. CASE t \in Holders
  <2>1. Has(t, pc[t], 2, 0, 0, 0, 0) /\ Has(t, "discCAS", 1, 0, 0, 0, 1)
    BY <1>1, <1>4, HolderHas
  <2> QED
    BY <1>2, <1>3, <2>1, GivenUp
<1>5. CASE t \in Contents
  <2>1. /\ Has(t, pc[t], Own(t) + 1, 0, 0, 0, 0) /\ Has(t, "discCAS", Own(t), 0, 0, 0, 1)
        /\ Own(t) \in Nat /\ Own(t) + 1 > 0
    BY <1>1, <1>5, ContentsHas
  <2> QED
    BY <1>2, <1>3, <2>1, GivenUp
<1> QED
  BY <1>4, <1>5 DEF Threads, Holders

\* A call with an id raises the count: it has a reference from then on, unless the
\* release bit was there.
LEMMA Locked ==
  ASSUME BitRoom, IInv, Types', NEW t \in Threads, NEW s, NEW l, Facts(t, s, l), CountOnly(s),
         orphaned' = orphaned, m_ioCount'[s] = m_ioCount[s] + 1,
         pc[t] \in CasLabels, NEW r \in Nat, Has(t, pc[t], r, 0, 0, 0, 0),
         ReleaseBit(m_ioCount[s]) => Has(t, l, r, 0, 0, 0, 0),
         ~ReleaseBit(m_ioCount[s]) => Has(t, l, r + 1, 0, 0, 0, 0)
  PROVE  IInv'
<1>1. Local(t, s) /\ IoKept(s) /\ Lost(s)' = Lost(s) /\ m_flag'[s] = m_flag[s]
  BY CountLocal
<1>2. RELEASE \in Nat \ {0}
  BY LanServerAssumption
<1>3. CASE Places(s) = 0
  <2>1. ~ReleaseBit(m_ioCount[s])
    BY <1>2, <1>3 DEF Facts, ReleaseBit
  <2>2. /\ ThreadRefs(s)' = ThreadRefs(s) + 1 /\ ThreadsClosed(s)' = ThreadsClosed(s)
        /\ ThreadsRecv(s)' = ThreadsRecv(s) /\ ThreadsSend(s)' = ThreadsSend(s)
    BY <2>1 DEF Facts, Stays, Has, SlotNats
  <2>3. AllRefs(s)' = AllRefs(s) + 1 /\ Places(s)' = 0
    BY <1>1, <1>3, <2>2 DEF AllRefs, Places, Facts, SlotNats, IoKept
  <2>4. Tokens(s)'
    BY <1>1, <2>2 DEF Facts, SlotInv, Tokens, IoKept
  <2>5. SlotInv(s)'
    BY <1>3, <2>3, <2>4, Settled DEF Facts
  <2> QED
    BY <1>1, <2>5, Packed DEF Facts
<1>4. CASE Places(s) = 1
  <2>1. AllRefs(s) = 0 /\ RELEASE <= m_ioCount[s]
    BY <1>4 DEF Facts, SlotInv, Flagged
  <2>2. ReleaseBit(m_ioCount[s])
    BY <1>2, <2>1 DEF ReleaseBit, Facts, SlotNats
  <2>3. /\ ThreadRefs(s)' = ThreadRefs(s) /\ ThreadsClosed(s)' = ThreadsClosed(s)
        /\ ThreadsRecv(s)' = ThreadsRecv(s) /\ ThreadsSend(s)' = ThreadsSend(s)
    BY <2>2 DEF Facts, Stays, Has, SlotNats
  <2>4. AllRefs(s)' = 0 /\ Places(s)' = 1
    BY <1>1, <1>4, <2>1, <2>3 DEF AllRefs, Places, IoKept
  <2>5. Tokens(s)'
    BY <1>1, <2>3 DEF Facts, SlotInv, Tokens, IoKept
  <2>6. RELEASE <= m_ioCount'[s]
    BY <1>2, <2>1 DEF Facts, SlotNats
  <2>7. SlotInv(s)'
    BY <2>4, <2>5, <2>6, Settled DEF Facts
  <2> QED
    BY <1>1, <2>7, Packed DEF Facts
<1> QED
  BY <1>3, <1>4 DEF Facts

LEMMA Locks ==
  ASSUME BitRoom, IInv, Types', NEW t \in Threads, SessionLock(t) \/ Disconnect(t)
  PROVE  IInv'
<1> USE DEF session, pool, io, local, log
<1>1. CASE SessionLock(t)
  <2>1. t \in Contents /\ pc[t] = "SessionLock"
    BY <1>1, Kinds DEF IInv, Types, SessionLock
  <2> DEFINE c == m_ioCount[ses[t]]
  <2>2. PICK l \in {"idle", "lockUndo", "push"} : Goto(t, l) /\ (ReleaseBit(c) <=> l = "idle")
    BY <1>1 DEF SessionLock
  <2>3. PICK s \in Slots : Facts(t, s, l)
    BY <1>1, <2>2, Here DEF SessionLock
  <2>4. CountOnly(s) /\ orphaned' = orphaned /\ m_ioCount'[s] = m_ioCount[s] + 1
    BY <1>1, <2>3 DEF SessionLock, Add, CountOnly, Facts, IInv, Types
  <2>5. /\ Has(t, pc[t], 0, 0, 0, 0, 0)
        /\ ReleaseBit(c) => Has(t, l, 0, 0, 0, 0, 0)
        /\ ~ReleaseBit(c) => Has(t, l, 0 + 1, 0, 0, 0, 0)
    BY <2>1, <2>2, ContentsHas DEF Unbound, LockLabels
  <2>6. pc[t] \in CasLabels /\ c = m_ioCount[s]
    BY <2>1, <2>3 DEF CasLabels, Facts
  <2> QED
    BY <2>3, <2>4, <2>5, <2>6, Locked
<1>2. CASE Disconnect(t)
  <2>1. pc[t] = "Disconnect" /\ t # Acceptor
    BY <1>2, NotAcceptor DEF Disconnect, CallLabels, IInv
  <2> DEFINE c == m_ioCount[ses[t]]
  <2>2. PICK l \in {Return(t)} \cup DiscLabels :
          /\ Goto(t, l)
          /\ ReleaseBit(c) => l = Return(t)
          /\ ~ReleaseBit(c) => l \in DiscLabels
    BY <1>2 DEF Disconnect, DiscLabels
  <2>3. PICK s \in Slots : Facts(t, s, l)
    BY <1>2, <2>2, Here DEF Disconnect
  <2>4. CountOnly(s) /\ orphaned' = orphaned /\ m_ioCount'[s] = m_ioCount[s] + 1
    BY <1>2, <2>3 DEF Disconnect, Add, CountOnly, Facts, IInv, Types
  <2>5. pc[t] \in CasLabels /\ c = m_ioCount[s]
    BY <2>1, <2>3 DEF CasLabels, Facts
  <2>6. CASE t \in Holders
    <3>1. /\ Has(t, pc[t], 1, 0, 0, 0, 0)
          /\ ReleaseBit(c) => Has(t, l, 1, 0, 0, 0, 0)
          /\ ~ReleaseBit(c) => Has(t, l, 1 + 1, 0, 0, 0, 0)
      BY <2>1, <2>2, <2>6, HolderHas, Returns DEF PlainLabels
    <3> QED
      BY <2>3, <2>4, <2>5, <3>1, Locked
  <2>7. CASE t \in Contents
    <3>1. /\ Has(t, pc[t], Own(t), 0, 0, 0, 0) /\ Own(t) \in Nat
          /\ ReleaseBit(c) => Has(t, l, Own(t), 0, 0, 0, 0)
          /\ ~ReleaseBit(c) => Has(t, l, Own(t) + 1, 0, 0, 0, 0)
      BY <2>1, <2>2, <2>7, ContentsHas, Returns
    <3> QED
      BY <2>3, <2>4, <2>5, <3>1, Locked
  <2> QED
    BY <2>6, <2>7 DEF Threads, Holders
<1> QED
  BY <1>1, <1>2

\* The CAS of 0 to the release bit: the session closes, or nothing changes.
LEMMA CASes ==
  ASSUME BitRoom, IInv, Types', NEW t \in Threads, CAS(t) \/ DisconnectCAS(t)
  PROVE  IInv'
<1> USE DEF session, pool, io, local, log
<1>1. PICK l \in {Home(t), Return(t)} :
        /\ Goto(t, l) /\ pc[t] \in SeeLabels
        /\ \/ pc[t] = "CAS" /\ l = Home(t)
           \/ pc[t] = "discCAS" /\ l = Return(t)
  BY DEF CAS, DisconnectCAS, SeeLabels
<1>2. PICK s \in Slots : Facts(t, s, l)
  BY <1>1, Here DEF CAS, DisconnectCAS
<1>3. pc[t] = "discCAS" => t # Acceptor
  BY NotAcceptor DEF IInv, CallLabels
<1>4. Home(t) \in Unbound
  BY DEF Home, Unbound
<1>5. PICK r \in {0, 1} : Has(t, pc[t], r, 0, 0, 0, 1) /\ Has(t, l, r, 0, 0, 0, 0)
  <2>1. t \in Holders \/ t \in Contents
    BY DEF Threads, Holders
  <2>2. CASE pc[t] = "CAS"
    BY <1>1, <1>4, <2>1, <2>2, HolderHas, ContentsHas
  <2>3. CASE pc[t] = "discCAS"
    <3>1. l = Return(t) /\ t # Acceptor
      BY <1>1, <1>3, <2>3
    <3>2. CASE t \in Holders
      BY <2>3, <3>1, <3>2, HolderHas, Returns
    <3>3. CASE t \in Contents
      BY <2>3, <3>1, <3>3, ContentsHas, Returns
    <3> QED
      BY <2>1, <3>2, <3>3
  <2> QED
    BY <1>1, <2>2, <2>3
<1>6. pc[t] \in CasLabels
  BY <1>1 DEF SeeLabels, CasLabels
<1>7. /\ ThreadRefs(s)' = ThreadRefs(s) /\ ThreadsClosed(s)' = ThreadsClosed(s)
      /\ ThreadsRecv(s)' = ThreadsRecv(s) /\ ThreadsSend(s)' = ThreadsSend(s)
  BY <1>2, <1>5 DEF Facts, Stays, Has, SlotNats
<1>8. RELEASE \in Nat \ {0}
  BY LanServerAssumption
<1>9. /\ TryRelease(s)
      /\ UNCHANGED <<m_flag, kernel, m_SessionIdxStack, accepted, conn, orphaned>>
  BY <1>2 DEF CAS, DisconnectCAS, Facts
<1>10. Places(s) = 1 => RELEASE <= m_ioCount[s]
  BY <1>2, <1>6 DEF Facts, SlotInv, Flagged
<1>11. CASE m_ioCount[s] # 0
  <2>1. CountOnly(s) /\ m_ioCount'[s] = m_ioCount[s]
    BY <1>9, <1>11 DEF TryRelease, CountOnly
  <2>2. Local(t, s) /\ IoKept(s) /\ Lost(s)' = Lost(s) /\ m_flag'[s] = m_flag[s]
    BY <1>2, <2>1, CountLocal
  <2>3. AllRefs(s)' = AllRefs(s) /\ Places(s)' = Places(s)
    BY <1>7, <2>2 DEF AllRefs, Places, IoKept
  <2>4. Tokens(s)'
    BY <1>2, <1>7, <2>2 DEF Facts, SlotInv, Tokens, IoKept
  <2>5. SlotInv(s)'
    BY <1>2, <1>10, <1>11, <2>1, <2>3, <2>4, Settled DEF Facts
  <2> QED
    BY <2>2, <2>5, Packed
<1>12. CASE m_ioCount[s] = 0
  <2>1. Places(s) = 0 /\ AllRefs(s) = 0
    BY <1>2, <1>8, <1>10, <1>12 DEF Facts
  <2>2. m_ioCount' = [m_ioCount EXCEPT ![s] = 0 + RELEASE] /\ Posted(s, "release")
    BY <1>9, <1>12 DEF TryRelease, Add
  <2>3. /\ iocp'[s].recv = iocp[s].recv /\ iocp'[s].fin = iocp[s].fin
        /\ iocp'[s].send = iocp[s].send
        /\ iocp'[s].release = iocp[s].release + 1 /\ m_ioCount'[s] = RELEASE
    BY <1>2, <1>8, <2>2 DEF Posted, Facts, IInv, Types, Completions
  <2>4. IoRecv(s)' = IoRecv(s) /\ IoSend(s)' = IoSend(s)
    BY <1>9, <2>3 DEF IoRecv, IoSend
  <2>5. IoClosed(s)' = IoClosed(s) + 1
    <3>1. iocp[s].release \in Nat
      BY <1>2, FieldNats DEF Facts, IInv, FieldsOK
    <3>2. OnStack(s) \in Nat /\ OnStack(s)' = OnStack(s)
      BY <1>9 DEF OnStack
    <3> QED
      BY <2>3, <3>1, <3>2 DEF IoClosed
  <2>6. \A o \in Slots : o # s => Same(o)
    BY <1>9, <2>2 DEF Same, OnStack, Lost, Posted, IInv, Types
  <2>7. Local(t, s) /\ Lost(s)' = Lost(s)
    BY <1>2, <1>9, <2>6 DEF Local, Facts, Lost
  <2>8. AllRefs(s)' = 0 /\ Places(s)' = 1
    BY <1>2, <1>7, <2>1, <2>4, <2>5, <2>7 DEF AllRefs, Places, Facts, SlotNats
  <2>9. Tokens(s)'
    BY <1>2, <1>7, <1>9, <2>4, <2>7 DEF Facts, SlotInv, Tokens
  <2>10. SlotInv(s)'
    BY <1>8, <2>3, <2>8, <2>9, Settled
  <2> QED
    BY <2>7, <2>10, Packed
<1> QED
  BY <1>11, <1>12

\* The slot opens: the accept thread turns the place into the first reference.
LEMMA Opens ==
  ASSUME BitRoom, IInv, Types', NEW t \in Threads, AcceptCount(t)
  PROVE  IInv'
<1> USE DEF session, pool, io, local, log
<1>0. t \in Holders
  BY Kinds DEF IInv, Types, AcceptCount, Holders
<1>1. PICK s \in Slots : Facts(t, s, "OnAccept")
  BY Here DEF AcceptCount
<1>2. CountOnly(s) /\ m_ioCount'[s] = 1
  BY <1>1 DEF AcceptCount, CountOnly, Facts, IInv, Types
<1>3. Local(t, s) /\ IoKept(s) /\ Lost(s)' = Lost(s) /\ m_flag'[s] = m_flag[s]
  BY <1>1, <1>2, CountLocal
<1>4. Has(t, pc[t], 0, 1, 0, 0, 0) /\ Has(t, "OnAccept", 1, 0, 1, 0, 0)
  BY <1>0, HolderHas DEF AcceptCount, ClosedLabels
<1>5. /\ ThreadRefs(s)' = ThreadRefs(s) + 1 /\ ThreadsClosed(s)' = ThreadsClosed(s) - 1
      /\ ThreadsRecv(s)' = ThreadsRecv(s) + 1 /\ ThreadsSend(s)' = ThreadsSend(s)
      /\ ThreadsClosed(s) >= 1
  BY <1>1, <1>4 DEF Facts, Stays, Has, SlotNats
<1>6. Places(s) = 1 /\ AllRefs(s) = 0
  BY <1>1, <1>5 DEF Facts, Places, SlotNats
<1>7. Places(s)' = 0
  BY <1>1, <1>3, <1>5, <1>6 DEF Places, Facts, SlotNats, IoKept
<1>8. AllRefs(s)' = 1
  BY <1>1, <1>3, <1>5, <1>6 DEF AllRefs, Facts, SlotNats, IoKept
<1>9. ThreadsRecv(s) <= ThreadRefs(s)
  BY <1>1, Included DEF Facts, IInv
<1>10. IoRecv(s) = 0 /\ ThreadsRecv(s) = 0 /\ Lost(s) = 0
  BY <1>1, <1>6, <1>9 DEF AllRefs, Facts, SlotNats
<1>11. Tokens(s)'
  BY <1>1, <1>3, <1>5, <1>10 DEF Facts, SlotInv, Tokens, SlotNats, IoKept
<1>12. SlotInv(s)'
  BY <1>2, <1>7, <1>8, <1>11, Settled
<1> QED
  BY <1>3, <1>12, Packed

\* Without a port the reference of the accept stays with the slot.
LEMMA Losing ==
  ASSUME BitRoom, IInv, Types', NEW t \in Threads, NoPort(t)
  PROVE  IInv'
<1> USE DEF session, pool, io, local, log
<1>0. t \in Holders
  BY Kinds DEF IInv, Types, NoPort, Holders
<1>1. PICK s \in Slots : Facts(t, s, "accept")
  BY Here DEF NoPort
<1>2. conn' = [conn EXCEPT ![s] = "lost"] /\ conn \in [Slots -> {"none", "up", "reset", "lost"}]
  BY <1>1 DEF NoPort, Facts, IInv, Types
<1>3. Lost(s)' = 1 /\ \A o \in Slots : o # s => Lost(o)' = Lost(o)
  BY <1>1, <1>2 DEF Lost
<1>4. Has(t, pc[t], 1, 0, 1, 0, 0) /\ Has(t, "accept", 0, 0, 0, 0, 0)
  BY <1>0, HolderHas DEF NoPort, Unbound
<1>5. /\ ThreadRefs(s)' = ThreadRefs(s) - 1 /\ ThreadsClosed(s)' = ThreadsClosed(s)
      /\ ThreadsRecv(s)' = ThreadsRecv(s) - 1 /\ ThreadsSend(s)' = ThreadsSend(s)
      /\ ThreadRefs(s) >= 1 /\ ThreadsRecv(s) >= 1
  BY <1>1, <1>4 DEF Facts, Stays, Has, SlotNats
<1>6. Lost(s) = 0
  BY <1>1, <1>5 DEF Facts, SlotInv, Tokens, SlotNats
<1>7. IoKept(s)
  BY DEF NoPort, IoKept, IoRecv, IoSend, IoClosed, OnStack
<1>8. AllRefs(s)' = AllRefs(s) /\ Places(s)' = Places(s) /\ AllRefs(s) >= 1
  BY <1>1, <1>3, <1>5, <1>6, <1>7 DEF AllRefs, Places, Facts, SlotNats, IoKept
<1>9. Tokens(s)'
  BY <1>1, <1>3, <1>5, <1>6, <1>7 DEF NoPort, Facts, SlotNats, SlotInv, Tokens, IoKept
<1>10. SlotInv(s)'
  BY <1>1, <1>8, <1>9, Settled DEF Facts, NoPort
<1>11. Local(t, s)
  BY <1>1, <1>3 DEF Local, Facts, Same, OnStack, NoPort
<1> QED
  BY <1>10, <1>11, Packed

-----------------------------------------------------------------------------
(* Steps of the system. *)

\* Nothing is counted anew on slot s.
LEMMA SumsKept ==
  ASSUME NEW s \in Slots, SlotInv(s), IoKept(s), Lost(s)' = Lost(s),
         m_ioCount'[s] = m_ioCount[s], m_flag'[s] = m_flag[s], accepted' = accepted,
         UNCHANGED <<pc, ses, call, orphaned>>
  PROVE  SlotInv(s)'
<1>1. /\ ThreadRefs(s)' = ThreadRefs(s) /\ ThreadsClosed(s)' = ThreadsClosed(s)
      /\ ThreadsRecv(s)' = ThreadsRecv(s) /\ ThreadsSend(s)' = ThreadsSend(s)
      /\ Seers(s)' = Seers(s)
  BY DEF ThreadRefs, ThreadsClosed, ThreadsRecv, ThreadsSend, Seers, Sending, Count, At
<1>2. AllRefs(s)' = AllRefs(s) /\ Places(s)' = Places(s)
  BY <1>1 DEF AllRefs, Places, IoKept
<1>3. Counted(s)' /\ Tokens(s)' /\ Seen(s)'
  BY <1>1, <1>2 DEF SlotInv, Counted, Tokens, Seen, IoKept
<1>4. Flagged(s)'
  BY <1>2 DEF SlotInv, Flagged
<1> QED
  BY <1>3, <1>4 DEF SlotInv

LEMMA CompleteKeeps ==
  ASSUME Types, NEW s \in Slots, m_SessionIdxStack' = m_SessionIdxStack,
         NEW k, NEW c, Complete(s, k, c),
         \/ k = "recv" /\ c \in {"recv", "fin"}
         \/ k = "send" /\ c = "send"
  PROVE  /\ IoKept(s)
         /\ \A o \in Slots : o # s => kernel'[o] = kernel[o] /\ iocp'[o] = iocp[o]
<1>1. FieldsOK(s)
  BY FieldNats
<1>2. \A j \in Ops : kernel'[s][j] = IF j = k THEN kernel[s][j] - 1 ELSE kernel[s][j]
  BY DEF Complete, Types, Ops
<1>3. \A j \in Completions : iocp'[s][j] = IF j = c THEN iocp[s][j] + 1 ELSE iocp[s][j]
  BY DEF Complete, Posted, Types, Completions
<1>4. OnStack(s)' = OnStack(s)
  BY DEF OnStack
<1>5. IoRecv(s)' = IoRecv(s)
  BY <1>1, <1>2, <1>3 DEF FieldsOK, IoRecv, Ops, Completions
<1>6. IoSend(s)' = IoSend(s)
  BY <1>1, <1>2, <1>3 DEF FieldsOK, IoSend, Ops, Completions
<1>7. IoClosed(s)' = IoClosed(s)
  BY <1>1, <1>2, <1>3, <1>4 DEF FieldsOK, IoClosed, OnStack, Ops, Completions
<1>8. \A o \in Slots : o # s => kernel'[o] = kernel[o] /\ iocp'[o] = iocp[o]
  BY DEF Complete, Posted, Types
<1> QED
  BY <1>5, <1>6, <1>7, <1>8 DEF IoKept

LEMMA KernelSteps ==
  ASSUME IInv, Types', NEW s \in Slots, KernelStep(s)
  PROVE  IInv'
<1> USE DEF session, pool, io, local, log
<1>1. /\ UNCHANGED <<m_ioCount, m_flag, m_SessionIdxStack, accepted, pc, ses, call, orphaned>>
      /\ Types /\ OneTime
  BY DEF KernelStep, Complete, Received, ReceiveEnds, Sent, Reset, IInv
<1>2. \/ UNCHANGED <<kernel, iocp>>
      \/ Complete(s, "recv", "recv") \/ Complete(s, "recv", "fin") \/ Complete(s, "send", "send")
  BY DEF KernelStep, Received, ReceiveEnds, Sent, Reset
<1>3. \A o \in Slots : IoKept(o)
  <2>1. CASE UNCHANGED <<kernel, iocp>>
    BY <2>1, <1>1 DEF IoKept, IoRecv, IoSend, IoClosed, OnStack
  <2>2. CASE ~UNCHANGED <<kernel, iocp>>
    <3>1. /\ IoKept(s)
          /\ \A o \in Slots : o # s => kernel'[o] = kernel[o] /\ iocp'[o] = iocp[o]
      BY <1>1, <1>2, <2>2, CompleteKeeps
    <3> QED
      BY <1>1, <3>1 DEF IoKept, IoRecv, IoSend, IoClosed, OnStack
  <2> QED
    BY <2>1, <2>2
<1>4. \A o \in Slots : Lost(o)' = Lost(o)
  BY <1>1 DEF KernelStep, Complete, Received, ReceiveEnds, Sent, Reset, Lost, Types
<1>5. ASSUME NEW o \in Slots PROVE SlotInv(o)'
  BY <1>1, <1>3, <1>4, SumsKept DEF IInv
<1>6. OneTime'
  BY <1>1 DEF OneTime
<1> QED
  BY <1>5, <1>6 DEF IInv

-----------------------------------------------------------------------------
(* The overlapped calls and the send flag. *)

\* A reference is taken on an open slot, by thread t on itself or by an
\* operation it starts.
LEMMA Taken ==
  ASSUME BitRoom, IInv, Types', NEW t \in Threads, NEW s, NEW l, Facts(t, s, l), Local(t, s),
         m_ioCount'[s] = m_ioCount[s] + 1, ThreadRefs(s) >= 1, Lost(s)' = Lost(s),
         IoClosed(s)' = IoClosed(s), ThreadsClosed(s)' = ThreadsClosed(s),
         IoRecv(s)' + IoSend(s)' + ThreadRefs(s)' = IoRecv(s) + IoSend(s) + ThreadRefs(s) + 1,
         Tokens(s)'
  PROVE  IInv'
<1>1. AllRefs(s)' = AllRefs(s) + 1 /\ Places(s)' = Places(s) /\ AllRefs(s) >= 1
  BY DEF AllRefs, Places, Facts, SlotNats
<1>2. Places(s) = 0 /\ m_ioCount[s] = AllRefs(s)
  BY <1>1 DEF Facts
<1>3. SlotInv(s)'
  BY <1>1, <1>2, Settled DEF Facts
<1> QED
  BY <1>3, Packed DEF Facts

LEMMA WSACalls ==
  ASSUME BitRoom, IInv, Types', NEW t \in Threads, WSARecv(t) \/ WSASend(t)
  PROVE  IInv'
<1> USE DEF session, pool, io, local, log
<1>0. t \in Holders
  BY Kinds DEF IInv, Types, WSARecv, WSASend, Holders, SendLabels
<1>1. PICK k \in {"recv", "send"} :
        /\ WSACall(t, k)
        /\ k = "recv" => pc[t] = "WSARecv"
        /\ k = "send" => pc[t] = "WSASend"
  BY DEF WSARecv, WSASend
<1> DEFINE pending == IF k = "recv" THEN "recvPending" ELSE "sendPending"
           error   == IF k = "recv" THEN "recvError" ELSE "sendError"
<1>2. PICK l \in {pending, "dec", error} :
        /\ Goto(t, l)
        /\ \/ kernel' = [kernel EXCEPT ![ses[t]][k] = @ + 1] /\ iocp' = iocp /\ l = pending
           \/ kernel' = kernel /\ Posted(ses[t], k) /\ l = "dec"
           \/ kernel' = kernel /\ iocp' = iocp /\ l = error
  BY <1>1 DEF WSACall
<1>3. PICK s \in Slots : Facts(t, s, l)
  BY <1>1, <1>2, Here DEF WSACall
<1>4. UNCHANGED <<m_flag, m_SessionIdxStack, accepted, ses, conn, orphaned>>
  BY <1>1 DEF WSACall
<1>5. /\ m_ioCount'[s] = m_ioCount[s] + 1
      /\ \A o \in Slots : o # s => m_ioCount'[o] = m_ioCount[o]
  BY <1>1, <1>3 DEF WSACall, Add, Facts, IInv, Types
<1>6. \/ kernel' = [kernel EXCEPT ![s][k] = @ + 1] /\ iocp' = iocp /\ l = pending
      \/ kernel' = kernel /\ iocp' = [iocp EXCEPT ![s][k] = @ + 1] /\ l = "dec"
      \/ kernel' = kernel /\ iocp' = iocp /\ l = error
  BY <1>2, <1>3 DEF Facts, Posted
<1>7. FieldsOK(s) /\ kernel \in [Slots -> [Ops -> Nat]] /\ iocp \in [Slots -> [Completions -> Nat]]
  BY <1>3, FieldNats DEF Facts, IInv, Types
<1>8. \A o \in Slots : o # s => kernel'[o] = kernel[o] /\ iocp'[o] = iocp[o]
  BY <1>6, <1>7
<1>9. Local(t, s) /\ Lost(s)' = Lost(s)
  BY <1>3, <1>4, <1>5, <1>8 DEF Local, Facts, Same, OnStack, Lost
<1> DEFINE n == IF l = error THEN 0 ELSE 1
<1>10. /\ IoRecv(s)' = IoRecv(s) + (IF k = "recv" THEN n ELSE 0)
       /\ IoSend(s)' = IoSend(s) + (IF k = "send" THEN n ELSE 0)
  <2>1. CASE kernel' = [kernel EXCEPT ![s][k] = @ + 1] /\ iocp' = iocp /\ l = pending
    <3>1. /\ kernel'[s].recv = kernel[s].recv + (IF k = "recv" THEN 1 ELSE 0)
          /\ kernel'[s].send = kernel[s].send + (IF k = "send" THEN 1 ELSE 0)
      BY <1>7, <2>1 DEF Ops, FieldsOK
    <3>2. n = 1
      BY <2>1
    <3> HIDE DEF n
    <3>3. iocp' = iocp /\ FieldsOK(s)
      BY <1>7, <2>1
    <3>4. IoRecv(s)' = IoRecv(s) + (IF k = "recv" THEN 1 ELSE 0)
      BY <3>1, <3>3 DEF IoRecv, FieldsOK
    <3>5. IoSend(s)' = IoSend(s) + (IF k = "send" THEN 1 ELSE 0)
      BY <3>1, <3>3 DEF IoSend, FieldsOK
    <3> QED
      BY <3>2, <3>4, <3>5
  <2>2. CASE kernel' = kernel /\ iocp' = [iocp EXCEPT ![s][k] = @ + 1] /\ l = "dec"
    <3>1. /\ iocp'[s].recv = iocp[s].recv + (IF k = "recv" THEN 1 ELSE 0)
          /\ iocp'[s].send = iocp[s].send + (IF k = "send" THEN 1 ELSE 0)
          /\ iocp'[s].fin = iocp[s].fin
      BY <1>7, <2>2 DEF Completions, FieldsOK
    <3>2. n = 1
      BY <2>2
    <3> HIDE DEF n
    <3>3. IoRecv(s)' = IoRecv(s) + (IF k = "recv" THEN 1 ELSE 0)
      BY <1>7, <2>2, <3>1 DEF IoRecv, FieldsOK
    <3>4. IoSend(s)' = IoSend(s) + (IF k = "send" THEN 1 ELSE 0)
      BY <1>7, <2>2, <3>1 DEF IoSend, FieldsOK
    <3> QED
      BY <3>2, <3>3, <3>4
  <2>3. CASE kernel' = kernel /\ iocp' = iocp /\ l = error
    BY <1>7, <2>3 DEF IoRecv, IoSend, FieldsOK
  <2> QED
    BY <1>6, <2>1, <2>2, <2>3
<1>11. IoClosed(s)' = IoClosed(s)
  <2>1. iocp'[s].release = iocp[s].release
    BY <1>6, <1>7 DEF Completions
  <2>2. OnStack(s)' = OnStack(s)
    BY <1>4 DEF OnStack
  <2> QED
    BY <2>1, <2>2 DEF IoClosed
<1>12. /\ k = "recv" => Has(t, pc[t], 1, 0, 1, 0, 0)
       /\ k = "send" => Has(t, pc[t], 1, 0, 0, 1, 0)
       /\ l # error => Has(t, l, 1, 0, 0, 0, 0)
       /\ l = error /\ k = "recv" => Has(t, l, 2, 0, 1, 0, 0)
       /\ l = error /\ k = "send" => Has(t, l, 2, 0, 0, 1, 0)
  BY <1>0, <1>1, HolderHas DEF PlainLabels, RecvLabels, SendLabels
<1> HIDE DEF pending, error
<1>13. /\ ThreadRefs(s)' = ThreadRefs(s) + 1 - n
       /\ ThreadRefs(s) >= 1 /\ ThreadsClosed(s)' = ThreadsClosed(s)
       /\ ThreadsRecv(s)' = ThreadsRecv(s) - (IF k = "recv" THEN n ELSE 0)
       /\ ThreadsSend(s)' = ThreadsSend(s) - (IF k = "send" THEN n ELSE 0)
  BY <1>3, <1>12 DEF Facts, Stays, Has, SlotNats
<1>14. n \in {0, 1}
  OBVIOUS
<1> HIDE DEF n
<1>15. IoRecv(s)' + IoSend(s)' + ThreadRefs(s)' = IoRecv(s) + IoSend(s) + ThreadRefs(s) + 1
  BY <1>3, <1>10, <1>13, <1>14 DEF Facts, SlotNats
<1>16. Tokens(s)'
  BY <1>3, <1>4, <1>9, <1>10, <1>13, <1>14 DEF Facts, SlotNats, SlotInv, Tokens
<1> QED
  BY <1>3, <1>5, <1>9, <1>11, <1>13, <1>15, <1>16, Taken

\* The flag is taken, by a thread that holds a reference.
LEMMA Posts ==
  ASSUME BitRoom, IInv, Types', NEW t \in Threads, (t \in Workers /\ FlagOn(t)) \/ Post(t)
  PROVE  IInv'
<1> USE DEF session, pool, io, local, log
<1>0. t \in Holders \/ (t \in Contents /\ call[t] = "SendPacket")
  BY Kinds DEF IInv, Types, Post, Holders, LockLabels
<1>1. PICK l \in {"dec", "limit"} :
        /\ Goto(t, l) /\ PostSend(ses[t])
        /\ \/ t \in Holders /\ pc[t] = "flagOn" /\ l = "dec"
           \/ t \in Contents /\ pc[t] = "post" /\ l = "limit"
  BY Kinds DEF FlagOn, Post, Holders, IInv, Types, LockLabels
<1>2. CASE m_flag[ses[t]]
  <2>1. Lighter(t, l) /\ RefW(t, pc[t], call[t]) > 0
    BY <1>1, HolderLighter, ContentsLighter DEF PlainLabels, LockLabels
  <2>2. UNCHANGED <<m_ioCount, m_flag, iocp>>
    BY <1>1, <1>2 DEF PostSend
  <2>3. UNCHANGED <<m_SessionIdxStack, conn, ses, call, orphaned, kernel, accepted>>
    BY DEF FlagOn, Post
  <2> QED
    BY <1>1, <2>1, <2>2, <2>3, QuietStep
<1>3. CASE ~m_flag[ses[t]]
  <2>1. PICK s \in Slots : Facts(t, s, l)
    BY <1>1, Here DEF FlagOn, Post
  <2>2. /\ m_flag' = [m_flag EXCEPT ![s] = TRUE]
        /\ m_ioCount' = [m_ioCount EXCEPT ![s] = @ + 1]
        /\ iocp' = [iocp EXCEPT ![s]["send"] = @ + 1]
        /\ ~m_flag[s]
    BY <1>1, <1>3, <2>1 DEF PostSend, Posted, Add, Facts
  <2>3. UNCHANGED <<kernel, m_SessionIdxStack, accepted, conn, orphaned>>
    BY DEF FlagOn, Post
  <2>4. FieldsOK(s) /\ Types
    BY <2>1, FieldNats DEF Facts, IInv
  <2>5. /\ m_flag'[s] = TRUE /\ m_ioCount'[s] = m_ioCount[s] + 1
        /\ \A o \in Slots : o # s => Same(o)
    BY <2>1, <2>2, <2>3, <2>4 DEF Types, Same, OnStack, Lost
  <2>6. /\ iocp'[s].recv = iocp[s].recv /\ iocp'[s].fin = iocp[s].fin
        /\ iocp'[s].release = iocp[s].release /\ iocp'[s].send = iocp[s].send + 1
    BY <2>1, <2>2, <2>4 DEF Types, Completions, Facts
  <2>7. IoRecv(s)' = IoRecv(s) /\ IoSend(s)' = IoSend(s) + 1 /\ IoClosed(s)' = IoClosed(s)
    BY <2>3, <2>4, <2>6 DEF IoRecv, IoSend, IoClosed, OnStack, FieldsOK
  <2>8. Has(t, pc[t], 1, 0, 0, 0, 0) /\ Has(t, l, 1, 0, 0, 0, 0)
    BY <1>1, HolderHas, ContentsHas DEF PlainLabels, LockLabels
  <2>9. /\ ThreadRefs(s)' = ThreadRefs(s) /\ ThreadsClosed(s)' = ThreadsClosed(s)
        /\ ThreadsRecv(s)' = ThreadsRecv(s) /\ ThreadsSend(s)' = ThreadsSend(s)
        /\ ThreadRefs(s) >= 1
    BY <2>1, <2>8 DEF Facts, Stays, Has, SlotNats
  <2>10. Local(t, s) /\ Lost(s)' = Lost(s)
    BY <2>1, <2>3, <2>5 DEF Local, Facts, Lost
  <2>11. Tokens(s)'
    BY <2>1, <2>2, <2>5, <2>7, <2>9, <2>10 DEF Facts, SlotNats, SlotInv, Tokens
  <2>12. IoRecv(s)' + IoSend(s)' + ThreadRefs(s)' = IoRecv(s) + IoSend(s) + ThreadRefs(s) + 1
    BY <2>1, <2>7, <2>9 DEF Facts, SlotNats
  <2> QED
    BY <2>1, <2>5, <2>7, <2>9, <2>10, <2>11, <2>12, Taken
<1> QED
  BY <1>2, <1>3

LEMMA FlagsOff ==
  ASSUME BitRoom, IInv, Types', NEW w \in Workers, FlagOff(w)
  PROVE  IInv'
<1> USE DEF session, pool, io, local, log
<1> w \in Threads /\ w \in Holders
  BY DEF Threads, Holders
<1>1. PICK l \in {"recheck", "dec"} : Goto(w, l)
  BY DEF FlagOff
<1>2. PICK s \in Slots : Facts(w, s, l)
  BY <1>1, Here DEF FlagOff
<1>3. /\ UNCHANGED <<m_ioCount, kernel, iocp, m_SessionIdxStack, accepted, conn, orphaned>>
      /\ m_flag'[s] = FALSE
      /\ \A o \in Slots : o # s => m_flag'[o] = m_flag[o]
  BY <1>2 DEF FlagOff, Facts, IInv, Types
<1>4. Has(w, pc[w], 1, 0, 0, 1, 0) /\ Has(w, l, 1, 0, 0, 0, 0)
  BY HolderHas DEF FlagOff, SendLabels, PlainLabels
<1>5. /\ ThreadRefs(s)' = ThreadRefs(s) /\ ThreadsClosed(s)' = ThreadsClosed(s)
      /\ ThreadsRecv(s)' = ThreadsRecv(s) /\ ThreadsSend(s)' = ThreadsSend(s) - 1
      /\ ThreadRefs(s) >= 1 /\ ThreadsSend(s) >= 1
  BY <1>2, <1>4 DEF Facts, Stays, Has, SlotNats
<1>6. IoKept(s) /\ Lost(s)' = Lost(s)
  BY <1>3 DEF IoKept, IoRecv, IoSend, IoClosed, OnStack, Lost
<1>7. AllRefs(s)' = AllRefs(s) /\ Places(s)' = Places(s) /\ AllRefs(s) >= 1
  BY <1>2, <1>5, <1>6 DEF AllRefs, Places, IoKept, Facts, SlotNats
<1>8. Tokens(s)'
  BY <1>2, <1>3, <1>5, <1>6 DEF Facts, SlotNats, SlotInv, Tokens, IoKept
<1>9. SlotInv(s)'
  BY <1>2, <1>3, <1>7, <1>8, Settled DEF Facts
<1>10. Local(w, s)
  BY <1>2, <1>3 DEF Local, Facts, Same, OnStack, Lost
<1> QED
  BY <1>9, <1>10, Packed

-----------------------------------------------------------------------------
(* The stack of free slots. *)

LEMMA Pushed ==
  ASSUME Types, OneTime, NEW s \in Slots, OnStack(s) = 0,
         m_SessionIdxStack' = <<s>> \o m_SessionIdxStack
  PROVE  /\ OneTime' /\ OnStack(s)' = 1
         /\ \A o \in Slots : o # s => OnStack(o)' = OnStack(o)
<1> DEFINE q == m_SessionIdxStack
<1>1. q \in Seq(Slots) /\ q' = <<s>> \o q
  BY DEF Types
<1>2. /\ DOMAIN q = 1 .. Len(q) /\ DOMAIN q' = 1 .. (Len(q) + 1) /\ Len(q) \in Nat
      /\ q'[1] = s
      /\ \A i \in 1 .. Len(q) : q'[i + 1] = q[i]
  BY <1>1
<1>3. \A i \in DOMAIN q : q[i] # s
  BY DEF OnStack
<1>4. \A i, j \in DOMAIN q : q[i] = q[j] => i = j
  BY DEF OneTime
<1> HIDE DEF q
<1>5. \A i \in DOMAIN q' : i = 1 \/ (i - 1 \in DOMAIN q /\ q'[i] = q[i - 1])
  <2> SUFFICES ASSUME NEW i \in DOMAIN q', i # 1 PROVE i - 1 \in DOMAIN q /\ q'[i] = q[i - 1]
    OBVIOUS
  <2>1. i - 1 \in 1 .. Len(q) /\ (i - 1) + 1 = i
    BY <1>2
  <2> QED
    BY <1>2, <2>1
<1>6. \A i, j \in DOMAIN q' : q'[i] = q'[j] => i = j
  <2> SUFFICES ASSUME NEW i \in DOMAIN q', NEW j \in DOMAIN q', q'[i] = q'[j] PROVE i = j
    OBVIOUS
  <2>1. CASE i = 1 \/ j = 1
    BY <2>1, <1>2, <1>3, <1>5
  <2>2. CASE i # 1 /\ j # 1
    <3>1. i - 1 = j - 1
      BY <2>2, <1>4, <1>5
    <3> QED
      BY <3>1, <1>2
  <2> QED
    BY <2>1, <2>2
<1>7. ASSUME NEW o \in Slots, o # s
      PROVE  (\E i \in DOMAIN q' : q'[i] = o) <=> (\E i \in DOMAIN q : q[i] = o)
  <2>1. ASSUME NEW i \in DOMAIN q', q'[i] = o PROVE \E j \in DOMAIN q : q[j] = o
    BY <1>2, <1>5, <1>7, <2>1
  <2>2. ASSUME NEW i \in DOMAIN q, q[i] = o PROVE \E j \in DOMAIN q' : q'[j] = o
    <3>1. i + 1 \in DOMAIN q' /\ q'[i + 1] = o
      BY <1>2, <2>2
    <3> QED
      BY <3>1
  <2> QED
    BY <2>1, <2>2
<1>8. 1 \in DOMAIN q'
  BY <1>2
<1>9. OneTime'
  BY <1>6 DEF OneTime, q
<1>10. OnStack(s)' = 1
  BY <1>2, <1>8 DEF OnStack, q
<1>11. \A o \in Slots : o # s => OnStack(o)' = OnStack(o)
  BY <1>7 DEF OnStack, q
<1> QED
  BY <1>9, <1>10, <1>11

LEMMA Popped ==
  ASSUME Types, OneTime, m_SessionIdxStack # <<>>,
         m_SessionIdxStack' = Tail(m_SessionIdxStack), NEW s, s = Head(m_SessionIdxStack)
  PROVE  /\ s \in Slots /\ OneTime' /\ OnStack(s) = 1 /\ OnStack(s)' = 0
         /\ \A o \in Slots : o # s => OnStack(o)' = OnStack(o)
<1> DEFINE q == m_SessionIdxStack
<1>1. q \in Seq(Slots) /\ q' = Tail(q) /\ q # <<>> /\ s = q[1]
  BY DEF Types
<1>2. /\ DOMAIN q = 1 .. Len(q) /\ DOMAIN q' = 1 .. (Len(q) - 1) /\ Len(q) \in Nat \ {0}
      /\ \A i \in 1 .. (Len(q) - 1) : q'[i] = q[i + 1]
  BY <1>1
<1>3. s \in Slots /\ 1 \in DOMAIN q
  BY <1>1, <1>2
<1>4. \A i, j \in DOMAIN q : q[i] = q[j] => i = j
  BY DEF OneTime
<1> HIDE DEF q
<1>5. \A i \in DOMAIN q' : i + 1 \in DOMAIN q /\ i + 1 # 1 /\ q'[i] = q[i + 1]
  BY <1>2
<1>6. \A i, j \in DOMAIN q' : q'[i] = q'[j] => i = j
  <2> SUFFICES ASSUME NEW i \in DOMAIN q', NEW j \in DOMAIN q', q'[i] = q'[j] PROVE i = j
    OBVIOUS
  <2>1. i + 1 = j + 1
    BY <1>4, <1>5
  <2> QED
    BY <1>2, <2>1
<1>7. \A i \in DOMAIN q' : q'[i] # s
  BY <1>1, <1>3, <1>4, <1>5
<1>8. ASSUME NEW o \in Slots, o # s
      PROVE  (\E i \in DOMAIN q' : q'[i] = o) <=> (\E i \in DOMAIN q : q[i] = o)
  <2>1. ASSUME NEW i \in DOMAIN q', q'[i] = o PROVE \E j \in DOMAIN q : q[j] = o
    BY <1>5, <2>1
  <2>2. ASSUME NEW i \in DOMAIN q, q[i] = o PROVE \E j \in DOMAIN q' : q'[j] = o
    <3>1. i # 1
      BY <1>1, <1>8, <2>2
    <3>2. i - 1 \in DOMAIN q' /\ (i - 1) + 1 = i
      BY <1>2, <2>2, <3>1
    <3> QED
      BY <1>5, <2>2, <3>2
  <2> QED
    BY <2>1, <2>2
<1>9. OneTime'
  BY <1>6 DEF OneTime, q
<1>10. OnStack(s) = 1 /\ OnStack(s)' = 0
  BY <1>1, <1>3, <1>7 DEF OnStack, q
<1>11. \A o \in Slots : o # s => OnStack(o)' = OnStack(o)
  BY <1>8 DEF OnStack, q
<1> QED
  BY <1>3, <1>9, <1>10, <1>11

\* A released slot goes back.
LEMMA Pushes ==
  ASSUME BitRoom, IInv, Types', NEW w \in Workers, PushIdx(w)
  PROVE  IInv'
<1> USE DEF session, pool, io, local, log
<1> w \in Threads /\ w \in Holders
  BY DEF Threads, Holders
<1>1. PICK s \in Slots : Facts(w, s, "GQCS")
  BY Here DEF PushIdx
<1>2. /\ m_SessionIdxStack' = <<s>> \o m_SessionIdxStack
      /\ UNCHANGED <<m_ioCount, m_flag, kernel, iocp, conn, accepted, orphaned>>
  BY <1>1 DEF PushIdx, Facts
<1>3. Has(w, pc[w], 0, 1, 0, 0, 0) /\ Has(w, "GQCS", 0, 0, 0, 0, 0)
  BY HolderHas DEF PushIdx, ClosedLabels, Unbound
<1>4. /\ ThreadRefs(s)' = ThreadRefs(s) /\ ThreadsClosed(s)' = ThreadsClosed(s) - 1
      /\ ThreadsRecv(s)' = ThreadsRecv(s) /\ ThreadsSend(s)' = ThreadsSend(s)
      /\ ThreadsClosed(s) >= 1
  BY <1>1, <1>3 DEF Facts, Stays, Has, SlotNats
<1>5. IoClosed(s) = 0 /\ FieldsOK(s)
  BY <1>1, <1>4, FieldNats DEF Facts, Places, SlotNats, IInv
<1>6. OnStack(s) = 0
  BY <1>1, <1>5 DEF IoClosed, Facts, SlotNats, FieldsOK
<1>7. /\ OneTime' /\ OnStack(s)' = 1
      /\ \A o \in Slots : o # s => OnStack(o)' = OnStack(o)
  BY <1>2, <1>6, Pushed DEF IInv
<1>8. IoRecv(s)' = IoRecv(s) /\ IoSend(s)' = IoSend(s) /\ Lost(s)' = Lost(s)
  BY <1>2 DEF IoRecv, IoSend, Lost
<1>9. IoClosed(s)' = IoClosed(s) + 1
  BY <1>2, <1>5, <1>6, <1>7 DEF IoClosed, FieldsOK
<1>10. AllRefs(s)' = AllRefs(s) /\ Places(s)' = Places(s) /\ Places(s) = 1
  BY <1>1, <1>4, <1>8, <1>9 DEF AllRefs, Places, Facts, SlotNats
<1>11. Counted(s)' /\ Tokens(s)' /\ Seen(s)'
  BY <1>1, <1>2, <1>4, <1>8, <1>10 DEF Facts, SlotInv, Counted, Tokens, Seen
<1>12. Flagged(s)'
  BY <1>1, <1>2, <1>10 DEF Facts, SlotInv, Flagged, Moves, CasLabels
<1>13. \A o \in Slots : o # s => Same(o)
  BY <1>2, <1>7 DEF Same, Lost
<1>14. ASSUME NEW o \in Slots, o # s PROVE SlotInv(o)'
  BY <1>1, <1>2, <1>13, <1>14, Elsewhere DEF IInv, Facts
<1> QED
  BY <1>7, <1>11, <1>12, <1>14 DEF SlotInv, IInv

-----------------------------------------------------------------------------
(* Threads that come to a slot. *)

\* Thread t, bound to no slot, comes to s.
Comes(t, s, l) ==
  /\ ThreadRefs(s)' = ThreadRefs(s) + RefW(t, l, call'[t])
  /\ ThreadsClosed(s)' = ThreadsClosed(s) + ClosedW(l)
  /\ ThreadsRecv(s)' = ThreadsRecv(s) + RecvW(l)
  /\ ThreadsSend(s)' = ThreadsSend(s) + SendW(l)
  /\ Seers(s)' = Seers(s) + SeerW(l)

LEMMA Coming ==
  ASSUME Types, NEW t \in Threads, NEW s \in Slots, NEW l, pc[t] \in Unbound,
         Goto(t, l), ses' = [ses EXCEPT ![t] = s], NEW op, call' = [call EXCEPT ![t] = op]
  PROVE  Moves(t) /\ ses'[t] = s /\ pc'[t] = l /\ call'[t] = op /\ Comes(t, s, l)
<1>1. Moves(t) /\ ses'[t] = s /\ pc'[t] = l /\ call'[t] = op
  BY DEF Types, Goto, Moves
<1>2. Weighs(t, s) /\ SlotNats(s)
  BY <1>1, Weighed, AllNats
<1>3. /\ On(ses[t] = s, RefW(t, pc[t], call[t])) = 0 /\ On(ses[t] = s, ClosedW(pc[t])) = 0
      /\ On(ses[t] = s, RecvW(pc[t])) = 0 /\ On(ses[t] = s, SendW(pc[t])) = 0
      /\ On(ses[t] = s, SeerW(pc[t])) = 0
  BY UnboundWeight DEF On
<1>4. /\ On(ses'[t] = s, RefW(t, pc'[t], call'[t])) = RefW(t, l, call'[t])
      /\ On(ses'[t] = s, ClosedW(pc'[t])) = ClosedW(l)
      /\ On(ses'[t] = s, RecvW(pc'[t])) = RecvW(l)
      /\ On(ses'[t] = s, SendW(pc'[t])) = SendW(l)
      /\ On(ses'[t] = s, SeerW(pc'[t])) = SeerW(l)
  BY <1>1 DEF On
<1>5. Comes(t, s, l)
  BY <1>2, <1>3, <1>4 DEF Weighs, Comes, SlotNats
<1> QED
  BY <1>1, <1>5

LEMMA Arrived ==
  ASSUME IInv, Types', OneTime', NEW t \in Threads, NEW s \in Slots, Moves(t), ses'[t] = s,
         pc[t] \in Unbound, accepted' = accepted,
         \A o \in Slots : o # s => Same(o),
         SlotInv(s)'
  PROVE  IInv'
<1>1. ASSUME NEW o \in Slots, o # s PROVE SlotInv(o)'
  BY <1>1, Elsewhere DEF IInv
<1> QED
  BY <1>1 DEF IInv

LEMMA CallWeight ==
  ASSUME NEW t \in Contents, NEW l, NEW op,
         l = "SessionLock" \/ (l = "Disconnect" /\ op = "Disconnect")
  PROVE  RefW(t, l, op) = 0 /\ ClosedW(l) = 0 /\ RecvW(l) = 0 /\ SendW(l) = 0 /\ SeerW(l) = 0
<1>1. t \notin Holders /\ ~Sends(t, l, op)
  BY LanServerAssumption DEF Holders, Sends, CallLabels, DiscLabels
<1>2. l \notin TwiceLabels /\ l \notin ClosedLabels /\ l \notin RecvTokens /\ l \notin SendTokens
      /\ l \notin SeeLabels
  BY DEF TwiceLabels, ClosedLabels, RecvTokens, SendTokens, SeeLabels, DiscLabels, LockLabels,
         RecvLabels, SendLabels
<1> QED
  BY <1>1, <1>2 DEF RefW, ClosedW, RecvW, SendW, SeerW, In

LEMMA CallsArrive ==
  ASSUME BitRoom, IInv, Types', NEW t \in Contents, NEW who \in accepted, NEW op \in Calls,
         Call(t, who, op)
  PROVE  IInv'
<1> USE DEF session, pool, io, log
<1> t \in Threads
  BY DEF Threads
<1>1. PICK s \in Slots : s = who[1]
  BY DEF IInv, Types
<1>2. PICK l \in {"SessionLock", "Disconnect"} :
        Goto(t, l) /\ (l = "Disconnect" => op = "Disconnect")
  BY DEF Call, Calls
<1>3. /\ Types /\ pc[t] \in Unbound
      /\ ses' = [ses EXCEPT ![t] = s] /\ call' = [call EXCEPT ![t] = op]
  BY <1>1 DEF Call, IInv, Unbound
<1>4. Moves(t) /\ ses'[t] = s /\ pc'[t] = l /\ call'[t] = op /\ Comes(t, s, l)
  BY <1>2, <1>3, Coming
<1>5. RefW(t, l, op) = 0 /\ ClosedW(l) = 0 /\ RecvW(l) = 0 /\ SendW(l) = 0 /\ SeerW(l) = 0
  BY <1>2, CallWeight
<1>6. SlotInv(s) /\ SlotNats(s)
  BY <1>3, AllNats DEF IInv
<1>7. /\ ThreadRefs(s)' = ThreadRefs(s) /\ ThreadsClosed(s)' = ThreadsClosed(s)
      /\ ThreadsRecv(s)' = ThreadsRecv(s) /\ ThreadsSend(s)' = ThreadsSend(s)
      /\ Seers(s)' = Seers(s)
  BY <1>4, <1>5, <1>6 DEF Comes, SlotNats
<1>8. UNCHANGED <<m_ioCount, m_flag, kernel, iocp, m_SessionIdxStack, accepted, conn, orphaned>>
  BY DEF Call
<1>9. IoKept(s) /\ Lost(s)' = Lost(s) /\ \A u \in Slots : Same(u)
  BY <1>8 DEF IoKept, IoRecv, IoSend, IoClosed, OnStack, Same, Lost
<1>10. AllRefs(s)' = AllRefs(s) /\ Places(s)' = Places(s)
  BY <1>7, <1>9 DEF AllRefs, Places, IoKept
<1>11. Counted(s)' /\ Tokens(s)' /\ Seen(s)'
  BY <1>6, <1>7, <1>8, <1>9, <1>10 DEF SlotInv, Counted, Tokens, Seen, IoKept
<1>12. Flagged(s)'
  BY <1>1, <1>6, <1>8, <1>10 DEF SlotInv, Flagged
<1>13. OneTime'
  BY <1>8 DEF IInv, OneTime
<1> QED
  BY <1>3, <1>4, <1>8, <1>9, <1>11, <1>12, <1>13, Arrived DEF SlotInv

LEMMA Takes ==
  ASSUME BitRoom, IInv, Types', NEW w \in Workers, NEW s \in Slots, NEW c \in Completions,
         TakeCompletion(w, s, c)
  PROVE  IInv'
<1> USE DEF session, pool, io, log
<1> w \in Threads /\ w \in Holders
  BY DEF Threads, Holders
<1> DEFINE l == Entry(c)
<1>1. Types /\ pc[w] \in Unbound /\ Goto(w, l) /\ ses' = [ses EXCEPT ![w] = s]
  BY DEF TakeCompletion, IInv, Unbound
<1> HIDE DEF l
<1>2. call' = [call EXCEPT ![w] = call[w]]
  BY <1>1 DEF TakeCompletion, Types
<1>3. Moves(w) /\ ses'[w] = s /\ pc'[w] = l /\ call'[w] = call[w] /\ Comes(w, s, l)
  BY <1>1, <1>2, Coming
<1>4. SlotInv(s) /\ SlotNats(s) /\ FieldsOK(s)
  BY <1>1, AllNats, FieldNats DEF IInv
<1>5. UNCHANGED <<m_ioCount, m_flag, kernel, m_SessionIdxStack, accepted, conn, orphaned>>
  BY DEF TakeCompletion
<1>6. /\ iocp[s][c] > 0
      /\ \A j \in Completions : iocp'[s][j] = IF j = c THEN iocp[s][j] - 1 ELSE iocp[s][j]
      /\ \A o \in Slots : o # s => iocp'[o] = iocp[o]
  BY <1>1 DEF TakeCompletion, Types
<1>7. /\ c = "recv"    => l = "RecvComplete"
      /\ c = "fin"     => l = "fin"
      /\ c = "send"    => l = "SendComplete"
      /\ c = "release" => l = "ReleaseComplete"
  BY DEF l, Entry
<1>8. /\ c = "release" => Has(w, l, 0, 1, 0, 0, 0)
      /\ c \in {"recv", "fin"} => Has(w, l, 1, 0, 1, 0, 0)
      /\ c = "send" => Has(w, l, 1, 0, 0, 1, 0)
  BY <1>7, HolderHas DEF ClosedLabels, RecvLabels, SendLabels
<1>9. OnStack(s)' = OnStack(s) /\ Lost(s)' = Lost(s)
  BY <1>5 DEF OnStack, Lost
<1>10. /\ IoRecv(s)' = IoRecv(s) - (IF c \in {"recv", "fin"} THEN 1 ELSE 0)
       /\ IoRecv(s) >= (IF c \in {"recv", "fin"} THEN 1 ELSE 0)
  BY <1>4, <1>5, <1>6 DEF IoRecv, FieldsOK, Completions
<1>11. /\ IoSend(s)' = IoSend(s) - (IF c = "send" THEN 1 ELSE 0)
       /\ IoSend(s) >= (IF c = "send" THEN 1 ELSE 0)
  BY <1>4, <1>5, <1>6 DEF IoSend, FieldsOK, Completions
<1>12. /\ IoClosed(s)' = IoClosed(s) - (IF c = "release" THEN 1 ELSE 0)
       /\ IoClosed(s) >= (IF c = "release" THEN 1 ELSE 0)
  BY <1>4, <1>5, <1>6, <1>9 DEF IoClosed, FieldsOK, Completions, SlotNats
<1>13. c \in {"recv", "fin", "send", "release"}
  BY DEF Completions
<1>14. /\ ThreadRefs(s)' = ThreadRefs(s) + (IF c \in {"recv", "fin", "send"} THEN 1 ELSE 0)
       /\ ThreadsClosed(s)' = ThreadsClosed(s) + (IF c = "release" THEN 1 ELSE 0)
       /\ ThreadsRecv(s)' = ThreadsRecv(s) + (IF c \in {"recv", "fin"} THEN 1 ELSE 0)
       /\ ThreadsSend(s)' = ThreadsSend(s) + (IF c = "send" THEN 1 ELSE 0)
       /\ Seers(s)' = Seers(s)
  BY <1>3, <1>4, <1>8, <1>13 DEF Comes, Has, SlotNats
<1>15. Places(s)' = Places(s)
  BY <1>4, <1>12, <1>14 DEF Places, SlotNats
<1>16. AllRefs(s)' = AllRefs(s)
  BY <1>4, <1>9, <1>10, <1>11, <1>13, <1>14 DEF AllRefs, SlotNats
<1>17. Counted(s)' /\ Seen(s)'
  BY <1>4, <1>5, <1>14, <1>15, <1>16 DEF SlotInv, Counted, Seen
<1>18. Tokens(s)'
  BY <1>4, <1>5, <1>9, <1>10, <1>11, <1>13, <1>14 DEF SlotInv, Tokens, SlotNats
<1>19. l \notin CasLabels
  BY <1>7, <1>13 DEF CasLabels
<1>20. Flagged(s)'
  BY <1>3, <1>4, <1>5, <1>15, <1>19 DEF SlotInv, Flagged, Moves
<1>21. \A o \in Slots : o # s => Same(o)
  BY <1>5, <1>6 DEF Same, OnStack, Lost
<1>22. OneTime'
  BY <1>5 DEF IInv, OneTime
<1> QED
  BY <1>1, <1>3, <1>5, <1>17, <1>18, <1>20, <1>21, <1>22, Arrived DEF SlotInv

LEMMA NoneOfFour ==
  ASSUME NEW i \in Nat, NEW j \in Nat, NEW k \in Nat, NEW n \in Nat, i + j + k + n = 0
  PROVE  i = 0 /\ j = 0 /\ k = 0 /\ n = 0
  OBVIOUS

LEMMA Accepts ==
  ASSUME BitRoom, IInv, Types', NEW t \in Threads, AcceptSession(t)
  PROVE  IInv'
<1> USE DEF session, pool, io, local, log
<1>0. t \in Holders
  BY DEF AcceptSession, Holders
<1>1. PICK s : s = Head(m_SessionIdxStack)
  OBVIOUS
<1>2. /\ m_SessionIdxStack # <<>> /\ m_SessionIdxStack' = Tail(m_SessionIdxStack)
      /\ ses' = [ses EXCEPT ![t] = s] /\ Goto(t, "accCount") /\ pc[t] \in Unbound
      /\ m_flag' = [m_flag EXCEPT ![s] = FALSE] /\ conn' = [conn EXCEPT ![s] = "up"]
      /\ orphaned' = orphaned \ {s} /\ Types /\ OneTime
      /\ UNCHANGED <<m_ioCount, kernel, iocp, accepted, call>>
  BY <1>1 DEF AcceptSession, IInv, Unbound
<1>3. /\ s \in Slots /\ OneTime' /\ OnStack(s) = 1 /\ OnStack(s)' = 0
      /\ \A o \in Slots : o # s => OnStack(o)' = OnStack(o)
  BY <1>1, <1>2, Popped
<1>4. call' = [call EXCEPT ![t] = call[t]]
  BY <1>2 DEF Types
<1>5. Moves(t) /\ ses'[t] = s /\ pc'[t] = "accCount" /\ Comes(t, s, "accCount") /\ call'[t] = call[t]
  <2>1. /\ Types /\ s \in Slots /\ pc[t] \in Unbound /\ Goto(t, "accCount")
        /\ ses' = [ses EXCEPT ![t] = s]
    BY <1>2, <1>3
  <2> HIDE <1>1, <1>2, <1>3 DEF session, pool, io, local, log
  <2> QED
    BY <1>4, <2>1, Coming
<1>6. Has(t, "accCount", 0, 1, 0, 0, 0)
  BY <1>0, HolderHas DEF ClosedLabels
<1>7. SlotInv(s) /\ SlotNats(s) /\ FieldsOK(s)
  BY <1>2, <1>3, AllNats, FieldNats DEF IInv
<1>8. /\ ThreadRefs(s)' = ThreadRefs(s) /\ ThreadsClosed(s)' = ThreadsClosed(s) + 1
      /\ ThreadsRecv(s)' = ThreadsRecv(s) /\ ThreadsSend(s)' = ThreadsSend(s)
      /\ Seers(s)' = Seers(s)
  BY <1>5, <1>6, <1>7 DEF Comes, Has, SlotNats
<1>9. IoRecv(s)' = IoRecv(s) /\ IoSend(s)' = IoSend(s)
  BY <1>2 DEF IoRecv, IoSend
<1>10. IoClosed(s)' = IoClosed(s) - 1 /\ IoClosed(s) >= 1
  BY <1>2, <1>3, <1>7 DEF IoClosed, FieldsOK
<1>11. Places(s)' = Places(s) /\ Places(s) >= 1
  BY <1>7, <1>8, <1>10 DEF Places, SlotNats
<1>12. Places(s) = 1 /\ AllRefs(s) = 0
  BY <1>11, <1>7 DEF SlotInv, Counted
<1>13. ThreadsSend(s) <= ThreadRefs(s)
  BY <1>2, <1>3, Included
<1>14. Lost(s) = 0 /\ IoSend(s) = 0 /\ ThreadsSend(s) = 0
  <2>1. /\ IoRecv(s) \in Nat /\ IoSend(s) \in Nat /\ ThreadRefs(s) \in Nat
        /\ Lost(s) \in Nat /\ ThreadsSend(s) \in Nat
    BY <1>7 DEF SlotNats
  <2>2. IoRecv(s) + IoSend(s) + ThreadRefs(s) + Lost(s) = 0
    BY <1>12 DEF AllRefs
  <2>3. IoSend(s) = 0 /\ ThreadRefs(s) = 0 /\ Lost(s) = 0
    BY <2>1, <2>2, NoneOfFour
  <2> QED
    BY <2>1, <2>3, <1>13, SMT
<1>15. Lost(s)' = 0 /\ \A o \in Slots : o # s => Lost(o)' = Lost(o)
  BY <1>2, <1>3 DEF Lost, Types
<1>16. AllRefs(s)' = AllRefs(s)
  BY <1>8, <1>9, <1>14, <1>15 DEF AllRefs
<1>17. Counted(s)' /\ Seen(s)'
  BY <1>11, <1>12, <1>16 DEF Counted, Seen
<1>18. Tokens(s)'
  BY <1>7, <1>8, <1>9, <1>14, <1>15 DEF SlotInv, Tokens, SlotNats
<1>19. Flagged(s)'
  BY <1>2, <1>5, <1>7, <1>11, <1>12 DEF SlotInv, Flagged, Moves, CasLabels
<1>20. \A o \in Slots : o # s => Same(o)
  BY <1>2, <1>3, <1>15 DEF Same, Types
<1> QED
  BY <1>2, <1>3, <1>5, <1>17, <1>18, <1>19, <1>20, Arrived DEF SlotInv

-----------------------------------------------------------------------------
(* The invariant holds, and with it what the runs check. *)

LEMMA InitInv == Init => IInv
<1> SUFFICES ASSUME Init PROVE IInv
  OBVIOUS
<1>1. Types
  BY InitTypes
<1>2. MaxSessions \in Nat \ {0} /\ m_SessionIdxStack = [i \in 1 .. MaxSessions |-> MaxSessions - i]
  BY SlotsExist DEF Init
<1>3. OneTime
  BY <1>2 DEF OneTime
<1>4. \A t \in Threads : pc[t] \in Unbound
  BY DEF Init, Unbound, Home
<1>5. ASSUME NEW s \in Slots PROVE SlotInv(s)
  <2>1. \A T \in SUBSET Threads : \A L : L \cap Unbound = {} => At(T, L, s) = {}
    BY <1>4 DEF At
  <2>2. \A T \in SUBSET Threads : \A L : L \cap Unbound = {} => Count(T, L, s) = 0
    BY <2>1, FS_EmptySet DEF Count
  <2>3. /\ HoldLabels \cap Unbound = {} /\ TwiceLabels \cap Unbound = {}
        /\ ClosedLabels \cap Unbound = {} /\ RecvTokens \cap Unbound = {}
        /\ SendTokens \cap Unbound = {} /\ CallLabels \cap Unbound = {}
    BY DEF Unbound, HoldLabels, TwiceLabels, WorkLabels, LockLabels, ClosedLabels, RecvTokens,
           SendTokens, RecvLabels, SendLabels, CallLabels, DiscLabels
  <2>4. Cardinality(Sending(s)) = 0
    <3>1. Contents \in SUBSET Threads
      BY DEF Threads
    <3>2. Sending(s) = {}
      BY <2>1, <2>3, <3>1 DEF Sending
    <3> QED
      BY <3>2, FS_EmptySet
  <2>5. Holders \in SUBSET Threads /\ Threads \in SUBSET Threads
    BY DEF Holders, Threads
  <2>6. ThreadRefs(s) = 0 /\ ThreadsClosed(s) = 0 /\ ThreadsRecv(s) = 0 /\ ThreadsSend(s) = 0
    BY <2>2, <2>3, <2>4, <2>5 DEF ThreadRefs, ThreadsClosed, ThreadsRecv, ThreadsSend
  <2>7. OnStack(s) = 1
    <3>1. MaxSessions - s \in 1 .. MaxSessions /\ MaxSessions - (MaxSessions - s) = s
      BY <1>2 DEF Slots
    <3>2. \E i \in DOMAIN m_SessionIdxStack : m_SessionIdxStack[i] = s
      BY <1>2, <3>1
    <3> QED
      BY <3>2 DEF OnStack
  <2>8. /\ kernel[s].recv = 0 /\ kernel[s].send = 0 /\ \A c \in Completions : iocp[s][c] = 0
        /\ Lost(s) = 0
    BY DEF Init, Ops, Lost
  <2>9. IoRecv(s) = 0 /\ IoSend(s) = 0 /\ IoClosed(s) = 1
    BY <2>7, <2>8 DEF IoRecv, IoSend, IoClosed, Completions
  <2>10. AllRefs(s) = 0 /\ Places(s) = 1
    BY <2>6, <2>8, <2>9 DEF AllRefs, Places
  <2>11. Counted(s) /\ Tokens(s) /\ Seen(s)
    BY <2>6, <2>8, <2>9, <2>10 DEF Counted, Tokens, Seen
  <2>12. m_ioCount[s] = 0 /\ accepted = {}
    BY DEF Init
  <2>13. \A t \in Threads : pc[t] \notin CasLabels
    BY <1>4 DEF Unbound, CasLabels
  <2>14. Flagged(s)
    BY <2>12, <2>13 DEF Flagged
  <2> QED
    BY <2>11, <2>14 DEF SlotInv
<1> QED
  BY <1>1, <1>3, <1>5 DEF IInv

LEMMA NextInv == BitRoom /\ IInv /\ [Next]_vars => IInv'
<1> SUFFICES ASSUME BitRoom, IInv, [Next]_vars PROVE IInv'
  OBVIOUS
<1>1. Types'
  BY NextTypes DEF IInv
<1>2. CASE UNCHANGED vars
  <2>1. UNCHANGED <<m_ioCount, m_flag, m_SessionIdxStack, accepted, kernel, iocp, conn, pc, ses,
                    call, orphaned>>
    BY <1>2 DEF vars, session, pool, io, local, log
  <2>2. ASSUME NEW o \in Slots PROVE SlotInv(o)'
    <3>1. IoKept(o) /\ Lost(o)' = Lost(o)
      BY <2>1 DEF IoKept, IoRecv, IoSend, IoClosed, OnStack, Lost
    <3> QED
      BY <2>1, <3>1, SumsKept DEF IInv
  <2>3. OneTime'
    BY <2>1 DEF IInv, OneTime
  <2> QED
    BY <1>1, <2>2, <2>3 DEF IInv
<1>3. ASSUME AcceptStep(Acceptor) PROVE IInv'
  <2>1. Acceptor \in Threads
    BY DEF Threads
  <2> QED
    BY <1>1, <1>3, <2>1, Accepts, Opens, Losing, QuietAccept DEF AcceptStep
<1>4. ASSUME NEW w \in Workers, WorkerStep(w) PROVE IInv'
  <2>1. w \in Threads
    BY DEF Threads
  <2> QED
    BY <1>1, <1>4, <2>1, QuietWork, QuietCancels, FlagsOff, Posts, WSACalls, Releases, Pushes
    DEF WorkerStep
<1>5. ASSUME NEW t \in Threads, IoStep(t) PROVE IInv'
  BY <1>1, <1>5, QuietCancels, WSACalls, Decs, CASes, Locks, Mismatches, QuietCalls, LastDecs
  DEF IoStep
<1>6. ASSUME NEW t \in Contents, SendStep(t) PROVE IInv'
  <2>1. t \in Threads
    BY DEF Threads
  <2> QED
    BY <1>1, <1>6, <2>1, Locks, Undos, QuietCalls, Posts DEF SendStep
<1> QED
  BY <1>1, <1>2, <1>3, <1>4, <1>5, <1>6, Takes, CallsArrive, KernelSteps DEF Next

LEMMA InvHolds == ASSUME BitRoom PROVE Spec => []IInv
<1>1. IInv /\ [Next]_vars => IInv'
  BY NextInv
<1> QED
  BY InitInv, <1>1, PTL DEF Spec

\* What the run counts is what the invariant counts.
LEMMA SameSums ==
  ASSUME Types, OneTime, NEW s \in Slots
  PROVE  Refs(s) = AllRefs(s) /\ Closed(s) = Places(s)
<1>1. FieldsOK(s) /\ SlotNats(s)
  BY FieldNats, AllNats
<1>2. /\ Count(Workers \cup {Acceptor}, WorkLabels \cup {"OnAccept"}, s)
           = Count(Holders, HoldLabels, s)
      /\ Count(Threads, {"recvError", "sendError"} \cup DiscLabels \cup LockLabels, s)
           = Count(Threads, TwiceLabels, s)
      /\ {t \in At(Contents, CallLabels, s) : call[t] = "SendPacket"} = Sending(s)
      /\ Count(Threads, {"accCount", "ReleaseComplete", "Push"}, s) = ThreadsClosed(s)
  BY DEF Holders, HoldLabels, TwiceLabels, Sending, ThreadsClosed, ClosedLabels
<1>3. Cardinality({i \in DOMAIN m_SessionIdxStack : m_SessionIdxStack[i] = s}) = OnStack(s)
  <2>1. CASE \E i \in DOMAIN m_SessionIdxStack : m_SessionIdxStack[i] = s
    <3>1. PICK i \in DOMAIN m_SessionIdxStack : m_SessionIdxStack[i] = s
      BY <2>1
    <3>2. {j \in DOMAIN m_SessionIdxStack : m_SessionIdxStack[j] = s} = {i}
      BY <3>1 DEF OneTime
    <3> QED
      BY <2>1, <3>2, FS_Singleton DEF OnStack
  <2>2. CASE ~\E i \in DOMAIN m_SessionIdxStack : m_SessionIdxStack[i] = s
    <3>1. {j \in DOMAIN m_SessionIdxStack : m_SessionIdxStack[j] = s} = {}
      BY <2>2
    <3> QED
      BY <2>2, <3>1, FS_EmptySet DEF OnStack
  <2> QED
    BY <2>1, <2>2
<1>4. /\ Count(Holders, HoldLabels, s) \in Nat /\ Count(Threads, TwiceLabels, s) \in Nat
      /\ Cardinality(Sending(s)) \in Nat
  <2>1. /\ Holders \in SUBSET Threads /\ Threads \in SUBSET Threads
        /\ Sending(s) \in SUBSET Threads
    BY DEF Threads, Holders, Sending, At
  <2> QED
    BY <2>1, FiniteAt, FiniteSubset
<1>5. Closed(s) = Places(s)
  BY <1>1, <1>2, <1>3 DEF Closed, Places, IoClosed, FieldsOK, SlotNats
<1>6. Refs(s) = kernel[s].recv + kernel[s].send + iocp[s].recv + iocp[s].fin + iocp[s].send
                + Count(Holders, HoldLabels, s) + Count(Threads, TwiceLabels, s)
                + Cardinality(Sending(s)) + Lost(s)
  BY <1>2 DEF Refs, Lost
<1>7. Refs(s) = AllRefs(s)
  BY <1>1, <1>4, <1>6 DEF AllRefs, IoRecv, IoSend, ThreadRefs, FieldsOK, SlotNats
<1> QED
  BY <1>5, <1>7

\* Every variable keeps its type, the count m_ioCount among them: it never becomes
\* negative, whoever raises and lowers it (SessionLock, Disconnect, WSARecv).
THEOREM TypesOK == ASSUME BitRoom PROVE Spec => []TypeOK
<1>1. IInv => TypeOK
  <2> SUFFICES ASSUME IInv PROVE TypeOK
    OBVIOUS
  <2>1. \A s \in Slots : m_ioCount[s] \in Nat
    <3> SUFFICES ASSUME NEW s \in Slots PROVE m_ioCount[s] \in Nat
      OBVIOUS
    <3>1. m_ioCount[s] >= 0 /\ m_ioCount[s] \in Int
      BY CountInRange DEF IInv, Types
    <3> QED
      BY <3>1
  <2>2. m_ioCount \in [Slots -> Nat]
    BY <2>1 DEF IInv, Types
  <2> QED
    BY <2>2 DEF IInv, Types, TypeOK
<1> QED
  BY InvHolds, <1>1, PTL

\* Whatever the numbers of threads and sessions, every slot is in one place, and the
\* count of an open session is the number of references to it: a session is released
\* once, when no operation, completion or call refers to it
\* (DecrementIoCountAndMaybeDeleteSession, SessionLock, SessionUnLock, Disconnect).
THEOREM RefCountHolds == ASSUME BitRoom PROVE Spec => []RefCount
<1>1. IInv => RefCount
  BY SameSums DEF IInv, SlotInv, Counted, RefCount
<1> QED
  BY InvHolds, <1>1, PTL

\* A count of zero never goes unnoticed, except where a Disconnect with the id of
\* another session gave the last reference back: a thread is on its way to the CAS.
THEOREM ZeroIsSeenHolds == ASSUME BitRoom PROVE Spec => []ZeroIsSeen
<1>1. IInv => ZeroIsSeen
  BY SameSums DEF IInv, SlotInv, Seen, Seers, SeeLabels, ZeroIsSeen, ZeroIsLookedAt, Open
<1> QED
  BY InvHolds, <1>1, PTL

\* A session has one receive at a time, and one send while m_flag is set: the
\* overlapped structures of a session have one user each (RecvPacket, SendComplete,
\* Unicast).
THEOREM SingleIOHolds == ASSUME BitRoom PROVE Spec => []SingleIO
<1>1. ASSUME IInv, NEW s \in Slots
      PROVE  /\ kernel[s].recv + iocp[s].recv + iocp[s].fin
                  + Count(Threads, RecvLabels \cup {"recvError"}, s) <= 1
             /\ kernel[s].send + iocp[s].send + Count(Workers, SendLabels \cup {"sendError"}, s)
                  <= IF m_flag[s] THEN 1 ELSE 0
  <2>1. SlotInv(s) /\ FieldsOK(s) /\ SlotNats(s)
    BY <1>1, FieldNats, AllNats DEF IInv
  <2>2. Workers \in SUBSET Threads /\ Threads \in SUBSET Threads
    BY DEF Threads
  <2>3. /\ Count(Threads, RecvLabels \cup {"recvError"}, s) <= ThreadsRecv(s)
        /\ Count(Workers, SendLabels \cup {"sendError"}, s) <= ThreadsSend(s)
    BY <2>2, SubCount DEF ThreadsRecv, ThreadsSend, RecvTokens, SendTokens
  <2>4. /\ Count(Threads, RecvLabels \cup {"recvError"}, s) \in Nat
        /\ Count(Workers, SendLabels \cup {"sendError"}, s) \in Nat
    BY <2>2, FiniteAt
  <2>5. IoRecv(s) + ThreadsRecv(s) <= 1 /\ IoSend(s) + ThreadsSend(s) <= IF m_flag[s] THEN 1 ELSE 0
    BY <2>1 DEF SlotInv, Tokens, SlotNats
  <2>6. kernel[s].recv + iocp[s].recv + iocp[s].fin
          + Count(Threads, RecvLabels \cup {"recvError"}, s) <= 1
    BY <2>1, <2>3, <2>4, <2>5 DEF IoRecv, FieldsOK, SlotNats
  <2>7. kernel[s].send + iocp[s].send + Count(Workers, SendLabels \cup {"sendError"}, s)
          <= IF m_flag[s] THEN 1 ELSE 0
    BY <2>1, <2>3, <2>4, <2>5 DEF IoSend, FieldsOK, SlotNats
  <2> QED
    BY <2>6, <2>7
<1>2. IInv => SingleIO
  BY <1>1 DEF SingleIO
<1> QED
  BY InvHolds, <1>2, PTL

-----------------------------------------------------------------------------
(* Wakeups.  No message is forgotten in a queue, and no queue grows past    *)
(* its limit unseen.                                                        *)

\* Who sends what is queued for s: an operation, a completion, or a thread.
Pending(s)   == kernel[s].send > 0 \/ iocp[s].send > 0
IsSender(t, s) == ses[t] = s /\ pc[t] \in SendTokens
Sender(s)    == Pending(s) \/ \E t \in Threads : IsSender(t, s)

\* Who is about to try for the flag of s.
Wakers       == {"post", "recheck", "flagOn"}
Wakes(t, s)  == ses[t] = s /\ pc[t] \in Wakers
Waker(s)     == \E t \in Threads : Wakes(t, s)

\* Who is about to find that the queue of s is too long and to disconnect.
ChaseLabels  == {"post", "limit", "Disconnect", "discLive"}
Chases(t, s) == /\ t \in Contents /\ ses[t] = s /\ id[t] = m_SeqID[s]
                /\ call[t] = "SendPacket" /\ pc[t] \in ChaseLabels
Chased(s)    == \E t \in Threads : Chases(t, s)

Full(s) == Len(m_sendBuffer[s]) >= SendBufferLimit

\* The inductive invariant for one slot.
Drained(s)  == \/ m_sendBuffer[s] = <<>>
               \/ OnStack(s) = 0 /\ \A t \in Threads : ses[t] = s => pc[t] # "Push"
FlagKept(s) == m_blive[s] /\ m_flag[s] => Sender(s)
Woken(s)    == m_blive[s] /\ m_sendBuffer[s] # <<>> => Sender(s) \/ Waker(s)
Limited(s)  == m_blive[s] /\ Full(s) => Chased(s)

SendInv(s) == Drained(s) /\ FlagKept(s) /\ Woken(s) /\ Limited(s)

\* A thread that pushes has the id of the session in its slot.
Known == \A t \in Threads : pc[t] = "push" => id[t] = m_SeqID[ses[t]]

WInv == Known /\ \A s \in Slots : SendInv(s)

-----------------------------------------------------------------------------
(* A call that holds a session keeps its slot open. *)

LEMMA HeldOpen ==
  ASSUME BitRoom, IInv, NEW t \in Threads,
         \/ pc[t] \in LockLabels \cup DiscLabels
         \/ t \in Contents /\ pc[t] = "Disconnect" /\ call[t] = "SendPacket"
  PROVE  /\ OnStack(ses[t]) = 0 /\ ~ReleaseBit(m_ioCount[ses[t]])
         /\ \A u \in Threads : ses[u] = ses[t] => pc[u] \notin ClosedLabels
<1> PICK s \in Slots : s = ses[t]
  BY DEF IInv, Types
<1>1. Types /\ SlotInv(s) /\ SlotNats(s) /\ FieldsOK(s)
  BY AllNats, FieldNats DEF IInv
<1>2. Threads \in SUBSET Threads /\ Holders \in SUBSET Threads /\ Sending(s) \in SUBSET Threads
  BY DEF Threads, Holders, Sending, At
<1>3. /\ IsFiniteSet(At(Threads, TwiceLabels, s)) /\ Count(Threads, TwiceLabels, s) \in Nat
      /\ Count(Holders, HoldLabels, s) \in Nat
      /\ IsFiniteSet(Sending(s)) /\ Cardinality(Sending(s)) \in Nat
      /\ IsFiniteSet(At(Threads, ClosedLabels, s))
  BY <1>2, FiniteAt, FiniteSubset
<1>4. ThreadRefs(s) > 0
  <2>1. CASE pc[t] \in LockLabels \cup DiscLabels
    <3>1. t \in At(Threads, TwiceLabels, s)
      BY <2>1 DEF At, TwiceLabels
    <3>2. Count(Threads, TwiceLabels, s) # 0
      BY <1>3, <3>1, FS_EmptySet DEF Count
    <3> QED
      BY <1>3, <3>2 DEF ThreadRefs
  <2>2. CASE t \in Contents /\ pc[t] = "Disconnect" /\ call[t] = "SendPacket"
    <3>1. t \in Sending(s)
      BY <2>2 DEF Sending, At, CallLabels
    <3>2. Cardinality(Sending(s)) # 0
      BY <1>3, <3>1, FS_EmptySet
    <3> QED
      BY <1>3, <3>2 DEF ThreadRefs
  <2> QED
    BY <2>1, <2>2
<1>5. AllRefs(s) > 0
  BY <1>1, <1>4 DEF AllRefs, SlotNats
<1>6. Places(s) = 0 /\ m_ioCount[s] < RELEASE /\ m_ioCount[s] \in Int
  <2>1. /\ Places(s) \in {0, 1} /\ AllRefs(s) \in Nat /\ AllRefs(s) + 1 < RELEASE
        /\ Places(s) = 0 => m_ioCount[s] = AllRefs(s)
        /\ Places(s) = 1 => AllRefs(s) = 0
    BY <1>1, CountInRange
  <2> QED
    BY <1>5, <2>1, LanServerAssumption
<1>7. OnStack(s) = 0 /\ ThreadsClosed(s) = 0
  BY <1>1, <1>6 DEF Places, IoClosed, SlotNats, FieldsOK
<1>8. At(Threads, ClosedLabels, s) = {}
  BY <1>3, <1>7, FS_EmptySet DEF ThreadsClosed, Count
<1>9. ~ReleaseBit(m_ioCount[s])
  BY <1>6, LanServerAssumption DEF ReleaseBit
<1> QED
  BY <1>7, <1>8, <1>9 DEF At

\* A thread that sends does so with the flag set.
LEMMA SenderHasFlag ==
  ASSUME IInv, NEW t \in Threads, pc[t] \in SendTokens
  PROVE  m_flag[ses[t]]
<1> PICK s \in Slots : s = ses[t]
  BY DEF IInv, Types
<1>1. SlotInv(s) /\ SlotNats(s)
  BY AllNats DEF IInv
<1>2. IsFiniteSet(At(Threads, SendTokens, s)) /\ t \in At(Threads, SendTokens, s)
  <2>1. Threads \in SUBSET Threads
    OBVIOUS
  <2>2. IsFiniteSet(At(Threads, SendTokens, s))
    BY <2>1, FiniteAt
  <2> QED
    BY <2>2 DEF At
<1>3. ThreadsSend(s) # 0
  BY <1>2, FS_EmptySet DEF ThreadsSend, Count
<1>4. IoSend(s) + ThreadsSend(s) <= IF m_flag[s] THEN 1 ELSE 0
  BY <1>1 DEF SlotInv, Tokens
<1> QED
  BY <1>1, <1>3, <1>4 DEF SlotNats

-----------------------------------------------------------------------------
(* One step, slot by slot. *)

\* Thread t is the only one that moves, its id included.
Alone(t) == Moves(t) /\ \A u \in Threads : u # t => id'[u] = id[u]

LEMMA SenderStays ==
  ASSUME NEW t \in Threads, Alone(t), NEW s \in Slots, Sender(s),
         Pending(s) => Sender(s)', IsSender(t, s) => Sender(s)'
  PROVE  Sender(s)'
<1>1. ASSUME NEW u \in Threads, u # t, IsSender(u, s) PROVE IsSender(u, s)'
  BY <1>1 DEF Alone, Moves, IsSender
<1> QED
  BY <1>1 DEF Sender

LEMMA WakerStays ==
  ASSUME NEW t \in Threads, Alone(t), NEW s \in Slots, Waker(s)
  PROVE  Waker(s)' \/ Wakes(t, s)
<1>1. ASSUME NEW u \in Threads, u # t, Wakes(u, s) PROVE Wakes(u, s)'
  BY <1>1 DEF Alone, Moves, Wakes
<1> QED
  BY <1>1 DEF Waker

LEMMA ChaserStays ==
  ASSUME NEW t \in Threads, Alone(t), NEW s \in Slots, m_SeqID'[s] = m_SeqID[s], Chased(s)
  PROVE  Chased(s)' \/ Chases(t, s)
<1>1. ASSUME NEW u \in Threads, u # t, Chases(u, s) PROVE Chases(u, s)'
  BY <1>1 DEF Alone, Moves, Chases
<1> QED
  BY <1>1 DEF Chased

\* Nothing is asked of slot s that was not asked before.
Easier(s) ==
  /\ m_blive'[s] => m_blive[s]
  /\ m_flag'[s] => m_flag[s]
  /\ m_sendBuffer'[s] # <<>> => m_sendBuffer[s] # <<>>
  /\ Full(s)' => Full(s)
  /\ m_SeqID'[s] = m_SeqID[s]

\* The part of Drained that a step may break.
StaysDrained(t, s) ==
  \/ m_sendBuffer'[s] = <<>>
  \/ /\ OnStack(s)' = OnStack(s)
     /\ ses'[t] = s => pc'[t] # "Push"

\* Slot s keeps its invariant if thread t leaves somebody in its place, or is not needed.
LEMMA SlotStep ==
  ASSUME NEW t \in Threads, Alone(t), NEW s \in Slots, SendInv(s), Easier(s),
         StaysDrained(t, s),
         m_blive'[s] /\ Pending(s) => Sender(s)',
         m_blive'[s] /\ IsSender(t, s) => Sender(s)',
         m_blive'[s] /\ Wakes(t, s) /\ m_sendBuffer'[s] # <<>> => Sender(s)' \/ Waker(s)',
         m_blive'[s] /\ Chases(t, s) /\ Full(s)' => Chased(s)'
  PROVE  SendInv(s)'
<1>1. Drained(s)'
  BY DEF SendInv, Drained, StaysDrained, Easier, Alone, Moves
<1>2. m_blive'[s] /\ Sender(s) => Sender(s)'
  BY SenderStays
<1>3. FlagKept(s)'
  BY <1>2 DEF SendInv, FlagKept, Easier
<1>4. Woken(s)'
  BY <1>2, WakerStays DEF SendInv, Woken, Easier
<1>5. Limited(s)'
  BY ChaserStays DEF SendInv, Limited, Easier
<1> QED
  BY <1>1, <1>3, <1>4, <1>5 DEF SendInv

-----------------------------------------------------------------------------
(* Steps that leave the queue and the flag alone. *)

\* What a completion that is posted adds to the sends.
LEMMA PostedSend ==
  ASSUME Types, NEW s \in Slots, NEW c \in Completions, Posted(s, c), NEW o \in Slots
  PROVE  /\ iocp[o].send \in Nat /\ iocp'[o].send \in Nat
         /\ iocp'[o].send = IF o = s /\ c = "send" THEN iocp[o].send + 1 ELSE iocp[o].send
<1>1. iocp \in [Slots -> [Completions -> Nat]] /\ "send" \in Completions
  BY DEF Types, Completions
<1>2. iocp' = [iocp EXCEPT ![s] = [iocp[s] EXCEPT ![c] = iocp[s][c] + 1]]
  BY DEF Posted
<1>3. CASE o # s
  BY <1>1, <1>2, <1>3
<1>4. CASE o = s
  <2>1. iocp'[o] = [iocp[o] EXCEPT ![c] = iocp[o][c] + 1] /\ iocp[o] \in [Completions -> Nat]
    BY <1>1, <1>2, <1>4
  <2>2. CASE c = "send"
    BY <1>1, <1>4, <2>1, <2>2
  <2>3. CASE c # "send"
    BY <1>1, <1>4, <2>1, <2>3
  <2> QED
    BY <2>2, <2>3
<1> QED
  BY <1>3, <1>4

\* No send is lost by what happens to the operations and the completions.
LEMMA PendingAfter ==
  ASSUME Types,
         \/ UNCHANGED <<kernel, iocp>>
         \/ kernel' = kernel /\ \E s \in Slots, c \in Completions : Posted(s, c)
         \/ \E s \in Slots : CancelRecv(s) \/ CancelSend(s) \/ CancelBoth(s),
         NEW o \in Slots, Pending(o)
  PROVE  Pending(o)'
<1>1. FieldsOK(o) /\ iocp \in [Slots -> [Completions -> Nat]]
  BY FieldNats DEF Types
<1>2. CASE UNCHANGED <<kernel, iocp>>
  BY <1>2 DEF Pending
<1>3. ASSUME kernel' = kernel, NEW s \in Slots, NEW c \in Completions, Posted(s, c)
      PROVE  Pending(o)'
  <2>1. /\ iocp[o].send \in Nat /\ iocp'[o].send \in Nat
        /\ iocp'[o].send = IF o = s /\ c = "send" THEN iocp[o].send + 1 ELSE iocp[o].send
    BY <1>3, PostedSend
  <2> QED
    BY <1>3, <2>1 DEF Pending
<1>4. ASSUME NEW s \in Slots, CancelRecv(s) \/ CancelSend(s) \/ CancelBoth(s)
      PROVE  Pending(o)'
  <2>1. Cancels(s)
    BY <1>4, Cancelled
  <2>2. /\ kernel'[o].send \in Nat /\ iocp'[o].send \in Nat
        /\ kernel'[o].send + iocp'[o].send = kernel[o].send + iocp[o].send
    BY <2>1 DEF Cancels, Ops, Completions
  <2> QED
    BY <1>1, <2>2 DEF Pending, FieldsOK
<1> QED
  BY <1>2, <1>3, <1>4

\* The labels at which somebody counts on a thread.
NeededLabels == SendTokens \cup Wakers \cup ChaseLabels

\* What concerns the wakeups and is left as it is.
Kept == UNCHANGED <<m_SeqID, m_sendBuffer, m_flag, m_SessionIdxStack>>

LEMMA EasyKept ==
  ASSUME Kept, NEW s \in Slots, m_blive'[s] => m_blive[s]
  PROVE  Easier(s) /\ OnStack(s)' = OnStack(s)
BY DEF Kept, Easier, Full, OnStack

\* A step of thread t, which nobody counted on, or on a session given up, or which
\* stays a sender.
LEMMA Ordinary ==
  ASSUME Types, WInv, NEW t \in Threads, Alone(t), Kept,
         ses'[t] = ses[t] \/ pc[t] \notin NeededLabels, pc'[t] # "Push",
         \A s \in Slots : m_blive'[s] => m_blive[s],
         \A s \in Slots : Pending(s) => Sender(s)',
         \/ ~m_blive'[ses[t]]
         \/ pc[t] \notin NeededLabels
         \/ pc[t] \in SendTokens /\ pc'[t] \in SendTokens
  PROVE  \A s \in Slots : SendInv(s)'
<1> SUFFICES ASSUME NEW s \in Slots PROVE SendInv(s)'
  OBVIOUS
<1>1. SendInv(s) /\ Easier(s) /\ StaysDrained(t, s)
  BY EasyKept DEF WInv, StaysDrained
<1>2. m_blive'[s] /\ IsSender(t, s) => Sender(s)'
  BY DEF IsSender, Sender, NeededLabels
<1>3. m_blive'[s] => ~Wakes(t, s) /\ ~Chases(t, s)
  BY DEF Wakes, Chases, NeededLabels, SendTokens, SendLabels, Wakers, ChaseLabels
<1> QED
  BY <1>1, <1>2, <1>3, SlotStep

LEMMA Alones ==
  ASSUME Types, NEW t \in Threads, NEW l, Goto(t, l), UNCHANGED <<ses, call>>,
         id' = id \/ \E n : id' = [id EXCEPT ![t] = n]
  PROVE  /\ Alone(t) /\ Moves(t) /\ pc'[t] = l /\ ses'[t] = ses[t] /\ call'[t] = call[t]
         /\ ses[t] \in Slots
BY Going DEF Alone, Types

LEMMA QuietStays ==
  ASSUME Types, WInv, NEW t \in Threads, NEW l, Goto(t, l), l # "Push",
         UNCHANGED <<ses, call>>, id' = id \/ \E n : id' = [id EXCEPT ![t] = n],
         Kept, \A s \in Slots : m_blive'[s] => m_blive[s],
         \/ UNCHANGED <<kernel, iocp>>
         \/ kernel' = kernel /\ \E s \in Slots, c \in Completions : Posted(s, c)
         \/ \E s \in Slots : CancelRecv(s) \/ CancelSend(s) \/ CancelBoth(s),
         \/ ~m_blive'[ses[t]]
         \/ pc[t] \notin NeededLabels
         \/ pc[t] \in SendTokens /\ l \in SendTokens
  PROVE  \A s \in Slots : SendInv(s)'
<1>1. Alone(t) /\ pc'[t] = l /\ ses'[t] = ses[t] /\ ses[t] \in Slots
  BY Alones
<1>2. \A s \in Slots : Pending(s) => Sender(s)'
  BY PendingAfter DEF Sender
<1> QED
  BY <1>1, <1>2, Ordinary

-----------------------------------------------------------------------------
(* The actions, one by one. *)

LEMMA QuietActions ==
  ASSUME Types, WInv, NEW t \in Threads,
         \/ AcceptCount(t) \/ NoPort(t) \/ OnAccept(t) \/ Fin(t) \/ Dec(t)
         \/ RecvComplete(t) \/ RecvPacket(t) \/ IoError(t) \/ IoPending(t) \/ SendComplete(t)
         \/ SendLive(t) \/ SessionLock(t) \/ LockUndo(t) \/ SessionUnLock(t)
         \/ DisconnectMismatch(t) \/ DisconnectLive(t) \/ DisconnectCancel(t) \/ DisconnectDec(t)
  PROVE  \A s \in Slots : SendInv(s)'
<1> USE DEF session, pool, io, local, log, Kept, NeededLabels, SendTokens, SendLabels, Wakers,
            ChaseLabels
<1>1. ses[t] \in Slots /\ m_blive \in [Slots -> BOOLEAN]
  BY DEF Types
<1>2. CASE AcceptCount(t) \/ NoPort(t) \/ Fin(t) \/ Dec(t)
  BY <1>1, <1>2, QuietStays DEF AcceptCount, NoPort, Fin, Dec, Home
<1>3. CASE OnAccept(t)
  BY <1>1, <1>3, QuietStays DEF OnAccept
<1>4. CASE RecvComplete(t)
  BY <1>1, <1>4, QuietStays DEF RecvComplete
<1>5. CASE RecvPacket(t)
  BY <1>1, <1>5, QuietStays DEF RecvPacket
<1>6. CASE IoError(t)
  BY <1>1, <1>6, QuietStays DEF IoError
<1>7. CASE IoPending(t)
  BY <1>1, <1>7, QuietStays DEF IoPending
<1>8. CASE SendComplete(t)
  BY <1>1, <1>8, QuietStays DEF SendComplete
<1>9. CASE SendLive(t)
  BY <1>1, <1>9, QuietStays DEF SendLive
<1>10. CASE SessionLock(t) \/ LockUndo(t) \/ SessionUnLock(t)
  BY <1>1, <1>10, QuietStays DEF SessionLock, LockUndo, SessionUnLock
<1>11. CASE DisconnectMismatch(t)
  BY <1>1, <1>11, QuietStays DEF DisconnectMismatch, Return
<1>12. CASE DisconnectLive(t) \/ DisconnectCancel(t) \/ DisconnectDec(t)
  BY <1>1, <1>12, QuietStays DEF DisconnectLive, DisconnectCancel, DisconnectDec
<1> QED
  BY <1>2, <1>3, <1>4, <1>5, <1>6, <1>7, <1>8, <1>9, <1>10, <1>11, <1>12

LEMMA CASStays ==
  ASSUME Types, WInv, NEW t \in Threads, CAS(t) \/ DisconnectCAS(t)
  PROVE  \A s \in Slots : SendInv(s)'
<1> USE DEF session, pool, io, local, log
<1>1. PICK l : Goto(t, l) /\ l # "Push"
  BY DEF CAS, DisconnectCAS, Home, Return
<1>2. pc[t] \notin NeededLabels
  BY DEF CAS, DisconnectCAS, NeededLabels, SendTokens, SendLabels, Wakers, ChaseLabels
<1>3. \/ UNCHANGED <<kernel, iocp>>
      \/ kernel' = kernel /\ \E s \in Slots, c \in Completions : Posted(s, c)
  <2>1. ses[t] \in Slots /\ "release" \in Completions
    BY DEF Types, Completions
  <2> QED
    BY <2>1 DEF CAS, DisconnectCAS, TryRelease
<1>4. UNCHANGED <<ses, call, id, m_blive>> /\ Kept
  BY DEF CAS, DisconnectCAS, Kept
<1> QED
  BY <1>1, <1>2, <1>3, <1>4, QuietStays

LEMMA CallStays ==
  ASSUME Types, WInv, NEW t \in Contents, NEW who \in accepted, NEW o \in Calls, Call(t, who, o)
  PROVE  \A s \in Slots : SendInv(s)'
<1> USE DEF session, pool, io, local, log
<1>1. t \in Threads /\ pc[t] \notin NeededLabels
  BY DEF Threads, Call, NeededLabels, SendTokens, SendLabels, Wakers, ChaseLabels
<1>2. Alone(t) /\ pc'[t] # "Push"
  BY <1>1 DEF Types, Call, Goto, Alone, Moves
<1>3. UNCHANGED <<m_blive, kernel, iocp>> /\ Kept
  BY DEF Call, Kept
<1>4. \A s \in Slots : Pending(s) => Sender(s)'
  BY <1>3 DEF Pending, Sender
<1> QED
  BY <1>1, <1>2, <1>3, <1>4, Ordinary

LEMMA WSACallStays ==
  ASSUME Types, WInv, NEW t \in Threads, WSARecv(t) \/ WSASend(t)
  PROVE  \A s \in Slots : SendInv(s)'
<1> USE DEF session, pool, io, local, log
<1> PICK s \in Slots : s = ses[t]
  BY DEF Types
<1>1. PICK k \in Ops \cap Completions :
        WSACall(t, k) /\ k = IF pc[t] = "WSARecv" THEN "recv" ELSE "send"
  BY DEF WSARecv, WSASend, Ops, Completions
<1>2. PICK l : Goto(t, l) /\ l \in CallLabel(k)
  BY <1>1 DEF WSACall, CallLabel
<1>3. UNCHANGED <<ses, call, id, m_blive>> /\ Kept
  BY <1>1 DEF WSACall, Kept
<1>4. Alone(t) /\ pc'[t] = l /\ ses'[t] = s /\ pc'[t] # "Push"
  BY <1>2, <1>3, Alones DEF CallLabel
<1>5. /\ \A o \in Slots : Pending(o) => Pending(o)'
      /\ k = "send" => Pending(s)' \/ pc'[t] \in SendTokens
  <2>1. FieldsOK(s) /\ kernel \in [Slots -> [Ops -> Nat]] /\ iocp \in [Slots -> [Completions -> Nat]]
    BY <1>1, FieldNats DEF Types
  <2>2. CASE kernel' = [kernel EXCEPT ![s][k] = @ + 1] /\ UNCHANGED iocp
    <3>1. /\ \A o \in Slots : o # s => kernel'[o] = kernel[o]
          /\ kernel'[s] = [kernel[s] EXCEPT ![k] = @ + 1] /\ kernel[s] \in [Ops -> Nat]
      BY <1>1, <2>1, <2>2
    <3>2. k = "send" => kernel'[s].send = kernel[s].send + 1
      BY <1>1, <3>1 DEF Ops
    <3>3. k = "recv" => kernel'[s].send = kernel[s].send
      BY <1>1, <3>1 DEF Ops
    <3>4. k = "send" \/ k = "recv"
      BY DEF Ops
    <3>5. kernel[s].send > 0 => kernel'[s].send > 0
      BY <2>1, <3>2, <3>3, <3>4 DEF FieldsOK
    <3>6. k = "send" => kernel'[s].send > 0
      BY <2>1, <3>2 DEF FieldsOK
    <3> QED
      BY <2>2, <3>1, <3>5, <3>6 DEF Pending
  <2>3. CASE Posted(s, k) /\ UNCHANGED kernel
    <3>1. \A o \in Slots : Pending(o) => Pending(o)'
      BY <1>1, <2>3, PendingAfter
    <3>2. k = "send" => iocp[s].send \in Nat /\ iocp'[s].send = iocp[s].send + 1
      BY <1>1, <2>3, PostedSend
    <3>3. k = "send" => iocp'[s].send > 0
      BY <3>2
    <3> QED
      BY <3>1, <3>3 DEF Pending
  <2>4. CASE Goto(t, IF k = "recv" THEN "recvError" ELSE "sendError") /\ UNCHANGED <<kernel, iocp>>
    <3>1. k = "send" => pc'[t] = "sendError"
      BY <1>3, <2>4, Alones DEF Kept
    <3> QED
      BY <2>4, <3>1 DEF Pending, SendTokens
  <2> QED
    BY <1>1, <2>2, <2>3, <2>4 DEF WSACall
<1>6. CASE WSARecv(t)
  <2>1. pc[t] \notin NeededLabels
    BY <1>6 DEF WSARecv, NeededLabels, SendTokens, SendLabels, Wakers, ChaseLabels
  <2> QED
    BY <1>3, <1>4, <1>5, <2>1, Ordinary DEF Sender
<1>7. CASE WSASend(t)
  <2>1. pc[t] = "WSASend" /\ k = "send"
    BY <1>1, <1>7 DEF WSASend
  <2>2. Sender(s)'
    BY <1>4, <1>5, <2>1 DEF Sender, IsSender
  <2> SUFFICES ASSUME NEW o \in Slots PROVE SendInv(o)'
    OBVIOUS
  <2>3. SendInv(o) /\ Easier(o) /\ StaysDrained(t, o)
    BY <1>3, <1>4, EasyKept DEF WInv, StaysDrained
  <2>4. ~Wakes(t, o) /\ ~Chases(t, o) /\ (IsSender(t, o) => o = s)
    BY <2>1 DEF Wakes, Chases, IsSender, Wakers, ChaseLabels
  <2> QED
    BY <1>4, <1>5, <2>2, <2>3, <2>4, SlotStep DEF Sender
<1> QED
  BY <1>6, <1>7

LEMMA TakeStays ==
  ASSUME Types, WInv, NEW w \in Workers, NEW s \in Slots, NEW c \in Completions,
         TakeCompletion(w, s, c)
  PROVE  \A o \in Slots : SendInv(o)'
<1> USE DEF session, pool, io, local, log
<1>1. w \in Threads /\ pc[w] \notin NeededLabels
  BY DEF Threads, TakeCompletion, NeededLabels, SendTokens, SendLabels, Wakers, ChaseLabels
<1>2. Alone(w) /\ ses'[w] = s /\ pc'[w] = Entry(c) /\ Entry(c) # "Push"
  BY <1>1 DEF Types, TakeCompletion, Goto, Alone, Moves, Entry, Completions
<1>3. UNCHANGED <<m_blive, kernel>> /\ Kept /\ iocp' = [iocp EXCEPT ![s][c] = @ - 1]
  BY DEF TakeCompletion, Kept
<1>4. ASSUME NEW o \in Slots, Pending(o) PROVE Sender(o)'
  <2>1. iocp \in [Slots -> [Completions -> Nat]] /\ "send" \in Completions
    BY DEF Types, Completions
  <2>2. CASE o = s /\ c = "send"
    BY <1>1, <1>2, <2>2 DEF Sender, IsSender, Entry, SendTokens, SendLabels
  <2>3. CASE ~(o = s /\ c = "send")
    <3>1. iocp'[o].send = iocp[o].send
      <4>1. CASE o = s
        <5>1. iocp'[o] = [iocp[o] EXCEPT ![c] = @ - 1] /\ iocp[o] \in [Completions -> Nat]
          BY <1>3, <2>1, <4>1
        <5> QED
          BY <2>1, <2>3, <4>1, <5>1
      <4>2. CASE o # s
        BY <1>3, <2>1, <4>2
      <4> QED
        BY <4>1, <4>2
    <3> QED
      BY <1>3, <1>4, <3>1 DEF Pending, Sender
  <2> QED
    BY <2>2, <2>3
<1> QED
  BY <1>1, <1>2, <1>3, <1>4, Ordinary

\* What the system and the clients do.
LEMMA KernelStays ==
  ASSUME Types, WInv, NEW s \in Slots, KernelStep(s)
  PROVE  \A o \in Slots : SendInv(o)'
<1> USE DEF session, pool, io, local, log
<1>1. UNCHANGED <<pc, ses, id, call, m_blive>> /\ Kept
  BY DEF KernelStep, Received, ReceiveEnds, Sent, Complete, Reset, Kept
<1> SUFFICES ASSUME NEW o \in Slots PROVE SendInv(o)'
  OBVIOUS
<1>2. Pending(o) => Pending(o)'
  <2>1. FieldsOK(o) /\ kernel \in [Slots -> [Ops -> Nat]] /\ iocp \in [Slots -> [Completions -> Nat]]
    BY FieldNats DEF Types
  <2>2. CASE Reset(s)
    BY <2>2 DEF Reset, Pending
  <2>3. ASSUME NEW c \in Completions, Complete(s, "recv", c) PROVE Pending(o) => Pending(o)'
    <3>1. kernel'[o].send = kernel[o].send
      <4>1. kernel' = [kernel EXCEPT ![s]["recv"] = @ - 1]
        BY <2>3 DEF Complete
      <4>2. kernel'[o] = kernel[o] \/ kernel'[o] = [kernel[o] EXCEPT !["recv"] = @ - 1]
        BY <2>1, <4>1
      <4> QED
        BY <2>1, <4>2 DEF Ops
    <3>2. /\ iocp[o].send \in Nat /\ iocp'[o].send \in Nat
          /\ iocp'[o].send = IF o = s /\ c = "send" THEN iocp[o].send + 1 ELSE iocp[o].send
      BY <2>3, PostedSend DEF Complete
    <3> QED
      BY <3>1, <3>2 DEF Pending
  <2>4. CASE Sent(s)
    <3>1. kernel' = [kernel EXCEPT ![s].send = @ - 1] /\ iocp' = [iocp EXCEPT ![s].send = @ + 1]
      BY <2>4 DEF Sent, Complete, Posted
    <3>2. CASE o = s
      <4>1. Posted(s, "send") /\ "send" \in Completions
        BY <2>4 DEF Sent, Complete, Completions
      <4>2. iocp[o].send \in Nat /\ iocp'[o].send = iocp[o].send + 1
        BY <3>2, <4>1, PostedSend
      <4> QED
        BY <4>2 DEF Pending
    <3>3. CASE o # s
      BY <2>1, <3>1, <3>3 DEF Pending
    <3> QED
      BY <3>2, <3>3
  <2> QED
    BY <2>2, <2>3, <2>4 DEF KernelStep, Received, ReceiveEnds, Completions
<1>3. PICK t \in Threads : t = Acceptor
  BY DEF Threads
<1>4. Alone(t) /\ SendInv(o) /\ Easier(o) /\ OnStack(o)' = OnStack(o)
  BY <1>1, EasyKept DEF Alone, Moves, WInv
<1>5. StaysDrained(t, o) \/ pc[t] = "Push"
  BY <1>1, <1>4 DEF StaysDrained
<1>6. Types => pc[t] # "Push"
  BY <1>3, LanServerAssumption, Kinds DEF Types
<1>7. (IsSender(t, o) => Sender(o)') /\ (Wakes(t, o) => Waker(o)') /\ (Chases(t, o) => Chased(o)')
  BY <1>1 DEF Kept, IsSender, Sender, Wakes, Waker, Chases, Chased
<1> QED
  BY <1>2, <1>4, <1>5, <1>6, <1>7, SlotStep DEF Sender

-----------------------------------------------------------------------------
(* The steps that concern the queue and the flag. *)

\* A slot that thread t has nothing to do with.
LEMMA OtherSlot ==
  ASSUME WInv, NEW t \in Threads, Alone(t), NEW o \in Slots, Easier(o),
         ses[t] # o \/ pc[t] \notin NeededLabels, ses'[t] # o \/ pc'[t] # "Push",
         OnStack(o)' = OnStack(o), m_blive'[o] /\ Pending(o) => Sender(o)'
  PROVE  SendInv(o)'
<1>1. SendInv(o) /\ StaysDrained(t, o)
  BY DEF WInv, StaysDrained
<1>2. ~IsSender(t, o) /\ ~Wakes(t, o) /\ ~Chases(t, o)
  BY DEF NeededLabels, IsSender, Wakes, Chases
<1> QED
  BY <1>1, <1>2, SlotStep

LEMMA PopStays ==
  ASSUME Types, WInv, NEW t \in Threads, PopSend(t)
  PROVE  \A o \in Slots : SendInv(o)'
<1> USE DEF session, pool, io, local, log
<1> PICK s \in Slots : s = ses[t]
  BY DEF Types
<1> PICK q : q = m_sendBuffer[s]
  OBVIOUS
<1>1. PICK n : n = IF Len(q) < SENDWSABUF_MAX THEN Len(q) ELSE SENDWSABUF_MAX
  OBVIOUS
<1>2. q \in Seq(Message) /\ m_sendBuffer \in [Slots -> Seq(Message)] /\ Len(q) \in Nat
      /\ SENDWSABUF_MAX \in Nat
  BY LanServerAssumption DEF Types
<1>3. n \in 0 .. Len(q)
  BY <1>1, <1>2
<1>4. m_sendBuffer' = [m_sendBuffer EXCEPT ![s] = SubSeq(q, n + 1, Len(q))]
  BY <1>1 DEF PopSend
<1>5. Len(SubSeq(q, n + 1, Len(q))) = Len(q) - n
  BY <1>2, <1>3
<1>6. /\ \A o \in Slots : o # s => m_sendBuffer'[o] = m_sendBuffer[o]
      /\ m_sendBuffer'[s] = SubSeq(q, n + 1, Len(q))
  BY <1>2, <1>4
<1>7. Len(m_sendBuffer'[s]) = Len(q) - n /\ Len(m_sendBuffer'[s]) <= Len(q)
  BY <1>2, <1>3, <1>5, <1>6
<1>8. m_sendBuffer'[s] # <<>> => q # <<>>
  <2>1. q = <<>> => n = 0 /\ SubSeq(q, n + 1, Len(q)) = <<>>
    BY <1>2, <1>3
  <2> QED
    BY <1>6, <2>1
<1>9. SendBufferLimit \in Nat
  BY LanServerAssumption
<1>10. Full(s)' => Full(s)
  BY <1>2, <1>3, <1>7, <1>9 DEF Full
<1>11. UNCHANGED <<m_SeqID, m_flag, m_blive, m_SessionIdxStack, kernel, iocp, ses, call, id>>
       /\ Goto(t, "sendLive") /\ pc[t] = "Pop"
  BY DEF PopSend
<1>12. Alone(t) /\ pc'[t] = "sendLive" /\ ses'[t] = s
  BY <1>11, Alones
<1>13. \A o \in Slots : Easier(o) /\ OnStack(o)' = OnStack(o)
  BY <1>6, <1>8, <1>10, <1>11 DEF Easier, Full, OnStack
<1>14. \A o \in Slots : Pending(o) => Sender(o)'
  BY <1>11 DEF Pending, Sender
<1>15. ASSUME NEW o \in Slots, o # s PROVE SendInv(o)'
  BY <1>12, <1>13, <1>14, <1>15, OtherSlot
<1>16. SendInv(s)'
  <2>1. IsSender(t, s)' /\ ~Wakes(t, s) /\ ~Chases(t, s)
    BY <1>11, <1>12 DEF IsSender, SendTokens, SendLabels, Wakes, Wakers, Chases, ChaseLabels
  <2>2. Sender(s)' /\ SendInv(s) /\ StaysDrained(t, s)
    BY <1>12, <1>13, <2>1 DEF Sender, WInv, StaysDrained
  <2> QED
    BY <1>12, <1>13, <2>1, <2>2, SlotStep
<1> QED
  BY <1>15, <1>16

\* Whoever tries for the flag finds a sender or becomes one.
LEMMA PostStays ==
  ASSUME Types, WInv, NEW t \in Threads, FlagOn(t) \/ Post(t)
  PROVE  \A o \in Slots : SendInv(o)'
<1> USE DEF session, pool, io, local, log
<1> PICK s \in Slots : s = ses[t]
  BY DEF Types
<1>1. /\ PostSend(s)
      /\ UNCHANGED <<m_SeqID, m_sendBuffer, m_blive, m_SessionIdxStack, kernel, ses, call, id>>
      /\ \/ pc[t] = "flagOn" /\ Goto(t, "dec")
         \/ pc[t] = "post" /\ Goto(t, "limit")
  BY DEF FlagOn, Post
<1>2. Alone(t) /\ ses'[t] = s /\ pc'[t] # "Push" /\ (pc[t] = "post" => pc'[t] = "limit")
      /\ call'[t] = call[t] /\ id'[t] = id[t]
  BY <1>1, Alones
<1>3. "send" \in Completions /\ m_flag \in [Slots -> BOOLEAN]
  BY DEF Completions, Types
<1>4. \A o \in Slots : Pending(o) => Pending(o)'
  BY <1>1, <1>3, PendingAfter DEF PostSend
<1>5. m_blive'[s] => Sender(s)'
  <2>1. CASE m_flag[s]
    <3>1. m_blive'[s] => Sender(s)
      BY <1>1, <2>1 DEF WInv, SendInv, FlagKept
    <3>2. ~IsSender(t, s)
      BY <1>1 DEF IsSender, SendTokens, SendLabels
    <3> QED
      BY <1>2, <1>4, <3>1, <3>2, SenderStays DEF Sender
  <2>2. CASE ~m_flag[s]
    <3>1. Posted(s, "send")
      BY <1>1, <2>2 DEF PostSend
    <3>2. iocp[s].send \in Nat /\ iocp'[s].send = iocp[s].send + 1
      BY <1>3, <3>1, PostedSend
    <3>3. iocp'[s].send > 0
      BY <3>2
    <3> QED
      BY <3>3 DEF Sender, Pending
  <2> QED
    BY <2>1, <2>2
<1>6. \A o \in Slots : o # s => m_flag'[o] = m_flag[o]
  BY <1>1, <1>3 DEF PostSend
<1>7. \A o \in Slots : OnStack(o)' = OnStack(o) /\ (o # s => Easier(o))
  BY <1>1, <1>6 DEF OnStack, Easier, Full
<1>8. ASSUME NEW o \in Slots, o # s PROVE SendInv(o)'
  BY <1>2, <1>4, <1>7, <1>8, OtherSlot DEF Sender
<1>9. SendInv(s)'
  <2>1. SendInv(s)
    BY DEF WInv
  <2>2. Drained(s)'
    BY <1>1, <1>2, <1>7, <2>1 DEF SendInv, Drained, Alone, Moves
  <2>3. Chases(t, s) => Chased(s)'
    BY <1>1, <1>2 DEF Chases, Chased, ChaseLabels
  <2>4. Limited(s)'
    BY <1>1, <1>2, <2>1, <2>3, ChaserStays DEF SendInv, Limited, Full
  <2> QED
    BY <1>5, <2>2, <2>4 DEF SendInv, FlagKept, Woken
<1> QED
  BY <1>8, <1>9

LEMMA FlagOffStays ==
  ASSUME IInv, WInv, NEW t \in Threads, FlagOff(t)
  PROVE  \A o \in Slots : SendInv(o)'
<1> USE DEF session, pool, io, local, log
<1> PICK s \in Slots : s = ses[t]
  BY DEF IInv, Types
<1>1. /\ pc[t] = "flagOff" /\ m_flag' = [m_flag EXCEPT ![s] = FALSE]
      /\ UNCHANGED <<m_SeqID, m_sendBuffer, m_blive, m_SessionIdxStack, kernel, iocp, ses, call, id>>
  BY DEF FlagOff
<1>2. m_flag[s]
  BY <1>1, SenderHasFlag DEF SendTokens, SendLabels
<1>3. Goto(t, "recheck")
  BY <1>2 DEF FlagOff
<1>4. Alone(t) /\ ses'[t] = s /\ pc'[t] = "recheck"
  BY <1>1, <1>3, Alones DEF IInv
<1>5. m_flag' \in [Slots -> BOOLEAN] /\ ~m_flag'[s] /\ \A o \in Slots : o # s => m_flag'[o] = m_flag[o]
  BY <1>1 DEF IInv, Types
<1>6. \A o \in Slots : OnStack(o)' = OnStack(o) /\ Easier(o) /\ (Pending(o) => Sender(o)')
  BY <1>1, <1>5 DEF OnStack, Easier, Full, Pending, Sender
<1>7. ASSUME NEW o \in Slots, o # s PROVE SendInv(o)'
  BY <1>4, <1>6, <1>7, OtherSlot
<1>8. SendInv(s)'
  <2>1. SendInv(s) /\ ~Chases(t, s)
    BY <1>1 DEF WInv, Chases, ChaseLabels
  <2>2. Waker(s)'
    BY <1>4 DEF Waker, Wakes, Wakers
  <2>3. Drained(s)'
    BY <1>1, <1>4, <1>6, <2>1 DEF SendInv, Drained, Alone, Moves
  <2>4. Limited(s)'
    BY <1>1, <1>4, <2>1, ChaserStays DEF SendInv, Limited, Full
  <2> QED
    BY <1>5, <2>2, <2>3, <2>4 DEF SendInv, FlagKept, Woken
<1> QED
  BY <1>7, <1>8

\* A thread that looks at the queue, its limit or its session, and is followed by itself.
LEMMA LookStays ==
  ASSUME BitRoom, IInv, WInv, NEW t \in Threads, Recheck(t) \/ Limit(t) \/ Disconnect(t)
  PROVE  \A o \in Slots : SendInv(o)'
<1> USE DEF session, pool, io, local, log
<1> PICK s \in Slots : s = ses[t]
  BY DEF IInv, Types
<1>1. UNCHANGED <<m_blive, kernel, iocp, ses, call, id>> /\ Kept
  BY DEF Recheck, Limit, Disconnect, Kept
<1>2. PICK l : Goto(t, l) /\ l # "Push"
  BY DEF Recheck, Limit, Disconnect, Return
<1>3. Alone(t) /\ ses'[t] = s /\ pc'[t] = l
  BY <1>1, <1>2, Alones DEF IInv
<1>4. \A o \in Slots : Easier(o) /\ OnStack(o)' = OnStack(o) /\ (Pending(o) => Sender(o)')
  BY <1>1, EasyKept DEF Pending, Sender
<1>5. ASSUME NEW o \in Slots, o # s PROVE SendInv(o)'
  BY <1>2, <1>3, <1>4, <1>5, OtherSlot
<1>6. SendInv(s) /\ StaysDrained(t, s) /\ ~IsSender(t, s)
  BY <1>2, <1>3, <1>4 DEF WInv, StaysDrained, IsSender, SendTokens, SendLabels, Recheck, Limit, Disconnect
<1>7. Wakes(t, s) /\ m_sendBuffer'[s] # <<>> => Waker(s)'
  <2> SUFFICES ASSUME Wakes(t, s), m_sendBuffer'[s] # <<>> PROVE Waker(s)'
    OBVIOUS
  <2>1. Recheck(t) /\ m_sendBuffer[s] # <<>>
    BY <1>1 DEF Wakes, Wakers, Limit, Disconnect, Kept
  <2>2. Goto(t, "flagOn")
    BY <2>1 DEF Recheck
  <2>3. pc'[t] = "flagOn"
    BY <1>1, <2>2, Alones DEF IInv
  <2> QED
    BY <1>3, <2>3 DEF Waker, Wakes, Wakers
<1>8. Chases(t, s) /\ Full(s)' => Chased(s)'
  <2> SUFFICES ASSUME Chases(t, s), Full(s)' PROVE Chased(s)'
    OBVIOUS
  <2>1. Full(s) /\ t \in Contents /\ call[t] = "SendPacket" /\ id[t] = m_SeqID[s]
    BY <1>1 DEF Full, Kept, Chases
  <2>2. Goto(t, "Disconnect") \/ Goto(t, "discLive")
    <3>1. CASE Limit(t)
      BY <2>1, <3>1 DEF Limit, Full
    <3>2. CASE Disconnect(t)
      <4>1. pc[t] = "Disconnect"
        BY <3>2 DEF Disconnect
      <4>2. ~ReleaseBit(m_ioCount[s])
        BY <2>1, <4>1, HeldOpen
      <4> QED
        BY <2>1, <3>2, <4>2 DEF Disconnect
    <3>3. ~Recheck(t)
      BY DEF Recheck, Chases, ChaseLabels
    <3> QED
      BY <3>1, <3>2, <3>3
  <2>3. pc'[t] \in ChaseLabels
    BY <1>1, <2>2, Alones DEF IInv, ChaseLabels
  <2> QED
    BY <1>1, <2>1, <2>3 DEF Chased, Chases, Kept
<1>9. SendInv(s)'
  BY <1>3, <1>4, <1>6, <1>7, <1>8, SlotStep
<1> QED
  BY <1>5, <1>9

LEMMA PushStays ==
  ASSUME BitRoom, IInv, WInv, NEW t \in Threads, PushSend(t)
  PROVE  \A o \in Slots : SendInv(o)'
<1> USE DEF session, pool, io, local, log
<1> PICK s \in Slots : s = ses[t]
  BY DEF IInv, Types
<1>1. /\ pc[t] = "push" /\ Goto(t, "post")
      /\ \E q : m_sendBuffer' = [m_sendBuffer EXCEPT ![s] = q]
      /\ UNCHANGED <<m_SeqID, m_flag, m_blive, m_SessionIdxStack, kernel, iocp, ses, call, id>>
  BY DEF PushSend
<1>2. Alone(t) /\ ses'[t] = s /\ pc'[t] = "post"
  BY <1>1, Alones DEF IInv
<1>3. t \in Contents /\ call[t] = "SendPacket" /\ id[t] = m_SeqID[s]
  BY <1>1, Kinds DEF IInv, Types, LockLabels, WInv, Known
<1>4. OnStack(s) = 0 /\ \A u \in Threads : ses[u] = s => pc[u] # "Push"
  BY <1>1, HeldOpen DEF LockLabels, ClosedLabels
<1>5. \A o \in Slots : o # s => m_sendBuffer'[o] = m_sendBuffer[o]
  BY <1>1 DEF IInv, Types
<1>6. \A o \in Slots : /\ OnStack(o)' = OnStack(o)
                       /\ Pending(o) => Sender(o)'
                       /\ o # s => Easier(o)
  BY <1>1, <1>5 DEF OnStack, Pending, Sender, Easier, Full
<1>7. ASSUME NEW o \in Slots, o # s PROVE SendInv(o)'
  BY <1>2, <1>6, <1>7, OtherSlot
<1>8. SendInv(s)'
  <2>1. Drained(s)'
    BY <1>2, <1>4, <1>6 DEF Drained, Alone, Moves
  <2>2. ~IsSender(t, s) /\ SendInv(s)
    BY <1>1 DEF IsSender, SendTokens, SendLabels, WInv
  <2>3. FlagKept(s)'
    BY <1>1, <1>2, <1>6, <2>2, SenderStays DEF SendInv, FlagKept
  <2>4. Woken(s)'
    BY <1>2 DEF Woken, Waker, Wakes, Wakers
  <2>5. Limited(s)'
    BY <1>1, <1>2, <1>3 DEF Limited, Chased, Chases, ChaseLabels
  <2> QED
    BY <2>1, <2>3, <2>4, <2>5 DEF SendInv
<1> QED
  BY <1>7, <1>8

\* The slot that is released, and later given back, has an empty queue.
LEMMA ReleaseStays ==
  ASSUME Types, WInv, NEW t \in Threads, OnRelease(t)
  PROVE  \A o \in Slots : SendInv(o)'
<1> USE DEF session, pool, io, local, log
<1> PICK s \in Slots : s = ses[t]
  BY DEF Types
<1>1. /\ pc[t] = "ReleaseComplete" /\ Goto(t, "Push")
      /\ m_sendBuffer' = [m_sendBuffer EXCEPT ![s] = <<>>]
      /\ UNCHANGED <<m_SeqID, m_flag, m_blive, m_SessionIdxStack, kernel, iocp, ses, call, id>>
  BY DEF OnRelease
<1>2. Alone(t) /\ ses'[t] = s
  BY <1>1, Alones
<1>3. /\ m_sendBuffer'[s] = <<>>
      /\ \A o \in Slots : o # s => m_sendBuffer'[o] = m_sendBuffer[o]
  BY <1>1 DEF Types
<1>4. ~Full(s)'
  <2>1. Len(m_sendBuffer'[s]) = 0
    BY <1>3
  <2> QED
    BY <2>1, LanServerAssumption DEF Full
<1>5. \A o \in Slots : Easier(o) /\ OnStack(o)' = OnStack(o) /\ (Pending(o) => Sender(o)')
  BY <1>1, <1>3, <1>4 DEF Easier, Full, OnStack, Pending, Sender
<1>6. ASSUME NEW o \in Slots, o # s PROVE SendInv(o)'
  BY <1>2, <1>5, <1>6, OtherSlot
<1>7. SendInv(s)'
  <2>1. SendInv(s) /\ StaysDrained(t, s) /\ ~IsSender(t, s) /\ ~Wakes(t, s) /\ ~Chases(t, s)
    BY <1>1, <1>3 DEF WInv, StaysDrained, IsSender, SendTokens, SendLabels, Wakes, Wakers, Chases,
                      ChaseLabels
  <2> QED
    BY <1>2, <1>5, <2>1, SlotStep
<1> QED
  BY <1>6, <1>7

LEMMA PushIdxStays ==
  ASSUME BitRoom, IInv, WInv, NEW t \in Threads, PushIdx(t)
  PROVE  \A o \in Slots : SendInv(o)'
<1> USE DEF session, pool, io, local, log
<1> PICK s \in Slots : s = ses[t]
  BY DEF IInv, Types
<1>1. /\ pc[t] = "Push" /\ Goto(t, "GQCS") /\ m_SessionIdxStack' = <<s>> \o m_SessionIdxStack
      /\ UNCHANGED <<m_SeqID, m_sendBuffer, m_flag, m_blive, kernel, iocp, ses, call, id>>
  BY DEF PushIdx
<1>2. Alone(t) /\ ses'[t] = s /\ pc'[t] = "GQCS"
  BY <1>1, Alones DEF IInv
<1>3. OnStack(s) = 0
  <2>1. SlotInv(s) /\ SlotNats(s) /\ FieldsOK(s) /\ Threads \in SUBSET Threads
    BY AllNats, FieldNats DEF IInv
  <2>2. IsFiniteSet(At(Threads, ClosedLabels, s)) /\ t \in At(Threads, ClosedLabels, s)
    <3>1. IsFiniteSet(At(Threads, ClosedLabels, s))
      BY <2>1, FiniteAt
    <3> QED
      BY <1>1, <3>1 DEF At, ClosedLabels
  <2>3. ThreadsClosed(s) # 0
    BY <2>2, FS_EmptySet DEF ThreadsClosed, Count
  <2>4. Places(s) \in {0, 1}
    BY <2>1, CountInRange DEF IInv
  <2> QED
    BY <2>1, <2>3, <2>4 DEF Places, IoClosed, SlotNats, FieldsOK
<1>4. \A o \in Slots : o # s => OnStack(o)' = OnStack(o)
  BY <1>1, <1>3, Pushed DEF IInv
<1>5. m_sendBuffer[s] = <<>>
  BY <1>1 DEF WInv, SendInv, Drained
<1>6. \A o \in Slots : Easier(o) /\ (Pending(o) => Sender(o)')
  BY <1>1 DEF Easier, Full, Pending, Sender
<1>7. ASSUME NEW o \in Slots, o # s PROVE SendInv(o)'
  BY <1>2, <1>4, <1>6, <1>7, OtherSlot
<1>8. SendInv(s)'
  <2>1. SendInv(s) /\ StaysDrained(t, s) /\ ~IsSender(t, s) /\ ~Wakes(t, s) /\ ~Chases(t, s)
    BY <1>1, <1>5 DEF WInv, StaysDrained, IsSender, SendTokens, SendLabels, Wakes, Wakers, Chases,
                      ChaseLabels
  <2> QED
    BY <1>2, <1>6, <2>1, SlotStep
<1> QED
  BY <1>7, <1>8

\* A new session begins with the empty queue of its slot and without a flag.
LEMMA AcceptStays ==
  ASSUME IInv, WInv, NEW t \in Threads, AcceptSession(t)
  PROVE  \A o \in Slots : SendInv(o)'
<1> USE DEF session, pool, io, local, log
<1>1. PICK s : s = Head(m_SessionIdxStack)
  OBVIOUS
<1>2. /\ m_SessionIdxStack # <<>> /\ m_SessionIdxStack' = Tail(m_SessionIdxStack)
      /\ ses' = [ses EXCEPT ![t] = s] /\ Goto(t, "accCount") /\ pc[t] = "accept"
      /\ m_flag' = [m_flag EXCEPT ![s] = FALSE] /\ m_blive' = [m_blive EXCEPT ![s] = TRUE]
      /\ m_SeqID' = [m_SeqID EXCEPT ![s] = session_id]
      /\ UNCHANGED <<m_sendBuffer, kernel, iocp, call, id>>
  BY <1>1 DEF AcceptSession
<1>3. /\ s \in Slots /\ OnStack(s) = 1
      /\ \A o \in Slots : o # s => OnStack(o)' = OnStack(o)
  BY <1>1, <1>2, Popped DEF IInv
<1>4. Alone(t) /\ ses'[t] = s /\ pc'[t] = "accCount"
  BY <1>2, <1>3 DEF IInv, Types, Goto, Alone, Moves
<1>5. m_sendBuffer'[s] = <<>> /\ ~Full(s)' /\ ~m_flag'[s]
  <2>1. m_sendBuffer'[s] = <<>>
    BY <1>2, <1>3 DEF WInv, SendInv, Drained
  <2>2. Len(m_sendBuffer'[s]) = 0
    BY <2>1
  <2>3. ~m_flag'[s]
    BY <1>2, <1>3 DEF IInv, Types
  <2> QED
    BY <2>1, <2>2, <2>3, LanServerAssumption DEF Full
<1>6. ASSUME NEW o \in Slots, o # s PROVE SendInv(o)'
  <2>1. Easier(o)
    BY <1>2, <1>6 DEF Easier, Full, IInv, Types
  <2>2. (Pending(o) => Sender(o)') /\ pc[t] \notin NeededLabels
    BY <1>2 DEF Pending, Sender, NeededLabels, SendTokens, SendLabels, Wakers, ChaseLabels
  <2> QED
    BY <1>3, <1>4, <1>6, <2>1, <2>2, OtherSlot
<1>7. SendInv(s)'
  BY <1>5 DEF SendInv, Drained, FlagKept, Woken, Limited
<1> QED
  BY <1>6, <1>7

-----------------------------------------------------------------------------
(* The ids of the threads that push. *)

LEMMA KnownNext == BitRoom /\ IInv /\ WInv /\ [Next]_vars => Known'
<1> SUFFICES ASSUME BitRoom, IInv, WInv, [Next]_vars PROVE Known'
  OBVIOUS
<1> USE DEF session, pool, io, local, log
<1>1. Types /\ Known
  BY DEF IInv, WInv
<1>2. ASSUME UNCHANGED m_SeqID, UNCHANGED <<pc, ses, id>> PROVE Known'
  BY <1>1, <1>2 DEF Known
<1>3. ASSUME NEW t \in Threads, Alone(t), m_SeqID' = m_SeqID,
             pc'[t] = "push" => id'[t] = m_SeqID[ses'[t]]
      PROVE  Known'
  BY <1>1, <1>3 DEF Known, Alone, Moves
<1>4. ASSUME NEW t \in Threads, NEW l, Goto(t, l), l # "push", UNCHANGED <<m_SeqID, ses, call>>,
             id' = id \/ \E n : id' = [id EXCEPT ![t] = n]
      PROVE  Known'
  BY <1>1, <1>3, <1>4, Alones
<1>5. ASSUME AcceptSession(Acceptor) PROVE Known'
  <2>1. PICK s : s = Head(m_SessionIdxStack)
    OBVIOUS
  <2>2. /\ m_SessionIdxStack # <<>> /\ m_SessionIdxStack' = Tail(m_SessionIdxStack)
        /\ ses' = [ses EXCEPT ![Acceptor] = s] /\ Goto(Acceptor, "accCount")
        /\ m_SeqID' = [m_SeqID EXCEPT ![s] = session_id] /\ id' = id
    BY <1>5, <2>1 DEF AcceptSession
  <2>3. s \in Slots /\ OnStack(s) = 1
    BY <2>1, <2>2, Popped DEF IInv
  <2> SUFFICES ASSUME NEW u \in Threads, pc'[u] = "push" PROVE id'[u] = m_SeqID'[ses'[u]]
    BY DEF Known
  <2>4. u # Acceptor /\ pc[u] = "push" /\ ses'[u] = ses[u]
    BY <1>1, <2>2 DEF Types, Goto
  <2>5. ses[u] # s
    BY <2>3, <2>4, HeldOpen DEF LockLabels
  <2> QED
    BY <1>1, <2>2, <2>4, <2>5 DEF Known, Types
<1>6. ASSUME NEW t \in Threads, SessionLock(t) PROVE Known'
  <2>1. PICK l : Goto(t, l) /\ (l = "push" => id[t] = m_SeqID[ses[t]])
    BY <1>6 DEF SessionLock
  <2>2. UNCHANGED <<m_SeqID, ses, call, id>>
    BY <1>6 DEF SessionLock
  <2> QED
    BY <1>1, <1>3, <2>1, <2>2, Alones
<1>7. ASSUME AcceptStep(Acceptor), ~AcceptSession(Acceptor) PROVE Known'
  <2>1. /\ \E l : Goto(Acceptor, l) /\ l # "push"
        /\ UNCHANGED <<m_SeqID, ses, call, id>>
    BY <1>7 DEF AcceptStep, AcceptCount, NoPort, OnAccept
  <2> QED
    BY <1>4, <2>1 DEF Threads
<1>8. ASSUME NEW w \in Workers, WorkerStep(w) PROVE Known'
  <2>1. /\ \E l : Goto(w, l) /\ l # "push"
        /\ UNCHANGED <<m_SeqID, ses, call>>
        /\ id' = id \/ \E n : id' = [id EXCEPT ![w] = n]
    BY <1>8 DEF WorkerStep, Fin, RecvComplete, SendComplete, FlagOff, Recheck, FlagOn, PopSend,
                SendLive, WSASend, WSACall, OnRelease, PushIdx
  <2> QED
    BY <1>4, <2>1 DEF Threads
<1>9. ASSUME NEW t \in Threads, IoStep(t) PROVE Known'
  <2>1. /\ \E l : Goto(t, l) /\ l # "push"
        /\ UNCHANGED <<m_SeqID, ses, call, id>>
    BY <1>9 DEF IoStep, RecvPacket, WSARecv, WSACall, IoError, IoPending, Dec, CAS, Disconnect,
                DisconnectMismatch, DisconnectLive, DisconnectCancel, DisconnectDec,
                DisconnectCAS, Home, Return
  <2> QED
    BY <1>4, <2>1
<1>10. ASSUME NEW t \in Contents, SendStep(t) PROVE Known'
  <2>1. t \in Threads
    BY DEF Threads
  <2>2. CASE ~SessionLock(t)
    <3>1. /\ \E l : Goto(t, l) /\ l # "push"
          /\ UNCHANGED <<m_SeqID, ses, call, id>>
      BY <1>10, <2>2 DEF SendStep, LockUndo, PushSend, Post, Limit, SessionUnLock
    <3> QED
      BY <1>4, <2>1, <3>1
  <2> QED
    BY <1>6, <2>1, <2>2
<1>11. ASSUME NEW w \in Workers, NEW s \in Slots, NEW c \in Completions, TakeCompletion(w, s, c)
       PROVE  Known'
  <2>1. w \in Threads /\ m_SeqID' = m_SeqID
    BY <1>11 DEF Threads, TakeCompletion
  <2>2. Alone(w) /\ pc'[w] # "push"
    BY <1>1, <1>11, <2>1 DEF Types, TakeCompletion, Goto, Alone, Moves, Entry, Completions
  <2> QED
    BY <1>3, <2>1, <2>2
<1>12. ASSUME NEW t \in Contents, NEW who \in accepted, NEW o \in Calls, Call(t, who, o)
       PROVE  Known'
  <2>1. t \in Threads /\ m_SeqID' = m_SeqID
    BY <1>12 DEF Threads, Call
  <2>2. Alone(t) /\ pc'[t] # "push"
    BY <1>1, <1>12, <2>1 DEF Types, Call, Goto, Alone, Moves
  <2> QED
    BY <1>3, <2>1, <2>2
<1>13. ASSUME NEW s \in Slots, KernelStep(s) PROVE Known'
  BY <1>2, <1>13 DEF KernelStep, Received, ReceiveEnds, Sent, Complete, Reset
<1>14. vars' = vars => Known'
  BY <1>2 DEF vars
<1> QED
  BY <1>5, <1>7, <1>8, <1>9, <1>10, <1>11, <1>12, <1>13, <1>14 DEF Next

-----------------------------------------------------------------------------
(* The invariant holds, and with it what the runs check. *)

LEMMA WInit == Init => WInv
<1> SUFFICES ASSUME Init PROVE WInv
  OBVIOUS
<1>1. \A t \in Threads : pc[t] \in {"GQCS", "accept", "idle"}
  BY DEF Init, Home
<1>2. \A s \in Slots : m_sendBuffer[s] = <<>> /\ ~m_blive[s]
  BY DEF Init
<1> QED
  BY <1>1, <1>2 DEF WInv, Known, SendInv, Drained, FlagKept, Woken, Limited

LEMMA WNext == BitRoom /\ IInv /\ WInv /\ [Next]_vars => WInv'
<1> SUFFICES ASSUME BitRoom, IInv, WInv, [Next]_vars PROVE WInv'
  OBVIOUS
<1>1. Types
  BY DEF IInv
<1> SUFFICES \A o \in Slots : SendInv(o)'
  BY KnownNext DEF WInv
<1>2. CASE UNCHANGED vars
  <2>1. UNCHANGED <<m_SeqID, m_blive, m_flag, m_sendBuffer, m_SessionIdxStack, kernel, iocp, pc,
                    ses, id, call>>
    BY <1>2 DEF vars, session, pool, io, local
  <2> QED
    BY <2>1 DEF WInv, SendInv, Drained, OnStack, FlagKept, Woken, Limited, Full, Sender, Pending,
                IsSender, Waker, Wakes, Chased, Chases
<1>3. ASSUME AcceptStep(Acceptor) PROVE \A o \in Slots : SendInv(o)'
  <2>1. Acceptor \in Threads
    BY DEF Threads
  <2> QED
    BY <1>1, <1>3, <2>1, AcceptStays, QuietActions DEF AcceptStep
<1>4. ASSUME NEW w \in Workers, WorkerStep(w) PROVE \A o \in Slots : SendInv(o)'
  <2>1. w \in Threads
    BY DEF Threads
  <2> QED
    BY <1>1, <1>4, <2>1, QuietActions, FlagOffStays, LookStays, PostStays, PopStays,
       WSACallStays, ReleaseStays, PushIdxStays DEF WorkerStep
<1>5. ASSUME NEW t \in Threads, IoStep(t) PROVE \A o \in Slots : SendInv(o)'
  BY <1>1, <1>5, QuietActions, WSACallStays, CASStays, LookStays DEF IoStep
<1>6. ASSUME NEW t \in Contents, SendStep(t) PROVE \A o \in Slots : SendInv(o)'
  <2>1. t \in Threads
    BY DEF Threads
  <2> QED
    BY <1>1, <1>6, <2>1, QuietActions, PushStays, PostStays, LookStays DEF SendStep
<1> QED
  BY <1>1, <1>2, <1>3, <1>4, <1>5, <1>6, TakeStays, CallStays, KernelStays DEF Next

LEMMA WakeupsHold == ASSUME BitRoom PROVE Spec => [](IInv /\ WInv)
<1>1. IInv /\ WInv /\ [Next]_vars => WInv'
  BY WNext
<1> QED
  BY InvHolds, WInit, <1>1, PTL DEF Spec

\* A thread at one of the labels is counted.
LEMMA SomeAt ==
  ASSUME NEW T \in SUBSET Threads, NEW L, NEW s, NEW t \in T, ses[t] = s, pc[t] \in L
  PROVE  Count(T, L, s) \in Nat /\ Count(T, L, s) > 0
<1>1. IsFiniteSet(At(T, L, s)) /\ Count(T, L, s) \in Nat
  BY FiniteAt
<1>2. t \in At(T, L, s)
  BY DEF At
<1>3. Count(T, L, s) # 0
  BY <1>1, <1>2, FS_EmptySet DEF Count
<1> QED
  BY <1>1, <1>3

\* Whatever the numbers of threads, sessions and messages, a message that is queued for
\* a live session is sent by somebody: by an operation under way, or by a thread that is
\* about to try for m_flag.  The sender that finds the flag set is seen by the worker
\* that gives it back and looks again (Unicast, SendComplete).
THEOREM NoLostWakeupHolds == ASSUME BitRoom PROVE Spec => []NoLostWakeup
<1>1. IInv /\ WInv => NoLostWakeup
  <2> DEFINE L == SendLabels \cup {"post", "recheck", "flagOn", "sendError"}
  <2> SUFFICES ASSUME IInv, WInv, NEW s \in Slots, m_blive[s], m_sendBuffer[s] # <<>>
               PROVE  kernel[s].send + iocp[s].send + Count(Threads, L, s) > 0
    BY DEF NoLostWakeup
  <2>1. Threads \in SUBSET Threads /\ kernel[s].send \in Nat /\ iocp[s].send \in Nat
    BY FieldNats DEF IInv, FieldsOK
  <2>2. Count(Threads, L, s) \in Nat
    BY <2>1, FiniteAt
  <2>3. Sender(s) \/ Waker(s)
    BY DEF WInv, SendInv, Woken
  <2>4. CASE Pending(s)
    <3> HIDE DEF L
    <3> QED
      BY <2>1, <2>2, <2>4 DEF Pending
  <2>5. ASSUME NEW t \in Threads, IsSender(t, s) \/ Wakes(t, s) PROVE Count(Threads, L, s) > 0
    <3>1. ses[t] = s /\ pc[t] \in L
      BY <2>5 DEF IsSender, Wakes, SendTokens, Wakers
    <3> QED
      BY <2>1, <3>1, SomeAt
  <2>6. Pending(s) \/ Count(Threads, L, s) > 0
    BY <2>3, <2>5 DEF Sender, Waker
  <2> HIDE DEF L
  <2> QED
    BY <2>1, <2>2, <2>4, <2>6
<1> QED
  BY WakeupsHold, <1>1, PTL

\* Whatever the numbers of threads, sessions and messages, a session whose queue is as
\* long as SendBufferLimit has been given up, or the thread whose message filled it is on
\* the way to Disconnect, with the id of this session and a reference that keeps it open
\* (Unicast).
THEOREM QueueLimitedHolds == ASSUME BitRoom PROVE Spec => []QueueLimited
<1>1. IInv /\ WInv => QueueLimited
  <2> DEFINE L == {"post", "limit", "Disconnect", "discLive"}
  <2> SUFFICES ASSUME IInv, WInv, NEW s \in Slots, m_blive[s], Full(s)
               PROVE  Count(Contents, L, s) > 0
    BY DEF QueueLimited, Full
  <2>1. PICK t \in Threads : Chases(t, s)
    BY DEF WInv, SendInv, Limited, Chased
  <2>2. t \in Contents /\ ses[t] = s /\ pc[t] \in L /\ Contents \in SUBSET Threads
    BY <2>1 DEF Chases, ChaseLabels, Threads
  <2> QED
    BY <2>2, SomeAt
<1> QED
  BY WakeupsHold, <1>1, PTL

-----------------------------------------------------------------------------
(***************************************************************************)
(* LanServer implements SessionService.                                    *)
(*                                                                         *)
(* A slot is opening from AcceptSession to OnAccept, idle from OnRelease   *)
(* until its next client, lost when its connection had no port, and in     *)
(* every other state the session in it is the one the application knows.   *)
(***************************************************************************)

\* Labels at which a thread decides what its slot is.
OpenLabels  == {"accCount", "OnAccept"}
StageLabels == OpenLabels \cup {"Push"}

Name(s)    == <<s, m_SeqID[s]>>
Opening(s) == \E t \in Threads : ses[t] = s /\ pc[t] \in OpenLabels
Pushing(s) == \E t \in Threads : ses[t] = s /\ pc[t] = "Push"
Idle(s)    == OnStack(s) = 1 \/ Pushing(s)

Stage(s) == /\ Opening(s) \/ conn[s] = "lost" => Name(s) \notin accepted
            /\ Idle(s) => ~Served(s)
            /\ Served(s) \/ Opening(s) \/ Idle(s) \/ conn[s] = "lost"

\* No message stays in a slot for its next session ...
Emptied(s) == ~Served(s) => m_sendBuffer[s] = <<>> /\ m_sendOverlapped[s] = <<>>

\* ... nor in m_sendOverlapped when SendComplete fills it.
Ready(s) == \A t \in Threads : ses[t] = s /\ pc[t] = "Pop" => m_sendOverlapped[s] = <<>>

SlotService(s) == Stage(s) /\ Emptied(s) /\ Ready(s)

\* Ids are given once and in ascending order.
Ids == /\ released \subseteq accepted
       /\ session_id <= MaxAccepts
       /\ \A who \in accepted : who[2] < session_id

Fresh == \A t \in Threads : pc[t] \in OpenLabels =>
           /\ m_SeqID[ses[t]] < session_id
           /\ \A who \in accepted : who[2] < m_SeqID[ses[t]]

\* The application names sessions it was given, and numbers what it sends.
Named    == \A t \in Contents : pc[t] # "idle" => <<ses[t], id[t]>> \in accepted
Numbered == nMsgs <= MaxMsgs /\ \A t \in Threads : call[t] = "SendPacket" => nMsgs >= 1

ServiceInv == Ids /\ Fresh /\ Named /\ Numbered /\ \A s \in Slots : SlotService(s)

-----------------------------------------------------------------------------
(* Who else is on a slot, from the invariant of the count. *)

LEMMA OnlyOne ==
  ASSUME NEW L, NEW s, Count(Threads, L, s) <= 1, NEW t \in Threads, ses[t] = s, pc[t] \in L,
         NEW u \in Threads, ses[u] = s, pc[u] \in L
  PROVE  u = t
<1>1. Threads \in SUBSET Threads
  OBVIOUS
<1>2. /\ IsFiniteSet(At(Threads, L, s)) /\ t \in At(Threads, L, s) /\ u \in At(Threads, L, s)
      /\ Count(Threads, L, s) \in Nat
  BY <1>1, FiniteAt DEF At
<1>3. Count(Threads, L, s) # 0
  BY <1>2, FS_EmptySet DEF Count
<1>4. Cardinality(At(Threads, L, s)) = 1
  BY <1>2, <1>3 DEF Count
<1>5. \E x : At(Threads, L, s) = {x}
  BY <1>2, <1>4, FS_Singleton
<1> QED
  BY <1>2, <1>5

\* What follows for a slot that somebody refers to ...
InUse(s) == /\ OnStack(s) = 0
            /\ \A u \in Threads : ses[u] = s => pc[u] \notin ClosedLabels

LEMMA Occupied ==
  ASSUME IInv, NEW t \in Threads,
         (t \in Holders /\ pc[t] \in HoldLabels) \/ pc[t] \in TwiceLabels
  PROVE  InUse(ses[t])
<1> PICK s \in Slots : s = ses[t]
  BY DEF IInv, Types
<1>1. SlotInv(s) /\ SlotNats(s) /\ FieldsOK(s)
  BY AllNats, FieldNats DEF IInv
<1>2. Threads \in SUBSET Threads /\ Holders \in SUBSET Threads /\ Sending(s) \in SUBSET Threads
  BY DEF Threads, Holders, Sending, At
<1>3. /\ Count(Holders, HoldLabels, s) \in Nat /\ Count(Threads, TwiceLabels, s) \in Nat
      /\ Cardinality(Sending(s)) \in Nat
  BY <1>2, FiniteAt, FiniteSubset
<1>4. Count(Holders, HoldLabels, s) > 0 \/ Count(Threads, TwiceLabels, s) > 0
  BY <1>2, SomeAt
<1>5. AllRefs(s) # 0
  BY <1>1, <1>3, <1>4 DEF AllRefs, ThreadRefs, SlotNats
<1>6. Places(s) = 0
  BY <1>1, <1>5 DEF SlotInv, Counted
<1>7. OnStack(s) = 0 /\ ThreadsClosed(s) = 0
  BY <1>1, <1>6 DEF Places, IoClosed, SlotNats, FieldsOK
<1>8. ASSUME NEW u \in Threads, ses[u] = s, pc[u] \in ClosedLabels PROVE FALSE
  BY <1>2, <1>7, <1>8, SomeAt DEF ThreadsClosed
<1> QED
  BY <1>7, <1>8 DEF InUse

\* ... and for one that thread t opens or releases.
LEMMA Leaving ==
  ASSUME IInv, NEW t \in Threads, pc[t] \in ClosedLabels
  PROVE  /\ OnStack(ses[t]) = 0 /\ conn[ses[t]] # "lost"
         /\ \A u \in Threads : ses[u] = ses[t] /\ pc[u] \in ClosedLabels => u = t
         /\ \A u \in Threads : ses[u] = ses[t] => pc[u] # "OnAccept"
<1> PICK s \in Slots : s = ses[t]
  BY DEF IInv, Types
<1>1. SlotInv(s) /\ SlotNats(s) /\ FieldsOK(s)
  BY AllNats, FieldNats DEF IInv
<1>2. Threads \in SUBSET Threads
  OBVIOUS
<1>3. ThreadsClosed(s) > 0
  BY <1>2, SomeAt DEF ThreadsClosed
<1>4. Places(s) = 1 /\ AllRefs(s) = 0
  BY <1>1, <1>3 DEF SlotInv, Counted, Places, SlotNats
<1>5. ThreadsClosed(s) <= 1 /\ OnStack(s) = 0
  BY <1>1, <1>3, <1>4 DEF Places, IoClosed, SlotNats, FieldsOK
<1>6. Lost(s) = 0
  BY <1>1, <1>4 DEF AllRefs, SlotNats
<1>7. \A u \in Threads : ses[u] = s /\ pc[u] \in ClosedLabels => u = t
  BY <1>5, OnlyOne DEF ThreadsClosed
<1>8. ASSUME NEW u \in Threads, ses[u] = s, pc[u] = "OnAccept" PROVE FALSE
  <2>1. u \in Holders /\ pc[u] \in HoldLabels
    BY <1>8, Kinds DEF IInv, Types, Holders, HoldLabels
  <2> QED
    BY <1>8, <2>1, Occupied DEF InUse
<1> QED
  BY <1>5, <1>6, <1>7, <1>8 DEF Lost

LEMMA OneSends ==
  ASSUME IInv, NEW t \in Threads, pc[t] \in SendTokens,
         NEW u \in Threads, ses[u] = ses[t], pc[u] \in SendTokens
  PROVE  u = t
<1> PICK s \in Slots : s = ses[t]
  BY DEF IInv, Types
<1>1. SlotNats(s) /\ Tokens(s)
  BY AllNats DEF IInv, SlotInv
<1>2. ThreadsSend(s) <= 1
  BY <1>1 DEF Tokens, SlotNats
<1> QED
  BY <1>2, OnlyOne DEF ThreadsSend

\* A connection that is given to the application is not lost.
LEMMA NotLost ==
  ASSUME IInv, NEW t \in Threads, pc[t] = "OnAccept"
  PROVE  conn[ses[t]] # "lost"
<1> PICK s \in Slots : s = ses[t]
  BY DEF IInv, Types
<1>1. SlotNats(s) /\ Tokens(s) /\ Threads \in SUBSET Threads
  BY AllNats DEF IInv, SlotInv
<1>2. ThreadsRecv(s) > 0
  BY <1>1, SomeAt DEF ThreadsRecv, RecvTokens
<1>3. Lost(s) = 0
  BY <1>1, <1>2 DEF Tokens, SlotNats
<1> QED
  BY <1>3 DEF Lost

-----------------------------------------------------------------------------
(* Slots and steps that the service does not see. *)

SameSlot(o) ==
  /\ m_SeqID'[o] = m_SeqID[o] /\ OnStack(o)' = OnStack(o)
  /\ conn'[o] = "lost" <=> conn[o] = "lost"
  /\ Name(o) \in accepted' <=> Name(o) \in accepted
  /\ Name(o) \in released' <=> Name(o) \in released
  /\ m_sendBuffer'[o] = m_sendBuffer[o] /\ m_sendOverlapped'[o] = m_sendOverlapped[o]

\* Thread t neither was nor is at a label that counts for slot o, nor comes to Pop.
Outside(t, o) ==
  /\ ses[t] = o => pc[t] \notin StageLabels
  /\ ses'[t] = o => pc'[t] \notin StageLabels \cup {"Pop"}

LEMMA SameServed ==
  ASSUME NEW o \in Slots, SameSlot(o)
  PROVE  (Served(o)' <=> Served(o)) /\ Name(o)' = Name(o)
BY DEF SameSlot, Served, Name

LEMMA SlotKept ==
  ASSUME NEW o \in Slots, SlotService(o), SameSlot(o),
         Opening(o)' <=> Opening(o), Pushing(o)' <=> Pushing(o),
         \A u \in Threads : ses'[u] = o /\ pc'[u] = "Pop" => ses[u] = o /\ pc[u] = "Pop"
  PROVE  SlotService(o)'
<1>1. (Served(o)' <=> Served(o)) /\ Name(o)' = Name(o) /\ (Idle(o)' <=> Idle(o))
  BY SameServed DEF Idle, SameSlot
<1>2. Stage(o)'
  BY <1>1 DEF Stage, SlotService, SameSlot
<1>3. Emptied(o)'
  BY <1>1 DEF Emptied, SlotService, SameSlot
<1>4. Ready(o)'
  BY DEF Ready, SlotService, SameSlot
<1> QED
  BY <1>2, <1>3, <1>4 DEF SlotService

LEMMA Untouched ==
  ASSUME NEW t \in Threads, Alone(t), NEW o \in Slots, SlotService(o), SameSlot(o), Outside(t, o)
  PROVE  SlotService(o)'
<1>1. \A u \in Threads : u # t => pc'[u] = pc[u] /\ ses'[u] = ses[u]
  BY DEF Alone, Moves
<1>2. \A u \in Threads : ses'[u] = o /\ pc'[u] \in OpenLabels <=> ses[u] = o /\ pc[u] \in OpenLabels
  BY <1>1 DEF Outside, StageLabels
<1>3. \A u \in Threads : ses'[u] = o /\ pc'[u] = "Push" <=> ses[u] = o /\ pc[u] = "Push"
  BY <1>1 DEF Outside, StageLabels
<1>4. \A u \in Threads : ses'[u] = o /\ pc'[u] = "Pop" => ses[u] = o /\ pc[u] = "Pop"
  BY <1>1 DEF Outside
<1>5. (Opening(o)' <=> Opening(o)) /\ (Pushing(o)' <=> Pushing(o))
  BY <1>2, <1>3 DEF Opening, Pushing
<1> QED
  BY <1>4, <1>5, SlotKept

\* Thread t's step concerns slot s; the others stay.
LEMMA Others ==
  ASSUME ServiceInv, NEW t \in Threads, Alone(t), NEW s \in Slots,
         ses[t] = s \/ pc[t] \notin StageLabels, ses'[t] = s,
         \A o \in Slots : o # s => SameSlot(o), SlotService(s)'
  PROVE  \A o \in Slots : SlotService(o)'
<1>1. ASSUME NEW o \in Slots, o # s PROVE SlotService(o)'
  <2>1. SlotService(o) /\ SameSlot(o) /\ Outside(t, o)
    BY <1>1 DEF ServiceInv, Outside
  <2> QED
    BY <2>1, Untouched
<1> QED
  BY <1>1

\* The ids and numbers of the application, when thread t starts no call.
LEMMA NamesKept ==
  ASSUME ServiceInv, NEW t \in Threads, Alone(t), accepted \subseteq accepted',
         UNCHANGED <<nMsgs, call>>,
         t \in Contents => \/ pc'[t] = "idle"
                           \/ pc[t] # "idle" /\ ses'[t] = ses[t] /\ id'[t] = id[t]
  PROVE  Named' /\ Numbered'
<1>1. ASSUME NEW u \in Contents, pc'[u] # "idle" PROVE <<ses'[u], id'[u]>> \in accepted'
  <2>1. pc[u] # "idle" /\ ses'[u] = ses[u] /\ id'[u] = id[u]
    BY <1>1 DEF Alone, Moves, Threads
  <2> QED
    BY <2>1 DEF ServiceInv, Named
<1>2. Named'
  BY <1>1 DEF Named
<1>3. Numbered'
  BY DEF ServiceInv, Numbered
<1> QED
  BY <1>2, <1>3

\* Nobody comes to a label at which a slot is opened.
LEMMA FreshKept ==
  ASSUME ServiceInv, NEW t \in Threads, Alone(t), UNCHANGED <<m_SeqID, accepted, session_id>>,
         \/ pc'[t] \notin OpenLabels
         \/ pc[t] \in OpenLabels /\ ses'[t] = ses[t]
  PROVE  Fresh'
<1>1. \A u \in Threads : pc'[u] \in OpenLabels => pc[u] \in OpenLabels /\ ses'[u] = ses[u]
  BY DEF Alone, Moves
<1> QED
  BY <1>1 DEF ServiceInv, Fresh

\* The service's view does not change.
Unseen == UNCHANGED Service!service

Current(s)  == IF Served(s) THEN m_SeqID[s] ELSE -1
Outgoing(s) == IF Served(s) THEN m_sendOverlapped[s] \o m_sendBuffer[s] ELSE <<>>

Currents  == [s \in Slots |-> Current(s)]
Outgoings == [s \in Slots |-> Outgoing(s)]

LEMMA View == Service!service = <<Currents, Outgoings, accepted, released, done>>
BY DEF Service!service, Currents, Outgoings, Current, Outgoing

LEMMA SameViews ==
  ASSUME UNCHANGED <<accepted, released, done>>,
         \A o \in Slots : Current(o)' = Current(o) /\ Outgoing(o)' = Outgoing(o)
  PROVE  Unseen
<1>1. Currents' = Currents /\ Outgoings' = Outgoings
  BY DEF Currents, Outgoings
<1>2. Service!service' = <<Currents', Outgoings', accepted', released', done'>>
  BY DEF Service!service, Currents, Outgoings, Current, Outgoing
<1> QED
  BY <1>1, <1>2, View DEF Unseen

LEMMA SameQueues ==
  ASSUME UNCHANGED <<m_SeqID, accepted, released, done>>,
         \A o \in Slots : Served(o) => m_sendOverlapped'[o] \o m_sendBuffer'[o]
                                         = m_sendOverlapped[o] \o m_sendBuffer[o]
  PROVE  Unseen
<1>1. \A o \in Slots : (Served(o)' <=> Served(o)) /\ Current(o)' = Current(o)
  BY DEF Served, Current
<1>2. \A o \in Slots : Outgoing(o)' = Outgoing(o)
  BY <1>1 DEF Outgoing
<1> QED
  BY <1>1, <1>2, SameViews

\* What the service depends on is left as it is.
Still == UNCHANGED <<m_SeqID, session_id, m_SessionIdxStack, accepted, released, done,
                     m_sendBuffer, m_sendOverlapped>>

LEMMA StillSame ==
  ASSUME Still, \A o \in Slots : conn'[o] = "lost" <=> conn[o] = "lost"
  PROVE  (\A o \in Slots : SameSlot(o)) /\ Unseen
<1>1. \A o \in Slots : SameSlot(o)
  BY DEF Still, SameSlot, OnStack
<1>2. Unseen
  BY SameQueues DEF Still
<1> QED
  BY <1>1, <1>2

\* A step of thread t that the service does not see.
LEMMA CalmStep ==
  ASSUME Types, ServiceInv, NEW t \in Threads, NEW l, Goto(t, l), UNCHANGED <<ses, call, nMsgs, conn>>,
         id' = id \/ (t \in Workers /\ \E n : id' = [id EXCEPT ![t] = n]), Still,
         pc[t] \notin StageLabels \cup {"idle"}, l \notin StageLabels \cup {"Pop"}
  PROVE  ServiceInv' /\ Unseen
<1>1. Alone(t) /\ pc'[t] = l /\ ses'[t] = ses[t]
  BY Alones
<1>2. (\A o \in Slots : SameSlot(o)) /\ Unseen
  BY StillSame
<1>3. \A o \in Slots : SlotService(o)'
  <2>1. \A o \in Slots : Outside(t, o)
    BY <1>1 DEF Outside
  <2> QED
    BY <1>1, <1>2, <2>1, Untouched DEF ServiceInv
<1>4. Named' /\ Numbered'
  <2>1. t \in Contents => id' = id
    BY LanServerAssumption
  <2> QED
    BY <1>1, <2>1, NamesKept DEF Still
<1>5. Fresh' /\ Ids'
  BY <1>1, FreshKept DEF Still, StageLabels, ServiceInv, Ids
<1> QED
  BY <1>2, <1>3, <1>4, <1>5 DEF ServiceInv

LEMMA CalmWorker ==
  ASSUME Types, ServiceInv, NEW w \in Workers, WorkerStep(w),
         ~(SendComplete(w) \/ PopSend(w) \/ OnRelease(w) \/ PushIdx(w))
  PROVE  ServiceInv' /\ Unseen
<1> USE DEF session, pool, io, local, log
<1>1. PICK l : Goto(w, l) /\ l \notin StageLabels \cup {"Pop"}
  BY DEF WorkerStep, Fin, RecvComplete, FlagOff, Recheck, FlagOn, SendLive, WSASend, WSACall,
         StageLabels, OpenLabels
<1>2. pc[w] \notin StageLabels \cup {"idle"}
  BY DEF WorkerStep, Fin, RecvComplete, FlagOff, Recheck, FlagOn, SendLive, WSASend,
         StageLabels, OpenLabels
<1>3. /\ UNCHANGED <<ses, call, nMsgs, conn>> /\ Still
      /\ id' = id \/ \E n : id' = [id EXCEPT ![w] = n]
  BY DEF WorkerStep, Fin, RecvComplete, FlagOff, Recheck, FlagOn, SendLive, WSASend, WSACall, Still
<1>4. w \in Threads
  BY DEF Threads
<1> QED
  BY <1>1, <1>2, <1>3, <1>4, CalmStep

LEMMA CalmIo ==
  ASSUME Types, ServiceInv, NEW t \in Threads, IoStep(t)
  PROVE  ServiceInv' /\ Unseen
<1> USE DEF session, pool, io, local, log
<1>1. PICK l : Goto(t, l) /\ l \notin StageLabels \cup {"Pop"}
  BY DEF IoStep, RecvPacket, WSARecv, WSACall, IoError, IoPending, Dec, CAS, Disconnect,
         DisconnectMismatch, DisconnectLive, DisconnectCancel, DisconnectDec, DisconnectCAS,
         Home, Return, StageLabels, OpenLabels
<1>2. pc[t] \notin StageLabels \cup {"idle"}
  BY DEF IoStep, RecvPacket, WSARecv, IoError, IoPending, Dec, CAS, Disconnect,
         DisconnectMismatch, DisconnectLive, DisconnectCancel, DisconnectDec, DisconnectCAS,
         StageLabels, OpenLabels
<1>3. UNCHANGED <<ses, call, nMsgs, conn, id>> /\ Still
  BY DEF IoStep, RecvPacket, WSARecv, WSACall, IoError, IoPending, Dec, CAS, Disconnect,
         DisconnectMismatch, DisconnectLive, DisconnectCancel, DisconnectDec, DisconnectCAS, Still
<1> QED
  BY <1>1, <1>2, <1>3, CalmStep

LEMMA CalmSend ==
  ASSUME Types, ServiceInv, NEW t \in Contents, SendStep(t), ~PushSend(t)
  PROVE  ServiceInv' /\ Unseen
<1> USE DEF session, pool, io, local, log
<1>1. PICK l : Goto(t, l) /\ l \notin StageLabels \cup {"Pop"}
  BY DEF SendStep, SessionLock, LockUndo, Post, Limit, SessionUnLock, StageLabels, OpenLabels
<1>2. pc[t] \notin StageLabels \cup {"idle"}
  BY DEF SendStep, SessionLock, LockUndo, Post, Limit, SessionUnLock, StageLabels, OpenLabels
<1>3. UNCHANGED <<ses, call, nMsgs, conn, id>> /\ Still
  BY DEF SendStep, SessionLock, LockUndo, Post, Limit, SessionUnLock, Still
<1>4. t \in Threads
  BY DEF Threads
<1> QED
  BY <1>1, <1>2, <1>3, <1>4, CalmStep

LEMMA CalmTake ==
  ASSUME Types, ServiceInv, NEW w \in Workers, NEW s \in Slots, NEW c \in Completions,
         TakeCompletion(w, s, c)
  PROVE  ServiceInv' /\ Unseen
<1> USE DEF session, pool, io, local, log
<1>1. w \in Threads /\ w \notin Contents /\ pc \in [Threads -> Labels] /\ ses \in [Threads -> Slots]
  BY LanServerAssumption DEF Types, Threads
<1>2. /\ pc[w] = "GQCS" /\ pc' = [pc EXCEPT ![w] = Entry(c)] /\ ses' = [ses EXCEPT ![w] = s]
      /\ UNCHANGED <<id, call, nMsgs, conn>> /\ Still
  BY DEF TakeCompletion, Goto, Still
<1>3. pc'[w] \notin StageLabels \cup {"Pop"} /\ pc[w] \notin StageLabels /\ Alone(w)
  BY <1>1, <1>2 DEF Entry, Completions, StageLabels, OpenLabels, Alone, Moves
<1>4. (\A o \in Slots : SameSlot(o)) /\ Unseen
  BY <1>2, StillSame
<1>5. \A o \in Slots : SlotService(o)'
  <2>1. \A o \in Slots : Outside(w, o)
    BY <1>3 DEF Outside
  <2> QED
    BY <1>1, <1>3, <1>4, <2>1, Untouched DEF ServiceInv
<1>6. Named' /\ Numbered' /\ Fresh' /\ Ids'
  BY <1>1, <1>2, <1>3, NamesKept, FreshKept DEF Still, StageLabels, ServiceInv, Ids
<1> QED
  BY <1>4, <1>5, <1>6 DEF ServiceInv

LEMMA CalmCall ==
  ASSUME Types, ServiceInv, NEW t \in Contents, NEW who \in accepted, NEW op \in Calls,
         Call(t, who, op)
  PROVE  ServiceInv' /\ Unseen
<1> USE DEF session, pool, io, local, log
<1>1. /\ t \in Threads /\ pc \in [Threads -> Labels] /\ ses \in [Threads -> Slots]
      /\ id \in [Threads -> Nat] /\ call \in [Threads -> Calls] /\ nMsgs \in Nat
      /\ who = <<who[1], who[2]>>
  BY DEF Types, Threads
<1>2. PICK l : pc' = [pc EXCEPT ![t] = l] /\ l \in {"SessionLock", "Disconnect"}
  BY DEF Call, Goto
<1>3. /\ pc[t] = "idle" /\ ses' = [ses EXCEPT ![t] = who[1]] /\ id' = [id EXCEPT ![t] = who[2]]
      /\ call' = [call EXCEPT ![t] = op] /\ conn' = conn /\ Still
  BY DEF Call, Still
<1>4. /\ pc'[t] = l /\ l \notin StageLabels \cup {"Pop"} /\ pc[t] \notin StageLabels /\ Alone(t)
      /\ ses'[t] = who[1] /\ id'[t] = who[2] /\ call'[t] = op
  BY <1>1, <1>2, <1>3 DEF StageLabels, OpenLabels, Alone, Moves
<1>5. (\A o \in Slots : SameSlot(o)) /\ Unseen
  BY <1>3, StillSame
<1>6. \A o \in Slots : SlotService(o)'
  <2>1. \A o \in Slots : Outside(t, o)
    BY <1>4 DEF Outside
  <2> QED
    BY <1>1, <1>4, <1>5, <2>1, Untouched DEF ServiceInv
<1>7. Named'
  <2> SUFFICES ASSUME NEW u \in Contents, pc'[u] # "idle" PROVE <<ses'[u], id'[u]>> \in accepted'
    BY DEF Named
  <2>1. accepted' = accepted
    BY <1>3 DEF Still
  <2>2. CASE u = t
    BY <1>1, <1>4, <2>1, <2>2
  <2>3. CASE u # t
    <3>1. pc[u] # "idle" /\ ses'[u] = ses[u] /\ id'[u] = id[u]
      BY <1>4, <2>3 DEF Alone, Moves, Threads
    <3> QED
      BY <2>1, <3>1 DEF ServiceInv, Named
  <2> QED
    BY <2>2, <2>3
<1>8. Numbered'
  <2>1. nMsgs' = (IF op = "SendPacket" THEN nMsgs + 1 ELSE nMsgs)
        /\ (op = "SendPacket" => nMsgs < MaxMsgs) /\ MaxMsgs \in Nat
    BY LanServerAssumption DEF Call
  <2>2. nMsgs' <= MaxMsgs /\ nMsgs' >= nMsgs /\ (op = "SendPacket" => nMsgs' >= 1)
    BY <1>1, <2>1 DEF ServiceInv, Numbered
  <2>3. \A u \in Threads : call'[u] = "SendPacket" => nMsgs' >= 1
    <3>1. nMsgs' \in Nat
      BY <1>1, <2>1
    <3> QED
      BY <1>1, <1>4, <2>2, <3>1 DEF ServiceInv, Numbered, Alone, Moves
  <2> QED
    BY <2>2, <2>3 DEF Numbered
<1>9. Fresh' /\ Ids'
  BY <1>1, <1>3, <1>4, FreshKept DEF Still, StageLabels, ServiceInv, Ids
<1> QED
  BY <1>5, <1>6, <1>7, <1>8, <1>9 DEF ServiceInv

LEMMA CalmKernel ==
  ASSUME Types, ServiceInv, NEW s \in Slots, KernelStep(s)
  PROVE  ServiceInv' /\ Unseen
<1> USE DEF session, pool, io, local, log
<1>1. UNCHANGED <<pc, ses, id, call, nMsgs>> /\ Still
  BY DEF KernelStep, Received, ReceiveEnds, Sent, Complete, Reset, Still
<1>2. \A o \in Slots : conn'[o] = "lost" <=> conn[o] = "lost"
  BY DEF KernelStep, Received, ReceiveEnds, Sent, Complete, Reset, Types
<1>3. (\A o \in Slots : SameSlot(o)) /\ Unseen
  BY <1>1, <1>2, StillSame
<1>4. \A o \in Slots : SlotService(o)'
  <2>1. \A o \in Slots : (Opening(o)' <=> Opening(o)) /\ (Pushing(o)' <=> Pushing(o))
    BY <1>1 DEF Opening, Pushing
  <2> QED
    BY <1>1, <1>3, <2>1, SlotKept DEF ServiceInv
<1> QED
  BY <1>1, <1>3, <1>4 DEF ServiceInv, Still, Ids, Fresh, Named, Numbered

-----------------------------------------------------------------------------
(* Steps that open and close a slot. *)

\* Thread t goes from label l to label m and stays on slot s.
Steps(t, s, l, m) ==
  /\ t \in Threads /\ s \in Slots /\ Alone(t)
  /\ ses[t] = s /\ ses'[t] = s /\ pc[t] = l /\ pc'[t] = m

LEMMA Stepping ==
  ASSUME Types, NEW t \in Threads, NEW l, pc[t] = l, NEW m, Goto(t, m), UNCHANGED <<ses, call, id>>
  PROVE  \E s \in Slots : s = ses[t] /\ Steps(t, s, l, m)
BY Alones DEF Steps

LEMMA AcceptStep1 ==
  ASSUME IInv, ServiceInv, AcceptSession(Acceptor)
  PROVE  ServiceInv' /\ Unseen
<1> USE DEF session, pool, io, local, log
<1>1. PICK s : s = Head(m_SessionIdxStack)
  OBVIOUS
<1>2. /\ m_SessionIdxStack # <<>> /\ m_SessionIdxStack' = Tail(m_SessionIdxStack)
      /\ session_id < MaxAccepts /\ session_id' = session_id + 1
      /\ ses' = [ses EXCEPT ![Acceptor] = s] /\ pc' = [pc EXCEPT ![Acceptor] = "accCount"]
      /\ m_SeqID' = [m_SeqID EXCEPT ![s] = session_id] /\ conn' = [conn EXCEPT ![s] = "up"]
      /\ pc[Acceptor] = "accept"
      /\ UNCHANGED <<accepted, released, done, m_sendBuffer, m_sendOverlapped, id, call, nMsgs>>
  BY <1>1 DEF AcceptSession, Goto
<1>3. /\ Acceptor \in Threads /\ pc \in [Threads -> Labels] /\ ses \in [Threads -> Slots]
      /\ m_SeqID \in [Slots -> Nat] /\ session_id \in Nat /\ MaxAccepts \in Nat
      /\ conn \in [Slots -> {"none", "up", "reset", "lost"}] /\ accepted \subseteq Slots \X Nat
      /\ Acceptor \notin Contents
  BY LanServerAssumption DEF IInv, Types, Threads
<1>4. /\ s \in Slots /\ OnStack(s) = 1 /\ OnStack(s)' = 0
      /\ \A o \in Slots : o # s => OnStack(o)' = OnStack(o)
  BY <1>1, <1>2, Popped DEF IInv
<1>5. Alone(Acceptor) /\ pc'[Acceptor] = "accCount" /\ ses'[Acceptor] = s
  BY <1>2, <1>3 DEF Alone, Moves
<1>6. ~Served(s) /\ m_sendBuffer[s] = <<>> /\ m_sendOverlapped[s] = <<>>
  BY <1>4 DEF ServiceInv, SlotService, Stage, Idle, Emptied
<1>7. \A who \in accepted : who[2] < session_id
  BY DEF ServiceInv, Ids
<1>8. Name(s)' \notin accepted' /\ ~Served(s)'
  <2>1. m_SeqID'[s] = session_id
    BY <1>2, <1>3, <1>4
  <2>2. <<s, session_id>> \notin accepted
    BY <1>3, <1>7
  <2>3. accepted' = accepted
    BY <1>2
  <2>4. <<s, m_SeqID'[s]>> \notin accepted'
    BY <2>1, <2>2, <2>3
  <2> QED
    BY <2>4 DEF Name, Served
<1>9. SlotService(s)'
  <2>1. Opening(s)'
    BY <1>3, <1>5 DEF Opening, OpenLabels
  <2>2. Stage(s)'
    BY <1>8, <2>1 DEF Stage
  <2>3. Emptied(s)' /\ Ready(s)'
    BY <1>2, <1>6 DEF Emptied, Ready
  <2> QED
    BY <2>2, <2>3 DEF SlotService
<1>10. \A o \in Slots : o # s => SameSlot(o)
  BY <1>2, <1>3, <1>4 DEF SameSlot, Name
<1>11. \A o \in Slots : SlotService(o)'
  BY <1>2, <1>3, <1>4, <1>5, <1>9, <1>10, Others DEF StageLabels, OpenLabels
<1>12. Named' /\ Numbered'
  BY <1>2, <1>3, <1>5, NamesKept
<1>13. Ids'
  BY <1>2, <1>3, <1>7 DEF Ids, ServiceInv
<1>14. Fresh'
  <2> SUFFICES ASSUME NEW u \in Threads, pc'[u] \in OpenLabels
               PROVE  /\ m_SeqID'[ses'[u]] < session_id'
                      /\ \A who \in accepted' : who[2] < m_SeqID'[ses'[u]]
    BY DEF Fresh
  <2>1. u = Acceptor
    <3>1. ASSUME u # Acceptor PROVE FALSE
      <4>1. pc[u] \in OpenLabels
        BY <1>5, <3>1 DEF Alone, Moves
      <4> QED
        BY <3>1, <4>1, Kinds DEF OpenLabels, IInv, Types
    <3> QED
      BY <3>1
  <2>2. m_SeqID'[ses'[u]] = session_id
    BY <1>2, <1>3, <1>4, <1>5, <2>1
  <2> QED
    BY <1>2, <1>3, <1>7, <2>2
<1>15. Unseen
  <2>1. \A o \in Slots : o # s => (Served(o)' <=> Served(o)) /\ m_SeqID'[o] = m_SeqID[o]
    BY <1>10, SameServed DEF SameSlot
  <2>2. \A o \in Slots : Current(o)' = Current(o) /\ Outgoing(o)' = Outgoing(o)
    BY <1>2, <1>6, <1>8, <2>1 DEF Current, Outgoing
  <2> QED
    BY <1>2, <2>2, SameViews
<1> QED
  BY <1>11, <1>12, <1>13, <1>14, <1>15 DEF ServiceInv

LEMMA AcceptStep2 ==
  ASSUME IInv, ServiceInv, AcceptCount(Acceptor)
  PROVE  ServiceInv' /\ Unseen
<1> USE DEF session, pool, io, local, log
<1>1. /\ Still /\ UNCHANGED <<conn, nMsgs, id, call, ses>>
      /\ pc[Acceptor] = "accCount" /\ Goto(Acceptor, "OnAccept")
      /\ Acceptor \in Threads /\ Acceptor \notin Contents
  BY LanServerAssumption DEF AcceptCount, Still, Threads
<1>2. PICK s \in Slots : s = ses[Acceptor] /\ Steps(Acceptor, s, "accCount", "OnAccept")
  BY <1>1, Stepping DEF IInv
<1>3. (\A o \in Slots : SameSlot(o)) /\ Unseen
  BY <1>1, StillSame
<1>4. SlotService(s)'
  <2>1. Opening(s) /\ Opening(s)'
    BY <1>2 DEF Opening, OpenLabels, Steps
  <2>2. Pushing(s)' <=> Pushing(s)
    BY <1>2 DEF Pushing, Steps, Alone, Moves
  <2>3. \A u \in Threads : ses'[u] = s /\ pc'[u] = "Pop" => ses[u] = s /\ pc[u] = "Pop"
    BY <1>2 DEF Steps, Alone, Moves
  <2> QED
    BY <1>3, <2>1, <2>2, <2>3, SlotKept DEF ServiceInv
<1>5. \A o \in Slots : SlotService(o)'
  BY <1>2, <1>3, <1>4, Others DEF Steps
<1>6. Named' /\ Numbered'
  BY <1>1, <1>2, NamesKept DEF Still, Steps
<1>7. Fresh' /\ Ids'
  BY <1>1, <1>2, FreshKept DEF Still, Steps, OpenLabels, ServiceInv, Ids
<1> QED
  BY <1>3, <1>5, <1>6, <1>7 DEF ServiceInv

LEMMA NoPortStep ==
  ASSUME IInv, ServiceInv, NoPort(Acceptor)
  PROVE  ServiceInv' /\ Unseen
<1> USE DEF session, pool, io, local, log
<1>1. /\ Still /\ UNCHANGED <<nMsgs, id, call, ses>>
      /\ pc[Acceptor] = "OnAccept" /\ Goto(Acceptor, "accept")
      /\ Acceptor \in Threads /\ Acceptor \notin Contents
  BY LanServerAssumption DEF NoPort, Still, Threads
<1>2. PICK s \in Slots : s = ses[Acceptor] /\ Steps(Acceptor, s, "OnAccept", "accept")
  BY <1>1, Stepping DEF IInv
<1>3. conn'[s] = "lost" /\ \A o \in Slots : o # s => conn'[o] = conn[o]
  BY <1>2 DEF NoPort, IInv, Types
<1>4. Opening(s)
  BY <1>2 DEF Opening, OpenLabels, Steps
<1>5. Name(s) \notin accepted /\ ~Served(s)
  BY <1>4 DEF ServiceInv, SlotService, Stage, Name, Served
<1>6. Name(s)' \notin accepted' /\ ~Served(s)'
  BY <1>1, <1>5 DEF Still, Name, Served
<1>7. SlotService(s)'
  <2>1. Stage(s)'
    BY <1>3, <1>6 DEF Stage
  <2>2. Emptied(s)' /\ Ready(s)'
    BY <1>1, <1>5 DEF Emptied, Ready, Still, ServiceInv, SlotService
  <2> QED
    BY <2>1, <2>2 DEF SlotService
<1>8. \A o \in Slots : o # s => SameSlot(o)
  BY <1>1, <1>3 DEF SameSlot, Still, OnStack
<1>9. \A o \in Slots : SlotService(o)'
  BY <1>2, <1>7, <1>8, Others DEF Steps
<1>10. Named' /\ Numbered'
  BY <1>1, <1>2, NamesKept DEF Still, Steps
<1>11. Fresh' /\ Ids'
  BY <1>1, <1>2, FreshKept DEF Still, Steps, OpenLabels, ServiceInv, Ids
<1>12. Unseen
  BY <1>1, SameQueues DEF Still
<1> QED
  BY <1>9, <1>10, <1>11, <1>12 DEF ServiceInv

LEMMA AcceptSeen ==
  ASSUME IInv, ServiceInv, OnAccept(Acceptor)
  PROVE  ServiceInv' /\ \E s \in Slots, q \in 0 .. MaxAccepts : Service!Accept(s, q)
<1> USE DEF session, pool, io, local, log
<1>1. PICK l \in {"RecvPacket", "dec"} : Goto(Acceptor, l)
  BY DEF OnAccept
<1>2. /\ UNCHANGED <<m_SeqID, session_id, m_SessionIdxStack, released, done, m_sendBuffer,
                     m_sendOverlapped, conn, nMsgs, id, call, ses>>
      /\ pc[Acceptor] = "OnAccept"
      /\ Acceptor \in Threads /\ Acceptor \notin Contents
  BY LanServerAssumption DEF OnAccept, Threads
<1>3. PICK s \in Slots : s = ses[Acceptor] /\ Steps(Acceptor, s, "OnAccept", l)
  BY <1>1, <1>2, Stepping DEF IInv
<1>4. PICK q \in Nat : q = m_SeqID[s]
  BY DEF IInv, Types
<1>5. accepted' = accepted \cup {<<s, q>>} /\ Name(s) = <<s, q>> /\ Name(s)' = <<s, q>>
  BY <1>2, <1>3, <1>4 DEF OnAccept, Name
<1>6. Opening(s)
  BY <1>3 DEF Opening, OpenLabels, Steps
<1>7. <<s, q>> \notin accepted /\ <<s, q>> \notin released
  BY <1>5, <1>6 DEF ServiceInv, SlotService, Stage, Ids
<1>8. ~Served(s) /\ Served(s)'
  BY <1>2, <1>4, <1>5, <1>7 DEF Served
<1>9. m_sendBuffer[s] = <<>> /\ m_sendOverlapped[s] = <<>>
  BY <1>8 DEF ServiceInv, SlotService, Emptied
<1>10. /\ q < session_id /\ \A who \in accepted : who[2] < q
  BY <1>3, <1>4 DEF ServiceInv, Fresh, OpenLabels, Steps
<1>11. InUse(s) /\ conn[s] # "lost"
  <2>1. Acceptor \in Holders /\ pc[Acceptor] \in HoldLabels
    BY <1>2 DEF Holders, HoldLabels
  <2> QED
    BY <1>2, <1>3, <2>1, Occupied, NotLost
<1>12. SlotService(s)'
  <2>1. ~Opening(s)'
    <3> SUFFICES ASSUME NEW u \in Threads, ses'[u] = s, pc'[u] \in OpenLabels PROVE FALSE
      BY DEF Opening
    <3>1. u # Acceptor /\ pc[u] \in OpenLabels
      BY <1>1, <1>3 DEF Steps, Alone, Moves, OpenLabels
    <3> QED
      BY <3>1, Kinds DEF OpenLabels, IInv, Types
  <2>2. ~Idle(s)'
    <3>1. OnStack(s)' = 0
      BY <1>2, <1>11 DEF InUse, OnStack
    <3>2. ASSUME NEW u \in Threads, ses'[u] = s, pc'[u] = "Push" PROVE FALSE
      <4>1. ses[u] = s /\ pc[u] = "Push"
        BY <1>1, <1>3, <3>2 DEF Steps, Alone, Moves
      <4> QED
        BY <1>11, <4>1 DEF InUse, ClosedLabels
    <3> QED
      BY <3>1, <3>2 DEF Idle, Pushing
  <2>3. Stage(s)'
    BY <1>2, <1>8, <1>11, <2>1, <2>2 DEF Stage
  <2>4. Emptied(s)' /\ Ready(s)'
    BY <1>2, <1>8, <1>9 DEF Emptied, Ready
  <2> QED
    BY <2>3, <2>4 DEF SlotService
<1>13. \A o \in Slots : o # s => SameSlot(o)
  <2>1. \A o \in Slots : o # s => (Name(o) \in accepted' <=> Name(o) \in accepted)
    BY <1>5 DEF Name
  <2> QED
    BY <1>2, <2>1 DEF SameSlot, OnStack
<1>14. \A o \in Slots : SlotService(o)'
  BY <1>3, <1>12, <1>13, Others DEF Steps
<1>15. Named' /\ Numbered'
  BY <1>2, <1>3, <1>5, NamesKept DEF Steps
<1>16. Ids'
  BY <1>2, <1>5, <1>10 DEF ServiceInv, Ids
<1>17. Fresh'
  <2> SUFFICES ASSUME NEW u \in Threads, pc'[u] \in OpenLabels PROVE FALSE
    BY DEF Fresh
  <2>1. u # Acceptor /\ pc[u] \in OpenLabels
    BY <1>1, <1>3 DEF Steps, Alone, Moves, OpenLabels
  <2> QED
    BY <2>1, Kinds DEF OpenLabels, IInv, Types
<1>18. q \in 0 .. MaxAccepts
  <2>1. session_id \in Nat /\ MaxAccepts \in Nat /\ session_id <= MaxAccepts
    BY LanServerAssumption DEF IInv, Types, ServiceInv, Ids
  <2> QED
    BY <1>10, <2>1
<1>19. Service!Accept(s, q)
  <2>1. Current(s) = -1 /\ Current(s)' = q
    BY <1>2, <1>4, <1>8 DEF Current
  <2>2. Outgoing(s)' = Outgoing(s)
    <3>1. Outgoing(s)' = <<>> \o <<>> /\ Outgoing(s) = <<>>
      BY <1>2, <1>8, <1>9 DEF Outgoing
    <3> QED
      BY <3>1
  <2>3. \A o \in Slots : o # s => Current(o)' = Current(o) /\ Outgoing(o)' = Outgoing(o)
    BY <1>2, <1>13, SameServed DEF Current, Outgoing
  <2>4. Currents[s] = -1 /\ Currents' = [Currents EXCEPT ![s] = q] /\ Outgoings' = Outgoings
    BY <2>1, <2>2, <2>3 DEF Currents, Outgoings
  <2>5. \A who \in accepted : who[2] # q /\ (who[1] = s => who[2] < q)
    <3>1. \A who \in accepted : who[2] \in Nat
      BY DEF IInv, Types
    <3> QED
      BY <1>10, <3>1
  <2> QED
    BY <1>2, <1>5, <2>4, <2>5 DEF Service!Accept, Currents, Outgoings, Current, Outgoing
<1> QED
  BY <1>14, <1>15, <1>16, <1>17, <1>18, <1>19 DEF ServiceInv

LEMMA ReleaseSeen ==
  ASSUME IInv, ServiceInv, NEW w \in Workers, OnRelease(w)
  PROVE  ServiceInv' /\ \E s \in Slots : Service!Release(s)
<1> USE DEF session, pool, io, local, log
<1>1. /\ UNCHANGED <<m_SeqID, session_id, m_SessionIdxStack, accepted, done, nMsgs, id, call, ses>>
      /\ pc[w] = "ReleaseComplete" /\ Goto(w, "Push") /\ w \in Threads /\ w \notin Contents
  BY LanServerAssumption DEF OnRelease, Threads
<1>2. PICK s \in Slots : s = ses[w] /\ Steps(w, s, "ReleaseComplete", "Push")
  BY <1>1, Stepping DEF IInv
<1>3. PICK q \in Nat : q = m_SeqID[s]
  BY DEF IInv, Types
<1>4. /\ released' = released \cup {<<s, q>>} /\ Name(s) = <<s, q>> /\ Name(s)' = <<s, q>>
      /\ m_sendBuffer'[s] = <<>> /\ m_sendOverlapped'[s] = <<>> /\ conn'[s] = "none"
      /\ \A o \in Slots : o # s => /\ m_sendBuffer'[o] = m_sendBuffer[o]
                                   /\ m_sendOverlapped'[o] = m_sendOverlapped[o]
                                   /\ conn'[o] = conn[o]
  BY <1>1, <1>2, <1>3 DEF OnRelease, Name, IInv, Types
<1>5. /\ OnStack(s) = 0 /\ conn[s] # "lost"
      /\ \A u \in Threads : ses[u] = s /\ pc[u] \in ClosedLabels => u = w
      /\ \A u \in Threads : ses[u] = s => pc[u] # "OnAccept"
  BY <1>1, <1>2, Leaving DEF ClosedLabels
<1>6. ~Opening(s) /\ ~Pushing(s)
  BY <1>1, <1>5 DEF Opening, Pushing, OpenLabels, ClosedLabels
<1>7. Served(s) /\ <<s, q>> \in accepted
  BY <1>3, <1>5, <1>6 DEF ServiceInv, SlotService, Stage, Idle, Served
<1>8. ~Served(s)'
  BY <1>1, <1>3, <1>4 DEF Served
<1>9. SlotService(s)'
  <2>1. ~Opening(s)'
    BY <1>2, <1>6 DEF Opening, OpenLabels, Steps, Alone, Moves
  <2>2. Idle(s)'
    BY <1>2 DEF Idle, Pushing, Steps
  <2>3. Stage(s)'
    BY <1>4, <1>8, <2>1, <2>2 DEF Stage
  <2>4. Emptied(s)' /\ Ready(s)'
    BY <1>4 DEF Emptied, Ready
  <2> QED
    BY <2>3, <2>4 DEF SlotService
<1>10. \A o \in Slots : o # s => SameSlot(o)
  <2>1. \A o \in Slots : o # s => (Name(o) \in released' <=> Name(o) \in released)
    BY <1>4 DEF Name
  <2> QED
    BY <1>1, <1>4, <2>1 DEF SameSlot, OnStack
<1>11. \A o \in Slots : SlotService(o)'
  BY <1>1, <1>2, <1>9, <1>10, Others DEF Steps, StageLabels, OpenLabels
<1>12. Named' /\ Numbered'
  BY <1>1, <1>2, NamesKept DEF Steps
<1>13. Ids' /\ Fresh'
  BY <1>1, <1>2, <1>4, <1>7, FreshKept DEF ServiceInv, Ids, Steps, OpenLabels
<1>14. Service!Release(s)
  <2>1. Current(s) = q /\ Current(s)' = -1 /\ Outgoing(s)' = <<>>
    BY <1>3, <1>7, <1>8 DEF Current, Outgoing
  <2>2. \A o \in Slots : o # s => Current(o)' = Current(o) /\ Outgoing(o)' = Outgoing(o)
    BY <1>1, <1>4, <1>10, SameServed DEF Current, Outgoing
  <2>3. /\ Currents[s] = q /\ q # -1 /\ Currents' = [Currents EXCEPT ![s] = -1]
        /\ Outgoings' = [Outgoings EXCEPT ![s] = <<>>]
    <3>1. Currents[s] = q /\ q # -1
      BY <2>1 DEF Currents
    <3>2. Currents' = [Currents EXCEPT ![s] = -1]
      BY <2>1, <2>2 DEF Currents
    <3>3. Outgoings' = [Outgoings EXCEPT ![s] = <<>>]
      BY <2>1, <2>2 DEF Outgoings
    <3> QED
      BY <3>1, <3>2, <3>3
  <2> QED
    BY <1>1, <1>4, <2>3 DEF Service!Release, Currents, Outgoings, Current, Outgoing
<1> QED
  BY <1>11, <1>12, <1>13, <1>14 DEF ServiceInv

LEMMA PushStep ==
  ASSUME IInv, ServiceInv, NEW w \in Workers, PushIdx(w)
  PROVE  ServiceInv' /\ Unseen
<1> USE DEF session, pool, io, local, log
<1>1. /\ UNCHANGED <<m_SeqID, session_id, accepted, released, done, nMsgs, id, call, ses, conn,
                     m_sendBuffer, m_sendOverlapped>>
      /\ pc[w] = "Push" /\ Goto(w, "GQCS") /\ w \in Threads /\ w \notin Contents
      /\ m_SessionIdxStack' = <<ses[w]>> \o m_SessionIdxStack
  BY LanServerAssumption DEF PushIdx, Threads
<1>2. PICK s \in Slots : s = ses[w] /\ Steps(w, s, "Push", "GQCS")
  BY <1>1, Stepping DEF IInv
<1>3. OnStack(s) = 0
  BY <1>1, <1>2, Leaving DEF ClosedLabels
<1>4. OnStack(s)' = 1 /\ \A o \in Slots : o # s => OnStack(o)' = OnStack(o)
  BY <1>1, <1>2, <1>3, Pushed DEF IInv
<1>5. Idle(s) /\ Idle(s)'
  BY <1>2, <1>4 DEF Idle, Pushing, Steps
<1>6. ~Served(s) /\ ~Served(s)'
  BY <1>1, <1>5 DEF ServiceInv, SlotService, Stage, Served
<1>7. SlotService(s)'
  <2>1. Opening(s)' => Opening(s)
    BY <1>2 DEF Opening, OpenLabels, Steps, Alone, Moves
  <2>2. Stage(s)'
    BY <1>1, <1>5, <1>6, <2>1 DEF Stage, ServiceInv, SlotService, Name
  <2>3. Emptied(s)' /\ Ready(s)'
    BY <1>1, <1>6 DEF Emptied, Ready, ServiceInv, SlotService
  <2> QED
    BY <2>2, <2>3 DEF SlotService
<1>8. \A o \in Slots : o # s => SameSlot(o)
  BY <1>1, <1>4 DEF SameSlot, Name
<1>9. \A o \in Slots : SlotService(o)'
  BY <1>1, <1>2, <1>7, <1>8, Others DEF Steps
<1>10. Named' /\ Numbered'
  BY <1>1, <1>2, NamesKept DEF Steps
<1>11. Ids' /\ Fresh'
  BY <1>1, <1>2, FreshKept DEF ServiceInv, Ids, Steps, OpenLabels
<1>12. Unseen
  BY <1>1, SameQueues
<1> QED
  BY <1>9, <1>10, <1>11, <1>12 DEF ServiceInv

-----------------------------------------------------------------------------
(* Steps that move messages. *)

\* A queue cut in two.
LEMMA Split ==
  ASSUME NEW q \in Seq(Message), NEW n \in 0 .. Len(q)
  PROVE  /\ SubSeq(q, 1, n) \o SubSeq(q, n + 1, Len(q)) = q
         /\ q = <<>> => SubSeq(q, 1, n) = <<>> /\ SubSeq(q, n + 1, Len(q)) = <<>>
<1>1. SubSeq(q, 1, n) \o SubSeq(q, n + 1, Len(q)) = SubSeq(q, 1, Len(q))
  <2>1. 1 \in 1 .. Len(q) + 1 /\ n \in 1 - 1 .. Len(q) /\ Len(q) \in n .. Len(q)
    OBVIOUS
  <2> QED
    BY <2>1, ConcatAdjacentSubSeq
<1>2. SubSeq(q, 1, Len(q)) = q
  BY SubSeqFull
<1>3. ASSUME q = <<>> PROVE SubSeq(q, 1, n) = <<>> /\ SubSeq(q, n + 1, Len(q)) = <<>>
  <2>1. Len(q) = 0 /\ n = 0
    BY <1>3
  <2> QED
    BY <2>1, SubSeqEmpty
<1> QED
  BY <1>1, <1>2, <1>3

\* Two queues, and what the service makes of them.
LEMMA Parted ==
  ASSUME NEW a \in Seq(Message), NEW b \in Seq(Message), a # <<>>
  PROVE  /\ Len(a) \in 1 .. Len(a \o b)
         /\ SubSeq(a \o b, 1, Len(a)) = a
         /\ SubSeq(a \o b, Len(a) + 1, Len(a \o b)) = b
<1>1. /\ Len(a) \in Nat /\ Len(b) \in Nat /\ Len(a) # 0 /\ a \o b \in Seq(Message)
      /\ Len(a \o b) = Len(a) + Len(b)
  OBVIOUS
<1>2. SubSeq(a \o b, 1, Len(a)) = a
  <2>1. 1 \in 1 .. Len(a) /\ Len(a) \in 1 .. Len(a)
    BY <1>1
  <2>2. SubSeq(a \o b, 1, Len(a)) = SubSeq(a, 1, Len(a))
    BY <2>1, SubSeqOfConcat1
  <2> QED
    BY <2>2, SubSeqFull
<1>3. SubSeq(a \o b, Len(a) + 1, Len(a \o b)) = b
  <2>1. CASE b = <<>>
    <3>1. Len(a \o b) < Len(a) + 1 /\ Len(a) + 1 \in Int /\ Len(a \o b) \in Int
      BY <1>1, <2>1
    <3> QED
      BY <2>1, <3>1, SubSeqEmpty
  <2>2. CASE b # <<>>
    <3>1. Len(b) # 0
      BY <2>2
    <3>2. /\ Len(a) + 1 \in Len(a) + 1 .. Len(a) + Len(b)
          /\ Len(a) + Len(b) \in Len(a) + 1 .. Len(a) + Len(b)
      BY <1>1, <3>1
    <3>3. SubSeq(a \o b, Len(a) + 1, Len(a) + Len(b))
            = SubSeq(b, Len(a) + 1 - Len(a), Len(a) + Len(b) - Len(a))
      BY <3>2, SubSeqOfConcat2
    <3>4. Len(a) + 1 - Len(a) = 1 /\ Len(a) + Len(b) - Len(a) = Len(b)
      BY <1>1
    <3> QED
      BY <1>1, <3>3, <3>4, SubSeqFull
  <2> QED
    BY <2>1, <2>2
<1> QED
  BY <1>1, <1>2, <1>3

LEMMA PopStep ==
  ASSUME IInv, ServiceInv, NEW w \in Workers, PopSend(w)
  PROVE  ServiceInv' /\ Unseen
<1> USE DEF session, pool, io, local, log
<1>1. /\ UNCHANGED <<m_SeqID, session_id, m_SessionIdxStack, accepted, released, done, nMsgs, id, call,
                     ses, conn>>
      /\ pc[w] = "Pop" /\ Goto(w, "sendLive") /\ w \in Threads /\ w \notin Contents
  BY LanServerAssumption DEF PopSend, Threads
<1>2. PICK s \in Slots : s = ses[w] /\ Steps(w, s, "Pop", "sendLive")
  BY <1>1, Stepping DEF IInv
<1>3. PICK q \in Seq(Message) : q = m_sendBuffer[s]
  BY DEF IInv, Types
<1>4. PICK n \in 0 .. Len(q) :
        /\ m_sendOverlapped' = [m_sendOverlapped EXCEPT ![s] = SubSeq(q, 1, n)]
        /\ m_sendBuffer' = [m_sendBuffer EXCEPT ![s] = SubSeq(q, n + 1, Len(q))]
  <2>1. (IF Len(q) < SENDWSABUF_MAX THEN Len(q) ELSE SENDWSABUF_MAX) \in 0 .. Len(q)
    <3>1. Len(q) \in Nat /\ SENDWSABUF_MAX \in Nat
      BY LanServerAssumption
    <3> QED
      BY <3>1
  <2> QED
    BY <1>2, <1>3, <2>1 DEF PopSend
<1>5. /\ m_sendOverlapped'[s] = SubSeq(q, 1, n) /\ m_sendBuffer'[s] = SubSeq(q, n + 1, Len(q))
      /\ \A o \in Slots : o # s => /\ m_sendBuffer'[o] = m_sendBuffer[o]
                                   /\ m_sendOverlapped'[o] = m_sendOverlapped[o]
  BY <1>4 DEF IInv, Types
<1>6. m_sendOverlapped[s] = <<>>
  BY <1>2 DEF ServiceInv, SlotService, Ready, Steps
<1>7. SlotService(s)'
  <2>1. (Opening(s)' <=> Opening(s)) /\ (Pushing(s)' <=> Pushing(s))
    BY <1>2 DEF Opening, Pushing, OpenLabels, Steps, Alone, Moves
  <2>2. Stage(s)'
    BY <1>1, <2>1 DEF Stage, Idle, OnStack, Name, Served, ServiceInv, SlotService
  <2>3. Emptied(s)'
    BY <1>1, <1>3, <1>5, Split DEF Emptied, Served, ServiceInv, SlotService
  <2>4. Ready(s)'
    <3> SUFFICES ASSUME NEW u \in Threads, ses'[u] = s, pc'[u] = "Pop" PROVE FALSE
      BY DEF Ready
    <3>1. u # w /\ ses[u] = s /\ pc[u] = "Pop"
      BY <1>2 DEF Steps, Alone, Moves
    <3> QED
      BY <1>1, <1>2, <3>1, OneSends DEF SendTokens, SendLabels
  <2> QED
    BY <2>2, <2>3, <2>4 DEF SlotService
<1>8. \A o \in Slots : o # s => SameSlot(o)
  BY <1>1, <1>5 DEF SameSlot, OnStack, Name
<1>9. \A o \in Slots : SlotService(o)'
  BY <1>1, <1>2, <1>7, <1>8, Others DEF Steps
<1>10. Named' /\ Numbered'
  BY <1>1, <1>2, NamesKept DEF Steps
<1>11. Ids' /\ Fresh'
  BY <1>1, <1>2, FreshKept DEF ServiceInv, Ids, Steps, OpenLabels
<1>12. Unseen
  <2>1. m_sendOverlapped'[s] \o m_sendBuffer'[s] = q
    BY <1>5, Split
  <2>2. <<>> \o q = q
    OBVIOUS
  <2>3. m_sendOverlapped'[s] \o m_sendBuffer'[s] = m_sendOverlapped[s] \o m_sendBuffer[s]
    BY <1>3, <1>6, <2>1, <2>2
  <2> QED
    BY <1>1, <1>5, <2>3, SameQueues
<1> QED
  BY <1>9, <1>10, <1>11, <1>12 DEF ServiceInv

LEMMA DeliverSeen ==
  ASSUME IInv, ServiceInv, NEW w \in Workers, SendComplete(w)
  PROVE  /\ ServiceInv'
         /\ \/ Unseen
            \/ \E s \in Slots : \E n \in 1 .. Len(Outgoings[s]) : Service!Deliver(s, n)
<1> USE DEF session, pool, io, local, log
<1>1. /\ UNCHANGED <<m_SeqID, session_id, m_SessionIdxStack, accepted, released, nMsgs, id, call,
                     ses, conn, m_sendBuffer>>
      /\ pc[w] = "SendComplete" /\ w \in Threads /\ w \notin Contents
  BY LanServerAssumption DEF SendComplete, Threads
<1>2. PICK l \in {"flagOff", "Pop"} : Goto(w, l)
  BY DEF SendComplete
<1>3. PICK s \in Slots : s = ses[w] /\ Steps(w, s, "SendComplete", l)
  BY <1>1, <1>2, Stepping DEF IInv
<1>4. PICK a, b \in Seq(Message) : a = m_sendOverlapped[s] /\ b = m_sendBuffer[s]
  BY DEF IInv, Types
<1>5. /\ done' = done \o a /\ m_sendOverlapped'[s] = <<>> /\ m_sendBuffer'[s] = b
      /\ \A o \in Slots : o # s => m_sendOverlapped'[o] = m_sendOverlapped[o]
  BY <1>1, <1>3, <1>4 DEF SendComplete, IInv, Types
<1>6. SlotService(s)'
  <2>1. (Opening(s)' <=> Opening(s)) /\ (Pushing(s)' <=> Pushing(s))
    BY <1>2, <1>3 DEF Opening, Pushing, OpenLabels, Steps, Alone, Moves
  <2>2. Stage(s)'
    BY <1>1, <2>1 DEF Stage, Idle, OnStack, Name, Served, ServiceInv, SlotService
  <2>3. Emptied(s)' /\ Ready(s)'
    BY <1>1, <1>5 DEF Emptied, Ready, Served, ServiceInv, SlotService
  <2> QED
    BY <2>2, <2>3 DEF SlotService
<1>7. \A o \in Slots : o # s => SameSlot(o)
  BY <1>1, <1>5 DEF SameSlot, OnStack, Name
<1>8. \A o \in Slots : SlotService(o)'
  BY <1>1, <1>3, <1>6, <1>7, Others DEF Steps
<1>9. Named' /\ Numbered'
  BY <1>1, <1>3, NamesKept DEF Steps
<1>10. Ids' /\ Fresh'
  BY <1>1, <1>2, <1>3, FreshKept DEF ServiceInv, Ids, Steps, OpenLabels
<1>11. CASE a = <<>>
  <2>1. done' = done
    <3>1. done \in Seq(Message)
      BY DEF IInv, Types
    <3> QED
      BY <1>5, <1>11, <3>1
  <2>2. \A o \in Slots : m_sendOverlapped'[o] = m_sendOverlapped[o]
    BY <1>4, <1>5, <1>11
  <2>3. Unseen
    BY <1>1, <2>1, <2>2, SameQueues
  <2> QED
    BY <1>8, <1>9, <1>10, <2>3 DEF ServiceInv
<1>12. CASE a # <<>>
  <2>1. Served(s) /\ Served(s)'
    BY <1>1, <1>4, <1>12 DEF ServiceInv, SlotService, Emptied, Served
  <2>2. Outgoing(s) = a \o b /\ Outgoing(s)' = b
    <3>1. <<>> \o b = b
      OBVIOUS
    <3> QED
      BY <1>4, <1>5, <2>1, <3>1 DEF Outgoing
  <2>3. /\ \A o \in Slots : Current(o)' = Current(o)
        /\ \A o \in Slots : o # s => Outgoing(o)' = Outgoing(o)
    BY <1>1, <1>5 DEF Current, Outgoing, Served
  <2>4. /\ Currents' = Currents /\ Outgoings[s] = a \o b
        /\ Outgoings' = [Outgoings EXCEPT ![s] = b]
    BY <2>2, <2>3 DEF Currents, Outgoings
  <2>5. PICK n \in 1 .. Len(a \o b) :
          n = Len(a) /\ SubSeq(a \o b, 1, n) = a /\ SubSeq(a \o b, n + 1, Len(a \o b)) = b
    BY <1>12, Parted
  <2>6. /\ done' = done \o SubSeq(Outgoings[s], 1, n)
        /\ Outgoings' = [Outgoings EXCEPT ![s] = SubSeq(@, n + 1, Len(@))]
    BY <1>5, <2>4, <2>5
  <2>7. Service!Deliver(s, n)
    BY <1>1, <2>4, <2>6 DEF Service!Deliver, Currents, Outgoings, Current, Outgoing
  <2> QED
    BY <1>8, <1>9, <1>10, <2>4, <2>5, <2>7 DEF ServiceInv
<1> QED
  BY <1>11, <1>12

LEMMA PostSeen ==
  ASSUME IInv, Known, ServiceInv, NEW t \in Contents, PushSend(t)
  PROVE  /\ ServiceInv'
         /\ \E s \in Slots, m \in [own : Slots \X (0 .. MaxAccepts), n : 1 .. MaxMsgs] :
              Service!Post(s, m)
<1> USE DEF session, pool, io, local, log
<1>1. /\ UNCHANGED <<m_SeqID, session_id, m_SessionIdxStack, accepted, released, done, nMsgs, id, call,
                     ses, conn, m_sendOverlapped>>
      /\ pc[t] = "push" /\ Goto(t, "post") /\ t \in Threads
  BY DEF PushSend, Threads
<1>2. PICK s \in Slots : s = ses[t] /\ Steps(t, s, "push", "post")
  BY <1>1, Stepping DEF IInv
<1>3. PICK q \in Nat : q = m_SeqID[s]
  BY DEF IInv, Types
<1>4. id[t] = q /\ <<s, q>> \in accepted /\ Name(s) = <<s, q>>
  BY <1>1, <1>2, <1>3 DEF ServiceInv, Named, Known, Name
<1>5. q \in 0 .. MaxAccepts
  <2>1. session_id \in Nat /\ MaxAccepts \in Nat /\ session_id <= MaxAccepts /\ q < session_id
    BY <1>4, LanServerAssumption DEF IInv, Types, ServiceInv, Ids
  <2> QED
    BY <2>1
<1>6. nMsgs \in 1 .. MaxMsgs
  <2>1. nMsgs \in Nat /\ MaxMsgs \in Nat
    BY LanServerAssumption DEF IInv, Types
  <2>2. call[t] = "SendPacket"
    BY <1>1, Kinds DEF IInv, Types, LockLabels
  <2> QED
    BY <1>1, <2>1, <2>2 DEF ServiceInv, Numbered
<1>7. PICK m \in [own : Slots \X (0 .. MaxAccepts), n : 1 .. MaxMsgs] :
        m = [own |-> <<s, q>>, n |-> nMsgs]
  BY <1>5, <1>6
<1>8. m \in Message /\ m.own = <<s, q>>
  BY <1>5, <1>6, <1>7 DEF Message
<1>9. PICK a, b \in Seq(Message) : a = m_sendOverlapped[s] /\ b = m_sendBuffer[s]
  BY DEF IInv, Types
<1>10. PICK i \in 1 .. Len(b) + 1 : m_sendBuffer' = [m_sendBuffer EXCEPT ![s] = SeqExt!InsertAt(b, i, m)]
  BY <1>2, <1>4, <1>7, <1>9 DEF PushSend, IInv, Types
<1>11. m_sendBuffer'[s] = SeqExt!InsertAt(b, i, m) /\ \A o \in Slots : o # s => m_sendBuffer'[o] = m_sendBuffer[o]
  BY <1>9, <1>10 DEF IInv, Types
<1>12. Served(s) /\ Served(s)'
  <2>1. InUse(s)
    BY <1>1, <1>2, Occupied DEF TwiceLabels, LockLabels
  <2>2. ~Idle(s)
    BY <2>1 DEF Idle, Pushing, InUse, ClosedLabels
  <2>3. Served(s)
    BY <1>4, <2>2 DEF ServiceInv, SlotService, Stage
  <2> QED
    BY <1>1, <2>3 DEF Served
<1>13. SlotService(s)'
  <2>1. (Opening(s)' <=> Opening(s)) /\ (Pushing(s)' <=> Pushing(s))
    BY <1>2 DEF Opening, Pushing, OpenLabels, Steps, Alone, Moves
  <2>2. Stage(s)'
    BY <1>1, <2>1 DEF Stage, Idle, OnStack, Name, Served, ServiceInv, SlotService
  <2>3. Ready(s)'
    BY <1>1, <1>2 DEF Ready, ServiceInv, SlotService, Steps, Alone, Moves
  <2> QED
    BY <1>12, <2>2, <2>3 DEF SlotService, Emptied
<1>14. \A o \in Slots : o # s => SameSlot(o)
  BY <1>1, <1>11 DEF SameSlot, OnStack, Name
<1>15. \A o \in Slots : SlotService(o)'
  BY <1>1, <1>2, <1>13, <1>14, Others DEF Steps
<1>16. Named' /\ Numbered'
  BY <1>1, <1>2, NamesKept DEF Steps
<1>17. Ids' /\ Fresh'
  BY <1>1, <1>2, FreshKept DEF ServiceInv, Ids, Steps, OpenLabels
<1>18. Service!Post(s, m)
  <2>1. Current(s) = q /\ Outgoing(s) = a \o b /\ Outgoing(s)' = a \o SeqExt!InsertAt(b, i, m)
    BY <1>1, <1>3, <1>9, <1>11, <1>12 DEF Current, Outgoing
  <2>2. PICK k \in 1 .. Len(a \o b) + 1 : a \o SeqExt!InsertAt(b, i, m) = SeqExt!InsertAt(a \o b, k, m)
    <3>1. Len(a) + i \in 1 .. Len(a \o b) + 1
      OBVIOUS
    <3>2. a \o SeqExt!InsertAt(b, i, m) = SeqExt!InsertAt(a \o b, Len(a) + i, m)
      BY <1>8, InsertBehind
    <3> QED
      BY <3>1, <3>2, Zenon
  <2>3. /\ \A o \in Slots : Current(o)' = Current(o)
        /\ \A o \in Slots : o # s => Outgoing(o)' = Outgoing(o)
    BY <1>1, <1>11 DEF Current, Outgoing, Served
  <2>4. Currents[s] = q /\ q # -1 /\ Currents' = Currents
    BY <2>1, <2>3 DEF Currents
  <2>5. Outgoings[s] = a \o b /\ Outgoings' = [Outgoings EXCEPT ![s] = SeqExt!InsertAt(@, k, m)]
    <3>1. \A o \in Slots :
            Outgoings'[o] = IF o = s THEN SeqExt!InsertAt(Outgoings[s], k, m) ELSE Outgoings[o]
      BY <2>1, <2>2, <2>3 DEF Outgoings
    <3> QED
      BY <2>1, <3>1 DEF Outgoings
  <2>6. k \in Service!Places(Len(Outgoings[s]))
    BY <2>5 DEF Service!Places
  <2>7. \E j \in Service!Places(Len(Outgoings[s])) :
          Outgoings' = [Outgoings EXCEPT ![s] = Service!InsertAt(@, j, m)]
    BY <2>5, <2>6 DEF SeqExt!InsertAt, Service!InsertAt
  <2> QED
    BY <1>1, <1>8, <2>4, <2>7 DEF Service!Post, Currents, Outgoings, Current, Outgoing
<1> QED
  BY <1>15, <1>16, <1>17, <1>18 DEF ServiceInv

-----------------------------------------------------------------------------
LEMMA ServiceInit == Init => ServiceInv /\ Service!Init
<1> SUFFICES ASSUME Init PROVE ServiceInv /\ Service!Init
  OBVIOUS
<1>1. \A t \in Threads : pc[t] \in {"GQCS", "accept", "idle"} /\ call[t] = "Disconnect"
  BY DEF Init, Home
<1>2. Ids
  BY LanServerAssumption DEF Init, Ids
<1>3. Fresh
  BY <1>1 DEF Fresh, OpenLabels
<1>4. Named
  <2>1. \A t \in Contents : pc[t] = "idle"
    BY LanServerAssumption DEF Init, Home, Threads
  <2> QED
    BY <2>1 DEF Named
<1>5. Numbered
  BY <1>1, LanServerAssumption DEF Numbered, Init
<1>6. ASSUME NEW s \in Slots PROVE SlotService(s) /\ ~Served(s)
  <2>1. ~Served(s) /\ Name(s) \notin accepted
    BY DEF Init, Served
  <2>2. m_sendBuffer[s] = <<>> /\ m_sendOverlapped[s] = <<>>
    BY DEF Init
  <2>3. OnStack(s) = 1
    <3>1. MaxSessions - s \in 1 .. MaxSessions /\ MaxSessions - (MaxSessions - s) = s
      BY LanServerAssumption DEF Slots
    <3>2. DOMAIN m_SessionIdxStack = 1 .. MaxSessions /\ m_SessionIdxStack[MaxSessions - s] = s
      BY <3>1 DEF Init
    <3> QED
      BY <3>1, <3>2 DEF OnStack
  <2> QED
    BY <2>1, <2>2, <2>3 DEF SlotService, Stage, Idle, Emptied, Ready
<1>7. Currents = [s \in Slots |-> -1] /\ Outgoings = [s \in Slots |-> <<>>]
  BY <1>6 DEF Currents, Outgoings, Current, Outgoing
<1>8. Service!Init
  BY <1>7 DEF Init, Service!Init, Currents, Outgoings, Current, Outgoing
<1> QED
  BY <1>2, <1>3, <1>4, <1>5, <1>6, <1>8 DEF ServiceInv

LEMMA ServiceStep ==
  ASSUME IInv, Known, ServiceInv, [Next]_vars
  PROVE  ServiceInv' /\ [Service!Next]_(Service!service)
<1>1. Types
  BY DEF IInv
<1>2. ASSUME AcceptStep(Acceptor) PROVE ServiceInv' /\ (Service!Next \/ Unseen)
  <2>1. CASE OnAccept(Acceptor)
    BY <2>1, AcceptSeen DEF Service!Next
  <2> QED
    BY <1>2, <2>1, AcceptStep1, AcceptStep2, NoPortStep DEF AcceptStep
<1>3. ASSUME NEW w \in Workers, WorkerStep(w) PROVE ServiceInv' /\ (Service!Next \/ Unseen)
  <2>1. CASE SendComplete(w)
    <3>1. CASE Unseen
      BY <2>1, <3>1, DeliverSeen
    <3>2. ASSUME NEW s \in Slots, NEW n \in 1 .. Len(Outgoings[s]), Service!Deliver(s, n)
          PROVE  Service!Next
      BY <3>2 DEF Service!Next, Outgoings, Outgoing
    <3> QED
      BY <2>1, <3>1, <3>2, DeliverSeen
  <2>2. CASE OnRelease(w)
    BY <2>2, ReleaseSeen DEF Service!Next
  <2>3. CASE ~SendComplete(w) /\ ~OnRelease(w)
    BY <1>1, <1>3, <2>3, PopStep, PushStep, CalmWorker
  <2> QED
    BY <2>1, <2>2, <2>3
<1>4. ASSUME NEW t \in Contents, SendStep(t) PROVE ServiceInv' /\ (Service!Next \/ Unseen)
  <2>1. CASE PushSend(t)
    BY <2>1, PostSeen DEF Service!Next
  <2> QED
    BY <1>1, <1>4, <2>1, CalmSend
<1>5. ASSUME vars' = vars PROVE ServiceInv' /\ Unseen
  <2>1. UNCHANGED <<pc, ses, id, call, nMsgs, conn>> /\ Still
    BY <1>5 DEF vars, session, pool, io, local, log, Still
  <2>2. (\A o \in Slots : SameSlot(o)) /\ Unseen
    BY <2>1, StillSame
  <2>3. \A o \in Slots : (Opening(o)' <=> Opening(o)) /\ (Pushing(o)' <=> Pushing(o))
    BY <2>1 DEF Opening, Pushing
  <2>4. \A o \in Slots : SlotService(o)'
    BY <2>1, <2>2, <2>3, SlotKept DEF ServiceInv
  <2> QED
    BY <2>1, <2>2, <2>4 DEF ServiceInv, Still, Ids, Fresh, Named, Numbered
<1>6. ServiceInv' /\ (Service!Next \/ Unseen)
  BY <1>1, <1>2, <1>3, <1>4, <1>5, CalmTake, CalmIo, CalmCall, CalmKernel DEF Next
<1> QED
  BY <1>6 DEF Unseen

\* CLanServer keeps what SessionService promises its application, whatever the numbers
\* of threads, sessions and messages: ids never come back, a message is queued only for
\* the session it was sent to, OnSend gets each message of a session once, in any order,
\* and OnRelease ends the session once.  Each step of the library is one step
\* of that service or none; a connection without a port is never seen by it.
THEOREM ServiceImplemented == ASSUME BitRoom PROVE Spec => ServiceSpec
<1>1. IInv /\ WInv /\ ServiceInv /\ [Next]_vars => ServiceInv' /\ [Service!Next]_(Service!service)
  BY ServiceStep DEF WInv
<1>2. Init => ServiceInv /\ Service!Init
  BY ServiceInit
<1> QED
  BY WakeupsHold, <1>1, <1>2, PTL DEF Spec, ServiceSpec, Service!Spec
=============================================================================
