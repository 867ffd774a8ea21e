-------------------------- MODULE LoginServer_proofs -------------------------
(***************************************************************************)
(* Theorems about LoginServer, for any number of sessions, DB workers and  *)
(* packets, any limits and any width of the clock.                         *)
(***************************************************************************)
EXTENDS LoginServer, FiniteSetTheorems, SequenceTheorems, TLAPS

-----------------------------------------------------------------------------
(* Counting DB workers *)

In(b) == IF b THEN 1 ELSE 0

\* DB workers at label l with a request of session s; those with any request
Here(l, s) == {d \in DBThreads : db[d].at = l /\ db[d].own = s}
Busy       == {d \in DBThreads : db[d] # Idle}

\* DB worker d is the only one that moves.
Moves(d) == \A e \in DBThreads : e # d => db'[e] = db[e]

\* Two sets that differ in d at most.
LEMMA SetStep ==
  ASSUME NEW A, NEW B, NEW d, IsFiniteSet(A), IsFiniteSet(B), A \ {d} = B \ {d}
  PROVE  /\ Cardinality(A) \in Nat /\ Cardinality(B) \in Nat
         /\ Cardinality(A) >= In(d \in A)
         /\ Cardinality(B) = Cardinality(A) - In(d \in A) + In(d \in B)
<1>1. Cardinality(A) \in Nat /\ Cardinality(B) \in Nat
  BY FS_CardinalityType
<1>2. Cardinality(A \ {d}) = IF d \in A THEN Cardinality(A) - 1 ELSE Cardinality(A)
  BY FS_RemoveElement
<1>3. Cardinality(B \ {d}) = IF d \in B THEN Cardinality(B) - 1 ELSE Cardinality(B)
  BY FS_RemoveElement
<1>4. Cardinality(A \ {d}) \in Nat
  BY FS_RemoveElement, FS_CardinalityType
<1> QED
  BY <1>1, <1>2, <1>3, <1>4 DEF In

LEMMA HereFinite ==
  \A l, s : IsFiniteSet(Here(l, s)) /\ Cardinality(Here(l, s)) \in Nat
            /\ (Cardinality(Here(l, s)) = 0 <=> Here(l, s) = {})
<1> SUFFICES ASSUME NEW l, NEW s
             PROVE  IsFiniteSet(Here(l, s)) /\ Cardinality(Here(l, s)) \in Nat
                    /\ (Cardinality(Here(l, s)) = 0 <=> Here(l, s) = {})
  OBVIOUS
<1>1. IsFiniteSet(Here(l, s))
  BY LoginServerAssumption, FS_Subset DEF Here
<1> QED
  BY <1>1, FS_CardinalityType, FS_EmptySet

LEMMA HereStep ==
  ASSUME NEW d \in DBThreads, Moves(d)
  PROVE  \A l, s :
           /\ Cardinality(Here(l, s)) >= In(db[d].at = l /\ db[d].own = s)
           /\ Cardinality(Here(l, s)') = Cardinality(Here(l, s)) - In(db[d].at = l /\ db[d].own = s)
                                                + In(db'[d].at = l /\ db'[d].own = s)
<1> SUFFICES ASSUME NEW l, NEW s
             PROVE  /\ Cardinality(Here(l, s)) >= In(db[d].at = l /\ db[d].own = s)
                    /\ Cardinality(Here(l, s)') =
                         Cardinality(Here(l, s)) - In(db[d].at = l /\ db[d].own = s)
                                                 + In(db'[d].at = l /\ db'[d].own = s)
  OBVIOUS
<1> DEFINE A == Here(l, s)
           B == {e \in DBThreads : db'[e].at = l /\ db'[e].own = s}
<1>1. IsFiniteSet(A) /\ IsFiniteSet(B) /\ B = Here(l, s)'
  BY LoginServerAssumption, FS_Subset DEF Here
<1>2. A \ {d} = B \ {d}
  BY DEF Moves, Here
<1>3. /\ (d \in A) = (db[d].at = l /\ db[d].own = s)
      /\ (d \in B) = (db'[d].at = l /\ db'[d].own = s)
  BY DEF Here
<1> HIDE DEF A, B
<1>4. /\ Cardinality(A) >= In(d \in A)
      /\ Cardinality(B) = Cardinality(A) - In(d \in A) + In(d \in B)
  BY <1>1, <1>2, SetStep
<1> QED
  BY <1>1, <1>3, <1>4 DEF A

-----------------------------------------------------------------------------
(* A packet put among others *)

LEMMA InsertFacts ==
  ASSUME NEW S, NEW q \in Seq(S), NEW e \in S, NEW k \in 1 .. Len(q) + 1
  PROVE  LET r == SeqExt!InsertAt(q, k, e) IN
         /\ r \in Seq(S) /\ Len(r) = Len(q) + 1
         /\ \A i \in 1 .. Len(q) + 1 :
              r[i] = IF i < k THEN q[i] ELSE IF i = k THEN e ELSE q[i - 1]
<1>1. /\ SubSeq(q, 1, k - 1) \in Seq(S) /\ Len(SubSeq(q, 1, k - 1)) = k - 1
      /\ \A i \in 1 .. k - 1 : SubSeq(q, 1, k - 1)[i] = q[i]
  BY SubSeqProperties
<1>2. /\ SubSeq(q, k, Len(q)) \in Seq(S) /\ Len(SubSeq(q, k, Len(q))) = Len(q) - k + 1
      /\ \A i \in 1 .. Len(q) - k + 1 : SubSeq(q, k, Len(q))[i] = q[k + i - 1]
  OBVIOUS
<1>3. <<e>> \in Seq(S) /\ Len(<<e>>) = 1 /\ <<e>>[1] = e
  OBVIOUS
<1>4. PICK a, b, d \in Seq(S) :
        /\ a = SubSeq(q, 1, k - 1) /\ b = SubSeq(q, k, Len(q)) /\ d = <<e>>
        /\ Len(a) = k - 1 /\ Len(b) = Len(q) - k + 1 /\ Len(d) = 1 /\ d[1] = e
        /\ \A i \in 1 .. k - 1 : a[i] = q[i]
        /\ \A i \in 1 .. Len(q) - k + 1 : b[i] = q[k + i - 1]
  BY <1>1, <1>2, <1>3, Zenon
<1>5. /\ a \o d \in Seq(S) /\ Len(a \o d) = k
      /\ \A i \in 1 .. k : (a \o d)[i] = IF i < k THEN q[i] ELSE e
  BY <1>4, ConcatProperties
<1>6. PICK c \in Seq(S) : c = a \o d /\ Len(c) = k
                         /\ \A i \in 1 .. k : c[i] = IF i < k THEN q[i] ELSE e
  BY <1>5
<1>7. /\ c \o b \in Seq(S) /\ Len(c \o b) = Len(c) + Len(b)
      /\ \A i \in 1 .. Len(c) + Len(b) : (c \o b)[i] = IF i <= Len(c) THEN c[i] ELSE b[i - Len(c)]
  BY ConcatProperties
<1>n. Len(q) \in Nat /\ k \in Nat /\ 1 <= k /\ k <= Len(q) + 1
  OBVIOUS
<1>8. Len(c) + Len(b) = Len(q) + 1
  <2>1. Len(b) = Len(q) - k + 1
    BY <1>4
  <2>2. Len(c) = k
    BY <1>6
  <2> QED
    BY <1>n, <2>1, <2>2
<1>9. ASSUME NEW i \in 1 .. Len(q) + 1
      PROVE  (c \o b)[i] = IF i < k THEN q[i] ELSE IF i = k THEN e ELSE q[i - 1]
  <2>1. (c \o b)[i] = IF i <= k THEN c[i] ELSE b[i - k]
    BY <1>6, <1>7, <1>8
  <2>2. CASE i <= k
    BY <1>6, <1>n, <2>1, <2>2
  <2>3. CASE i > k
    <3>1. i - k \in 1 .. Len(q) - k + 1 /\ k + (i - k) - 1 = i - 1
      BY <1>n, <2>3
    <3>2. b[i - k] = q[k + (i - k) - 1]
      BY <1>4, <3>1
    <3> QED
      BY <1>n, <2>1, <2>3, <3>1, <3>2
  <2>4. i <= k \/ i > k
    BY <1>n
  <2> QED
    BY <2>2, <2>3, <2>4
<1>10. SeqExt!InsertAt(q, k, e) = c \o b
  BY <1>4, <1>6, Zenon DEF SeqExt!InsertAt
<1> QED
  BY <1>7, <1>8, <1>9, <1>10

-----------------------------------------------------------------------------
(* Types *)

\* Every request at work is counted.
Counted == _DB_ReqCnt >= Cardinality(Busy)

LEMMA BusyStep ==
  ASSUME NEW d \in DBThreads, Moves(d)
  PROVE  /\ Cardinality(Busy) \in Nat /\ Cardinality(Busy)' \in Nat
         /\ Cardinality(Busy) >= In(db[d] # Idle)
         /\ Cardinality(Busy)' = Cardinality(Busy) - In(db[d] # Idle) + In(db'[d] # Idle)
<1> DEFINE A == Busy
           B == {e \in DBThreads : db'[e] # Idle}
<1>1. IsFiniteSet(A) /\ IsFiniteSet(B) /\ B = Busy'
  BY LoginServerAssumption, FS_Subset DEF Busy, Idle
<1>2. A \ {d} = B \ {d}
  BY DEF Moves, Busy
<1>3. (d \in A) = (db[d] # Idle) /\ (d \in B) = (db'[d] # Idle)
  BY DEF Busy
<1> HIDE DEF A, B
<1>4. /\ Cardinality(A) \in Nat /\ Cardinality(B) \in Nat
      /\ Cardinality(A) >= In(d \in A)
      /\ Cardinality(B) = Cardinality(A) - In(d \in A) + In(d \in B)
  BY <1>1, <1>2, SetStep
<1> QED
  BY <1>1, <1>3, <1>4 DEF A

\* A table of sessions and times
Table(table) == DOMAIN table \subseteq Sessions /\ \A s \in DOMAIN table : table[s] \in Time

LEMMA TableStep ==
  ASSUME NEW table, Table(table), NEW s \in Sessions, NEW t \in Time
  PROVE  /\ Table(Put(table, s, t)) /\ DOMAIN Put(table, s, t) = DOMAIN table \cup {s}
         /\ Table(Erase(table, s)) /\ DOMAIN Erase(table, s) = DOMAIN table \ {s}
         /\ s \in DOMAIN table => /\ Table([table EXCEPT ![s] = t])
                                  /\ DOMAIN [table EXCEPT ![s] = t] = DOMAIN table
<1>1. Table(Put(table, s, t)) /\ DOMAIN Put(table, s, t) = DOMAIN table \cup {s}
  BY DEF Table, Put
<1>2. Table(Erase(table, s)) /\ DOMAIN Erase(table, s) = DOMAIN table \ {s}
  BY DEF Table, Erase
<1>3. ASSUME s \in DOMAIN table
      PROVE  /\ Table([table EXCEPT ![s] = t])
             /\ DOMAIN [table EXCEPT ![s] = t] = DOMAIN table
  BY <1>3 DEF Table
<1> QED
  BY <1>1, <1>2, <1>3

\* Labels of a DB worker
Labels == {"WaitDB", "takeWait", "putAuth", "redis", "OK", "failed", "RES_LOGIN"}

LEMMA TypeInit == Init => TypeOK /\ Counted
<1> SUFFICES ASSUME Init PROVE TypeOK /\ Counted
  OBVIOUS
<1>1. 0 \in Time
  BY LoginServerAssumption DEF Time
<1>2. Table(wait) /\ Table(auth)
  BY DEF Init, Table
<1>3. TypeOK
  <2>1. _AuthThreadQueue \in Seq(Packet) /\ dbIocp \in Seq(Sessions)
    BY DEF Init
  <2>2. /\ {nSent, answers, dropped} \subseteq [Sessions -> Nat]
        /\ tokens \in [Accounts -> Seq(Sessions)] /\ told \in [Sessions -> SUBSET Accounts]
    BY DEF Init
  <2>3. db \in [DBThreads -> {Idle} \cup Request]
    BY DEF Init
  <2> QED
    BY <1>1, <1>2, <2>1, <2>2, <2>3 DEF Init, TypeOK, Table
<1>4. Busy = {}
  BY DEF Init, Busy
<1> QED
  BY <1>3, <1>4, FS_EmptySet DEF Counted, Init

LEMMA CallbackTypes ==
  ASSUME TypeOK, NEW s \in Sessions, Callback(s) \/ Client(s)
  PROVE  TypeOK'
<1> USE DEF tables, queues, login, client, lan, Break, Disconnect
<1>t. Table(wait) /\ Table(auth) /\ accTime \in Time /\ 0 \in Time
  BY LoginServerAssumption, SMTT(60) DEF TypeOK, Table, Time
<1>1. CASE OnAccept(s)
  BY <1>1 DEF OnAccept, TypeOK
<1>2. CASE OnAcceptInsert(s)
  <2>1. wait' = wait \/ wait' = Put(wait, s, accTime)
    BY <1>2 DEF OnAcceptInsert
  <2>2. Table(wait')
    <3>1. Table(Put(wait, s, accTime))
      BY <1>t, TableStep
    <3> QED
      BY <1>t, <2>1, <3>1
  <2>3. broken' = broken \/ broken' = [at |-> "OnAccept", own |-> s]
    BY <1>2 DEF OnAcceptInsert
  <2>4. (net' = net \/ net' = [net EXCEPT ![s] = "open"]) /\ accTime' \in {accTime, 0}
    BY <1>2 DEF OnAcceptInsert
  <2>5. UNCHANGED <<auth, _AuthThreadQueue, dbIocp, _DB_ReqCnt, tokens, dropped, ath, db, now, nSent, answers, told, expired>>
    BY <1>2 DEF OnAcceptInsert
  <2>6. net' \in [Sessions -> {"new", "accept", "open", "closed", "found", "missed", "released"}]
    BY <2>4 DEF TypeOK
  <2>7. accTime' \in Time
    BY <1>t, <2>4
  <2>8. broken' \in {Running} \cup [at : {"OnAccept", "OnRelease", "REQ_ECHO"}, own : Sessions]
    BY <2>3 DEF TypeOK
  <2> QED
    BY <2>2, <2>5, <2>6, <2>7, <2>8 DEF TypeOK, Table
<1>3. CASE Leave(s)
  BY <1>3 DEF Leave, TypeOK
<1>4. ASSUME NEW kind \in Kinds, OnRecv(s, kind) PROVE TypeOK'
  <2>1. [own |-> s, kind |-> kind] \in Packet
    BY DEF Packet
  <2>2. PICK i \in 1 .. Len(_AuthThreadQueue) + 1 :
          _AuthThreadQueue' = SeqExt!InsertAt(_AuthThreadQueue, i, [own |-> s, kind |-> kind])
    BY <1>4 DEF OnRecv
  <2>3. _AuthThreadQueue \in Seq(Packet) /\ nSent \in [Sessions -> Nat]
    BY DEF TypeOK
  <2>5. _AuthThreadQueue' \in Seq(Packet)
    BY <2>1, <2>2, <2>3, InsertFacts
  <2>6. nSent' = [nSent EXCEPT ![s] = @ + 1]
    BY <1>4 DEF OnRecv
  <2>7. nSent' \in [Sessions -> Nat]
    BY <2>3, <2>6
  <2>4. UNCHANGED <<wait, auth, dbIocp, _DB_ReqCnt, tokens, dropped, ath, db, now, answers, told, net, accTime, expired, broken>>
    BY <1>4 DEF OnRecv
  <2> QED
    BY <2>4, <2>5, <2>7 DEF TypeOK
<1>5. CASE OnReleaseWait(s)
  <2>1. Table(wait')
    BY <1>5, <1>t, TableStep DEF OnReleaseWait
  <2> QED
    BY <1>5, <2>1 DEF OnReleaseWait, TypeOK, Table
<1>6. CASE OnReleaseAuth(s)
  <2>1. Table(auth')
    BY <1>6, <1>t, TableStep DEF OnReleaseAuth
  <2> QED
    BY <1>6, <2>1, SMTT(60) DEF OnReleaseAuth, TypeOK, Table
<1> QED
  BY <1>1, <1>2, <1>3, <1>4, <1>5, <1>6 DEF Callback, Client

LEMMA AuthThreadTypes ==
  ASSUME TypeOK, AuthThread
  PROVE  TypeOK'
<1> USE DEF tables, queues, login, client, lan, Break, Disconnect, Waits, Handles
<1>t. Table(wait) /\ now \in Time
  BY DEF TypeOK, Table
<1>m. ath.at = "PacketProc" => ath.msg \in Packet
  BY DEF TypeOK
<1>k. ath.at = "PacketProc" => ath.msg.own \in Sessions
  BY <1>m DEF Packet
<1>1. CASE AuthPop
  <2>1. Head(_AuthThreadQueue) \in Packet /\ Tail(_AuthThreadQueue) \in Seq(Packet)
    BY <1>1 DEF AuthPop, TypeOK
  <2>2. ath' = [at |-> "PacketProc", msg |-> Head(_AuthThreadQueue)]
    BY <1>1 DEF AuthPop
  <2>3. ath' \in [at : {"PacketProc"}, msg : Packet]
    BY <2>1, <2>2
  <2>4. /\ _AuthThreadQueue' \in Seq(Packet)
        /\ UNCHANGED <<wait, auth, dbIocp, _DB_ReqCnt, tokens, dropped, db, now, nSent, answers, told, net, accTime, expired, broken>>
    BY <1>1, <2>1 DEF AuthPop
  <2> QED
    BY <2>3, <2>4 DEF TypeOK
<1>2. CASE REQ_LOGIN
  BY <1>2, <1>k DEF REQ_LOGIN, TypeOK
<1>3. CASE REQ_ECHO
  <2>4. ath.msg.own \in Sessions
    BY <1>3, <1>k DEF REQ_ECHO
  <2>w. wait' = wait \/ (ath.msg.own \in DOMAIN wait /\ wait' = [wait EXCEPT ![ath.msg.own] = now])
    BY <1>3 DEF REQ_ECHO
  <2>1. Table(wait')
    <3>1. CASE wait' = wait
      BY <1>t, <3>1
    <3>2. CASE ath.msg.own \in DOMAIN wait /\ wait' = [wait EXCEPT ![ath.msg.own] = now]
      BY <1>t, <2>4, <3>2 DEF Table
    <3> QED
      BY <2>w, <3>1, <3>2
  <2>2. ath' = ath \/ ath' = [at |-> "RES_ECHO", own |-> ath.msg.own]
    BY <1>3 DEF REQ_ECHO
  <2>3. broken' = broken \/ broken' = [at |-> "REQ_ECHO", own |-> ath.msg.own]
    BY <1>3 DEF REQ_ECHO
  <2>5. UNCHANGED <<auth, _AuthThreadQueue, dbIocp, _DB_ReqCnt, tokens, dropped, db, now, nSent, answers, told, net, accTime, expired>>
    BY <1>3 DEF REQ_ECHO
  <2>6. /\ ath' \in {Waits} \cup [at : {"PacketProc"}, msg : Packet] \cup [at : {"RES_ECHO"}, own : Sessions]
                   \cup [at : {"beatWait", "beatAuth"}, currentTime : Time]
        /\ broken' \in {Running} \cup [at : {"OnAccept", "OnRelease", "REQ_ECHO"}, own : Sessions]
    BY <2>2, <2>3, <2>4 DEF TypeOK
  <2> QED
    BY <2>1, <2>5, <2>6 DEF TypeOK, Table
<1>4. CASE RES_ECHO
  BY <1>4 DEF RES_ECHO, SendPacket, TypeOK
<1>5. CASE BadPacket
  BY <1>5 DEF BadPacket, TypeOK
<1>6. CASE HeartBeatTime
  BY <1>6 DEF HeartBeatTime, TypeOK
<1>7. CASE HeartBeatWait
  <2>1. ath.currentTime \in Time /\ ath' = [at |-> "beatAuth", currentTime |-> ath.currentTime]
    BY <1>7 DEF HeartBeatWait, TypeOK
  <2>2. ath' \in [at : {"beatWait", "beatAuth"}, currentTime : Time]
    BY <2>1
  <2>3. net' \in [Sessions -> {"new", "accept", "open", "closed", "found", "missed", "released"}]
        /\ expired' \subseteq Sessions
    BY <1>7 DEF HeartBeatWait, HeartBeat, TypeOK
  <2>4. UNCHANGED <<wait, auth, _AuthThreadQueue, dbIocp, _DB_ReqCnt, tokens, dropped, db, now, nSent, answers, told, accTime, broken>>
    BY <1>7 DEF HeartBeatWait, HeartBeat
  <2> QED
    BY <2>2, <2>3, <2>4 DEF TypeOK
<1>8. CASE HeartBeatAuth
  BY <1>8 DEF HeartBeatAuth, HeartBeat, TypeOK
<1> QED
  BY <1>1, <1>2, <1>3, <1>4, <1>5, <1>6, <1>7, <1>8 DEF AuthThread, AuthGoesOn

\* What each step of DB worker d does to its position.
Moved(d, from, to) ==
  /\ db[d].at = from /\ db[d].own \in Sessions /\ db[d] # Idle
  /\ db' = [db EXCEPT ![d] = to]
  /\ Moves(d) /\ db'[d] = to

LEMMA WorkerMoves ==
  ASSUME TypeOK, NEW d \in DBThreads
  PROVE  LET s == db[d].own
             At(l) == [at |-> l, own |-> s, accountNo |-> db[d].accountNo] IN
         /\ WaitDB(d) => \E to \in Request : /\ to.own = s /\ to.at \in {"takeWait", "failed"}
                                              /\ Moved(d, "WaitDB", to)
         /\ TakeFromWait(d) => /\ Moved(d, "takeWait", IF s \in DOMAIN wait THEN At("putAuth") ELSE Idle)
                               /\ At("putAuth") \in Request
         /\ PutIntoAuth(d) => /\ Moved(d, "putAuth", IF s \in DOMAIN auth THEN Idle ELSE At("redis"))
                              /\ At("redis") \in Request
         /\ Redis(d) => /\ Moved(d, "redis", At("OK"))
                        /\ At("OK") \in Request /\ db[d].accountNo \in Accounts
         /\ LoginFails(d) => /\ Moved(d, "failed", IF s \in DOMAIN wait THEN At("RES_LOGIN") ELSE Idle)
                             /\ At("RES_LOGIN") \in Request
         /\ RES_LOGIN(d) => /\ Moved(d, db[d].at, Idle)
                            /\ db[d].at = "OK" => db[d].accountNo \in Accounts
<1> DEFINE s == db[d].own
           At(l) == [at |-> l, own |-> s, accountNo |-> db[d].accountNo]
<1>r. db[d].at \in Labels => db[d] \in Request
  BY DEF TypeOK, Labels, Idle
<1>1. db[d].at \in Labels => db[d] = At(db[d].at) /\ s \in Sessions /\ db[d] # Idle
  BY <1>r DEF Request, Labels, Idle
<1>p. /\ db[d].at \in {"takeWait", "putAuth", "redis", "OK"} =>
           /\ db[d].accountNo \in Accounts
           /\ \A l \in {"takeWait", "putAuth", "redis", "OK"} : At(l) \in Request
      /\ db[d].at \in {"WaitDB", "failed", "RES_LOGIN"} =>
           \A l \in {"WaitDB", "failed", "RES_LOGIN"} : At(l) \in Request
  BY <1>r DEF Request, Labels
<1>q. s \in Sessions => \A n \in Accounts : [at |-> "takeWait", own |-> s, accountNo |-> n] \in Request
  BY DEF Request
<1>2. ASSUME NEW to, db' = [db EXCEPT ![d] = to], db[d].at \in Labels
      PROVE  Moved(d, db[d].at, to)
  BY <1>1, <1>2 DEF Moved, Moves, TypeOK
<1>3. ASSUME NEW l, Goto(d, l), db[d].at \in Labels
      PROVE  db' = [db EXCEPT ![d] = At(l)]
  <2>1. db' = [db EXCEPT ![d] = [db[d] EXCEPT !.at = l]]
    BY <1>3 DEF Goto
  <2>2. [db[d] EXCEPT !.at = l] = At(l)
    BY <1>1, <1>3
  <2> QED
    BY <2>1, <2>2
<1> HIDE DEF At, s
<1>4. ASSUME WaitDB(d)
      PROVE  \E to \in Request : /\ to.own = s /\ to.at \in {"takeWait", "failed"}
                                 /\ Moved(d, "WaitDB", to)
  <2>1. db[d].at = "WaitDB" /\ db[d].at \in Labels
    BY <1>4 DEF WaitDB, Labels
  <2>2. CASE Goto(d, "failed")
    <3>1. Moved(d, "WaitDB", At("failed"))
      BY <1>2, <1>3, <2>1, <2>2
    <3>2. At("failed") \in Request
      BY <1>p, <2>1
    <3> QED
      BY <3>1, <3>2 DEF At
  <2>3. ASSUME NEW n \in Accounts,
               db' = [db EXCEPT ![d] = [at |-> "takeWait", own |-> @.own, accountNo |-> n]]
        PROVE  \E to \in Request : /\ to.own = s /\ to.at \in {"takeWait", "failed"}
                                   /\ Moved(d, "WaitDB", to)
    <3> DEFINE to == [at |-> "takeWait", own |-> s, accountNo |-> n]
    <3>1. to \in Request
      BY <1>1, <1>q, <2>1
    <3>2. db' = [db EXCEPT ![d] = to]
      BY <2>3 DEF s
    <3>3. Moved(d, "WaitDB", to)
      BY <1>2, <2>1, <3>2
    <3> QED
      BY <3>1, <3>3
  <2> QED
    BY <1>4, <2>2, <2>3 DEF WaitDB
<1>5. ASSUME TakeFromWait(d)
      PROVE  /\ Moved(d, "takeWait", IF s \in DOMAIN wait THEN At("putAuth") ELSE Idle)
             /\ At("putAuth") \in Request
  BY <1>5, <1>2, <1>3, <1>p DEF TakeFromWait, Labels, Drop, Ends, s
<1>6. ASSUME PutIntoAuth(d)
      PROVE  /\ Moved(d, "putAuth", IF s \in DOMAIN auth THEN Idle ELSE At("redis"))
             /\ At("redis") \in Request
  BY <1>6, <1>2, <1>3, <1>p DEF PutIntoAuth, Labels, Drop, Ends, s
<1>7. ASSUME Redis(d)
      PROVE  /\ Moved(d, "redis", At("OK"))
             /\ At("OK") \in Request /\ db[d].accountNo \in Accounts
  BY <1>7, <1>2, <1>3, <1>p DEF Redis, Labels
<1>8. ASSUME LoginFails(d)
      PROVE  /\ Moved(d, "failed", IF s \in DOMAIN wait THEN At("RES_LOGIN") ELSE Idle)
             /\ At("RES_LOGIN") \in Request
  BY <1>8, <1>2, <1>3, <1>p DEF LoginFails, Labels, Drop, Ends, s
<1>9. ASSUME RES_LOGIN(d)
      PROVE  /\ Moved(d, db[d].at, Idle)
             /\ db[d].at = "OK" => db[d].accountNo \in Accounts
  BY <1>9, <1>2, <1>3, <1>p DEF RES_LOGIN, Labels, Ends
<1> QED
  BY <1>4, <1>5, <1>6, <1>7, <1>8, <1>9 DEF At, s

LEMMA WorkerTypes ==
  ASSUME TypeOK, Counted, NEW d \in DBThreads, DBworkerThread(d)
  PROVE  TypeOK' /\ Counted'
<1> USE DEF tables, queues, login, client, lan
<1> DEFINE s == db[d].own
           At(l) == [at |-> l, own |-> s, accountNo |-> db[d].accountNo]
<1>t. Table(wait) /\ Table(auth) /\ now \in Time
  BY DEF TypeOK, Table
\* A step between two labels
<1>a. ASSUME NEW l, NEW to \in Request, Moved(d, l, to), _DB_ReqCnt' = _DB_ReqCnt
      PROVE  /\ db' \in [DBThreads -> {Idle} \cup Request]
             /\ _DB_ReqCnt' \in Nat /\ Counted'
  <2>1. to # Idle
    BY <1>a DEF Request, Idle
  <2>2. db' \in [DBThreads -> {Idle} \cup Request]
    BY <1>a, <2>1 DEF Moved, TypeOK
  <2>3. Cardinality(Busy)' = Cardinality(Busy)
    <3>1. db[d] # Idle /\ db'[d] # Idle /\ Moves(d)
      BY <1>a, <2>1 DEF Moved
    <3> QED
      BY <3>1, BusyStep DEF In
  <2> QED
    BY <1>a, <2>2, <2>3 DEF Counted, TypeOK
\* A step to the end of a request
<1>b. ASSUME NEW l, Moved(d, l, Idle)
      PROVE  /\ db' \in [DBThreads -> {Idle} \cup Request]
             /\ _DB_ReqCnt' \in {_DB_ReqCnt, _DB_ReqCnt - 1} => _DB_ReqCnt' \in Nat /\ Counted'
  <2>1. db' \in [DBThreads -> {Idle} \cup Request]
    BY <1>b DEF Moved, TypeOK
  <2>2. /\ Cardinality(Busy)' = Cardinality(Busy) - 1
        /\ Cardinality(Busy) >= 1
        /\ Cardinality(Busy) \in Nat
    <3>1. db[d] # Idle /\ db'[d] = Idle /\ Moves(d)
      BY <1>b DEF Moved
    <3> QED
      BY <3>1, BusyStep DEF In
  <2>3. _DB_ReqCnt \in Nat /\ _DB_ReqCnt >= Cardinality(Busy)
    BY DEF TypeOK, Counted
  <2> QED
    BY <2>1, <2>2, <2>3 DEF Counted
<1> HIDE DEF At, s
<1>m. s \in Sessions => /\ Table(Erase(wait, s)) /\ Table(Put(auth, s, now))
  BY <1>t, TableStep
<1>d. ASSUME NEW f \in [Sessions -> Nat], s \in Sessions
      PROVE  [f EXCEPT ![s] = @ + 1] \in [Sessions -> Nat]
  BY <1>d
<1>f. /\ dropped \in [Sessions -> Nat] /\ answers \in [Sessions -> Nat]
      /\ tokens \in [Accounts -> Seq(Sessions)] /\ told \in [Sessions -> SUBSET Accounts]
  BY DEF TypeOK
<1>1. CASE DBTake(d)
  <2>1. /\ dbIocp' = Tail(dbIocp) /\ dbIocp # <<>>
        /\ db' = [db EXCEPT ![d] = [at |-> "WaitDB", own |-> Head(dbIocp), accountNo |-> 0]]
        /\ _DB_ReqCnt' = _DB_ReqCnt + 1 /\ db[d] = Idle
        /\ UNCHANGED <<wait, auth, _AuthThreadQueue, tokens, dropped, ath, now, nSent,
                       answers, told, net, accTime, expired, broken>>
    BY <1>1 DEF DBTake
  <2>2. Head(dbIocp) \in Sessions /\ Tail(dbIocp) \in Seq(Sessions)
    BY <2>1 DEF TypeOK
  <2>3. db' \in [DBThreads -> {Idle} \cup Request]
    BY <2>1, <2>2 DEF TypeOK, Request
  <2>4. Moves(d) /\ db'[d] # Idle
    BY <2>1 DEF Moves, TypeOK, Idle
  <2>5. _DB_ReqCnt' \in Nat /\ Counted'
    BY <2>1, <2>4, BusyStep DEF Counted, TypeOK, In
  <2> QED
    BY <2>1, <2>2, <2>3, <2>5 DEF TypeOK
<1>2. CASE WaitDB(d)
  <2>1. PICK to \in Request : Moved(d, "WaitDB", to)
    BY <1>2, WorkerMoves
  <2>2. UNCHANGED <<wait, auth, _AuthThreadQueue, dbIocp, _DB_ReqCnt, tokens, dropped, ath, now, nSent, answers, told, net, accTime, expired, broken>>
    BY <1>2 DEF WaitDB
  <2> QED
    BY <1>a, <2>1, <2>2 DEF TypeOK
<1>3. CASE TakeFromWait(d)
  <2>1. /\ Moved(d, "takeWait", IF s \in DOMAIN wait THEN At("putAuth") ELSE Idle)
        /\ At("putAuth") \in Request
    BY <1>3, WorkerMoves DEF At, s
  <2>2. /\ wait' \in {wait, Erase(wait, s)}
        /\ dropped' \in {dropped, [dropped EXCEPT ![s] = @ + 1]}
        /\ UNCHANGED <<auth, _AuthThreadQueue, dbIocp, _DB_ReqCnt, tokens, ath, now, nSent, answers, told, net, accTime, expired, broken>>
    BY <1>3 DEF TakeFromWait, Drop, s
  <2>3. s \in Sessions
    BY <2>1 DEF Moved, s
  <2>4. Table(wait') /\ dropped' \in [Sessions -> Nat]
    BY <1>t, <1>m, <1>d, <1>f, <2>2, <2>3
  <2>5. /\ db' \in [DBThreads -> {Idle} \cup Request]
        /\ _DB_ReqCnt' \in Nat /\ Counted'
    BY <1>a, <1>b, <2>1, <2>2
  <2> QED
    BY <2>2, <2>4, <2>5 DEF TypeOK, Table
<1>4. CASE PutIntoAuth(d)
  <2>1. /\ Moved(d, "putAuth", IF s \in DOMAIN auth THEN Idle ELSE At("redis"))
        /\ At("redis") \in Request
    BY <1>4, WorkerMoves DEF At, s
  <2>2. /\ auth' \in {auth, Put(auth, s, now)}
        /\ dropped' \in {dropped, [dropped EXCEPT ![s] = @ + 1]}
        /\ UNCHANGED <<wait, _AuthThreadQueue, dbIocp, _DB_ReqCnt, tokens, ath, now, nSent, answers, told, net, accTime, expired, broken>>
    BY <1>4 DEF PutIntoAuth, Drop, s
  <2>3. s \in Sessions
    BY <2>1 DEF Moved, s
  <2>4. Table(auth') /\ dropped' \in [Sessions -> Nat]
    BY <1>t, <1>m, <1>d, <1>f, <2>2, <2>3
  <2>5. /\ db' \in [DBThreads -> {Idle} \cup Request]
        /\ _DB_ReqCnt' \in Nat /\ Counted'
    BY <1>a, <1>b, <2>1, <2>2
  <2> QED
    BY <2>2, <2>4, <2>5 DEF TypeOK, Table
<1>5. CASE Redis(d)
  <2>1. /\ Moved(d, "redis", At("OK"))
        /\ At("OK") \in Request /\ db[d].accountNo \in Accounts
    BY <1>5, WorkerMoves DEF At, s
  <2>2. /\ tokens' = [tokens EXCEPT ![db[d].accountNo] = Append(@, s)]
        /\ UNCHANGED <<wait, auth, _AuthThreadQueue, dbIocp, _DB_ReqCnt, dropped, ath, now, nSent, answers, told, net, accTime, expired, broken>>
    BY <1>5 DEF Redis, s
  <2>3. s \in Sessions
    BY <2>1 DEF Moved, s
  <2>4. tokens' \in [Accounts -> Seq(Sessions)]
    BY <1>f, <2>1, <2>2, <2>3
  <2>5. /\ db' \in [DBThreads -> {Idle} \cup Request]
        /\ _DB_ReqCnt' \in Nat /\ Counted'
    BY <1>a, <2>1, <2>2
  <2> QED
    BY <2>2, <2>4, <2>5 DEF TypeOK
<1>6. CASE LoginFails(d)
  <2>1. /\ Moved(d, "failed", IF s \in DOMAIN wait THEN At("RES_LOGIN") ELSE Idle)
        /\ At("RES_LOGIN") \in Request
    BY <1>6, WorkerMoves DEF At, s
  <2>2. /\ dropped' \in {dropped, [dropped EXCEPT ![s] = @ + 1]}
        /\ UNCHANGED <<wait, auth, _AuthThreadQueue, dbIocp, _DB_ReqCnt, tokens, ath, now, nSent, answers, told, net, accTime, expired, broken>>
    BY <1>6 DEF LoginFails, Drop, s
  <2>3. s \in Sessions
    BY <2>1 DEF Moved, s
  <2>4. dropped' \in [Sessions -> Nat]
    BY <1>d, <1>f, <2>2, <2>3
  <2>5. /\ db' \in [DBThreads -> {Idle} \cup Request]
        /\ _DB_ReqCnt' \in Nat /\ Counted'
    BY <1>a, <1>b, <2>1, <2>2
  <2> QED
    BY <2>2, <2>4, <2>5 DEF TypeOK
<1>7. CASE RES_LOGIN(d)
  <2>1. /\ Moved(d, db[d].at, Idle)
        /\ db[d].at = "OK" => db[d].accountNo \in Accounts
    BY <1>7, WorkerMoves DEF s
  <2>2. /\ _DB_ReqCnt' = _DB_ReqCnt - 1
        /\ answers' = [answers EXCEPT ![s] = IF net[s] \in {"open", "closed"} THEN @ + 1 ELSE @]
        /\ \/ told' = told
           \/ db[d].at = "OK" /\ told' = [told EXCEPT ![s] = @ \cup {db[d].accountNo}]
        /\ UNCHANGED <<wait, auth, _AuthThreadQueue, dbIocp, tokens, dropped, ath, now, nSent, net, accTime, expired, broken>>
    BY <1>7 DEF RES_LOGIN, SendPacket, s
  <2>3. s \in Sessions
    BY <2>1 DEF Moved, s
  <2>4. answers' \in [Sessions -> Nat]
    BY <1>f, <2>2, <2>3
  <2>t. told' \in [Sessions -> SUBSET Accounts]
    <3>1. CASE told' = told
      BY <1>f, <3>1
    <3>2. CASE /\ db[d].accountNo \in Accounts
               /\ told' = [told EXCEPT ![s] = @ \cup {db[d].accountNo}]
      BY <1>f, <2>3, <3>2
    <3> QED
      BY <2>1, <2>2, <3>1, <3>2
  <2>5. /\ db' \in [DBThreads -> {Idle} \cup Request]
        /\ _DB_ReqCnt' \in Nat /\ Counted'
    BY <1>b, <2>1, <2>2
  <2> QED
    BY <2>2, <2>4, <2>t, <2>5, SMTT(30) DEF TypeOK
<1> QED
  BY <1>1, <1>2, <1>3, <1>4, <1>5, <1>6, <1>7 DEF DBworkerThread

LEMMA TypeNext == TypeOK /\ Counted /\ [Next]_vars => TypeOK' /\ Counted'
<1> SUFFICES ASSUME TypeOK, Counted, [Next]_vars PROVE TypeOK' /\ Counted'
  OBVIOUS
<1> USE DEF tables, queues, login, client, lan
<1>1. ASSUME UNCHANGED <<db, _DB_ReqCnt>> PROVE Counted'
  BY <1>1 DEF Counted, Busy
<1>2. CASE UNCHANGED vars
  BY <1>1, <1>2 DEF vars, TypeOK
<1>3. CASE AuthThread
  BY <1>1, <1>3, AuthThreadTypes DEF AuthThread, AuthGoesOn, AuthPop, REQ_LOGIN, REQ_ECHO, RES_ECHO, BadPacket,
     HeartBeatTime, HeartBeatWait, HeartBeatAuth, HeartBeat
<1>4. CASE Tick
  <2>1. now' \in Time
    BY <1>4, LoginServerAssumption DEF Tick, TypeOK, Time
  <2> QED
    BY <1>1, <1>4, <2>1 DEF Tick, TypeOK
<1>5. ASSUME NEW d \in DBThreads, DBworkerThread(d) PROVE TypeOK' /\ Counted'
  BY <1>5, WorkerTypes
<1>6. ASSUME NEW s \in Sessions, Callback(s) \/ Client(s) PROVE TypeOK' /\ Counted'
  <2>1. UNCHANGED <<db, _DB_ReqCnt>>
    BY <1>6 DEF Callback, Client, OnAccept, OnAcceptInsert, OnRecv, Leave, OnReleaseWait,
       OnReleaseAuth
  <2> QED
    BY <1>1, <1>6, <2>1, CallbackTypes
<1> QED
  BY <1>2, <1>3, <1>4, <1>5, <1>6 DEF Next

\* Every variable of the login server keeps its type: no table entry has a time the
\* clock cannot show, _DB_ReqCnt is never negative and no completion of a DB worker
\* is for an unknown session.
THEOREM TypeCorrect == Spec => []TypeOK
<1>1. Init => TypeOK /\ Counted
  BY TypeInit
<1>2. TypeOK /\ Counted /\ [Next]_vars => TypeOK' /\ Counted'
  BY TypeNext
<1> QED
  BY <1>1, <1>2, PTL DEF Spec

-----------------------------------------------------------------------------
(* OnePlace: with the types it is inductive. *)

\* How the places of a session follow from membership and DB workers on their way
LEMMA PlacesAre ==
  \A s : /\ Moving(s) = Here("putAuth", s)
         /\ Places(s) = In(s \in DOMAIN wait) + In(s \in DOMAIN auth) + Cardinality(Here("putAuth", s))
         /\ Places(s)' = In(s \in DOMAIN wait') + In(s \in DOMAIN auth') + Cardinality(Here("putAuth", s))'
BY DEF Moving, Here, Places, In

\* Being in neither place before OnAccept and after the start of OnRelease
Stays(n) == n \in {"open", "closed", "missed"}

\* OnePlace with all it counts spelt out
OneEach ==
  \A s \in Sessions :
    /\ Cardinality(Here("putAuth", s)) \in Nat
    /\ In(s \in DOMAIN wait) + In(s \in DOMAIN auth) + Cardinality(Here("putAuth", s)) = In(Stays(net[s]))

LEMMA OnePlaceIs == /\ OnePlace <=> (Up => OneEach)
                    /\ OnePlace' <=> (Up' => OneEach')
<1>1. OnePlace <=> (Up => OneEach)
  BY PlacesAre, HereFinite DEF OnePlace, OneEach, In, Stays
<1>2. \A s : IsFiniteSet(Here("putAuth", s)')
  BY LoginServerAssumption, FS_Subset DEF Here
<1>3. \A s : Cardinality(Here("putAuth", s)') \in Nat
  BY <1>2, FS_CardinalityType
<1>4. OnePlace' <=> (Up' => OneEach')
  BY <1>3, PlacesAre DEF OnePlace, OneEach, In, Stays
<1> QED
  BY <1>1, <1>4

\* The steps that move nothing: the places of every session are the same, and so is
\* whether it should have one.
LEMMA SamePlaces ==
  ASSUME OneEach, UNCHANGED <<DOMAIN wait, DOMAIN auth, db>>,
         \A s \in Sessions : Stays(net[s]) = Stays(net'[s])
  PROVE  OneEach'
<1>1. \A s : Here("putAuth", s)' = Here("putAuth", s)
  BY DEF Here
<1> QED
  BY <1>1 DEF OneEach

LEMMA OneCallback ==
  ASSUME TypeOK, OneEach, NEW s \in Sessions, Callback(s) \/ Client(s), Up'
  PROVE  OneEach'
<1> USE DEF tables, queues, login, client, lan, Break, Disconnect
<1>n. net \in [Sessions -> {"new", "accept", "open", "closed", "found", "missed", "released"}]
  BY DEF TypeOK
<1>u. broken' = Running /\ \A l : [at |-> l, own |-> s] # Running
  BY DEF Up, Running
<1>t. Table(wait) /\ Table(auth) /\ accTime \in Time
  BY DEF TypeOK, Table
<1>h. UNCHANGED db => \A r : Here("putAuth", r)' = Here("putAuth", r)
  BY DEF Here
<1>1. CASE OnAccept(s)
  BY <1>1, <1>n, SamePlaces DEF OnAccept, Stays
<1>2. CASE OnAcceptInsert(s)
  <2>1. /\ s \notin DOMAIN wait /\ wait' = Put(wait, s, accTime)
        /\ net[s] = "accept" /\ net' = [net EXCEPT ![s] = "open"]
        /\ UNCHANGED <<auth, db>>
    BY <1>2, <1>u DEF OnAcceptInsert
  <2>2. DOMAIN wait' = DOMAIN wait \cup {s}
    BY <2>1 DEF Put
  <2> QED
    BY <2>1, <2>2, <1>n, <1>h DEF OneEach, Stays, In
<1>3. CASE Leave(s)
  BY <1>3, <1>n, SamePlaces DEF Leave, Stays
<1>4. CASE \E kind \in Kinds : OnRecv(s, kind)
  <2>1. UNCHANGED <<wait, auth, db, net>>
    BY <1>4 DEF OnRecv
  <2> QED
    BY <2>1, SamePlaces
<1>5. CASE OnReleaseWait(s)
  <2>1. /\ wait' = Erase(wait, s) /\ net[s] = "closed"
        /\ net' = [net EXCEPT ![s] = IF s \in DOMAIN wait THEN "found" ELSE "missed"]
        /\ UNCHANGED <<auth, db>>
    BY <1>5 DEF OnReleaseWait
  <2>2. DOMAIN wait' = DOMAIN wait \ {s}
    BY <2>1, <1>t, <1>n, LoginServerAssumption, TableStep DEF Erase
  <2> QED
    BY <2>1, <2>2, <1>n, <1>h DEF OneEach, Stays, In
<1>6. CASE OnReleaseAuth(s)
  <2>1. /\ auth' = Erase(auth, s)
        /\ net[s] = "found" \/ (net[s] = "missed" /\ s \in DOMAIN auth)
        /\ net' = [net EXCEPT ![s] = "released"]
        /\ UNCHANGED <<wait, db>>
    BY <1>6, <1>u DEF OnReleaseAuth
  <2>2. DOMAIN auth' = DOMAIN auth \ {s}
    BY <2>1 DEF Erase
  <2> QED
    BY <2>1, <2>2, <1>n, <1>h DEF OneEach, Stays, In
<1> QED
  BY <1>1, <1>2, <1>3, <1>4, <1>5, <1>6 DEF Callback, Client

LEMMA OneAuthThread ==
  ASSUME TypeOK, OneEach, AuthThread
  PROVE  OneEach'
<1> USE DEF tables, queues, login, client, lan, Break, Disconnect
<1>n. net \in [Sessions -> {"new", "accept", "open", "closed", "found", "missed", "released"}]
  BY DEF TypeOK
<1>1. UNCHANGED <<DOMAIN wait, DOMAIN auth, db>>
  BY DEF AuthThread, AuthGoesOn, AuthPop, REQ_LOGIN, REQ_ECHO, RES_ECHO, BadPacket, HeartBeatTime,
     HeartBeatWait, HeartBeatAuth, HeartBeat
<1>2. \A s \in Sessions : net'[s] = net[s] \/ (net[s] = "open" /\ net'[s] = "closed")
  BY <1>n DEF AuthThread, AuthGoesOn, AuthPop, REQ_LOGIN, REQ_ECHO, RES_ECHO, BadPacket, HeartBeatTime,
     HeartBeatWait, HeartBeatAuth, HeartBeat
<1>3. \A s \in Sessions : Stays(net[s]) = Stays(net'[s])
  BY <1>n, <1>2 DEF Stays
<1> QED
  BY <1>1, <1>3, SamePlaces

LEMMA OneWorker ==
  ASSUME TypeOK, OneEach, NEW d \in DBThreads, DBworkerThread(d)
  PROVE  OneEach'
<1> USE DEF tables, queues, login, client, lan
<1> DEFINE s == db[d].own
           At(l) == [at |-> l, own |-> s, accountNo |-> db[d].accountNo]
\* A step neither to nor from putAuth
<1>a. ASSUME db[d].at # "putAuth", db'[d].at # "putAuth", Moves(d), UNCHANGED <<wait, auth, net>>
      PROVE  OneEach'
  <2>1. \A r : Cardinality(Here("putAuth", r))' = Cardinality(Here("putAuth", r))
    BY <1>a, HereStep, HereFinite DEF In
  <2> QED
    BY <1>a, <2>1 DEF OneEach
<1>1. CASE DBTake(d)
  BY <1>1, <1>a DEF DBTake, Moves, TypeOK, Idle
<1>2. CASE WaitDB(d)
  <2>1. PICK to \in Request : to.at \in {"takeWait", "failed"} /\ Moved(d, "WaitDB", to)
    BY <1>2, WorkerMoves
  <2> QED
    BY <1>2, <1>a, <2>1 DEF WaitDB, Moved
<1>3. CASE TakeFromWait(d)
  <2>1. /\ Moved(d, "takeWait", IF s \in DOMAIN wait THEN At("putAuth") ELSE Idle)
        /\ UNCHANGED <<auth, net>>
        /\ wait' = IF s \in DOMAIN wait THEN Erase(wait, s) ELSE wait
    BY <1>3, WorkerMoves DEF TakeFromWait
  <2>2. CASE s \notin DOMAIN wait
    BY <2>1, <2>2, <1>a DEF Moved, Idle
  <2>3. CASE s \in DOMAIN wait
    <3>1. Moves(d) /\ db[d].at = "takeWait" /\ db'[d] = At("putAuth") /\ s \in Sessions
      BY <2>1, <2>3 DEF Moved
    <3>2. \A r : Cardinality(Here("putAuth", r))' = Cardinality(Here("putAuth", r)) + In(r = s)
      BY <3>1, HereStep, HereFinite DEF In
    <3>3. DOMAIN wait' = DOMAIN wait \ {s} /\ UNCHANGED <<auth, net>>
      BY <2>1, <2>3 DEF Erase
    <3> QED
      BY <2>3, <3>2, <3>3 DEF OneEach, In
  <2> QED
    BY <2>2, <2>3
<1>4. CASE PutIntoAuth(d)
  <2>1. /\ Moved(d, "putAuth", IF s \in DOMAIN auth THEN Idle ELSE At("redis"))
        /\ UNCHANGED <<wait, net>>
        /\ s \notin DOMAIN auth => auth' = Put(auth, s, now)
    BY <1>4, WorkerMoves DEF PutIntoAuth
  <2>2. db[d].at = "putAuth" /\ s \in Sessions /\ Moves(d)
    BY <2>1 DEF Moved
  <2>3. Cardinality(Here("putAuth", s)) >= 1
    BY <2>2, HereStep DEF In
  <2>4. s \notin DOMAIN auth
    BY <2>2, <2>3 DEF OneEach, In, Stays
  <2>5. db'[d] = At("redis")
    BY <2>1, <2>4 DEF Moved
  <2>6. \A r : Cardinality(Here("putAuth", r))' = Cardinality(Here("putAuth", r)) - In(r = s)
    BY <2>2, <2>5, HereStep, HereFinite DEF In
  <2>7. DOMAIN auth' = DOMAIN auth \cup {s}
    BY <2>1, <2>4 DEF Put
  <2> QED
    BY <2>1, <2>3, <2>4, <2>6, <2>7 DEF OneEach, In
<1>5. CASE Redis(d)
  <2>1. Moved(d, "redis", At("OK"))
    BY <1>5, WorkerMoves
  <2> QED
    BY <1>5, <1>a, <2>1 DEF Redis, Moved
<1>6. CASE LoginFails(d)
  <2>1. Moved(d, "failed", IF s \in DOMAIN wait THEN At("RES_LOGIN") ELSE Idle)
    BY <1>6, WorkerMoves
  <2> QED
    BY <1>6, <1>a, <2>1 DEF LoginFails, Moved, Idle
<1>7. CASE RES_LOGIN(d)
  <2>1. Moved(d, db[d].at, Idle)
    BY <1>7, WorkerMoves
  <2> QED
    BY <1>7, <1>a, <2>1 DEF RES_LOGIN, Moved, Idle
<1> QED
  BY <1>1, <1>2, <1>3, <1>4, <1>5, <1>6, <1>7 DEF DBworkerThread

LEMMA OneNext == TypeOK /\ OnePlace /\ [Next]_vars => OnePlace'
<1> SUFFICES ASSUME TypeOK, OnePlace, [Next]_vars, Up' PROVE OneEach'
  BY OnePlaceIs
<1> USE DEF tables, queues, login, client, lan
<1>1. CASE UNCHANGED vars
  BY <1>1, OnePlaceIs, SamePlaces DEF vars, Up
<1>2. ASSUME Next PROVE OneEach'
  <2>1. OneEach
    BY <1>2, OnePlaceIs DEF Next
  <2>2. CASE Tick
    BY <2>1, <2>2, SamePlaces DEF Tick
  <2> QED
    BY <1>2, <2>1, <2>2, OneCallback, OneAuthThread, OneWorker DEF Next
<1> QED
  BY <1>1, <1>2

LEMMA OneInit == Init => OnePlace
<1> SUFFICES ASSUME Init PROVE OneEach
  BY OnePlaceIs
<1>1. \A s : Here("putAuth", s) = {}
  BY DEF Here, Init, Idle
<1>2. \A s \in Sessions : ~ Stays(net[s]) /\ s \notin DOMAIN wait /\ s \notin DOMAIN auth
  BY DEF Init, Stays
<1>3. \A s : Cardinality(Here("putAuth", s)) = 0
  BY <1>1, FS_EmptySet
<1> QED
  BY <1>2, <1>3 DEF OneEach, In

\* From the end of OnAccept to the beginning of OnRelease a session is in one table or
\* with one DB worker that moves it, whatever callbacks, DB workers and HeartBeat do in
\* between; before and after it is in none.
THEOREM OnePlaceHolds == Spec => []OnePlace
<1>1. Init => TypeOK /\ Counted /\ OnePlace
  BY TypeInit, OneInit
<1>2. TypeOK /\ Counted /\ OnePlace /\ [Next]_vars => (TypeOK /\ Counted /\ OnePlace)'
  BY TypeNext, OneNext
<1> QED
  BY <1>1, <1>2, PTL DEF Spec

-----------------------------------------------------------------------------
(* TokenStays *)

\* A token of session s is, or was, under the key of account a.
Has(s, a) == \E i \in 1 .. Len(tokens[a]) : tokens[a][i] = s

\* The session has been put into the auth table: it does not come to the wait table or
\* to a DB worker that moves it again.
Left(s) == /\ s \notin DOMAIN wait /\ s \in Sessions
           /\ \A d \in DBThreads : db[d].at = "putAuth" => db[d].own # s
           /\ net[s] \notin {"new", "accept"}

Single == \A a, b \in Accounts : \A i \in 1 .. Len(tokens[a]), j \in 1 .. Len(tokens[b]) :
            tokens[a][i] = tokens[b][j] => a = b /\ i = j

\* Who has a token has left the wait table.  So has a session whose token a DB worker
\* is about to write: it is the first, and no other worker is about to write one.
Writer(d) ==
  db[d].at = "redis" => /\ Left(db[d].own) /\ \A a \in Accounts : ~ Has(db[d].own, a)
                        /\ \A e \in DBThreads : db[e].at = "redis" /\ db[e].own = db[d].own => e = d

\* A request that is to be answered with success has its token.
Answer(d) == db[d].at = "OK" => Has(db[d].own, db[d].accountNo)

TokenInv ==
  /\ Single
  /\ \A a \in Accounts, s \in Sessions : Has(s, a) => Left(s)
  /\ \A d \in DBThreads : Writer(d)
  /\ \A d \in DBThreads : Answer(d)
  /\ \A s \in Sessions : \A a \in told[s] : Has(s, a)

LEMMA TokenInit == Init => TokenInv
<1> SUFFICES ASSUME Init PROVE TokenInv
  OBVIOUS
<1>1. \A a \in Accounts : tokens[a] = <<>>
  BY DEF Init
<1>2. \A a \in Accounts : 1 .. Len(tokens[a]) = {}
  BY <1>1
<1>3. \A d \in DBThreads : db[d].at = "GQCS"
  BY DEF Init, Idle
<1> QED
  BY <1>2, <1>3 DEF Init, TokenInv, Single, Has, Writer, Answer

\* The steps that write no token and give no session a place it left
LEMMA QuietTokens ==
  ASSUME TypeOK, TokenInv, tokens' = tokens,
         \A d \in DBThreads : db'[d].at \in {"redis", "OK"} => db'[d] = db[d],
         \A s \in Sessions : Left(s) => Left(s)',
         \A s \in Sessions : \A a \in told'[s] :
           a \in told[s] \/ \E d \in DBThreads : db[d].at = "OK" /\ db[d].own = s /\ db[d].accountNo = a
  PROVE  TokenInv'
<1>1. \A s, a : Has(s, a)' = Has(s, a)
  BY DEF Has
<1>2. Single'
  BY DEF Single, TokenInv
<1>3. \A a \in Accounts, s \in Sessions : Has(s, a)' => Left(s)'
  BY <1>1 DEF TokenInv
<1>4. ASSUME NEW d \in DBThreads PROVE Writer(d)'
  <2>1. SUFFICES ASSUME db'[d].at = "redis"
                 PROVE  /\ Left(db[d].own)' /\ \A a \in Accounts : ~ Has(db[d].own, a)'
                        /\ \A e \in DBThreads : db'[e].at = "redis" /\ db'[e].own = db[d].own => e = d
    BY DEF Writer, Left, Has
  <2>2. db'[d] = db[d]
    BY <2>1
  <2>3. Left(db[d].own) /\ db[d].own \in Sessions
    BY <2>1, <2>2 DEF TokenInv, Writer, Left
  <2>4. \A e \in DBThreads : db'[e].at = "redis" => db'[e] = db[e]
    OBVIOUS
  <2> QED
    BY <1>1, <2>1, <2>2, <2>3, <2>4 DEF TokenInv, Writer
<1>5. \A d \in DBThreads : Answer(d)'
  BY <1>1 DEF TokenInv, Answer
<1>6. \A s \in Sessions : \A a \in told'[s] : Has(s, a)'
  BY <1>1 DEF TokenInv, Answer
<1> QED
  BY <1>2, <1>3, <1>4, <1>5, <1>6 DEF TokenInv

\* The steps of other threads than DB workers
LEMMA SameTokens ==
  ASSUME TypeOK, TokenInv, UNCHANGED <<tokens, told, db>>,
         \A s \in Sessions : /\ s \in DOMAIN wait' => s \in DOMAIN wait \/ net[s] \in {"new", "accept"}
                             /\ net'[s] \in {"new", "accept"} => net[s] \in {"new", "accept"}
  PROVE  TokenInv'
<1>1. \A s \in Sessions : Left(s) => Left(s)'
  BY DEF Left
<1> QED
  BY <1>1, QuietTokens

LEMMA TokenCallback ==
  ASSUME TypeOK, TokenInv, NEW s \in Sessions, Callback(s) \/ Client(s)
  PROVE  TokenInv'
<1> USE DEF tables, queues, login, client, lan, Disconnect
<1>n. net \in [Sessions -> {"new", "accept", "open", "closed", "found", "missed", "released"}]
  BY DEF TypeOK
<1>1. CASE OnAccept(s)
  BY <1>1, <1>n, SameTokens DEF OnAccept
<1>2. CASE OnAcceptInsert(s)
  <2>1. /\ net[s] = "accept" /\ net' \in {net, [net EXCEPT ![s] = "open"]}
        /\ wait' \in {wait, Put(wait, s, accTime)}
        /\ UNCHANGED <<tokens, told, db>>
    BY <1>2 DEF OnAcceptInsert
  <2>2. DOMAIN wait' \subseteq DOMAIN wait \cup {s}
    BY <2>1 DEF Put
  <2> QED
    BY <2>1, <2>2, <1>n, SameTokens
<1>3. CASE Leave(s)
  BY <1>3, <1>n, SameTokens DEF Leave
<1>4. CASE \E kind \in Kinds : OnRecv(s, kind)
  <2>1. UNCHANGED <<wait, auth, db, net, tokens, told>>
    BY <1>4 DEF OnRecv
  <2> QED
    BY <2>1, SameTokens
<1>5. CASE OnReleaseWait(s)
  BY <1>5, <1>n, SameTokens DEF OnReleaseWait, Erase
<1>6. CASE OnReleaseAuth(s)
  BY <1>6, <1>n, SameTokens DEF OnReleaseAuth
<1> QED
  BY <1>1, <1>2, <1>3, <1>4, <1>5, <1>6 DEF Callback, Client

LEMMA TokenAuthThread ==
  ASSUME TypeOK, TokenInv, AuthThread
  PROVE  TokenInv'
<1> USE DEF tables, queues, login, client, lan
<1>1. UNCHANGED <<DOMAIN wait, DOMAIN auth, db, tokens, told>>
  BY DEF AuthThread, AuthGoesOn, AuthPop, REQ_LOGIN, REQ_ECHO, RES_ECHO, BadPacket, HeartBeatTime,
     HeartBeatWait, HeartBeatAuth, HeartBeat
<1>2. \A s \in Sessions : net'[s] \in {net[s], "closed"}
  BY DEF AuthThread, AuthGoesOn, AuthPop, REQ_LOGIN, REQ_ECHO, RES_ECHO, BadPacket, HeartBeatTime,
     HeartBeatWait, HeartBeatAuth, HeartBeat, Disconnect
<1> QED
  BY <1>1, <1>2, SameTokens

LEMMA TokenWorker ==
  ASSUME TypeOK, OneEach, TokenInv, NEW d \in DBThreads, DBworkerThread(d)
  PROVE  TokenInv'
<1> USE DEF tables, queues, login, client, lan
<1> DEFINE s == db[d].own
           no == db[d].accountNo
           At(l) == [at |-> l, own |-> s, accountNo |-> db[d].accountNo]
\* A step that comes neither to putAuth, redis nor OK
<1>a. ASSUME db'[d].at \notin {"putAuth", "redis", "OK"}, Moves(d), UNCHANGED <<wait, net, tokens>>,
             told' = told \/ (db[d].at = "OK" /\ told' = [told EXCEPT ![s] = @ \cup {no}])
      PROVE  TokenInv'
  <2>1. \A r \in Sessions : Left(r) => Left(r)'
    BY <1>a DEF Left, Moves
  <2>2. \A e \in DBThreads : db'[e].at \in {"redis", "OK"} => db'[e] = db[e]
    BY <1>a DEF Moves
  <2>3. \A r \in Sessions : \A a \in told'[r] :
          a \in told[r] \/ \E e \in DBThreads : db[e].at = "OK" /\ db[e].own = r /\ db[e].accountNo = a
    <3>1. told \in [Sessions -> SUBSET Accounts]
      BY DEF TypeOK
    <3>2. \A r \in Sessions : \A a \in told'[r] :
            a \in told[r] \/ (db[d].at = "OK" /\ db[d].own = r /\ db[d].accountNo = a)
      BY <1>a, <3>1
    <3> QED
      BY <3>2
  <2> QED
    BY <1>a, <2>1, <2>2, <2>3, QuietTokens
<1>1. CASE DBTake(d)
  BY <1>1, <1>a DEF DBTake, Moves, TypeOK, Idle
<1>2. CASE WaitDB(d)
  <2>1. PICK to \in Request : to.at \in {"takeWait", "failed"} /\ Moved(d, "WaitDB", to)
    BY <1>2, WorkerMoves
  <2> QED
    BY <1>2, <1>a, <2>1 DEF WaitDB, Moved
<1>3. CASE TakeFromWait(d)
  <2>1. /\ Moved(d, "takeWait", IF s \in DOMAIN wait THEN At("putAuth") ELSE Idle)
        /\ UNCHANGED <<tokens, told, net>>
        /\ wait' = IF s \in DOMAIN wait THEN Erase(wait, s) ELSE wait
    BY <1>3, WorkerMoves DEF TakeFromWait
  <2>2. CASE s \notin DOMAIN wait
    BY <2>1, <2>2, <1>a DEF Moved, Idle
  <2>3. CASE s \in DOMAIN wait
    <3>1. Moves(d) /\ db'[d].at = "putAuth" /\ db'[d].own = s
      BY <2>1, <2>3 DEF Moved
    <3>2. DOMAIN wait' = DOMAIN wait \ {s}
      BY <2>1, <2>3 DEF Erase
    <3>3. \A r \in Sessions : Left(r) => Left(r)'
      BY <2>1, <2>3, <3>1, <3>2 DEF Left, Moves
    <3>4. \A e \in DBThreads : db'[e].at \in {"redis", "OK"} => db'[e] = db[e]
      BY <3>1 DEF Moves
    <3> QED
      BY <2>1, <3>3, <3>4, QuietTokens
  <2> QED
    BY <2>2, <2>3
<1>4. CASE PutIntoAuth(d)
  <2>1. /\ Moved(d, "putAuth", IF s \in DOMAIN auth THEN Idle ELSE At("redis"))
        /\ UNCHANGED <<wait, net, tokens, told>>
    BY <1>4, WorkerMoves DEF PutIntoAuth
  <2>2. db[d].at = "putAuth" /\ s \in Sessions /\ Moves(d)
    BY <2>1 DEF Moved
  <2>3. Cardinality(Here("putAuth", s)) >= 1
    BY <2>2, HereStep DEF In
  <2>4. /\ s \notin DOMAIN auth /\ s \notin DOMAIN wait /\ net[s] \notin {"new", "accept"}
        /\ Cardinality(Here("putAuth", s)) = 1
    BY <2>2, <2>3 DEF OneEach, In, Stays
  <2>5. db'[d].at = "redis" /\ db'[d].own = s
    BY <2>1, <2>4 DEF Moved
  <2>6. ASSUME NEW r, r = s PROVE Here("putAuth", r)' = {}
    <3>1. IsFiniteSet(Here("putAuth", r)')
      BY LoginServerAssumption, FS_Subset DEF Here
    <3>2. Cardinality(Here("putAuth", r)') = 0
      BY <2>2, <2>4, <2>5, <2>6, HereStep DEF In
    <3> QED
      BY <3>1, <3>2, FS_EmptySet
  <2>7. ASSUME NEW r, r = s PROVE Left(r)'
    <3>1. \A e \in DBThreads : db'[e].at = "putAuth" => db'[e].own # r
      BY <2>6, <2>7 DEF Here
    <3> QED
      BY <2>1, <2>2, <2>4, <2>7, <3>1 DEF Left
  <2>8. \A r \in Sessions : Left(r) => Left(r)'
    BY <2>1, <2>2, <2>5 DEF Left, Moves
  <2>9. ~ Left(s)
    BY <2>2 DEF Left
  <2>10. \A r, a : Has(r, a)' = Has(r, a)
    BY <2>1 DEF Has
  <2>11. ASSUME NEW e \in DBThreads PROVE Writer(e)'
    <3>1. CASE e = d
      <4>1. \A a \in Accounts : ~ Has(s, a)
        BY <2>2, <2>9 DEF TokenInv
      <4>2. \A f \in DBThreads : db'[f].at = "redis" /\ db'[f].own = s => f = d
        BY <2>2, <2>9 DEF TokenInv, Writer, Moves
      <4>3. ASSUME NEW r, r = s PROVE Left(r)' /\ \A a \in Accounts : ~ Has(r, a)'
        BY <2>7, <2>10, <4>1, <4>3
      <4> QED
        BY <2>5, <3>1, <4>2, <4>3 DEF Writer, Left, Has
    <3>2. CASE e # d
      <4>1. db'[e] = db[e] /\ Writer(e)
        BY <2>2, <3>2 DEF Moves, TokenInv
      <4>2. ASSUME db[e].at = "redis"
            PROVE  /\ Left(db[e].own) /\ db[e].own \in Sessions /\ db[e].own # s
                   /\ \A a \in Accounts : ~ Has(db[e].own, a)'
                   /\ \A f \in DBThreads : db'[f].at = "redis" /\ db'[f].own = db[e].own => f = e
        <5>1. Left(db[e].own) /\ db[e].own \in Sessions /\ db[e].own # s
          BY <2>9, <4>1, <4>2 DEF Writer, Left
        <5>2. \A a \in Accounts : ~ Has(db[e].own, a)'
          BY <2>10, <4>1, <4>2 DEF Writer
        <5>3. \A f \in DBThreads : db'[f].at = "redis" /\ db'[f].own = db[e].own => f = e
          BY <2>2, <2>5, <4>1, <4>2, <5>1 DEF Writer, Moves
        <5> QED
          BY <5>1, <5>2, <5>3
      <4> QED
        BY <2>8, <4>1, <4>2 DEF Writer, Left, Has
    <3> QED
      BY <3>1, <3>2
  <2>12. \A e \in DBThreads : Answer(e)'
    BY <2>2, <2>5, <2>10 DEF TokenInv, Moves, Answer
  <2>13. Single'
    BY <2>1 DEF TokenInv, Single
  <2> QED
    BY <2>1, <2>8, <2>10, <2>11, <2>12, <2>13 DEF TokenInv
<1>5. CASE Redis(d)
  <2>1. /\ Moved(d, "redis", At("OK")) /\ no \in Accounts
        /\ tokens' = [tokens EXCEPT ![no] = Append(@, s)]
        /\ UNCHANGED <<wait, net, told>>
    BY <1>5, WorkerMoves DEF Redis
  <2>2. /\ db[d].at = "redis" /\ s \in Sessions /\ Moves(d)
        /\ db'[d].at = "OK" /\ db'[d].own = s /\ db'[d].accountNo = no
    BY <2>1 DEF Moved
  <2>3. tokens \in [Accounts -> Seq(Sessions)]
    BY DEF TypeOK
  <2>4. \A a \in Accounts : Len(tokens[a]) \in Nat
    BY <2>3
  <2>5. /\ Len(tokens'[no]) = Len(tokens[no]) + 1 /\ tokens'[no][Len(tokens[no]) + 1] = s
        /\ \A i \in 1 .. Len(tokens[no]) : tokens'[no][i] = tokens[no][i]
        /\ \A a \in Accounts : a # no => tokens'[a] = tokens[a]
    BY <2>1, <2>2, <2>3
  <2>6. /\ Left(s) /\ \A a \in Accounts : ~ Has(s, a)
        /\ \A e \in DBThreads : db[e].at = "redis" /\ db[e].own = s => e = d
    BY <2>2 DEF TokenInv, Writer
  \* The new token is the last one under its account's key, and no other is its session's.
  <2>7. \A a \in Accounts : \A i \in 1 .. Len(tokens'[a]) :
          \/ a = no /\ i = Len(tokens[no]) + 1 /\ tokens'[a][i] = s
          \/ i \in 1 .. Len(tokens[a]) /\ tokens'[a][i] = tokens[a][i] /\ tokens[a][i] # s
    <3>1. \A a \in Accounts : \A i \in 1 .. Len(tokens[a]) : tokens[a][i] # s
      BY <2>6 DEF Has
    <3>2. \A a \in Accounts : a # no => tokens'[a] = tokens[a]
      BY <2>5
    <3>3. \A i \in 1 .. Len(tokens'[no]) : i \in 1 .. Len(tokens[no]) \/ i = Len(tokens[no]) + 1
      <4>1. Len(tokens[no]) \in Nat /\ Len(tokens'[no]) = Len(tokens[no]) + 1
        BY <2>1, <2>4, <2>5
      <4> QED
        BY <4>1
    <3> QED
      BY <2>5, <3>1, <3>2, <3>3
  <2>8. Single'
    BY <2>7 DEF TokenInv, Single
  <2>9. ASSUME NEW r, NEW a, r = s, a = no PROVE Has(r, a)'
    <3>1. Len(tokens[no]) + 1 \in 1 .. Len(tokens'[no]) /\ tokens'[no][Len(tokens[no]) + 1] = s
      BY <2>1, <2>4, <2>5
    <3> QED
      BY <2>9, <3>1 DEF Has
  <2>10. \A r : \A a \in Accounts : Has(r, a)' => r = s \/ Has(r, a)
    BY <2>7 DEF Has
  <2>11. \A r : \A a \in Accounts : Has(r, a) => Has(r, a)'
    BY <2>4, <2>5 DEF Has
  <2>12. \A r \in Sessions : Left(r) => Left(r)'
    BY <2>1, <2>2 DEF Left, Moves
  <2>13. \A a \in Accounts, r \in Sessions : Has(r, a)' => Left(r)'
    BY <2>6, <2>10, <2>12 DEF TokenInv
  <2>14. ASSUME NEW e \in DBThreads PROVE Writer(e)'
    <3>1. CASE e = d
      BY <2>2, <3>1 DEF Writer
    <3>2. CASE e # d
      <4>1. db'[e] = db[e] /\ Writer(e)
        BY <2>2, <3>2 DEF Moves, TokenInv
      <4>2. ASSUME db[e].at = "redis"
            PROVE  /\ Left(db[e].own) /\ db[e].own \in Sessions /\ db[e].own # s
                   /\ \A a \in Accounts : ~ Has(db[e].own, a)'
                   /\ \A f \in DBThreads : db'[f].at = "redis" /\ db'[f].own = db[e].own => f = e
        <5>1. Left(db[e].own) /\ db[e].own \in Sessions /\ db[e].own # s
          BY <2>6, <3>2, <4>1, <4>2 DEF Writer, Left
        <5>2. \A a \in Accounts : ~ Has(db[e].own, a)'
          BY <2>10, <4>1, <4>2, <5>1 DEF Writer
        <5>3. \A f \in DBThreads : db'[f].at = "redis" /\ db'[f].own = db[e].own => f = e
          BY <2>2, <4>1, <4>2, <5>1 DEF Writer, Moves
        <5> QED
          BY <5>1, <5>2, <5>3
      <4> QED
        BY <2>12, <4>1, <4>2 DEF Writer, Left, Has
    <3> QED
      BY <3>1, <3>2
  <2>15. ASSUME NEW e \in DBThreads PROVE Answer(e)'
    <3>1. CASE e = d
      <4>1. \E r, a : r = s /\ a = no /\ Has(r, a)'
        BY <2>9
      <4> QED
        BY <2>2, <3>1, <4>1 DEF Answer, Has
    <3>2. CASE e # d
      <4>1. db'[e] = db[e] /\ Answer(e)
        BY <2>2, <3>2 DEF Moves, TokenInv
      <4>2. db[e].at = "OK" => db[e].accountNo \in Accounts
        <5>1. db[e] \in {Idle} \cup Request
          BY DEF TypeOK
        <5> QED
          BY <5>1 DEF Request, Idle
      <4> QED
        BY <2>11, <4>1, <4>2 DEF Answer
    <3> QED
      BY <3>1, <3>2
  <2>16. \A r \in Sessions : \A a \in told'[r] : Has(r, a)'
    BY <2>1, <2>11 DEF TokenInv, TypeOK
  <2> QED
    BY <2>8, <2>13, <2>14, <2>15, <2>16 DEF TokenInv
<1>6. CASE LoginFails(d)
  <2>1. Moved(d, "failed", IF s \in DOMAIN wait THEN At("RES_LOGIN") ELSE Idle)
    BY <1>6, WorkerMoves
  <2> QED
    BY <1>6, <1>a, <2>1 DEF LoginFails, Moved, Idle
<1>7. CASE RES_LOGIN(d)
  <2>1. Moved(d, db[d].at, Idle)
    BY <1>7, WorkerMoves
  <2> QED
    BY <1>7, <1>a, <2>1 DEF RES_LOGIN, Moved, Idle
<1> QED
  BY <1>1, <1>2, <1>3, <1>4, <1>5, <1>6, <1>7 DEF DBworkerThread

LEMMA TokenNext == TypeOK /\ OnePlace /\ TokenInv /\ [Next]_vars => TokenInv'
<1> SUFFICES ASSUME TypeOK, OnePlace, TokenInv, [Next]_vars PROVE TokenInv'
  OBVIOUS
<1> USE DEF tables, queues, login, client, lan
<1>1. CASE UNCHANGED vars
  BY <1>1, SameTokens DEF vars
<1>2. ASSUME Next PROVE TokenInv'
  <2>1. OneEach
    BY <1>2, OnePlaceIs DEF Next
  <2>2. CASE Tick
    BY <2>2, SameTokens DEF Tick
  <2> QED
    BY <1>2, <2>1, <2>2, TokenCallback, TokenAuthThread, TokenWorker DEF Next
<1> QED
  BY <1>1, <1>2

\* However many login requests of however many clients the DB workers handle at a time,
\* for one account or several, a session puts one token into Redis at most, and that of
\* a client that was told of its login was put under the key of the account it was told
\* of: nothing but the login of another session to that account replaces it.
THEOREM TokenStaysHolds == Spec => []TokenStays
<1>1. Init => TypeOK /\ Counted /\ OnePlace /\ TokenInv
  BY TypeInit, OneInit, TokenInit
<1>2. /\ TypeOK /\ Counted /\ OnePlace /\ TokenInv /\ [Next]_vars
      => (TypeOK /\ Counted /\ OnePlace /\ TokenInv)'
  BY TypeNext, OneNext, TokenNext
<1>3. TokenInv => TokenStays
  BY DEF TokenInv, Single, Has, TokenStays
<1> QED
  BY <1>1, <1>2, <1>3, PTL DEF Spec

-----------------------------------------------------------------------------
(* PatientIsSafe: a packet under way is in one place *)

\* No element of the sequence is in X; one is, and it is in Y.
None(q, X)   == \A i \in 1 .. Len(q) : q[i] \notin X
One(q, X, Y) == \E i \in 1 .. Len(q) : q[i] \in Y /\ \A j \in 1 .. Len(q) : j # i => q[j] \notin X

LEMMA OneInsert ==
  ASSUME NEW S, NEW q \in Seq(S), NEW e \in S, NEW X, NEW Y, NEW k \in 1 .. Len(q) + 1
  PROVE  LET r == SeqExt!InsertAt(q, k, e) IN
         /\ None(q, X) /\ e \notin X => None(r, X)
         /\ One(q, X, Y) /\ e \notin X => One(r, X, Y)
         /\ None(q, X) /\ e \in Y => One(r, X, Y)
<1>r. PICK r \in Seq(S) :
        /\ r = SeqExt!InsertAt(q, k, e) /\ Len(r) = Len(q) + 1
        /\ \A i \in 1 .. Len(q) + 1 : r[i] = IF i < k THEN q[i] ELSE IF i = k THEN e ELSE q[i - 1]
  BY InsertFacts
<1>n. Len(q) \in Nat
  OBVIOUS
<1>2. \A i \in 1 .. Len(q) + 1 : \/ i < k /\ i \in 1 .. Len(q)
                                 \/ i = k
                                 \/ i > k /\ i - 1 \in 1 .. Len(q)
  BY <1>n
<1>3. ASSUME One(q, X, Y), e \notin X PROVE One(r, X, Y)
  <2>1. PICK i \in 1 .. Len(q) : q[i] \in Y /\ \A j \in 1 .. Len(q) : j # i => q[j] \notin X
    BY <1>3 DEF One
  <2>2. PICK m \in 1 .. Len(q) + 1 : m = IF i < k THEN i ELSE i + 1
    BY <1>n
  <2>3. r[m] \in Y
    BY <1>r, <1>n, <2>1, <2>2
  <2>4. ASSUME NEW j \in 1 .. Len(q) + 1, j # m PROVE r[j] \notin X
    <3>1. CASE j < k /\ j \in 1 .. Len(q)
      BY <1>r, <1>n, <2>1, <2>2, <2>4, <3>1
    <3>2. CASE j = k
      BY <1>r, <1>3, <3>2
    <3>3. CASE j > k /\ j - 1 \in 1 .. Len(q)
      <4>1. r[j] = q[j - 1]
        BY <1>r, <1>n, <3>3
      <4>2. j - 1 # i
        BY <1>n, <2>2, <2>4, <3>3
      <4> QED
        BY <2>1, <3>3, <4>1, <4>2
    <3> QED
      BY <1>2, <3>1, <3>2, <3>3
  <2> QED
    BY <1>r, <2>3, <2>4 DEF One
<1>4. ASSUME None(q, X), e \in Y PROVE One(r, X, Y)
  <2>1. k \in 1 .. Len(q) + 1 /\ r[k] \in Y
    BY <1>r, <1>4
  <2>2. ASSUME NEW j \in 1 .. Len(q) + 1, j # k PROVE r[j] \notin X
    <3>1. CASE j < k /\ j \in 1 .. Len(q)
      BY <1>r, <1>4, <3>1 DEF None
    <3>2. CASE j > k /\ j - 1 \in 1 .. Len(q)
      <4>1. r[j] = q[j - 1]
        BY <1>r, <1>n, <3>2
      <4> QED
        BY <1>4, <3>2, <4>1 DEF None
    <3> QED
      BY <1>2, <2>2, <3>1, <3>2
  <2> QED
    BY <1>r, <2>1, <2>2 DEF One
<1>5. ASSUME None(q, X), e \notin X PROVE None(r, X)
  <2>1. ASSUME NEW j \in 1 .. Len(q) + 1 PROVE r[j] \notin X
    <3>1. CASE j < k /\ j \in 1 .. Len(q)
      BY <1>r, <1>5, <3>1 DEF None
    <3>2. CASE j = k
      BY <1>r, <1>5, <3>2
    <3>3. CASE j > k /\ j - 1 \in 1 .. Len(q)
      <4>1. r[j] = q[j - 1]
        BY <1>r, <1>n, <3>3
      <4> QED
        BY <1>5, <3>3, <4>1 DEF None
    <3> QED
      BY <1>2, <3>1, <3>2, <3>3
  <2> QED
    BY <1>r, <2>1 DEF None
<1> QED
  BY <1>r, <1>3, <1>4, <1>5

LEMMA OneAppend ==
  ASSUME NEW S, NEW q \in Seq(S), NEW e \in S, NEW X, NEW Y
  PROVE  /\ None(q, X) /\ e \notin X => None(Append(q, e), X)
         /\ None(q, X) /\ e \in Y => One(Append(q, e), X, Y)
         /\ One(q, X, Y) /\ e \notin X => One(Append(q, e), X, Y)
<1>1. /\ Len(Append(q, e)) = Len(q) + 1 /\ Len(q) \in Nat
      /\ \A i \in 1 .. Len(q) + 1 : Append(q, e)[i] = IF i = Len(q) + 1 THEN e ELSE q[i]
  OBVIOUS
<1>2. \A i \in 1 .. Len(q) + 1 : i = Len(q) + 1 \/ i \in 1 .. Len(q)
  BY <1>1
<1>3. ASSUME One(q, X, Y), e \notin X PROVE One(Append(q, e), X, Y)
  <2>1. PICK i \in 1 .. Len(q) : q[i] \in Y /\ \A j \in 1 .. Len(q) : j # i => q[j] \notin X
    BY <1>3 DEF One
  <2>2. i \in 1 .. Len(q) + 1 /\ Append(q, e)[i] \in Y
    BY <1>1, <2>1
  <2>3. \A j \in 1 .. Len(q) + 1 : j # i => Append(q, e)[j] \notin X
    BY <1>1, <1>2, <1>3, <2>1
  <2> QED
    BY <1>1, <2>2, <2>3 DEF One
<1>4. ASSUME None(q, X), e \in Y PROVE One(Append(q, e), X, Y)
  <2>1. Len(q) + 1 \in 1 .. Len(q) + 1 /\ Append(q, e)[Len(q) + 1] \in Y
    BY <1>1, <1>4
  <2>2. \A j \in 1 .. Len(q) + 1 : j # Len(q) + 1 => Append(q, e)[j] \notin X
    BY <1>1, <1>2, <1>4 DEF None
  <2> QED
    BY <1>1, <2>1, <2>2 DEF One
<1>5. ASSUME None(q, X), e \notin X PROVE None(Append(q, e), X)
  BY <1>1, <1>2, <1>5 DEF None
<1> QED
  BY <1>3, <1>4, <1>5

LEMMA OneTail ==
  ASSUME NEW S, NEW q \in Seq(S), q # <<>>, NEW X, NEW Y \in SUBSET X
  PROVE  /\ None(q, X) => Head(q) \notin X /\ None(Tail(q), X)
         /\ One(q, X, Y) /\ Head(q) \notin X => One(Tail(q), X, Y)
         /\ One(q, X, Y) /\ Head(q) \in X => Head(q) \in Y /\ None(Tail(q), X)
<1>1. /\ Head(q) = q[1] /\ Len(q) \in Nat \ {0} /\ Len(Tail(q)) = Len(q) - 1
      /\ \A i \in 1 .. Len(q) - 1 : Tail(q)[i] = q[i + 1]
  OBVIOUS
<1>2. 1 \in 1 .. Len(q) /\ \A i \in 1 .. Len(q) - 1 : i + 1 \in 1 .. Len(q) /\ i + 1 # 1
  BY <1>1
<1>3. ASSUME None(q, X) PROVE Head(q) \notin X /\ None(Tail(q), X)
  BY <1>1, <1>2, <1>3 DEF None
<1>4. ASSUME One(q, X, Y) PROVE IF Head(q) \in X THEN Head(q) \in Y /\ None(Tail(q), X)
                                                 ELSE One(Tail(q), X, Y)
  <2>1. PICK i \in 1 .. Len(q) : q[i] \in Y /\ \A j \in 1 .. Len(q) : j # i => q[j] \notin X
    BY <1>4 DEF One
  <2>2. CASE i = 1
    <3>1. Head(q) \in X /\ Head(q) \in Y
      BY <1>1, <2>1, <2>2
    <3>2. None(Tail(q), X)
      BY <1>1, <1>2, <2>1, <2>2 DEF None
    <3> QED
      BY <3>1, <3>2
  <2>3. CASE i # 1
    <3>1. Head(q) \notin X
      BY <1>1, <1>2, <2>1, <2>3
    <3>2. i - 1 \in 1 .. Len(Tail(q)) /\ Tail(q)[i - 1] \in Y
      BY <1>1, <2>1, <2>3
    <3>3. \A j \in 1 .. Len(Tail(q)) : j # i - 1 => Tail(q)[j] \notin X
      BY <1>1, <1>2, <2>1
    <3> QED
      BY <3>1, <3>2, <3>3 DEF One
  <2> QED
    BY <2>2, <2>3
<1> QED
  BY <1>3, <1>4

\* Where a packet of session s is, or what AuthThread and a DB worker made of it
Own(s)  == {m \in Packet : m.own = s}
Good(s) == {m \in Packet : m.own = s /\ m.kind # "other"}

NotQueued(s)  == None(_AuthThreadQueue, Own(s))
Queued(s)     == One(_AuthThreadQueue, Own(s), Good(s))
NotHandled(s) == /\ ath.at = "PacketProc" => ath.msg \notin Own(s)
                 /\ ath.at = "RES_ECHO" => ath.own # s
Handled(s)    == \/ ath.at = "PacketProc" /\ ath.msg \in Good(s)
                 \/ ath.at = "RES_ECHO" /\ ath.own = s
NotPosted(s)  == None(dbIocp, {s})
Posted(s)     == One(dbIocp, {s}, {s})
NotWorked(s)  == \A d \in DBThreads : db[d] # Idle => db[d].own # s
WorkedBy(d, s) == /\ db[d] # Idle /\ db[d].own = s
                  /\ \A e \in DBThreads : e # d /\ db[e] # Idle => db[e].own # s

\* Labels of a DB worker that has not moved its session
Before == {"WaitDB", "takeWait", "failed", "RES_LOGIN"}

\* A patient client has one packet under way and an open session, or no packet.
\* Until a DB worker moves it, its session is in the wait table.
Asks(s) ==
  /\ net[s] = "open" /\ nSent[s] = answers[s] + 1 /\ told[s] = {}
  /\ \/ Queued(s) /\ NotHandled(s) /\ NotPosted(s) /\ NotWorked(s) /\ s \in DOMAIN wait
     \/ NotQueued(s) /\ Handled(s) /\ NotPosted(s) /\ NotWorked(s) /\ s \in DOMAIN wait
     \/ NotQueued(s) /\ NotHandled(s) /\ Posted(s) /\ NotWorked(s) /\ s \in DOMAIN wait
     \/ /\ NotQueued(s) /\ NotHandled(s) /\ NotPosted(s)
        /\ \E d \in DBThreads : WorkedBy(d, s) /\ (db[d].at \in Before => s \in DOMAIN wait)

Calm(s) ==
  /\ nSent[s] = answers[s]
  /\ NotQueued(s) /\ NotHandled(s) /\ NotPosted(s) /\ NotWorked(s)
  /\ net[s] = "open" /\ told[s] = {} => s \in DOMAIN wait
  /\ net[s] = "missed" => s \in DOMAIN auth

InTurn(s) == Calm(s) \/ Asks(s)
Patience  == \A s \in Patient \ expired : InTurn(s)

\* What a step for another session leaves as it was
QueueKept(s)  == (NotQueued(s) => NotQueued(s)') /\ (Queued(s) => Queued(s)')
AuthKept(s)   == (NotHandled(s) => NotHandled(s)') /\ (Handled(s) => Handled(s)')
PostKept(s)   == (NotPosted(s) => NotPosted(s)') /\ (Posted(s) => Posted(s)')
WorkKept(s)   == /\ NotWorked(s) => NotWorked(s)'
                 /\ \A d \in DBThreads : WorkedBy(d, s) => WorkedBy(d, s)' /\ db'[d].at = db[d].at
ClientKept(s) == nSent'[s] = nSent[s] /\ answers'[s] = answers[s] /\ told'[s] = told[s]
TableKept(s)  == /\ net'[s] = net[s] /\ (s \in DOMAIN wait => s \in DOMAIN wait')
                 /\ s \in DOMAIN auth => s \in DOMAIN auth'

LEMMA KeptInTurn ==
  ASSUME NEW s, InTurn(s), QueueKept(s), AuthKept(s), PostKept(s), WorkKept(s), ClientKept(s),
         TableKept(s)
  PROVE  InTurn(s)'
<1>1. CASE Calm(s)
  <2>1. Calm(s)'
    BY <1>1 DEF Calm, QueueKept, AuthKept, PostKept, WorkKept, ClientKept, TableKept
  <2> QED
    BY <2>1 DEF InTurn
<1>2. CASE Asks(s)
  <2>1. Asks(s)'
    BY <1>2 DEF Asks, QueueKept, AuthKept, PostKept, WorkKept, ClientKept, TableKept
  <2> QED
    BY <2>1 DEF InTurn
<1> QED
  BY <1>1, <1>2 DEF InTurn

LEMMA SameKept ==
  ASSUME NEW s
  PROVE  /\ _AuthThreadQueue' = _AuthThreadQueue => QueueKept(s)
         /\ ath' = ath => AuthKept(s)
         /\ dbIocp' = dbIocp => PostKept(s)
         /\ db' = db => WorkKept(s)
         /\ UNCHANGED <<nSent, answers, told>> => ClientKept(s)
BY DEF QueueKept, AuthKept, PostKept, WorkKept, ClientKept, NotQueued, Queued, NotHandled, Handled,
       NotPosted, Posted, NotWorked, WorkedBy

\* A __debugbreak of this step is not for session s.
Unhurt(s) == broken' = broken \/ broken'.own # s

\* A packet of session t is pushed.
LEMMA QueuePush ==
  ASSUME TypeOK, NEW s \in Sessions, NEW t \in Sessions, NEW kind \in Kinds,
         NEW i \in 1 .. Len(_AuthThreadQueue) + 1,
         _AuthThreadQueue' = SeqExt!InsertAt(_AuthThreadQueue, i, [own |-> t, kind |-> kind])
  PROVE  /\ s # t => QueueKept(s)
         /\ s = t /\ kind # "other" /\ NotQueued(s) => Queued(s)'
<1>1. PICK m : m = [own |-> t, kind |-> kind]
  OBVIOUS
<1>2. m \in Packet /\ m.own = t /\ m.kind = kind
  BY <1>1 DEF Packet
<1>3. _AuthThreadQueue \in Seq(Packet) /\ _AuthThreadQueue' = SeqExt!InsertAt(_AuthThreadQueue, i, m)
  BY <1>1 DEF TypeOK
<1>4. (s # t => m \notin Own(s)) /\ (s = t /\ kind # "other" => m \in Good(s))
  BY <1>2 DEF Own, Good
<1>5. Own(s)' = Own(s) /\ Good(s)' = Good(s)
  BY DEF Own, Good
<1> QED
  BY <1>2, <1>3, <1>4, <1>5, OneInsert DEF QueueKept, NotQueued, Queued

\* Who is in turn and begins a release or sends has nothing under way.
LEMMA CalmIs ==
  ASSUME TypeOK, NEW s \in Sessions, InTurn(s), net[s] # "open" \/ nSent[s] = answers[s]
  PROVE  Calm(s)
<1>1. answers[s] \in Nat
  BY DEF TypeOK
<1> QED
  BY <1>1 DEF InTurn, Asks

LEMMA PatientCallback ==
  ASSUME TypeOK, OneEach, NEW s \in Sessions, s \in Patient, InTurn(s),
         NEW t \in Sessions, Callback(t) \/ Client(t)
  PROVE  InTurn(s)' /\ Unhurt(s)
<1> USE DEF tables, queues, login, client, lan, Disconnect, Break
<1>n. net \in [Sessions -> {"new", "accept", "open", "closed", "found", "missed", "released"}]
  BY DEF TypeOK
\* The queues and the threads are left alone.
<1>q. ASSUME UNCHANGED <<_AuthThreadQueue, ath, dbIocp, db, nSent, answers, told>>
      PROVE  /\ QueueKept(s) /\ AuthKept(s) /\ PostKept(s) /\ WorkKept(s) /\ ClientKept(s)
             /\ NotQueued(s) <=> NotQueued(s)'
             /\ NotHandled(s) <=> NotHandled(s)'
             /\ NotPosted(s) <=> NotPosted(s)'
             /\ NotWorked(s) <=> NotWorked(s)'
  BY <1>q, SameKept DEF NotQueued, NotHandled, NotPosted, NotWorked
<1>1. CASE OnAccept(t)
  <2>1. UNCHANGED <<_AuthThreadQueue, ath, dbIocp, db, nSent, answers, told, wait, auth, broken>>
        /\ net' = [net EXCEPT ![t] = "accept"] /\ net[t] = "new"
    BY <1>1 DEF OnAccept
  <2>2. CASE s # t
    BY <1>n, <1>q, <2>1, <2>2, KeptInTurn DEF TableKept, Unhurt
  <2>3. CASE s = t
    <3>1. Calm(s)
      BY <2>1, <2>3, CalmIs
    <3>2. Calm(s)'
      BY <1>n, <1>q, <2>1, <2>3, <3>1 DEF Calm
    <3> QED
      BY <2>1, <3>2 DEF InTurn, Unhurt
  <2> QED
    BY <2>2, <2>3
<1>2. CASE OnAcceptInsert(t)
  <2>1. UNCHANGED <<_AuthThreadQueue, ath, dbIocp, db, nSent, answers, told, auth>>
        /\ net[t] = "accept"
    BY <1>2 DEF OnAcceptInsert
  <2>2. t \notin DOMAIN wait
    BY <2>1, HereFinite DEF OneEach, In, Stays
  <2>3. wait' = Put(wait, t, accTime) /\ net' = [net EXCEPT ![t] = "open"] /\ broken' = broken
    BY <1>2, <2>2 DEF OnAcceptInsert
  <2>4. DOMAIN wait' = DOMAIN wait \cup {t}
    BY <2>3 DEF Put
  <2>5. CASE s # t
    BY <1>n, <1>q, <2>1, <2>3, <2>4, <2>5, KeptInTurn DEF TableKept, Unhurt
  <2>6. CASE s = t
    <3>1. Calm(s)
      BY <2>1, <2>6, CalmIs
    <3>2. Calm(s)'
      BY <1>n, <1>q, <2>1, <2>3, <2>4, <2>6, <3>1 DEF Calm
    <3> QED
      BY <2>3, <3>2 DEF InTurn, Unhurt
  <2> QED
    BY <2>5, <2>6
<1>3. CASE Leave(t)
  <2>1. UNCHANGED <<_AuthThreadQueue, ath, dbIocp, db, nSent, answers, told, wait, auth, broken>>
        /\ (t \in Patient => nSent[t] = answers[t])
        /\ \A r \in Sessions : net'[r] = IF r = t /\ net[r] = "open" THEN "closed" ELSE net[r]
    BY <1>3 DEF Leave
  <2>2. CASE s # t
    BY <1>q, <2>1, <2>2, KeptInTurn DEF TableKept, Unhurt
  <2>3. CASE s = t
    <3>1. Calm(s)
      BY <2>1, <2>3, CalmIs
    <3>2. Calm(s)'
      BY <1>n, <1>q, <2>1, <2>3, <3>1 DEF Calm
    <3> QED
      BY <2>1, <3>2 DEF InTurn, Unhurt
  <2> QED
    BY <2>2, <2>3
<1>4. ASSUME NEW kind \in Kinds, OnRecv(t, kind) PROVE InTurn(s)' /\ Unhurt(s)
  <2>1. /\ UNCHANGED <<ath, dbIocp, db, answers, told, wait, auth, net, broken>>
        /\ MaySend(t) /\ (t \in Patient => kind # "other")
        /\ nSent' = [nSent EXCEPT ![t] = @ + 1]
    BY <1>4 DEF OnRecv
  <2>i. PICK i \in 1 .. Len(_AuthThreadQueue) + 1 :
          _AuthThreadQueue' = SeqExt!InsertAt(_AuthThreadQueue, i, [own |-> t, kind |-> kind])
    BY <1>4 DEF OnRecv
  <2>2. AuthKept(s) /\ PostKept(s) /\ WorkKept(s) /\ TableKept(s) /\ Unhurt(s)
    BY <2>1, SameKept DEF TableKept, Unhurt
  <2>3. CASE s # t
    <3>1. QueueKept(s)
      BY <2>i, <2>3, QueuePush
    <3>2. ClientKept(s)
      BY <2>1, <2>3 DEF ClientKept, TypeOK
    <3> QED
      BY <2>2, <3>1, <3>2, KeptInTurn
  <2>4. CASE s = t
    <3>1. net[s] = "open" /\ nSent[s] = answers[s] /\ told[s] = {} /\ kind # "other"
      BY <2>1, <2>4 DEF MaySend
    <3>2. Calm(s)
      BY <3>1, CalmIs
    <3>3. Queued(s)'
      BY <2>i, <2>4, <3>1, <3>2, QueuePush DEF Calm
    <3>4. nSent'[s] = answers'[s] + 1
      BY <2>1, <2>4, <3>1 DEF TypeOK
    <3>5. Asks(s)'
      BY <2>1, <2>2, <3>1, <3>2, <3>3, <3>4 DEF Asks, Calm, AuthKept, PostKept, WorkKept
    <3> QED
      BY <2>2, <3>5 DEF InTurn
  <2> QED
    BY <2>3, <2>4
<1>5. CASE OnReleaseWait(t)
  <2>1. UNCHANGED <<_AuthThreadQueue, ath, dbIocp, db, nSent, answers, told, auth, broken>>
        /\ net[t] = "closed" /\ wait' = Erase(wait, t)
        /\ net' = [net EXCEPT ![t] = IF t \in DOMAIN wait THEN "found" ELSE "missed"]
    BY <1>5 DEF OnReleaseWait
  <2>2. DOMAIN wait' = DOMAIN wait \ {t}
    BY <2>1 DEF Erase
  <2>3. CASE s # t
    BY <1>n, <1>q, <2>1, <2>2, <2>3, KeptInTurn DEF TableKept, Unhurt
  <2>4. CASE s = t
    <3>1. Calm(s)
      BY <2>1, <2>4, CalmIs
    <3>2. Here("putAuth", s) = {}
      BY <3>1 DEF Calm, NotWorked, Here, Idle
    <3>3. s \notin DOMAIN wait => s \in DOMAIN auth
      BY <2>1, <2>4, <3>2, HereFinite DEF OneEach, In, Stays
    <3>4. net'[s] = IF s \in DOMAIN wait THEN "found" ELSE "missed"
      BY <1>n, <2>1, <2>4
    <3>5. Calm(s)'
      BY <1>q, <2>1, <3>1, <3>3, <3>4 DEF Calm
    <3> QED
      BY <2>1, <3>5 DEF InTurn, Unhurt
  <2> QED
    BY <2>3, <2>4
<1>6. CASE OnReleaseAuth(t)
  <2>1. UNCHANGED <<_AuthThreadQueue, ath, dbIocp, db, nSent, answers, told, wait>>
        /\ net[t] \in {"found", "missed"} /\ auth' = Erase(auth, t)
        /\ net' = [net EXCEPT ![t] = "released"]
    BY <1>6 DEF OnReleaseAuth
  <2>2. DOMAIN auth' = DOMAIN auth \ {t}
    BY <2>1 DEF Erase
  <2>3. CASE s # t
    <3>1. Unhurt(s)
      BY <1>6, <2>3 DEF OnReleaseAuth, Unhurt
    <3> QED
      BY <1>n, <1>q, <2>1, <2>2, <2>3, <3>1, KeptInTurn DEF TableKept
  <2>4. CASE s = t
    <3>1. Calm(s)
      BY <2>1, <2>4, CalmIs
    <3>2. broken' = broken
      BY <1>6, <2>4, <3>1 DEF OnReleaseAuth, Calm
    <3>3. Calm(s)'
      BY <1>n, <1>q, <2>1, <2>4, <3>1 DEF Calm
    <3> QED
      BY <3>2, <3>3 DEF InTurn, Unhurt
  <2> QED
    BY <2>3, <2>4
<1> QED
  BY <1>1, <1>2, <1>3, <1>4, <1>5, <1>6 DEF Callback, Client


\* AuthThread has a packet of s in hand, and it is the one s waits for.
InHand(s) ==
  /\ net[s] = "open" /\ nSent[s] = answers[s] + 1 /\ told[s] = {}
  /\ NotQueued(s) /\ Handled(s) /\ NotPosted(s) /\ NotWorked(s) /\ s \in DOMAIN wait

LEMMA InHandIs ==
  ASSUME TypeOK, NEW s \in Sessions, InTurn(s),
         \/ ath.at = "PacketProc" /\ ath.msg.own = s
         \/ ath.at = "RES_ECHO" /\ ath.own = s
  PROVE  /\ InHand(s)
         /\ ath.at = "PacketProc" => ath.msg.kind # "other"
<1>1. ath.at = "PacketProc" => ath.msg \in Packet
  BY DEF TypeOK, Waits
<1>2. ~ NotHandled(s)
  BY <1>1 DEF NotHandled, Own
<1>3. InHand(s)
  BY <1>2 DEF InTurn, Calm, Asks, InHand
<1> QED
  BY <1>3 DEF InHand, Handled, Good

\* A step of AuthThread that takes no packet and finishes none of session s
LEMMA OtherInHand ==
  ASSUME TypeOK, NEW s \in Sessions,
         ath.at = "PacketProc" => ath.msg.own # s,
         ath.at = "RES_ECHO" => ath.own # s,
         ath'.at # "PacketProc", ath'.at = "RES_ECHO" => ath'.own # s
  PROVE  AuthKept(s)
BY DEF AuthKept, NotHandled, Handled, Own, Good

LEMMA PatientAuthThread ==
  ASSUME TypeOK, NEW s \in Sessions, s \in Patient, InTurn(s), s \notin expired', AuthThread
  PROVE  InTurn(s)' /\ Unhurt(s)
<1> USE DEF tables, queues, login, client, lan, Handles
<1>n. net \in [Sessions -> {"new", "accept", "open", "closed", "found", "missed", "released"}]
  BY DEF TypeOK
<1>k. ath.at = "PacketProc" => ath.msg \in Packet /\ ath.msg.own \in Sessions
  BY DEF TypeOK, Packet, Waits
\* Nothing but AuthThread's own work
<1>a. ASSUME AuthKept(s), net'[s] = net[s],
             UNCHANGED <<_AuthThreadQueue, dbIocp, db, nSent, answers, told, DOMAIN wait, auth, broken>>
      PROVE  InTurn(s)' /\ Unhurt(s)
  BY <1>a, SameKept, KeptInTurn DEF TableKept, Unhurt
<1>1. CASE AuthPop
  <2>1. /\ ath = Waits /\ _AuthThreadQueue # <<>> /\ _AuthThreadQueue \in Seq(Packet)
        /\ ath'.at = "PacketProc" /\ ath'.msg = Head(_AuthThreadQueue)
        /\ _AuthThreadQueue' = Tail(_AuthThreadQueue)
        /\ UNCHANGED <<dbIocp, db, nSent, answers, told, wait, auth, net, broken>>
    BY <1>1 DEF AuthPop, TypeOK
  <2>2. PostKept(s) /\ WorkKept(s) /\ ClientKept(s) /\ TableKept(s) /\ Unhurt(s)
    BY <2>1, SameKept DEF TableKept, Unhurt
  <2>3. Own(s)' = Own(s) /\ Good(s)' = Good(s) /\ Good(s) \subseteq Own(s)
    BY DEF Own, Good
  <2>4. NotHandled(s) /\ ~ Handled(s)
    BY <2>1 DEF NotHandled, Handled, Waits
  <2>5. CASE Head(_AuthThreadQueue) \notin Own(s)
    <3>1. QueueKept(s)
      BY <2>1, <2>3, <2>5, OneTail DEF QueueKept, NotQueued, Queued
    <3>2. AuthKept(s)
      BY <2>1, <2>3, <2>4, <2>5 DEF AuthKept, NotHandled
    <3> QED
      BY <2>2, <3>1, <3>2, KeptInTurn
  <2>6. CASE Head(_AuthThreadQueue) \in Own(s)
    <3>1. ~ NotQueued(s)
      BY <2>1, <2>3, <2>6, OneTail DEF NotQueued
    <3>2. /\ net[s] = "open" /\ nSent[s] = answers[s] + 1 /\ told[s] = {}
          /\ Queued(s) /\ NotPosted(s) /\ NotWorked(s) /\ s \in DOMAIN wait
      BY <2>4, <3>1 DEF InTurn, Calm, Asks
    <3>3. Head(_AuthThreadQueue) \in Good(s) /\ NotQueued(s)'
      BY <2>1, <2>3, <2>6, <3>2, OneTail DEF NotQueued, Queued
    <3>4. Handled(s)'
      BY <2>1, <2>3, <3>3 DEF Handled
    <3>5. Asks(s)'
      BY <2>1, <2>2, <3>2, <3>3, <3>4 DEF Asks, PostKept, WorkKept
    <3> QED
      BY <2>2, <3>5 DEF InTurn
  <2> QED
    BY <2>5, <2>6
<1>2. CASE REQ_LOGIN
  <2>1. PICK t \in Sessions : t = ath.msg.own
    BY <1>2, <1>k DEF REQ_LOGIN
  <2>2. /\ ath.at = "PacketProc" /\ ath' = Waits /\ dbIocp \in Seq(Sessions)
        /\ dbIocp' = Append(dbIocp, t)
        /\ UNCHANGED <<_AuthThreadQueue, db, nSent, answers, told, wait, auth, net, broken>>
    BY <1>2, <2>1 DEF REQ_LOGIN, TypeOK
  <2>3. QueueKept(s) /\ WorkKept(s) /\ ClientKept(s) /\ TableKept(s) /\ Unhurt(s)
    BY <2>2, SameKept DEF TableKept, Unhurt
  <2>4. NotHandled(s)'
    BY <2>2 DEF NotHandled, Waits
  <2>5. CASE t # s
    <3>1. AuthKept(s)
      BY <2>1, <2>2, <2>5, OtherInHand DEF Waits
    <3>2. PostKept(s)
      BY <2>2, <2>5, OneAppend DEF PostKept, NotPosted, Posted
    <3> QED
      BY <2>3, <3>1, <3>2, KeptInTurn
  <2>6. CASE t = s
    <3>1. InHand(s)
      BY <2>1, <2>2, <2>6, InHandIs
    <3>2. Posted(s)'
      BY <2>2, <2>6, <3>1, OneAppend DEF InHand, NotPosted, Posted
    <3>3. Asks(s)'
      BY <2>2, <2>3, <2>4, <3>1, <3>2 DEF Asks, InHand, QueueKept, WorkKept
    <3> QED
      BY <2>3, <3>3 DEF InTurn
  <2> QED
    BY <2>5, <2>6
<1>3. CASE REQ_ECHO
  <2>1. PICK t \in Sessions : t = ath.msg.own
    BY <1>3, <1>k DEF REQ_ECHO
  <2>2. /\ ath.at = "PacketProc"
        /\ UNCHANGED <<_AuthThreadQueue, dbIocp, db, nSent, answers, told, DOMAIN wait, auth, net>>
    BY <1>3 DEF REQ_ECHO
  <2>3. CASE t # s
    <3>1. AuthKept(s)
      <4>1. ath' = ath \/ (ath'.at = "RES_ECHO" /\ ath'.own = t)
        BY <1>3, <2>1 DEF REQ_ECHO
      <4> QED
        BY <2>1, <2>2, <2>3, <4>1, OtherInHand, SameKept
    <3>2. Unhurt(s)
      BY <1>3, <2>1, <2>3 DEF REQ_ECHO, Unhurt, Break
    <3>3. QueueKept(s) /\ PostKept(s) /\ WorkKept(s) /\ ClientKept(s) /\ TableKept(s)
      BY <2>2, SameKept DEF TableKept
    <3> QED
      BY <3>1, <3>2, <3>3, KeptInTurn
  <2>4. CASE t = s
    <3>1. InHand(s)
      BY <2>1, <2>2, <2>4, InHandIs
    <3>2. ath'.at = "RES_ECHO" /\ ath'.own = s /\ broken' = broken
      BY <1>3, <2>1, <2>4, <3>1 DEF REQ_ECHO, InHand
    <3>3. AuthKept(s)
      <4>1. ~ NotHandled(s)
        BY <1>k, <2>1, <2>2, <2>4 DEF NotHandled, Own
      <4>2. Handled(s)'
        BY <3>2 DEF Handled
      <4> QED
        BY <4>1, <4>2 DEF AuthKept
    <3> QED
      BY <1>a, <2>2, <3>2, <3>3
  <2> QED
    BY <2>3, <2>4
<1>4. CASE RES_ECHO
  <2>1. PICK t : t = ath.own
    OBVIOUS
  <2>2. /\ ath.at = "RES_ECHO" /\ ath' = Waits
        /\ answers' = [answers EXCEPT ![t] = IF net[t] \in {"open", "closed"} THEN @ + 1 ELSE @]
        /\ UNCHANGED <<_AuthThreadQueue, dbIocp, db, nSent, told, wait, auth, net, broken>>
    BY <1>4, <2>1 DEF RES_ECHO, SendPacket
  <2>3. QueueKept(s) /\ PostKept(s) /\ WorkKept(s) /\ TableKept(s) /\ Unhurt(s)
    BY <2>2, SameKept DEF TableKept, Unhurt
  <2>4. CASE t # s
    <3>1. AuthKept(s)
      BY <2>1, <2>2, <2>4, OtherInHand DEF Waits
    <3>2. ClientKept(s)
      BY <2>2, <2>4 DEF ClientKept, TypeOK
    <3> QED
      BY <2>3, <3>1, <3>2, KeptInTurn
  <2>5. CASE t = s
    <3>1. InHand(s)
      BY <2>1, <2>2, <2>5, InHandIs
    <3>2. nSent'[s] = answers'[s]
      BY <2>2, <2>5, <3>1 DEF InHand, TypeOK
    <3>3. NotHandled(s)'
      BY <2>2 DEF NotHandled, Waits
    <3>4. Calm(s)'
      BY <2>2, <2>3, <3>1, <3>2, <3>3 DEF Calm, InHand, QueueKept, PostKept, WorkKept
    <3> QED
      BY <2>3, <3>4 DEF InTurn
  <2> QED
    BY <2>4, <2>5
<1>5. CASE BadPacket
  <2>1. /\ ath.at = "PacketProc" /\ ath.msg.kind = "other" /\ ath' = Waits
        /\ \A r \in Sessions : r # ath.msg.own => net'[r] = net[r]
        /\ UNCHANGED <<_AuthThreadQueue, dbIocp, db, nSent, answers, told, wait, auth, broken>>
    BY <1>5 DEF BadPacket, Disconnect
  <2>2. ath.msg.own # s
    BY <2>1, InHandIs
  <2>3. AuthKept(s)
    BY <2>1, <2>2, OtherInHand DEF Waits
  <2> QED
    BY <1>a, <2>1, <2>2, <2>3
<1>6. CASE HeartBeatTime
  <2>1. /\ ath = Waits /\ ath'.at = "beatWait"
        /\ UNCHANGED <<_AuthThreadQueue, dbIocp, db, nSent, answers, told, wait, auth, net, broken>>
    BY <1>6 DEF HeartBeatTime
  <2>2. AuthKept(s)
    BY <2>1, OtherInHand DEF Waits
  <2> QED
    BY <1>a, <2>1, <2>2
<1>7. CASE HeartBeatWait \/ HeartBeatAuth
  <2>1. /\ ath.at \in {"beatWait", "beatAuth"}
        /\ UNCHANGED <<_AuthThreadQueue, dbIocp, db, nSent, answers, told, wait, auth, broken>>
    BY <1>7 DEF HeartBeatWait, HeartBeatAuth, HeartBeat
  <2>2. PICK table, limit : HeartBeat(table, limit)
    BY <1>7 DEF HeartBeatWait, HeartBeatAuth
  <2>3. net'[s] = net[s]
    BY <1>n, <2>2 DEF HeartBeat, Disconnect
  <2>4. ath'.at \in {"beatAuth", "wait"}
    <3>1. CASE HeartBeatWait
      <4>1. ath' = [ath EXCEPT !.at = "beatAuth"] /\ ath \in [at : {"beatWait", "beatAuth"}, currentTime : Time]
        BY <2>1, <3>1 DEF HeartBeatWait, TypeOK, Waits
      <4> QED
        BY <4>1
    <3>2. CASE HeartBeatAuth
      BY <3>2 DEF HeartBeatAuth, Waits
    <3> QED
      BY <1>7, <3>1, <3>2
  <2>5. AuthKept(s)
    BY <2>1, <2>4, OtherInHand
  <2> QED
    BY <1>a, <2>1, <2>3, <2>5
<1> QED
  BY <1>1, <1>2, <1>3, <1>4, <1>5, <1>6, <1>7 DEF AuthThread, AuthGoesOn

\* A DB worker that handles a request of s: there is no other packet of s.
LEMMA WorkedIs ==
  ASSUME NEW s, InTurn(s), NEW d \in DBThreads, db[d] # Idle, db[d].own = s
  PROVE  /\ net[s] = "open" /\ nSent[s] = answers[s] + 1 /\ told[s] = {}
         /\ NotQueued(s) /\ NotHandled(s) /\ NotPosted(s)
         /\ WorkedBy(d, s) /\ (db[d].at \in Before => s \in DOMAIN wait)
<1>1. ~ NotWorked(s)
  BY DEF NotWorked
<1>2. /\ net[s] = "open" /\ nSent[s] = answers[s] + 1 /\ told[s] = {}
      /\ NotQueued(s) /\ NotHandled(s) /\ NotPosted(s)
      /\ \E e \in DBThreads : WorkedBy(e, s) /\ (db[e].at \in Before => s \in DOMAIN wait)
  BY <1>1 DEF InTurn, Calm, Asks
<1>3. PICK e \in DBThreads : WorkedBy(e, s) /\ (db[e].at \in Before => s \in DOMAIN wait)
  BY <1>2
<1>4. e = d
  BY <1>3 DEF WorkedBy
<1> QED
  BY <1>2, <1>3, <1>4

\* DB worker d moves for another session.
LEMMA OtherWorks ==
  ASSUME NEW s, NEW d \in DBThreads, Moves(d),
         db[d] # Idle => db[d].own # s, db'[d] # Idle => db'[d].own # s
  PROVE  WorkKept(s)
<1>1. NotWorked(s) => NotWorked(s)'
  BY DEF NotWorked, Moves, Idle
<1>2. ASSUME NEW e \in DBThreads, WorkedBy(e, s) PROVE WorkedBy(e, s)' /\ db'[e].at = db[e].at
  BY <1>2 DEF WorkedBy, Moves, Idle
<1> QED
  BY <1>1, <1>2 DEF WorkKept

LEMMA PatientWorker ==
  ASSUME TypeOK, OneEach, NEW s \in Sessions, s \in Patient, InTurn(s),
         NEW d \in DBThreads, DBworkerThread(d)
  PROVE  InTurn(s)' /\ Unhurt(s)
<1> USE DEF tables, queues, login, client, lan
<1> DEFINE o == db[d].own
           At(l) == [at |-> l, own |-> o, accountNo |-> db[d].accountNo]
           Same(r) == /\ r \in DOMAIN wait => r \in DOMAIN wait'
                      /\ r \in DOMAIN auth => r \in DOMAIN auth'
<1>b. UNCHANGED <<_AuthThreadQueue, ath, net, broken>>
  BY DEF DBworkerThread, DBTake, WaitDB, TakeFromWait, PutIntoAuth, Redis, LoginFails, RES_LOGIN
<1>c. QueueKept(s) /\ AuthKept(s) /\ Unhurt(s)
  BY <1>b, SameKept DEF Unhurt
<1>d. dbIocp' = dbIocp => PostKept(s)
  BY SameKept
\* A step for another session
<1>o. ASSUME NEW l, NEW to, Moved(d, l, to), o # s, to # Idle => to.own = o,
             dbIocp' = dbIocp, ClientKept(s), Same(s)
      PROVE  InTurn(s)' /\ Unhurt(s)
  <2>1. WorkKept(s)
    BY <1>o, OtherWorks DEF Moved, Idle
  <2> QED
    BY <1>b, <1>c, <1>d, <1>o, <2>1, KeptInTurn DEF TableKept
\* A step for s that does not end its request
<1>s. ASSUME NEW l, NEW to \in Request, Moved(d, l, to), to.own = o, o = s,
             to.at \in Before => s \in DOMAIN wait',
             UNCHANGED <<dbIocp, nSent, answers, told>>
      PROVE  InTurn(s)' /\ Unhurt(s)
  <2>1. /\ net[s] = "open" /\ nSent[s] = answers[s] + 1 /\ told[s] = {}
        /\ NotQueued(s) /\ NotHandled(s) /\ NotPosted(s) /\ WorkedBy(d, s)
    BY <1>s, WorkedIs DEF Moved
  <2>2. db'[d] = to /\ to # Idle /\ Moves(d)
    BY <1>s DEF Moved, Request, Idle
  <2>3. WorkedBy(d, s)' /\ db'[d].at = to.at
    BY <1>s, <2>1, <2>2 DEF WorkedBy, Moves
  <2>4. Asks(s)'
    BY <1>b, <1>c, <1>d, <1>s, <2>1, <2>3 DEF Asks, QueueKept, AuthKept, PostKept
  <2> QED
    BY <1>c, <2>4 DEF InTurn
<1>m. \A l : At(l).own = o /\ At(l).at = l
  OBVIOUS
<1> HIDE DEF At, o
<1>w. ASSUME NEW l, NEW to, Moved(d, l, to), o = s
      PROVE  /\ net[s] = "open" /\ nSent[s] = answers[s] + 1 /\ told[s] = {}
             /\ NotQueued(s) /\ NotHandled(s) /\ NotPosted(s)
             /\ WorkedBy(d, s) /\ (l \in Before => s \in DOMAIN wait)
  BY <1>w, WorkedIs DEF Moved, o
<1>k. UNCHANGED <<nSent, answers, told>> => ClientKept(s)
  BY SameKept
<1>1. CASE DBTake(d)
  <2>1. PICK t : t = Head(dbIocp)
    OBVIOUS
  <2>2. /\ db[d] = Idle /\ dbIocp # <<>> /\ dbIocp \in Seq(Sessions) /\ dbIocp' = Tail(dbIocp)
        /\ db' = [db EXCEPT ![d] = [at |-> "WaitDB", own |-> t, accountNo |-> 0]]
        /\ UNCHANGED <<wait, auth, nSent, answers, told>>
    BY <1>1, <2>1 DEF DBTake, TypeOK
  <2>3. Moves(d) /\ db'[d].at = "WaitDB" /\ db'[d].own = t /\ db'[d] # Idle
    BY <2>2 DEF Moves, TypeOK, Idle
  <2>4. CASE t # s
    <3>1. PostKept(s)
      BY <2>1, <2>2, <2>4, OneTail DEF PostKept, NotPosted, Posted
    <3>2. WorkKept(s)
      BY <2>2, <2>3, <2>4, OtherWorks
    <3> QED
      BY <1>b, <1>c, <1>k, <2>2, <3>1, <3>2, KeptInTurn DEF TableKept
  <2>5. CASE t = s
    <3>1. ~ NotPosted(s)
      BY <2>1, <2>2, <2>5, OneTail DEF NotPosted
    <3>2. /\ net[s] = "open" /\ nSent[s] = answers[s] + 1 /\ told[s] = {}
          /\ NotQueued(s) /\ NotHandled(s) /\ Posted(s) /\ NotWorked(s) /\ s \in DOMAIN wait
      BY <3>1 DEF InTurn, Calm, Asks
    <3>3. NotPosted(s)'
      BY <2>1, <2>2, <2>5, <3>2, OneTail DEF NotPosted, Posted
    <3>4. WorkedBy(d, s)'
      BY <2>3, <2>5, <3>2 DEF WorkedBy, NotWorked, Moves
    <3>5. Asks(s)'
      BY <1>b, <1>c, <2>2, <3>2, <3>3, <3>4 DEF Asks, QueueKept, AuthKept
    <3> QED
      BY <1>c, <3>5 DEF InTurn
  <2> QED
    BY <2>4, <2>5
<1>2. CASE WaitDB(d)
  <2>1. PICK to \in Request : to.own = o /\ Moved(d, "WaitDB", to)
    BY <1>2, WorkerMoves DEF o
  <2>2. UNCHANGED <<dbIocp, wait, auth, nSent, answers, told>>
    BY <1>2 DEF WaitDB
  <2>3. "WaitDB" \in Before
    BY DEF Before
  <2>4. CASE o # s
    BY <1>o, <1>k, <2>1, <2>2, <2>4
  <2>5. CASE o = s
    BY <1>s, <1>w, <2>1, <2>2, <2>3, <2>5
  <2> QED
    BY <2>4, <2>5
<1>3. CASE TakeFromWait(d)
  <2>1. /\ Moved(d, "takeWait", IF o \in DOMAIN wait THEN At("putAuth") ELSE Idle)
        /\ At("putAuth") \in Request
    BY <1>3, WorkerMoves DEF At, o
  <2>2. /\ wait' = wait \/ wait' = Erase(wait, o)
        /\ UNCHANGED <<dbIocp, auth, nSent, answers, told>>
    BY <1>3 DEF TakeFromWait, o
  <2>3. "putAuth" \notin Before /\ "takeWait" \in Before
    BY DEF Before
  <2>4. CASE o # s
    <3>1. Same(s)
      BY <2>2, <2>4 DEF Erase
    <3> QED
      BY <1>o, <1>m, <1>k, <2>1, <2>2, <2>4, <3>1
  <2>5. CASE o = s
    <3>1. o \in DOMAIN wait
      BY <1>w, <2>1, <2>3, <2>5
    <3>2. Moved(d, "takeWait", At("putAuth"))
      BY <2>1, <3>1
    <3> QED
      BY <1>s, <1>m, <2>1, <2>2, <2>3, <2>5, <3>2
  <2> QED
    BY <2>4, <2>5
<1>4. CASE PutIntoAuth(d)
  <2>1. /\ Moved(d, "putAuth", IF o \in DOMAIN auth THEN Idle ELSE At("redis"))
        /\ At("redis") \in Request
    BY <1>4, WorkerMoves DEF At, o
  <2>2. /\ auth' = auth \/ auth' = Put(auth, o, now)
        /\ UNCHANGED <<dbIocp, wait, nSent, answers, told>>
    BY <1>4 DEF PutIntoAuth, o
  <2>3. Cardinality(Here("putAuth", o)) >= 1 /\ o \in Sessions
    BY <2>1, HereStep DEF Moved, In, o
  <2>4. o \notin DOMAIN auth
    BY <2>3 DEF OneEach, In, Stays
  <2>5. Moved(d, "putAuth", At("redis"))
    BY <2>1, <2>4
  <2>6. "redis" \notin Before
    BY DEF Before
  <2>7. CASE o # s
    <3>1. Same(s)
      BY <2>2 DEF Put
    <3> QED
      BY <1>o, <1>m, <1>k, <2>2, <2>5, <2>7, <3>1
  <2>8. CASE o = s
    BY <1>s, <1>m, <2>1, <2>2, <2>5, <2>6, <2>8
  <2> QED
    BY <2>7, <2>8
<1>5. CASE Redis(d)
  <2>1. /\ Moved(d, "redis", At("OK"))
        /\ At("OK") \in Request
    BY <1>5, WorkerMoves DEF At, o
  <2>2. UNCHANGED <<dbIocp, wait, auth, nSent, answers, told>>
    BY <1>5 DEF Redis
  <2>3. "OK" \notin Before
    BY DEF Before
  <2>4. CASE o # s
    BY <1>o, <1>m, <1>k, <2>1, <2>2, <2>4
  <2>5. CASE o = s
    BY <1>s, <1>m, <2>1, <2>2, <2>3, <2>5
  <2> QED
    BY <2>4, <2>5
<1>6. CASE LoginFails(d)
  <2>1. /\ Moved(d, "failed", IF o \in DOMAIN wait THEN At("RES_LOGIN") ELSE Idle)
        /\ At("RES_LOGIN") \in Request
    BY <1>6, WorkerMoves DEF At, o
  <2>2. UNCHANGED <<dbIocp, wait, auth, nSent, answers, told>>
    BY <1>6 DEF LoginFails
  <2>3. "failed" \in Before
    BY DEF Before
  <2>4. CASE o # s
    BY <1>o, <1>m, <1>k, <2>1, <2>2, <2>4
  <2>5. CASE o = s
    <3>1. o \in DOMAIN wait
      BY <1>w, <2>1, <2>3, <2>5
    <3>2. Moved(d, "failed", At("RES_LOGIN"))
      BY <2>1, <3>1
    <3> QED
      BY <1>s, <1>m, <2>1, <2>2, <2>3, <2>5, <3>1, <3>2
  <2> QED
    BY <2>4, <2>5
<1>7. CASE RES_LOGIN(d)
  <2>1. Moved(d, db[d].at, Idle)
    BY <1>7, WorkerMoves DEF o
  <2>2. /\ answers' = [answers EXCEPT ![o] = IF net[o] \in {"open", "closed"} THEN @ + 1 ELSE @]
        /\ db[d].at \in {"OK", "RES_LOGIN"}
        /\ told' = IF db[d].at = "OK" /\ net[o] \in {"open", "closed"} 
                     THEN [told EXCEPT ![o] = @ \cup {db[d].accountNo}] ELSE told
        /\ UNCHANGED <<dbIocp, wait, auth, nSent>>
    BY <1>7 DEF RES_LOGIN, SendPacket, o
  <2>3. CASE o # s
    <3>1. ClientKept(s)
      BY <2>2, <2>3 DEF ClientKept, TypeOK
    <3> QED
      BY <1>o, <2>1, <2>2, <2>3, <3>1
  <2>4. CASE o = s
    <3>1. /\ net[s] = "open" /\ nSent[s] = answers[s] + 1 /\ told[s] = {}
          /\ NotQueued(s) /\ NotHandled(s) /\ NotPosted(s)
          /\ WorkedBy(d, s) /\ (db[d].at \in Before => s \in DOMAIN wait)
      BY <1>w, <2>1, <2>4
    <3>2. nSent'[s] = answers'[s] /\ (db[d].at = "OK" => told'[s] # {})
      BY <2>2, <2>4, <3>1 DEF TypeOK
    <3>3. NotWorked(s)'
      BY <2>1, <3>1 DEF NotWorked, WorkedBy, Moved, Moves
    <3>4. told'[s] = {} => s \in DOMAIN wait'
      BY <2>2, <3>1, <3>2 DEF Before
    <3>5. Calm(s)'
      BY <1>b, <1>c, <1>d, <2>2, <3>1, <3>2, <3>3, <3>4 DEF Calm, QueueKept, AuthKept, PostKept
    <3> QED
      BY <1>c, <3>5 DEF InTurn
  <2> QED
    BY <2>3, <2>4
<1> QED
  BY <1>1, <1>2, <1>3, <1>4, <1>5, <1>6, <1>7 DEF DBworkerThread

LEMMA PatientInit == Init => Patience /\ PatientIsSafe
<1> SUFFICES ASSUME Init, NEW s \in Patient PROVE Calm(s)
  BY DEF Init, Patience, InTurn, PatientIsSafe, Up
<1>1. s \in Sessions
  BY LoginServerAssumption
<1>2. NotQueued(s) /\ NotPosted(s) /\ NotHandled(s) /\ NotWorked(s)
  BY DEF Init, NotQueued, NotPosted, NotHandled, NotWorked, None, Waits
<1> QED
  BY <1>1, <1>2 DEF Init, Calm

LEMMA PatientNext ==
  TypeOK /\ OnePlace /\ Patience /\ PatientIsSafe /\ [Next]_vars => Patience' /\ PatientIsSafe'
<1> SUFFICES ASSUME TypeOK, OnePlace, Patience, PatientIsSafe, [Next]_vars
             PROVE  Patience' /\ PatientIsSafe'
  OBVIOUS
<1> USE DEF tables, queues, login, client, lan
<1>1. CASE UNCHANGED vars
  BY <1>1 DEF vars, PatientIsSafe, Up, Patience, InTurn, Calm, Asks, NotQueued, Queued, NotHandled,
     Handled, NotPosted, Posted, NotWorked, WorkedBy
<1>2. CASE Next
  <2>1. Up /\ OneEach
    BY <1>2, OnePlaceIs DEF Next
  <2>2. expired \subseteq expired'
    BY <1>2 DEF Next, AuthThread, AuthGoesOn, AuthPop, REQ_LOGIN, REQ_ECHO, RES_ECHO, BadPacket, HeartBeatTime,
       HeartBeatWait, HeartBeatAuth, HeartBeat, Tick, DBworkerThread, DBTake, WaitDB, TakeFromWait,
       PutIntoAuth, Redis, LoginFails, RES_LOGIN, Callback, Client, OnAccept, OnAcceptInsert, Leave,
       OnRecv, OnReleaseWait, OnReleaseAuth
  <2>3. ASSUME NEW s \in Patient \ expired' PROVE InTurn(s)' /\ Unhurt(s)
    <3>1. s \in Sessions /\ InTurn(s)
      BY LoginServerAssumption, <2>2, <2>3 DEF Patience
    <3>2. CASE Tick
      <4>1. UNCHANGED <<_AuthThreadQueue, ath, dbIocp, db, nSent, answers, told, wait, auth, net, broken>>
        BY <3>2 DEF Tick
      <4> QED
        BY <3>1, <4>1, SameKept, KeptInTurn DEF TableKept, Unhurt
    <3> QED
      BY <1>2, <2>1, <2>3, <3>1, <3>2, PatientCallback, PatientAuthThread, PatientWorker DEF Next
  <2>4. PatientIsSafe'
    <3>1. ASSUME ~Up', broken'.own \in Patient \ expired' PROVE FALSE
      BY <2>1, <2>3, <3>1 DEF Unhurt, Up
    <3> QED
      BY <2>2, <3>1 DEF PatientIsSafe
  <2> QED
    BY <2>2, <2>3, <2>4 DEF Patience
<1> QED
  BY <1>1, <1>2

\* A client that sends a packet only when it has its answers and leaves after its login
\* never meets a __debugbreak of OnAccept, OnRelease or REQ_ECHO, whatever other sessions
\* send and the DB workers do, unless HeartBeat disconnected it.
THEOREM PatientIsSafeHolds == Spec => []PatientIsSafe
<1>1. Init => TypeOK /\ Counted /\ OnePlace /\ Patience /\ PatientIsSafe
  BY TypeInit, OneInit, PatientInit
<1>2. TypeOK /\ Counted /\ OnePlace /\ Patience /\ PatientIsSafe /\ [Next]_vars
        => (TypeOK /\ Counted /\ OnePlace /\ Patience /\ PatientIsSafe)'
  BY TypeNext, OneNext, PatientNext
<1> QED
  BY <1>1, <1>2, PTL DEF Spec

-----------------------------------------------------------------------------
(* DroppedIsGone: sums, by induction over the natural numbers as a fact about sets *)

\* A number missing in S would let those of S below it be mapped one to one, each to
\* its successor, into fewer.
LEMMA SetInduction ==
  ASSUME NEW S, 1 \in S, \A n \in Nat \ {0} : n \in S => n + 1 \in S
  PROVE  \A n \in Nat \ {0} : n \in S
<1> SUFFICES ASSUME NEW n \in Nat \ {0}, n \notin S
             PROVE  FALSE
  OBVIOUS
<1> DEFINE A == {x \in 1 .. n : x \in S}
           next == [x \in A |-> x + 1]
<1>1. IsFiniteSet(A)
  <2>1. IsFiniteSet(1 .. n) /\ A \in SUBSET (1 .. n)
    BY FS_Interval
  <2> QED
    BY <2>1, FS_Subset
<1>2. 1 \in A
  OBVIOUS
<1>3. IsFiniteSet(A \ {1}) /\ Cardinality(A \ {1}) = Cardinality(A) - 1 /\ Cardinality(A) \in Nat
  BY <1>1, <1>2, FS_RemoveElement, FS_CardinalityType
<1>4. next \in Injection(A, A \ {1})
  <2>1. \A x \in A : x + 1 \in A \ {1}
    OBVIOUS
  <2>2. \A x, y \in A : x + 1 = y + 1 => x = y
    OBVIOUS
  <2> QED
    BY <2>1, <2>2 DEF Injection, IsInjective
<1> QED
  BY <1>1, <1>3, <1>4, FS_Injection

\* The equation behind FoldFunction(+, 0, f)
Pick(T)    == CHOOSE x \in T : TRUE
Sums(g, f) == g = [T \in SUBSET DOMAIN f |-> IF T = {} THEN 0 ELSE f[Pick(T)] + g[T \ {Pick(T)}]]
SumOf(f)   == CHOOSE g : Sums(g, f)

\* The subsets of D with fewer than n elements
Smaller(D, n) == {T \in SUBSET D : Cardinality(T) < n}

LEMMA SmallerSets ==
  ASSUME NEW D, IsFiniteSet(D)
  PROVE  /\ \A T \in Smaller(D, 1) : T = {}
         /\ \A n \in Nat : \A T \in Smaller(D, n + 1) :
              T # {} => Pick(T) \in T /\ T \ {Pick(T)} \in Smaller(D, n)
         /\ \E n \in Nat \ {0} : Smaller(D, n) = SUBSET D
<1>1. \A T \in SUBSET D : IsFiniteSet(T) /\ Cardinality(T) \in Nat /\ Cardinality(T) <= Cardinality(D)
  BY FS_Subset, FS_CardinalityType
<1>2. \A T \in Smaller(D, 1) : T = {}
  BY <1>1, FS_EmptySet DEF Smaller
<1>3. ASSUME NEW n \in Nat, NEW T \in Smaller(D, n + 1), T # {}
      PROVE  Pick(T) \in T /\ T \ {Pick(T)} \in Smaller(D, n)
  <2>1. Pick(T) \in T
    BY <1>3 DEF Pick
  <2>2. Cardinality(T \ {Pick(T)}) = Cardinality(T) - 1 /\ Cardinality(T) < n + 1 /\ T \in SUBSET D
    BY <1>1, <2>1, FS_RemoveElement DEF Smaller
  <2> QED
    BY <1>1, <2>1, <2>2 DEF Smaller
<1>4. Cardinality(D) \in Nat /\ Smaller(D, Cardinality(D) + 1) = SUBSET D
  BY <1>1, FS_CardinalityType DEF Smaller
<1> QED
  BY <1>2, <1>3, <1>4

\* The function that adds up exists.
LEMMA SumExists ==
  ASSUME NEW f, IsFiniteSet(DOMAIN f)
  PROVE  Sums(SumOf(f), f)
<1> DEFINE D == DOMAIN f
           Upto(g, n) == g = [T \in Smaller(D, n) |->
                               IF T = {} THEN 0 ELSE f[Pick(T)] + g[T \ {Pick(T)}]]
           S == {n \in Nat : \E g : Upto(g, n)}
<1>1. 1 \in S
  <2>1. Upto([T \in Smaller(D, 1) |-> 0], 1)
    BY SmallerSets
  <2> QED
    BY <2>1
<1>2. ASSUME NEW n \in Nat \ {0}, n \in S PROVE n + 1 \in S
  <2>1. PICK g : Upto(g, n)
    BY <1>2
  <2> DEFINE h == [T \in Smaller(D, n + 1) |->
                    IF T = {} THEN 0 ELSE f[Pick(T)] + g[T \ {Pick(T)}]]
  <2>2. \A T \in Smaller(D, n) : T \in Smaller(D, n + 1)
    BY FS_Subset, FS_CardinalityType DEF Smaller
  <2>3. \A T \in Smaller(D, n) : h[T] = g[T]
    <3>1. \A T \in Smaller(D, n) : g[T] = IF T = {} THEN 0 ELSE f[Pick(T)] + g[T \ {Pick(T)}]
      BY <2>1
    <3> QED
      BY <2>2, <3>1
  <2>4. \A T \in Smaller(D, n + 1) : T # {} => g[T \ {Pick(T)}] = h[T \ {Pick(T)}]
    BY <2>3, SmallerSets
  <2>5. Upto(h, n + 1)
    BY <2>4
  <2> QED
    <3> HIDE DEF h, Upto
    <3> QED
      BY <2>5
<1>3. \E g : Sums(g, f)
  <2>1. PICK n \in Nat \ {0} : Smaller(D, n) = SUBSET D
    BY SmallerSets
  <2>2. n \in S
    <3> HIDE DEF S
    <3> QED
      BY <1>1, <1>2, SetInduction
  <2> QED
    BY <2>1, <2>2 DEF Sums
<1> QED
  BY <1>3 DEF SumOf

\* What the model writes with the fold
Sum(f) == FoldFunction(+, 0, f)

LEMMA FoldIsSum ==
  ASSUME NEW f
  PROVE  Sum(f) = SumOf(f)[DOMAIN f]
BY DEF Sum, FoldFunction, FoldFunctionOnSet, MapThenFoldSet, SumOf, Sums, Pick

\* Induction over the subsets of a finite set, as Pick takes them apart
LEMMA SubsetInduction ==
  ASSUME NEW D, IsFiniteSet(D), NEW S, {} \in S,
         \A T \in SUBSET D : T # {} /\ T \ {Pick(T)} \in S => T \in S
  PROVE  D \in S
<1> DEFINE N == {n \in Nat : \A T \in Smaller(D, n) : T \in S}
<1>1. 1 \in N
  BY SmallerSets
<1>2. ASSUME NEW n \in Nat \ {0}, n \in N PROVE n + 1 \in N
  <2>1. ASSUME NEW T \in Smaller(D, n + 1) PROVE T \in S
    <3>1. T \in SUBSET D /\ (T # {} => T \ {Pick(T)} \in Smaller(D, n))
      BY SmallerSets DEF Smaller
    <3> QED
      BY <1>2, <3>1
  <2> QED
    BY <2>1
<1>3. \A n \in Nat \ {0} : n \in N
  <2> HIDE DEF N
  <2> QED
    BY <1>1, <1>2, SetInduction
<1>4. D \in SUBSET D
  OBVIOUS
<1> QED
  BY <1>3, <1>4, SmallerSets

\* The equation as a fact about a and f
Adds(a, f, D) ==
  /\ a[{}] = 0
  /\ \A T \in SUBSET D : T # {} => Pick(T) \in T /\ a[T] = f[Pick(T)] + a[T \ {Pick(T)}]

LEMMA SumIs ==
  ASSUME NEW D, IsFiniteSet(D), NEW f, DOMAIN f = D
  PROVE  /\ Sum(f) = SumOf(f)[D]
         /\ Adds(SumOf(f), f, D)
<1>1. SumOf(f) = [T \in SUBSET D |-> IF T = {} THEN 0 ELSE f[Pick(T)] + SumOf(f)[T \ {Pick(T)}]]
  BY SumExists DEF Sums
<1>2. \A T \in SUBSET D : SumOf(f)[T] = IF T = {} THEN 0 ELSE f[Pick(T)] + SumOf(f)[T \ {Pick(T)}]
  BY <1>1, Zenon
<1>3. {} \in SUBSET D /\ \A T : T # {} => Pick(T) \in T
  BY DEF Pick
<1> QED
  BY <1>2, <1>3, FoldIsSum DEF Adds

LEMMA SumIsNat ==
  ASSUME NEW D, IsFiniteSet(D), NEW f \in [D -> Nat]
  PROVE  Sum(f) \in Nat
<1> DEFINE a == SumOf(f)
           S == {T \in SUBSET D : a[T] \in Nat}
<1>1. Sum(f) = a[D] /\ Adds(a, f, D)
  BY SumIs
<1> HIDE DEF a
<1>2. {} \in S
  BY <1>1 DEF Adds
<1>3. ASSUME NEW T \in SUBSET D, T # {}, T \ {Pick(T)} \in S PROVE T \in S
  BY <1>1, <1>3 DEF Adds
<1>4. D \in S
  <2> HIDE DEF S
  <2> QED
    BY <1>2, <1>3, SubsetInduction
<1> QED
  BY <1>1, <1>4

\* A sum of zeros
LEMMA SumOfZeros ==
  ASSUME NEW D, IsFiniteSet(D), NEW f, f = [x \in D |-> 0]
  PROVE  Sum(f) = 0
<1> DEFINE a == SumOf(f)
           S == {T \in SUBSET D : a[T] = 0}
<1>1. Sum(f) = a[D] /\ Adds(a, f, D)
  BY SumIs
<1> HIDE DEF a
<1>2. {} \in S
  BY <1>1 DEF Adds
<1>3. ASSUME NEW T \in SUBSET D, T # {}, T \ {Pick(T)} \in S PROVE T \in S
  BY <1>1, <1>3 DEF Adds
<1>4. D \in S
  <2> HIDE DEF S
  <2> QED
    BY <1>2, <1>3, SubsetInduction
<1> QED
  BY <1>1, <1>4

\* One more at one place is one more in the sum.
LEMMA SumGrows ==
  ASSUME NEW D, IsFiniteSet(D), NEW f \in [D -> Nat], NEW x \in D,
         NEW h, DOMAIN h = D, \A y \in D : h[y] = IF y = x THEN f[y] + 1 ELSE f[y]
  PROVE  Sum(h) = Sum(f) + 1
<1> DEFINE a == SumOf(f)
           b == SumOf(h)
           S == {T \in SUBSET D : a[T] \in Nat /\ b[T] = IF x \in T THEN a[T] + 1 ELSE a[T]}
<1>1. Sum(f) = a[D] /\ Adds(a, f, D)
  BY SumIs
<1>2. Sum(h) = b[D] /\ Adds(b, h, D)
  BY SumIs
<1> HIDE DEF a, b
<1>3. {} \in S
  BY <1>1, <1>2 DEF Adds
<1>4. ASSUME NEW T \in SUBSET D, T # {}, T \ {Pick(T)} \in S PROVE T \in S
  <2>1. PICK y : y = Pick(T)
    OBVIOUS
  <2>2. y \in T /\ a[T] = f[y] + a[T \ {y}] /\ b[T] = h[y] + b[T \ {y}]
    BY <1>1, <1>2, <1>4, <2>1 DEF Adds
  <2>3. a[T \ {y}] \in Nat /\ b[T \ {y}] = IF x \in T \ {y} THEN a[T \ {y}] + 1 ELSE a[T \ {y}]
    BY <1>4, <2>1
  <2>4. f[y] \in Nat /\ h[y] = IF y = x THEN f[y] + 1 ELSE f[y]
    BY <2>2
  <2>5. a[T] \in Nat /\ b[T] = IF x \in T THEN a[T] + 1 ELSE a[T]
    BY <2>2, <2>3, <2>4
  <2> QED
    BY <2>5
<1>5. D \in S
  <2> HIDE DEF S
  <2> QED
    BY <1>3, <1>4, SubsetInduction
<1> QED
  BY <1>1, <1>2, <1>5

\* A packet or a login request is of a session that OnAccept has entered.
Met(s) == net[s] \notin {"new", "accept"}

Known ==
  /\ \A i \in 1 .. Len(_AuthThreadQueue) : Met(_AuthThreadQueue[i].own)
  /\ ath.at = "PacketProc" => Met(ath.msg.own)
  /\ \A i \in 1 .. Len(dbIocp) : Met(dbIocp[i])
  /\ \A d \in DBThreads : db[d] # Idle => Met(db[d].own)

LEMMA SeqSteps ==
  ASSUME NEW S, NEW q \in Seq(S)
  PROVE  /\ Len(q) \in Nat /\ \A i \in 1 .. Len(q) : q[i] \in S
         /\ \A e : /\ Len(Append(q, e)) = Len(q) + 1
                   /\ \A i \in 1 .. Len(q) + 1 :
                        Append(q, e)[i] = IF i \in 1 .. Len(q) THEN q[i] ELSE e
         /\ q # <<>> => /\ 1 \in 1 .. Len(q) /\ Head(q) = q[1] /\ Len(Tail(q)) = Len(q) - 1
                        /\ \A i \in 1 .. Len(q) - 1 : i + 1 \in 1 .. Len(q) /\ Tail(q)[i] = q[i + 1]
<1>1. Len(q) \in Nat /\ \A i \in 1 .. Len(q) : q[i] \in S
  OBVIOUS
<1>2. ASSUME NEW e PROVE /\ Len(Append(q, e)) = Len(q) + 1
                         /\ \A i \in 1 .. Len(q) + 1 :
                              Append(q, e)[i] = IF i \in 1 .. Len(q) THEN q[i] ELSE e
  OBVIOUS
<1>3. ASSUME q # <<>> PROVE /\ 1 \in 1 .. Len(q) /\ Head(q) = q[1] /\ Len(Tail(q)) = Len(q) - 1
                            /\ \A i \in 1 .. Len(q) - 1 :
                                 i + 1 \in 1 .. Len(q) /\ Tail(q)[i] = q[i + 1]
  BY <1>3
<1> QED
  BY <1>1, <1>2, <1>3

\* A session stays met.
LEMMA MetStays == TypeOK /\ [Next]_vars => \A s \in Sessions : Met(s) => Met(s)'
<1> SUFFICES ASSUME TypeOK, [Next]_vars, NEW s \in Sessions, Met(s) PROVE Met(s)'
  OBVIOUS
<1> USE DEF tables, queues, login, client, lan, Disconnect, Met
<1>n. net \in [Sessions -> {"new", "accept", "open", "closed", "found", "missed", "released"}]
  BY DEF TypeOK
<1>1. CASE UNCHANGED vars
  BY <1>1 DEF vars
<1>2. CASE AuthThread
  BY <1>2 DEF AuthThread, AuthGoesOn, AuthPop, REQ_LOGIN, REQ_ECHO, RES_ECHO, BadPacket, HeartBeatTime,
     HeartBeatWait, HeartBeatAuth, HeartBeat
<1>3. CASE Tick
  BY <1>3 DEF Tick
<1>4. ASSUME NEW d \in DBThreads, DBworkerThread(d) PROVE Met(s)'
  BY <1>4 DEF DBworkerThread, DBTake, WaitDB, TakeFromWait, PutIntoAuth, Redis, LoginFails, RES_LOGIN
<1>5. ASSUME NEW t \in Sessions, Callback(t) \/ Client(t) PROVE Met(s)'
  BY <1>n, <1>5 DEF Callback, Client, OnAccept, OnAcceptInsert, Leave, OnRecv, OnReleaseWait,
     OnReleaseAuth
<1> QED
  BY <1>1, <1>2, <1>3, <1>4, <1>5 DEF Next

\* What Known says of the queue, AuthThread, the completion port and the DB workers
KnownQueued == \A i \in 1 .. Len(_AuthThreadQueue) : Met(_AuthThreadQueue[i].own)
KnownInHand == ath.at = "PacketProc" => Met(ath.msg.own)
KnownPosted == \A i \in 1 .. Len(dbIocp) : Met(dbIocp[i])
KnownWorked == \A d \in DBThreads : db[d] # Idle => Met(db[d].own)

LEMMA KnownNext == TypeOK /\ Known /\ [Next]_vars => Known'
<1> SUFFICES ASSUME TypeOK, Known, [Next]_vars PROVE Known'
  OBVIOUS
<1> USE DEF tables, queues, login, client, lan
<1>m. \A s \in Sessions : Met(s) => Met(s)'
  BY MetStays
<1>q. _AuthThreadQueue \in Seq(Packet) /\ dbIocp \in Seq(Sessions)
  BY DEF TypeOK
<1>p. \A m \in Packet : m.own \in Sessions
  BY DEF Packet
<1>a. ath.at = "PacketProc" => ath.msg \in Packet
  BY DEF TypeOK, Waits
<1>d. \A d \in DBThreads : db[d] # Idle => db[d].own \in Sessions
  BY DEF TypeOK, Request
<1>k. KnownQueued /\ KnownInHand /\ KnownPosted /\ KnownWorked
  BY DEF Known, KnownQueued, KnownInHand, KnownPosted, KnownWorked
<1>1. UNCHANGED _AuthThreadQueue => KnownQueued'
  BY <1>k, <1>m, <1>p, <1>q, SeqSteps DEF KnownQueued
<1>2. UNCHANGED ath \/ ath'.at # "PacketProc" => KnownInHand'
  BY <1>k, <1>m, <1>p, <1>a DEF KnownInHand
<1>3. UNCHANGED dbIocp => KnownPosted'
  BY <1>k, <1>m, <1>q, SeqSteps DEF KnownPosted
<1>4. (\A d \in DBThreads : db'[d] # Idle => db[d] # Idle /\ db'[d].own = db[d].own) => KnownWorked'
  BY <1>k, <1>m, <1>d DEF KnownWorked, Idle
<1>e. KnownQueued' /\ KnownInHand' /\ KnownPosted' /\ KnownWorked' => Known'
  BY DEF Known, KnownQueued, KnownInHand, KnownPosted, KnownWorked
<1>5. CASE UNCHANGED vars \/ Tick
  <2>1. UNCHANGED <<_AuthThreadQueue, ath, dbIocp, db>>
    BY <1>5 DEF vars, Tick
  <2> QED
    BY <1>1, <1>2, <1>3, <1>4, <1>e, <2>1
<1>6. CASE AuthPop
  <2>1. /\ _AuthThreadQueue # <<>> /\ _AuthThreadQueue' = Tail(_AuthThreadQueue)
        /\ ath' = [at |-> "PacketProc", msg |-> Head(_AuthThreadQueue)]
        /\ UNCHANGED <<dbIocp, db>>
    BY <1>6 DEF AuthPop
  <2>2. KnownInHand'
    <3>1. Head(_AuthThreadQueue) \in Packet /\ Met(Head(_AuthThreadQueue).own)
      BY <1>k, <1>q, <2>1, SeqSteps DEF KnownQueued
    <3>2. ath'.msg = Head(_AuthThreadQueue)
      BY <2>1
    <3> QED
      BY <1>m, <1>p, <3>1, <3>2 DEF KnownInHand
  <2>3. KnownQueued'
    <3>1. \A i \in 1 .. Len(_AuthThreadQueue) - 1 :
             /\ Tail(_AuthThreadQueue)[i] \in Packet /\ Met(Tail(_AuthThreadQueue)[i].own)
      BY <1>k, <1>q, <2>1, SeqSteps DEF KnownQueued
    <3> QED
      BY <1>m, <1>p, <1>q, <2>1, <3>1, SeqSteps DEF KnownQueued
  <2> QED
    BY <1>3, <1>4, <1>e, <2>1, <2>2, <2>3
<1>7. CASE REQ_LOGIN
  <2>0. PICK t : t = ath.msg.own
    OBVIOUS
  <2>1. /\ ath.at = "PacketProc" /\ ath' = Waits /\ dbIocp' = Append(dbIocp, t)
        /\ UNCHANGED <<_AuthThreadQueue, db>>
    BY <1>7, <2>0 DEF REQ_LOGIN, Handles
  <2>2. t \in Sessions /\ Met(t)'
    BY <1>a, <1>k, <1>m, <1>p, <2>0, <2>1 DEF KnownInHand
  <2>3. KnownPosted'
    BY <1>k, <1>m, <1>q, <2>1, <2>2, SeqSteps DEF KnownPosted
  <2> QED
    BY <1>1, <1>2, <1>4, <1>e, <2>1, <2>3 DEF Waits
<1>8. CASE REQ_ECHO \/ RES_ECHO \/ BadPacket \/ HeartBeatTime \/ HeartBeatWait \/ HeartBeatAuth
  <2>1. UNCHANGED <<_AuthThreadQueue, dbIocp, db>>
    BY <1>8 DEF REQ_ECHO, RES_ECHO, BadPacket, HeartBeatTime, HeartBeatWait, HeartBeatAuth, HeartBeat
  <2>2. UNCHANGED ath \/ ath'.at # "PacketProc"
    BY <1>8 DEF REQ_ECHO, RES_ECHO, BadPacket, HeartBeatTime, HeartBeatWait, HeartBeatAuth, HeartBeat,
       Waits, TypeOK
  <2> QED
    BY <1>1, <1>2, <1>3, <1>4, <1>e, <2>1, <2>2
<1>9. ASSUME NEW d \in DBThreads, DBworkerThread(d) PROVE Known'
  <2>1. UNCHANGED <<_AuthThreadQueue, ath>>
    BY <1>9 DEF DBworkerThread, DBTake, WaitDB, TakeFromWait, PutIntoAuth, Redis, LoginFails, RES_LOGIN
  <2>2. CASE DBTake(d)
    <3>0. PICK t : t = Head(dbIocp)
      OBVIOUS
    <3>1. /\ dbIocp # <<>> /\ dbIocp' = Tail(dbIocp)
          /\ db' = [db EXCEPT ![d] = [at |-> "WaitDB", own |-> t, accountNo |-> 0]]
      BY <2>2, <3>0 DEF DBTake
    <3>2. KnownPosted'
      BY <1>k, <1>m, <1>q, <3>1, SeqSteps DEF KnownPosted
    <3>3. Met(t)'
      BY <1>k, <1>m, <1>q, <3>0, <3>1, SeqSteps DEF KnownPosted
    <3>4. \A e \in DBThreads : db'[e] = db[e] \/ db'[e].own = t
      BY <3>1 DEF TypeOK
    <3>5. KnownWorked'
      BY <1>k, <1>m, <1>d, <3>3, <3>4 DEF KnownWorked
    <3> QED
      BY <1>1, <1>2, <1>e, <2>1, <3>2, <3>5
  <2>3. CASE ~ DBTake(d)
    <3>1. UNCHANGED dbIocp
      BY <1>9, <2>3 DEF DBworkerThread, WaitDB, TakeFromWait, PutIntoAuth, Redis, LoginFails, RES_LOGIN
    <3>2. \E from, to : Moved(d, from, to) /\ (to # Idle => to.own = db[d].own)
      <4> DEFINE At(l) == [at |-> l, own |-> db[d].own, accountNo |-> db[d].accountNo]
      <4>1. CASE WaitDB(d)
        BY <4>1, WorkerMoves
      <4>2. CASE TakeFromWait(d)
        <5>1. PICK to : to = IF db[d].own \in DOMAIN wait THEN At("putAuth") ELSE Idle
          OBVIOUS
        <5>2. Moved(d, "takeWait", to)
          BY <4>2, <5>1, WorkerMoves
        <5>3. to # Idle => to.own = db[d].own
          BY <5>1
        <5> QED
          BY <5>2, <5>3
      <4>3. CASE PutIntoAuth(d)
        <5>1. PICK to : to = IF db[d].own \in DOMAIN auth THEN Idle ELSE At("redis")
          OBVIOUS
        <5>2. Moved(d, "putAuth", to)
          BY <4>3, <5>1, WorkerMoves
        <5>3. to # Idle => to.own = db[d].own
          BY <5>1
        <5> QED
          BY <5>2, <5>3
      <4>4. CASE Redis(d)
        <5>1. PICK to : to = At("OK")
          OBVIOUS
        <5>2. Moved(d, "redis", to)
          BY <4>4, <5>1, WorkerMoves
        <5>3. to # Idle => to.own = db[d].own
          BY <5>1
        <5> QED
          BY <5>2, <5>3
      <4>5. CASE LoginFails(d)
        <5>1. PICK to : to = IF db[d].own \in DOMAIN wait THEN At("RES_LOGIN") ELSE Idle
          OBVIOUS
        <5>2. Moved(d, "failed", to)
          BY <4>5, <5>1, WorkerMoves
        <5>3. to # Idle => to.own = db[d].own
          BY <5>1
        <5> QED
          BY <5>2, <5>3
      <4>6. CASE RES_LOGIN(d)
        BY <4>6, WorkerMoves
      <4> QED
        BY <1>9, <2>3, <4>1, <4>2, <4>3, <4>4, <4>5, <4>6 DEF DBworkerThread
    <3>3. \A e \in DBThreads : db'[e] # Idle => db[e] # Idle /\ db'[e].own = db[e].own
      BY <3>2 DEF Moved, Moves
    <3> QED
      BY <1>1, <1>2, <1>3, <1>4, <1>e, <2>1, <3>1, <3>3
  <2> QED
    BY <2>2, <2>3
<1>10. ASSUME NEW s \in Sessions, Callback(s) \/ Client(s) PROVE Known'
  <2>1. UNCHANGED <<ath, dbIocp, db>>
    BY <1>10 DEF Callback, Client, OnAccept, OnAcceptInsert, OnRecv, Leave, OnReleaseWait, OnReleaseAuth
  <2>2. CASE UNCHANGED _AuthThreadQueue
    BY <1>1, <1>2, <1>3, <1>4, <1>e, <2>1, <2>2
  <2>3. ASSUME NEW kind \in Kinds, OnRecv(s, kind) PROVE KnownQueued'
    <3>1. PICK i \in 1 .. Len(_AuthThreadQueue) + 1 :
            _AuthThreadQueue' = SeqExt!InsertAt(_AuthThreadQueue, i, [own |-> s, kind |-> kind])
      BY <2>3 DEF OnRecv
    <3>2. PICK m \in Packet : m = [own |-> s, kind |-> kind]
      BY DEF Packet
    <3>3. m.own = s /\ Met(s) /\ _AuthThreadQueue' = SeqExt!InsertAt(_AuthThreadQueue, i, m)
      BY <2>3, <3>1, <3>2 DEF OnRecv, Met
    <3>4. /\ Len(_AuthThreadQueue') = Len(_AuthThreadQueue) + 1
          /\ \A j \in 1 .. Len(_AuthThreadQueue) + 1 :
               _AuthThreadQueue'[j] = IF j < i THEN _AuthThreadQueue[j]
                                      ELSE IF j = i THEN m ELSE _AuthThreadQueue[j - 1]
      BY <1>q, <3>3, InsertFacts
    <3>5. \A j \in 1 .. Len(_AuthThreadQueue) : Met(_AuthThreadQueue[j].own)
      BY <1>k DEF KnownQueued
    <3>6. \A j \in 1 .. Len(_AuthThreadQueue) : _AuthThreadQueue[j].own \in Sessions
      BY <1>p, <1>q, SeqSteps
    <3>7. ASSUME NEW j \in 1 .. Len(_AuthThreadQueue) + 1
          PROVE  \E r \in Sessions : _AuthThreadQueue'[j].own = r /\ Met(r)
      <4>1. \/ j < i /\ j \in 1 .. Len(_AuthThreadQueue) /\ _AuthThreadQueue'[j] = _AuthThreadQueue[j]
            \/ _AuthThreadQueue'[j] = m
            \/ j - 1 \in 1 .. Len(_AuthThreadQueue) /\ _AuthThreadQueue'[j] = _AuthThreadQueue[j - 1]
        BY <1>q, <3>4
      <4> QED
        BY <3>3, <3>5, <3>6, <4>1
    <3> QED
      BY <1>m, <3>4, <3>7 DEF KnownQueued, Met
  <2> QED
    BY <1>2, <1>3, <1>4, <1>e, <1>10, <2>1, <2>2, <2>3 DEF Callback, Client, OnAccept, OnAcceptInsert,
       Leave, OnReleaseWait, OnReleaseAuth
<1> QED
  BY <1>5, <1>6, <1>7, <1>8, <1>9, <1>10 DEF Next, AuthThread, AuthGoesOn

\* Why a request may be dropped
Gone(s) == \/ s \in DOMAIN auth \/ Here("putAuth", s) # {}
           \/ net[s] \in {"found", "missed", "released"}

DropInv ==
  /\ _DB_ReqCnt = Cardinality(Busy) + Sum(dropped)
  /\ \A s \in Sessions : dropped[s] > 0 => Gone(s)

LEMMA SameDrops ==
  ASSUME DropInv, UNCHANGED <<_DB_ReqCnt, dropped, db>>, \A s \in Sessions : Gone(s) => Gone(s)'
  PROVE  DropInv'
<1>1. Busy' = Busy
  BY DEF Busy
<1>2. Sum(dropped)' = Sum(dropped)
  BY DEF Sum, FoldFunction, FoldFunctionOnSet, MapThenFoldSet
<1> QED
  BY <1>1, <1>2 DEF DropInv

LEMMA DropOthers ==
  ASSUME TypeOK, DropInv,
         UNCHANGED vars \/ Tick \/ AuthThread \/ \E s \in Sessions : Callback(s) \/ Client(s)
  PROVE  DropInv'
<1> USE DEF tables, queues, login, client, lan, Disconnect
<1>n. net \in [Sessions -> {"new", "accept", "open", "closed", "found", "missed", "released"}]
  BY DEF TypeOK
<1>h. UNCHANGED db => \A s : Here("putAuth", s)' = Here("putAuth", s)
  BY DEF Here
<1>1. CASE UNCHANGED vars \/ Tick
  <2>1. UNCHANGED <<_DB_ReqCnt, dropped, db, auth, net>>
    BY <1>1 DEF vars, Tick
  <2> QED
    BY <1>h, <2>1, SameDrops DEF Gone
<1>2. CASE AuthThread
  <2>1. UNCHANGED <<_DB_ReqCnt, dropped, db, auth>>
    BY <1>2 DEF AuthThread, AuthGoesOn, AuthPop, REQ_LOGIN, REQ_ECHO, RES_ECHO, BadPacket, HeartBeatTime,
       HeartBeatWait, HeartBeatAuth, HeartBeat
  <2>2. \A s \in Sessions : net'[s] = net[s] \/ net[s] = "open"
    BY <1>2 DEF AuthThread, AuthGoesOn, AuthPop, REQ_LOGIN, REQ_ECHO, RES_ECHO, BadPacket, HeartBeatTime,
       HeartBeatWait, HeartBeatAuth, HeartBeat
  <2> QED
    BY <1>h, <2>1, <2>2, SameDrops DEF Gone
<1>3. ASSUME NEW s \in Sessions, Callback(s) \/ Client(s) PROVE DropInv'
  <2>1. UNCHANGED <<_DB_ReqCnt, dropped, db>>
    BY <1>3 DEF Callback, Client, OnAccept, OnAcceptInsert, OnRecv, Leave, OnReleaseWait, OnReleaseAuth
  <2>2. CASE OnReleaseAuth(s)
    <3>1. auth' = Erase(auth, s) /\ net' = [net EXCEPT ![s] = "released"]
      BY <2>2 DEF OnReleaseAuth
    <3>2. DOMAIN auth' = DOMAIN auth \ {s}
      BY <3>1 DEF Erase
    <3> QED
      BY <1>n, <1>h, <2>1, <3>1, <3>2, SameDrops DEF Gone
  <2>3. CASE ~ OnReleaseAuth(s)
    <3>1. /\ UNCHANGED auth
          /\ \A r \in Sessions : net'[r] = net[r] \/ net[r] \notin {"found", "missed", "released"}
      BY <1>3, <1>n, <2>3 DEF Callback, Client, OnAccept, OnAcceptInsert, OnRecv, Leave, OnReleaseWait
    <3> QED
      BY <1>h, <2>1, <3>1, SameDrops DEF Gone
  <2> QED
    BY <2>2, <2>3
<1> QED
  BY <1>1, <1>2, <1>3

\* The count follows the DB workers and the requests they drop.
LEMMA CountStep ==
  ASSUME TypeOK, DropInv, NEW d \in DBThreads, Moves(d), NEW s \in Sessions,
         \/ /\ dropped' = dropped
            /\ _DB_ReqCnt' = _DB_ReqCnt - In(db[d] # Idle) + In(db'[d] # Idle)
         \/ /\ dropped' = [dropped EXCEPT ![s] = @ + 1] /\ _DB_ReqCnt' = _DB_ReqCnt
            /\ db[d] # Idle /\ db'[d] = Idle
  PROVE  (_DB_ReqCnt = Cardinality(Busy) + Sum(dropped))'
<1>1. dropped \in [Sessions -> Nat] /\ IsFiniteSet(Sessions)
  BY LoginServerAssumption DEF TypeOK
<1>2. PICK n \in Nat : n = Sum(dropped)
  BY <1>1, SumIsNat
<1>3. _DB_ReqCnt = Cardinality(Busy) + n
  BY <1>2 DEF DropInv
<1>4. PICK f : f = dropped'
  OBVIOUS
<1>5. Sum(dropped)' = Sum(f)
  BY <1>4 DEF Sum, FoldFunction, FoldFunctionOnSet, MapThenFoldSet
<1>6. CASE dropped' = dropped
  <2>1. Sum(f) = n
    BY <1>2, <1>4, <1>6
  <2>2. _DB_ReqCnt' = _DB_ReqCnt - In(db[d] # Idle) + In(db'[d] # Idle)
    <3>1. dropped' # [dropped EXCEPT ![s] = @ + 1]
      BY <1>1, <1>6
    <3> QED
      BY <3>1
  <2> QED
    BY <1>3, <1>5, <2>1, <2>2, BusyStep DEF In
<1>7. CASE dropped' # dropped
  <2>1. f = [dropped EXCEPT ![s] = @ + 1] /\ _DB_ReqCnt' = _DB_ReqCnt /\ db[d] # Idle /\ db'[d] = Idle
    BY <1>4, <1>7
  <2>2. DOMAIN f = Sessions /\ \A y \in Sessions : f[y] = IF y = s THEN dropped[y] + 1 ELSE dropped[y]
    BY <1>1, <2>1
  <2>3. Sum(f) = n + 1
    BY <1>1, <1>2, <2>2, SumGrows
  <2> QED
    BY <1>3, <1>5, <2>1, <2>3, BusyStep DEF In
<1> QED
  BY <1>6, <1>7

\* The callers of a request that is dropped are gone or logged in.
LEMMA DropWorker ==
  ASSUME TypeOK, OneEach, Known, DropInv, NEW d \in DBThreads, DBworkerThread(d)
  PROVE  DropInv'
<1> USE DEF tables, queues, login, client, lan
<1> DEFINE s == db[d].own
           At(l) == [at |-> l, own |-> s, accountNo |-> db[d].accountNo]
<1>f. dropped \in [Sessions -> Nat]
  BY DEF TypeOK
<1>n. net' = net
  BY DEF DBworkerThread, DBTake, WaitDB, TakeFromWait, PutIntoAuth, Redis, LoginFails, RES_LOGIN
\* A session stays gone
<1>g. ASSUME Moves(d), auth' = auth, db[d].at # "putAuth"
      PROVE  \A r : Gone(r) => Gone(r)'
  <2>1. \A r : Here("putAuth", r) \subseteq Here("putAuth", r)'
    BY <1>g DEF Moves, Here
  <2> QED
    BY <1>g, <1>n, <2>1 DEF Gone
\* A step that drops nothing, and one that drops the request
<1>a. ASSUME Moves(d), dropped' = dropped, \A r \in Sessions : Gone(r) => Gone(r)',
             _DB_ReqCnt' = _DB_ReqCnt - In(db[d] # Idle) + In(db'[d] # Idle), NEW t \in Sessions
      PROVE  DropInv'
  <2>1. (_DB_ReqCnt = Cardinality(Busy) + Sum(dropped))'
    BY <1>a, CountStep
  <2> QED
    BY <1>a, <2>1 DEF DropInv
<1>b. ASSUME NEW l, Moved(d, l, Idle), l # "putAuth", s \notin DOMAIN wait, auth' = auth,
             dropped' = [dropped EXCEPT ![s] = @ + 1], _DB_ReqCnt' = _DB_ReqCnt
      PROVE  DropInv'
  <2>1. s \in Sessions /\ Moves(d) /\ db[d] # Idle /\ db'[d] = Idle /\ db[d].at # "putAuth"
    BY <1>b DEF Moved
  <2>2. (_DB_ReqCnt = Cardinality(Busy) + Sum(dropped))'
    BY <1>b, <2>1, CountStep
  <2>3. Gone(s)
    <3>1. Met(s)
      BY <2>1 DEF Known
    <3>2. CASE Stays(net[s])
      BY <1>b, <2>1, <3>2, HereFinite DEF OneEach, In, Gone
    <3>3. CASE ~ Stays(net[s])
      BY <2>1, <3>1, <3>3 DEF Met, Stays, Gone, TypeOK
    <3> QED
      BY <3>2, <3>3
  <2>4. \A r : Gone(r) => Gone(r)'
    BY <1>b, <1>g, <2>1
  <2>5. \A r \in Sessions : dropped'[r] > 0 => r = s \/ dropped[r] > 0
    BY <1>b, <1>f
  <2> HIDE DEF s
  <2>6. \A r \in Sessions : dropped'[r] > 0 => Gone(r)'
    BY <2>3, <2>4, <2>5 DEF DropInv
  <2> QED
    BY <2>2, <2>6 DEF DropInv
<1>c. ASSUME NEW from, NEW to \in Request, Moved(d, from, to), from # "putAuth", auth' = auth,
             dropped' = dropped, _DB_ReqCnt' = _DB_ReqCnt
      PROVE  DropInv'
  <2>1. Moves(d) /\ db[d].at # "putAuth" /\ db[d] # Idle /\ db'[d] # Idle /\ s \in Sessions
    BY <1>c DEF Moved, Request, Idle
  <2>2. _DB_ReqCnt' = _DB_ReqCnt - In(db[d] # Idle) + In(db'[d] # Idle)
    BY <1>c, <2>1 DEF In, TypeOK
  <2>3. \A r \in Sessions : Gone(r) => Gone(r)'
    BY <1>c, <1>g, <2>1
  <2> QED
    BY <1>a, <1>c, <2>1, <2>2, <2>3
<1>1. CASE DBTake(d)
  <2>1. /\ db[d] = Idle /\ db' = [db EXCEPT ![d] = [at |-> "WaitDB", own |-> Head(dbIocp), accountNo |-> 0]]
        /\ dbIocp # <<>> /\ _DB_ReqCnt' = _DB_ReqCnt + 1 /\ dropped' = dropped /\ auth' = auth
    BY <1>1 DEF DBTake
  <2>2. Moves(d) /\ db'[d] # Idle /\ db[d].at # "putAuth" /\ Head(dbIocp) \in Sessions
    BY <2>1 DEF Moves, TypeOK, Idle
  <2>3. _DB_ReqCnt' = _DB_ReqCnt - In(db[d] # Idle) + In(db'[d] # Idle)
    BY <2>1, <2>2 DEF In, TypeOK
  <2>4. \A r \in Sessions : Gone(r) => Gone(r)'
    BY <1>g, <2>1, <2>2
  <2> QED
    BY <1>a, <2>1, <2>2, <2>3, <2>4
<1>2. CASE WaitDB(d)
  <2>1. PICK to \in Request : to.at \in {"takeWait", "failed"} /\ Moved(d, "WaitDB", to)
    BY <1>2, WorkerMoves
  <2>2. UNCHANGED <<auth, dropped, _DB_ReqCnt>>
    BY <1>2 DEF WaitDB
  <2> QED
    BY <1>c, <2>1, <2>2
<1>3. CASE TakeFromWait(d)
  <2>1. /\ Moved(d, "takeWait", IF s \in DOMAIN wait THEN At("putAuth") ELSE Idle)
        /\ At("putAuth") \in Request
    BY <1>3, WorkerMoves
  <2>2. /\ UNCHANGED <<auth, _DB_ReqCnt>>
        /\ dropped' = IF s \in DOMAIN wait THEN dropped ELSE [dropped EXCEPT ![s] = @ + 1]
    BY <1>3 DEF TakeFromWait, Drop
  <2> HIDE DEF s, At
  <2> QED
    BY <1>b, <1>c, <2>1, <2>2
<1>4. CASE PutIntoAuth(d)
  <2>1. /\ Moved(d, "putAuth", IF s \in DOMAIN auth THEN Idle ELSE At("redis"))
        /\ s \notin DOMAIN auth => auth' = Put(auth, s, now) /\ dropped' = dropped
        /\ _DB_ReqCnt' = _DB_ReqCnt
    BY <1>4, WorkerMoves DEF PutIntoAuth
  <2>2. db[d].at = "putAuth" /\ s \in Sessions /\ Moves(d) /\ db[d] # Idle
    BY <2>1 DEF Moved
  <2>3. Cardinality(Here("putAuth", s)) >= 1
    BY <2>2, HereStep DEF In
  <2>4. s \notin DOMAIN auth
    BY <2>2, <2>3 DEF OneEach, In, Stays
  <2>5. db'[d] = At("redis") /\ DOMAIN auth' = DOMAIN auth \cup {s} /\ dropped' = dropped
    BY <2>1, <2>4 DEF Moved, Put
  <2>6. \A r : r # s => Here("putAuth", r) \subseteq Here("putAuth", r)'
    BY <2>2 DEF Moves, Here
  <2>7. \A r \in Sessions : Gone(r) => Gone(r)'
    BY <1>n, <2>5, <2>6 DEF Gone
  <2>8. _DB_ReqCnt' = _DB_ReqCnt - In(db[d] # Idle) + In(db'[d] # Idle)
    BY <2>1, <2>2, <2>5 DEF In, TypeOK, Idle
  <2> QED
    BY <1>a, <2>2, <2>5, <2>7, <2>8
<1>5. CASE Redis(d)
  <2>1. /\ Moved(d, "redis", At("OK"))
        /\ At("OK") \in Request
    BY <1>5, WorkerMoves
  <2>2. UNCHANGED <<auth, dropped, _DB_ReqCnt>>
    BY <1>5 DEF Redis
  <2> QED
    BY <1>c, <2>1, <2>2
<1>6. CASE LoginFails(d)
  <2>1. /\ Moved(d, "failed", IF s \in DOMAIN wait THEN At("RES_LOGIN") ELSE Idle)
        /\ At("RES_LOGIN") \in Request
    BY <1>6, WorkerMoves
  <2>2. /\ UNCHANGED <<auth, _DB_ReqCnt>>
        /\ dropped' = IF s \in DOMAIN wait THEN dropped ELSE [dropped EXCEPT ![s] = @ + 1]
    BY <1>6 DEF LoginFails, Drop
  <2> HIDE DEF s, At
  <2> QED
    BY <1>b, <1>c, <2>1, <2>2
<1>7. CASE RES_LOGIN(d)
  <2>1. Moved(d, db[d].at, Idle) /\ db[d].at # "putAuth"
    BY <1>7, WorkerMoves DEF RES_LOGIN
  <2>2. UNCHANGED <<auth, dropped>> /\ _DB_ReqCnt' = _DB_ReqCnt - 1
    BY <1>7 DEF RES_LOGIN
  <2>3. Moves(d) /\ s \in Sessions /\ db[d] # Idle /\ db'[d] = Idle
    BY <2>1 DEF Moved
  <2>4. _DB_ReqCnt' = _DB_ReqCnt - In(db[d] # Idle) + In(db'[d] # Idle)
    BY <2>2, <2>3 DEF In, TypeOK
  <2>5. \A r \in Sessions : Gone(r) => Gone(r)'
    BY <1>g, <2>1, <2>2, <2>3
  <2> QED
    BY <1>a, <2>2, <2>3, <2>4, <2>5
<1> QED
  BY <1>1, <1>2, <1>3, <1>4, <1>5, <1>6, <1>7 DEF DBworkerThread

LEMMA DropInit == Init => Known /\ DropInv
<1> SUFFICES ASSUME Init PROVE Known /\ DropInv
  OBVIOUS
<1>1. Known
  BY DEF Init, Known, Waits
<1>2. Busy = {} /\ _DB_ReqCnt = 0 /\ dropped = [s \in Sessions |-> 0]
  BY DEF Init, Busy
<1>3. Sum(dropped) = 0 /\ Cardinality(Busy) = 0
  BY <1>2, LoginServerAssumption, SumOfZeros, FS_EmptySet
<1> QED
  BY <1>1, <1>2, <1>3 DEF DropInv

LEMMA DropNext == TypeOK /\ OnePlace /\ Known /\ DropInv /\ [Next]_vars => DropInv'
<1> SUFFICES ASSUME TypeOK, OnePlace, Known, DropInv, [Next]_vars PROVE DropInv'
  OBVIOUS
<1>1. ASSUME NEW d \in DBThreads, DBworkerThread(d), Up PROVE DropInv'
  BY <1>1, OnePlaceIs, DropWorker
<1> QED
  BY <1>1, DropOthers DEF Next

\* The monitor's count is that of the requests at work and those dropped for ever, and a
\* request is dropped only when its session is logged in or on its way there, or gone.
THEOREM DroppedIsGoneHolds == Spec => []DroppedIsGone
<1>1. Init => TypeOK /\ Counted /\ OnePlace /\ Known /\ DropInv
  BY TypeInit, OneInit, DropInit
<1>2. TypeOK /\ Counted /\ OnePlace /\ Known /\ DropInv /\ [Next]_vars
        => (TypeOK /\ Counted /\ OnePlace /\ Known /\ DropInv)'
  BY TypeNext, OneNext, KnownNext, DropNext
<1>3. DropInv => DroppedIsGone
  BY DEF DropInv, DroppedIsGone, Gone, Here, Moving, Busy, Sum
<1> QED
  BY <1>1, <1>2, <1>3, PTL DEF Spec

=============================================================================
