------------------------ MODULE LockFreeQueue_proofs ------------------------
(***************************************************************************)
(* Theorems about LockFreeQueue, for any number of threads and of calls,   *)
(* while a tag does not come back: no more messages than tags.             *)
(***************************************************************************)
EXTENDS LockFreeQueue, FiniteSetTheorems, SequenceTheorems, TLAPS

-----------------------------------------------------------------------------
(* The lists of nodes *)

Free    == <<"free", 0>>
Queued  == <<"queue", 0>>
Hand(t) == <<"hand", t>>
Places  == {Free, Queued} \cup {Hand(t) : t \in Threads}

\* The nodes at every place, in the order of their links
Lists == [Places -> Seq(Nodes)]

\* The length, by a name of its own that keeps the provers from looking inside
Size(s) == Len(s)

In(n, s) == \E i \in 1 .. Size(s) : s[i] = n

\* Each of k nodes is in one list, once.
Once(L, k) ==
  /\ \A X \in Places : \A i \in 1 .. Size(L[X]) : L[X][i] \in 1 .. k
  /\ \A X, Y \in Places : \A i \in 1 .. Size(L[X]), j \in 1 .. Size(L[Y]) :
       L[X][i] = L[Y][j] => X = Y /\ i = j
  /\ \A n \in 1 .. k : \E X \in Places : In(n, L[X])

LEMMA AllPlaces ==
  /\ Free \in Places /\ Queued \in Places /\ Free # Queued
  /\ \A t \in Threads : Hand(t) \in Places /\ Hand(t) # Free /\ Hand(t) # Queued
  /\ \A t, u \in Threads : Hand(t) = Hand(u) => t = u
  /\ \A X \in Places : X = Free \/ X = Queued \/ \E t \in Threads : X = Hand(t)
BY DEF Places, Free, Queued, Hand

LEMMA Sizes ==
  /\ Spare \in Nat /\ MaxPushes \in Nat /\ Tags \in Nat /\ Spare + MaxPushes < Tags
  /\ Dummy \in Nat /\ Dummy > 1 /\ Dummy \notin Nodes /\ Nodes \subseteq 1 .. Dummy - 1
  /\ Null = 0 /\ Nothing \in Ptr /\ Addr(Nothing) = 0 /\ Tag(Nothing) = 0
BY LockFreeQueueAssumption DEF Dummy, Nodes, Null, Nothing, Ptr, Addr, Tag

LEMMA Ptrs ==
  /\ \A p \in Ptr : Addr(p) \in 0 .. Dummy /\ Tag(p) \in 0 .. Tags - 1
  /\ \A p, r \in Ptr : Addr(p) = Addr(r) /\ Tag(p) = Tag(r) => p = r
  /\ \A g \in 0 .. Tags - 1, n \in 0 .. Dummy :
       <<g, n>> \in Ptr /\ Addr(<<g, n>>) = n /\ Tag(<<g, n>>) = g
BY DEF Ptr, Addr, Tag

LEMMA Listed ==
  ASSUME NEW L \in Lists, NEW X \in Places
  PROVE  /\ L[X] \in Seq(Nodes) /\ Size(L[X]) \in Nat
         /\ \A i \in 1 .. Size(L[X]) : L[X][i] \in Nodes
BY DEF Lists, Size

Follows(s, a, b) ==
  /\ Size(s) = Size(a) + Size(b)
  /\ \A i \in 1 .. Size(a) : s[i] = a[i]
  /\ \A i \in 1 .. Size(b) : s[Size(a) + i] = b[i]

LEMMA Concatenated ==
  ASSUME NEW a \in Seq(Nodes), NEW b \in Seq(Nodes)
  PROVE  a \o b \in Seq(Nodes) /\ Follows(a \o b, a, b)
<1> DEFINE s == a \o b
<1>1. Size(a) \in Nat /\ Size(b) \in Nat
  BY DEF Size
<1>2. /\ s \in Seq(Nodes) /\ Size(s) = Size(a) + Size(b)
      /\ \A i \in 1 .. Size(a) + Size(b) : s[i] = IF i <= Size(a) THEN a[i] ELSE b[i - Size(a)]
  BY ConcatProperties DEF Size
<1> HIDE DEF s
<1>3. \A i \in 1 .. Size(a) : s[i] = a[i]
  BY <1>1, <1>2
<1>4. ASSUME NEW i \in 1 .. Size(b) PROVE s[Size(a) + i] = b[i]
  <2>1. Size(a) + i \in 1 .. Size(a) + Size(b) /\ ~(Size(a) + i <= Size(a)) /\ (Size(a) + i) - Size(a) = i
    BY <1>1
  <2> QED
    BY <1>2, <2>1
<1>5. s \in Seq(Nodes) /\ Follows(s, a, b)
  BY <1>2, <1>3, <1>4 DEF Follows
<1> QED
  BY <1>5 DEF s

\* One list goes behind another.
IsJoin(L, M, X, Y, A, B) ==
  /\ X \in Places /\ Y \in Places /\ X # Y
  /\ A \in {X, Y} /\ B \in {X, Y} /\ A # B
  /\ M \in Lists /\ Follows(M[X], L[A], L[B]) /\ Size(M[Y]) = 0
  /\ \A Z \in Places : Z # X /\ Z # Y => M[Z] = L[Z]

LEMMA JoinedOnce ==
  ASSUME NEW k \in Nat, NEW L \in Lists, Once(L, k),
         NEW X, NEW Y, NEW A, NEW B, NEW M, IsJoin(L, M, X, Y, A, B)
  PROVE  Once(M, k)
<1> USE DEF IsJoin
<1>2. Size(L[A]) \in Nat /\ Size(L[B]) \in Nat
  BY Listed
\* Where a node of M was
<1> DEFINE Old(Z, i, W, j) ==
             /\ W \in Places /\ j \in 1 .. Size(L[W]) /\ M[Z][i] = L[W][j]
             /\ Z # X => W = Z /\ i = j
             /\ Z = X /\ W = A => i = j
             /\ Z = X /\ W # A => W = B /\ i = Size(L[A]) + j
<1>7. ASSUME NEW Z \in Places, NEW i \in 1 .. Size(M[Z]) PROVE \E W, j : Old(Z, i, W, j)
  <2>1. CASE Z # X
    <3>1. Z # Y
      OBVIOUS
    <3>2. M[Z] = L[Z]
      BY <2>1, <3>1
    <3>3. Old(Z, i, Z, i)
      BY <2>1, <3>2
    <3> QED
      BY <3>3
  <2>2. CASE Z = X
    <3>1. i \in 1 .. Size(L[A]) + Size(L[B])
      BY <2>2 DEF Follows
    <3>2. CASE i <= Size(L[A])
      <4>1. M[X][i] = L[A][i] /\ i \in 1 .. Size(L[A])
        BY <1>2, <3>1, <3>2 DEF Follows
      <4>2. Old(Z, i, A, i)
        BY <2>2, <4>1
      <4> QED
        BY <4>2
    <3>3. CASE ~(i <= Size(L[A]))
      <4>1. PICK j \in 1 .. Size(L[B]) : i = Size(L[A]) + j
        <5>1. i - Size(L[A]) \in 1 .. Size(L[B]) /\ i = Size(L[A]) + (i - Size(L[A]))
          BY <1>2, <3>1, <3>3
        <5> QED
          BY <5>1
      <4>2. M[X][i] = L[B][j]
        BY <4>1 DEF Follows
      <4>3. Old(Z, i, B, j)
        BY <2>2, <4>1, <4>2
      <4> QED
        BY <4>3
    <3> QED
      BY <3>2, <3>3
  <2> QED
    BY <2>1, <2>2
<1>8. \A Z \in Places : \A i \in 1 .. Size(M[Z]) : M[Z][i] \in 1 .. k
  <2> SUFFICES ASSUME NEW Z \in Places, NEW i \in 1 .. Size(M[Z]) PROVE M[Z][i] \in 1 .. k
    OBVIOUS
  <2>1. PICK W, j : Old(Z, i, W, j)
    BY <1>7
  <2> QED
    BY <2>1 DEF Once
<1>9. ASSUME NEW Z \in Places, NEW V \in Places, NEW i \in 1 .. Size(M[Z]), NEW j \in 1 .. Size(M[V]),
             M[Z][i] = M[V][j]
      PROVE  Z = V /\ i = j
  <2>1. PICK Zo, io : Old(Z, i, Zo, io)
    BY <1>7
  <2>2. PICK Vo, jo : Old(V, j, Vo, jo)
    BY <1>7
  <2>3. Zo = Vo /\ io = jo
    <3>1. L[Zo][io] = L[Vo][jo]
      BY <1>9, <2>1, <2>2
    <3> QED
      BY <2>1, <2>2, <3>1 DEF Once
  <2>4. Z # Y /\ V # Y
    OBVIOUS
  <2>6. CASE Z = X /\ V = X
    BY <2>1, <2>2, <2>3, <2>6
  <2>7. CASE Z # X /\ V # X
    BY <2>1, <2>2, <2>3, <2>7
  <2>8. CASE Z = X /\ V # X
    BY <2>1, <2>2, <2>3, <2>4, <2>8
  <2>9. CASE Z # X /\ V = X
    BY <2>1, <2>2, <2>3, <2>4, <2>9
  <2> QED
    BY <2>6, <2>7, <2>8, <2>9
<1> HIDE DEF Old
<1>10. ASSUME NEW n \in 1 .. k PROVE \E Z \in Places : In(n, M[Z])
  <2>1. PICK Z \in Places : \E i \in 1 .. Size(L[Z]) : L[Z][i] = n
    BY DEF Once, In
  <2> PICK i \in 1 .. Size(L[Z]) : L[Z][i] = n
    BY <2>1
  <2>2. CASE Z # X /\ Z # Y
    BY <2>2 DEF In
  <2>3. CASE Z = A
    <3>1. i \in 1 .. Size(M[X]) /\ M[X][i] = n
      BY <1>2, <2>3 DEF Follows
    <3> QED
      BY <3>1 DEF In
  <2>4. CASE Z = B
    <3>1. i + Size(L[A]) \in 1 .. Size(M[X]) /\ M[X][Size(L[A]) + i] = n
      BY <1>2, <2>4 DEF Follows
    <3> QED
      BY <1>2, <3>1 DEF In
  <2> QED
    BY <2>2, <2>3, <2>4
<1> QED
  BY <1>8, <1>9, <1>10 DEF Once

LEMMA Joined ==
  ASSUME NEW k \in Nat, NEW L \in Lists, Once(L, k),
         NEW X \in Places, NEW Y \in Places, X # Y,
         NEW A \in {X, Y}, NEW B \in {X, Y}, A # B
  PROVE  \E M \in Lists : /\ Once(M, k) /\ Follows(M[X], L[A], L[B]) /\ Size(M[Y]) = 0
                          /\ \A Z \in Places : Z # X /\ Z # Y => M[Z] = L[Z]
<1> DEFINE s == L[A] \o L[B]
           e == <<>>
<1>1. L[A] \in Seq(Nodes) /\ L[B] \in Seq(Nodes)
  BY Listed
<1>2. s \in Seq(Nodes) /\ Follows(s, L[A], L[B])
  BY <1>1, Concatenated
<1>3. e \in Seq(Nodes) /\ Size(e) = 0
  BY DEF Size
<1> HIDE DEF s, e
<1>4. PICK M : M = [L EXCEPT ![X] = s, ![Y] = e]
  OBVIOUS
<1>5. M \in Lists /\ M[X] = s /\ M[Y] = e /\ \A Z \in Places : Z # X /\ Z # Y => M[Z] = L[Z]
  BY <1>2, <1>3, <1>4 DEF Lists
<1>6. IsJoin(L, M, X, Y, A, B)
  BY <1>2, <1>3, <1>5 DEF IsJoin
<1>7. Once(M, k)
  BY <1>6, JoinedOnce
<1> QED
  BY <1>6, <1>7 DEF IsJoin

\* The first node of a list goes to an empty place.
IsTake(L, M, X, Y) ==
  /\ X \in Places /\ Y \in Places /\ X # Y
  /\ Size(L[X]) # 0 /\ Size(L[Y]) = 0
  /\ M \in Lists /\ Follows(L[X], M[Y], M[X]) /\ Size(M[Y]) = 1
  /\ \A Z \in Places : Z # X /\ Z # Y => M[Z] = L[Z]

LEMMA TakenOnce ==
  ASSUME NEW k \in Nat, NEW L \in Lists, Once(L, k), NEW X, NEW Y, NEW M, IsTake(L, M, X, Y)
  PROVE  Once(M, k)
<1> USE DEF IsTake
<1>1. Size(L[X]) \in Nat /\ Size(M[X]) \in Nat
  BY Listed
<1>2. /\ Size(L[X]) = 1 + Size(M[X]) /\ M[Y][1] = L[X][1]
      /\ \A i \in 1 .. Size(M[X]) : 1 + i \in 1 .. Size(L[X]) /\ M[X][i] = L[X][1 + i]
  BY <1>1 DEF Follows
<1> DEFINE Old(Z, i, W, j) ==
             /\ W \in Places /\ j \in 1 .. Size(L[W]) /\ M[Z][i] = L[W][j]
             /\ Z = X => W = X /\ j = 1 + i
             /\ Z = Y => W = X /\ j = 1 /\ i = 1
             /\ Z # X /\ Z # Y => W = Z /\ j = i
<1>8. ASSUME NEW Z \in Places, NEW i \in 1 .. Size(M[Z]) PROVE \E W, j : Old(Z, i, W, j)
  <2>1. CASE Z = X
    <3>3. Old(Z, i, X, 1 + i)
      BY <1>2, <2>1
    <3> QED
      BY <3>3
  <2>2. CASE Z = Y
    <3>1. i = 1 /\ 1 \in 1 .. Size(L[X])
      BY <1>1, <1>2, <2>2
    <3>2. Old(Z, i, X, 1)
      BY <1>2, <2>2, <3>1
    <3> QED
      BY <3>2
  <2>3. CASE Z # X /\ Z # Y
    <3>1. Old(Z, i, Z, i)
      BY <2>3
    <3> QED
      BY <3>1
  <2> QED
    BY <2>1, <2>2, <2>3
<1>9. \A Z \in Places : \A i \in 1 .. Size(M[Z]) : M[Z][i] \in 1 .. k
  <2> SUFFICES ASSUME NEW Z \in Places, NEW i \in 1 .. Size(M[Z]) PROVE M[Z][i] \in 1 .. k
    OBVIOUS
  <2>1. PICK W, j : Old(Z, i, W, j)
    BY <1>8
  <2> QED
    BY <2>1 DEF Once
<1>10. ASSUME NEW Z \in Places, NEW V \in Places, NEW i \in 1 .. Size(M[Z]), NEW j \in 1 .. Size(M[V]),
             M[Z][i] = M[V][j]
      PROVE  Z = V /\ i = j
  <2>1. PICK Zo, io : Old(Z, i, Zo, io)
    BY <1>8
  <2>2. PICK Vo, jo : Old(V, j, Vo, jo)
    BY <1>8
  <2>3. Zo = Vo /\ io = jo
    <3>1. L[Zo][io] = L[Vo][jo]
      BY <1>10, <2>1, <2>2
    <3> QED
      BY <2>1, <2>2, <3>1 DEF Once
  <2>4. i \in Nat \ {0} /\ j \in Nat \ {0}
    OBVIOUS
  <2>5. Zo # Y
    BY <2>1
  <2> QED
    BY <2>1, <2>2, <2>3, <2>4, <2>5
<1> HIDE DEF Old
<1>11. ASSUME NEW n \in 1 .. k PROVE \E Z \in Places : In(n, M[Z])
  <2>1. PICK Z \in Places : \E i \in 1 .. Size(L[Z]) : L[Z][i] = n
    BY DEF Once, In
  <2> PICK i \in 1 .. Size(L[Z]) : L[Z][i] = n
    BY <2>1
  <2>2. CASE Z = X /\ i = 1
    BY <1>2, <2>2 DEF In
  <2>3. CASE Z = X /\ i # 1
    <3>1. i - 1 \in 1 .. Size(M[X]) /\ i = 1 + (i - 1)
      BY <1>1, <1>2, <2>3
    <3> QED
      BY <1>2, <2>3, <3>1 DEF In
  <2>4. CASE Z # X
    <3>1. Z # Y
      OBVIOUS
    <3> QED
      BY <2>4, <3>1 DEF In
  <2> QED
    BY <2>2, <2>3, <2>4
<1> QED
  BY <1>9, <1>10, <1>11 DEF Once

LEMMA Taken ==
  ASSUME NEW k \in Nat, NEW L \in Lists, Once(L, k), NEW X \in Places, NEW Y \in Places, X # Y,
         Size(L[X]) # 0, Size(L[Y]) = 0
  PROVE  \E M \in Lists : /\ Once(M, k) /\ Size(M[Y]) = 1 /\ M[Y][1] = L[X][1]
                          /\ Follows(L[X], M[Y], M[X])
                          /\ \A Z \in Places : Z # X /\ Z # Y => M[Z] = L[Z]
<1> DEFINE s == Tail(L[X])
           r == <<L[X][1]>>
<1>1. L[X] \in Seq(Nodes) /\ Size(L[X]) \in Nat \ {0} /\ L[X][1] \in Nodes
  BY Listed
<1>2. L[X] # <<>>
  BY <1>1 DEF Size
<1>3. s \in Seq(Nodes) /\ Size(s) = Size(L[X]) - 1 /\ \A i \in 1 .. Size(s) : s[i] = L[X][i + 1]
  BY <1>1, <1>2, HeadTailProperties DEF Size
<1>4. r \in Seq(Nodes) /\ Size(r) = 1 /\ r[1] = L[X][1]
  BY <1>1 DEF Size
<1> HIDE DEF s, r
<1>5. PICK M : M = [L EXCEPT ![X] = s, ![Y] = r]
  OBVIOUS
<1>6. M \in Lists /\ M[X] = s /\ M[Y] = r /\ \A Z \in Places : Z # X /\ Z # Y => M[Z] = L[Z]
  BY <1>3, <1>4, <1>5 DEF Lists
<1>7. Follows(L[X], r, s)
  <2> \A i \in 1 .. Size(s) : s[i] = L[X][1 + i]
    <3>1. \A i \in 1 .. Size(s) : i + 1 = 1 + i
      BY <1>1, <1>3
    <3> QED
      BY <1>3, <3>1
  <2> QED
    BY <1>1, <1>3, <1>4 DEF Follows
<1>8. Follows(L[X], M[Y], M[X]) /\ Size(M[Y]) = 1
  BY <1>4, <1>6, <1>7
<1>9. IsTake(L, M, X, Y)
  BY <1>1, <1>6, <1>8 DEF IsTake
<1>10. Once(M, k)
  BY <1>9, TakenOnce
<1> QED
  BY <1>4, <1>6, <1>8, <1>10

\* A node that was not there goes to an empty place.
LEMMA Made ==
  ASSUME NEW k \in Nat, k + 1 \in Nodes, NEW L \in Lists, Once(L, k), NEW Y \in Places, Size(L[Y]) = 0
  PROVE  \E M \in Lists : /\ Once(M, k + 1) /\ Size(M[Y]) = 1 /\ M[Y][1] = k + 1
                          /\ \A Z \in Places : Z # Y => M[Z] = L[Z]
<1> DEFINE r == <<k + 1>>
<1>0. r \in Seq(Nodes) /\ Size(r) = 1 /\ r[1] = k + 1
  BY DEF Size
<1> HIDE DEF r
<1>a. PICK M : M = [L EXCEPT ![Y] = r]
  OBVIOUS
<1>1. M \in Lists /\ M[Y] = r /\ \A Z \in Places : Z # Y => M[Z] = L[Z]
  BY <1>0, <1>a DEF Lists
<1>2. \A Z \in Places : \A i \in 1 .. Size(M[Z]) :
        \/ Z # Y /\ i \in 1 .. Size(L[Z]) /\ M[Z][i] = L[Z][i] /\ M[Z][i] \in 1 .. k
        \/ Z = Y /\ i = 1 /\ M[Z][i] = k + 1
  BY <1>0, <1>1 DEF Once
<1>3. \A Z \in Places : \A i \in 1 .. Size(M[Z]) : M[Z][i] \in 1 .. k + 1
  BY <1>2
<1>4. ASSUME NEW Z \in Places, NEW i \in 1 .. Size(M[Z]), NEW V \in Places, NEW j \in 1 .. Size(M[V]),
             M[Z][i] = M[V][j]
      PROVE  Z = V /\ i = j
  BY <1>2, <1>4 DEF Once
<1>5. ASSUME NEW n \in 1 .. k + 1 PROVE \E Z \in Places : In(n, M[Z])
  <2>1. CASE n = k + 1
    BY <1>0, <1>1, <2>1 DEF In
  <2>2. CASE n # k + 1
    <3>1. PICK Z \in Places : \E i \in 1 .. Size(L[Z]) : L[Z][i] = n
      BY <2>2 DEF Once, In
    <3>2. Z # Y
      BY <3>1
    <3> QED
      BY <1>1, <3>1, <3>2 DEF In
  <2> QED
    BY <2>1, <2>2
<1> QED
  BY <1>0, <1>1, <1>3, <1>4, <1>5 DEF Once

-----------------------------------------------------------------------------
(* The invariant *)

Allocating == {"alloc", "readNext", "readSeq", "allocCAS"}
Holding    == Allocating \cup {"clear"}
Releasing  == {"release", "readFree", "hang", "releaseCAS"}
Handling   == Pending \cup Releasing \cup {"clear"}
Linking    == {"readTailNext", "helpTail", "link"}
HasOld     == {"readNext", "readSeq", "allocCAS"}
HasTail    == Linking \cup {"swing", "lastNext", "popHelps"}
HasHead    == {"readLast", "lastNext", "popHelps", "headNext", "readData", "popCAS"}

Labels == Handling \cup Allocating \cup HasTail \cup HasHead \cup {"idle", "empty", "readHead"}

\* The types, what no link is, and the counter of a node's versions.
Kinds ==
  /\ TypeOK /\ pc \in [Threads -> Labels]
  /\ \A n \in Nodes \cup {Dummy} : /\ _next[n] = Nothing \/ Addr(_next[n]) # Null
                                   /\ Addr(_seqAddress[n]) = n /\ Tag(_seqAddress[n]) <= poolSeq

FreeList(L) ==
  /\ \A i \in 1 .. Size(L[Free]) :
       _next[L[Free][i]] = <<0, IF i = Size(L[Free]) THEN Dummy ELSE L[Free][i + 1]>>
  /\ _top = _seqAddress[IF Size(L[Free]) = 0 THEN Dummy ELSE L[Free][1]]

\* w[n] is the pointer that n is linked by, with the tag it got in its last Push.
Chain(s, w) ==
  \A i \in 1 .. Size(s) : _next[s[i]] = IF i = Size(s) THEN Nothing ELSE w[s[i + 1]]

Main(L, w) ==
  /\ Size(L[Queued]) # 0 /\ Chain(L[Queued], w) /\ _head = w[L[Queued][1]]
  /\ \E i \in 1 .. Size(L[Queued]) : _tail = w[L[Queued][i]]

Names(w) == w \in [Nodes -> Ptr] /\ \A n \in Nodes : Addr(w[n]) = n /\ Tag(w[n]) <= seqNumber

HandOf(t, L, w) ==
  LET n == Addr(reg[t].node)
      c == L[Hand(t)]
  IN /\ pc[t] \in Pending => Size(c) # 0 /\ c[1] = n /\ Chain(c, w)
     /\ pc[t] \in Pending \ {"count"} => reg[t].node = w[n]
     /\ pc[t] \in Releasing \cup {"clear"} => Size(c) = 1 /\ c[1] = n
     /\ pc[t] \notin Handling => Size(c) = 0
     /\ pc[t] \in Releasing => _next[n] # Nothing
     /\ pc[t] \in Releasing \ {"release"} => reg[t].new = _seqAddress[n]
     /\ pc[t] \in {"hang", "releaseCAS"} => Addr(reg[t].old) # Null
     /\ pc[t] = "releaseCAS" => _next[n] = <<0, Addr(reg[t].old)>>

\* seen: the pointers that were in the queue at some time; no thread knows others
\* as its head or its tail.
Seen(L, w, seen) ==
  /\ seen \subseteq Ptr
  /\ \A p \in seen : Addr(p) \in 1 .. made /\ Tag(p) <= seqNumber
  /\ \A n \in Nodes : In(n, L[Queued]) => w[n] \in seen

HandUnseen(t, L, w, seen) ==
  /\ pc[t] \in Pending =>
       \A i \in 1 .. Size(L[Hand(t)]) : i # 1 \/ pc[t] # "count" => w[L[Hand(t)][i]] \notin seen
  /\ pc[t] = "clear" /\ _next[Addr(reg[t].node)] = Nothing =>
       \A p \in seen : Addr(p) # Addr(reg[t].node)

\* tops: the same for the pool and its top
Tops(L, tops) ==
  /\ tops \subseteq Ptr
  /\ \A p \in tops : Addr(p) \in 1 .. made /\ Tag(p) <= poolSeq
  /\ \A n \in Nodes : In(n, L[Free]) => _seqAddress[n] \in tops

HandUntopped(t, tops) == pc[t] \in Releasing \ {"release"} => reg[t].new \notin tops

IsFree(p, L)     == In(Addr(p), L[Free]) /\ _seqAddress[Addr(p)] = p
InQueue(p, L, w) == In(Addr(p), L[Queued]) /\ w[Addr(p)] = p

AllocLocals(t, L, tops) ==
  /\ pc[t] \in HasOld => reg[t].old \in tops
  /\ pc[t] = "readSeq" => Addr(reg[t].next) # Null
  /\ pc[t] = "readSeq" /\ IsFree(reg[t].old, L) => reg[t].next = _next[Addr(reg[t].old)]
  /\ pc[t] = "allocCAS" /\ IsFree(reg[t].old, L) =>
       reg[t].new = _seqAddress[Addr(_next[Addr(reg[t].old)])]

TailLocals(t, L, w, seen) ==
  /\ pc[t] \in HasTail => reg[t].tail \in seen
  /\ pc[t] \in {"helpTail", "popHelps"} => Addr(reg[t].next) # Null
  /\ pc[t] \in {"helpTail", "popHelps"} /\ InQueue(reg[t].tail, L, w) =>
       reg[t].next = _next[Addr(reg[t].tail)]
  /\ pc[t] = "swing" => Addr(reg[t].node) # Null
  /\ pc[t] = "swing" /\ InQueue(reg[t].tail, L, w) => reg[t].node = _next[Addr(reg[t].tail)]

HeadLocals(t, L, w, seen) ==
  /\ pc[t] \in HasHead => reg[t].head \in seen
  /\ pc[t] \in HasHead /\ InQueue(reg[t].head, L, w) => reg[t].head = _head
  /\ pc[t] \in {"lastNext", "popHelps"} => reg[t].head = reg[t].tail
  /\ pc[t] \in {"headNext", "readData", "popCAS"} /\ reg[t].head = _head => _tail # _head
  /\ pc[t] \in {"readData", "popCAS"} => Addr(reg[t].next) # Null
  /\ pc[t] \in {"readData", "popCAS"} /\ reg[t].head = _head => reg[t].next = _next[Addr(reg[t].head)]
  /\ pc[t] = "popCAS" /\ reg[t].head = _head => reg[t].msg = data[Addr(reg[t].next)]

\* A thread that may link its node behind one that another has in hand got its
\* tag first: nobody links a node behind itself.
Ordered(t, v, L) ==
  pc[t] \in Linking /\ pc[v] \in Pending \ {"count"} /\ In(Addr(reg[t].tail), L[Hand(v)])
  => Tag(reg[t].node) < Tag(reg[v].node)

\* at[m] is where message m is.
Taking(at) == \A i \in 1 .. Size(taken) : taken[i] \in 1 .. pushed /\ at[taken[i]] = <<"taken", i>>
Carried(n, at) == data[n] \in 1 .. pushed /\ at[data[n]] = <<"node", n>>
Queueing(L, at) == \A i \in 2 .. Size(L[Queued]) : Carried(L[Queued][i], at)
HandMsgs(t, L, at) ==
  /\ pc[t] \in Pending => \A i \in 1 .. Size(L[Hand(t)]) : Carried(L[Hand(t)][i], at)
  /\ pc[t] \in Holding => reg[t].msg \in 1 .. pushed /\ at[reg[t].msg] = <<"thread", t>>
  /\ pc[t] \in Releasing => \E i \in 1 .. Size(taken) : taken[i] = reg[t].msg
Released(t, u) ==
  pc[t] \in Releasing /\ pc[u] \in Releasing /\ reg[t].msg = reg[u].msg => t = u

Uncounted  == {t \in Threads : pc[t] \in Holding \cup {"count"}}
Unreleased == {t \in Threads : pc[t] = "release"}
Counts ==
  /\ seqNumber + Cardinality(Uncounted) = Spare + pushed
  /\ poolSeq + Cardinality(Unreleased) = Spare + Size(taken)

Lasting(L, w, at, seen, tops) ==
  /\ L \in Lists /\ Once(L, made) /\ FreeList(L) /\ Main(L, w) /\ Names(w)
  /\ Seen(L, w, seen) /\ Tops(L, tops) /\ Taking(at) /\ Queueing(L, at)
OfThread(t, L, w, at, seen, tops) ==
  /\ HandOf(t, L, w) /\ HandUnseen(t, L, w, seen) /\ HandUntopped(t, tops)
  /\ AllocLocals(t, L, tops) /\ TailLocals(t, L, w, seen) /\ HeadLocals(t, L, w, seen)
  /\ HandMsgs(t, L, at)

Good(L, w, at, seen, tops) ==
  /\ Lasting(L, w, at, seen, tops)
  /\ \A t \in Threads : OfThread(t, L, w, at, seen, tops)
  /\ \A t, u \in Threads : Ordered(t, u, L) /\ Released(t, u)

Kept(L, w, at, seen, tops) == Kinds /\ Counts /\ Good(L, w, at, seen, tops)

\* There are lists of the nodes, a pointer to each node, a place for each message,
\* and the pointers seen so far, that fit the links, the ends and every thread.
IInv == \E L, w, at, seen, tops : Kept(L, w, at, seen, tops)

-----------------------------------------------------------------------------
(* Locals of a thread *)

\* The other threads are where they were.
Others(t) == \A u \in Threads \ {t} : pc'[u] = pc[u] /\ reg'[u] = reg[u]

At(t, l) == pc' \in [Threads -> Labels] /\ pc'[t] = l /\ reg' \in [Threads -> Locals] /\ Others(t)

LEMMA LocalsAre ==
  ASSUME Kinds, NEW t \in Threads
  PROVE  /\ reg[t] \in Locals
         /\ reg[t].msg \in 0 .. MaxPushes
         /\ \A f \in {"node", "old", "new", "head", "tail", "next"} : reg[t][f] \in Ptr
BY DEF Kinds, TypeOK, Locals

LEMMA SetIs ==
  ASSUME Kinds, NEW t \in Threads, NEW v, NEW l \in Labels, Goto(t, l),
         NEW f \in {"node", "old", "new", "head", "tail", "next"}, v \in Ptr, Set(t, f, v)
  PROVE  /\ At(t, l) /\ reg'[t][f] = v /\ reg'[t].msg = reg[t].msg
         /\ \A g \in {"node", "old", "new", "head", "tail", "next"} : g # f => reg'[t][g] = reg[t][g]
<1>1. reg \in [Threads -> Locals] /\ pc \in [Threads -> Labels]
  BY DEF Kinds, TypeOK
<1>2. [reg[t] EXCEPT ![f] = v] \in Locals
  BY <1>1 DEF Locals
<1>3. reg' = [reg EXCEPT ![t] = [reg[t] EXCEPT ![f] = v]]
  BY <1>1 DEF Set
<1>4. At(t, l)
  BY <1>1, <1>2, <1>3 DEF Goto, At, Others
<1>5. reg'[t] = [reg[t] EXCEPT ![f] = v]
  BY <1>1, <1>3
<1> QED
  BY <1>1, <1>4, <1>5 DEF Locals

LEMMA SetMsgIs ==
  ASSUME Kinds, NEW t \in Threads, NEW m \in 0 .. MaxPushes, NEW l \in Labels, Goto(t, l),
         Set(t, "msg", m)
  PROVE  /\ At(t, l) /\ reg'[t].msg = m
         /\ \A g \in {"node", "old", "new", "head", "tail", "next"} : reg'[t][g] = reg[t][g]
<1>1. reg \in [Threads -> Locals] /\ pc \in [Threads -> Labels]
  BY DEF Kinds, TypeOK
<1>2. [reg[t] EXCEPT !["msg"] = m] \in Locals
  BY <1>1 DEF Locals
<1>3. reg' = [reg EXCEPT ![t] = [reg[t] EXCEPT !["msg"] = m]]
  BY <1>1 DEF Set
<1>4. At(t, l)
  BY <1>1, <1>2, <1>3 DEF Goto, At, Others
<1>5. reg'[t] = [reg[t] EXCEPT !["msg"] = m]
  BY <1>1, <1>3
<1> QED
  BY <1>1, <1>4, <1>5 DEF Locals

LEMMA HoldIs ==
  ASSUME Kinds, NEW t \in Threads, NEW n \in Ptr, NEW l \in Labels, Hold(t, n, l)
  PROVE  At(t, l) /\ reg'[t].node = n /\ reg'[t].msg = reg[t].msg
<1>1. reg \in [Threads -> Locals] /\ pc \in [Threads -> Labels]
  BY DEF Kinds, TypeOK
<1>2. [NoLocals EXCEPT !.msg = reg[t].msg, !.node = n] \in Locals
  BY <1>1, Sizes DEF Locals, NoLocals
<1>3. At(t, l)
  BY <1>1, <1>2 DEF Hold, Goto, At, Others
<1>4. reg'[t] = [NoLocals EXCEPT !.msg = reg[t].msg, !.node = n]
  BY <1>1 DEF Hold
<1> QED
  BY <1>3, <1>4 DEF NoLocals

LEMMA ReplaceIs ==
  ASSUME Kinds, NEW t \in Threads, NEW l \in Labels, NEW r \in Locals, Goto(t, l),
         reg' = [reg EXCEPT ![t] = r]
  PROVE  At(t, l)
BY DEF Kinds, TypeOK, Goto, At, Others

LEMMA ReturnIs ==
  ASSUME Kinds, NEW t \in Threads, Return(t)
  PROVE  At(t, "idle")
<1>1. NoLocals \in Locals
  BY Sizes DEF Locals, NoLocals
<1>2. Goto(t, "idle") /\ reg' = [reg EXCEPT ![t] = NoLocals]
  BY DEF Return
<1>3. "idle" \in Labels
  BY DEF Labels
<1> QED
  BY <1>1, <1>2, <1>3, ReplaceIs

LEMMA StayIs ==
  ASSUME Kinds, NEW t \in Threads, NEW l \in Labels, Goto(t, l), UNCHANGED reg
  PROVE  At(t, l) /\ reg'[t] = reg[t]
BY DEF Kinds, TypeOK, Goto, At, Others

-----------------------------------------------------------------------------
(* Steps that change a thread's place and locals, and no list *)

Quiet == UNCHANGED <<memory, pool, _head, seqNumber, log>>

\* t holds no other node and no other message than before.
SameRole(t) ==
  /\ pc'[t] \in Pending <=> pc[t] \in Pending
  /\ pc'[t] = "count" <=> pc[t] = "count"
  /\ pc'[t] = "clear" <=> pc[t] = "clear"
  /\ pc'[t] \in Releasing <=> pc[t] \in Releasing
  /\ pc'[t] = "release" <=> pc[t] = "release"
  /\ pc'[t] \in Holding <=> pc[t] \in Holding
  /\ pc'[t] # "releaseCAS"
  /\ pc'[t] = "hang" => Addr(reg'[t].old) # Null
  /\ pc[t] \in Handling => reg'[t].node = reg[t].node
  /\ pc[t] \in Releasing => reg'[t].new = reg[t].new
  /\ pc[t] \in Releasing \cup Holding => reg'[t].msg = reg[t].msg

LEMMA KindsKept ==
  ASSUME Kinds, NEW t \in Threads, NEW l, At(t, l), Quiet, _tail' \in Ptr, m_size' \in Int
  PROVE  Kinds'
BY DEF Kinds, TypeOK, At, Quiet, memory, pool, log

LEMMA RoleKept ==
  ASSUME NEW L, NEW w, NEW at, NEW seen, NEW tops, Good(L, w, at, seen, tops), Counts,
         NEW t \in Threads, Others(t), Quiet, SameRole(t)
  PROVE  /\ FreeList(L)' /\ Names(w)' /\ Seen(L, w, seen)' /\ Tops(L, tops)'
         /\ Taking(at)' /\ Queueing(L, at)' /\ Once(L, made)'
         /\ \A u \in Threads : HandOf(u, L, w)' /\ HandUnseen(u, L, w, seen)'
                               /\ HandUntopped(u, tops)' /\ HandMsgs(u, L, at)'
         /\ \A u, v \in Threads : Released(u, v)'
         /\ Counts'
<1> USE DEF Quiet, memory, pool, log
<1>1. FreeList(L)' /\ Names(w)' /\ Seen(L, w, seen)' /\ Tops(L, tops)' /\ Once(L, made)'
  BY DEF Good, Lasting, FreeList, Names, Seen, Tops, Once
<1>2. Taking(at)' /\ Queueing(L, at)'
  BY DEF Good, Lasting, Taking, Queueing, Carried
<1>3. ASSUME NEW u \in Threads PROVE HandOf(u, L, w)'
  <2>1. HandOf(u, L, w)
    BY DEF Good, OfThread
  <2>2. CASE u = t
    BY <2>1, <2>2 DEF HandOf, SameRole, Chain, Handling, Releasing, Pending
  <2>3. CASE u # t
    BY <2>1, <2>3 DEF HandOf, Others, Chain
  <2> QED
    BY <2>2, <2>3
<1>4. ASSUME NEW u \in Threads PROVE HandUnseen(u, L, w, seen)' /\ HandUntopped(u, tops)'
  <2>1. HandUnseen(u, L, w, seen) /\ HandUntopped(u, tops)
    BY DEF Good, OfThread
  <2>2. CASE u = t
    BY <2>1, <2>2 DEF HandUnseen, HandUntopped, SameRole, Handling, Releasing, Pending
  <2>3. CASE u # t
    BY <2>1, <2>3 DEF HandUnseen, HandUntopped, Others
  <2> QED
    BY <2>2, <2>3
<1>5. ASSUME NEW u \in Threads PROVE HandMsgs(u, L, at)'
  <2>1. HandMsgs(u, L, at)
    BY DEF Good, OfThread
  <2>2. CASE u = t
    BY <2>1, <2>2 DEF HandMsgs, Carried, SameRole, Holding, Allocating, Releasing, Pending
  <2>3. CASE u # t
    BY <2>1, <2>3 DEF HandMsgs, Carried, Others
  <2> QED
    BY <2>2, <2>3
<1>6. ASSUME NEW u \in Threads, NEW v \in Threads PROVE Released(u, v)'
  <2>1. Released(u, v)
    BY DEF Good
  <2>2. \A x \in Threads : /\ pc'[x] \in Releasing <=> pc[x] \in Releasing
                           /\ pc[x] \in Releasing => reg'[x].msg = reg[x].msg
    BY DEF SameRole, Others
  <2> QED
    BY <2>1, <2>2 DEF Released
<1>7. Counts'
  <2>1. \A x \in Threads : /\ pc'[x] \in Holding \cup {"count"} <=> pc[x] \in Holding \cup {"count"}
                           /\ pc'[x] = "release" <=> pc[x] = "release"
    BY DEF SameRole, Others
  <2>2. Uncounted' = Uncounted /\ Unreleased' = Unreleased
    BY <2>1 DEF Uncounted, Unreleased
  <2> QED
    BY <2>2 DEF Counts
<1> QED
  BY <1>1, <1>2, <1>3, <1>4, <1>5, <1>6, <1>7

\* The locals of the others, while the ends stay where they are.
LEMMA LocalsKept ==
  ASSUME NEW L, NEW w, NEW at, NEW seen, NEW tops, Good(L, w, at, seen, tops),
         NEW t \in Threads, Others(t), Quiet
  PROVE  /\ \A u \in Threads \ {t} : AllocLocals(u, L, tops)' /\ TailLocals(u, L, w, seen)'
         /\ _tail' = _tail => Main(L, w)' /\ \A u \in Threads \ {t} : HeadLocals(u, L, w, seen)'
<1> USE DEF Quiet, memory, pool, log
<1>1. ASSUME NEW u \in Threads \ {t} PROVE AllocLocals(u, L, tops)'
  BY DEF Good, OfThread, AllocLocals, Others, IsFree
<1>2. ASSUME NEW u \in Threads \ {t} PROVE TailLocals(u, L, w, seen)'
  BY DEF Good, OfThread, TailLocals, Others, InQueue
<1>3. ASSUME _tail' = _tail, NEW u \in Threads \ {t} PROVE HeadLocals(u, L, w, seen)'
  BY <1>3 DEF Good, OfThread, HeadLocals, Others, InQueue
<1>4. _tail' = _tail => Main(L, w)'
  BY DEF Good, Lasting, Main, Chain
<1> QED
  BY <1>1, <1>2, <1>3, <1>4

\* t keeps its tail, or has one from the queue, where it is behind nobody's node.
SameTail(t, L) ==
  /\ pc'[t] \in Linking => /\ reg'[t].node = reg[t].node
                           /\ \/ pc[t] \in Linking /\ reg'[t].tail = reg[t].tail
                              \/ In(Addr(reg'[t].tail), L[Queued])

LEMMA OrderKept ==
  ASSUME NEW L, NEW w, NEW at, NEW seen, NEW tops, Good(L, w, at, seen, tops),
         NEW t \in Threads, Others(t), SameRole(t), SameTail(t, L)
  PROVE  \A u, v \in Threads : Ordered(u, v, L)'
<1> SUFFICES ASSUME NEW u \in Threads, NEW v \in Threads PROVE Ordered(u, v, L)'
  OBVIOUS
<1>1. Ordered(u, v, L) /\ L \in Lists /\ Once(L, made)
  BY DEF Good, Lasting
<1>2. pc'[v] \in Pending \ {"count"} => pc[v] \in Pending \ {"count"} /\ reg'[v].node = reg[v].node
  BY DEF SameRole, Others, Handling
<1>3. \A n : ~(In(n, L[Queued]) /\ In(n, L[Hand(v)]))
  BY <1>1, AllPlaces DEF Once, In
<1>4. CASE u = t
  BY <1>1, <1>2, <1>3, <1>4 DEF Ordered, SameTail
<1>5. CASE u # t
  BY <1>1, <1>2, <1>5 DEF Ordered, Others
<1> QED
  BY <1>4, <1>5

\* A thread that reads: what is left to show is its own locals.
LEMMA ReadStep ==
  ASSUME NEW L, NEW w, NEW at, NEW seen, NEW tops, Good(L, w, at, seen, tops), Counts,
         NEW t \in Threads, Others(t), Quiet, _tail' = _tail, SameRole(t), SameTail(t, L),
         AllocLocals(t, L, tops)', TailLocals(t, L, w, seen)', HeadLocals(t, L, w, seen)'
  PROVE  Good(L, w, at, seen, tops)' /\ Counts'
<1>1. \A u \in Threads : AllocLocals(u, L, tops)' /\ TailLocals(u, L, w, seen)' /\ HeadLocals(u, L, w, seen)'
  BY LocalsKept
<1>2. Main(L, w)'
  BY LocalsKept
<1>3. \A u, v \in Threads : Ordered(u, v, L)'
  BY OrderKept
<1>4. L \in Lists
  BY DEF Good, Lasting
<1>5. Lasting(L, w, at, seen, tops)'
  BY <1>2, <1>4, RoleKept DEF Lasting
<1>6. \A u \in Threads : OfThread(u, L, w, at, seen, tops)'
  BY <1>1, RoleKept DEF OfThread
<1>7. \A u, v \in Threads : Released(u, v)'
  BY RoleKept
<1>8. Counts'
  BY RoleKept
<1> QED
  BY <1>3, <1>5, <1>6, <1>7, <1>8 DEF Good

LEMMA Reached ==
  ASSUME NEW L, NEW w, NEW at, NEW seen, NEW tops, Kept(L, w, at, seen, tops)
  PROVE  /\ 1 .. made \subseteq Nodes
         /\ \A t \in Threads : /\ pc[t] \in HasOld => Addr(reg[t].old) \in Nodes
                               /\ pc[t] \in HasTail => Addr(reg[t].tail) \in Nodes
                               /\ pc[t] \in HasHead => Addr(reg[t].head) \in Nodes
<1>1. 1 .. made \subseteq Nodes
  BY LockFreeQueueAssumption DEF Kept, Kinds, TypeOK, Nodes
<1>2. ASSUME NEW t \in Threads
      PROVE  /\ pc[t] \in HasOld => Addr(reg[t].old) \in 1 .. made
             /\ pc[t] \in HasTail => Addr(reg[t].tail) \in 1 .. made
             /\ pc[t] \in HasHead => Addr(reg[t].head) \in 1 .. made
  BY DEF Kept, Good, Lasting, OfThread, Seen, Tops, AllocLocals, TailLocals, HeadLocals
<1> QED
  BY <1>1, <1>2

LEMMA TopIs ==
  ASSUME NEW L, NEW w, NEW at, NEW seen, NEW tops, Kept(L, w, at, seen, tops)
  PROVE  /\ Addr(_top) # Null
         /\ Addr(_top) = Dummy => Size(L[Free]) = 0 /\ _top = _seqAddress[Dummy]
         /\ Addr(_top) # Dummy => /\ Size(L[Free]) # 0 /\ Addr(_top) = L[Free][1] /\ In(Addr(_top), L[Free])
                                  /\ _top = _seqAddress[Addr(_top)] /\ _top \in tops
<1>1. L \in Lists /\ FreeList(L) /\ Tops(L, tops)
  BY DEF Kept, Good, Lasting
<1>2. \A n \in Nodes \cup {Dummy} : Addr(_seqAddress[n]) = n
  BY DEF Kept, Kinds
<1>3. Size(L[Free]) \in Nat /\ \A i \in 1 .. Size(L[Free]) : L[Free][i] \in Nodes
  BY <1>1, Listed, AllPlaces
<1>4. CASE Size(L[Free]) = 0
  <2>1. _top = _seqAddress[Dummy]
    BY <1>1, <1>4 DEF FreeList
  <2> QED
    BY <1>2, <1>4, <2>1, Sizes
<1>5. CASE Size(L[Free]) # 0
  <2>1. 1 \in 1 .. Size(L[Free])
    BY <1>3, <1>5
  <2>2. L[Free][1] \in Nodes /\ In(L[Free][1], L[Free]) /\ _top = _seqAddress[L[Free][1]]
    BY <1>1, <1>3, <1>5, <2>1 DEF FreeList, In
  <2>3. L[Free][1] # Dummy /\ L[Free][1] # Null
    BY <2>2, Sizes
  <2> QED
    BY <1>1, <1>2, <1>5, <2>2, <2>3 DEF Tops
<1> QED
  BY <1>4, <1>5

LEMMA EndsAre ==
  ASSUME NEW L, NEW w, NEW at, NEW seen, NEW tops, Kept(L, w, at, seen, tops)
  PROVE  /\ _head \in seen /\ _tail \in seen
         /\ In(Addr(_tail), L[Queued]) /\ w[Addr(_tail)] = _tail
         /\ In(Addr(_head), L[Queued]) /\ w[Addr(_head)] = _head /\ Addr(_head) = L[Queued][1]
<1>1. L \in Lists /\ Main(L, w) /\ Seen(L, w, seen) /\ Names(w)
  BY DEF Kept, Good, Lasting
<1>2. Size(L[Queued]) \in Nat /\ \A i \in 1 .. Size(L[Queued]) : L[Queued][i] \in Nodes /\ In(L[Queued][i], L[Queued])
  BY <1>1, Listed, AllPlaces DEF In
<1>3. PICK i \in 1 .. Size(L[Queued]) : _tail = w[L[Queued][i]]
  BY <1>1 DEF Main
<1>4. 1 \in 1 .. Size(L[Queued]) /\ _head = w[L[Queued][1]]
  BY <1>1, <1>2 DEF Main
<1> QED
  BY <1>1, <1>2, <1>3, <1>4 DEF Names, Seen

\* What is to show of a step that reads
LEMMA Reads ==
  ASSUME NEW L, NEW w, NEW at, NEW seen, NEW tops, Kept(L, w, at, seen, tops),
         NEW t \in Threads, NEW l, At(t, l), Quiet, _tail' = _tail, m_size' \in Int,
         SameRole(t), SameTail(t, L),
         AllocLocals(t, L, tops)', TailLocals(t, L, w, seen)', HeadLocals(t, L, w, seen)'
  PROVE  Kept(L, w, at, seen, tops)'
<1>1. Kinds'
  BY KindsKept DEF Kept, Kinds, TypeOK
<1>2. Good(L, w, at, seen, tops)' /\ Counts'
  BY ReadStep DEF Kept, At
<1> QED
  BY <1>1, <1>2 DEF Kept

LEMMA NodesAre == \A n \in 0 .. Dummy : n # Null => n \in Nodes \cup {Dummy}
BY LockFreeQueueAssumption DEF Dummy, Null, Nodes

\* The link of a free node is to a free node or to the dummy.
LEMMA LinkOfFree ==
  ASSUME NEW L, NEW w, NEW at, NEW seen, NEW tops, Kept(L, w, at, seen, tops)
  PROVE  \A n \in Nodes : In(n, L[Free]) => Tag(_next[n]) = 0 /\ Addr(_next[n]) \in Nodes \cup {Dummy} /\ Addr(_next[n]) # Null
<1> SUFFICES ASSUME NEW n \in Nodes, In(n, L[Free])
             PROVE  Tag(_next[n]) = 0 /\ Addr(_next[n]) \in Nodes \cup {Dummy} /\ Addr(_next[n]) # Null
  OBVIOUS
<1>1. PICK i \in 1 .. Size(L[Free]) : n = L[Free][i]
  BY DEF In
<1>2. L \in Lists /\ FreeList(L)
  BY DEF Kept, Good, Lasting
<1>3. Size(L[Free]) \in Nat /\ \A k \in 1 .. Size(L[Free]) : L[Free][k] \in Nodes
  BY <1>2, Listed, AllPlaces
<1>4. PICK m \in Nodes \cup {Dummy} : _next[n] = <<0, m>>
  BY <1>1, <1>2, <1>3 DEF FreeList
<1> QED
  BY <1>4, Sizes DEF Tag, Addr

LEMMA ReadTopStep ==
  ASSUME NEW L, NEW w, NEW at, NEW seen, NEW tops, Kept(L, w, at, seen, tops),
         NEW t \in Threads, ReadTop(t), Addr(_top) # Dummy
  PROVE  Kept(L, w, at, seen, tops)'
<1>1. Kinds /\ OfThread(t, L, w, at, seen, tops)
  BY DEF Kept, Good
<1>2. _top \in Ptr
  BY <1>1 DEF Kinds, TypeOK
<1>10. At(t, "readNext") /\ reg'[t].old = _top /\ reg'[t].msg = reg[t].msg /\ reg'[t].node = reg[t].node
  BY <1>1, <1>2, SetIs DEF ReadTop, Labels, Allocating
<1>11. Quiet /\ _tail' = _tail /\ m_size' \in Int
  BY DEF ReadTop, Kept, Kinds, TypeOK, Quiet, memory, pool, ends, counts, log
<1>12. SameRole(t) /\ SameTail(t, L)
  BY <1>10 DEF ReadTop, SameRole, SameTail, At, Handling, Holding, Allocating, Releasing, Pending, Linking
<1>13. AllocLocals(t, L, tops)'
  BY <1>10, <1>11, TopIs DEF ReadTop, At, AllocLocals, HasOld
<1>14. TailLocals(t, L, w, seen)'
  BY <1>10, <1>11 DEF ReadTop, At, TailLocals, HasTail, Linking
<1>15. HeadLocals(t, L, w, seen)'
  BY <1>10, <1>11 DEF ReadTop, At, HeadLocals, HasHead
<1> QED
  BY <1>10, <1>11, <1>12, <1>13, <1>14, <1>15, Reads

LEMMA ReadFreeNextStops ==
  ASSUME NEW L, NEW w, NEW at, NEW seen, NEW tops, Kept(L, w, at, seen, tops),
         NEW t \in Threads, ReadFreeNext(t), Addr(_next[Addr(reg[t].old)]) = Null \/ Tag(_next[Addr(reg[t].old)]) # 0
  PROVE  Kept(L, w, at, seen, tops)'
<1>1. Kinds /\ OfThread(t, L, w, at, seen, tops)
  BY DEF Kept, Good
<1>10. At(t, "allocCAS") /\ reg'[t] = reg[t]
  BY <1>1, StayIs DEF ReadFreeNext, Labels, Allocating
<1>11. Quiet /\ _tail' = _tail /\ m_size' \in Int
  BY DEF ReadFreeNext, Kept, Kinds, TypeOK, Quiet, memory, pool, ends, counts, log
<1>12. SameRole(t) /\ SameTail(t, L)
  BY <1>10 DEF ReadFreeNext, SameRole, SameTail, At, Handling, Holding, Allocating, Releasing, Pending, Linking
<1>13. AllocLocals(t, L, tops)'
  <2>1. reg[t].old \in tops /\ Addr(reg[t].old) \in Nodes
    BY <1>1, Reached DEF ReadFreeNext, OfThread, AllocLocals, HasOld
  <2>2. ~IsFree(reg[t].old, L)
    BY LinkOfFree, <2>1 DEF IsFree
  <2>3. ~IsFree(reg[t].old, L)'
    BY <2>2, <1>10, <1>11 DEF IsFree, Quiet, memory
  <2> QED
    BY <1>10, <1>11, <2>1, <2>3 DEF At, AllocLocals
<1>14. TailLocals(t, L, w, seen)'
  BY <1>10, <1>11 DEF ReadFreeNext, At, TailLocals, HasTail, Linking
<1>15. HeadLocals(t, L, w, seen)'
  BY <1>10, <1>11 DEF ReadFreeNext, At, HeadLocals, HasHead
<1> QED
  BY <1>10, <1>11, <1>12, <1>13, <1>14, <1>15, Reads

LEMMA ReadFreeNextGoes ==
  ASSUME NEW L, NEW w, NEW at, NEW seen, NEW tops, Kept(L, w, at, seen, tops),
         NEW t \in Threads, ReadFreeNext(t), ~(Addr(_next[Addr(reg[t].old)]) = Null \/ Tag(_next[Addr(reg[t].old)]) # 0)
  PROVE  Kept(L, w, at, seen, tops)'
<1>1. Kinds /\ OfThread(t, L, w, at, seen, tops)
  BY DEF Kept, Good
<1>2. Addr(reg[t].old) \in Nodes /\ reg[t].old \in tops
  BY <1>1, Reached DEF ReadFreeNext, OfThread, AllocLocals, HasOld
<1>3. _next[Addr(reg[t].old)] \in Ptr
  BY <1>1, <1>2 DEF Kinds, TypeOK
<1>10. At(t, "readSeq") /\ reg'[t].next = _next[Addr(reg[t].old)] /\ reg'[t].msg = reg[t].msg /\ reg'[t].old = reg[t].old
  BY <1>1, <1>3, SetIs DEF ReadFreeNext, Labels, Allocating
<1>11. Quiet /\ _tail' = _tail /\ m_size' \in Int
  BY DEF ReadFreeNext, Kept, Kinds, TypeOK, Quiet, memory, pool, ends, counts, log
<1>12. SameRole(t) /\ SameTail(t, L)
  BY <1>10 DEF ReadFreeNext, SameRole, SameTail, At, Handling, Holding, Allocating, Releasing, Pending, Linking
<1>13. AllocLocals(t, L, tops)'
  BY <1>10, <1>11, <1>2 DEF ReadFreeNext, At, AllocLocals, HasOld, Quiet, memory, IsFree
<1>14. TailLocals(t, L, w, seen)'
  BY <1>10, <1>11 DEF ReadFreeNext, At, TailLocals, HasTail, Linking
<1>15. HeadLocals(t, L, w, seen)'
  BY <1>10, <1>11 DEF ReadFreeNext, At, HeadLocals, HasHead
<1> QED
  BY <1>10, <1>11, <1>12, <1>13, <1>14, <1>15, Reads

LEMMA ReadSeqAddressStep ==
  ASSUME NEW L, NEW w, NEW at, NEW seen, NEW tops, Kept(L, w, at, seen, tops),
         NEW t \in Threads, ReadSeqAddress(t)
  PROVE  Kept(L, w, at, seen, tops)'
<1>1. Kinds /\ OfThread(t, L, w, at, seen, tops)
  BY DEF Kept, Good
<1>2. Addr(reg[t].next) \in Nodes \cup {Dummy}
  BY <1>1, LocalsAre, Ptrs, NodesAre DEF ReadSeqAddress, OfThread, AllocLocals
<1>3. _seqAddress[Addr(reg[t].next)] \in Ptr
  BY <1>1, <1>2 DEF Kinds, TypeOK
<1>10. At(t, "allocCAS") /\ reg'[t].new = _seqAddress[Addr(reg[t].next)] /\ reg'[t].msg = reg[t].msg /\ reg'[t].old = reg[t].old
  BY <1>1, <1>3, SetIs DEF ReadSeqAddress, Labels, Allocating
<1>11. Quiet /\ _tail' = _tail /\ m_size' \in Int
  BY DEF ReadSeqAddress, Kept, Kinds, TypeOK, Quiet, memory, pool, ends, counts, log
<1>12. SameRole(t) /\ SameTail(t, L)
  BY <1>10 DEF ReadSeqAddress, SameRole, SameTail, At, Handling, Holding, Allocating, Releasing, Pending, Linking
<1>13. AllocLocals(t, L, tops)'
  BY <1>10, <1>11, <1>1 DEF ReadSeqAddress, At, AllocLocals, HasOld, OfThread, Quiet, memory, IsFree
<1>14. TailLocals(t, L, w, seen)'
  BY <1>10, <1>11 DEF ReadSeqAddress, At, TailLocals, HasTail, Linking
<1>15. HeadLocals(t, L, w, seen)'
  BY <1>10, <1>11 DEF ReadSeqAddress, At, HeadLocals, HasHead
<1> QED
  BY <1>10, <1>11, <1>12, <1>13, <1>14, <1>15, Reads

LEMMA AllocCASFails ==
  ASSUME NEW L, NEW w, NEW at, NEW seen, NEW tops, Kept(L, w, at, seen, tops),
         NEW t \in Threads, AllocCAS(t), _top # reg[t].old
  PROVE  Kept(L, w, at, seen, tops)'
<1>1. Kinds /\ OfThread(t, L, w, at, seen, tops)
  BY DEF Kept, Good
<1>10. At(t, "alloc") /\ reg'[t] = reg[t]
  BY <1>1, StayIs DEF AllocCAS, Labels, Allocating
<1>11. Quiet /\ _tail' = _tail /\ m_size' \in Int
  BY DEF AllocCAS, Kept, Kinds, TypeOK, Quiet, memory, pool, ends, counts, log
<1>12. SameRole(t) /\ SameTail(t, L)
  BY <1>10 DEF AllocCAS, SameRole, SameTail, At, Handling, Holding, Allocating, Releasing, Pending, Linking
<1>13. AllocLocals(t, L, tops)'
  BY <1>10, <1>11 DEF AllocCAS, At, AllocLocals, HasOld
<1>14. TailLocals(t, L, w, seen)'
  BY <1>10, <1>11 DEF AllocCAS, At, TailLocals, HasTail, Linking
<1>15. HeadLocals(t, L, w, seen)'
  BY <1>10, <1>11 DEF AllocCAS, At, HeadLocals, HasHead
<1> QED
  BY <1>10, <1>11, <1>12, <1>13, <1>14, <1>15, Reads

LEMMA ReadTailStep ==
  ASSUME NEW L, NEW w, NEW at, NEW seen, NEW tops, Kept(L, w, at, seen, tops),
         NEW t \in Threads, ReadTail(t)
  PROVE  Kept(L, w, at, seen, tops)'
<1>1. Kinds /\ OfThread(t, L, w, at, seen, tops)
  BY DEF Kept, Good
<1>2. _top \in Ptr /\ _head \in Ptr /\ _tail \in Ptr
  BY <1>1 DEF Kinds, TypeOK
<1>10. At(t, "readTailNext") /\ reg'[t].tail = _tail /\ reg'[t].node = reg[t].node
  BY <1>1, <1>2, SetIs DEF ReadTail, Labels, HasTail, Linking
<1>11. Quiet /\ _tail' = _tail /\ m_size' \in Int
  BY DEF ReadTail, Kept, Kinds, TypeOK, Quiet, memory, pool, ends, counts, log
<1>12. SameRole(t) /\ SameTail(t, L)
  BY <1>10, EndsAre DEF ReadTail, SameRole, SameTail, At, Handling, Holding, Allocating, Releasing, Pending, Linking
<1>13. AllocLocals(t, L, tops)'
  BY <1>10, <1>11 DEF ReadTail, At, AllocLocals, HasOld
<1>14. TailLocals(t, L, w, seen)'
  BY <1>10, <1>11, EndsAre DEF ReadTail, At, TailLocals, HasTail, Linking
<1>15. HeadLocals(t, L, w, seen)'
  BY <1>10, <1>11 DEF ReadTail, At, HeadLocals, HasHead
<1> QED
  BY <1>10, <1>11, <1>12, <1>13, <1>14, <1>15, Reads

LEMMA ReadTailNextLast ==
  ASSUME NEW L, NEW w, NEW at, NEW seen, NEW tops, Kept(L, w, at, seen, tops),
         NEW t \in Threads, ReadTailNext(t), _next[Addr(reg[t].tail)] = Nothing
  PROVE  Kept(L, w, at, seen, tops)'
<1>1. Kinds /\ OfThread(t, L, w, at, seen, tops)
  BY DEF Kept, Good
<1>2. Addr(reg[t].tail) \in Nodes /\ reg[t].tail \in seen
  BY <1>1, Reached DEF ReadTailNext, OfThread, TailLocals, HasTail, Linking
<1>3. _next[Addr(reg[t].tail)] \in Ptr /\ (_next[Addr(reg[t].tail)] # Nothing => Addr(_next[Addr(reg[t].tail)]) # Null)
  BY <1>1, <1>2 DEF Kinds, TypeOK
<1>10. At(t, "link") /\ reg'[t] = reg[t]
  BY <1>1, StayIs DEF ReadTailNext, Labels, Handling, Pending
<1>11. Quiet /\ _tail' = _tail /\ m_size' \in Int
  BY DEF ReadTailNext, Kept, Kinds, TypeOK, Quiet, memory, pool, ends, counts, log
<1>12. SameRole(t) /\ SameTail(t, L)
  BY <1>10 DEF ReadTailNext, SameRole, SameTail, At, Handling, Holding, Allocating, Releasing, Pending, Linking
<1>13. AllocLocals(t, L, tops)'
  BY <1>10, <1>11 DEF ReadTailNext, At, AllocLocals, HasOld
<1>14. TailLocals(t, L, w, seen)'
  BY <1>10, <1>11, <1>2 DEF ReadTailNext, At, TailLocals, HasTail, Linking
<1>15. HeadLocals(t, L, w, seen)'
  BY <1>10, <1>11 DEF ReadTailNext, At, HeadLocals, HasHead
<1> QED
  BY <1>10, <1>11, <1>12, <1>13, <1>14, <1>15, Reads

LEMMA ReadTailNextLags ==
  ASSUME NEW L, NEW w, NEW at, NEW seen, NEW tops, Kept(L, w, at, seen, tops),
         NEW t \in Threads, ReadTailNext(t), _next[Addr(reg[t].tail)] # Nothing
  PROVE  Kept(L, w, at, seen, tops)'
<1>1. Kinds /\ OfThread(t, L, w, at, seen, tops)
  BY DEF Kept, Good
<1>2. Addr(reg[t].tail) \in Nodes /\ reg[t].tail \in seen
  BY <1>1, Reached DEF ReadTailNext, OfThread, TailLocals, HasTail, Linking
<1>3. _next[Addr(reg[t].tail)] \in Ptr /\ (_next[Addr(reg[t].tail)] # Nothing => Addr(_next[Addr(reg[t].tail)]) # Null)
  BY <1>1, <1>2 DEF Kinds, TypeOK
<1>10. At(t, "helpTail") /\ reg'[t].next = _next[Addr(reg[t].tail)] /\ reg'[t].tail = reg[t].tail /\ reg'[t].node = reg[t].node
  BY <1>1, <1>3, SetIs DEF ReadTailNext, Labels, Handling, Pending
<1>11. Quiet /\ _tail' = _tail /\ m_size' \in Int
  BY DEF ReadTailNext, Kept, Kinds, TypeOK, Quiet, memory, pool, ends, counts, log
<1>12. SameRole(t) /\ SameTail(t, L)
  BY <1>10 DEF ReadTailNext, SameRole, SameTail, At, Handling, Holding, Allocating, Releasing, Pending, Linking
<1>13. AllocLocals(t, L, tops)'
  BY <1>10, <1>11 DEF ReadTailNext, At, AllocLocals, HasOld
<1>14. TailLocals(t, L, w, seen)'
  BY <1>10, <1>11, <1>2, <1>3 DEF ReadTailNext, At, TailLocals, HasTail, Linking, Quiet, memory
<1>15. HeadLocals(t, L, w, seen)'
  BY <1>10, <1>11 DEF ReadTailNext, At, HeadLocals, HasHead
<1> QED
  BY <1>10, <1>11, <1>12, <1>13, <1>14, <1>15, Reads

LEMMA LinkFails ==
  ASSUME NEW L, NEW w, NEW at, NEW seen, NEW tops, Kept(L, w, at, seen, tops),
         NEW t \in Threads, Link(t), _next[Addr(reg[t].tail)] # Nothing
  PROVE  Kept(L, w, at, seen, tops)'
<1>1. Kinds /\ OfThread(t, L, w, at, seen, tops)
  BY DEF Kept, Good
<1>10. At(t, "readTail") /\ reg'[t] = reg[t]
  BY <1>1, StayIs DEF Link, LinkCAS, Labels, Handling, Pending
<1>11. Quiet /\ _tail' = _tail /\ m_size' \in Int
  BY DEF Link, LinkCAS, Kept, Kinds, TypeOK, Quiet, memory, pool, ends, counts, log
<1>12. SameRole(t) /\ SameTail(t, L)
  BY <1>10 DEF Link, SameRole, SameTail, At, Handling, Holding, Allocating, Releasing, Pending, Linking
<1>13. AllocLocals(t, L, tops)'
  BY <1>10, <1>11 DEF Link, At, AllocLocals, HasOld
<1>14. TailLocals(t, L, w, seen)'
  BY <1>10, <1>11 DEF Link, At, TailLocals, HasTail, Linking
<1>15. HeadLocals(t, L, w, seen)'
  BY <1>10, <1>11 DEF Link, At, HeadLocals, HasHead
<1> QED
  BY <1>10, <1>11, <1>12, <1>13, <1>14, <1>15, Reads

LEMMA CallPopStep ==
  ASSUME NEW L, NEW w, NEW at, NEW seen, NEW tops, Kept(L, w, at, seen, tops),
         NEW t \in Threads, CallPop(t)
  PROVE  Kept(L, w, at, seen, tops)'
<1>1. Kinds /\ OfThread(t, L, w, at, seen, tops)
  BY DEF Kept, Good
<1>2. m_size \in Int
  BY <1>1 DEF Kinds, TypeOK
<1>10. (At(t, "empty") \/ At(t, "readHead")) /\ reg'[t] = reg[t]
  BY <1>1, <1>2, StayIs DEF CallPop, Labels
<1>11. Quiet /\ _tail' = _tail /\ m_size' \in Int
  BY DEF CallPop, Kept, Kinds, TypeOK, Quiet, memory, pool, ends, counts, log
<1>12. SameRole(t) /\ SameTail(t, L)
  BY <1>10 DEF CallPop, SameRole, SameTail, At, Handling, Holding, Allocating, Releasing, Pending, Linking
<1>13. AllocLocals(t, L, tops)'
  BY <1>10, <1>11 DEF CallPop, At, AllocLocals, HasOld
<1>14. TailLocals(t, L, w, seen)'
  BY <1>10, <1>11 DEF CallPop, At, TailLocals, HasTail, Linking
<1>15. HeadLocals(t, L, w, seen)'
  BY <1>10, <1>11 DEF CallPop, At, HeadLocals, HasHead
<1> QED
  BY <1>10, <1>11, <1>12, <1>13, <1>14, <1>15, Reads

LEMMA PopsNothingStep ==
  ASSUME NEW L, NEW w, NEW at, NEW seen, NEW tops, Kept(L, w, at, seen, tops),
         NEW t \in Threads, PopsNothing(t)
  PROVE  Kept(L, w, at, seen, tops)'
<1>1. Kinds /\ OfThread(t, L, w, at, seen, tops)
  BY DEF Kept, Good
<1>10. At(t, "idle")
  BY <1>1, ReturnIs DEF PopsNothing
<1>11. Quiet /\ _tail' = _tail /\ m_size' \in Int
  BY DEF PopsNothing, Kept, Kinds, TypeOK, Quiet, memory, pool, ends, counts, log
<1>12. SameRole(t) /\ SameTail(t, L)
  BY <1>10 DEF PopsNothing, SameRole, SameTail, At, Handling, Holding, Allocating, Releasing, Pending, Linking
<1>13. AllocLocals(t, L, tops)'
  BY <1>10, <1>11 DEF PopsNothing, At, AllocLocals, HasOld
<1>14. TailLocals(t, L, w, seen)'
  BY <1>10, <1>11 DEF PopsNothing, At, TailLocals, HasTail, Linking
<1>15. HeadLocals(t, L, w, seen)'
  BY <1>10, <1>11 DEF PopsNothing, At, HeadLocals, HasHead
<1> QED
  BY <1>10, <1>11, <1>12, <1>13, <1>14, <1>15, Reads

LEMMA ReadHeadStep ==
  ASSUME NEW L, NEW w, NEW at, NEW seen, NEW tops, Kept(L, w, at, seen, tops),
         NEW t \in Threads, ReadHead(t)
  PROVE  Kept(L, w, at, seen, tops)'
<1>1. Kinds /\ OfThread(t, L, w, at, seen, tops)
  BY DEF Kept, Good
<1>2. _top \in Ptr /\ _head \in Ptr /\ _tail \in Ptr
  BY <1>1 DEF Kinds, TypeOK
<1>10. At(t, "readLast") /\ reg'[t].head = _head
  BY <1>1, <1>2, SetIs DEF ReadHead, Labels, HasHead
<1>11. Quiet /\ _tail' = _tail /\ m_size' \in Int
  BY DEF ReadHead, Kept, Kinds, TypeOK, Quiet, memory, pool, ends, counts, log
<1>12. SameRole(t) /\ SameTail(t, L)
  BY <1>10 DEF ReadHead, SameRole, SameTail, At, Handling, Holding, Allocating, Releasing, Pending, Linking
<1>13. AllocLocals(t, L, tops)'
  BY <1>10, <1>11 DEF ReadHead, At, AllocLocals, HasOld
<1>14. TailLocals(t, L, w, seen)'
  BY <1>10, <1>11 DEF ReadHead, At, TailLocals, HasTail, Linking
<1>15. HeadLocals(t, L, w, seen)'
  BY <1>10, <1>11, EndsAre DEF ReadHead, At, HeadLocals, HasHead, Quiet
<1> QED
  BY <1>10, <1>11, <1>12, <1>13, <1>14, <1>15, Reads

LEMMA ReadLastSame ==
  ASSUME NEW L, NEW w, NEW at, NEW seen, NEW tops, Kept(L, w, at, seen, tops),
         NEW t \in Threads, ReadLast(t), reg[t].head = _tail
  PROVE  Kept(L, w, at, seen, tops)'
<1>1. Kinds /\ OfThread(t, L, w, at, seen, tops)
  BY DEF Kept, Good
<1>2. _top \in Ptr /\ _head \in Ptr /\ _tail \in Ptr
  BY <1>1 DEF Kinds, TypeOK
<1>3. reg[t].head \in seen /\ (InQueue(reg[t].head, L, w) => reg[t].head = _head)
  BY <1>1 DEF ReadLast, OfThread, HeadLocals, HasHead
<1>10. At(t, "lastNext") /\ reg'[t].tail = _tail /\ reg'[t].head = reg[t].head
  BY <1>1, <1>2, SetIs DEF ReadLast, Labels, HasHead
<1>11. Quiet /\ _tail' = _tail /\ m_size' \in Int
  BY DEF ReadLast, Kept, Kinds, TypeOK, Quiet, memory, pool, ends, counts, log
<1>12. SameRole(t) /\ SameTail(t, L)
  BY <1>10 DEF ReadLast, SameRole, SameTail, At, Handling, Holding, Allocating, Releasing, Pending, Linking
<1>13. AllocLocals(t, L, tops)'
  BY <1>10, <1>11 DEF ReadLast, At, AllocLocals, HasOld
<1>14. TailLocals(t, L, w, seen)'
  BY <1>10, <1>11, EndsAre DEF ReadLast, At, TailLocals, HasTail, Linking
<1>15. HeadLocals(t, L, w, seen)'
  BY <1>10, <1>11, <1>3 DEF ReadLast, At, HeadLocals, HasHead, Quiet, InQueue
<1> QED
  BY <1>10, <1>11, <1>12, <1>13, <1>14, <1>15, Reads

LEMMA ReadLastDiffers ==
  ASSUME NEW L, NEW w, NEW at, NEW seen, NEW tops, Kept(L, w, at, seen, tops),
         NEW t \in Threads, ReadLast(t), reg[t].head # _tail
  PROVE  Kept(L, w, at, seen, tops)'
<1>1. Kinds /\ OfThread(t, L, w, at, seen, tops)
  BY DEF Kept, Good
<1>2. _top \in Ptr /\ _head \in Ptr /\ _tail \in Ptr
  BY <1>1 DEF Kinds, TypeOK
<1>3. reg[t].head \in seen /\ (InQueue(reg[t].head, L, w) => reg[t].head = _head)
  BY <1>1 DEF ReadLast, OfThread, HeadLocals, HasHead
<1>10. At(t, "headNext") /\ reg'[t].tail = _tail /\ reg'[t].head = reg[t].head
  BY <1>1, <1>2, SetIs DEF ReadLast, Labels, HasHead
<1>11. Quiet /\ _tail' = _tail /\ m_size' \in Int
  BY DEF ReadLast, Kept, Kinds, TypeOK, Quiet, memory, pool, ends, counts, log
<1>12. SameRole(t) /\ SameTail(t, L)
  BY <1>10 DEF ReadLast, SameRole, SameTail, At, Handling, Holding, Allocating, Releasing, Pending, Linking
<1>13. AllocLocals(t, L, tops)'
  BY <1>10, <1>11 DEF ReadLast, At, AllocLocals, HasOld
<1>14. TailLocals(t, L, w, seen)'
  BY <1>10, <1>11 DEF ReadLast, At, TailLocals, HasTail, Linking
<1>15. HeadLocals(t, L, w, seen)'
  BY <1>10, <1>11, <1>3 DEF ReadLast, At, HeadLocals, HasHead, Quiet, InQueue
<1> QED
  BY <1>10, <1>11, <1>12, <1>13, <1>14, <1>15, Reads

LEMMA ReadLastNextEmpty ==
  ASSUME NEW L, NEW w, NEW at, NEW seen, NEW tops, Kept(L, w, at, seen, tops),
         NEW t \in Threads, ReadLastNext(t), _next[Addr(reg[t].tail)] = Nothing
  PROVE  Kept(L, w, at, seen, tops)'
<1>1. Kinds /\ OfThread(t, L, w, at, seen, tops)
  BY DEF Kept, Good
<1>10. At(t, "readHead") /\ reg'[t] = reg[t]
  BY <1>1, StayIs DEF ReadLastNext, Labels
<1>11. Quiet /\ _tail' = _tail /\ m_size' \in Int
  BY DEF ReadLastNext, Kept, Kinds, TypeOK, Quiet, memory, pool, ends, counts, log
<1>12. SameRole(t) /\ SameTail(t, L)
  BY <1>10 DEF ReadLastNext, SameRole, SameTail, At, Handling, Holding, Allocating, Releasing, Pending, Linking
<1>13. AllocLocals(t, L, tops)'
  BY <1>10, <1>11 DEF ReadLastNext, At, AllocLocals, HasOld
<1>14. TailLocals(t, L, w, seen)'
  BY <1>10, <1>11 DEF ReadLastNext, At, TailLocals, HasTail, Linking
<1>15. HeadLocals(t, L, w, seen)'
  BY <1>10, <1>11 DEF ReadLastNext, At, HeadLocals, HasHead
<1> QED
  BY <1>10, <1>11, <1>12, <1>13, <1>14, <1>15, Reads

LEMMA ReadLastNextLags ==
  ASSUME NEW L, NEW w, NEW at, NEW seen, NEW tops, Kept(L, w, at, seen, tops),
         NEW t \in Threads, ReadLastNext(t), _next[Addr(reg[t].tail)] # Nothing
  PROVE  Kept(L, w, at, seen, tops)'
<1>1. Kinds /\ OfThread(t, L, w, at, seen, tops)
  BY DEF Kept, Good
<1>2. Addr(reg[t].tail) \in Nodes /\ reg[t].tail \in seen
  BY <1>1, Reached DEF ReadLastNext, OfThread, TailLocals, HasTail, Linking
<1>3. _next[Addr(reg[t].tail)] \in Ptr /\ (_next[Addr(reg[t].tail)] # Nothing => Addr(_next[Addr(reg[t].tail)]) # Null)
  BY <1>1, <1>2 DEF Kinds, TypeOK
<1>4. reg[t].head \in seen /\ reg[t].head = reg[t].tail /\ (InQueue(reg[t].head, L, w) => reg[t].head = _head)
  BY <1>1 DEF ReadLastNext, OfThread, HeadLocals, HasHead
<1>10. At(t, "popHelps") /\ reg'[t].next = _next[Addr(reg[t].tail)] /\ reg'[t].tail = reg[t].tail /\ reg'[t].head = reg[t].head
  BY <1>1, <1>3, SetIs DEF ReadLastNext, Labels, HasHead
<1>11. Quiet /\ _tail' = _tail /\ m_size' \in Int
  BY DEF ReadLastNext, Kept, Kinds, TypeOK, Quiet, memory, pool, ends, counts, log
<1>12. SameRole(t) /\ SameTail(t, L)
  BY <1>10 DEF ReadLastNext, SameRole, SameTail, At, Handling, Holding, Allocating, Releasing, Pending, Linking
<1>13. AllocLocals(t, L, tops)'
  BY <1>10, <1>11 DEF ReadLastNext, At, AllocLocals, HasOld
<1>14. TailLocals(t, L, w, seen)'
  BY <1>10, <1>11, <1>2, <1>3 DEF ReadLastNext, At, TailLocals, HasTail, Linking, Quiet, memory
<1>15. HeadLocals(t, L, w, seen)'
  BY <1>10, <1>11, <1>4 DEF ReadLastNext, At, HeadLocals, HasHead, Quiet, InQueue
<1> QED
  BY <1>10, <1>11, <1>12, <1>13, <1>14, <1>15, Reads

LEMMA ReadHeadNextEmpty ==
  ASSUME NEW L, NEW w, NEW at, NEW seen, NEW tops, Kept(L, w, at, seen, tops),
         NEW t \in Threads, ReadHeadNext(t), _next[Addr(reg[t].head)] = Nothing
  PROVE  Kept(L, w, at, seen, tops)'
<1>1. Kinds /\ OfThread(t, L, w, at, seen, tops)
  BY DEF Kept, Good
<1>10. At(t, "readHead") /\ reg'[t] = reg[t]
  BY <1>1, StayIs DEF ReadHeadNext, Labels
<1>11. Quiet /\ _tail' = _tail /\ m_size' \in Int
  BY DEF ReadHeadNext, Kept, Kinds, TypeOK, Quiet, memory, pool, ends, counts, log
<1>12. SameRole(t) /\ SameTail(t, L)
  BY <1>10 DEF ReadHeadNext, SameRole, SameTail, At, Handling, Holding, Allocating, Releasing, Pending, Linking
<1>13. AllocLocals(t, L, tops)'
  BY <1>10, <1>11 DEF ReadHeadNext, At, AllocLocals, HasOld
<1>14. TailLocals(t, L, w, seen)'
  BY <1>10, <1>11 DEF ReadHeadNext, At, TailLocals, HasTail, Linking
<1>15. HeadLocals(t, L, w, seen)'
  BY <1>10, <1>11 DEF ReadHeadNext, At, HeadLocals, HasHead
<1> QED
  BY <1>10, <1>11, <1>12, <1>13, <1>14, <1>15, Reads

LEMMA ReadHeadNextGoes ==
  ASSUME NEW L, NEW w, NEW at, NEW seen, NEW tops, Kept(L, w, at, seen, tops),
         NEW t \in Threads, ReadHeadNext(t), _next[Addr(reg[t].head)] # Nothing
  PROVE  Kept(L, w, at, seen, tops)'
<1>1. Kinds /\ OfThread(t, L, w, at, seen, tops)
  BY DEF Kept, Good
<1>2. Addr(reg[t].head) \in Nodes
  BY <1>1, Reached DEF ReadHeadNext, HasHead
<1>3. _next[Addr(reg[t].head)] \in Ptr /\ (_next[Addr(reg[t].head)] # Nothing => Addr(_next[Addr(reg[t].head)]) # Null)
  BY <1>1, <1>2 DEF Kinds, TypeOK
<1>4. /\ reg[t].head \in seen /\ (InQueue(reg[t].head, L, w) => reg[t].head = _head)
      /\ reg[t].head = _head => _tail # _head
  BY <1>1 DEF ReadHeadNext, OfThread, HeadLocals, HasHead
<1>10. At(t, "readData") /\ reg'[t].next = _next[Addr(reg[t].head)] /\ reg'[t].head = reg[t].head
  BY <1>1, <1>3, SetIs DEF ReadHeadNext, Labels, HasHead
<1>11. Quiet /\ _tail' = _tail /\ m_size' \in Int
  BY DEF ReadHeadNext, Kept, Kinds, TypeOK, Quiet, memory, pool, ends, counts, log
<1>12. SameRole(t) /\ SameTail(t, L)
  BY <1>10 DEF ReadHeadNext, SameRole, SameTail, At, Handling, Holding, Allocating, Releasing, Pending, Linking
<1>13. AllocLocals(t, L, tops)'
  BY <1>10, <1>11 DEF ReadHeadNext, At, AllocLocals, HasOld
<1>14. TailLocals(t, L, w, seen)'
  BY <1>10, <1>11 DEF ReadHeadNext, At, TailLocals, HasTail, Linking
<1>15. HeadLocals(t, L, w, seen)'
  BY <1>10, <1>11, <1>3, <1>4 DEF ReadHeadNext, At, HeadLocals, HasHead, Quiet, memory, InQueue
<1> QED
  BY <1>10, <1>11, <1>12, <1>13, <1>14, <1>15, Reads

LEMMA ReadDataStep ==
  ASSUME NEW L, NEW w, NEW at, NEW seen, NEW tops, Kept(L, w, at, seen, tops),
         NEW t \in Threads, ReadData(t)
  PROVE  Kept(L, w, at, seen, tops)'
<1>1. Kinds /\ OfThread(t, L, w, at, seen, tops)
  BY DEF Kept, Good
<1>2. Addr(reg[t].next) \in Nodes \cup {Dummy}
  BY <1>1, LocalsAre, Ptrs, NodesAre DEF ReadData, OfThread, HeadLocals
<1>3. data[Addr(reg[t].next)] \in 0 .. MaxPushes
  BY <1>1, <1>2 DEF Kinds, TypeOK
<1>4. /\ reg[t].head \in seen /\ (InQueue(reg[t].head, L, w) => reg[t].head = _head) /\ Addr(reg[t].next) # Null
      /\ reg[t].head = _head => _tail # _head /\ reg[t].next = _next[Addr(reg[t].head)]
  BY <1>1 DEF ReadData, OfThread, HeadLocals, HasHead
<1>10. At(t, "popCAS") /\ reg'[t].msg = data[Addr(reg[t].next)] /\ reg'[t].next = reg[t].next /\ reg'[t].head = reg[t].head
  BY <1>1, <1>3, SetMsgIs DEF ReadData, Labels, HasHead
<1>11. Quiet /\ _tail' = _tail /\ m_size' \in Int
  BY DEF ReadData, Kept, Kinds, TypeOK, Quiet, memory, pool, ends, counts, log
<1>12. SameRole(t) /\ SameTail(t, L)
  BY <1>10 DEF ReadData, SameRole, SameTail, At, Handling, Holding, Allocating, Releasing, Pending, Linking
<1>13. AllocLocals(t, L, tops)'
  BY <1>10, <1>11 DEF ReadData, At, AllocLocals, HasOld
<1>14. TailLocals(t, L, w, seen)'
  BY <1>10, <1>11 DEF ReadData, At, TailLocals, HasTail, Linking
<1>15. HeadLocals(t, L, w, seen)'
  BY <1>10, <1>11, <1>4 DEF ReadData, At, HeadLocals, HasHead, Quiet, memory, InQueue
<1> QED
  BY <1>10, <1>11, <1>12, <1>13, <1>14, <1>15, Reads

LEMMA PopCASFails ==
  ASSUME NEW L, NEW w, NEW at, NEW seen, NEW tops, Kept(L, w, at, seen, tops),
         NEW t \in Threads, PopCAS(t), _head # reg[t].head
  PROVE  Kept(L, w, at, seen, tops)'
<1>1. Kinds /\ OfThread(t, L, w, at, seen, tops)
  BY DEF Kept, Good
<1>10. At(t, "readHead") /\ reg'[t] = reg[t]
  BY <1>1, StayIs DEF PopCAS, Labels
<1>11. Quiet /\ _tail' = _tail /\ m_size' \in Int
  BY DEF PopCAS, Kept, Kinds, TypeOK, Quiet, memory, pool, ends, counts, log
<1>12. SameRole(t) /\ SameTail(t, L)
  BY <1>10 DEF PopCAS, SameRole, SameTail, At, Handling, Holding, Allocating, Releasing, Pending, Linking
<1>13. AllocLocals(t, L, tops)'
  BY <1>10, <1>11 DEF PopCAS, At, AllocLocals, HasOld
<1>14. TailLocals(t, L, w, seen)'
  BY <1>10, <1>11 DEF PopCAS, At, TailLocals, HasTail, Linking
<1>15. HeadLocals(t, L, w, seen)'
  BY <1>10, <1>11 DEF PopCAS, At, HeadLocals, HasHead
<1> QED
  BY <1>10, <1>11, <1>12, <1>13, <1>14, <1>15, Reads

LEMMA ReadFreeStep ==
  ASSUME NEW L, NEW w, NEW at, NEW seen, NEW tops, Kept(L, w, at, seen, tops),
         NEW t \in Threads, ReadFree(t)
  PROVE  Kept(L, w, at, seen, tops)'
<1>1. Kinds /\ OfThread(t, L, w, at, seen, tops)
  BY DEF Kept, Good
<1>2. _top \in Ptr /\ _head \in Ptr /\ _tail \in Ptr
  BY <1>1 DEF Kinds, TypeOK
<1>10. At(t, "hang") /\ reg'[t].old = _top /\ reg'[t].node = reg[t].node /\ reg'[t].new = reg[t].new /\ reg'[t].msg = reg[t].msg
  BY <1>1, <1>2, SetIs DEF ReadFree, Labels, Handling, Releasing
<1>11. Quiet /\ _tail' = _tail /\ m_size' \in Int
  BY DEF ReadFree, Kept, Kinds, TypeOK, Quiet, memory, pool, ends, counts, log
<1>12. SameRole(t) /\ SameTail(t, L)
  BY <1>10, TopIs DEF ReadFree, SameRole, SameTail, At, Handling, Holding, Allocating, Releasing, Pending, Linking
<1>13. AllocLocals(t, L, tops)'
  BY <1>10, <1>11 DEF ReadFree, At, AllocLocals, HasOld
<1>14. TailLocals(t, L, w, seen)'
  BY <1>10, <1>11 DEF ReadFree, At, TailLocals, HasTail, Linking
<1>15. HeadLocals(t, L, w, seen)'
  BY <1>10, <1>11 DEF ReadFree, At, HeadLocals, HasHead
<1> QED
  BY <1>10, <1>11, <1>12, <1>13, <1>14, <1>15, Reads

LEMMA ReleaseCASFails ==
  ASSUME NEW L, NEW w, NEW at, NEW seen, NEW tops, Kept(L, w, at, seen, tops),
         NEW t \in Threads, ReleaseCAS(t), _top # reg[t].old
  PROVE  Kept(L, w, at, seen, tops)'
<1>1. Kinds /\ OfThread(t, L, w, at, seen, tops)
  BY DEF Kept, Good
<1>10. At(t, "readFree") /\ reg'[t] = reg[t]
  BY <1>1, StayIs DEF ReleaseCAS, Labels, Handling, Releasing
<1>11. Quiet /\ _tail' = _tail /\ m_size' \in Int
  BY DEF ReleaseCAS, Kept, Kinds, TypeOK, Quiet, memory, pool, ends, counts, log
<1>12. SameRole(t) /\ SameTail(t, L)
  BY <1>10 DEF ReleaseCAS, SameRole, SameTail, At, Handling, Holding, Allocating, Releasing, Pending, Linking
<1>13. AllocLocals(t, L, tops)'
  BY <1>10, <1>11 DEF ReleaseCAS, At, AllocLocals, HasOld
<1>14. TailLocals(t, L, w, seen)'
  BY <1>10, <1>11 DEF ReleaseCAS, At, TailLocals, HasTail, Linking
<1>15. HeadLocals(t, L, w, seen)'
  BY <1>10, <1>11 DEF ReleaseCAS, At, HeadLocals, HasHead
<1> QED
  BY <1>10, <1>11, <1>12, <1>13, <1>14, <1>15, Reads

-----------------------------------------------------------------------------
(* Steps that may move _tail *)

\* The queue's nodes in their order
LEMMA QueueIs ==
  ASSUME NEW L, NEW w, NEW at, NEW seen, NEW tops, Kept(L, w, at, seen, tops)
  PROVE  /\ L[Queued] \in Seq(Nodes) /\ Size(L[Queued]) \in Nat \ {0}
         /\ \A i \in 1 .. Size(L[Queued]) : /\ L[Queued][i] \in Nodes /\ In(L[Queued][i], L[Queued])
                                            /\ Addr(w[L[Queued][i]]) = L[Queued][i]
                                            /\ w[L[Queued][i]] \in Ptr
         /\ \A i, j \in 1 .. Size(L[Queued]) : L[Queued][i] = L[Queued][j] => i = j
         /\ _head = w[L[Queued][1]] /\ Chain(L[Queued], w)
<1>1. L \in Lists /\ Main(L, w) /\ Names(w) /\ Once(L, made)
  BY DEF Kept, Good, Lasting
<1>2. /\ L[Queued] \in Seq(Nodes) /\ Size(L[Queued]) \in Nat
      /\ \A i \in 1 .. Size(L[Queued]) : L[Queued][i] \in Nodes
  BY <1>1, Listed, AllPlaces
<1>3. \A i \in 1 .. Size(L[Queued]) : /\ In(L[Queued][i], L[Queued])
                                      /\ Addr(w[L[Queued][i]]) = L[Queued][i]
                                      /\ w[L[Queued][i]] \in Ptr
  BY <1>1, <1>2 DEF In, Names
<1>4. \A i, j \in 1 .. Size(L[Queued]) : L[Queued][i] = L[Queued][j] => i = j
  BY <1>1, AllPlaces DEF Once
<1> QED
  BY <1>1, <1>2, <1>3, <1>4 DEF Main

LEMMA Swung ==
  ASSUME NEW L, NEW w, NEW at, NEW seen, NEW tops, Kept(L, w, at, seen, tops),
         NEW t \in Threads, NEW p, SwingTail(t, p), UNCHANGED memory, _head' = _head,
         InQueue(reg[t].tail, L, w) => p = _next[Addr(reg[t].tail)], Addr(p) # Null
  PROVE  /\ Main(L, w)' /\ _tail' \in Ptr
         /\ _tail # _head => _tail' # _head
         /\ _tail' # reg[t].tail
<1>1. CASE _tail # reg[t].tail
  <2>1. _tail' = _tail
    BY <1>1 DEF SwingTail
  <2> QED
    BY <1>1, <2>1 DEF Kept, Kinds, TypeOK, Good, Lasting, Main, Chain, memory
<1>2. CASE _tail = reg[t].tail
  <2>1. _tail' = p /\ p = _next[Addr(_tail)]
    BY <1>2, EndsAre DEF SwingTail, InQueue
  <2>2. PICK i \in 1 .. Size(L[Queued]) : Addr(_tail) = L[Queued][i]
    BY EndsAre DEF In
  <2>3. p # Nothing
    BY Sizes
  <2>4. i # Size(L[Queued]) /\ p = w[L[Queued][i + 1]]
    BY <2>1, <2>2, <2>3, QueueIs DEF Chain
  <2>5. i + 1 \in 1 .. Size(L[Queued]) /\ i + 1 # 1 /\ i + 1 # i /\ 1 \in 1 .. Size(L[Queued])
    BY <2>4, QueueIs
  <2>6. Addr(p) = L[Queued][i + 1] /\ p \in Ptr /\ Addr(p) # L[Queued][1] /\ Addr(p) # L[Queued][i]
    BY <2>4, <2>5, QueueIs
  <2>7. p # _head /\ p # _tail
    BY <2>2, <2>5, <2>6, QueueIs
  <2>8. Main(L, w)'
    BY <2>1, <2>4, <2>5 DEF Kept, Good, Lasting, Main, Chain, memory
  <2> QED
    BY <1>2, <2>1, <2>6, <2>7, <2>8
<1> QED
  BY <1>1, <1>2

\* What is to show of a step that swings the tail
LEMMA Swings ==
  ASSUME NEW L, NEW w, NEW at, NEW seen, NEW tops, Kept(L, w, at, seen, tops),
         NEW t \in Threads, NEW l, At(t, l), Quiet, m_size' = m_size,
         NEW p, SwingTail(t, p),
         InQueue(reg[t].tail, L, w) => p = _next[Addr(reg[t].tail)], Addr(p) # Null,
         SameRole(t), SameTail(t, L),
         AllocLocals(t, L, tops)', TailLocals(t, L, w, seen)', HeadLocals(t, L, w, seen)'
  PROVE  Kept(L, w, at, seen, tops)'
<1>0. UNCHANGED memory /\ _head' = _head
  BY DEF Quiet
<1>1. Main(L, w)' /\ _tail' \in Ptr /\ (_tail # _head => _tail' # _head)
  BY <1>0, Swung
<1>2. Good(L, w, at, seen, tops) /\ Counts /\ Kinds /\ Others(t) /\ m_size \in Int
  BY DEF Kept, At, Kinds, TypeOK
<1>3. Kinds'
  BY <1>1, <1>2, KindsKept
<1>4. \A u \in Threads : AllocLocals(u, L, tops)' /\ TailLocals(u, L, w, seen)'
  BY <1>2, LocalsKept
<1>5. ASSUME NEW u \in Threads PROVE HeadLocals(u, L, w, seen)'
  <2>1. CASE u = t
    BY <2>1
  <2>2. CASE u # t
    <3>1. HeadLocals(u, L, w, seen)
      BY <1>2 DEF Good, OfThread
    <3> QED
      BY <1>0, <1>1, <1>2, <2>2, <3>1 DEF HeadLocals, Others, InQueue, memory
  <2> QED
    BY <2>1, <2>2
<1>6. \A u, v \in Threads : Ordered(u, v, L)'
  BY <1>2, OrderKept
<1>7. L \in Lists
  BY <1>2 DEF Good, Lasting
<1>8. Lasting(L, w, at, seen, tops)'
  BY <1>1, <1>2, <1>7, RoleKept DEF Lasting
<1>9. \A u \in Threads : OfThread(u, L, w, at, seen, tops)'
  BY <1>2, <1>4, <1>5, RoleKept DEF OfThread
<1>10. (\A u, v \in Threads : Released(u, v)') /\ Counts'
  BY <1>2, RoleKept
<1> QED
  BY <1>3, <1>6, <1>8, <1>9, <1>10 DEF Good, Kept

LEMMA HelpTailStep ==
  ASSUME NEW L, NEW w, NEW at, NEW seen, NEW tops, Kept(L, w, at, seen, tops),
         NEW t \in Threads, HelpTail(t)
  PROVE  Kept(L, w, at, seen, tops)'
<1>1. Kinds /\ OfThread(t, L, w, at, seen, tops)
  BY DEF Kept, Good
<1>2. At(t, "readTail") /\ reg'[t] = reg[t]
  BY <1>1, StayIs DEF HelpTail, Labels, Handling, Pending
<1>3. Quiet /\ m_size' = m_size /\ SwingTail(t, reg[t].next)
  BY DEF HelpTail, Quiet, memory, pool, counts, log
<1>4. /\ InQueue(reg[t].tail, L, w) => reg[t].next = _next[Addr(reg[t].tail)]
      /\ Addr(reg[t].next) # Null
  BY <1>1 DEF HelpTail, OfThread, TailLocals
<1>5. SameRole(t) /\ SameTail(t, L)
  BY <1>2 DEF HelpTail, SameRole, SameTail, At, Handling, Holding, Allocating, Releasing, Pending, Linking
<1>6. AllocLocals(t, L, tops)' /\ TailLocals(t, L, w, seen)' /\ HeadLocals(t, L, w, seen)'
  BY <1>2 DEF At, AllocLocals, HasOld, TailLocals, HasTail, Linking, HeadLocals, HasHead
<1> QED
  BY <1>2, <1>3, <1>4, <1>5, <1>6, Swings

LEMMA PushReturnsStep ==
  ASSUME NEW L, NEW w, NEW at, NEW seen, NEW tops, Kept(L, w, at, seen, tops),
         NEW t \in Threads, PushReturns(t)
  PROVE  Kept(L, w, at, seen, tops)'
<1>1. Kinds /\ OfThread(t, L, w, at, seen, tops)
  BY DEF Kept, Good
<1>2. At(t, "idle")
  BY <1>1, ReturnIs DEF PushReturns
<1>3. Quiet /\ m_size' = m_size /\ SwingTail(t, reg[t].node)
  BY DEF PushReturns, Quiet, memory, pool, counts, log
<1>4. /\ InQueue(reg[t].tail, L, w) => reg[t].node = _next[Addr(reg[t].tail)]
      /\ Addr(reg[t].node) # Null
  BY <1>1 DEF PushReturns, OfThread, TailLocals
<1>5. SameRole(t) /\ SameTail(t, L)
  BY <1>2 DEF PushReturns, SameRole, SameTail, At, Handling, Holding, Allocating, Releasing, Pending, Linking
<1>6. AllocLocals(t, L, tops)' /\ TailLocals(t, L, w, seen)' /\ HeadLocals(t, L, w, seen)'
  BY <1>2 DEF At, AllocLocals, HasOld, TailLocals, HasTail, Linking, HeadLocals, HasHead
<1> QED
  BY <1>2, <1>3, <1>4, <1>5, <1>6, Swings

LEMMA PopHelpsStep ==
  ASSUME NEW L, NEW w, NEW at, NEW seen, NEW tops, Kept(L, w, at, seen, tops),
         NEW t \in Threads, PopHelps(t)
  PROVE  Kept(L, w, at, seen, tops)'
<1>1. Kinds /\ OfThread(t, L, w, at, seen, tops)
  BY DEF Kept, Good
<1>2. At(t, "headNext") /\ reg'[t] = reg[t]
  BY <1>1, StayIs DEF PopHelps, Labels, HasHead
<1>3. Quiet /\ m_size' = m_size /\ SwingTail(t, reg[t].next)
  BY DEF PopHelps, Quiet, memory, pool, counts, log
<1>4. /\ InQueue(reg[t].tail, L, w) => reg[t].next = _next[Addr(reg[t].tail)]
      /\ Addr(reg[t].next) # Null
  BY <1>1 DEF PopHelps, OfThread, TailLocals
<1>5. SameRole(t) /\ SameTail(t, L)
  BY <1>2 DEF PopHelps, SameRole, SameTail, At, Handling, Holding, Allocating, Releasing, Pending, Linking
<1>6. AllocLocals(t, L, tops)' /\ TailLocals(t, L, w, seen)'
  BY <1>2 DEF At, AllocLocals, HasOld, TailLocals, HasTail, Linking
<1>7. HeadLocals(t, L, w, seen)'
  <2>1. /\ reg[t].head \in seen /\ reg[t].head = reg[t].tail
        /\ InQueue(reg[t].head, L, w) => reg[t].head = _head
    BY <1>1 DEF PopHelps, OfThread, HeadLocals, HasHead
  <2>2. UNCHANGED memory /\ _head' = _head
    BY <1>3 DEF Quiet
  <2>3. _tail' # reg[t].tail
    BY <1>3, <1>4, <2>2, Swung
  <2> QED
    BY <1>2, <2>1, <2>2, <2>3 DEF At, HeadLocals, HasHead, InQueue
<1> QED
  BY <1>2, <1>3, <1>4, <1>5, <1>6, <1>7, Swings

-----------------------------------------------------------------------------
(* Steps that write to one node in hand *)

LEMMA Apart ==
  ASSUME NEW L, NEW w, NEW at, NEW seen, NEW tops, Kept(L, w, at, seen, tops)
  PROVE  /\ L \in Lists
         /\ \A X, Y \in Places : \A n : In(n, L[X]) /\ In(n, L[Y]) => X = Y
         /\ \A X \in Places : /\ Size(L[X]) \in Nat
                              /\ \A i \in 1 .. Size(L[X]) : L[X][i] \in Nodes /\ L[X][i] \in 1 .. made /\ In(L[X][i], L[X])
                              /\ \A i, j \in 1 .. Size(L[X]) : L[X][i] = L[X][j] => i = j
<1>1. L \in Lists /\ Once(L, made)
  BY DEF Kept, Good, Lasting
<1> QED
  BY <1>1, Listed DEF Once, In

LEMMA Elsewhere ==
  ASSUME NEW L, NEW w, NEW at, NEW seen, NEW tops, Kept(L, w, at, seen, tops),
         NEW X \in Places, NEW Y \in Places, X # Y, NEW n, In(n, L[X])
  PROVE  ~In(n, L[Y])
<1>1. \A A, B \in Places : \A k : In(k, L[A]) /\ In(k, L[B]) => A = B
  BY Apart
<1> QED
  BY <1>1

\* A node in hand, and the thread that has it
LEMMA InHands ==
  ASSUME NEW L, NEW w, NEW at, NEW seen, NEW tops, Kept(L, w, at, seen, tops),
         NEW t \in Threads, pc[t] \in Handling
  PROVE  /\ Addr(reg[t].node) \in Nodes /\ Addr(reg[t].node) \in 1 .. made
         /\ In(Addr(reg[t].node), L[Hand(t)]) /\ Size(L[Hand(t)]) # 0
         /\ L[Hand(t)][1] = Addr(reg[t].node)
<1>1. HandOf(t, L, w) /\ Hand(t) \in Places
  BY AllPlaces DEF Kept, Good, OfThread
<1>2. Size(L[Hand(t)]) # 0 /\ L[Hand(t)][1] = Addr(reg[t].node)
  BY <1>1 DEF HandOf, Handling
<1>3. Size(L[Hand(t)]) \in Nat
  BY <1>1, Apart
<1>4. 1 \in 1 .. Size(L[Hand(t)])
  BY <1>2, <1>3
<1> QED
  BY <1>1, <1>2, <1>4, Apart

LEMMA FrontOfQueue ==
  ASSUME NEW L, NEW w, NEW at, NEW seen, NEW tops, Kept(L, w, at, seen, tops),
         Addr(_next[Addr(_head)]) # Null
  PROVE  /\ 2 \in 1 .. Size(L[Queued]) /\ _next[Addr(_head)] = w[L[Queued][2]]
         /\ Addr(_next[Addr(_head)]) = L[Queued][2] /\ In(L[Queued][2], L[Queued])
<1>1. 1 \in 1 .. Size(L[Queued]) /\ Addr(_head) = L[Queued][1]
  BY QueueIs, EndsAre
<1>2. _next[Addr(_head)] # Nothing
  BY Sizes
<1>3. Size(L[Queued]) # 1 /\ _next[Addr(_head)] = w[L[Queued][1 + 1]]
  BY <1>1, <1>2, QueueIs DEF Chain
<1>4. 2 \in 1 .. Size(L[Queued]) /\ _next[Addr(_head)] = w[L[Queued][2]]
  BY <1>3, QueueIs
<1> QED
  BY <1>4, QueueIs

\* Only n changes, which t has in hand.
OnlyNode(n) ==
  \A x \in Nodes \cup {Dummy} : x # n =>
    _next'[x] = _next[x] /\ data'[x] = data[x] /\ _seqAddress'[x] = _seqAddress[x]

LEMMA OneNode ==
  ASSUME NEW L, NEW w, NEW at, NEW seen, NEW tops, Kept(L, w, at, seen, tops),
         NEW t \in Threads, Others(t), NEW n \in Nodes, In(n, L[Hand(t)]), OnlyNode(n),
         UNCHANGED <<_top, made, ends, seqNumber>>
  PROVE  /\ FreeList(L)' /\ Main(L, w)' /\ Names(w)' /\ Seen(L, w, seen)' /\ Once(L, made)'
         /\ \A u \in Threads \ {t} :
              /\ HandOf(u, L, w)' /\ HandUnseen(u, L, w, seen)' /\ HandUntopped(u, tops)'
              /\ AllocLocals(u, L, tops)' /\ TailLocals(u, L, w, seen)' /\ HeadLocals(u, L, w, seen)'
<1> USE DEF ends
<1>0. Lasting(L, w, at, seen, tops)
  BY DEF Kept, Good
<1>1. \A X \in Places : X # Hand(t) => ~In(n, L[X])
  BY Apart, AllPlaces
<1>2. ASSUME NEW X \in Places, X # Hand(t), NEW x \in Nodes, In(x, L[X])
      PROVE  _next'[x] = _next[x] /\ data'[x] = data[x] /\ _seqAddress'[x] = _seqAddress[x]
  BY <1>1, <1>2 DEF OnlyNode
<1>3. \A X \in Places : X # Hand(t) => \A i \in 1 .. Size(L[X]) : /\ _next'[L[X][i]] = _next[L[X][i]]
                                                                 /\ data'[L[X][i]] = data[L[X][i]]
                                                                 /\ _seqAddress'[L[X][i]] = _seqAddress[L[X][i]]
  BY <1>2, Apart
<1>4. Free # Hand(t) /\ Queued # Hand(t) /\ Free \in Places /\ Queued \in Places
  BY AllPlaces
<1>5. _seqAddress'[Dummy] = _seqAddress[Dummy]
  BY Sizes DEF OnlyNode
<1>6. FreeList(L)'
  <2>1. FreeList(L)
    BY <1>0 DEF Lasting
  <2>2. Size(L[Free]) # 0 => 1 \in 1 .. Size(L[Free])
    BY <1>4, Apart
  <2> QED
    BY <1>3, <1>4, <1>5, <2>1, <2>2 DEF FreeList
<1>7. Main(L, w)'
  BY <1>0, <1>3, <1>4 DEF Lasting, Main, Chain
<1>8. Names(w)' /\ Seen(L, w, seen)' /\ Once(L, made)'
  BY <1>0 DEF Lasting, Names, Seen, Once
<1>9. ASSUME NEW u \in Threads \ {t} PROVE HandOf(u, L, w)'
  <2>1. HandOf(u, L, w) /\ Hand(u) \in Places /\ Hand(u) # Hand(t)
    BY AllPlaces DEF Kept, Good, OfThread
  <2>2. pc'[u] = pc[u] /\ reg'[u] = reg[u]
    BY DEF Others
  <2>3. pc[u] \in Handling => /\ _next'[Addr(reg[u].node)] = _next[Addr(reg[u].node)]
                              /\ _seqAddress'[Addr(reg[u].node)] = _seqAddress[Addr(reg[u].node)]
    BY <1>2, <2>1, InHands
  <2>4. Chain(L[Hand(u)], w) => Chain(L[Hand(u)], w)'
    BY <1>3, <2>1 DEF Chain
  <2> QED
    BY <2>1, <2>2, <2>3, <2>4 DEF HandOf, Handling, Releasing
<1>10. ASSUME NEW u \in Threads \ {t} PROVE HandUnseen(u, L, w, seen)' /\ HandUntopped(u, tops)'
  <2>1. /\ HandUnseen(u, L, w, seen) /\ HandUntopped(u, tops)
        /\ Hand(u) \in Places /\ Hand(u) # Hand(t)
    BY AllPlaces DEF Kept, Good, OfThread
  <2>2. pc'[u] = pc[u] /\ reg'[u] = reg[u]
    BY DEF Others
  <2>3. pc[u] = "clear" => _next'[Addr(reg[u].node)] = _next[Addr(reg[u].node)]
    BY <1>2, <2>1, InHands DEF Handling
  <2> QED
    BY <2>1, <2>2, <2>3 DEF HandUnseen, HandUntopped
<1>11. ASSUME NEW u \in Threads \ {t} PROVE AllocLocals(u, L, tops)'
  <2>1. AllocLocals(u, L, tops) /\ pc'[u] = pc[u] /\ reg'[u] = reg[u]
    BY DEF Kept, Good, OfThread, Others
  <2>2. pc[u] \in HasOld => Addr(reg[u].old) \in Nodes
    BY Reached
  <2>3. pc[u] \in HasOld /\ In(Addr(reg[u].old), L[Free]) =>
          /\ _next'[Addr(reg[u].old)] = _next[Addr(reg[u].old)]
          /\ _seqAddress'[Addr(reg[u].old)] = _seqAddress[Addr(reg[u].old)]
          /\ _seqAddress'[Addr(_next[Addr(reg[u].old)])] = _seqAddress[Addr(_next[Addr(reg[u].old)])]
    <3>1. SUFFICES ASSUME pc[u] \in HasOld, In(Addr(reg[u].old), L[Free])
                   PROVE  _seqAddress'[Addr(_next[Addr(reg[u].old)])] = _seqAddress[Addr(_next[Addr(reg[u].old)])]
      BY <1>2, <1>4, <2>2
    <3>2. PICK i \in 1 .. Size(L[Free]) : Addr(reg[u].old) = L[Free][i]
      BY <3>1 DEF In
    <3>3. Addr(_next[Addr(reg[u].old)]) = IF i = Size(L[Free]) THEN Dummy ELSE L[Free][i + 1]
      BY <1>0, <3>2 DEF Lasting, FreeList, Addr
    <3>4. i # Size(L[Free]) => i + 1 \in 1 .. Size(L[Free])
      BY <1>4, Apart
    <3> QED
      BY <1>3, <1>4, <1>5, <3>3, <3>4
  <2> QED
    BY <2>1, <2>3 DEF AllocLocals, HasOld, IsFree
<1>12. ASSUME NEW u \in Threads \ {t} PROVE TailLocals(u, L, w, seen)'
  <2>1. TailLocals(u, L, w, seen) /\ pc'[u] = pc[u] /\ reg'[u] = reg[u]
    BY DEF Kept, Good, OfThread, Others
  <2>2. pc[u] \in HasTail /\ In(Addr(reg[u].tail), L[Queued]) =>
          _next'[Addr(reg[u].tail)] = _next[Addr(reg[u].tail)]
    BY <1>2, <1>4, Reached
  <2> QED
    BY <2>1, <2>2 DEF TailLocals, HasTail, Linking, InQueue
<1>13. ASSUME NEW u \in Threads \ {t} PROVE HeadLocals(u, L, w, seen)'
  <2>1. HeadLocals(u, L, w, seen) /\ pc'[u] = pc[u] /\ reg'[u] = reg[u]
    BY DEF Kept, Good, OfThread, Others
  <2>2. _next'[Addr(_head)] = _next[Addr(_head)]
    <3>1. 1 \in 1 .. Size(L[Queued]) /\ Addr(_head) = L[Queued][1]
      BY QueueIs, EndsAre
    <3> QED
      BY <1>3, <1>4, <3>1
  <2>3. Addr(_next[Addr(_head)]) # Null => data'[Addr(_next[Addr(_head)])] = data[Addr(_next[Addr(_head)])]
    <3>1. SUFFICES ASSUME Addr(_next[Addr(_head)]) # Null
                   PROVE  data'[Addr(_next[Addr(_head)])] = data[Addr(_next[Addr(_head)])]
      OBVIOUS
    <3>2. 2 \in 1 .. Size(L[Queued]) /\ Addr(_next[Addr(_head)]) = L[Queued][2]
      BY <3>1, FrontOfQueue
    <3> QED
      BY <1>3, <1>4, <3>2
  <2> QED
    BY <2>1, <2>2, <2>3 DEF HeadLocals, HasHead, InQueue
<1> QED
  BY <1>6, <1>7, <1>8, <1>9, <1>10, <1>11, <1>12, <1>13

LEMMA CountsAre ==
  ASSUME Counts, Kinds
  PROVE  /\ IsFiniteSet(Uncounted) /\ IsFiniteSet(Unreleased)
         /\ Cardinality(Uncounted) \in Nat /\ Cardinality(Unreleased) \in Nat
         /\ \A t \in Uncounted : Cardinality(Uncounted) > 0 /\ seqNumber + 1 <= Spare + pushed
         /\ \A t \in Unreleased : Cardinality(Unreleased) > 0 /\ poolSeq + 1 <= Spare + Size(taken)
<1>1. IsFiniteSet(Threads) /\ Uncounted \in SUBSET Threads /\ Unreleased \in SUBSET Threads
  BY LockFreeQueueAssumption DEF Uncounted, Unreleased
<1>2. IsFiniteSet(Uncounted) /\ IsFiniteSet(Unreleased)
  BY <1>1, FS_Subset
<1>3. Cardinality(Uncounted) \in Nat /\ Cardinality(Unreleased) \in Nat
  BY <1>2, FS_CardinalityType
<1>4. (Cardinality(Uncounted) = 0 => Uncounted = {}) /\ (Cardinality(Unreleased) = 0 => Unreleased = {})
  BY <1>2, FS_EmptySet
<1>5. seqNumber \in Nat /\ poolSeq \in Nat /\ pushed \in Nat /\ Spare \in Nat
  BY LockFreeQueueAssumption DEF Kinds, TypeOK
<1>6. /\ seqNumber + Cardinality(Uncounted) = Spare + pushed
      /\ poolSeq + Cardinality(Unreleased) = Spare + Size(taken)
  BY DEF Counts
<1>7. Size(taken) \in Nat
  BY DEF Kinds, TypeOK, Size
<1> QED
  BY <1>2, <1>3, <1>4, <1>5, <1>6, <1>7

\* No message is taken twice, so no more are taken than were pushed.
LEMMA TakenBound ==
  ASSUME NEW L, NEW w, NEW at, NEW seen, NEW tops, Kept(L, w, at, seen, tops)
  PROVE  Size(taken) \in Nat /\ Size(taken) <= pushed
<1>1. taken \in Seq(1 .. MaxPushes) /\ pushed \in Nat
  BY LockFreeQueueAssumption DEF Kept, Kinds, TypeOK
<1>2. Size(taken) \in Nat /\ DOMAIN taken = 1 .. Size(taken) /\ taken = [i \in 1 .. Size(taken) |-> taken[i]]
  BY <1>1 DEF Size
<1>3. \A i \in 1 .. Size(taken) : taken[i] \in 1 .. pushed /\ at[taken[i]] = <<"taken", i>>
  BY DEF Kept, Good, Lasting, Taking
<1>4. \A i, j \in 1 .. Size(taken) : taken[i] = taken[j] => i = j
  BY <1>3
<1>5. taken \in Injection(1 .. Size(taken), 1 .. pushed)
  BY <1>2, <1>3, <1>4 DEF Injection, IsInjective
<1>6. Cardinality(1 .. Size(taken)) = Size(taken) /\ Cardinality(1 .. pushed) = pushed /\ IsFiniteSet(1 .. pushed)
  <2>1. \A k \in Nat : IsFiniteSet(1 .. k) /\ Cardinality(1 .. k) = k
    BY FS_Interval
  <2> QED
    BY <1>1, <1>2, <2>1
<1> QED
  BY <1>2, <1>5, <1>6, FS_Injection

\* NewTag does not come back to 0.
LEMMA TagsLast ==
  \A n \in Nat : n + 1 < Tags => NewTag(n) = n + 1
<1>1. \A a, b \in Nat : a < b => a % b = a
  OBVIOUS
<1> QED
  BY <1>1, Sizes DEF NewTag

LEMMA CallPushStep ==
  ASSUME NEW L, NEW w, NEW at, NEW seen, NEW tops, Kept(L, w, at, seen, tops),
         NEW t \in Threads, CallPush(t)
  PROVE  \E b : Kept(L, w, b, seen, tops)'
<1> USE DEF memory, pool, ends, counts, log
<1>1. Kinds /\ Lasting(L, w, at, seen, tops) /\ \A u \in Threads : OfThread(u, L, w, at, seen, tops)
  BY DEF Kept, Good
<1>2. pushed \in Nat /\ pushed + 1 \in 0 .. MaxPushes /\ pc[t] = "idle" /\ pushed' = pushed + 1
  BY <1>1, LockFreeQueueAssumption DEF CallPush, Kinds, TypeOK
<1>3. At(t, "alloc") /\ reg'[t].msg = pushed + 1
  BY <1>1, <1>2, SetMsgIs DEF CallPush, Labels, Allocating
<1>4. UNCHANGED <<_next, data, _seqAddress, _top, poolSeq, made, _head, _tail, seqNumber, m_size, taken>>
  BY DEF CallPush
<1>5. Kinds'
  BY <1>1, <1>2, <1>3, <1>4 DEF Kinds, TypeOK, At
<1>6. PICK b : b = [m \in 1 .. pushed + 1 |-> IF m = pushed + 1 THEN <<"thread", t>> ELSE at[m]]
  OBVIOUS
<1>7. /\ \A m \in 1 .. pushed : m \in 1 .. pushed' /\ b[m] = at[m]
      /\ pushed + 1 \in 1 .. pushed' /\ b[pushed + 1] = <<"thread", t>>
  BY <1>2, <1>6
<1>8. FreeList(L)' /\ Main(L, w)' /\ Names(w)' /\ Seen(L, w, seen)' /\ Tops(L, tops)' /\ Once(L, made)' /\ L \in Lists
  BY <1>1, <1>4 DEF Lasting, FreeList, Main, Chain, Names, Seen, Tops, Once
<1>9. Taking(b)' /\ Queueing(L, b)'
  BY <1>1, <1>4, <1>7 DEF Lasting, Taking, Queueing, Carried
<1>10. ASSUME NEW u \in Threads
       PROVE  /\ HandOf(u, L, w)' /\ HandUnseen(u, L, w, seen)' /\ HandUntopped(u, tops)'
              /\ AllocLocals(u, L, tops)' /\ TailLocals(u, L, w, seen)' /\ HeadLocals(u, L, w, seen)'
  <2>0. OfThread(u, L, w, at, seen, tops)
    BY <1>1
  <2>1. CASE u = t
    BY <2>0, <1>2, <1>3, <2>1 DEF At, OfThread, HandOf, HandUnseen, HandUntopped, AllocLocals, TailLocals, HeadLocals,
         Handling, Pending, Releasing, HasOld, HasTail, HasHead, Linking
  <2>2. CASE u # t
    <3>1. pc'[u] = pc[u] /\ reg'[u] = reg[u]
      BY <1>3, <2>2 DEF At, Others
    <3>2. HandOf(u, L, w)'
      BY <2>0, <1>4, <3>1 DEF OfThread, HandOf, Chain
    <3>3. HandUnseen(u, L, w, seen)' /\ HandUntopped(u, tops)'
      BY <2>0, <1>4, <3>1 DEF OfThread, HandUnseen, HandUntopped
    <3>4. AllocLocals(u, L, tops)' /\ TailLocals(u, L, w, seen)'
      BY <2>0, <1>4, <3>1 DEF OfThread, AllocLocals, IsFree, TailLocals, InQueue
    <3>5. HeadLocals(u, L, w, seen)'
      BY <2>0, <1>4, <3>1 DEF OfThread, HeadLocals, InQueue
    <3> QED
      BY <3>2, <3>3, <3>4, <3>5
  <2> QED
    BY <2>1, <2>2
<1>11. ASSUME NEW u \in Threads PROVE HandMsgs(u, L, b)'
  <2>0. HandMsgs(u, L, at)
    BY <1>1 DEF OfThread
  <2>1. CASE u = t
    BY <1>2, <1>3, <1>7, <2>1 DEF At, HandMsgs, Pending, Releasing
  <2>2. CASE u # t
    <3>1. pc'[u] = pc[u] /\ reg'[u] = reg[u]
      BY <1>3, <2>2 DEF At, Others
    <3> QED
      BY <2>0, <1>4, <1>7, <3>1 DEF HandMsgs, Carried
  <2> QED
    BY <2>1, <2>2
<1>12. ASSUME NEW u \in Threads, NEW v \in Threads PROVE Ordered(u, v, L)' /\ Released(u, v)'
  <2>1. Ordered(u, v, L) /\ Released(u, v)
    BY DEF Kept, Good
  <2>2. \A x \in Threads : x # t => pc'[x] = pc[x] /\ reg'[x] = reg[x]
    BY <1>3 DEF At, Others
  <2>3. pc'[t] = "alloc"
    BY <1>3 DEF At
  <2> QED
    BY <2>1, <2>2, <2>3 DEF Ordered, Released, Pending, Linking, Releasing
<1>13. Counts'
  <2>1. Uncounted' = Uncounted \cup {t} /\ t \notin Uncounted /\ Unreleased' = Unreleased
    BY <1>2, <1>3 DEF At, Others, Uncounted, Unreleased, Holding, Allocating
  <2>2. IsFiniteSet(Uncounted) /\ Cardinality(Uncounted) \in Nat /\ Counts
    BY CountsAre DEF Kept
  <2>3. Cardinality(Uncounted') = Cardinality(Uncounted) + 1
    BY <2>1, <2>2, FS_AddElement
  <2>4. seqNumber \in Nat /\ Spare \in Nat
    BY <1>1, LockFreeQueueAssumption DEF Kinds, TypeOK
  <2> QED
    BY <1>2, <1>4, <2>1, <2>2, <2>3, <2>4 DEF Counts
<1>14. Kept(L, w, b, seen, tops)'
  BY <1>5, <1>8, <1>9, <1>10, <1>11, <1>12, <1>13 DEF Kept, Good, Lasting, OfThread
<1> QED
  BY <1>14

LEMMA FillStep ==
  ASSUME NEW L, NEW w, NEW at, NEW seen, NEW tops, Kept(L, w, at, seen, tops),
         NEW t \in Threads, Fill(t)
  PROVE  \E b : Kept(L, w, b, seen, tops)'
<1> USE DEF memory, pool, ends, counts, log
<1>1. Kinds /\ Lasting(L, w, at, seen, tops) /\ \A u \in Threads : OfThread(u, L, w, at, seen, tops)
  BY DEF Kept, Good
<1>2. PICK n : n = Addr(reg[t].node)
  OBVIOUS
<1>3. pc[t] = "clear" /\ n \in Nodes /\ In(n, L[Hand(t)]) /\ Size(L[Hand(t)]) = 1 /\ L[Hand(t)][1] = n
  BY <1>1, <1>2, InHands DEF Fill, Handling, OfThread, HandOf
<1>4. At(t, "count") /\ reg'[t] = reg[t]
  BY <1>1, StayIs DEF Fill, Labels, Handling, Pending
<1>5. /\ _next' = [_next EXCEPT ![n] = Nothing] /\ data' = [data EXCEPT ![n] = reg[t].msg]
      /\ UNCHANGED <<_seqAddress, _top, poolSeq, made, _head, _tail, seqNumber, m_size, pushed, taken>>
  BY <1>2 DEF Fill
<1>6. /\ _next \in [Nodes \cup {Dummy} -> Ptr] /\ data \in [Nodes \cup {Dummy} -> 0 .. MaxPushes]
      /\ reg[t].msg \in 0 .. MaxPushes /\ Nothing \in Ptr
  BY <1>1, LocalsAre, Sizes DEF Kinds, TypeOK
<1>7. Kinds'
  BY <1>1, <1>3, <1>4, <1>5, <1>6 DEF Kinds, TypeOK, At
<1>8. OnlyNode(n) /\ _next'[n] = Nothing /\ data'[n] = reg[t].msg
  BY <1>3, <1>5, <1>6 DEF OnlyNode
<1>9. Others(t) /\ pc'[t] = "count"
  BY <1>4 DEF At
<1>10. reg[t].msg \in 1 .. pushed /\ at[reg[t].msg] = <<"thread", t>>
  BY <1>1, <1>3 DEF OfThread, HandMsgs, Holding
<1>11. PICK b : b = [m \in 1 .. pushed |-> IF m = reg[t].msg THEN <<"node", n>> ELSE at[m]]
  OBVIOUS
<1>12. /\ \A m \in 1 .. pushed : m \in 1 .. pushed' /\ (m # reg[t].msg => b[m] = at[m])
       /\ b[reg[t].msg] = <<"node", n>>
  BY <1>5, <1>10, <1>11
<1>13. /\ FreeList(L)' /\ Main(L, w)' /\ Names(w)' /\ Seen(L, w, seen)' /\ Once(L, made)'
       /\ \A u \in Threads \ {t} :
            /\ HandOf(u, L, w)' /\ HandUnseen(u, L, w, seen)' /\ HandUntopped(u, tops)'
            /\ AllocLocals(u, L, tops)' /\ TailLocals(u, L, w, seen)' /\ HeadLocals(u, L, w, seen)'
  <2>1. UNCHANGED <<_top, made, ends, seqNumber>>
    BY <1>5
  <2> QED
    BY <1>3, <1>8, <1>9, <2>1, OneNode
<1>14. Tops(L, tops)' /\ L \in Lists
  BY <1>1, <1>5 DEF Lasting, Tops
<1>15. /\ HandOf(t, L, w)' /\ HandUnseen(t, L, w, seen)' /\ HandUntopped(t, tops)'
       /\ AllocLocals(t, L, tops)' /\ TailLocals(t, L, w, seen)' /\ HeadLocals(t, L, w, seen)'
  <2>1. HandOf(t, L, w)'
    BY <1>2, <1>3, <1>4, <1>8, <1>9 DEF HandOf, Chain, Pending, Releasing, Handling
  <2>2. HandUnseen(t, L, w, seen)'
    BY <1>3, <1>9 DEF HandUnseen
  <2> QED
    BY <1>9, <2>1, <2>2 DEF HandUntopped, AllocLocals, TailLocals, HeadLocals, Releasing, HasOld, HasTail, HasHead, Linking
<1>16. \A x \in Nodes : x # n /\ Carried(x, at) => Carried(x, b)'
  <2> SUFFICES ASSUME NEW x \in Nodes, x # n, Carried(x, at) PROVE Carried(x, b)'
    OBVIOUS
  <2>1. data'[x] = data[x] /\ data[x] # reg[t].msg
    BY <1>8, <1>10 DEF OnlyNode, Carried
  <2> QED
    BY <1>12, <2>1 DEF Carried
<1>17. Taking(b)' /\ Queueing(L, b)'
  <2>1. Taking(b)'
    BY <1>1, <1>5, <1>10, <1>12 DEF Lasting, Taking
  <2>2. ASSUME NEW i \in 2 .. Size(L[Queued]) PROVE L[Queued][i] \in Nodes /\ L[Queued][i] # n
    <3>1. Hand(t) \in Places /\ Queued \in Places /\ Hand(t) # Queued
      BY AllPlaces
    <3>2. i \in 1 .. Size(L[Queued])
      OBVIOUS
    <3>3. L[Queued][i] \in Nodes /\ In(L[Queued][i], L[Queued])
      BY <3>1, <3>2, Apart
    <3>4. ~In(n, L[Queued])
      BY <1>3, <3>1, Elsewhere
    <3> QED
      BY <3>3, <3>4
  <2>3. Queueing(L, b)'
    BY <1>1, <1>16, <2>2 DEF Lasting, Queueing
  <2> QED
    BY <2>1, <2>3
<1>18. ASSUME NEW u \in Threads PROVE HandMsgs(u, L, b)'
  <2>0. HandMsgs(u, L, at)
    BY <1>1 DEF OfThread
  <2>1. CASE u = t
    <3>1. Carried(n, b)'
      BY <1>8, <1>10, <1>12 DEF Carried
    <3>2. \A i \in 1 .. Size(L[Hand(t)]) : Carried(L[Hand(t)][i], b)'
      BY <1>3, <3>1
    <3> QED
      BY <1>9, <2>1, <3>2 DEF HandMsgs, Releasing, Holding, Allocating
  <2>2. CASE u # t
    <3>1. pc'[u] = pc[u] /\ reg'[u] = reg[u]
      BY <1>9, <2>2 DEF Others
    <3>2. \A i \in 1 .. Size(L[Hand(u)]) : L[Hand(u)][i] \in Nodes /\ L[Hand(u)][i] # n
      <4>1. Hand(u) \in Places /\ Hand(t) \in Places /\ Hand(u) # Hand(t)
        BY <2>2, AllPlaces
      <4> QED
        BY <1>3, <4>1, Apart
    <3>3. pc[u] \in Holding => reg[u].msg # reg[t].msg
      BY <1>10, <2>0, <2>2 DEF HandMsgs
    <3> QED
      BY <2>0, <1>5, <1>12, <1>16, <3>1, <3>2, <3>3 DEF HandMsgs
  <2> QED
    BY <2>1, <2>2
<1>19. ASSUME NEW u \in Threads, NEW v \in Threads PROVE Ordered(u, v, L)' /\ Released(u, v)'
  <2>1. Ordered(u, v, L) /\ Released(u, v)
    BY DEF Kept, Good
  <2>2. \A x \in Threads : x # t => pc'[x] = pc[x] /\ reg'[x] = reg[x]
    BY <1>9 DEF Others
  <2> QED
    BY <1>9, <2>1, <2>2 DEF Ordered, Released, Pending, Linking, Releasing
<1>20. Counts'
  <2>1. Uncounted' = Uncounted /\ Unreleased' = Unreleased
    BY <1>3, <1>9 DEF Others, Uncounted, Unreleased, Holding, Allocating
  <2> QED
    BY <1>5, <2>1 DEF Counts, Kept
<1>21. Kept(L, w, b, seen, tops)'
  BY <1>7, <1>13, <1>14, <1>15, <1>17, <1>18, <1>19, <1>20 DEF Kept, Good, Lasting, OfThread
<1> QED
  BY <1>21

LEMMA ReleasesNode ==
  ASSUME NEW L, NEW w, NEW at, NEW seen, NEW tops, Kept(L, w, at, seen, tops),
         NEW t \in Threads, Release(t)
  PROVE  Kept(L, w, at, seen, tops)'
<1> USE DEF memory, pool, ends, counts, log
<1>1. Kinds /\ Lasting(L, w, at, seen, tops) /\ \A u \in Threads : OfThread(u, L, w, at, seen, tops)
  BY DEF Kept, Good
<1>2. PICK n : n = Addr(reg[t].node)
  OBVIOUS
<1>3. pc[t] = "release" /\ n \in Nodes /\ In(n, L[Hand(t)])
  BY <1>2, InHands DEF Release, Handling, Releasing
<1>4. poolSeq \in Nat /\ poolSeq' = poolSeq + 1 /\ poolSeq' \in 0 .. Tags - 1
  <2>1. poolSeq \in Nat /\ poolSeq' = NewTag(poolSeq) /\ t \in Unreleased /\ pushed <= MaxPushes /\ pushed \in Nat
    BY <1>1, <1>3, LockFreeQueueAssumption DEF Release, Kinds, TypeOK, Unreleased
  <2>2. poolSeq + 1 <= Spare + Size(taken) /\ Size(taken) \in Nat /\ Size(taken) <= pushed
    BY <2>1, CountsAre, TakenBound DEF Kept
  <2>3. poolSeq + 1 < Tags
    BY <2>1, <2>2, Sizes
  <2> QED
    BY <2>1, <2>3, TagsLast, Sizes
<1>5. PICK p : p = <<poolSeq + 1, n>>
  OBVIOUS
<1>6. p \in Ptr /\ Addr(p) = n /\ Tag(p) = poolSeq + 1
  BY <1>3, <1>4, <1>5, Ptrs, Sizes
<1>7. /\ _seqAddress' = [_seqAddress EXCEPT ![n] = p]
      /\ UNCHANGED <<_next, data, _top, made, _head, _tail, seqNumber, m_size, pushed, taken>>
  BY <1>2, <1>4, <1>5 DEF Release
<1>8. At(t, "readFree") /\ reg'[t].new = p /\ reg'[t].node = reg[t].node /\ reg'[t].msg = reg[t].msg
  BY <1>1, <1>2, <1>4, <1>5, <1>6, SetIs DEF Release, Labels, Handling, Releasing
<1>9. Others(t) /\ pc'[t] = "readFree"
  BY <1>8 DEF At
<1>10. _seqAddress \in [Nodes \cup {Dummy} -> Ptr]
  BY <1>1 DEF Kinds, TypeOK
<1>11. Kinds'
  <2>1. \A x \in Nodes \cup {Dummy} : Addr(_seqAddress'[x]) = x /\ Tag(_seqAddress'[x]) <= poolSeq'
    <3> SUFFICES ASSUME NEW x \in Nodes \cup {Dummy} PROVE Addr(_seqAddress'[x]) = x /\ Tag(_seqAddress'[x]) <= poolSeq'
      OBVIOUS
    <3>1. Addr(_seqAddress[x]) = x /\ Tag(_seqAddress[x]) <= poolSeq /\ Tag(_seqAddress[x]) \in Nat
      BY <1>1, <1>10, Ptrs DEF Kinds
    <3>2. _seqAddress'[x] = IF x = n THEN p ELSE _seqAddress[x]
      BY <1>7, <1>10
    <3>3. poolSeq + 1 <= poolSeq'
      BY <1>4
    <3> QED
      BY <1>4, <1>6, <3>1, <3>2, <3>3
  <2> QED
    BY <1>1, <1>3, <1>4, <1>6, <1>7, <1>8, <1>10, <2>1 DEF Kinds, TypeOK, At
<1>12. OnlyNode(n) /\ _seqAddress'[n] = p
  BY <1>3, <1>7, <1>10 DEF OnlyNode
<1>13. /\ FreeList(L)' /\ Main(L, w)' /\ Names(w)' /\ Seen(L, w, seen)' /\ Once(L, made)'
       /\ \A u \in Threads \ {t} :
            /\ HandOf(u, L, w)' /\ HandUnseen(u, L, w, seen)' /\ HandUntopped(u, tops)'
            /\ AllocLocals(u, L, tops)' /\ TailLocals(u, L, w, seen)' /\ HeadLocals(u, L, w, seen)'
  <2>1. UNCHANGED <<_top, made, ends, seqNumber>>
    BY <1>7
  <2> QED
    BY <1>3, <1>9, <1>12, <2>1, OneNode
<1>14. Tops(L, tops)' /\ L \in Lists
  <2>1. ~In(n, L[Free])
    BY <1>3, Apart, AllPlaces
  <2>2. \A p0 \in tops : Tag(p0) \in Nat
    BY <1>1, Ptrs DEF Lasting, Tops
  <2> QED
    BY <1>1, <1>4, <1>7, <1>12, <2>1, <2>2 DEF Lasting, Tops, OnlyNode
<1>15. /\ HandOf(t, L, w)' /\ HandUnseen(t, L, w, seen)' /\ HandUntopped(t, tops)'
       /\ AllocLocals(t, L, tops)' /\ TailLocals(t, L, w, seen)' /\ HeadLocals(t, L, w, seen)'
  <2>1. HandOf(t, L, w)'
    BY <1>1, <1>2, <1>3, <1>7, <1>8, <1>9, <1>12 DEF OfThread, HandOf, Pending, Releasing, Handling
  <2>2. HandUntopped(t, tops)'
    <3>1. p \notin tops
      BY <1>1, <1>4, <1>6 DEF Lasting, Tops
    <3> QED
      BY <1>8, <3>1 DEF HandUntopped
  <2> QED
    BY <1>9, <2>1, <2>2 DEF HandUnseen, AllocLocals, TailLocals, HeadLocals, Pending, Releasing, HasOld, HasTail, HasHead, Linking
<1>16. Taking(at)' /\ Queueing(L, at)'
  BY <1>1, <1>7 DEF Lasting, Taking, Queueing, Carried
<1>17. ASSUME NEW u \in Threads PROVE HandMsgs(u, L, at)'
  <2>0. HandMsgs(u, L, at)
    BY <1>1 DEF OfThread
  <2>1. CASE u = t
    BY <1>3, <1>7, <1>8, <1>9, <2>0, <2>1 DEF HandMsgs, Releasing, Holding, Allocating, Pending
  <2>2. CASE u # t
    BY <1>7, <1>9, <2>0, <2>2 DEF Others, HandMsgs, Carried
  <2> QED
    BY <2>1, <2>2
<1>18. ASSUME NEW u \in Threads, NEW v \in Threads PROVE Ordered(u, v, L)' /\ Released(u, v)'
  <2>1. Ordered(u, v, L) /\ Released(u, v)
    BY DEF Kept, Good
  <2>2. \A x \in Threads : /\ x # t => pc'[x] = pc[x] /\ reg'[x] = reg[x]
                           /\ reg'[x].msg = reg[x].msg \/ x # t
    BY <1>8, <1>9 DEF Others
  <2> QED
    BY <1>3, <1>9, <2>1, <2>2 DEF Ordered, Released, Pending, Linking, Releasing
<1>19. Counts'
  <2>1. Uncounted' = Uncounted /\ Unreleased' = Unreleased \ {t} /\ t \in Unreleased
    BY <1>3, <1>9 DEF Others, Uncounted, Unreleased, Holding, Allocating
  <2>2. IsFiniteSet(Unreleased) /\ Cardinality(Unreleased) \in Nat /\ Counts
    BY CountsAre DEF Kept
  <2>3. Cardinality(Unreleased') = Cardinality(Unreleased) - 1
    BY <2>1, <2>2, FS_RemoveElement
  <2> QED
    BY <1>4, <1>7, <2>1, <2>2, <2>3 DEF Counts
<1> QED
  BY <1>11, <1>13, <1>14, <1>15, <1>16, <1>17, <1>18, <1>19 DEF Kept, Good, Lasting, OfThread

LEMMA HangStep ==
  ASSUME NEW L, NEW w, NEW at, NEW seen, NEW tops, Kept(L, w, at, seen, tops),
         NEW t \in Threads, Hang(t)
  PROVE  Kept(L, w, at, seen, tops)'
<1> USE DEF memory, pool, ends, counts, log
<1>1. Kinds /\ Lasting(L, w, at, seen, tops) /\ \A u \in Threads : OfThread(u, L, w, at, seen, tops)
  BY DEF Kept, Good
<1>2. PICK n : n = Addr(reg[t].node)
  OBVIOUS
<1>3. pc[t] = "hang" /\ n \in Nodes /\ In(n, L[Hand(t)])
  BY <1>2, InHands DEF Hang, Handling, Releasing
<1>4. PICK p : p = <<0, Addr(reg[t].old)>>
  OBVIOUS
<1>5. p \in Ptr /\ Addr(p) # Null /\ p # Nothing
  <2>1. reg[t].old \in Ptr
    BY <1>1, LocalsAre
  <2>2. Addr(reg[t].old) \in 0 .. Dummy /\ 0 \in 0 .. Tags - 1
    BY <2>1, Ptrs, Sizes
  <2>3. Addr(reg[t].old) # Null
    BY <1>1, <1>3 DEF OfThread, HandOf
  <2> QED
    BY <1>4, <2>2, <2>3, Ptrs, Sizes
<1>6. /\ _next' = [_next EXCEPT ![n] = p]
      /\ UNCHANGED <<data, _seqAddress, _top, poolSeq, made, _head, _tail, seqNumber, m_size, pushed, taken>>
  BY <1>2, <1>4 DEF Hang
<1>7. At(t, "releaseCAS") /\ reg'[t] = reg[t]
  BY <1>1, StayIs DEF Hang, Labels, Handling, Releasing
<1>8. Others(t) /\ pc'[t] = "releaseCAS"
  BY <1>7 DEF At
<1>9. _next \in [Nodes \cup {Dummy} -> Ptr]
  BY <1>1 DEF Kinds, TypeOK
<1>10. Kinds'
  BY <1>1, <1>3, <1>5, <1>6, <1>7, <1>9 DEF Kinds, TypeOK, At
<1>11. OnlyNode(n) /\ _next'[n] = p
  BY <1>3, <1>6, <1>9 DEF OnlyNode
<1>12. /\ FreeList(L)' /\ Main(L, w)' /\ Names(w)' /\ Seen(L, w, seen)' /\ Once(L, made)'
       /\ \A u \in Threads \ {t} :
            /\ HandOf(u, L, w)' /\ HandUnseen(u, L, w, seen)' /\ HandUntopped(u, tops)'
            /\ AllocLocals(u, L, tops)' /\ TailLocals(u, L, w, seen)' /\ HeadLocals(u, L, w, seen)'
  <2>1. UNCHANGED <<_top, made, ends, seqNumber>>
    BY <1>6
  <2> QED
    BY <1>3, <1>8, <1>11, <2>1, OneNode
<1>13. Tops(L, tops)' /\ L \in Lists
  BY <1>1, <1>6 DEF Lasting, Tops
<1>14. /\ HandOf(t, L, w)' /\ HandUnseen(t, L, w, seen)' /\ HandUntopped(t, tops)'
       /\ AllocLocals(t, L, tops)' /\ TailLocals(t, L, w, seen)' /\ HeadLocals(t, L, w, seen)'
  <2>0. OfThread(t, L, w, at, seen, tops)
    BY <1>1
  <2>1. HandOf(t, L, w)'
    BY <2>0, <1>2, <1>3, <1>4, <1>5, <1>6, <1>7, <1>8, <1>11 DEF OfThread, HandOf, Pending, Releasing, Handling
  <2>2. HandUntopped(t, tops)'
    BY <2>0, <1>3, <1>7, <1>8 DEF OfThread, HandUntopped, Releasing
  <2> QED
    BY <1>8, <2>1, <2>2 DEF HandUnseen, AllocLocals, TailLocals, HeadLocals, Pending, Releasing, HasOld, HasTail, HasHead, Linking
<1>15. Taking(at)' /\ Queueing(L, at)'
  BY <1>1, <1>6 DEF Lasting, Taking, Queueing, Carried
<1>16. ASSUME NEW u \in Threads PROVE HandMsgs(u, L, at)'
  <2>0. HandMsgs(u, L, at)
    BY <1>1 DEF OfThread
  <2>1. CASE u = t
    BY <1>3, <1>6, <1>7, <1>8, <2>0, <2>1 DEF HandMsgs, Releasing, Holding, Allocating, Pending
  <2>2. CASE u # t
    BY <1>6, <1>8, <2>0, <2>2 DEF Others, HandMsgs, Carried
  <2> QED
    BY <2>1, <2>2
<1>17. ASSUME NEW u \in Threads, NEW v \in Threads PROVE Ordered(u, v, L)' /\ Released(u, v)'
  <2>1. Ordered(u, v, L) /\ Released(u, v)
    BY DEF Kept, Good
  <2>2. \A x \in Threads : reg'[x] = reg[x] /\ (x # t => pc'[x] = pc[x])
    BY <1>7, <1>8 DEF Others
  <2> QED
    BY <1>3, <1>8, <2>1, <2>2 DEF Ordered, Released, Pending, Linking, Releasing
<1>18. Counts'
  <2>1. Uncounted' = Uncounted /\ Unreleased' = Unreleased
    BY <1>3, <1>8 DEF Others, Uncounted, Unreleased, Holding, Allocating
  <2> QED
    BY <1>6, <2>1 DEF Counts, Kept
<1> QED
  BY <1>10, <1>12, <1>13, <1>14, <1>15, <1>16, <1>17, <1>18 DEF Kept, Good, Lasting, OfThread

LEMMA CountPushStep ==
  ASSUME NEW L, NEW w, NEW at, NEW seen, NEW tops, Kept(L, w, at, seen, tops),
         NEW t \in Threads, CountPush(t)
  PROVE  \E w2 : Kept(L, w2, at, seen, tops)'
<1> USE DEF memory, pool, ends, counts, log
<1>1. Kinds /\ Lasting(L, w, at, seen, tops) /\ \A u \in Threads : OfThread(u, L, w, at, seen, tops)
  BY DEF Kept, Good
<1>2. PICK n : n = Addr(reg[t].node)
  OBVIOUS
<1>3. /\ pc[t] = "count" /\ n \in Nodes /\ In(n, L[Hand(t)]) /\ L[Hand(t)][1] = n /\ Size(L[Hand(t)]) \in Nat
      /\ 1 \in 1 .. Size(L[Hand(t)])
  <2>1. pc[t] = "count" /\ n \in Nodes /\ In(n, L[Hand(t)]) /\ L[Hand(t)][1] = n /\ Size(L[Hand(t)]) # 0
    BY <1>2, InHands DEF CountPush, Handling, Pending
  <2> QED
    BY <2>1, Apart, AllPlaces
<1>4. seqNumber \in Nat /\ seqNumber' = seqNumber + 1 /\ seqNumber' \in 0 .. Tags - 1
  <2>1. seqNumber \in Nat /\ seqNumber' = NewTag(seqNumber) /\ t \in Uncounted /\ pushed <= MaxPushes /\ pushed \in Nat
    BY <1>1, <1>3, LockFreeQueueAssumption DEF CountPush, Kinds, TypeOK, Uncounted
  <2>2. seqNumber + 1 <= Spare + pushed
    BY <2>1, CountsAre DEF Kept
  <2>3. seqNumber + 1 < Tags
    BY <2>1, <2>2, Sizes
  <2> QED
    BY <2>1, <2>3, TagsLast, Sizes
<1>5. PICK p : p = <<seqNumber + 1, n>>
  OBVIOUS
<1>6. p \in Ptr /\ Addr(p) = n /\ Tag(p) = seqNumber + 1
  BY <1>3, <1>4, <1>5, Ptrs, Sizes
<1>7. UNCHANGED <<_next, data, _seqAddress, _top, poolSeq, made, _head, _tail, pushed, taken>> /\ m_size' \in Int
  BY <1>1 DEF CountPush, Kinds, TypeOK
<1>8. At(t, "readTail") /\ reg'[t].node = p /\ reg'[t].msg = reg[t].msg
  BY <1>1, <1>2, <1>4, <1>5, <1>6, SetIs DEF CountPush, Labels, Handling, Pending
<1>9. Others(t) /\ pc'[t] = "readTail"
  BY <1>8 DEF At
<1>10. Kinds'
  BY <1>1, <1>4, <1>7, <1>8 DEF Kinds, TypeOK, At
<1>11. PICK w2 : w2 = [w EXCEPT ![n] = p]
  OBVIOUS
<1>12. Names(w) /\ (\A x \in Nodes : Tag(w[x]) \in Nat)
  BY <1>1, Ptrs DEF Lasting, Names
<1>13. w2 \in [Nodes -> Ptr] /\ w2[n] = p /\ \A x \in Nodes : x # n => w2[x] = w[x]
  BY <1>3, <1>6, <1>11, <1>12 DEF Names
<1>14. Names(w2)'
  BY <1>4, <1>6, <1>12, <1>13 DEF Names
<1>15. \A X \in Places : X # Hand(t) => \A i \in 1 .. Size(L[X]) : w2[L[X][i]] = w[L[X][i]]
  <2> SUFFICES ASSUME NEW X \in Places, X # Hand(t), NEW i \in 1 .. Size(L[X]) PROVE L[X][i] \in Nodes /\ L[X][i] # n
    BY <1>13
  <2>1. L[X][i] \in Nodes /\ In(L[X][i], L[X]) /\ Hand(t) \in Places
    BY Apart, AllPlaces
  <2>2. ~In(n, L[X])
    BY <1>3, <2>1, Apart
  <2> QED
    BY <2>1, <2>2
<1>16. \A i \in 1 .. Size(L[Hand(t)]) : i # 1 => w2[L[Hand(t)][i]] = w[L[Hand(t)][i]]
  BY <1>3, <1>13, Apart, AllPlaces
<1>17. Free # Hand(t) /\ Queued # Hand(t) /\ Free \in Places /\ Queued \in Places /\ Hand(t) \in Places
  BY AllPlaces
<1>18. FreeList(L)' /\ Once(L, made)' /\ Tops(L, tops)' /\ Taking(at)' /\ Queueing(L, at)' /\ L \in Lists
  BY <1>1, <1>7 DEF Lasting, FreeList, Once, Tops, Taking, Queueing, Carried
<1>19. \A x \in Nodes : In(x, L[Queued]) => w2[x] = w[x]
  BY <1>15, <1>17 DEF In
<1>20. Main(L, w2)'
  <2>1. Main(L, w) /\ Size(L[Queued]) \in Nat
    BY <1>1, QueueIs DEF Lasting
  <2>2. 1 \in 1 .. Size(L[Queued]) /\ \A i \in 1 .. Size(L[Queued]) : i # Size(L[Queued]) => i + 1 \in 1 .. Size(L[Queued])
    BY <2>1 DEF Main
  <2> QED
    BY <1>7, <1>15, <1>17, <2>1, <2>2 DEF Main, Chain
<1>21. Seen(L, w2, seen)'
  <2>1. Seen(L, w, seen) /\ \A r \in seen : Tag(r) \in Nat
    BY <1>1, Ptrs DEF Lasting, Seen
  <2> QED
    BY <1>4, <1>7, <1>19, <2>1 DEF Seen
<1>22. ASSUME NEW u \in Threads PROVE HandOf(u, L, w2)'
  <2>0. HandOf(u, L, w) /\ Size(L[Hand(u)]) \in Nat
    BY <1>1, Apart, AllPlaces DEF OfThread
  <2>1. \A i \in 1 .. Size(L[Hand(u)]) : i # Size(L[Hand(u)]) => i + 1 \in 1 .. Size(L[Hand(u)]) /\ i + 1 # 1
    BY <2>0
  <2>2. CASE u = t
    <3>1. Chain(L[Hand(t)], w) /\ Size(L[Hand(t)]) # 0
      BY <1>3, <2>0, <2>2 DEF HandOf, Pending
    <3>2. Chain(L[Hand(t)], w2)'
      BY <1>7, <1>16, <2>1, <2>2, <3>1 DEF Chain
    <3> QED
      BY <1>3, <1>6, <1>8, <1>9, <1>13, <2>2, <3>1, <3>2 DEF HandOf, Pending, Releasing, Handling
  <2>3. CASE u # t
    <3>1. pc'[u] = pc[u] /\ reg'[u] = reg[u]
      BY <1>9, <2>3 DEF Others
    <3>2. Hand(u) \in Places /\ Hand(u) # Hand(t)
      BY <2>3, AllPlaces
    <3>3. Chain(L[Hand(u)], w) => Chain(L[Hand(u)], w2)'
      BY <1>7, <1>15, <2>1, <3>2 DEF Chain
    <3>4. pc[u] \in Pending => w2[Addr(reg[u].node)] = w[Addr(reg[u].node)]
      <4>1. SUFFICES ASSUME pc[u] \in Pending PROVE Addr(reg[u].node) \in Nodes /\ Addr(reg[u].node) # n
        BY <1>13
      <4>2. Addr(reg[u].node) \in Nodes /\ In(Addr(reg[u].node), L[Hand(u)])
        BY <4>1, InHands DEF Handling
      <4>3. ~In(n, L[Hand(u)])
        BY <1>3, <1>17, <3>2, Elsewhere
      <4> QED
        BY <4>2, <4>3
    <3> QED
      BY <1>7, <2>0, <3>1, <3>3, <3>4 DEF HandOf
  <2> QED
    BY <2>2, <2>3
<1>23. ASSUME NEW u \in Threads PROVE HandUnseen(u, L, w2, seen)' /\ HandUntopped(u, tops)'
  <2>0. HandUnseen(u, L, w, seen) /\ HandUntopped(u, tops)
    BY <1>1 DEF OfThread
  <2>1. CASE u = t
    <3>1. w2[L[Hand(t)][1]] \notin seen
      <4>1. \A r \in seen : Tag(r) <= seqNumber
        BY <1>1 DEF Lasting, Seen
      <4>2. ~(seqNumber + 1 <= seqNumber)
        BY <1>4
      <4> QED
        BY <1>3, <1>6, <1>13, <4>1, <4>2
    <3> QED
      BY <1>3, <1>9, <1>16, <2>0, <2>1, <3>1 DEF HandUnseen, HandUntopped, Pending, Releasing
  <2>2. CASE u # t
    <3>1. pc'[u] = pc[u] /\ reg'[u] = reg[u]
      BY <1>9, <2>2 DEF Others
    <3>2. Hand(u) \in Places /\ Hand(u) # Hand(t)
      BY <2>2, AllPlaces
    <3> QED
      BY <1>7, <1>15, <2>0, <3>1, <3>2 DEF HandUnseen, HandUntopped
  <2> QED
    BY <2>1, <2>2
<1>24. ASSUME NEW u \in Threads PROVE AllocLocals(u, L, tops)' /\ TailLocals(u, L, w2, seen)' /\ HeadLocals(u, L, w2, seen)'
  <2>0. AllocLocals(u, L, tops) /\ TailLocals(u, L, w, seen) /\ HeadLocals(u, L, w, seen)
    BY <1>1 DEF OfThread
  <2>1. CASE u = t
    BY <1>9, <2>1 DEF AllocLocals, TailLocals, HeadLocals, HasOld, HasTail, HasHead, Linking
  <2>2. CASE u # t
    <3>1. pc'[u] = pc[u] /\ reg'[u] = reg[u]
      BY <1>9, <2>2 DEF Others
    <3>2. /\ pc[u] \in HasTail => (InQueue(reg[u].tail, L, w2) <=> InQueue(reg[u].tail, L, w))
          /\ pc[u] \in HasHead => (InQueue(reg[u].head, L, w2) <=> InQueue(reg[u].head, L, w))
      BY <1>19, Reached DEF InQueue
    <3>3. AllocLocals(u, L, tops)'
      BY <1>7, <2>0, <3>1 DEF AllocLocals, IsFree
    <3>4. TailLocals(u, L, w2, seen)'
      BY <1>7, <2>0, <3>1, <3>2 DEF TailLocals, HasTail, Linking, InQueue
    <3>5. HeadLocals(u, L, w2, seen)'
      BY <1>7, <2>0, <3>1, <3>2 DEF HeadLocals, HasHead, InQueue
    <3> QED
      BY <3>3, <3>4, <3>5
  <2> QED
    BY <2>1, <2>2
<1>25. ASSUME NEW u \in Threads PROVE HandMsgs(u, L, at)'
  <2>0. HandMsgs(u, L, at)
    BY <1>1 DEF OfThread
  <2>1. CASE u = t
    BY <1>3, <1>7, <1>8, <1>9, <2>0, <2>1 DEF HandMsgs, Carried, Releasing, Holding, Allocating, Pending
  <2>2. CASE u # t
    BY <1>7, <1>9, <2>0, <2>2 DEF Others, HandMsgs, Carried
  <2> QED
    BY <2>1, <2>2
<1>26. ASSUME NEW u \in Threads, NEW v \in Threads PROVE Ordered(u, v, L)' /\ Released(u, v)'
  <2>1. Ordered(u, v, L) /\ Released(u, v)
    BY DEF Kept, Good
  <2>2. \A x \in Threads : x # t => pc'[x] = pc[x] /\ reg'[x] = reg[x]
    BY <1>9 DEF Others
  <2>3. pc[u] \in Linking => Tag(reg[u].node) <= seqNumber /\ Tag(reg[u].node) \in Nat
    <3>1. SUFFICES ASSUME pc[u] \in Linking PROVE reg[u].node = w[Addr(reg[u].node)] /\ Addr(reg[u].node) \in Nodes
      BY <1>12 DEF Names
    <3>2. pc[u] \in Pending \ {"count"}
      BY <3>1 DEF Linking, Pending
    <3> QED
      BY <1>1, <3>2, InHands DEF OfThread, HandOf, Handling
  <2>4. Ordered(u, v, L)'
    <3>1. CASE u = t
      BY <1>9, <3>1 DEF Ordered, Linking
    <3>2. CASE u # t /\ v = t
      BY <1>4, <1>6, <1>8, <2>2, <2>3, <3>2 DEF Ordered
    <3>3. CASE u # t /\ v # t
      BY <2>1, <2>2, <3>3 DEF Ordered
    <3> QED
      BY <3>1, <3>2, <3>3
  <2> QED
    BY <1>9, <2>1, <2>2, <2>4 DEF Released, Releasing
<1>27. Counts'
  <2>1. Uncounted' = Uncounted \ {t} /\ t \in Uncounted /\ Unreleased' = Unreleased
    BY <1>3, <1>9 DEF Others, Uncounted, Unreleased, Holding, Allocating
  <2>2. IsFiniteSet(Uncounted) /\ Cardinality(Uncounted) \in Nat /\ Counts
    BY CountsAre DEF Kept
  <2>3. Cardinality(Uncounted') = Cardinality(Uncounted) - 1
    BY <2>1, <2>2, FS_RemoveElement
  <2> QED
    BY <1>4, <1>7, <2>1, <2>2, <2>3 DEF Counts
<1>28. Kept(L, w2, at, seen, tops)'
  BY <1>10, <1>14, <1>18, <1>20, <1>21, <1>22, <1>23, <1>24, <1>25, <1>26, <1>27 DEF Kept, Good, Lasting, OfThread
<1> QED
  BY <1>28

-----------------------------------------------------------------------------
(* Steps that move nodes from one place to another *)

\* What the others have in hand stays there.
LEMMA Moved ==
  ASSUME NEW L, NEW w, NEW at, NEW seen, NEW tops, Kept(L, w, at, seen, tops),
         NEW t \in Threads, Others(t), UNCHANGED memory,
         NEW M, \A X \in Places : X # Hand(t) /\ X # Free /\ X # Queued => M[X] = L[X]
  PROVE  /\ \A u \in Threads \ {t} : /\ M[Hand(u)] = L[Hand(u)] /\ pc'[u] = pc[u] /\ reg'[u] = reg[u]
                                     /\ HandOf(u, M, w)' /\ HandUnseen(u, M, w, seen)' /\ HandUntopped(u, tops)'
         /\ \A u \in Threads, v \in Threads \ {t} : u # t => Ordered(u, v, M)'
<1> USE DEF memory
<1>1. ASSUME NEW u \in Threads \ {t}
      PROVE  /\ M[Hand(u)] = L[Hand(u)] /\ pc'[u] = pc[u] /\ reg'[u] = reg[u]
             /\ HandOf(u, M, w)' /\ HandUnseen(u, M, w, seen)' /\ HandUntopped(u, tops)'
  <2>1. M[Hand(u)] = L[Hand(u)] /\ pc'[u] = pc[u] /\ reg'[u] = reg[u]
    BY AllPlaces DEF Others
  <2>2. OfThread(u, L, w, at, seen, tops)
    BY DEF Kept, Good
  <2>3. HandOf(u, M, w)'
    BY <2>1, <2>2 DEF OfThread, HandOf, Chain
  <2>4. HandUnseen(u, M, w, seen)' /\ HandUntopped(u, tops)'
    BY <2>1, <2>2 DEF OfThread, HandUnseen, HandUntopped
  <2> QED
    BY <2>1, <2>3, <2>4
<1>2. ASSUME NEW u \in Threads \ {t}, NEW v \in Threads \ {t} PROVE Ordered(u, v, M)'
  BY <1>1 DEF Kept, Good, Ordered
<1> QED
  BY <1>1, <1>2

LEMMA PopCASSucceeds ==
  ASSUME NEW L, NEW w, NEW at, NEW seen, NEW tops, Kept(L, w, at, seen, tops),
         NEW t \in Threads, PopCAS(t), _head = reg[t].head
  PROVE  \E M, b : Kept(M, w, b, seen, tops)'
<1> USE DEF memory, pool, counts
<1>1. Kinds /\ Lasting(L, w, at, seen, tops) /\ \A u \in Threads : OfThread(u, L, w, at, seen, tops)
  BY DEF Kept, Good
<1>2. PICK n, nx, m, s : n = Addr(_head) /\ nx = reg[t].next /\ m = reg[t].msg /\ s = Size(L[Queued])
  OBVIOUS
<1>3. /\ pc[t] = "popCAS" /\ _tail # _head /\ nx = _next[n] /\ Addr(nx) # Null /\ m = data[Addr(nx)]
      /\ Size(L[Hand(t)]) = 0
  BY <1>1, <1>2 DEF PopCAS, OfThread, HeadLocals, HasHead, HandOf, Handling, Pending, Releasing
<1>4. /\ 2 \in 1 .. s /\ nx = w[L[Queued][2]] /\ Addr(nx) = L[Queued][2] /\ s \in Nat
      /\ n = L[Queued][1] /\ n \in Nodes /\ L[Queued][2] \in Nodes /\ L[Queued][2] # n /\ 1 \in 1 .. s
  <2>1. 2 \in 1 .. s /\ nx = w[L[Queued][2]] /\ Addr(nx) = L[Queued][2] /\ s \in Nat
    BY <1>2, <1>3, FrontOfQueue, QueueIs
  <2>2. n = L[Queued][1] /\ 1 \in 1 .. s /\ 2 # 1
    BY <1>2, <2>1, EndsAre
  <2> QED
    BY <1>2, <2>1, <2>2, QueueIs
<1>5. Carried(L[Queued][2], at) /\ m \in 1 .. pushed /\ at[m] = <<"node", L[Queued][2]>>
  <2>1. 2 \in 2 .. Size(L[Queued])
    BY <1>2, <1>4
  <2> QED
    BY <1>1, <1>3, <1>4, <2>1 DEF Lasting, Queueing, Carried
<1>7. Free \in Places /\ Queued \in Places /\ Hand(t) \in Places /\ Free # Queued /\ Free # Hand(t) /\ Queued # Hand(t)
  BY AllPlaces
<1>6. L \in Lists /\ Once(L, made) /\ made \in Nat /\ Size(L[Queued]) # 0
  BY <1>1, <1>2, <1>4, LockFreeQueueAssumption DEF Lasting, Kinds, TypeOK, Nodes
<1>8. PICK M \in Lists :
        /\ Once(M, made) /\ Size(M[Hand(t)]) = 1 /\ M[Hand(t)][1] = n
        /\ Follows(L[Queued], M[Hand(t)], M[Queued])
        /\ \A X \in Places : X # Queued /\ X # Hand(t) => M[X] = L[X]
  <2>1. Size(L[Hand(t)]) = 0
    BY <1>3
  <2> QED
    BY <1>4, <1>6, <1>7, <2>1, Taken
<1>9. /\ s = 1 + Size(M[Queued]) /\ Size(M[Queued]) \in Nat
      /\ \A i \in 1 .. Size(M[Queued]) : 1 + i \in 2 .. s /\ M[Queued][i] = L[Queued][1 + i]
  BY <1>2, <1>7, <1>8, Listed DEF Follows
<1>10. \A x : In(x, M[Queued]) => In(x, L[Queued]) /\ x # n
  <2> SUFFICES ASSUME NEW i \in 1 .. Size(M[Queued]) PROVE In(M[Queued][i], L[Queued]) /\ M[Queued][i] # n
    BY DEF In
  <2>1. 1 + i \in 1 .. Size(L[Queued]) /\ 1 \in 1 .. Size(L[Queued]) /\ 1 + i # 1 /\ M[Queued][i] = L[Queued][1 + i]
    BY <1>2, <1>4, <1>9
  <2> QED
    BY <1>4, <2>1, QueueIs
<1>11. /\ _head' = nx /\ taken' = Append(taken, m) /\ Hold(t, <<0, n>>, "release")
       /\ UNCHANGED <<_next, data, _seqAddress, _top, poolSeq, made, _tail, seqNumber, m_size, pushed>>
  BY <1>2 DEF PopCAS
<1>12. At(t, "release") /\ reg'[t].node = <<0, n>> /\ reg'[t].msg = m
  <2>1. <<0, n>> \in Ptr
    BY <1>4, Ptrs, Sizes
  <2>2. "release" \in Labels
    BY DEF Labels, Handling, Releasing
  <2> QED
    BY <1>1, <1>2, <1>11, <2>1, <2>2, HoldIs
<1>13. Addr(reg'[t].node) = n
  BY <1>12 DEF Addr
<1>14. Others(t) /\ pc'[t] = "release"
  BY <1>12 DEF At
<1>15. m \in 1 .. MaxPushes /\ taken \in Seq(1 .. MaxPushes) /\ pushed \in 0 .. MaxPushes
  BY <1>1, <1>5, LockFreeQueueAssumption DEF Kinds, TypeOK
<1>16. /\ taken' \in Seq(1 .. MaxPushes) /\ Size(taken) \in Nat /\ Size(taken') = Size(taken) + 1
       /\ \A i \in 1 .. Size(taken) : taken'[i] = taken[i]
       /\ taken'[Size(taken) + 1] = m
  <2>1. taken \in Seq(1 .. MaxPushes) /\ m \in 1 .. MaxPushes /\ taken' = Append(taken, m)
    BY <1>11, <1>15
  <2>2. PICK S : S = 1 .. MaxPushes
    OBVIOUS
  <2>3. taken \in Seq(S) /\ m \in S
    BY <2>1, <2>2
  <2>4. /\ Append(taken, m) \in Seq(S) /\ Size(taken) \in Nat
        /\ Size(Append(taken, m)) = Size(taken) + 1
        /\ \A i \in 1 .. Size(taken) : Append(taken, m)[i] = taken[i]
        /\ Append(taken, m)[Size(taken) + 1] = m
    BY <2>3 DEF Size
  <2> QED
    BY <2>1, <2>2, <2>4
<1>17. Kinds'
  <2>1. nx \in Ptr
    BY <1>1, <1>2, LocalsAre
  <2> QED
    BY <1>1, <1>11, <1>12, <1>16, <2>1 DEF Kinds, TypeOK, At
<1>18. UNCHANGED memory /\ \A X \in Places : X # Hand(t) /\ X # Free /\ X # Queued => M[X] = L[X]
  BY <1>8, <1>11
<1>19. /\ \A u \in Threads \ {t} : /\ M[Hand(u)] = L[Hand(u)] /\ pc'[u] = pc[u] /\ reg'[u] = reg[u]
                                   /\ HandOf(u, M, w)' /\ HandUnseen(u, M, w, seen)' /\ HandUntopped(u, tops)'
       /\ \A u \in Threads, v \in Threads \ {t} : u # t => Ordered(u, v, M)'
  BY <1>14, <1>18, Moved
<1>20. FreeList(M)' /\ Names(w)' /\ Tops(M, tops)' /\ M[Free] = L[Free]
  BY <1>1, <1>7, <1>8, <1>11 DEF Lasting, FreeList, Names, Tops
<1>21. Seen(M, w, seen)'
  BY <1>1, <1>10, <1>11 DEF Lasting, Seen
<1>22. Main(M, w)'
  <2>1. Size(M[Queued]) # 0 /\ M[Queued][1] = L[Queued][2]
    <3>1. 1 \in 1 .. Size(M[Queued]) /\ 1 + 1 = 2
      BY <1>4, <1>9
    <3> QED
      BY <1>9, <3>1
  <2>2. Chain(M[Queued], w)'
    <3> SUFFICES ASSUME NEW i \in 1 .. Size(M[Queued])
                 PROVE  _next[M[Queued][i]] = IF i = Size(M[Queued]) THEN Nothing ELSE w[M[Queued][i + 1]]
      BY <1>11 DEF Chain
    <3>1. M[Queued][i] = L[Queued][1 + i] /\ 1 + i \in 1 .. s /\ (1 + i = s <=> i = Size(M[Queued]))
      BY <1>9
    <3>2. i # Size(M[Queued]) => M[Queued][i + 1] = L[Queued][(1 + i) + 1]
      <4>1. i # Size(M[Queued]) => i + 1 \in 1 .. Size(M[Queued]) /\ 1 + (i + 1) = (1 + i) + 1
        BY <1>9
      <4> QED
        BY <1>9, <4>1
    <3>3. Chain(L[Queued], w)
      BY QueueIs
    <3> QED
      BY <1>2, <3>1, <3>2, <3>3 DEF Chain
  <2>3. PICK i \in 1 .. Size(L[Queued]) : _tail = w[L[Queued][i]]
    BY <1>1 DEF Lasting, Main
  <2>4. i # 1
    BY <1>3, <2>3, QueueIs
  <2>5. PICK j \in 1 .. Size(M[Queued]) : i = 1 + j
    <3>1. i - 1 \in 1 .. Size(M[Queued]) /\ i = 1 + (i - 1)
      BY <1>2, <1>9, <2>4
    <3> QED
      BY <3>1
  <2>6. _tail' = w[M[Queued][j]]
    BY <1>9, <1>11, <2>3, <2>5
  <2> QED
    BY <1>4, <1>11, <2>1, <2>2, <2>6 DEF Main
<1>23. HandOf(t, M, w)' /\ HandUnseen(t, M, w, seen)' /\ HandUntopped(t, tops)'
  <2>1. _next[n] # Nothing
    BY <1>3, Sizes
  <2>2. M[Hand(t)][1] = n
    BY <1>8
  <2> QED
    BY <1>8, <1>11, <1>13, <1>14, <2>1, <2>2 DEF HandOf, HandUnseen, HandUntopped, Pending, Releasing, Handling
<1>24. ASSUME NEW u \in Threads PROVE AllocLocals(u, M, tops)' /\ TailLocals(u, M, w, seen)' /\ HeadLocals(u, M, w, seen)'
  <2>0. AllocLocals(u, L, tops) /\ TailLocals(u, L, w, seen) /\ HeadLocals(u, L, w, seen)
    BY <1>1 DEF OfThread
  <2>1. CASE u = t
    BY <1>14, <2>1 DEF AllocLocals, TailLocals, HeadLocals, HasOld, HasTail, HasHead, Linking
  <2>2. CASE u # t
    <3>1. pc'[u] = pc[u] /\ reg'[u] = reg[u]
      BY <1>19, <2>2
    <3>2. AllocLocals(u, M, tops)'
      BY <1>11, <1>20, <2>0, <3>1 DEF AllocLocals, IsFree
    <3>3. \A p : InQueue(p, M, w) => InQueue(p, L, w) /\ Addr(p) # n
      BY <1>10 DEF InQueue
    <3>4. TailLocals(u, M, w, seen)'
      BY <1>11, <2>0, <3>1, <3>3 DEF TailLocals, InQueue
    <3>5. pc[u] \in HasHead => ~InQueue(reg[u].head, M, w)
      BY <1>2, <2>0, <3>3 DEF HeadLocals
    <3>6. InQueue(nx, M, w)
      <4>1. 1 \in 1 .. Size(M[Queued]) /\ 1 + 1 = 2
        BY <1>4, <1>9
      <4>2. In(Addr(nx), M[Queued])
        BY <1>4, <1>9, <4>1 DEF In
      <4> QED
        BY <1>4, <4>2 DEF InQueue
    <3>7. HeadLocals(u, M, w, seen)'
      BY <1>11, <2>0, <3>1, <3>5, <3>6 DEF HeadLocals, HasHead, InQueue
    <3> QED
      BY <3>2, <3>4, <3>7
  <2> QED
    BY <2>1, <2>2
<1>25. PICK b : b = [x \in 1 .. pushed |-> IF x = m THEN <<"taken", Size(taken) + 1>> ELSE at[x]]
  OBVIOUS
<1>26. /\ \A x \in 1 .. pushed : x \in 1 .. pushed' /\ (x # m => b[x] = at[x])
       /\ b[m] = <<"taken", Size(taken) + 1>>
  BY <1>5, <1>11, <1>25
<1>27. \A x \in Nodes : x # L[Queued][2] /\ Carried(x, at) => Carried(x, b)'
  BY <1>5, <1>11, <1>26 DEF Carried
<1>28. \A i \in 1 .. Size(taken) : taken[i] \in 1 .. pushed /\ at[taken[i]] = <<"taken", i>> /\ taken[i] # m
  BY <1>1, <1>5 DEF Lasting, Taking
<1>29. Taking(b)'
  <2> SUFFICES ASSUME NEW i \in 1 .. Size(taken') PROVE taken'[i] \in 1 .. pushed' /\ b[taken'[i]] = <<"taken", i>>
    BY DEF Taking
  <2>1. CASE i \in 1 .. Size(taken)
    BY <1>16, <1>26, <1>28, <2>1
  <2>2. CASE i = Size(taken) + 1
    BY <1>5, <1>16, <1>26, <2>2
  <2> QED
    BY <1>16, <2>1, <2>2
<1>30. Queueing(M, b)'
  <2> SUFFICES ASSUME NEW i \in 2 .. Size(M[Queued]) PROVE Carried(M[Queued][i], b)'
    BY DEF Queueing
  <2>1. M[Queued][i] = L[Queued][1 + i] /\ 1 + i \in 2 .. s /\ 1 + i # 2 /\ 1 + i \in 1 .. s
    BY <1>9
  <2>2. Carried(L[Queued][1 + i], at)
    BY <1>1, <1>2, <2>1 DEF Lasting, Queueing
  <2>3. L[Queued][1 + i] \in Nodes /\ L[Queued][1 + i] # L[Queued][2]
    BY <1>2, <1>4, <2>1, QueueIs
  <2> QED
    BY <1>27, <2>1, <2>2, <2>3
<1>31. ASSUME NEW u \in Threads PROVE HandMsgs(u, M, b)'
  <2>0. HandMsgs(u, L, at)
    BY <1>1 DEF OfThread
  <2>1. CASE u = t
    <3>1. Size(taken) + 1 \in 1 .. Size(taken')
      BY <1>16
    <3> QED
      BY <1>12, <1>14, <1>16, <2>1, <3>1 DEF HandMsgs, Releasing, Holding, Allocating, Pending
  <2>2. CASE u # t
    <3>1. pc'[u] = pc[u] /\ reg'[u] = reg[u] /\ M[Hand(u)] = L[Hand(u)]
      BY <1>19, <2>2
    <3>2. \A i \in 1 .. Size(L[Hand(u)]) : L[Hand(u)][i] \in Nodes /\ L[Hand(u)][i] # L[Queued][2]
      <4>1. Hand(u) \in Places /\ Hand(u) # Queued /\ In(L[Queued][2], L[Queued])
        BY <1>2, <1>4, AllPlaces, QueueIs
      <4>2. ~In(L[Queued][2], L[Hand(u)])
        BY <1>7, <4>1, Apart
      <4> QED
        BY <4>1, <4>2, Apart
    <3>3. pc[u] \in Holding => reg[u].msg # m
      BY <1>5, <2>0 DEF HandMsgs
    <3>4. \A i \in 1 .. Size(taken) : i \in 1 .. Size(taken')
      BY <1>16
    <3> QED
      BY <2>0, <1>16, <1>26, <1>27, <3>1, <3>2, <3>3, <3>4 DEF HandMsgs
  <2> QED
    BY <2>1, <2>2
<1>32. ASSUME NEW u \in Threads, NEW v \in Threads PROVE Ordered(u, v, M)' /\ Released(u, v)'
  <2>1. Ordered(u, v, M)'
    <3>1. CASE u = t \/ v = t
      BY <1>14, <3>1 DEF Ordered, Linking, Pending
    <3>2. CASE u # t /\ v # t
      BY <1>19, <3>2
    <3> QED
      BY <3>1, <3>2
  <2>2. \A x \in Threads \ {t} : pc[x] \in Releasing => reg[x].msg # m
    <3> SUFFICES ASSUME NEW x \in Threads, pc[x] \in Releasing PROVE reg[x].msg # m
      OBVIOUS
    <3>1. HandMsgs(x, L, at)
      BY <1>1 DEF OfThread
    <3> QED
      BY <1>28, <3>1 DEF HandMsgs
  <2>3. Released(u, v)
    BY DEF Kept, Good
  <2>4. Released(u, v)'
    <3>1. CASE u = t \/ v = t
      BY <1>12, <1>19, <2>2, <3>1 DEF Released
    <3>2. CASE u # t /\ v # t
      BY <1>19, <2>3, <3>2 DEF Released
    <3> QED
      BY <3>1, <3>2
  <2> QED
    BY <2>1, <2>4
<1>33. Counts'
  <2>1. Unreleased' = Unreleased \cup {t} /\ t \notin Unreleased /\ Uncounted' = Uncounted
    BY <1>3, <1>14 DEF Others, Uncounted, Unreleased, Holding, Allocating
  <2>2. IsFiniteSet(Unreleased) /\ Cardinality(Unreleased) \in Nat /\ Counts
    BY CountsAre DEF Kept
  <2>3. Cardinality(Unreleased') = Cardinality(Unreleased) + 1
    BY <2>1, <2>2, FS_AddElement
  <2>4. poolSeq \in Nat /\ Spare \in Nat
    BY <1>1, LockFreeQueueAssumption DEF Kinds, TypeOK
  <2>5. poolSeq' = poolSeq /\ seqNumber' = seqNumber /\ pushed' = pushed
    BY <1>11
  <2>6. Size(taken) \in Nat /\ Size(taken') = Size(taken) + 1
    BY <1>16
  <2> QED
    BY <2>1, <2>2, <2>3, <2>4, <2>5, <2>6 DEF Counts
<1>34. Once(M, made)'
  BY <1>8, <1>11
<1>35. \A u \in Threads : OfThread(u, M, w, b, seen, tops)'
  BY <1>19, <1>23, <1>24, <1>31 DEF OfThread
<1>36. Kept(M, w, b, seen, tops)'
  BY <1>8, <1>17, <1>20, <1>21, <1>22, <1>29, <1>30, <1>32, <1>33, <1>34, <1>35 DEF Kept, Good, Lasting
<1> QED
  BY <1>36

\* The locals of the others, when only the pool or a hand changes.
LEMMA MovedFree ==
  ASSUME NEW L, NEW w, NEW at, NEW seen, NEW tops, Kept(L, w, at, seen, tops),
         NEW t \in Threads, Others(t), UNCHANGED <<memory, ends, log, seqNumber>>,
         NEW M, \A X \in Places : X # Hand(t) /\ X # Free => M[X] = L[X],
         NEW tops2, tops \subseteq tops2, \A p \in tops : IsFree(p, M) => IsFree(p, L)
  PROVE  /\ Main(M, w)' /\ Names(w)' /\ Taking(at)' /\ Queueing(M, at)'
         /\ \A u \in Threads \ {t} : /\ AllocLocals(u, M, tops2)' /\ TailLocals(u, M, w, seen)'
                                     /\ HeadLocals(u, M, w, seen)' /\ HandMsgs(u, M, at)'
<1> USE DEF memory, ends, log
<1>1. Lasting(L, w, at, seen, tops) /\ M[Queued] = L[Queued]
  BY AllPlaces DEF Kept, Good
<1>2. Main(M, w)' /\ Names(w)' /\ Taking(at)' /\ Queueing(M, at)'
  BY <1>1 DEF Lasting, Main, Chain, Names, Taking, Queueing, Carried
<1>3. ASSUME NEW u \in Threads \ {t}
      PROVE  /\ AllocLocals(u, M, tops2)' /\ TailLocals(u, M, w, seen)'
             /\ HeadLocals(u, M, w, seen)' /\ HandMsgs(u, M, at)'
  <2>1. pc'[u] = pc[u] /\ reg'[u] = reg[u] /\ M[Hand(u)] = L[Hand(u)]
    BY AllPlaces DEF Others
  <2>2. OfThread(u, L, w, at, seen, tops)
    BY DEF Kept, Good
  <2>3. AllocLocals(u, M, tops2)'
    <3>1. AllocLocals(u, L, tops)
      BY <2>2 DEF OfThread
    <3>2. pc[u] \in HasOld => reg[u].old \in tops
      BY <3>1 DEF AllocLocals
    <3> QED
      BY <2>1, <3>1, <3>2 DEF AllocLocals, HasOld, IsFree
  <2>4. TailLocals(u, M, w, seen)' /\ HeadLocals(u, M, w, seen)'
    BY <1>1, <2>1, <2>2 DEF OfThread, TailLocals, HeadLocals, InQueue
  <2>5. HandMsgs(u, M, at)'
    BY <2>1, <2>2 DEF OfThread, HandMsgs, Carried
  <2> QED
    BY <2>3, <2>4, <2>5
<1> QED
  BY <1>2, <1>3

LEMMA ReleaseCASSucceeds ==
  ASSUME NEW L, NEW w, NEW at, NEW seen, NEW tops, Kept(L, w, at, seen, tops),
         NEW t \in Threads, ReleaseCAS(t), _top = reg[t].old
  PROVE  \E M, tops2 : Kept(M, w, at, seen, tops2)'
<1> USE DEF memory, ends, counts, log
<1>1. Kinds /\ Lasting(L, w, at, seen, tops) /\ \A u \in Threads : OfThread(u, L, w, at, seen, tops)
  BY DEF Kept, Good
<1>2. PICK n, p, s : n = Addr(reg[t].node) /\ p = reg[t].new /\ s = Size(L[Free])
  OBVIOUS
<1>3. pc[t] = "releaseCAS" /\ n \in Nodes /\ n \in 1 .. made /\ L[Hand(t)][1] = n
  BY <1>2, InHands DEF ReleaseCAS, Handling, Releasing
<1>4. Size(L[Hand(t)]) = 1 /\ p = _seqAddress[n] /\ _next[n] = <<0, Addr(_top)>> /\ p \notin tops
  BY <1>1, <1>2, <1>3 DEF OfThread, HandOf, HandUntopped, Releasing
<1>5. Addr(p) = n /\ Tag(p) <= poolSeq /\ p \in Ptr
  BY <1>1, <1>2, <1>3, <1>4, LocalsAre DEF Kinds
<1>7. Free \in Places /\ Queued \in Places /\ Hand(t) \in Places /\ Free # Queued /\ Free # Hand(t) /\ Queued # Hand(t)
  BY AllPlaces
<1>6. L \in Lists /\ Once(L, made) /\ made \in Nat
  BY <1>1, LockFreeQueueAssumption DEF Lasting, Kinds, TypeOK, Nodes
<1>8. PICK M \in Lists :
        /\ Once(M, made) /\ Follows(M[Free], L[Hand(t)], L[Free]) /\ Size(M[Hand(t)]) = 0
        /\ \A X \in Places : X # Free /\ X # Hand(t) => M[X] = L[X]
  BY <1>6, <1>7, Joined
<1>9. /\ s \in Nat /\ Size(M[Free]) = 1 + s /\ M[Free][1] = n
      /\ \A i \in 1 .. s : M[Free][1 + i] = L[Free][i]
  BY <1>2, <1>3, <1>4, <1>7, <1>8, Apart DEF Follows
<1>10. \A i \in 1 .. 1 + s : i = 1 \/ \E j \in 1 .. s : i = 1 + j
  <2> SUFFICES ASSUME NEW i \in 1 .. 1 + s, i # 1 PROVE \E j \in 1 .. s : i = 1 + j
    OBVIOUS
  <2>1. i - 1 \in 1 .. s /\ i = 1 + (i - 1)
    BY <1>9
  <2> QED
    BY <2>1
<1>11. /\ _top' = p /\ Return(t)
       /\ UNCHANGED <<_next, data, _seqAddress, poolSeq, made, _head, _tail, seqNumber, m_size, pushed, taken>>
  BY <1>2 DEF ReleaseCAS
<1>12. At(t, "idle")
  BY <1>1, <1>11, ReturnIs
<1>13. Others(t) /\ pc'[t] = "idle"
  BY <1>12 DEF At
<1>14. Kinds'
  BY <1>1, <1>5, <1>11, <1>12 DEF Kinds, TypeOK, At
<1>15. \A x : In(x, M[Free]) => x = n \/ In(x, L[Free])
  <2> SUFFICES ASSUME NEW i \in 1 .. 1 + s PROVE M[Free][i] = n \/ In(M[Free][i], L[Free])
    BY <1>9 DEF In
  <2>1. CASE i = 1
    BY <1>9, <2>1
  <2>2. CASE i # 1
    <3>1. PICK j \in 1 .. s : i = 1 + j
      BY <1>10, <2>2
    <3> QED
      BY <1>2, <1>9, <3>1 DEF In
  <2> QED
    BY <2>1, <2>2
<1>16. FreeList(M)'
  <2>1. FreeList(L)
    BY <1>1 DEF Lasting
  <2>2. _next[n] = <<0, IF 1 = 1 + s THEN Dummy ELSE M[Free][2]>>
    <3>1. CASE s = 0
      <4>1. Addr(_top) = Dummy
        BY <1>2, <3>1, TopIs
      <4> QED
        BY <1>4, <3>1, <4>1
    <3>2. CASE s # 0
      <4>1. Addr(_top) = L[Free][1]
        BY <1>2, <3>2, TopIs
      <4>2. 1 \in 1 .. s /\ 1 + 1 = 2 /\ 1 # 1 + s
        BY <1>9, <3>2
      <4> QED
        BY <1>4, <1>9, <4>1, <4>2
    <3> QED
      BY <3>1, <3>2
  <2>3. ASSUME NEW i \in 1 .. 1 + s
        PROVE  _next[M[Free][i]] = <<0, IF i = 1 + s THEN Dummy ELSE M[Free][i + 1]>>
    <3>1. CASE i = 1
      BY <1>9, <2>2, <3>1
    <3>2. CASE i # 1
      <4>1. PICK j \in 1 .. s : i = 1 + j
        BY <1>10, <3>2
      <4>2. (j = s <=> i = 1 + s) /\ (j # s => j + 1 \in 1 .. s /\ 1 + (j + 1) = i + 1)
        BY <1>9, <4>1
      <4>3. _next[L[Free][j]] = <<0, IF j = s THEN Dummy ELSE L[Free][j + 1]>>
        BY <1>2, <2>1 DEF FreeList
      <4>4. j # s => M[Free][i + 1] = L[Free][j + 1]
        BY <1>9, <4>2
      <4> QED
        BY <1>9, <4>1, <4>2, <4>3, <4>4
    <3> QED
      BY <3>1, <3>2
  <2>4. 1 + s # 0
    BY <1>9
  <2> QED
    BY <1>4, <1>9, <1>11, <2>3, <2>4 DEF FreeList
<1>17. PICK tops2 : tops2 = tops \cup {p}
  OBVIOUS
<1>18. Tops(M, tops2)'
  <2>1. Tops(L, tops)
    BY <1>1 DEF Lasting
  <2>2. tops2 \subseteq Ptr /\ \A r \in tops2 : Addr(r) \in 1 .. made /\ Tag(r) <= poolSeq
    BY <1>3, <1>5, <1>17, <2>1 DEF Tops
  <2>3. \A x \in Nodes : In(x, M[Free]) => _seqAddress[x] \in tops2
    BY <1>4, <1>15, <1>17, <2>1 DEF Tops
  <2> QED
    BY <1>11, <2>2, <2>3 DEF Tops
<1>19. \A r \in tops : IsFree(r, M) => IsFree(r, L)
  BY <1>4, <1>15 DEF IsFree
<1>20. /\ Main(M, w)' /\ Names(w)' /\ Taking(at)' /\ Queueing(M, at)'
       /\ \A u \in Threads \ {t} : /\ AllocLocals(u, M, tops2)' /\ TailLocals(u, M, w, seen)'
                                   /\ HeadLocals(u, M, w, seen)' /\ HandMsgs(u, M, at)'
  <2>1. UNCHANGED <<memory, ends, log, seqNumber>> /\ tops \subseteq tops2
    BY <1>11, <1>17
  <2>2. \A X \in Places : X # Hand(t) /\ X # Free => M[X] = L[X]
    BY <1>8
  <2> QED
    BY <1>13, <1>19, <2>1, <2>2, MovedFree
<1>21. /\ \A u \in Threads \ {t} : /\ M[Hand(u)] = L[Hand(u)] /\ pc'[u] = pc[u] /\ reg'[u] = reg[u]
                                   /\ HandOf(u, M, w)' /\ HandUnseen(u, M, w, seen)' /\ HandUntopped(u, tops)'
       /\ \A u \in Threads, v \in Threads \ {t} : u # t => Ordered(u, v, M)'
  <2>1. UNCHANGED memory /\ \A X \in Places : X # Hand(t) /\ X # Free /\ X # Queued => M[X] = L[X]
    BY <1>8, <1>11
  <2> QED
    BY <1>13, <2>1, Moved
<1>22. Seen(M, w, seen)'
  <2>1. M[Queued] = L[Queued]
    BY <1>7, <1>8
  <2> QED
    BY <1>1, <1>11, <2>1 DEF Lasting, Seen
<1>23. ASSUME NEW u \in Threads \ {t} PROVE HandUntopped(u, tops2)'
  <2>1. HandUntopped(u, tops)' /\ pc'[u] = pc[u] /\ reg'[u] = reg[u]
    BY <1>21
  <2>2. pc[u] \in Releasing \ {"release"} => reg[u].new # p
    <3> SUFFICES ASSUME pc[u] \in Releasing \ {"release"} PROVE reg[u].new # p
      OBVIOUS
    <3>1. reg[u].new = _seqAddress[Addr(reg[u].node)] /\ Addr(reg[u].node) \in Nodes /\ In(Addr(reg[u].node), L[Hand(u)])
      BY <1>1, InHands DEF OfThread, HandOf, Handling
    <3>2. Addr(reg[u].new) = Addr(reg[u].node)
      BY <1>1, <3>1 DEF Kinds
    <3>3. In(n, L[Hand(t)])
      BY <1>2, <1>3, InHands DEF Handling, Releasing
    <3>4. Hand(u) \in Places /\ Hand(u) # Hand(t)
      BY AllPlaces
    <3>5. ~In(n, L[Hand(u)])
      BY <1>7, <3>3, <3>4, Apart
    <3> QED
      BY <1>5, <3>1, <3>2, <3>5
  <2> QED
    BY <1>17, <2>1, <2>2 DEF HandUntopped
<1>24. OfThread(t, M, w, at, seen, tops2)'
  BY <1>8, <1>13 DEF OfThread, HandOf, HandUnseen, HandUntopped, AllocLocals, TailLocals, HeadLocals, HandMsgs,
       Handling, Pending, Releasing, Holding, Allocating, HasOld, HasTail, HasHead, Linking
<1>25. \A u \in Threads : OfThread(u, M, w, at, seen, tops2)'
  BY <1>20, <1>21, <1>23, <1>24 DEF OfThread
<1>26. ASSUME NEW u \in Threads, NEW v \in Threads PROVE Ordered(u, v, M)' /\ Released(u, v)'
  <2>1. Ordered(u, v, M)'
    BY <1>13, <1>21 DEF Ordered, Linking, Pending
  <2>2. Released(u, v)
    BY DEF Kept, Good
  <2> QED
    BY <1>13, <1>21, <2>1, <2>2 DEF Released, Releasing
<1>27. Counts'
  <2>1. Unreleased' = Unreleased /\ Uncounted' = Uncounted
    BY <1>3, <1>13 DEF Others, Uncounted, Unreleased, Holding, Allocating
  <2> QED
    BY <1>11, <2>1 DEF Kept, Counts
<1>28. Once(M, made)'
  BY <1>8, <1>11
<1>29. Kept(M, w, at, seen, tops2)'
  BY <1>8, <1>14, <1>16, <1>18, <1>20, <1>22, <1>25, <1>26, <1>27, <1>28 DEF Kept, Good, Lasting
<1> QED
  BY <1>29

LEMMA AllocCASSucceeds ==
  ASSUME NEW L, NEW w, NEW at, NEW seen, NEW tops, Kept(L, w, at, seen, tops),
         NEW t \in Threads, AllocCAS(t), _top = reg[t].old
  PROVE  \E M : Kept(M, w, at, seen, tops)'
<1> USE DEF memory, ends, counts, log
<1>1. Kinds /\ Lasting(L, w, at, seen, tops) /\ \A u \in Threads : OfThread(u, L, w, at, seen, tops)
  BY DEF Kept, Good
<1>2. PICK n, s : n = Addr(_top) /\ s = Size(L[Free])
  OBVIOUS
<1>3. pc[t] = "allocCAS" /\ n \in Nodes /\ Size(L[Hand(t)]) = 0
  BY <1>1, <1>2, Reached DEF AllocCAS, HasOld, OfThread, HandOf, Handling, Pending, Releasing
<1>4. s # 0 /\ n = L[Free][1] /\ In(n, L[Free]) /\ _top = _seqAddress[n]
  <2>1. n # Dummy
    BY <1>3, Sizes
  <2> QED
    BY <1>2, <2>1, TopIs
<1>5. reg[t].new = _seqAddress[Addr(_next[n])] /\ reg[t].new \in Ptr
  BY <1>1, <1>2, <1>3, <1>4, LocalsAre DEF OfThread, AllocLocals, IsFree
<1>7. Free \in Places /\ Queued \in Places /\ Hand(t) \in Places /\ Free # Queued /\ Free # Hand(t) /\ Queued # Hand(t)
  BY AllPlaces
<1>6. L \in Lists /\ Once(L, made) /\ made \in Nat
  BY <1>1, LockFreeQueueAssumption DEF Lasting, Kinds, TypeOK, Nodes
<1>8. PICK M \in Lists :
        /\ Once(M, made) /\ Size(M[Hand(t)]) = 1 /\ M[Hand(t)][1] = n
        /\ Follows(L[Free], M[Hand(t)], M[Free])
        /\ \A X \in Places : X # Free /\ X # Hand(t) => M[X] = L[X]
  BY <1>2, <1>3, <1>4, <1>6, <1>7, Taken
<1>9. /\ s \in Nat /\ s = 1 + Size(M[Free]) /\ Size(M[Free]) \in Nat
      /\ \A i \in 1 .. Size(M[Free]) : 1 + i \in 1 .. s /\ M[Free][i] = L[Free][1 + i]
  BY <1>2, <1>7, <1>8, Listed DEF Follows
<1>11. /\ _top' = reg[t].new /\ Hold(t, <<0, n>>, "clear")
       /\ UNCHANGED <<_next, data, _seqAddress, poolSeq, made, _head, _tail, seqNumber, m_size, pushed, taken>>
  BY <1>2 DEF AllocCAS
<1>12. At(t, "clear") /\ reg'[t].node = <<0, n>> /\ reg'[t].msg = reg[t].msg
  <2>1. <<0, n>> \in Ptr
    BY <1>3, Ptrs, Sizes
  <2>2. "clear" \in Labels
    BY DEF Labels, Handling
  <2> QED
    BY <1>1, <1>11, <2>1, <2>2, HoldIs
<1>13. Others(t) /\ pc'[t] = "clear" /\ Addr(reg'[t].node) = n
  BY <1>12 DEF At, Addr
<1>14. Kinds'
  BY <1>1, <1>5, <1>11, <1>12 DEF Kinds, TypeOK, At
<1>15. \A x : In(x, M[Free]) => In(x, L[Free])
  BY <1>2, <1>9 DEF In
<1>16. FreeList(M)'
  <2>1. FreeList(L)
    BY <1>1 DEF Lasting
  <2>2. ASSUME NEW i \in 1 .. Size(M[Free])
        PROVE  _next[M[Free][i]] = <<0, IF i = Size(M[Free]) THEN Dummy ELSE M[Free][i + 1]>>
    <3>1. /\ 1 + i \in 1 .. s /\ M[Free][i] = L[Free][1 + i] /\ (1 + i = s <=> i = Size(M[Free]))
          /\ i # Size(M[Free]) => i + 1 \in 1 .. Size(M[Free]) /\ 1 + (i + 1) = (1 + i) + 1
      BY <1>9
    <3>2. i # Size(M[Free]) => M[Free][i + 1] = L[Free][(1 + i) + 1]
      BY <1>9, <3>1
    <3>3. _next[L[Free][1 + i]] = <<0, IF 1 + i = s THEN Dummy ELSE L[Free][(1 + i) + 1]>>
      BY <1>2, <2>1, <3>1 DEF FreeList
    <3> QED
      BY <3>1, <3>2, <3>3
  <2>3. Addr(_next[n]) = IF Size(M[Free]) = 0 THEN Dummy ELSE M[Free][1]
    <3>1. 1 \in 1 .. s /\ 1 + 1 = 2 /\ (1 = s <=> Size(M[Free]) = 0)
      BY <1>4, <1>9
    <3>2. _next[n] = <<0, IF 1 = s THEN Dummy ELSE L[Free][1 + 1]>>
      BY <1>2, <1>4, <2>1, <3>1 DEF FreeList
    <3>3. Size(M[Free]) # 0 => 1 \in 1 .. Size(M[Free])
      BY <1>9
    <3> QED
      BY <1>9, <3>1, <3>2, <3>3 DEF Addr
  <2> QED
    BY <1>5, <1>11, <2>2, <2>3 DEF FreeList
<1>18. Tops(M, tops)'
  BY <1>1, <1>11, <1>15 DEF Lasting, Tops
<1>19. \A r \in tops : IsFree(r, M) => IsFree(r, L)
  BY <1>15 DEF IsFree
<1>20. /\ Main(M, w)' /\ Names(w)' /\ Taking(at)' /\ Queueing(M, at)'
       /\ \A u \in Threads \ {t} : /\ AllocLocals(u, M, tops)' /\ TailLocals(u, M, w, seen)'
                                   /\ HeadLocals(u, M, w, seen)' /\ HandMsgs(u, M, at)'
  <2>1. UNCHANGED <<memory, ends, log, seqNumber>> /\ tops \subseteq tops
    BY <1>11
  <2>2. \A X \in Places : X # Hand(t) /\ X # Free => M[X] = L[X]
    BY <1>8
  <2> QED
    BY <1>13, <1>19, <2>1, <2>2, MovedFree
<1>21. /\ \A u \in Threads \ {t} : /\ M[Hand(u)] = L[Hand(u)] /\ pc'[u] = pc[u] /\ reg'[u] = reg[u]
                                   /\ HandOf(u, M, w)' /\ HandUnseen(u, M, w, seen)' /\ HandUntopped(u, tops)'
       /\ \A u \in Threads, v \in Threads \ {t} : u # t => Ordered(u, v, M)'
  <2>1. UNCHANGED memory /\ \A X \in Places : X # Hand(t) /\ X # Free /\ X # Queued => M[X] = L[X]
    BY <1>8, <1>11
  <2> QED
    BY <1>13, <2>1, Moved
<1>22. Seen(M, w, seen)'
  <2>1. M[Queued] = L[Queued]
    BY <1>7, <1>8
  <2> QED
    BY <1>1, <1>11, <2>1 DEF Lasting, Seen
<1>23. HandOf(t, M, w)' /\ HandUnseen(t, M, w, seen)' /\ HandMsgs(t, M, at)'
  <2>1. _next[n] # Nothing
    <3>1. Addr(_next[n]) # Null
      BY <1>3, <1>4, LinkOfFree
    <3> QED
      BY <3>1, Sizes
  <2>2. HandMsgs(t, M, at)'
    <3>1. HandMsgs(t, L, at)
      BY <1>1 DEF OfThread
    <3> QED
      BY <1>3, <1>11, <1>12, <1>13, <3>1 DEF HandMsgs, Pending, Releasing, Holding, Allocating
  <2> QED
    BY <1>8, <1>11, <1>13, <2>1, <2>2 DEF HandOf, HandUnseen, Handling, Pending, Releasing
<1>24. OfThread(t, M, w, at, seen, tops)'
  BY <1>13, <1>23 DEF OfThread, HandUntopped, AllocLocals, TailLocals, HeadLocals,
       Releasing, HasOld, HasTail, HasHead, Linking
<1>25. \A u \in Threads : OfThread(u, M, w, at, seen, tops)'
  BY <1>20, <1>21, <1>24 DEF OfThread
<1>26. ASSUME NEW u \in Threads, NEW v \in Threads PROVE Ordered(u, v, M)' /\ Released(u, v)'
  <2>1. Ordered(u, v, M)'
    BY <1>13, <1>21 DEF Ordered, Linking, Pending
  <2>2. Released(u, v)
    BY DEF Kept, Good
  <2> QED
    BY <1>13, <1>21, <2>1, <2>2 DEF Released, Releasing
<1>27. Counts'
  <2>1. Unreleased' = Unreleased /\ Uncounted' = Uncounted
    BY <1>3, <1>13 DEF Others, Uncounted, Unreleased, Holding, Allocating
  <2> QED
    BY <1>11, <2>1 DEF Kept, Counts
<1>28. Once(M, made)'
  BY <1>8, <1>11
<1>29. Kept(M, w, at, seen, tops)'
  BY <1>8, <1>14, <1>16, <1>18, <1>20, <1>22, <1>25, <1>26, <1>27, <1>28 DEF Kept, Good, Lasting
<1> QED
  BY <1>29

\* While a thread is in Alloc, and no node is free, every node but the first of the
\* queue has a message of its own, and none has that of the thread.
LEMMA MadeBound ==
  ASSUME NEW L, NEW w, NEW at, NEW seen, NEW tops, Kept(L, w, at, seen, tops),
         NEW t \in Threads, pc[t] = "alloc", Size(L[Free]) = 0
  PROVE  made \in Nat /\ made + 1 \in Nodes
<1>1. Kinds /\ Lasting(L, w, at, seen, tops) /\ \A u \in Threads : OfThread(u, L, w, at, seen, tops)
  BY DEF Kept, Good
<1>2. PICK h, m0 : h = L[Queued][1] /\ m0 = reg[t].msg
  OBVIOUS
<1>3. made \in Nat /\ pushed \in Nat /\ pushed <= MaxPushes /\ made >= 1
  BY <1>1, LockFreeQueueAssumption DEF Kinds, TypeOK, Nodes
<1>4. h \in 1 .. made /\ Queued \in Places /\ 1 \in 1 .. Size(L[Queued])
  <2>1. 1 \in 1 .. Size(L[Queued]) /\ Queued \in Places
    BY QueueIs, AllPlaces
  <2> QED
    BY <1>2, <2>1, Apart
<1>5. m0 \in 1 .. pushed /\ at[m0] = <<"thread", t>>
  BY <1>1, <1>2 DEF OfThread, HandMsgs, Holding, Allocating
<1> DEFINE Here(u, x) == u \in Threads /\ Addr(reg[u].node) = x
           Of(x, m) == /\ m \in 1 .. pushed
                       /\ \/ at[m] = <<"node", x>>
                          \/ \E u : Here(u, x) /\ pc[u] = "clear" /\ at[m] = <<"thread", u>>
                          \/ \E u : /\ Here(u, x) /\ pc[u] \in Releasing /\ reg[u].msg = m
                                    /\ \E i : at[m] = <<"taken", i>>
<1>6. ASSUME NEW x \in 1 .. made, x # h PROVE \E m : Of(x, m)
  <2>1. PICK X \in Places : In(x, L[X])
    BY <1>1 DEF Lasting, Once
  <2>2. PICK i \in 1 .. Size(L[X]) : L[X][i] = x
    BY <2>1 DEF In
  <2>3. CASE X = Free
    BY <2>2, <2>3
  <2>4. CASE X = Queued
    <3>1. i # 1 /\ i \in 2 .. Size(L[Queued])
      BY <1>2, <1>6, <2>2, <2>4, QueueIs
    <3>2. Carried(x, at)
      BY <1>1, <2>2, <2>4, <3>1 DEF Lasting, Queueing
    <3>3. Of(x, data[x])
      BY <3>2 DEF Carried
    <3> QED
      BY <3>3
  <2>5. ASSUME NEW u \in Threads, X = Hand(u) PROVE \E m : Of(x, m)
    <3>1. HandOf(u, L, w) /\ HandMsgs(u, L, at) /\ Size(L[Hand(u)]) \in Nat
      BY <1>1, AllPlaces, Apart DEF OfThread
    <3>2. CASE pc[u] \in Pending
      <4>1. Carried(x, at)
        BY <2>2, <2>5, <3>1, <3>2 DEF HandMsgs
      <4>2. Of(x, data[x])
        BY <4>1 DEF Carried
      <4> QED
        BY <4>2
    <3>3. CASE pc[u] = "clear"
      <4>1. Here(u, x)
        BY <2>2, <2>5, <3>1, <3>3 DEF HandOf
      <4>2. Of(x, reg[u].msg)
        BY <3>1, <3>3, <4>1 DEF HandMsgs, Holding
      <4> QED
        BY <4>2
    <3>4. CASE pc[u] \in Releasing
      <4>1. Here(u, x)
        BY <2>2, <2>5, <3>1, <3>4 DEF HandOf
      <4>2. Of(x, reg[u].msg)
        BY <1>1, <3>1, <3>4, <4>1 DEF HandMsgs, Lasting, Taking
      <4> QED
        BY <4>2
    <3>5. CASE pc[u] \notin Handling
      BY <2>2, <2>5, <3>1, <3>5 DEF HandOf
    <3> QED
      BY <3>2, <3>3, <3>4, <3>5 DEF Handling
  <2> QED
    BY <2>3, <2>4, <2>5, AllPlaces
<1>7. ASSUME NEW x, NEW y, NEW m, Of(x, m), Of(y, m) PROVE x = y
  <2>1. \A u, v : Here(u, x) /\ Here(v, y) /\ pc[u] \in Releasing /\ pc[v] \in Releasing
                  /\ reg[u].msg = reg[v].msg => u = v
    BY DEF Kept, Good, Released
  <2> QED
    BY <1>7, <2>1
<1>8. \A x : ~Of(x, m0)
  <2> SUFFICES ASSUME NEW x, Of(x, m0) PROVE FALSE
    OBVIOUS
  <2>1. PICK u : Here(u, x) /\ pc[u] = "clear" /\ <<"thread", t>> = <<"thread", u>>
    BY <1>5
  <2> QED
    BY <2>1
<1>9. \A x, m : Of(x, m) => m \in 1 .. pushed
  OBVIOUS
<1> HIDE DEF Of
<1>10. PICK f : f = [x \in (1 .. made) \ {h} |-> CHOOSE m : Of(x, m)]
  OBVIOUS
<1>11. \A x \in (1 .. made) \ {h} : Of(x, f[x])
  BY <1>6, <1>10
<1>12. f \in Injection((1 .. made) \ {h}, (1 .. pushed) \ {m0})
  <2>1. \A x \in (1 .. made) \ {h} : f[x] \in (1 .. pushed) \ {m0}
    BY <1>8, <1>9, <1>11
  <2>2. f \in [(1 .. made) \ {h} -> (1 .. pushed) \ {m0}]
    BY <1>10, <2>1
  <2>3. \A x, y \in (1 .. made) \ {h} : f[x] = f[y] => x = y
    BY <1>7, <1>11
  <2>4. IsInjective(f)
    BY <2>2, <2>3 DEF IsInjective
  <2> QED
    BY <2>2, <2>4 DEF Injection
<1>13. /\ IsFiniteSet(1 .. made) /\ Cardinality(1 .. made) = made
       /\ IsFiniteSet(1 .. pushed) /\ Cardinality(1 .. pushed) = pushed
  <2>1. \A k \in Nat : IsFiniteSet(1 .. k) /\ Cardinality(1 .. k) = k
    BY FS_Interval
  <2> QED
    BY <1>3, <2>1
<1>14. /\ IsFiniteSet((1 .. made) \ {h}) /\ Cardinality((1 .. made) \ {h}) = made - 1
       /\ IsFiniteSet((1 .. pushed) \ {m0}) /\ Cardinality((1 .. pushed) \ {m0}) = pushed - 1
  <2>1. h \in 1 .. made /\ m0 \in 1 .. pushed
    BY <1>4, <1>5
  <2>2. IsFiniteSet((1 .. made) \ {h}) /\ Cardinality((1 .. made) \ {h}) = made - 1
    BY <1>13, <2>1, FS_RemoveElement
  <2>3. IsFiniteSet((1 .. pushed) \ {m0}) /\ Cardinality((1 .. pushed) \ {m0}) = pushed - 1
    BY <1>13, <2>1, FS_RemoveElement
  <2> QED
    BY <2>2, <2>3
<1>15. made - 1 <= pushed - 1
  BY <1>12, <1>14, FS_Injection
<1> QED
  BY <1>3, <1>15, LockFreeQueueAssumption DEF Nodes

LEMMA ReadTopMakes ==
  ASSUME NEW L, NEW w, NEW at, NEW seen, NEW tops, Kept(L, w, at, seen, tops),
         NEW t \in Threads, ReadTop(t), Addr(_top) = Dummy
  PROVE  \E M : Kept(M, w, at, seen, tops)'
<1> USE DEF memory, ends, counts, log
<1>1. Kinds /\ Lasting(L, w, at, seen, tops) /\ \A u \in Threads : OfThread(u, L, w, at, seen, tops)
  BY DEF Kept, Good
<1>2. PICK n : n = made + 1
  OBVIOUS
<1>3. pc[t] = "alloc" /\ Size(L[Free]) = 0
  BY TopIs DEF ReadTop
<1>4. made \in Nat /\ n \in Nodes
  BY <1>2, <1>3, MadeBound
<1>7. Free \in Places /\ Queued \in Places /\ Hand(t) \in Places /\ Free # Queued /\ Free # Hand(t) /\ Queued # Hand(t)
  BY AllPlaces
<1>6. L \in Lists /\ Once(L, made) /\ Size(L[Hand(t)]) = 0
  BY <1>1, <1>3 DEF Lasting, OfThread, HandOf, Handling, Pending, Releasing
<1>8. PICK M \in Lists :
        /\ Once(M, made + 1) /\ Size(M[Hand(t)]) = 1 /\ M[Hand(t)][1] = n
        /\ \A X \in Places : X # Hand(t) => M[X] = L[X]
  BY <1>2, <1>4, <1>6, <1>7, Made
<1>11. /\ made' = made + 1 /\ Hold(t, <<0, n>>, "clear")
       /\ UNCHANGED <<_next, data, _seqAddress, _top, poolSeq, _head, _tail, seqNumber, m_size, pushed, taken>>
  BY <1>2 DEF ReadTop
<1>12. At(t, "clear") /\ reg'[t].node = <<0, n>> /\ reg'[t].msg = reg[t].msg
  <2>1. <<0, n>> \in Ptr
    BY <1>4, Ptrs, Sizes
  <2>2. "clear" \in Labels
    BY DEF Labels, Handling
  <2> QED
    BY <1>1, <1>11, <2>1, <2>2, HoldIs
<1>13. Others(t) /\ pc'[t] = "clear" /\ Addr(reg'[t].node) = n
  BY <1>12 DEF At, Addr
<1>14. Kinds'
  BY <1>1, <1>2, <1>4, <1>11, <1>12 DEF Kinds, TypeOK, At
<1>16. M[Free] = L[Free] /\ M[Queued] = L[Queued] /\ \A x \in 1 .. made : x \in 1 .. made' /\ x # n
  BY <1>2, <1>4, <1>7, <1>8, <1>11
<1>17. FreeList(M)' /\ Tops(M, tops)' /\ Seen(M, w, seen)'
  BY <1>1, <1>11, <1>16 DEF Lasting, FreeList, Tops, Seen
<1>20. /\ Main(M, w)' /\ Names(w)' /\ Taking(at)' /\ Queueing(M, at)'
       /\ \A u \in Threads \ {t} : /\ AllocLocals(u, M, tops)' /\ TailLocals(u, M, w, seen)'
                                   /\ HeadLocals(u, M, w, seen)' /\ HandMsgs(u, M, at)'
  <2>1. UNCHANGED <<memory, ends, log, seqNumber>> /\ tops \subseteq tops
    BY <1>11
  <2>2. \A X \in Places : X # Hand(t) /\ X # Free => M[X] = L[X]
    BY <1>8
  <2>3. \A r \in tops : IsFree(r, M) => IsFree(r, L)
    BY <1>16 DEF IsFree
  <2> QED
    BY <1>13, <2>1, <2>2, <2>3, MovedFree
<1>21. /\ \A u \in Threads \ {t} : /\ M[Hand(u)] = L[Hand(u)] /\ pc'[u] = pc[u] /\ reg'[u] = reg[u]
                                   /\ HandOf(u, M, w)' /\ HandUnseen(u, M, w, seen)' /\ HandUntopped(u, tops)'
       /\ \A u \in Threads, v \in Threads \ {t} : u # t => Ordered(u, v, M)'
  <2>1. UNCHANGED memory /\ \A X \in Places : X # Hand(t) /\ X # Free /\ X # Queued => M[X] = L[X]
    BY <1>8, <1>11
  <2> QED
    BY <1>13, <2>1, Moved
<1>23. HandOf(t, M, w)' /\ HandUnseen(t, M, w, seen)' /\ HandMsgs(t, M, at)'
  <2>1. \A p \in seen : Addr(p) # n
    BY <1>1, <1>16 DEF Lasting, Seen
  <2>2. HandMsgs(t, M, at)'
    <3>1. HandMsgs(t, L, at)
      BY <1>1 DEF OfThread
    <3> QED
      BY <1>3, <1>11, <1>12, <1>13, <3>1 DEF HandMsgs, Pending, Releasing, Holding, Allocating
  <2> QED
    BY <1>8, <1>11, <1>13, <2>1, <2>2 DEF HandOf, HandUnseen, Handling, Pending, Releasing
<1>24. OfThread(t, M, w, at, seen, tops)'
  BY <1>13, <1>23 DEF OfThread, HandUntopped, AllocLocals, TailLocals, HeadLocals,
       Releasing, HasOld, HasTail, HasHead, Linking
<1>25. \A u \in Threads : OfThread(u, M, w, at, seen, tops)'
  BY <1>20, <1>21, <1>24 DEF OfThread
<1>26. ASSUME NEW u \in Threads, NEW v \in Threads PROVE Ordered(u, v, M)' /\ Released(u, v)'
  <2>1. Ordered(u, v, M)'
    BY <1>13, <1>21 DEF Ordered, Linking, Pending
  <2>2. Released(u, v)
    BY DEF Kept, Good
  <2> QED
    BY <1>13, <1>21, <2>1, <2>2 DEF Released, Releasing
<1>27. Counts'
  <2>1. Unreleased' = Unreleased /\ Uncounted' = Uncounted
    BY <1>3, <1>13 DEF Others, Uncounted, Unreleased, Holding, Allocating
  <2> QED
    BY <1>11, <2>1 DEF Kept, Counts
<1>28. Once(M, made)'
  BY <1>8, <1>11
<1>29. Kept(M, w, at, seen, tops)'
  BY <1>8, <1>14, <1>17, <1>20, <1>25, <1>26, <1>27, <1>28 DEF Kept, Good, Lasting
<1> QED
  BY <1>29

\* Where the node is that a thread links its own behind.
LEMMA LinkTarget ==
  ASSUME NEW L, NEW w, NEW at, NEW seen, NEW tops, Kept(L, w, at, seen, tops),
         NEW t \in Threads, pc[t] = "link", _next[Addr(reg[t].tail)] = Nothing
  PROVE  \E X \in Places :
           /\ Size(L[X]) \in Nat \ {0} /\ L[X][Size(L[X])] = Addr(reg[t].tail)
           /\ X = Queued \/ \E v \in Threads : v # t /\ pc[v] \in Pending /\ X = Hand(v)
<1>1. Kinds /\ Lasting(L, w, at, seen, tops) /\ \A u \in Threads : OfThread(u, L, w, at, seen, tops)
  BY DEF Kept, Good
<1>2. PICK a : a = Addr(reg[t].tail)
  OBVIOUS
<1>3. a \in 1 .. made /\ a \in Nodes /\ reg[t].tail \in seen /\ _next[a] = Nothing
  BY <1>1, <1>2, Reached DEF Lasting, Seen, OfThread, TailLocals, HasTail, Linking
<1>4. PICK X \in Places : In(a, L[X])
  BY <1>1, <1>3 DEF Lasting, Once
<1>5. PICK i \in 1 .. Size(L[X]) : L[X][i] = a
  BY <1>4 DEF In
<1>6. Size(L[X]) \in Nat /\ \A j \in 1 .. Size(L[X]) : w[L[X][j]] # Nothing
  <2> SUFFICES ASSUME NEW j \in 1 .. Size(L[X]) PROVE w[L[X][j]] # Nothing
    BY Apart
  <2>1. L[X][j] \in Nodes /\ Addr(w[L[X][j]]) = L[X][j]
    BY <1>1, Apart DEF Lasting, Names
  <2> QED
    BY <2>1, Sizes
<1>7. Chain(L[X], w) => i = Size(L[X])
  <2> SUFFICES ASSUME Chain(L[X], w), i # Size(L[X]) PROVE FALSE
    OBVIOUS
  <2>1. i + 1 \in 1 .. Size(L[X]) /\ _next[a] = w[L[X][i + 1]]
    BY <1>5, <1>6 DEF Chain
  <2> QED
    BY <1>3, <1>6, <2>1
<1>8. X # Free
  <2>1. Addr(Nothing) = Null
    BY Sizes
  <2> QED
    BY <1>3, <1>4, <2>1, LinkOfFree
<1>9. CASE X = Queued
  BY <1>2, <1>5, <1>6, <1>7, <1>9, QueueIs
<1>10. ASSUME NEW v \in Threads, X = Hand(v) PROVE v # t /\ pc[v] \in Pending /\ Chain(L[X], w)
  <2>1. HandOf(v, L, w) /\ HandUnseen(v, L, w, seen) /\ HandOf(t, L, w)
    BY <1>1 DEF OfThread
  <2>2. pc[v] \in Handling
    BY <1>5, <1>10, <2>1 DEF HandOf
  <2>3. pc[v] \notin Releasing /\ pc[v] # "clear"
    <3> SUFFICES ASSUME pc[v] \in Releasing \cup {"clear"} PROVE FALSE
      OBVIOUS
    <3>1. Addr(reg[v].node) = a
      BY <1>5, <1>10, <2>1 DEF HandOf
    <3> QED
      BY <1>2, <1>3, <2>1, <3>1 DEF HandOf, HandUnseen
  <2>4. pc[v] \in Pending /\ Chain(L[X], w)
    BY <1>10, <2>1, <2>2, <2>3 DEF HandOf, Handling
  <2>5. v # t
    <3> SUFFICES ASSUME v = t PROVE FALSE
      OBVIOUS
    <3>1. Tag(reg[t].node) < Tag(reg[t].node)
      BY <1>2, <1>4, <1>10 DEF Kept, Good, Ordered, Linking, Pending
    <3>2. Tag(reg[t].node) \in Nat
      BY <1>1, LocalsAre, Ptrs
    <3> QED
      BY <3>1, <3>2
  <2> QED
    BY <2>4, <2>5
<1> QED
  BY <1>2, <1>5, <1>6, <1>7, <1>8, <1>9, <1>10, AllPlaces

\* Two chains, the second linked behind the first, are one.
LEMMA ChainsJoined ==
  ASSUME NEW w, NEW s, NEW c, NEW m, Follows(m, s, c), Size(s) \in Nat \ {0}, Size(c) \in Nat \ {0},
         \A i \in 1 .. Size(s) : _next'[s[i]] = IF i = Size(s) THEN w[c[1]] ELSE w[s[i + 1]],
         \A i \in 1 .. Size(c) : _next'[c[i]] = IF i = Size(c) THEN Nothing ELSE w[c[i + 1]]
  PROVE  Chain(m, w)'
<1> SUFFICES ASSUME NEW i \in 1 .. Size(m)
             PROVE  _next'[m[i]] = IF i = Size(m) THEN Nothing ELSE w[m[i + 1]]
  BY DEF Chain
<1>1. Size(m) = Size(s) + Size(c)
  BY DEF Follows
<1>2. CASE i <= Size(s)
  <2>1. i \in 1 .. Size(s) /\ i # Size(m) /\ m[i] = s[i]
    BY <1>1, <1>2 DEF Follows
  <2>2. i = Size(s) => m[i + 1] = c[1]
    <3>1. 1 \in 1 .. Size(c)
      OBVIOUS
    <3> QED
      BY <3>1 DEF Follows
  <2>3. i # Size(s) => m[i + 1] = s[i + 1]
    <3>1. i # Size(s) => i + 1 \in 1 .. Size(s)
      BY <2>1
    <3> QED
      BY <3>1 DEF Follows
  <2> QED
    BY <2>1, <2>2, <2>3
<1>3. CASE ~(i <= Size(s))
  <2>1. PICK j \in 1 .. Size(c) : i = Size(s) + j
    <3>1. i - Size(s) \in 1 .. Size(c) /\ i = Size(s) + (i - Size(s))
      BY <1>1, <1>3
    <3> QED
      BY <3>1
  <2>2. m[i] = c[j] /\ (i = Size(m) <=> j = Size(c))
    BY <1>1, <2>1 DEF Follows
  <2>3. j # Size(c) => m[i + 1] = c[j + 1]
    <3>1. j # Size(c) => j + 1 \in 1 .. Size(c) /\ i + 1 = Size(s) + (j + 1)
      BY <2>1
    <3> QED
      BY <3>1 DEF Follows
  <2> QED
    BY <2>2, <2>3
<1> QED
  BY <1>2, <1>3

\* What linking has in common for the two places.
LEMMA Linked ==
  ASSUME NEW L, NEW w, NEW at, NEW seen, NEW tops, Kept(L, w, at, seen, tops),
         NEW t \in Threads, Link(t), _next[Addr(reg[t].tail)] = Nothing,
         NEW X \in Places, X # Free, X # Hand(t),
         Size(L[X]) \in Nat \ {0}, L[X][Size(L[X])] = Addr(reg[t].tail), Chain(L[X], w),
         NEW M \in Lists, Follows(M[X], L[X], L[Hand(t)]), Size(M[Hand(t)]) = 0,
         \A Z \in Places : Z # X /\ Z # Hand(t) => M[Z] = L[Z]
  PROVE  /\ Kinds' /\ Counts' /\ FreeList(M)' /\ Names(w)' /\ Tops(M, tops)' /\ Taking(at)'
         /\ Others(t) /\ pc'[t] = "swing" /\ reg' = reg
         /\ \A u \in Threads : HandUntopped(u, tops)' /\ AllocLocals(u, M, tops)'
         /\ \A u, v \in Threads : Released(u, v)'
         /\ Chain(M[X], w)'
         /\ \A n \in Nodes : Carried(n, at) => Carried(n, at)'
         /\ \A n \in Nodes \cup {Dummy} : n # Addr(reg[t].tail) => _next'[n] = _next[n]
         /\ _next'[Addr(reg[t].tail)] = reg[t].node /\ In(Addr(reg[t].tail), L[X])
         /\ UNCHANGED <<data, _seqAddress, _top, poolSeq, made, _head, _tail, seqNumber, m_size, pushed, taken>>
<1> USE DEF pool, ends, counts, log
<1>1. Kinds /\ Lasting(L, w, at, seen, tops) /\ \A u \in Threads : OfThread(u, L, w, at, seen, tops)
  BY DEF Kept, Good
<1>2. PICK a, c, s : a = Addr(reg[t].tail) /\ c = L[Hand(t)] /\ s = L[X]
  OBVIOUS
<1>3. pc[t] = "link" /\ a \in Nodes /\ reg[t].node \in Ptr /\ Addr(reg[t].node) # Null
  <2>1. pc[t] = "link" /\ a \in Nodes /\ reg[t].node \in Ptr
    BY <1>1, <1>2, Reached, LocalsAre DEF Link, HasTail, Linking
  <2>2. Addr(reg[t].node) \in Nodes
    BY <2>1, InHands DEF Handling, Pending
  <2> QED
    BY <2>1, <2>2, Sizes
<1>4. /\ _next' = [_next EXCEPT ![a] = reg[t].node] /\ Goto(t, "swing") /\ UNCHANGED reg
      /\ UNCHANGED <<data, _seqAddress, _top, poolSeq, made, _head, _tail, seqNumber, m_size, pushed, taken>>
  BY <1>2 DEF Link, LinkCAS
<1>5. At(t, "swing") /\ reg'[t] = reg[t]
  BY <1>1, <1>4, StayIs DEF Labels, HasTail
<1>6. Others(t) /\ pc'[t] = "swing" /\ reg' = reg
  BY <1>4, <1>5 DEF At
<1>7. _next \in [Nodes \cup {Dummy} -> Ptr]
  BY <1>1 DEF Kinds, TypeOK
<1>8. _next'[a] = reg[t].node /\ \A n \in Nodes \cup {Dummy} : n # a => _next'[n] = _next[n]
  BY <1>3, <1>4, <1>7
<1>9. Kinds'
  BY <1>1, <1>3, <1>4, <1>5, <1>7, <1>8 DEF Kinds, TypeOK, At
<1>10. Free \in Places /\ Hand(t) \in Places /\ Free # Hand(t) /\ M[Free] = L[Free]
  BY AllPlaces
<1>11. \A Z \in Places : Size(L[Z]) \in Nat /\ \A i \in 1 .. Size(L[Z]) : L[Z][i] \in Nodes
  BY Apart
<1>12. Size(L[X]) \in 1 .. Size(L[X]) /\ In(a, L[X])
  BY <1>2 DEF In
<1>13. \A Z \in Places : Z # X => ~In(a, L[Z])
  BY <1>12, Apart
<1>14. \A Z \in Places : Z # X => \A i \in 1 .. Size(L[Z]) : _next'[L[Z][i]] = _next[L[Z][i]]
  BY <1>8, <1>11, <1>13 DEF In
<1>15. FreeList(M)' /\ Names(w)' /\ Tops(M, tops)' /\ Taking(at)'
  <2>1. FreeList(L) /\ Names(w) /\ Tops(L, tops) /\ Taking(at)
    BY <1>1 DEF Lasting
  <2>2. FreeList(M)'
    BY <1>4, <1>10, <1>14, <2>1 DEF FreeList
  <2> QED
    BY <1>4, <1>10, <2>1, <2>2 DEF Names, Tops, Taking
<1>16. ASSUME NEW u \in Threads PROVE HandUntopped(u, tops)' /\ AllocLocals(u, M, tops)'
  <2>0. HandUntopped(u, tops) /\ AllocLocals(u, L, tops)
    BY <1>1 DEF OfThread
  <2>1. CASE u = t
    BY <1>6, <2>1 DEF HandUntopped, AllocLocals, Releasing, HasOld
  <2>2. CASE u # t
    <3>1. pc'[u] = pc[u] /\ reg'[u] = reg[u]
      BY <1>6, <2>2 DEF Others
    <3>2. pc[u] \in HasOld /\ In(Addr(reg[u].old), L[Free]) => _next'[Addr(reg[u].old)] = _next[Addr(reg[u].old)]
      BY <1>8, <1>10, <1>13, Reached
    <3>3. HandUntopped(u, tops)'
      BY <2>0, <3>1 DEF HandUntopped
    <3>4. AllocLocals(u, M, tops)'
      BY <1>4, <1>10, <2>0, <3>1, <3>2 DEF AllocLocals, HasOld, IsFree
    <3> QED
      BY <3>3, <3>4
  <2> QED
    BY <2>1, <2>2
<1>17. \A u, v \in Threads : Released(u, v)'
  <2>1. \A u, v \in Threads : Released(u, v)
    BY DEF Kept, Good
  <2> QED
    BY <1>6, <2>1 DEF Released, Others, Releasing
<1>18. Counts'
  <2>1. Unreleased' = Unreleased /\ Uncounted' = Uncounted
    BY <1>3, <1>6 DEF Others, Uncounted, Unreleased, Holding, Allocating
  <2> QED
    BY <1>4, <2>1 DEF Kept, Counts
<1>19. Chain(M[X], w)'
  <2>1. Chain(c, w) /\ Size(c) \in Nat \ {0} /\ reg[t].node = w[c[1]]
    <3>1. HandOf(t, L, w)
      BY <1>1 DEF OfThread
    <3> QED
      BY <1>2, <1>3, <1>10, <1>11, <3>1 DEF HandOf, Pending
  <2>2. ASSUME NEW i \in 1 .. Size(s) PROVE _next'[s[i]] = IF i = Size(s) THEN w[c[1]] ELSE w[s[i + 1]]
    <3>1. CASE i = Size(s)
      BY <1>2, <1>8, <2>1, <3>1
    <3>2. CASE i # Size(s)
      <4>1. s[i] # a /\ s[i] \in Nodes
        BY <1>2, <1>12, <3>2, Apart
      <4> QED
        BY <1>2, <1>8, <3>2, <4>1 DEF Chain
    <3> QED
      BY <3>1, <3>2
  <2>3. ASSUME NEW i \in 1 .. Size(c) PROVE _next'[c[i]] = IF i = Size(c) THEN Nothing ELSE w[c[i + 1]]
    BY <1>2, <1>10, <1>14, <2>1 DEF Chain
  <2>4. Follows(M[X], s, c) /\ Size(s) \in Nat \ {0}
    BY <1>2
  <2> QED
    BY <2>1, <2>2, <2>3, <2>4, ChainsJoined
<1>20. \A n \in Nodes : Carried(n, at) => Carried(n, at)'
  BY <1>4 DEF Carried
<1> QED
  BY <1>2, <1>4, <1>6, <1>8, <1>9, <1>12, <1>15, <1>16, <1>17, <1>18, <1>19, <1>20

\* What was in either list is in the one they make.
LEMMA InFollows ==
  ASSUME NEW s, NEW a, NEW b, Follows(s, a, b), Size(a) \in Nat, Size(b) \in Nat
  PROVE  /\ \A i \in 1 .. Size(s) : \/ i \in 1 .. Size(a) /\ s[i] = a[i]
                                    \/ \E j \in 1 .. Size(b) : i = Size(a) + j /\ s[i] = b[j]
         /\ \A n : In(n, s) <=> In(n, a) \/ In(n, b)
<1>1. Size(s) = Size(a) + Size(b)
  BY DEF Follows
<1>2. ASSUME NEW i \in 1 .. Size(s)
      PROVE  \/ i \in 1 .. Size(a) /\ s[i] = a[i]
             \/ \E j \in 1 .. Size(b) : i = Size(a) + j /\ s[i] = b[j]
  <2>1. CASE i <= Size(a)
    BY <1>1, <2>1 DEF Follows
  <2>2. CASE ~(i <= Size(a))
    <3>1. i - Size(a) \in 1 .. Size(b) /\ i = Size(a) + (i - Size(a))
      BY <1>1, <2>2
    <3>2. s[Size(a) + (i - Size(a))] = b[i - Size(a)]
      BY <3>1 DEF Follows
    <3> QED
      BY <3>1, <3>2
  <2> QED
    BY <2>1, <2>2
<1>3. ASSUME NEW n PROVE In(n, s) <=> In(n, a) \/ In(n, b)
  <2>1. In(n, s) => In(n, a) \/ In(n, b)
    BY <1>2 DEF In
  <2>2. In(n, a) => In(n, s)
    BY <1>1 DEF In, Follows
  <2>3. In(n, b) => In(n, s)
    <3> SUFFICES ASSUME NEW j \in 1 .. Size(b), b[j] = n PROVE In(n, s)
      BY DEF In
    <3>1. Size(a) + j \in 1 .. Size(s) /\ s[Size(a) + j] = n
      BY <1>1 DEF Follows
    <3> QED
      BY <3>1 DEF In
  <2> QED
    BY <2>1, <2>2, <2>3
<1> QED
  BY <1>2, <1>3

LEMMA LinksToQueue ==
  ASSUME NEW L, NEW w, NEW at, NEW seen, NEW tops, Kept(L, w, at, seen, tops),
         NEW t \in Threads, Link(t), _next[Addr(reg[t].tail)] = Nothing,
         Size(L[Queued]) \in Nat \ {0}, L[Queued][Size(L[Queued])] = Addr(reg[t].tail)
  PROVE  \E M, seen2 : Kept(M, w, at, seen2, tops)'
<1>1. Kinds /\ Lasting(L, w, at, seen, tops) /\ \A u \in Threads : OfThread(u, L, w, at, seen, tops)
  BY DEF Kept, Good
<1>2. PICK a, c, s : a = Addr(reg[t].tail) /\ c = L[Hand(t)] /\ s = L[Queued]
  OBVIOUS
<1>3. L \in Lists /\ Once(L, made) /\ made \in Nat /\ pc[t] = "link" /\ Chain(s, w) /\ a \in Nodes
  BY <1>1, <1>2, QueueIs, Reached, LockFreeQueueAssumption DEF Lasting, Kinds, TypeOK, Nodes, Link, HasTail, Linking
<1>4. /\ Free \in Places /\ Queued \in Places /\ Hand(t) \in Places
      /\ Free # Queued /\ Free # Hand(t) /\ Queued # Hand(t)
  BY AllPlaces
<1>5. PICK M \in Lists :
        /\ Once(M, made) /\ Follows(M[Queued], s, c) /\ Size(M[Hand(t)]) = 0
        /\ \A Z \in Places : Z # Queued /\ Z # Hand(t) => M[Z] = L[Z]
  BY <1>2, <1>3, <1>4, Joined
<1>6. /\ Kinds' /\ Counts' /\ FreeList(M)' /\ Names(w)' /\ Tops(M, tops)' /\ Taking(at)'
      /\ Others(t) /\ pc'[t] = "swing" /\ reg' = reg
      /\ \A u \in Threads : HandUntopped(u, tops)' /\ AllocLocals(u, M, tops)'
      /\ \A u, v \in Threads : Released(u, v)'
      /\ Chain(M[Queued], w)'
      /\ \A n \in Nodes : Carried(n, at) => Carried(n, at)'
      /\ \A n \in Nodes \cup {Dummy} : n # a => _next'[n] = _next[n]
      /\ _next'[a] = reg[t].node /\ In(a, s)
      /\ UNCHANGED <<data, _seqAddress, _top, poolSeq, made, _head, _tail, seqNumber, m_size, pushed, taken>>
  BY <1>2, <1>3, <1>4, <1>5, Linked
<1>7. Size(s) \in Nat /\ Size(c) \in Nat
  BY <1>2, <1>4, Apart
<1>8. /\ \A i \in 1 .. Size(M[Queued]) : \/ i \in 1 .. Size(s) /\ M[Queued][i] = s[i]
                                         \/ \E j \in 1 .. Size(c) : i = Size(s) + j /\ M[Queued][i] = c[j]
      /\ \A n : In(n, M[Queued]) <=> In(n, s) \/ In(n, c)
  BY <1>5, <1>7, InFollows
<1>9. \A j \in 1 .. Size(c) : c[j] \in Nodes /\ c[j] \in 1 .. made /\ w[c[j]] \notin seen /\ Carried(c[j], at)
  <2>1. HandUnseen(t, L, w, seen) /\ HandMsgs(t, L, at)
    BY <1>1 DEF OfThread
  <2> QED
    BY <1>2, <1>3, <1>4, <2>1, Apart DEF HandUnseen, HandMsgs, Pending
<1>10. Names(w)
  BY <1>1 DEF Lasting
<1>11. PICK seen2 : seen2 = seen \cup {w[c[j]] : j \in 1 .. Size(c)}
  OBVIOUS
<1>12. seen \subseteq seen2 /\ \A p \in seen2 : p \in seen \/ \E j \in 1 .. Size(c) : p = w[c[j]]
  BY <1>11
\* A pointer seen before is in the queue as it was.
<1>13. \A p \in seen : InQueue(p, M, w) => InQueue(p, L, w)
  BY <1>2, <1>8, <1>9 DEF InQueue, In
<1>14. Main(M, w)'
  <2>1. Main(L, w) /\ 1 \in 1 .. Size(s)
    BY <1>1, <1>2, <1>7 DEF Lasting
  <2>2. Size(M[Queued]) # 0 /\ M[Queued][1] = s[1]
    BY <1>5, <1>7, <2>1 DEF Follows
  <2>3. PICK i \in 1 .. Size(s) : _tail = w[s[i]]
    BY <1>2, <2>1 DEF Main
  <2>4. i \in 1 .. Size(M[Queued]) /\ M[Queued][i] = s[i]
    BY <1>5, <1>7 DEF Follows
  <2> QED
    BY <1>2, <1>6, <2>1, <2>2, <2>3, <2>4 DEF Main
<1>15. Seen(M, w, seen2)'
  <2>1. Seen(L, w, seen)
    BY <1>1 DEF Lasting
  <2>2. ASSUME NEW p \in seen2 PROVE p \in Ptr /\ Addr(p) \in 1 .. made /\ Tag(p) <= seqNumber
    <3>1. CASE p \in seen
      BY <2>1, <3>1 DEF Seen
    <3>2. CASE \E j \in 1 .. Size(c) : p = w[c[j]]
      BY <1>9, <1>10, <3>2 DEF Names
    <3> QED
      BY <1>12, <3>1, <3>2
  <2>3. ASSUME NEW n \in Nodes, In(n, M[Queued]) PROVE w[n] \in seen2
    <3>1. CASE In(n, s)
      BY <1>2, <1>12, <2>1, <3>1 DEF Seen
    <3>2. CASE In(n, c)
      BY <1>11, <3>2 DEF In
    <3> QED
      BY <1>8, <2>3, <3>1, <3>2
  <2> QED
    BY <1>6, <2>2, <2>3 DEF Seen
<1>16. Queueing(M, at)'
  <2> SUFFICES ASSUME NEW i \in 2 .. Size(M[Queued]) PROVE Carried(M[Queued][i], at)'
    BY DEF Queueing
  <2>1. i \in 1 .. Size(M[Queued])
    BY <1>5, <1>7 DEF Follows
  <2>2. CASE i \in 1 .. Size(s) /\ M[Queued][i] = s[i]
    <3>1. i \in 2 .. Size(s) /\ s[i] \in Nodes
      BY <1>2, <1>4, <2>2, Apart
    <3>2. Carried(s[i], at)
      BY <1>1, <1>2, <3>1 DEF Lasting, Queueing
    <3> QED
      BY <1>6, <2>2, <3>1, <3>2
  <2>3. CASE \E j \in 1 .. Size(c) : i = Size(s) + j /\ M[Queued][i] = c[j]
    BY <1>6, <1>9, <2>3
  <2> QED
    BY <1>8, <2>1, <2>2, <2>3
<1>17. \A X \in Places : X # Queued => \A i \in 1 .. Size(L[X]) : L[X][i] \in Nodes /\ L[X][i] # a
  <2>1. In(a, L[Queued])
    BY <1>2, <1>6
  <2>2. \A X \in Places : X # Queued => ~In(a, L[X])
    BY <1>4, <2>1, Apart
  <2> QED
    BY <2>2, Apart
<1>18. ASSUME NEW u \in Threads, u # t
       PROVE  HandOf(u, M, w)' /\ HandUnseen(u, M, w, seen2)' /\ HandMsgs(u, M, at)'
  <2>1. pc'[u] = pc[u] /\ reg'[u] = reg[u]
    BY <1>6, <1>18 DEF Others
  <2>2. Hand(u) \in Places /\ Hand(u) # Queued /\ Hand(u) # Hand(t) /\ M[Hand(u)] = L[Hand(u)]
    BY <1>5, <1>18, AllPlaces
  <2>3. /\ HandOf(u, L, w) /\ HandUnseen(u, L, w, seen) /\ HandMsgs(u, L, at)
        /\ \A i \in 1 .. Size(L[Hand(u)]) : L[Hand(u)][i] \in Nodes /\ _next'[L[Hand(u)][i]] = _next[L[Hand(u)][i]]
    BY <1>1, <1>6, <1>17, <2>2 DEF OfThread
  <2>4. pc[u] \in Handling => Addr(reg[u].node) \in Nodes /\ _next'[Addr(reg[u].node)] = _next[Addr(reg[u].node)]
                              /\ In(Addr(reg[u].node), L[Hand(u)])
    BY <1>6, <1>17, <2>2, InHands DEF In
  <2>5. HandOf(u, M, w)'
    <3>1. Chain(L[Hand(u)], w) => Chain(M[Hand(u)], w)'
      BY <2>2, <2>3 DEF Chain
    <3>2. _seqAddress' = _seqAddress
      BY <1>6
    <3> QED
      BY <2>1, <2>2, <2>3, <2>4, <3>1, <3>2 DEF HandOf, Handling, Releasing
  <2>6. \A j \in 1 .. Size(c) : ~In(c[j], L[Hand(u)])
    BY <1>2, <1>4, <2>2, Apart
  <2>7. ASSUME NEW n \in Nodes, In(n, L[Hand(u)]), NEW p \in seen2, Addr(p) = n PROVE p \in seen
    <3>1. \A j \in 1 .. Size(c) : Addr(w[c[j]]) = c[j]
      BY <1>9, <1>10 DEF Names
    <3> QED
      BY <1>12, <2>6, <2>7, <3>1
  <2>8. HandUnseen(u, M, w, seen2)'
    <3>1. \A i \in 1 .. Size(L[Hand(u)]) : In(L[Hand(u)][i], L[Hand(u)]) /\ Addr(w[L[Hand(u)][i]]) = L[Hand(u)][i]
      BY <1>10, <2>3 DEF In, Names
    <3>2. \A i \in 1 .. Size(L[Hand(u)]) : w[L[Hand(u)][i]] \in seen2 => w[L[Hand(u)][i]] \in seen
      BY <2>3, <2>7, <3>1
    <3> QED
      BY <2>1, <2>2, <2>3, <2>4, <2>7, <3>2 DEF HandUnseen, Handling
  <2>9. HandMsgs(u, M, at)'
    <3>1. pushed' = pushed /\ taken' = taken
      BY <1>6
    <3> QED
      BY <1>6, <2>1, <2>2, <2>3, <3>1 DEF HandMsgs
  <2> QED
    BY <2>5, <2>8, <2>9
<1>19. ASSUME NEW u \in Threads PROVE TailLocals(u, M, w, seen2)' /\ HeadLocals(u, M, w, seen2)'
  <2>0. TailLocals(u, L, w, seen) /\ HeadLocals(u, L, w, seen) /\ Addr(Nothing) = Null
    BY <1>1, Sizes DEF OfThread
  <2>1. CASE u = t
    <3>1. reg[t].tail \in seen /\ Addr(reg[t].node) # Null
      <4>1. Addr(reg[t].node) \in Nodes
        BY <1>3, InHands DEF Handling, Pending
      <4> QED
        BY <1>3, <2>0, <2>1, <4>1, Sizes DEF TailLocals, HasTail, Linking
    <3> QED
      BY <1>2, <1>6, <1>12, <2>1, <3>1 DEF TailLocals, HeadLocals, HasTail, HasHead, Linking
  <2>2. CASE u # t
    <3>1. pc'[u] = pc[u] /\ reg'[u] = reg[u]
      BY <1>6, <2>2 DEF Others
    <3>2. TailLocals(u, M, w, seen2)'
      <4>1. pc[u] \in HasTail => reg[u].tail \in seen2 /\ Addr(reg[u].tail) \in Nodes
                                 /\ (InQueue(reg[u].tail, M, w) => InQueue(reg[u].tail, L, w))
        BY <1>12, <1>13, <2>0, Reached DEF TailLocals
      <4>2. pc[u] \in HasTail /\ Addr(_next[Addr(reg[u].tail)]) # Null => _next'[Addr(reg[u].tail)] = _next[Addr(reg[u].tail)]
        BY <1>2, <1>6, <2>0, <4>1
      <4>3. (InQueue(reg[u].tail, M, w))' <=> InQueue(reg'[u].tail, M, w)
        BY DEF InQueue
      <4> QED
        BY <2>0, <3>1, <4>1, <4>2, <4>3 DEF TailLocals, HasTail, Linking
    <3>3. HeadLocals(u, M, w, seen2)'
      <4>1. pc[u] \in HasHead => reg[u].head \in seen2 /\ Addr(reg[u].head) \in Nodes
                                 /\ (InQueue(reg[u].head, M, w) => reg[u].head = _head)
        BY <1>12, <1>13, <2>0, Reached DEF HeadLocals
      <4>2. pc[u] \in HasHead /\ Addr(_next[Addr(reg[u].head)]) # Null => _next'[Addr(reg[u].head)] = _next[Addr(reg[u].head)]
        BY <1>2, <1>6, <2>0, <4>1
      <4>3. (InQueue(reg[u].head, M, w))' <=> InQueue(reg'[u].head, M, w)
        BY DEF InQueue
      <4>4. _head' = _head /\ _tail' = _tail /\ data' = data
        BY <1>6
      <4> QED
        BY <2>0, <3>1, <4>1, <4>2, <4>3, <4>4 DEF HeadLocals, HasHead
    <3> QED
      BY <3>2, <3>3
  <2> QED
    BY <2>1, <2>2
<1>20. HandOf(t, M, w)' /\ HandUnseen(t, M, w, seen2)' /\ HandMsgs(t, M, at)'
  BY <1>5, <1>6 DEF HandOf, HandUnseen, HandMsgs, Handling, Pending, Releasing, Holding, Allocating
<1>21. ASSUME NEW u \in Threads, NEW v \in Threads PROVE Ordered(u, v, M)'
  <2>1. CASE u = t \/ v = t
    BY <1>6, <2>1 DEF Ordered, Linking, Pending
  <2>2. CASE u # t /\ v # t
    <3>1. Ordered(u, v, L) /\ M[Hand(v)] = L[Hand(v)]
      BY <1>5, <2>2, AllPlaces DEF Kept, Good
    <3> QED
      BY <1>6, <2>2, <3>1 DEF Ordered, Others
  <2> QED
    BY <2>1, <2>2
<1>22. \A u \in Threads : OfThread(u, M, w, at, seen2, tops)'
  BY <1>6, <1>18, <1>19, <1>20 DEF OfThread
<1>23. Once(M, made)'
  BY <1>5, <1>6
<1>24. Kept(M, w, at, seen2, tops)'
  BY <1>5, <1>6, <1>14, <1>15, <1>16, <1>21, <1>22, <1>23 DEF Kept, Good, Lasting
<1> QED
  BY <1>24

LEMMA LinksToHand ==
  ASSUME NEW L, NEW w, NEW at, NEW seen, NEW tops, Kept(L, w, at, seen, tops),
         NEW t \in Threads, Link(t), _next[Addr(reg[t].tail)] = Nothing,
         NEW x \in Threads, x # t, pc[x] \in Pending,
         Size(L[Hand(x)]) \in Nat \ {0}, L[Hand(x)][Size(L[Hand(x)])] = Addr(reg[t].tail)
  PROVE  \E M : Kept(M, w, at, seen, tops)'
<1>1. Kinds /\ Lasting(L, w, at, seen, tops) /\ \A u \in Threads : OfThread(u, L, w, at, seen, tops)
  BY DEF Kept, Good
<1>2. PICK a, c, s : a = Addr(reg[t].tail) /\ c = L[Hand(t)] /\ s = L[Hand(x)]
  OBVIOUS
<1>3. L \in Lists /\ Once(L, made) /\ made \in Nat /\ pc[t] = "link" /\ Chain(s, w) /\ a \in Nodes
  BY <1>1, <1>2, Reached, LockFreeQueueAssumption
     DEF Lasting, Kinds, TypeOK, Nodes, Link, HasTail, Linking, OfThread, HandOf
<1>4. /\ Free \in Places /\ Queued \in Places /\ Hand(t) \in Places /\ Hand(x) \in Places
      /\ Free # Queued /\ Free # Hand(t) /\ Queued # Hand(t)
      /\ Hand(x) # Free /\ Hand(x) # Queued /\ Hand(x) # Hand(t)
  BY AllPlaces
<1>5. PICK M \in Lists :
        /\ Once(M, made) /\ Follows(M[Hand(x)], s, c) /\ Size(M[Hand(t)]) = 0
        /\ \A Z \in Places : Z # Hand(x) /\ Z # Hand(t) => M[Z] = L[Z]
  BY <1>2, <1>3, <1>4, Joined
<1>6. /\ Kinds' /\ Counts' /\ FreeList(M)' /\ Names(w)' /\ Tops(M, tops)' /\ Taking(at)'
      /\ Others(t) /\ pc'[t] = "swing" /\ reg' = reg
      /\ \A u \in Threads : HandUntopped(u, tops)' /\ AllocLocals(u, M, tops)'
      /\ \A u, v \in Threads : Released(u, v)'
      /\ Chain(M[Hand(x)], w)'
      /\ \A n \in Nodes : Carried(n, at) => Carried(n, at)'
      /\ \A n \in Nodes \cup {Dummy} : n # a => _next'[n] = _next[n]
      /\ _next'[a] = reg[t].node /\ In(a, s)
      /\ UNCHANGED <<data, _seqAddress, _top, poolSeq, made, _head, _tail, seqNumber, m_size, pushed, taken>>
  BY <1>2, <1>3, <1>4, <1>5, Linked
<1>7. Size(s) \in Nat /\ Size(c) \in Nat
  BY <1>2, <1>4, Apart
<1>8. /\ \A i \in 1 .. Size(M[Hand(x)]) : \/ i \in 1 .. Size(s) /\ M[Hand(x)][i] = s[i]
                                          \/ \E j \in 1 .. Size(c) : i = Size(s) + j /\ M[Hand(x)][i] = c[j]
      /\ \A n : In(n, M[Hand(x)]) <=> In(n, s) \/ In(n, c)
  BY <1>5, <1>7, InFollows
<1>9. \A j \in 1 .. Size(c) : c[j] \in Nodes /\ w[c[j]] \notin seen /\ Carried(c[j], at)
  <2>1. HandUnseen(t, L, w, seen) /\ HandMsgs(t, L, at)
    BY <1>1 DEF OfThread
  <2> QED
    BY <1>2, <1>3, <1>4, <2>1, Apart DEF HandUnseen, HandMsgs, Pending
<1>10. M[Queued] = L[Queued] /\ M[Free] = L[Free]
  BY <1>4, <1>5
<1>11. \A X \in Places : X # Hand(x) => /\ ~In(a, L[X])
                                        /\ \A i \in 1 .. Size(L[X]) : L[X][i] \in Nodes /\ _next'[L[X][i]] = _next[L[X][i]]
  <2>1. In(a, L[Hand(x)])
    BY <1>2, <1>6
  <2>2. \A X \in Places : X # Hand(x) => ~In(a, L[X])
    BY <1>4, <2>1, Apart
  <2> QED
    BY <1>6, <2>2, Apart DEF In
<1>12. Main(M, w)' /\ Seen(M, w, seen)' /\ Queueing(M, at)'
  <2>0. Main(L, w) /\ Seen(L, w, seen) /\ Queueing(L, at) /\ \A i \in 1 .. Size(L[Queued]) : L[Queued][i] \in Nodes
    BY <1>1, <1>4, <1>11 DEF Lasting
  <2>1. Main(M, w)'
    BY <1>4, <1>6, <1>10, <1>11, <2>0 DEF Main, Chain
  <2>2. Seen(M, w, seen)'
    BY <1>6, <1>10, <2>0 DEF Seen
  <2>3. \A i \in 2 .. Size(L[Queued]) : i \in 1 .. Size(L[Queued])
    BY <1>4, Apart
  <2>4. Queueing(M, at)'
    BY <1>6, <1>10, <2>0, <2>3 DEF Queueing
  <2> QED
    BY <2>1, <2>2, <2>4
<1>13. ASSUME NEW u \in Threads, u # t, u # x
       PROVE  HandOf(u, M, w)' /\ HandUnseen(u, M, w, seen)' /\ HandMsgs(u, M, at)'
  <2>1. pc'[u] = pc[u] /\ reg'[u] = reg[u]
    BY <1>6, <1>13 DEF Others
  <2>2. Hand(u) \in Places /\ Hand(u) # Hand(x) /\ M[Hand(u)] = L[Hand(u)]
    BY <1>5, <1>13, AllPlaces
  <2>3. /\ HandOf(u, L, w) /\ HandUnseen(u, L, w, seen) /\ HandMsgs(u, L, at)
        /\ \A i \in 1 .. Size(L[Hand(u)]) : L[Hand(u)][i] \in Nodes /\ _next'[L[Hand(u)][i]] = _next[L[Hand(u)][i]]
    BY <1>1, <1>11, <2>2 DEF OfThread
  <2>4. pc[u] \in Handling => _next'[Addr(reg[u].node)] = _next[Addr(reg[u].node)]
    BY <2>2, <1>6, <1>11, InHands
  <2>5. HandOf(u, M, w)'
    <3>1. Chain(L[Hand(u)], w) => Chain(M[Hand(u)], w)'
      BY <2>2, <2>3 DEF Chain
    <3>2. _seqAddress' = _seqAddress
      BY <1>6
    <3> QED
      BY <2>1, <2>2, <2>3, <2>4, <3>1, <3>2 DEF HandOf, Handling, Releasing
  <2>6. HandUnseen(u, M, w, seen)'
    BY <2>1, <2>2, <2>3, <2>4 DEF HandUnseen, Handling
  <2>7. HandMsgs(u, M, at)'
    <3>1. pushed' = pushed /\ taken' = taken
      BY <1>6
    <3> QED
      BY <1>6, <2>1, <2>2, <2>3, <3>1 DEF HandMsgs
  <2> QED
    BY <2>5, <2>6, <2>7
<1>14. HandOf(x, M, w)' /\ HandUnseen(x, M, w, seen)' /\ HandMsgs(x, M, at)'
  <2>1. pc'[x] = pc[x] /\ reg'[x] = reg[x]
    BY <1>6 DEF Others
  <2>2. HandOf(x, L, w) /\ HandUnseen(x, L, w, seen) /\ HandMsgs(x, L, at)
    BY <1>1 DEF OfThread
  <2>3. pc[x] \notin Releasing /\ pc[x] # "clear" /\ pc[x] \in Handling /\ pc[x] \notin Holding
    BY DEF Pending, Releasing, Handling, Holding, Allocating
  <2>4. Size(M[Hand(x)]) # 0 /\ M[Hand(x)][1] = s[1]
    <3>1. 1 \in 1 .. Size(s)
      BY <1>2
    <3> QED
      BY <1>5, <1>7, <3>1 DEF Follows
  <2>5. HandOf(x, M, w)'
    BY <1>2, <1>6, <2>1, <2>2, <2>3, <2>4 DEF HandOf, Pending, Releasing
  <2>6. HandUnseen(x, M, w, seen)'
    BY <1>2, <1>8, <1>9, <2>1, <2>2, <2>3 DEF HandUnseen
  <2>7. \A i \in 1 .. Size(M[Hand(x)]) : Carried(M[Hand(x)][i], at)'
    <3>1. \A i \in 1 .. Size(s) : s[i] \in Nodes /\ Carried(s[i], at)
      BY <1>2, <1>4, <2>2, Apart DEF HandMsgs
    <3> QED
      BY <1>6, <1>8, <1>9, <3>1
  <2> QED
    BY <2>1, <2>3, <2>5, <2>6, <2>7 DEF HandMsgs
<1>15. HandOf(t, M, w)' /\ HandUnseen(t, M, w, seen)' /\ HandMsgs(t, M, at)'
  BY <1>5, <1>6 DEF HandOf, HandUnseen, HandMsgs, Handling, Pending, Releasing, Holding, Allocating
<1>16. ASSUME NEW u \in Threads PROVE TailLocals(u, M, w, seen)' /\ HeadLocals(u, M, w, seen)'
  <2>0. TailLocals(u, L, w, seen) /\ HeadLocals(u, L, w, seen)
    BY <1>1 DEF OfThread
  <2>1. CASE u = t
    <3>1. reg[t].tail \in seen /\ Addr(reg[t].node) # Null
      <4>1. Addr(reg[t].node) \in Nodes
        BY <1>3, InHands DEF Handling, Pending
      <4> QED
        BY <1>3, <2>0, <2>1, <4>1, Sizes DEF TailLocals, HasTail, Linking
    <3>2. ~InQueue(reg[t].tail, M, w)
      BY <1>2, <1>4, <1>10, <1>11 DEF InQueue
    <3> QED
      BY <1>6, <2>1, <3>1, <3>2 DEF TailLocals, HeadLocals, HasTail, HasHead, Linking, InQueue
  <2>2. CASE u # t
    <3>1. pc'[u] = pc[u] /\ reg'[u] = reg[u]
      BY <1>6, <2>2 DEF Others
    <3>2. pc[u] \in HasTail /\ In(Addr(reg[u].tail), L[Queued]) => _next'[Addr(reg[u].tail)] = _next[Addr(reg[u].tail)]
      BY <1>4, <1>6, <1>11, Reached
    <3>3. _next'[Addr(_head)] = _next[Addr(_head)]
      <4>1. 1 \in 1 .. Size(L[Queued]) /\ Addr(_head) = L[Queued][1]
        BY QueueIs, EndsAre
      <4> QED
        BY <1>4, <1>11, <4>1
    <3>4. _head' = _head /\ _tail' = _tail /\ data' = data
      BY <1>6
    <3>5. TailLocals(u, M, w, seen)'
      BY <1>10, <2>0, <3>1, <3>2 DEF TailLocals, HasTail, Linking, InQueue
    <3>6. HeadLocals(u, M, w, seen)'
      BY <1>10, <2>0, <3>1, <3>3, <3>4 DEF HeadLocals, HasHead, InQueue
    <3> QED
      BY <3>5, <3>6
  <2> QED
    BY <2>1, <2>2
<1>17. ASSUME NEW u \in Threads, NEW v \in Threads PROVE Ordered(u, v, M)'
  <2>0. Ordered(u, v, L) /\ Ordered(u, t, L) /\ Ordered(t, x, L)
    BY DEF Kept, Good
  <2>1. CASE u = t \/ v = t
    BY <1>6, <2>1 DEF Ordered, Linking, Pending
  <2>2. CASE u # t /\ v # t /\ v # x
    <3>1. M[Hand(v)] = L[Hand(v)]
      BY <1>5, <2>2, AllPlaces
    <3> QED
      BY <1>6, <2>0, <2>2, <3>1 DEF Ordered, Others
  <2>3. CASE u # t /\ v = x
    <3> SUFFICES ASSUME pc[u] \in Linking, pc[x] \in Pending \ {"count"}, In(Addr(reg[u].tail), M[Hand(x)])
                 PROVE  Tag(reg[u].node) < Tag(reg[x].node)
      BY <1>6, <2>3 DEF Ordered, Others
    <3>1. Tag(reg[u].node) \in Nat /\ Tag(reg[t].node) \in Nat /\ Tag(reg[x].node) \in Nat
      BY <1>1, LocalsAre, Ptrs
    <3>2. CASE In(Addr(reg[u].tail), s)
      BY <1>2, <2>0, <2>3, <3>2 DEF Ordered
    <3>3. CASE In(Addr(reg[u].tail), c)
      <4>1. Tag(reg[u].node) < Tag(reg[t].node)
        BY <1>2, <1>3, <2>0, <3>3 DEF Ordered, Pending
      <4>2. Tag(reg[t].node) < Tag(reg[x].node)
        BY <1>2, <1>3, <1>6, <2>0 DEF Ordered, Linking
      <4> QED
        BY <3>1, <4>1, <4>2
    <3> QED
      BY <1>8, <3>2, <3>3
  <2> QED
    BY <2>1, <2>2, <2>3
<1>18. \A u \in Threads : OfThread(u, M, w, at, seen, tops)'
  BY <1>6, <1>13, <1>14, <1>15, <1>16 DEF OfThread
<1>19. Once(M, made)'
  BY <1>5, <1>6
<1>20. Kept(M, w, at, seen, tops)'
  BY <1>5, <1>6, <1>12, <1>17, <1>18, <1>19 DEF Kept, Good, Lasting
<1> QED
  BY <1>20

-----------------------------------------------------------------------------
(* The invariant holds *)

LEMMA KindsAtFirst ==
  ASSUME Init
  PROVE  Kinds
<1> USE LockFreeQueueAssumption, Sizes
<1>1. /\ Spare \in 0 .. Tags - 1 /\ 0 \in 0 .. Tags - 1 /\ Dummy \in 0 .. Dummy
      /\ \A n \in Nodes \cup {Dummy} : n \in 0 .. Dummy /\ n # Null
      /\ Spare + 1 \in Nodes /\ \A n \in 2 .. Spare : n - 1 \in 0 .. Dummy /\ n - 1 # Null
      /\ Dummy # Null
  BY DEF Nodes, Dummy, Null
<1>2. ASSUME NEW n \in Nodes \cup {Dummy}
      PROVE  _next[n] \in Ptr /\ (_next[n] = Nothing \/ Addr(_next[n]) # Null)
  <2>1. CASE n = 1 /\ n <= Spare
    <3>1. _next[n] = <<0, Dummy>>
      BY <2>1 DEF Init
    <3> QED
      BY <1>1, <3>1 DEF Ptr, Addr
  <2>2. CASE n \in 2 .. Spare
    <3>1. _next[n] = <<0, n - 1>>
      BY <2>2 DEF Init
    <3> QED
      BY <1>1, <2>2, <3>1 DEF Ptr, Addr
  <2>3. CASE ~(n = 1 /\ n <= Spare) /\ n \notin 2 .. Spare
    <3>1. _next[n] = Nothing
      BY <2>3 DEF Init
    <3> QED
      BY <3>1
  <2> QED
    BY <2>1, <2>2, <2>3
<1>3. ASSUME NEW n \in Nodes \cup {Dummy}
      PROVE  _seqAddress[n] \in Ptr /\ Addr(_seqAddress[n]) = n /\ Tag(_seqAddress[n]) <= Spare
  <2>1. PICK g : g = IF n <= Spare THEN n ELSE 0
    OBVIOUS
  <2>2. n \in Nat
    BY <1>1
  <2>3. g \in 0 .. Tags - 1 /\ g <= Spare
    BY <1>1, <2>1, <2>2
  <2>4. _seqAddress[n] = <<g, n>>
    BY <2>1 DEF Init
  <2> QED
    BY <1>1, <2>3, <2>4, Ptrs
<1>4. _next \in [Nodes \cup {Dummy} -> Ptr]
  <2>1. _next = [n \in Nodes \cup {Dummy} |-> _next[n]]
    BY DEF Init
  <2> QED
    BY <1>2, <2>1
<1>5. _seqAddress \in [Nodes \cup {Dummy} -> Ptr]
  <2>1. _seqAddress = [n \in Nodes \cup {Dummy} |-> _seqAddress[n]]
    BY DEF Init
  <2> QED
    BY <1>3, <2>1
<1>6. _top \in Ptr
  <2>1. (IF Spare = 0 THEN Dummy ELSE Spare) \in Nodes \cup {Dummy}
    BY DEF Nodes
  <2> QED
    BY <1>5, <2>1 DEF Init
<1>7. _head \in Ptr /\ _tail \in Ptr
  BY <1>1 DEF Init, Ptr
<1>8. reg \in [Threads -> Locals]
  <2>1. NoLocals \in Locals
    BY DEF NoLocals, Locals
  <2> QED
    BY <2>1 DEF Init
<1>9. data \in [Nodes \cup {Dummy} -> 0 .. MaxPushes]
  BY DEF Init
<1>10. /\ made \in Nodes /\ poolSeq \in 0 .. Tags - 1 /\ seqNumber \in 0 .. Tags - 1 /\ m_size \in Int
       /\ pushed \in 0 .. MaxPushes /\ taken \in Seq(1 .. MaxPushes)
  BY <1>1 DEF Init
<1>11. TypeOK
  BY <1>4, <1>5, <1>6, <1>7, <1>8, <1>9, <1>10 DEF TypeOK
<1>12. pc \in [Threads -> Labels]
  BY DEF Init, Labels
<1>13. poolSeq = Spare
  BY DEF Init
<1> QED
  BY <1>2, <1>3, <1>11, <1>12, <1>13 DEF Kinds

LEMMA AtFirst == Init => IInv
<1> SUFFICES ASSUME Init PROVE IInv
  OBVIOUS
<1> USE LockFreeQueueAssumption, Sizes
<1>1. Kinds
  BY KindsAtFirst
<1>2. PICK f : f = [i \in 1 .. Spare |-> Spare + 1 - i]
  OBVIOUS
<1>3. f \in Seq(Nodes) /\ Size(f) = Spare /\ \A i \in 1 .. Spare : f[i] = Spare + 1 - i
  BY <1>2 DEF Size, Nodes
<1>4. PICK q : q = <<Spare + 1>>
  OBVIOUS
<1>5. q \in Seq(Nodes) /\ Size(q) = 1 /\ q[1] = Spare + 1 /\ Spare + 1 \in Nodes
  BY <1>4 DEF Size, Nodes
<1>6. PICK e : e = <<>>
  OBVIOUS
<1>7. e \in Seq(Nodes) /\ Size(e) = 0
  BY <1>6 DEF Size
<1>8. PICK L : L = [X \in Places |-> IF X = Free THEN f ELSE IF X = Queued THEN q ELSE e]
  OBVIOUS
<1>9. /\ L \in Lists /\ L[Free] = f /\ L[Queued] = q
      /\ \A X \in Places : X # Free /\ X # Queued => L[X] = e
      /\ \A t \in Threads : L[Hand(t)] = e
  BY <1>3, <1>5, <1>7, <1>8, AllPlaces DEF Lists
<1>10. made = Spare + 1 /\ poolSeq = Spare /\ seqNumber = Spare /\ pushed = 0 /\ taken = <<>> /\ _tail = _head
  BY DEF Init
<1>11. Once(L, made)
  <2>1. \A X \in Places : \A i \in 1 .. Size(L[X]) :
          \/ X = Free /\ i \in 1 .. Spare /\ L[X][i] = Spare + 1 - i
          \/ X = Queued /\ i = 1 /\ L[X][i] = Spare + 1
    BY <1>3, <1>5, <1>7, <1>9
  <2>2. ASSUME NEW X \in Places, NEW i \in 1 .. Size(L[X]) PROVE L[X][i] \in 1 .. made
    <3>1. CASE i \in 1 .. Spare /\ L[X][i] = Spare + 1 - i
      BY <1>10, <3>1
    <3>2. CASE L[X][i] = Spare + 1
      BY <1>10, <3>2
    <3> QED
      BY <2>1, <3>1, <3>2
  <2>3. ASSUME NEW X \in Places, NEW i \in 1 .. Size(L[X]), NEW Y \in Places, NEW j \in 1 .. Size(L[Y]),
               L[X][i] = L[Y][j]
        PROVE  X = Y /\ i = j
    BY <2>1, <2>3
  <2>4. ASSUME NEW n \in 1 .. made PROVE \E X \in Places : In(n, L[X])
    <3>1. CASE n = Spare + 1
      BY <1>5, <1>9, <3>1, AllPlaces DEF In
    <3>2. CASE n # Spare + 1
      <4>1. Spare + 1 - n \in 1 .. Spare /\ Spare + 1 - (Spare + 1 - n) = n
        BY <1>10, <3>2
      <4>2. f[Spare + 1 - n] = n
        BY <1>3, <4>1
      <4> QED
        BY <1>3, <1>9, <4>1, <4>2, AllPlaces DEF In
    <3> QED
      BY <3>1, <3>2
  <2> QED
    BY <2>2, <2>3, <2>4 DEF Once
<1>12. \A n \in 1 .. Spare : n \in Nodes /\ Addr(_seqAddress[n]) = n /\ Tag(_seqAddress[n]) <= poolSeq /\ _seqAddress[n] \in Ptr
  BY <1>1 DEF Kinds, TypeOK, Nodes
<1>13. FreeList(L)
  <2>1. _top = _seqAddress[IF Size(L[Free]) = 0 THEN Dummy ELSE L[Free][1]]
    <3>1. Spare # 0 => f[1] = Spare
      BY <1>3
    <3> QED
      BY <1>3, <1>9, <3>1 DEF Init
  <2>2. ASSUME NEW i \in 1 .. Spare PROVE _next[f[i]] = <<0, IF i = Spare THEN Dummy ELSE f[i + 1]>>
    <3>1. f[i] = Spare + 1 - i /\ f[i] \in Nodes
      BY <1>3 DEF Nodes
    <3>2. CASE i = Spare
      <4>1. f[i] = 1 /\ f[i] <= Spare
        BY <3>1, <3>2
      <4> QED
        BY <3>1, <3>2, <4>1 DEF Init
    <3>3. CASE i # Spare
      <4>1. f[i] \in 2 .. Spare /\ f[i] # 1 /\ f[i + 1] = f[i] - 1
        BY <1>3, <3>1, <3>3
      <4>2. _next[f[i]] = <<0, f[i] - 1>>
        BY <3>1, <4>1 DEF Init
      <4> QED
        BY <3>3, <4>1, <4>2
    <3> QED
      BY <3>2, <3>3
  <2> QED
    BY <1>3, <1>9, <2>1, <2>2 DEF FreeList
<1>14. PICK h : h = _head
  OBVIOUS
<1>15. h \in Ptr /\ Addr(h) = Spare + 1 /\ Tag(h) = Spare
  BY <1>1, <1>14 DEF Init, Kinds, TypeOK, Addr, Tag
<1>16. PICK w : w = [n \in Nodes |-> IF n = Spare + 1 THEN h ELSE <<0, n>>]
  OBVIOUS
<1>17. Names(w) /\ w[Spare + 1] = h
  <2>1. \A n \in Nodes : <<0, n>> \in Ptr /\ Addr(<<0, n>>) = n /\ Tag(<<0, n>>) <= seqNumber
    BY <1>10, Ptrs
  <2>2. w \in [Nodes -> Ptr] /\ w[Spare + 1] = h /\ \A n \in Nodes : n # Spare + 1 => w[n] = <<0, n>>
    BY <1>5, <1>15, <1>16, <2>1
  <2>3. ASSUME NEW n \in Nodes PROVE Addr(w[n]) = n /\ Tag(w[n]) <= seqNumber
    <3>1. CASE n = Spare + 1
      BY <1>10, <1>15, <2>2, <3>1
    <3>2. CASE n # Spare + 1
      BY <2>1, <2>2, <3>2
    <3> QED
      BY <3>1, <3>2
  <2> QED
    BY <2>2, <2>3 DEF Names
<1>18. Main(L, w)
  <2>1. _next[Spare + 1] = Nothing
    <3>1. Spare + 1 \notin 2 .. Spare /\ ~(Spare + 1 <= Spare)
      OBVIOUS
    <3> QED
      BY <1>5, <3>1 DEF Init
  <2>2. Chain(L[Queued], w)
    BY <1>5, <1>9, <2>1 DEF Chain
  <2> QED
    BY <1>5, <1>9, <1>10, <1>14, <1>17, <2>2 DEF Main
<1>19. PICK seen : seen = {h}
  OBVIOUS
<1>20. Seen(L, w, seen)
  <2>1. \A n \in Nodes : In(n, L[Queued]) => n = Spare + 1
    BY <1>5, <1>9 DEF In
  <2> QED
    BY <1>10, <1>15, <1>17, <1>19, <2>1 DEF Seen
<1>21. PICK tops : tops = {_seqAddress[n] : n \in 1 .. Spare}
  OBVIOUS
<1>22. Tops(L, tops)
  <2>1. \A p \in tops : p \in Ptr /\ Addr(p) \in 1 .. made /\ Tag(p) <= poolSeq
    BY <1>10, <1>12, <1>21
  <2>2. \A n \in Nodes : In(n, L[Free]) => n \in 1 .. Spare
    BY <1>3, <1>9 DEF In
  <2> QED
    BY <1>21, <2>1, <2>2 DEF Tops
<1>23. PICK at : at = <<>>
  OBVIOUS
<1>24. Taking(at) /\ Queueing(L, at)
  <2>1. Size(taken) = 0
    BY <1>10 DEF Size
  <2> QED
    BY <1>5, <1>9, <2>1 DEF Taking, Queueing
<1>25. \A t \in Threads : pc[t] = "idle"
  BY DEF Init
<1>26. \A t \in Threads : OfThread(t, L, w, at, seen, tops)
  BY <1>7, <1>9, <1>25 DEF OfThread, HandOf, HandUnseen, HandUntopped, AllocLocals, TailLocals, HeadLocals, HandMsgs,
       Handling, Pending, Releasing, Holding, Allocating, HasOld, HasTail, HasHead, Linking
<1>27. \A t, u \in Threads : Ordered(t, u, L) /\ Released(t, u)
  BY <1>25 DEF Ordered, Released, Linking, Releasing
<1>28. Counts
  <2>1. Uncounted = {} /\ Unreleased = {}
    BY <1>25 DEF Uncounted, Unreleased, Holding, Allocating
  <2>2. Cardinality({}) = 0
    BY FS_EmptySet
  <2> QED
    BY <1>10, <2>1, <2>2 DEF Counts, Size
<1>29. Kept(L, w, at, seen, tops)
  BY <1>1, <1>9, <1>11, <1>13, <1>17, <1>18, <1>20, <1>22, <1>24, <1>26, <1>27, <1>28 DEF Kept, Good, Lasting
<1> QED
  BY <1>29 DEF IInv

LEMMA KeptByAlloc ==
  ASSUME NEW L, NEW w, NEW at, NEW seen, NEW tops, Kept(L, w, at, seen, tops),
         NEW t \in Threads, AllocStep(t)
  PROVE  \E M, tops2 : Kept(M, w, at, seen, tops2)'
<1>1. CASE ReadTop(t)
  BY <1>1, ReadTopStep, ReadTopMakes
<1>2. CASE ReadFreeNext(t)
  BY <1>2, ReadFreeNextStops, ReadFreeNextGoes
<1>3. CASE ReadSeqAddress(t)
  BY <1>3, ReadSeqAddressStep
<1>4. CASE AllocCAS(t)
  BY <1>4, AllocCASSucceeds, AllocCASFails
<1> QED
  BY <1>1, <1>2, <1>3, <1>4 DEF AllocStep

LEMMA LinkStep ==
  ASSUME NEW L, NEW w, NEW at, NEW seen, NEW tops, Kept(L, w, at, seen, tops),
         NEW t \in Threads, Link(t)
  PROVE  \E M, seen2 : Kept(M, w, at, seen2, tops)'
<1>1. CASE _next[Addr(reg[t].tail)] # Nothing
  BY <1>1, LinkFails
<1>2. CASE _next[Addr(reg[t].tail)] = Nothing
  <2>1. pc[t] = "link"
    BY DEF Link
  <2>2. PICK X \in Places :
           /\ Size(L[X]) \in Nat \ {0} /\ L[X][Size(L[X])] = Addr(reg[t].tail)
           /\ X = Queued \/ \E v \in Threads : v # t /\ pc[v] \in Pending /\ X = Hand(v)
    BY <1>2, <2>1, LinkTarget
  <2>3. CASE X = Queued
    BY <1>2, <2>2, <2>3, LinksToQueue
  <2>4. ASSUME NEW v \in Threads, v # t, pc[v] \in Pending, X = Hand(v)
        PROVE  \E M, seen2 : Kept(M, w, at, seen2, tops)'
    BY <1>2, <2>2, <2>4, LinksToHand
  <2> QED
    BY <2>2, <2>3, <2>4
<1> QED
  BY <1>1, <1>2

LEMMA KeptByPush ==
  ASSUME NEW L, NEW w, NEW at, NEW seen, NEW tops, Kept(L, w, at, seen, tops),
         NEW t \in Threads, PushStep(t)
  PROVE  \E M, w2, b, seen2 : Kept(M, w2, b, seen2, tops)'
<1>1. CASE Fill(t)
  BY <1>1, FillStep
<1>2. CASE CountPush(t)
  BY <1>2, CountPushStep
<1>3. CASE ReadTail(t)
  BY <1>3, ReadTailStep
<1>4. CASE ReadTailNext(t)
  BY <1>4, ReadTailNextLast, ReadTailNextLags
<1>5. CASE HelpTail(t)
  BY <1>5, HelpTailStep
<1>6. CASE Link(t)
  BY <1>6, LinkStep
<1>7. CASE PushReturns(t)
  BY <1>7, PushReturnsStep
<1> QED
  BY <1>1, <1>2, <1>3, <1>4, <1>5, <1>6, <1>7 DEF PushStep

LEMMA KeptByPop ==
  ASSUME NEW L, NEW w, NEW at, NEW seen, NEW tops, Kept(L, w, at, seen, tops),
         NEW t \in Threads, PopStep(t)
  PROVE  \E M, b : Kept(M, w, b, seen, tops)'
<1>1. CASE PopsNothing(t)
  BY <1>1, PopsNothingStep
<1>2. CASE ReadHead(t)
  BY <1>2, ReadHeadStep
<1>3. CASE ReadLast(t)
  BY <1>3, ReadLastSame, ReadLastDiffers
<1>4. CASE ReadLastNext(t)
  BY <1>4, ReadLastNextEmpty, ReadLastNextLags
<1>5. CASE PopHelps(t)
  BY <1>5, PopHelpsStep
<1>6. CASE ReadHeadNext(t)
  BY <1>6, ReadHeadNextEmpty, ReadHeadNextGoes
<1>7. CASE ReadData(t)
  BY <1>7, ReadDataStep
<1>8. CASE PopCAS(t)
  BY <1>8, PopCASSucceeds, PopCASFails
<1> QED
  BY <1>1, <1>2, <1>3, <1>4, <1>5, <1>6, <1>7, <1>8 DEF PopStep

LEMMA KeptByRelease ==
  ASSUME NEW L, NEW w, NEW at, NEW seen, NEW tops, Kept(L, w, at, seen, tops),
         NEW t \in Threads, ReleaseStep(t)
  PROVE  \E M, tops2 : Kept(M, w, at, seen, tops2)'
<1>1. CASE Release(t)
  BY <1>1, ReleasesNode
<1>2. CASE ReadFree(t)
  BY <1>2, ReadFreeStep
<1>3. CASE Hang(t)
  BY <1>3, HangStep
<1>4. CASE ReleaseCAS(t)
  BY <1>4, ReleaseCASSucceeds, ReleaseCASFails
<1> QED
  BY <1>1, <1>2, <1>3, <1>4 DEF ReleaseStep

LEMMA KeptByNext ==
  ASSUME NEW L, NEW w, NEW at, NEW seen, NEW tops, Kept(L, w, at, seen, tops), Next
  PROVE  \E M, w2, b, seen2, tops2 : Kept(M, w2, b, seen2, tops2)'
<1>1. PICK t \in Threads : Step(t) \/ CallPush(t) \/ CallPop(t)
  BY DEF Next
<1>2. CASE AllocStep(t)
  BY <1>2, KeptByAlloc
<1>3. CASE PushStep(t)
  BY <1>3, KeptByPush
<1>4. CASE PopStep(t)
  BY <1>4, KeptByPop
<1>5. CASE ReleaseStep(t)
  BY <1>5, KeptByRelease
<1>6. CASE CallPush(t)
  BY <1>6, CallPushStep
<1>7. CASE CallPop(t)
  BY <1>7, CallPopStep
<1> QED
  BY <1>1, <1>2, <1>3, <1>4, <1>5, <1>6, <1>7 DEF Step

LEMMA KeptByStutter ==
  ASSUME NEW L, NEW w, NEW at, NEW seen, NEW tops, Kept(L, w, at, seen, tops), UNCHANGED vars
  PROVE  Kept(L, w, at, seen, tops)'
<1>1. UNCHANGED <<_next, data, _seqAddress, _top, poolSeq, made, _head, _tail, seqNumber, m_size, pc, reg, pushed, taken>>
  BY DEF vars, memory, pool, ends, counts, log
<1>2. Kinds' /\ Counts'
  BY <1>1 DEF Kept, Kinds, TypeOK, Counts, Uncounted, Unreleased
<1>3. Lasting(L, w, at, seen, tops)'
  BY <1>1 DEF Kept, Good, Lasting, Once, FreeList, Main, Chain, Names, Seen, Tops, Taking, Queueing, Carried
<1>4. ASSUME NEW t \in Threads PROVE OfThread(t, L, w, at, seen, tops)'
  <2>1. OfThread(t, L, w, at, seen, tops)
    BY DEF Kept, Good
  <2>2. HandOf(t, L, w)' /\ HandUnseen(t, L, w, seen)' /\ HandUntopped(t, tops)'
    BY <1>1, <2>1 DEF OfThread, HandOf, Chain, HandUnseen, HandUntopped
  <2>3. AllocLocals(t, L, tops)'
    BY <1>1, <2>1 DEF OfThread, AllocLocals, IsFree
  <2>4. TailLocals(t, L, w, seen)'
    BY <1>1, <2>1 DEF OfThread, TailLocals, InQueue, Chain
  <2>5. HeadLocals(t, L, w, seen)'
    BY <1>1, <2>1 DEF OfThread, HeadLocals, InQueue, Chain
  <2>6. HandMsgs(t, L, at)'
    BY <1>1, <2>1 DEF OfThread, HandMsgs, Carried
  <2> QED
    BY <2>2, <2>3, <2>4, <2>5, <2>6 DEF OfThread
<1>5. \A t, u \in Threads : Ordered(t, u, L)' /\ Released(t, u)'
  BY <1>1 DEF Kept, Good, Ordered, Released
<1> QED
  BY <1>2, <1>3, <1>4, <1>5 DEF Kept, Good

\* What ties the lists, the pointers and the threads together holds in every state.
LEMMA IInvHolds == Spec => []IInv
<1>1. IInv /\ [Next]_vars => IInv'
  <2> SUFFICES ASSUME IInv, [Next]_vars PROVE IInv'
    OBVIOUS
  <2>1. PICK L, w, at, seen, tops : Kept(L, w, at, seen, tops)
    BY DEF IInv
  <2>2. \E M, w2, b, seen2, tops2 : Kept(M, w2, b, seen2, tops2)'
    BY <2>1, KeptByNext, KeptByStutter
  <2> QED
    BY <2>2 DEF IInv
<1> QED
  BY <1>1, AtFirst, PTL DEF Spec

\* The queue, the pool and the locals of Push, Pop, Alloc and Release hold pointers,
\* nodes and messages; the pool makes no more nodes than there were calls of Push.
THEOREM TypeCorrect == Spec => []TypeOK
<1>1. IInv => TypeOK
  BY DEF IInv, Kept, Kinds
<1> QED
  BY <1>1, IInvHolds, PTL

-----------------------------------------------------------------------------
(* Walks along the links *)

\* A number missing in S would let the numbers of S below it be mapped one to
\* one, each to its successor, into fewer.
LEMMA SetInduction ==
  ASSUME NEW S, 1 \in S, \A n \in Nat \ {0} : n \in S => n + 1 \in S
  PROVE  \A n \in Nat \ {0} : n \in S
<1> SUFFICES ASSUME NEW n \in Nat \ {0}, n \notin S
             PROVE  FALSE
  OBVIOUS
<1> DEFINE A == {x \in 1 .. n : x \in S}
           next == [x \in A |-> x + 1]
<1>1. IsFiniteSet(A) /\ Cardinality(A) \in Nat
  <2>1. IsFiniteSet(1 .. n) /\ A \in SUBSET (1 .. n)
    BY FS_Interval
  <2> HIDE DEF A
  <2>2. IsFiniteSet(A)
    BY <2>1, FS_Subset
  <2> QED
    BY <2>2, FS_CardinalityType
<1>2. 1 \in A
  OBVIOUS
<1>3. IsFiniteSet(A \ {1}) /\ Cardinality(A \ {1}) = Cardinality(A) - 1
  BY <1>1, <1>2, FS_RemoveElement
<1>4. next \in Injection(A, A \ {1})
  <2>1. \A x \in A : x + 1 \in A \ {1}
    OBVIOUS
  <2>2. \A x, y \in A : x + 1 = y + 1 => x = y
    OBVIOUS
  <2> QED
    BY <2>1, <2>2 DEF Injection, IsInjective
<1> QED
  BY <1>1, <1>3, <1>4, FS_Injection

Walks(f, n) ==
  f = [k \in 0 .. n |->
        [a \in 0 .. Dummy |-> IF a \in {Null, Dummy} \/ k = 0
                              THEN <<>>
                              ELSE <<a>> \o f[k - 1][Addr(_next[a])]]]

LEMMA WalksExist ==
  ASSUME NEW n \in Nat
  PROVE  \E f : Walks(f, n)
<1> DEFINE S == {m \in Nat \ {0} : \E f : Walks(f, m - 1)}
<1>1. 1 \in S
  <2> DEFINE f == [k \in 0 .. 0 |-> [a \in 0 .. Dummy |-> <<>>]]
  <2>1. Walks(f, 0)
    BY DEF Walks
  <2>2. 1 - 1 = 0
    OBVIOUS
  <2> QED
    BY <2>1, <2>2
<1>2. ASSUME NEW m \in Nat \ {0}, m \in S PROVE m + 1 \in S
  <2>1. PICK g : Walks(g, m - 1)
    BY <1>2
  <2> DEFINE h(k) == [a \in 0 .. Dummy |-> IF a \in {Null, Dummy} \/ k = 0
                              THEN <<>>
                              ELSE <<a>> \o g[k - 1][Addr(_next[a])]]
             f == [k \in 0 .. m |-> h(k)]
  <2>2. \A k \in 0 .. m - 1 : g[k] = h(k)
    BY <2>1, Zenon DEF Walks
  <2>3. \A k \in 0 .. m - 1 : f[k] = g[k]
    BY <2>2
  <2>4. ASSUME NEW k \in 0 .. m, NEW a \in 0 .. Dummy
        PROVE  f[k][a] = IF a \in {Null, Dummy} \/ k = 0 THEN <<>> ELSE <<a>> \o f[k - 1][Addr(_next[a])]
    <3>1. CASE k = 0
      BY <3>1
    <3>2. CASE k # 0
      <4>1. k - 1 \in 0 .. m - 1
        BY <3>2
      <4>2. f[k - 1] = g[k - 1]
        BY <2>3, <4>1
      <4> QED
        BY <4>2
    <3> QED
      BY <3>1, <3>2
  <2>5. Walks(f, m)
    BY <2>4 DEF Walks
  <2>6. m + 1 \in Nat \ {0} /\ (m + 1) - 1 = m
    OBVIOUS
  <2> QED
    BY <2>5, <2>6
<1>3. n + 1 \in S
  <2> HIDE DEF S
  <2> QED
    BY <1>1, <1>2, SetInduction
<1> QED
  BY <1>3

LEMMA WalkIs == Walks(Walk, Dummy)
<1> DEFINE P(f) == f = [k \in 0 .. Dummy |->
        [a \in 0 .. Dummy |-> IF a \in {Null, Dummy} \/ k = 0
                              THEN <<>>
                              ELSE <<a>> \o f[k - 1][Addr(_next[a])]]]
<1>1. \E f : P(f)
  BY Sizes, WalksExist, Zenon DEF Walks
<1>2. P(CHOOSE f : P(f))
  <2> HIDE DEF P
  <2> QED
    BY <1>1, Zenon
<1> QED
  BY <1>2, Zenon DEF Walks, Walk

LEMMA WalkStep ==
  ASSUME NEW a \in 0 .. Dummy, NEW k \in 0 .. Dummy
  PROVE  Walk[k][a] = IF a \in {Null, Dummy} \/ k = 0 THEN <<>> ELSE <<a>> \o Walk[k - 1][Addr(_next[a])]
<1> HIDE DEF Walk
<1>1. Walks(Walk, Dummy)
  BY WalkIs
<1>2. Walk[k] = [x \in 0 .. Dummy |-> IF x \in {Null, Dummy} \/ k = 0
                              THEN <<>>
                              ELSE <<x>> \o Walk[k - 1][Addr(_next[x])]]
  BY <1>1, Zenon DEF Walks
<1> QED
  BY <1>2, Zenon

Distinct(s) == \A i, j \in 1 .. Size(s) : s[i] = s[j] => i = j

LEMMA Counted ==
  ASSUME NEW s \in Seq(Nodes), Distinct(s)
  PROVE  /\ \A n : n \in Elements(s) <=> In(n, s)
         /\ Cardinality(Elements(s)) = Len(s)
         /\ Size(s) \in Nat /\ Size(s) < Dummy
<1>1. Size(s) \in Nat /\ Size(s) = Len(s) /\ DOMAIN s = 1 .. Size(s) /\ s \in [1 .. Size(s) -> Nodes]
  BY DEF Size
<1>2. \A k \in Nat : IsFiniteSet(1 .. k) /\ Cardinality(1 .. k) = k
  BY FS_Interval
<1>3. \A n : n \in Elements(s) <=> In(n, s)
  BY <1>1 DEF Elements, In
<1>4. Cardinality(Elements(s)) = Size(s)
  <2>1. s \in [1 .. Size(s) -> Elements(s)]
    BY <1>1 DEF Elements
  <2>2. s \in Injection(1 .. Size(s), Elements(s))
    BY <2>1 DEF Distinct, Injection, IsInjective
  <2>3. s \in Surjection(1 .. Size(s), Elements(s))
    BY <1>1, <2>1 DEF Surjection, Elements
  <2>4. ExistsBijection(1 .. Size(s), Elements(s))
    BY <2>2, <2>3 DEF ExistsBijection, Bijection
  <2> QED
    BY <1>1, <1>2, <2>4, FS_Bijection
<1>5. Size(s) < Dummy
  <2>1. Nodes = 1 .. Dummy - 1 /\ Dummy - 1 \in Nat
    BY Sizes DEF Nodes, Dummy
  <2>2. s \in Injection(1 .. Size(s), Nodes)
    BY <1>1 DEF Distinct, Injection, IsInjective
  <2>3. IsFiniteSet(Nodes) /\ Cardinality(Nodes) = Dummy - 1
    BY <1>2, <2>1
  <2>4. Cardinality(1 .. Size(s)) <= Cardinality(Nodes)
    BY <2>2, <2>3, FS_Injection
  <2> QED
    BY <1>1, <1>2, <2>3, <2>4, Sizes
<1> QED
  BY <1>1, <1>3, <1>4, <1>5

\* The nodes of s are linked in their order, and no node is linked behind them.
IsPath(s) ==
  /\ s \in Seq(Nodes) /\ Size(s) \in Nat \ {0} /\ Size(s) < Dummy
  /\ \A i \in 1 .. Size(s) - 1 : Addr(_next[s[i]]) = s[i + 1]
  /\ Addr(_next[s[Size(s)]]) \in {Null, Dummy}

LEMMA WalkOn ==
  ASSUME NEW a \in Nodes, NEW k \in 1 .. Dummy, NEW r \in Seq(Nodes), r = Walk[k - 1][Addr(_next[a])]
  PROVE  Walk[k][a] \in Seq(Nodes) /\ Follows(Walk[k][a], <<a>>, r)
<1> HIDE DEF Walk
<1>1. a \in 0 .. Dummy /\ a \notin {Null, Dummy} /\ k \in 0 .. Dummy /\ k # 0
  BY Sizes
<1>2. Walk[k][a] = <<a>> \o r
  BY <1>1, WalkStep
<1>3. <<a>> \in Seq(Nodes)
  OBVIOUS
<1> QED
  BY <1>2, <1>3, Concatenated

LEMMA WalkEnds ==
  ASSUME NEW a \in {Null, Dummy}, NEW k \in 0 .. Dummy
  PROVE  Walk[k][a] = <<>>
<1> HIDE DEF Walk
<1>1. a \in 0 .. Dummy
  BY Sizes
<1>2. Walk[k][a] = IF a \in {Null, Dummy} \/ k = 0 THEN <<>> ELSE <<a>> \o Walk[k - 1][Addr(_next[a])]
  BY <1>1, WalkStep
<1> QED
  BY <1>2

LEMMA One ==
  ASSUME NEW a
  PROVE  Size(<<a>>) = 1 /\ <<a>>[1] = a /\ Size(<<>>) = 0
BY DEF Size

\* r is the last j nodes of s.
IsEnd(r, s, j) ==
  /\ r \in Seq(Nodes) /\ Size(r) = j
  /\ \A i \in 1 .. j : r[i] = s[(Size(s) - j) + i]

LEMMA WalkOf ==
  ASSUME NEW s, IsPath(s)
  PROVE  Walk[Dummy][s[1]] = s
<1> HIDE DEF Walk
<1> DEFINE S == {j \in Nat \ {0} : j <= Size(s) =>
                   \A k \in 0 .. Dummy : k >= j => IsEnd(Walk[k][s[(Size(s) - j) + 1]], s, j)}
<1>0. /\ Size(s) \in Nat \ {0} /\ Size(s) < Dummy /\ s \in Seq(Nodes)
      /\ \A i \in 1 .. Size(s) : s[i] \in Nodes
  BY DEF IsPath, Size
<1>1. 1 \in S
  <2> SUFFICES ASSUME NEW k \in 0 .. Dummy, k >= 1 PROVE IsEnd(Walk[k][s[(Size(s) - 1) + 1]], s, 1)
    OBVIOUS
  <2>1. (Size(s) - 1) + 1 = Size(s) /\ Size(s) \in 1 .. Size(s) /\ k \in 1 .. Dummy /\ k - 1 \in 0 .. Dummy
    BY <1>0, Sizes
  <2>2. PICK a \in Nodes : a = s[Size(s)]
    BY <1>0, <2>1
  <2>3. Addr(_next[a]) \in {Null, Dummy}
    BY <2>2 DEF IsPath
  <2>4. <<>> \in Seq(Nodes) /\ <<>> = Walk[k - 1][Addr(_next[a])]
    BY <2>1, <2>3, WalkEnds
  <2>5. Walk[k][a] \in Seq(Nodes) /\ Follows(Walk[k][a], <<a>>, <<>>)
    BY <2>1, <2>4, WalkOn
  <2>6. Size(Walk[k][a]) = 1 /\ Walk[k][a][1] = a
    BY <2>5, One DEF Follows
  <2> QED
    BY <2>1, <2>2, <2>5, <2>6 DEF IsEnd
<1>2. ASSUME NEW j \in Nat \ {0}, j \in S PROVE j + 1 \in S
  <2> SUFFICES ASSUME j + 1 <= Size(s), NEW k \in 0 .. Dummy, k >= j + 1
               PROVE  IsEnd(Walk[k][s[(Size(s) - (j + 1)) + 1]], s, j + 1)
    OBVIOUS
  <2>1. PICK d \in Nat : d = Size(s) - (j + 1)
    BY <1>0
  <2>2. /\ d + 1 \in 1 .. Size(s) - 1 /\ d + 1 \in 1 .. Size(s) /\ (d + 1) + 1 = (Size(s) - j) + 1
        /\ k \in 1 .. Dummy /\ k - 1 \in 0 .. Dummy /\ k - 1 >= j /\ j <= Size(s)
    BY <1>0, <2>1, Sizes
  <2>3. PICK a \in Nodes : a = s[d + 1]
    BY <1>0, <2>2
  <2>4. Addr(_next[a]) = s[(Size(s) - j) + 1]
    BY <2>2, <2>3 DEF IsPath
  <2>5. PICK r : r = Walk[k - 1][Addr(_next[a])]
    OBVIOUS
  <2>6. IsEnd(r, s, j)
    BY <1>2, <2>2, <2>4, <2>5
  <2>7. Walk[k][a] \in Seq(Nodes) /\ Follows(Walk[k][a], <<a>>, r)
    BY <2>2, <2>5, <2>6, WalkOn DEF IsEnd
  <2>8. PICK q : q = Walk[k][a]
    OBVIOUS
  <2>9. q \in Seq(Nodes) /\ Size(q) = j + 1 /\ q[1] = a /\ \A i \in 1 .. j : q[1 + i] = s[(Size(s) - j) + i]
    <3>1. /\ Size(r) = j /\ \A i \in 1 .. j : r[i] = s[(Size(s) - j) + i]
          /\ q \in Seq(Nodes) /\ Follows(q, <<a>>, r) /\ Size(<<a>>) = 1 /\ <<a>>[1] = a
      BY <2>6, <2>7, <2>8, One DEF IsEnd
    <3>2. PICK b : b = <<a>>
      OBVIOUS
    <3>3. Follows(q, b, r) /\ Size(b) = 1 /\ b[1] = a
      BY <3>1, <3>2
    <3>4. 1 \in 1 .. 1 /\ 1 + j = j + 1
      OBVIOUS
    <3> QED
      BY <3>1, <3>3, <3>4 DEF Follows
  <2>10. ASSUME NEW i \in 1 .. j + 1 PROVE q[i] = s[d + i]
    <3>1. CASE i = 1
      BY <2>3, <2>9, <3>1
    <3>2. CASE i # 1
      <4>1. i - 1 \in 1 .. j /\ 1 + (i - 1) = i /\ (Size(s) - j) + (i - 1) = d + i
        BY <1>0, <2>1, <3>2
      <4> QED
        BY <2>9, <4>1
    <3> QED
      BY <3>1, <3>2
  <2> QED
    BY <2>1, <2>3, <2>8, <2>9, <2>10 DEF IsEnd
<1>3. Size(s) \in S
  <2> HIDE DEF S
  <2> QED
    BY <1>0, <1>1, <1>2, SetInduction
<1>4. PICK q : q = Walk[Dummy][s[1]]
  OBVIOUS
<1>5. IsEnd(q, s, Size(s))
  <2>1. Size(s) <= Size(s) /\ Dummy \in 0 .. Dummy /\ Dummy >= Size(s) /\ (Size(s) - Size(s)) + 1 = 1
    BY <1>0, Sizes
  <2> QED
    BY <1>3, <1>4, <2>1
<1>6. \A i \in 1 .. Size(s) : q[i] = s[i]
  <2>1. \A i \in 1 .. Size(s) : (Size(s) - Size(s)) + i = i
    BY <1>0
  <2> QED
    BY <1>5, <2>1 DEF IsEnd
<1>7. q \in Seq(Nodes) /\ Len(q) = Len(s) /\ \A i \in 1 .. Len(q) : q[i] = s[i]
  BY <1>5, <1>6 DEF IsEnd, Size
<1>8. q = s
  BY <1>0, <1>7, SeqEqual
<1> QED
  BY <1>4, <1>8

LEMMA Empty ==
  ASSUME NEW s \in Seq(Nodes), Size(s) = 0
  PROVE  s = <<>>
BY DEF Size

LEMMA ElementsJoined ==
  ASSUME NEW T, NEW a \in Seq(T), NEW b \in Seq(T)
  PROVE  Elements(a \o b) = Elements(a) \cup Elements(b)
<1> PICK c : c = a \o b
  OBVIOUS
<1>1. Len(a) \in Nat /\ Len(b) \in Nat
  OBVIOUS
<1>2. /\ c \in Seq(T) /\ Len(c) = Len(a) + Len(b)
      /\ \A i \in 1 .. Len(a) + Len(b) : c[i] = IF i <= Len(a) THEN a[i] ELSE b[i - Len(a)]
  BY ConcatProperties
<1>3. DOMAIN a = 1 .. Len(a) /\ DOMAIN b = 1 .. Len(b) /\ DOMAIN c = 1 .. Len(a) + Len(b)
  BY <1>2
<1>4. ASSUME NEW i \in 1 .. Len(a) + Len(b) PROVE c[i] \in Elements(a) \cup Elements(b)
  <2>1. CASE i <= Len(a)
    <3>1. i \in DOMAIN a /\ c[i] = a[i]
      BY <1>1, <1>2, <1>3, <2>1
    <3> QED
      BY <3>1 DEF Elements
  <2>2. CASE ~(i <= Len(a))
    <3>1. i - Len(a) \in DOMAIN b /\ c[i] = b[i - Len(a)]
      BY <1>1, <1>2, <1>3, <2>2
    <3> QED
      BY <3>1 DEF Elements
  <2> QED
    BY <2>1, <2>2
<1>5. ASSUME NEW i \in 1 .. Len(a) PROVE a[i] \in Elements(c)
  <2>1. i \in DOMAIN c /\ c[i] = a[i]
    BY <1>1, <1>2, <1>3
  <2> QED
    BY <2>1 DEF Elements
<1>6. ASSUME NEW i \in 1 .. Len(b) PROVE b[i] \in Elements(c)
  <2>1. Len(a) + i \in 1 .. Len(a) + Len(b) /\ ~(Len(a) + i <= Len(a)) /\ (Len(a) + i) - Len(a) = i
    BY <1>1
  <2>2. Len(a) + i \in DOMAIN c /\ c[Len(a) + i] = b[i]
    BY <1>2, <1>3, <2>1
  <2> QED
    BY <2>2 DEF Elements
<1>7. Elements(c) = Elements(a) \cup Elements(b)
  <2>1. Elements(c) \subseteq Elements(a) \cup Elements(b)
    BY <1>3, <1>4 DEF Elements
  <2>2. Elements(a) \subseteq Elements(c)
    BY <1>3, <1>5 DEF Elements
  <2>3. Elements(b) \subseteq Elements(c)
    BY <1>3, <1>6 DEF Elements
  <2> QED
    BY <2>1, <2>2, <2>3
<1> QED
  BY <1>7

LEMMA ListsDistinct ==
  ASSUME NEW L, NEW w, NEW at, NEW seen, NEW tops, Kept(L, w, at, seen, tops), NEW X \in Places
  PROVE  /\ L[X] \in Seq(Nodes) /\ Size(L[X]) \in Nat /\ Distinct(L[X]) /\ Size(L[X]) < Dummy
         /\ \A i \in 1 .. Size(L[X]) : L[X][i] \in Nodes
<1>1. L \in Lists /\ Once(L, made)
  BY DEF Kept, Good, Lasting
<1>2. L[X] \in Seq(Nodes) /\ Distinct(L[X]) /\ \A i \in 1 .. Size(L[X]) : L[X][i] \in Nodes
  BY <1>1, Listed DEF Once, Distinct
<1> QED
  BY <1>2, Counted

\* Chain gives a path.
LEMMA ChainIs ==
  ASSUME NEW s \in Seq(Nodes), NEW w, Names(w), Chain(s, w), Size(s) \in Nat \ {0}, Size(s) < Dummy
  PROVE  IsPath(s)
<1>1. \A i \in 1 .. Size(s) : s[i] \in Nodes
  BY DEF Size
<1>2. Addr(_next[s[Size(s)]]) = Null
  BY Sizes DEF Chain
<1>3. ASSUME NEW i \in 1 .. Size(s) - 1 PROVE Addr(_next[s[i]]) = s[i + 1]
  <2>1. i \in 1 .. Size(s) /\ i # Size(s) /\ i + 1 \in 1 .. Size(s)
    OBVIOUS
  <2> QED
    BY <1>1, <2>1 DEF Chain, Names
<1> QED
  BY <1>2, <1>3 DEF IsPath

LEMMA FreeWalk ==
  ASSUME NEW L, NEW w, NEW at, NEW seen, NEW tops, Kept(L, w, at, seen, tops)
  PROVE  NodesFrom(_top) = L[Free]
<1> HIDE DEF Walk
<1> DEFINE s == L[Free]
<1>1. /\ s \in Seq(Nodes) /\ Size(s) \in Nat /\ Size(s) < Dummy
      /\ \A i \in 1 .. Size(s) : s[i] \in Nodes
  BY ListsDistinct, AllPlaces
<1>2. CASE Size(s) = 0
  <2>1. Addr(_top) = Dummy
    BY <1>2, TopIs
  <2>2. Walk[Dummy][Dummy] = <<>>
    BY WalkEnds, Sizes
  <2> QED
    BY <1>1, <1>2, <2>1, <2>2, Empty DEF NodesFrom
<1>3. CASE Size(s) # 0
  <2>1. Addr(_top) = s[1]
    BY <1>3, TopIs
  <2>2. FreeList(L)
    BY DEF Kept, Good, Lasting
  <2>3. \A i \in 1 .. Size(s) : Addr(_next[s[i]]) = IF i = Size(s) THEN Dummy ELSE s[i + 1]
    BY <2>2 DEF FreeList, Addr
  <2>4. IsPath(s)
    BY <1>1, <1>3, <2>3 DEF IsPath
  <2> QED
    BY <2>1, <2>4, WalkOf DEF NodesFrom
<1> QED
  BY <1>2, <1>3

LEMMA QueueWalk ==
  ASSUME NEW L, NEW w, NEW at, NEW seen, NEW tops, Kept(L, w, at, seen, tops)
  PROVE  NodesFrom(_head) = L[Queued]
<1> HIDE DEF Walk
<1>1. L[Queued] \in Seq(Nodes) /\ Size(L[Queued]) \in Nat \ {0} /\ Size(L[Queued]) < Dummy
  BY ListsDistinct, QueueIs, AllPlaces
<1>2. Names(w) /\ Chain(L[Queued], w)
  BY QueueIs DEF Kept, Good, Lasting
<1>3. Addr(_head) = L[Queued][1]
  BY EndsAre
<1> QED
  BY <1>1, <1>2, <1>3, ChainIs, WalkOf DEF NodesFrom

LEMMA HandWalk ==
  ASSUME NEW L, NEW w, NEW at, NEW seen, NEW tops, Kept(L, w, at, seen, tops), NEW t \in Threads
  PROVE  InHand(t) = L[Hand(t)]
<1> HIDE DEF Walk
<1> DEFINE s == L[Hand(t)]
<1>1. s \in Seq(Nodes) /\ Size(s) \in Nat /\ Size(s) < Dummy
  BY ListsDistinct, AllPlaces
<1>2. HandOf(t, L, w) /\ Names(w)
  BY DEF Kept, Good, Lasting, OfThread
<1>3. CASE pc[t] \in Pending
  <2>1. Size(s) \in Nat \ {0} /\ Chain(s, w) /\ Addr(reg[t].node) = s[1]
    BY <1>1, <1>2, <1>3 DEF HandOf
  <2>2. IsPath(s)
    BY <1>1, <1>2, <2>1, ChainIs
  <2>3. InHand(t) = Walk[Dummy][s[1]]
    BY <1>3, <2>1 DEF InHand, NodesFrom, Pending
  <2> QED
    BY <2>2, <2>3, WalkOf
<1>4. CASE pc[t] \in Releasing \cup {"clear"}
  <2>1. Size(s) = 1 /\ s[1] = Addr(reg[t].node)
    BY <1>2, <1>4 DEF HandOf
  <2>2. s = <<Addr(reg[t].node)>>
    BY <1>1, <2>1 DEF Size
  <2>3. InHand(t) = <<Addr(reg[t].node)>>
    BY <1>4 DEF InHand, Releasing, Pending
  <2> QED
    BY <2>2, <2>3
<1>5. CASE pc[t] \notin Handling
  <2>1. s = <<>>
    BY <1>1, <1>2, <1>5, Empty DEF HandOf
  <2>2. InHand(t) = <<>>
    BY <1>5 DEF InHand, Handling, Releasing, Pending
  <2> QED
    BY <2>1, <2>2
<1> QED
  BY <1>3, <1>4, <1>5 DEF Handling

\* The invariant's lists are the places of NodesOwned.
LEMMA OwnedByLists ==
  ASSUME NEW L, NEW w, NEW at, NEW seen, NEW tops, Kept(L, w, at, seen, tops)
  PROVE  NodesOwned
<1> DEFINE P == {NodesFrom(_top), NodesFrom(_head)} \cup {InHand(t) : t \in Threads}
<1>1. NodesFrom(_top) = L[Free] /\ NodesFrom(_head) = L[Queued] /\ \A t \in Threads : InHand(t) = L[Hand(t)]
  BY FreeWalk, QueueWalk, HandWalk
<1>2. \A p : p \in P <=> \E X \in Places : p = L[X]
  <2> HIDE DEF NodesFrom, InHand
  <2> QED
    BY <1>1, AllPlaces
<1> HIDE DEF P
<1>3. ASSUME NEW X \in Places
      PROVE  (\A n : n \in Elements(L[X]) <=> In(n, L[X])) /\ Cardinality(Elements(L[X])) = Len(L[X])
  BY ListsDistinct, Counted
<1>4. Once(L, made)
  BY DEF Kept, Good, Lasting
<1>5. ASSUME NEW n PROVE n \in UNION {Elements(p) : p \in P} <=> n \in 1 .. made
  <2>1. n \in UNION {Elements(p) : p \in P} <=> \E X \in Places : In(n, L[X])
    <3>1. n \in UNION {Elements(p) : p \in P} <=> \E p \in P : n \in Elements(p)
      OBVIOUS
    <3>2. (\E p \in P : n \in Elements(p)) <=> \E X \in Places : n \in Elements(L[X])
      BY <1>2
    <3> QED
      BY <1>3, <3>1, <3>2
  <2>2. n \in 1 .. made <=> \E X \in Places : In(n, L[X])
    BY <1>4 DEF Once, In
  <2> QED
    BY <2>1, <2>2
<1>6. UNION {Elements(p) : p \in P} = 1 .. made
  BY <1>5
<1>7. \A p \in P : Cardinality(Elements(p)) = Len(p)
  BY <1>2, <1>3
<1>8. ASSUME NEW X \in Places, NEW Y \in Places, X # Y
      PROVE  Elements(L[X]) \cap Elements(L[Y]) = {}
  <2>1. \A n : ~(In(n, L[X]) /\ In(n, L[Y]))
    BY <1>4, <1>8 DEF Once, In
  <2> QED
    BY <1>3, <2>1
<1>9. Elements(L[Free] \o L[Queued]) = Elements(L[Free]) \cup Elements(L[Queued])
  BY ListsDistinct, AllPlaces, ElementsJoined
<1>10. Elements(L[Free]) \cap Elements(L[Queued]) = {}
  BY <1>8, AllPlaces
<1>11. ASSUME NEW t \in Threads
       PROVE  /\ Elements(L[Hand(t)]) \cap Elements(L[Free] \o L[Queued]) = {}
              /\ \A u \in Threads \ {t} : Elements(L[Hand(t)]) \cap Elements(L[Hand(u)]) = {}
  <2>1. /\ Elements(L[Hand(t)]) \cap Elements(L[Free]) = {}
        /\ Elements(L[Hand(t)]) \cap Elements(L[Queued]) = {}
        /\ \A u \in Threads \ {t} : Elements(L[Hand(t)]) \cap Elements(L[Hand(u)]) = {}
    BY <1>8, AllPlaces
  <2> QED
    BY <1>9, <2>1
<1> QED
  <2> HIDE DEF NodesFrom, InHand, Elements
  <2>1. /\ UNION {Elements(p) : p \in P} = 1 .. made
        /\ \A p \in P : Cardinality(Elements(p)) = Len(p)
        /\ Elements(NodesFrom(_top)) \cap Elements(NodesFrom(_head)) = {}
        /\ \A t \in Threads :
             /\ Elements(InHand(t)) \cap Elements(NodesFrom(_top) \o NodesFrom(_head)) = {}
             /\ \A u \in Threads \ {t} : Elements(InHand(t)) \cap Elements(InHand(u)) = {}
    BY <1>1, <1>6, <1>7, <1>10, <1>11
  <2> QED
    BY <2>1 DEF NodesOwned, P

\* Every node the pool made is among the free nodes, in the queue, or in the hands
\* of one thread that allocated it or is to release it, and in one of them once:
\* the tags of CLockFreeQueue's and CLeakDetectPool's pointers keep a thread that
\* read a link too long ago from taking a node that is another's.
THEOREM NodesOwnedHolds == Spec => []NodesOwned
<1>1. IInv => NodesOwned
  BY OwnedByLists DEF IInv
<1> QED
  BY <1>1, IInvHolds, PTL

-----------------------------------------------------------------------------
(* What the threads see of the queue *)

\* The messages behind the first node of a path that begins at _head
Behind(s) == [i \in 1 .. Size(s) - 1 |-> data[s[i + 1]]]
View      == \A s : IsPath(s) /\ s[1] = Addr(_head) => Contents = Behind(s)

LEMMA ViewIs == View
<1> HIDE DEF Walk
<1> SUFFICES ASSUME NEW s, IsPath(s), s[1] = Addr(_head) PROVE Contents = Behind(s)
  BY DEF View
<1>1. NodesFrom(_head) = s
  BY WalkOf DEF NodesFrom
<1> HIDE DEF NodesFrom
<1> QED
  BY <1>1 DEF Contents, Behind, Size

Waiting == (1 .. pushed) \ (Elements(Contents) \cup Elements(taken))

LEMMA QueuePath ==
  ASSUME NEW L, NEW w, NEW at, NEW seen, NEW tops, Kept(L, w, at, seen, tops)
  PROVE  IsPath(L[Queued]) /\ L[Queued][1] = Addr(_head) /\ Contents = Behind(L[Queued])
<1>1. L[Queued] \in Seq(Nodes) /\ Size(L[Queued]) \in Nat \ {0} /\ Size(L[Queued]) < Dummy
  BY ListsDistinct, QueueIs, AllPlaces
<1>2. Names(w) /\ Chain(L[Queued], w)
  BY QueueIs DEF Kept, Good, Lasting
<1>3. Addr(_head) = L[Queued][1]
  BY EndsAre
<1>4. IsPath(L[Queued])
  BY <1>1, <1>2, ChainIs
<1> QED
  BY <1>3, <1>4, ViewIs DEF View

LEMMA MadeSeq ==
  ASSUME NEW S, NEW n \in Nat, NEW f, \A i \in 1 .. n : f[i] \in S
  PROVE  /\ [i \in 1 .. n |-> f[i]] \in Seq(S)
         /\ Len([i \in 1 .. n |-> f[i]]) = n
OBVIOUS

LEMMA IsSeq ==
  ASSUME NEW S, NEW n \in Nat, NEW f \in [1 .. n -> S]
  PROVE  f \in Seq(S) /\ Len(f) = n
<1>1. f = [i \in 1 .. n |-> f[i]] /\ \A i \in 1 .. n : f[i] \in S
  OBVIOUS
<1>2. PICK g : g = [i \in 1 .. n |-> f[i]]
  OBVIOUS
<1>3. g \in Seq(S) /\ Len(g) = n
  BY <1>1, <1>2, MadeSeq
<1> QED
  BY <1>1, <1>2, <1>3, Zenon

\* A message is in the queue once, and in the node that at names.
LEMMA ContentsAre ==
  ASSUME NEW L, NEW w, NEW at, NEW seen, NEW tops, Kept(L, w, at, seen, tops),
         NEW s, s = L[Queued]
  PROVE  /\ Size(s) \in Nat \ {0} /\ Size(s) < Dummy /\ s \in Seq(Nodes)
         /\ Contents \in Seq(1 .. MaxPushes) /\ Len(Contents) = Size(s) - 1
         /\ \A i \in 1 .. Size(s) - 1 : /\ i + 1 \in 1 .. Size(s)
                                        /\ Contents[i] = data[s[i + 1]] /\ Contents[i] \in 1 .. pushed
                                        /\ at[Contents[i]] = <<"node", s[i + 1]>>
         /\ \A m : m \in Elements(Contents) <=> \E i \in 1 .. Size(s) - 1 : m = data[s[i + 1]]
         /\ pushed \in Nat /\ pushed <= MaxPushes /\ Elements(Contents) \subseteq 1 .. pushed
<1>1. Size(s) \in Nat \ {0} /\ Size(s) < Dummy /\ s \in Seq(Nodes) /\ Contents = Behind(s)
  BY QueuePath DEF IsPath
<1>2. pushed \in 0 .. MaxPushes /\ Queueing(L, at)
  BY DEF Kept, Kinds, TypeOK, Good, Lasting
<1>3. pushed \in Nat /\ pushed <= MaxPushes /\ 1 .. pushed \subseteq 1 .. MaxPushes
  BY <1>2, Sizes
<1>4. ASSUME NEW i \in 1 .. Size(s) - 1
      PROVE  /\ i + 1 \in 1 .. Size(s) /\ data[s[i + 1]] \in 1 .. pushed
             /\ at[data[s[i + 1]]] = <<"node", s[i + 1]>>
  <2>1. i + 1 \in 2 .. Size(s) /\ i + 1 \in 1 .. Size(s)
    BY <1>1
  <2> QED
    BY <1>2, <2>1 DEF Queueing, Carried
<1>5. Size(s) - 1 \in Nat /\ \A i \in 1 .. Size(s) - 1 : data[s[i + 1]] \in 1 .. MaxPushes
  BY <1>1, <1>3, <1>4
<1>6. Behind(s) \in [1 .. Size(s) - 1 -> 1 .. MaxPushes]
  BY <1>5 DEF Behind
<1>7. Behind(s) \in Seq(1 .. MaxPushes) /\ Len(Behind(s)) = Size(s) - 1
  <2>1. PICK n, b : n \in Nat /\ n = Size(s) - 1 /\ b = Behind(s)
    BY <1>5
  <2>2. b \in [1 .. n -> 1 .. MaxPushes]
    BY <1>6, <2>1
  <2>3. b \in Seq(1 .. MaxPushes) /\ Len(b) = n
    BY <2>1, <2>2, IsSeq
  <2> QED
    BY <2>1, <2>3
<1>8. \A i \in 1 .. Size(s) - 1 : Contents[i] = data[s[i + 1]]
  BY <1>1 DEF Behind
<1>9. \A m : m \in Elements(Contents) <=> \E i \in 1 .. Size(s) - 1 : m = data[s[i + 1]]
  <2>1. DOMAIN Contents = 1 .. Size(s) - 1
    BY <1>1 DEF Behind
  <2> QED
    BY <1>8, <2>1 DEF Elements
<1>10. Elements(Contents) \subseteq 1 .. pushed
  BY <1>4, <1>9
<1> QED
  BY <1>1, <1>3, <1>4, <1>7, <1>8, <1>9, <1>10

\* No link and no message of the queue's nodes changes.
SameNodes(s) ==
  \A i \in 1 .. Size(s) : _next'[s[i]] = _next[s[i]] /\ data'[s[i]] = data[s[i]]

Unseen == Waiting' = Waiting /\ Contents' = Contents /\ taken' = taken

LEMMA SameQueue ==
  ASSUME NEW L, NEW w, NEW at, NEW seen, NEW tops, Kept(L, w, at, seen, tops), View',
         SameNodes(L[Queued]), _head' = _head
  PROVE  Contents' = Contents
<1> PICK s : s = L[Queued]
  OBVIOUS
<1>1. IsPath(s) /\ s[1] = Addr(_head) /\ Contents = Behind(s)
  BY QueuePath
<1>2. Size(s) \in Nat \ {0}
  BY <1>1 DEF IsPath
<1>3. /\ Size(s) \in 1 .. Size(s)
      /\ \A i \in 1 .. Size(s) - 1 : i \in 1 .. Size(s) /\ i + 1 \in 1 .. Size(s)
  BY <1>2
<1>4. IsPath(s)'
  BY <1>1, <1>3 DEF IsPath, SameNodes
<1>5. Behind(s)' = Behind(s)
  BY <1>3 DEF Behind, SameNodes
<1>6. s[1] = Addr(_head')
  BY <1>1
<1> QED
  BY <1>1, <1>4, <1>5, <1>6 DEF View

LEMMA StaysUnseen ==
  ASSUME NEW L, NEW w, NEW at, NEW seen, NEW tops, Kept(L, w, at, seen, tops), View',
         SameNodes(L[Queued]), _head' = _head, UNCHANGED log
  PROVE  Unseen
<1>1. Contents' = Contents
  BY SameQueue
<1>2. pushed' = pushed /\ taken' = taken
  BY DEF log
<1> QED
  BY <1>1, <1>2 DEF Unseen, Waiting

LEMMA QuietUnseen ==
  ASSUME NEW L, NEW w, NEW at, NEW seen, NEW tops, Kept(L, w, at, seen, tops), View',
         UNCHANGED <<_next, data, _head, log>>
  PROVE  Unseen
<1>1. SameNodes(L[Queued])
  BY DEF SameNodes
<1> QED
  BY <1>1, StaysUnseen

LEMMA HandUnseenByQueue ==
  ASSUME NEW L, NEW w, NEW at, NEW seen, NEW tops, Kept(L, w, at, seen, tops), View',
         NEW t \in Threads, NEW n \in Nodes, In(n, L[Hand(t)]),
         \A x \in Nodes : x # n => _next'[x] = _next[x] /\ data'[x] = data[x],
         UNCHANGED <<_head, log>>
  PROVE  Unseen
<1>1. \A i \in 1 .. Size(L[Queued]) : L[Queued][i] \in Nodes /\ L[Queued][i] # n
  <2>1. ~In(n, L[Queued])
    BY Apart, AllPlaces
  <2> QED
    BY <2>1, Apart, AllPlaces DEF In
<1>2. SameNodes(L[Queued])
  BY <1>1 DEF SameNodes
<1> QED
  BY <1>2, StaysUnseen

LEMMA ElementsAppended ==
  ASSUME NEW T, NEW a \in Seq(T), NEW m \in T
  PROVE  Elements(Append(a, m)) = Elements(a) \cup {m}
<1>1. Append(a, m) = a \o <<m>> /\ <<m>> \in Seq(T)
  BY AppendIsConcat
<1>2. Elements(<<m>>) = {m}
  BY DEF Elements
<1>3. Elements(a \o <<m>>) = Elements(a) \cup Elements(<<m>>)
  BY <1>1, ElementsJoined
<1> QED
  BY <1>1, <1>2, <1>3

\* What is taken is no more in a node.
LEMMA TakenAre ==
  ASSUME NEW L, NEW w, NEW at, NEW seen, NEW tops, Kept(L, w, at, seen, tops)
  PROVE  /\ taken \in Seq(1 .. MaxPushes) /\ Elements(taken) \subseteq 1 .. pushed
         /\ \A m \in Elements(taken) : \A n : at[m] # <<"node", n>>
<1>1. taken \in Seq(1 .. MaxPushes) /\ Taking(at)
  BY DEF Kept, Kinds, TypeOK, Good, Lasting
<1>2. DOMAIN taken = 1 .. Size(taken)
  BY <1>1 DEF Size
<1>3. ASSUME NEW i \in 1 .. Size(taken) PROVE taken[i] \in 1 .. pushed /\ \A n : at[taken[i]] # <<"node", n>>
  <2>1. at[taken[i]] = <<"taken", i>> /\ taken[i] \in 1 .. pushed
    BY <1>1 DEF Taking
  <2>2. \A n : <<"node", n>> # <<"taken", i>>
    OBVIOUS
  <2> QED
    BY <2>1, <2>2
<1> QED
  BY <1>1, <1>2, <1>3 DEF Elements

-----------------------------------------------------------------------------
(* CallPush begins a message *)

LEMMA BeginsMessage ==
  ASSUME NEW L, NEW w, NEW at, NEW seen, NEW tops, Kept(L, w, at, seen, tops), View',
         NEW t \in Threads, CallPush(t)
  PROVE  Queue!Next
<1>1. pushed' = pushed + 1 /\ pushed < MaxPushes /\ UNCHANGED <<_next, data, _head, taken>>
  BY DEF CallPush, memory, ends
<1>2. Contents' = Contents
  BY <1>1, SameQueue DEF SameNodes
<1>3. pushed \in Nat /\ Elements(Contents) \subseteq 1 .. pushed /\ Elements(taken) \subseteq 1 .. pushed
  <2>1. PICK s : s = L[Queued]
    OBVIOUS
  <2>2. pushed \in Nat /\ Elements(Contents) \subseteq 1 .. pushed
    BY <2>1, ContentsAre
  <2> QED
    BY <2>2, TakenAre
<1>4. PICK m : m = pushed + 1
  OBVIOUS
<1>5. m \in 1 .. MaxPushes /\ m \notin 1 .. pushed /\ 1 .. m = (1 .. pushed) \cup {m}
  BY <1>1, <1>3, <1>4, Sizes
<1>6. m \notin Waiting /\ m \notin Elements(Contents) /\ m \notin Elements(taken)
  BY <1>3, <1>5 DEF Waiting
<1>7. Waiting' = Waiting \cup {m}
  BY <1>1, <1>2, <1>3, <1>4, <1>5 DEF Waiting
<1>8. Queue!Range(Contents) = Elements(Contents) /\ Queue!Range(taken) = Elements(taken)
  BY DEF Queue!Range, Elements
<1> HIDE DEF Contents
<1>9. Queue!Begin(m)
  BY <1>1, <1>2, <1>6, <1>7, <1>8 DEF Queue!Begin, Waiting
<1> QED
  BY <1>5, <1>9 DEF Queue!Next

-----------------------------------------------------------------------------
(* PopCAS takes the first message *)

LEMMA TakesMessage ==
  ASSUME NEW L, NEW w, NEW at, NEW seen, NEW tops, Kept(L, w, at, seen, tops), View',
         NEW t \in Threads, PopCAS(t), _head = reg[t].head
  PROVE  Queue!Take /\ Waiting' = Waiting
<1>1. /\ _head' = reg[t].next /\ taken' = Append(taken, reg[t].msg)
      /\ UNCHANGED <<_next, data, pushed>>
  BY DEF PopCAS, memory
<1>2. PICK s, nx, m, n : s = L[Queued] /\ nx = reg[t].next /\ m = reg[t].msg /\ n = Size(s)
  OBVIOUS
<1>3. nx = _next[Addr(_head)] /\ Addr(nx) # Null /\ m = data[Addr(nx)]
  BY <1>2 DEF PopCAS, Kept, Good, OfThread, HeadLocals
<1>4. 2 \in 1 .. n /\ Addr(nx) = s[2] /\ m = data[s[2]]
  BY <1>2, <1>3, FrontOfQueue
<1>5. /\ n \in Nat \ {0} /\ n < Dummy /\ s \in Seq(Nodes)
      /\ Contents \in Seq(1 .. MaxPushes) /\ Len(Contents) = n - 1
      /\ \A i \in 1 .. n - 1 : i + 1 \in 1 .. n /\ Contents[i] = data[s[i + 1]] /\ Contents[i] \in 1 .. pushed
      /\ pushed \in Nat /\ pushed <= MaxPushes
  BY <1>2, ContentsAre
<1>6. n > 1 /\ n - 1 \in Nat \ {0} /\ 1 \in 1 .. n - 1 /\ Contents # <<>>
  BY <1>4, <1>5
<1>7. /\ Head(Contents) = m /\ m \in 1 .. MaxPushes /\ Tail(Contents) \in Seq(1 .. MaxPushes) /\ Len(Tail(Contents)) = n - 2
      /\ \A i \in 1 .. n - 2 : Tail(Contents)[i] = Contents[i + 1]
  <2>1. Head(Contents) = Contents[1] /\ Contents[1] = m
    BY <1>4, <1>5, <1>6
  <2>2. Len(Contents) - 1 = n - 2 /\ (n - 1) - 1 = n - 2
    BY <1>5
  <2>3. m \in 1 .. MaxPushes
    <3>1. m \in 1 .. pushed
      BY <1>5, <1>6, <2>1
    <3> QED
      BY <1>5, <3>1, Sizes
  <2> QED
    BY <1>5, <1>6, <2>1, <2>2, <2>3, HeadTailProperties
\* The queue is one node shorter.
<1>8. PICK r : r = Tail(s)
  OBVIOUS
<1>9. r \in Seq(Nodes) /\ Size(r) = n - 1 /\ \A i \in 1 .. n - 1 : r[i] = s[i + 1] /\ i + 1 \in 1 .. n
  <2>1. s # <<>> /\ Len(s) = n
    BY <1>2, <1>5 DEF Size
  <2> QED
    BY <1>5, <1>8, <2>1, HeadTailProperties DEF Size
<1>10. IsPath(r)
  <2>1. IsPath(s)
    BY <1>2, QueuePath
  <2>2. Addr(_next[r[n - 1]]) \in {Null, Dummy}
    <3>1. n - 1 \in 1 .. n - 1 /\ (n - 1) + 1 = n
      BY <1>5, <1>6
    <3> QED
      BY <1>2, <1>9, <2>1, <3>1 DEF IsPath
  <2>3. ASSUME NEW i \in 1 .. (n - 1) - 1 PROVE Addr(_next[r[i]]) = r[i + 1]
    <3>1. i \in 1 .. n - 1 /\ i + 1 \in 1 .. n - 1
      BY <1>5
    <3> QED
      BY <1>2, <1>9, <2>1, <3>1 DEF IsPath
  <2>4. Size(r) \in Nat \ {0} /\ Size(r) < Dummy
    BY <1>5, <1>6, <1>9, Sizes
  <2> QED
    BY <1>9, <2>2, <2>3, <2>4 DEF IsPath
<1>11. IsPath(r)' /\ r[1] = Addr(_head') /\ Behind(r)' = Behind(r)
  <2>1. IsPath(r)' /\ Behind(r)' = Behind(r)
    BY <1>1, <1>10 DEF IsPath, Behind
  <2>2. r[1] = s[2]
    BY <1>6, <1>9
  <2> QED
    BY <1>1, <1>2, <1>4, <2>1, <2>2
<1>12. Contents' = Behind(r)
  BY <1>11 DEF View
<1>13. Contents' = Tail(Contents)
  <2>1. PICK b, c : b = Behind(r) /\ c = Tail(Contents)
    OBVIOUS
  <2>2. (n - 1) - 1 = n - 2 /\ n - 2 \in Nat /\ \A i \in 1 .. n - 2 : i + 1 \in 1 .. n - 1
    BY <1>5, <1>6
  <2>3. b = [i \in 1 .. n - 2 |-> data[r[i + 1]]]
    BY <1>9, <2>1, <2>2 DEF Behind
  <2>4. \A i \in 1 .. n - 2 : data[r[i + 1]] = c[i]
    BY <1>5, <1>7, <1>9, <2>1, <2>2
  <2>5. c \in Seq(1 .. MaxPushes) /\ Len(c) = n - 2
    BY <1>7, <2>1
  <2>6. DOMAIN c = 1 .. n - 2 /\ c = [i \in 1 .. n - 2 |-> c[i]]
    BY <2>5
  <2>7. b = c
    BY <2>3, <2>4, <2>6, Zenon
  <2> QED
    BY <1>12, <2>1, <2>7
<1>14. Elements(Contents) = {m} \cup Elements(Tail(Contents))
  <2>1. Contents = <<m>> \o Tail(Contents) /\ <<m>> \in Seq(1 .. MaxPushes)
    <3>1. m \in 1 .. MaxPushes
      BY <1>7
    <3>2. PICK k, c : k = Contents /\ c = Tail(k)
      OBVIOUS
    <3>3. k \in Seq(1 .. MaxPushes) /\ k # <<>> /\ Head(k) = m
      BY <1>5, <1>6, <1>7, <3>2
    <3>4. k = <<m>> \o c
      BY <3>1, <3>2, <3>3
    <3> QED
      BY <3>1, <3>2, <3>4
  <2>2. PICK u, v : u = <<m>> /\ v = Tail(Contents)
    OBVIOUS
  <2>3. Elements(u \o v) = Elements(u) \cup Elements(v)
    <3>1. u \in Seq(1 .. MaxPushes) /\ v \in Seq(1 .. MaxPushes)
      BY <1>7, <2>1, <2>2
    <3> QED
      BY <3>1, ElementsJoined
  <2>4. Elements(u) = {m}
    BY <2>2 DEF Elements
  <2> QED
    BY <2>1, <2>2, <2>3, <2>4
<1>15. Elements(taken') = Elements(taken) \cup {m}
  <2>1. taken \in Seq(1 .. MaxPushes) /\ m \in 1 .. MaxPushes
    BY <1>7, TakenAre
  <2>2. taken' = Append(taken, m)
    BY <1>1, <1>2
  <2>3. Elements(Append(taken, m)) = Elements(taken) \cup {m}
    <3>1. PICK k, T : k = taken /\ T = 1 .. MaxPushes
      OBVIOUS
    <3>2. k \in Seq(T) /\ m \in T
      BY <2>1, <3>1
    <3>3. Elements(Append(k, m)) = Elements(k) \cup {m}
      BY <3>2, ElementsAppended
    <3> QED
      BY <3>1, <3>3
  <2> QED
    BY <2>2, <2>3
<1>16. Elements(Contents') \cup Elements(taken') = Elements(Contents) \cup Elements(taken)
  BY <1>13, <1>14, <1>15
<1>17. Waiting' = Waiting
  BY <1>1, <1>16 DEF Waiting
<1> HIDE DEF Contents
<1>18. Queue!Take
  BY <1>1, <1>2, <1>6, <1>7, <1>13, <1>17 DEF Queue!Take, Waiting
<1> QED
  BY <1>17, <1>18

-----------------------------------------------------------------------------
(* Link, behind a node of the queue, lets the messages in hand enter *)

\* The two chains are one path.
LEMMA PathJoined ==
  ASSUME NEW L, NEW w, NEW at, NEW seen, NEW tops, Kept(L, w, at, seen, tops),
         NEW t \in Threads, Link(t), _next[Addr(reg[t].tail)] = Nothing,
         NEW s, s = L[Queued], NEW c, c = L[Hand(t)], s[Size(s)] = Addr(reg[t].tail)
  PROVE  \E q : /\ Follows(q, s, c) /\ q \in Seq(Nodes) /\ Size(q) = Size(s) + Size(c)
                /\ IsPath(q)' /\ q[1] = Addr(_head')
<1>1. /\ pc[t] = "link" /\ Hand(t) \in Places /\ Queued \in Places /\ Hand(t) # Queued
      /\ HandOf(t, L, w) /\ Names(w)
  BY AllPlaces DEF Link, Kept, Good, Lasting, OfThread
<1>2. Size(c) # 0 /\ c[1] = Addr(reg[t].node) /\ Chain(c, w)
  BY <1>1 DEF HandOf, Pending
<1>3. /\ s \in Seq(Nodes) /\ Size(s) \in Nat \ {0} /\ Chain(s, w) /\ c \in Seq(Nodes) /\ Size(c) \in Nat \ {0}
      /\ (\A i \in 1 .. Size(s) : s[i] \in Nodes) /\ (\A i \in 1 .. Size(c) : c[i] \in Nodes)
  BY <1>1, <1>2, QueueIs, ListsDistinct
<1>4. /\ Distinct(s) /\ Distinct(c) /\ \A i \in 1 .. Size(s), j \in 1 .. Size(c) : s[i] # c[j]
  <2>1. \A n : ~(In(n, s) /\ In(n, c))
    BY <1>1, Apart
  <2> QED
    BY <1>1, <2>1, ListsDistinct DEF In
<1>5. PICK a : a = Addr(reg[t].tail)
  OBVIOUS
<1>6. a \in Nodes /\ (\A x \in Nodes : _next'[x] = IF x = a THEN reg[t].node ELSE _next[x]) /\ _head' = _head
  <2>1. Size(s) \in 1 .. Size(s)
    BY <1>3
  <2>2. a \in Nodes
    BY <1>3, <1>5, <2>1
  <2>3. _next \in [Nodes \cup {Dummy} -> Ptr]
    BY DEF Kept, Kinds, TypeOK
  <2>4. _next' = [_next EXCEPT ![a] = reg[t].node] /\ _head' = _head
    BY <1>5 DEF Link, LinkCAS, ends
  <2> QED
    BY <2>2, <2>3, <2>4
<1>7. PICK q : q = s \o c
  OBVIOUS
<1>8. q \in Seq(Nodes) /\ Follows(q, s, c)
  BY <1>3, <1>7, Concatenated
<1>9. Size(q) = Size(s) + Size(c) /\ Size(q) \in Nat \ {0}
  BY <1>3, <1>8 DEF Follows
<1>10. \A i \in 1 .. Size(q) : \/ i \in 1 .. Size(s) /\ q[i] = s[i]
                               \/ \E j \in 1 .. Size(c) : i = Size(s) + j /\ q[i] = c[j]
  <2>1. Size(s) \in Nat /\ Size(c) \in Nat /\ Follows(q, s, c)
    BY <1>3, <1>8
  <2> QED
    BY <2>1, InFollows
<1>11. Distinct(q)
  <2> SUFFICES ASSUME NEW i \in 1 .. Size(q), NEW j \in 1 .. Size(q), q[i] = q[j] PROVE i = j
    BY DEF Distinct
  <2>1. CASE i \in 1 .. Size(s) /\ q[i] = s[i]
    <3>1. CASE j \in 1 .. Size(s) /\ q[j] = s[j]
      <4>1. Distinct(s) /\ s[i] = s[j]
        BY <1>4, <2>1, <3>1
      <4> QED
        BY <2>1, <3>1, <4>1 DEF Distinct
    <3>2. CASE \E y \in 1 .. Size(c) : j = Size(s) + y /\ q[j] = c[y]
      BY <1>4, <2>1, <3>2
    <3> QED
      BY <1>10, <3>1, <3>2
  <2>2. ASSUME NEW x \in 1 .. Size(c), i = Size(s) + x, q[i] = c[x] PROVE i = j
    <3>1. CASE j \in 1 .. Size(s) /\ q[j] = s[j]
      BY <1>4, <2>2, <3>1
    <3>2. ASSUME NEW y \in 1 .. Size(c), j = Size(s) + y, q[j] = c[y] PROVE i = j
      <4>1. c[x] = c[y]
        BY <2>2, <3>2
      <4>2. x = y
        BY <1>4, <4>1 DEF Distinct
      <4> QED
        BY <2>2, <3>2, <4>2
    <3> QED
      BY <1>10, <3>1, <3>2
  <2> QED
    BY <1>10, <2>1, <2>2
<1>12. Size(q) < Dummy
  BY <1>8, <1>11, Counted
<1>13. \A i \in 1 .. Size(s) - 1 : i \in 1 .. Size(s) /\ i # Size(s) /\ Addr(_next'[s[i]]) = s[i + 1]
  <2> SUFFICES ASSUME NEW i \in 1 .. Size(s) - 1 PROVE i \in 1 .. Size(s) /\ i # Size(s) /\ Addr(_next'[s[i]]) = s[i + 1]
    OBVIOUS
  <2>1. i \in 1 .. Size(s) /\ i # Size(s) /\ i + 1 \in 1 .. Size(s) /\ Size(s) \in 1 .. Size(s)
    BY <1>3
  <2>2. s[i] # a
    BY <1>4, <1>5, <2>1 DEF Distinct
  <2>3. _next'[s[i]] = w[s[i + 1]]
    BY <1>3, <1>6, <2>1, <2>2 DEF Chain
  <2> QED
    BY <1>1, <1>3, <2>1, <2>3 DEF Names
<1>14. Addr(_next'[s[Size(s)]]) = c[1]
  <2>1. Size(s) \in 1 .. Size(s)
    BY <1>3
  <2> QED
    BY <1>2, <1>3, <1>5, <1>6, <2>1
<1>15. \A j \in 1 .. Size(c) : _next'[c[j]] = _next[c[j]]
  <2>1. Size(s) \in 1 .. Size(s)
    BY <1>3
  <2> QED
    BY <1>3, <1>4, <1>5, <1>6, <2>1
<1>16. \A j \in 1 .. Size(c) - 1 : j \in 1 .. Size(c) /\ Addr(_next'[c[j]]) = c[j + 1]
  <2> SUFFICES ASSUME NEW j \in 1 .. Size(c) - 1 PROVE j \in 1 .. Size(c) /\ Addr(_next'[c[j]]) = c[j + 1]
    OBVIOUS
  <2>1. j \in 1 .. Size(c) /\ j # Size(c) /\ j + 1 \in 1 .. Size(c)
    BY <1>3
  <2>2. _next'[c[j]] = w[c[j + 1]]
    BY <1>2, <1>15, <2>1 DEF Chain
  <2> QED
    BY <1>1, <1>3, <2>1, <2>2 DEF Names
<1>17. Addr(_next'[c[Size(c)]]) = Null
  <2>1. Size(c) \in 1 .. Size(c)
    BY <1>3
  <2>2. _next'[c[Size(c)]] = Nothing
    BY <1>2, <1>15, <2>1 DEF Chain
  <2> QED
    BY <2>2, Sizes
<1>18. ASSUME NEW i \in 1 .. Size(q) - 1 PROVE Addr(_next'[q[i]]) = q[i + 1]
  <2>1. CASE i \in 1 .. Size(s) - 1
    <3>1. i \in 1 .. Size(s) /\ i + 1 \in 1 .. Size(s)
      BY <1>3, <2>1
    <3> QED
      BY <1>8, <1>13, <2>1, <3>1 DEF Follows
  <2>2. CASE i = Size(s)
    <3>1. i \in 1 .. Size(s) /\ 1 \in 1 .. Size(c)
      BY <1>3, <2>2
    <3> QED
      BY <1>8, <1>14, <2>2, <3>1 DEF Follows
  <2>3. CASE i > Size(s)
    <3>1. PICK j : j = i - Size(s)
      OBVIOUS
    <3>0. i \in 1 .. (Size(s) + Size(c)) - 1 /\ Size(s) \in Nat /\ Size(c) \in Nat
      BY <1>3, <1>9
    <3>2. j \in 1 .. Size(c) - 1 /\ j \in 1 .. Size(c) /\ j + 1 \in 1 .. Size(c) /\ i = Size(s) + j /\ i + 1 = Size(s) + (j + 1)
      BY <3>0, <2>3, <3>1
    <3>3. q[i] = c[j] /\ q[i + 1] = c[j + 1]
      BY <1>8, <3>2 DEF Follows
    <3> QED
      BY <1>16, <3>2, <3>3
  <2> QED
    BY <1>3, <1>9, <2>1, <2>2, <2>3
<1>19. q[Size(q)] = c[Size(c)] /\ q[1] = s[1]
  <2>1. Size(c) \in 1 .. Size(c) /\ 1 \in 1 .. Size(s)
    BY <1>3
  <2> QED
    BY <1>8, <1>9, <2>1 DEF Follows
<1>20. IsPath(q)'
  BY <1>8, <1>9, <1>12, <1>17, <1>18, <1>19 DEF IsPath
<1>21. q[1] = Addr(_head')
  BY <1>6, <1>19, EndsAre
<1> QED
  BY <1>8, <1>9, <1>20, <1>21

\* The messages of a chain that a thread has in hand wait, each once.
LEMMA BatchWaits ==
  ASSUME NEW L, NEW w, NEW at, NEW seen, NEW tops, Kept(L, w, at, seen, tops),
         NEW t \in Threads, pc[t] \in Pending, NEW c, c = L[Hand(t)]
  PROVE  /\ Size(c) \in Nat \ {0}
         /\ \A j \in 1 .. Size(c) : data[c[j]] \in Waiting /\ data[c[j]] \in 1 .. MaxPushes
         /\ \A i, j \in 1 .. Size(c) : data[c[i]] = data[c[j]] => i = j
<1>1. /\ Hand(t) \in Places /\ Queued \in Places /\ Hand(t) # Queued
      /\ HandOf(t, L, w) /\ HandMsgs(t, L, at)
  BY AllPlaces DEF Kept, Good, OfThread
<1>2. Size(c) \in Nat \ {0} /\ Distinct(c) /\ \A j \in 1 .. Size(c) : Carried(c[j], at) /\ In(c[j], c)
  BY <1>1, ListsDistinct DEF HandOf, HandMsgs, In
<1>3. PICK s : s = L[Queued]
  OBVIOUS
<1>4. /\ Size(s) \in Nat \ {0} /\ Size(s) < Dummy /\ s \in Seq(Nodes)
      /\ \A i \in 1 .. Size(s) - 1 : /\ i + 1 \in 1 .. Size(s)
                                     /\ Contents[i] = data[s[i + 1]]
                                     /\ at[Contents[i]] = <<"node", s[i + 1]>>
      /\ \A m : m \in Elements(Contents) <=> \E i \in 1 .. Size(s) - 1 : m = data[s[i + 1]]
      /\ pushed \in Nat /\ pushed <= MaxPushes
  <2>1. Size(s) \in Nat \ {0} /\ Size(s) < Dummy /\ s \in Seq(Nodes) /\ pushed \in Nat /\ pushed <= MaxPushes
    BY <1>3, ContentsAre
  <2>2. ASSUME NEW i \in 1 .. Size(s) - 1
        PROVE  /\ i + 1 \in 1 .. Size(s) /\ Contents[i] = data[s[i + 1]]
               /\ at[Contents[i]] = <<"node", s[i + 1]>>
    BY <1>3, ContentsAre, SMTT(30)
  <2>3. Contents \in Seq(1 .. MaxPushes) /\ Len(Contents) = Size(s) - 1
    BY <1>3, ContentsAre
  <2>4. DOMAIN Contents = 1 .. Size(s) - 1
    BY <2>3
  <2>5. \A m : m \in Elements(Contents) <=> \E i \in 1 .. Size(s) - 1 : m = data[s[i + 1]]
    BY <2>2, <2>4 DEF Elements
  <2> QED
    BY <2>1, <2>2, <2>5
<1>5. ASSUME NEW j \in 1 .. Size(c), data[c[j]] \in Elements(Contents) PROVE FALSE
  <2>1. PICK i \in 1 .. Size(s) - 1 : data[c[j]] = data[s[i + 1]]
    BY <1>4, <1>5
  <2>2. at[data[c[j]]] = <<"node", c[j]>>
    BY <1>2 DEF Carried
  <2>3. Contents[i] = data[s[i + 1]] /\ at[Contents[i]] = <<"node", s[i + 1]>> /\ i + 1 \in 1 .. Size(s)
    BY <1>4
  <2>4. s[i + 1] = c[j]
    <3>1. <<"node", c[j]>> = <<"node", s[i + 1]>>
      BY <2>1, <2>2, <2>3
    <3> QED
      BY <3>1
  <2>5. In(c[j], s)
    BY <2>3, <2>4 DEF In
  <2> QED
    BY <1>1, <1>2, <1>3, <2>5, Elsewhere
<1>6. ASSUME NEW j \in 1 .. Size(c)
      PROVE  data[c[j]] \in 1 .. pushed /\ data[c[j]] \notin Elements(taken) /\ data[c[j]] \in 1 .. MaxPushes
  <2>1. data[c[j]] \in 1 .. pushed /\ at[data[c[j]]] = <<"node", c[j]>>
    BY <1>2 DEF Carried
  <2> QED
    <3>1. data[c[j]] \in 1 .. MaxPushes
      BY <1>4, <2>1, Sizes
    <3>2. data[c[j]] \notin Elements(taken)
      BY <2>1, TakenAre
    <3> QED
      BY <2>1, <3>1, <3>2
<1>7. ASSUME NEW i \in 1 .. Size(c), NEW j \in 1 .. Size(c), data[c[i]] = data[c[j]] PROVE i = j
  <2>1. c[i] = c[j]
    BY <1>2, <1>7 DEF Carried
  <2> QED
    BY <1>2, <2>1 DEF Distinct
<1> QED
  BY <1>2, <1>5, <1>6, <1>7 DEF Waiting

LEMMA SameCardinality ==
  ASSUME NEW S
  PROVE  Queue!Cardinality(S) = Cardinality(S)
BY DEF Queue!Cardinality, Cardinality

LEMMA BijectionOf ==
  ASSUME NEW k \in Nat, NEW b, DOMAIN b = 1 .. k, b = [j \in 1 .. k |-> b[j]],
         \A i, j \in 1 .. k : b[i] = b[j] => i = j,
         NEW S, S = {b[j] : j \in 1 .. k}
  PROVE  Cardinality(S) = k /\ b \in Queue!Bijection(1 .. Queue!Cardinality(S), S)
<1>1. IsFiniteSet(1 .. k) /\ Cardinality(1 .. k) = k
  <2>1. \A x \in Nat : IsFiniteSet(1 .. x) /\ Cardinality(1 .. x) = x
    BY FS_Interval
  <2> QED
    BY <2>1
<1>2. b \in [1 .. k -> S]
  OBVIOUS
<1>3. Cardinality(S) = k
  <2>1. b \in Injection(1 .. k, S)
    BY <1>2 DEF Injection, IsInjective
  <2>2. b \in Surjection(1 .. k, S)
    BY <1>2 DEF Surjection
  <2>3. ExistsBijection(1 .. k, S)
    BY <2>1, <2>2 DEF ExistsBijection, Bijection
  <2> QED
    BY <1>1, <2>3, FS_Bijection
<1>4. b \in Queue!Injection(1 .. k, S)
  BY <1>2 DEF Queue!Injection, Queue!IsInjective
<1>5. b \in Queue!Surjection(1 .. k, S)
  BY <1>2 DEF Queue!Surjection
<1> QED
  BY <1>3, <1>4, <1>5, SameCardinality DEF Queue!Bijection

LEMMA EntersQueue ==
  ASSUME NEW L, NEW w, NEW at, NEW seen, NEW tops, Kept(L, w, at, seen, tops), View',
         NEW t \in Threads, Link(t), _next[Addr(reg[t].tail)] = Nothing,
         Size(L[Queued]) \in Nat \ {0}, L[Queued][Size(L[Queued])] = Addr(reg[t].tail)
  PROVE  Queue!Enter
<1>1. pc[t] \in Pending /\ UNCHANGED <<data, pushed, taken>>
  BY DEF Link, Pending, log
<1>2. PICK s, c, n, k : s = L[Queued] /\ c = L[Hand(t)] /\ n = Size(s) /\ k = Size(c)
  OBVIOUS
<1>3. PICK q : /\ Follows(q, s, c) /\ q \in Seq(Nodes) /\ Size(q) = n + k
               /\ IsPath(q)' /\ q[1] = Addr(_head')
  BY <1>2, PathJoined
<1>4. /\ n \in Nat \ {0} /\ Contents \in Seq(1 .. MaxPushes) /\ Len(Contents) = n - 1
      /\ \A i \in 1 .. n - 1 : i + 1 \in 1 .. n /\ Contents[i] = data[s[i + 1]]
  BY <1>2, ContentsAre
<1>5. /\ k \in Nat \ {0}
      /\ \A j \in 1 .. k : data[c[j]] \in Waiting /\ data[c[j]] \in 1 .. MaxPushes
      /\ \A i, j \in 1 .. k : data[c[i]] = data[c[j]] => i = j
  BY <1>1, <1>2, BatchWaits
<1>6. PICK b : b = [j \in 1 .. k |-> data[c[j]]]
  OBVIOUS
<1>7. /\ DOMAIN b = 1 .. k /\ b = [j \in 1 .. k |-> b[j]] /\ (\A j \in 1 .. k : b[j] = data[c[j]])
      /\ b \in [1 .. k -> 1 .. MaxPushes]
  BY <1>5, <1>6
<1>8. b \in Seq(1 .. MaxPushes) /\ Len(b) = k
  BY <1>5, <1>7, IsSeq
<1>9. PICK S : S = {b[j] : j \in 1 .. k}
  OBVIOUS
<1>10. Elements(b) = S
  BY <1>7, <1>9 DEF Elements
<1>11. S \in (SUBSET Waiting) \ {{}}
  <2>1. 1 \in 1 .. k
    BY <1>5
  <2>2. \A x \in S : x \in Waiting
    BY <1>5, <1>7, <1>9
  <2>3. b[1] \in S
    BY <1>9, <2>1
  <2> QED
    BY <2>2, <2>3
<1>12. b \in Queue!Bijection(1 .. Queue!Cardinality(S), S)
  <2>1. \A i, j \in 1 .. k : b[i] = b[j] => i = j
    BY <1>5, <1>7
  <2> QED
    BY <1>5, <1>7, <1>9, <2>1, BijectionOf
<1>13. Contents' = [i \in 1 .. (n + k) - 1 |-> data[q[i + 1]]]
  <2>1. Contents' = Behind(q)'
    BY <1>3 DEF View
  <2> QED
    BY <1>1, <1>3, <2>1 DEF Behind
<1>14. PICK a, j : a = Contents /\ j = a \o b
  OBVIOUS
<1>15. /\ j \in Seq(1 .. MaxPushes) /\ Len(j) = (n + k) - 1
       /\ \A i \in 1 .. (n + k) - 1 : j[i] = IF i <= n - 1 THEN a[i] ELSE b[i - (n - 1)]
  <2>1. a \in Seq(1 .. MaxPushes) /\ b \in Seq(1 .. MaxPushes) /\ Len(a) = n - 1 /\ Len(b) = k
    BY <1>4, <1>8, <1>14
  <2>2. /\ j \in Seq(1 .. MaxPushes) /\ Len(j) = Len(a) + Len(b)
        /\ \A i \in 1 .. Len(a) + Len(b) : j[i] = IF i <= Len(a) THEN a[i] ELSE b[i - Len(a)]
    BY <1>14, <2>1, ConcatProperties
  <2>3. (n - 1) + k = (n + k) - 1
    BY <1>4, <1>5
  <2> QED
    BY <2>1, <2>2, <2>3
<1>16. ASSUME NEW i \in 1 .. (n + k) - 1 PROVE j[i] = data[q[i + 1]]
  <2>1. CASE i <= n - 1
    <3>1. i \in 1 .. n - 1 /\ i + 1 \in 1 .. n
      BY <1>4, <1>5, <2>1
    <3>2. q[i + 1] = s[i + 1]
      BY <1>2, <1>3, <3>1 DEF Follows
    <3> QED
      BY <1>4, <1>14, <1>15, <2>1, <3>1, <3>2
  <2>2. CASE ~(i <= n - 1)
    <3>1. PICK x : x = i - (n - 1)
      OBVIOUS
    <3>2. x \in 1 .. k /\ i + 1 = n + x
      BY <1>4, <1>5, <2>2, <3>1
    <3>3. q[i + 1] = c[x]
      BY <1>2, <1>3, <3>2 DEF Follows
    <3> QED
      BY <1>7, <1>15, <2>2, <3>1, <3>2, <3>3
  <2> QED
    BY <2>1, <2>2
<1>17. Contents' = Contents \o b
  <2>1. DOMAIN j = 1 .. (n + k) - 1 /\ j = [i \in 1 .. (n + k) - 1 |-> j[i]]
    BY <1>15
  <2>2. j = Contents'
    BY <1>13, <1>16, <2>1, Zenon
  <2> QED
    BY <1>14, <2>2
<1>18. Elements(Contents') = Elements(Contents) \cup S
  <2>1. Elements(a \o b) = Elements(a) \cup Elements(b)
    BY <1>4, <1>8, <1>14, ElementsJoined
  <2> QED
    BY <1>10, <1>14, <1>17, <2>1
<1>19. Waiting' = Waiting \ S
  BY <1>1, <1>18 DEF Waiting
<1> HIDE DEF Contents
<1>20. /\ Waiting' = Waiting \ S
       /\ Contents' = Contents \o b
       /\ taken' = taken
  BY <1>1, <1>17, <1>19
<1>21. Queue!Enter <=> \E X \in (SUBSET Waiting) \ {{}} : \E batch \in Queue!Bijection(1 .. Queue!Cardinality(X), X) :
                         Waiting' = Waiting \ X /\ Contents' = Contents \o batch /\ taken' = taken
  BY Zenon DEF Queue!Enter, Waiting
<1> QED
  BY <1>11, <1>12, <1>20, <1>21

LEMMA WritesUnseen ==
  ASSUME NEW L, NEW w, NEW at, NEW seen, NEW tops, Kept(L, w, at, seen, tops), View',
         NEW t \in Threads, Fill(t) \/ Hang(t)
  PROVE  Unseen
<1>1. pc[t] \in Handling
  BY DEF Fill, Hang, Handling, Releasing
<1>2. PICK n : n = Addr(reg[t].node)
  OBVIOUS
<1>3. n \in Nodes /\ In(n, L[Hand(t)])
  BY <1>1, <1>2, InHands
<1>4. _next \in [Nodes \cup {Dummy} -> Ptr] /\ data \in [Nodes \cup {Dummy} -> 0 .. MaxPushes]
  BY DEF Kept, Kinds, TypeOK
<1>5. \A x \in Nodes : x # n => _next'[x] = _next[x] /\ data'[x] = data[x]
  BY <1>2, <1>3, <1>4 DEF Fill, Hang
<1>6. UNCHANGED <<_head, log>>
  BY DEF Fill, Hang, ends
<1> QED
  BY <1>3, <1>5, <1>6, HandUnseenByQueue

LEMMA LinkSeen ==
  ASSUME NEW L, NEW w, NEW at, NEW seen, NEW tops, Kept(L, w, at, seen, tops), View',
         NEW t \in Threads, Link(t)
  PROVE  Queue!Enter \/ Unseen
<1>1. PICK a : a = Addr(reg[t].tail)
  OBVIOUS
<1>2. CASE _next[a] # Nothing
  <2>1. UNCHANGED <<_next, data, _head, log>>
    BY <1>1, <1>2 DEF Link, LinkCAS, ends
  <2> QED
    BY <2>1, QuietUnseen
<1>3. CASE _next[a] = Nothing
  <2>1. PICK X \in Places :
           /\ Size(L[X]) \in Nat \ {0} /\ L[X][Size(L[X])] = a
           /\ X = Queued \/ \E v \in Threads : v # t /\ pc[v] \in Pending /\ X = Hand(v)
    BY <1>1, <1>3, LinkTarget DEF Link
  <2>2. CASE X = Queued
    BY <1>1, <1>3, <2>1, <2>2, EntersQueue
  <2>3. ASSUME NEW v \in Threads, X = Hand(v) PROVE Unseen
    <3>1. Size(L[X]) \in 1 .. Size(L[X])
      BY <2>1
    <3>2. a \in Nodes /\ In(a, L[Hand(v)])
      BY <2>1, <2>3, <3>1, Apart
    <3>3. _next \in [Nodes \cup {Dummy} -> Ptr]
      BY DEF Kept, Kinds, TypeOK
    <3>4. \A x \in Nodes : x # a => _next'[x] = _next[x] /\ data'[x] = data[x]
      BY <1>1, <3>2, <3>3 DEF Link, LinkCAS
    <3>5. UNCHANGED <<_head, log>>
      BY DEF Link, ends
    <3> QED
      BY <3>2, <3>4, <3>5, HandUnseenByQueue
  <2> QED
    BY <2>1, <2>2, <2>3
<1> QED
  BY <1>2, <1>3

LEMMA PopCASSeen ==
  ASSUME NEW L, NEW w, NEW at, NEW seen, NEW tops, Kept(L, w, at, seen, tops), View',
         NEW t \in Threads, PopCAS(t)
  PROVE  Queue!Take \/ Unseen
<1>1. CASE _head = reg[t].head
  BY <1>1, TakesMessage
<1>2. CASE _head # reg[t].head
  <2>1. UNCHANGED <<_next, data, _head, log>>
    BY <1>2 DEF PopCAS, memory, log
  <2> QED
    BY <2>1, QuietUnseen
<1> QED
  BY <1>1, <1>2

\* Every other step writes neither a link nor a message nor _head.
Special(t) == Fill(t) \/ Hang(t) \/ Link(t) \/ PopCAS(t) \/ CallPush(t)

LEMMA QuietSteps ==
  ASSUME NEW t \in Threads, Step(t) \/ CallPop(t), ~Special(t)
  PROVE  UNCHANGED <<_next, data, _head, log>>
<1> USE DEF memory, ends, log
<1>1. CASE AllocStep(t)
  BY <1>1 DEF AllocStep, ReadTop, ReadFreeNext, ReadSeqAddress, AllocCAS
<1>2. CASE PushStep(t)
  BY <1>2 DEF PushStep, Special, CountPush, ReadTail, ReadTailNext, HelpTail, PushReturns
<1>3. CASE PopStep(t)
  BY <1>3 DEF PopStep, Special, PopsNothing, ReadHead, ReadLast, ReadLastNext, PopHelps, ReadHeadNext, ReadData
<1>4. CASE ReleaseStep(t)
  BY <1>4 DEF ReleaseStep, Special, Release, ReadFree, ReleaseCAS
<1>5. CASE CallPop(t)
  BY <1>5 DEF CallPop
<1> QED
  BY <1>1, <1>2, <1>3, <1>4, <1>5 DEF Step

LEMMA StepSeen ==
  ASSUME IInv, View', [Next]_vars
  PROVE  Queue!Next \/ Unseen
<1>1. PICK L, w, at, seen, tops : Kept(L, w, at, seen, tops)
  BY DEF IInv
<1>2. ASSUME NEW t \in Threads, Step(t) \/ CallPush(t) \/ CallPop(t)
      PROVE  Queue!Next \/ Unseen
  <2>1. CASE Fill(t) \/ Hang(t)
    BY <1>1, <2>1, WritesUnseen
  <2>2. CASE Link(t)
    BY <1>1, <2>2, LinkSeen DEF Queue!Next
  <2>3. CASE PopCAS(t)
    BY <1>1, <2>3, PopCASSeen DEF Queue!Next
  <2>4. CASE CallPush(t)
    BY <1>1, <2>4, BeginsMessage
  <2>5. CASE ~Special(t)
    <3>1. UNCHANGED <<_next, data, _head, log>>
      BY <1>2, <2>5, QuietSteps DEF Special
    <3> QED
      BY <1>1, <3>1, QuietUnseen
  <2> QED
    BY <2>1, <2>2, <2>3, <2>4, <2>5 DEF Special
<1>3. CASE UNCHANGED vars
  <2>1. UNCHANGED <<_next, data, _head, log>>
    BY <1>3 DEF vars, memory, ends
  <2> QED
    BY <1>1, <2>1, QuietUnseen
<1> QED
  BY <1>2, <1>3 DEF Next

LEMMA QueueInit == Init => Queue!Init
<1> SUFFICES ASSUME Init PROVE Queue!Init
  OBVIOUS
<1>1. PICK s : s = <<Spare + 1>>
  OBVIOUS
<1>2. s \in Seq(Nodes) /\ Size(s) = 1 /\ s[1] = Spare + 1 /\ Spare + 1 \in Nodes /\ Spare + 1 \notin 1 .. Spare
  BY <1>1, Sizes DEF Size, Nodes
<1>3. _next[Spare + 1] = Nothing
  BY <1>2, Sizes DEF Init
<1>4. IsPath(s)
  <2>1. Size(s) \in Nat \ {0} /\ Size(s) < Dummy /\ \A i \in 1 .. Size(s) - 1 : FALSE
    BY <1>2, Sizes
  <2> QED
    BY <1>2, <1>3, <2>1, Sizes DEF IsPath
<1>5. s[1] = Addr(_head)
  BY <1>2 DEF Init, Addr
<1>6. Contents = Behind(s)
  BY <1>4, <1>5, ViewIs DEF View
<1>7. Contents = <<>>
  BY <1>2, <1>6 DEF Behind
<1>8. pushed = 0 /\ taken = <<>>
  BY DEF Init
<1>9. Waiting = {}
  BY <1>8 DEF Waiting
<1> HIDE DEF Contents
<1> QED
  BY <1>7, <1>8, <1>9 DEF Queue!Init, Waiting

\* Whatever the threads do and in whatever order their reads and CASes come, Push
\* and Pop of CLockFreeQueue are a queue: a message enters once, in the step that
\* links its node behind one of the queue, and the messages are taken in the order
\* they entered, in the CAS of _head; no message is lost and none is taken twice.
THEOREM QueueSpecHolds == Spec => QueueSpec
<1>1. View
  BY ViewIs
<1>2. IInv /\ View' /\ [Next]_vars => Queue!Next \/ Unseen
  BY StepSeen
<1>3. Queue!Next \/ Unseen => [Queue!Next]_<<Waiting, Contents, taken>>
  BY DEF Unseen
<1>4. Spec => [][Queue!Next]_<<Waiting, Contents, taken>>
  BY <1>1, <1>2, <1>3, IInvHolds, PTL DEF Spec
<1>5. Spec => Queue!Init
  BY QueueInit DEF Spec
<1> QED
  BY <1>4, <1>5, PTL DEF QueueSpec, Queue!Spec, Waiting
=============================================================================
