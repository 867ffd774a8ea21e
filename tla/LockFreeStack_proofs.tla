------------------------ MODULE LockFreeStack_proofs ------------------------
(***************************************************************************)
(* Theorems about LockFreeStack, for any threads, nodes and number of      *)
(* calls, while a tag does not come back: no more pushes than tags.        *)
(***************************************************************************)
EXTENDS LockFreeStack, FiniteSetTheorems, SequenceTheorems, TLAPS

Tag(p) == p[1]

LEMMA Sizes ==
  /\ IsFiniteSet(Threads) /\ MaxPushes \in Nat /\ Tags \in Nat /\ MaxPushes < Tags
  /\ Bottom \in Nodes /\ Null \notin Nodes
  /\ dummy \in Ptr /\ Addr(dummy) = Bottom /\ Tag(dummy) = 0
  /\ Nothing \in Ptr /\ Addr(Nothing) = Null /\ Tag(Nothing) = 0
BY LockFreeStackAssumption DEF dummy, Nothing, Ptr, Addr, Tag

LEMMA Ptrs ==
  /\ \A p \in Ptr : Addr(p) \in Nodes \cup {Null} /\ Tag(p) \in 0 .. Tags - 1
  /\ \A g \in 0 .. Tags - 1, n \in Nodes \cup {Null} :
       <<g, n>> \in Ptr /\ Addr(<<g, n>>) = n /\ Tag(<<g, n>>) = g
BY DEF Ptr, Addr, Tag

-----------------------------------------------------------------------------
(* The sequences *)

LEMMA LinkedOf ==
  ASSUME NEW s \in Seq(Ptr)
  PROVE  /\ Len(s) \in Nat /\ DOMAIN s = 1 .. Len(s)
         /\ \A i \in 1 .. Len(s) : s[i] \in Ptr
         /\ DOMAIN Append(s, dummy) = 1 .. Len(s) + 1
         /\ \A i \in 1 .. Len(s) : Append(s, dummy)[i] = s[i]
         /\ Append(s, dummy)[Len(s) + 1] = dummy
<1>1. Len(s) \in Nat /\ DOMAIN s = 1 .. Len(s) /\ \A i \in 1 .. Len(s) : s[i] \in Ptr
  OBVIOUS
<1>2. dummy \in Ptr
  BY Sizes
<1>3. /\ Append(s, dummy) \in Seq(Ptr) /\ Len(Append(s, dummy)) = Len(s) + 1
      /\ \A i \in 1 .. Len(s) : Append(s, dummy)[i] = s[i]
      /\ Append(s, dummy)[Len(s) + 1] = dummy
  BY <1>2, AppendProperties
<1>4. DOMAIN Append(s, dummy) = 1 .. Len(s) + 1
  BY <1>3, LenProperties
<1> QED
  BY <1>1, <1>3, <1>4

\* r is s with p in front of it.
IsOver(r, p, s) ==
  /\ Len(r) = Len(s) + 1 /\ r[1] = p
  /\ \A i \in 1 .. Len(s) : r[i + 1] = s[i]

LEMMA PutOver ==
  ASSUME NEW S, NEW s \in Seq(S), NEW p \in S
  PROVE  <<p>> \o s \in Seq(S) /\ IsOver(<<p>> \o s, p, s)
<1>1. <<p>> \in Seq(S) /\ Len(<<p>>) = 1 /\ <<p>>[1] = p
  OBVIOUS
<1>2. Len(s) \in Nat
  OBVIOUS
<1> DEFINE q == <<p>>
<1>3. q \in Seq(S) /\ Len(q) = 1 /\ q[1] = p
  BY <1>1
<1> HIDE DEF q
<1>a. /\ q \o s \in Seq(S) /\ Len(q \o s) = Len(q) + Len(s)
      /\ \A i \in 1 .. Len(q) + Len(s) : (q \o s)[i] = IF i <= Len(q) THEN q[i] ELSE s[i - Len(q)]
  BY <1>3, ConcatProperties
<1>4. /\ q \o s \in Seq(S) /\ Len(q \o s) = 1 + Len(s)
      /\ \A i \in 1 .. 1 + Len(s) : (q \o s)[i] = IF i <= 1 THEN q[i] ELSE s[i - 1]
  BY <1>3, <1>a
<1>5. (q \o s)[1] = p
  BY <1>2, <1>3, <1>4
<1>6. ASSUME NEW i \in 1 .. Len(s) PROVE (q \o s)[i + 1] = s[i]
  <2>1. i + 1 \in 1 .. 1 + Len(s) /\ ~(i + 1 <= 1) /\ (i + 1) - 1 = i
    BY <1>2
  <2> QED
    BY <1>4, <2>1
<1> QED
  BY <1>2, <1>4, <1>5, <1>6 DEF IsOver, q

LEMMA TakenOff ==
  ASSUME NEW S, NEW s \in Seq(S), Len(s) # 0
  PROVE  Tail(s) \in Seq(S) /\ IsOver(s, s[1], Tail(s))
<1>1. Len(s) \in Nat \ {0} /\ s # <<>>
  OBVIOUS
<1>2. /\ Tail(s) \in Seq(S) /\ Len(Tail(s)) = Len(s) - 1
      /\ \A i \in 1 .. Len(Tail(s)) : Tail(s)[i] = s[i + 1]
  BY <1>1, HeadTailProperties
<1> QED
  BY <1>1, <1>2 DEF IsOver

LEMMA Over ==
  ASSUME NEW r, NEW p, NEW s, Len(s) \in Nat, IsOver(r, p, s)
  PROVE  /\ 1 \in 1 .. Len(r) /\ r[1] = p
         /\ \A i \in 1 .. Len(s) : i + 1 \in 1 .. Len(r) /\ r[i + 1] = s[i]
         /\ \A j \in 1 .. Len(r) : j = 1 \/ (j - 1 \in 1 .. Len(s) /\ r[j] = s[j - 1])
<1>1. ASSUME NEW j \in 1 .. Len(r), j # 1 PROVE j - 1 \in 1 .. Len(s) /\ r[j] = s[j - 1]
  <2>1. j - 1 \in 1 .. Len(s) /\ (j - 1) + 1 = j
    BY <1>1 DEF IsOver
  <2> QED
    BY <2>1 DEF IsOver
<1>2. \A i \in 1 .. Len(s) : i + 1 \in 1 .. Len(r) /\ r[i + 1] = s[i]
  BY DEF IsOver
<1>3. 1 \in 1 .. Len(r) /\ r[1] = p
  BY DEF IsOver
<1> QED
  BY <1>1, <1>2, <1>3

-----------------------------------------------------------------------------
(* The number of threads at some labels *)

AtIn(p, S) == {t \in Threads : p[t] \in S}
At(S)      == AtIn(pc, S)

\* d more of them are in S after one went from label l to label m.
Shift(S, l, m, d) ==
  \/ d = 0 /\ (l \in S <=> m \in S)
  \/ d = -1 /\ l \in S /\ m \notin S
  \/ d = 1 /\ l \notin S /\ m \in S

LEMMA Moved ==
  ASSUME NEW p, NEW q, NEW t \in Threads, \A u \in Threads : u # t => q[u] = p[u], NEW S
  PROVE  /\ Cardinality(AtIn(p, S)) \in Nat /\ Cardinality(AtIn(q, S)) \in Nat
         /\ p[t] \in S => 1 <= Cardinality(AtIn(p, S))
         /\ p[t] \in S /\ q[t] \in S => Cardinality(AtIn(q, S)) = Cardinality(AtIn(p, S))
         /\ p[t] \notin S /\ q[t] \notin S => Cardinality(AtIn(q, S)) = Cardinality(AtIn(p, S))
         /\ p[t] \in S /\ q[t] \notin S => Cardinality(AtIn(q, S)) = Cardinality(AtIn(p, S)) - 1
         /\ p[t] \notin S /\ q[t] \in S => Cardinality(AtIn(q, S)) = Cardinality(AtIn(p, S)) + 1
<1>1. IsFiniteSet(Threads) /\ AtIn(p, S) \subseteq Threads /\ AtIn(q, S) \subseteq Threads
  BY Sizes DEF AtIn
<1>2. IsFiniteSet(AtIn(p, S)) /\ IsFiniteSet(AtIn(q, S))
  BY <1>1, FS_Subset
<1>3. Cardinality(AtIn(p, S)) \in Nat /\ Cardinality(AtIn(q, S)) \in Nat
  BY <1>2, FS_CardinalityType
<1>4. ASSUME p[t] \in S PROVE 1 <= Cardinality(AtIn(p, S))
  <2>1. AtIn(p, S) # {}
    BY <1>4 DEF AtIn
  <2> QED
    BY <1>2, <1>3, <2>1, FS_EmptySet
<1>5. ASSUME p[t] \in S <=> q[t] \in S PROVE AtIn(q, S) = AtIn(p, S)
  BY <1>5 DEF AtIn
<1>6. ASSUME p[t] \in S, q[t] \notin S PROVE Cardinality(AtIn(q, S)) = Cardinality(AtIn(p, S)) - 1
  <2>1. AtIn(q, S) = AtIn(p, S) \ {t} /\ t \in AtIn(p, S)
    BY <1>6 DEF AtIn
  <2> QED
    BY <1>2, <2>1, FS_RemoveElement
<1>7. ASSUME p[t] \notin S, q[t] \in S PROVE Cardinality(AtIn(q, S)) = Cardinality(AtIn(p, S)) + 1
  <2>1. AtIn(q, S) = AtIn(p, S) \cup {t} /\ t \notin AtIn(p, S)
    BY <1>7 DEF AtIn
  <2> QED
    BY <1>2, <2>1, FS_AddElement
<1> QED
  BY <1>3, <1>4, <1>5, <1>6, <1>7

-----------------------------------------------------------------------------
(* The invariant *)

Pushing  == {"alloc", "fill", "tag", "readTop", "writeNext", "pushCAS"}
Untagged == {"alloc", "fill", "tag"}
Ready    == {"readTop", "writeNext", "pushCAS"}
Taking   == Popping \cup {"countPush"}
Owing    == Taking \cup {"empty"}

\* The types; the bounds of m_size follow from Counts.
Shapes ==
  /\ _next \in [Nodes -> Ptr] /\ data \in [Nodes -> 0 .. MaxPushes]
  /\ free \subseteq Nodes
  /\ m_top \in Ptr /\ seqNumber \in 0 .. Tags - 1 /\ m_size \in Int
  /\ pc \in [Threads -> Labels] /\ reg \in [Threads -> Locals]
  /\ pushed \in 0 .. MaxPushes
  /\ stack \in Seq(Ptr) /\ taken \in Seq(1 .. MaxPushes)

\* The size is what is on the stack, less the pushes not counted yet and the Pops that
\* counted themselves; there is a node for each of them that does not fail.  A push is
\* counted in pushed, tagged, put on the stack and taken once.
Counts ==
  /\ m_size = Len(stack) - Cardinality(At(Owing))
  /\ Cardinality(At(Taking)) <= Len(stack)
  /\ seqNumber + Cardinality(At(Untagged)) = pushed
  /\ Len(stack) + Len(taken) + Cardinality(At(Pushing)) = pushed

\* What is on the stack was pushed, and so was what was taken.
Entered ==
  /\ \A i \in 1 .. Len(stack) : /\ Addr(stack[i]) \in Nodes /\ Tag(stack[i]) <= seqNumber
                                /\ data[Addr(stack[i])] \in 1 .. pushed
  /\ \A i \in 1 .. Len(taken) : taken[i] \in 1 .. pushed

\* What a thread wrote to its node, and where its locals point.
Own(t) ==
  /\ pc[t] \in Holding => Held(t) \in Nodes
  /\ pc[t] \in {"popNext", "popData", "popCAS"} => Addr(reg[t].old) \in Nodes
  /\ pc[t] \in Ready \cup {"tag"} => data[Held(t)] = reg[t].msg
  /\ pc[t] = "pushCAS" => _next[Held(t)] = reg[t].old
  /\ pc[t] \in Ready => Tag(reg[t].node) <= seqNumber
  /\ Tag(reg[t].old) <= seqNumber

\* The message of a Push is nobody else's.
Names(t) == pc[t] \in Pushing =>
  /\ reg[t].msg \in 1 .. pushed
  /\ \A i \in 1 .. Len(stack) : data[Addr(stack[i])] # reg[t].msg
  /\ \A i \in 1 .. Len(taken) : taken[i] # reg[t].msg
  /\ \A u \in Threads : u # t /\ pc[u] \in Pushing => reg[u].msg # reg[t].msg

\* What a Pop read from the old top is still so if the old top is on the stack.
Seen(t) == \A i \in 1 .. Len(stack) : reg[t].old = stack[i] =>
  /\ pc[t] \in {"popData", "popCAS"} => reg[t].new = _next[Addr(stack[i])]
  /\ pc[t] = "popCAS" => reg[t].msg = data[Addr(stack[i])]

\* The pointer that a Push is to put on top was seen there by nobody.
Fresh(t) == pc[t] \in Ready => \A u \in Threads : reg[u].old # reg[t].node

IInv ==
  /\ Shapes /\ NodesOwned /\ Counts /\ Entered
  /\ \A t \in Threads : Own(t) /\ Names(t) /\ Seen(t) /\ Fresh(t)

-----------------------------------------------------------------------------
(* What a step changes *)

Step(t) == PushStep(t) \/ PopStep(t)

\* The steps that change the stack
Enters(t) == PushCAS(t) /\ m_top = reg[t].old
Takes(t)  == PopCAS(t) /\ m_top = reg[t].old
Quiet     == UNCHANGED <<m_top, stack, taken>>

LEMMA Kinds ==
  ASSUME NEW t \in Threads, Step(t)
  PROVE  Quiet \/ Enters(t) \/ Takes(t)
BY DEF Step, PushStep, PopStep, Quiet, Enters, Takes, counts, log, memory,
       CallPush, Alloc, Fill, TagNode, ReadTop, WriteNext, PushCAS, CountPush,
       CallPop, PopsNothing, PopTop, PopNext, PopData, PopCAS, PopsAgain, Hang, Release

\* The others stay where they are.
LEMMA OthersStay ==
  ASSUME Shapes, NEW t \in Threads, Step(t)
  PROVE  \A u \in Threads : u # t => pc'[u] = pc[u] /\ reg'[u] = reg[u]
BY DEF Shapes, Step, PushStep, PopStep, Goto, Set, Return, counts, log, memory,
       CallPush, Alloc, Fill, TagNode, ReadTop, WriteNext, PushCAS, CountPush,
       CallPop, PopsNothing, PopTop, PopNext, PopData, PopCAS, PopsTop, PopsAgain, Hang, Release

\* A thread writes to its own node only.
LEMMA OthersKept ==
  ASSUME Shapes, NEW t \in Threads, Step(t), NEW n \in Nodes, ~(pc[t] \in Holding /\ Held(t) = n)
  PROVE  _next'[n] = _next[n] /\ data'[n] = data[n]
BY DEF Shapes, Step, PushStep, PopStep, Goto, Set, Return, counts, log, memory, Held, Holding,
       CallPush, Alloc, Fill, TagNode, ReadTop, WriteNext, PushCAS, CountPush,
       CallPop, PopsNothing, PopTop, PopNext, PopData, PopCAS, PopsTop, PopsAgain, Hang, Release

LEMMA SizesOf ==
  ASSUME Shapes
  PROVE  Len(stack) \in Nat /\ Len(taken) \in Nat /\ m_size \in Int /\ seqNumber \in Nat /\ pushed \in Nat
BY Sizes DEF Shapes

LEMMA LinkedIs ==
  ASSUME Shapes
  PROVE  /\ DOMAIN stack = 1 .. Len(stack) /\ DOMAIN Linked = 1 .. Len(stack) + 1
         /\ \A i \in 1 .. Len(stack) : stack[i] \in Ptr /\ Linked[i] = stack[i]
         /\ Linked[Len(stack) + 1] = dummy
BY LinkedOf DEF Shapes, Linked

LEMMA CountsMove ==
  ASSUME Shapes, NEW t \in Threads, Step(t), NEW S, NEW d \in -1 .. 1, Shift(S, pc[t], pc'[t], d)
  PROVE  /\ Cardinality(At(S)) \in Nat /\ Cardinality(At(S)') \in Nat
         /\ pc[t] \in S => 1 <= Cardinality(At(S))
         /\ Cardinality(At(S)') = Cardinality(At(S)) + d
<1>1. \A u \in Threads : u # t => pc'[u] = pc[u]
  BY OthersStay
<1> PICK p, q : p = pc /\ q = pc'
  OBVIOUS
<1>2. \A u \in Threads : u # t => q[u] = p[u]
  BY <1>1
<1>3. At(S) = AtIn(p, S) /\ At(S)' = AtIn(q, S)
  BY DEF At, AtIn
<1>4. /\ Cardinality(AtIn(p, S)) \in Nat /\ Cardinality(AtIn(q, S)) \in Nat
      /\ p[t] \in S => 1 <= Cardinality(AtIn(p, S))
      /\ p[t] \in S /\ q[t] \in S => Cardinality(AtIn(q, S)) = Cardinality(AtIn(p, S))
      /\ p[t] \notin S /\ q[t] \notin S => Cardinality(AtIn(q, S)) = Cardinality(AtIn(p, S))
      /\ p[t] \in S /\ q[t] \notin S => Cardinality(AtIn(q, S)) = Cardinality(AtIn(p, S)) - 1
      /\ p[t] \notin S /\ q[t] \in S => Cardinality(AtIn(q, S)) = Cardinality(AtIn(p, S)) + 1
  BY <1>2, Moved
<1>5. Shift(S, p[t], q[t], d)
  OBVIOUS
<1>6. Cardinality(AtIn(q, S)) = Cardinality(AtIn(p, S)) + d
  <2>1. CASE d = 0 /\ (p[t] \in S <=> q[t] \in S)
    BY <1>4, <2>1
  <2>2. CASE d = -1 /\ p[t] \in S /\ q[t] \notin S
    BY <1>4, <2>2
  <2>3. CASE d = 1 /\ p[t] \notin S /\ q[t] \in S
    BY <1>4, <2>3
  <2> QED
    BY <1>5, <2>1, <2>2, <2>3 DEF Shift
<1> QED
  BY <1>3, <1>4, <1>6

LEMMA SomeAre ==
  ASSUME NEW t \in Threads, NEW S, pc[t] \in S
  PROVE  Cardinality(At(S)) \in Nat /\ 1 <= Cardinality(At(S))
<1>1. At(S) \subseteq Threads /\ t \in At(S) /\ IsFiniteSet(Threads)
  BY Sizes DEF At, AtIn
<1>2. IsFiniteSet(At(S)) /\ At(S) # {}
  BY <1>1, FS_Subset
<1>3. Cardinality(At(S)) \in Nat /\ Cardinality(At(S)) # 0
  BY <1>2, FS_CardinalityType, FS_EmptySet
<1> QED
  BY <1>3

\* A Pop that succeeds has the top of the stack and what is in it.
LEMMA TakesFirst ==
  ASSUME IInv, NEW t \in Threads, Takes(t)
  PROVE  /\ Len(stack) # 0 /\ 1 \in 1 .. Len(stack) /\ reg[t].old = stack[1] /\ m_top = stack[1]
         /\ reg[t].msg = data[Addr(stack[1])] /\ reg[t].msg \in 1 .. pushed
         /\ reg[t].new = Linked[2] /\ Addr(stack[1]) \in Nodes
<1>1. Shapes /\ NodesOwned /\ Counts /\ Entered /\ Own(t) /\ Seen(t)
  BY DEF IInv
<1>2. pc[t] = "popCAS" /\ m_top = reg[t].old
  BY DEF Takes, PopCAS
<1>3. Len(stack) \in Nat
  BY <1>1, SizesOf
<1>4. Len(stack) # 0
  <2>1. pc[t] \in Taking
    BY <1>2 DEF Taking, Popping
  <2>3. 1 <= Cardinality(At(Taking)) /\ Cardinality(At(Taking)) \in Nat
    BY <2>1, SomeAre
  <2> QED
    BY <1>1, <1>3, <2>3 DEF Counts
<1>5. 1 \in 1 .. Len(stack) /\ Linked[1] = stack[1] /\ 1 \in DOMAIN stack
  BY <1>1, <1>3, <1>4, LinkedIs
<1>6. m_top = stack[1]
  BY <1>1, <1>5 DEF NodesOwned
<1>7. reg[t].new = _next[Addr(stack[1])] /\ reg[t].msg = data[Addr(stack[1])]
  BY <1>1, <1>2, <1>5, <1>6 DEF Seen
<1>8. _next[Addr(stack[1])] = Linked[2]
  BY <1>1, <1>5 DEF NodesOwned
<1>9. reg[t].msg \in 1 .. pushed
  BY <1>1, <1>5, <1>7 DEF Entered
<1>10. Addr(stack[1]) \in Nodes
  BY <1>1, <1>2, <1>6 DEF Own
<1> QED
  BY <1>2, <1>4, <1>5, <1>6, <1>7, <1>8, <1>9, <1>10

\* The stack after a Push and after a Pop
LEMMA EntersFirst ==
  ASSUME Shapes, NEW t \in Threads, Enters(t)
  PROVE  /\ pc[t] = "pushCAS" /\ pc'[t] = "countPush" /\ UNCHANGED <<memory, free, counts, reg, pushed, taken>>
         /\ m_top = reg[t].old /\ m_top' = reg[t].node /\ reg[t].node \in Ptr
         /\ stack' \in Seq(Ptr) /\ IsOver(stack', reg[t].node, stack)
<1>1. /\ pc[t] = "pushCAS" /\ UNCHANGED <<memory, free, counts, reg, pushed, taken>>
      /\ m_top = reg[t].old /\ m_top' = reg[t].node /\ stack' = <<reg[t].node>> \o stack
      /\ pc' = [pc EXCEPT ![t] = "countPush"]
  BY DEF Enters, PushCAS, Goto
<1>2. reg[t].node \in Ptr /\ stack \in Seq(Ptr) /\ pc'[t] = "countPush"
  BY <1>1 DEF Shapes, Locals
<1> QED
  BY <1>1, <1>2, PutOver

LEMMA TakesOff ==
  ASSUME IInv, NEW t \in Threads, Takes(t)
  PROVE  /\ pc[t] = "popCAS" /\ pc'[t] = "hang" /\ UNCHANGED <<memory, free, counts, pushed>>
         /\ m_top' = reg[t].new /\ reg' = [reg EXCEPT ![t].node = <<0, Addr(reg[t].old)>>]
         /\ stack' \in Seq(Ptr) /\ IsOver(stack, stack[1], stack')
         /\ taken' = Append(taken, reg[t].msg) /\ taken' \in Seq(1 .. MaxPushes)
         /\ Len(taken') = Len(taken) + 1 /\ taken'[Len(taken) + 1] = reg[t].msg
         /\ \A i \in 1 .. Len(taken) : taken'[i] = taken[i]
<1>1. /\ pc[t] = "popCAS" /\ UNCHANGED <<memory, free, counts, pushed>>
      /\ m_top' = reg[t].new /\ reg' = [reg EXCEPT ![t].node = <<0, Addr(reg[t].old)>>]
      /\ stack' = Tail(stack) /\ taken' = Append(taken, reg[t].msg)
      /\ pc' = [pc EXCEPT ![t] = "hang"]
  BY DEF Takes, PopCAS, PopsTop, Goto, Set, counts
<1>2. Shapes
  BY DEF IInv
<1>3. pc'[t] = "hang" /\ stack \in Seq(Ptr) /\ taken \in Seq(1 .. MaxPushes)
  BY <1>1, <1>2 DEF Shapes
<1>4. stack' \in Seq(Ptr) /\ IsOver(stack, stack[1], stack')
  BY <1>1, <1>3, TakesFirst, TakenOff
<1>5. reg[t].msg \in 1 .. MaxPushes
  <2>1. reg[t].msg \in 1 .. pushed /\ pushed \in 0 .. MaxPushes /\ MaxPushes \in Nat
    BY <1>2, TakesFirst, Sizes DEF Shapes
  <2> QED
    BY <2>1
<1>6. /\ taken' \in Seq(1 .. MaxPushes) /\ Len(taken') = Len(taken) + 1
      /\ taken'[Len(taken) + 1] = reg[t].msg /\ \A i \in 1 .. Len(taken) : taken'[i] = taken[i]
  BY <1>1, <1>3, <1>5, AppendProperties
<1> QED
  BY <1>1, <1>3, <1>4, <1>6

-----------------------------------------------------------------------------
(* The types and the counts *)

LEMMA LabelsAre ==
  /\ \A l \in {"idle", "alloc", "fill", "tag", "readTop", "writeNext", "pushCAS", "countPush"} : l \in Labels
  /\ \A l \in {"empty", "popTop", "popNext", "popData", "popCAS", "hang", "release"} : l \in Labels
BY DEF Labels, Holding, Popping

LEMMA TypesAre ==
  ASSUME Shapes, NEW t \in Threads
  PROVE  /\ reg[t].msg \in 0 .. MaxPushes /\ reg[t].node \in Ptr /\ reg[t].old \in Ptr /\ reg[t].new \in Ptr
         /\ \A l \in Labels : [pc EXCEPT ![t] = l] \in [Threads -> Labels]
         /\ \A m \in 0 .. MaxPushes : [reg EXCEPT ![t].msg = m] \in [Threads -> Locals]
         /\ \A p \in Ptr : /\ [reg EXCEPT ![t].node = p] \in [Threads -> Locals]
                           /\ [reg EXCEPT ![t].old = p] \in [Threads -> Locals]
                           /\ [reg EXCEPT ![t].new = p] \in [Threads -> Locals]
                           /\ [reg EXCEPT ![t].old = p, ![t].new = p] \in [Threads -> Locals]
         /\ [reg EXCEPT ![t] = NoLocals] \in [Threads -> Locals]
<1>1. NoLocals \in Locals
  BY Sizes DEF NoLocals, Locals
<1> QED
  BY <1>1 DEF Shapes, Locals

LEMMA PushShapes ==
  ASSUME IInv, NEW t \in Threads, PushStep(t)
  PROVE  Shapes'
<1>1. Shapes /\ Own(t)
  BY DEF IInv
<1>2. CASE CallPush(t)
  <2>1. pushed + 1 \in 0 .. MaxPushes
    BY <1>1, <1>2, Sizes DEF CallPush, Shapes
  <2> QED
    BY <1>1, <1>2, <2>1, TypesAre, LabelsAre DEF CallPush, Shapes, Goto, Set, memory, counts
<1>3. CASE Alloc(t)
  <2>1. PICK n \in free : free' = free \ {n} /\ Set(t, "node", <<0, n>>)
    BY <1>3 DEF Alloc
  <2>2. <<0, n>> \in Ptr
    BY <1>1, <2>1, Sizes, Ptrs DEF Shapes
  <2> QED
    BY <1>1, <1>3, <2>1, <2>2, TypesAre, LabelsAre DEF Alloc, Shapes, Goto, Set, memory, counts, log
<1>4. CASE Fill(t)
  BY <1>1, <1>4, TypesAre, LabelsAre DEF Fill, Shapes, Goto, counts, log
<1>5. CASE TagNode(t)
  <2>1. NewTag(seqNumber) \in 0 .. Tags - 1
    BY <1>1, Sizes DEF NewTag, Shapes
  <2>2. <<NewTag(seqNumber), Addr(reg[t].node)>> \in Ptr
    BY <1>1, <2>1, TypesAre, LabelsAre, Ptrs
  <2> QED
    BY <1>1, <1>5, <2>1, <2>2, TypesAre, LabelsAre DEF TagNode, Shapes, Goto, Set, memory, log
<1>6. CASE ReadTop(t)
  BY <1>1, <1>6, TypesAre, LabelsAre DEF ReadTop, Shapes, Goto, Set, memory, counts, log
<1>7. CASE WriteNext(t)
  BY <1>1, <1>7, TypesAre, LabelsAre DEF WriteNext, Shapes, Goto, counts, log
<1>8. CASE PushCAS(t)
  <2>1. CASE Enters(t)
    <3>1. /\ UNCHANGED <<memory, free, counts, reg, pushed>> /\ m_top' = reg[t].node
          /\ stack' \in Seq(Ptr) /\ reg[t].node \in Ptr
      BY <1>1, <2>1, EntersFirst
    <3>2. pc' = [pc EXCEPT ![t] = "countPush"] /\ taken' = taken
      BY <2>1 DEF Enters, PushCAS, Goto
    <3>3. pc' \in [Threads -> Labels]
      BY <1>1, <3>2, TypesAre, LabelsAre
    <3> QED
      BY <1>1, <3>1, <3>2, <3>3 DEF Shapes, memory, counts
  <2>2. CASE ~Enters(t)
    <3>1. UNCHANGED <<memory, free, m_top, counts, reg, pushed, stack, taken>> /\ pc' = [pc EXCEPT ![t] = "readTop"]
      BY <1>8, <2>2 DEF PushCAS, Enters, Goto
    <3>2. pc' \in [Threads -> Labels]
      BY <1>1, <3>1, TypesAre, LabelsAre
    <3> QED
      BY <1>1, <3>1, <3>2 DEF Shapes, memory, counts
  <2> QED
    BY <2>1, <2>2
<1>9. CASE CountPush(t)
  <2>1. pc' \in [Threads -> Labels] /\ reg' \in [Threads -> Locals] /\ m_size' \in Int
    BY <1>1, <1>9, TypesAre, LabelsAre, SizesOf DEF CountPush, Goto, Return
  <2> QED
    BY <1>1, <1>9, <2>1 DEF CountPush, Shapes, memory, log
<1> QED
  BY <1>2, <1>3, <1>4, <1>5, <1>6, <1>7, <1>8, <1>9 DEF PushStep

LEMMA PopShapes ==
  ASSUME IInv, NEW t \in Threads, PopStep(t)
  PROVE  Shapes'
<1>1. Shapes /\ Own(t)
  BY DEF IInv
<1>2. CASE CallPop(t)
  <2>1. pc' \in [Threads -> Labels] /\ m_size' \in Int
    BY <1>1, <1>2, TypesAre, LabelsAre, SizesOf DEF CallPop, Goto
  <2> QED
    BY <1>1, <1>2, <2>1 DEF CallPop, Shapes, memory, log
<1>3. CASE PopsNothing(t)
  <2>1. pc' \in [Threads -> Labels] /\ reg' \in [Threads -> Locals] /\ m_size' \in Int
    BY <1>1, <1>3, TypesAre, LabelsAre, SizesOf DEF PopsNothing, Goto, Return
  <2> QED
    BY <1>1, <1>3, <2>1 DEF PopsNothing, Shapes, memory, log
<1>4. CASE PopTop(t)
  <2>1. m_top \in Ptr
    BY <1>1 DEF Shapes
  <2>2. CASE m_top = dummy
    <3>1. reg' = [reg EXCEPT ![t].old = m_top, ![t].new = m_top] /\ pc' = [pc EXCEPT ![t] = "popCAS"]
      BY <1>4, <2>2 DEF PopTop, Goto
    <3>2. reg' \in [Threads -> Locals] /\ pc' \in [Threads -> Labels]
      BY <1>1, <2>1, <3>1, TypesAre, LabelsAre
    <3> QED
      BY <1>1, <1>4, <3>2 DEF PopTop, Shapes, memory, counts, log
  <2>3. CASE m_top # dummy
    <3>1. reg' = [reg EXCEPT ![t].old = m_top] /\ pc' = [pc EXCEPT ![t] = "popNext"]
      BY <1>4, <2>3 DEF PopTop, Goto, Set
    <3>2. reg' \in [Threads -> Locals] /\ pc' \in [Threads -> Labels]
      BY <1>1, <2>1, <3>1, TypesAre, LabelsAre
    <3> QED
      BY <1>1, <1>4, <3>2 DEF PopTop, Shapes, memory, counts, log
  <2> QED
    BY <2>2, <2>3
<1>5. CASE PopNext(t)
  <2>1. _next[Addr(reg[t].old)] \in Ptr
    BY <1>1, <1>5 DEF PopNext, Own, Shapes
  <2> QED
    BY <1>1, <1>5, <2>1, TypesAre, LabelsAre DEF PopNext, Shapes, Goto, Set, memory, counts, log
<1>6. CASE PopData(t)
  <2>1. data[Addr(reg[t].old)] \in 0 .. MaxPushes
    BY <1>1, <1>6 DEF PopData, Own, Shapes
  <2> QED
    BY <1>1, <1>6, <2>1, TypesAre, LabelsAre DEF PopData, Shapes, Goto, Set, memory, counts, log
<1>7. CASE PopCAS(t)
  <2>1. CASE Takes(t)
    <3>1. <<0, Addr(reg[t].old)>> \in Ptr
      BY <1>1, TypesAre, LabelsAre, Ptrs, Sizes
    <3>2. /\ UNCHANGED <<memory, free, counts, pushed>> /\ m_top' = reg[t].new
          /\ reg' = [reg EXCEPT ![t].node = <<0, Addr(reg[t].old)>>]
          /\ stack' \in Seq(Ptr) /\ taken' \in Seq(1 .. MaxPushes)
      BY <2>1, TakesOff
    <3>3. pc' = [pc EXCEPT ![t] = "hang"]
      BY <2>1 DEF Takes, PopCAS, PopsTop, Goto
    <3>4. pc' \in [Threads -> Labels] /\ reg' \in [Threads -> Locals] /\ m_top' \in Ptr
      BY <1>1, <3>1, <3>2, <3>3, TypesAre, LabelsAre DEF Labels, Holding
    <3> QED
      BY <1>1, <3>2, <3>4 DEF Shapes, memory, counts
  <2>2. CASE ~Takes(t)
    <3>1. /\ UNCHANGED <<memory, free, m_top, seqNumber, m_size, reg, pushed, stack, taken>>
          /\ pc' = [pc EXCEPT ![t] = "popTop"]
      BY <1>7, <2>2 DEF PopCAS, PopsAgain, Takes, Goto
    <3>2. pc' \in [Threads -> Labels]
      BY <1>1, <3>1, TypesAre, LabelsAre
    <3> QED
      BY <1>1, <3>1, <3>2 DEF Shapes, memory
  <2> QED
    BY <2>1, <2>2
<1>8. CASE Hang(t)
  <2>1. PICK n \in (Nodes \ {Bottom}) \cup {Null} : _next' = [_next EXCEPT ![Addr(reg[t].node)] = <<0, n>>]
    BY <1>8 DEF Hang
  <2>2. <<0, n>> \in Ptr
    BY <1>1, <2>1, Sizes, Ptrs DEF Shapes
  <2> QED
    BY <1>1, <1>8, <2>1, <2>2, TypesAre, LabelsAre DEF Hang, Shapes, Goto, counts, log
<1>9. CASE Release(t)
  BY <1>1, <1>9, TypesAre, LabelsAre DEF Release, Shapes, Goto, Return, memory, counts, log, Own, Held, Holding
<1> QED
  BY <1>2, <1>3, <1>4, <1>5, <1>6, <1>7, <1>8, <1>9 DEF PopStep

LEMMA SizesNext ==
  ASSUME Shapes'
  PROVE  Len(stack') \in Nat /\ Len(taken') \in Nat /\ m_size' \in Int /\ seqNumber' \in Nat /\ pushed' \in Nat
BY Sizes DEF Shapes

\* Counts, for what a step does to each of its numbers
LEMMA SizeMoves ==
  ASSUME Shapes, Counts, NEW t \in Threads, Step(t), Shapes',
         NEW a \in -1 .. 1, Shift(Owing, pc[t], pc'[t], a),
         m_size' = m_size + Len(stack') - Len(stack) - a
  PROVE  m_size' = Len(stack') - Cardinality(At(Owing)')
<1>1. /\ Cardinality(At(Owing)) \in Nat /\ Cardinality(At(Owing)') \in Nat
      /\ Cardinality(At(Owing)') = Cardinality(At(Owing)) + a
  BY CountsMove
<1>2. m_size = Len(stack) - Cardinality(At(Owing))
  BY DEF Counts
<1>3. Len(stack) \in Nat /\ m_size \in Int /\ Len(stack') \in Nat /\ m_size' \in Int
  BY SizesOf, SizesNext
<1> QED
  BY <1>1, <1>2, <1>3

LEMMA TagMoves ==
  ASSUME Shapes, Counts, NEW t \in Threads, Step(t), Shapes',
         NEW c \in -1 .. 1, Shift(Untagged, pc[t], pc'[t], c),
         seqNumber' = seqNumber + pushed' - pushed - c
  PROVE  seqNumber' + Cardinality(At(Untagged)') = pushed'
<1>1. /\ Cardinality(At(Untagged)) \in Nat /\ Cardinality(At(Untagged)') \in Nat
      /\ Cardinality(At(Untagged)') = Cardinality(At(Untagged)) + c
  BY CountsMove
<1>2. seqNumber + Cardinality(At(Untagged)) = pushed
  BY DEF Counts
<1>3. seqNumber \in Nat /\ seqNumber' \in Nat /\ pushed \in Nat /\ pushed' \in Nat
  BY SizesOf, SizesNext
<1> QED
  BY <1>1, <1>2, <1>3

LEMMA PushMoves ==
  ASSUME Shapes, Counts, NEW t \in Threads, Step(t), Shapes',
         NEW d \in -1 .. 1, Shift(Pushing, pc[t], pc'[t], d),
         Len(stack') + Len(taken') = Len(stack) + Len(taken) + pushed' - pushed - d
  PROVE  Len(stack') + Len(taken') + Cardinality(At(Pushing)') = pushed'
<1>1. /\ Cardinality(At(Pushing)) \in Nat /\ Cardinality(At(Pushing)') \in Nat
      /\ Cardinality(At(Pushing)') = Cardinality(At(Pushing)) + d
  BY CountsMove
<1>2. Len(stack) + Len(taken) + Cardinality(At(Pushing)) = pushed
  BY DEF Counts
<1>3. /\ Len(stack) + Len(taken) \in Nat /\ Len(stack') + Len(taken') \in Nat
      /\ pushed \in Nat /\ pushed' \in Nat
  BY SizesOf, SizesNext
<1>4. PICK x \in Nat, y \in Nat : x = Len(stack) + Len(taken) /\ y = Len(stack') + Len(taken')
  BY <1>3
<1>5. PICK c \in Nat, e \in Nat : c = Cardinality(At(Pushing)) /\ e = Cardinality(At(Pushing)')
  BY <1>1
<1>6. PICK p \in Nat, q \in Nat : p = pushed /\ q = pushed'
  BY <1>3
<1>7. e = c + d
  BY <1>1, <1>5
<1>8. x + c = p
  BY <1>2, <1>4, <1>5, <1>6
<1>9. y = x + q - p - d
  BY <1>4, <1>6
<1>10. y + e = q
  BY <1>7, <1>8, <1>9
<1> QED
  BY <1>4, <1>5, <1>6, <1>10

LEMMA CountsStep ==
  ASSUME IInv, NEW t \in Threads, Step(t), Shapes',
         NEW a \in -1 .. 1, Shift(Owing, pc[t], pc'[t], a),
         NEW b \in -1 .. 1, Shift(Taking, pc[t], pc'[t], b),
         NEW c \in -1 .. 1, Shift(Untagged, pc[t], pc'[t], c),
         NEW d \in -1 .. 1, Shift(Pushing, pc[t], pc'[t], d),
         m_size' = m_size + Len(stack') - Len(stack) - a,
         Cardinality(At(Taking)) + b <= Len(stack'),
         seqNumber' = seqNumber + pushed' - pushed - c,
         Len(stack') + Len(taken') = Len(stack) + Len(taken) + pushed' - pushed - d
  PROVE  Counts'
<1>1. Shapes /\ Counts
  BY DEF IInv
<1>2. m_size' = Len(stack') - Cardinality(At(Owing)')
  BY <1>1, SizeMoves
<1>3. Cardinality(At(Taking)') <= Len(stack')
  <2>1. Cardinality(At(Taking)') = Cardinality(At(Taking)) + b
    BY <1>1, CountsMove
  <2> QED
    BY <2>1
<1>4. seqNumber' + Cardinality(At(Untagged)') = pushed'
  BY <1>1, TagMoves
<1>5. Len(stack') + Len(taken') + Cardinality(At(Pushing)') = pushed'
  BY <1>1, PushMoves
<1> QED
  BY <1>2, <1>3, <1>4, <1>5 DEF Counts

\* seqNumber does not come back to a tag.
LEMMA TagsLast ==
  ASSUME IInv, NEW t \in Threads, TagNode(t)
  PROVE  seqNumber' = seqNumber + 1
<1>1. Shapes /\ Counts
  BY DEF IInv
<1>2. pc[t] \in Untagged
  BY DEF TagNode, Untagged
<1>3. 1 <= Cardinality(At(Untagged)) /\ Cardinality(At(Untagged)) \in Nat
  BY <1>2, SomeAre
<1>4. seqNumber + Cardinality(At(Untagged)) = pushed /\ pushed <= MaxPushes
  BY <1>1, Sizes DEF Counts, Shapes
<1>5. seqNumber \in Nat /\ seqNumber + 1 < Tags
  BY <1>1, <1>3, <1>4, SizesOf, Sizes
<1>6. (seqNumber + 1) % Tags = seqNumber + 1
  BY <1>5, Sizes
<1> QED
  BY <1>6 DEF TagNode, NewTag

LEMMA CountsKept ==
  ASSUME IInv, NEW t \in Threads, Step(t), Shapes'
  PROVE  Counts'
<1>1. Shapes /\ Counts /\ pc \in [Threads -> Labels]
  BY DEF IInv, Shapes
<1>2. Len(stack) \in Nat /\ Len(taken) \in Nat /\ m_size \in Int /\ seqNumber \in Nat /\ pushed \in Nat
  BY <1>1, SizesOf
<1>3. Cardinality(At(Taking)) \in Nat /\ Cardinality(At(Taking)) <= Len(stack)
  <2>1. At(Taking) \subseteq Threads /\ IsFiniteSet(Threads)
    BY Sizes DEF At, AtIn
  <2> QED
    BY <1>1, <2>1, FS_Subset, FS_CardinalityType DEF Counts
\* What a step from label l to label m does to the numbers
<1> DEFINE Goes(a, b, c, d) == /\ Shift(Owing, pc[t], pc'[t], a) /\ Shift(Taking, pc[t], pc'[t], b)
                               /\ Shift(Untagged, pc[t], pc'[t], c) /\ Shift(Pushing, pc[t], pc'[t], d)
<1>4. ASSUME NEW a \in -1 .. 1, NEW b \in -1 .. 1, NEW c \in -1 .. 1, NEW d \in -1 .. 1, Goes(a, b, c, d),
             m_size' = m_size + Len(stack') - Len(stack) - a,
             Cardinality(At(Taking)) + b <= Len(stack'),
             seqNumber' = seqNumber + pushed' - pushed - c,
             Len(stack') + Len(taken') = Len(stack) + Len(taken) + pushed' - pushed - d
      PROVE  Counts'
  BY <1>4, CountsStep
<1>5. CASE Enters(t)
  <2>1. /\ pc[t] = "pushCAS" /\ pc'[t] = "countPush" /\ UNCHANGED <<m_size, seqNumber, pushed, taken>>
        /\ Len(stack') = Len(stack) + 1
    BY <1>1, <1>5, EntersFirst DEF IsOver, counts
  <2>2. Goes(1, 1, 0, -1)
    BY <2>1 DEF Shift, Owing, Taking, Untagged, Pushing, Popping
  <2> HIDE DEF Goes
  <2> QED
    BY <1>2, <1>3, <1>4, <2>1, <2>2
<1>6. CASE Takes(t)
  <2>1. /\ pc[t] = "popCAS" /\ pc'[t] = "hang" /\ UNCHANGED <<m_size, seqNumber, pushed>>
        /\ Len(stack) = Len(stack') + 1 /\ Len(taken') = Len(taken) + 1 /\ stack' \in Seq(Ptr)
    BY <1>6, TakesOff DEF IsOver, counts
  <2>2. Len(stack') \in Nat
    BY <2>1
  <2>3. Goes(-1, -1, 0, 0)
    BY <2>1 DEF Shift, Owing, Taking, Untagged, Pushing, Popping
  <2> HIDE DEF Goes
  <2> QED
    BY <1>2, <1>3, <1>4, <2>1, <2>2, <2>3
<1>7. CASE Quiet
  <2>1. Len(stack') = Len(stack) /\ Len(taken') = Len(taken)
    BY <1>7 DEF Quiet
  <2>2. CASE CallPop(t)
    <3>1. /\ pc[t] = "idle" /\ m_size' = m_size - 1 /\ UNCHANGED <<seqNumber, pushed>>
          /\ pc'[t] = IF m_size - 1 < 0 THEN "empty" ELSE "popTop"
      BY <1>1, <2>2 DEF CallPop, Goto, log
    <3>2. CASE m_size - 1 < 0
      <4>1. Goes(1, 0, 0, 0)
        BY <3>1, <3>2 DEF Shift, Owing, Taking, Untagged, Pushing, Popping
      <4> HIDE DEF Goes
      <4> QED
        BY <1>2, <1>3, <1>4, <2>1, <3>1, <4>1
    <3>3. CASE ~(m_size - 1 < 0)
      <4>1. Goes(1, 1, 0, 0)
        BY <3>1, <3>3 DEF Shift, Owing, Taking, Untagged, Pushing, Popping
      <4>2. Cardinality(At(Taking)) <= Cardinality(At(Owing)) /\ Cardinality(At(Owing)) \in Nat
        <5>1. At(Owing) \subseteq Threads /\ At(Taking) \subseteq At(Owing) /\ IsFiniteSet(Threads)
          BY Sizes DEF At, AtIn, Owing
        <5>2. IsFiniteSet(At(Owing))
          BY <5>1, FS_Subset
        <5> QED
          BY <5>1, <5>2, FS_Subset, FS_CardinalityType
      <4>3. m_size = Len(stack) - Cardinality(At(Owing))
        BY <1>1 DEF Counts
      <4>4. Cardinality(At(Taking)) + 1 <= Len(stack')
        BY <1>2, <1>3, <2>1, <3>3, <4>2, <4>3
      <4> HIDE DEF Goes
      <4> QED
        BY <1>2, <1>4, <2>1, <3>1, <4>1, <4>4
    <3> QED
      BY <3>2, <3>3
  <2>3. CASE CountPush(t)
    <3>1. pc[t] = "countPush" /\ pc'[t] = "idle" /\ m_size' = m_size + 1 /\ UNCHANGED <<seqNumber, pushed>>
      BY <1>1, <2>3 DEF CountPush, Return, Goto, log
    <3>2. Goes(-1, -1, 0, 0)
      BY <3>1 DEF Shift, Owing, Taking, Untagged, Pushing, Popping
    <3> HIDE DEF Goes
    <3> QED
      BY <1>2, <1>3, <1>4, <2>1, <3>1, <3>2
  <2>4. CASE PopsNothing(t)
    <3>1. pc[t] = "empty" /\ pc'[t] = "idle" /\ m_size' = m_size + 1 /\ UNCHANGED <<seqNumber, pushed>>
      BY <1>1, <2>4 DEF PopsNothing, Return, Goto, log
    <3>2. Goes(-1, 0, 0, 0)
      BY <3>1 DEF Shift, Owing, Taking, Untagged, Pushing, Popping
    <3> HIDE DEF Goes
    <3> QED
      BY <1>2, <1>3, <1>4, <2>1, <3>1, <3>2
  <2>5. CASE CallPush(t)
    <3>1. pc[t] = "idle" /\ pc'[t] = "alloc" /\ pushed' = pushed + 1 /\ UNCHANGED <<m_size, seqNumber>>
      BY <1>1, <2>5 DEF CallPush, Goto, counts
    <3>2. Goes(0, 0, 1, 1)
      BY <3>1 DEF Shift, Owing, Taking, Untagged, Pushing, Popping
    <3> HIDE DEF Goes
    <3> QED
      BY <1>2, <1>3, <1>4, <2>1, <3>1, <3>2
  <2>6. CASE TagNode(t)
    <3>1. pc[t] = "tag" /\ pc'[t] = "readTop" /\ seqNumber' = seqNumber + 1 /\ UNCHANGED <<m_size, pushed>>
      BY <1>1, <2>6, TagsLast DEF TagNode, Goto, log
    <3>2. Goes(0, 0, -1, 0)
      BY <3>1 DEF Shift, Owing, Taking, Untagged, Pushing, Popping
    <3> HIDE DEF Goes
    <3> QED
      BY <1>2, <1>3, <1>4, <2>1, <3>1, <3>2
  <2>7. ASSUME UNCHANGED <<m_size, seqNumber, pushed>>, Goes(0, 0, 0, 0) PROVE Counts'
    <3> HIDE DEF Goes
    <3> QED
      BY <1>2, <1>3, <1>4, <2>1, <2>7
  <2>8. CASE Alloc(t) \/ Fill(t) \/ ReadTop(t) \/ WriteNext(t) \/ PushCAS(t)
    <3>1. UNCHANGED <<m_size, seqNumber, pushed>>
      BY <2>8 DEF Alloc, Fill, ReadTop, WriteNext, PushCAS, counts, log
    <3>2. \/ pc[t] \in {"alloc", "fill"} /\ pc'[t] \in {"fill", "tag"}
          \/ pc[t] \in Ready /\ pc'[t] \in Ready
          \/ Enters(t)
      BY <1>1, <2>8 DEF Alloc, Fill, ReadTop, WriteNext, PushCAS, Enters, Goto, Ready
    <3>3. Goes(0, 0, 0, 0) \/ Enters(t)
      BY <3>2 DEF Shift, Owing, Taking, Untagged, Pushing, Popping, Ready
    <3> QED
      BY <1>5, <2>7, <3>1, <3>3
  <2>9. CASE PopTop(t) \/ PopNext(t) \/ PopData(t) \/ PopCAS(t) \/ Hang(t) \/ Release(t)
    <3>1. UNCHANGED <<m_size, seqNumber, pushed>>
      BY <2>9 DEF PopTop, PopNext, PopData, PopCAS, PopsTop, PopsAgain, Hang, Release, counts, log
    <3>2. \/ pc[t] \in Popping /\ pc'[t] \in Popping
          \/ pc[t] \in {"hang", "release"} /\ pc'[t] \in {"release", "idle"}
          \/ Takes(t)
      BY <1>1, <2>9
         DEF PopTop, PopNext, PopData, PopCAS, PopsAgain, Hang, Release, Return, Takes, Goto, Popping
    <3>3. Goes(0, 0, 0, 0) \/ Takes(t)
      BY <3>2 DEF Shift, Owing, Taking, Untagged, Pushing, Popping
    <3> QED
      BY <1>6, <2>7, <3>1, <3>3
  <2> QED
    BY <2>2, <2>3, <2>4, <2>5, <2>6, <2>8, <2>9 DEF Step, PushStep, PopStep
<1> QED
  BY <1>5, <1>6, <1>7, Kinds

LEMMA ShapesKept ==
  ASSUME IInv, NEW t \in Threads, Step(t)
  PROVE  Shapes'
BY PushShapes, PopShapes DEF Step

-----------------------------------------------------------------------------
(* The places of the nodes, for a list of pointers *)

OnIn(L, n)  == \E i \in 1 .. Len(L) : Addr(L[i]) = n
Distinct(L) == \A i, j \in 1 .. Len(L) : Addr(L[i]) = Addr(L[j]) => i = j

\* A list with one pointer more in front of it
LEMMA OnOver ==
  ASSUME NEW r, NEW p, NEW s, Len(s) \in Nat, IsOver(r, p, s), NEW n
  PROVE  OnIn(r, n) <=> n = Addr(p) \/ OnIn(s, n)
<1>1. /\ 1 \in 1 .. Len(r) /\ r[1] = p
      /\ \A i \in 1 .. Len(s) : i + 1 \in 1 .. Len(r) /\ r[i + 1] = s[i]
      /\ \A j \in 1 .. Len(r) : j = 1 \/ (j - 1 \in 1 .. Len(s) /\ r[j] = s[j - 1])
  BY Over
<1>2. ASSUME OnIn(r, n) PROVE n = Addr(p) \/ OnIn(s, n)
  <2>1. PICK j \in 1 .. Len(r) : Addr(r[j]) = n
    BY <1>2 DEF OnIn
  <2> QED
    BY <1>1, <2>1 DEF OnIn
<1>3. ASSUME n = Addr(p) PROVE OnIn(r, n)
  BY <1>1, <1>3 DEF OnIn
<1>4. ASSUME OnIn(s, n) PROVE OnIn(r, n)
  <2>1. PICK i \in 1 .. Len(s) : Addr(s[i]) = n
    BY <1>4 DEF OnIn
  <2> QED
    BY <1>1, <2>1 DEF OnIn
<1> QED
  BY <1>2, <1>3, <1>4

LEMMA DistinctOver ==
  ASSUME NEW r, NEW p, NEW s, Len(s) \in Nat, IsOver(r, p, s)
  PROVE  /\ Distinct(s) /\ ~OnIn(s, Addr(p)) => Distinct(r)
         /\ Distinct(r) => Distinct(s) /\ ~OnIn(s, Addr(p))
<1>1. /\ 1 \in 1 .. Len(r) /\ r[1] = p
      /\ \A i \in 1 .. Len(s) : i + 1 \in 1 .. Len(r) /\ r[i + 1] = s[i]
      /\ \A j \in 1 .. Len(r) : j = 1 \/ (j - 1 \in 1 .. Len(s) /\ r[j] = s[j - 1])
  BY Over
<1>2. ASSUME Distinct(s), ~OnIn(s, Addr(p)), NEW i \in 1 .. Len(r), NEW j \in 1 .. Len(r), Addr(r[i]) = Addr(r[j])
      PROVE  i = j
  <2>1. ASSUME NEW k \in 1 .. Len(r), k # 1 PROVE Addr(r[k]) # Addr(p)
    BY <1>1, <1>2, <2>1 DEF OnIn
  <2>2. CASE i = 1 \/ j = 1
    BY <1>1, <1>2, <2>1, <2>2
  <2>3. CASE i # 1 /\ j # 1
    <3>1. i - 1 \in 1 .. Len(s) /\ j - 1 \in 1 .. Len(s) /\ Addr(s[i - 1]) = Addr(s[j - 1])
      BY <1>1, <1>2, <2>3
    <3>2. i - 1 = j - 1
      BY <1>2, <3>1 DEF Distinct
    <3> QED
      BY <3>2
  <2> QED
    BY <2>2, <2>3
<1>3. ASSUME Distinct(r), NEW i \in 1 .. Len(s), NEW j \in 1 .. Len(s), Addr(s[i]) = Addr(s[j])
      PROVE  i = j
  <2>1. /\ i + 1 \in 1 .. Len(r) /\ j + 1 \in 1 .. Len(r)
        /\ r[i + 1] = s[i] /\ r[j + 1] = s[j]
    BY <1>1, <1>3
  <2>2. i + 1 = j + 1
    BY <1>3, <2>1 DEF Distinct
  <2> QED
    BY <2>2
<1>4. ASSUME Distinct(r), OnIn(s, Addr(p)) PROVE FALSE
  <2>1. PICK i \in 1 .. Len(s) : Addr(s[i]) = Addr(p)
    BY <1>4 DEF OnIn
  <2>2. i + 1 = 1
    BY <1>1, <1>4, <2>1 DEF Distinct
  <2> QED
    BY <2>2
<1> QED
  BY <1>2, <1>3, <1>4 DEF Distinct

LEMMA BottomUnder ==
  ASSUME NEW r \in Seq(Ptr), NEW p, NEW s \in Seq(Ptr), IsOver(r, p, s)
  PROVE  IsOver(Append(r, dummy), p, Append(s, dummy))
<1>1. /\ Len(s) \in Nat /\ \A i \in 1 .. Len(s) : Append(s, dummy)[i] = s[i]
      /\ Append(s, dummy)[Len(s) + 1] = dummy
      /\ Len(r) \in Nat /\ \A i \in 1 .. Len(r) : Append(r, dummy)[i] = r[i]
      /\ Append(r, dummy)[Len(r) + 1] = dummy
  BY LinkedOf
<1>2. Len(Append(r, dummy)) = Len(r) + 1 /\ Len(Append(s, dummy)) = Len(s) + 1
  BY Sizes, AppendProperties
<1>3. /\ 1 \in 1 .. Len(r) /\ r[1] = p /\ Len(r) = Len(s) + 1
      /\ \A i \in 1 .. Len(s) : i + 1 \in 1 .. Len(r) /\ r[i + 1] = s[i]
  BY <1>1, Over DEF IsOver
<1>4. ASSUME NEW i \in 1 .. Len(s) + 1 PROVE Append(r, dummy)[i + 1] = Append(s, dummy)[i]
  <2>1. CASE i = Len(s) + 1
    BY <1>1, <1>3, <2>1
  <2>2. CASE i # Len(s) + 1
    <3>1. i \in 1 .. Len(s)
      BY <1>1, <2>2
    <3> QED
      BY <1>1, <1>3, <3>1
  <2> QED
    BY <2>1, <2>2
<1>5. Append(r, dummy)[1] = p
  BY <1>1, <1>3
<1> QED
  BY <1>2, <1>3, <1>4, <1>5 DEF IsOver

\* NodesOwned, in these terms
Holds(t) == pc[t] \in Holding

Places ==
  /\ Distinct(Linked)
  /\ \A n \in Nodes : n \in free \/ OnIn(Linked, n) \/ \E t \in Threads : Holds(t) /\ Held(t) = n
  /\ \A n \in free : ~OnIn(Linked, n)
  /\ \A t \in Threads : Holds(t) => Held(t) \notin free /\ ~OnIn(Linked, Held(t))
  /\ \A t, u \in Threads : t # u /\ Holds(t) /\ Holds(u) => Held(t) # Held(u)

LEMMA LengthIs ==
  ASSUME Shapes
  PROVE  Len(Linked) = Len(stack) + 1 /\ DOMAIN Linked = 1 .. Len(Linked) /\ Len(Linked) \in Nat
<1>1. stack \in Seq(Ptr) /\ dummy \in Ptr
  BY Sizes DEF Shapes
<1> QED
  BY <1>1 DEF Linked

LEMMA PlacesAre ==
  ASSUME Shapes
  PROVE  OnePlace <=> Places
<1>1. \A n : On(n) <=> OnIn(Linked, n)
  BY LengthIs DEF On, OnIn
<1>2. (\A i, j \in DOMAIN Linked : Addr(Linked[i]) = Addr(Linked[j]) => i = j) <=> Distinct(Linked)
  BY LengthIs DEF Distinct
<1> QED
  BY <1>1, <1>2, Zenon DEF OnePlace, Places, Holds

LEMMA LengthNext ==
  ASSUME Shapes'
  PROVE  Len(Linked') = Len(stack') + 1 /\ DOMAIN Linked' = 1 .. Len(Linked') /\ Len(Linked') \in Nat
<1>1. stack' \in Seq(Ptr) /\ dummy \in Ptr
  BY Sizes DEF Shapes
<1> QED
  BY <1>1 DEF Linked

LEMMA PlacesNext ==
  ASSUME Shapes'
  PROVE  OnePlace' <=> Places'
<1>1. \A n : On(n)' <=> OnIn(Linked', n)
  BY LengthNext DEF On, OnIn
<1>2. (\A i, j \in DOMAIN Linked' : Addr(Linked'[i]) = Addr(Linked'[j]) => i = j) <=> Distinct(Linked')
  BY LengthNext DEF Distinct
<1> QED
  BY <1>1, <1>2, Zenon DEF OnePlace, Places, Holds

LEMMA StacksOver ==
  ASSUME Shapes, Shapes', NEW p
  PROVE  /\ IsOver(stack', p, stack) => IsOver(Linked', p, Linked)
         /\ IsOver(stack, p, stack') => IsOver(Linked, p, Linked')
<1>1. stack \in Seq(Ptr) /\ stack' \in Seq(Ptr)
  BY DEF Shapes
<1> QED
  BY <1>1, BottomUnder DEF Linked

-----------------------------------------------------------------------------
(* Who has which node after a step *)

LEMMA OthersHold ==
  ASSUME Shapes, NEW t \in Threads, Step(t), NEW u \in Threads, u # t
  PROVE  (Holds(u)' <=> Holds(u)) /\ Held(u)' = Held(u)
BY OthersStay DEF Holds, Held

LEMMA QuietHolds ==
  ASSUME IInv, NEW t \in Threads, Step(t), Quiet, ~Alloc(t), ~Release(t)
  PROVE  free' = free /\ (Holds(t)' <=> Holds(t)) /\ (Holds(t) => Held(t)' = Held(t))
<1>1. Shapes /\ pc \in [Threads -> Labels] /\ reg \in [Threads -> Locals]
  BY DEF IInv, Shapes
<1>2. CASE TagNode(t)
  <2>1. pc[t] = "tag" /\ pc'[t] = "readTop" /\ free' = free /\ reg'[t].node = <<seqNumber', Addr(reg[t].node)>>
    BY <1>1, <1>2 DEF TagNode, Goto, Set, Locals
  <2>2. Addr(reg'[t].node) = Addr(reg[t].node)
    BY <2>1 DEF Addr
  <2> QED
    BY <2>1, <2>2 DEF Holds, Held, Holding
<1>3. CASE CallPush(t) \/ Fill(t) \/ ReadTop(t) \/ WriteNext(t) \/ PushCAS(t) \/ CountPush(t)
  <2>1. free' = free
    BY <1>3 DEF CallPush, Fill, ReadTop, WriteNext, PushCAS, CountPush
  <2>2. \/ pc[t] \in {"fill", "readTop", "writeNext", "pushCAS"} /\ reg'[t].node = reg[t].node
           /\ (pc'[t] \in {"tag", "readTop", "writeNext", "pushCAS"} \/ Enters(t))
        \/ pc[t] \in {"idle", "countPush"} /\ pc'[t] \in {"alloc", "idle"}
    BY <1>1, <1>3
       DEF CallPush, Fill, ReadTop, WriteNext, PushCAS, CountPush, Enters, Goto, Set, Return, Locals
  <2>3. ~Enters(t)
    <3>1. CASE Enters(t)
      <4>1. Len(stack') = Len(stack) + 1 /\ Len(stack) \in Nat /\ stack' = stack
        BY <1>1, <3>1, EntersFirst, SizesOf DEF IsOver, Quiet
      <4> QED
        BY <4>1
    <3> QED
      BY <3>1
  <2> QED
    BY <2>1, <2>2, <2>3 DEF Holds, Held, Holding
<1>4. CASE CallPop(t) \/ PopsNothing(t) \/ PopTop(t) \/ PopNext(t) \/ PopData(t) \/ PopCAS(t) \/ Hang(t)
  <2>1. free' = free
    BY <1>4 DEF CallPop, PopsNothing, PopTop, PopNext, PopData, PopCAS, Hang
  <2>2. ~Takes(t)
    <3>1. CASE Takes(t)
      <4>1. Len(stack) = Len(stack') + 1 /\ Len(stack) \in Nat /\ stack' = stack
        BY <1>1, <3>1, TakesOff, SizesOf DEF IsOver, Quiet
      <4> QED
        BY <4>1
    <3> QED
      BY <3>1
  <2>3. \/ pc[t] \in {"idle", "empty"} \cup Popping /\ pc'[t] \in {"idle", "empty"} \cup Popping
        \/ pc[t] \in {"hang", "release"} /\ pc'[t] = "release" /\ reg'[t].node = reg[t].node
    BY <1>1, <1>4, <2>2
       DEF CallPop, PopsNothing, PopTop, PopNext, PopData, PopCAS, PopsAgain, Hang, Takes, Goto, Set, Return, Popping
  <2> QED
    BY <2>1, <2>3 DEF Holds, Held, Holding, Popping
<1> QED
  BY <1>2, <1>3, <1>4 DEF Step, PushStep, PopStep

LEMMA PlacesStay ==
  ASSUME Places, Shapes, NEW t \in Threads, Step(t), UNCHANGED stack, free' = free,
         Holds(t)' <=> Holds(t), Holds(t) => Held(t)' = Held(t)
  PROVE  Places'
<1>1. \A u \in Threads : (Holds(u)' <=> Holds(u)) /\ (Holds(u) => Held(u)' = Held(u))
  BY OthersHold
<1>2. Linked' = Linked
  BY DEF Linked
<1>3. Distinct(Linked)'
  BY <1>2 DEF Places, Distinct
<1>4. \A n : OnIn(Linked, n)' <=> OnIn(Linked, n)
  BY <1>2 DEF OnIn
<1>5. (\A n \in Nodes : n \in free \/ OnIn(Linked, n) \/ \E u \in Threads : Holds(u) /\ Held(u) = n)'
  BY <1>1, <1>4 DEF Places
<1>6. (\A n \in free : ~OnIn(Linked, n))'
  BY <1>4 DEF Places
<1>7. (\A u \in Threads : Holds(u) => Held(u) \notin free /\ ~OnIn(Linked, Held(u)))'
  BY <1>1, <1>4 DEF Places
<1>8. (\A u, v \in Threads : u # v /\ Holds(u) /\ Holds(v) => Held(u) # Held(v))'
  BY <1>1 DEF Places
<1> QED
  BY <1>3, <1>5, <1>6, <1>7, <1>8 DEF Places

LEMMA PlacesAlloc ==
  ASSUME Places, Shapes, NEW t \in Threads, Alloc(t)
  PROVE  Places'
<1>0. Step(t)
  BY DEF Step, PushStep
<1>1. PICK n \in free : free' = free \ {n} /\ reg' = [reg EXCEPT ![t].node = <<0, n>>]
  BY DEF Alloc, Set
<1>2. ~Holds(t) /\ Holds(t)' /\ Held(t)' = n /\ stack' = stack
  BY <1>1 DEF Alloc, Goto, Holds, Held, Holding, Addr, Shapes, Locals, log
<1>3. \A u \in Threads : u # t => (Holds(u)' <=> Holds(u)) /\ Held(u)' = Held(u)
  BY <1>0, OthersHold
<1>4. Distinct(Linked)' /\ \A m : OnIn(Linked, m)' <=> OnIn(Linked, m)
  BY <1>2 DEF Places, Distinct, Linked, OnIn
<1>5. (\A m \in Nodes : m \in free \/ OnIn(Linked, m) \/ \E u \in Threads : Holds(u) /\ Held(u) = m)'
  BY <1>1, <1>2, <1>3, <1>4 DEF Places
<1>6. (\A m \in free : ~OnIn(Linked, m))'
  BY <1>1, <1>4 DEF Places
<1>7. (\A u \in Threads : Holds(u) => Held(u) \notin free /\ ~OnIn(Linked, Held(u)))'
  BY <1>1, <1>2, <1>3, <1>4 DEF Places
<1>8. (\A u, v \in Threads : u # v /\ Holds(u) /\ Holds(v) => Held(u) # Held(v))'
  BY <1>1, <1>2, <1>3 DEF Places
<1> QED
  BY <1>4, <1>5, <1>6, <1>7, <1>8 DEF Places

LEMMA PlacesRelease ==
  ASSUME Places, Shapes, NEW t \in Threads, Release(t)
  PROVE  Places'
<1>0. Step(t)
  BY DEF Step, PopStep
<1>2. Holds(t) /\ ~Holds(t)' /\ free' = free \cup {Held(t)} /\ stack' = stack
  BY DEF Release, Return, Goto, Holds, Held, Holding, Shapes, log
<1>3. \A u \in Threads : u # t => (Holds(u)' <=> Holds(u)) /\ Held(u)' = Held(u)
  BY <1>0, OthersHold
<1>4. Distinct(Linked)' /\ \A m : OnIn(Linked, m)' <=> OnIn(Linked, m)
  BY <1>2 DEF Places, Distinct, Linked, OnIn
<1>5. (\A m \in Nodes : m \in free \/ OnIn(Linked, m) \/ \E u \in Threads : Holds(u) /\ Held(u) = m)'
  BY <1>2, <1>3, <1>4 DEF Places
<1>6. (\A m \in free : ~OnIn(Linked, m))'
  BY <1>2, <1>4 DEF Places
<1>7. (\A u \in Threads : Holds(u) => Held(u) \notin free /\ ~OnIn(Linked, Held(u)))'
  BY <1>2, <1>3, <1>4 DEF Places
<1>8. (\A u, v \in Threads : u # v /\ Holds(u) /\ Holds(v) => Held(u) # Held(v))'
  BY <1>2, <1>3 DEF Places
<1> QED
  BY <1>4, <1>5, <1>6, <1>7, <1>8 DEF Places

LEMMA PlacesEnter ==
  ASSUME Places, Shapes, Shapes', NEW t \in Threads, Enters(t)
  PROVE  Places'
<1>0. Step(t)
  BY DEF Step, PushStep, Enters
<1>1. /\ pc[t] = "pushCAS" /\ pc'[t] = "countPush" /\ free' = free
      /\ IsOver(stack', reg[t].node, stack)
  BY EntersFirst
<1>2. Holds(t) /\ ~Holds(t)'
  BY <1>1 DEF Holds, Holding
<1>3. \A u \in Threads : u # t => (Holds(u)' <=> Holds(u)) /\ Held(u)' = Held(u)
  BY <1>0, OthersHold
<1>4. IsOver(Linked', reg[t].node, Linked) /\ Len(Linked) \in Nat
  BY <1>1, StacksOver, LengthIs
<1>5. \A m : OnIn(Linked', m) <=> m = Held(t) \/ OnIn(Linked, m)
  BY <1>4, OnOver DEF Held
<1>6. Distinct(Linked')
  BY <1>2, <1>4, DistinctOver DEF Places, Held
<1>7. (\A m \in Nodes : m \in free \/ OnIn(Linked, m) \/ \E u \in Threads : Holds(u) /\ Held(u) = m)'
  BY <1>1, <1>3, <1>5 DEF Places
<1>8. (\A m \in free : ~OnIn(Linked, m))'
  BY <1>1, <1>2, <1>5 DEF Places
<1>9. (\A u \in Threads : Holds(u) => Held(u) \notin free /\ ~OnIn(Linked, Held(u)))'
  BY <1>1, <1>2, <1>3, <1>5 DEF Places
<1>10. (\A u, v \in Threads : u # v /\ Holds(u) /\ Holds(v) => Held(u) # Held(v))'
  BY <1>2, <1>3 DEF Places
<1> QED
  BY <1>6, <1>7, <1>8, <1>9, <1>10 DEF Places

LEMMA PlacesTake ==
  ASSUME Places, IInv, Shapes, Shapes', NEW t \in Threads, Takes(t)
  PROVE  Places'
<1>0. Step(t)
  BY DEF Step, PopStep, Takes
<1>1. /\ pc[t] = "popCAS" /\ pc'[t] = "hang" /\ free' = free
      /\ reg' = [reg EXCEPT ![t].node = <<0, Addr(reg[t].old)>>]
      /\ IsOver(stack, stack[1], stack') /\ reg[t].old = stack[1]
  BY TakesOff, TakesFirst
<1>2. ~Holds(t) /\ Holds(t)' /\ Held(t)' = Addr(stack[1])
  BY <1>1 DEF Holds, Holding, Held, Shapes, Locals, Addr
<1>3. \A u \in Threads : u # t => (Holds(u)' <=> Holds(u)) /\ Held(u)' = Held(u)
  BY <1>0, OthersHold
<1>4. IsOver(Linked, stack[1], Linked') /\ Len(Linked') \in Nat
  BY <1>1, StacksOver, LengthIs
<1>5. \A m : OnIn(Linked, m) <=> m = Addr(stack[1]) \/ OnIn(Linked', m)
  BY <1>4, OnOver
<1>6. Distinct(Linked') /\ ~OnIn(Linked', Addr(stack[1]))
  BY <1>4, DistinctOver DEF Places
<1>7. (\A m \in Nodes : m \in free \/ OnIn(Linked, m) \/ \E u \in Threads : Holds(u) /\ Held(u) = m)'
  BY <1>1, <1>2, <1>3, <1>5 DEF Places
<1>8. (\A m \in free : ~OnIn(Linked, m))'
  BY <1>1, <1>5 DEF Places
<1>9. (\A u \in Threads : Holds(u) => Held(u) \notin free /\ ~OnIn(Linked, Held(u)))'
  BY <1>1, <1>2, <1>3, <1>5, <1>6 DEF Places
<1>10. (\A u, v \in Threads : u # v /\ Holds(u) /\ Holds(v) => Held(u) # Held(v))'
  <2>1. \A u \in Threads : Holds(u) => Held(u) # Addr(stack[1])
    BY <1>5 DEF Places
  <2> QED
    BY <1>2, <1>3, <2>1 DEF Places
<1> QED
  BY <1>6, <1>7, <1>8, <1>9, <1>10 DEF Places

LEMMA PlacesKept ==
  ASSUME IInv, NEW t \in Threads, Step(t), Shapes'
  PROVE  Places'
<1>1. Shapes /\ Places
  BY PlacesAre DEF IInv, NodesOwned
<1>2. CASE Enters(t)
  BY <1>1, <1>2, PlacesEnter
<1>3. CASE Takes(t)
  BY <1>1, <1>3, PlacesTake
<1>4. CASE Alloc(t)
  BY <1>1, <1>4, PlacesAlloc
<1>5. CASE Release(t)
  BY <1>1, <1>5, PlacesRelease
<1>6. CASE Quiet /\ ~Alloc(t) /\ ~Release(t)
  <2>1. UNCHANGED stack
    BY <1>6 DEF Quiet
  <2> QED
    BY <1>1, <1>6, <2>1, QuietHolds, PlacesStay
<1> QED
  BY <1>2, <1>3, <1>4, <1>5, <1>6, Kinds

-----------------------------------------------------------------------------
(* The links, and what is in the nodes *)

LEMMA StackNodes ==
  ASSUME IInv, NEW i \in 1 .. Len(stack)
  PROVE  /\ stack[i] \in Ptr /\ Addr(stack[i]) \in Nodes /\ Tag(stack[i]) <= seqNumber
         /\ Linked[i] = stack[i] /\ OnIn(Linked, Addr(stack[i]))
         /\ \A u \in Threads : Holds(u) => Held(u) # Addr(stack[i])
<1>1. Shapes /\ Places /\ Entered
  BY PlacesAre DEF IInv, NodesOwned
<1>2. Linked[i] = stack[i] /\ stack[i] \in Ptr
  BY <1>1, LinkedIs
<1>3. i \in 1 .. Len(Linked)
  BY <1>1, LengthIs, SizesOf
<1>4. OnIn(Linked, Addr(stack[i]))
  BY <1>2, <1>3 DEF OnIn
<1>5. Addr(stack[i]) \in Nodes /\ Tag(stack[i]) <= seqNumber
  BY <1>1 DEF Entered
<1>6. ASSUME NEW u \in Threads, Holds(u) PROVE Held(u) # Addr(stack[i])
  BY <1>1, <1>4, <1>6 DEF Places
<1> QED
  BY <1>2, <1>4, <1>5, <1>6

LEMMA TopIs ==
  ASSUME IInv
  PROVE  /\ m_top \in Ptr /\ Addr(m_top) \in Nodes /\ Tag(m_top) <= seqNumber
         /\ \A u \in Threads : Holds(u) => Held(u) # Addr(m_top)
<1>1. Shapes /\ Places /\ m_top = Linked[1]
  BY PlacesAre DEF IInv, NodesOwned
<1>2. Len(stack) \in Nat /\ seqNumber \in Nat
  BY <1>1, SizesOf
<1>3. CASE Len(stack) = 0
  <2>1. m_top = dummy
    BY <1>1, <1>3, LinkedIs
  <2>2. 1 \in 1 .. Len(Linked)
    BY <1>1, <1>2, LengthIs
  <2>3. OnIn(Linked, Addr(m_top))
    BY <1>1, <2>2 DEF OnIn
  <2> QED
    BY <1>1, <1>2, <2>1, <2>3, Sizes DEF Places
<1>4. CASE Len(stack) # 0
  <2>1. 1 \in 1 .. Len(stack)
    BY <1>2, <1>4
  <2>2. m_top = stack[1]
    BY <1>1, <2>1, LinkedIs
  <2> QED
    BY <2>1, <2>2, StackNodes
<1> QED
  BY <1>3, <1>4

LEMMA StackKept ==
  ASSUME IInv, NEW t \in Threads, Step(t), NEW i \in 1 .. Len(stack)
  PROVE  _next'[Addr(stack[i])] = _next[Addr(stack[i])] /\ data'[Addr(stack[i])] = data[Addr(stack[i])]
<1>1. Shapes
  BY DEF IInv
<1>2. Addr(stack[i]) \in Nodes /\ ~(pc[t] \in Holding /\ Held(t) = Addr(stack[i]))
  BY StackNodes DEF Holds
<1> QED
  BY <1>1, <1>2, OthersKept

LEMMA LinksKept ==
  ASSUME IInv, NEW t \in Threads, Step(t), Shapes'
  PROVE  (m_top = Linked[1] /\ \A i \in DOMAIN stack : _next[Addr(stack[i])] = Linked[i + 1])'
<1>1. /\ Shapes /\ Own(t) /\ m_top = Linked[1]
      /\ \A i \in 1 .. Len(stack) : _next[Addr(stack[i])] = Linked[i + 1]
  BY LinkedIs DEF IInv, NodesOwned
<1>2. DOMAIN stack' = 1 .. Len(stack')
  BY LinkedIs
<1>3. Len(stack) \in Nat /\ Len(stack') \in Nat /\ Len(Linked) = Len(stack) + 1 /\ Len(Linked') = Len(stack') + 1
  BY <1>1, SizesOf, SizesNext, LengthIs, LengthNext
<1>4. CASE Quiet
  <2>1. m_top' = m_top /\ stack' = stack /\ Linked' = Linked
    BY <1>4 DEF Quiet, Linked
  <2> QED
    BY <1>1, <1>2, <2>1, StackKept
<1>5. CASE Enters(t)
  <2>1. /\ pc[t] = "pushCAS" /\ m_top = reg[t].old /\ m_top' = reg[t].node /\ _next' = _next
        /\ IsOver(stack', reg[t].node, stack)
    BY <1>1, <1>5, EntersFirst DEF memory
  <2>2. IsOver(Linked', reg[t].node, Linked)
    BY <1>1, <2>1, StacksOver
  <2>3. m_top' = Linked'[1]
    BY <2>1, <2>2 DEF IsOver
  <2>4. ASSUME NEW j \in 1 .. Len(stack') PROVE _next'[Addr(stack'[j])] = Linked'[j + 1]
    <3>1. j \in 1 .. Len(Linked) /\ Linked'[j + 1] = Linked[j]
      BY <1>3, <2>1, <2>2 DEF IsOver
    <3>2. CASE j = 1
      <4>1. stack'[j] = reg[t].node
        BY <2>1, <3>2 DEF IsOver
      <4>2. _next[Addr(reg[t].node)] = reg[t].old
        BY <1>1, <2>1 DEF Own, Held
      <4> QED
        BY <1>1, <2>1, <3>1, <3>2, <4>1, <4>2
    <3>3. CASE j # 1
      <4>1. j - 1 \in 1 .. Len(stack) /\ stack'[j] = stack[j - 1] /\ (j - 1) + 1 = j
        BY <1>3, <2>1, <3>3, Over
      <4> QED
        BY <1>1, <2>1, <3>1, <4>1
    <3> QED
      BY <3>2, <3>3
  <2> QED
    BY <1>2, <2>3, <2>4
<1>6. CASE Takes(t)
  <2>1. /\ m_top' = reg[t].new /\ _next' = _next /\ reg[t].new = Linked[2]
        /\ IsOver(stack, stack[1], stack')
    BY <1>6, TakesOff, TakesFirst DEF memory
  <2>2. IsOver(Linked, stack[1], Linked')
    BY <1>1, <2>1, StacksOver
  <2>3. m_top' = Linked'[1]
    <3>1. 1 \in 1 .. Len(Linked') /\ 1 + 1 = 2
      BY <1>3
    <3>2. Linked[1 + 1] = Linked'[1]
      BY <2>2, <3>1 DEF IsOver
    <3> QED
      BY <2>1, <3>1, <3>2
  <2>4. ASSUME NEW j \in 1 .. Len(stack') PROVE _next'[Addr(stack'[j])] = Linked'[j + 1]
    <3>1. j + 1 \in 1 .. Len(stack) /\ stack[j + 1] = stack'[j]
      BY <1>3, <2>1, Over
    <3>2. j + 1 \in 1 .. Len(Linked') /\ Linked[(j + 1) + 1] = Linked'[j + 1]
      BY <1>3, <2>2 DEF IsOver
    <3> QED
      BY <1>1, <2>1, <3>1, <3>2
  <2> QED
    BY <1>2, <2>3, <2>4
<1> QED
  BY <1>4, <1>5, <1>6, Kinds

LEMMA NodesOwnedKept ==
  ASSUME IInv, NEW t \in Threads, Step(t), Shapes'
  PROVE  NodesOwned'
<1>1. OnePlace'
  <2>1. Places'
    BY PlacesKept
  <2> QED
    BY <2>1, PlacesNext
<1> QED
  BY <1>1, LinksKept DEF NodesOwned

\* The number of tags and of pushes does not go back.
LEMMA CountsGrow ==
  ASSUME IInv, NEW t \in Threads, Step(t)
  PROVE  /\ seqNumber \in Nat /\ seqNumber' \in Nat /\ seqNumber <= seqNumber'
         /\ pushed \in Nat /\ pushed' \in Nat /\ pushed <= pushed'
<1>1. seqNumber \in Nat /\ pushed \in Nat
  BY SizesOf DEF IInv
<1>2. seqNumber' = seqNumber \/ seqNumber' = seqNumber + 1
  <2>1. CASE TagNode(t)
    BY <2>1, TagsLast
  <2>2. CASE ~TagNode(t)
    BY <2>2 DEF Step, PushStep, PopStep, counts,
       CallPush, Alloc, Fill, ReadTop, WriteNext, PushCAS, CountPush,
       CallPop, PopsNothing, PopTop, PopNext, PopData, PopCAS, Hang, Release
  <2> QED
    BY <2>1, <2>2
<1>3. pushed' = pushed \/ pushed' = pushed + 1
  BY DEF Step, PushStep, PopStep, log,
       CallPush, Alloc, Fill, TagNode, ReadTop, WriteNext, PushCAS, CountPush,
       CallPop, PopsNothing, PopTop, PopNext, PopData, PopCAS, Hang, Release
<1> QED
  BY <1>1, <1>2, <1>3

-----------------------------------------------------------------------------
(* What was pushed and taken, and what a thread knows *)

LEMMA EnteredKept ==
  ASSUME IInv, NEW t \in Threads, Step(t), Shapes'
  PROVE  Entered'
<1>1. /\ Shapes /\ Own(t) /\ Names(t)
      /\ \A i \in 1 .. Len(stack) : /\ Addr(stack[i]) \in Nodes /\ Tag(stack[i]) <= seqNumber
                                    /\ data[Addr(stack[i])] \in 1 .. pushed
      /\ \A i \in 1 .. Len(taken) : taken[i] \in 1 .. pushed
  BY DEF IInv, Entered
<1>2. /\ seqNumber \in Nat /\ seqNumber' \in Nat /\ seqNumber <= seqNumber'
      /\ pushed \in Nat /\ pushed' \in Nat /\ pushed <= pushed'
  BY CountsGrow
<1>3. Len(stack) \in Nat /\ Len(taken) \in Nat /\ Len(stack') \in Nat
  BY <1>1, SizesOf, SizesNext
<1>4. ASSUME NEW i \in 1 .. Len(stack)
      PROVE  Addr(stack[i]) \in Nodes /\ Tag(stack[i]) <= seqNumber' /\ data'[Addr(stack[i])] \in 1 .. pushed'
  <2>1. Tag(stack[i]) \in Nat
    BY StackNodes, Ptrs
  <2>2. data'[Addr(stack[i])] = data[Addr(stack[i])]
    BY StackKept
  <2>3. Addr(stack[i]) \in Nodes /\ Tag(stack[i]) <= seqNumber /\ data[Addr(stack[i])] \in 1 .. pushed
    BY <1>1
  <2> QED
    BY <1>2, <2>1, <2>2, <2>3
<1>5. ASSUME NEW i \in 1 .. Len(taken) PROVE taken[i] \in 1 .. pushed'
  BY <1>1, <1>2, <1>5
<1>6. CASE Quiet
  BY <1>4, <1>5, <1>6 DEF Quiet, Entered
<1>7. CASE Enters(t)
  <2>1. /\ pc[t] = "pushCAS" /\ UNCHANGED <<memory, counts, pushed, taken>> /\ IsOver(stack', reg[t].node, stack)
    BY <1>1, <1>7, EntersFirst
  <2>2. /\ Addr(reg[t].node) \in Nodes /\ Tag(reg[t].node) <= seqNumber
        /\ data[Addr(reg[t].node)] \in 1 .. pushed
    BY <1>1, <2>1 DEF Own, Names, Held, Holding, Ready, Pushing
  <2>3. ASSUME NEW j \in 1 .. Len(stack')
        PROVE  /\ Addr(stack'[j]) \in Nodes /\ Tag(stack'[j]) <= seqNumber' /\ data'[Addr(stack'[j])] \in 1 .. pushed'
    <3>1. CASE j = 1
      <4>1. stack'[j] = reg[t].node
        BY <2>1, <3>1 DEF IsOver
      <4> QED
        BY <2>1, <2>2, <4>1 DEF memory, counts
    <3>2. CASE j # 1
      <4>1. j - 1 \in 1 .. Len(stack) /\ stack'[j] = stack[j - 1]
        BY <1>3, <2>1, <3>2, Over
      <4> QED
        BY <1>4, <4>1
    <3> QED
      BY <3>1, <3>2
  <2> QED
    BY <1>5, <2>1, <2>3 DEF Entered
<1>8. CASE Takes(t)
  <2>1. /\ UNCHANGED pushed /\ IsOver(stack, stack[1], stack') /\ reg[t].msg \in 1 .. pushed
        /\ Len(taken') = Len(taken) + 1 /\ taken'[Len(taken) + 1] = reg[t].msg
        /\ \A i \in 1 .. Len(taken) : taken'[i] = taken[i]
    BY <1>8, TakesOff, TakesFirst
  <2>2. ASSUME NEW j \in 1 .. Len(stack')
        PROVE  /\ Addr(stack'[j]) \in Nodes /\ Tag(stack'[j]) <= seqNumber' /\ data'[Addr(stack'[j])] \in 1 .. pushed'
    <3>1. j + 1 \in 1 .. Len(stack) /\ stack[j + 1] = stack'[j]
      BY <1>3, <2>1, Over
    <3> QED
      BY <1>4, <3>1
  <2>3. ASSUME NEW j \in 1 .. Len(taken') PROVE taken'[j] \in 1 .. pushed'
    <3>1. CASE j = Len(taken) + 1
      BY <2>1, <3>1
    <3>2. CASE j # Len(taken) + 1
      <4>1. j \in 1 .. Len(taken)
        BY <1>3, <2>1, <3>2
      <4> QED
        BY <1>5, <2>1, <4>1
    <3> QED
      BY <3>1, <3>2
  <2> QED
    BY <2>2, <2>3 DEF Entered
<1> QED
  BY <1>6, <1>7, <1>8, Kinds

LEMMA OldIs ==
  ASSUME Shapes, NEW t \in Threads, Step(t)
  PROVE  reg'[t].old \in {reg[t].old, m_top, Nothing}
BY DEF Shapes, Locals, NoLocals, Step, PushStep, PopStep, Set, Return,
       CallPush, Alloc, Fill, TagNode, ReadTop, WriteNext, PushCAS, CountPush,
       CallPop, PopsNothing, PopTop, PopNext, PopData, PopCAS, PopsTop, PopsAgain, Hang, Release

\* No tag that a thread read is one to come.
LEMMA OldTags ==
  ASSUME IInv, NEW t \in Threads, Step(t), NEW u \in Threads
  PROVE  Tag(reg'[u].old) \in Nat /\ Tag(reg'[u].old) <= seqNumber'
<1>1. Shapes /\ Own(t) /\ Own(u)
  BY DEF IInv
<1>2. seqNumber \in Nat /\ seqNumber' \in Nat /\ seqNumber <= seqNumber'
  BY CountsGrow
<1>3. m_top \in Ptr /\ Tag(m_top) <= seqNumber
  BY TopIs
<1>4. reg[t].old \in Ptr /\ reg[u].old \in Ptr
  BY <1>1, TypesAre
<1>5. \A p \in Ptr : Tag(p) \in Nat
  BY Ptrs
<1>6. Tag(reg[t].old) <= seqNumber /\ Tag(reg[u].old) <= seqNumber
  BY <1>1 DEF Own
<1>7. reg'[u].old \in {reg[u].old, reg[t].old, m_top, Nothing}
  BY <1>1, OldIs, OthersStay
<1>8. Nothing \in Ptr /\ Tag(Nothing) = 0
  BY Sizes
<1>9. CASE reg'[u].old = reg[u].old
  BY <1>2, <1>4, <1>5, <1>6, <1>9
<1>10. CASE reg'[u].old = reg[t].old
  BY <1>2, <1>4, <1>5, <1>6, <1>10
<1>11. CASE reg'[u].old = m_top
  BY <1>2, <1>3, <1>5, <1>11
<1>12. CASE reg'[u].old = Nothing
  BY <1>2, <1>8, <1>12
<1> QED
  BY <1>7, <1>9, <1>10, <1>11, <1>12

LEMMA OwnOthers ==
  ASSUME IInv, NEW t \in Threads, Step(t), NEW u \in Threads, u # t
  PROVE  Own(u)'
<1>1. Shapes /\ Places /\ Own(u)
  BY PlacesAre DEF IInv, NodesOwned
<1>2. pc'[u] = pc[u] /\ reg'[u] = reg[u]
  BY <1>1, OthersStay
<1>3. Tag(reg'[u].old) <= seqNumber'
  BY OldTags
<1>4. ASSUME pc[u] \in Holding PROVE _next'[Held(u)] = _next[Held(u)] /\ data'[Held(u)] = data[Held(u)]
  <2>1. Held(u) \in Nodes /\ ~(pc[t] \in Holding /\ Held(t) = Held(u))
    BY <1>1, <1>4 DEF Own, Places, Holds
  <2> QED
    BY <1>1, <2>1, OthersKept
<1>5. ASSUME pc[u] \in Ready PROVE Tag(reg[u].node) <= seqNumber'
  <2>1. Tag(reg[u].node) \in Nat
    BY <1>1, TypesAre, Ptrs
  <2>2. seqNumber \in Nat /\ seqNumber' \in Nat /\ seqNumber <= seqNumber'
    BY CountsGrow
  <2>3. Tag(reg[u].node) <= seqNumber
    BY <1>1, <1>5 DEF Own
  <2> QED
    BY <2>1, <2>2, <2>3
<1>6. Held(u)' = Held(u)
  BY <1>2 DEF Held
<1>7. Ready \cup {"tag"} \subseteq Holding /\ "pushCAS" \in Holding
  BY DEF Ready, Holding
<1> QED
  BY <1>1, <1>2, <1>3, <1>4, <1>5, <1>6, <1>7 DEF Own

LEMMA OwnIdle ==
  ASSUME IInv, NEW t \in Threads, Step(t), pc'[t] \in {"idle", "alloc", "countPush", "empty", "popTop"}
  PROVE  Own(t)'
<1>1. Tag(reg'[t].old) <= seqNumber'
  BY OldTags
<1> QED
  BY <1>1 DEF Own, Holding, Ready

LEMMA OwnPush ==
  ASSUME IInv, NEW t \in Threads, PushStep(t)
  PROVE  Own(t)'
<1>0. Step(t)
  BY DEF Step
<1>1. /\ Shapes /\ Own(t) /\ reg \in [Threads -> Locals] /\ pc \in [Threads -> Labels]
      /\ _next \in [Nodes -> Ptr] /\ data \in [Nodes -> 0 .. MaxPushes] /\ free \subseteq Nodes
  BY DEF IInv, Shapes
<1>2. Tag(reg'[t].old) <= seqNumber'
  BY <1>0, OldTags
<1>3. CASE CallPush(t) \/ CountPush(t) \/ Enters(t)
  <2>1. pc'[t] \in {"alloc", "idle", "countPush"}
    BY <1>1, <1>3 DEF CallPush, CountPush, Enters, PushCAS, Goto, Return
  <2> QED
    BY <1>0, <2>1, OwnIdle
<1>4. CASE Alloc(t)
  <2>1. pc'[t] = "fill" /\ Held(t)' \in Nodes
    BY <1>1, <1>4 DEF Alloc, Goto, Set, Held, Addr, Locals
  <2> QED
    BY <1>2, <2>1 DEF Own, Ready
<1>5. CASE Fill(t)
  <2>1. Held(t) \in Nodes
    BY <1>1, <1>5 DEF Fill, Own, Holding
  <2>2. pc'[t] = "tag" /\ Held(t)' = Held(t) /\ data'[Held(t)] = reg'[t].msg
    BY <1>1, <1>5, <2>1 DEF Fill, Goto, Held
  <2> QED
    BY <1>2, <2>1, <2>2 DEF Own, Ready
<1>6. CASE TagNode(t)
  <2>1. Held(t) \in Nodes /\ data[Held(t)] = reg[t].msg
    BY <1>1, <1>6 DEF TagNode, Own, Holding
  <2>2. /\ pc'[t] = "readTop" /\ data' = data /\ reg'[t].msg = reg[t].msg
        /\ reg'[t].node = <<seqNumber', Held(t)>>
    BY <1>1, <1>6 DEF TagNode, Goto, Set, memory, Locals, Held
  <2>3. Held(t)' = Held(t) /\ Tag(reg'[t].node) = seqNumber'
    BY <2>2 DEF Held, Addr, Tag
  <2>4. seqNumber' <= seqNumber'
    BY <1>0, CountsGrow
  <2> QED
    BY <1>2, <2>1, <2>2, <2>3, <2>4 DEF Own
<1>7. CASE ReadTop(t) \/ WriteNext(t) \/ (PushCAS(t) /\ ~Enters(t))
  <2>1. pc[t] \in Ready /\ pc'[t] \in Ready /\ data' = data /\ seqNumber' = seqNumber
    BY <1>1, <1>7 DEF ReadTop, WriteNext, PushCAS, Enters, Goto, Ready, memory, counts
  <2>2. /\ Held(t) \in Nodes /\ data[Held(t)] = reg[t].msg /\ Tag(reg[t].node) <= seqNumber
    BY <1>1, <2>1 DEF Own, Ready, Holding
  <2>3. reg'[t].node = reg[t].node /\ reg'[t].msg = reg[t].msg
    BY <1>1, <1>7 DEF ReadTop, WriteNext, PushCAS, Enters, Set, Locals
  <2>4. Held(t)' = Held(t)
    BY <2>3 DEF Held
  <2>5. ASSUME pc'[t] = "pushCAS" PROVE _next'[Held(t)] = reg'[t].old
    <3>1. WriteNext(t)
      BY <1>1, <1>7, <2>5 DEF ReadTop, PushCAS, Enters, Goto
    <3> QED
      BY <1>1, <2>2, <3>1 DEF WriteNext, Held
  <2>6. pc'[t] \notin {"popNext", "popData", "popCAS"}
    BY <2>1 DEF Ready
  <2> QED
    BY <1>2, <2>1, <2>2, <2>3, <2>4, <2>5, <2>6 DEF Own
<1> QED
  BY <1>3, <1>4, <1>5, <1>6, <1>7 DEF PushStep

LEMMA OwnPop ==
  ASSUME IInv, NEW t \in Threads, PopStep(t)
  PROVE  Own(t)'
<1>0. Step(t)
  BY DEF Step
<1>1. Shapes /\ Own(t) /\ reg \in [Threads -> Locals] /\ pc \in [Threads -> Labels]
  BY DEF IInv, Shapes
<1>2. Tag(reg'[t].old) <= seqNumber'
  BY <1>0, OldTags
<1>3. CASE CallPop(t) \/ PopsNothing(t) \/ Release(t) \/ (PopCAS(t) /\ ~Takes(t))
  <2>1. pc'[t] \in {"idle", "empty", "popTop"}
    BY <1>1, <1>3 DEF CallPop, PopsNothing, Release, PopCAS, PopsAgain, Takes, Goto, Return
  <2> QED
    BY <1>0, <2>1, OwnIdle
<1>4. CASE PopTop(t)
  <2>1. pc'[t] \in {"popNext", "popCAS"} /\ reg'[t].old = m_top
    BY <1>1, <1>4 DEF PopTop, Goto, Set, Locals
  <2>2. Addr(m_top) \in Nodes
    BY TopIs
  <2> QED
    BY <1>2, <2>1, <2>2 DEF Own, Holding, Ready
<1>5. CASE PopNext(t) \/ PopData(t)
  <2>1. pc[t] \in {"popNext", "popData"} /\ pc'[t] \in {"popData", "popCAS"} /\ reg'[t].old = reg[t].old
    BY <1>1, <1>5 DEF PopNext, PopData, Goto, Set, Locals
  <2> QED
    BY <1>1, <1>2, <2>1 DEF Own, Holding, Ready
<1>6. CASE Takes(t)
  <2>1. pc'[t] = "hang" /\ reg' = [reg EXCEPT ![t].node = <<0, Addr(reg[t].old)>>] /\ pc[t] = "popCAS"
    BY <1>6, TakesOff
  <2>2. Held(t)' \in Nodes
    BY <1>1, <2>1 DEF Own, Held, Addr, Locals
  <2> QED
    BY <1>2, <2>1, <2>2 DEF Own, Ready
<1>7. CASE Hang(t)
  <2>1. pc[t] \in {"hang", "release"} /\ pc'[t] = "release" /\ reg' = reg
    BY <1>1, <1>7 DEF Hang, Goto
  <2>2. Held(t)' \in Nodes
    BY <1>1, <2>1 DEF Own, Held, Holding
  <2> QED
    BY <1>2, <2>1, <2>2 DEF Own, Ready
<1> QED
  BY <1>3, <1>4, <1>5, <1>6, <1>7 DEF PopStep

\* A Push keeps its message, which is new when it starts.
LEMMA MessageIs ==
  ASSUME Shapes, NEW t \in Threads, Step(t), pc'[t] \in Pushing
  PROVE  \/ /\ pc[t] \in Pushing /\ reg'[t].msg = reg[t].msg /\ pushed' = pushed /\ Quiet
         \/ /\ reg'[t].msg = pushed + 1 /\ pushed' = pushed + 1 /\ Quiet
<1>1. pc \in [Threads -> Labels] /\ reg \in [Threads -> Locals]
  BY DEF Shapes
<1>2. CASE CallPush(t)
  BY <1>1, <1>2 DEF CallPush, Set, Locals, Quiet
<1>3. CASE Alloc(t) \/ Fill(t) \/ TagNode(t) \/ ReadTop(t) \/ WriteNext(t) \/ PushCAS(t)
  <2>1. pc[t] \in Pushing /\ pushed' = pushed
    BY <1>3 DEF Alloc, Fill, TagNode, ReadTop, WriteNext, PushCAS, Pushing, log
  <2>2. reg'[t].msg = reg[t].msg
    BY <1>1, <1>3 DEF Alloc, Fill, TagNode, ReadTop, WriteNext, PushCAS, Set, Locals
  <2>3. Quiet
    BY <1>1, <1>3 DEF Alloc, Fill, TagNode, ReadTop, WriteNext, PushCAS, Goto, Pushing, Quiet, log
  <2> QED
    BY <2>1, <2>2, <2>3
<1>4. CASE CountPush(t) \/ PopStep(t)
  BY <1>1, <1>4 DEF CountPush, PopStep, Goto, Return, Pushing,
     CallPop, PopsNothing, PopTop, PopNext, PopData, PopCAS, PopsTop, PopsAgain, Hang, Release
<1> QED
  BY <1>2, <1>3, <1>4 DEF Step, PushStep

\* The messages of the stack and of the log, after a step, were there or are the thread's.
LEMMA MessagesFrom ==
  ASSUME IInv, NEW t \in Threads, Step(t), Shapes'
  PROVE  /\ \A j \in 1 .. Len(stack') :
              \/ \E i \in 1 .. Len(stack) : data'[Addr(stack'[j])] = data[Addr(stack[i])]
              \/ Enters(t) /\ data'[Addr(stack'[j])] = reg[t].msg
         /\ \A j \in 1 .. Len(taken') :
              \/ \E i \in 1 .. Len(taken) : taken'[j] = taken[i]
              \/ \E i \in 1 .. Len(stack) : taken'[j] = data[Addr(stack[i])]
<1>1. Shapes /\ Own(t)
  BY DEF IInv
<1>2. Len(stack) \in Nat /\ Len(taken) \in Nat /\ Len(stack') \in Nat
  BY <1>1, SizesOf, SizesNext
<1>3. CASE Quiet
  BY <1>3, StackKept DEF Quiet
<1>4. CASE Enters(t)
  <2>1. /\ pc[t] = "pushCAS" /\ UNCHANGED <<memory, taken>> /\ IsOver(stack', reg[t].node, stack)
    BY <1>1, <1>4, EntersFirst
  <2>2. data'[Addr(reg[t].node)] = reg[t].msg
    BY <1>1, <2>1 DEF Own, Held, Ready, memory
  <2>3. ASSUME NEW j \in 1 .. Len(stack')
        PROVE  \/ \E i \in 1 .. Len(stack) : data'[Addr(stack'[j])] = data[Addr(stack[i])]
               \/ data'[Addr(stack'[j])] = reg[t].msg
    <3>1. CASE j = 1
      <4>1. stack'[j] = reg[t].node
        BY <2>1, <3>1 DEF IsOver
      <4> QED
        BY <2>2, <4>1
    <3>2. CASE j # 1
      <4>1. j - 1 \in 1 .. Len(stack) /\ stack'[j] = stack[j - 1]
        BY <1>2, <2>1, <3>2, Over
      <4> QED
        BY <4>1, StackKept
    <3> QED
      BY <3>1, <3>2
  <2> QED
    BY <1>4, <2>1, <2>3
<1>5. CASE Takes(t)
  <2>1. /\ UNCHANGED memory /\ IsOver(stack, stack[1], stack')
        /\ 1 \in 1 .. Len(stack) /\ reg[t].msg = data[Addr(stack[1])]
        /\ Len(taken') = Len(taken) + 1 /\ taken'[Len(taken) + 1] = reg[t].msg
        /\ \A i \in 1 .. Len(taken) : taken'[i] = taken[i]
    BY <1>5, TakesOff, TakesFirst
  <2>2. ASSUME NEW j \in 1 .. Len(stack')
        PROVE  \E i \in 1 .. Len(stack) : data'[Addr(stack'[j])] = data[Addr(stack[i])]
    <3>1. j + 1 \in 1 .. Len(stack) /\ stack[j + 1] = stack'[j]
      BY <1>2, <2>1, Over
    <3> QED
      BY <3>1, StackKept
  <2>3. ASSUME NEW j \in 1 .. Len(taken')
        PROVE  \/ \E i \in 1 .. Len(taken) : taken'[j] = taken[i]
               \/ \E i \in 1 .. Len(stack) : taken'[j] = data[Addr(stack[i])]
    <3>1. CASE j = Len(taken) + 1
      BY <2>1, <3>1
    <3>2. CASE j # Len(taken) + 1
      <4>1. j \in 1 .. Len(taken)
        BY <1>2, <2>1, <3>2
      <4> QED
        BY <2>1, <4>1
    <3> QED
      BY <3>1, <3>2
  <2> QED
    BY <2>2, <2>3
<1> QED
  BY <1>3, <1>4, <1>5, Kinds

LEMMA NamesOthers ==
  ASSUME IInv, NEW t \in Threads, Step(t), Shapes', NEW u \in Threads, u # t
  PROVE  Names(u)'
<1>1. Shapes /\ Names(u) /\ Names(t)
  BY DEF IInv
<1>2. pc'[u] = pc[u] /\ reg'[u] = reg[u]
  BY <1>1, OthersStay
<1>3. CASE pc[u] \notin Pushing
  BY <1>2, <1>3 DEF Names
<1>4. CASE pc[u] \in Pushing
  <2>1. /\ reg[u].msg \in 1 .. pushed
        /\ \A i \in 1 .. Len(stack) : data[Addr(stack[i])] # reg[u].msg
        /\ \A i \in 1 .. Len(taken) : taken[i] # reg[u].msg
        /\ \A v \in Threads : v # u /\ pc[v] \in Pushing => reg[v].msg # reg[u].msg
    BY <1>1, <1>4 DEF Names
  <2>2. pushed \in Nat /\ pushed' \in Nat /\ pushed <= pushed'
    BY CountsGrow
  <2>3. reg[u].msg \in 1 .. pushed'
    BY <2>1, <2>2
  <2>4. ASSUME Enters(t) PROVE reg[t].msg # reg[u].msg
    BY <2>1, <2>4 DEF Enters, PushCAS, Pushing
  <2>5. \A j \in 1 .. Len(stack') : data'[Addr(stack'[j])] # reg[u].msg
    BY <2>1, <2>4, MessagesFrom
  <2>6. \A j \in 1 .. Len(taken') : taken'[j] # reg[u].msg
    BY <2>1, MessagesFrom
  <2>7. ASSUME NEW v \in Threads, v # u, pc'[v] \in Pushing PROVE reg'[v].msg # reg[u].msg
    <3>1. CASE v # t
      BY <1>1, <2>1, <2>7, <3>1, OthersStay
    <3>2. CASE v = t
      <4>1. CASE pc[t] \in Pushing /\ reg'[t].msg = reg[t].msg
        BY <2>1, <2>7, <3>2, <4>1
      <4>2. CASE reg'[t].msg = pushed + 1
        BY <2>1, <2>2, <3>2, <4>2
      <4> QED
        BY <1>1, <2>7, <3>2, <4>1, <4>2, MessageIs
    <3> QED
      BY <3>1, <3>2
  <2> QED
    BY <1>2, <2>3, <2>5, <2>6, <2>7 DEF Names
<1> QED
  BY <1>3, <1>4

LEMMA NamesOwn ==
  ASSUME IInv, NEW t \in Threads, Step(t), Shapes'
  PROVE  Names(t)'
<1>1. Shapes /\ Names(t) /\ Entered /\ \A u \in Threads : Names(u)
  BY DEF IInv
<1>2. \A u \in Threads : u # t => pc'[u] = pc[u] /\ reg'[u] = reg[u]
  BY <1>1, OthersStay
<1>3. pushed \in Nat
  BY <1>1, SizesOf
<1>4. CASE pc'[t] \notin Pushing
  BY <1>4 DEF Names
<1>5. CASE pc'[t] \in Pushing /\ pc[t] \in Pushing /\ reg'[t].msg = reg[t].msg /\ pushed' = pushed /\ Quiet
  <2>1. stack' = stack /\ taken' = taken
    BY <1>5 DEF Quiet
  <2>2. \A i \in 1 .. Len(stack) : data'[Addr(stack[i])] = data[Addr(stack[i])]
    BY StackKept
  <2> QED
    BY <1>1, <1>2, <1>5, <2>1, <2>2 DEF Names
<1>6. CASE pc'[t] \in Pushing /\ reg'[t].msg = pushed + 1 /\ pushed' = pushed + 1 /\ Quiet
  <2>1. stack' = stack /\ taken' = taken
    BY <1>6 DEF Quiet
  <2>2. \A i \in 1 .. Len(stack) : data'[Addr(stack[i])] = data[Addr(stack[i])]
    BY StackKept
  <2>3. \A i \in 1 .. Len(stack) : data[Addr(stack[i])] # pushed + 1
    BY <1>1, <1>3 DEF Entered
  <2>4. \A i \in 1 .. Len(taken) : taken[i] # pushed + 1
    BY <1>1, <1>3 DEF Entered
  <2>5. \A u \in Threads : pc[u] \in Pushing => reg[u].msg # pushed + 1
    BY <1>1, <1>3 DEF Names
  <2>6. pushed + 1 \in 1 .. pushed'
    BY <1>3, <1>6
  <2> QED
    BY <1>2, <1>6, <2>1, <2>2, <2>3, <2>4, <2>5, <2>6 DEF Names
<1> QED
  BY <1>1, <1>4, <1>5, <1>6, MessageIs

LEMMA SeenOthers ==
  ASSUME IInv, NEW t \in Threads, Step(t), Shapes', NEW u \in Threads, u # t
  PROVE  Seen(u)'
<1>1. Shapes /\ Seen(u) /\ Fresh(t)
  BY DEF IInv
<1>2. pc'[u] = pc[u] /\ reg'[u] = reg[u]
  BY <1>1, OthersStay
<1>3. Len(stack) \in Nat /\ Len(stack') \in Nat
  BY <1>1, SizesOf, SizesNext
<1>4. \A i \in 1 .. Len(stack) :
        _next'[Addr(stack[i])] = _next[Addr(stack[i])] /\ data'[Addr(stack[i])] = data[Addr(stack[i])]
  BY StackKept
<1>5. ASSUME NEW j \in 1 .. Len(stack'), NEW i \in 1 .. Len(stack), stack'[j] = stack[i], reg'[u].old = stack'[j]
      PROVE  /\ pc'[u] \in {"popData", "popCAS"} => reg'[u].new = _next'[Addr(stack'[j])]
             /\ pc'[u] = "popCAS" => reg'[u].msg = data'[Addr(stack'[j])]
  BY <1>1, <1>2, <1>4, <1>5 DEF Seen
<1>6. ASSUME NEW j \in 1 .. Len(stack')
      PROVE  (\E i \in 1 .. Len(stack) : stack'[j] = stack[i]) \/ reg'[u].old # stack'[j]
  <2>1. CASE Quiet
    BY <2>1 DEF Quiet
  <2>2. CASE Enters(t)
    <3>1. pc[t] = "pushCAS" /\ IsOver(stack', reg[t].node, stack)
      BY <1>1, <2>2, EntersFirst
    <3>2. reg[u].old # reg[t].node
      BY <1>1, <3>1 DEF Fresh, Ready
    <3> QED
      BY <1>2, <1>3, <3>1, <3>2, Over
  <2>3. CASE Takes(t)
    <3>1. IsOver(stack, stack[1], stack')
      BY <2>3, TakesOff
    <3> QED
      BY <1>3, <3>1, Over
  <2> QED
    BY <2>1, <2>2, <2>3, Kinds
<1> QED
  BY <1>5, <1>6 DEF Seen

LEMMA SeenOwn ==
  ASSUME IInv, NEW t \in Threads, Step(t), Shapes'
  PROVE  Seen(t)'
<1>1. /\ Shapes /\ Seen(t) /\ Places /\ reg \in [Threads -> Locals] /\ pc \in [Threads -> Labels]
  BY PlacesAre DEF IInv, NodesOwned, Shapes
<1>2. CASE PopNext(t)
  <2>1. /\ UNCHANGED <<memory, stack>> /\ pc'[t] = "popData" /\ reg'[t].old = reg[t].old
        /\ reg'[t].new = _next[Addr(reg[t].old)]
    BY <1>1, <1>2 DEF PopNext, Goto, Set, Locals, log
  <2> QED
    BY <2>1 DEF Seen, memory
<1>3. CASE PopData(t)
  <2>1. /\ UNCHANGED <<memory, stack>> /\ pc[t] = "popData" /\ reg'[t].old = reg[t].old /\ reg'[t].new = reg[t].new
        /\ reg'[t].msg = data[Addr(reg[t].old)]
    BY <1>1, <1>3 DEF PopData, Set, Locals, log
  <2> QED
    BY <1>1, <2>1 DEF Seen, memory
<1>4. CASE PopTop(t) /\ m_top = dummy
  <2>1. stack' = stack /\ reg'[t].old = dummy
    BY <1>1, <1>4 DEF PopTop, Locals, log
  <2>2. ASSUME NEW i \in 1 .. Len(stack), stack[i] = dummy PROVE FALSE
    <3>1. Linked[i] = dummy /\ Linked[Len(stack) + 1] = dummy /\ Len(stack) \in Nat
      BY <1>1, <2>2, LinkedIs, SizesOf
    <3>2. i \in 1 .. Len(Linked) /\ Len(stack) + 1 \in 1 .. Len(Linked)
      BY <1>1, <3>1, LengthIs
    <3>3. i = Len(stack) + 1
      BY <1>1, <3>1, <3>2 DEF Places, Distinct
    <3> QED
      BY <3>1, <3>3
  <2> QED
    BY <2>1, <2>2 DEF Seen
<1>5. CASE PushStep(t) \/ CallPop(t) \/ PopsNothing(t) \/ (PopTop(t) /\ m_top # dummy)
           \/ PopCAS(t) \/ Hang(t) \/ Release(t)
  <2>1. pc'[t] \notin {"popData", "popCAS"}
    BY <1>1, <1>5 DEF PushStep, Goto, Return,
       CallPush, Alloc, Fill, TagNode, ReadTop, WriteNext, PushCAS, CountPush,
       CallPop, PopsNothing, PopTop, PopCAS, PopsTop, PopsAgain, Hang, Release
  <2> QED
    BY <2>1 DEF Seen
<1> QED
  BY <1>2, <1>3, <1>4, <1>5 DEF Step, PopStep

LEMMA FreshKept ==
  ASSUME IInv, NEW t \in Threads, Step(t), NEW u \in Threads
  PROVE  Fresh(u)'
<1>1. /\ Shapes /\ Fresh(u) /\ Fresh(t) /\ Own(u)
      /\ reg \in [Threads -> Locals] /\ pc \in [Threads -> Labels]
  BY DEF IInv, Shapes
<1>2. ASSUME pc[u] \in Ready, reg'[u].node = reg[u].node, NEW v \in Threads PROVE reg'[v].old # reg'[u].node
  <2>1. Holds(u) /\ Held(u) \in Nodes
    BY <1>1, <1>2 DEF Holds, Own, Ready, Holding
  <2>2. reg[v].old # reg[u].node /\ reg[t].old # reg[u].node
    BY <1>1, <1>2 DEF Fresh
  <2>3. m_top # reg[u].node
    BY <2>1, TopIs DEF Held
  <2>4. Nothing # reg[u].node
    BY <2>1, Sizes DEF Held
  <2>5. reg'[v].old \in {reg[v].old, reg[t].old, m_top, Nothing}
    BY <1>1, OldIs, OthersStay
  <2> QED
    BY <1>2, <2>2, <2>3, <2>4, <2>5
<1>3. CASE u # t
  <2>1. pc'[u] = pc[u] /\ reg'[u] = reg[u]
    BY <1>1, <1>3, OthersStay
  <2> QED
    BY <1>2, <2>1 DEF Fresh
<1>4. CASE u = t /\ TagNode(t)
  <2>1. Tag(reg'[t].node) = seqNumber' /\ reg' = [reg EXCEPT ![t].node = <<seqNumber', Addr(reg[t].node)>>]
    BY <1>1, <1>4 DEF TagNode, Set, Tag, Locals
  <2>2. seqNumber' = seqNumber + 1 /\ seqNumber \in Nat
    BY <1>1, <1>4, TagsLast, SizesOf
  <2>3. ASSUME NEW v \in Threads PROVE reg'[v].old # reg'[t].node
    <3>1. reg'[v].old = reg[v].old
      BY <1>1, <2>1 DEF Locals
    <3>2. Tag(reg[v].old) <= seqNumber /\ Tag(reg[v].old) \in Nat
      <4>1. reg[v].old \in Ptr /\ Own(v)
        BY <1>1, TypesAre DEF IInv
      <4>2. Tag(reg[v].old) \in Nat
        BY <4>1, Ptrs
      <4> QED
        BY <4>1, <4>2 DEF Own
    <3>3. Tag(reg[v].old) # seqNumber'
      BY <2>2, <3>2
    <3> QED
      BY <2>1, <3>1, <3>3
  <2> QED
    BY <1>4, <2>3 DEF Fresh
<1>5. CASE u = t /\ ~TagNode(t)
  <2>1. ASSUME pc'[t] \in Ready PROVE pc[t] \in Ready /\ reg'[t].node = reg[t].node
    BY <1>1, <1>5, <2>1 DEF Step, PushStep, PopStep, Goto, Set, Return, Ready, Locals,
       CallPush, Alloc, Fill, ReadTop, WriteNext, PushCAS, CountPush,
       CallPop, PopsNothing, PopTop, PopNext, PopData, PopCAS, PopsTop, PopsAgain, Hang, Release
  <2> QED
    BY <1>2, <1>5, <2>1 DEF Fresh
<1> QED
  BY <1>3, <1>4, <1>5

-----------------------------------------------------------------------------
(* The invariant is inductive. *)

LEMMA IInvStep ==
  ASSUME IInv, NEW t \in Threads, Step(t)
  PROVE  IInv'
<1>1. Shapes'
  BY ShapesKept
<1>2. NodesOwned' /\ Counts' /\ Entered'
  BY <1>1, NodesOwnedKept, CountsKept, EnteredKept
<1>3. ASSUME NEW u \in Threads PROVE (Own(u) /\ Names(u) /\ Seen(u) /\ Fresh(u))'
  <2>1. Fresh(u)'
    BY FreshKept
  <2>2. CASE u # t
    BY <1>1, <2>1, <2>2, OwnOthers, NamesOthers, SeenOthers
  <2>3. CASE u = t
    <3>1. Own(t)'
      BY OwnPush, OwnPop DEF Step
    <3> QED
      BY <1>1, <2>1, <2>3, <3>1, NamesOwn, SeenOwn
  <2> QED
    BY <2>2, <2>3
<1> QED
  BY <1>1, <1>2, <1>3 DEF IInv

LEMMA IInvInit == Init => IInv
<1> SUFFICES ASSUME Init PROVE IInv
  OBVIOUS
<1>1. /\ _next = [n \in Nodes |-> Nothing] /\ data = [n \in Nodes |-> 0] /\ free = Nodes \ {Bottom}
      /\ m_top = dummy /\ seqNumber = 0 /\ m_size = 0
      /\ pc = [t \in Threads |-> "idle"] /\ reg = [t \in Threads |-> NoLocals]
      /\ pushed = 0 /\ stack = <<>> /\ taken = <<>>
  BY DEF Init
<1>2. /\ Len(stack) = 0 /\ Len(taken) = 0 /\ stack \in Seq(Ptr) /\ taken \in Seq(1 .. MaxPushes)
  BY <1>1
<1>3. Shapes
  <2>1. NoLocals \in Locals
    BY Sizes DEF NoLocals, Locals
  <2>2. pc \in [Threads -> Labels] /\ reg \in [Threads -> Locals]
    BY <1>1, <2>1, LabelsAre
  <2>3. /\ _next \in [Nodes -> Ptr] /\ data \in [Nodes -> 0 .. MaxPushes] /\ free \subseteq Nodes
        /\ m_top \in Ptr /\ seqNumber \in 0 .. Tags - 1 /\ m_size \in Int /\ pushed \in 0 .. MaxPushes
    BY <1>1, Sizes
  <2> QED
    BY <1>2, <2>2, <2>3 DEF Shapes
<1>4. \A t \in Threads : pc[t] = "idle" /\ reg[t] = NoLocals
  BY <1>1
<1>5. Counts
  <2>1. At(Owing) = {} /\ At(Taking) = {} /\ At(Untagged) = {} /\ At(Pushing) = {}
    BY <1>4 DEF At, AtIn, Owing, Taking, Popping, Untagged, Pushing
  <2>2. Cardinality({}) = 0
    BY FS_EmptySet
  <2> QED
    BY <1>1, <1>2, <2>1, <2>2 DEF Counts
<1>6. NodesOwned
  <2>1. Len(Linked) = 1 /\ DOMAIN Linked = 1 .. 1 /\ Linked[1] = dummy
    BY <1>2, <1>3, LengthIs, LinkedIs
  <2>2. \A n : OnIn(Linked, n) <=> n = Bottom
    BY <2>1, Sizes DEF OnIn
  <2>3. Distinct(Linked)
    BY <2>1 DEF Distinct
  <2>4. \A t \in Threads : ~Holds(t)
    BY <1>4 DEF Holds, Holding
  <2>5. Places
    BY <1>1, <2>2, <2>3, <2>4 DEF Places
  <2>6. DOMAIN stack = {}
    BY <1>2, <1>3, LinkedIs
  <2> QED
    BY <1>1, <1>3, <2>1, <2>5, <2>6, PlacesAre DEF NodesOwned
<1>7. Entered
  BY <1>2 DEF Entered
<1>8. ASSUME NEW t \in Threads PROVE Own(t) /\ Names(t) /\ Seen(t) /\ Fresh(t)
  <2>1. Tag(reg[t].old) = 0
    BY <1>4, Sizes DEF NoLocals
  <2> QED
    BY <1>1, <1>2, <1>4, <2>1 DEF Own, Names, Seen, Fresh, Holding, Ready, Pushing
<1> QED
  BY <1>3, <1>5, <1>6, <1>7, <1>8 DEF IInv

LEMMA IInvStutters == IInv /\ UNCHANGED vars => IInv'
<1> SUFFICES ASSUME IInv, UNCHANGED vars PROVE IInv'
  OBVIOUS
<1>1. /\ _next' = _next /\ data' = data /\ free' = free /\ m_top' = m_top
      /\ seqNumber' = seqNumber /\ m_size' = m_size /\ pc' = pc /\ reg' = reg
      /\ pushed' = pushed /\ stack' = stack /\ taken' = taken
  BY DEF vars, memory, counts, log
<1>2. Shapes'
  BY <1>1 DEF IInv, Shapes
<1>3. NodesOwned'
  BY <1>1 DEF IInv, NodesOwned, OnePlace, On, Linked, Held
<1>4. Counts'
  BY <1>1 DEF IInv, Counts, At, AtIn
<1>5. Entered'
  BY <1>1 DEF IInv, Entered
<1>6. ASSUME NEW t \in Threads PROVE Own(t)' /\ Names(t)' /\ Seen(t)' /\ Fresh(t)'
  <2>1. Own(t) /\ Names(t) /\ Seen(t) /\ Fresh(t)
    BY DEF IInv
  <2>2. Own(t)'
    BY <1>1, <2>1 DEF Own, Held
  <2>3. Names(t)' /\ Fresh(t)'
    BY <1>1, <2>1 DEF Names, Fresh
  <2>4. Seen(t)'
    BY <1>1, <2>1 DEF Seen
  <2> QED
    BY <2>2, <2>3, <2>4
<1> QED
  BY <1>2, <1>3, <1>4, <1>5, <1>6 DEF IInv

LEMMA IInvHolds == Spec => []IInv
<1>1. Init => IInv
  BY IInvInit
<1>2. IInv /\ [Next]_vars => IInv'
  BY IInvStep, IInvStutters DEF Next, Step
<1> QED
  BY <1>1, <1>2, PTL DEF Spec

-----------------------------------------------------------------------------
(* What follows from it *)

\* The variables of the stack hold pointers, nodes and messages, and m_size stays
\* between the calls of Pop that may fail, below zero, and the calls of Push.
THEOREM TypeCorrect == Spec => []TypeOK
<1>1. ASSUME IInv PROVE TypeOK
  <2>1. Shapes /\ Counts
    BY <1>1 DEF IInv
  <2>2. At(Owing) \subseteq Threads /\ At(Pushing) \subseteq Threads /\ IsFiniteSet(Threads)
    BY Sizes DEF At, AtIn
  <2>3. IsFiniteSet(At(Owing)) /\ Cardinality(At(Owing)) <= Cardinality(Threads)
    BY <2>2, FS_Subset
  <2>4. IsFiniteSet(At(Pushing))
    BY <2>2, FS_Subset
  <2>5. Cardinality(At(Owing)) \in Nat /\ Cardinality(At(Pushing)) \in Nat /\ Cardinality(Threads) \in Nat
    BY <2>2, <2>3, <2>4, FS_CardinalityType
  <2>6. Len(stack) \in Nat /\ Len(taken) \in Nat /\ pushed <= MaxPushes /\ pushed \in Nat /\ MaxPushes \in Nat
    BY <2>1, SizesOf, Sizes DEF Shapes
  <2>7. Len(stack) <= MaxPushes
    <3>1. Len(stack) + Len(taken) + Cardinality(At(Pushing)) = pushed
      BY <2>1 DEF Counts
    <3> QED
      BY <2>5, <2>6, <3>1
  <2>8. m_size = Len(stack) - Cardinality(At(Owing))
    BY <2>1 DEF Counts
  <2>9. m_size \in -Cardinality(Threads) .. MaxPushes
    BY <2>3, <2>5, <2>6, <2>7, <2>8
  <2> QED
    BY <2>1, <2>9 DEF TypeOK, Shapes
<1> QED
  BY <1>1, IInvHolds, PTL

\* The links lead from m_top over the nodes that were pushed and not popped to the dummy,
\* and every node is free, on the stack or with one thread, whatever a CAS met.
THEOREM NodesOwnedHolds == Spec => []NodesOwned
<1>1. IInv => NodesOwned
  BY DEF IInv
<1> QED
  BY <1>1, IInvHolds, PTL

LEMMA NotBottom ==
  ASSUME IInv, NEW i \in 1 .. Len(stack)
  PROVE  stack[i] # dummy
<1>1. Shapes /\ Places
  BY PlacesAre DEF IInv, NodesOwned
<1>2. Linked[i] = stack[i] /\ Linked[Len(stack) + 1] = dummy /\ Len(stack) \in Nat
  BY <1>1, LinkedIs, SizesOf
<1>3. i \in 1 .. Len(Linked) /\ Len(stack) + 1 \in 1 .. Len(Linked) /\ i # Len(stack) + 1
  BY <1>1, <1>2, LengthIs
<1> QED
  BY <1>1, <1>2, <1>3 DEF Places, Distinct

\* A Pop that m_size let in never reads the dummy at m_top: there is a node above it for
\* every Pop that was counted and for every Push that was not counted yet.
THEOREM BottomStaysHolds == Spec => []BottomStays
<1>1. ASSUME IInv, NEW t \in Threads, pc[t] \in Popping PROVE m_top # dummy
  <2>1. Shapes /\ Counts /\ m_top = Linked[1]
    BY <1>1 DEF IInv, NodesOwned
  <2>2. pc[t] \in Taking
    BY <1>1 DEF Taking
  <2>3. Cardinality(At(Taking)) \in Nat /\ 1 <= Cardinality(At(Taking))
    BY <2>2, SomeAre
  <2>4. Cardinality(At(Taking)) <= Len(stack) /\ Len(stack) \in Nat
    BY <2>1, SizesOf DEF Counts
  <2>5. 1 \in 1 .. Len(stack)
    BY <2>3, <2>4
  <2>6. m_top = stack[1]
    BY <2>1, <2>5, LinkedIs
  <2> QED
    BY <1>1, <2>5, <2>6, NotBottom
<1>2. IInv => BottomStays
  BY <1>1 DEF BottomStays
<1> QED
  BY <1>2, IInvHolds, PTL

\* m_size is the number of nodes above the dummy whenever no call is under way: what Pop
\* takes off in advance and what Push adds afterwards come out even.
THEOREM SizeSettlesHolds == Spec => []SizeSettles
<1>1. ASSUME IInv, \A t \in Threads : pc[t] = "idle" PROVE m_size = Len(stack)
  <2>1. At(Owing) = {}
    BY <1>1 DEF At, AtIn, Owing, Taking, Popping
  <2>2. Cardinality(At(Owing)) = 0
    BY <2>1, FS_EmptySet
  <2>3. m_size = Len(stack) - Cardinality(At(Owing)) /\ Len(stack) \in Nat
    BY <1>1, SizesOf DEF IInv, Counts
  <2> QED
    BY <2>2, <2>3
<1>2. IInv => SizeSettles
  BY <1>1 DEF SizeSettles
<1> QED
  BY <1>2, IInvHolds, PTL

-----------------------------------------------------------------------------
(* Push and Pop are MessageStack. *)

Waiting == (1 .. pushed) \ (Elements(Contents) \cup Elements(taken))

Read(d, s) == [i \in 1 .. Len(s) |-> d[Addr(s[i])]]

LEMMA ContentsRead == Contents = Read(data, stack) /\ Contents' = Read(data', stack')
BY DEF Contents, Read

LEMMA MadeSeq ==
  ASSUME NEW S, NEW n \in Nat, NEW f, \A i \in 1 .. n : f[i] \in S
  PROVE  /\ [i \in 1 .. n |-> f[i]] \in Seq(S)
         /\ Len([i \in 1 .. n |-> f[i]]) = n
OBVIOUS

LEMMA IsSeq ==
  ASSUME NEW S, NEW n \in Nat, NEW f \in [1 .. n -> S]
  PROVE  f \in Seq(S) /\ Len(f) = n
<1>1. f = [i \in 1 .. n |-> f[i]] /\ \A i \in 1 .. n : f[i] \in S
  OBVIOUS
<1>2. PICK g : g = [i \in 1 .. n |-> f[i]]
  OBVIOUS
<1>3. g \in Seq(S) /\ Len(g) = n
  BY <1>1, <1>2, MadeSeq
<1> QED
  BY <1>1, <1>2, <1>3, Zenon

LEMMA ReadIs ==
  ASSUME NEW d, NEW s, Len(s) \in Nat, \A i \in 1 .. Len(s) : d[Addr(s[i])] \in 1 .. MaxPushes
  PROVE  /\ Read(d, s) \in Seq(1 .. MaxPushes) /\ Len(Read(d, s)) = Len(s)
         /\ \A i \in 1 .. Len(s) : Read(d, s)[i] = d[Addr(s[i])]
         /\ \A m : m \in Elements(Read(d, s)) <=> \E i \in 1 .. Len(s) : m = d[Addr(s[i])]
<1>1. PICK n \in Nat : n = Len(s)
  OBVIOUS
<1>2. PICK f : f = Read(d, s)
  OBVIOUS
<1>3. DOMAIN f = 1 .. n /\ \A i \in 1 .. n : f[i] = d[Addr(s[i])]
  BY <1>1, <1>2 DEF Read
<1>4. f = [i \in 1 .. n |-> f[i]]
  BY <1>1, <1>2 DEF Read
<1>5. \A i \in 1 .. n : f[i] \in 1 .. MaxPushes
  BY <1>1, <1>3
<1>6. f \in Seq(1 .. MaxPushes) /\ Len(f) = n
  <2>1. f \in [1 .. n -> 1 .. MaxPushes]
    BY <1>4, <1>5
  <2> QED
    BY <2>1, IsSeq
<1> QED
  BY <1>1, <1>2, <1>3, <1>6 DEF Elements

LEMMA ContentsAre ==
  ASSUME IInv
  PROVE  /\ Len(stack) \in Nat /\ Contents \in Seq(1 .. MaxPushes) /\ Len(Contents) = Len(stack)
         /\ \A i \in 1 .. Len(stack) : Contents[i] = data[Addr(stack[i])]
         /\ \A m : m \in Elements(Contents) <=> \E i \in 1 .. Len(stack) : m = data[Addr(stack[i])]
         /\ Elements(Contents) \subseteq 1 .. pushed
<1>1. Shapes /\ Entered
  BY DEF IInv
<1>2. Len(stack) \in Nat /\ pushed \in Nat /\ pushed <= MaxPushes /\ MaxPushes \in Nat
  BY <1>1, SizesOf, Sizes DEF Shapes
<1>3. ASSUME NEW i \in 1 .. Len(stack) PROVE data[Addr(stack[i])] \in 1 .. pushed
  BY <1>1 DEF Entered
<1>4. ASSUME NEW i \in 1 .. Len(stack) PROVE data[Addr(stack[i])] \in 1 .. MaxPushes
  BY <1>2, <1>3
<1>5. PICK s, d : s = stack /\ d = data
  OBVIOUS
<1>6. /\ Read(d, s) \in Seq(1 .. MaxPushes) /\ Len(Read(d, s)) = Len(s)
      /\ \A i \in 1 .. Len(s) : Read(d, s)[i] = d[Addr(s[i])]
      /\ \A m : m \in Elements(Read(d, s)) <=> \E i \in 1 .. Len(s) : m = d[Addr(s[i])]
  <2>1. Len(s) \in Nat /\ \A i \in 1 .. Len(s) : d[Addr(s[i])] \in 1 .. MaxPushes
    BY <1>2, <1>4, <1>5
  <2> QED
    BY <2>1, ReadIs
<1>7. Contents = Read(d, s)
  BY <1>5, ContentsRead
<1>8. Elements(Contents) \subseteq 1 .. pushed
  BY <1>3, <1>5, <1>6, <1>7
<1> QED
  BY <1>2, <1>5, <1>6, <1>7, <1>8

LEMMA ContentsNext ==
  ASSUME IInv'
  PROVE  /\ Len(stack') \in Nat /\ Contents' \in Seq(1 .. MaxPushes) /\ Len(Contents') = Len(stack')
         /\ \A i \in 1 .. Len(stack') : Contents'[i] = data'[Addr(stack'[i])]
         /\ \A m : m \in Elements(Contents') <=> \E i \in 1 .. Len(stack') : m = data'[Addr(stack'[i])]
<1>1. Shapes' /\ Entered'
  BY DEF IInv
<1>2. Len(stack') \in Nat /\ pushed' \in Nat /\ pushed' <= MaxPushes /\ MaxPushes \in Nat
  BY <1>1, SizesNext, Sizes DEF Shapes
<1>3. ASSUME NEW i \in 1 .. Len(stack') PROVE data'[Addr(stack'[i])] \in 1 .. pushed'
  BY <1>1 DEF Entered
<1>4. ASSUME NEW i \in 1 .. Len(stack') PROVE data'[Addr(stack'[i])] \in 1 .. MaxPushes
  BY <1>2, <1>3
<1>5. PICK s, d : s = stack' /\ d = data'
  OBVIOUS
<1>6. /\ Read(d, s) \in Seq(1 .. MaxPushes) /\ Len(Read(d, s)) = Len(s)
      /\ \A i \in 1 .. Len(s) : Read(d, s)[i] = d[Addr(s[i])]
      /\ \A m : m \in Elements(Read(d, s)) <=> \E i \in 1 .. Len(s) : m = d[Addr(s[i])]
  <2>1. Len(s) \in Nat /\ \A i \in 1 .. Len(s) : d[Addr(s[i])] \in 1 .. MaxPushes
    BY <1>2, <1>4, <1>5
  <2> QED
    BY <2>1, ReadIs
<1>7. Contents' = Read(d, s)
  BY <1>5, ContentsRead
<1> QED
  BY <1>2, <1>5, <1>6, <1>7

\* A list with one message more on top
LEMMA PutIs ==
  ASSUME NEW S, NEW C \in Seq(S), NEW D \in Seq(S), NEW m \in S, IsOver(D, m, C)
  PROVE  D = <<m>> \o C
<1>1. Len(C) \in Nat /\ Len(D) = Len(C) + 1 /\ D[1] = m
  BY DEF IsOver
<1>2. PICK E : E = <<m>> \o C
  OBVIOUS
<1>3. E \in Seq(S) /\ IsOver(E, m, C)
  BY <1>2, PutOver
<1>4. Len(D) = Len(E)
  BY <1>3 DEF IsOver
<1>5. ASSUME NEW j \in 1 .. Len(D) PROVE D[j] = E[j]
  <2>1. CASE j = 1
    BY <1>3, <2>1 DEF IsOver
  <2>2. CASE j # 1
    <3>1. j - 1 \in 1 .. Len(C) /\ D[j] = C[j - 1]
      BY <1>1, <2>2, Over
    <3>2. j \in 1 .. Len(E)
      BY <1>4
    <3>3. E[j] = C[j - 1]
      BY <1>1, <1>3, <2>2, <3>2, Over
    <3> QED
      BY <3>1, <3>3
  <2> QED
    BY <2>1, <2>2
<1>6. D = E
  BY <1>3, <1>4, <1>5, SeqEqual
<1> QED
  BY <1>2, <1>6
LEMMA TakeIs ==
  ASSUME NEW S, NEW C \in Seq(S), NEW D \in Seq(S), NEW m, IsOver(D, m, C)
  PROVE  Head(D) = m /\ C = Tail(D) /\ D # <<>>
<1>1. Len(C) \in Nat /\ Len(D) = Len(C) + 1 /\ D[1] = m
  BY DEF IsOver
<1>2. C = Tail(D)
  <2>1. PICK E : E = Tail(D)
    OBVIOUS
  <2>2. E \in Seq(S) /\ IsOver(D, m, E)
    BY <1>1, <2>1, TakenOff
  <2>3. Len(C) = Len(E)
    BY <1>1, <2>2 DEF IsOver
  <2>4. ASSUME NEW i \in 1 .. Len(C) PROVE C[i] = E[i]
    BY <2>2, <2>3 DEF IsOver
  <2>5. C = E
    BY <2>2, <2>3, <2>4, SeqEqual
  <2> QED
    BY <2>1, <2>5
<1>3. D # <<>> /\ Head(D) = m
  BY <1>1
<1> QED
  BY <1>2, <1>3

LEMMA ElementsOver ==
  ASSUME NEW S, NEW C \in Seq(S), NEW D \in Seq(S), NEW m, IsOver(D, m, C)
  PROVE  Elements(D) = {m} \cup Elements(C)
<1>1. Len(C) \in Nat /\ DOMAIN C = 1 .. Len(C) /\ DOMAIN D = 1 .. Len(D)
  OBVIOUS
<1>2. /\ 1 \in 1 .. Len(D) /\ D[1] = m
      /\ \A i \in 1 .. Len(C) : i + 1 \in 1 .. Len(D) /\ D[i + 1] = C[i]
      /\ \A j \in 1 .. Len(D) : j = 1 \/ (j - 1 \in 1 .. Len(C) /\ D[j] = C[j - 1])
  BY <1>1, Over
<1>3. ASSUME NEW x \in Elements(D) PROVE x \in {m} \cup Elements(C)
  <2>1. PICK j \in 1 .. Len(D) : x = D[j]
    BY <1>1 DEF Elements
  <2> QED
    BY <1>1, <1>2, <2>1 DEF Elements
<1>4. ASSUME NEW x \in Elements(C) PROVE x \in Elements(D)
  <2>1. PICK i \in 1 .. Len(C) : x = C[i]
    BY <1>1 DEF Elements
  <2> QED
    BY <1>1, <1>2, <2>1 DEF Elements
<1>5. m \in Elements(D)
  BY <1>1, <1>2 DEF Elements
<1> QED
  BY <1>3, <1>4, <1>5

LEMMA ElementsAppended ==
  ASSUME NEW S, NEW C \in Seq(S), NEW D \in Seq(S), NEW m, Len(D) = Len(C) + 1, D[Len(C) + 1] = m,
         \A i \in 1 .. Len(C) : D[i] = C[i]
  PROVE  Elements(D) = {m} \cup Elements(C)
<1>1. Len(C) \in Nat /\ DOMAIN C = 1 .. Len(C) /\ DOMAIN D = 1 .. Len(D)
  OBVIOUS
<1>2. /\ Len(C) + 1 \in 1 .. Len(D) /\ \A i \in 1 .. Len(C) : i \in 1 .. Len(D)
      /\ \A j \in 1 .. Len(D) : j = Len(C) + 1 \/ j \in 1 .. Len(C)
  BY <1>1
<1>3. ASSUME NEW x \in Elements(D) PROVE x \in {m} \cup Elements(C)
  <2>1. PICK j \in 1 .. Len(D) : x = D[j]
    BY <1>1 DEF Elements
  <2> QED
    BY <1>1, <1>2, <2>1 DEF Elements
<1>4. ASSUME NEW x \in Elements(C) PROVE x \in Elements(D)
  <2>1. PICK i \in 1 .. Len(C) : x = C[i]
    BY <1>1 DEF Elements
  <2> QED
    BY <1>1, <1>2, <2>1 DEF Elements
<1>5. m \in Elements(D)
  BY <1>1, <1>2 DEF Elements
<1> QED
  BY <1>3, <1>4, <1>5

Unseen == Waiting' = Waiting /\ Contents' = Contents /\ taken' = taken

LEMMA QuietContents ==
  ASSUME IInv, NEW t \in Threads, Step(t), Quiet
  PROVE  Contents' = Contents /\ taken' = taken
<1>1. stack' = stack /\ taken' = taken
  BY DEF Quiet
<1>2. \A i \in 1 .. Len(stack) : data'[Addr(stack[i])] = data[Addr(stack[i])]
  BY StackKept
<1>3. Read(data', stack) = Read(data, stack)
  BY <1>2 DEF Read
<1> QED
  BY <1>1, <1>3, ContentsRead

LEMMA TakenAre ==
  ASSUME IInv
  PROVE  /\ pushed \in Nat /\ Len(taken) \in Nat /\ taken \in Seq(1 .. MaxPushes) /\ Elements(taken) \subseteq 1 .. pushed
         /\ \A m : m \in Elements(taken) <=> \E i \in 1 .. Len(taken) : m = taken[i]
<1>1. Shapes /\ Entered
  BY DEF IInv
<1>2. taken \in Seq(1 .. MaxPushes) /\ DOMAIN taken = 1 .. Len(taken) /\ Len(taken) \in Nat /\ pushed \in Nat
  BY <1>1, SizesOf DEF Shapes
<1>3. \A m : m \in Elements(taken) <=> \E i \in 1 .. Len(taken) : m = taken[i]
  BY <1>2 DEF Elements
<1> QED
  BY <1>1, <1>2, <1>3 DEF Entered

LEMMA BeginsMessage ==
  ASSUME IInv, NEW t \in Threads, CallPush(t)
  PROVE  Stack!Next
<1>1. Step(t) /\ Quiet /\ pushed' = pushed + 1 /\ pushed < MaxPushes
  BY DEF Step, PushStep, CallPush, Quiet
<1>2. Contents' = Contents /\ taken' = taken
  BY <1>1, QuietContents
<1>3. pushed \in Nat /\ Elements(Contents) \subseteq 1 .. pushed /\ Elements(taken) \subseteq 1 .. pushed
  BY ContentsAre, TakenAre
<1>4. PICK m : m = pushed + 1
  OBVIOUS
<1>5. m \in 1 .. MaxPushes /\ m \notin 1 .. pushed /\ 1 .. m = (1 .. pushed) \cup {m}
  BY <1>1, <1>3, <1>4, Sizes
<1>6. m \notin Waiting /\ m \notin Elements(Contents) /\ m \notin Elements(taken)
  BY <1>3, <1>5 DEF Waiting
<1>7. Waiting' = Waiting \cup {m}
  BY <1>1, <1>2, <1>3, <1>4, <1>5 DEF Waiting
<1>8. Stack!Range(Contents) = Elements(Contents) /\ Stack!Range(taken) = Elements(taken)
  BY DEF Stack!Range, Elements
<1> HIDE DEF Contents
<1>9. Stack!Begin(m)
  BY <1>2, <1>6, <1>7, <1>8 DEF Stack!Begin, Waiting
<1> QED
  BY <1>5, <1>9 DEF Stack!Next

LEMMA EntersMessage ==
  ASSUME IInv, IInv', NEW t \in Threads, Enters(t)
  PROVE  Stack!Next
<1>1. Shapes /\ Own(t) /\ Names(t)
  BY DEF IInv
<1>2. /\ pc[t] = "pushCAS" /\ data' = data /\ pushed' = pushed /\ taken' = taken
      /\ IsOver(stack', reg[t].node, stack)
  BY <1>1, EntersFirst DEF memory
<1>3. PICK m : m = reg[t].msg
  OBVIOUS
<1>4. /\ m \in 1 .. pushed /\ data[Addr(reg[t].node)] = m
      /\ \A i \in 1 .. Len(stack) : data[Addr(stack[i])] # m
      /\ \A i \in 1 .. Len(taken) : taken[i] # m
  BY <1>1, <1>2, <1>3 DEF Own, Names, Ready, Pushing, Held
<1>5. m \in 1 .. MaxPushes
  BY <1>1, <1>4, SizesOf, Sizes DEF Shapes
<1>6. PICK C, D : C = Contents /\ D = Contents'
  OBVIOUS
<1>7. C \in Seq(1 .. MaxPushes) /\ D \in Seq(1 .. MaxPushes)
  BY <1>6, ContentsAre, ContentsNext
<1>8. IsOver(D, m, C)
  <2>1. /\ Len(stack) \in Nat /\ Len(C) = Len(stack) /\ Len(D) = Len(stack')
        /\ \A i \in 1 .. Len(stack) : C[i] = data[Addr(stack[i])]
        /\ \A i \in 1 .. Len(stack') : D[i] = data[Addr(stack'[i])]
    BY <1>2, <1>6, ContentsAre, ContentsNext
  <2>2. Len(D) = Len(C) + 1 /\ stack'[1] = reg[t].node
    BY <1>2, <2>1 DEF IsOver
  <2>3. D[1] = m
    BY <1>4, <2>1, <2>2
  <2>4. ASSUME NEW i \in 1 .. Len(C) PROVE D[i + 1] = C[i]
    <3>1. i + 1 \in 1 .. Len(stack') /\ stack'[i + 1] = stack[i]
      BY <1>2, <2>1, Over
    <3> QED
      BY <2>1, <3>1
  <2> QED
    BY <2>2, <2>3, <2>4 DEF IsOver
<1>9. D = <<m>> \o C
  BY <1>5, <1>7, <1>8, PutIs
<1>10. Elements(D) = {m} \cup Elements(C)
  BY <1>7, <1>8, ElementsOver
<1>11. m \notin Elements(Contents) /\ m \notin Elements(taken)
  BY <1>4, ContentsAre, TakenAre
<1>12. m \in Waiting /\ Waiting' = Waiting \ {m}
  BY <1>2, <1>4, <1>6, <1>10, <1>11 DEF Waiting
<1> HIDE DEF Contents
<1>13. Stack!Enter(m)
  BY <1>2, <1>6, <1>9, <1>12 DEF Stack!Enter, Waiting
<1> QED
  BY <1>5, <1>13 DEF Stack!Next

LEMMA TakesMessage ==
  ASSUME IInv, IInv', NEW t \in Threads, Takes(t)
  PROVE  Stack!Next
<1>1. /\ data' = data /\ pushed' = pushed /\ IsOver(stack, stack[1], stack')
      /\ taken' = Append(taken, reg[t].msg) /\ taken' \in Seq(1 .. MaxPushes)
      /\ Len(taken') = Len(taken) + 1 /\ taken'[Len(taken) + 1] = reg[t].msg
      /\ \A i \in 1 .. Len(taken) : taken'[i] = taken[i]
  BY TakesOff DEF memory
<1>2. PICK m : m = reg[t].msg
  OBVIOUS
<1>3. 1 \in 1 .. Len(stack) /\ m = data[Addr(stack[1])] /\ m \in 1 .. pushed
  BY <1>2, TakesFirst
<1>4. PICK C, D : C = Contents' /\ D = Contents
  OBVIOUS
<1>5. C \in Seq(1 .. MaxPushes) /\ D \in Seq(1 .. MaxPushes)
  BY <1>4, ContentsAre, ContentsNext
<1>6. IsOver(D, m, C)
  <2>1. /\ Len(stack) \in Nat /\ Len(stack') \in Nat /\ Len(C) = Len(stack') /\ Len(D) = Len(stack)
        /\ \A i \in 1 .. Len(stack') : C[i] = data[Addr(stack'[i])]
        /\ \A i \in 1 .. Len(stack) : D[i] = data[Addr(stack[i])]
    BY <1>1, <1>4, ContentsAre, ContentsNext
  <2>2. Len(D) = Len(C) + 1
    BY <1>1, <2>1 DEF IsOver
  <2>3. D[1] = m
    BY <1>3, <2>1
  <2>4. ASSUME NEW i \in 1 .. Len(C) PROVE D[i + 1] = C[i]
    <3>1. i + 1 \in 1 .. Len(stack) /\ stack[i + 1] = stack'[i]
      BY <1>1, <2>1, Over
    <3> QED
      BY <2>1, <3>1
  <2> QED
    BY <2>2, <2>3, <2>4 DEF IsOver
<1>7. m \in 1 .. MaxPushes
  <2>1. pushed \in 0 .. MaxPushes /\ MaxPushes \in Nat
    BY Sizes DEF IInv, Shapes
  <2> QED
    BY <1>3, <2>1
<1>8. Head(D) = m /\ C = Tail(D) /\ D # <<>>
  BY <1>5, <1>6, <1>7, TakeIs
<1>9. Elements(D) = {m} \cup Elements(C)
  BY <1>5, <1>6, ElementsOver
<1>10. Elements(taken') = {m} \cup Elements(taken)
  <2>1. PICK P, Q : P = taken /\ Q = taken'
    OBVIOUS
  <2>2. P \in Seq(1 .. MaxPushes) /\ Q \in Seq(1 .. MaxPushes)
    BY <1>1, <2>1, TakenAre
  <2>3. Len(Q) = Len(P) + 1 /\ Q[Len(P) + 1] = m /\ \A i \in 1 .. Len(P) : Q[i] = P[i]
    BY <1>1, <1>2, <2>1
  <2>4. Elements(Q) = {m} \cup Elements(P)
    BY <2>2, <2>3, ElementsAppended
  <2> QED
    BY <2>1, <2>4
<1>11. Waiting' = Waiting
  BY <1>1, <1>4, <1>9, <1>10 DEF Waiting
<1> HIDE DEF Contents
<1>12. Stack!Take
  BY <1>1, <1>2, <1>4, <1>8, <1>11 DEF Stack!Take, Waiting
<1> QED
  BY <1>12 DEF Stack!Next

LEMMA StepSeen ==
  ASSUME IInv, IInv', [Next]_vars
  PROVE  Stack!Next \/ Unseen
<1>1. CASE Next
  <2>1. PICK t \in Threads : Step(t)
    BY <1>1 DEF Next, Step
  <2>2. CASE Enters(t)
    BY <2>2, EntersMessage
  <2>3. CASE Takes(t)
    BY <2>3, TakesMessage
  <2>4. CASE CallPush(t)
    BY <2>4, BeginsMessage
  <2>5. CASE Quiet /\ ~CallPush(t)
    <3>1. Contents' = Contents /\ taken' = taken
      BY <2>1, <2>5, QuietContents
    <3>2. pushed' = pushed
      BY <2>1, <2>5 DEF Step, PushStep, PopStep, log,
         Alloc, Fill, TagNode, ReadTop, WriteNext, PushCAS, CountPush,
         CallPop, PopsNothing, PopTop, PopNext, PopData, PopCAS, Hang, Release
    <3> QED
      BY <3>1, <3>2 DEF Unseen, Waiting
  <2> QED
    BY <2>1, <2>2, <2>3, <2>4, <2>5, Kinds
<1>2. CASE UNCHANGED vars
  <2>1. data' = data /\ stack' = stack /\ taken' = taken /\ pushed' = pushed
    BY <1>2 DEF vars, memory, log
  <2>2. Contents' = Contents
    BY <2>1 DEF Contents
  <2> QED
    BY <2>1, <2>2 DEF Unseen, Waiting
<1> QED
  BY <1>1, <1>2

LEMMA StackInit == Init => Stack!Init
<1> SUFFICES ASSUME Init PROVE Stack!Init
  OBVIOUS
<1>1. pushed = 0 /\ stack = <<>> /\ taken = <<>>
  BY DEF Init
<1>2. Contents = <<>>
  BY <1>1 DEF Contents
<1>3. Waiting = {}
  BY <1>1 DEF Waiting
<1> HIDE DEF Contents
<1> QED
  BY <1>1, <1>2, <1>3 DEF Stack!Init, Waiting

\* However the reads, writes and CASes of the threads interleave, Push and Pop of
\* CLockFreeStack are a stack: a message enters once, on top, in the CAS of Push, and the
\* CAS of Pop takes the message on top, the one that Pop read before.
THEOREM StackSpecHolds == Spec => StackSpec
<1>1. IInv /\ IInv' /\ [Next]_vars => Stack!Next \/ Unseen
  BY StepSeen
<1>2. Stack!Next \/ Unseen => [Stack!Next]_<<Waiting, Contents, taken>>
  BY DEF Unseen
<1>3. Spec => [][Stack!Next]_<<Waiting, Contents, taken>>
  BY <1>1, <1>2, IInvHolds, PTL DEF Spec
<1>4. Spec => Stack!Init
  BY StackInit DEF Spec
<1> QED
  BY <1>3, <1>4, PTL DEF StackSpec, Stack!Spec, Waiting

=============================================================================
