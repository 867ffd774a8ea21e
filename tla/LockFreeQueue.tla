---------------------------- MODULE LockFreeQueue ----------------------------
(***************************************************************************)
(* CLockFreeQueue over the CLeakDetectPool its nodes come from.            *)
(*                                                                         *)
(* A pointer is a pair <<tag, node>>: 17 bits of a counter over 47 bits of *)
(* address.  The queue's _next and the pool's are one field of a node, in  *)
(* builds without POOLTRACE; a link of the pool has no tag.  A thread      *)
(* makes one access to memory others write in a step.                      *)
(***************************************************************************)
EXTENDS Integers, Sequences, FiniteSets

CONSTANTS
  Threads,
  Tags,         \* 2^17
  Spare,        \* messages pushed and popped before: as many nodes are free
  MaxPushes     \* bound: calls of Push since; a message is the number of its call

ASSUME LockFreeQueueAssumption ==
  /\ IsFiniteSet(Threads)
  /\ {Spare, MaxPushes} \subseteq Nat
  /\ Tags \in Nat /\ Spare + MaxPushes < Tags   \* no thread sleeps through 2^17 operations

VARIABLES
  _next, data, _seqAddress,  \* the fields of a node
  _top, poolSeq, made,       \* the pool: free nodes, _seqNumber, nodes made so far
  _head, _tail, seqNumber, m_size,
  pc, reg,                   \* position and local variables of a thread
  pushed, taken              \* calls of Push so far; what Pop returned, in order

memory == <<_next, data, _seqAddress>>
pool   == <<_top, poolSeq, made>>
ends   == <<_head, _tail>>
counts == <<seqNumber, m_size>>
log    == <<pushed, taken>>
vars   == <<memory, pool, ends, counts, pc, reg, log>>

Null    == 0                \* nullptr
Dummy   == Spare + MaxPushes + 2    \* the pool's _dummy
Nodes   == 1 .. Spare + MaxPushes + 1
Ptr     == (0 .. Tags - 1) \X (0 .. Dummy)
Nothing == <<0, Null>>

Tag(p)  == p[1]
Addr(p) == p[2]             \* & ADDR_MASK

Locals   == [msg : 0 .. MaxPushes, node : Ptr, old : Ptr, new : Ptr,
             head : Ptr, tail : Ptr, next : Ptr]
NoLocals == [msg |-> 0, node |-> Nothing, old |-> Nothing, new |-> Nothing,
             head |-> Nothing, tail |-> Nothing, next |-> Nothing]

Goto(t, label) == pc' = [pc EXCEPT ![t] = label]
Set(t, f, v)   == reg' = [reg EXCEPT ![t][f] = v]

\* The thread has the node to itself, and needs no other local but the message.
Hold(t, n, label) ==
  /\ Goto(t, label)
  /\ reg' = [reg EXCEPT ![t] = [NoLocals EXCEPT !.msg = reg[t].msg, !.node = n]]

\* A call returns; its locals are gone.
Return(t) ==
  /\ Goto(t, "idle")
  /\ reg' = [reg EXCEPT ![t] = NoLocals]

-----------------------------------------------------------------------------
\* CLeakDetectPool::Alloc, called by Push

\* do { oldTop = _top: a node is made when only the dummy is there.
ReadTop(t) ==
  /\ pc[t] = "alloc"
  /\ IF Addr(_top) = Dummy
     THEN /\ made' = made + 1
          /\ Hold(t, <<0, made + 1>>, "clear")
     ELSE /\ Set(t, "old", _top)
          /\ Goto(t, "readNext")
          /\ UNCHANGED made
  /\ UNCHANGED <<memory, _top, poolSeq, ends, counts, log>>

\* newTopNode: nullptr or a queue's link goes on to the CAS with newTop as it was.
ReadFreeNext(t) ==
  LET n == _next[Addr(reg[t].old)]
  IN /\ pc[t] = "readNext"
     /\ IF Addr(n) = Null \/ Tag(n) # 0
        THEN Goto(t, "allocCAS") /\ UNCHANGED reg
        ELSE Goto(t, "readSeq") /\ Set(t, "next", n)
     /\ UNCHANGED <<memory, pool, ends, counts, log>>

ReadSeqAddress(t) ==
  /\ pc[t] = "readSeq"
  /\ Set(t, "new", _seqAddress[Addr(reg[t].next)])
  /\ Goto(t, "allocCAS")
  /\ UNCHANGED <<memory, pool, ends, counts, log>>

\* mutant: the CAS compares addresses without tags
AllocCASUntagged(t) ==
  /\ pc[t] = "allocCAS"
  /\ IF Addr(_top) = Addr(reg[t].old)
     THEN /\ _top' = reg[t].new
          /\ Hold(t, <<0, Addr(reg[t].old)>>, "clear")
     ELSE /\ Goto(t, "alloc")
          /\ UNCHANGED <<_top, reg>>
  /\ UNCHANGED <<memory, poolSeq, made, ends, counts, log>>

AllocCAS(t) ==
  /\ pc[t] = "allocCAS"
  /\ IF _top = reg[t].old
     THEN /\ _top' = reg[t].new
          /\ Hold(t, <<0, Addr(reg[t].old)>>, "clear")
     ELSE /\ Goto(t, "alloc")
          /\ UNCHANGED <<_top, reg>>
  /\ UNCHANGED <<memory, poolSeq, made, ends, counts, log>>

-----------------------------------------------------------------------------
\* CLockFreeQueue::Push

CallPush(t) ==
  /\ pc[t] = "idle" /\ pushed < MaxPushes
  /\ pushed' = pushed + 1
  /\ Set(t, "msg", pushed + 1)
  /\ Goto(t, "alloc")
  /\ UNCHANGED <<memory, pool, ends, counts, taken>>

\* The node's fields; a Pop that still reads this node will fail its CAS.
Fill(t) ==
  LET n == Addr(reg[t].node)
  IN /\ pc[t] = "clear"
     /\ _next' = [_next EXCEPT ![n] = Nothing]
     /\ data' = [data EXCEPT ![n] = reg[t].msg]
     /\ Goto(t, "count")
     /\ UNCHANGED <<_seqAddress, pool, ends, counts, reg, log>>

NewTag(n) == (n + 1) % Tags

CountPush(t) ==
  /\ pc[t] = "count"
  /\ seqNumber' = NewTag(seqNumber)
  /\ m_size' = m_size + 1
  /\ Set(t, "node", <<seqNumber', Addr(reg[t].node)>>)
  /\ Goto(t, "readTail")
  /\ UNCHANGED <<memory, pool, ends, log>>

ReadTail(t) ==
  /\ pc[t] = "readTail"
  /\ Set(t, "tail", _tail)
  /\ Goto(t, "readTailNext")
  /\ UNCHANGED <<memory, pool, ends, counts, log>>

ReadTailNext(t) ==
  LET n == _next[Addr(reg[t].tail)]
  IN /\ pc[t] = "readTailNext"
     /\ IF n = Nothing
        THEN Goto(t, "link") /\ UNCHANGED reg
        ELSE Goto(t, "helpTail") /\ Set(t, "next", n)
     /\ UNCHANGED <<memory, pool, ends, counts, log>>

\* CAS of _tail from the local tail to p.
SwingTail(t, p) == _tail' = IF _tail = reg[t].tail THEN p ELSE _tail

HelpTail(t) ==
  /\ pc[t] = "helpTail"
  /\ SwingTail(t, reg[t].next)
  /\ Goto(t, "readTail")
  /\ UNCHANGED <<memory, pool, _head, counts, reg, log>>

\* mutant: _next is stored without comparing
LinkStores(t, n) ==
  /\ _next' = [_next EXCEPT ![n] = reg[t].node]
  /\ Goto(t, "swing")

\* The CAS of tailAddr->_next expects nullptr, without a tag.
LinkCAS(t, n) ==
  IF _next[n] = Nothing
  THEN /\ _next' = [_next EXCEPT ![n] = reg[t].node]
       /\ Goto(t, "swing")
  ELSE /\ Goto(t, "readTail")
       /\ UNCHANGED _next

Link(t) ==
  /\ pc[t] = "link"
  /\ LinkCAS(t, Addr(reg[t].tail))
  /\ UNCHANGED <<data, _seqAddress, pool, ends, counts, reg, log>>

PushReturns(t) ==
  /\ pc[t] = "swing"
  /\ SwingTail(t, reg[t].node)
  /\ Return(t)
  /\ UNCHANGED <<memory, pool, _head, counts, log>>

-----------------------------------------------------------------------------
\* CLockFreeQueue::Pop

\* mutant: the count before the decrement is compared
CallPopComparesOld(t) ==
  /\ pc[t] = "idle"
  /\ m_size' = m_size - 1
  /\ Goto(t, IF m_size < 0 THEN "empty" ELSE "readHead")
  /\ UNCHANGED <<memory, pool, ends, seqNumber, reg, log>>

CallPop(t) ==
  /\ pc[t] = "idle"
  /\ m_size' = m_size - 1
  /\ Goto(t, IF m_size <= 0 THEN "empty" ELSE "readHead")
  /\ UNCHANGED <<memory, pool, ends, seqNumber, reg, log>>

PopsNothing(t) ==
  /\ pc[t] = "empty"
  /\ m_size' = m_size + 1
  /\ Return(t)
  /\ UNCHANGED <<memory, pool, ends, seqNumber, log>>

ReadHead(t) ==
  /\ pc[t] = "readHead"
  /\ Set(t, "head", _head)
  /\ Goto(t, "readLast")
  /\ UNCHANGED <<memory, pool, ends, counts, log>>

ReadLast(t) ==
  /\ pc[t] = "readLast"
  /\ Set(t, "tail", _tail)
  /\ Goto(t, IF reg[t].head = _tail THEN "lastNext" ELSE "headNext")
  /\ UNCHANGED <<memory, pool, ends, counts, log>>

\* head == tail: a message was counted but none is linked, or _tail lags.
ReadLastNext(t) ==
  LET n == _next[Addr(reg[t].tail)]
  IN /\ pc[t] = "lastNext"
     /\ IF n = Nothing
        THEN Goto(t, "readHead") /\ UNCHANGED reg
        ELSE Goto(t, "popHelps") /\ Set(t, "next", n)
     /\ UNCHANGED <<memory, pool, ends, counts, log>>

PopHelps(t) ==
  /\ pc[t] = "popHelps"
  /\ SwingTail(t, reg[t].next)
  /\ Goto(t, "headNext")
  /\ UNCHANGED <<memory, pool, _head, counts, reg, log>>

ReadHeadNext(t) ==
  LET n == _next[Addr(reg[t].head)]
  IN /\ pc[t] = "headNext"
     /\ IF n = Nothing
        THEN Goto(t, "readHead") /\ UNCHANGED reg
        ELSE Goto(t, "readData") /\ Set(t, "next", n)
     /\ UNCHANGED <<memory, pool, ends, counts, log>>

\* outData: next may be the pool's dummy, which has a data of its own.
ReadData(t) ==
  /\ pc[t] = "readData"
  /\ Set(t, "msg", data[Addr(reg[t].next)])
  /\ Goto(t, "popCAS")
  /\ UNCHANGED <<memory, pool, ends, counts, log>>

PopCAS(t) ==
  /\ pc[t] = "popCAS"
  /\ IF _head = reg[t].head
     THEN /\ _head' = reg[t].next
          /\ taken' = Append(taken, reg[t].msg)
          /\ Hold(t, <<0, Addr(reg[t].head)>>, "release")
     ELSE /\ Goto(t, "readHead")
          /\ UNCHANGED <<_head, taken, reg>>
  /\ UNCHANGED <<memory, pool, _tail, counts, pushed>>

-----------------------------------------------------------------------------
\* CLeakDetectPool::Release, called by Pop

Release(t) ==
  LET n == Addr(reg[t].node)
  IN /\ pc[t] = "release"
     /\ poolSeq' = NewTag(poolSeq)
     /\ _seqAddress' = [_seqAddress EXCEPT ![n] = <<poolSeq', n>>]
     /\ Set(t, "new", <<poolSeq', n>>)
     /\ Goto(t, "readFree")
     /\ UNCHANGED <<_next, data, _top, made, ends, counts, log>>

ReadFree(t) ==
  /\ pc[t] = "readFree"
  /\ Set(t, "old", _top)
  /\ Goto(t, "hang")
  /\ UNCHANGED <<memory, pool, ends, counts, log>>

\* retNode->_next = oldTopNode
Hang(t) ==
  /\ pc[t] = "hang"
  /\ _next' = [_next EXCEPT ![Addr(reg[t].node)] = <<0, Addr(reg[t].old)>>]
  /\ Goto(t, "releaseCAS")
  /\ UNCHANGED <<data, _seqAddress, pool, ends, counts, reg, log>>

ReleaseCAS(t) ==
  /\ pc[t] = "releaseCAS"
  /\ IF _top = reg[t].old
     THEN _top' = reg[t].new /\ Return(t)
     ELSE Goto(t, "readFree") /\ UNCHANGED <<_top, reg>>
  /\ UNCHANGED <<memory, poolSeq, made, ends, counts, log>>

-----------------------------------------------------------------------------
\* CLockFreeQueue() makes a node that is both ends; then Spare messages came and,
\* one after the other, went.
Init ==
  /\ _next = [n \in Nodes \cup {Dummy} |->
              CASE n = 1 /\ n <= Spare -> <<0, Dummy>>
                [] n \in 2 .. Spare    -> <<0, n - 1>>
                [] OTHER               -> Nothing]
  /\ data = [n \in Nodes \cup {Dummy} |-> 0]
  /\ _seqAddress = [n \in Nodes \cup {Dummy} |-> <<IF n <= Spare THEN n ELSE 0, n>>]
  /\ _top = _seqAddress[IF Spare = 0 THEN Dummy ELSE Spare]
  /\ poolSeq = Spare /\ made = Spare + 1
  /\ _head = <<Spare, Spare + 1>> /\ _tail = _head
  /\ seqNumber = Spare /\ m_size = 0
  /\ pc = [t \in Threads |-> "idle"]
  /\ reg = [t \in Threads |-> NoLocals]
  /\ pushed = 0 /\ taken = <<>>

AllocStep(t)   == ReadTop(t) \/ ReadFreeNext(t) \/ ReadSeqAddress(t) \/ AllocCAS(t)
PushStep(t)    == \/ Fill(t) \/ CountPush(t) \/ ReadTail(t) \/ ReadTailNext(t)
                  \/ HelpTail(t) \/ Link(t) \/ PushReturns(t)
PopStep(t)     == \/ PopsNothing(t) \/ ReadHead(t) \/ ReadLast(t) \/ ReadLastNext(t)
                  \/ PopHelps(t) \/ ReadHeadNext(t) \/ ReadData(t) \/ PopCAS(t)
ReleaseStep(t) == Release(t) \/ ReadFree(t) \/ Hang(t) \/ ReleaseCAS(t)

\* What a thread does inside a call.
Step(t) == AllocStep(t) \/ PushStep(t) \/ PopStep(t) \/ ReleaseStep(t)

Next == \E t \in Threads : Step(t) \/ CallPush(t) \/ CallPop(t)

Spec     == Init /\ [][Next]_vars
FairSpec == Spec /\ \A t \in Threads : WF_vars(Step(t))

-----------------------------------------------------------------------------
\* The variables hold pointers, nodes and messages.
TypeOK ==
  /\ _next \in [Nodes \cup {Dummy} -> Ptr]
  /\ data \in [Nodes \cup {Dummy} -> 0 .. MaxPushes]
  /\ _seqAddress \in [Nodes \cup {Dummy} -> Ptr]
  /\ {_top, _head, _tail} \subseteq Ptr
  /\ made \in Nodes
  /\ {poolSeq, seqNumber} \subseteq 0 .. Tags - 1
  /\ m_size \in Int
  /\ reg \in [Threads -> Locals]
  /\ pushed \in 0 .. MaxPushes
  /\ taken \in Seq(1 .. MaxPushes)

\* The nodes from a on, along _next, at most k of them.
Walk[k \in 0 .. Dummy] ==
  [a \in 0 .. Dummy |-> IF a \in {Null, Dummy} \/ k = 0
                       THEN <<>>
                       ELSE <<a>> \o Walk[k - 1][Addr(_next[a])]]

NodesFrom(p) == Walk[Dummy][Addr(p)]

\* A node with a message that is not in the queue yet, and what hangs behind it.
Pending == {"count", "readTail", "readTailNext", "helpTail", "link"}

InHand(t) ==
  CASE pc[t] \in Pending -> NodesFrom(reg[t].node)
    [] pc[t] \in {"clear", "release", "readFree", "hang", "releaseCAS"} -> <<Addr(reg[t].node)>>
    [] OTHER -> <<>>

Elements(s) == {s[i] : i \in DOMAIN s}

\* Every node the pool made is at one place, once: among the free nodes, in the
\* queue, or with one thread that allocated it or is to release it.
NodesOwned ==
  LET places == {NodesFrom(_top), NodesFrom(_head)} \cup {InHand(t) : t \in Threads}
  IN /\ UNION {Elements(p) : p \in places} = 1 .. made
     /\ \A p \in places : Cardinality(Elements(p)) = Len(p)
     /\ Elements(NodesFrom(_top)) \cap Elements(NodesFrom(_head)) = {}
     /\ \A t \in Threads :
          /\ Elements(InHand(t)) \cap Elements(NodesFrom(_top) \o NodesFrom(_head)) = {}
          /\ \A u \in Threads \ {t} : Elements(InHand(t)) \cap Elements(InHand(u)) = {}

\* Push and Pop are MessageQueue: the queue is the messages behind _head, and
\* one that was called for and is in neither the queue nor taken still waits.
Contents == LET q == NodesFrom(_head) IN [i \in 1 .. Len(q) - 1 |-> data[q[i + 1]]]

Queue == INSTANCE MessageQueue WITH
  Messages <- 1 .. MaxPushes,
  waiting  <- (1 .. pushed) \ (Elements(Contents) \cup Elements(taken)),
  queue    <- Contents

QueueSpec == Queue!Spec

\* A call returns: a Pop that counted a message waits in its loop for the Push
\* that is to link it, and no Push or Pop goes round for ever.
CallsEnd == \A t \in Threads : pc[t] # "idle" ~> pc[t] = "idle"
=============================================================================
