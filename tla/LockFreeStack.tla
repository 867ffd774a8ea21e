---------------------------- MODULE LockFreeStack ----------------------------
(***************************************************************************)
(* CLockFreeStack, the stack of CLanServer's free slots.                   *)
(*                                                                         *)
(* A pointer is a pair <<tag, node>> as in LockFreeQueue, which has the    *)
(* pool in detail.  Here the pool is a set of nodes, the nodes the heap    *)
(* still has among them: Alloc returns any of them, and Release writes the *)
(* node's _next, once or more, before the node is there.  A thread makes   *)
(* one access to memory others write in a step.                            *)
(***************************************************************************)
EXTENDS Integers, Sequences, FiniteSets

CONSTANTS
  Threads,
  Nodes, Null,  \* addresses; Null stands for nullptr and the pool's _dummy too
  Bottom,       \* the node `dummy`, made with the stack
  Tags,         \* 2^17
  MaxPushes     \* bound: calls of Push; a message is the number of its call

ASSUME LockFreeStackAssumption ==
  /\ IsFiniteSet(Threads)
  /\ Bottom \in Nodes /\ Null \notin Nodes
  /\ MaxPushes \in Nat /\ Tags \in Nat /\ MaxPushes < Tags   \* no thread sleeps through 2^17 pushes

VARIABLES
  _next, data,               \* the fields of a node
  free,                      \* m_pool, and what the heap has
  m_top, seqNumber, m_size,
  pc, reg,                   \* position and local variables of a thread
  pushed, stack, taken       \* log: calls of Push; the pointers that Push put on top and
                             \* no Pop took off, top first; what Pop returned, in order

memory == <<_next, data>>
counts == <<seqNumber, m_size>>
log    == <<pushed, stack, taken>>
vars   == <<memory, free, m_top, counts, pc, reg, log>>

Ptr   == (0 .. Tags - 1) \X (Nodes \cup {Null})
dummy == <<0, Bottom>>
Nothing == <<0, Null>>

Addr(p) == p[2]             \* & ADDR_MASK

Locals   == [msg : 0 .. MaxPushes, node : Ptr, old : Ptr, new : Ptr]
NoLocals == [msg |-> 0, node |-> Nothing, old |-> Nothing, new |-> Nothing]

Goto(t, label) == pc' = [pc EXCEPT ![t] = label]
Set(t, f, v)   == reg' = [reg EXCEPT ![t][f] = v]

\* A call returns; its locals are gone.
Return(t) ==
  /\ Goto(t, "idle")
  /\ reg' = [reg EXCEPT ![t] = NoLocals]

-----------------------------------------------------------------------------
\* Push

CallPush(t) ==
  /\ pc[t] = "idle" /\ pushed < MaxPushes
  /\ pushed' = pushed + 1
  /\ Set(t, "msg", pushed + 1)
  /\ Goto(t, "alloc")
  /\ UNCHANGED <<memory, free, m_top, counts, stack, taken>>

Alloc(t) ==
  /\ pc[t] = "alloc"
  /\ \E n \in free : /\ free' = free \ {n}
                     /\ Set(t, "node", <<0, n>>)
  /\ Goto(t, "fill")
  /\ UNCHANGED <<memory, m_top, counts, log>>

Fill(t) ==
  /\ pc[t] = "fill"
  /\ data' = [data EXCEPT ![Addr(reg[t].node)] = reg[t].msg]
  /\ Goto(t, "tag")
  /\ UNCHANGED <<_next, free, m_top, counts, reg, log>>

NewTag(n) == (n + 1) % Tags

TagNode(t) ==
  /\ pc[t] = "tag"
  /\ seqNumber' = NewTag(seqNumber)
  /\ Set(t, "node", <<seqNumber', Addr(reg[t].node)>>)
  /\ Goto(t, "readTop")
  /\ UNCHANGED <<memory, free, m_top, m_size, log>>

ReadTop(t) ==
  /\ pc[t] = "readTop"
  /\ Set(t, "old", m_top)
  /\ Goto(t, "writeNext")
  /\ UNCHANGED <<memory, free, m_top, counts, log>>

WriteNext(t) ==
  /\ pc[t] = "writeNext"
  /\ _next' = [_next EXCEPT ![Addr(reg[t].node)] = reg[t].old]
  /\ Goto(t, "pushCAS")
  /\ UNCHANGED <<data, free, m_top, counts, reg, log>>

\* mutant: a Push that goes round does not link its node again
PushCASReads(t) ==
  /\ pc[t] = "pushCAS"
  /\ IF m_top = reg[t].old
     THEN /\ m_top' = reg[t].node
          /\ stack' = <<reg[t].node>> \o stack
          /\ Goto(t, "countPush")
          /\ UNCHANGED reg
     ELSE /\ Set(t, "old", m_top)
          /\ UNCHANGED <<m_top, stack, pc>>
  /\ UNCHANGED <<memory, free, counts, pushed, taken>>

PushCAS(t) ==
  /\ pc[t] = "pushCAS"
  /\ IF m_top = reg[t].old
     THEN /\ m_top' = reg[t].node
          /\ stack' = <<reg[t].node>> \o stack
          /\ Goto(t, "countPush")
     ELSE /\ Goto(t, "readTop")
          /\ UNCHANGED <<m_top, stack>>
  /\ UNCHANGED <<memory, free, counts, reg, pushed, taken>>

CountPush(t) ==
  /\ pc[t] = "countPush"
  /\ m_size' = m_size + 1
  /\ Return(t)
  /\ UNCHANGED <<memory, free, m_top, seqNumber, log>>

-----------------------------------------------------------------------------
\* Pop

\* mutant: the count before the decrement is compared
CallPopComparesOld(t) ==
  /\ pc[t] = "idle"
  /\ m_size' = m_size - 1
  /\ Goto(t, IF m_size < 0 THEN "empty" ELSE "popTop")
  /\ UNCHANGED <<memory, free, m_top, seqNumber, reg, log>>

CallPop(t) ==
  /\ pc[t] = "idle"
  /\ m_size' = m_size - 1
  /\ Goto(t, IF m_size - 1 < 0 THEN "empty" ELSE "popTop")
  /\ UNCHANGED <<memory, free, m_top, seqNumber, reg, log>>

PopsNothing(t) ==
  /\ pc[t] = "empty"
  /\ m_size' = m_size + 1
  /\ Return(t)
  /\ UNCHANGED <<memory, free, m_top, seqNumber, log>>

\* oldTop == dummy: `continue` goes on to the CAS.
PopTop(t) ==
  /\ pc[t] = "popTop"
  /\ IF m_top = dummy
     THEN /\ reg' = [reg EXCEPT ![t].old = m_top, ![t].new = m_top]
          /\ Goto(t, "popCAS")
     ELSE /\ Set(t, "old", m_top)
          /\ Goto(t, "popNext")
  /\ UNCHANGED <<memory, free, m_top, counts, log>>

PopNext(t) ==
  /\ pc[t] = "popNext"
  /\ Set(t, "new", _next[Addr(reg[t].old)])
  /\ Goto(t, "popData")
  /\ UNCHANGED <<memory, free, m_top, counts, log>>

PopData(t) ==
  /\ pc[t] = "popData"
  /\ Set(t, "msg", data[Addr(reg[t].old)])
  /\ Goto(t, "popCAS")
  /\ UNCHANGED <<memory, free, m_top, counts, log>>

\* oldTop is off the stack, and the thread's to release.
PopsTop(t) ==
  /\ m_top' = reg[t].new
  /\ stack' = Tail(stack)
  /\ taken' = Append(taken, reg[t].msg)
  /\ Set(t, "node", <<0, Addr(reg[t].old)>>)
  /\ Goto(t, "hang")
  /\ UNCHANGED m_size

PopsAgain(t) ==
  /\ Goto(t, "popTop")
  /\ UNCHANGED <<m_top, m_size, stack, taken, reg>>

\* mutant: the CAS compares addresses without tags
PopCASUntagged(t) ==
  /\ pc[t] = "popCAS"
  /\ IF Addr(m_top) = Addr(reg[t].old) THEN PopsTop(t) ELSE PopsAgain(t)
  /\ UNCHANGED <<memory, free, seqNumber, pushed>>

\* mutant: a Pop that goes round counts again
PopCASCounts(t) ==
  /\ pc[t] = "popCAS"
  /\ IF m_top = reg[t].old
     THEN PopsTop(t)
     ELSE /\ Goto(t, "popTop")
          /\ m_size' = m_size - 1
          /\ UNCHANGED <<m_top, stack, taken, reg>>
  /\ UNCHANGED <<memory, free, seqNumber, pushed>>

PopCAS(t) ==
  /\ pc[t] = "popCAS"
  /\ IF m_top = reg[t].old THEN PopsTop(t) ELSE PopsAgain(t)
  /\ UNCHANGED <<memory, free, seqNumber, pushed>>

\* Release links the node to what it read as the pool's top until its CAS succeeds; that
\* node may be another thread's by now.
Hang(t) ==
  /\ pc[t] \in {"hang", "release"}
  /\ \E n \in (Nodes \ {Bottom}) \cup {Null} : _next' = [_next EXCEPT ![Addr(reg[t].node)] = <<0, n>>]
  /\ Goto(t, "release")
  /\ UNCHANGED <<data, free, m_top, counts, reg, log>>

Release(t) ==
  /\ pc[t] = "release"
  /\ free' = free \cup {Addr(reg[t].node)}
  /\ Return(t)
  /\ UNCHANGED <<memory, m_top, counts, log>>

-----------------------------------------------------------------------------
\* CLockFreeStack() takes the node that stays below all others.
Init ==
  /\ _next = [n \in Nodes |-> Nothing]
  /\ data = [n \in Nodes |-> 0]
  /\ free = Nodes \ {Bottom}
  /\ m_top = dummy /\ seqNumber = 0 /\ m_size = 0
  /\ pc = [t \in Threads |-> "idle"]
  /\ reg = [t \in Threads |-> NoLocals]
  /\ pushed = 0 /\ stack = <<>> /\ taken = <<>>

PushStep(t) == \/ CallPush(t) \/ Alloc(t) \/ Fill(t) \/ TagNode(t)
               \/ ReadTop(t) \/ WriteNext(t) \/ PushCAS(t) \/ CountPush(t)
PopStep(t)  == \/ CallPop(t) \/ PopsNothing(t) \/ PopTop(t) \/ PopNext(t)
               \/ PopData(t) \/ PopCAS(t) \/ Hang(t) \/ Release(t)

Next == \E t \in Threads : PushStep(t) \/ PopStep(t)

Spec == Init /\ [][Next]_vars

-----------------------------------------------------------------------------
Holding == {"fill", "tag", "readTop", "writeNext", "pushCAS", "hang", "release"}
Popping == {"popTop", "popNext", "popData", "popCAS"}
Labels  == Holding \cup Popping \cup {"idle", "alloc", "countPush", "empty"}

\* The variables hold pointers, nodes and messages; the size is below zero by the Pops
\* that are about to fail at most.
TypeOK ==
  /\ _next \in [Nodes -> Ptr] /\ data \in [Nodes -> 0 .. MaxPushes]
  /\ free \subseteq Nodes
  /\ m_top \in Ptr /\ seqNumber \in 0 .. Tags - 1
  /\ m_size \in -Cardinality(Threads) .. MaxPushes
  /\ pc \in [Threads -> Labels] /\ reg \in [Threads -> Locals]
  /\ pushed \in 0 .. MaxPushes
  /\ stack \in Seq(Ptr) /\ taken \in Seq(1 .. MaxPushes)

\* The node a thread took from the pool, or is to give back.
Held(t) == Addr(reg[t].node)

\* The nodes from m_top down, with the pointers that lead to them.
Linked == Append(stack, dummy)
On(n)  == \E i \in DOMAIN Linked : Addr(Linked[i]) = n

\* Every node is at one place, once: free, on the stack, or with one thread.
OnePlace ==
  /\ \A i, j \in DOMAIN Linked : Addr(Linked[i]) = Addr(Linked[j]) => i = j
  /\ \A n \in Nodes : n \in free \/ On(n) \/ \E t \in Threads : pc[t] \in Holding /\ Held(t) = n
  /\ \A n \in free : ~On(n)
  /\ \A t \in Threads : pc[t] \in Holding =>
       /\ Held(t) \notin free /\ ~On(Held(t))
       /\ \A u \in Threads \ {t} : pc[u] \in Holding => Held(u) # Held(t)

\* The links lead from m_top over the stack's nodes to the dummy, and no node of them is
\* free or in a thread's hands, although a Pop links m_top to what it read as the next
\* node when others may have popped and pushed since (ABA).
NodesOwned ==
  /\ m_top = Linked[1]
  /\ \A i \in DOMAIN stack : _next[Addr(stack[i])] = Linked[i + 1]
  /\ OnePlace

\* A Pop that was counted finds a node above the dummy as long as it goes round: it never
\* takes the branch for oldTop == dummy, whose CAS would give the dummy to the pool.
BottomStays == \A t \in Threads : pc[t] \in Popping => m_top # dummy

\* No slot number is lost to the count: m_size is what the stack has once no call is
\* under way.
SizeSettles == (\A t \in Threads : pc[t] = "idle") => m_size = Len(stack)

\* Push and Pop are MessageStack, with the messages of the stack's nodes.
Contents == [i \in 1 .. Len(stack) |-> data[Addr(stack[i])]]

Elements(s) == {s[i] : i \in DOMAIN s}

Stack == INSTANCE MessageStack WITH
  Messages <- 1 .. MaxPushes,
  waiting  <- (1 .. pushed) \ (Elements(Contents) \cup Elements(taken)),
  stack    <- Contents

StackSpec == Stack!Spec
=============================================================================
