---------------------------- MODULE MessageQueue -----------------------------
(***************************************************************************)
(* What a queue promises the threads that share it: a message somebody     *)
(* began to push enters once, and messages are taken in the order they     *)
(* entered.  Several may enter together.                                   *)
(***************************************************************************)
EXTENDS Naturals, Sequences, FiniteSets, Functions

CONSTANT Messages

VARIABLES waiting, queue, taken

Init == waiting = {} /\ queue = <<>> /\ taken = <<>>

Begin(m) ==
  /\ m \notin waiting \cup Range(queue) \cup Range(taken)
  /\ waiting' = waiting \cup {m}
  /\ UNCHANGED <<queue, taken>>

Enter ==
  \E S \in (SUBSET waiting) \ {{}} : \E batch \in Bijection(1 .. Cardinality(S), S) :
    /\ waiting' = waiting \ S
    /\ queue' = queue \o batch
    /\ UNCHANGED taken

Take ==
  /\ queue # <<>>
  /\ taken' = Append(taken, Head(queue))
  /\ queue' = Tail(queue)
  /\ UNCHANGED waiting

Next == Enter \/ Take \/ \E m \in Messages : Begin(m)

Spec == Init /\ [][Next]_<<waiting, queue, taken>>
=============================================================================
