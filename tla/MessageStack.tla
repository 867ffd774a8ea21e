---------------------------- MODULE MessageStack ----------------------------
(***************************************************************************)
(* What a stack promises the threads that share it: a message somebody     *)
(* began to push enters once, on top, and the one on top is taken.         *)
(***************************************************************************)
EXTENDS Naturals, Sequences, Functions

CONSTANT Messages

VARIABLES waiting, stack, taken

Init == waiting = {} /\ stack = <<>> /\ taken = <<>>

Begin(m) ==
  /\ m \notin waiting \cup Range(stack) \cup Range(taken)
  /\ waiting' = waiting \cup {m}
  /\ UNCHANGED <<stack, taken>>

Enter(m) ==
  /\ m \in waiting
  /\ waiting' = waiting \ {m}
  /\ stack' = <<m>> \o stack
  /\ UNCHANGED taken

Take ==
  /\ stack # <<>>
  /\ taken' = Append(taken, Head(stack))
  /\ stack' = Tail(stack)
  /\ UNCHANGED waiting

Next == Take \/ \E m \in Messages : Begin(m) \/ Enter(m)

Spec == Init /\ [][Next]_<<waiting, stack, taken>>
=============================================================================
