--------------------------- MODULE SessionService ---------------------------
(***************************************************************************)
(* What the network library promises the application that derives from     *)
(* it, without threads, counters or overlapped operations.  onAccept gives *)
(* a session an id that no session had before; a message posted to an open *)
(* session is queued; onSend gets the queued messages of a session once    *)
(* each, in the order they were posted if InOrder; onRelease ends the      *)
(* session once and drops the rest.  A call with the id of a session that  *)
(* ended does nothing.                                                     *)
(***************************************************************************)
EXTENDS Integers, SequencesExt

CONSTANTS
  Slots, Seqs, Messages,
  InOrder              \* BOOLEAN: no message overtakes one that was posted before it

VARIABLES
  current,             \* [Slots -> Seqs \cup {-1}]: the open session, -1 for none
  pending,             \* [Slots -> Seq(Messages)]
  accepted, released,  \* ids given to onAccept and to onRelease
  done                 \* messages given to onSend

service == <<current, pending, accepted, released, done>>

Init ==
  /\ current = [s \in Slots |-> -1]
  /\ pending = [s \in Slots |-> <<>>]
  /\ accepted = {} /\ released = {}
  /\ done = <<>>

\* No session had the id q; those of this slot had smaller ones.
Accept(s, q) ==
  /\ current[s] = -1
  /\ \A id \in accepted : id[2] # q /\ (id[1] = s => id[2] < q)
  /\ current' = [current EXCEPT ![s] = q]
  /\ accepted' = accepted \cup {<<s, q>>}
  /\ UNCHANGED <<pending, released, done>>

\* Where a message may be put among the n that wait.
Places(n) == IF InOrder THEN {n + 1} ELSE 1 .. n + 1

\* The call named this session and no other.
Post(s, m) ==
  /\ current[s] # -1
  /\ m.own = <<s, current[s]>>
  /\ \E i \in Places(Len(pending[s])) :
       pending' = [pending EXCEPT ![s] = InsertAt(@, i, m)]
  /\ UNCHANGED <<current, accepted, released, done>>

Deliver(s, n) ==
  /\ done' = done \o SubSeq(pending[s], 1, n)
  /\ pending' = [pending EXCEPT ![s] = SubSeq(@, n + 1, Len(@))]
  /\ UNCHANGED <<current, accepted, released>>

Release(s) ==
  /\ current[s] # -1
  /\ current' = [current EXCEPT ![s] = -1]
  /\ pending' = [pending EXCEPT ![s] = <<>>]
  /\ released' = released \cup {<<s, current[s]>>}
  /\ UNCHANGED <<accepted, done>>

Next ==
  \E s \in Slots :
    \/ \E q \in Seqs : Accept(s, q)
    \/ \E m \in Messages : Post(s, m)
    \/ \E n \in 1 .. Len(pending[s]) : Deliver(s, n)
    \/ Release(s)

Spec == Init /\ [][Next]_service
=============================================================================
