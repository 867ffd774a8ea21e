-------------------------- MODULE MCChattingServer --------------------------
(* Small instances of ChattingServer for TLC. *)
EXTENDS ChattingServer, TLC

\* Workers run the same code, and so do the clients that are honest.
Symmetry == Permutations(Workers) \cup Permutations(Honest)
=============================================================================
