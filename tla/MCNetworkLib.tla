---------------------------- MODULE MCNetworkLib ----------------------------
(* Small instances of NetworkLib for TLC. *)
EXTENDS NetworkLib, TLC

\* Workers run the same code, and so do the application's threads.
ThreadSymmetry == Permutations(Workers) \cup Permutations(Contents)
=============================================================================
