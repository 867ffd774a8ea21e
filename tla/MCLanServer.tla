----------------------------- MODULE MCLanServer -----------------------------
(* Small instances of LanServer for TLC. *)
EXTENDS LanServer, TLC

\* Workers run the same code.
WorkerSymmetry == Permutations(Workers)
=============================================================================
