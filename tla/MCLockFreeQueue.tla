--------------------------- MODULE MCLockFreeQueue ---------------------------
(* Small instances of LockFreeQueue for TLC. *)
EXTENDS LockFreeQueue, TLC
=============================================================================
