--------------------------- MODULE MCLockFreeStack ---------------------------
(* A small instance of LockFreeStack for TLC. *)
EXTENDS LockFreeStack, TLC
=============================================================================
