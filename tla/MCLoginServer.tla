---------------------------- MODULE MCLoginServer ----------------------------
(* Small instances of LoginServer for TLC. *)
EXTENDS LoginServer, TLC
=============================================================================
