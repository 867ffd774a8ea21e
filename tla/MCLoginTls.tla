----------------------------- MODULE MCLoginTls -----------------------------
(* Small instances of LoginTls for TLC. *)
EXTENDS LoginTls, TLC
=============================================================================
