---------------------------- MODULE MCConnection ----------------------------
(* Model of Connection for TLC: three calls of any kinds on one connection. *)
EXTENDS Connection
=============================================================================
