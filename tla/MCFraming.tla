------------------------------ MODULE MCFraming ------------------------------
(* Model of Transport for TLC: a bare stream of MaxBytes byte classes, cut   *)
(* into data events in every way, or a child, a socket or a TLS socket that  *)
(* sends a few bytes while its callers close it.                             *)
EXTENDS Transport
==============================================================================
