------------------------------ MODULE MCReplay ------------------------------
(* Model of Replay for TLC. *)
EXTENDS Replay
=============================================================================
