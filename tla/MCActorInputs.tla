--------------------------- MODULE MCActorInputs ---------------------------
(* One session's inputs, for TLC. *)
EXTENDS ActorInputs

CONSTANTS u, v, b, c
=============================================================================
