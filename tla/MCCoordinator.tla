--------------------------- MODULE MCCoordinator ---------------------------
(* A user message, a follow-up of an extension and tool calls, for TLC. *)
EXTENDS Coordinator

CONSTANTS u1, f1, c1, c2
=============================================================================
