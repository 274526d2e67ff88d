--------------------------- MODULE MCBackground ---------------------------
(* One job and two roots, for TLC. *)
EXTENDS Background

CONSTANTS a, r, s

\* The first root's kernel creates every job.
MCOwner == [j \in Jobs |-> r]
=============================================================================
