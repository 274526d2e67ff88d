----------------------------- MODULE MCSessions -----------------------------
(* A root, its child and its grandchild, for TLC. *)
EXTENDS Sessions

CONSTANTS a, b, c

MCParent == [s \in {a, b, c} |-> CASE s = a -> NoId [] s = b -> a [] s = c -> b]
=============================================================================
