----------------------------- MODULE MCHistory -----------------------------
(* Instance of History: one session of a few entries, two workers of it one *)
(* after the other, and one thing that goes wrong.                          *)
EXTENDS History
============================================================================
