----------------------------- MODULE MCContext -----------------------------
(* Instance of Context: a short history with one entry of an extension.     *)
EXTENDS Context
============================================================================
