------------------------------ MODULE MCStream ------------------------------
(***************************************************************************)
(* One attempt with a few output items, and two calls of what its tools    *)
(* may do to one file, checked as two parts that share no variable: each   *)
(* moves while the other stays in one of its initial states.               *)
(***************************************************************************)
EXTENDS Stream, AtomicFile

CONSTANTS t, h, c, z, i, j

VARIABLE part

allVars == <<vars, fileVars, part>>

PartsInit ==
  /\ part \in {"stream", "files"}
  /\ Init /\ FilesInit
  /\ part = "stream" => place = 0 /\ \A m \in Mutations : call[m].kind = "edit"
  /\ part = "files" => ~native

PartsNext ==
  \/ part = "stream" /\ Next /\ UNCHANGED <<fileVars, part>>
  \/ part = "files" /\ FilesNext /\ UNCHANGED <<vars, part>>

PartsSpec == PartsInit /\ [][PartsNext]_allVars
=============================================================================
