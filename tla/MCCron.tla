------------------------------- MODULE MCCron -------------------------------
(***************************************************************************)
(* Two things that outlive the worker of a session, checked as two parts   *)
(* that share no variable: the scheduled jobs of an origin session, and    *)
(* the model that a session infers with.  Each part is explored from all   *)
(* of its own initial states while the other stays in one of its own.      *)
(***************************************************************************)
EXTENDS Cron, Inference, TLC

CONSTANTS a, b, origin

VARIABLE part

allVars == <<vars, infVars, part>>

PartsInit ==
  /\ Init /\ InferenceInit
  /\ \/ part = "cron" /\ settings = a /\ policy.source = "settings"
     \/ part = "inference"

PartsNext ==
  \/ part = "cron" /\ Next /\ UNCHANGED <<infVars, part>>
  \/ part = "inference" /\ InferenceNext /\ UNCHANGED <<vars, part>>

\* Where the model is what moves there is no job, and nothing that Fairness speaks of is enabled.
PartsSpec ==
  /\ PartsInit /\ [][PartsNext]_allVars /\ Fairness
  /\ WF_infVars(part = "inference" /\ Settles) /\ WF_infVars(part = "inference" /\ Rests)
=============================================================================
