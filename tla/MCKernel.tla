------------------------------ MODULE MCKernel ------------------------------
(***************************************************************************)
(* Two things that must survive their own replacement, checked as two      *)
(* parts that share no variable: the kernel of an actor, with two calls of *)
(* the ipython tool, and the supervisor, with two workers on one restart   *)
(* job.  Each part moves while the other stays in its initial state.       *)
(***************************************************************************)
EXTENDS Kernel, PostRestart, TLC

CONSTANTS c1, c2

VARIABLE part

allVars == <<vars, restartVars, part>>

PartsInit == Init /\ RestartInit /\ part \in {"kernel", "restart"}

PartsNext ==
  \/ part = "kernel" /\ Next /\ UNCHANGED <<restartVars, part>>
  \/ part = "restart" /\ RestartNext /\ UNCHANGED <<vars, part>>

\* Where the kernel is what moves no worker has claimed the job, and RestartEnds asks for nothing.
PartsSpec ==
  /\ PartsInit /\ [][PartsNext]_allVars
  /\ \A w \in Runners : /\ WF_restartVars(part = "restart" /\ RunnerStep(w))
                        /\ WF_restartVars(part = "restart" /\ IdleDeadline(w))
                        /\ SF_restartVars(part = "restart" /\ ShutdownDeadline(w))
=============================================================================
