--------------------------- MODULE InputContract ---------------------------
(***************************************************************************)
(* What the harness promises of an admitted input: it is completed in one  *)
(* way, for good, and only after the fact; it enters the transcript once,  *)
(* and once more at most for each submission whose answer was lost.        *)
(***************************************************************************)
EXTENDS Naturals

CONSTANT Inputs
VARIABLES status, entered, lost
vars == <<status, entered, lost>>

Init ==
  /\ status = [i \in Inputs |-> "none"]
  /\ entered = [i \in Inputs |-> 0] /\ lost = [i \in Inputs |-> 0]

Admit(i) ==
  /\ status[i] = "none" /\ status' = [status EXCEPT ![i] = "reserved"]
  /\ UNCHANGED <<entered, lost>>

Enter(i) ==
  /\ status[i] \in {"reserved", "delivered"} /\ entered[i] <= lost[i]
  /\ entered' = [entered EXCEPT ![i] = @ + 1]
  /\ UNCHANGED <<status, lost>>

\* Several inputs may be found in the transcript at once.
Deliver(S) ==
  /\ \A i \in S : status[i] = "reserved" /\ entered[i] > 0
  /\ status' = [i \in Inputs |-> IF i \in S THEN "delivered" ELSE status[i]]
  /\ UNCHANGED <<entered, lost>>

\* A command is handled without a model message.
Handle(i) ==
  /\ status[i] = "reserved" /\ entered[i] = 0
  /\ status' = [status EXCEPT ![i] = "handled"]
  /\ UNCHANGED <<entered, lost>>

LoseAnswer(i) ==
  /\ status[i] # "none" /\ lost' = [lost EXCEPT ![i] = @ + 1]
  /\ UNCHANGED <<status, entered>>

Next ==
  \/ \E S \in SUBSET Inputs : Deliver(S)
  \/ \E i \in Inputs : Admit(i) \/ Enter(i) \/ Handle(i) \/ LoseAnswer(i)

Spec == Init /\ [][Next]_vars
=============================================================================
