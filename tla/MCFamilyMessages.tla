-------------------------- MODULE MCFamilyMessages --------------------------
(***************************************************************************)
(* A family of a root and its child, and the turns of one session whose    *)
(* failures are reported, checked as two parts that share no variable:     *)
(* each moves while the other stays in one of its initial states.          *)
(***************************************************************************)
EXTENDS FamilyMessages, TurnReports, TLC

CONSTANTS r, c, m1, m2

MCParent == (r :> NoSession) @@ (c :> r)
MCBoth == {<<r, c>>, <<c, r>>}

VARIABLE part

allVars == <<vars, turnVars, part>>

PartsInit == Init /\ TurnsInit /\ part \in {"messages", "turns"} /\ (part = "messages" => ~home)

PartsNext ==
  \/ part = "messages" /\ Next /\ UNCHANGED <<turnVars, part>>
  \/ part = "turns" /\ TurnsNext /\ UNCHANGED <<vars, part>>

\* A session that waits for its launch is all that the fairness is about in an initial state.
PartsSpec ==
  /\ PartsInit /\ [][PartsNext]_allVars
  /\ HandlersAreFair /\ \A s \in Sessions : WF_vars(part = "messages" /\ Launch(s))
  /\ TurnsFairness
=============================================================================
