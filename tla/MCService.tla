------------------------------ MODULE MCService ------------------------------
(***************************************************************************)
(* The supervisor's service, checked as two parts that share no variable:  *)
(* which daemon serves, and what a client sees of it.  Each part is        *)
(* explored from all of its own initial states while the other stays in    *)
(* one of its own.                                                         *)
(***************************************************************************)
EXTENDS Daemon, Feed

CONSTANTS a, b, x

VARIABLE part

vars == <<daemonVars, feedVars, part>>

Init ==
  /\ DaemonInit /\ FeedInit
  /\ \/ part = "daemon" /\ client = "stopped" /\ wants = "view"
     \/ part = "feed" /\ client = "offline" /\ lock = NoOne /\ launch = [p \in Procs |-> "direct"]

Next ==
  \/ part = "daemon" /\ DaemonNext /\ UNCHANGED <<feedVars, part>>
  \/ part = "feed" /\ FeedNext /\ UNCHANGED <<daemonVars, part>>

\* Where the daemons move, the client is stopped and nothing of the feed is enabled.
Spec == Init /\ [][Next]_vars /\ FeedFairness
=============================================================================
