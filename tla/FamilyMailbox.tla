---------------------------- MODULE FamilyMailbox ----------------------------
(***************************************************************************)
(* What durable family messaging promises, without the machinery that      *)
(* keeps the promise: an accepted message is owed to its recipient only     *)
(* after its sender's transcript holds it, enters the recipient's          *)
(* transcript at most once, is finished only after it did, and is rejected  *)
(* only when one of its two ends is deleted.  FamilyMessages implements it. *)
(***************************************************************************)
EXTENDS Naturals

CONSTANTS Sessions, NoSession, Messages, Receipts

Ids == Messages \cup Receipts

VARIABLES
  phase,   \* of each message
  ends,    \* sender and recipient of each message, fixed when it is accepted
  entered, \* entries of each message in its recipient's transcript
  gone     \* deleted sessions
mailbox == <<phase, ends, entered, gone>>

Init ==
  /\ phase = [i \in Ids |-> "unsent"]
  /\ ends = [i \in Ids |-> <<NoSession, NoSession>>]
  /\ entered = [i \in Ids |-> 0]
  /\ gone = {}

\* A session's send is accepted, or a supervisor's report is owed at once; neither
\* to nor about a deleted session.
Accept(i) ==
  /\ phase[i] = "unsent"
  /\ phase' = [phase EXCEPT ![i] = IF i \in Messages THEN "accepted" ELSE "owed"]
  /\ \E s, t \in Sessions \ gone : ends' = [ends EXCEPT ![i] = <<s, t>>]
  /\ UNCHANGED <<entered, gone>>

\* An accepted message becomes owed.
Owe(i) ==
  /\ phase[i] = "accepted"
  /\ phase' = [phase EXCEPT ![i] = "owed"]
  /\ UNCHANGED <<ends, entered, gone>>

\* The one time an owed message enters the recipient's transcript.
Enter(i) ==
  /\ phase[i] = "owed" /\ entered[i] = 0
  /\ entered' = [entered EXCEPT ![i] = 1]
  /\ UNCHANGED <<phase, ends, gone>>

\* Only a message the recipient holds is finished.
Finish(i) ==
  /\ phase[i] = "owed" /\ entered[i] = 1
  /\ phase' = [phase EXCEPT ![i] = "done"]
  /\ UNCHANGED <<ends, entered, gone>>

\* Deleting sessions rejects what is owed to them and what they never wrote down, and
\* leaves every other message alone.
Delete(D) ==
  /\ gone' = gone \cup D
  /\ phase' = [i \in Ids |->
       IF \/ ends[i][2] \in D /\ phase[i] \in {"accepted", "owed"}
          \/ ends[i][1] \in D /\ phase[i] = "accepted"
       THEN "rejected" ELSE phase[i]]
  /\ UNCHANGED <<ends, entered>>

Next ==
  \/ \E D \in SUBSET Sessions : Delete(D)
  \/ \E i \in Ids : Accept(i) \/ Owe(i) \/ Enter(i) \/ Finish(i)

Spec == Init /\ [][Next]_mailbox
=============================================================================
