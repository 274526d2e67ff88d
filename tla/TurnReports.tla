---------------------------- MODULE TurnReports ----------------------------
(***************************************************************************)
(* What becomes of a turn that stops abnormally.  The coordinator writes a *)
(* failure into the transcript (journalTurnFailure); the reporter of the   *)
(* extension sends it to the supervisor until it has a receipt, and writes *)
(* a witness of the receipt behind it (child-turn-failure.mjs); the        *)
(* supervisor queues a message to the session's observer, or, when the     *)
(* session is Home, wakes it later if it stays quiet                       *)
(* (home-failure-nudge.mjs).  The messages themselves are FamilyMessages'. *)
(***************************************************************************)
EXTENDS Naturals, Sequences, FiniteSets

CONSTANTS
  MaxTurns,         \* bound: turns of the session
  MaxTurnTroubles   \* bound: lost connections, deaths, refusals, failed writes, a deleted observer

ASSUME TurnsAssumption == MaxTurns \in Nat /\ MaxTurnTroubles \in Nat

VARIABLES
  home,         \* the session is Home
  transcript,   \* "failed" entries, and "accepted" ones with the place of the failed one
  alive,        \* the session has a worker
  turn,         \* coordinator: the number of its turn and where it stands
  reporter,     \* the places of pending failures, the accepted frontier, the step of drain, the retry timer
  socket,       \* "down" or "up", the request on its way and the answer
  pipe,         \* the worker's events that the supervisor has not handled
  observer,     \* the session that reports go to is there
  told,         \* turns whose report has a row in the message table
  shown,        \* the session's activity is "working"
  nudge,        \* HomeFailureNudge: the pending turn, and failedSinceSettled
  nudged,       \* turns that Home was woken for
  history,      \* histories: see NoHistory
  turnTroubles

turnVars == <<home, transcript, alive, turn, reporter, socket, pipe, observer, told, shown, nudge, nudged,
              history, turnTroubles>>
supervisorVars == <<observer, told, shown, nudge, nudged, history>>

NoTurn == 0
NoReporter == [pending |-> {}, upTo |-> 0, drain |-> "none", timer |-> FALSE]
Down == [up |-> FALSE, ask |-> NoTurn, answer |-> "none"]

NoHistory ==
  [recorded |-> {},       \* turns the supervisor gave a receipt for
   settled |-> NoTurn,    \* the last turn whose end the supervisor has seen,
   how |-> "none",        \* and how it ended
   late |-> FALSE,        \* the pending nudge is for a turn that was over when it was reported, or that never settled
   woken |-> FALSE,       \* Home was woken since
   wakes |-> {},          \* what Home was woken for
   forgotten |-> FALSE]   \* a nudge was lost: its supervisor ended, or its report overtook the end of the turn before

TurnTrouble == turnTroubles < MaxTurnTroubles /\ turnTroubles' = turnTroubles + 1
NoTurnTrouble == UNCHANGED turnTroubles

-----------------------------------------------------------------------------
(* The turn. *)

BeginTurn ==
  /\ alive /\ turn.at = "idle" /\ turn.number < MaxTurns
  /\ turn' = [number |-> turn.number + 1, at |-> "runs", failed |-> FALSE]
  /\ pipe' = Append(pipe, [what |-> "start", turn |-> turn'.number])
  /\ UNCHANGED <<home, transcript, alive, reporter, socket, supervisorVars>> /\ NoTurnTrouble

\* A turn ends; if it failed the transcript says so first.
EndTurn ==
  /\ alive /\ turn.at = "runs"
  /\ \/ turn' = [turn EXCEPT !.at = "settles"] /\ UNCHANGED transcript
     \/ /\ turn' = [turn EXCEPT !.at = "journaled", !.failed = TRUE]
        /\ transcript' = Append(transcript, [what |-> "failed", turn |-> turn.number, place |-> 0])
  /\ UNCHANGED <<home, alive, reporter, socket, pipe, supervisorVars>> /\ NoTurnTrouble

\* flush begins a drain, unless one is under way or the client is not connected.
Flush(r, up) == IF r.drain = "none" /\ up /\ r.pending # {} THEN [r EXCEPT !.drain = "ask"] ELSE r

FailureOf(t) == CHOOSE n \in DOMAIN transcript : transcript[n].what = "failed" /\ transcript[n].turn = t

\* remember and flush; the turn waits for the drain, if there is one.
Remember ==
  /\ alive /\ turn.at = "journaled"
  /\ LET n == FailureOf(turn.number)
     IN reporter' = Flush(IF n <= reporter.upTo THEN reporter
                          ELSE [reporter EXCEPT !.pending = @ \cup {n}], socket.up)
  /\ turn' = [turn EXCEPT !.at = IF reporter'.drain = "none" THEN "settles" ELSE "reports"]
  /\ UNCHANGED <<home, transcript, alive, socket, pipe, supervisorVars>> /\ NoTurnTrouble

Settle ==
  /\ alive /\ turn.at = "settles"
  /\ turn' = [turn EXCEPT !.at = "idle"]
  /\ pipe' = Append(pipe, [what |-> IF turn.failed THEN "failed" ELSE "fine", turn |-> turn.number])
  /\ UNCHANGED <<home, transcript, alive, reporter, socket, supervisorVars>> /\ NoTurnTrouble

-----------------------------------------------------------------------------
(* The reporter.  drain works on the first pending report: the Map holds them in the order of    *)
(* the transcript, as the journal restores them and remember adds the last.                      *)

First(places) == CHOOSE n \in places : \A m \in places : n <= m

DrainOver == turn' = IF turn.at = "reports" THEN [turn EXCEPT !.at = "settles"] ELSE turn

\* drain's catch: try again in a second.  As if the next turn's flush were enough.
NoRetry(r) == [r EXCEPT !.drain = "none"]
Retries(r) == [r EXCEPT !.drain = "none", !.timer = TRUE]

Ask ==
  /\ alive /\ reporter.drain = "ask"
  /\ IF socket.up
     THEN /\ socket' = [socket EXCEPT !.ask = transcript[First(reporter.pending)].turn]
          /\ reporter' = [reporter EXCEPT !.drain = "wait"] /\ UNCHANGED turn
     ELSE reporter' = Retries(reporter) /\ DrainOver /\ UNCHANGED socket
  /\ UNCHANGED <<home, transcript, alive, pipe, supervisorVars>> /\ NoTurnTrouble

TakeAnswer ==
  /\ alive /\ reporter.drain = "wait" /\ socket.answer # "none"
  /\ socket' = [socket EXCEPT !.answer = "none"]
  /\ IF socket.answer = "recorded" THEN reporter' = [reporter EXCEPT !.drain = "witness"] /\ UNCHANGED turn
     ELSE reporter' = Retries(reporter) /\ DrainOver
  /\ UNCHANGED <<home, transcript, alive, pipe, supervisorVars>> /\ NoTurnTrouble

\* The witness names the failure it is about; as if it named all that the transcript holds.
EverythingSoFar(place) == Len(transcript)
Witnessed(place) == place

\* onRecorded appends the witness, then the report is forgotten; or the append fails.
WriteWitness ==
  /\ alive /\ reporter.drain = "witness"
  /\ \/ /\ NoTurnTrouble
        /\ LET n == First(reporter.pending)
               rest == reporter.pending \ {n}
           IN /\ transcript' = Append(transcript, [what |-> "accepted", turn |-> NoTurn, place |-> Witnessed(n)])
              /\ reporter' = [reporter EXCEPT !.pending = rest, !.upTo = n,
                                              !.drain = IF rest = {} THEN "none" ELSE "ask"]
              /\ IF rest = {} THEN DrainOver ELSE UNCHANGED turn
     \/ TurnTrouble /\ reporter' = Retries(reporter) /\ DrainOver /\ UNCHANGED transcript
  /\ UNCHANGED <<home, alive, socket, pipe, supervisorVars>>

RetryTimer ==
  /\ alive /\ reporter.timer
  /\ reporter' = Flush([reporter EXCEPT !.timer = FALSE], socket.up)
  /\ UNCHANGED <<home, transcript, alive, turn, socket, pipe, supervisorVars>> /\ NoTurnTrouble

\* The client registers: flush.
Connect ==
  /\ alive /\ ~socket.up
  /\ socket' = [Down EXCEPT !.up = TRUE] /\ reporter' = Flush(reporter, TRUE)
  /\ UNCHANGED <<home, transcript, alive, turn, pipe, supervisorVars>> /\ NoTurnTrouble

\* A lost connection, or a request that takes too long: what was under way is lost.
LoseConnection ==
  /\ socket.up /\ TurnTrouble
  /\ socket' = Down
  /\ IF reporter.drain = "wait" THEN reporter' = Retries(reporter) /\ DrainOver ELSE UNCHANGED <<reporter, turn>>
  /\ UNCHANGED <<home, transcript, alive, pipe, supervisorVars>>

-----------------------------------------------------------------------------
(* The worker's life. *)

\* pendingTurnFailureJournal: the failures behind the one that the last witness names.
Frontier ==
  LET seen == {n \in DOMAIN transcript : transcript[n].what = "accepted"}
  IN IF seen = {} THEN 0 ELSE transcript[CHOOSE n \in seen : \A m \in seen : m <= n].place
Unaccepted == {n \in DOMAIN transcript : transcript[n].what = "failed" /\ n > Frontier}

StartWorker ==
  /\ ~alive /\ alive' = TRUE
  /\ reporter' = [NoReporter EXCEPT !.pending = Unaccepted, !.upTo = Frontier]
  /\ UNCHANGED <<home, transcript, turn, socket, pipe, supervisorVars>> /\ NoTurnTrouble

WorkerGone == alive' = FALSE /\ reporter' = NoReporter /\ socket' = Down /\ turn' = [turn EXCEPT !.at = "idle"]

WorkerDies ==
  /\ alive /\ TurnTrouble /\ WorkerGone
  /\ pipe' = Append(pipe, [what |-> "exit", turn |-> turn.number])
  /\ UNCHANGED <<home, transcript, supervisorVars>>

\* The supervisor ends with its workers; what it remembers of Home is not kept.
SupervisorEnds ==
  /\ TurnTrouble /\ WorkerGone
  /\ pipe' = <<>> /\ shown' = FALSE /\ nudge' = [turn |-> NoTurn, failed |-> FALSE]
  /\ history' = [history EXCEPT !.late = FALSE, !.forgotten = @ \/ nudge.turn # NoTurn \/ pipe # <<>>]
  /\ UNCHANGED <<home, transcript, observer, told, nudged>>

-----------------------------------------------------------------------------
(* The supervisor. *)

\* HomeFailureNudge.failed: a pending nudge keeps its turn.
NudgeFailed(t) == [turn |-> IF nudge.turn = NoTurn THEN t ELSE nudge.turn, failed |-> TRUE]

\* record_actor_turn_failure: a row of its own for each turn, if there is someone to tell.
RecordFailure ==
  /\ socket.ask # NoTurn
  /\ LET t == socket.ask
     IN \/ /\ NoTurnTrouble
           /\ socket' = [socket EXCEPT !.ask = NoTurn, !.answer = "recorded"]
           /\ told' = IF ~home /\ observer THEN told \cup {t} ELSE told
           /\ nudge' = IF home THEN NudgeFailed(t) ELSE nudge
           /\ history' = [history EXCEPT !.recorded = @ \cup {t},
                                         !.late = (@ /\ nudge.turn # NoTurn)
                                                  \/ ~(turn.at = "reports" /\ turn.number = t),
                                         !.forgotten = @ \/ \E n \in DOMAIN pipe :
                                             pipe[n].what \in {"fine", "failed"} /\ pipe[n].turn < t]
        \/ /\ TurnTrouble   \* its generation or lifecycle has changed
           /\ socket' = [socket EXCEPT !.ask = NoTurn, !.answer = "refused"]
           /\ UNCHANGED <<told, nudge, history>>
  /\ UNCHANGED <<home, transcript, alive, turn, reporter, pipe, observer, shown, nudged>>

\* HomeFailureNudge.settled: a turn that nothing was reported of since the last one ended well.
NudgeSettled == [turn |-> IF nudge.failed THEN nudge.turn ELSE NoTurn, failed |-> FALSE]

HandleEvent ==
  /\ pipe # <<>> /\ pipe' = Tail(pipe)
  /\ LET event == Head(pipe)
     IN /\ shown' = (event.what = "start")
        /\ IF event.what \in {"fine", "failed"}
           THEN /\ nudge' = IF home THEN NudgeSettled ELSE nudge
                /\ history' = [history EXCEPT !.settled = event.turn, !.how = event.what, !.woken = FALSE,
                                              !.late = @ /\ nudge'.turn # NoTurn]
           ELSE /\ history' = [history EXCEPT !.late = @ \/ (event.what = "exit" /\ event.turn # history.settled)]
                /\ UNCHANGED nudge
  /\ UNCHANGED <<home, transcript, alive, turn, reporter, socket, observer, told, nudged>> /\ NoTurnTrouble

\* #nudgeHomeIfDue: minutes after the failure, when all that was in the pipe has been handled.
NudgeHome ==
  /\ nudge.turn # NoTurn /\ pipe = <<>> /\ ~shown
  /\ nudged' = nudged \cup {nudge.turn} /\ nudge' = [nudge EXCEPT !.turn = NoTurn]
  /\ history' = [history EXCEPT !.woken = TRUE, !.late = FALSE,
                                !.wakes = @ \cup {IF history.late THEN "late" ELSE history.how}]
  /\ UNCHANGED <<home, transcript, alive, turn, reporter, socket, pipe, observer, told, shown>> /\ NoTurnTrouble

ObserverDeleted ==
  /\ observer /\ ~home /\ observer' = FALSE /\ TurnTrouble
  /\ UNCHANGED <<home, transcript, alive, turn, reporter, socket, pipe, told, shown, nudge, nudged, history>>

-----------------------------------------------------------------------------
TurnsInit ==
  /\ home \in BOOLEAN /\ transcript = <<>> /\ alive = FALSE
  /\ turn = [number |-> NoTurn, at |-> "idle", failed |-> FALSE]
  /\ reporter = NoReporter /\ socket = Down /\ pipe = <<>>
  /\ observer = TRUE /\ told = {} /\ shown = FALSE
  /\ nudge = [turn |-> NoTurn, failed |-> FALSE] /\ nudged = {}
  /\ history = NoHistory /\ turnTroubles = 0

ReporterStep == Remember \/ Settle \/ Ask \/ TakeAnswer \/ WriteWitness \/ RetryTimer \/ Connect
SupervisorStep == RecordFailure \/ HandleEvent \/ NudgeHome

TurnsNext ==
  \/ BeginTurn \/ EndTurn \/ ReporterStep \/ SupervisorStep
  \/ LoseConnection \/ StartWorker \/ WorkerDies \/ SupervisorEnds \/ ObserverDeleted

TurnsSpec == TurnsInit /\ [][TurnsNext]_turnVars

\* Timers fire, the client reconnects, what was sent arrives.  No turn and no worker has to start.
TurnsFairness ==
  /\ WF_turnVars(ReporterStep) /\ WF_turnVars(RecordFailure)
  /\ WF_turnVars(HandleEvent) /\ WF_turnVars(NudgeHome)

-----------------------------------------------------------------------------
(* Properties. *)

Failures == {n \in DOMAIN transcript : transcript[n].what = "failed"}
Unreported == {transcript[n].turn : n \in reporter.pending}

\* No failure is passed over: the frontier in the transcript and the one in memory stand only
\* before receipts, whatever is resent or witnessed twice; a worker that runs remembers the rest.
KeptUntilTold ==
  /\ \A n \in Failures : transcript[n].turn \in history.recorded \/ n > Frontier
  /\ alive => \A n \in Failures :
       \/ transcript[n].turn \in history.recorded \cup Unreported
       \/ turn.at = "journaled" /\ transcript[n].turn = turn.number

\* Home is never woken for a turn that failed when the last one it ended went well, unless the
\* report was late.
NudgesAreDue == "fine" \notin history.wakes

\* Each report is kept until it has a receipt, and Home is woken for what it missed.
ReportsAreTrue == KeptUntilTold /\ NudgesAreDue

\* Every failure of a session that has a worker comes to be reported, and Home, when its last
\* turn failed and none runs, comes to be woken, unless the nudge was lost.
FailuresAreHeard ==
  []<>(\/ ~alive
       \/ /\ \A n \in Failures : transcript[n].turn \in history.recorded
          /\ home /\ ~shown /\ history.how = "failed" /\ ~history.forgotten => history.woken)
=============================================================================
