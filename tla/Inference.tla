------------------------------ MODULE Inference ------------------------------
(***************************************************************************)
(* Which model one session infers with.  The row (`policy`) of the session *)
(* (store.mjs) holds the ACKNOWLEDGED model and at most one PENDING choice *)
(* with a request id; the supervisor delivers the choice to the session's  *)
(* worker, whose coordinator applies it when nothing runs and reports what *)
(* became of it.  Reports, deliveries, newer choices, a new default model  *)
(* and the worker's death cross one another.                               *)
(*                                                                         *)
(* src/supervisor.mjs, store.mjs, actor-coordinator.mjs, sdk-worker.mjs    *)
(* and default-inference.mjs.  A model stands for a model and its thinking *)
(* level.  Fast mode is left out.                                          *)
(***************************************************************************)
EXTENDS Naturals, Sequences

CONSTANTS
  Models,        \* what may be selected
  None,          \* no model, no choice, nothing under way
  SharedChunks,  \* a report may arrive in the chunk of the state that a choice was made on
  MaxChoices,    \* bound: choices, each with a request id of its own
  MaxLaunches,        \* bound: workers of the session
  MaxFaults    \* bound: lost deliveries, deaths and repeated reads

ASSUME InferenceAssumption ==
  SharedChunks \in BOOLEAN /\ {MaxChoices, MaxLaunches, MaxFaults} \subseteq Nat
ASSUME NoneAssumption ==
  /\ None \notin Models /\ None \notin [id : Nat, model : Models, follow : BOOLEAN, error : BOOLEAN]
  /\ None \notin [id : Nat, model : Models, wanted : BOOLEAN, follow : BOOLEAN]

VARIABLES
  policy,    \* the session's row: acknowledged model, its source, the pending choice
  settings,  \* the default model that the settings name
  stage,     \* the worker: "off", "reading" its row, "starting" or "on"
  generation,  \* its generation
  engine,    \* the coordinator: its model, what it wants, what it applies, whether it is busy
  mail,      \* select_inference requests on their way to the worker; `error`: timed out since
  reports,   \* frames on their way to the supervisor
  picked,     \* a choice whose state was picked for and has arrived
  change,    \* a change of the default model under way
  choices,   \* history: choices so far
  choice,    \* history: the model of the last accepted one
  adrift,    \* history: a move of the default failed, maybe after the model was set
  faults

infVars == <<policy, settings, stage, generation, engine, mail, reports, picked, change, choices, choice, adrift, faults>>
supervisor == <<settings, picked, change, choices, choice>>

Fault == faults < MaxFaults /\ faults' = faults + 1
WithModel(m) == [engine EXCEPT !.model = m]
Off(m) == [model |-> m, want |-> None, task |-> None, busy |-> FALSE]

-----------------------------------------------------------------------------
(* The row. *)

Choice(id, m, follow) == [id |-> id, model |-> m, follow |-> follow, error |-> FALSE]
Holds(row, id) == row.pending # None /\ row.pending.id = id
Follows(row) == row.pending # None /\ row.pending.follow

\* Variant: whatever is applied clears what is pending.
UpdatedAll(row, m, id) ==
  [model |-> m, source |-> IF Holds(row, id) /\ Follows(row) THEN row.source ELSE "explicit", pending |-> None]

\* updateSessionInference: only the request that is pending is cleared, and only the move of a
\* default that is pending leaves the session following the default.
Updated(row, m, id) ==
  [model |-> m,
   source |-> IF Holds(row, id) /\ Follows(row) THEN row.source ELSE "explicit",
   pending |-> IF Holds(row, id) THEN None ELSE row.pending]

\* recordSessionInferenceResult: a failure that tells the model is recorded, then shown.
Recorded(row, report) ==
  IF ~report.error THEN Updated(row, report.model, report.id)
  ELSE LET known == IF report.model # None /\ ~Follows(row) THEN Updated(row, report.model, 0) ELSE row
       IN IF Holds(known, report.id) THEN [known EXCEPT !.pending.error = TRUE] ELSE known

\* queueSessionInference: what is active is noted when nothing is pending.
QueuedChoice(row, active, next) ==
  [row EXCEPT !.model = IF row.pending = None THEN active ELSE @, !.pending = next]

-----------------------------------------------------------------------------
(* Choices. *)

Live == stage \in {"starting", "on"}

\* #sendPendingInference, from the row as it is or as the step leaves it.
Sends(row) == mail' = IF row.pending = None THEN mail ELSE Append(mail, [row.pending EXCEPT !.error = FALSE])

\* #withSessionMutation: reads and choices of the session take turns, with their deliveries.
Free == stage = "on" /\ picked = None /\ \A i \in DOMAIN mail : mail[i].follow \/ mail[i].error

\* #inferenceSnapshot: the acknowledged model while a choice is pending, else the worker's.
Snapshot(state) == IF policy.pending # None THEN policy.model ELSE state

\* #setSessionInference: the worker's state was picked for.
Ask ==
  /\ Free /\ choices < MaxChoices
  /\ \E m \in Models : picked' = [model |-> m, state |-> engine.model, expected |-> Snapshot(engine.model)]
  /\ UNCHANGED <<policy, settings, stage, generation, engine, mail, reports, change, choices, choice, adrift, faults>>

\* The state is here.  A selection other than the user expected is refused; the one that is
\* active, with nothing pending, needs no choice; any other replaces what is pending.
Choose ==
  /\ picked # None /\ stage = "on" /\ picked' = None
  /\ \E active \in {Snapshot(picked.state)} :
       \/ /\ active # picked.expected
          /\ UNCHANGED <<policy, mail, choices, choice>>
       \/ /\ active = picked.expected /\ active = picked.model /\ policy.pending = None
          /\ choice' = IF adrift THEN choice ELSE active
          /\ UNCHANGED <<policy, mail, choices>>
       \/ /\ active = picked.expected /\ (active # picked.model \/ policy.pending # None)
          /\ choices' = choices + 1 /\ choice' = picked.model
          /\ policy' = QueuedChoice(policy, active, Choice(choices', picked.model, FALSE))
          /\ Sends(policy')
  /\ UNCHANGED <<settings, stage, generation, engine, reports, change, adrift, faults>>

\* #getSessionInference delivers a choice that failed once more.
Read ==
  /\ Free /\ policy.pending # None /\ policy.pending.error /\ Fault
  /\ Sends(policy)
  /\ UNCHANGED <<policy, stage, generation, engine, reports, adrift>> /\ UNCHANGED supervisor

\* #setDefaultInference: the settings are read, then Home's worker is picked for its models.
DefaultBegins ==
  /\ change = None /\ choices < MaxChoices
  /\ \E m \in Models \ {settings} : change' = [from |-> settings, to |-> m, moved |-> FALSE]
  /\ UNCHANGED <<policy, settings, stage, generation, engine, mail, reports, picked, choices, choice, adrift, faults>>

\* retargetDefaultInference: of the sessions that follow the default, one that runs has the
\* move queued and one that does not has its row moved; a choice that is pending stays.
Moves(row) == row.source = "settings" /\ row.model = change.from /\ row.pending = None
Retargeted(row, id) ==
  IF ~Moves(row) THEN row
  ELSE IF Live THEN [row EXCEPT !.pending = Choice(id, change.to, TRUE)]
  ELSE [row EXCEPT !.model = change.to]

Retarget ==
  /\ change # None /\ ~change.moved
  /\ choices' = choices + 1 /\ policy' = Retargeted(policy, choices')
  /\ choice' = IF Moves(policy) THEN change.to ELSE choice
  /\ change' = [change EXCEPT !.moved = TRUE]
  /\ UNCHANGED <<settings, stage, generation, engine, mail, reports, picked, adrift, faults>>

\* writeDefaultModel, and the deliveries, after the store's commit.
DefaultEnds ==
  /\ change # None /\ change.moved
  /\ settings' = change.to /\ change' = None
  /\ IF Live /\ Follows(policy) THEN Sends(policy) ELSE UNCHANGED mail
  /\ UNCHANGED <<policy, stage, generation, engine, reports, picked, choices, choice, adrift, faults>>

-----------------------------------------------------------------------------
(* The worker. *)

Worker == UNCHANGED <<policy, stage, generation, faults>> /\ UNCHANGED supervisor
Says(id, error, m) == reports' = Append(reports, [id |-> id, error |-> error, model |-> m])

\* select_inference: the last one that is accepted is what the coordinator wants.
SelectInference ==
  /\ Live /\ mail # <<>> /\ mail' = Tail(mail)
  /\ engine' = [engine EXCEPT !.want = [Head(mail) EXCEPT !.error = FALSE],
                            !.task = IF @ = None THEN None ELSE [@ EXCEPT !.wanted = FALSE]]
  /\ UNCHANGED <<reports, adrift>> /\ Worker

\* The catalogue no longer has the model, or the level.
Unavailable ==
  /\ Live /\ mail # <<>> /\ mail' = Tail(mail) /\ Fault
  /\ IF Head(mail).error THEN UNCHANGED reports ELSE Says(Head(mail).id, TRUE, None)
  /\ UNCHANGED <<policy, stage, generation, engine, adrift>> /\ UNCHANGED supervisor

\* A flight, tools or a compaction.
Busy ==
  /\ Live /\ engine.task = None /\ engine.want = None /\ ~engine.busy
  /\ engine' = [engine EXCEPT !.busy = TRUE]
  /\ UNCHANGED <<mail, reports, adrift>> /\ Worker
Rests ==
  /\ engine.busy /\ engine' = [engine EXCEPT !.busy = FALSE]
  /\ UNCHANGED <<mail, reports, adrift>> /\ Worker

\* applyPendingInference begins: a choice that failed waits to be delivered again.
Apply ==
  /\ Live /\ ~engine.busy /\ engine.task = None /\ engine.want # None /\ ~engine.want.error
  /\ engine' = [engine EXCEPT !.task = [id |-> engine.want.id, model |-> engine.want.model, wanted |-> TRUE,
                                        follow |-> engine.want.follow]]
  /\ UNCHANGED <<mail, reports, adrift>> /\ Worker

\* setModel has checked the credentials.
SetModel ==
  /\ engine.task # None /\ engine.model # engine.task.model
  /\ engine' = WithModel(engine.task.model)
  /\ UNCHANGED <<mail, reports, adrift>> /\ Worker

\* Variant: what was applied is no longer wanted, even if it was sent again or replaced.
ForgetsWant(failed) == IF failed THEN [engine.want EXCEPT !.error = TRUE] ELSE None

\* What is wanted after the report: the failed choice, nothing, or what replaced it.
WantAfter(failed) ==
  IF ~engine.task.wanted THEN engine.want
  ELSE IF failed THEN [engine.want EXCEPT !.error = TRUE] ELSE None

\* Hooks and checks are over: the report tells the worker's model, whichever it is.
Reports(failed) ==
  /\ engine.task # None /\ (failed \/ engine.model = engine.task.model)
  /\ Says(engine.task.id, failed, engine.model)
  /\ engine' = [engine EXCEPT !.task = None, !.want = WantAfter(failed)]
  /\ UNCHANGED mail

Applied == Reports(FALSE) /\ adrift' = FALSE /\ Worker
ApplyFails ==
  /\ engine.task # None /\ Fault
  /\ Reports(TRUE) /\ adrift' = engine.task.follow
  /\ UNCHANGED <<policy, stage, generation>> /\ UNCHANGED supervisor

-----------------------------------------------------------------------------
(* Reports and launches. *)

\* #onActorEvent and the answer to select_inference, of the worker that the session has.
OnReport ==
  /\ Live /\ reports # <<>> /\ reports' = Tail(reports)
  /\ picked = None \/ SharedChunks
  /\ policy' = Recorded(policy, Head(reports))
  /\ adrift' = (adrift \/ (Head(reports).error /\ Head(reports).model # None /\ Follows(policy)))
  /\ UNCHANGED <<stage, generation, engine, mail, faults>> /\ UNCHANGED supervisor

\* The request times out, whether or not the worker gets it later.
SendTimesOut ==
  /\ Live /\ mail # <<>> /\ ~mail[1].error /\ Fault
  /\ mail' = [mail EXCEPT ![1].error = TRUE]
  /\ policy' = Recorded(policy, [id |-> mail[1].id, error |-> TRUE, model |-> None])
  /\ UNCHANGED <<stage, generation, engine, reports, adrift>> /\ UNCHANGED supervisor

\* #launchActor takes the model from the row; until its record exists the session does not
\* count as live.
LaunchReads ==
  /\ stage = "off" /\ generation < MaxLaunches
  /\ stage' = "reading" /\ generation' = generation + 1 /\ engine' = Off(policy.model)
  /\ UNCHANGED <<policy, mail, reports, adrift, faults>> /\ UNCHANGED supervisor
LaunchSpawns ==
  /\ stage = "reading" /\ stage' = "starting"
  /\ UNCHANGED <<policy, generation, engine, mail, reports, adrift, faults>> /\ UNCHANGED supervisor

\* What was on its way to a worker that ends has failed.
Undelivered ==
  IF policy.pending # None /\ \E i \in DOMAIN mail : mail[i].id = policy.pending.id
  THEN [policy EXCEPT !.pending.error = TRUE] ELSE policy

\* recordResolvedSessionInference refuses a worker whose model is not the row's.
Resolved == engine.model = policy.model

LaunchEnds ==
  /\ stage = "starting"
  /\ IF Resolved THEN stage' = "on" /\ Sends(policy) /\ UNCHANGED <<policy, engine, reports>>
     ELSE stage' = "off" /\ engine' = Off(engine.model) /\ mail' = <<>> /\ reports' = <<>> /\ policy' = Undelivered
  /\ adrift' = FALSE
  /\ UNCHANGED <<generation, faults>> /\ UNCHANGED supervisor

\* The worker ends, and its reports with it.
WorkerExits ==
  /\ stage # "off" /\ Fault
  /\ stage' = "off" /\ engine' = Off(engine.model) /\ mail' = <<>> /\ reports' = <<>> /\ picked' = None
  /\ adrift' = FALSE
  /\ policy' = Undelivered
  /\ UNCHANGED <<settings, generation, change, choices, choice>>

\* The daemon ends: a change of the default stops where it is.
DaemonEnds ==
  /\ Fault
  /\ stage' = "off" /\ engine' = Off(engine.model) /\ mail' = <<>> /\ reports' = <<>> /\ picked' = None
  /\ change' = None /\ adrift' = FALSE
  /\ UNCHANGED <<policy, settings, generation, choices, choice>>

-----------------------------------------------------------------------------
InferenceInit ==
  /\ \E m \in Models :
       /\ settings = m /\ choice = m /\ engine = Off(m)
       /\ policy \in [model : {m}, source : {"settings", "explicit"}, pending : {None}]
  /\ stage = "off" /\ generation = 0 /\ mail = <<>> /\ reports = <<>> /\ picked = None /\ change = None
  /\ choices = 0 /\ adrift = FALSE /\ faults = 0

Settles ==
  \/ LaunchReads \/ LaunchSpawns \/ LaunchEnds \/ OnReport \/ Choose
  \/ DefaultEnds \/ SelectInference \/ Apply \/ SetModel \/ Applied

InferenceNext ==
  \/ Ask \/ Read \/ DefaultBegins \/ Retarget
  \/ Settles \/ Unavailable \/ Busy \/ Rests \/ ApplyFails
  \/ SendTimesOut \/ WorkerExits \/ DaemonEnds

InferenceSpec == InferenceInit /\ [][InferenceNext]_infVars

-----------------------------------------------------------------------------
(* Properties. *)

\* The last choice that was accepted, by the user or as the new default, is the one that ends
\* up acknowledged: no report of an older one clears or outlives it.  And what is acknowledged
\* is what the worker infers with, once its reports are in: after failures halfway, deliveries
\* repeated or lost, and launches that a new default overtook (updateSessionInference,
\* recordSessionInferenceResult, #launchActor).
SelectionIsTrue ==
  /\ policy.pending = None => policy.model = choice
  /\ stage = "on" /\ engine.task = None /\ reports = <<>> /\ ~adrift => engine.model = policy.model

\* A choice that is pending on a session that runs comes to be applied, or is shown to have
\* failed, whatever it replaced while that was applied (applyPendingInference).
ChoiceArrives ==
  []<>(policy.pending = None \/ policy.pending.error \/ stage # "on")
=============================================================================
