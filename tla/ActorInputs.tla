---------------------------- MODULE ActorInputs ----------------------------
(***************************************************************************)
(* Durable inputs of one session: the actor_input_receipts and actor_inputs *)
(* tables (store.mjs), the wakes and delivery passes that bring an admitted *)
(* input to the session's actor (supervisor.mjs), the worker that queues    *)
(* and commits it (actor-coordinator.mjs) and the extension that proves its *)
(* entry (extension.mjs).  Passes of one worker take turns; a pass first    *)
(* reconciles the pending rows with the canonical transcript, then submits  *)
(* what the transcript is known to lack.                                    *)
(***************************************************************************)
EXTENDS Naturals, Sequences, FiniteSets

CONSTANTS
  Inputs,        \* input ids
  Internal,      \* those admitted by cron, background jobs and the inbox
  Commands,      \* user inputs that are extension commands
  PendingLimit,  \* pendingMessageLimit
  MaxGen,        \* bound: actor generations
  MaxTroubles    \* bound: disconnections, exits, stops, failed starts, lost answers, restarts

ASSUME InputsAssumption ==
  /\ Internal \subseteq Inputs /\ Commands \subseteq Inputs \ Internal
  /\ IsFiniteSet(Inputs)
ASSUME BoundsAssumption ==
  /\ PendingLimit \in Nat /\ MaxGen \in Nat \ {0}
  /\ MaxTroubles \in Nat

VARIABLES
  receipt,     \* durable: actor_input_receipts, by outcome
  sequence,    \* durable: receipt sequence, 0 before admission
  row,         \* durable: actor_inputs: state and accepted_generation
  flag,        \* durable: wake_error_generation, 0 if none
  transcript,  \* durable: the inputs of the canonical transcript, in order
  life, gen,   \* durable: sessions.lifecycle, sessions.actor_generation
  worker,      \* #actors: generation of the live worker, 0 if none
  closing,     \* record.expectedLifecycle, "none" if unset
  wake,        \* #actorInputWakes: progress of the session's wake
  again,       \* wake.requested: a send coalesced with the running wake
  dispatch,    \* progress of a background or inbox dispatch waiting for readiness
  tail,        \* owners of the passes queued on record.inputDeliveryTail
  pass,        \* the running pass
  online,      \* the worker's extension is registered
  flight,      \* submissions the worker has not answered
  queue,       \* the coordinator's queue
  enqueued,    \* extension: internal inputs already sent to the coordinator
  reports,     \* extension: committed entries not yet reported
  lapses,      \* submissions of an input whose answer was lost
  troubles     \* disturbances so far (bounded by MaxTroubles)

store == <<receipt, sequence, row, flag>>
session == <<life, gen>>
process == <<worker, closing>>
wakes == <<wake, again, dispatch>>
passes == <<tail, pass>>
memory == <<flight, queue, enqueued, reports>>
vars == <<receipt, sequence, row, flag, transcript, life, gen, worker, closing, wake, again,
          dispatch, tail, pass, online, flight, queue, enqueued, reports, lapses, troubles>>

Owners == {"launch", "wake", "kick"}
NoRow == [state |-> "none", gen |-> 0]
NoPass == [owner |-> "none", phase |-> "none", scope |-> {}, proven |-> {},
           unresolved |-> {}, todo |-> {}]

-----------------------------------------------------------------------------
(* Reading the store, the transcript and the records. *)

\* #pendingActorInputs.
Pending == {i \in Inputs : row[i].state # "none"}

First(S) == CHOOSE i \in S : \A j \in S : sequence[i] <= sequence[j]

\* resolveActorInputAssociation: one entry proves an input, several leave it unresolved; as
\* if the reader missed them all, say for standing on an inactive branch.
Entries(i) == Cardinality({n \in DOMAIN transcript : transcript[n] = i})
Proven(S) == {i \in S : Entries(i) = 1}
Unresolved(S) == {i \in S : Entries(i) > 1}

\* Delivery to record's actor has not been called off.
Serving == worker # 0 /\ worker = gen /\ closing = "none" /\ life = "resident"

\* #withSessionMutation: a stop or a passivation holds its turn until the worker exits.
TailFree == closing \notin {"stopped", "passivated"}

Trouble == troubles < MaxTroubles /\ troubles' = troubles + 1

-----------------------------------------------------------------------------
(* Store transitions and the pieces handlers share. *)

\* completeActorInput for the inputs S; markActorInputHandled.
Complete(S) ==
  /\ receipt' = [i \in Inputs |-> IF i \in S THEN "delivered" ELSE receipt[i]]
  /\ row' = [i \in Inputs |-> IF i \in S THEN NoRow ELSE row[i]]
  /\ flag' = [i \in Inputs |-> IF i \in S THEN 0 ELSE flag[i]]

\* setActorInputWakeError: every pending input of the session.
Flag(g) == flag' = [i \in Inputs |-> IF i \in Pending THEN g ELSE flag[i]]

Start ==
  IF worker = 0 /\ life # "starting" /\ gen < MaxGen
  THEN life' = "starting" /\ gen' = gen + 1
  ELSE UNCHANGED <<life, gen>>

\* #queueActorInputWake: a wake already running goes round once more.
QueueWake ==
  /\ Start
  /\ IF wake = "none" THEN wake' = "begin" /\ UNCHANGED again
     ELSE again' = TRUE /\ UNCHANGED wake

\* The wake's loop condition.
WakeEnds == wake' = (IF again THEN "begin" ELSE "none") /\ again' = FALSE

\* The failure of a wake: stop the actor with an error, flag what stays pending.
WakeFailed ==
  /\ Flag(gen) /\ life' = "error"
  /\ IF worker # 0 THEN closing' = "error" /\ wake' = "failing" /\ UNCHANGED again
     ELSE WakeEnds /\ UNCHANGED closing

\* A pass returns to its owner.
PassReturns ==
  /\ pass' = NoPass
  /\ IF pass.owner = "wake" /\ wake = "pass" THEN WakeEnds ELSE UNCHANGED <<wake, again>>

\* #publishActorInputFailure: only the current record speaks, and not while it is being
\* retired; as if an actor closing with an error were being retired.
MayPublishUnlessClosing == closing = "none"
MayPublish == closing \in {"none", "error"}

\* A pass rejects.  Its failure is published, then the wake stops the actor, a launch
\* closes the worker it started, and a kick only reports it.
PassFails ==
  /\ pass' = NoPass
  /\ CASE pass.owner = "wake" /\ wake = "pass" -> WakeFailed
       [] pass.owner = "launch" ->
            /\ closing' = IF closing = "none" THEN "error" ELSE closing
            /\ IF MayPublish THEN Flag(gen) ELSE UNCHANGED flag
            /\ UNCHANGED <<life, wake, again>>
       [] OTHER -> /\ IF MayPublish THEN Flag(gen) ELSE UNCHANGED flag
                   /\ UNCHANGED <<life, closing, wake, again>>

\* The worker's memory is gone.
ForgetMemory ==
  /\ flight' = [i \in Inputs |-> 0] /\ queue' = <<>> /\ enqueued' = {} /\ reports' = {}

-----------------------------------------------------------------------------
Init ==
  /\ receipt = [i \in Inputs |-> "none"] /\ sequence = [i \in Inputs |-> 0]
  /\ row = [i \in Inputs |-> NoRow] /\ flag = [i \in Inputs |-> 0]
  /\ transcript = <<>>
  /\ life = "starting" /\ gen = 1 /\ worker = 0 /\ closing = "none"
  /\ wake = "none" /\ again = FALSE /\ dispatch = "none"
  /\ tail = {} /\ pass = NoPass /\ online = FALSE
  /\ flight = [i \in Inputs |-> 0] /\ queue = <<>> /\ enqueued = {} /\ reports = {}
  /\ lapses = [i \in Inputs |-> 0] /\ troubles = 0

(* Admission. *)

\* createActorInput: the receipt and the pending row, within the pending limit.
Reserve(i) ==
  /\ receipt[i] = "none" /\ Cardinality(Pending) < PendingLimit
  /\ receipt' = [receipt EXCEPT ![i] = "reserved"]
  /\ sequence' = [sequence EXCEPT ![i] = 1 + Cardinality({j \in Inputs : sequence[j] > 0})]
  /\ row' = [row EXCEPT ![i] = [state |-> "queued", gen |-> 0]]

\* submit_input: admit, or match an earlier request; either way register a wake, which
\* clears the flags.
SubmitInput(i) ==
  /\ i \in Inputs \ Internal /\ TailFree
  /\ \/ Reserve(i)
     \/ row[i].state # "none" /\ UNCHANGED <<receipt, sequence, row>>
  /\ flag' = [j \in Inputs |-> 0]
  /\ QueueWake
  /\ UNCHANGED <<transcript, process, dispatch, passes, online, memory, lapses, troubles>>

\* #dispatchBackgroundCompletion, #deliverInboxMessage: admit, then wait for readiness
\* outside the mutation tail.  The monitor dispatches a pending completion again.
DispatchInternal(i) ==
  /\ i \in Internal /\ TailFree /\ dispatch = "none"
  /\ \/ Reserve(i)
     \/ row[i].state # "none" /\ UNCHANGED <<receipt, sequence, row>>
  /\ dispatch' = "begin"
  /\ UNCHANGED <<flag, transcript, session, process, wake, again, passes, online, memory,
                 lapses, troubles>>

(* Readiness. *)

\* #ensureActorReadyOnce up to its polling.
WakeBegin ==
  /\ wake = "begin" /\ wake' = "ready" /\ Start
  /\ UNCHANGED <<store, transcript, process, again, dispatch, passes, online, memory, lapses,
                 troubles>>
DispatchBegin ==
  /\ dispatch = "begin" /\ dispatch' = "ready" /\ Start
  /\ UNCHANGED <<store, transcript, process, wake, again, passes, online, memory, lapses,
                 troubles>>

\* The actor is resident: the wake's pass, or the dispatch's kick, joins the tail.
WakeReady ==
  /\ wake = "ready" /\ Serving
  /\ wake' = "pass" /\ tail' = tail \cup {"wake"}
  /\ UNCHANGED <<store, transcript, session, process, again, dispatch, pass, online, memory,
                 lapses, troubles>>
DispatchReady ==
  /\ dispatch = "ready" /\ Serving
  /\ dispatch' = "none" /\ tail' = tail \cup {"kick"}
  /\ UNCHANGED <<store, transcript, session, process, wake, again, pass, online, memory,
                 lapses, troubles>>

\* The actor is in error, or readiness timed out.
WakeFails ==
  /\ wake = "ready"
  /\ \/ life = "error" /\ UNCHANGED troubles
     \/ life # "error" /\ ~Serving /\ Trouble
  /\ WakeFailed
  /\ UNCHANGED <<receipt, sequence, row, transcript, gen, worker, dispatch, passes, online,
                 memory, lapses>>
DispatchFails ==
  /\ dispatch = "ready"
  /\ \/ life = "error" /\ UNCHANGED troubles
     \/ life # "error" /\ ~Serving /\ Trouble
  /\ dispatch' = "none"
  /\ UNCHANGED <<store, transcript, session, process, wake, again, passes, online, memory,
                 lapses>>

(* Delivery passes: #deliverActorInputs. *)

\* A pass takes its turn: with nothing pending it returns at once, else it looks the
\* pending inputs up in the transcript.  Other handlers run before it goes on.
Read(o) == [owner |-> o, phase |-> "decide", scope |-> Pending, proven |-> Proven(Pending),
            unresolved |-> Unresolved(Pending), todo |-> {}]
PassBegin(o) ==
  /\ pass = NoPass /\ o \in tail /\ tail' = tail \ {o}
  /\ IF Pending = {}
     THEN /\ UNCHANGED pass
          /\ IF o = "wake" THEN WakeEnds ELSE UNCHANGED <<wake, again>>
     ELSE pass' = Read(o) /\ UNCHANGED <<wake, again>>
  /\ UNCHANGED <<store, transcript, session, process, dispatch, online, memory, lapses,
                 troubles>>

\* What a sampled queue leaves to submit: acceptance by this worker counts.
ToSubmit ==
  {i \in Pending \ (pass.proven \cup pass.unresolved) :
     ~(row[i].state = "accepted" /\ row[i].gen = worker)}

\* The pending rows may have grown beyond what was read.
Outgrown == ~(Pending \subseteq pass.scope)

\* Submit the first of todo: worker.submit, or the prompt that runs the extension's input
\* command.
Submit(p, todo) ==
  /\ pass' = [p EXCEPT !.phase = "answer", !.todo = todo]
  /\ flight' = [flight EXCEPT ![First(todo)] = @ + 1]

\* The loop's synchronous part: resample the queue, read again if it outgrew the scope,
\* complete what is proven, and return once nothing is left to submit.
PassDecide ==
  /\ pass.phase = "decide"
  /\ IF closing # "none" THEN UNCHANGED <<receipt, row, flag, flight>> /\ PassReturns
     ELSE IF Outgrown
     THEN pass' = Read(pass.owner) /\ UNCHANGED <<receipt, row, flag, flight, wake, again>>
     ELSE /\ Complete(pass.proven \cap Pending)
          /\ IF ToSubmit = {} THEN PassReturns /\ UNCHANGED flight
             ELSE Submit(pass, ToSubmit) /\ UNCHANGED <<wake, again>>
  /\ UNCHANGED <<sequence, transcript, session, process, dispatch, tail, online, queue,
                 enqueued, reports, lapses, troubles>>

\* The next step of the sampled queue, after its first was dealt with.  An input that a
\* later reconciliation left out of its scope makes the pass sample again.
Onward(p) ==
  LET rest == p.todo \ ({First(p.todo)} \cup p.proven \cup p.unresolved) IN
  IF closing # "none" THEN PassReturns /\ UNCHANGED flight
  ELSE /\ UNCHANGED <<wake, again>>
       /\ IF rest = {} \/ First(rest) \notin p.scope
          THEN pass' = [p EXCEPT !.phase = "decide", !.todo = {}] /\ UNCHANGED flight
          ELSE Submit(p, rest)

\* get_state or get_commands fails and nothing was submitted.
PassSendFails ==
  LET i == First(pass.todo) IN
  /\ Trouble /\ pass.phase = "answer" /\ PassFails
  /\ flight[i] > 0 /\ flight' = [flight EXCEPT ![i] = @ - 1]
  /\ UNCHANGED <<receipt, sequence, row, transcript, gen, worker, dispatch, tail, online,
                 queue, enqueued, reports, lapses>>

\* The preflight deadline passes: the supervisor gives up, the worker does not know.
PassLapses ==
  LET i == First(pass.todo) IN
  /\ Trouble /\ pass.phase = "answer"
  /\ lapses' = [lapses EXCEPT ![i] = @ + 1]
  /\ PassFails
  /\ UNCHANGED <<receipt, sequence, row, transcript, gen, worker, dispatch, tail, online,
                 memory>>

\* markActorInputAccepted or markActorInputHandled, once a user input is answered.
PassAnswered ==
  LET i == First(pass.todo) IN
  /\ pass.phase \in {"accepted", "handled"}
  /\ IF pass.phase = "accepted"
     THEN /\ row' = IF row[i].state = "none" THEN row
                    ELSE [row EXCEPT ![i] = [state |-> "accepted", gen |-> worker]]
          /\ UNCHANGED <<receipt, flag>>
     ELSE /\ receipt' = [receipt EXCEPT ![i] = "handled"]
          /\ row' = [row EXCEPT ![i] = NoRow] /\ flag' = [flag EXCEPT ![i] = 0]
  /\ Onward(pass)
  /\ UNCHANGED <<sequence, transcript, session, process, dispatch, tail, online, queue,
                 enqueued, reports, lapses, troubles>>

\* The input command ran.  Unless the extension accepted the input, the transcript is
\* read again: only a proven or an ambiguous input lets the pass go on.
PassVerifies ==
  LET i == First(pass.todo)
      scope == Pending \cup {i}
      p == [pass EXCEPT !.scope = scope, !.proven = Proven(scope),
                        !.unresolved = Unresolved(scope)]
  IN
  /\ pass.phase = "ran"
  /\ IF row[i].state = "none" \/ (row[i].state = "accepted" /\ row[i].gen = worker)
     THEN Onward(pass) /\ UNCHANGED <<receipt, row, flag, life, closing>>
     ELSE IF Entries(i) = 0
     THEN PassFails /\ UNCHANGED <<receipt, row, flight>>
     ELSE /\ IF Entries(i) = 1 THEN Complete({i}) ELSE UNCHANGED <<receipt, row, flag>>
          /\ Onward(p) /\ UNCHANGED <<life, closing>>
  /\ UNCHANGED <<sequence, transcript, gen, worker, dispatch, tail, online, queue, enqueued,
                 reports, lapses, troubles>>

(* The worker. *)

\* A submission's preflight ends.  Its answer reaches the pass that awaits it; the answer
\* to a submission the supervisor gave up on is dropped.  As if a worker answered twice.
Awaited(i) == pass.phase = "answer" /\ First(pass.todo) = i
Answer(i, outcome) ==
  /\ flight[i] > 0 /\ flight' = [flight EXCEPT ![i] = @ - 1]
  /\ \/ Awaited(i) /\ pass' = [pass EXCEPT !.phase = outcome]
     \/ (~Awaited(i) \/ flight[i] > 1) /\ UNCHANGED pass

\* coordinator.submit: a command is handled, any other input joins the queue.
SubmitToWorker(i) ==
  /\ worker # 0 /\ i \notin Internal
  /\ IF i \in Commands THEN Answer(i, "handled") /\ UNCHANGED queue
     ELSE Answer(i, "accepted") /\ queue' = Append(queue, i)
  /\ UNCHANGED <<store, transcript, session, process, wakes, tail, online, enqueued, reports,
                 lapses, troubles>>

\* The extension's input command up to its last request: what the transcript proves is
\* reported, an ambiguous input is left alone, and a new one is sent to the queue once;
\* as if it forgot what it had sent.
NeverSent(i) == FALSE
SentBefore(i) == i \in enqueued
RunInputCommand(i) ==
  /\ worker # 0 /\ i \in Internal /\ flight[i] > 0 /\ online
  /\ row[i].state # "none" /\ Entries(i) = 0 /\ ~SentBefore(i)
  /\ enqueued' = enqueued \cup {i} /\ queue' = Append(queue, i)
  /\ UNCHANGED <<store, transcript, session, process, wakes, passes, online, flight, reports,
                 lapses, troubles>>

\* The command ends: accept_actor_input for what it sent, or nothing for an input it found
\* completed, proven (then reported) or ambiguous, or when it is offline.
EndInputCommand(i) ==
  /\ worker # 0 /\ i \in Internal
  /\ Answer(i, "ran")
  /\ \/ /\ online /\ i \in enqueued /\ row[i].state # "none"
        /\ row' = [row EXCEPT ![i] = [state |-> "accepted", gen |-> worker]]
        /\ UNCHANGED reports
     \/ /\ ~online \/ row[i].state = "none" \/ Entries(i) > 0
        /\ reports' = IF online /\ Entries(i) > 0 THEN reports \cup {i} ELSE reports
        /\ UNCHANGED row
  /\ UNCHANGED <<receipt, sequence, flag, transcript, session, process, wakes, tail, online,
                 queue, enqueued, lapses, troubles>>

\* deliverQueued: the first queued input enters the transcript at a safe checkpoint.
CommitInput ==
  /\ worker # 0 /\ queue # <<>>
  /\ transcript' = Append(transcript, Head(queue)) /\ queue' = Tail(queue)
  /\ reports' = reports \cup {Head(queue)}
  /\ UNCHANGED <<store, session, process, wakes, passes, online, flight, enqueued, lapses,
                 troubles>>

\* flush and record_input_delivery: the supervisor verifies the one entry before it
\* completes the input.
RecordDelivery(i) ==
  /\ worker # 0 /\ online /\ i \in reports
  /\ receipt[i] = "delivered" \/ Entries(i) = 1
  /\ reports' = reports \ {i} /\ enqueued' = enqueued \ {i}
  /\ IF receipt[i] = "delivered" THEN UNCHANGED <<receipt, row, flag>> ELSE Complete({i})
  /\ UNCHANGED <<sequence, transcript, session, process, wakes, passes, online, flight, queue,
                 lapses, troubles>>

\* flush_actor_inputs, before every native request: a pass like a kick's.
FlushInputs ==
  /\ worker # 0 /\ online /\ transcript # <<>> /\ Pending # {}
  /\ tail' = tail \cup {"kick"}
  /\ UNCHANGED <<store, transcript, session, process, wakes, pass, online, memory, lapses,
                 troubles>>

\* agent_settled: behind the mutation tail, the settled actor's own wake.  With nothing
\* pending it would deliver nothing.
SettledWake ==
  /\ Serving /\ Pending # {}
  /\ flag' = [i \in Inputs |-> 0] /\ QueueWake
  /\ UNCHANGED <<receipt, sequence, row, transcript, process, dispatch, passes, online, memory,
                 lapses, troubles>>

(* Connections and lifecycles, as far as inputs depend on them. *)

\* register_actor: a resident actor's inputs are kicked.
Register ==
  /\ worker # 0 /\ ~online /\ online' = TRUE
  /\ tail' = IF Serving THEN tail \cup {"kick"} ELSE tail
  /\ UNCHANGED <<store, transcript, session, process, wakes, pass, memory, lapses, troubles>>
Disconnect ==
  /\ Trouble /\ online /\ online' = FALSE
  /\ UNCHANGED <<store, transcript, session, process, wakes, passes, memory, lapses>>

\* #launchActor spawns the worker, or fails before it does.
Launch ==
  /\ life = "starting" /\ worker = 0 /\ worker' = gen
  /\ UNCHANGED <<store, transcript, session, closing, wakes, passes, online, memory, lapses,
                 troubles>>
LaunchFails ==
  /\ Trouble /\ life = "starting" /\ worker = 0 /\ life' = "error"
  /\ UNCHANGED <<store, transcript, gen, process, wakes, passes, online, memory, lapses>>

\* markActorStarted, then the launch's own pass; as if only wakes delivered.
BecomeResidentOnly ==
  /\ life = "starting" /\ worker = gen /\ closing = "none"
  /\ life' = "resident"
  /\ UNCHANGED <<store, transcript, gen, process, wakes, passes, online, memory, lapses,
                 troubles>>
BecomeResident ==
  /\ life = "starting" /\ worker = gen /\ closing = "none"
  /\ life' = "resident" /\ tail' = tail \cup {"launch"}
  /\ UNCHANGED <<store, transcript, gen, process, wakes, pass, online, memory, lapses,
                 troubles>>

\* Inactivity: only without pending inputs, wakes and readiness work.
Passivate ==
  /\ Trouble /\ Serving /\ Pending = {} /\ wake = "none" /\ dispatch = "none"
  /\ closing' = "passivated"
  /\ UNCHANGED <<store, transcript, session, worker, wakes, passes, online, memory, lapses>>

\* stop_session: #stopActorAndDrainInputs cancels the wake and the readiness work.
Stop ==
  /\ Trouble /\ TailFree
  /\ wake' = "none" /\ again' = FALSE /\ dispatch' = "none"
  /\ IF worker # 0 THEN closing' = "stopped" /\ UNCHANGED life
     ELSE life' = "stopped" /\ UNCHANGED closing
  /\ UNCHANGED <<store, transcript, gen, worker, passes, online, memory, lapses>>

\* revive_session.
Revive ==
  /\ worker = 0 /\ life # "starting" /\ gen < MaxGen /\ Start
  /\ UNCHANGED <<store, transcript, process, wakes, passes, online, memory, lapses, troubles>>

\* #onActorExit: an exit with an error flags what is pending.  The pass in progress and
\* the passes behind it end with their record, and so does the wake they belong to.
WorkerExit ==
  /\ worker # 0
  /\ IF closing = "none" THEN Trouble ELSE UNCHANGED troubles
  /\ life' = IF closing = "none" THEN "error" ELSE closing
  /\ IF MayPublish THEN Flag(gen) ELSE UNCHANGED flag
  /\ worker' = 0 /\ closing' = "none" /\ online' = FALSE
  /\ tail' = {} /\ pass' = NoPass
  /\ IF wake \in {"pass", "failing"} THEN WakeEnds ELSE UNCHANGED <<wake, again>>
  /\ ForgetMemory
  /\ UNCHANGED <<receipt, sequence, row, transcript, gen, dispatch, lapses>>

\* start() after the session was left at l: a session that was running, or passivated
\* with pending inputs, gets a new generation.
StartDaemon(l) ==
  LET recovered == l \in {"starting", "resident"} \/ (l = "passivated" /\ Pending # {}) IN
  /\ Trouble /\ (recovered => gen < MaxGen)
  /\ life' = IF recovered THEN "starting" ELSE l
  /\ gen' = IF recovered THEN gen + 1 ELSE gen
  /\ worker' = 0 /\ closing' = "none" /\ online' = FALSE
  /\ wake' = "none" /\ again' = FALSE /\ dispatch' = "none"
  /\ tail' = {} /\ pass' = NoPass /\ ForgetMemory
  /\ UNCHANGED <<store, transcript, lapses>>

\* The daemon and its worker die, or stop() passivates the worker.
Crash == (worker # 0 \/ wake # "none") /\ StartDaemon(life)
StopAndStart == worker # 0 /\ StartDaemon("passivated")

-----------------------------------------------------------------------------
Next ==
  \/ \E i \in Inputs : \/ SubmitInput(i) \/ DispatchInternal(i)
                       \/ SubmitToWorker(i) \/ RunInputCommand(i) \/ EndInputCommand(i)
                       \/ RecordDelivery(i)
  \/ WakeBegin \/ WakeReady \/ WakeFails
  \/ DispatchBegin \/ DispatchReady \/ DispatchFails
  \/ \E o \in Owners : PassBegin(o)
  \/ PassDecide \/ PassSendFails \/ PassLapses \/ PassAnswered \/ PassVerifies
  \/ CommitInput \/ FlushInputs \/ SettledWake
  \/ Register \/ Disconnect \/ Launch \/ LaunchFails \/ BecomeResident
  \/ Passivate \/ Stop \/ Revive \/ WorkerExit \/ Crash \/ StopAndStart

Spec == Init /\ [][Next]_vars

\* Started work is carried on: readiness is polled, passes take their turns, the worker
\* answers, commits and reports, a stopped worker exits and a launched one registers.
Fairness ==
  /\ WF_vars(WakeBegin \/ WakeReady \/ (life = "error" /\ WakeFails))
  /\ WF_vars(DispatchBegin \/ DispatchReady \/ (life = "error" /\ DispatchFails))
  /\ WF_vars((\E o \in Owners : PassBegin(o)) \/ PassDecide \/ PassAnswered \/ PassVerifies)
  /\ WF_vars(CommitInput \/ \E i \in Inputs :
       SubmitToWorker(i) \/ RunInputCommand(i) \/ EndInputCommand(i) \/ RecordDelivery(i))
  /\ WF_vars(Launch \/ Register \/ BecomeResident \/ (closing # "none" /\ WorkerExit))

FairSpec == Spec /\ Fairness

-----------------------------------------------------------------------------
(* Properties. *)

\* A wake that gives up with the session in error leaves no pending input without its
\* retryable error, whatever was admitted while the worker closed.  Only the daemon's own
\* end cuts a wake short.
FailedWakeIsShown ==
  [][(wake # "none" /\ wake' = "none" /\ life' = "error" /\ worker' = 0
        /\ ~Crash /\ ~StopAndStart) =>
       \A i \in Inputs : row'[i].state # "none" => flag'[i] # 0]_vars

\* The contract of an admitted input, whatever the passes do.
Contract == INSTANCE InputContract WITH
  status <- receipt,
  entered <- [i \in Inputs |-> Entries(i)],
  lost <- lapses
ImplementsContract == Contract!Spec

\* No admitted input is left behind in silence: it is completed, or flagged, or ambiguous,
\* or its session is stopped or in error, or the model has no generation left to start.
NoInputForgotten ==
  []<>(\A i \in Inputs :
         \/ row[i].state = "none" \/ flag[i] # 0 \/ Entries(i) > 1
         \/ life \in {"stopped", "error"}
         \/ gen = MaxGen /\ worker = 0 /\ life # "starting")
=============================================================================
