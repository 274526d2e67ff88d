---------------------------- MODULE Coordinator ----------------------------
(***************************************************************************)
(* The coordinator of one actor (actor-coordinator.mjs): the queue of       *)
(* inputs, the drive that enters them into the transcript and asks the      *)
(* provider, the tail of admitted tool calls, retry and overflow recovery   *)
(* (inference-retry.mjs), automatic and manual summaries, abort, and the    *)
(* recovery of calls a dead process left without a result.  JavaScript      *)
(* runs one step at a time: an action ends where the code awaits, so        *)
(* submissions, aborts, tools and the provider interleave with the drive.   *)
(***************************************************************************)
EXTENDS Naturals, Sequences, FiniteSets

CONSTANTS
  Inputs,        \* submissions, by id
  FollowUps,     \* those that wait for a completed answer
  NextTurns,     \* those an extension sends for the next turn
  Customs,       \* those sent by extensions; the others are user messages
  Calls,         \* tool-call ids the provider may use
  MaxRetries,    \* retry policy: maxRetries
  MaxTroubles    \* bound: aborts, manual compactions and deaths of the worker

ASSUME CoordinatorAssumption ==
  /\ FollowUps \subseteq Inputs /\ Customs \subseteq Inputs
  /\ NextTurns \subseteq Customs \ FollowUps
  /\ MaxRetries \in Nat /\ MaxTroubles \in Nat

VARIABLES
  entered,      \* transcript: inputs, in order
  call,         \* transcript and tasks: progress of every tool call
  native,       \* transcript: the calls admitted as native asynchronous ones
  ran,          \* history: tool executions, in order
  nativeModel,  \* the model of the session takes native asynchronous calls
  queue,        \* this.queue
  tail,         \* this.tasks, in the order of toolTail
  drive,        \* this.drivePromise: where the drive stands
  run,          \* the logical run and its current inference attempt
  receipt,      \* runFailure, runFailureReport, runProviderStarted, runToolDispatched
  unseen,       \* history: results of this process no request has carried
  recovered,    \* this.recoveryDone
  manual,       \* a manual compaction holds this.compacting
  troubles      \* bounded by MaxTroubles

transcript == <<entered, call, native, ran>>
vars == <<entered, call, native, ran, nativeModel, queue, tail, drive, run, receipt, unseen,
          recovered, manual, troubles>>

Pending == {"queued", "blocked", "open", "running"}

AtRest == [at |-> "rest", todo |-> <<>>, after |-> "loop", back |-> "run",
           prompted |-> FALSE, truncated |-> FALSE, overflow |-> FALSE, cut |-> FALSE]
NoAttempt == [kind |-> "none", admitted |-> FALSE, number |-> 1]
NoRun == [on |-> FALSE, stopping |-> FALSE, aborted |-> FALSE, failure |-> FALSE, natural |-> TRUE,
          unsent |-> FALSE, attempt |-> 1, admitted |-> FALSE, failed |-> NoAttempt,
          overflowTried |-> FALSE]
NoReceipt == [failed |-> FALSE, provider |-> FALSE, tool |-> FALSE, report |-> "none"]

Members(s) == {s[k] : k \in DOMAIN s}
Behavior(i) == IF i \in FollowUps THEN "follow_up" ELSE IF i \in NextTurns THEN "next_turn" ELSE "auto"

-----------------------------------------------------------------------------
(* Queries the drive and its callers make. *)

\* hasOrdinaryBarrier: an ordinary call still lacks its result.
Barrier(t) == \E c \in Members(t) : c \notin native

\* isBusy.
Busy == run.on \/ tail # <<>> \/ manual

\* shouldDrive, for the run r, queue q and tasks t.
ShouldDrive(r, q, t) ==
  LET some(b) == \E i \in Members(q) : Behavior(i) = b
  IN /\ ~manual
     /\ \/ r.stopping /\ r.on /\ t = <<>>
        \/ ~r.stopping /\ r.failure /\ r.on /\ (r.failed # NoAttempt \/ t = <<>>)
        \/ /\ ~r.stopping /\ ~r.failure
           /\ IF some("auto") \/ (r.on /\ r.unsent) THEN ~Barrier(t)
              ELSE t = <<>> /\ (r.on \/ some("follow_up"))

\* wake: a drive starts unless one is under way.
Woken == IF drive.at = "rest" THEN [drive EXCEPT !.at = "entry"] ELSE drive

\* The end of a drive, which wakes the next one if there is work left; as if it did not look.
EndedForGood(r, q, t) == AtRest
Ended(r, q, t) == IF ShouldDrive(r, q, t) THEN [AtRest EXCEPT !.at = "entry"] ELSE AtRest

Goto(phase) == [AtRest EXCEPT !.at = phase]
Infers(phase, back) == [AtRest EXCEPT !.at = phase, !.back = back]

\* drive, once recovery gave up or the run was stopped: settle when no task is left.
SettleOrEnd(r) == IF tail = <<>> THEN Goto("settle") ELSE Ended(r, queue, tail)

\* The inputs deliverQueued takes, in order.
Selected(follow) ==
  LET wanted(i) == \/ Behavior(i) = "auto"
                   \/ follow /\ Behavior(i) = "follow_up"
                   \/ ~run.on /\ Behavior(i) = "next_turn"
  IN SelectSeq(queue, wanted)
Delivers(todo, after) ==
  [Infers("deliver", drive.back) EXCEPT !.todo = todo, !.after = after]

\* maybeAutoCompact: possible once the run r has neither a failure nor tasks.
MayCompact(r) == ~r.failure /\ tail = <<>>
Summarizes(overflow) == [Goto("summary") EXCEPT !.overflow = overflow]
Preflight(r) == {Goto("loop")} \cup (IF MayCompact(r) THEN {Summarizes(FALSE)} ELSE {})

\* inference() returns to the drive's loop, directly or through recoverInference.
Returned(r) == IF drive.back = "run" THEN Preflight(r) ELSE {Goto("loop")}

\* journalTurnFailure: the dispatch boundary is frozen once, conservatively; as if tasks still
\* paused before their dispatch did not count.
BoundaryOfStarted(f) == IF f.tool THEN "effects" ELSE IF f.provider THEN "unknown" ELSE "before"
Boundary(f) == IF f.tool \/ tail # <<>> THEN "effects" ELSE IF f.provider THEN "unknown" ELSE "before"
Journal(f) ==
  IF f.failed /\ f.report = "none" THEN [f EXCEPT !.report = Boundary(f)] ELSE f

-----------------------------------------------------------------------------
(* Admission, from the outside of the drive. *)

\* submit: a user message, once its input hooks have run.
Submit(i) ==
  /\ i \notin Customs /\ i \notin Members(queue) \cup Members(entered)
  /\ queue' = Append(queue, i)
  /\ run' = [run EXCEPT !.failure = FALSE]
  /\ drive' = Woken
  /\ UNCHANGED <<transcript, nativeModel, tail, receipt, unseen, recovered, manual, troubles>>

\* sendCustom: a message of an extension, entered at once into an idle actor's transcript
\* unless it asks for a turn.
SendCustom(i, triggerTurn) ==
  /\ i \in Customs /\ i \notin Members(queue) \cup Members(entered)
  /\ IF ~Busy /\ ~triggerTurn /\ Behavior(i) # "next_turn"
     THEN entered' = Append(entered, i) /\ UNCHANGED <<queue, run, drive>>
     ELSE /\ queue' = Append(queue, i)
          /\ IF triggerTurn \/ run.on
             THEN run' = [run EXCEPT !.failure = FALSE] /\ drive' = Woken
             ELSE UNCHANGED <<run, drive>>
          /\ UNCHANGED entered
  /\ UNCHANGED <<call, native, ran, nativeModel, tail, receipt, unseen, recovered, manual, troubles>>

Trouble == troubles < MaxTroubles /\ troubles' = troubles + 1

\* abort: the run's controller is aborted and its inference epoch retired.
Abort ==
  /\ Trouble
  /\ run' = [run EXCEPT !.stopping = TRUE, !.aborted = TRUE]
  /\ drive' = [Woken EXCEPT !.cut = (drive.at = "summary")]
  /\ UNCHANGED <<transcript, nativeModel, queue, tail, receipt, unseen, recovered, manual>>

\* compact: a summary asked for while the actor is idle; its end wakes the drive.
Compact ==
  /\ ~Busy /\ Trouble
  /\ manual' = TRUE
  /\ UNCHANGED <<transcript, nativeModel, queue, tail, drive, run, receipt, unseen, recovered>>
CompactEnds ==
  /\ manual /\ manual' = FALSE
  /\ drive' = Woken
  /\ UNCHANGED <<transcript, nativeModel, queue, tail, run, receipt, unseen, recovered, troubles>>

\* The worker dies and another one takes over the transcript.
Crash ==
  /\ Trouble
  /\ call' = [c \in Calls |-> IF call[c] \in Pending THEN "orphaned" ELSE call[c]]
  /\ queue' = <<>> /\ tail' = <<>> /\ drive' = AtRest /\ run' = NoRun /\ receipt' = NoReceipt
  /\ unseen' = {} /\ recovered' = FALSE /\ manual' = FALSE
  /\ UNCHANGED <<entered, native, ran, nativeModel>>

-----------------------------------------------------------------------------
(* Tool calls, one at a time in the order of their admission. *)

\* commitPlan: the calls cs of a committed message enter the tail.
Admit(cs, state, natively) ==
  /\ call' = [c \in Calls |-> IF c \in Members(cs) THEN state ELSE call[c]]
  /\ native' = IF natively THEN native \cup Members(cs) ELSE native
  /\ tail' = tail \o cs

\* scheduleTool: the result of call c is committed; the task ends and wakes the drive.
Answer(c) ==
  /\ call' = [call EXCEPT ![c] = "answered"]
  /\ tail' = Tail(tail)
  /\ run' = [run EXCEPT !.unsent = TRUE]
  /\ unseen' = unseen \cup {c}
  /\ drive' = Woken
  /\ UNCHANGED <<entered, native, nativeModel, queue, receipt, recovered, manual, troubles>>

\* A call cancelled before its execution, or cut off by the response's length, does not run.
RefuseTool ==
  /\ tail # <<>>
  /\ LET c == Head(tail) IN
     /\ call[c] = "blocked" \/ (call[c] = "queued" /\ run.aborted) \/ call[c] = "open"
     /\ Answer(c)
  /\ UNCHANGED ran

\* tool_execution_start and the tool_call hooks, which may still refuse it.
OpenTool ==
  /\ tail # <<>> /\ call[Head(tail)] = "queued" /\ ~run.aborted
  /\ call' = [call EXCEPT ![Head(tail)] = "open"]
  /\ UNCHANGED <<entered, native, ran, nativeModel, queue, tail, drive, run, receipt, unseen, recovered, manual, troubles>>

RunTool ==
  /\ tail # <<>> /\ call[Head(tail)] = "open"
  /\ call' = [call EXCEPT ![Head(tail)] = "running"]
  /\ ran' = Append(ran, Head(tail))
  /\ receipt' = [receipt EXCEPT !.tool = TRUE]
  /\ UNCHANGED <<entered, native, nativeModel, queue, tail, drive, run, unseen, recovered, manual, troubles>>

FinishTool ==
  /\ tail # <<>> /\ call[Head(tail)] = "running"
  /\ Answer(Head(tail))
  /\ UNCHANGED ran

-----------------------------------------------------------------------------
(* The drive: how it begins, gives up and settles. *)

\* wake's handler of a failed preparation: the run is stopped and its failure journaled.
LocalFailure ==
  /\ run' = [run EXCEPT !.failure = TRUE, !.failed = NoAttempt, !.stopping = TRUE, !.aborted = TRUE]
  /\ receipt' = Journal([receipt EXCEPT !.failed = TRUE])
  /\ drive' = Ended(run', queue, tail)

\* wake's handler of any other error.
Throws(failed) ==
  /\ run' = [run EXCEPT !.failure = TRUE]
  /\ receipt' = [receipt EXCEPT !.failed = @ \/ failed \/ (~run.stopping /\ ~run.aborted)]
  /\ drive' = Ended(run', queue, tail)

\* drive finds a compaction under way or nothing to start a run for.
NothingToDrive ==
  /\ drive.at = "entry"
  /\ manual \/ (~run.on /\ \A i \in Members(queue) : Behavior(i) = "next_turn")
  /\ drive' = Ended(run, queue, tail)
  /\ UNCHANGED <<transcript, nativeModel, queue, tail, run, receipt, unseen, recovered, manual, troubles>>

\* A new run: agent_start.  naturalStop, failure and the revisions keep their values.
StartRun ==
  /\ drive.at = "entry" /\ ~manual /\ ~run.on
  /\ \E i \in Members(queue) : Behavior(i) # "next_turn"
  /\ run' = [run EXCEPT !.on = TRUE, !.stopping = FALSE, !.aborted = FALSE, !.attempt = 1,
                        !.failed = NoAttempt, !.overflowTried = FALSE]
  /\ receipt' = NoReceipt
  /\ drive' = Goto("starting")
  /\ UNCHANGED <<transcript, nativeModel, queue, tail, unseen, recovered, manual, troubles>>

Orphans == {c \in native : call[c] = "orphaned"}
Begin ==
  /\ drive.at = "starting"
  /\ call' = IF recovered THEN call ELSE [c \in Calls |-> IF c \in Orphans THEN "answered" ELSE call[c]]
  /\ recovered' = TRUE
  /\ drive' \in Preflight(run)
  /\ UNCHANGED <<entered, native, ran, nativeModel, queue, tail, run, receipt, unseen, manual, troubles>>

\* A stopped run settles when its tasks have ended.
StopRun ==
  /\ drive.at = "entry" /\ ~manual /\ run.on /\ run.stopping
  /\ drive' = SettleOrEnd(run)
  /\ UNCHANGED <<transcript, nativeModel, queue, tail, run, receipt, unseen, recovered, manual, troubles>>

ResumeRun ==
  /\ drive.at = "entry" /\ ~manual /\ run.on /\ ~run.stopping /\ ~run.failure
  /\ drive' = Goto("loop")
  /\ UNCHANGED <<transcript, nativeModel, queue, tail, run, receipt, unseen, recovered, manual, troubles>>

\* settle: a failure nobody stopped is journaled, and agent_end announced.
Settle ==
  /\ drive.at = "settle"
  /\ receipt' = Journal([receipt EXCEPT !.failed = @ \/ (run.failure /\ ~run.stopping)])
  /\ drive' = Goto("ending")
  /\ UNCHANGED <<transcript, nativeModel, queue, tail, run, unseen, recovered, manual, troubles>>

\* The run is over before agent_settled is announced.
Ending ==
  /\ drive.at = "ending"
  /\ run' = [run EXCEPT !.on = FALSE, !.stopping = FALSE]
  /\ drive' = Goto("settled")
  /\ UNCHANGED <<transcript, nativeModel, queue, tail, receipt, unseen, recovered, manual, troubles>>

Settled ==
  /\ drive.at = "settled"
  /\ drive' = Ended(run, queue, tail)
  /\ UNCHANGED <<transcript, nativeModel, queue, tail, run, receipt, unseen, recovered, manual, troubles>>

-----------------------------------------------------------------------------
(* The drive: inputs. *)

TakesFollowUps == run.natural /\ tail = <<>> /\ ~run.unsent

\* One turn of drive's loop, up to its first delivery.
Loop ==
  /\ drive.at = "loop"
  /\ drive' = IF run.stopping \/ run.failure
              THEN IF tail = <<>> /\ run.failed = NoAttempt THEN Goto("settle")
                   ELSE Ended(run, queue, tail)
              ELSE IF Barrier(tail) THEN Ended(run, queue, tail)
              ELSE Delivers(Selected(TakesFollowUps), "loop")
  /\ UNCHANGED <<transcript, nativeModel, queue, tail, run, receipt, unseen, recovered, manual, troubles>>

Remaining(i) == SelectSeq(queue, LAMBDA j : j # i)
\* deliverQueued: the next selected input leaves the queue for the transcript.
EnterInput ==
  /\ drive.at = "deliver" /\ drive.todo # <<>>
  /\ LET i == Head(drive.todo) IN
     /\ queue' = Remaining(i)
     /\ entered' = Append(entered, i)
     /\ IF i \in Customs
        THEN /\ run' = [run EXCEPT !.unsent = TRUE, !.natural = FALSE]
             /\ drive' = [drive EXCEPT !.todo = Tail(@)]
        ELSE /\ drive' = [drive EXCEPT !.at = "prompt", !.todo = Tail(@), !.prompted = TRUE]
             /\ UNCHANGED run
  /\ UNCHANGED <<call, native, ran, nativeModel, tail, receipt, unseen, recovered, manual, troubles>>

\* preparePrompt, after the commit of a user message.
PromptPrepared ==
  /\ drive.at = "prompt"
  /\ run' = [run EXCEPT !.unsent = TRUE, !.natural = FALSE]
  /\ drive' = [drive EXCEPT !.at = "deliver"]
  /\ UNCHANGED <<transcript, nativeModel, queue, tail, receipt, unseen, recovered, manual, troubles>>

\* The delivery of drive's loop is over: ask the provider, take what slipped in, or settle.
Delivered ==
  /\ drive.at = "deliver" /\ drive.todo = <<>> /\ drive.after \in {"loop", "again"}
  /\ drive' = IF drive.after = "again" THEN Goto("loop")
              ELSE IF run.unsent THEN Infers("infer", "run")
              ELSE IF tail # <<>> THEN Ended(run, queue, tail)
              ELSE IF run.natural /\ Selected(TRUE) # <<>> THEN Delivers(Selected(TRUE), "again")
              ELSE Goto("settle")
  /\ UNCHANGED <<transcript, nativeModel, queue, tail, run, receipt, unseen, recovered, manual, troubles>>

-----------------------------------------------------------------------------
(* The drive: one inference attempt. *)

\* inference's catch: the attempt is retired, its error message committed unless a final one was.
AttemptFails(kind, committed) ==
  /\ run' = [run EXCEPT !.failure = TRUE, !.natural = @ /\ ~committed,
              !.failed = [kind |-> kind, admitted |-> run.admitted, number |-> run.attempt]]
  /\ drive' \in Returned(run')

\* A run stopped before the request is left alone; otherwise a new epoch begins.
Infer ==
  /\ drive.at = "infer"
  /\ IF run.stopping \/ run.aborted
     THEN drive' \in Returned(run) /\ UNCHANGED run
     ELSE drive' = Infers("prepare", drive.back) /\ run' = [run EXCEPT !.admitted = FALSE]
  /\ UNCHANGED <<transcript, nativeModel, queue, tail, receipt, unseen, recovered, manual, troubles>>

\* prepareRequest, then a last delivery before the snapshot.
RequestPrepared ==
  /\ drive.at = "prepare"
  /\ drive' = Delivers(Selected(FALSE), "request")
  /\ UNCHANGED <<transcript, nativeModel, queue, tail, run, receipt, unseen, recovered, manual, troubles>>

\* preparePrompt or prepareRequest throws: local, or the mere echo of an abort.
PreparationFails ==
  /\ drive.at \in {"prompt", "prepare"}
  /\ IF ~run.aborted THEN LocalFailure
     ELSE IF drive.at = "prepare" \/ drive.after = "request" THEN AttemptFails("aborted", FALSE) /\ UNCHANGED receipt
     ELSE IF drive.after = "retry"
     THEN run' = [run EXCEPT !.failure = TRUE] /\ drive' = SettleOrEnd(run') /\ UNCHANGED receipt
     ELSE Throws(FALSE)
  /\ UNCHANGED <<transcript, nativeModel, queue, tail, unseen, recovered, manual, troubles>>

\* canonical-context.mjs: an ordinary projection blocks on any call without a result.
Unreplayable == ~nativeModel /\ \E c \in Calls : call[c] \in Pending \cup {"orphaned"}

\* The snapshot is taken and sent, prepared anew, or refused.
Ask ==
  /\ drive.at = "deliver" /\ drive.todo = <<>> /\ drive.after = "request"
  /\ ~run.aborted /\ ~drive.prompted /\ ~Unreplayable
  /\ run' = [run EXCEPT !.unsent = FALSE]
  /\ unseen' = {}
  /\ receipt' = [receipt EXCEPT !.provider = TRUE]
  /\ drive' = Infers("streaming", drive.back)
  /\ UNCHANGED <<transcript, nativeModel, queue, tail, recovered, manual, troubles>>
NotAsked ==
  /\ drive.at = "deliver" /\ drive.todo = <<>> /\ drive.after = "request"
  /\ IF run.aborted THEN AttemptFails("aborted", FALSE)
     ELSE IF drive.prompted THEN drive' = Infers("prepare", drive.back) /\ UNCHANGED run
     ELSE Unreplayable /\ AttemptFails("fatal", FALSE)
  /\ UNCHANGED <<transcript, nativeModel, queue, tail, receipt, unseen, recovered, manual, troubles>>

\* The guard of every commit of the stream: seenCalls and live().
AnyCall(c) == TRUE
Fresh(c) == call[c] = "unused"
Live == ~run.aborted

\* A completed native call is committed and admitted while the response streams on.
NativeCall(c) ==
  /\ drive.at = "streaming" /\ nativeModel /\ Live /\ Fresh(c)
  /\ Admit(<<c>>, "queued", TRUE)
  /\ run' = [run EXCEPT !.admitted = TRUE]
  /\ UNCHANGED <<entered, ran, nativeModel, queue, drive, receipt, unseen, recovered, manual, troubles>>

\* The final message carries ordinary calls; inference waits for their results.
FinalCalls(cs, truncated) ==
  /\ drive.at = "streaming" /\ Live /\ \A c \in Members(cs) : Fresh(c)
  /\ Admit(cs, IF truncated THEN "blocked" ELSE "queued", FALSE)
  /\ run' = [run EXCEPT !.admitted = TRUE]
  /\ drive' = [drive EXCEPT !.at = "tools", !.truncated = truncated]
  /\ UNCHANGED <<entered, ran, nativeModel, queue, receipt, unseen, recovered, manual, troubles>>

\* The final message, after the results of its calls if any: turn_end.
TurnEnds(natural) ==
  /\ run' = [run EXCEPT !.natural = natural, !.overflowTried = FALSE, !.attempt = 1]
  /\ drive' \in Returned(run')
FinalAnswer(natural) ==
  /\ drive.at = "streaming" /\ Live
  /\ TurnEnds(natural)
  /\ UNCHANGED <<transcript, nativeModel, queue, tail, receipt, unseen, recovered, manual, troubles>>
ResultsIn ==
  /\ drive.at = "tools" /\ tail = <<>>
  /\ IF drive.truncated
     THEN /\ run' = [run EXCEPT !.natural = FALSE, !.failure = TRUE,
                       !.failed = [kind |-> "overflow", admitted |-> TRUE, number |-> run.attempt]]
          /\ drive' \in Returned(run')
     ELSE TurnEnds(FALSE)
  /\ UNCHANGED <<transcript, nativeModel, queue, tail, receipt, unseen, recovered, manual, troubles>>

\* The response fails, stalls, repeats a call id, is too long, or is cut by an abort.
StreamFails(kind, committed) ==
  /\ drive.at = "streaming"
  /\ (kind = "aborted") <=> run.aborted
  /\ kind = "aborted" => ~committed
  /\ AttemptFails(kind, committed)
  /\ UNCHANGED <<transcript, nativeModel, queue, tail, receipt, unseen, recovered, manual, troubles>>

-----------------------------------------------------------------------------
(* The drive: recoverInference and summaries. *)

\* evaluateInferenceRetry: nothing was admitted and the budget is not used up; as if what was
\* admitted did not count.
RetryableAnyway(a) == a.kind = "transient" /\ a.number <= MaxRetries
Retryable(a) == a.kind = "transient" /\ ~a.admitted /\ a.number <= MaxRetries

Recovers == drive.at = "entry" /\ ~manual /\ run.on /\ ~run.stopping /\ run.failure

\* No attempt, no retry, or an overflow whose summary is disabled or vetoed.
GiveUp ==
  /\ Recovers /\ ~Retryable(run.failed)
  /\ run' = [run EXCEPT !.failed = NoAttempt, !.aborted = TRUE]
  /\ drive' = SettleOrEnd(run')
  /\ UNCHANGED <<transcript, nativeModel, queue, tail, receipt, unseen, recovered, manual, troubles>>

RetryLater ==
  /\ Recovers /\ Retryable(run.failed)
  /\ drive' = Goto("delay")
  /\ UNCHANGED <<transcript, nativeModel, queue, tail, run, receipt, unseen, recovered, manual, troubles>>

\* The delay ends or is cancelled.
DelayEnds ==
  /\ drive.at = "delay"
  /\ IF run.aborted
     THEN run' = [run EXCEPT !.failure = TRUE] /\ drive' = SettleOrEnd(run')
     ELSE drive' = Delivers(Selected(FALSE), "retry") /\ UNCHANGED run
  /\ UNCHANGED <<transcript, nativeModel, queue, tail, receipt, unseen, recovered, manual, troubles>>

\* The second evaluation: the failed attempt is replaced by the next one.
Retry ==
  /\ drive.at = "deliver" /\ drive.todo = <<>> /\ drive.after = "retry"
  /\ IF run.stopping THEN drive' = SettleOrEnd(run) /\ UNCHANGED run
     ELSE /\ run' = [run EXCEPT !.failure = FALSE, !.failed = NoAttempt, !.attempt = run.failed.number + 1]
          /\ drive' = Infers("infer", "recovery")
  /\ UNCHANGED <<transcript, nativeModel, queue, tail, receipt, unseen, recovered, manual, troubles>>

\* An overflow retires the whole controller and waits for the tools.
Drain ==
  /\ Recovers /\ run.failed.kind = "overflow"
  /\ run' = [run EXCEPT !.aborted = TRUE]
  /\ drive' = Goto("draining")
  /\ UNCHANGED <<transcript, nativeModel, queue, tail, receipt, unseen, recovered, manual, troubles>>
Drained ==
  /\ drive.at = "draining" /\ tail = <<>>
  /\ IF run.stopping \/ run.overflowTried
     THEN /\ run' = [run EXCEPT !.failed = NoAttempt]
          /\ drive' = SettleOrEnd(run')
          /\ UNCHANGED receipt
     ELSE /\ run' = [run EXCEPT !.overflowTried = TRUE, !.failure = FALSE, !.failed = NoAttempt, !.aborted = FALSE]
          /\ receipt' = [receipt EXCEPT !.provider = TRUE]
          /\ drive' = Summarizes(TRUE)
  /\ UNCHANGED <<transcript, nativeModel, queue, tail, unseen, recovered, manual, troubles>>

\* compact, within the drive.
SummaryEnds ==
  /\ drive.at = "summary"
  /\ receipt' = [receipt EXCEPT !.provider = TRUE]
  /\ IF drive.overflow
     THEN /\ run' = [run EXCEPT !.attempt = 1]
          /\ drive' = Infers("infer", "recovery")
     ELSE drive' = Goto("loop") /\ UNCHANGED run
  /\ UNCHANGED <<transcript, nativeModel, queue, tail, unseen, recovered, manual, troubles>>

\* It fails, with an error message of its own unless an abort cut it, or an extension cancels it.
SummaryFails(cancelled) ==
  /\ drive.at = "summary"
  /\ LET failed == ~cancelled /\ ~drive.cut
         r == [receipt EXCEPT !.provider = TRUE, !.failed = @ \/ failed]
     IN IF drive.overflow
        THEN /\ run' = [run EXCEPT !.failure = TRUE, !.failed = NoAttempt, !.aborted = TRUE]
             /\ receipt' = r /\ drive' = SettleOrEnd(run')
        ELSE IF cancelled THEN receipt' = r /\ drive' = Goto("loop") /\ UNCHANGED run
        ELSE /\ run' = [run EXCEPT !.failure = TRUE]
             /\ receipt' = [r EXCEPT !.failed = @ \/ (~run.stopping /\ ~run.aborted)]
             /\ drive' = Ended(run', queue, tail)
  /\ UNCHANGED <<transcript, nativeModel, queue, tail, unseen, recovered, manual, troubles>>

-----------------------------------------------------------------------------
(* Specification. *)

Init ==
  /\ nativeModel \in BOOLEAN
  /\ entered = <<>> /\ call = [c \in Calls |-> "unused"] /\ native = {} /\ ran = <<>>
  /\ queue = <<>> /\ tail = <<>> /\ drive = AtRest /\ run = NoRun /\ receipt = NoReceipt
  /\ unseen = {} /\ recovered = FALSE /\ manual = FALSE
  /\ troubles = 0

\* The calls of one ordinary message: one, or two in order.
Batches == {<<c>> : c \in Calls} \cup {<<c, d>> : c, d \in Calls}
Distinct(cs) == Cardinality(Members(cs)) = Len(cs)

Stream ==
  \/ \E c \in Calls : NativeCall(c)
  \/ \E cs \in Batches, truncated \in BOOLEAN : Distinct(cs) /\ FinalCalls(cs, truncated)
  \/ \E natural \in BOOLEAN : FinalAnswer(natural)
  \/ \E kind \in {"transient", "fatal", "overflow", "aborted"}, committed \in BOOLEAN : StreamFails(kind, committed)

DriveStep ==
  \/ NothingToDrive \/ StartRun \/ Begin \/ StopRun \/ ResumeRun \/ Settle \/ Ending \/ Settled
  \/ Loop \/ EnterInput \/ PromptPrepared \/ Delivered
  \/ Infer \/ RequestPrepared \/ PreparationFails \/ Ask \/ NotAsked \/ Stream \/ ResultsIn
  \/ GiveUp \/ RetryLater \/ DelayEnds \/ Retry \/ Drain \/ Drained
  \/ SummaryEnds \/ \E cancelled \in BOOLEAN : SummaryFails(cancelled)

ToolStep == RefuseTool \/ OpenTool \/ RunTool \/ FinishTool

Next ==
  \/ \E i \in Inputs : Submit(i) \/ \E triggerTurn \in BOOLEAN : SendCustom(i, triggerTurn)
  \/ Abort \/ Compact \/ CompactEnds \/ Crash
  \/ DriveStep \/ ToolStep

Spec == Init /\ [][Next]_vars

\* The event loop runs what is ready: a drive goes on, the provider and the tools answer or
\* fail (watchStreamStall, the abort signal), and a manual compaction ends.
FairSpec == Spec /\ WF_vars(DriveStep) /\ WF_vars(ToolStep) /\ WF_vars(CompactEnds)

-----------------------------------------------------------------------------
(* Properties. *)

\* No tool runs twice for one call of the transcript, whatever is retried, resumed or restarted
\* (seenCalls, recover, evaluateInferenceRetry).
EffectsOnce == Distinct(ran)

\* No attempt that admitted a call is repeated, nor more often than the policy allows, whatever
\* was delivered, cleared or failed during the delay; and where the failed attempt is not the
\* last one, as when an input cleared its failure, the calls admitted since have their results
\* (recoverInference, submit).
RetriesAreSafe ==
  [][run'.attempt > run.attempt =>
       ~run.failed.admitted /\ (run.admitted => tail = <<>>) /\ run'.attempt <= MaxRetries + 1]_vars

\* A failure receipt never claims less than what may have happened, then or later in its run
\* (journalTurnFailure).
ReportIsConservative ==
  /\ receipt.report = "before" => ~receipt.provider /\ ~receipt.tool
  /\ receipt.report = "unknown" => ~receipt.tool

\* An automatic input leaves the queue, unless an idle actor keeps it behind a failure or an
\* abort (submit, wake).
QueuedInputsArrive ==
  \A i \in Inputs : Behavior(i) = "auto" =>
    (i \in Members(queue) ~> i \notin Members(queue) \/ (~run.on /\ (run.failure \/ run.stopping)))

=============================================================================
