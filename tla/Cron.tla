-------------------------------- MODULE Cron --------------------------------
(***************************************************************************)
(* Scheduled jobs: the cron_jobs and cron_runs tables (cron-store.mjs),    *)
(* the scheduler's tick and its check commands (cron-scheduler.mjs), and   *)
(* the supervisor, which hands a claimed run to a session as a durable     *)
(* input and finishes it from a report, from the session's transcript or   *)
(* from its worker's exit (supervisor.mjs).                                *)
(* Times are whole intervals; 0 stands for no time.                        *)
(***************************************************************************)
EXTENDS Naturals, FiniteSets

CONSTANTS
  Jobs,            \* job identities
  OriginJobs,      \* jobs whose execution_mode is "origin"; the others are "fresh"
  Conditional,     \* jobs whose notification_intent is "conditional"
  Silent,          \* jobs whose notification_intent is "silent"
  Origin,          \* the root session that creates every job
  Repeats,         \* repeat counts a caller may choose; 0 is null, for ever
  MaxParallel,     \* cronMaxParallel
  MaxChecks,       \* MAX_CONCURRENT_CHECKS
  AlertAfter,      \* CRON_CHECK_FAILURE_ALERT_THRESHOLD
  MaxTime,         \* bound: intervals that elapse
  MaxManual,       \* bound: manual runs of a job
  MaxCommands,     \* bound: updates, pauses, resumes, removals and manual runs
  MaxTroubles      \* bound: failures, restarts, stops, deletions, other turns

ASSUME CronAssumption ==
  /\ OriginJobs \subseteq Jobs /\ Conditional \subseteq Jobs /\ Silent \subseteq Jobs
  /\ Conditional \cap Silent = {}
  /\ Repeats \subseteq Nat
  /\ {MaxParallel, MaxChecks, AlertAfter, MaxTime} \subseteq Nat \ {0}
  /\ {MaxManual, MaxCommands, MaxTroubles} \subseteq Nat

\* A run is known by its job and a number: scheduledRunId is a function of the occurrence;
\* numbers beyond MaxTime stand for the random part of manualRunId.
Runs == Jobs \X (1..MaxTime + MaxManual)
ASSUME OriginAssumption == Origin \notin Runs
Sessions == Runs \cup {Origin}   \* #createCronRoot: a fresh run's session is its own

VARIABLES
  now,         \* the clock
  job,         \* durable: cron_jobs
  run,         \* durable: cron_runs
  input,       \* durable: the run's actor input and what the transcript shows of it
  session,     \* durable: "none", "live" or "deleted"
  turn,        \* durable: the session's transcript ends in an unfinished turn
  current,     \* durable: the run whose input is the transcript's last, or NoRun
  calm,        \* durable: notification_families.quiet_since is old enough
  up,          \* supervisor: sessions with a live worker
  begun,       \* scheduler #launches: runs whose dispatch waits for the session's worker
  checks,      \* scheduler #checks: the occurrence whose check command runs, or 0
  completing,  \* #cronCompletionTails: what the operation of a session still has to do
  produced,    \* history: the check results that called for a run
  commands, troubles   \* bounded by MaxCommands, MaxTroubles

tables == <<job, run>>
conversations == <<input, session, turn, current, calm>>
memory == <<up, begun, checks, completing>>
vars == <<now, job, run, input, session, turn, current, calm, up, begun, checks, completing,
          produced, commands, troubles>>

NoRun == <<>>
Active == {"claimed", "running"}
NoJob == [state |-> "none", repeat |-> 0, fires |-> 0, next |-> 0, check |-> FALSE,
          failures |-> 0, alerted |-> FALSE, pending |-> 0]
NoRunRow == [status |-> "none", mode |-> "none", disposition |-> "none"]
Idle == [left |-> {}, answered |-> {}, reading |-> FALSE]

-----------------------------------------------------------------------------
(* Reading the tables. *)

SessionOf(r) == IF run[r].mode = "origin" THEN Origin ELSE r
ActiveRuns == {r \in Runs : run[r].status \in Active}

\* claimScheduledRun, claimCheckedRun, claimManualRun: the job's run in cron_one_active_run.
HasActiveRun(j) == \E r \in ActiveRuns : r[1] = j
\* listActiveRunsForSession: rows with that session_id, so not runs that are only claimed.
ActiveRunsOf(s) == {r \in ActiveRuns : run[r].status = "running" /\ SessionOf(r) = s}

\* What the tick may still claim.
Capacity ==
  LET n == Cardinality(ActiveRuns) IN IF n < MaxParallel THEN MaxParallel - n ELSE 0

\* nextCronRunAfter: the current moment is past.
NextRunAfter(t) == t + 1

\* listPendingCheckJobs that claimCheckedRun accepts, listDueJobs.
Claimable == {j \in Jobs : job[j].pending # 0 /\ job[j].state # "removed" /\ ~HasActiveRun(j)}
Due(jobs) == {j \in Jobs : jobs[j].state = "scheduled" /\ jobs[j].next \in 1..now}

\* A job that fired once more.  The fire count matters only beside a repeat count: an update
\* that gives the job one resets it.
Fired(jb, next) ==
  LET fires == IF jb.repeat = 0 THEN 0 ELSE jb.fires + 1
  IN IF jb.repeat # 0 /\ fires >= jb.repeat
     THEN [jb EXCEPT !.fires = fires, !.state = "completed", !.next = 0]
     ELSE [jb EXCEPT !.fires = fires, !.next = next]

Claimed == [NoRunRow EXCEPT !.status = "claimed"]
Skipped == [NoRunRow EXCEPT !.status = "skipped_overlap"]

\* finishRun: the first end of a run decides.
FinishRun(row, status) ==
  IF row.status \in Active THEN [row EXCEPT !.status = status] ELSE row

\* #failCronRunsForSession; as if only the log were written.
FailNoRuns(s) == run
FailRuns(s) == [r \in Runs |-> IF r \in ActiveRunsOf(s) THEN FinishRun(run[r], "failed") ELSE run[r]]

Command == commands < MaxCommands /\ commands' = commands + 1
Trouble == troubles < MaxTroubles /\ troubles' = troubles + 1

-----------------------------------------------------------------------------
Init ==
  /\ now = 0
  /\ job = [j \in Jobs |-> NoJob] /\ run = [r \in Runs |-> NoRunRow]
  /\ input = [r \in Runs |-> "none"]
  /\ session = [s \in Sessions |-> IF s = Origin THEN "live" ELSE "none"]
  /\ turn = [s \in Sessions |-> FALSE] /\ current = [s \in Sessions |-> NoRun]
  /\ calm = [s \in Sessions |-> s = Origin]
  /\ up = {} /\ begun = {}
  /\ checks = [j \in Jobs |-> 0] /\ completing = [s \in Sessions |-> Idle]
  /\ produced = {} /\ commands = 0 /\ troubles = 0

Elapse ==
  /\ now < MaxTime /\ now' = now + 1
  /\ UNCHANGED <<tables, conversations, memory, produced, commands, troubles>>

(* The scheduler's operations on jobs. *)

\* create: createJob, initially paused or not.
Create(j, paused, repeat, check) ==
  /\ session[Origin] = "live" /\ job[j].state = "none"
  /\ job' = [job EXCEPT ![j] = [NoJob EXCEPT
       !.state = IF paused THEN "paused" ELSE "scheduled",
       !.repeat = repeat, !.next = NextRunAfter(now), !.check = check]]
  /\ UNCHANGED <<now, run, conversations, memory, produced, commands, troubles>>

\* update: replaceJob with what the patch changes; a new schedule or repeat count resets.
Update(j, scheduleChanged, repeatChanged, repeat, check) ==
  LET jb == job[j]
      reset == scheduleChanged \/ repeatChanged
  IN
  /\ Command /\ jb.state \notin {"none", "removed"}
  /\ repeatChanged \/ repeat = jb.repeat
  /\ job' = [job EXCEPT ![j] = [jb EXCEPT
       !.repeat = repeat,
       !.check = check, !.failures = 0, !.alerted = FALSE,
       !.fires = IF reset THEN 0 ELSE @,
       !.state = IF jb.state = "completed" /\ reset THEN "scheduled" ELSE @,
       !.next = IF scheduleChanged THEN NextRunAfter(now) ELSE @]]
  /\ UNCHANGED <<now, run, conversations, memory, produced, troubles>>

\* pauseJob, resumeJob and removeJob.
Pause(j) ==
  /\ Command /\ job[j].state = "scheduled"
  /\ job' = [job EXCEPT ![j].state = "paused"]
  /\ UNCHANGED <<now, run, conversations, memory, produced, troubles>>
Resume(j) ==
  /\ Command /\ job[j].state = "paused"
  /\ job' = [job EXCEPT ![j].state = "scheduled", ![j].next = NextRunAfter(now)]
  /\ UNCHANGED <<now, run, conversations, memory, produced, troubles>>
Remove(j) ==
  /\ Command /\ job[j].state \notin {"none", "removed"}
  /\ job' = [job EXCEPT ![j].state = "removed", ![j].next = 0]
  /\ UNCHANGED <<now, run, conversations, memory, produced, troubles>>

\* runNow: claimManualRun under the parallel-run limit, then #launch.
RunNow(j) ==
  LET free == {n \in MaxTime + 1..MaxTime + MaxManual : run[<<j, n>>].status = "none"} IN
  /\ Command /\ job[j].state \notin {"none", "removed"}
  /\ Capacity > 0 /\ ~HasActiveRun(j)
  /\ \E n \in free :
       /\ \A m \in free : n <= m
       /\ run' = [run EXCEPT ![<<j, n>>] = Claimed]
  /\ UNCHANGED <<now, job, conversations, memory, produced, troubles>>

(* The tick: one synchronous pass. *)

\* The pass claims waiting check results, then walks the due jobs: it starts the checks of
\* checked jobs (D), claims (K) or skips (S) the others, and stops at the first of these it
\* has no capacity for.  The order of both walks is left open.
Tick ==
  \E P \in SUBSET Claimable :
    LET jobs == [j \in Jobs |-> IF j \in P THEN [Fired(job[j], job[j].next) EXCEPT !.pending = 0]
                                ELSE job[j]]
        busy == {r[1] : r \in ActiveRuns} \cup P
        capacity == Capacity - Cardinality(P)
        slots == MaxChecks - Cardinality({j \in Jobs : checks[j] # 0})
        plain == {j \in Due(jobs) : ~jobs[j].check}
        deferrable == {j \in Due(jobs) : jobs[j].check /\ jobs[j].pending = 0 /\ checks[j] = 0}
    IN
    /\ IF Cardinality(Claimable) <= Capacity THEN P = Claimable ELSE capacity = 0
    /\ capacity >= 0
    /\ \E K \in SUBSET (plain \ busy), S \in SUBSET (plain \cap busy), D \in SUBSET deferrable :
         LET started == D \ busy
             fired == {<<j, jobs[j].next>> : j \in K} \cup {<<j, job[j].pending>> : j \in P}
             missed == {<<j, jobs[j].next>> : j \in S}
         IN
         /\ Cardinality(K) <= capacity /\ Cardinality(started) <= slots
         /\ S # {} => capacity > 0
         /\ D # {} => slots > 0
         /\ K \cup S # plain => Cardinality(K) = capacity
         /\ K \cup S = plain => D = deferrable \/ Cardinality(started) = slots
         /\ job' = [j \in Jobs |->
              IF j \in K \cup S THEN Fired(jobs[j], NextRunAfter(now))
              ELSE IF j \in D THEN [jobs[j] EXCEPT !.next = NextRunAfter(now)] ELSE jobs[j]]
         /\ run' = [r \in Runs |-> IF r \in fired THEN Claimed
                                   ELSE IF r \in missed THEN Skipped ELSE run[r]]
         /\ checks' = [j \in Jobs |-> IF j \in started THEN jobs[j].next ELSE checks[j]]
    /\ UNCHANGED <<now, conversations, up, begun, completing, produced, commands, troubles>>

\* setPendingCheck's condition; as if only a scheduled job could use the result.
AcceptsIfScheduled(jb) == jb.state = "scheduled" /\ jb.pending = 0
AcceptsResult(jb) == jb.state # "removed" /\ jb.pending = 0

\* #checkFinished: recordCheckSuccess or recordCheckFailure, then setPendingCheck.
CheckEnds(j, outcome) ==
  LET failures == IF outcome # "failure" THEN 0
                  ELSE IF job[j].failures < AlertAfter THEN job[j].failures + 1 ELSE AlertAfter
      alert == outcome = "failure" /\ failures >= AlertAfter /\ ~job[j].alerted
      result == outcome = "output" \/ alert
      accepted == result /\ AcceptsResult(job[j])
  IN
  /\ checks[j] # 0
  /\ checks' = [checks EXCEPT ![j] = 0]
  /\ job' = [job EXCEPT
       ![j].failures = failures, ![j].alerted = alert \/ (outcome = "failure" /\ @),
       ![j].pending = IF accepted THEN checks[j] ELSE @]
  /\ produced' = IF result THEN produced \cup {<<j, checks[j]>>} ELSE produced
  /\ UNCHANGED <<now, run, conversations, up, begun, completing, commands, troubles>>

(* Dispatch. *)

\* The session tails that dispatches hold until the worker is ready and has the input.
TailFree(s) == \A r \in begun : SessionOf(r) # s

\* #dispatchCronRun up to its first wait: #createCronRoot or the live origin, then
\* markRunRunning and createActorInput.  A deleted origin is replaced by a fresh root.
Dispatch(r) ==
  LET atOrigin == r[1] \in OriginJobs /\ session[Origin] = "live"
      s == IF atOrigin THEN Origin ELSE r
  IN
  /\ run[r].status = "claimed" /\ TailFree(s)
  /\ begun' = begun \cup {r}
  /\ run' = [run EXCEPT ![r].status = "running", ![r].mode = IF atOrigin THEN "origin" ELSE "fresh"]
  /\ session' = [session EXCEPT ![s] = "live"]
  /\ input' = [input EXCEPT ![r] = "pending"]
  /\ UNCHANGED <<now, job, turn, current, calm, up, checks, completing, produced, commands,
                 troubles>>

\* The worker is ready and #deliverActorInputs has handed over the input.
DispatchEnds(r) ==
  /\ r \in begun /\ SessionOf(r) \in up
  /\ begun' = begun \ {r}
  /\ UNCHANGED <<now, tables, conversations, up, checks, completing, produced, commands,
                 troubles>>

\* #launch's catch: no root, a full input queue, or (the input stored) no worker in time.
DispatchFails(r) ==
  /\ Trouble
  /\ run[r].status = "claimed" \/ r \in begun
  /\ begun' = begun \ {r}
  /\ run' = [run EXCEPT ![r] = FinishRun(@, "failed")]
  /\ UNCHANGED <<now, job, conversations, up, checks, completing, produced, commands>>

(* The sessions that execute runs, as far as runs depend on them. *)

\* A worker starts: for a dispatch, a message, a revival, or after a restart.  It matters to
\* runs only when the session has work.
HasWork(s) == turn[s] \/ ~TailFree(s) \/ \E r \in Runs : SessionOf(r) = s /\ input[r] = "pending"
Start(s) ==
  /\ session[s] = "live" /\ s \notin up /\ HasWork(s)
  /\ up' = up \cup {s}
  /\ UNCHANGED <<now, tables, conversations, begun, checks, completing, produced,
                 commands, troubles>>

\* The actor appends the input to its transcript, in a turn of its own or in the one under
\* way; agent_start ends the quiet time.
Incorporate(r) ==
  LET s == SessionOf(r) IN
  /\ s \in up /\ input[r] = "pending"
  /\ input' = [input EXCEPT ![r] = "heard"]
  /\ turn' = [turn EXCEPT ![s] = TRUE] /\ current' = [current EXCEPT ![s] = r]
  /\ calm' = [calm EXCEPT ![s] = FALSE]
  /\ UNCHANGED <<now, tables, session, memory, produced, commands, troubles>>

\* Another input enters the origin's transcript: later text no longer answers the run.
OtherInput ==
  /\ Trouble
  /\ session[Origin] = "live" /\ up' = up \cup {Origin}
  /\ turn' = [turn EXCEPT ![Origin] = TRUE] /\ current' = [current EXCEPT ![Origin] = NoRun]
  /\ calm' = [calm EXCEPT ![Origin] = FALSE]
  /\ UNCHANGED <<now, tables, input, session, begun, checks, completing, produced, commands>>

\* Visible assistant text follows the run's input.
Answer(r) ==
  LET s == SessionOf(r) IN
  /\ s \in up /\ turn[s] /\ current[s] = r /\ input[r] = "heard"
  /\ input' = [input EXCEPT ![r] = "answered"]
  /\ UNCHANGED <<now, tables, session, turn, current, calm, memory, produced, commands, troubles>>

\* The turn ends, and observe() sees the family of an opened episode quiet for long enough; that
\* matters while the session has active runs.
EndTurn(s) ==
  /\ s \in up /\ turn[s]
  /\ turn' = [turn EXCEPT ![s] = FALSE]
  /\ UNCHANGED <<now, tables, input, session, current, calm, memory, produced, commands, troubles>>
Quieten(s) ==
  /\ session[s] = "live" /\ ~turn[s] /\ ~calm[s] 
  /\ (s = Origin \/ current[s] # NoRun) /\ ActiveRunsOf(s) # {}
  /\ calm' = [calm EXCEPT ![s] = TRUE]
  /\ UNCHANGED <<now, tables, input, session, turn, current, memory, produced, commands, troubles>>

\* onActorExit with an error or after a stop: the session's active runs fail.
WorkerEnds(s) ==
  /\ Trouble
  /\ s \in up
  /\ up' = up \ {s} /\ run' = FailRuns(s)
  /\ UNCHANGED <<now, job, conversations, begun, checks, completing, produced, commands>>

\* Passivation: the worker is idle and no input is pending; an active run, for which
\* alone it matters here, does not keep it.
Passivate(s) ==
  /\ Trouble
  /\ s \in up /\ ~HasWork(s) /\ ActiveRunsOf(s) # {}
  /\ up' = up \ {s}
  /\ UNCHANGED <<now, tables, conversations, begun, checks, completing, produced, commands>>

\* deleteSession, after the worker's exit if it has one; pending inputs are withdrawn.
Delete(s) ==
  /\ Trouble
  /\ session[s] = "live" /\ TailFree(s)
  /\ session' = [session EXCEPT ![s] = "deleted"]
  /\ run' = IF s \in up THEN FailRuns(s) ELSE run
  /\ up' = up \ {s}
  /\ input' = [r \in Runs |-> IF SessionOf(r) = s /\ input[r] = "pending" THEN "gone" ELSE input[r]]
  /\ turn' = [turn EXCEPT ![s] = FALSE] /\ calm' = [calm EXCEPT ![s] = FALSE]
  /\ UNCHANGED <<now, job, current, begun, checks, completing, produced, commands>>

\* start() after the supervisor stopped or died: reconcileInterruptedRuns.  Nothing in memory
\* survives; inputs and unfinished turns do.
Restart ==
  /\ Trouble
  /\ run' = [r \in Runs |-> IF run[r].status \in Active
                            THEN [run[r] EXCEPT !.status = "unknown"] ELSE run[r]]
  /\ up' = {} /\ begun' = {}
  /\ checks' = [j \in Jobs |-> 0] /\ completing' = [s \in Sessions |-> Idle]
  /\ UNCHANGED <<now, job, conversations, produced, commands>>

(* Finishing runs. *)

\* The "report" action: reportNotification, then finishRun.  The agent learns the run's id
\* from the input.
Report(r, disposition) ==
  LET s == SessionOf(r) IN
  /\ s \in up /\ turn[s] /\ input[r] \in {"heard", "answered"}
  /\ run[r].status = "running" /\ r[1] \notin Silent
  /\ disposition = "no_finding" => r[1] \in Conditional
  /\ run' = [run EXCEPT ![r] = FinishRun([@ EXCEPT !.disposition = disposition], "completed")]
  /\ UNCHANGED <<now, job, conversations, memory, produced, commands, troubles>>

\* The runs whose input the transcript shows answered; as if any later text counted.
HeardRuns(s) == {r \in ActiveRunsOf(s) : input[r] # "pending"}
AnsweredRuns(s) == {r \in ActiveRunsOf(s) : input[r] = "answered"}

\* #completeCronRunsForSession up to the transcript read: on agent_settled and on the
\* notification tick, one operation per session at a time.
CompleteBegin(s) ==
  /\ completing[s].left = {} /\ ActiveRunsOf(s) # {} /\ calm[s]
  /\ completing' = [completing EXCEPT ![s] =
       [left |-> ActiveRunsOf(s), answered |-> AnsweredRuns(s), reading |-> TRUE]]
  /\ UNCHANGED <<now, tables, conversations, up, begun, checks, produced, commands,
                 troubles>>

\* The rest of it, up to its next wait: the family is looked at again after the read only;
\* each finished run is logged before the next is considered.
CompleteRuns(s) ==
  LET c == completing[s]
      considered == {r \in c.left : run[r].status \in Active /\ input[r] # "pending"}
  IN
  /\ c.left # {}
  /\ \/ /\ considered = {} \/ (c.reading /\ ~calm[s])
        /\ completing' = [completing EXCEPT ![s] = Idle]
        /\ UNCHANGED run
     \/ /\ c.reading => calm[s]
        /\ \E r \in considered, passed \in SUBSET (c.left \ considered) :
             /\ run' = [run EXCEPT ![r] = FinishRun(@,
                  IF r \in c.answered \/ @.disposition # "none" THEN "completed" ELSE "failed")]
             /\ LET left == c.left \ (passed \cup {r}) IN
                completing' = [completing EXCEPT ![s] =
                  IF left = {} THEN Idle ELSE [c EXCEPT !.left = left, !.reading = FALSE]]
  /\ UNCHANGED <<now, job, conversations, up, begun, checks, produced, commands, troubles>>

-----------------------------------------------------------------------------
Next ==
  \/ Elapse \/ Tick \/ OtherInput \/ Restart
  \/ \E j \in Jobs :
       \/ \E paused, check \in BOOLEAN, n \in Repeats : Create(j, paused, n, check)
       \/ \E sc, rc, check \in BOOLEAN, n \in Repeats : Update(j, sc, rc, n, check)
       \/ Pause(j) \/ Resume(j) \/ Remove(j) \/ RunNow(j)
       \/ \E outcome \in {"quiet", "output", "failure"} : CheckEnds(j, outcome)
  \/ \E r \in Runs :
       \/ Dispatch(r) \/ DispatchEnds(r) \/ DispatchFails(r)
       \/ Incorporate(r) \/ Answer(r)
       \/ \E d \in {"deliver", "no_finding"} : Report(r, d)
  \/ \E s \in Sessions :
       \/ Start(s) \/ EndTurn(s) \/ Quieten(s) \/ WorkerEnds(s) \/ Passivate(s) \/ Delete(s)
       \/ CompleteBegin(s) \/ CompleteRuns(s)

Spec == Init /\ [][Next]_vars

\* Launched dispatches take their turn and bring up the worker they wait for; a worker takes
\* pending inputs and its turns end; the notification tick keeps firing.
Fairness ==
  /\ WF_vars(\E j \in Jobs, o \in {"quiet", "output", "failure"} : CheckEnds(j, o))
  /\ WF_vars(\E r \in Runs : \/ Dispatch(r) \/ DispatchEnds(r) \/ Incorporate(r)
                             \/ r \in begun /\ Start(SessionOf(r)))
  /\ WF_vars(\E s \in Sessions : EndTurn(s) \/ Quieten(s))
  /\ \A s \in Sessions : WF_vars(CompleteBegin(s) \/ CompleteRuns(s))

FairSpec == Spec /\ Fairness

-----------------------------------------------------------------------------
(* Properties. *)

\* "output is never lost to a full run queue": a check result that called for a run has one,
\* or still waits for one, unless its job was removed.
CheckResultKept ==
  \A p \in produced :
    \/ job[p[1]].pending = p[2] \/ run[p].status # "none" \/ job[p[1]].state = "removed"

\* Whatever pauses, resumes, updates and checks do to a job's next occurrence, it never comes
\* back to one that has a run: the run's insertion would fail, and every later tick with it.
OccurrenceIsNew ==
  \A j \in Jobs :
    /\ job[j].state \in {"scheduled", "paused"} /\ job[j].next \in 1..MaxTime =>
         run[<<j, job[j].next>>].status = "none"
    /\ job[j].pending # 0 => run[<<j, job[j].pending>>].status = "none"

\* Every occurrence of a job that calls for a run gets one run, whenever its check ends.
\* (cron-store.mjs: the result of a check, the insertion of a run)
OccurrencesAreKept == CheckResultKept /\ OccurrenceIsNew

\* A run completed without a report has an answer of its own in the transcript: neither old
\* quiet time nor the answer to a later input completes it.
CompletedWasAnswered ==
  \A r \in Runs :
    run[r].status = "completed" /\ run[r].disposition = "none" => input[r] = "answered"

\* Every claimed run comes to an end, unless its session is deleted: however dispatches,
\* workers and completions fail, no run stays active and blocks its job for ever.
RunsEnd ==
  <>[](\A r \in Runs : run[r].status \in Active => session[SessionOf(r)] = "deleted")
=============================================================================
