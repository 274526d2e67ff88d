---------------------------- MODULE PostRestart ----------------------------
(***************************************************************************)
(* A restart that an actor asks for: the job file on disk, the detached    *)
(* worker that waits for the actors to settle, stops the supervisor,       *)
(* starts another and sends the continuation to the session that asked,    *)
(* and the workers that are started on the same job after it died.         *)
(*                                                                         *)
(* The supervisor is the process that holds the instance lock, and its PID *)
(* is the number of its start.  Module Daemon models that lock.            *)
(***************************************************************************)
EXTENDS Naturals, FiniteSets

CONSTANTS
  Runners,     \* processes that work on the job, one after the other or at once
  MaxMishaps   \* bound on deaths, timeouts, rejections, new work and other clients' starts together

VARIABLES
  job,      \* the job file
  lock,     \* the .lock file beside it
  runner,   \* per process: its step, its copy of the job, and what it has seen
  daemon,   \* the supervisor: its PID, and "up", "stopping" (still answers), "closing" (no socket) or "off"
  nudges,   \* inputs entered for the job: the client request id and the PID of the supervisor
  busy,     \* some actor works, delegates, starts or waits for its start
  mishaps

restartVars == <<job, lock, runner, daemon, nudges, busy, mishaps>>

NoPid    == 0
FirstPid == 1
NoLock   == [by |-> "nobody", written |-> FALSE]
NewJob   == [state |-> "scheduled", old |-> NoPid, new |-> NoPid]
Fresh    == [at |-> "idle", job |-> NewJob, again |-> FALSE, stable |-> FALSE, seen |-> NoPid, down |-> FALSE]
Ended    == {"idle", "ended", "dead"}
Terminal  == {"complete", "failed"}

Mishap == mishaps < MaxMishaps /\ mishaps' = mishaps + 1
Smooth == UNCHANGED mishaps

Answers    == daemon.st \in {"up", "stopping"}
IsGone(pid) == daemon.pid # pid \/ daemon.st = "off"
AtStep(w, step) == runner[w].at = step
Goes(w, step)   == runner' = [runner EXCEPT ![w].at = step]
Anew(w, step)   == runner' = [runner EXCEPT ![w] = [Fresh EXCEPT !.at = step]]   \* with nothing in memory

(* update: the worker's copy passes through validateJob, and the file is replaced by it. *)
Moves(w, j, step) ==
  /\ job' = j
  /\ runner' = [runner EXCEPT ![w] = [Fresh EXCEPT !.at = step, !.job = j]]
Advances(w, state, step) == Moves(w, [runner[w].job EXCEPT !.state = state], step)

----------------------------------------------------------------------------
(* The lock of the job. *)

StartRunner(w) ==
  /\ AtStep(w, "idle") /\ Goes(w, "open")
  /\ UNCHANGED <<job, lock, daemon, nudges, busy>> /\ Smooth

(* open with "wx": the file is made empty, and written in another step. *)
OpenLock(w) ==
  /\ AtStep(w, "open")
  /\ IF lock = NoLock
       THEN lock' = [by |-> w, written |-> FALSE] /\ Goes(w, "opened")
       ELSE UNCHANGED lock /\ Goes(w, "judge")
  /\ UNCHANGED <<job, daemon, nudges, busy>> /\ Smooth

WriteLock(w) ==
  /\ AtStep(w, "opened")
  /\ lock' = IF lock.by = w THEN [lock EXCEPT !.written = TRUE] ELSE lock
  /\ Anew(w, "claimed")
  /\ UNCHANGED <<job, daemon, nudges, busy>> /\ Smooth

(* An owner counts as alive if the file names it and its start time is that of a running process. *)
OwnerAlive == lock.written /\ runner[lock.by].at \notin Ended
JudgeLock(w) ==
  /\ AtStep(w, "judge")
  /\ IF OwnerAlive THEN Anew(w, "ended") ELSE Goes(w, "steal")
  /\ UNCHANGED <<job, lock, daemon, nudges, busy>> /\ Smooth

StealLock(w) ==
  /\ AtStep(w, "steal")
  /\ lock' = NoLock
  /\ IF runner[w].again THEN Anew(w, "ended") ELSE runner' = [runner EXCEPT ![w].at = "open", ![w].again = TRUE]
  /\ UNCHANGED <<job, daemon, nudges, busy>> /\ Smooth

(* release: whoever's lock is there is removed. *)
Release(w) ==
  /\ AtStep(w, "release")
  /\ lock' = NoLock /\ Anew(w, "ended")
  /\ UNCHANGED <<job, daemon, nudges, busy>> /\ Smooth

----------------------------------------------------------------------------
(* runPostRestartJob, resumed at the state the file has. *)

Resumes == [scheduled |-> "scheduled", waiting_for_idle |-> "poll", stopping |-> "stopping", starting |-> "start",
            nudging |-> "nudge", complete |-> "release", failed |-> "failing"]
LoadJob(w) ==
  /\ AtStep(w, "claimed")
  /\ runner' = [runner EXCEPT ![w].at = Resumes[job.state], ![w].job = job]
  /\ UNCHANGED <<job, lock, daemon, nudges, busy>> /\ Smooth

MarkWaiting(w) ==
  /\ AtStep(w, "scheduled") /\ Advances(w, "waiting_for_idle", "poll")
  /\ UNCHANGED <<lock, daemon, nudges, busy>> /\ Smooth

(* waitForIdle: two clear reads in a row, or no answer, or the deadline. *)
Poll(w) ==
  /\ AtStep(w, "poll")
  /\ runner' = [runner EXCEPT ![w] = IF ~Answers THEN [@ EXCEPT !.at = "failing"]
                                     ELSE IF ~busy /\ @.stable THEN [@ EXCEPT !.at = "found", !.seen = daemon.pid]
                                     ELSE [@ EXCEPT !.stable = ~busy]]
  /\ UNCHANGED <<job, lock, daemon, nudges, busy>> /\ Smooth

NoDeadline(w) == FALSE                                     \* Variant: as if the wait had no deadline
IdleDeadline(w) ==
  /\ AtStep(w, "poll") /\ Goes(w, "failing")
  /\ UNCHANGED <<job, lock, daemon, nudges, busy>> /\ Smooth

(* The PID and start time to wait for are recorded before anything is stopped. *)
RecordOld(w) ==
  /\ AtStep(w, "found")
  /\ IF IsGone(runner[w].seen)
       THEN Goes(w, "failing") /\ UNCHANGED job
       ELSE Moves(w, [runner[w].job EXCEPT !.state = "stopping", !.old = runner[w].seen], "stopping")
  /\ UNCHANGED <<lock, daemon, nudges, busy>> /\ Smooth

(* Who answers decides whether the stop is still to be asked for, under way, or past. *)
AskOld(w) ==
  /\ AtStep(w, "stopping")
  /\ \E answered \in BOOLEAN :
       /\ IF answered THEN Answers /\ Smooth ELSE IF Answers THEN Mishap ELSE Smooth
       /\ IF answered /\ daemon.pid = runner[w].job.old THEN Goes(w, "shut") /\ UNCHANGED job
          ELSE IF answered THEN Moves(w, [runner[w].job EXCEPT !.state = "nudging", !.new = daemon.pid], "nudge")
          ELSE Goes(w, "watch") /\ UNCHANGED job
  /\ UNCHANGED <<lock, daemon, nudges, busy>>

AskShutdown(w) ==
  /\ AtStep(w, "shut")
  /\ IF Answers THEN daemon' = [daemon EXCEPT !.st = "stopping"] /\ Goes(w, "watch")
     ELSE UNCHANGED daemon /\ Goes(w, "failing")
  /\ UNCHANGED <<job, lock, nudges, busy>> /\ Smooth

(* waitForShutdown: what was once seen down or gone stays so; a late answer counts as down. *)
WatchSocket(w) ==
  /\ AtStep(w, "watch")
  /\ \E down \in BOOLEAN :
       /\ IF down /\ Answers THEN Mishap ELSE Smooth
       /\ down \/ Answers
       /\ runner' = [runner EXCEPT ![w].at = "probe", ![w].down = @ \/ down]
  /\ UNCHANGED <<job, lock, daemon, nudges, busy>>

SeenStopped(w) == runner[w].down /\ IsGone(runner[w].job.old)
WatchProcess(w) ==
  /\ AtStep(w, "probe")
  /\ IF SeenStopped(w) THEN Advances(w, "starting", "start") ELSE Goes(w, "watch") /\ UNCHANGED job
  /\ UNCHANGED <<lock, daemon, nudges, busy>> /\ Smooth

ShutdownDeadline(w) ==
  /\ AtStep(w, "watch") /\ Goes(w, "failing")
  /\ UNCHANGED <<job, lock, daemon, nudges, busy>> /\ Smooth

(* harness-supervisor ensure: whoever answers will do; a new process needs the instance lock. *)
Ensure(w) ==
  /\ AtStep(w, "start")
  /\ \/ Answers /\ Goes(w, "started") /\ UNCHANGED daemon /\ Smooth
     \/ daemon.st = "off" /\ daemon' = [pid |-> daemon.pid + 1, st |-> "up"] /\ Goes(w, "started") /\ Smooth
     \/ daemon.st = "closing" /\ Goes(w, "failing") /\ UNCHANGED daemon /\ Smooth
     \/ Goes(w, "failing") /\ UNCHANGED daemon /\ Mishap
  /\ UNCHANGED <<job, lock, nudges, busy>>

Replaced(w) == Answers /\ daemon.pid # runner[w].job.old
CheckStarted(w) ==
  /\ AtStep(w, "started")
  /\ IF Replaced(w) THEN Moves(w, [runner[w].job EXCEPT !.state = "nudging", !.new = daemon.pid], "nudge")
     ELSE Goes(w, "failing") /\ UNCHANGED job
  /\ UNCHANGED <<lock, daemon, nudges, busy>> /\ Smooth

CheckReplacement(w) ==
  /\ AtStep(w, "nudge")
  /\ runner' = [runner EXCEPT ![w].at = IF Replaced(w) THEN "send" ELSE "failing", ![w].seen = daemon.pid]
  /\ UNCHANGED <<job, lock, daemon, nudges, busy>> /\ Smooth

(* submitNudge: the request id is that of the job, and the input is durable before the answer, which may be lost. *)
FreshId(w) == w                                            \* Variant: as if each attempt had an id of its own
RequestId(w) == "post-restart"
Enter(id) == IF \E n \in nudges : n.id = id THEN nudges ELSE nudges \cup {[id |-> id, pid |-> daemon.pid]}
SendNudge(w) ==
  /\ AtStep(w, "send")
  /\ \/ daemon.st = "up" /\ nudges' = Enter(RequestId(w)) /\ ((Goes(w, "sent") /\ Smooth) \/ (Goes(w, "failing") /\ Mishap))
     \/ daemon.st # "up" /\ Goes(w, "failing") /\ UNCHANGED nudges /\ Smooth
     \/ Goes(w, "failing") /\ UNCHANGED nudges /\ Mishap   \* the session was deleted, or cannot start
  /\ UNCHANGED <<job, lock, daemon, busy>>

Complete(w) ==
  /\ AtStep(w, "sent")
  /\ Moves(w, [runner[w].job EXCEPT !.state = "complete", !.new = runner[w].seen], "release")
  /\ UNCHANGED <<lock, daemon, nudges, busy>> /\ Smooth

RecordFailure(w) ==
  /\ AtStep(w, "failing") /\ Advances(w, "failed", "release")
  /\ UNCHANGED <<lock, daemon, nudges, busy>> /\ Smooth

----------------------------------------------------------------------------
(* What surrounds the workers. *)

RunnerDies(w) ==
  /\ runner[w].at \notin Ended /\ Anew(w, "dead") /\ Mishap
  /\ UNCHANGED <<job, lock, daemon, nudges, busy>>

(* The supervisor closes its workers, then its socket, then itself. *)
DaemonStops ==
  /\ daemon.st \in {"stopping", "closing"}
  /\ daemon' = [daemon EXCEPT !.st = IF daemon.st = "stopping" THEN "closing" ELSE "off"]
  /\ UNCHANGED <<job, lock, runner, nudges, busy>> /\ Smooth

DaemonDies ==
  /\ daemon.st # "off" /\ daemon' = [daemon EXCEPT !.st = "off"] /\ Mishap
  /\ UNCHANGED <<job, lock, runner, nudges, busy>>

(* A terminal client ensures a supervisor of its own accord. *)
OtherEnsures ==
  /\ daemon.st = "off" /\ daemon' = [pid |-> daemon.pid + 1, st |-> "up"] /\ Mishap
  /\ UNCHANGED <<job, lock, runner, nudges, busy>>

ActorsSettle == busy /\ busy' = FALSE /\ UNCHANGED <<job, lock, runner, daemon, nudges>> /\ Smooth
ActorsWork   == ~busy /\ busy' = TRUE /\ Mishap /\ UNCHANGED <<job, lock, runner, daemon, nudges>>

----------------------------------------------------------------------------
(* schedulePostRestart has written the job; the actor that asked is still in its turn. *)
RestartInit ==
  /\ job = NewJob /\ lock = NoLock /\ nudges = {} /\ busy = TRUE /\ mishaps = 0
  /\ runner = [w \in Runners |-> Fresh]
  /\ daemon = [pid |-> FirstPid, st |-> "up"]

RunnerStep(w) ==
  OpenLock(w) \/ WriteLock(w) \/ JudgeLock(w) \/ StealLock(w) \/ Release(w) \/ LoadJob(w) \/ MarkWaiting(w) \/ Poll(w)
  \/ RecordOld(w) \/ AskOld(w) \/ AskShutdown(w) \/ WatchSocket(w) \/ WatchProcess(w) \/ Ensure(w) \/ CheckStarted(w)
  \/ CheckReplacement(w) \/ SendNudge(w) \/ Complete(w) \/ RecordFailure(w)
Deadlines(w) == IdleDeadline(w) \/ ShutdownDeadline(w)

RestartNext ==
  \/ \E w \in Runners : StartRunner(w) \/ RunnerStep(w) \/ Deadlines(w) \/ RunnerDies(w)
  \/ DaemonStops \/ DaemonDies \/ OtherEnsures \/ ActorsSettle \/ ActorsWork

(* A live process goes on, and time passes for it. *)
RestartFairness == \A w \in Runners : WF_restartVars(RunnerStep(w)) /\ WF_restartVars(IdleDeadline(w)) /\ SF_restartVars(ShutdownDeadline(w))

RestartSpec == RestartInit /\ [][RestartNext]_restartVars /\ RestartFairness

----------------------------------------------------------------------------
States == {"scheduled", "waiting_for_idle", "stopping", "starting", "nudging", "complete", "failed"}
Steps  == {"idle", "open", "opened", "judge", "steal", "claimed", "scheduled", "poll", "found", "stopping", "shut", "watch",
           "probe", "start", "started", "nudge", "send", "sent", "failing", "release", "ended", "dead"}
Jobs   == [state : States, old : Nat, new : Nat]
RunnerStates == [at : Steps, job : Jobs, again : BOOLEAN, stable : BOOLEAN, seen : Nat, down : BOOLEAN]

TypeOK ==
  /\ job \in Jobs
  /\ lock \in [by : Runners \cup {"nobody"}, written : BOOLEAN]
  /\ runner \in [Runners -> RunnerStates]
  /\ daemon \in [pid : Nat, st : {"up", "stopping", "closing", "off"}]
  /\ nudges \subseteq [id : {"post-restart"}, pid : Nat]
  /\ busy \in BOOLEAN /\ mishaps \in Nat

(* Whatever dies, is retried or races, the session is told once, by a supervisor that is not the one it asked to  *)
(* have replaced; and a job is complete only if it was told so (submitNudge and the checks of the PID before it). *)
ToldByReplacement ==
  /\ Cardinality(nudges) <= 1
  /\ \A n \in nudges : n.pid # FirstPid
  /\ job.state = "complete" => nudges # {} /\ job.new # job.old

(* A worker that has claimed the job brings it to an end, unless one that works on it dies, even if the actors  *)
(* never settle or the supervisor never stops (the deadlines of waitForIdle and waitForShutdown).               *)
RestartEnds ==
  \A w \in Runners : AtStep(w, "claimed") ~>
    \/ AtStep(w, "ended") /\ job.state \in Terminal
    \/ \E v \in Runners : AtStep(v, "dead")
=============================================================================
