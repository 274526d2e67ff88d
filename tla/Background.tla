----------------------------- MODULE Background -----------------------------
(***************************************************************************)
(* Background processes: the job directory the skill keeps                  *)
(* (harness_background/__init__.py), the detached process that watches each *)
(* job (harness_background/supervisor.py), the monitor that reports         *)
(* completions to the owners (background-notifier.mjs), and the reclamation *)
(* of a deleted root's scratch directory, which waits for its processes     *)
(* and jobs (supervisor.mjs, process-ownership.mjs, session-scratch.mjs).   *)
(* A session stands for the family of a root.  Every operation of the skill *)
(* holds the store lock; kernels and the daemon die between any two steps.  *)
(***************************************************************************)
EXTENDS Naturals, FiniteSets

CONSTANTS
  Jobs,         \* job ids: random, so never reused
  Sessions,     \* roots
  Owner,        \* the session whose kernel creates the job
  MaxRunning,   \* MAX_RUNNING_JOBS
  MaxRead,      \* MAX_JOBS, as the directory entries one scan reads
  LateLaunch,   \* a kernel that outlived its worker may launch a job
  MaxFailures   \* bound: deaths of kernels, workers, watchers and the daemon, failed dispatches

ASSUME BackgroundAssumption ==
  /\ Owner \in [Jobs -> Sessions]
  /\ MaxRead \in Nat \ {0} /\ MaxRunning \in Nat /\ MaxFailures \in Nat
  /\ LateLaunch \in BOOLEAN

VARIABLES
  dir,       \* the job's directory; bare without a valid process identity
  kind,      \* launched or adopted
  proc,      \* launched: the supervisor and its command; adopted: the process itself
  watcher,   \* an adopted job's watcher is alive
  exit,      \* exit.json
  marker,    \* notification.json
  aged,      \* past the retention window
  op,        \* the operation that holds the store lock
  kernel,    \* the session's Python kernel: up, orphan once its worker died, or down
  deleted,   \* tombstoned sessions
  admitted,  \* jobs whose completion is an input of the owner
  scan,      \* monitor: the scan in progress
  cursor,    \* monitor: entries the open directory reader has not returned
  retry,     \* monitor: #retryJobs
  active,    \* monitor: #activeJobs
  inflight,  \* monitor: #inFlight
  scratch,   \* durable: scratch_json's state
  sample,    \* monitor: #retirementSample
  clean,     \* the pass over roots with pending reclamation
  failures   \* bounded by MaxFailures

files == <<dir, exit, marker, aged>>
processes == <<kind, proc, watcher>>
store == <<deleted, admitted>>
monitor == <<scan, cursor, retry, active, inflight>>
cleanup == <<scratch, sample, clean>>
jobVars == <<dir, kind, proc, watcher, exit, marker, aged, op, kernel, deleted, admitted, scan, cursor,
          retry, active, inflight, scratch, sample, clean, failures>>

NoOp == [do |-> "none", job |-> "none", by |-> "none", at |-> "none"]
NoScan == [on |-> FALSE, left |-> {}, owners |-> {}, done |-> {}, told |-> {}, live |-> {}]
NoSample == [on |-> FALSE, owners |-> {}, jobs |-> {}, known |-> {}]
NoClean == [at |-> "none", roots |-> {}, quiet |-> {}]

-----------------------------------------------------------------------------
(* Reading the job directory and the processes. *)

OnDisk(j) == dir[j] \in {"bare", "whole"}

\* A process with the recorded identity runs; a supervisor whose command ended still does.
Alive(j) == proc[j] \in {"running", "ended"}

\* _observe: state running.
Running(j) == dir[j] = "whole" /\ exit[j] = "none" /\ Alive(j)

\* readJob: completed jobs, reported before or not, and active ones.
Done(j) == OnDisk(j) /\ exit[j] # "none" /\ marker[j] = "none"
Told(j) == OnDisk(j) /\ exit[j] # "none" /\ marker[j] # "none"

Failure == failures < MaxFailures /\ failures' = failures + 1

JobsInit ==
  /\ dir = [j \in Jobs |-> "none"]
  /\ kind = [j \in Jobs |-> "none"] /\ proc = [j \in Jobs |-> "none"]
  /\ watcher = [j \in Jobs |-> FALSE]
  /\ exit = [j \in Jobs |-> "none"] /\ marker = [j \in Jobs |-> "none"]
  /\ aged = {} /\ op = NoOp
  /\ kernel = [s \in Sessions |-> "up"] /\ deleted = {} /\ admitted = {}
  /\ scan = NoScan /\ cursor = {} /\ retry = {} /\ active = {}
  /\ inflight = [j \in Jobs |-> "none"]
  /\ scratch = [s \in Sessions |-> "ready"] /\ sample = NoSample /\ clean = NoClean
  /\ failures = 0

-----------------------------------------------------------------------------
(* Operations of the skill, under the store lock. *)

MayOperate(s) == kernel[s] = "up" \/ (kernel[s] = "orphan" /\ LateLaunch)

\* launch: the directory and its metadata without a process, then the process, then its
\* identity.
LaunchBegins(j) ==
  /\ op = NoOp /\ dir[j] = "none" /\ MayOperate(Owner[j])
  /\ Cardinality({k \in Jobs : Running(k)}) < MaxRunning
  /\ dir' = [dir EXCEPT ![j] = "bare"] /\ kind' = [kind EXCEPT ![j] = "launched"]
  /\ op' = [do |-> "launch", job |-> j, by |-> Owner[j], at |-> "spawn"]
  /\ UNCHANGED <<proc, watcher, exit, marker, aged, kernel, store, monitor, cleanup, failures>>
LaunchSpawns(j) ==
  /\ op.do = "launch" /\ op.at = "spawn" /\ op.job = j
  /\ proc' = [proc EXCEPT ![j] = "running"] /\ op' = [op EXCEPT !.at = "identity"]
  /\ UNCHANGED <<files, kind, watcher, kernel, store, monitor, cleanup, failures>>

\* _capture_identity: an early death with a written exit leaves an identity without a
\* birth time; one without it fails the launch, which kills and removes what it made.
LaunchEnds(j) ==
  /\ op.do = "launch" /\ op.at = "identity" /\ op.job = j /\ op' = NoOp
  /\ \/ Alive(j) /\ dir' = [dir EXCEPT ![j] = "whole"] /\ UNCHANGED proc
     \/ proc[j] = "dead" /\ exit[j] # "none" /\ UNCHANGED <<dir, proc>>
     \/ /\ exit[j] = "none"
        /\ proc' = [proc EXCEPT ![j] = "dead"] /\ dir' = [dir EXCEPT ![j] = "removed"]
  /\ UNCHANGED <<kind, watcher, exit, marker, aged, kernel, store, monitor, cleanup, failures>>

\* adopt: the metadata with the identity of a process running then, and a watcher.
Adopt(j) ==
  /\ op = NoOp /\ dir[j] = "none" /\ MayOperate(Owner[j])
  /\ Cardinality({k \in Jobs : Running(k)}) < MaxRunning
  /\ kind' = [kind EXCEPT ![j] = "adopted"] /\ proc' = [proc EXCEPT ![j] = "running"]
  /\ dir' = [dir EXCEPT ![j] = "whole"] /\ watcher' = [watcher EXCEPT ![j] = TRUE]
  /\ UNCHANGED <<exit, marker, aged, op, kernel, store, monitor, cleanup, failures>>

\* stop, and the first half of remove(force): signals, then the wait for the end.
StopBegins(s, j, do) ==
  /\ op = NoOp /\ MayOperate(s) /\ Running(j)
  /\ op' = [do |-> do, job |-> j, by |-> s, at |-> "wait"]
  /\ UNCHANGED <<files, processes, kernel, store, monitor, cleanup, failures>>

\* SIGTERM ends the command, after which a supervisor reports; SIGKILL ends everything.
Killed(j) ==
  /\ op.do \in {"stop", "remove"} /\ op.at = "wait" /\ op.job = j /\ Alive(j)
  /\ \/ proc[j] = "running" /\ kind[j] = "launched" /\ proc' = [proc EXCEPT ![j] = "ended"]
     \/ proc' = [proc EXCEPT ![j] = "dead"]
  /\ UNCHANGED <<files, kind, watcher, op, kernel, store, monitor, cleanup, failures>>

OnceGone(j) == op.at = "wait" /\ ~Alive(j)
StopReads(j) ==
  /\ op.do = "stop" /\ op.job = j /\ OnceGone(j)
  /\ op' = IF exit[j] = "none" THEN [op EXCEPT !.at = "write"] ELSE NoOp
  /\ UNCHANGED <<files, processes, kernel, store, monitor, cleanup, failures>>
StopWrites(j) ==
  /\ op.do = "stop" /\ op.job = j /\ op.at = "write" /\ op' = NoOp
  /\ exit' = [exit EXCEPT ![j] = IF OnDisk(j) THEN "stopped" ELSE @]
  /\ UNCHANGED <<dir, marker, aged, processes, kernel, store, monitor, cleanup, failures>>

\* remove: an ended job at once, a running one once it was stopped.
Remove(s, j) ==
  /\ op = NoOp /\ MayOperate(s) /\ OnDisk(j) /\ ~Running(j)
  /\ dir' = [dir EXCEPT ![j] = "removed"]
  /\ UNCHANGED <<exit, marker, aged, processes, op, kernel, store, monitor, cleanup, failures>>
RemoveEnds(j) ==
  /\ op.do = "remove" /\ op.job = j /\ ~Alive(j)
  /\ op' = NoOp /\ dir' = [dir EXCEPT ![j] = "removed"]
  /\ UNCHANGED <<exit, marker, aged, processes, kernel, store, monitor, cleanup, failures>>

(* The processes. *)

\* The command of a launched job, or an adopted process, ends.
CommandEnds(j) ==
  /\ proc[j] = "running"
  /\ proc' = [proc EXCEPT ![j] = IF kind[j] = "adopted" THEN "dead" ELSE "ended"]
  /\ UNCHANGED <<files, kind, watcher, op, kernel, store, monitor, cleanup, failures>>

\* _write_exit links the file: the first writer wins.
WriteExit(j, outcome) ==
  exit' = [exit EXCEPT ![j] = IF OnDisk(j) /\ @ = "none" THEN outcome ELSE @]

\* The supervisor reports and exits; a watcher reports an unknown outcome.
SupervisorReports(j) ==
  /\ proc[j] = "ended" /\ proc' = [proc EXCEPT ![j] = "dead"] /\ WriteExit(j, "own")
  /\ UNCHANGED <<dir, marker, aged, kind, watcher, op, kernel, store, monitor, cleanup, failures>>
WatcherReports(j) ==
  /\ watcher[j] /\ ~Alive(j) /\ watcher' = [watcher EXCEPT ![j] = FALSE]
  /\ WriteExit(j, "unknown")
  /\ UNCHANGED <<dir, marker, aged, kind, proc, op, kernel, store, monitor, cleanup, failures>>

\* A supervisor or a watcher is killed: nobody will write exit.json.
WatchDies(j) ==
  /\ Failure
  /\ \/ kind[j] = "launched" /\ Alive(j) /\ proc' = [proc EXCEPT ![j] = "dead"]
        /\ UNCHANGED watcher
     \/ watcher[j] /\ watcher' = [watcher EXCEPT ![j] = FALSE] /\ UNCHANGED proc
  /\ UNCHANGED <<files, kind, op, kernel, store, monitor, cleanup>>

\* A worker dies in the middle of a cell: the kernel goes on until the cell ends.
WorkerDies(s) ==
  /\ Failure /\ kernel[s] = "up" /\ kernel' = [kernel EXCEPT ![s] = "orphan"]
  /\ UNCHANGED <<files, processes, op, store, monitor, cleanup>>

\* A kernel ends, and with it the operation it was in; the lock is free again.
KernelEnds(s) ==
  /\ kernel[s] # "down" /\ kernel' = [kernel EXCEPT ![s] = "down"]
  /\ IF op.by = s THEN Failure /\ op' = NoOp ELSE UNCHANGED <<op, failures>>
  /\ UNCHANGED <<files, processes, store, monitor, cleanup>>
KernelStarts(s) ==
  /\ kernel[s] = "down" /\ s \notin deleted /\ kernel' = [kernel EXCEPT ![s] = "up"]
  /\ UNCHANGED <<files, processes, op, store, monitor, cleanup, failures>>

-----------------------------------------------------------------------------
(* The monitor. *)

\* #scanJobs chooses its ids: known jobs, and the next entries of the directory.
ScanBegins ==
  /\ ~scan.on /\ clean = NoClean
  /\ LET entries == IF cursor = {} THEN {j \in Jobs : OnDisk(j)} ELSE cursor IN
     \E read \in SUBSET entries :
       /\ Cardinality(read) = MaxRead \/ (read = entries /\ Cardinality(read) < MaxRead)
       /\ cursor' = entries \ read
       /\ scan' = [NoScan EXCEPT !.on = TRUE, !.left = retry \cup active \cup read,
                                 !.owners = {j \in Jobs : inflight[j] # "none"}]
  /\ UNCHANGED <<files, processes, op, kernel, store, retry, active, inflight, cleanup,
                 failures>>

\* readJob, for each id at its own time.
ReadJob(j) ==
  /\ j \in scan.left
  /\ scan' = [scan EXCEPT !.left = @ \ {j},
                          !.done = IF Done(j) THEN @ \cup {j} ELSE @,
                          !.told = IF Told(j) THEN @ \cup {j} ELSE @,
                          !.live = IF Running(j) THEN @ \cup {j} ELSE @]
  /\ UNCHANGED <<files, processes, op, kernel, store, cursor, retry, active, inflight, cleanup,
                 failures>>

\* Dispatches of the completions found, but not of those owned when the scan began or
\* now; as if only the present owners counted.
NotOwnedNow(j) == inflight[j] = "none"
Unowned(j) == j \notin scan.owners /\ inflight[j] = "none"

\* The end of a scan: activity, dispatches, pruning; then pending scratch is looked at.
ScanEnds ==
  /\ scan.on /\ scan.left = {}
  /\ scan' = NoScan /\ active' = scan.live /\ retry' = retry \cap scan.done
  /\ inflight' = [j \in Jobs |-> IF j \in scan.done /\ Unowned(j) THEN "admit" ELSE inflight[j]]
  /\ dir' = [j \in Jobs |-> IF j \in scan.told /\ inflight[j] = "none" /\ j \in aged /\ OnDisk(j)
                            THEN "pruned" ELSE dir[j]]
  /\ LET roots == {s \in deleted : scratch[s] = "deleting"} IN
     IF roots = {} THEN sample' = NoSample /\ UNCHANGED clean
     ELSE clean' = [NoClean EXCEPT !.at = "processes", !.roots = roots] /\ UNCHANGED sample
  /\ UNCHANGED <<exit, marker, aged, processes, op, kernel, store, cursor, scratch, failures>>

\* #dispatchBackgroundCompletion: admission in the owner's mutation tail, then readiness.
DispatchAdmits(j) ==
  /\ inflight[j] = "admit"
  /\ IF Owner[j] \in deleted THEN UNCHANGED admitted ELSE admitted' = admitted \cup {j}
  /\ inflight' = [inflight EXCEPT ![j] = IF Owner[j] \in deleted THEN "skipped" ELSE "ready"]
  /\ UNCHANGED <<files, processes, op, kernel, deleted, scan, cursor, retry, active, cleanup,
                 failures>>
DispatchReady(j) ==
  /\ inflight[j] = "ready" /\ Owner[j] \notin deleted
  /\ inflight' = [inflight EXCEPT ![j] = "sent"]
  /\ UNCHANGED <<files, processes, op, kernel, store, scan, cursor, retry, active, cleanup,
                 failures>>

\* A full queue or an actor that does not start: the job is remembered for the next scan;
\* as if it were marked all the same.
MarkedAnyway == "sent"
AfterFailedDispatch == "none"
DispatchFails(j) ==
  /\ inflight[j] \in {"admit", "ready"}
  /\ IF inflight[j] = "ready" /\ Owner[j] \in deleted THEN UNCHANGED failures ELSE Failure
  /\ retry' = retry \cup {j} /\ inflight' = [inflight EXCEPT ![j] = AfterFailedDispatch]
  /\ UNCHANGED <<files, processes, op, kernel, store, scan, cursor, active, cleanup>>

\* markNotification fails when the directory is gone.
DispatchMarks(j) ==
  /\ inflight[j] \in {"sent", "skipped"}
  /\ marker' = [marker EXCEPT ![j] = IF OnDisk(j) THEN inflight[j] ELSE @]
  /\ retry' = IF OnDisk(j) THEN retry \ {j} ELSE retry \cup {j}
  /\ inflight' = [inflight EXCEPT ![j] = "none"]
  /\ UNCHANGED <<dir, exit, aged, processes, op, kernel, store, scan, cursor, active, cleanup,
                 failures>>

\* The retention window passes.
Ages(j) ==
  /\ exit[j] # "none" /\ j \notin aged /\ aged' = aged \cup {j}
  /\ UNCHANGED <<dir, exit, marker, processes, op, kernel, store, monitor, cleanup, failures>>

\* The daemon dies and starts again.
MonitorRestarts ==
  /\ Failure
  /\ scan' = NoScan /\ cursor' = {} /\ retry' = {} /\ active' = {}
  /\ inflight' = [j \in Jobs |-> "none"] /\ sample' = NoSample /\ clean' = NoClean
  /\ UNCHANGED <<files, processes, op, kernel, store, scratch>>

-----------------------------------------------------------------------------
(* Deletion of a root and reclamation of its scratch. *)

Intent == "deleting"
Delete(s) ==
  /\ s \notin deleted /\ kernel[s] # "up" /\ deleted' = deleted \cup {s}
  /\ scratch' = [scratch EXCEPT ![s] = Intent] /\ sample' = NoSample
  /\ UNCHANGED <<files, processes, op, kernel, admitted, monitor, clean, failures>>

\* quiescentScratchProcessRoots: the roots no process is marked with.
CleanProcesses ==
  /\ clean.at = "processes"
  /\ clean' = [clean EXCEPT !.at = "proof", !.quiet = {s \in clean.roots : kernel[s] = "down"}]
  /\ UNCHANGED <<files, processes, op, kernel, store, monitor, scratch, sample, failures>>

\* prepareRetirementProof: the jobs of the pending families, sampled once.
SampledBefore(owners) == sample.on /\ owners \subseteq sample.owners
CleanProves ==
  /\ clean.at = "proof" /\ clean' = [clean EXCEPT !.at = "check"]
  /\ LET jobs == {j \in Jobs : (IF SampledBefore(clean.roots) THEN j \in sample.jobs ELSE OnDisk(j))
                               /\ Owner[j] \in clean.roots}
     IN sample' = [on |-> TRUE, owners |-> clean.roots, jobs |-> jobs,
                   known |-> {j \in jobs : dir[j] = "whole" \/ j \in sample.known}]
  /\ UNCHANGED <<files, processes, op, kernel, store, monitor, scratch, failures>>

\* areSessionsQuiescent: every sampled job has an identity, known before or readable now,
\* and its process is gone; as if a job without an identity had no process.
Sample(s) == {j \in sample.jobs : Owner[j] = s}
QuietOrUnknown(s) == \A j \in Sample(s) : dir[j] = "bare" \/ ~Alive(j)
Quiescent(s) == \A j \in Sample(s) : (j \in sample.known \/ dir[j] = "whole") /\ ~Alive(j)

\* #tryScratchCleanup for the next root.  A check that fails has read only some jobs; an
\* attempt that reclaims may leave a part for the next pass.
CleanTries(s) ==
  /\ clean.at = "check" /\ s \in clean.roots
  /\ clean' = IF clean.roots = {s} THEN NoClean ELSE [clean EXCEPT !.roots = @ \ {s}]
  /\ IF sample.on /\ s \in sample.owners /\ Quiescent(s)
     THEN /\ IF s \in clean.quiet THEN scratch' = [scratch EXCEPT ![s] = "removed"]
             ELSE UNCHANGED scratch
          /\ sample' = [sample EXCEPT !.known = @ \cup Sample(s)]
     ELSE /\ \E read \in SUBSET {j \in Sample(s) : dir[j] = "whole"} :
               sample' = [sample EXCEPT !.known = @ \cup read]
          /\ UNCHANGED scratch
  /\ UNCHANGED <<files, processes, op, kernel, store, monitor, failures>>

-----------------------------------------------------------------------------
JobsNext ==
  \/ \E j \in Jobs :
       \/ LaunchBegins(j) \/ LaunchSpawns(j) \/ LaunchEnds(j) \/ Adopt(j)
       \/ \E s \in Sessions : StopBegins(s, j, "stop") \/ StopBegins(s, j, "remove")
                             \/ Remove(s, j)
       \/ Killed(j) \/ StopReads(j) \/ StopWrites(j) \/ RemoveEnds(j)
       \/ CommandEnds(j) \/ SupervisorReports(j) \/ WatcherReports(j) \/ WatchDies(j)
       \/ ReadJob(j) \/ DispatchAdmits(j) \/ DispatchReady(j) \/ DispatchFails(j)
       \/ DispatchMarks(j) \/ Ages(j)
  \/ \E s \in Sessions : WorkerDies(s) \/ KernelEnds(s) \/ KernelStarts(s) \/ Delete(s)
                        \/ CleanTries(s)
  \/ ScanBegins \/ ScanEnds \/ MonitorRestarts \/ CleanProcesses \/ CleanProves

JobsSpec == JobsInit /\ [][JobsNext]_jobVars

\* Scans go on, reads and dispatches end, the watching processes and the kernels of deleted
\* sessions come to their ends.
Fairness ==
  /\ WF_jobVars(ScanBegins) /\ WF_jobVars(ScanEnds) /\ WF_jobVars(CleanProcesses \/ CleanProves)
  /\ \A j \in Jobs :
       /\ WF_jobVars(ReadJob(j)) /\ WF_jobVars(DispatchAdmits(j)) /\ WF_jobVars(DispatchMarks(j))
       /\ WF_jobVars(DispatchReady(j) \/ (Owner[j] \in deleted /\ DispatchFails(j)))
       /\ WF_jobVars(LaunchSpawns(j) \/ LaunchEnds(j)) /\ WF_jobVars(StopReads(j) \/ StopWrites(j))
       /\ WF_jobVars(RemoveEnds(j)) /\ WF_jobVars(Killed(j))
       /\ WF_jobVars(SupervisorReports(j)) /\ WF_jobVars(WatcherReports(j))
  /\ \A s \in Sessions : WF_jobVars(CleanTries(s)) /\ WF_jobVars(s \in deleted /\ KernelEnds(s))

FairJobs == JobsSpec /\ Fairness

-----------------------------------------------------------------------------
(* Properties. *)

\* A completion already reported is not dispatched again, however late the scan ends that
\* read it before its marker was written.
ReportedOnce ==
  [][\A j \in Jobs : inflight[j] = "none" /\ inflight'[j] # "none" => marker[j] = "none"]_jobVars

\* Nothing of a deleted root's scratch goes while a process of the family may use it: a
\* kernel that outlived its worker, or a job on record, wherever it is in its launch.
ReclaimedWhenQuiet ==
  [][\A s \in Sessions : scratch'[s] = "removed" /\ scratch[s] # "removed" =>
       kernel[s] = "down" /\ \A j \in Jobs : Owner[j] = s => ~Alive(j) \/ dir[j] \in {"none", "removed"}]_jobVars

\* A completion reaches its owner: it becomes an input, unless the job is removed by hand
\* or the session deleted first.
CompletionsArrive ==
  \A j \in Jobs : [](exit[j] # "none" => <>(\/ j \in admitted \/ dir[j] = "removed"
                                            \/ Owner[j] \in deleted))

=============================================================================
