------------------------- MODULE ReplacementProofs -------------------------
(***************************************************************************)
(* What must survive its own replacement: a restart job, the supervisor    *)
(* that it replaces; a namespace, the kernel of an actor.  The two         *)
(* components share no variable.                                           *)
(***************************************************************************)
EXTENDS Kernel, PostRestart, FiniteSetTheorems, TLAPS

-----------------------------------------------------------------------------
(* PART 1: a restart job, for any number of workers and of mishaps.        *)

\* The steps at which a worker's copy of the job names the supervisor to be replaced.
Recorded == {"stopping", "shut", "watch", "probe", "start", "started", "nudge", "send", "sent"}

\* The supervisor that a job names was started before, and once it is named it is a real one.
\* A complete job was told to one that is not the one it names.
JobFits(j, pid, told) ==
  /\ j.old <= pid
  /\ j.state \in {"stopping", "starting", "nudging", "complete"} => FirstPid <= j.old
  /\ j.state = "complete" => told # {} /\ j.new # j.old

\* What a worker at a step, with its copy of the job, has seen of the supervisor.
RunnerFits(at, j, seen, pid, told) ==
  /\ j.old <= pid
  /\ at \in Recorded => FirstPid <= j.old
  /\ at = "found" => FirstPid <= seen /\ seen <= pid
  /\ at \in {"send", "sent"} => seen # j.old /\ FirstPid < pid
  /\ at = "sent" => told # {}

\* One request id makes one input, and no step sends before the first supervisor was replaced.
NudgesFit ==
  /\ \A n \in nudges : FirstPid < n.pid
  /\ \A m, n \in nudges : m = n

\* The inductive invariant: ToldByReplacement says nothing of the worker that is about to
\* send, and that one relies on the PIDs that it and the file recorded.
IInv ==
  /\ TypeOK /\ FirstPid <= daemon.pid
  /\ JobFits(job, daemon.pid, nudges) /\ NudgesFit
  /\ \A w \in Runners : RunnerFits(runner[w].at, runner[w].job, runner[w].seen, daemon.pid, nudges)

\* How a step leaves one worker.
Becomes(w, at, j, seen) ==
  \E r \in RunnerStates : /\ runner' = [runner EXCEPT ![w] = r]
                          /\ r.at = at /\ r.job = j /\ r.seen = seen

\* The frame of a step of one worker: a supervisor never gets an older PID, and no input goes.
Frame ==
  /\ job' \in Jobs /\ lock' \in [by : Runners \cup {"nobody"}, written : BOOLEAN]
  /\ daemon' \in [pid : Nat, st : {"up", "stopping", "closing", "off"}] /\ daemon.pid <= daemon'.pid
  /\ nudges' \subseteq [id : {"post-restart"}, pid : Nat] /\ nudges \subseteq nudges'
  /\ busy' \in BOOLEAN /\ mishaps' \in Nat

-----------------------------------------------------------------------------
(* The ways in which a worker moves. *)

LEMMA GoesBecomes ==
  ASSUME TypeOK, NEW w \in Runners, NEW step \in Steps, Goes(w, step)
  PROVE  Becomes(w, step, runner[w].job, runner[w].seen)
<1> DEFINE r == [runner[w] EXCEPT !.at = step]
<1>1. runner[w] \in RunnerStates  BY DEF TypeOK
<1>2. r \in RunnerStates /\ r.at = step /\ r.job = runner[w].job /\ r.seen = runner[w].seen
  BY <1>1 DEF RunnerStates
<1>3. runner' = [runner EXCEPT ![w] = r]  BY DEF Goes
<1> QED  BY <1>2, <1>3 DEF Becomes

LEMMA NewJobIsOne == NewJob \in Jobs /\ NewJob.old = 0 /\ NewJob.state = "scheduled"
  BY DEF NewJob, Jobs, States, NoPid

LEMMA FreshIsOne ==
  ASSUME NEW step \in Steps, NEW j \in Jobs
  PROVE  LET r == [Fresh EXCEPT !.at = step, !.job = j] IN
         r \in RunnerStates /\ r.at = step /\ r.job = j /\ r.seen = 0
  BY NewJobIsOne DEF Fresh, RunnerStates, Steps, NoPid

LEMMA AnewBecomes ==
  ASSUME NEW w \in Runners, NEW step \in Steps, Anew(w, step)
  PROVE  Becomes(w, step, NewJob, 0)
<1> DEFINE r == [Fresh EXCEPT !.at = step]
<1>1. r \in RunnerStates /\ r.at = step /\ r.job = NewJob /\ r.seen = 0
  BY NewJobIsOne DEF Fresh, RunnerStates, Steps, NoPid
<1>2. runner' = [runner EXCEPT ![w] = r]  BY DEF Anew
<1> QED  BY <1>1, <1>2 DEF Becomes

LEMMA MovesBecomes ==
  ASSUME NEW w \in Runners, NEW step \in Steps, NEW j \in Jobs, Moves(w, j, step)
  PROVE  job' = j /\ Becomes(w, step, j, 0)
<1> DEFINE r == [Fresh EXCEPT !.at = step, !.job = j]
<1>1. r \in RunnerStates /\ r.at = step /\ r.job = j /\ r.seen = 0  BY FreshIsOne
<1>2. runner' = [runner EXCEPT ![w] = r] /\ job' = j  BY DEF Moves
<1> QED  BY <1>1, <1>2 DEF Becomes

LEMMA AdvancesBecomes ==
  ASSUME TypeOK, NEW w \in Runners, NEW state \in States, NEW step \in Steps, Advances(w, state, step)
  PROVE  /\ job' \in Jobs /\ job'.state = state /\ job'.old = runner[w].job.old
         /\ Becomes(w, step, job', 0)
<1> DEFINE j == [runner[w].job EXCEPT !.state = state]
<1>1. runner[w].job \in Jobs  BY DEF TypeOK, RunnerStates
<1>2. j \in Jobs /\ j.state = state /\ j.old = runner[w].job.old  BY <1>1 DEF Jobs
<1>3. Moves(w, j, step)  BY DEF Advances
<1>4. job' = j /\ Becomes(w, step, j, 0)  BY <1>2, <1>3, MovesBecomes
<1> QED  BY <1>2, <1>4

-----------------------------------------------------------------------------
(* What a step has to show. *)

LEMMA WorkerStep ==
  ASSUME IInv, Frame, NEW w \in Runners, NEW at, NEW j, NEW seen, Becomes(w, at, j, seen),
         RunnerFits(at, j, seen, daemon'.pid, nudges'), JobFits(job', daemon'.pid, nudges'), NudgesFit'
  PROVE  IInv'
<1>1. PICK r \in RunnerStates : runner' = [runner EXCEPT ![w] = r] /\ r.at = at /\ r.job = j /\ r.seen = seen
  BY DEF Becomes
<1>2. runner' \in [Runners -> RunnerStates]  BY <1>1 DEF IInv, TypeOK
<1>3. TypeOK'  BY <1>2 DEF Frame, TypeOK
<1>4. ASSUME NEW v \in Runners
      PROVE  RunnerFits(runner'[v].at, runner'[v].job, runner'[v].seen, daemon'.pid, nudges')
  <2>1. CASE v = w
    <3>1. runner'[v] = r  BY <1>1, <2>1 DEF IInv, TypeOK
    <3> QED  BY <1>1, <3>1
  <2>2. CASE v # w
    <3>1. runner'[v] = runner[v]  BY <1>1, <2>2 DEF IInv, TypeOK
    <3>2. runner[v].job.old \in Nat /\ runner[v].seen \in Nat
      BY DEF IInv, TypeOK, RunnerStates, Jobs
    <3>3. RunnerFits(runner[v].at, runner[v].job, runner[v].seen, daemon.pid, nudges)  BY DEF IInv
    <3>4. daemon.pid \in Nat /\ daemon'.pid \in Nat /\ daemon.pid <= daemon'.pid /\ nudges \subseteq nudges'
      BY DEF Frame, IInv, TypeOK
    <3> QED  BY <3>1, <3>2, <3>3, <3>4 DEF RunnerFits, FirstPid
  <2> QED  BY <2>1, <2>2
<1>5. FirstPid <= daemon'.pid  BY DEF IInv, TypeOK, Frame, FirstPid
<1> QED  BY <1>3, <1>4, <1>5 DEF IInv

\* A step that changes a worker alone, or the worker and its lock.
LEMMA MemoryStep ==
  ASSUME IInv, Frame, NEW w \in Runners, NEW at, NEW j, NEW seen, Becomes(w, at, j, seen),
         RunnerFits(at, j, seen, daemon.pid, nudges), UNCHANGED <<job, daemon, nudges>>
  PROVE  IInv'
<1>1. JobFits(job', daemon'.pid, nudges') /\ NudgesFit'  BY DEF IInv, NudgesFit
<1> QED  BY <1>1, WorkerStep

\* A step that writes the file and keeps the same in memory.
LEMMA FileStep ==
  ASSUME IInv, Frame, NEW w \in Runners, NEW at, NEW j, Becomes(w, at, j, 0), job' = j,
         RunnerFits(at, j, 0, daemon.pid, nudges), JobFits(j, daemon.pid, nudges), UNCHANGED <<daemon, nudges>>
  PROVE  IInv'
<1>1. JobFits(job', daemon'.pid, nudges') /\ NudgesFit'  BY DEF IInv, NudgesFit
<1> QED  BY <1>1, WorkerStep

-----------------------------------------------------------------------------
(* The kinds of steps. *)

LEMMA Facts ==
  ASSUME IInv, NEW w \in Runners
  PROVE  /\ runner[w] \in RunnerStates /\ runner[w].job \in Jobs /\ runner[w].seen \in Nat
         /\ runner[w].job.old \in Nat /\ job \in Jobs /\ job.old \in Nat
         /\ daemon.pid \in Nat /\ FirstPid \in Nat /\ FirstPid <= daemon.pid
         /\ RunnerFits(runner[w].at, runner[w].job, runner[w].seen, daemon.pid, nudges)
         /\ JobFits(job, daemon.pid, nudges)
  BY DEF IInv, TypeOK, RunnerStates, Jobs, FirstPid

LEMMA QuietFrame ==
  ASSUME IInv, UNCHANGED <<daemon, nudges, busy>>, job' \in Jobs, Smooth \/ Mishap,
         lock' \in [by : Runners \cup {"nobody"}, written : BOOLEAN]
  PROVE  Frame
  BY DEF IInv, TypeOK, Frame, Smooth, Mishap

\* The file stays true of a supervisor that is as old or younger.
LEMMA FileStays ==
  ASSUME IInv, Frame, UNCHANGED <<job, nudges>>
  PROVE  JobFits(job', daemon'.pid, nudges') /\ NudgesFit'
<1>1. job.old \in Nat /\ daemon.pid \in Nat /\ daemon'.pid \in Nat /\ daemon.pid <= daemon'.pid
  BY DEF IInv, TypeOK, Jobs, Frame
<1>2. JobFits(job, daemon.pid, nudges) /\ NudgesFit  BY DEF IInv
<1> QED  BY <1>1, <1>2 DEF JobFits, NudgesFit

\* A worker that goes on with what it has.
LEMMA GoesStep ==
  ASSUME IInv, Frame, NEW w \in Runners, NEW step \in Steps \ {"found", "send", "sent"}, Goes(w, step),
         UNCHANGED <<job, nudges>>, step \in Recorded => runner[w].at \in Recorded
  PROVE  IInv'
<1>1. Becomes(w, step, runner[w].job, runner[w].seen)  BY GoesBecomes DEF IInv
<1>2. daemon'.pid \in Nat /\ daemon.pid <= daemon'.pid  BY DEF Frame
<1>3. RunnerFits(step, runner[w].job, runner[w].seen, daemon'.pid, nudges')
  BY <1>2, Facts DEF RunnerFits
<1> QED  BY <1>1, <1>3, FileStays, WorkerStep

\* A worker that starts, or is gone, and remembers nothing.
LEMMA AnewStep ==
  ASSUME IInv, Frame, NEW w \in Runners, NEW step \in Steps \ Recorded, step # "found", Anew(w, step),
         UNCHANGED <<job, nudges>>
  PROVE  IInv'
<1>1. Becomes(w, step, NewJob, 0)  BY AnewBecomes
<1>2. daemon'.pid \in Nat  BY DEF Frame
<1>3. RunnerFits(step, NewJob, 0, daemon'.pid, nudges')
  BY <1>2, NewJobIsOne DEF RunnerFits, Recorded
<1> QED  BY <1>1, <1>3, FileStays, WorkerStep

\* A worker that records the next state of the job.
LEMMA AdvancesStep ==
  ASSUME IInv, Frame, NEW w \in Runners, NEW state \in States \ {"complete"}, NEW step \in Steps \ {"found", "send", "sent"},
         Advances(w, state, step), UNCHANGED <<daemon, nudges>>,
         step \in Recorded \/ state \in {"stopping", "starting", "nudging"} => runner[w].at \in Recorded
  PROVE  IInv'
<1>1. /\ job' \in Jobs /\ job'.state = state /\ job'.old = runner[w].job.old
      /\ Becomes(w, step, job', 0)
  BY AdvancesBecomes DEF IInv
<1>2. RunnerFits(step, job', 0, daemon'.pid, nudges') /\ JobFits(job', daemon'.pid, nudges')
  BY <1>1, Facts DEF RunnerFits, JobFits
<1>3. NudgesFit'  BY DEF IInv, NudgesFit
<1> QED  BY <1>1, <1>2, <1>3, WorkerStep

\* What the actors and the supervisor do by themselves.
LEMMA WorldStep ==
  ASSUME IInv, Frame, UNCHANGED <<job, runner, nudges>>
  PROVE  IInv'
<1>1. TypeOK' /\ FirstPid <= daemon'.pid  BY DEF IInv, TypeOK, Frame, FirstPid
<1>2. ASSUME NEW w \in Runners
      PROVE  RunnerFits(runner'[w].at, runner'[w].job, runner'[w].seen, daemon'.pid, nudges')
  <2>1. daemon'.pid \in Nat /\ daemon.pid <= daemon'.pid  BY DEF Frame
  <2> QED  BY <2>1, Facts DEF RunnerFits
<1> QED  BY <1>1, <1>2, FileStays DEF IInv

-----------------------------------------------------------------------------
(* The steps of a worker. *)

\* The steps on the lock, which forget or keep what the worker has.
LEMMA LockSteps ==
  ASSUME IInv, NEW w \in Runners,
         OpenLock(w) \/ WriteLock(w) \/ JudgeLock(w) \/ StealLock(w) \/ Release(w) \/ StartRunner(w) \/ RunnerDies(w)
  PROVE  IInv'
<1> DEFINE Locks == [by : Runners \cup {"nobody"}, written : BOOLEAN]
<1>1. NoLock \in Locks /\ lock \in Locks /\ [by |-> w, written |-> FALSE] \in Locks /\ [lock EXCEPT !.written = TRUE] \in Locks
  BY DEF NoLock, IInv, TypeOK
<1>2. job \in Jobs  BY Facts
<1>3. CASE OpenLock(w)
  <2>1. Frame  BY <1>1, <1>2, <1>3, QuietFrame DEF OpenLock
  <2>2. PICK step \in {"opened", "judge"} : Goes(w, step)  BY <1>3 DEF OpenLock
  <2> QED  BY <1>3, <2>1, <2>2, GoesStep DEF OpenLock, Steps, Recorded
<1>4. CASE WriteLock(w)
  <2>1. Frame  BY <1>1, <1>2, <1>4, QuietFrame DEF WriteLock
  <2> QED  BY <1>4, <2>1, AnewStep DEF WriteLock, Steps, Recorded
<1>5. CASE JudgeLock(w)
  <2>1. Frame  BY <1>1, <1>2, <1>5, QuietFrame DEF JudgeLock
  <2>2. CASE Anew(w, "ended")  BY <1>5, <2>1, <2>2, AnewStep DEF JudgeLock, Steps, Recorded
  <2>3. CASE Goes(w, "steal")  BY <1>5, <2>1, <2>3, GoesStep DEF JudgeLock, Steps, Recorded
  <2> QED  BY <1>5, <2>2, <2>3 DEF JudgeLock
<1>6. CASE StealLock(w)
  <2>1. Frame  BY <1>1, <1>2, <1>6, QuietFrame DEF StealLock
  <2>2. CASE Anew(w, "ended")  BY <1>6, <2>1, <2>2, AnewStep DEF StealLock, Steps, Recorded
  <2>3. CASE runner' = [runner EXCEPT ![w].at = "open", ![w].again = TRUE]
    <3> DEFINE r == [runner[w] EXCEPT !.at = "open", !.again = TRUE]
    <3>1. r \in RunnerStates /\ r.at = "open" /\ r.job = runner[w].job /\ r.seen = runner[w].seen
      BY Facts DEF RunnerStates, Steps
    <3>2. runner' = [runner EXCEPT ![w] = r]  BY <2>3
    <3>3. Becomes(w, "open", runner[w].job, runner[w].seen)  BY <3>1, <3>2 DEF Becomes
    <3>4. RunnerFits("open", runner[w].job, runner[w].seen, daemon.pid, nudges)
      BY Facts DEF RunnerFits, Recorded
    <3> QED  BY <1>6, <2>1, <3>3, <3>4, MemoryStep DEF StealLock
  <2> QED  BY <1>6, <2>2, <2>3 DEF StealLock
<1>7. CASE Release(w)
  <2>1. Frame  BY <1>1, <1>2, <1>7, QuietFrame DEF Release
  <2> QED  BY <1>7, <2>1, AnewStep DEF Release, Steps, Recorded
<1>8. CASE StartRunner(w)
  <2>1. Frame  BY <1>1, <1>2, <1>8, QuietFrame DEF StartRunner
  <2> QED  BY <1>8, <2>1, GoesStep DEF StartRunner, Steps, Recorded
<1>9. CASE RunnerDies(w)
  <2>1. Frame  BY <1>1, <1>2, <1>9, QuietFrame DEF RunnerDies
  <2> QED  BY <1>9, <2>1, AnewStep DEF RunnerDies, Steps, Recorded
<1> QED  BY <1>3, <1>4, <1>5, <1>6, <1>7, <1>8, <1>9

\* The frame of the steps that leave lock and supervisor alone.
LEMMA SameFrame ==
  ASSUME IInv, UNCHANGED <<lock, daemon, nudges, busy>>, job' \in Jobs, Smooth \/ Mishap
  PROVE  Frame
  BY QuietFrame DEF IInv, TypeOK

LEMMA LoadJobKeeps ==
  ASSUME IInv, NEW w \in Runners, LoadJob(w)
  PROVE  IInv'
<1> DEFINE step == Resumes[job.state]
           r    == [runner[w] EXCEPT !.at = step, !.job = job]
<1>1. Frame  BY SameFrame, Facts DEF LoadJob
<1>2. job.state \in States  BY Facts DEF Jobs
<1>3. /\ step \in Steps \ {"found", "send", "sent"}
      /\ step \in Recorded => job.state \in {"stopping", "starting", "nudging"}
  BY <1>2 DEF Resumes, States, Steps, Recorded
<1>4. r \in RunnerStates /\ r.at = step /\ r.job = job /\ r.seen = runner[w].seen
  BY <1>3, Facts DEF RunnerStates
<1>5. runner' = [runner EXCEPT ![w] = r]  BY DEF LoadJob
<1>6. Becomes(w, step, job, runner[w].seen)  BY <1>4, <1>5 DEF Becomes
<1>7. RunnerFits(step, job, runner[w].seen, daemon.pid, nudges)
  BY <1>3, Facts DEF RunnerFits, JobFits
<1>8. UNCHANGED <<job, daemon, nudges>>  BY DEF LoadJob
<1> QED  BY <1>1, <1>6, <1>7, <1>8, MemoryStep

\* The steps that only go on or record the next state.
LEMMA PlainSteps ==
  ASSUME IInv, NEW w \in Runners,
         MarkWaiting(w) \/ IdleDeadline(w) \/ ShutdownDeadline(w) \/ WatchProcess(w) \/ RecordFailure(w)
  PROVE  IInv'
<1>1. CASE MarkWaiting(w)
  <2>1. Advances(w, "waiting_for_idle", "poll") /\ job' \in Jobs
    BY <1>1, AdvancesBecomes DEF MarkWaiting, IInv, States, Steps
  <2>2. Frame  BY <1>1, <2>1, SameFrame DEF MarkWaiting
  <2> QED  BY <1>1, <2>1, <2>2, AdvancesStep DEF MarkWaiting, States, Steps, Recorded
<1>2. CASE IdleDeadline(w)
  <2>1. Frame  BY <1>2, SameFrame, Facts DEF IdleDeadline
  <2> QED  BY <1>2, <2>1, GoesStep DEF IdleDeadline, Steps, Recorded
<1>3. CASE ShutdownDeadline(w)
  <2>1. Frame  BY <1>3, SameFrame, Facts DEF ShutdownDeadline
  <2> QED  BY <1>3, <2>1, GoesStep DEF ShutdownDeadline, Steps, Recorded
<1>4. CASE WatchProcess(w)
  <2>1. CASE Advances(w, "starting", "start")
    <3>1. job' \in Jobs  BY <2>1, AdvancesBecomes DEF IInv, States, Steps
    <3>2. Frame  BY <1>4, <3>1, SameFrame DEF WatchProcess
    <3> QED  BY <1>4, <2>1, <3>2, AdvancesStep DEF WatchProcess, AtStep, States, Steps, Recorded
  <2>2. CASE Goes(w, "watch") /\ UNCHANGED job
    <3>1. Frame  BY <1>4, <2>2, SameFrame, Facts DEF WatchProcess
    <3> QED  BY <1>4, <2>2, <3>1, GoesStep DEF WatchProcess, AtStep, Steps, Recorded
  <2> QED  BY <1>4, <2>1, <2>2 DEF WatchProcess
<1>5. CASE RecordFailure(w)
  <2>1. Advances(w, "failed", "release") /\ job' \in Jobs
    BY <1>5, AdvancesBecomes DEF RecordFailure, IInv, States, Steps
  <2>2. Frame  BY <1>5, <2>1, SameFrame DEF RecordFailure
  <2> QED  BY <1>5, <2>1, <2>2, AdvancesStep DEF RecordFailure, States, Steps, Recorded
<1> QED  BY <1>1, <1>2, <1>3, <1>4, <1>5

LEMMA PollKeeps ==
  ASSUME IInv, NEW w \in Runners, Poll(w)
  PROVE  IInv'
<1>1. Frame  BY SameFrame, Facts DEF Poll
<1>2. PICK r \in {[runner[w] EXCEPT !.at = "failing"], [runner[w] EXCEPT !.at = "found", !.seen = daemon.pid],
                  [runner[w] EXCEPT !.stable = ~busy]} : runner' = [runner EXCEPT ![w] = r]
  BY DEF Poll
<1>3. runner[w].at = "poll" /\ busy \in BOOLEAN  BY DEF Poll, AtStep, IInv, TypeOK
<1>4. r \in RunnerStates /\ r.job = runner[w].job /\ r.at \in {"failing", "found", "poll"}
      /\ (r.at = "found" => r.seen = daemon.pid)
  BY <1>2, <1>3, Facts DEF RunnerStates, Steps
<1>5. Becomes(w, r.at, r.job, r.seen)  BY <1>2, <1>4 DEF Becomes
<1>6. RunnerFits(r.at, r.job, r.seen, daemon.pid, nudges)  BY <1>4, Facts DEF RunnerFits, Recorded
<1>7. UNCHANGED <<job, daemon, nudges>>  BY DEF Poll
<1> QED  BY <1>1, <1>5, <1>6, <1>7, MemoryStep

LEMMA WatchSocketKeeps ==
  ASSUME IInv, NEW w \in Runners, WatchSocket(w)
  PROVE  IInv'
<1>1. PICK down \in BOOLEAN : (IF down /\ Answers THEN Mishap ELSE Smooth)
                              /\ runner' = [runner EXCEPT ![w].at = "probe", ![w].down = @ \/ down]
  BY DEF WatchSocket
<1> DEFINE r == [runner[w] EXCEPT !.at = "probe", !.down = @ \/ down]
<1>2. Frame  BY <1>1, SameFrame, Facts DEF WatchSocket
<1>3. r \in RunnerStates /\ r.at = "probe" /\ r.job = runner[w].job /\ r.seen = runner[w].seen
  BY Facts DEF RunnerStates, Steps
<1>4. Becomes(w, "probe", runner[w].job, runner[w].seen)  BY <1>1, <1>3 DEF Becomes
<1>5. RunnerFits("probe", runner[w].job, runner[w].seen, daemon.pid, nudges)
  BY Facts DEF RunnerFits, Recorded, WatchSocket, AtStep
<1>6. UNCHANGED <<job, daemon, nudges>>  BY DEF WatchSocket
<1> QED  BY <1>2, <1>4, <1>5, <1>6, MemoryStep

-----------------------------------------------------------------------------
(* The steps that depend on who answers. *)

\* A record of the supervisor that is to be replaced, or of the one that has.
LEMMA RecordedStep ==
  ASSUME IInv, NEW w \in Runners, NEW j \in Jobs, NEW step \in Steps \ {"found", "send", "sent"}, Moves(w, j, step),
         j.state # "complete", FirstPid <= j.old, j.old <= daemon.pid,
         UNCHANGED <<lock, daemon, nudges, busy>>, Smooth \/ Mishap
  PROVE  IInv'
<1>1. job' = j /\ Becomes(w, step, j, 0)  BY MovesBecomes
<1>2. Frame  BY <1>1, SameFrame
<1>3. RunnerFits(step, j, 0, daemon.pid, nudges) /\ JobFits(j, daemon.pid, nudges)
  BY DEF RunnerFits, JobFits
<1> QED  BY <1>1, <1>2, <1>3, FileStep

LEMMA RecordOldKeeps ==
  ASSUME IInv, NEW w \in Runners, RecordOld(w)
  PROVE  IInv'
<1> DEFINE j == [runner[w].job EXCEPT !.state = "stopping", !.old = runner[w].seen]
<1>1. CASE Goes(w, "failing") /\ UNCHANGED job
  <2>1. Frame  BY <1>1, SameFrame, Facts DEF RecordOld
  <2> QED  BY <1>1, <2>1, GoesStep DEF RecordOld, Steps, Recorded
<1>2. CASE Moves(w, j, "stopping")
  <2>1. j \in Jobs /\ j.state = "stopping" /\ j.old = runner[w].seen
    BY Facts DEF Jobs, States
  <2>2. FirstPid <= runner[w].seen /\ runner[w].seen <= daemon.pid
    BY Facts DEF RunnerFits, RecordOld, AtStep
  <2> QED  BY <1>2, <2>1, <2>2, RecordedStep DEF RecordOld, Steps
<1> QED  BY <1>1, <1>2 DEF RecordOld

\* A worker that records the replacement.
LEMMA NudgingStep ==
  ASSUME IInv, NEW w \in Runners, runner[w].at \in Recorded,
         Moves(w, [runner[w].job EXCEPT !.state = "nudging", !.new = daemon.pid], "nudge"),
         UNCHANGED <<lock, daemon, nudges, busy>>, Smooth \/ Mishap
  PROVE  IInv'
<1> DEFINE j == [runner[w].job EXCEPT !.state = "nudging", !.new = daemon.pid]
<1>1. j \in Jobs /\ j.state = "nudging" /\ j.old = runner[w].job.old
  BY Facts DEF Jobs, States
<1>2. FirstPid <= j.old /\ j.old <= daemon.pid  BY <1>1, Facts DEF RunnerFits
<1> QED  BY <1>1, <1>2, RecordedStep DEF Steps

LEMMA AskOldKeeps ==
  ASSUME IInv, NEW w \in Runners, AskOld(w)
  PROVE  IInv'
<1>1. Smooth \/ Mishap  BY DEF AskOld
<1>2. runner[w].at = "stopping" /\ UNCHANGED <<lock, daemon, nudges, busy>>  BY DEF AskOld, AtStep
<1>3. CASE Moves(w, [runner[w].job EXCEPT !.state = "nudging", !.new = daemon.pid], "nudge")
  BY <1>1, <1>2, <1>3, NudgingStep DEF Recorded
<1>4. CASE UNCHANGED job /\ \E step \in {"shut", "watch"} : Goes(w, step)
  <2>1. PICK step \in {"shut", "watch"} : Goes(w, step)  BY <1>4
  <2>2. Frame  BY <1>1, <1>2, <1>4, SameFrame, Facts
  <2> QED  BY <1>2, <1>4, <2>1, <2>2, GoesStep DEF Steps, Recorded
<1> QED  BY <1>3, <1>4 DEF AskOld

LEMMA AskShutdownKeeps ==
  ASSUME IInv, NEW w \in Runners, AskShutdown(w)
  PROVE  IInv'
<1>1. Frame  BY DEF Frame, AskShutdown, IInv, TypeOK, Smooth
<1>2. UNCHANGED <<job, nudges>> /\ runner[w].at = "shut"  BY DEF AskShutdown, AtStep
<1>3. PICK step \in {"watch", "failing"} : Goes(w, step)  BY DEF AskShutdown
<1> QED  BY <1>1, <1>2, <1>3, GoesStep DEF Steps, Recorded

LEMMA EnsureKeeps ==
  ASSUME IInv, NEW w \in Runners, Ensure(w)
  PROVE  IInv'
<1>1. Frame  BY DEF Frame, Ensure, IInv, TypeOK, Smooth, Mishap
<1>2. UNCHANGED <<job, nudges>> /\ runner[w].at = "start"  BY DEF Ensure, AtStep
<1>3. PICK step \in {"started", "failing"} : Goes(w, step)  BY DEF Ensure
<1> QED  BY <1>1, <1>2, <1>3, GoesStep DEF Steps, Recorded

LEMMA CheckStartedKeeps ==
  ASSUME IInv, NEW w \in Runners, CheckStarted(w)
  PROVE  IInv'
<1>1. runner[w].at = "started" /\ UNCHANGED <<lock, daemon, nudges, busy>> /\ Smooth  BY DEF CheckStarted, AtStep
<1>2. CASE Moves(w, [runner[w].job EXCEPT !.state = "nudging", !.new = daemon.pid], "nudge")
  BY <1>1, <1>2, NudgingStep DEF Recorded
<1>3. CASE Goes(w, "failing") /\ UNCHANGED job
  <2>1. Frame  BY <1>1, <1>3, SameFrame, Facts
  <2> QED  BY <1>1, <1>3, <2>1, GoesStep DEF Steps, Recorded
<1> QED  BY <1>2, <1>3 DEF CheckStarted

\* The check before the send: the PID that answers is neither the old one nor older, so that
\* the first supervisor is gone.
LEMMA CheckReplacementKeeps ==
  ASSUME IInv, NEW w \in Runners, CheckReplacement(w)
  PROVE  IInv'
<1> DEFINE step == IF Replaced(w) THEN "send" ELSE "failing"
           r    == [runner[w] EXCEPT !.at = step, !.seen = daemon.pid]
<1>1. Frame  BY SameFrame, Facts DEF CheckReplacement
<1>2. r \in RunnerStates /\ r.at = step /\ r.job = runner[w].job /\ r.seen = daemon.pid
  BY Facts DEF RunnerStates, Steps
<1>3. runner' = [runner EXCEPT ![w] = r]  BY DEF CheckReplacement
<1>4. Becomes(w, step, runner[w].job, daemon.pid)  BY <1>2, <1>3 DEF Becomes
<1>5. FirstPid <= runner[w].job.old /\ runner[w].job.old <= daemon.pid
  BY Facts DEF RunnerFits, Recorded, CheckReplacement, AtStep
<1>6. step = "send" => daemon.pid # runner[w].job.old  BY DEF Replaced
<1>7. RunnerFits(step, runner[w].job, daemon.pid, daemon.pid, nudges)
  BY <1>5, <1>6, Facts DEF RunnerFits, Recorded
<1>8. UNCHANGED <<job, daemon, nudges>>  BY DEF CheckReplacement
<1> QED  BY <1>1, <1>4, <1>7, <1>8, MemoryStep

\* Entering an input again adds none.
LEMMA EnterOnce ==
  ASSUME IInv, NEW w \in Runners, FirstPid < daemon.pid, nudges' = Enter(RequestId(w))
  PROVE  /\ nudges' \subseteq [id : {"post-restart"}, pid : Nat] /\ nudges \subseteq nudges' /\ nudges' # {}
         /\ NudgesFit'
<1>1. nudges \subseteq [id : {"post-restart"}, pid : Nat] /\ NudgesFit /\ daemon.pid \in Nat  BY DEF IInv, TypeOK
<1>2. CASE nudges = {}
  <2>1. nudges' = {[id |-> "post-restart", pid |-> daemon.pid]}  BY <1>2 DEF Enter, RequestId
  <2> QED  BY <1>1, <1>2, <2>1 DEF NudgesFit
<1>3. CASE nudges # {}
  <2>1. PICK n \in nudges : n.id = "post-restart"  BY <1>1, <1>3
  <2>2. nudges' = nudges  BY <2>1 DEF Enter, RequestId
  <2> QED  BY <1>1, <1>3, <2>2 DEF NudgesFit
<1> QED  BY <1>2, <1>3

LEMMA SendNudgeKeeps ==
  ASSUME IInv, NEW w \in Runners, SendNudge(w)
  PROVE  IInv'
<1>1. /\ runner[w].at = "send" /\ UNCHANGED <<job, lock, daemon, busy>> /\ (Smooth \/ Mishap)
      /\ job \in Jobs /\ FirstPid < daemon.pid /\ runner[w].seen # runner[w].job.old
  BY Facts DEF SendNudge, AtStep, RunnerFits
<1>2. CASE UNCHANGED nudges /\ Goes(w, "failing")
  <2>1. Frame  BY <1>1, <1>2, SameFrame
  <2> QED  BY <1>1, <1>2, <2>1, GoesStep DEF Steps, Recorded
<1>3. CASE nudges' = Enter(RequestId(w)) /\ \E step \in {"sent", "failing"} : Goes(w, step)
  <2>1. PICK step \in {"sent", "failing"} : Goes(w, step)  BY <1>3
  <2>2. /\ nudges' \subseteq [id : {"post-restart"}, pid : Nat] /\ nudges \subseteq nudges' /\ nudges' # {}
        /\ NudgesFit'
    BY <1>1, <1>3, EnterOnce
  <2>3. Frame  BY <1>1, <2>2 DEF Frame, IInv, TypeOK, Smooth, Mishap
  <2>4. Becomes(w, step, runner[w].job, runner[w].seen)  BY <2>1, GoesBecomes DEF IInv, Steps
  <2>5. RunnerFits(step, runner[w].job, runner[w].seen, daemon'.pid, nudges')
    BY <1>1, <2>2, Facts DEF RunnerFits, Recorded
  <2>6. JobFits(job', daemon'.pid, nudges')  BY <1>1, <2>2, Facts DEF JobFits
  <2> QED  BY <2>2, <2>3, <2>4, <2>5, <2>6, WorkerStep
<1> QED  BY <1>2, <1>3 DEF SendNudge

LEMMA CompleteKeeps ==
  ASSUME IInv, NEW w \in Runners, Complete(w)
  PROVE  IInv'
<1> DEFINE j == [runner[w].job EXCEPT !.state = "complete", !.new = runner[w].seen]
<1>1. j \in Jobs /\ j.state = "complete" /\ j.old = runner[w].job.old /\ j.new = runner[w].seen
  BY Facts DEF Jobs, States
<1>2. job' = j /\ Becomes(w, "release", j, 0)  BY <1>1, MovesBecomes DEF Complete, Steps
<1>3. Frame /\ UNCHANGED <<daemon, nudges>>  BY <1>1, <1>2, SameFrame DEF Complete
<1>4. RunnerFits("release", j, 0, daemon.pid, nudges) /\ JobFits(j, daemon.pid, nudges)
  BY <1>1, Facts DEF RunnerFits, JobFits, Recorded, Complete, AtStep
<1> QED  BY <1>2, <1>3, <1>4, FileStep

LEMMA WorldKeeps ==
  ASSUME IInv, DaemonStops \/ DaemonDies \/ OtherEnsures \/ ActorsSettle \/ ActorsWork
  PROVE  IInv'
<1>1. UNCHANGED <<job, lock, runner, nudges>>
  BY DEF DaemonStops, DaemonDies, OtherEnsures, ActorsSettle, ActorsWork
<1>2. CASE DaemonStops
  <2>1. Frame  BY <1>2 DEF Frame, IInv, TypeOK, Smooth, DaemonStops
  <2> QED  BY <1>1, <2>1, WorldStep
<1>3. CASE DaemonDies
  <2>1. Frame  BY <1>3 DEF Frame, IInv, TypeOK, Mishap, DaemonDies
  <2> QED  BY <1>1, <2>1, WorldStep
<1>4. CASE OtherEnsures
  <2>1. Frame  BY <1>4 DEF Frame, IInv, TypeOK, Mishap, OtherEnsures
  <2> QED  BY <1>1, <2>1, WorldStep
<1>5. CASE ActorsSettle \/ ActorsWork
  <2>1. busy' \in BOOLEAN  BY <1>5, Zenon DEF ActorsSettle, ActorsWork
  <2>2. UNCHANGED <<job, lock, daemon, nudges>> /\ (Smooth \/ Mishap)  BY <1>5 DEF ActorsSettle, ActorsWork
  <2>3. Frame  BY <2>1, <2>2 DEF Frame, IInv, TypeOK, Smooth, Mishap
  <2> QED  BY <1>1, <2>3, WorldStep
<1> QED  BY <1>2, <1>3, <1>4, <1>5

-----------------------------------------------------------------------------
(* The theorems. *)

LEMMA RestartInitHolds == RestartInit => IInv
<1> SUFFICES ASSUME RestartInit PROVE IInv  OBVIOUS
<1>1. Fresh \in RunnerStates /\ Fresh.at = "idle" /\ Fresh.job = NewJob /\ Fresh.seen = 0
  BY NewJobIsOne DEF Fresh, RunnerStates, Steps, NoPid
<1>2. TypeOK  BY <1>1, NewJobIsOne DEF RestartInit, TypeOK, NoLock, FirstPid
<1>3. daemon.pid = FirstPid /\ nudges = {} /\ job = NewJob  BY DEF RestartInit
<1>4. JobFits(job, daemon.pid, nudges) /\ NudgesFit
  BY <1>3, NewJobIsOne DEF JobFits, NudgesFit, FirstPid
<1>5. \A w \in Runners : RunnerFits(runner[w].at, runner[w].job, runner[w].seen, daemon.pid, nudges)
  BY <1>1, <1>3, NewJobIsOne DEF RestartInit, RunnerFits, Recorded, FirstPid
<1> QED  BY <1>2, <1>3, <1>4, <1>5 DEF IInv, FirstPid

LEMMA RestartNextKeeps == IInv /\ [RestartNext]_restartVars => IInv'
<1> SUFFICES ASSUME IInv, [RestartNext]_restartVars PROVE IInv'  OBVIOUS
<1>1. ASSUME NEW w \in Runners, RunnerStep(w) PROVE IInv'
  BY <1>1, LockSteps, LoadJobKeeps, PlainSteps, PollKeeps, RecordOldKeeps, AskOldKeeps, AskShutdownKeeps,
     WatchSocketKeeps, EnsureKeeps, CheckStartedKeeps, CheckReplacementKeeps, SendNudgeKeeps, CompleteKeeps
     DEF RunnerStep
<1>2. ASSUME NEW w \in Runners, StartRunner(w) \/ Deadlines(w) \/ RunnerDies(w) PROVE IInv'
  BY <1>2, LockSteps, PlainSteps DEF Deadlines
<1>3. CASE DaemonStops \/ DaemonDies \/ OtherEnsures \/ ActorsSettle \/ ActorsWork  BY <1>3, WorldKeeps
<1>4. CASE UNCHANGED restartVars
  <2>1. Frame /\ UNCHANGED <<job, runner, nudges>>  BY <1>4 DEF restartVars, Frame, IInv, TypeOK
  <2> QED  BY <2>1, WorldStep
<1> QED  BY <1>1, <1>2, <1>3, <1>4 DEF RestartNext

LEMMA RestartInvariant == RestartSpec => []IInv
  BY RestartInitHolds, RestartNextKeeps, PTL DEF RestartSpec

\* The job, its lock, its workers and the inputs it entered have their types, for any workers
\* and mishaps (post-restart.mjs: validateJob, runPostRestartJob).
THEOREM RestartTypes == RestartSpec => []TypeOK
<1>1. IInv => TypeOK  BY DEF IInv
<1> QED  BY <1>1, RestartInvariant, PTL

\* However many workers die, race over the lock or resume the job, the session is told at most
\* once and by a later supervisor than the one it ran under, and a job is complete only if it
\* was (post-restart.mjs: submitNudge and the checks of the PID before it).
THEOREM RestartIsTold == RestartSpec => []ToldByReplacement
<1>1. ASSUME IInv PROVE ToldByReplacement
  <2>1. Cardinality(nudges) <= 1
    <3>1. CASE nudges = {}  BY <3>1, FS_EmptySet
    <3>2. CASE nudges # {}
      <4>1. PICK n \in nudges : TRUE  BY <3>2
      <4>2. nudges = {n}  BY <1>1, <4>1 DEF IInv, NudgesFit
      <4> QED  BY <4>2, FS_Singleton
    <3> QED  BY <3>1, <3>2
  <2>2. \A n \in nudges : n.pid # FirstPid
    BY <1>1 DEF IInv, NudgesFit, TypeOK, FirstPid
  <2>3. job.state = "complete" => nudges # {} /\ job.new # job.old  BY <1>1 DEF IInv, JobFits
  <2> QED  BY <2>1, <2>2, <2>3 DEF ToldByReplacement
<1> QED  BY <1>1, RestartInvariant, PTL

-----------------------------------------------------------------------------
(* PART 2: a kernel, for any calls, cancellations, deaths and failed saves. *)
(* The channel carries one command at a time, for the head of the tail; an  *)
(* identity stands for one namespace only, wherever it is kept; and what    *)
(* was acknowledged lies in every snapshot and every process since.         *)

Names == Cells \cup {None}
CellRecords ==
  [st : {"new", "queued", "starting", "running", "draining", "saving", "settled"},
   mode : {"native", "plain"}, epoch : Nat, cancelled : BOOLEAN, ok : BOOLEAN]
Hosts ==
  [kernel : {"none", "launching", "open", "closing"}, snapshot : BOOLEAN, sent : BOOLEAN, epoch : Nat,
   generation : Nat, saved : Nat, timer : BOOLEAN, killFor : Names]
Processes ==
  [st : {"none", "boot", "idle", "cell", "cold", "save", "moved", "placed", "dead"},
   ns : SUBSET Cells, ck : Names, hold : BOOLEAN]
OrphanSaves ==
  [st : {"none", "unread", "save", "moved", "placed"}, ns : SUBSET Cells, ck : Names, hold : BOOLEAN,
   temp : BOOLEAN]
Frames ==
  {NoFrame, [type |-> "ready"]} \cup [type : {"done", "snapshot_done", "cold_memory_done"}, ok : BOOLEAN]
Snapshots == [kind : {"snapshot"}, ns : SUBSET Cells, ck : Names]
Directories == {Absent, Config} \cup Snapshots
Reports == [match : BOOLEAN, expected : Names, ns : SUBSET Cells]

KernelTypeOK ==
  /\ cell \in [Cells -> CellRecords] /\ queue \in Seq(Cells \cup {"snap", "cold", "final"})
  /\ host \in Hosts /\ py \in Processes /\ toPy \in {None, "execute", "snapshot", "cold_memory"}
  /\ toHost \in Frames /\ disk \in [cur : Directories, prev : Directories] /\ orphan \in OrphanSaves
  /\ results \in Seq(Cells) /\ after \in [Cells -> SUBSET Cells]
  /\ acked \in {Absent} \cup Snapshots /\ report \in Reports

\* The head of the tail q is a call at the stage s.
Heads(t, q, s) == q # <<>> /\ Head(q) \in Cells /\ t[Head(q)].st = s

\* Only the head of the tail has begun; a kernel that does not run yet has no tail.
TailInv(t, q, h) ==
  /\ \A c \in Cells : t[c].st \in {"starting", "running", "draining", "saving"} => q # <<>> /\ Head(q) = c
  /\ h.sent => q # <<>> /\ (Head(q) \in Cells => t[Head(q)].st \in {"running", "saving"})
  /\ h.kernel \in {"none", "launching"} => q = <<>>

\* The channel stands at the execution of a cell, at a save, or at cold advice.
Executes(p, c, f) == c = "execute" \/ p.st = "cell" \/ f.type = "done"
SavesNow(p, c, f) == c = "snapshot" \/ p.st \in {"save", "moved", "placed"} \/ f.type = "snapshot_done"
Cools(p, c, f) == c = "cold_memory" \/ p.st = "cold" \/ f.type = "cold_memory_done"

\* One command at a time is between the host and Python, and it is for the head of the tail.
ChannelInv(t, q, h, p, c, f) ==
  /\ h.sent \/ (c = None /\ f.type \in {None, "ready"} /\ p.st \in {"none", "boot", "idle", "dead"})
  /\ c # None => p.st \in {"idle", "dead"} /\ f.type \in {None, "ready"}
  /\ p.st \in {"cell", "cold", "save", "moved", "placed"} => f.type \in {None, "ready"}
  /\ p.st \in {"none", "boot"} => f.type = None
  /\ p.st = "boot" => h.kernel = "launching" \/ Heads(t, q, "starting")
  /\ Executes(p, c, f) => Heads(t, q, "running")
  /\ SavesNow(p, c, f) => q # <<>> /\ (Head(q) \in Cells => t[Head(q)].st = "saving")
  /\ Cools(p, c, f) => q # <<>> /\ Head(q) = "cold"

\* The identity k stands for the namespace ns.
Named(ns, k, a) == k # None => a[k] # {} /\ ns = a[k]
Keeps(d, a) == IsSnapshot(d) => Named(d.ns, d.ck, a)

\* A namespace with an identity is the one that its call left behind, in a process, in the
\* snapshot directory, in an orphan and in the diagnostic; no call leaves one twice.
NamesInv(t, q, h, p, c, f, d, o, a, r) ==
  /\ p.st \in {"idle", "cold", "save", "moved", "placed"} => Named(p.ns, p.ck, a)
  /\ h.kernel \in {"none", "launching"} /\ f.type = "ready" => Named(p.ns, p.ck, a)
  /\ p.st = "cell" => p.ck \in {None, Head(q)}
  /\ c = "execute" \/ p.st = "cell" => a[Head(q)] = {}
  /\ \A e \in Cells : t[e].st \in {"new", "queued", "starting"} => a[e] = {}
  /\ Keeps(d.cur, a) /\ Keeps(d.prev, a)
  /\ o.st # "none" => Named(o.ns, o.ck, a)
  /\ r.match => r.expected # None /\ a[r.expected] # {} /\ r.ns = a[r.expected]

KernelInv ==
  /\ KernelTypeOK /\ TailInv(cell, queue, host) /\ ChannelInv(cell, queue, host, py, toPy, toHost)
  /\ NamesInv(cell, queue, host, py, toPy, toHost, disk, orphan, after, report)

\* A process holds a namespace.
Lives(p) == p.st \notin {"none", "boot", "dead"}

\* The last call left the namespace that the process still holds.
LeftInv(t, q, p, f, a) ==
  Lives(p) =>
    /\ \A e \in Cells : t[e].st \in {"draining", "saving"} => p.ns = a[e]
    /\ f.type = "done" => p.ns = a[Head(q)]

\* A save, and what leads to one, belongs to a kernel that ran a cell, and no orphan is left then.
SaverInv(t, h, p, c, f, o) ==
  /\ o.st # "none" => h.generation = 0
  /\ SavesNow(p, c, f) => h.generation # 0
  /\ \A e \in Cells : t[e].st \in {"running", "draining", "saving"} => h.generation # 0

Holding(d, ns) == IsSnapshot(d) => ns \subseteq d.ns
\* What was acknowledged is in every snapshot, process and orphan, and one snapshot is there.
AckedInv(p, f, q, d, o, a, k) ==
  /\ p.st = "placed" => IsSnapshot(d.cur) /\ d.cur.ns = p.ns
  /\ o.st = "placed" => IsSnapshot(d.cur)
  /\ f.type = "snapshot_done" /\ f.ok =>
       IsSnapshot(d.cur) /\ d.prev = Absent /\ (Head(q) \in Cells => a[Head(q)] \subseteq d.cur.ns)
  /\ IsSnapshot(k) =>
       /\ IsSnapshot(d.cur) \/ IsSnapshot(d.prev)
       /\ Holding(d.cur, k.ns) /\ Holding(d.prev, k.ns)
       /\ Lives(p) => k.ns \subseteq p.ns
       /\ o.st # "none" => k.ns \subseteq o.ns

SaveInv ==
  /\ LeftInv(cell, queue, py, toHost, after) /\ SaverInv(cell, host, py, toPy, toHost, orphan)
  /\ AckedInv(py, toHost, queue, disk, orphan, after, acked)

-----------------------------------------------------------------------------
(* Lemmas about the operators. *)

LEMMA Places ==
  /\ \A n, k : /\ IsSnapshot(Snapshot(n, k)) /\ Snapshot(n, k).ns = n /\ Snapshot(n, k).ck = k
               /\ Snapshot(n, k) # Absent /\ Snapshot(n, k) # Config
  /\ ~IsSnapshot(Absent) /\ ~IsSnapshot(Config) /\ Absent # Config
  /\ \A d \in Snapshots : IsSnapshot(d) /\ d.ns \in SUBSET Cells /\ d.ck \in Names
  /\ \A n \in SUBSET Cells, k \in Names : Snapshot(n, k) \in Snapshots
  BY DEF IsSnapshot, Snapshot, Absent, Config, Snapshots

LEMMA FramesAre ==
  /\ NoFrame \in Frames /\ NoFrame.type = None
  /\ [type |-> "ready"] \in Frames /\ [type |-> "ready"].type = "ready"
  /\ \A t \in {"done", "snapshot_done", "cold_memory_done"}, b \in BOOLEAN :
       [type |-> t, ok |-> b] \in Frames /\ [type |-> t, ok |-> b].type = t /\ [type |-> t, ok |-> b].ok = b
  /\ \A f \in Frames : /\ f.type \in {None, "ready", "done", "snapshot_done", "cold_memory_done"}
                       /\ f.type \in {"done", "snapshot_done", "cold_memory_done"} => f.ok \in BOOLEAN
  BY DEF Frames, NoFrame, None

LEMMA NothingIs ==
  /\ NoObject \in Hosts /\ NoObject.kernel = "none" /\ ~NoObject.sent /\ NoObject.generation = 0
  /\ NewObject \in Hosts /\ NewObject.kernel = "launching" /\ ~NewObject.sent /\ NewObject.generation = 0
  /\ NoProcess \in Processes /\ NoProcess.st = "none"
  /\ NoOrphan \in OrphanSaves /\ NoOrphan.st = "none"
  /\ NoReport \in Reports /\ ~NoReport.match
<1> DEFINE zero == 0
<1>1. zero \in Nat
  OBVIOUS
<1> HIDE DEF zero
<1>2. /\ NewObject = [kernel |-> "launching", snapshot |-> FALSE, sent |-> FALSE, epoch |-> zero, generation |-> zero,
                      saved |-> zero, timer |-> FALSE, killFor |-> None]
  BY DEF NewObject, zero
<1>3. NewObject \in Hosts /\ NewObject.kernel = "launching" /\ ~NewObject.sent /\ NewObject.generation = zero
  BY <1>1, <1>2 DEF Hosts, Names
<1>4. NoObject \in Hosts /\ NoObject.kernel = "none" /\ ~NoObject.sent /\ NoObject.generation = zero
  BY <1>3 DEF Hosts, NoObject
<1>5. NoProcess \in Processes /\ NoProcess.st = "none"
  BY DEF NoProcess, Processes, Names
<1>6. NoOrphan \in OrphanSaves /\ NoOrphan.st = "none"
  BY DEF NoOrphan, OrphanSaves, Names
<1>7. NoReport \in Reports /\ ~NoReport.match
  BY DEF NoReport, Reports, Names
<1> QED BY <1>3, <1>4, <1>5, <1>6, <1>7 DEF zero

\* The tail at its end and at its head.
LEMMA Tails ==
  ASSUME NEW S, NEW q \in Seq(S)
  PROVE  /\ \A e \in S : /\ Append(q, e) \in Seq(S) /\ Append(q, e) # <<>>
                         /\ Head(Append(q, e)) = IF q = <<>> THEN e ELSE Head(q)
         /\ q # <<>> => Head(q) \in S /\ Tail(q) \in Seq(S)
<1>1. \A e \in S : /\ Append(q, e) \in Seq(S) /\ Append(q, e) # <<>>
                   /\ q # <<>> => Head(Append(q, e)) = Head(q)
                   /\ q = <<>> => Head(Append(q, e)) = e
  OBVIOUS
<1>2. q # <<>> => Head(q) \in S /\ Tail(q) \in Seq(S)
  OBVIOUS
<1> QED BY <1>1, <1>2

\* A call at the head of the tail.
LEMMA Fronts ==
  ASSUME KernelTypeOK
  PROVE  /\ FrontCell <=> queue # <<>> /\ Head(queue) \in Cells
         /\ FrontCell => Front = Head(queue) /\ Front \in Cells
         /\ queue # <<>> => Front = Head(queue) /\ Tail(queue) \in Seq(Cells \cup {"snap", "cold", "final"})
         /\ None \notin Cells /\ {"snap", "cold", "final"} \cap Cells = {}
<1>1. None \notin Cells /\ {"snap", "cold", "final"} \cap Cells = {}
  BY KernelAssumption DEF None
<1>2. queue \in Seq(Cells \cup {"snap", "cold", "final"})
  BY DEF KernelTypeOK
<1>3. queue # <<>> => Tail(queue) \in Seq(Cells \cup {"snap", "cold", "final"})
  BY <1>2, Tails
<1> QED BY <1>1, <1>3 DEF FrontCell, Front

-----------------------------------------------------------------------------
(* Steps that leave the calls and the tail alone. *)

\* The kernel changes hands, or remembers something.
LEMMA HostMoves ==
  ASSUME KernelInv, UNCHANGED <<cell, queue, py, toPy, toHost, disk, orphan, results, after, acked, report>>,
         host' \in Hosts, host'.sent = host.sent,
         host'.kernel \in {"none", "launching"} => host.kernel \in {"none", "launching"},
         host.kernel = "launching" => host'.kernel = "launching"
  PROVE  KernelInv'
<1>1. KernelTypeOK'
  BY DEF KernelInv, KernelTypeOK
<1>2. TailInv(cell, queue, host)'
  BY DEF KernelInv, TailInv
<1>3. ChannelInv(cell, queue, host, py, toPy, toHost)'
  BY DEF KernelInv, ChannelInv, Executes, SavesNow, Cools, Heads
<1>4. NamesInv(cell, queue, host, py, toPy, toHost, disk, orphan, after, report)'
  BY DEF KernelInv, NamesInv, Named, Keeps, IsSnapshot
<1> QED BY <1>1, <1>2, <1>3, <1>4 DEF KernelInv

LEMMA KernelSteps ==
  ASSUME KernelInv, Launch \/ Replace \/ Reload
  PROVE  KernelInv'
<1>1. UNCHANGED <<cell, queue, py, toPy, toHost, disk, orphan, results, after, acked, report>>
  BY DEF Launch, Replace, Reload
<1>2. host \in Hosts
  BY DEF KernelInv, KernelTypeOK
<1>3. CASE Launch
  <2>1. ~host.sent /\ host.kernel = "none"
    BY <1>3 DEF Launch, KernelInv, TailInv
  <2>2. host' = NewObject
    BY <1>3 DEF Launch
  <2>3. host' \in Hosts /\ host'.sent = FALSE /\ host'.kernel = "launching"
    BY <2>2, NothingIs DEF Hosts
  <2>4. host.sent = FALSE
    BY <1>2, <2>1 DEF Hosts
  <2> QED BY <1>1, <2>1, <2>3, <2>4, HostMoves
<1>4. CASE Replace \/ Reload
  <2>1. PICK s \in BOOLEAN :
          host' = [host EXCEPT !.kernel = "closing", !.snapshot = s, !.timer = FALSE, !.killFor = None]
    BY <1>4 DEF Replace, Reload, Close
  <2>2. host.kernel = "open"
    BY <1>4 DEF Replace, Reload
  <2>3. host' \in Hosts /\ host'.sent = host.sent /\ host'.kernel = "closing"
    BY <1>2, <2>1 DEF Hosts, Names
  <2> QED BY <1>1, <2>2, <2>3, HostMoves
<1> QED BY <1>3, <1>4

\* The disk and the orphan change, and keep to the names.
LEMMA DiskMoves ==
  ASSUME KernelInv, UNCHANGED <<cell, queue, host, py, toPy, toHost, results, after, acked, report>>,
         disk' \in [cur : Directories, prev : Directories], orphan' \in OrphanSaves,
         Keeps(disk'.cur, after), Keeps(disk'.prev, after),
         orphan'.st # "none" => Named(orphan'.ns, orphan'.ck, after)
  PROVE  KernelInv'
<1>1. KernelTypeOK'
  BY DEF KernelInv, KernelTypeOK
<1>2. TailInv(cell, queue, host)'
  BY DEF KernelInv, TailInv
<1>3. ChannelInv(cell, queue, host, py, toPy, toHost)'
  BY DEF KernelInv, ChannelInv, Executes, SavesNow, Cools, Heads
<1>4. NamesInv(cell, queue, host, py, toPy, toHost, disk, orphan, after, report)'
  <2>1. Keeps(disk.cur, after)' /\ Keeps(disk.prev, after)'
    BY DEF Keeps, Named, IsSnapshot
  <2>2. (orphan.st # "none" => Named(orphan.ns, orphan.ck, after))'
    BY DEF Named
  <2> QED BY <2>1, <2>2 DEF KernelInv, NamesInv, Named
<1> QED BY <1>1, <1>2, <1>3, <1>4 DEF KernelInv

\* What a save does to the directory neither makes nor mixes snapshots.
LEMMA Shifts ==
  ASSUME NEW d \in [cur : Directories, prev : Directories], NEW hold \in BOOLEAN
  PROVE  /\ Aside(d) \in [cur : Directories, prev : Directories]
         /\ Aside(d).cur = Absent /\ Aside(d).prev \in {d.cur, d.prev}
         /\ Back(d, hold) \in [cur : Directories, prev : Directories]
         /\ Back(d, hold).cur \in {d.cur, d.prev, Config} /\ Back(d, hold).prev \in {d.prev, Absent}
<1>1. Absent \in Directories /\ Config \in Directories /\ d.cur \in Directories /\ d.prev \in Directories
  BY DEF Directories
<1>2. /\ Aside(d) \in [cur : Directories, prev : Directories]
      /\ Aside(d).cur = Absent /\ Aside(d).prev \in {d.cur, d.prev}
  BY <1>1 DEF Aside
<1>3. /\ Back(d, hold) \in [cur : Directories, prev : Directories]
      /\ Back(d, hold).cur \in {d.cur, d.prev, Config} /\ Back(d, hold).prev \in {d.prev, Absent}
  BY <1>1 DEF Back
<1> QED BY <1>2, <1>3

LEMMA OrphanSteps ==
  ASSUME KernelInv, Orphan
  PROVE  KernelInv'
<1>1. /\ UNCHANGED <<cell, queue, host, py, toPy, toHost, results, after, acked, report>>
      /\ disk \in [cur : Directories, prev : Directories] /\ orphan \in OrphanSaves
      /\ Keeps(disk.cur, after) /\ Keeps(disk.prev, after)
      /\ orphan.st # "none" => Named(orphan.ns, orphan.ck, after)
  BY DEF Orphan, KernelInv, KernelTypeOK, NamesInv
<1>2. orphan.hold \in BOOLEAN /\ orphan.ns \in SUBSET Cells /\ orphan.ck \in Names
  BY <1>1 DEF OrphanSaves
<1>3. ~IsSnapshot(Absent) /\ ~IsSnapshot(Config) /\ Absent \in Directories
  BY Places DEF Directories
<1>4. CASE OrphanBegins
  <2>1. orphan' \in OrphanSaves /\ orphan'.ns = orphan.ns /\ orphan'.ck = orphan.ck
    BY <1>1, <1>4 DEF OrphanBegins, OrphanSaves
  <2>2. disk' = disk /\ orphan.st # "none"
    BY <1>4 DEF OrphanBegins
  <2> QED BY <1>1, <2>1, <2>2, DiskMoves
<1>5. CASE OrphanMoves
  <2>1. CASE orphan.temp
    <3>1. orphan' = [orphan EXCEPT !.st = "moved", !.hold = Holds(disk)] /\ disk' = Aside(disk) /\ orphan.st # "none"
      BY <1>5, <2>1 DEF OrphanMoves
    <3>2. Holds(disk) \in BOOLEAN
      BY DEF Holds
    <3>3. orphan' \in OrphanSaves /\ orphan'.ns = orphan.ns /\ orphan'.ck = orphan.ck
      BY <1>1, <3>1, <3>2 DEF OrphanSaves
    <3>4. disk' \in [cur : Directories, prev : Directories] /\ Keeps(disk'.cur, after) /\ Keeps(disk'.prev, after)
      BY <1>1, <1>3, <3>1, Shifts DEF Keeps
    <3> QED BY <1>1, <3>1, <3>3, <3>4, DiskMoves
  <2>2. CASE ~orphan.temp
    BY <1>1, <1>5, <2>2, NothingIs, DiskMoves DEF OrphanMoves
  <2> QED BY <2>1, <2>2
<1>6. CASE OrphanPlaces
  <2>1. CASE orphan.temp /\ disk.cur = Absent
    <3>1. /\ orphan' = [orphan EXCEPT !.st = "placed"] /\ orphan.st # "none"
          /\ disk' = [disk EXCEPT !.cur = Snapshot(orphan.ns, orphan.ck)]
      BY <1>6, <2>1 DEF OrphanPlaces
    <3>2. orphan' \in OrphanSaves /\ orphan'.ns = orphan.ns /\ orphan'.ck = orphan.ck
      BY <1>1, <3>1 DEF OrphanSaves
    <3> DEFINE s == Snapshot(orphan.ns, orphan.ck)
    <3>3. s \in Directories /\ s.ns = orphan.ns /\ s.ck = orphan.ck
      BY <1>2, Places DEF Directories
    <3>4. disk' = [disk EXCEPT !.cur = s]
      BY <3>1
    <3> HIDE DEF s
    <3>5. disk' \in [cur : Directories, prev : Directories] /\ Keeps(disk'.cur, after) /\ Keeps(disk'.prev, after)
      BY <1>1, <3>1, <3>3, <3>4 DEF Keeps
    <3> QED BY <1>1, <3>1, <3>2, <3>5, DiskMoves
  <2>2. CASE ~(orphan.temp /\ disk.cur = Absent)
    <3>1. disk' = Back(disk, orphan.hold) /\ orphan' = NoOrphan
      BY <1>6, <2>2 DEF OrphanPlaces
    <3>2. disk' \in [cur : Directories, prev : Directories] /\ Keeps(disk'.cur, after) /\ Keeps(disk'.prev, after)
      BY <1>1, <1>2, <1>3, <3>1, Shifts DEF Keeps
    <3> QED BY <1>1, <3>1, <3>2, NothingIs, DiskMoves
  <2> QED BY <2>1, <2>2
<1>7. CASE OrphanEnds
  <2>1. disk' = [disk EXCEPT !.prev = Absent] /\ orphan' = NoOrphan
    BY <1>7 DEF OrphanEnds
  <2>2. disk' \in [cur : Directories, prev : Directories] /\ Keeps(disk'.cur, after) /\ Keeps(disk'.prev, after)
    BY <1>1, <1>3, <2>1 DEF Keeps
  <2> QED BY <1>1, <2>1, <2>2, NothingIs, DiskMoves
<1> QED BY <1>4, <1>5, <1>6, <1>7 DEF Orphan

-----------------------------------------------------------------------------
(* Steps of Python. *)

\* Python moves between the states in which its namespace has its name.
LEMMA PythonMoves ==
  ASSUME KernelInv, UNCHANGED <<cell, queue, host, orphan, results, after, acked, report>>,
         disk' \in [cur : Directories, prev : Directories],
         Keeps(disk'.cur, after), Keeps(disk'.prev, after),
         py' \in Processes, toPy' \in {None, "execute", "snapshot", "cold_memory"}, toHost' \in Frames,
         ChannelInv(cell, queue, host, py, toPy, toHost)',
         py'.st \in {"idle", "cold", "save", "moved", "placed"} => Named(py'.ns, py'.ck, after),
         host.kernel \in {"none", "launching"} /\ toHost'.type = "ready" => Named(py'.ns, py'.ck, after),
         py'.st = "cell" => py'.ck \in {None, Head(queue)},
         toPy' = "execute" \/ py'.st = "cell" => after[Head(queue)] = {}
  PROVE  KernelInv'
<1>1. KernelTypeOK'
  BY DEF KernelInv, KernelTypeOK
<1>2. TailInv(cell, queue, host)'
  BY DEF KernelInv, TailInv
<1>3. NamesInv(cell, queue, host, py, toPy, toHost, disk, orphan, after, report)'
  <2>1. Keeps(disk.cur, after)' /\ Keeps(disk.prev, after)'
    BY DEF Keeps, Named, IsSnapshot
  <2>2. (py.st \in {"idle", "cold", "save", "moved", "placed"} => Named(py.ns, py.ck, after))'
    BY DEF Named
  <2>3. (host.kernel \in {"none", "launching"} /\ toHost.type = "ready" => Named(py.ns, py.ck, after))'
    BY DEF Named
  <2> QED BY <2>1, <2>2, <2>3 DEF KernelInv, NamesInv, Named
<1> QED BY <1>1, <1>2, <1>3 DEF KernelInv

\* What is true of Python before each of its steps.
LEMMA Pythons ==
  ASSUME KernelInv
  PROVE  /\ py \in Processes /\ disk \in [cur : Directories, prev : Directories]
         /\ toPy \in {None, "execute", "snapshot", "cold_memory"} /\ toHost \in Frames
         /\ py.ns \in SUBSET Cells /\ py.ck \in Names /\ py.hold \in BOOLEAN
         /\ Keeps(disk.cur, after) /\ Keeps(disk.prev, after)
         /\ ChannelInv(cell, queue, host, py, toPy, toHost)
         /\ py.st \in {"idle", "cold", "save", "moved", "placed"} => Named(py.ns, py.ck, after)
         /\ host.kernel \in {"none", "launching"} /\ toHost.type = "ready" => Named(py.ns, py.ck, after)
         /\ py.st = "cell" => py.ck \in {None, Head(queue)}
         /\ toPy = "execute" \/ py.st = "cell" => after[Head(queue)] = {}
  BY DEF KernelInv, KernelTypeOK, NamesInv, Processes

LEMMA SpawnStep ==
  ASSUME KernelInv, Spawn
  PROVE  KernelInv'
<1>1. /\ UNCHANGED <<cell, queue, host, toPy, toHost, orphan, results, after, acked, report>>
      /\ py.st = "none" /\ py' = [NoProcess EXCEPT !.st = "boot"]
      /\ host.kernel = "launching" \/ (FrontCell /\ cell[Front].st = "starting")
      /\ disk' = IF disk.cur = Absent THEN [disk EXCEPT !.cur = Config] ELSE disk
  BY DEF Spawn
<1>2. py' \in Processes /\ py'.st = "boot"
  BY <1>1, NothingIs DEF Processes
<1>3. disk' \in [cur : Directories, prev : Directories] /\ Keeps(disk'.cur, after) /\ Keeps(disk'.prev, after)
  BY <1>1, Pythons, Places DEF Keeps, Directories
<1>4. ChannelInv(cell, queue, host, py, toPy, toHost)'
  BY <1>1, <1>2, Pythons, Fronts DEF KernelInv, ChannelInv, Executes, SavesNow, Cools, Heads
<1>5. toPy = None
  BY <1>1, Pythons DEF ChannelInv
<1>6. toHost.type # "ready"
  BY <1>1, Pythons DEF ChannelInv, None
<1> QED BY <1>1, <1>2, <1>3, <1>4, <1>5, <1>6, Pythons, PythonMoves DEF None

LEMMA RestoresStep ==
  ASSUME KernelInv, Restores
  PROVE  KernelInv'
<1> DEFINE s == Restorable(disk)
<1>1. /\ UNCHANGED <<cell, queue, host, toPy, disk, results, after, acked, report>>
      /\ py.st = "boot" /\ py' = [py EXCEPT !.st = "idle", !.ns = s.ns, !.ck = s.ck]
      /\ orphan' = [orphan EXCEPT !.temp = FALSE] /\ toHost' = [type |-> "ready"]
  BY DEF Restores
<1>2. s \in Snapshots /\ Named(s.ns, s.ck, after)
  <2>1. Snapshot({}, None) \in Snapshots /\ Named(Snapshot({}, None).ns, Snapshot({}, None).ck, after)
    BY Places DEF Names, Named
  <2>2. \A d \in Directories : IsSnapshot(d) => d \in Snapshots
    BY Places DEF Directories
  <2>3. disk.cur \in Directories /\ disk.prev \in Directories
    BY Pythons
  <2> QED BY <2>1, <2>2, <2>3, Pythons DEF Restorable, Keeps
<1>3. s.ns \in SUBSET Cells /\ s.ck \in Names
  BY <1>2, Places
<1> HIDE DEF s
<1>4. py' \in Processes /\ py'.st = "idle" /\ py'.ns = s.ns /\ py'.ck = s.ck
  BY <1>1, <1>3, Pythons DEF Processes
<1>5. orphan' \in OrphanSaves /\ orphan'.st = orphan.st /\ orphan'.ns = orphan.ns /\ orphan'.ck = orphan.ck
  BY <1>1 DEF KernelInv, KernelTypeOK, OrphanSaves
<1>6. toHost' \in Frames /\ toHost'.type = "ready"
  BY <1>1, FramesAre
<1>7. KernelTypeOK'
  BY <1>1, <1>4, <1>5, <1>6 DEF KernelInv, KernelTypeOK
<1>8. TailInv(cell, queue, host)'
  BY <1>1 DEF KernelInv, TailInv
<1>9. ChannelInv(cell, queue, host, py, toPy, toHost)'
  BY <1>1, <1>4, <1>6, Pythons DEF ChannelInv, Executes, SavesNow, Cools, Heads
<1>10. NamesInv(cell, queue, host, py, toPy, toHost, disk, orphan, after, report)'
  BY <1>1, <1>2, <1>4, <1>5 DEF KernelInv, NamesInv, Named, Keeps, IsSnapshot
<1> QED BY <1>7, <1>8, <1>9, <1>10 DEF KernelInv

LEMMA PyReadsStep ==
  ASSUME KernelInv, PyReads
  PROVE  KernelInv'
<1>1. /\ UNCHANGED <<cell, queue, host, toHost, disk, orphan, results, after, acked, report>>
      /\ py.st = "idle" /\ toPy # None /\ toPy' = None
  BY DEF PyReads
<1>2. CASE toPy = "execute"
  <2> DEFINE k == CheckpointOf(Front, py.ck)
  <2>1. py' = [py EXCEPT !.st = "cell", !.ck = k]
    BY <1>2 DEF PyReads
  <2>2. k \in {None, Head(queue)} /\ k \in Names
    BY <1>2, Pythons, Fronts DEF CheckpointOf, ChannelInv, Executes, Heads, KernelInv, Names
  <2> HIDE DEF k
  <2>3. py' \in Processes /\ py'.st = "cell" /\ py'.ck = k
    BY <2>1, <2>2, Pythons DEF Processes
  <2>4. ChannelInv(cell, queue, host, py, toPy, toHost)'
    BY <1>1, <1>2, <2>3, Pythons DEF ChannelInv, Executes, SavesNow, Cools, Heads, None
  <2>5. toHost.type = "ready" => host.kernel \notin {"none", "launching"}
    BY <1>2, Pythons DEF ChannelInv, Executes, Heads, KernelInv, TailInv
  <2> QED BY <1>1, <1>2, <2>2, <2>3, <2>4, <2>5, Pythons, PythonMoves
<1>3. CASE toPy \in {"snapshot", "cold_memory"}
  <2> DEFINE s == IF toPy = "snapshot" THEN "save" ELSE "cold"
  <2>1. py' = [py EXCEPT !.st = s]
    BY <1>3 DEF PyReads
  <2>2. (s = "save" /\ toPy = "snapshot") \/ (s = "cold" /\ toPy = "cold_memory")
    BY <1>3
  <2> HIDE DEF s
  <2>3. py' \in Processes /\ py'.st = s /\ py'.ns = py.ns /\ py'.ck = py.ck
    BY <2>1, <2>2, Pythons DEF Processes
  <2>4. ChannelInv(cell, queue, host, py, toPy, toHost)'
    BY <1>1, <1>3, <2>2, <2>3, Pythons DEF ChannelInv, Executes, SavesNow, Cools, Heads, None
  <2> QED BY <1>1, <2>2, <2>3, <2>4, Pythons, PythonMoves DEF None
<1> QED BY <1>1, <1>2, <1>3, Pythons

LEMMA ColdEndsStep ==
  ASSUME KernelInv, ColdEnds
  PROVE  KernelInv'
<1>1. /\ UNCHANGED <<cell, queue, host, toPy, disk, orphan, results, after, acked, report>>
      /\ py.st = "cold" /\ py' = [py EXCEPT !.st = "idle"]
      /\ toHost' = [type |-> "cold_memory_done", ok |-> TRUE]
  BY DEF ColdEnds
<1>2. py' \in Processes /\ py'.st = "idle" /\ py'.ns = py.ns /\ py'.ck = py.ck
  BY <1>1, Pythons DEF Processes
<1>3. toHost' \in Frames /\ toHost'.type = "cold_memory_done"
  BY <1>1, FramesAre
<1>4. ChannelInv(cell, queue, host, py, toPy, toHost)' /\ toPy = None
  BY <1>1, <1>2, <1>3, Pythons DEF ChannelInv, Executes, SavesNow, Cools, Heads
<1> QED BY <1>1, <1>2, <1>3, <1>4, Pythons, PythonMoves DEF None

\* A save begins, places its directory, or ends one way or the other.
LEMMA SaveSteps ==
  ASSUME KernelInv, SaveMoves \/ SavePlaces \/ SaveEnds \/ SaveFails
  PROVE  KernelInv'
<1>1. /\ UNCHANGED <<cell, queue, host, toPy, orphan, results, after, acked, report>>
      /\ py.st \in {"save", "moved", "placed"}
  BY DEF SaveMoves, SavePlaces, SaveEnds, SaveFails
<1>2. ~IsSnapshot(Absent) /\ ~IsSnapshot(Config) /\ Absent \in Directories
  BY Places DEF Directories
<1>3. /\ disk' \in [cur : Directories, prev : Directories]
      /\ Keeps(disk'.cur, after) /\ Keeps(disk'.prev, after)
  <2>1. CASE disk' = disk
    BY <2>1, Pythons
  <2>2. CASE SaveMoves
    BY <1>2, <2>2, Pythons, Shifts DEF SaveMoves, Keeps
  <2>3. CASE SaveEnds
    BY <1>2, <2>3, Pythons DEF SaveEnds, Keeps
  <2>4. CASE SaveFails
    BY <1>2, <2>4, Pythons, Shifts DEF SaveFails, Keeps
  <2>5. CASE SavePlaces /\ disk.cur = Absent
    <3> DEFINE s == Snapshot(py.ns, py.ck)
    <3>1. s \in Directories /\ s.ns = py.ns /\ s.ck = py.ck
      BY Pythons, Places DEF Directories
    <3>2. disk' = [disk EXCEPT !.cur = s]
      BY <2>5 DEF SavePlaces
    <3> HIDE DEF s
    <3> QED BY <1>1, <3>1, <3>2, Pythons DEF Keeps
  <2> QED BY <2>1, <2>2, <2>3, <2>4, <2>5 DEF SavePlaces
<1>4. /\ py' \in Processes /\ py'.ns = py.ns /\ py'.ck = py.ck
      /\ \/ py'.st \in {"moved", "placed"} /\ toHost' = toHost
         \/ py'.st = "idle" /\ \E b \in BOOLEAN : toHost' = [type |-> "snapshot_done", ok |-> b]
  <2>1. Holds(disk) \in BOOLEAN
    BY DEF Holds
  <2>2. CASE SaveMoves
    BY <2>1, <2>2, Pythons DEF SaveMoves, Processes
  <2>3. CASE SavePlaces
    <3>1. \/ py' = [py EXCEPT !.st = "placed"] /\ toHost' = toHost
          \/ py' = [py EXCEPT !.st = "idle"] /\ toHost' = [type |-> "snapshot_done", ok |-> FALSE]
      BY <2>3 DEF SavePlaces
    <3> QED BY <3>1, Pythons DEF Processes
  <2>4. CASE SaveEnds
    BY <2>4, Pythons DEF SaveEnds, Processes
  <2>5. CASE SaveFails
    BY <2>5, Pythons DEF SaveFails, Processes
  <2> QED BY <2>2, <2>3, <2>4, <2>5
<1>5. /\ toHost' \in Frames
      /\ \/ py'.st \in {"moved", "placed"} /\ toHost' = toHost
         \/ py'.st = "idle" /\ toHost'.type = "snapshot_done"
  BY <1>4, FramesAre, Pythons
<1>6. ChannelInv(cell, queue, host, py, toPy, toHost)' /\ toPy = None
  BY <1>1, <1>5, Pythons DEF ChannelInv, Executes, SavesNow, Cools, Heads
<1> QED BY <1>1, <1>3, <1>4, <1>5, <1>6, Pythons, PythonMoves DEF None

\* The process ends.
LEMMA DeathSteps ==
  ASSUME KernelInv, Dies \/ CloseShuts
  PROVE  KernelInv'
<1>1. /\ UNCHANGED <<cell, queue, host, toHost, disk, orphan, results, after, acked, report>>
      /\ py' = [py EXCEPT !.st = "dead"] /\ toPy' = None
  BY DEF Dies, CloseShuts
<1>2. py' \in Processes /\ py'.st = "dead"
  BY <1>1, Pythons DEF Processes
<1>3. ChannelInv(cell, queue, host, py, toPy, toHost)'
  BY <1>1, <1>2, Pythons DEF ChannelInv, Executes, SavesNow, Cools, Heads, None
<1> QED BY <1>1, <1>2, <1>3, Pythons, PythonMoves DEF None

-----------------------------------------------------------------------------
(* Steps of the tail. *)

LEMMA Settles ==
  ASSUME KernelInv, NEW c \in Cells, NEW ok \in BOOLEAN
  PROVE  /\ Settled(c, ok) \in [Cells -> CellRecords] /\ Settled(c, ok)[c].st = "settled"
         /\ \A e \in Cells : e # c => Settled(c, ok)[e] = cell[e]
<1>1. cell \in [Cells -> CellRecords]
  BY DEF KernelInv, KernelTypeOK
<1> QED BY <1>1 DEF Settled, CellRecords

\* The names stay when neither a namespace nor a place of one changes.
LEMMA NamesKept ==
  ASSUME KernelInv, UNCHANGED <<disk, orphan, after, report>>, py' = py \/ py'.st \in {"none", "boot", "dead"},
         host'.kernel \in {"none", "launching"} /\ toHost'.type = "ready" =>
           host.kernel \in {"none", "launching"} /\ toHost.type = "ready" /\ py'.ns = py.ns /\ py'.ck = py.ck,
         queue' = queue \/ py'.st # "cell", toPy' = "execute" => after[Head(queue')] = {},
         \A e \in Cells : cell'[e].st \in {"new", "queued", "starting"} => cell[e].st \in {"new", "queued", "starting"}
  PROVE  NamesInv(cell, queue, host, py, toPy, toHost, disk, orphan, after, report)'
<1>1. Keeps(disk.cur, after)' /\ Keeps(disk.prev, after)'
  BY DEF KernelInv, NamesInv, Keeps, Named, IsSnapshot
<1>2. \A e \in Cells : (cell[e].st \in {"new", "queued", "starting"} => after[e] = {})'
  BY DEF KernelInv, NamesInv
<1> QED BY <1>1, <1>2 DEF KernelInv, NamesInv, Named

\* The head leaves the tail, its command is answered or gone.
LEMMA Pops ==
  ASSUME KernelInv, queue # <<>>, queue' = Tail(queue), cell' \in [Cells -> CellRecords],
         Head(queue) \in Cells => cell'[Head(queue)].st = "settled",
         \A e \in Cells : e # Head(queue) => cell'[e] = cell[e],
         host' \in Hosts, ~host'.sent, host'.kernel = host.kernel,
         py' \in Processes, py' = py \/ py'.st = "none", py'.st \in {"none", "idle", "dead"},
         toPy' = None, toHost' \in Frames, toHost'.type \in {None, "ready"}, py'.st = "none" => toHost'.type = None,
         UNCHANGED <<disk, orphan, results, after, report>>, acked' \in {Absent} \cup Snapshots
  PROVE  KernelInv'
<1>1. queue' \in Seq(Cells \cup {"snap", "cold", "final"})
  BY Fronts DEF KernelInv
<1>2. KernelTypeOK'
  BY <1>1 DEF KernelInv, KernelTypeOK
<1>3. TailInv(cell, queue, host)'
  BY DEF KernelInv, TailInv
<1>4. ChannelInv(cell, queue, host, py, toPy, toHost)'
  BY DEF ChannelInv, Executes, SavesNow, Cools, None
<1>5. NamesInv(cell, queue, host, py, toPy, toHost, disk, orphan, after, report)'
  <2>1. \A e \in Cells : cell'[e].st \in {"new", "queued", "starting"} => cell[e].st \in {"new", "queued", "starting"}
    OBVIOUS
  <2>2. host'.kernel \notin {"none", "launching"}
    BY DEF KernelInv, TailInv
  <2> QED BY <2>1, <2>2, NamesKept DEF None
<1> QED BY <1>2, <1>3, <1>4, <1>5 DEF KernelInv

\* The head of the tail gets on.
LEMMA Proceeds ==
  ASSUME KernelInv, FrontCell, queue' = queue, cell' \in [Cells -> CellRecords],
         \A e \in Cells : e # Front => cell'[e] = cell[e],
         cell'[Front].st \in {"starting", "running", "draining", "saving"},
         cell'[Front].st = "starting" => cell[Front].st = "queued",
         host' \in Hosts, host'.kernel = host.kernel, host'.sent => cell'[Front].st \in {"running", "saving"},
         py' = py, toPy' \in {None, "execute", "snapshot", "cold_memory"}, toHost' \in Frames,
         ChannelInv(cell, queue, host, py, toPy, toHost)', toPy' = "execute" => after[Front] = {},
         UNCHANGED <<disk, orphan, results, after, acked, report>>
  PROVE  KernelInv'
<1>1. queue # <<>> /\ Front = Head(queue) /\ Front \in Cells
  BY Fronts DEF KernelInv
<1>2. KernelTypeOK'
  BY DEF KernelInv, KernelTypeOK
<1>3. TailInv(cell, queue, host)'
  BY <1>1 DEF KernelInv, TailInv
<1>4. NamesInv(cell, queue, host, py, toPy, toHost, disk, orphan, after, report)'
  <2>1. \A e \in Cells : cell'[e].st \in {"new", "queued", "starting"} => cell[e].st \in {"new", "queued", "starting"}
    OBVIOUS
  <2>2. host'.kernel \notin {"none", "launching"}
    BY <1>1 DEF KernelInv, TailInv
  <2> QED BY <1>1, <2>1, <2>2, NamesKept
<1> QED BY <1>2, <1>3, <1>4 DEF KernelInv

\* An operation joins the tail.
LEMMA Joins ==
  ASSUME KernelInv, NEW x \in Cells \cup {"snap", "cold", "final"}, queue' = Append(queue, x), host.kernel = "open",
         cell' \in [Cells -> CellRecords],
         \A e \in Cells : cell'[e] = cell[e] \/ (cell[e].st = "new" /\ cell'[e].st = "queued"),
         host' \in Hosts, host'.kernel = host.kernel, host'.sent = host.sent,
         UNCHANGED <<py, toPy, toHost, disk, orphan, results, after, acked, report>>
  PROVE  KernelInv'
<1>1. /\ queue \in Seq(Cells \cup {"snap", "cold", "final"})
      /\ queue' \in Seq(Cells \cup {"snap", "cold", "final"}) /\ queue' # <<>>
      /\ Head(queue') = IF queue = <<>> THEN x ELSE Head(queue)
  BY Tails DEF KernelInv, KernelTypeOK
<1>2. KernelTypeOK'
  BY <1>1 DEF KernelInv, KernelTypeOK
<1>3. TailInv(cell, queue, host)'
  BY <1>1 DEF KernelInv, TailInv
<1>4. ChannelInv(cell, queue, host, py, toPy, toHost)'
  <2>1. CASE queue = <<>>
    <3>1. ~host.sent
      BY <2>1 DEF KernelInv, TailInv
    <3>2. /\ toPy = None /\ toHost.type \in {None, "ready"} /\ py.st \in {"none", "idle", "dead"}
          /\ py.st = "none" => toHost.type = None
      BY <2>1, <3>1, Pythons DEF ChannelInv, Heads
    <3> QED BY <3>2 DEF ChannelInv, Executes, SavesNow, Cools, None
  <2>2. CASE queue # <<>>
    <3>1. Head(queue') = Head(queue)
      BY <1>1, <2>2
    <3>2. Head(queue) \in Cells /\ cell[Head(queue)].st \in {"starting", "running", "saving"}
            => cell'[Head(queue)].st = cell[Head(queue)].st
      OBVIOUS
    <3> QED BY <1>1, <2>2, <3>1, <3>2, Pythons DEF ChannelInv, Executes, SavesNow, Cools, Heads
  <2> QED BY <2>1, <2>2
<1>5. NamesInv(cell, queue, host, py, toPy, toHost, disk, orphan, after, report)'
  <2>1. \A e \in Cells : cell'[e].st \in {"new", "queued", "starting"} => cell[e].st \in {"new", "queued", "starting"}
    OBVIOUS
  <2>2. toPy = "execute" \/ py.st = "cell" => Head(queue') = Head(queue) /\ after[Head(queue)] = {}
    BY <1>1, Pythons DEF ChannelInv, Executes, Heads
  <2>3. Keeps(disk.cur, after)' /\ Keeps(disk.prev, after)'
    BY DEF KernelInv, NamesInv, Keeps, Named, IsSnapshot
  <2>4. \A e \in Cells : (cell[e].st \in {"new", "queued", "starting"} => after[e] = {})'
    BY <2>1 DEF KernelInv, NamesInv
  <2> QED BY <2>2, <2>3, <2>4 DEF KernelInv, NamesInv, Named
<1> QED BY <1>2, <1>3, <1>4, <1>5 DEF KernelInv

\* An operation other than a call sends its command.
LEMMA Sends ==
  ASSUME KernelInv, queue' \in Seq(Cells \cup {"snap", "cold", "final"}), queue' # <<>>, Head(queue') \notin Cells,
         queue' = queue \/ queue = <<>>,
         ~host.sent, host.kernel \notin {"none", "launching"}, py.st # "boot",
         host' \in Hosts, host'.kernel = host.kernel,
         toPy' \in {None, "snapshot", "cold_memory"}, toPy' # None => py.st = "idle",
         toPy' = "cold_memory" => Head(queue') = "cold", host'.sent,
         UNCHANGED <<cell, py, toHost, disk, orphan, results, after, acked, report>>
  PROVE  KernelInv'
<1>1. KernelTypeOK'
  BY DEF KernelInv, KernelTypeOK
<1>2. TailInv(cell, queue, host)'
  BY DEF KernelInv, TailInv
<1>3. /\ toHost.type \in {None, "ready"} /\ py.st \in {"none", "idle", "dead"}
      /\ py.st = "none" => toHost.type = None
  BY Pythons DEF ChannelInv
<1>4. ChannelInv(cell, queue, host, py, toPy, toHost)'
  BY <1>3 DEF ChannelInv, Executes, SavesNow, Cools, Heads, None
<1>5. NamesInv(cell, queue, host, py, toPy, toHost, disk, orphan, after, report)'
  BY <1>3, NamesKept DEF None
<1> QED BY <1>1, <1>2, <1>4, <1>5 DEF KernelInv

\* The channel is free while no command is under way.
LEMMA Free ==
  ASSUME KernelInv, ~host.sent
  PROVE  /\ toPy = None /\ toHost.type \in {None, "ready"} /\ py.st \in {"none", "boot", "idle", "dead"}
         /\ py.st \in {"none", "boot"} => toHost.type = None
  BY Pythons DEF ChannelInv

\* The head of the tail and its stage.
LEMMA Stages ==
  ASSUME KernelInv, FrontCell
  PROVE  /\ Front \in Cells /\ Front = Head(queue) /\ queue # <<>>
         /\ cell \in [Cells -> CellRecords] /\ host \in Hosts
         /\ host.kernel \notin {"none", "launching"}
         /\ cell[Front].st \notin {"running", "saving"} => host.sent = FALSE
         /\ py.st = "boot" => cell[Front].st = "starting"
<1>1. Front \in Cells /\ Front = Head(queue) /\ queue # <<>>
  BY Fronts DEF KernelInv
<1>2. cell \in [Cells -> CellRecords] /\ host \in Hosts /\ host.sent \in BOOLEAN
  BY DEF KernelInv, KernelTypeOK, Hosts
<1>3. host.kernel \notin {"none", "launching"} /\ (cell[Front].st \notin {"running", "saving"} => ~host.sent)
  BY <1>1 DEF KernelInv, TailInv
<1>4. py.st = "boot" => cell[Front].st = "starting"
  BY <1>1, <1>3, Pythons DEF ChannelInv, Heads
<1> QED BY <1>1, <1>2, <1>3, <1>4

\* A call that is not admitted, or whose process is gone, is refused.
LEMMA Refuses ==
  ASSUME KernelInv, FrontCell, Refuse(Front), cell[Front].st \notin {"running", "saving"}, py.st # "boot",
         UNCHANGED <<host, py, toPy, toHost, disk, orphan, results, after, acked, report>>
  PROVE  KernelInv'
<1>1. cell' = Settled(Front, FALSE) /\ queue' = Tail(queue)
  BY DEF Refuse
<1>2. /\ toPy = None /\ toHost.type \in {None, "ready"} /\ py.st \in {"none", "idle", "dead"}
      /\ py.st = "none" => toHost.type = None
  BY Stages, Free
<1>3. py \in Processes /\ toHost \in Frames /\ acked \in {Absent} \cup Snapshots
  BY DEF KernelInv, KernelTypeOK
<1> DEFINE c == Front
<1>4. c \in Cells /\ c = Head(queue) /\ queue # <<>> /\ host \in Hosts /\ ~host.sent
  BY Stages
<1>5. /\ cell' \in [Cells -> CellRecords] /\ cell'[c].st = "settled"
      /\ \A e \in Cells : e # c => cell'[e] = cell[e]
  BY <1>1, <1>4, Settles
<1> HIDE DEF c
<1> QED BY <1>1, <1>2, <1>3, <1>4, <1>5, Pops

LEMMA SubmitStep ==
  ASSUME KernelInv, NEW c \in Cells, NEW m \in Modes, Submit(c, m)
  PROVE  KernelInv'
<1> DEFINE n == host.epoch
<1>1. /\ cell[c].st = "new" /\ host.kernel = "open" /\ queue' = Append(queue, c)
      /\ cell' = [cell EXCEPT ![c].st = "queued", ![c].mode = m, ![c].epoch = n]
      /\ UNCHANGED <<host, py, toPy, toHost, disk, orphan, results, after, acked, report>>
  BY DEF Submit
<1>2. cell \in [Cells -> CellRecords] /\ host \in Hosts /\ m \in {"native", "plain"} /\ n \in Nat
  BY KernelAssumption DEF KernelInv, KernelTypeOK, Hosts
<1> HIDE DEF n
<1>3. cell'[c].st = "queued" /\ \A e \in Cells : e # c => cell'[e] = cell[e]
  BY <1>1, <1>2 DEF CellRecords
<1>4. cell' \in [Cells -> CellRecords]
  <2>1. \A r \in CellRecords : [r EXCEPT !.st = "queued", !.mode = m, !.epoch = n] \in CellRecords
    BY <1>2 DEF CellRecords
  <2> QED BY <1>1, <1>2, <2>1
<1> QED BY <1>1, <1>2, <1>3, <1>4, Joins

LEMMA TimerFiresStep ==
  ASSUME KernelInv, TimerFires
  PROVE  KernelInv'
<1>1. /\ host.kernel = "open" /\ queue' = Append(queue, "snap") /\ host' = [host EXCEPT !.timer = FALSE]
      /\ UNCHANGED <<cell, py, toPy, toHost, disk, orphan, results, after, acked, report>>
  BY DEF TimerFires
<1>2. cell \in [Cells -> CellRecords] /\ host \in Hosts
  BY DEF KernelInv, KernelTypeOK
<1>3. host' \in Hosts /\ host'.kernel = host.kernel /\ host'.sent = host.sent
  BY <1>1, <1>2 DEF Hosts
<1> QED BY <1>1, <1>2, <1>3, Joins

LEMMA AdmitStep ==
  ASSUME KernelInv, Admit
  PROVE  KernelInv'
<1>1. /\ FrontCell /\ cell[Front].st = "queued"
      /\ UNCHANGED <<host, py, toPy, toHost, disk, orphan, results, after, acked, report>>
  BY DEF Admit
<1>2. CASE NotAdmitted(Front)
  <2>1. Refuse(Front)
    BY <1>2 DEF Admit
  <2> QED BY <1>1, <2>1, Stages, Refuses
<1>3. CASE ~NotAdmitted(Front)
  <2> DEFINE c == Front
  <2>1. cell' = [cell EXCEPT ![c].st = "starting"] /\ queue' = queue
    BY <1>3 DEF Admit
  <2>2. c \in Cells /\ c = Head(queue) /\ queue # <<>> /\ cell \in [Cells -> CellRecords] /\ host \in Hosts /\ ~host.sent
    BY <1>1, Stages
  <2> HIDE DEF c
  <2>3. /\ cell' \in [Cells -> CellRecords] /\ cell'[c].st = "starting"
        /\ \A e \in Cells : e # c => cell'[e] = cell[e]
    BY <2>1, <2>2 DEF CellRecords
  <2>4. /\ toPy = None /\ toHost.type \in {None, "ready"} /\ py.st \in {"none", "idle", "dead"}
        /\ py.st = "none" => toHost.type = None
    BY <1>1, Stages, Free
  <2>5. ChannelInv(cell, queue, host, py, toPy, toHost)'
    BY <1>1, <2>1, <2>4 DEF ChannelInv, Executes, SavesNow, Cools, None
  <2>6. toPy' # "execute"
    BY <1>1, <2>4 DEF None
  <2> QED BY <1>1, <2>1, <2>2, <2>3, <2>5, <2>6, Pythons, Proceeds DEF c
<1> QED BY <1>2, <1>3

LEMMA BeginsStep ==
  ASSUME KernelInv, Begin
  PROVE  KernelInv'
<1>1. /\ FrontCell /\ cell[Front].st = "starting" /\ py.st \notin {"none", "boot"}
      /\ UNCHANGED <<py, toHost, disk, orphan, results, after, acked, report>>
  BY DEF Begin
<1>2. CASE NotAdmitted(Front)
  <2>1. Refuse(Front) /\ UNCHANGED <<host, toPy>>
    BY <1>2 DEF Begin
  <2> QED BY <1>1, <2>1, Stages, Refuses
<1>3. CASE ~NotAdmitted(Front)
  <2> DEFINE c == Front
             n == host.generation + 1
  <2>1. /\ cell' = [cell EXCEPT ![c].st = "running"] /\ queue' = queue
        /\ host' = [host EXCEPT !.sent = TRUE, !.generation = n]
        /\ toPy' = IF Alive THEN "execute" ELSE None
    BY <1>3 DEF Begin
  <2>2. /\ c \in Cells /\ c = Head(queue) /\ queue # <<>> /\ cell \in [Cells -> CellRecords] /\ host \in Hosts
        /\ ~host.sent
    BY <1>1, Stages
  <2>3. n \in Nat
    BY <2>2 DEF Hosts
  <2> HIDE DEF c, n
  <2>4. /\ cell' \in [Cells -> CellRecords] /\ cell'[c].st = "running"
        /\ \A e \in Cells : e # c => cell'[e] = cell[e]
    BY <2>1, <2>2 DEF CellRecords
  <2>5. host' \in Hosts /\ host'.kernel = host.kernel /\ host'.sent
    BY <2>1, <2>2, <2>3 DEF Hosts
  <2>6. toHost.type \in {None, "ready"} /\ py.st \in {"idle", "dead"}
    BY <1>1, <2>2, Free
  <2>7. ChannelInv(cell, queue, host, py, toPy, toHost)'
    BY <1>1, <2>1, <2>2, <2>4, <2>5, <2>6 DEF ChannelInv, Executes, SavesNow, Cools, Heads, None
  <2>8. after[c] = {}
    BY <1>1, <2>2 DEF KernelInv, NamesInv, c
  <2> QED BY <1>1, <2>1, <2>2, <2>4, <2>5, <2>7, <2>8, Pythons, Proceeds DEF c
<1> QED BY <1>2, <1>3

LEMMA StartLostStep ==
  ASSUME KernelInv, StartLost
  PROVE  KernelInv'
  BY Refuses DEF StartLost

LEMMA DoneStep ==
  ASSUME KernelInv, Done
  PROVE  KernelInv'
<1> DEFINE c == Front
           b == toHost.ok
<1>1. /\ FrontCell /\ toHost.type = "done" /\ cell[c].st = "running"
      /\ cell' = [cell EXCEPT ![c].st = "draining", ![c].ok = b]
      /\ host' = [host EXCEPT !.sent = FALSE, !.killFor = None] /\ toHost' = NoFrame
      /\ UNCHANGED <<queue, py, toPy, disk, orphan, results, after, acked, report>>
  BY DEF Done
<1>2. c \in Cells /\ c = Head(queue) /\ cell \in [Cells -> CellRecords] /\ host \in Hosts /\ b \in BOOLEAN
  BY <1>1, Stages, Pythons, FramesAre
<1> HIDE DEF c, b
<1>3. /\ cell' \in [Cells -> CellRecords] /\ cell'[c].st = "draining"
      /\ \A e \in Cells : e # c => cell'[e] = cell[e]
  BY <1>1, <1>2 DEF CellRecords
<1>4. host' \in Hosts /\ host'.kernel = host.kernel /\ ~host'.sent
  BY <1>1, <1>2 DEF Hosts, Names
<1>5. toPy = None /\ py.st \in {"none", "idle", "dead"}
  <2>1. toPy = None /\ py.st \notin {"cell", "cold", "save", "moved", "placed"}
    BY <1>1, Pythons DEF ChannelInv, None
  <2>2. py.st # "boot"
    BY <1>1, Stages DEF c
  <2> QED BY <2>1, <2>2, Pythons DEF Processes
<1>6. toHost' \in Frames /\ toHost'.type = None
  BY <1>1, FramesAre
<1>7. ChannelInv(cell, queue, host, py, toPy, toHost)'
  BY <1>1, <1>5, <1>6 DEF ChannelInv, Executes, SavesNow, Cools, None
<1>8. toPy' # "execute"
  BY <1>1, <1>5 DEF None
<1> QED BY <1>1, <1>2, <1>3, <1>4, <1>6, <1>7, <1>8, Pythons, Proceeds DEF c

LEMMA DrainedStep ==
  ASSUME KernelInv, Drained
  PROVE  KernelInv'
<1> DEFINE c == Front
<1>1. /\ FrontCell /\ cell[c].st = "draining"
      /\ UNCHANGED <<py, toHost, disk, orphan, results, after, acked, report>>
  BY DEF Drained
<1>2. /\ c \in Cells /\ c = Head(queue) /\ queue # <<>> /\ cell \in [Cells -> CellRecords] /\ host \in Hosts
      /\ ~host.sent /\ host.kernel \notin {"none", "launching"} /\ py.st # "boot"
  BY <1>1, Stages
<1>3. /\ toPy = None /\ toHost.type \in {None, "ready"} /\ py.st \in {"none", "idle", "dead"}
      /\ py.st = "none" => toHost.type = None
  BY <1>2, Free
<1>4. CASE cell[c].mode = "native" /\ Running
  <2>1. /\ cell' = [cell EXCEPT ![c].st = "saving"] /\ host' = [host EXCEPT !.sent = TRUE]
        /\ toPy' = (IF Alive THEN "snapshot" ELSE None) /\ queue' = queue
    BY <1>4 DEF Drained
  <2> HIDE DEF c
  <2>2. /\ cell' \in [Cells -> CellRecords] /\ cell'[c].st = "saving"
        /\ \A e \in Cells : e # c => cell'[e] = cell[e]
    BY <2>1, <1>2 DEF CellRecords
  <2>3. host' \in Hosts /\ host'.kernel = host.kernel /\ host'.sent
    BY <2>1, <1>2 DEF Hosts
  <2>4. ChannelInv(cell, queue, host, py, toPy, toHost)'
    BY <1>1, <1>2, <1>3, <1>4, <2>1, <2>2, <2>3 DEF ChannelInv, Executes, SavesNow, Cools, Heads, None, Alive, Running
  <2>5. toPy' # "execute"
    BY <2>1 DEF None
  <2> QED BY <1>1, <1>2, <2>1, <2>2, <2>3, <2>4, <2>5, Pythons, Proceeds DEF c
<1>5. CASE cell[c].mode = "native" /\ ~Running
  <2>1. Refuse(c) /\ UNCHANGED <<host, toPy>>
    BY <1>5 DEF Drained
  <2> QED BY <1>1, <1>2, <2>1, Refuses
<1>6. CASE cell[c].mode = "plain"
  <2> DEFINE b == cell[c].ok
             t == host.timer \/ (b /\ host.kernel = "open")
  <2>1. /\ cell' = Settled(c, b) /\ queue' = Tail(queue) /\ toPy' = toPy /\ host' = [host EXCEPT !.timer = t]
    BY <1>6 DEF Drained
  <2>2. b \in BOOLEAN /\ t \in BOOLEAN
    BY <1>2 DEF CellRecords, Hosts
  <2> HIDE DEF b, t, c
  <2>3. host' \in Hosts /\ ~host'.sent /\ host'.kernel = host.kernel
    BY <1>2, <2>1, <2>2 DEF Hosts
  <2>4. /\ cell' \in [Cells -> CellRecords] /\ cell'[c].st = "settled"
        /\ \A e \in Cells : e # c => cell'[e] = cell[e]
    BY <1>2, <2>1, <2>2, Settles
  <2>5. acked \in {Absent} \cup Snapshots
    BY DEF KernelInv, KernelTypeOK
  <2> QED BY <1>1, <1>2, <1>3, <2>1, <2>3, <2>4, <2>5, Pythons, Pops
<1>7. cell[c].mode \in {"native", "plain"}
  BY <1>2 DEF CellRecords
<1> QED BY <1>4, <1>5, <1>6, <1>7

\* The head of the tail after an answer to the command under way, settled if it is a call.
LEMMA Answered ==
  ASSUME KernelInv, queue # <<>>, NEW b \in BOOLEAN, cell' = IF FrontCell THEN Settled(Front, b) ELSE cell
  PROVE  /\ cell' \in [Cells -> CellRecords]
         /\ Head(queue) \in Cells => cell'[Head(queue)].st = "settled"
         /\ \A e \in Cells : e # Head(queue) => cell'[e] = cell[e]
<1>1. (FrontCell <=> Head(queue) \in Cells) /\ Front = Head(queue)
  BY Fronts DEF KernelInv
<1>2. cell \in [Cells -> CellRecords]
  BY DEF KernelInv, KernelTypeOK
<1>3. CASE FrontCell
  BY <1>1, <1>3, Settles
<1>4. CASE ~FrontCell
  BY <1>1, <1>2, <1>4
<1> QED BY <1>3, <1>4

LEMMA SnapshotDoneStep ==
  ASSUME KernelInv, SnapshotDone
  PROVE  KernelInv'
<1> DEFINE b == toHost.ok
           n == IF b THEN host.generation ELSE host.saved
<1>1. /\ toHost.type = "snapshot_done" /\ queue # <<>> /\ queue' = Tail(queue)
      /\ host' = [host EXCEPT !.sent = FALSE, !.saved = n]
      /\ cell' = IF FrontCell THEN Settled(Front, b) ELSE cell
      /\ acked' = IF FrontCell /\ b THEN Snapshot(after[Front], Front) ELSE acked
      /\ toHost' = NoFrame
      /\ UNCHANGED <<py, toPy, disk, orphan, results, after, report>>
  BY DEF SnapshotDone
<1>2. host \in Hosts /\ acked \in {Absent} \cup Snapshots /\ after \in [Cells -> SUBSET Cells]
  BY DEF KernelInv, KernelTypeOK
<1>3. b \in BOOLEAN
  BY <1>1, Pythons, FramesAre
<1>4. n \in Nat
  BY <1>2 DEF Hosts
<1> HIDE DEF b, n
<1>5. host' \in Hosts /\ ~host'.sent /\ host'.kernel = host.kernel
  BY <1>1, <1>2, <1>4 DEF Hosts
<1>6. /\ cell' \in [Cells -> CellRecords]
      /\ Head(queue) \in Cells => cell'[Head(queue)].st = "settled"
      /\ \A e \in Cells : e # Head(queue) => cell'[e] = cell[e]
  BY <1>1, <1>3, Answered
<1>7. acked' \in {Absent} \cup Snapshots
  <2>1. CASE FrontCell /\ b
    <3>1. Front \in Cells /\ Front \in Names /\ after[Front] \in SUBSET Cells
      BY <1>2, <2>1, Stages DEF Names
    <3> QED BY <1>1, <2>1, <3>1, Places
  <2> QED BY <1>1, <1>2, <2>1
<1>8. toPy = None /\ py.st \in {"none", "idle", "dead"}
  <2>1. toPy = None /\ py.st \notin {"cell", "cold", "save", "moved", "placed"}
    BY <1>1, Pythons DEF ChannelInv, None
  <2>2. Head(queue) \in Cells => cell[Head(queue)].st = "saving"
    BY <1>1, Pythons DEF ChannelInv, SavesNow
  <2>3. py.st # "boot"
    BY <1>1, <2>2, Pythons DEF ChannelInv, Heads, KernelInv, TailInv
  <2> QED BY <2>1, <2>3, Pythons DEF Processes
<1> QED BY <1>1, <1>5, <1>6, <1>7, <1>8, FramesAre, Pythons, Pops

LEMMA ColdDoneStep ==
  ASSUME KernelInv, ColdDone
  PROVE  KernelInv'
<1>1. /\ toHost.type = "cold_memory_done" /\ queue' = Tail(queue)
      /\ host' = [host EXCEPT !.sent = FALSE] /\ toHost' = NoFrame
      /\ UNCHANGED <<cell, py, toPy, disk, orphan, results, after, acked, report>>
  BY DEF ColdDone
<1>2. host \in Hosts /\ acked \in {Absent} \cup Snapshots /\ cell \in [Cells -> CellRecords]
  BY DEF KernelInv, KernelTypeOK
<1>3. host' \in Hosts /\ ~host'.sent /\ host'.kernel = host.kernel
  BY <1>1, <1>2 DEF Hosts
<1>4. queue # <<>> /\ Head(queue) \notin Cells
  BY <1>1, Pythons, Fronts DEF ChannelInv, Cools, KernelInv
<1>5. toPy = None /\ py.st \in {"none", "idle", "dead"}
  <2>1. toPy = None /\ py.st \notin {"cell", "cold", "save", "moved", "placed"}
    BY <1>1, Pythons DEF ChannelInv, None
  <2>2. py.st # "boot"
    BY <1>4, Pythons DEF ChannelInv, Heads, KernelInv, TailInv
  <2> QED BY <2>1, <2>2, Pythons DEF Processes
<1> QED BY <1>1, <1>2, <1>3, <1>4, <1>5, FramesAre, Pythons, Pops

LEMMA SnapBeginsStep ==
  ASSUME KernelInv, SnapBegins
  PROVE  KernelInv'
<1>1. /\ Front = "snap" /\ ~host.sent
      /\ UNCHANGED <<cell, py, toHost, disk, orphan, results, after, acked, report>>
  BY DEF SnapBegins
<1>2. queue # <<>> /\ Head(queue) = "snap" /\ "snap" \notin Cells
  BY <1>1, Fronts DEF KernelInv, Front, None
<1>3. /\ host \in Hosts /\ acked \in {Absent} \cup Snapshots /\ cell \in [Cells -> CellRecords]
      /\ queue \in Seq(Cells \cup {"snap", "cold", "final"}) /\ host.kernel \notin {"none", "launching"}
  BY <1>2 DEF KernelInv, KernelTypeOK, TailInv
<1>4. /\ toPy = None /\ toHost.type \in {None, "ready"} /\ py.st \in {"none", "idle", "dead"}
      /\ py.st = "none" => toHost.type = None
  BY <1>1, <1>2, <1>3, Free, Pythons DEF ChannelInv, Heads
<1>5. CASE Running /\ Dirty
  <2>1. host' = [host EXCEPT !.sent = TRUE] /\ toPy' = (IF Alive THEN "snapshot" ELSE None) /\ queue' = queue
    BY <1>5 DEF SnapBegins
  <2>2. host' \in Hosts /\ host'.sent /\ host'.kernel = host.kernel
    BY <1>3, <2>1 DEF Hosts
  <2>3. toPy' \in {None, "snapshot"} /\ (toPy' # None => py.st = "idle")
    BY <1>4, <2>1 DEF Alive
  <2> QED BY <1>1, <1>2, <1>3, <1>4, <2>1, <2>2, <2>3, Sends DEF None
<1>6. CASE ~(Running /\ Dirty)
  <2>1. queue' = Tail(queue) /\ UNCHANGED <<host, toPy>>
    BY <1>6 DEF SnapBegins
  <2> QED BY <1>1, <1>2, <1>3, <1>4, <2>1, Pythons, Pops
<1> QED BY <1>5, <1>6

\* Cold advice, and the last save of a kernel that closes.
LEMMA OwnCommands ==
  ASSUME KernelInv, ColdStep \/ CloseSaves
  PROVE  KernelInv'
<1>1. /\ queue = <<>> /\ host.kernel \in {"open", "closing"}
      /\ UNCHANGED <<cell, py, toHost, disk, orphan, results, after, acked, report>>
      /\ \/ queue' = <<"cold">> /\ toPy' = (IF Alive THEN "cold_memory" ELSE None)
         \/ queue' = <<"final">> /\ toPy' = (IF Alive THEN "snapshot" ELSE None)
      /\ host' = [host EXCEPT !.sent = TRUE] \/ host' = [host EXCEPT !.sent = TRUE, !.snapshot = FALSE]
  BY DEF ColdStep, CloseSaves
<1>2. /\ host \in Hosts /\ ~host.sent
  BY <1>1 DEF KernelInv, KernelTypeOK, TailInv
<1>3. py.st \in {"none", "idle", "dead"}
  BY <1>1, <1>2, Free, Pythons DEF ChannelInv, Heads
<1>4. host' \in Hosts /\ host'.sent /\ host'.kernel = host.kernel
  BY <1>1, <1>2 DEF Hosts
<1>5. toPy' \in {None, "snapshot", "cold_memory"} /\ (toPy' # None => py.st = "idle")
  BY <1>1, <1>3 DEF Alive
<1>6. /\ queue' \in Seq(Cells \cup {"snap", "cold", "final"}) /\ queue' # <<>> /\ Head(queue') \notin Cells
      /\ toPy' = "cold_memory" => Head(queue') = "cold"
  <2>1. /\ <<"cold">> \in Seq(Cells \cup {"snap", "cold", "final"}) /\ <<"cold">> # <<>> /\ Head(<<"cold">>) = "cold"
        /\ <<"final">> \in Seq(Cells \cup {"snap", "cold", "final"}) /\ <<"final">> # <<>> /\ Head(<<"final">>) = "final"
    OBVIOUS
  <2>2. "cold" \notin Cells /\ "final" \notin Cells
    BY Fronts DEF KernelInv
  <2> QED BY <1>1, <2>1, <2>2 DEF None
<1> QED BY <1>1, <1>2, <1>3, <1>4, <1>5, <1>6, Sends

LEMMA CloseEndsStep ==
  ASSUME KernelInv, CloseEnds
  PROVE  KernelInv'
<1>1. /\ queue = <<>> /\ ~Running /\ host' = NoObject
      /\ UNCHANGED <<cell, queue, py, toPy, toHost, disk, orphan, results, after, acked, report>>
  BY DEF CloseEnds
<1>2. KernelTypeOK'
  BY <1>1, NothingIs DEF KernelInv, KernelTypeOK
<1>3. TailInv(cell, queue, host)'
  BY <1>1, NothingIs DEF KernelInv, TailInv
<1>4. /\ toPy = None /\ toHost.type \in {None, "ready"} /\ py.st \in {"none", "boot", "idle", "dead"}
      /\ py.st \in {"none", "boot"} => toHost.type = None
  BY <1>1, Free DEF KernelInv, TailInv
<1>5. ChannelInv(cell, queue, host, py, toPy, toHost)'
  BY <1>1, <1>4 DEF ChannelInv, Executes, SavesNow, Cools, None, Running
<1>6. NamesInv(cell, queue, host, py, toPy, toHost, disk, orphan, after, report)'
  BY <1>1, <1>4, NamesKept DEF None, Running
<1> QED BY <1>2, <1>3, <1>5, <1>6 DEF KernelInv

LEMMA KillTimerStep ==
  ASSUME KernelInv, KillTimer
  PROVE  KernelInv'
<1>1. /\ py' = [py EXCEPT !.st = "dead"] /\ toPy' = None /\ host' = [host EXCEPT !.killFor = None]
      /\ UNCHANGED <<cell, queue, toHost, disk, orphan, results, after, acked, report>>
  BY DEF KillTimer
<1>2. host \in Hosts
  BY DEF KernelInv, KernelTypeOK
<1>3. host' \in Hosts /\ host'.sent = host.sent /\ host'.kernel = host.kernel
  BY <1>1, <1>2 DEF Hosts, Names
<1>4. py' \in Processes /\ py'.st = "dead"
  BY <1>1, Pythons DEF Processes
<1>5. KernelTypeOK'
  BY <1>1, <1>3, <1>4 DEF KernelInv, KernelTypeOK
<1>6. TailInv(cell, queue, host)'
  BY <1>1, <1>3 DEF KernelInv, TailInv
<1>7. ChannelInv(cell, queue, host, py, toPy, toHost)'
  BY <1>1, <1>3, <1>4, Pythons DEF ChannelInv, Executes, SavesNow, Cools, Heads, None
<1>8. NamesInv(cell, queue, host, py, toPy, toHost, disk, orphan, after, report)'
  BY <1>1, <1>4, NamesKept DEF None
<1> QED BY <1>5, <1>6, <1>7, <1>8 DEF KernelInv

LEMMA ReadyStep ==
  ASSUME KernelInv, Ready
  PROVE  KernelInv'
<1> DEFINE s == [ns |-> py.ns, ck |-> py.ck]
<1>1. /\ toHost.type = "ready" /\ toHost' = NoFrame
      /\ UNCHANGED <<cell, queue, py, toPy, disk, orphan, results, after, acked>>
      /\ \/ host.kernel = "launching" /\ host' = [host EXCEPT !.kernel = "open"] /\ report' = Diagnostic(s)
         \/ UNCHANGED <<host, report>>
  BY DEF Ready
<1>2. /\ host \in Hosts /\ report \in Reports /\ results \in Seq(Cells)
      /\ report.match => report.expected # None /\ after[report.expected] # {} /\ report.ns = after[report.expected]
  BY DEF KernelInv, KernelTypeOK, NamesInv
<1>3. host' \in Hosts /\ host'.sent = host.sent /\ (host'.kernel = host.kernel \/ host'.kernel = "open")
  BY <1>1, <1>2 DEF Hosts
<1>4. /\ report' \in Reports
      /\ report'.match => report'.expected # None /\ after[report'.expected] # {} /\ report'.ns = after[report'.expected]
  <2>1. CASE UNCHANGED <<host, report>>
    BY <1>2, <2>1
  <2>2. CASE host.kernel = "launching" /\ report' = Diagnostic(s)
    <3> DEFINE e == Expected
    <3>1. e \in Names
      <4>1. results # <<>> => results[Len(results)] \in Cells
        BY <1>2
      <4> QED BY <4>1 DEF Expected, Names
    <3>2. Named(s.ns, s.ck, after) /\ s.ns \in SUBSET Cells
      BY <1>1, <2>2, Pythons
    <3>3. report' = [match |-> e # None /\ s.ck = e, expected |-> e, ns |-> s.ns]
      BY <2>2 DEF Diagnostic
    <3> HIDE DEF e, s
    <3> QED BY <3>1, <3>2, <3>3 DEF Reports, Named
  <2> QED BY <1>1, <2>1, <2>2
<1>5. toHost' \in Frames /\ toHost'.type = None
  BY <1>1, FramesAre
<1>6. KernelTypeOK'
  BY <1>1, <1>3, <1>4, <1>5 DEF KernelInv, KernelTypeOK
<1>7. TailInv(cell, queue, host)'
  BY <1>1, <1>3 DEF KernelInv, TailInv
<1>8. ChannelInv(cell, queue, host, py, toPy, toHost)'
  <2>1. py.st # "boot" /\ toPy' = toPy /\ host'.sent = host.sent
    BY <1>1, <1>3, Pythons DEF ChannelInv, None
  <2> QED BY <1>1, <1>5, <2>1, Pythons DEF ChannelInv, Executes, SavesNow, Cools, Heads, None
<1>9. NamesInv(cell, queue, host, py, toPy, toHost, disk, orphan, after, report)'
  <2>1. Keeps(disk.cur, after)' /\ Keeps(disk.prev, after)'
    BY <1>1 DEF KernelInv, NamesInv, Keeps, Named, IsSnapshot
  <2> QED BY <1>1, <1>4, <1>5, <2>1 DEF KernelInv, NamesInv, Named, None
<1> QED BY <1>6, <1>7, <1>8, <1>9 DEF KernelInv

LEMMA ExitStep ==
  ASSUME KernelInv, Exit
  PROVE  KernelInv'
<1> DEFINE n == host.epoch + 1
<1>1. /\ py' = NoProcess /\ toPy' = None /\ toHost' = NoFrame
      /\ host' = IF host.kernel = "launching" THEN NoObject
                 ELSE [host EXCEPT !.epoch = n, !.sent = FALSE, !.killFor = None]
      /\ UNCHANGED <<disk, orphan, results, after, acked, report>>
  BY DEF Exit
<1>2. host \in Hosts /\ acked \in {Absent} \cup Snapshots /\ cell \in [Cells -> CellRecords]
  BY DEF KernelInv, KernelTypeOK
<1>3. n \in Nat
  BY <1>2 DEF Hosts
<1> HIDE DEF n
<1>4. /\ host' \in Hosts /\ ~host'.sent /\ host'.kernel # "launching"
      /\ host.kernel # "launching" => host'.kernel = host.kernel
  <2>1. CASE host.kernel = "launching"
    BY <1>1, <2>1, NothingIs
  <2>2. CASE host.kernel # "launching"
    BY <1>1, <1>2, <1>3, <2>2 DEF Hosts, Names
  <2> QED BY <2>1, <2>2
<1>5. /\ py' \in Processes /\ py'.st = "none" /\ toHost' \in Frames /\ toHost'.type = None
  BY <1>1, NothingIs, FramesAre
<1>6. CASE Rejected
  <2>1. /\ queue # <<>> /\ host.kernel # "launching" /\ queue' = Tail(queue)
        /\ cell' = IF FrontCell THEN Settled(Front, FALSE) ELSE cell
    BY <1>6 DEF Exit, Rejected, KernelInv, TailInv
  <2>2. /\ cell' \in [Cells -> CellRecords]
        /\ Head(queue) \in Cells => cell'[Head(queue)].st = "settled"
        /\ \A e \in Cells : e # Head(queue) => cell'[e] = cell[e]
    BY <2>1, Answered
  <2> QED BY <1>1, <1>2, <1>4, <1>5, <2>1, <2>2, Pops
<1>7. CASE ~Rejected
  <2>1. UNCHANGED <<cell, queue>>
    BY <1>7 DEF Exit
  <2>2. KernelTypeOK'
    BY <1>1, <1>4, <1>5, <2>1 DEF KernelInv, KernelTypeOK
  <2>3. TailInv(cell, queue, host)'
    BY <1>4, <2>1 DEF KernelInv, TailInv
  <2>4. ChannelInv(cell, queue, host, py, toPy, toHost)'
    BY <1>1, <1>5 DEF ChannelInv, Executes, SavesNow, Cools, None
  <2>5. NamesInv(cell, queue, host, py, toPy, toHost, disk, orphan, after, report)'
    BY <1>1, <1>5, <2>1, NamesKept DEF None
  <2> QED BY <2>2, <2>3, <2>4, <2>5 DEF KernelInv
<1> QED BY <1>6, <1>7

\* A cell ends, or is interrupted, and leaves its namespace behind.
LEMMA Leaves ==
  ASSUME KernelInv, py.st = "cell", NEW c, c = Head(queue), NEW b \in BOOLEAN,
         py' = [py EXCEPT !.st = "idle", !.ns = @ \cup {c}], after' = [after EXCEPT ![c] = py.ns \cup {c}],
         toHost' = [type |-> "done", ok |-> b],
         cell' \in [Cells -> CellRecords], \A e \in Cells : cell'[e].st = cell[e].st,
         host' \in Hosts, host'.kernel = host.kernel, host'.sent = host.sent,
         UNCHANGED <<queue, toPy, disk, orphan, results, acked, report>>
  PROVE  KernelInv'
<1>1. Heads(cell, queue, "running") /\ toPy = None /\ after[c] = {} /\ py.ck \in {None, c}
  BY Pythons DEF ChannelInv, Executes, None
<1>2. c \in Cells /\ after \in [Cells -> SUBSET Cells] /\ py.ns \in SUBSET Cells
  BY <1>1, Pythons DEF Heads, KernelInv, KernelTypeOK
<1> DEFINE m == py.ns \cup {c}
<1>3. m \in SUBSET Cells /\ m # {}
  BY <1>2
<1>4. py' = [py EXCEPT !.st = "idle", !.ns = m] /\ after' = [after EXCEPT ![c] = m]
  OBVIOUS
<1> HIDE DEF m
<1>5. /\ py' \in Processes /\ py'.st = "idle" /\ py'.ns = m /\ py'.ck = py.ck
  BY <1>3, <1>4, Pythons DEF Processes
<1>6. after' \in [Cells -> SUBSET Cells] /\ after'[c] = m /\ \A e \in Cells : e # c => after'[e] = after[e]
  BY <1>2, <1>3, <1>4
<1>7. toHost' \in Frames /\ toHost'.type = "done"
  BY FramesAre
<1>8. KernelTypeOK'
  BY <1>5, <1>6, <1>7 DEF KernelInv, KernelTypeOK
<1>9. TailInv(cell, queue, host)'
  BY DEF KernelInv, TailInv
<1>10. ChannelInv(cell, queue, host, py, toPy, toHost)'
  BY <1>1, <1>2, <1>5, <1>7, Pythons DEF ChannelInv, Executes, SavesNow, Cools, Heads, None
<1>11. NamesInv(cell, queue, host, py, toPy, toHost, disk, orphan, after, report)'
  <2>1. ASSUME NEW n, NEW k \in Names, Named(n, k, after)
        PROVE  Named(n, k, after')
    BY <1>1, <1>6, <2>1 DEF Named, Names
  <2>2. Keeps(disk'.cur, after') /\ Keeps(disk'.prev, after')
    <3>1. \A d \in Directories : IsSnapshot(d) => d.ck \in Names
      BY Places DEF Directories
    <3>2. disk.cur \in Directories /\ disk.prev \in Directories
      BY Pythons
    <3> QED BY <2>1, <3>1, <3>2, Pythons DEF Keeps
  <2>3. orphan'.st # "none" => Named(orphan'.ns, orphan'.ck, after')
    <3>1. orphan.ck \in Names
      BY DEF KernelInv, KernelTypeOK, OrphanSaves
    <3> QED BY <2>1, <3>1 DEF KernelInv, NamesInv
  <2>4. report'.match => /\ report'.expected # None /\ after'[report'.expected] # {}
                         /\ report'.ns = after'[report'.expected]
    <3>1. report.expected \in Names
      BY DEF KernelInv, KernelTypeOK, Reports
    <3> QED BY <1>1, <1>6, <3>1 DEF KernelInv, NamesInv, Names
  <2>5. Named(py'.ns, py'.ck, after')
    BY <1>1, <1>3, <1>5, <1>6 DEF Named
  <2>6. \A e \in Cells : cell'[e].st \in {"new", "queued", "starting"} => after'[e] = {}
    BY <1>1, <1>6 DEF KernelInv, NamesInv, Heads
  <2> QED BY <1>1, <1>5, <1>7, <2>2, <2>3, <2>4, <2>5, <2>6 DEF NamesInv, None
<1> QED BY <1>8, <1>9, <1>10, <1>11 DEF KernelInv

LEMMA CellEndsStep ==
  ASSUME KernelInv, NEW ok \in BOOLEAN, CellEnds(ok)
  PROVE  KernelInv'
<1> DEFINE c == Front
<1>1. /\ py.st = "cell"
      /\ py' = [py EXCEPT !.st = "idle", !.ns = @ \cup {c}] /\ after' = [after EXCEPT ![c] = py.ns \cup {c}]
      /\ toHost' = [type |-> "done", ok |-> ok]
      /\ UNCHANGED <<cell, queue, host, toPy, disk, orphan, results, acked, report>>
  BY DEF CellEnds
<1>2. c = Head(queue)
  BY <1>1, Pythons, Fronts DEF ChannelInv, Executes, Heads, KernelInv
<1>3. cell \in [Cells -> CellRecords] /\ host \in Hosts
  BY DEF KernelInv, KernelTypeOK
<1> HIDE DEF c
<1> QED BY <1>1, <1>2, <1>3, Leaves

\* Something is remembered of a call and of its kernel; at most an idle process ends.
LEMMA Marks ==
  ASSUME KernelInv, cell' \in [Cells -> CellRecords], \A e \in Cells : cell'[e].st = cell[e].st,
         host' \in Hosts, host'.kernel = host.kernel, host'.sent = host.sent,
         py' \in Processes, py'.ns = py.ns, py'.ck = py.ck, py'.st = py.st \/ (py.st = "idle" /\ py'.st = "dead"),
         UNCHANGED <<queue, toPy, toHost, disk, orphan, results, after, acked, report>>
  PROVE  KernelInv'
<1>1. KernelTypeOK'
  BY DEF KernelInv, KernelTypeOK
<1>2. TailInv(cell, queue, host)'
  BY DEF KernelInv, TailInv
<1>3. ChannelInv(cell, queue, host, py, toPy, toHost)'
  BY Pythons DEF ChannelInv, Executes, SavesNow, Cools, Heads
<1>4. NamesInv(cell, queue, host, py, toPy, toHost, disk, orphan, after, report)'
  <2>1. Keeps(disk.cur, after)' /\ Keeps(disk.prev, after)'
    BY DEF KernelInv, NamesInv, Keeps, Named, IsSnapshot
  <2> QED BY <2>1 DEF KernelInv, NamesInv, Named
<1> QED BY <1>1, <1>2, <1>3, <1>4 DEF KernelInv

LEMMA CancelStep ==
  ASSUME KernelInv, NEW c \in Cells, Cancel(c)
  PROVE  KernelInv'
<1>1. /\ cell' = [cell EXCEPT ![c].cancelled = TRUE]
      /\ UNCHANGED <<queue, toPy, disk, orphan, results, acked, report>>
  BY DEF Cancel
<1>2. cell \in [Cells -> CellRecords] /\ host \in Hosts
  BY DEF KernelInv, KernelTypeOK
<1>3. cell' \in [Cells -> CellRecords] /\ \A e \in Cells : cell'[e].st = cell[e].st
  BY <1>1, <1>2 DEF CellRecords
<1>4. CASE cell[c].st = "running" /\ Running
  <2>1. PICK st \in Signalled(py.st) : Interrupt(c, st)
    BY <1>4 DEF Cancel
  <2> DEFINE k == IF Alive /\ host.killFor = None THEN c ELSE host.killFor
  <2>2. host' = [host EXCEPT !.killFor = k]
    BY <2>1 DEF Interrupt
  <2>3. k \in Names
    BY <1>2 DEF Hosts, Names
  <2> HIDE DEF k
  <2>4. host' \in Hosts /\ host'.kernel = host.kernel /\ host'.sent = host.sent
    BY <1>2, <2>2, <2>3 DEF Hosts
  <2>5. CASE py.st = "cell" /\ st = "idle"
    <3>1. /\ py' = [py EXCEPT !.st = "idle", !.ns = @ \cup {c}] /\ after' = [after EXCEPT ![c] = py.ns \cup {c}]
          /\ toHost' = [type |-> "done", ok |-> FALSE]
      BY <2>1, <2>5 DEF Interrupt
    <3>2. c = Head(queue)
      BY <1>4 DEF KernelInv, TailInv
    <3> QED BY <1>1, <1>3, <2>4, <2>5, <3>1, <3>2, Leaves
  <2>6. CASE ~(py.st = "cell" /\ st = "idle")
    <3>1. py' = [py EXCEPT !.st = st] /\ after' = after /\ toHost' = toHost
      BY <2>1, <2>6 DEF Interrupt
    <3>2. st = py.st \/ (py.st = "idle" /\ st = "dead")
      BY <2>1, <2>6 DEF Signalled
    <3>3. py' \in Processes /\ py'.ns = py.ns /\ py'.ck = py.ck /\ py'.st = st
      BY <3>1, <3>2, Pythons DEF Processes
    <3> QED BY <1>1, <1>3, <2>4, <3>1, <3>2, <3>3, Marks
  <2> QED BY <2>5, <2>6
<1>5. CASE ~(cell[c].st = "running" /\ Running)
  <2>1. UNCHANGED <<host, py, toHost, after>>
    BY <1>5 DEF Cancel
  <2> QED BY <1>1, <1>2, <1>3, <2>1, Pythons, Marks
<1> QED BY <1>4, <1>5

\* Results change nothing of the kernel.
LEMMA PublishStep ==
  ASSUME KernelInv, NEW c \in Cells, Publish(c)
  PROVE  KernelInv'
<1>1. /\ results' = Append(results, c)
      /\ UNCHANGED <<cell, queue, host, py, toPy, toHost, disk, orphan, after, acked, report>>
  BY DEF Publish
<1>2. KernelTypeOK'
  BY <1>1 DEF KernelInv, KernelTypeOK
<1>3. TailInv(cell, queue, host)'
  BY <1>1 DEF KernelInv, TailInv
<1>4. ChannelInv(cell, queue, host, py, toPy, toHost)'
  BY <1>1 DEF KernelInv, ChannelInv, Executes, SavesNow, Cools, Heads
<1>5. NamesInv(cell, queue, host, py, toPy, toHost, disk, orphan, after, report)'
  BY <1>1 DEF KernelInv, NamesInv, Named, Keeps, IsSnapshot
<1> QED BY <1>2, <1>3, <1>4, <1>5 DEF KernelInv

LEMMA WorkerDiesStep ==
  ASSUME KernelInv, WorkerDies
  PROVE  KernelInv'
<1> DEFINE s == IF py.st = "idle" THEN "unread" ELSE py.st
           t == (py.st # "idle")
           o == [st |-> s, ns |-> py.ns, ck |-> py.ck, hold |-> py.hold, temp |-> t]
<1>1. /\ cell' = [c \in Cells |-> IF cell[c].st = "new" THEN cell[c]
                                  ELSE [cell[c] EXCEPT !.st = "settled", !.mode = "plain"]]
      /\ queue' = <<>> /\ host' = NoObject /\ py' = NoProcess /\ toPy' = None /\ toHost' = NoFrame
      /\ orphan' = IF Saving THEN o ELSE NoOrphan
      /\ UNCHANGED <<disk, results, after, acked, report>>
  BY DEF WorkerDies
<1>2. cell \in [Cells -> CellRecords]
  BY DEF KernelInv, KernelTypeOK
<1>3. /\ cell' \in [Cells -> CellRecords]
      /\ \A e \in Cells : cell'[e].st = "settled" \/ (cell'[e] = cell[e] /\ cell[e].st = "new")
  BY <1>1, <1>2 DEF CellRecords
<1>4. /\ orphan' \in OrphanSaves
      /\ orphan'.st # "none" => Named(orphan'.ns, orphan'.ck, after)
  <2>1. CASE Saving
    <3>1. s \in {"unread", "save", "moved", "placed"} /\ t \in BOOLEAN
      BY <2>1 DEF Saving
    <3>2. Named(py.ns, py.ck, after)
      BY <2>1, Pythons DEF Saving
    <3> HIDE DEF s, t
    <3>3. o \in OrphanSaves /\ o.ns = py.ns /\ o.ck = py.ck
      BY <3>1, Pythons DEF OrphanSaves
    <3> QED BY <1>1, <2>1, <3>2, <3>3
  <2>2. CASE ~Saving
    BY <1>1, <2>2, NothingIs
  <2> QED BY <2>1, <2>2
<1> HIDE DEF o, s, t
<1>5. <<>> \in Seq(Cells \cup {"snap", "cold", "final"})
  OBVIOUS
<1>6. KernelTypeOK'
  BY <1>1, <1>3, <1>4, <1>5, NothingIs, FramesAre DEF KernelInv, KernelTypeOK
<1>7. TailInv(cell, queue, host)'
  BY <1>1, <1>3, NothingIs DEF TailInv
<1>8. ChannelInv(cell, queue, host, py, toPy, toHost)'
  BY <1>1, NothingIs, FramesAre DEF ChannelInv, Executes, SavesNow, Cools, None
<1>9. NamesInv(cell, queue, host, py, toPy, toHost, disk, orphan, after, report)'
  <2>1. Keeps(disk.cur, after)' /\ Keeps(disk.prev, after)'
    BY <1>1 DEF KernelInv, NamesInv, Keeps, Named, IsSnapshot
  <2> QED BY <1>1, <1>3, <1>4, <2>1, NothingIs, FramesAre DEF KernelInv, NamesInv, Named, None
<1> QED BY <1>6, <1>7, <1>8, <1>9 DEF KernelInv

-----------------------------------------------------------------------------
(* The first theorem. *)

LEMMA KernelBegins == Init => KernelInv
<1> SUFFICES ASSUME Init PROVE KernelInv
  OBVIOUS
<1>1. cell \in [Cells -> CellRecords] /\ \A c \in Cells : cell[c].st = "new"
  <2> DEFINE zero == 0
  <2>1. zero \in Nat
    OBVIOUS
  <2>2. cell = [c \in Cells |-> [st |-> "new", mode |-> "plain", epoch |-> zero, cancelled |-> FALSE, ok |-> FALSE]]
    BY DEF Init
  <2> HIDE DEF zero
  <2> QED BY <2>1, <2>2 DEF CellRecords
<1>2. disk \in [cur : Directories, prev : Directories] /\ disk.cur = Absent /\ disk.prev = Absent
  BY DEF Init, Directories
<1>3. KernelTypeOK
  BY <1>1, <1>2, NothingIs, FramesAre DEF Init, KernelTypeOK
<1>4. TailInv(cell, queue, host)
  BY <1>1, NothingIs DEF Init, TailInv
<1>5. ChannelInv(cell, queue, host, py, toPy, toHost)
  BY NothingIs, FramesAre DEF Init, ChannelInv, Executes, SavesNow, Cools, None
<1>6. NamesInv(cell, queue, host, py, toPy, toHost, disk, orphan, after, report)
  <2>1. Keeps(disk.cur, after) /\ Keeps(disk.prev, after)
    BY <1>2, Places DEF Keeps
  <2> QED BY <1>1, <2>1, NothingIs, FramesAre DEF Init, NamesInv, None
<1> QED BY <1>3, <1>4, <1>5, <1>6 DEF KernelInv

LEMMA NothingHappens == KernelInv /\ UNCHANGED vars => KernelInv'
<1> SUFFICES ASSUME KernelInv, UNCHANGED vars PROVE KernelInv'
  OBVIOUS
<1>1. UNCHANGED <<cell, queue, host, py, toPy, toHost, disk, orphan, results, after, acked, report>>
  BY DEF vars
<1>2. cell \in [Cells -> CellRecords] /\ host \in Hosts
  BY DEF KernelInv, KernelTypeOK
<1> QED BY <1>1, <1>2, Pythons, Marks

LEMMA KernelSafe ==
  ASSUME KernelInv, [Next]_vars
  PROVE  KernelInv'
<1>1. CASE UNCHANGED vars
  BY <1>1, NothingHappens
<1>2. CASE Extension
  BY <1>2, KernelSteps, SubmitStep, CancelStep, PublishStep, WorkerDiesStep DEF Extension
<1>3. CASE Fifo
  BY <1>3, KillTimerStep, AdmitStep, BeginsStep, StartLostStep, DoneStep, DrainedStep, SnapshotDoneStep,
     TimerFiresStep, SnapBeginsStep, OwnCommands, ColdDoneStep, DeathSteps, CloseEndsStep, ReadyStep, ExitStep
     DEF Fifo
<1>4. CASE Python
  BY <1>4, SpawnStep, RestoresStep, PyReadsStep, CellEndsStep, ColdEndsStep, SaveSteps, DeathSteps DEF Python
<1> QED BY <1>1, <1>2, <1>3, <1>4, OrphanSteps DEF Next

\* Calls, the channel and the identities of namespaces.
THEOREM KernelInvariant == Spec => []KernelInv
BY KernelBegins, KernelSafe, PTL DEF Spec

\* A diagnostic that says the identity of the last native result was restored names the
\* namespace that call left (projectNamespaceRecovery).
THEOREM RecoveryAlwaysHonest == Spec => []RecoveryIsHonest
<1>1. KernelInv => RecoveryIsHonest
  BY DEF KernelInv, NamesInv, RecoveryIsHonest
<1> QED BY <1>1, KernelInvariant, PTL

-----------------------------------------------------------------------------
(* What was acknowledged stays, once no save outlasts the start of a call. *)

\* A step that writes no snapshot and leaves no namespace behind.
LEMMA Calm ==
  ASSUME SaveInv, KernelInv', UNCHANGED <<disk, after, acked>>,
         orphan'.st # "none" =>
           orphan.st # "none" /\ orphan'.ns = orphan.ns /\ (orphan'.st = "placed" => orphan.st = "placed"),
         host'.generation = host.generation \/ (host'.generation = 0 /\ host'.kernel \in {"none", "launching"}),
         Lives(py') => Lives(py) /\ py'.ns = py.ns, py'.st = "placed" => py.st = "placed",
         SavesNow(py', toPy', toHost') => SavesNow(py, toPy, toHost) \/ host.generation # 0,
         \A e \in Cells : /\ cell'[e].st \in {"draining", "saving"} => cell[e].st \in {"draining", "saving"}
                          /\ cell'[e].st = "running" => cell[e].st = "running",
         toHost'.type \in {"done", "snapshot_done"} => toHost' = toHost /\ Head(queue') = Head(queue)
  PROVE  SaveInv'
<1>1. LeftInv(cell, queue, py, toHost, after)'
  BY DEF SaveInv, LeftInv, Lives
<1>2. SaverInv(cell, host, py, toPy, toHost, orphan)'
  <2>1. CASE host'.generation = host.generation
    BY <2>1 DEF SaveInv, SaverInv, SavesNow
  <2>2. CASE host'.generation = 0 /\ host'.kernel \in {"none", "launching"}
    <3>1. queue' = <<>> /\ ~host'.sent
      BY <2>2 DEF KernelInv, TailInv
    <3>2. ~SavesNow(py', toPy', toHost')
      BY <3>1 DEF KernelInv, ChannelInv, SavesNow, None
    <3>3. \A e \in Cells : cell'[e].st \notin {"running", "draining", "saving"}
      BY <3>1 DEF KernelInv, TailInv
    <3> QED BY <2>2, <3>2, <3>3 DEF SaverInv, SavesNow
  <2> QED BY <2>1, <2>2
<1>3. AckedInv(py, toHost, queue, disk, orphan, after, acked)'
  BY DEF SaveInv, AckedInv, Holding, IsSnapshot, Lives
<1> QED BY <1>1, <1>2, <1>3 DEF SaveInv

\* What the proofs below use of a step's beginning.
LEMMA Hosted ==
  ASSUME KernelInv
  PROVE  host \in Hosts /\ host.generation \in Nat /\ host.saved \in Nat /\ cell \in [Cells -> CellRecords]
  BY DEF KernelInv, KernelTypeOK, Hosts

\* Nothing of the channel, the calls and the disk changes.
LEMMA HostSaves ==
  ASSUME KernelInv, SaveInv, KernelInv', Launch \/ Replace \/ Reload \/ CloseEnds \/ (\E c \in Cells : Publish(c))
  PROVE  SaveInv'
<1>1. UNCHANGED <<cell, queue, py, toPy, toHost, disk, orphan, after, acked>>
  BY DEF Launch, Replace, Reload, CloseEnds, Publish
<1>2. host'.generation = host.generation \/ (host'.generation = 0 /\ host'.kernel \in {"none", "launching"})
  BY Hosted, NothingIs DEF Launch, Replace, Reload, CloseEnds, Close, Publish, Hosts
<1> QED BY <1>1, <1>2, Calm

LEMMA SubmitSaves ==
  ASSUME KernelInv, SaveInv, KernelInv', TimerFires \/ (\E c \in Cells, m \in Modes : Submit(c, m))
  PROVE  SaveInv'
<1>1. /\ UNCHANGED <<py, toPy, toHost, disk, orphan, after, acked>>
      /\ \E x \in Cells \cup {"snap", "cold", "final"} : queue' = Append(queue, x)
  BY DEF TimerFires, Submit
<1>2. host'.generation = host.generation
  BY Hosted DEF TimerFires, Submit, Hosts
<1>3. \A e \in Cells : cell'[e].st = cell[e].st \/ cell'[e].st = "queued"
  <2>1. CASE TimerFires
    BY <2>1 DEF TimerFires
  <2>2. ASSUME NEW c \in Cells, NEW m \in Modes, Submit(c, m)
        PROVE  \A e \in Cells : cell'[e].st = cell[e].st \/ cell'[e].st = "queued"
    <3> DEFINE n == host.epoch
    <3>1. cell' = [cell EXCEPT ![c].st = "queued", ![c].mode = m, ![c].epoch = n]
      BY <2>2 DEF Submit
    <3> HIDE DEF n
    <3> QED BY <3>1, Hosted DEF CellRecords
  <2> QED BY <2>1, <2>2
<1>4. toHost.type \in {"done", "snapshot_done"} => Head(queue') = Head(queue)
  <2>1. toHost.type \in {"done", "snapshot_done"} => queue # <<>>
    BY Pythons DEF ChannelInv, Executes, SavesNow, Heads
  <2>2. queue \in Seq(Cells \cup {"snap", "cold", "final"})
    BY DEF KernelInv, KernelTypeOK
  <2> QED BY <1>1, <2>1, <2>2, Tails
<1> QED BY <1>1, <1>2, <1>3, <1>4, Calm

\* The head of the tail is taken up or refused.
LEMMA AdmitSaves ==
  ASSUME KernelInv, SaveInv, KernelInv', Admit \/ StartLost \/ (Begin /\ NotAdmitted(Front))
  PROVE  SaveInv'
<1>1. /\ UNCHANGED <<host, py, toPy, toHost, disk, orphan, after, acked>>
      /\ FrontCell /\ cell[Front].st \in {"queued", "starting"}
      /\ cell' = Settled(Front, FALSE) \/ cell' = [cell EXCEPT ![Front].st = "starting"]
  BY DEF Admit, StartLost, Begin, Refuse
<1>2. Front \in Cells /\ ~host.sent
  BY <1>1, Stages
<1>3. \A e \in Cells : cell'[e].st = cell[e].st \/ cell'[e].st \in {"settled", "starting"}
  <2> DEFINE c == Front
  <2>1. c \in Cells /\ (cell' = Settled(c, FALSE) \/ cell' = [cell EXCEPT ![c].st = "starting"])
    BY <1>1, <1>2
  <2> HIDE DEF c
  <2>2. CASE cell' = Settled(c, FALSE)
    BY <2>1, <2>2, Settles
  <2>3. CASE cell' = [cell EXCEPT ![c].st = "starting"]
    BY <2>1, <2>3, Hosted DEF CellRecords
  <2> QED BY <2>1, <2>2, <2>3
<1>4. toHost.type \notin {"done", "snapshot_done"}
  BY <1>2, Free DEF None
<1> QED BY <1>1, <1>3, <1>4, Calm

LEMMA DrainedSaves ==
  ASSUME KernelInv, SaveInv, KernelInv', Drained
  PROVE  SaveInv'
<1>1. /\ FrontCell /\ cell[Front].st = "draining"
      /\ UNCHANGED <<py, toHost, disk, orphan, after, acked>>
      /\ toPy' = toPy \/ host.generation # 0
  <2>1. FrontCell /\ cell[Front].st = "draining"
    BY DEF Drained
  <2>2. host.generation # 0
    BY <2>1, Stages DEF SaveInv, SaverInv
  <2> QED BY <2>1, <2>2 DEF Drained
<1>2. Front \in Cells /\ ~host.sent
  BY <1>1, Stages
<1>3. host'.generation = host.generation
  BY Hosted DEF Drained, Refuse, Hosts
<1>4. \A e \in Cells : cell'[e].st = cell[e].st \/ (e = Front /\ cell'[e].st \in {"settled", "saving"})
  <2> DEFINE c == Front
  <2>1. c \in Cells /\ cell[c].ok \in BOOLEAN
    BY <1>2, Hosted DEF CellRecords
  <2>2. (\E b \in BOOLEAN : cell' = Settled(c, b)) \/ cell' = [cell EXCEPT ![c].st = "saving"]
    BY <2>1 DEF Drained, Refuse
  <2> HIDE DEF c
  <2>3. CASE \E b \in BOOLEAN : cell' = Settled(c, b)
    <3>1. PICK b \in BOOLEAN : cell' = Settled(c, b)
      BY <2>3
    <3> QED BY <2>1, <3>1, Settles DEF c
  <2>4. CASE cell' = [cell EXCEPT ![c].st = "saving"]
    <3>1. \A e \in Cells : cell'[e].st = cell[e].st \/ (e = c /\ cell'[e].st = "saving")
      BY <2>1, <2>4, Hosted DEF CellRecords
    <3> QED BY <3>1 DEF c
  <2> QED BY <2>2, <2>3, <2>4
<1>5. toHost.type \notin {"done", "snapshot_done"}
  BY <1>2, Free DEF None
<1> QED BY <1>1, <1>2, <1>3, <1>4, <1>5, Calm DEF SavesNow

\* A save by the timer or at the end of a kernel follows a cell; cold advice is no save.
LEMMA CommandSaves ==
  ASSUME KernelInv, SaveInv, KernelInv', SnapBegins \/ ColdStep \/ CloseSaves
  PROVE  SaveInv'
<1>1. UNCHANGED <<cell, py, toHost, disk, orphan, after, acked>> /\ ~host.sent
  <2>1. queue = <<>> => ~host.sent
    BY DEF KernelInv, TailInv
  <2> QED BY <2>1 DEF SnapBegins, ColdStep, CloseSaves
<1>2. host'.generation = host.generation
  BY Hosted DEF SnapBegins, ColdStep, CloseSaves, Hosts
<1>3. SavesNow(py', toPy', toHost') => SavesNow(py, toPy, toHost) \/ host.generation # 0
  <2>1. \A m, n \in Nat : m > n => m # 0
    OBVIOUS
  <2>2. Dirty => host.generation # 0
    BY <2>1, Hosted DEF Dirty
  <2> QED BY <1>1, <2>2 DEF SnapBegins, ColdStep, CloseSaves, SavesNow, None
<1>4. toHost.type \notin {"done", "snapshot_done"}
  BY <1>1, Free DEF None
<1> QED BY <1>1, <1>2, <1>3, <1>4, Calm

\* An answer to cold advice, a ready frame, and the end of a process.
LEMMA EndingSaves ==
  ASSUME KernelInv, SaveInv, KernelInv', ColdDone \/ Ready \/ KillTimer \/ CloseShuts \/ Dies \/ Exit
  PROVE  SaveInv'
<1>1. /\ UNCHANGED <<disk, orphan, after, acked>>
      /\ toHost' = NoFrame \/ (toHost' = toHost /\ queue' = queue)
      /\ py' = py \/ py' = NoProcess \/ py' = [py EXCEPT !.st = "dead"]
      /\ toPy' = toPy \/ toPy' = None
  BY DEF ColdDone, Ready, KillTimer, CloseShuts, Dies, Exit
<1>2. host'.generation = host.generation \/ (host'.generation = 0 /\ host'.kernel \in {"none", "launching"})
  <2>1. CASE Exit
    <3> DEFINE n == host.epoch + 1
    <3>1. host' = NoObject \/ host' = [host EXCEPT !.epoch = n, !.sent = FALSE, !.killFor = None]
      BY <2>1 DEF Exit
    <3> HIDE DEF n
    <3> QED BY <3>1, NothingIs, Hosted DEF Hosts
  <2>2. CASE ~Exit
    BY <2>2, Hosted DEF ColdDone, Ready, KillTimer, CloseShuts, Dies, Hosts
  <2> QED BY <2>1, <2>2
<1>3. py' = py \/ ~Lives(py')
  BY <1>1, NothingIs, Pythons DEF Lives, Processes
<1>4. toHost'.type \in {"done", "snapshot_done"} => toHost' = toHost /\ queue' = queue
  BY <1>1, FramesAre DEF None
<1>5. \A e \in Cells : cell'[e].st = cell[e].st \/ cell'[e].st = "settled"
  <2>1. CASE Exit
    <3> DEFINE c == Front
    <3>1. cell' = cell \/ (FrontCell /\ cell' = Settled(c, FALSE))
      BY <2>1 DEF Exit
    <3>2. FrontCell => c \in Cells
      BY Stages
    <3> HIDE DEF c
    <3>3. CASE c \in Cells /\ cell' = Settled(c, FALSE)
      BY <3>3, Settles
    <3> QED BY <3>1, <3>2, <3>3
  <2>2. CASE ~Exit
    BY <2>2 DEF ColdDone, Ready, KillTimer, CloseShuts, Dies
  <2> QED BY <2>1, <2>2
<1>6. SavesNow(py', toPy', toHost') => SavesNow(py, toPy, toHost)
  BY <1>1, <1>3, <1>4, FramesAre DEF SavesNow, Lives, None
<1>7. py'.st = "placed" => py.st = "placed"
  BY <1>3 DEF Lives
<1>8. Lives(py') => Lives(py) /\ py'.ns = py.ns
  BY <1>3
<1> QED BY <1>1, <1>2, <1>4, <1>5, <1>6, <1>7, <1>8, Calm

LEMMA ReadingSaves ==
  ASSUME KernelInv, SaveInv, KernelInv', PyReads \/ ColdEnds
  PROVE  SaveInv'
<1>1. /\ UNCHANGED <<cell, queue, host, disk, orphan, after, acked>>
      /\ toHost' = toHost \/ toHost'.type = "cold_memory_done"
      /\ py.st \in {"idle", "cold"}
  BY DEF PyReads, ColdEnds
<1>2. /\ py'.ns = py.ns /\ py'.st # "placed"
      /\ SavesNow(py', toPy', toHost') => SavesNow(py, toPy, toHost)
  <2>1. CASE PyReads
    <3> DEFINE s == CASE toPy = "execute" -> "cell" [] toPy = "snapshot" -> "save" [] toPy = "cold_memory" -> "cold"
               k == IF toPy = "execute" THEN CheckpointOf(Front, py.ck) ELSE py.ck
    <3>1. py' = [py EXCEPT !.st = s, !.ck = k] /\ toPy' = None /\ toHost' = toHost
      <4>1. toPy \in {"execute", "snapshot", "cold_memory"}
        BY <2>1, Pythons DEF PyReads
      <4>2. py = [py EXCEPT !.ck = py.ck]
        BY Pythons DEF Processes
      <4> QED BY <2>1, <4>1, <4>2, Pythons DEF PyReads, Processes
    <3>2. s \in {"cell", "save", "cold"} /\ (s = "save" => toPy = "snapshot")
      <4>1. toPy \in {"execute", "snapshot", "cold_memory"}
        BY <2>1, Pythons DEF PyReads
      <4> QED BY <4>1
    <3> HIDE DEF s, k
    <3> QED BY <3>1, <3>2, Pythons DEF Processes, SavesNow, None
  <2>2. CASE ColdEnds
    BY <2>2, Pythons DEF ColdEnds, Processes, SavesNow
  <2> QED BY <2>1, <2>2
<1>3. Lives(py)
  BY <1>1 DEF Lives
<1>4. toHost'.type \in {"done", "snapshot_done"} => toHost' = toHost
  BY <1>1
<1> QED BY <1>1, <1>2, <1>3, <1>4, Calm

\* A cell begins: the save of another worker is over.
LEMMA BeginSaves ==
  ASSUME KernelInv, SaveInv, KernelInv', ~SlowOrphans, Begin, ~NotAdmitted(Front)
  PROVE  SaveInv'
<1> DEFINE c == Front
           n == host.generation + 1
<1>1. /\ FrontCell /\ cell[c].st = "starting" /\ orphan.st = "none"
      /\ cell' = [cell EXCEPT ![c].st = "running"] /\ host' = [host EXCEPT !.sent = TRUE, !.generation = n]
      /\ toPy' \in {"execute", None}
      /\ UNCHANGED <<queue, py, toHost, disk, orphan, after, acked>>
  BY DEF Begin
<1>2. c \in Cells /\ ~host.sent /\ c = Head(queue)
  BY <1>1, Stages
<1>3. n \in Nat /\ n # 0
  <2>1. \A m \in Nat : m + 1 \in Nat /\ m + 1 # 0
    OBVIOUS
  <2> QED BY <2>1, Hosted
<1> HIDE DEF c, n
<1>4. host'.generation = n
  BY <1>1, Hosted DEF Hosts
<1>5. toHost.type \notin {"done", "snapshot_done"} /\ py.st \notin {"save", "moved", "placed"}
  BY <1>2, Free DEF None
<1>6. \A e \in Cells : cell'[e].st \notin {"draining", "saving"}
  <2>1. \A e \in Cells : cell'[e].st = cell[e].st \/ cell'[e].st = "running"
    BY <1>1, <1>2, Hosted DEF CellRecords
  <2>2. \A e \in Cells : cell[e].st \notin {"draining", "saving"}
    BY <1>1, <1>2 DEF KernelInv, TailInv
  <2> QED BY <2>1, <2>2
<1>7. LeftInv(cell, queue, py, toHost, after)'
  BY <1>1, <1>5, <1>6 DEF LeftInv
<1>8. SaverInv(cell, host, py, toPy, toHost, orphan)'
  BY <1>1, <1>3, <1>4 DEF SaverInv
<1>9. AckedInv(py, toHost, queue, disk, orphan, after, acked)'
  BY <1>1 DEF SaveInv, AckedInv, Holding, IsSnapshot, Lives
<1> QED BY <1>7, <1>8, <1>9 DEF SaveInv

LEMMA DoneSaves ==
  ASSUME KernelInv, SaveInv, KernelInv', Done
  PROVE  SaveInv'
<1> DEFINE c == Front
           b == toHost.ok
<1>1. /\ FrontCell /\ toHost.type = "done" /\ cell[c].st = "running"
      /\ cell' = [cell EXCEPT ![c].st = "draining", ![c].ok = b]
      /\ host' = [host EXCEPT !.sent = FALSE, !.killFor = None] /\ toHost' = NoFrame
      /\ UNCHANGED <<queue, py, toPy, disk, orphan, after, acked>>
  BY DEF Done
<1>2. c \in Cells /\ c = Head(queue)
  BY <1>1, Stages
<1> HIDE DEF c, b
<1>3. \A e \in Cells : cell'[e].st = cell[e].st \/ (e = c /\ cell'[e].st = "draining")
  BY <1>1, <1>2, Hosted DEF CellRecords
<1>4. host'.generation = host.generation
  BY <1>1, Hosted DEF Hosts
<1>5. toHost'.type = None
  BY <1>1, FramesAre
<1>6. LeftInv(cell, queue, py, toHost, after)'
  BY <1>1, <1>2, <1>3, <1>5 DEF SaveInv, LeftInv, Lives, None
<1>7. SaverInv(cell, host, py, toPy, toHost, orphan)'
  <2>1. host.generation # 0
    BY <1>1, <1>2 DEF SaveInv, SaverInv
  <2> QED BY <1>1, <1>4, <2>1 DEF SaveInv, SaverInv
<1>8. AckedInv(py, toHost, queue, disk, orphan, after, acked)'
  BY <1>1, <1>5 DEF SaveInv, AckedInv, Holding, IsSnapshot, Lives, None
<1> QED BY <1>6, <1>7, <1>8 DEF SaveInv

\* The acknowledgement of a save: what it wrote is all that is on the disk.
LEMMA SnapshotDoneSaves ==
  ASSUME KernelInv, SaveInv, KernelInv', SnapshotDone
  PROVE  SaveInv'
<1> DEFINE b == toHost.ok
           n == IF b THEN host.generation ELSE host.saved
<1>1. /\ toHost.type = "snapshot_done" /\ queue # <<>>
      /\ host' = [host EXCEPT !.sent = FALSE, !.saved = n]
      /\ cell' = IF FrontCell THEN Settled(Front, b) ELSE cell
      /\ acked' = IF FrontCell /\ b THEN Snapshot(after[Front], Front) ELSE acked
      /\ toHost' = NoFrame
      /\ UNCHANGED <<py, toPy, disk, orphan, after>>
  BY DEF SnapshotDone
<1>2. host.generation # 0 /\ orphan.st = "none"
  BY <1>1 DEF SaveInv, SaverInv, SavesNow
<1>3. host'.generation = host.generation
  <2>1. n \in Nat
    BY Hosted
  <2> HIDE DEF n
  <2> QED BY <1>1, <2>1, Hosted DEF Hosts
<1>4. b \in BOOLEAN
  BY <1>1, Pythons, FramesAre
<1>5. \A e \in Cells : cell'[e].st = cell[e].st \/ cell'[e].st = "settled"
  BY <1>1, <1>4, Stages, Settles
<1>6. toHost'.type = None
  BY <1>1, FramesAre
<1>7. LeftInv(cell, queue, py, toHost, after)'
  BY <1>1, <1>5, <1>6 DEF SaveInv, LeftInv, Lives, None
<1>8. SaverInv(cell, host, py, toPy, toHost, orphan)'
  BY <1>1, <1>2, <1>3 DEF SaverInv
<1>9. AckedInv(py, toHost, queue, disk, orphan, after, acked)'
  <2>1. CASE ~(FrontCell /\ b)
    BY <1>1, <1>6, <2>1 DEF SaveInv, AckedInv, Holding, IsSnapshot, Lives, None
  <2>2. CASE FrontCell /\ b
    <3> DEFINE s == Snapshot(after[Front], Front)
    <3>1. acked' = s /\ s.ns = after[Front] /\ IsSnapshot(s)
      BY <1>1, <2>2, Places
    <3>2. Front \in Cells /\ Front = Head(queue)
      BY <2>2, Stages
    <3>3. cell[Front].st = "saving"
      BY <1>1, <3>2, Pythons DEF ChannelInv, SavesNow
    <3>4. IsSnapshot(disk.cur) /\ disk.prev = Absent /\ after[Front] \subseteq disk.cur.ns
      BY <1>1, <2>2, <3>2 DEF SaveInv, AckedInv
    <3>5. Lives(py) => py.ns = after[Front]
      BY <3>2, <3>3 DEF SaveInv, LeftInv
    <3>6. py'.st = "placed" => IsSnapshot(disk'.cur) /\ disk'.cur.ns = py'.ns
      BY <1>1 DEF SaveInv, AckedInv, IsSnapshot
    <3> HIDE DEF s
    <3>7. Holding(disk'.cur, acked'.ns) /\ Holding(disk'.prev, acked'.ns)
      BY <1>1, <3>1, <3>4, Places DEF Holding
    <3>8. IsSnapshot(disk'.cur) /\ (Lives(py') => acked'.ns \subseteq py'.ns)
      BY <1>1, <3>1, <3>4, <3>5 DEF Lives
    <3>9. orphan'.st = "none"
      BY <1>1, <1>2
    <3> QED BY <1>1, <1>6, <3>6, <3>7, <3>8, <3>9 DEF AckedInv, None
  <2> QED BY <2>1, <2>2
<1> QED BY <1>7, <1>8, <1>9 DEF SaveInv

LEMMA SpawnSaves ==
  ASSUME KernelInv, SaveInv, KernelInv', Spawn
  PROVE  SaveInv'
<1>1. /\ UNCHANGED <<cell, queue, host, toPy, toHost, orphan, after, acked>>
      /\ py.st = "none" /\ py' = [NoProcess EXCEPT !.st = "boot"]
      /\ disk' = IF disk.cur = Absent THEN [disk EXCEPT !.cur = Config] ELSE disk
  BY DEF Spawn
<1>2. py'.st = "boot"
  BY <1>1, NothingIs DEF Processes
<1>3. toHost.type = None
  BY <1>1, Pythons DEF ChannelInv
<1>4. LeftInv(cell, queue, py, toHost, after)'
  BY <1>2 DEF LeftInv, Lives
<1>5. SaverInv(cell, host, py, toPy, toHost, orphan)'
  BY <1>1, <1>2 DEF SaveInv, SaverInv, SavesNow
<1>6. AckedInv(py, toHost, queue, disk, orphan, after, acked)'
  <2>1. /\ disk'.prev = disk.prev
        /\ disk'.cur = disk.cur \/ (disk.cur = Absent /\ disk'.cur = Config)
    BY <1>1, Pythons
  <2>2. ~IsSnapshot(Absent) /\ ~IsSnapshot(Config)
    BY Places
  <2> QED BY <1>1, <1>2, <1>3, <2>1, <2>2 DEF SaveInv, AckedInv, Holding, Lives, None
<1> QED BY <1>4, <1>5, <1>6 DEF SaveInv

\* What is restored holds what was acknowledged.
LEMMA RestorableHolds ==
  ASSUME SaveInv
  PROVE  IsSnapshot(acked) => acked.ns \subseteq Restorable(disk).ns
  BY DEF SaveInv, AckedInv, Restorable, Holding

LEMMA RestoresSaves ==
  ASSUME KernelInv, SaveInv, KernelInv', Restores
  PROVE  SaveInv'
<1> DEFINE s == Restorable(disk)
           n == s.ns
           k == s.ck
<1>1. /\ UNCHANGED <<cell, queue, host, toPy, disk, after, acked>>
      /\ py.st = "boot" /\ py' = [py EXCEPT !.st = "idle", !.ns = n, !.ck = k]
      /\ orphan' = [orphan EXCEPT !.temp = FALSE] /\ toHost' = [type |-> "ready"]
  BY DEF Restores
<1>2. IsSnapshot(acked) => acked.ns \subseteq n
  BY RestorableHolds
<1> HIDE DEF n, k
<1>3. py'.st = "idle" /\ py'.ns = n
  BY <1>1, Pythons DEF Processes
<1>4. orphan'.st = orphan.st /\ orphan'.ns = orphan.ns
  BY <1>1 DEF KernelInv, KernelTypeOK, OrphanSaves
<1>5. toHost'.type = "ready"
  BY <1>1, FramesAre
<1>6. \A e \in Cells : cell[e].st \notin {"draining", "saving"}
  BY <1>1, Pythons DEF ChannelInv, Heads, KernelInv, TailInv
<1>7. LeftInv(cell, queue, py, toHost, after)'
  BY <1>1, <1>5, <1>6 DEF LeftInv
<1>8. SaverInv(cell, host, py, toPy, toHost, orphan)'
  BY <1>1, <1>3, <1>4, <1>5 DEF SaveInv, SaverInv, SavesNow
<1>9. AckedInv(py, toHost, queue, disk, orphan, after, acked)'
  <2>1. orphan'.st = "placed" => IsSnapshot(disk'.cur)
    BY <1>1, <1>4 DEF SaveInv, AckedInv
  <2>2. IsSnapshot(acked') =>
          /\ IsSnapshot(disk'.cur) \/ IsSnapshot(disk'.prev)
          /\ Holding(disk'.cur, acked'.ns) /\ Holding(disk'.prev, acked'.ns)
          /\ orphan'.st # "none" => acked'.ns \subseteq orphan'.ns
    BY <1>1, <1>4 DEF SaveInv, AckedInv
  <2>3. IsSnapshot(acked') => acked'.ns \subseteq py'.ns
    BY <1>1, <1>2, <1>3
  <2> QED BY <1>3, <1>5, <2>1, <2>2, <2>3 DEF AckedInv
<1> QED BY <1>7, <1>8, <1>9 DEF SaveInv

\* A cell ends, or is interrupted: the process holds what it held before, and more.
LEMMA LeavingSaves ==
  ASSUME KernelInv, SaveInv, KernelInv', py.st = "cell", NEW c, c = Head(queue), NEW b \in BOOLEAN,
         py' = [py EXCEPT !.st = "idle", !.ns = @ \cup {c}], after' = [after EXCEPT ![c] = py.ns \cup {c}],
         toHost' = [type |-> "done", ok |-> b], \A e \in Cells : cell'[e].st = cell[e].st,
         host'.generation = host.generation, UNCHANGED <<queue, toPy, disk, orphan, acked>>
  PROVE  SaveInv'
<1>1. Heads(cell, queue, "running") /\ toPy = None
  BY Pythons DEF ChannelInv, Executes, None
<1>2. c \in Cells /\ after \in [Cells -> SUBSET Cells] /\ py.ns \in SUBSET Cells
  BY <1>1, Pythons DEF Heads, KernelInv, KernelTypeOK
<1> DEFINE m == py.ns \cup {c}
<1>3. py.ns \subseteq m
  OBVIOUS
<1>4. py' = [py EXCEPT !.st = "idle", !.ns = m] /\ after' = [after EXCEPT ![c] = m]
  OBVIOUS
<1> HIDE DEF m
<1>5. py'.st = "idle" /\ py'.ns = m /\ after'[c] = m
  BY <1>2, <1>4, Pythons DEF Processes
<1>6. toHost'.type = "done"
  BY FramesAre
<1>7. LeftInv(cell, queue, py, toHost, after)'
  <2>1. \A e \in Cells : cell'[e].st \notin {"draining", "saving"}
    BY <1>1 DEF Heads, KernelInv, TailInv
  <2> QED BY <1>5, <2>1 DEF LeftInv
<1>8. SaverInv(cell, host, py, toPy, toHost, orphan)'
  BY <1>1, <1>5, <1>6 DEF SaveInv, SaverInv, SavesNow, None
<1>9. AckedInv(py, toHost, queue, disk, orphan, after, acked)'
  <2>1. orphan'.st = "placed" => IsSnapshot(disk'.cur)
    BY DEF SaveInv, AckedInv, IsSnapshot
  <2>2. IsSnapshot(acked') =>
          /\ IsSnapshot(disk'.cur) \/ IsSnapshot(disk'.prev)
          /\ Holding(disk'.cur, acked'.ns) /\ Holding(disk'.prev, acked'.ns)
          /\ orphan'.st # "none" => acked'.ns \subseteq orphan'.ns
          /\ acked'.ns \subseteq py.ns
    BY DEF SaveInv, AckedInv, Holding, IsSnapshot, Lives
  <2>3. IsSnapshot(acked') => acked'.ns \subseteq py'.ns
    BY <1>3, <1>5, <2>2
  <2> QED BY <1>5, <1>6, <2>1, <2>2, <2>3 DEF AckedInv
<1> QED BY <1>7, <1>8, <1>9 DEF SaveInv

LEMMA CellEndsSaves ==
  ASSUME KernelInv, SaveInv, KernelInv', NEW ok \in BOOLEAN, CellEnds(ok)
  PROVE  SaveInv'
<1> DEFINE c == Front
<1>1. /\ py.st = "cell"
      /\ py' = [py EXCEPT !.st = "idle", !.ns = @ \cup {c}] /\ after' = [after EXCEPT ![c] = py.ns \cup {c}]
      /\ toHost' = [type |-> "done", ok |-> ok]
      /\ UNCHANGED <<cell, queue, host, toPy, disk, orphan, acked>>
  BY DEF CellEnds
<1>2. c = Head(queue)
  BY <1>1, Pythons, Fronts DEF ChannelInv, Executes, Heads, KernelInv
<1> HIDE DEF c
<1> QED BY <1>1, <1>2, LeavingSaves

LEMMA CancelSaves ==
  ASSUME KernelInv, SaveInv, KernelInv', NEW c \in Cells, Cancel(c)
  PROVE  SaveInv'
<1>1. /\ cell' = [cell EXCEPT ![c].cancelled = TRUE]
      /\ UNCHANGED <<queue, toPy, disk, orphan, acked>>
  BY DEF Cancel
<1>2. \A e \in Cells : cell'[e].st = cell[e].st
  BY <1>1, Hosted DEF CellRecords
<1>3. CASE cell[c].st = "running" /\ Running
  <2>1. PICK st \in Signalled(py.st) : Interrupt(c, st)
    BY <1>3 DEF Cancel
  <2>2. host'.generation = host.generation
    BY <2>1, Hosted DEF Interrupt, Hosts
  <2>3. CASE py.st = "cell" /\ st = "idle"
    <3>1. /\ py' = [py EXCEPT !.st = "idle", !.ns = @ \cup {c}] /\ after' = [after EXCEPT ![c] = py.ns \cup {c}]
          /\ toHost' = [type |-> "done", ok |-> FALSE]
      BY <2>1, <2>3 DEF Interrupt
    <3>2. c = Head(queue)
      BY <1>3 DEF KernelInv, TailInv
    <3> QED BY <1>1, <1>2, <2>2, <2>3, <3>1, <3>2, LeavingSaves
  <2>4. CASE ~(py.st = "cell" /\ st = "idle")
    <3>1. py' = [py EXCEPT !.st = st] /\ after' = after /\ toHost' = toHost
      BY <2>1, <2>4 DEF Interrupt
    <3>2. st = py.st \/ (py.st = "idle" /\ st = "dead")
      BY <2>1, <2>4 DEF Signalled
    <3>3. py'.ns = py.ns /\ py'.st = st
      BY <3>1, Pythons DEF Processes
    <3>4. /\ Lives(py') => Lives(py) /\ py'.ns = py.ns
          /\ py'.st = "placed" => py.st = "placed"
          /\ SavesNow(py', toPy', toHost') => SavesNow(py, toPy, toHost)
      BY <1>1, <3>1, <3>2, <3>3 DEF Lives, SavesNow
    <3> QED BY <1>1, <1>2, <2>2, <3>1, <3>4, Calm
  <2> QED BY <2>3, <2>4
<1>4. CASE ~(cell[c].st = "running" /\ Running)
  <2>1. UNCHANGED <<host, py, toHost, after>>
    BY <1>4 DEF Cancel
  <2> QED BY <1>1, <1>2, <2>1, Calm
<1> QED BY <1>3, <1>4

\* What a save moves and puts back leaves a snapshot where there was one, and only those there were.
LEMMA Moved ==
  ASSUME NEW d \in [cur : Directories, prev : Directories], NEW hold \in BOOLEAN, NEW n,
         IsSnapshot(d.cur) \/ IsSnapshot(d.prev), Holding(d.cur, n), Holding(d.prev, n)
  PROVE  \A e \in {Aside(d), Back(d, hold)} :
           (IsSnapshot(e.cur) \/ IsSnapshot(e.prev)) /\ Holding(e.cur, n) /\ Holding(e.prev, n)
<1>1. ~IsSnapshot(Absent) /\ ~IsSnapshot(Config)
  BY Places
<1>2. Holding(Absent, n) /\ Holding(Config, n)
  BY <1>1 DEF Holding
<1>3. /\ IsSnapshot(Aside(d).prev) /\ Aside(d).cur = Absent
      /\ Aside(d).prev \in {d.cur, d.prev}
  BY <1>1, Shifts DEF Aside, Holds, Directories, IsSnapshot, Snapshots
<1>4. IsSnapshot(Back(d, hold).cur) \/ IsSnapshot(Back(d, hold).prev)
  BY <1>1 DEF Back
<1>5. Back(d, hold).cur \in {d.cur, d.prev, Config} /\ Back(d, hold).prev \in {d.prev, Absent}
  BY Shifts
<1> QED BY <1>2, <1>3, <1>4, <1>5

\* A save moves, places and ends, or fails on its way.
LEMMA SavingSaves ==
  ASSUME KernelInv, SaveInv, KernelInv', SaveMoves \/ SavePlaces \/ SaveEnds \/ SaveFails
  PROVE  SaveInv'
<1>1. /\ UNCHANGED <<cell, queue, host, toPy, orphan, after, acked>>
      /\ py.st \in {"save", "moved", "placed"}
  BY DEF SaveMoves, SavePlaces, SaveEnds, SaveFails
<1>2. host.generation # 0 /\ orphan.st = "none" /\ queue # <<>>
  BY <1>1, Pythons DEF SaveInv, SaverInv, SavesNow, ChannelInv
<1>3. /\ py'.ns = py.ns
      /\ \/ py'.st = "moved" /\ toHost' = toHost
         \/ /\ py'.st = "placed" /\ toHost' = toHost
            /\ disk.cur = Absent /\ disk' = [disk EXCEPT !.cur = Snapshot(py.ns, py.ck)]
         \/ py'.st = "idle" /\ toHost' = [type |-> "snapshot_done", ok |-> FALSE]
         \/ py'.st = "idle" /\ toHost' = [type |-> "snapshot_done", ok |-> TRUE] /\ py.st = "placed"
            /\ disk' = [disk EXCEPT !.prev = Absent]
  <2>1. CASE SaveMoves
    BY <2>1, Pythons DEF SaveMoves, Processes
  <2>2. CASE SavePlaces
    BY <2>2, Pythons DEF SavePlaces, Processes
  <2>3. CASE SaveEnds
    BY <2>3, Pythons DEF SaveEnds, Processes
  <2>4. CASE SaveFails
    BY <2>4, Pythons DEF SaveFails, Processes
  <2> QED BY <2>1, <2>2, <2>3, <2>4
<1>4. toHost.type \in {None, "ready"}
  BY <1>1, Pythons DEF ChannelInv
<1>5. Lives(py) /\ Lives(py')
  BY <1>1, <1>3 DEF Lives
<1>6. toHost'.type # "done"
  BY <1>3, <1>4, FramesAre DEF None
<1>7. LeftInv(cell, queue, py, toHost, after)'
  BY <1>1, <1>3, <1>5, <1>6 DEF SaveInv, LeftInv
<1>8. SaverInv(cell, host, py, toPy, toHost, orphan)'
  BY <1>1, <1>2 DEF SaveInv, SaverInv
<1>9. py'.st = "placed" => IsSnapshot(disk'.cur) /\ disk'.cur.ns = py'.ns
  BY <1>3, Pythons, Places
<1>10. toHost'.type = "snapshot_done" /\ toHost'.ok =>
         /\ IsSnapshot(disk'.cur) /\ disk'.prev = Absent
         /\ Head(queue') \in Cells => after'[Head(queue')] \subseteq disk'.cur.ns
  <2>1. ASSUME toHost'.type = "snapshot_done", toHost'.ok
        PROVE  py.st = "placed" /\ disk' = [disk EXCEPT !.prev = Absent]
    BY <1>3, <1>4, <2>1, FramesAre DEF None
  <2>2. py.st = "placed" => IsSnapshot(disk.cur) /\ disk.cur.ns = py.ns
    BY DEF SaveInv, AckedInv
  <2>3. Head(queue) \in Cells => py.ns = after[Head(queue)]
    BY <1>1, <1>5, Pythons DEF ChannelInv, SavesNow, SaveInv, LeftInv
  <2> QED BY <1>1, <2>1, <2>2, <2>3, Pythons
<1>11. IsSnapshot(acked) =>
         /\ IsSnapshot(disk'.cur) \/ IsSnapshot(disk'.prev)
         /\ Holding(disk'.cur, acked.ns) /\ Holding(disk'.prev, acked.ns)
  <2> SUFFICES ASSUME IsSnapshot(acked)
               PROVE  /\ IsSnapshot(disk'.cur) \/ IsSnapshot(disk'.prev)
                      /\ Holding(disk'.cur, acked.ns) /\ Holding(disk'.prev, acked.ns)
    OBVIOUS
  <2>1. /\ IsSnapshot(disk.cur) \/ IsSnapshot(disk.prev)
        /\ Holding(disk.cur, acked.ns) /\ Holding(disk.prev, acked.ns) /\ acked.ns \subseteq py.ns
    BY <1>5 DEF SaveInv, AckedInv
  <2>2. disk \in [cur : Directories, prev : Directories] /\ py.hold \in BOOLEAN
    BY Pythons DEF Processes
  <2>3. CASE disk' \in {disk, Aside(disk), Back(disk, py.hold)}
    BY <2>1, <2>2, <2>3, Moved
  <2>4. CASE disk' = [disk EXCEPT !.cur = Snapshot(py.ns, py.ck)]
    BY <2>1, <2>2, <2>4, Places DEF Holding
  <2>5. CASE py.st = "placed" /\ disk' = [disk EXCEPT !.prev = Absent]
    <3>1. IsSnapshot(disk.cur)
      BY <2>5 DEF SaveInv, AckedInv
    <3> QED BY <2>1, <2>2, <2>5, <3>1, Places DEF Holding
  <2> QED BY <2>3, <2>4, <2>5 DEF SaveMoves, SavePlaces, SaveEnds, SaveFails
<1>12. AckedInv(py, toHost, queue, disk, orphan, after, acked)'
  <2>1. IsSnapshot(acked) => acked.ns \subseteq py.ns
    BY <1>5 DEF SaveInv, AckedInv
  <2>2. IsSnapshot(acked') =>
          /\ IsSnapshot(disk'.cur) \/ IsSnapshot(disk'.prev)
          /\ Holding(disk'.cur, acked'.ns) /\ Holding(disk'.prev, acked'.ns) /\ acked'.ns \subseteq py'.ns
    BY <1>1, <1>3, <1>11, <2>1
  <2> QED BY <1>1, <1>2, <1>9, <1>10, <2>2 DEF AckedInv
<1> QED BY <1>7, <1>8, <1>12 DEF SaveInv

\* The save of a dead worker's process goes on while no call has begun.
LEMMA OrphanSavesOn ==
  ASSUME KernelInv, SaveInv, KernelInv', Orphan
  PROVE  SaveInv'
<1>1. /\ UNCHANGED <<cell, queue, host, py, toPy, toHost, after, acked>>
      /\ orphan.st # "none"
  BY DEF Orphan, OrphanBegins, OrphanMoves, OrphanPlaces, OrphanEnds
<1>2. host.generation = 0 /\ ~SavesNow(py, toPy, toHost)
  BY <1>1 DEF SaveInv, SaverInv
<1>3. /\ disk \in [cur : Directories, prev : Directories] /\ orphan \in OrphanSaves
      /\ orphan.hold \in BOOLEAN
  BY DEF KernelInv, KernelTypeOK, OrphanSaves
<1>4. /\ orphan' = NoOrphan \/ orphan'.ns = orphan.ns
      /\ orphan'.st = "placed" => disk' = [disk EXCEPT !.cur = Snapshot(orphan.ns, orphan.ck)]
      /\ \/ disk' \in {disk, Aside(disk), Back(disk, orphan.hold)}
         \/ disk' = [disk EXCEPT !.cur = Snapshot(orphan.ns, orphan.ck)]
         \/ orphan.st = "placed" /\ disk' = [disk EXCEPT !.prev = Absent]
  <2>1. CASE OrphanBegins
    BY <1>3, <2>1 DEF OrphanBegins, OrphanSaves
  <2>2. CASE OrphanMoves
    BY <1>3, <2>2, NothingIs DEF OrphanMoves, OrphanSaves
  <2>3. CASE OrphanPlaces
    BY <1>3, <2>3, NothingIs DEF OrphanPlaces, OrphanSaves
  <2>4. CASE OrphanEnds
    BY <1>3, <2>4, NothingIs DEF OrphanEnds
  <2> QED BY <2>1, <2>2, <2>3, <2>4 DEF Orphan
<1>5. orphan'.st = "placed" => IsSnapshot(disk'.cur)
  BY <1>3, <1>4, Places
<1>6. LeftInv(cell, queue, py, toHost, after)'
  BY <1>1 DEF SaveInv, LeftInv
<1>7. SaverInv(cell, host, py, toPy, toHost, orphan)'
  BY <1>1, <1>2 DEF SaveInv, SaverInv
<1>8. IsSnapshot(acked) =>
        /\ IsSnapshot(disk'.cur) \/ IsSnapshot(disk'.prev)
        /\ Holding(disk'.cur, acked.ns) /\ Holding(disk'.prev, acked.ns)
        /\ orphan'.st # "none" => acked.ns \subseteq orphan'.ns
  <2> SUFFICES ASSUME IsSnapshot(acked)
               PROVE  /\ IsSnapshot(disk'.cur) \/ IsSnapshot(disk'.prev)
                      /\ Holding(disk'.cur, acked.ns) /\ Holding(disk'.prev, acked.ns)
                      /\ orphan'.st # "none" => acked.ns \subseteq orphan'.ns
    OBVIOUS
  <2>1. /\ IsSnapshot(disk.cur) \/ IsSnapshot(disk.prev)
        /\ Holding(disk.cur, acked.ns) /\ Holding(disk.prev, acked.ns) /\ acked.ns \subseteq orphan.ns
    BY <1>1 DEF SaveInv, AckedInv
  <2>2. orphan'.st # "none" => acked.ns \subseteq orphan'.ns
    BY <1>4, <2>1, NothingIs
  <2>3. CASE disk' \in {disk, Aside(disk), Back(disk, orphan.hold)}
    BY <1>3, <2>1, <2>2, <2>3, Moved
  <2>4. CASE disk' = [disk EXCEPT !.cur = Snapshot(orphan.ns, orphan.ck)]
    BY <1>3, <2>1, <2>2, <2>4, Places DEF Holding
  <2>5. CASE orphan.st = "placed" /\ disk' = [disk EXCEPT !.prev = Absent]
    <3>1. IsSnapshot(disk.cur)
      BY <2>5 DEF SaveInv, AckedInv
    <3> QED BY <1>3, <2>1, <2>2, <2>5, <3>1, Places DEF Holding
  <2> QED BY <1>4, <2>3, <2>4, <2>5
<1>9. AckedInv(py, toHost, queue, disk, orphan, after, acked)'
  <2>1. py.st # "placed" /\ toHost.type # "snapshot_done"
    BY <1>2 DEF SavesNow
  <2>2. IsSnapshot(acked) => (Lives(py) => acked.ns \subseteq py.ns)
    BY DEF SaveInv, AckedInv
  <2> QED BY <1>1, <1>5, <1>8, <2>1, <2>2 DEF AckedInv
<1> QED BY <1>6, <1>7, <1>9 DEF SaveInv

\* A worker dies: what its process was told to save goes on with the namespace it had.
LEMMA WorkerDiesSaves ==
  ASSUME KernelInv, SaveInv, KernelInv', WorkerDies
  PROVE  SaveInv'
<1> DEFINE s == IF py.st = "idle" THEN "unread" ELSE py.st
           o == [st |-> s, ns |-> py.ns, ck |-> py.ck, hold |-> py.hold, temp |-> py.st # "idle"]
<1>1. /\ cell' = [c \in Cells |-> IF cell[c].st = "new" THEN cell[c]
                                  ELSE [cell[c] EXCEPT !.st = "settled", !.mode = "plain"]]
      /\ host' = NoObject /\ py' = NoProcess /\ toPy' = None /\ toHost' = NoFrame
      /\ orphan' = IF Saving THEN o ELSE NoOrphan
      /\ UNCHANGED <<disk, after, acked>>
  BY DEF WorkerDies
<1>2. \A e \in Cells : cell'[e].st \in {"new", "settled"}
  BY <1>1, Hosted DEF CellRecords
<1>3. orphan'.st # "none" => /\ Lives(py) /\ orphan'.ns = py.ns
                             /\ orphan'.st = "placed" => py.st = "placed"
  <2>1. o.st = s /\ o.ns = py.ns
    OBVIOUS
  <2>2. Saving => Lives(py) /\ (s = "placed" => py.st = "placed")
    BY DEF Saving, Lives
  <2> HIDE DEF o, s
  <2> QED BY <1>1, <2>1, <2>2, NothingIs
<1> HIDE DEF o, s
<1>4. ~Lives(py') /\ host'.generation = 0 /\ toHost'.type = None /\ py'.st = "none"
  BY <1>1, NothingIs, FramesAre DEF Lives
<1>5. LeftInv(cell, queue, py, toHost, after)'
  BY <1>4 DEF LeftInv
<1>6. SaverInv(cell, host, py, toPy, toHost, orphan)'
  BY <1>1, <1>2, <1>4 DEF SaverInv, SavesNow, None
<1>7. AckedInv(py, toHost, queue, disk, orphan, after, acked)'
  <2>1. orphan'.st = "placed" => IsSnapshot(disk'.cur)
    BY <1>1, <1>3 DEF SaveInv, AckedInv
  <2>2. IsSnapshot(acked') =>
          /\ IsSnapshot(disk'.cur) \/ IsSnapshot(disk'.prev)
          /\ Holding(disk'.cur, acked'.ns) /\ Holding(disk'.prev, acked'.ns)
          /\ orphan'.st # "none" => acked'.ns \subseteq orphan'.ns
    BY <1>1, <1>3 DEF SaveInv, AckedInv
  <2> QED BY <1>4, <2>1, <2>2 DEF AckedInv, None
<1> QED BY <1>5, <1>6, <1>7 DEF SaveInv

LEMMA SaveBegins == Init => SaveInv
<1> SUFFICES ASSUME Init PROVE SaveInv
  OBVIOUS
<1>1. /\ py.st = "none" /\ orphan.st = "none" /\ toHost.type = None /\ toPy = None
      /\ ~IsSnapshot(acked) /\ \A e \in Cells : cell[e].st = "new"
  BY NothingIs, FramesAre, Places DEF Init
<1> QED BY <1>1 DEF SaveInv, LeftInv, SaverInv, AckedInv, SavesNow, Lives, None

LEMMA SaveSafe ==
  ASSUME ~SlowOrphans, KernelInv, SaveInv, [Next]_vars
  PROVE  SaveInv'
<1>1. KernelInv'
  BY KernelSafe
<1>2. CASE UNCHANGED vars
  <2>1. UNCHANGED <<cell, queue, host, py, toPy, toHost, disk, orphan, after, acked>>
    BY <1>2 DEF vars
  <2> QED BY <1>1, <2>1, Calm
<1>3. CASE Extension
  BY <1>1, <1>3, HostSaves, SubmitSaves, CancelSaves, WorkerDiesSaves DEF Extension
<1>4. CASE Fifo
  BY <1>1, <1>4, EndingSaves, AdmitSaves, BeginSaves, DoneSaves, DrainedSaves, SnapshotDoneSaves, SubmitSaves,
     CommandSaves, HostSaves DEF Fifo
<1>5. CASE Python
  BY <1>1, <1>5, SpawnSaves, RestoresSaves, ReadingSaves, CellEndsSaves, SavingSaves, EndingSaves DEF Python
<1> QED BY <1>1, <1>2, <1>3, <1>4, <1>5, OrphanSavesOn DEF Next

\* A snapshot a native call was told of can be restored at every step of every later save, whatever
\* dies, when no save of a dead worker's process outlasts the start of a call (save_snapshot,
\* recover_previous_snapshot).
THEOREM SavedAlwaysRestorable == ~SlowOrphans => (Spec => []SavedIsRestorable)
<1> SUFFICES ASSUME ~SlowOrphans PROVE Spec => []SavedIsRestorable
  OBVIOUS
<1>1. Init => KernelInv /\ SaveInv
  BY KernelBegins, SaveBegins
<1>2. KernelInv /\ SaveInv /\ [Next]_vars => KernelInv' /\ SaveInv'
  BY KernelSafe, SaveSafe
<1>3. SaveInv => SavedIsRestorable
  BY RestorableHolds DEF SavedIsRestorable
<1> QED BY <1>1, <1>2, <1>3, PTL DEF Spec
=============================================================================
