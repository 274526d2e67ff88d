------------------------- MODULE CronInferenceProofs -------------------------
(* What holds of scheduled jobs for any jobs, limits and times, and of the *)
(* model of a session for any models and any number of choices and faults. *)
EXTENDS Cron, Inference, TLAPS

JobRecords ==
  [state : {"none", "scheduled", "paused", "completed", "removed"}, repeat : Nat, fires : Nat,
   next : Nat, check : BOOLEAN, failures : Nat, alerted : BOOLEAN, pending : Nat]
RunRecords ==
  [status : {"none", "claimed", "running", "skipped_overlap", "completed", "failed", "unknown"},
   mode : {"none", "origin", "fresh"}, disposition : {"none", "deliver", "no_finding"}]

CronTypeOK ==
  /\ now \in 0..MaxTime
  /\ job \in [Jobs -> JobRecords] /\ run \in [Runs -> RunRecords]
  /\ input \in [Runs -> {"none", "pending", "heard", "answered", "gone"}]
  /\ session \in [Sessions -> {"none", "live", "deleted"}]
  /\ turn \in [Sessions -> BOOLEAN] /\ calm \in [Sessions -> BOOLEAN]
  /\ current \in [Sessions -> Runs \cup {NoRun}]
  /\ up \subseteq Sessions /\ begun \subseteq Runs
  /\ checks \in [Jobs -> Nat]
  /\ completing \in [Sessions -> [left : SUBSET Runs, answered : SUBSET Runs, reading : BOOLEAN]]
  /\ produced \subseteq Runs
  /\ commands \in Nat /\ troubles \in Nat

\* The occurrences that a job still has to use: its next one, the one whose check runs, and
\* the one whose check result waits.  They differ, none has a run, and no check runs while a
\* result waits.  A job that was never created has none of them.
JobsFit ==
  \A j \in Jobs :
    /\ job[j].state = "none" => job[j].pending = 0 /\ checks[j] = 0
    /\ job[j].next \in 1..MaxTime => run[<<j, job[j].next>>].status = "none"
    /\ job[j].pending # 0 =>
         /\ job[j].pending \in 1..now /\ job[j].pending # job[j].next
         /\ run[<<j, job[j].pending>>].status = "none"
    /\ checks[j] # 0 =>
         /\ checks[j] \in 1..now /\ checks[j] # job[j].next /\ job[j].pending = 0
         /\ run[<<j, checks[j]>>].status = "none"

\* No occurrence has a run before its time: one that is still to come is always new.
RunsArePast ==
  \A j \in Jobs, n \in 1..MaxTime : run[<<j, n>>].status # "none" => n <= now

\* What an operation that completes runs has read of the transcript stays true: the runs were
\* dispatched, and none is dispatched again.
ReadingsStay ==
  \A s \in Sessions :
    /\ \A r \in completing[s].left : run[r].status \notin {"none", "claimed"}
    /\ \A r \in completing[s].answered :
         run[r].status \notin {"none", "claimed"} /\ input[r] = "answered"

\* The inductive invariant.
CronInv ==
  /\ CronTypeOK /\ JobsFit /\ RunsArePast /\ ReadingsStay
  /\ CheckResultKept /\ CompletedWasAnswered

-----------------------------------------------------------------------------
(* Lemmas about the operators. *)

\* The occurrences that the tables name are runs.
LEMMA OccurrenceIsRun ==
  ASSUME NEW j \in Jobs, NEW n \in 1..MaxTime
  PROVE  <<j, n>> \in Runs
<1>1. \A k \in 1..MaxTime : k \in 1..MaxTime + MaxManual
  BY CronAssumption
<1> QED BY <1>1 DEF Runs

LEMMA SessionsOfRuns ==
  ASSUME NEW r \in Runs
  PROVE  SessionOf(r) \in Sessions
  BY DEF SessionOf, Sessions

LEMMA FinishedRow ==
  ASSUME NEW row \in RunRecords, NEW status \in {"completed", "failed", "unknown"}
  PROVE  /\ FinishRun(row, status) \in RunRecords
         /\ FinishRun(row, status).status = IF row.status \in Active THEN status ELSE row.status
         /\ FinishRun(row, status).disposition = row.disposition
         /\ FinishRun(row, status).mode = row.mode
  BY DEF FinishRun, RunRecords, Active

\* What a job may be charged with when it fires: its next occurrence, or none.
LEMMA FiredJob ==
  ASSUME NEW jb \in JobRecords, NEW next \in Nat
  PROVE  LET new == Fired(jb, next) IN
         /\ new \in JobRecords /\ new.pending = jb.pending /\ new.check = jb.check
         /\ \/ new.state = jb.state /\ new.next = next
            \/ new.state = "completed" /\ new.next = 0
<1> DEFINE fires == IF jb.repeat = 0 THEN 0 ELSE jb.fires + 1
<1>1. fires \in Nat
  BY DEF JobRecords
<1> DEFINE done == [jb EXCEPT !.fires = fires, !.state = "completed", !.next = 0]
           again == [jb EXCEPT !.fires = fires, !.next = next]
<1> HIDE DEF fires
<1>2. done \in JobRecords
  BY <1>1 DEF JobRecords
<1>3. again \in JobRecords
  BY <1>1 DEF JobRecords
<1>4. done.pending = jb.pending /\ done.check = jb.check /\ done.state = "completed" /\ done.next = 0
  BY DEF JobRecords
<1>5. again.pending = jb.pending /\ again.check = jb.check /\ again.state = jb.state /\ again.next = next
  BY DEF JobRecords
<1>6. Fired(jb, next) = done \/ Fired(jb, next) = again
  BY DEF Fired, fires
<1> QED
  <2> HIDE DEF done, again
  <2> QED BY <1>2, <1>3, <1>4, <1>5, <1>6

LEMMA CronTimes ==
  ASSUME CronInv
  PROVE  /\ now \in Nat /\ now <= MaxTime /\ MaxTime \in Nat /\ NextRunAfter(now) \in Nat
         /\ NextRunAfter(now) = now + 1
         /\ \A n \in 1..now : n # NextRunAfter(now) /\ n \in 1..MaxTime
         /\ \A j \in Jobs : NextRunAfter(now) \in 1..MaxTime => run[<<j, NextRunAfter(now)>>].status = "none"
<1>1. now \in Nat /\ now <= MaxTime /\ MaxTime \in Nat
  BY CronAssumption DEF CronInv, CronTypeOK
<1>2. NextRunAfter(now) = now + 1
  BY DEF NextRunAfter
<1>3. \A m \in Nat : /\ m + 1 \in Nat /\ ~(m + 1 <= m)
                     /\ m <= MaxTime => \A n \in 1..m : n # m + 1 /\ n \in 1..MaxTime
  BY <1>1
<1>4. \A j \in Jobs : now + 1 \in 1..MaxTime => run[<<j, now + 1>>].status = "none"
  BY <1>1, <1>3 DEF CronInv, RunsArePast
<1> QED BY <1>1, <1>2, <1>3, <1>4

LEMMA JobFits ==
  ASSUME CronInv, NEW j \in Jobs
  PROVE  /\ job[j].state = "none" => job[j].pending = 0 /\ checks[j] = 0
         /\ job[j].next \in 1..MaxTime => run[<<j, job[j].next>>].status = "none"
         /\ job[j].pending # 0 =>
              /\ job[j].pending \in 1..now /\ job[j].pending # job[j].next
              /\ run[<<j, job[j].pending>>].status = "none"
         /\ checks[j] # 0 =>
              /\ checks[j] \in 1..now /\ checks[j] # job[j].next /\ job[j].pending = 0
              /\ run[<<j, checks[j]>>].status = "none"
  BY DEF CronInv, JobsFit

\* A job whose next occurrence moves to one that is new, with the rest as it was.
LEMMA JobStillFits ==
  ASSUME CronInv, NEW j \in Jobs, NEW jb, NEW check, NEW runs,
         jb.state = "none" => job[j].state = "none", jb.pending = job[j].pending,
         jb.next \in {job[j].next, NextRunAfter(now), 0}, check \in {checks[j], 0},
         \A n \in 1..MaxTime : run[<<j, n>>].status = "none" => runs[<<j, n>>].status = "none"
  PROVE  /\ jb.state = "none" => jb.pending = 0 /\ check = 0
         /\ jb.next \in 1..MaxTime => runs[<<j, jb.next>>].status = "none"
         /\ jb.pending # 0 => /\ jb.pending \in 1..now /\ jb.pending # jb.next
                             /\ runs[<<j, jb.pending>>].status = "none"
         /\ check # 0 => /\ check \in 1..now /\ check # jb.next /\ jb.pending = 0
                        /\ runs[<<j, check>>].status = "none"
<1> DEFINE next == NextRunAfter(now)
           fits(n) == run[<<j, n>>].status = "none"
           fit(n) == runs[<<j, n>>].status = "none"
           Past == 1..now
           All == 1..MaxTime
<1>1. /\ job[j].state = "none" => job[j].pending = 0 /\ checks[j] = 0
      /\ job[j].next \in All => fits(job[j].next)
      /\ job[j].pending # 0 => /\ job[j].pending \in Past /\ job[j].pending # job[j].next
                              /\ fits(job[j].pending)
      /\ checks[j] # 0 => /\ checks[j] \in Past /\ checks[j] # job[j].next
                         /\ job[j].pending = 0 /\ fits(checks[j])
  BY JobFits
<1>2. /\ 0 \notin All /\ 0 \notin Past /\ next \notin Past /\ Past \subseteq All
      /\ next \in All => fits(next)
  BY CronTimes
<1>3. \A n \in All : fits(n) => fit(n)
  OBVIOUS
<1>4. /\ jb.state = "none" => jb.pending = 0 /\ check = 0
      /\ jb.next \in All => fit(jb.next)
      /\ jb.pending # 0 => /\ jb.pending \in Past /\ jb.pending # jb.next /\ fit(jb.pending)
      /\ check # 0 => /\ check \in Past /\ check # jb.next /\ jb.pending = 0 /\ fit(check)
  <2>1. jb.next \in {job[j].next, next, 0}
    OBVIOUS
  <2> HIDE DEF next, fits, fit, Past, All
  <2> QED BY <1>1, <1>2, <1>3, <2>1
<1> QED BY <1>4

\* A step that moves runs on, and inputs and operations with them.
LEMMA RunStep ==
  ASSUME CronInv, CronTypeOK', UNCHANGED <<now, job, produced>>,
         \A j \in Jobs : checks'[j] \in {checks[j], 0},
         \A r \in Runs :
           /\ run'[r].status = "none" <=> run[r].status = "none"
           /\ run[r].status \notin {"none", "claimed"} => run'[r].status \notin {"none", "claimed"}
           /\ input[r] = "answered" /\ run[r].status # "claimed" => input'[r] = "answered"
           /\ run'[r].status = "completed" /\ run'[r].disposition = "none" =>
                \/ run[r].status = "completed" /\ run[r].disposition = "none"
                \/ input'[r] = "answered",
         \A s \in Sessions :
           /\ completing'[s].left \subseteq Runs /\ completing'[s].answered \subseteq Runs
           /\ \A r \in completing'[s].left :
                r \in completing[s].left \/ run[r].status \notin {"none", "claimed"}
           /\ \A r \in completing'[s].answered :
                \/ r \in completing[s].answered
                \/ run[r].status \notin {"none", "claimed"} /\ input[r] = "answered"
  PROVE  CronInv'
<1>1. JobsFit'
  <2>1. ASSUME NEW j \in Jobs
        PROVE  /\ job[j].state = "none" => job[j].pending = 0 /\ checks'[j] = 0
               /\ job[j].next \in 1..MaxTime => run'[<<j, job[j].next>>].status = "none"
               /\ job[j].pending # 0 =>
                    /\ job[j].pending \in 1..now /\ job[j].pending # job[j].next
                    /\ run'[<<j, job[j].pending>>].status = "none"
               /\ checks'[j] # 0 =>
                    /\ checks'[j] \in 1..now /\ checks'[j] # job[j].next /\ job[j].pending = 0
                    /\ run'[<<j, checks'[j]>>].status = "none"
    <3>1. \A n \in 1..MaxTime : run[<<j, n>>].status = "none" => run'[<<j, n>>].status = "none"
      BY OccurrenceIsRun
    <3> QED BY <3>1, JobStillFits
  <2> QED BY <2>1 DEF JobsFit
<1>2. RunsArePast'
  BY OccurrenceIsRun DEF CronInv, RunsArePast
<1>3. ReadingsStay'
  BY DEF CronInv, ReadingsStay
<1>4. CheckResultKept'
  BY DEF CronInv, CronTypeOK, CheckResultKept
<1>5. CompletedWasAnswered'
  BY DEF CronInv, CompletedWasAnswered
<1> QED BY <1>1, <1>2, <1>3, <1>4, <1>5 DEF CronInv

\* A step that changes one job, and neither runs nor what is known of them.
LEMMA JobStep ==
  ASSUME CronInv,
         UNCHANGED <<now, run, input, session, turn, current, calm, up, begun, checks, completing,
                     produced>>,
         commands' \in Nat, troubles' \in Nat,
         NEW j \in Jobs, NEW jb \in JobRecords, job' = [job EXCEPT ![j] = jb],
         jb.state = "none" => job[j].state = "none", job[j].state = "removed" => jb.state = "removed",
         jb.next \in {job[j].next, NextRunAfter(now), 0}, jb.pending = job[j].pending
  PROVE  CronInv'
<1>1. /\ job' \in [Jobs -> JobRecords] /\ job'[j] = jb
      /\ \A k \in Jobs : k # j => job'[k] = job[k]
  BY DEF CronInv, CronTypeOK
<1>2. JobsFit'
  <2>1. ASSUME NEW k \in Jobs
        PROVE  /\ job'[k].state = "none" => job'[k].pending = 0 /\ checks[k] = 0
               /\ job'[k].next \in 1..MaxTime => run[<<k, job'[k].next>>].status = "none"
               /\ job'[k].pending # 0 =>
                    /\ job'[k].pending \in 1..now /\ job'[k].pending # job'[k].next
                    /\ run[<<k, job'[k].pending>>].status = "none"
               /\ checks[k] # 0 =>
                    /\ checks[k] \in 1..now /\ checks[k] # job'[k].next /\ job'[k].pending = 0
                    /\ run[<<k, checks[k]>>].status = "none"
    <3>1. CASE k # j
      BY <1>1, <3>1 DEF CronInv, JobsFit
    <3>2. CASE k = j
      <4>1. /\ jb.state = "none" => jb.pending = 0 /\ checks[j] = 0
            /\ jb.next \in 1..MaxTime => run[<<j, jb.next>>].status = "none"
            /\ jb.pending # 0 => /\ jb.pending \in 1..now /\ jb.pending # jb.next
                                /\ run[<<j, jb.pending>>].status = "none"
            /\ checks[j] # 0 => /\ checks[j] \in 1..now /\ checks[j] # jb.next /\ jb.pending = 0
                               /\ run[<<j, checks[j]>>].status = "none"
        <5>1. \A n \in 1..MaxTime : run[<<j, n>>].status = "none" => run[<<j, n>>].status = "none"
          OBVIOUS
        <5>2. checks[j] \in {checks[j], 0}
          OBVIOUS
        <5> QED BY <5>1, <5>2, JobStillFits
      <4> QED BY <1>1, <3>2, <4>1, Zenon
    <3> QED BY <3>1, <3>2
  <2> QED BY <2>1 DEF JobsFit
<1>3. RunsArePast' /\ ReadingsStay' /\ CompletedWasAnswered'
  BY DEF CronInv, RunsArePast, ReadingsStay, CompletedWasAnswered
<1>4. CheckResultKept'
  <2>1. \A p \in produced : p[1] \in Jobs
    BY DEF CronInv, CronTypeOK, Runs
  <2> QED BY <1>1, <2>1 DEF CronInv, CheckResultKept
<1>5. CronTypeOK'
  BY <1>1 DEF CronInv, CronTypeOK
<1> QED BY <1>2, <1>3, <1>4, <1>5 DEF CronInv

-----------------------------------------------------------------------------
(* The commands on jobs. *)

LEMMA CommandCounts ==
  ASSUME CronInv
  PROVE  /\ commands \in Nat /\ troubles \in Nat
         /\ Command => commands' \in Nat
         /\ Trouble => troubles' \in Nat
<1>1. \A n \in Nat : n + 1 \in Nat
  OBVIOUS
<1> QED BY <1>1 DEF CronInv, CronTypeOK, Command, Trouble

LEMMA CreateKeeps ==
  ASSUME CronInv, NEW j \in Jobs, NEW paused \in BOOLEAN, NEW n \in Repeats, NEW check \in BOOLEAN,
         Create(j, paused, n, check)
  PROVE  CronInv'
<1> DEFINE jb == [NoJob EXCEPT !.state = IF paused THEN "paused" ELSE "scheduled",
                               !.repeat = n, !.next = NextRunAfter(now), !.check = check]
<1>1. /\ jb \in JobRecords /\ jb.state # "none" /\ jb.next = NextRunAfter(now) /\ jb.pending = 0
  BY CronTimes, CronAssumption DEF NoJob, JobRecords
<1>2. job[j].state = "none" /\ job[j].pending = 0 /\ job' = [job EXCEPT ![j] = jb]
  BY DEF Create, CronInv, JobsFit
<1>3. UNCHANGED <<now, run, input, session, turn, current, calm, up, begun, checks, completing,
                  produced, commands, troubles>>
  BY DEF Create, conversations, memory
<1> HIDE DEF jb
<1> QED BY <1>1, <1>2, <1>3, JobStep, CommandCounts

LEMMA UpdateKeeps ==
  ASSUME CronInv, NEW j \in Jobs, NEW sc \in BOOLEAN, NEW rc \in BOOLEAN, NEW n \in Repeats,
         NEW check \in BOOLEAN, Update(j, sc, rc, n, check)
  PROVE  CronInv'
<1> DEFINE old == job[j]
           new == [old EXCEPT
             !.repeat = n, !.check = check, !.failures = 0, !.alerted = FALSE,
             !.fires = IF sc \/ rc THEN 0 ELSE @,
             !.state = IF old.state = "completed" /\ (sc \/ rc) THEN "scheduled" ELSE @,
             !.next = IF sc THEN NextRunAfter(now) ELSE @]
<1>1. old \in JobRecords /\ n \in Nat /\ NextRunAfter(now) \in Nat
  BY CronTimes, CronAssumption DEF CronInv, CronTypeOK
<1>2. old.state \notin {"none", "removed"} /\ job' = [job EXCEPT ![j] = new] /\ Command
  BY DEF Update
<1>3. UNCHANGED <<now, run, input, session, turn, current, calm, up, begun, checks, completing,
                  produced, troubles>>
  BY DEF Update, conversations, memory
<1> HIDE DEF old
<1>4. new \in JobRecords
  BY <1>1 DEF JobRecords
<1>5. /\ new.state # "none" /\ new.next \in {old.next, NextRunAfter(now)}
      /\ new.pending = old.pending
  BY <1>1, <1>2 DEF JobRecords
<1> HIDE DEF new
<1> QED BY <1>2, <1>3, <1>4, <1>5, JobStep, CommandCounts DEF old

\* The commands that set a state, and the next occurrence with it.
LEMMA StateCommandKeeps ==
  ASSUME CronInv, Command, NEW j \in Jobs,
         NEW state \in {"scheduled", "paused", "removed"},
         NEW next \in {job[j].next, NextRunAfter(now), 0},
         job[j].state # "removed",
         job' = [job EXCEPT ![j].state = state, ![j].next = next],
         UNCHANGED <<now, run, conversations, memory, produced, troubles>>
  PROVE  CronInv'
<1> DEFINE jb == [job[j] EXCEPT !.state = state, !.next = next]
<1>1. next \in Nat /\ job[j] \in JobRecords
  BY CronTimes DEF CronInv, CronTypeOK, JobRecords
<1>2. jb \in JobRecords /\ jb.state = state /\ jb.next = next /\ jb.pending = job[j].pending
  BY <1>1 DEF JobRecords
<1>3. job' = [job EXCEPT ![j] = jb]
  OBVIOUS
<1>4. UNCHANGED <<input, session, turn, current, calm, up, begun, checks, completing>>
  BY DEF conversations, memory
<1> HIDE DEF jb
<1> QED BY <1>2, <1>3, <1>4, JobStep, CommandCounts

LEMMA PauseResumeRemoveKeep ==
  ASSUME CronInv, NEW j \in Jobs, Pause(j) \/ Resume(j) \/ Remove(j)
  PROVE  CronInv'
<1>1. CASE Pause(j)
  <2>1. job[j] \in JobRecords
    BY DEF CronInv, CronTypeOK
  <2>2. [job EXCEPT ![j].state = "paused"]
          = [job EXCEPT ![j].state = "paused", ![j].next = job[j].next]
    BY <2>1 DEF CronInv, CronTypeOK, JobRecords
  <2> QED BY <1>1, <2>2, StateCommandKeeps DEF Pause
<1>2. CASE Resume(j)
  BY <1>2, StateCommandKeeps DEF Resume
<1>3. CASE Remove(j)
  BY <1>3, StateCommandKeeps DEF Remove
<1> QED BY <1>1, <1>2, <1>3

\* runNow gives the job a run that is no occurrence.
LEMMA RunNowKeeps ==
  ASSUME CronInv, NEW j \in Jobs, RunNow(j)
  PROVE  CronInv'
<1>1. PICK n \in MaxTime + 1..MaxTime + MaxManual :
        run[<<j, n>>].status = "none" /\ run' = [run EXCEPT ![<<j, n>>] = Claimed]
  BY DEF RunNow
<1> DEFINE r0 == <<j, n>>
<1>2. r0 \in Runs /\ \A k \in Jobs, m \in 1..MaxTime : <<k, m>> # r0
  <2>1. n \in 1..MaxTime + MaxManual /\ \A m \in 1..MaxTime : m # n
    BY CronAssumption
  <2> QED BY <2>1 DEF Runs
<1>3. /\ Claimed \in RunRecords /\ Claimed.status = "claimed"
  BY DEF Claimed, NoRunRow, RunRecords
<1>4. UNCHANGED <<now, job, input, session, turn, current, calm, up, begun, checks, completing,
                  produced, troubles>> /\ commands' \in Nat
  BY CommandCounts DEF RunNow, conversations, memory
<1> HIDE DEF r0
<1>5. /\ run' \in [Runs -> RunRecords] /\ run'[r0].status = "claimed"
      /\ \A r \in Runs : r # r0 => run'[r] = run[r]
  BY <1>1, <1>2, <1>3 DEF CronInv, CronTypeOK, r0
<1>6. CronTypeOK'
  BY <1>4, <1>5 DEF CronInv, CronTypeOK
<1>7. \A k \in Jobs, m \in 1..MaxTime : run'[<<k, m>>] = run[<<k, m>>]
  BY <1>2, <1>5, OccurrenceIsRun
<1>8. JobsFit'
  <2>1. \A m \in 1..now : m \in 1..MaxTime
    BY CronTimes
  <2> QED BY <2>1, <1>4, <1>7 DEF CronInv, JobsFit
<1>9. RunsArePast'
  BY <1>4, <1>7 DEF CronInv, RunsArePast
<1>10. run[r0].status = "none"
  BY <1>1 DEF r0
<1>11. ReadingsStay'
  BY <1>4, <1>5, <1>10 DEF CronInv, CronTypeOK, ReadingsStay
<1>12. CheckResultKept'
  <2>1. \A p \in produced : run[p].status # "none" => run'[p].status # "none"
    BY <1>5, <1>10 DEF CronInv, CronTypeOK
  <2> QED BY <1>4, <2>1 DEF CronInv, CheckResultKept
<1>13. CompletedWasAnswered'
  BY <1>4, <1>5 DEF CronInv, CompletedWasAnswered
<1> QED BY <1>6, <1>8, <1>9, <1>11, <1>12, <1>13 DEF CronInv

-----------------------------------------------------------------------------
(* Checks and the tick. *)

LEMMA CheckEndsKeeps ==
  ASSUME CronInv, NEW j \in Jobs, NEW outcome \in {"quiet", "output", "failure"},
         CheckEnds(j, outcome)
  PROVE  CronInv'
<1> DEFINE old == job[j]
           n == checks[j]
           failures == IF outcome # "failure" THEN 0
                       ELSE IF old.failures < AlertAfter THEN old.failures + 1 ELSE AlertAfter
           alert == outcome = "failure" /\ failures >= AlertAfter /\ ~old.alerted
           result == outcome = "output" \/ alert
           accepted == result /\ AcceptsResult(old)
           pending == IF accepted THEN n ELSE old.pending
           alerted == alert \/ (outcome = "failure" /\ old.alerted)
           new == [old EXCEPT !.failures = failures, !.alerted = alerted, !.pending = pending]
<1>1. /\ old \in JobRecords /\ n \in Nat /\ n # 0 /\ n \in 1..now /\ n # old.next /\ old.pending = 0
      /\ run[<<j, n>>].status = "none" /\ old.state # "none"
  BY DEF CheckEnds, CronInv, CronTypeOK, JobsFit
<1>2. failures \in Nat
  BY <1>1, CronAssumption DEF JobRecords
<1>3. alerted \in BOOLEAN
  BY <1>1 DEF JobRecords
<1>4. pending \in {0, n} /\ (accepted => pending = n) /\ (~accepted => pending = 0)
  BY <1>1
<1>5. result => accepted \/ old.state = "removed"
  BY <1>1 DEF AcceptsResult
<1>6. /\ job' = [job EXCEPT ![j] = new] /\ checks' = [checks EXCEPT ![j] = 0]
      /\ produced' = IF result THEN produced \cup {<<j, n>>} ELSE produced
      /\ UNCHANGED <<now, run, input, session, turn, current, calm, up, begun, completing,
                     commands, troubles>>
  BY DEF CheckEnds, conversations
<1> HIDE DEF old, n, failures, accepted, pending, alerted, alert, result
<1>7. /\ new \in JobRecords /\ new.pending = pending /\ new.next = old.next
      /\ new.state = old.state
  BY <1>1, <1>2, <1>3, <1>4 DEF JobRecords
<1> HIDE DEF new
<1>8. /\ job' \in [Jobs -> JobRecords] /\ job'[j] = new /\ checks' \in [Jobs -> Nat]
      /\ checks'[j] = 0
      /\ \A k \in Jobs : k # j => job'[k] = job[k] /\ checks'[k] = checks[k]
  BY <1>6, <1>7 DEF CronInv, CronTypeOK
<1>9. <<j, n>> \in Runs
  BY <1>1, OccurrenceIsRun, CronTimes
<1>10. CronTypeOK'
  BY <1>6, <1>8, <1>9 DEF CronInv, CronTypeOK
<1>11. JobsFit'
  <2>1. ASSUME NEW k \in Jobs
        PROVE  /\ job'[k].state = "none" => job'[k].pending = 0 /\ checks'[k] = 0
               /\ job'[k].next \in 1..MaxTime => run[<<k, job'[k].next>>].status = "none"
               /\ job'[k].pending # 0 =>
                    /\ job'[k].pending \in 1..now /\ job'[k].pending # job'[k].next
                    /\ run[<<k, job'[k].pending>>].status = "none"
               /\ checks'[k] # 0 =>
                    /\ checks'[k] \in 1..now /\ checks'[k] # job'[k].next /\ job'[k].pending = 0
                    /\ run[<<k, checks'[k]>>].status = "none"
    <3>1. CASE k # j
      BY <1>8, <3>1 DEF CronInv, JobsFit
    <3>2. CASE k = j
      BY <1>1, <1>4, <1>7, <1>8, <3>2 DEF CronInv, JobsFit, old
    <3> QED BY <3>1, <3>2
  <2> QED BY <2>1, <1>6 DEF JobsFit
<1>12. RunsArePast' /\ ReadingsStay' /\ CompletedWasAnswered'
  BY <1>6 DEF CronInv, RunsArePast, ReadingsStay, CompletedWasAnswered
<1>13. CheckResultKept'
  <2>1. ASSUME NEW p \in produced
        PROVE  job'[p[1]].pending = p[2] \/ run[p].status # "none" \/ job'[p[1]].state = "removed"
    <3>1. p[1] \in Jobs /\ p[2] # 0
      <4>1. p \in Runs /\ \A m \in 1..MaxTime + MaxManual : m # 0
        BY CronAssumption DEF CronInv, CronTypeOK
      <4> QED BY <4>1 DEF Runs
    <3> QED BY <3>1, <1>1, <1>7, <1>8 DEF CronInv, CheckResultKept, old
  <2>2. result => job'[j].pending = n \/ job'[j].state = "removed"
    BY <1>4, <1>5, <1>7, <1>8
  <2> QED BY <2>1, <2>2, <1>6 DEF CheckResultKept
<1> QED BY <1>10, <1>11, <1>12, <1>13 DEF CronInv

\* A job whose waiting check result is claimed.
LEMMA TakenJob ==
  ASSUME NEW old \in JobRecords
  PROVE  LET mid == [Fired(old, old.next) EXCEPT !.pending = 0] IN
         /\ mid \in JobRecords /\ mid.pending = 0 /\ mid.next \in {old.next, 0}
         /\ mid.state = old.state \/ mid.state = "completed"
<1> DEFINE fired == Fired(old, old.next)
<1>1. old.next \in Nat
  BY DEF JobRecords
<1>2. /\ fired \in JobRecords /\ fired.next \in {old.next, 0}
      /\ fired.state = old.state \/ fired.state = "completed"
  BY <1>1, FiredJob
<1> HIDE DEF fired
<1>3. LET mid == [fired EXCEPT !.pending = 0] IN
      /\ mid \in JobRecords /\ mid.pending = 0 /\ mid.next \in {old.next, 0}
      /\ mid.state = old.state \/ mid.state = "completed"
  BY <1>2 DEF JobRecords
<1> QED BY <1>3 DEF fired

\* The pass of the tick, job by job: the results claimed (P), the jobs claimed (K), skipped (S)
\* and deferred or checked (D), and the jobs between the two walks.
TickMoves(P, K, S, D, jobs) ==
  /\ P \subseteq Claimable /\ P \subseteq Jobs /\ K \subseteq Jobs /\ S \subseteq Jobs /\ D \subseteq Jobs
  /\ K \cap (P \cup S) = {} /\ D \cap (K \cup S) = {}
  /\ \A j \in Jobs :
       jobs[j] = IF j \in P THEN [Fired(job[j], job[j].next) EXCEPT !.pending = 0] ELSE job[j]
  /\ \A j \in K \cup S \cup D : jobs[j].state = "scheduled" /\ jobs[j].next \in 1..now
  /\ \A j \in D : jobs[j].pending = 0 /\ checks[j] = 0
  /\ job' = [j \in Jobs |->
       IF j \in K \cup S THEN Fired(jobs[j], NextRunAfter(now))
       ELSE IF j \in D THEN [jobs[j] EXCEPT !.next = NextRunAfter(now)] ELSE jobs[j]]
  /\ run' = [r \in Runs |->
       IF \/ \E j \in K : r = <<j, jobs[j].next>>
          \/ \E j \in P : r = <<j, job[j].pending>>
       THEN Claimed
       ELSE IF \E j \in S : r = <<j, jobs[j].next>> THEN Skipped ELSE run[r]]
  /\ checks' \in [Jobs -> Nat]
  /\ \A j \in Jobs : checks'[j] = checks[j] \/ (j \in D /\ checks'[j] = jobs[j].next)

LEMMA TickByJob ==
  ASSUME CronInv, Tick
  PROVE  \E P, K, S, D, jobs : TickMoves(P, K, S, D, jobs)
<1>1. PICK P \in SUBSET Claimable :
        LET jobs == [j \in Jobs |-> IF j \in P THEN [Fired(job[j], job[j].next) EXCEPT !.pending = 0]
                                    ELSE job[j]]
            busy == {r[1] : r \in ActiveRuns} \cup P
            capacity == Capacity - Cardinality(P)
            slots == MaxChecks - Cardinality({j \in Jobs : checks[j] # 0})
            plain == {j \in Due(jobs) : ~jobs[j].check}
            deferrable == {j \in Due(jobs) : jobs[j].check /\ jobs[j].pending = 0 /\ checks[j] = 0}
        IN
        /\ IF Cardinality(Claimable) <= Capacity THEN P = Claimable ELSE capacity = 0
        /\ capacity >= 0
        /\ \E K \in SUBSET (plain \ busy), S \in SUBSET (plain \cap busy), D \in SUBSET deferrable :
             LET started == D \ busy
                 fired == {<<j, jobs[j].next>> : j \in K} \cup {<<j, job[j].pending>> : j \in P}
                 missed == {<<j, jobs[j].next>> : j \in S}
             IN
             /\ Cardinality(K) <= capacity /\ Cardinality(started) <= slots
             /\ S # {} => capacity > 0
             /\ D # {} => slots > 0
             /\ K \cup S # plain => Cardinality(K) = capacity
             /\ K \cup S = plain => D = deferrable \/ Cardinality(started) = slots
             /\ job' = [j \in Jobs |->
                  IF j \in K \cup S THEN Fired(jobs[j], NextRunAfter(now))
                  ELSE IF j \in D THEN [jobs[j] EXCEPT !.next = NextRunAfter(now)] ELSE jobs[j]]
             /\ run' = [r \in Runs |-> IF r \in fired THEN Claimed
                                       ELSE IF r \in missed THEN Skipped ELSE run[r]]
             /\ checks' = [j \in Jobs |-> IF j \in started THEN jobs[j].next ELSE checks[j]]
        /\ UNCHANGED <<now, conversations, up, begun, completing, produced, commands, troubles>>
  BY DEF Tick
<1> DEFINE jobs == [j \in Jobs |-> IF j \in P THEN [Fired(job[j], job[j].next) EXCEPT !.pending = 0]
                                   ELSE job[j]]
           busy == {r[1] : r \in ActiveRuns} \cup P
           capacity == Capacity - Cardinality(P)
           slots == MaxChecks - Cardinality({j \in Jobs : checks[j] # 0})
           plain == {j \in Due(jobs) : ~jobs[j].check}
           deferrable == {j \in Due(jobs) : jobs[j].check /\ jobs[j].pending = 0 /\ checks[j] = 0}
<1>2. PICK K \in SUBSET (plain \ busy), S \in SUBSET (plain \cap busy), D \in SUBSET deferrable :
        LET started == D \ busy
            fired == {<<j, jobs[j].next>> : j \in K} \cup {<<j, job[j].pending>> : j \in P}
            missed == {<<j, jobs[j].next>> : j \in S}
        IN
        /\ Cardinality(K) <= capacity /\ Cardinality(started) <= slots
        /\ S # {} => capacity > 0
        /\ D # {} => slots > 0
        /\ K \cup S # plain => Cardinality(K) = capacity
        /\ K \cup S = plain => D = deferrable \/ Cardinality(started) = slots
        /\ job' = [j \in Jobs |->
             IF j \in K \cup S THEN Fired(jobs[j], NextRunAfter(now))
             ELSE IF j \in D THEN [jobs[j] EXCEPT !.next = NextRunAfter(now)] ELSE jobs[j]]
        /\ run' = [r \in Runs |-> IF r \in fired THEN Claimed
                                  ELSE IF r \in missed THEN Skipped ELSE run[r]]
        /\ checks' = [j \in Jobs |-> IF j \in started THEN jobs[j].next ELSE checks[j]]
  BY <1>1
<1>3. /\ job' = [j \in Jobs |->
           IF j \in K \cup S THEN Fired(jobs[j], NextRunAfter(now))
           ELSE IF j \in D THEN [jobs[j] EXCEPT !.next = NextRunAfter(now)] ELSE jobs[j]]
      /\ run' = [r \in Runs |->
           IF r \in {<<j, jobs[j].next>> : j \in K} \cup {<<j, job[j].pending>> : j \in P}
           THEN Claimed
           ELSE IF r \in {<<j, jobs[j].next>> : j \in S} THEN Skipped ELSE run[r]]
      /\ checks' = [j \in Jobs |-> IF j \in D \ busy THEN jobs[j].next ELSE checks[j]]
  BY <1>2
<1>4. jobs \in [Jobs -> JobRecords]
  <2>1. ASSUME NEW j \in Jobs, j \in P
        PROVE  [Fired(job[j], job[j].next) EXCEPT !.pending = 0] \in JobRecords
    <3>1. job[j] \in JobRecords /\ job[j].next \in Nat
      BY DEF CronInv, CronTypeOK, JobRecords
    <3>2. Fired(job[j], job[j].next) \in JobRecords
      BY <3>1, FiredJob
    <3> QED BY <3>2 DEF JobRecords
  <2> QED BY <2>1 DEF CronInv, CronTypeOK
<1>5. \A j \in Jobs :
        jobs[j] = IF j \in P THEN [Fired(job[j], job[j].next) EXCEPT !.pending = 0] ELSE job[j]
  OBVIOUS
<1> HIDE DEF jobs
<1>6. /\ Claimable \subseteq Jobs
      /\ \A j \in Due(jobs) : j \in Jobs /\ jobs[j].state = "scheduled" /\ jobs[j].next \in 1..now
  BY DEF Claimable, Due
<1>7. \A j \in plain : j \in Due(jobs)
  OBVIOUS
<1>8. \A j \in deferrable : j \in Due(jobs) /\ j \notin plain /\ jobs[j].pending = 0 /\ checks[j] = 0
  OBVIOUS
<1>9. P \subseteq busy
  OBVIOUS
<1> HIDE DEF busy, plain, deferrable
<1>10. \A j \in K \cup S \cup D : jobs[j].state = "scheduled" /\ jobs[j].next \in 1..now
  BY <1>6, <1>7, <1>8
<1>11. K \cap (P \cup S) = {} /\ D \cap (K \cup S) = {}
  BY <1>8, <1>9
<1>12. \A j \in D : jobs[j].next \in Nat
  BY <1>6, <1>8, <1>4 DEF JobRecords
<1>13. checks' \in [Jobs -> Nat]
  BY <1>3, <1>12 DEF CronInv, CronTypeOK
<1>14. K \in SUBSET Jobs /\ S \in SUBSET Jobs /\ D \in SUBSET Jobs /\ P \in SUBSET Jobs
  BY <1>6, <1>7, <1>8
<1>15. \A j \in Jobs : checks'[j] = checks[j] \/ (j \in D /\ checks'[j] = jobs[j].next)
  BY <1>3
<1>16. run' = [r \in Runs |->
         IF \/ \E j \in K : r = <<j, jobs[j].next>>
            \/ \E j \in P : r = <<j, job[j].pending>>
         THEN Claimed
         ELSE IF \E j \in S : r = <<j, jobs[j].next>> THEN Skipped ELSE run[r]]
  BY <1>3, Zenon
<1>17. \A j \in D : jobs[j].pending = 0 /\ checks[j] = 0
  BY <1>8
<1>18. TickMoves(P, K, S, D, jobs)
  BY <1>3, <1>5, <1>10, <1>11, <1>13, <1>14, <1>15, <1>16, <1>17 DEF TickMoves
<1> QED BY <1>18

\* What the pass does to one job and its occurrences.
LEMMA TickOfJob ==
  ASSUME CronInv, NEW P, NEW K, NEW S, NEW D, NEW jobs, TickMoves(P, K, S, D, jobs), NEW j \in Jobs
  PROVE  /\ jobs[j].pending = IF j \in P THEN 0 ELSE job[j].pending
         /\ jobs[j].next \in {job[j].next, 0}
         /\ jobs[j].state = job[j].state \/ jobs[j].state = "completed"
         /\ j \notin P => jobs[j] = job[j]
         /\ job'[j] \in JobRecords /\ job'[j].pending = jobs[j].pending
         /\ job'[j].state = jobs[j].state \/ job'[j].state = "completed"
         /\ IF j \in K \cup S \cup D THEN job'[j].next \in {now + 1, 0} ELSE job'[j] = jobs[j]
         /\ checks'[j] = checks[j] \/ (j \in D /\ checks'[j] = job[j].next)
         /\ j \in K \cup S \cup D => jobs[j].next = job[j].next /\ job[j].next \in 1..now
         /\ j \in P => job[j].pending # 0 /\ job[j].state # "removed"
<1> DEFINE old == job[j]
           mid == jobs[j]
           new == job'[j]
<1>1. /\ j \in P => mid = [Fired(old, old.next) EXCEPT !.pending = 0]
      /\ j \notin P => mid = old
      /\ j \in K \cup S => new = Fired(mid, NextRunAfter(now))
      /\ j \notin K \cup S /\ j \in D => new = [mid EXCEPT !.next = NextRunAfter(now)]
      /\ j \notin K \cup S \cup D => new = mid
  BY DEF TickMoves
<1>2. old \in JobRecords /\ NextRunAfter(now) \in Nat /\ NextRunAfter(now) = now + 1
  BY CronTimes DEF CronInv, CronTypeOK
<1>3. j \in K \cup S \cup D => mid.next \in 1..now
  BY DEF TickMoves
<1>4. j \in P => old.pending # 0 /\ old.state # "removed"
  BY DEF TickMoves, Claimable
<1>5. checks'[j] = checks[j] \/ (j \in D /\ checks'[j] = mid.next)
  BY DEF TickMoves
<1>6. 0 \notin 1..now
  BY CronTimes
<1> HIDE DEF old, mid, new
<1>7. /\ mid \in JobRecords /\ mid.pending = IF j \in P THEN 0 ELSE old.pending
      /\ mid.next \in {old.next, 0}
      /\ mid.state = old.state \/ mid.state = "completed"
  <2>1. CASE j \in P
    BY <2>1, <1>1, <1>2, TakenJob
  <2>2. CASE j \notin P
    BY <2>2, <1>1, <1>2
  <2> QED BY <2>1, <2>2
<1>8. /\ new \in JobRecords /\ new.pending = mid.pending
      /\ new.state = mid.state \/ new.state = "completed"
      /\ IF j \in K \cup S \cup D THEN new.next \in {now + 1, 0} ELSE new = mid
  <2>1. CASE j \in K \cup S
    <3> DEFINE again == Fired(mid, NextRunAfter(now))
    <3>1. /\ again \in JobRecords /\ again.pending = mid.pending /\ again.next \in {now + 1, 0}
          /\ again.state = mid.state \/ again.state = "completed"
      BY <1>2, <1>7, FiredJob
    <3>2. new = again
      BY <2>1, <1>1
    <3> HIDE DEF again
    <3> QED BY <2>1, <3>1, <3>2
  <2>2. CASE j \notin K \cup S /\ j \in D
    <3>1. new = [mid EXCEPT !.next = NextRunAfter(now)]
      BY <2>2, <1>1
    <3> QED BY <2>2, <3>1, <1>2, <1>7 DEF JobRecords
  <2>3. CASE j \notin K \cup S \cup D
    BY <2>3, <1>1, <1>7
  <2> QED BY <2>1, <2>2, <2>3
<1> QED BY <1>1, <1>3, <1>4, <1>5, <1>6, <1>7, <1>8 DEF old, mid, new

LEMMA TickRuns ==
  ASSUME CronInv, NEW P, NEW K, NEW S, NEW D, NEW jobs, TickMoves(P, K, S, D, jobs)
  PROVE  /\ run' \in [Runs -> RunRecords]
         /\ \A j \in Jobs, n \in 1..MaxTime :
              IF (j \in K \cup S /\ n = job[j].next) \/ (j \in P /\ n = job[j].pending)
              THEN n <= now /\ run[<<j, n>>].status = "none" /\ run'[<<j, n>>].status # "none"
              ELSE run'[<<j, n>>] = run[<<j, n>>]
         /\ \A r \in Runs :
              \/ run'[r] = run[r]
              \/ run[r].status = "none" /\ run'[r].status \in {"claimed", "skipped_overlap"}
<1>1. /\ Claimed \in RunRecords /\ Claimed.status = "claimed"
      /\ Skipped \in RunRecords /\ Skipped.status = "skipped_overlap"
  BY DEF Claimed, Skipped, NoRunRow, RunRecords
<1>2. run' \in [Runs -> RunRecords]
  BY <1>1 DEF TickMoves, CronInv, CronTypeOK
<1>3. \A j \in K \cup S \cup P : j \in Jobs
  BY DEF TickMoves
<1>4. \A j \in Jobs : /\ j \in K \cup S => jobs[j].next = job[j].next /\ job[j].next \in 1..now
                      /\ j \in P => job[j].pending \in 1..now
  <2>1. ASSUME NEW j \in Jobs
        PROVE  /\ j \in K \cup S => jobs[j].next = job[j].next /\ job[j].next \in 1..now
               /\ j \in P => job[j].pending # 0
    BY TickOfJob
  <2> QED BY <2>1 DEF CronInv, JobsFit
<1>5. \A n \in 1..now : n <= now /\ n \in 1..MaxTime
  BY CronTimes
<1>6. \A j \in Jobs : /\ j \in K \cup S => run[<<j, job[j].next>>].status = "none"
                      /\ j \in P => run[<<j, job[j].pending>>].status = "none"
  <2>1. ASSUME NEW j \in Jobs
        PROVE  /\ job[j].next \in 1..MaxTime => run[<<j, job[j].next>>].status = "none"
               /\ job[j].pending # 0 => run[<<j, job[j].pending>>].status = "none"
    BY DEF CronInv, JobsFit
  <2>2. \A j \in Jobs : j \in P => job[j].pending # 0
    BY TickOfJob
  <2> QED BY <2>1, <2>2, <1>4, <1>5
<1>7. ASSUME NEW r \in Runs
      PROVE  run'[r] = IF \/ \E j \in K : r = <<j, job[j].next>>
                          \/ \E j \in P : r = <<j, job[j].pending>>
                       THEN Claimed
                       ELSE IF \E j \in S : r = <<j, job[j].next>> THEN Skipped ELSE run[r]
  <2>1. /\ \A j \in K : jobs[j].next = job[j].next
        /\ \A j \in S : jobs[j].next = job[j].next
    BY <1>3, <1>4
  <2>2. run'[r] = IF \/ \E j \in K : r = <<j, jobs[j].next>>
                     \/ \E j \in P : r = <<j, job[j].pending>>
                  THEN Claimed
                  ELSE IF \E j \in S : r = <<j, jobs[j].next>> THEN Skipped ELSE run[r]
    BY DEF TickMoves
  <2> QED BY <2>1, <2>2
<1>8. ASSUME NEW j \in Jobs, NEW n \in 1..MaxTime
      PROVE  IF (j \in K \cup S /\ n = job[j].next) \/ (j \in P /\ n = job[j].pending)
             THEN n <= now /\ run[<<j, n>>].status = "none" /\ run'[<<j, n>>].status # "none"
             ELSE run'[<<j, n>>] = run[<<j, n>>]
  <2>1. <<j, n>> \in Runs
    BY OccurrenceIsRun
  <2>2. /\ (\E k \in K : <<j, n>> = <<k, job[k].next>>) <=> j \in K /\ n = job[j].next
        /\ (\E k \in P : <<j, n>> = <<k, job[k].pending>>) <=> j \in P /\ n = job[j].pending
        /\ (\E k \in S : <<j, n>> = <<k, job[k].next>>) <=> j \in S /\ n = job[j].next
    OBVIOUS
  <2> QED BY <2>1, <2>2, <1>1, <1>4, <1>5, <1>6, <1>7
<1>9. ASSUME NEW r \in Runs
      PROVE  \/ run'[r] = run[r]
             \/ run[r].status = "none" /\ run'[r].status \in {"claimed", "skipped_overlap"}
  <2>1. CASE \E j \in K \cup S : r = <<j, job[j].next>>
    <3>1. PICK j \in K \cup S : r = <<j, job[j].next>>
      BY <2>1
    <3>2. run[r].status = "none"
      BY <3>1, <1>3, <1>6
    <3>3. run'[r] = Claimed \/ run'[r] = Skipped
      BY <3>1, <1>7
    <3> QED BY <3>2, <3>3, <1>1
  <2>2. CASE \E j \in P : r = <<j, job[j].pending>>
    <3>1. PICK j \in P : r = <<j, job[j].pending>>
      BY <2>2
    <3>2. run[r].status = "none"
      BY <3>1, <1>3, <1>6
    <3>3. run'[r] = Claimed
      BY <3>1, <1>7
    <3> QED BY <3>2, <3>3, <1>1
  <2> QED BY <2>1, <2>2, <1>7
<1> QED BY <1>2, <1>8, <1>9

LEMMA TickKeeps ==
  ASSUME CronInv, Tick
  PROVE  CronInv'
<1>1. PICK P, K, S, D, jobs : TickMoves(P, K, S, D, jobs)
  BY TickByJob
<1>2. UNCHANGED <<now, input, session, turn, current, calm, up, begun, completing, produced,
                  commands, troubles>>
  BY DEF Tick, conversations
<1>3. ASSUME NEW j \in Jobs
      PROVE  /\ jobs[j].pending = IF j \in P THEN 0 ELSE job[j].pending
             /\ jobs[j].next \in {job[j].next, 0}
             /\ jobs[j].state = job[j].state \/ jobs[j].state = "completed"
             /\ j \notin P => jobs[j] = job[j]
             /\ job'[j] \in JobRecords /\ job'[j].pending = jobs[j].pending
             /\ job'[j].state = jobs[j].state \/ job'[j].state = "completed"
             /\ IF j \in K \cup S \cup D THEN job'[j].next \in {now + 1, 0} ELSE job'[j] = jobs[j]
             /\ checks'[j] = checks[j] \/ (j \in D /\ checks'[j] = job[j].next)
             /\ j \in K \cup S \cup D => jobs[j].next = job[j].next /\ job[j].next \in 1..now
             /\ j \in P => job[j].pending # 0 /\ job[j].state # "removed"
  BY <1>1, TickOfJob
<1>4. /\ run' \in [Runs -> RunRecords]
      /\ \A j \in Jobs, n \in 1..MaxTime :
           IF (j \in K \cup S /\ n = job[j].next) \/ (j \in P /\ n = job[j].pending)
           THEN n <= now /\ run[<<j, n>>].status = "none" /\ run'[<<j, n>>].status # "none"
           ELSE run'[<<j, n>>] = run[<<j, n>>]
      /\ \A r \in Runs :
           \/ run'[r] = run[r]
           \/ run[r].status = "none" /\ run'[r].status \in {"claimed", "skipped_overlap"}
  BY <1>1, TickRuns
<1>5. job' \in [Jobs -> JobRecords] /\ checks' \in [Jobs -> Nat]
  BY <1>1, <1>3 DEF TickMoves
<1>6. CronTypeOK'
  BY <1>2, <1>4, <1>5 DEF CronInv, CronTypeOK
<1>7. JobsFit'
  <2>1. ASSUME NEW j \in Jobs
        PROVE  /\ job'[j].state = "none" => job'[j].pending = 0 /\ checks'[j] = 0
               /\ job'[j].next \in 1..MaxTime => run'[<<j, job'[j].next>>].status = "none"
               /\ job'[j].pending # 0 =>
                    /\ job'[j].pending \in 1..now /\ job'[j].pending # job'[j].next
                    /\ run'[<<j, job'[j].pending>>].status = "none"
               /\ checks'[j] # 0 =>
                    /\ checks'[j] \in 1..now /\ checks'[j] # job'[j].next /\ job'[j].pending = 0
                    /\ run'[<<j, checks'[j]>>].status = "none"
    <3> DEFINE next == job[j].next
               pending == job[j].pending
    <3>1. /\ job[j].state = "none" => pending = 0 /\ checks[j] = 0
          /\ next \in 1..MaxTime => run[<<j, next>>].status = "none"
          /\ pending # 0 => /\ pending \in 1..now /\ pending # next
                            /\ run[<<j, pending>>].status = "none"
          /\ checks[j] # 0 => /\ checks[j] \in 1..now /\ checks[j] # next /\ pending = 0
                              /\ run[<<j, checks[j]>>].status = "none"
      BY DEF CronInv, JobsFit
    <3>2. /\ 0 \notin 1..MaxTime /\ 0 \notin 1..now /\ now + 1 \notin 1..now /\ now + 1 # 0
          /\ \A n \in 1..now : n \in 1..MaxTime
          /\ now + 1 \in 1..MaxTime => run[<<j, now + 1>>].status = "none"
      BY CronTimes
    <3>3. \A n \in 1..MaxTime :
            ~(j \in K \cup S /\ n = next) /\ ~(j \in P /\ n = pending)
              => run'[<<j, n>>] = run[<<j, n>>]
      BY <1>4
    <3>4. j \in D => j \notin K \cup S /\ job'[j].pending = 0 /\ checks[j] = 0
                     /\ jobs[j].state = "scheduled"
      BY <1>1, <1>3 DEF TickMoves
    <3>5. CASE j \notin K \cup S \cup D
      <4>1. /\ job'[j] = jobs[j] /\ job'[j].pending = (IF j \in P THEN 0 ELSE pending)
            /\ job'[j].next \in {next, 0} /\ checks'[j] = checks[j]
            /\ j \notin P => job'[j] = job[j]
            /\ j \in P => pending # 0
            /\ job'[j].state = job[j].state \/ job'[j].state = "completed"
        BY <1>3, <3>5
      <4> HIDE DEF next, pending
      <4> QED BY <3>1, <3>2, <3>3, <3>5, <4>1
    <3>6. CASE j \in K \cup S \cup D
      <4>1. /\ job'[j].pending = (IF j \in P THEN 0 ELSE pending)
            /\ job'[j].next \in {now + 1, 0} /\ next \in 1..now
            /\ checks'[j] = checks[j] \/ (j \in D /\ checks'[j] = next)
            /\ j \in P => pending # 0
            /\ job'[j].state # "none"
        <5>1. jobs[j].state = "scheduled"
          BY <1>1, <3>6 DEF TickMoves
        <5> QED BY <1>3, <3>6, <5>1
      <4> HIDE DEF next, pending
      <4> QED BY <3>1, <3>2, <3>3, <3>4, <3>6, <4>1
    <3> QED BY <3>5, <3>6
  <2> QED BY <2>1, <1>2 DEF JobsFit
<1>8. RunsArePast'
  BY <1>2, <1>4 DEF CronInv, RunsArePast
<1>9. ReadingsStay'
  BY <1>2, <1>4 DEF CronInv, CronTypeOK, ReadingsStay
<1>10. CheckResultKept'
  <2>1. ASSUME NEW p \in produced
        PROVE  job'[p[1]].pending = p[2] \/ run'[p].status # "none" \/ job'[p[1]].state = "removed"
    <3>1. p \in Runs /\ p = <<p[1], p[2]>> /\ p[1] \in Jobs /\ p[2] # 0
      <4>1. p \in Runs /\ \A m \in 1..MaxTime + MaxManual : m # 0
        BY CronAssumption DEF CronInv, CronTypeOK
      <4> QED BY <4>1 DEF Runs
    <3>2. job[p[1]].pending = p[2] \/ run[p].status # "none" \/ job[p[1]].state = "removed"
      BY DEF CronInv, CheckResultKept
    <3>3. CASE job[p[1]].pending = p[2] /\ p[1] \notin P
      BY <1>3, <3>1, <3>3
    <3>4. CASE job[p[1]].pending = p[2] /\ p[1] \in P
      <4>1. p[2] \in 1..MaxTime
        BY <3>1, <3>4, CronTimes DEF CronInv, JobsFit
      <4> QED BY <1>4, <3>1, <3>4, <4>1
    <3>5. CASE run[p].status # "none"
      BY <1>4, <3>1, <3>5
    <3>6. CASE job[p[1]].state = "removed"
      <4>1. p[1] \notin P
        BY <1>3, <3>1, <3>6
      <4>2. p[1] \notin K \cup S \cup D
        BY <1>1, <1>3, <3>1, <3>6, <4>1 DEF TickMoves
      <4> QED BY <1>3, <3>1, <3>6, <4>1, <4>2
    <3> QED BY <3>2, <3>3, <3>4, <3>5, <3>6
  <2> QED BY <2>1, <1>2 DEF CheckResultKept
<1>11. CompletedWasAnswered'
  BY <1>2, <1>4 DEF CronInv, CompletedWasAnswered
<1> QED BY <1>6, <1>7, <1>8, <1>9, <1>10, <1>11 DEF CronInv

-----------------------------------------------------------------------------
(* The steps of runs. *)

\* Steps that touch neither runs nor their inputs.
LEMMA OtherStepsKeep ==
  ASSUME CronInv,
         \/ OtherInput
         \/ \E r \in Runs : DispatchEnds(r)
         \/ \E s \in Sessions : Start(s) \/ EndTurn(s) \/ Quieten(s) \/ Passivate(s)
  PROVE  CronInv'
<1>1. UNCHANGED <<now, job, run, input, session, checks, completing, produced, commands>>
  BY DEF OtherInput, DispatchEnds, Start, EndTurn, Quieten, Passivate, tables, conversations, memory
<1>2. Origin \in Sessions
  BY DEF Sessions
<1>3. troubles' \in Nat
  <2>1. troubles' = troubles \/ Trouble
    BY DEF OtherInput, DispatchEnds, Start, EndTurn, Quieten, Passivate
  <2> QED BY <2>1, CommandCounts
<1>4. /\ turn' \in [Sessions -> BOOLEAN] /\ calm' \in [Sessions -> BOOLEAN]
      /\ current' \in [Sessions -> Runs \cup {NoRun}] /\ up' \subseteq Sessions
      /\ begun' \subseteq Runs
  <2> USE DEF CronInv, CronTypeOK
  <2>1. CASE OtherInput
    BY <2>1, <1>2 DEF OtherInput
  <2>2. CASE \E r \in Runs : DispatchEnds(r)
    BY <2>2 DEF DispatchEnds, conversations
  <2>3. CASE \E s \in Sessions : Start(s) \/ Passivate(s)
    BY <2>3 DEF Start, Passivate, conversations
  <2>4. CASE \E s \in Sessions : EndTurn(s) \/ Quieten(s)
    BY <2>4 DEF EndTurn, Quieten, memory
  <2> QED BY <2>1, <2>2, <2>3, <2>4
<1>5. CronTypeOK'
  BY <1>1, <1>3, <1>4 DEF CronInv, CronTypeOK
<1>6. JobsFit' /\ RunsArePast' /\ ReadingsStay' /\ CheckResultKept' /\ CompletedWasAnswered'
  BY <1>1 DEF CronInv, JobsFit, RunsArePast, ReadingsStay, CheckResultKept, CompletedWasAnswered
<1> QED BY <1>5, <1>6 DEF CronInv

LEMMA ElapseKeeps ==
  ASSUME CronInv, Elapse
  PROVE  CronInv'
<1>1. UNCHANGED <<job, run, input, session, turn, current, calm, up, begun, checks, completing,
                  produced, commands, troubles>>
  BY DEF Elapse, tables, conversations, memory
<1>2. /\ now' \in 0..MaxTime /\ \A n \in 1..now : n \in 1..now'
      /\ \A n \in 1..MaxTime : n <= now => n <= now'
  <2>1. now \in Nat /\ MaxTime \in Nat /\ now < MaxTime /\ now' = now + 1
    BY CronTimes DEF Elapse
  <2> QED BY <2>1
<1>3. CronTypeOK'
  BY <1>1, <1>2 DEF CronInv, CronTypeOK
<1>4. JobsFit' /\ RunsArePast'
  BY <1>1, <1>2 DEF CronInv, JobsFit, RunsArePast
<1>5. ReadingsStay' /\ CheckResultKept' /\ CompletedWasAnswered'
  BY <1>1 DEF CronInv, ReadingsStay, CheckResultKept, CompletedWasAnswered
<1> QED BY <1>3, <1>4, <1>5 DEF CronInv

\* A step after which some runs have ended, none of them completed.
LEMMA RunsEndOtherwise ==
  ASSUME CronInv, CronTypeOK', UNCHANGED <<now, job, produced>>,
         \A j \in Jobs : checks'[j] \in {checks[j], 0},
         \A s \in Sessions : completing'[s] \in {completing[s], Idle},
         \A r \in Runs :
           /\ \/ run'[r] = run[r]
              \/ run'[r] \in {FinishRun(run[r], "failed"), FinishRun(run[r], "unknown")}
           /\ input[r] = "answered" => input'[r] = "answered"
  PROVE  CronInv'
<1>1. ASSUME NEW r \in Runs
      PROVE  /\ run'[r].status = "none" <=> run[r].status = "none"
             /\ run[r].status \notin {"none", "claimed"} => run'[r].status \notin {"none", "claimed"}
             /\ input[r] = "answered" /\ run[r].status # "claimed" => input'[r] = "answered"
             /\ run'[r].status = "completed" /\ run'[r].disposition = "none" =>
                  run[r].status = "completed" /\ run[r].disposition = "none"
  <2>1. run[r] \in RunRecords
    BY DEF CronInv, CronTypeOK
  <2>2. \/ run'[r] = run[r]
        \/ run'[r] = FinishRun(run[r], "failed")
        \/ run'[r] = FinishRun(run[r], "unknown")
    OBVIOUS
  <2> QED BY <2>1, <2>2, FinishedRow DEF Active
<1>2. ASSUME NEW s \in Sessions
      PROVE  /\ completing'[s].left \subseteq Runs /\ completing'[s].answered \subseteq Runs
             /\ completing'[s].left \subseteq completing[s].left
             /\ completing'[s].answered \subseteq completing[s].answered
  <2>1. /\ completing'[s].left \subseteq Runs /\ completing'[s].answered \subseteq Runs
    BY DEF CronTypeOK
  <2>2. CASE completing'[s] = completing[s]
    BY <2>1, <2>2
  <2>3. CASE completing'[s] = Idle
    BY <2>1, <2>3 DEF Idle
  <2> QED BY <2>2, <2>3
<1> QED BY <1>1, <1>2, RunStep

LEMMA FailedRuns ==
  ASSUME CronInv, NEW s \in Sessions
  PROVE  /\ FailRuns(s) \in [Runs -> RunRecords]
         /\ \A r \in Runs : FailRuns(s)[r] \in {run[r], FinishRun(run[r], "failed")}
<1>1. \A r \in Runs : run[r] \in RunRecords /\ FinishRun(run[r], "failed") \in RunRecords
  BY FinishedRow DEF CronInv, CronTypeOK
<1> QED BY <1>1 DEF FailRuns

LEMMA FailuresKeep ==
  ASSUME CronInv,
         \/ \E r \in Runs : DispatchFails(r)
         \/ \E s \in Sessions : WorkerEnds(s) \/ Delete(s)
  PROVE  CronInv'
<1>1. CASE \E r \in Runs : DispatchFails(r)
  <2>1. PICK r \in Runs : DispatchFails(r)
    BY <1>1
  <2>2. run[r] \in RunRecords /\ FinishRun(run[r], "failed") \in RunRecords
    BY FinishedRow DEF CronInv, CronTypeOK
  <2>3. /\ run' = [run EXCEPT ![r] = FinishRun(run[r], "failed")] /\ begun' = begun \ {r}
        /\ UNCHANGED <<now, job, input, session, turn, current, calm, up, checks, completing,
                       produced, commands>>
        /\ troubles' \in Nat
    BY <2>1, CommandCounts DEF DispatchFails, conversations
  <2>4. CronTypeOK'
    BY <2>2, <2>3 DEF CronInv, CronTypeOK
  <2>5. \A q \in Runs : run'[q] \in {run[q], FinishRun(run[q], "failed")}
    BY <2>3 DEF CronInv, CronTypeOK
  <2> QED BY <2>3, <2>4, <2>5, RunsEndOtherwise
<1>2. CASE \E s \in Sessions : WorkerEnds(s)
  <2>1. PICK s \in Sessions : WorkerEnds(s)
    BY <1>2
  <2>2. /\ run' = FailRuns(s) /\ up' = up \ {s}
        /\ UNCHANGED <<now, job, input, session, turn, current, calm, begun, checks, completing,
                       produced, commands>>
        /\ troubles' \in Nat
    BY <2>1, CommandCounts DEF WorkerEnds, conversations
  <2>3. CronTypeOK'
    BY <2>2, FailedRuns DEF CronInv, CronTypeOK
  <2> QED BY <2>2, <2>3, FailedRuns, RunsEndOtherwise
<1>3. CASE \E s \in Sessions : Delete(s)
  <2>1. PICK s \in Sessions : Delete(s)
    BY <1>3
  <2>2. /\ run' \in {run, FailRuns(s)} /\ up' = up \ {s}
        /\ session' = [session EXCEPT ![s] = "deleted"]
        /\ input' = [r \in Runs |-> IF SessionOf(r) = s /\ input[r] = "pending" THEN "gone"
                                    ELSE input[r]]
        /\ turn' = [turn EXCEPT ![s] = FALSE] /\ calm' = [calm EXCEPT ![s] = FALSE]
        /\ UNCHANGED <<now, job, current, begun, checks, completing, produced, commands>>
        /\ troubles' \in Nat
    BY <2>1, CommandCounts DEF Delete
  <2>3. run' \in [Runs -> RunRecords]
    BY <2>2, FailedRuns DEF CronInv, CronTypeOK
  <2>4. CronTypeOK'
    BY <2>2, <2>3 DEF CronInv, CronTypeOK
  <2>5. \A r \in Runs : run'[r] \in {run[r], FinishRun(run[r], "failed")}
    BY <2>2, FailedRuns
  <2>6. \A r \in Runs : input[r] = "answered" => input'[r] = "answered"
    BY <2>2
  <2> QED BY <2>2, <2>4, <2>5, <2>6, RunsEndOtherwise
<1> QED BY <1>1, <1>2, <1>3

LEMMA RestartKeeps ==
  ASSUME CronInv, Restart
  PROVE  CronInv'
<1>1. /\ run' = [r \in Runs |-> IF run[r].status \in Active
                                THEN [run[r] EXCEPT !.status = "unknown"] ELSE run[r]]
      /\ up' = {} /\ begun' = {}
      /\ checks' = [j \in Jobs |-> 0] /\ completing' = [s \in Sessions |-> Idle]
      /\ UNCHANGED <<now, job, input, session, turn, current, calm, produced, commands>>
      /\ troubles' \in Nat
  BY CommandCounts DEF Restart, conversations
<1>2. \A r \in Runs : run'[r] = FinishRun(run[r], "unknown")
  BY <1>1 DEF FinishRun
<1>3. \A r \in Runs : run[r] \in RunRecords /\ FinishRun(run[r], "unknown") \in RunRecords
  BY FinishedRow DEF CronInv, CronTypeOK
<1>4. run' \in [Runs -> RunRecords]
  BY <1>1, <1>2, <1>3
<1>5. Idle \in [left : SUBSET Runs, answered : SUBSET Runs, reading : BOOLEAN]
  BY DEF Idle
<1>6. CronTypeOK'
  BY <1>1, <1>4, <1>5 DEF CronInv, CronTypeOK
<1> QED BY <1>1, <1>2, <1>6, RunsEndOtherwise

LEMMA DispatchKeeps ==
  ASSUME CronInv, NEW r \in Runs, Dispatch(r)
  PROVE  CronInv'
<1> DEFINE mode == IF r[1] \in OriginJobs /\ session[Origin] = "live" THEN "origin" ELSE "fresh"
           row == [run[r] EXCEPT !.status = "running", !.mode = mode]
<1>1. run[r] \in RunRecords /\ run[r].status = "claimed"
  BY DEF Dispatch, CronInv, CronTypeOK
<1>2. row \in RunRecords /\ row.status = "running"
  BY <1>1 DEF RunRecords
<1>3. run' = [run EXCEPT ![r] = row]
  BY DEF Dispatch
<1>4. /\ input' = [input EXCEPT ![r] = "pending"] /\ begun' = begun \cup {r}
      /\ \E s \in Sessions : session' = [session EXCEPT ![s] = "live"]
      /\ UNCHANGED <<now, job, turn, current, calm, up, checks, completing, produced, commands,
                     troubles>>
  BY DEF Dispatch, Sessions
<1> HIDE DEF row
<1>5. CronTypeOK'
  BY <1>2, <1>3, <1>4 DEF CronInv, CronTypeOK
<1>6. /\ run'[r] = row /\ input'[r] = "pending"
      /\ \A q \in Runs : q # r => run'[q] = run[q] /\ input'[q] = input[q]
  BY <1>3, <1>4 DEF CronInv, CronTypeOK
<1>7. ASSUME NEW s \in Sessions
      PROVE  completing'[s].left \subseteq Runs /\ completing'[s].answered \subseteq Runs
  BY <1>5 DEF CronTypeOK
<1> QED BY <1>1, <1>2, <1>4, <1>5, <1>6, <1>7, RunStep

LEMMA TranscriptKeeps ==
  ASSUME CronInv, NEW r \in Runs, Incorporate(r) \/ Answer(r)
  PROVE  CronInv'
<1>1. PICK shown \in {"heard", "answered"} :
        input' = [input EXCEPT ![r] = shown] /\ (shown = "heard" => input[r] = "pending")
  BY DEF Incorporate, Answer
<1>2. UNCHANGED <<now, job, run, session, up, begun, checks, completing, produced, commands,
                  troubles>>
  BY DEF Incorporate, Answer, tables, memory
<1>3. /\ turn' \in [Sessions -> BOOLEAN] /\ calm' \in [Sessions -> BOOLEAN]
      /\ current' \in [Sessions -> Runs \cup {NoRun}]
  <2>1. CASE Incorporate(r)
    <3>1. PICK s : /\ turn' = [turn EXCEPT ![s] = TRUE] /\ current' = [current EXCEPT ![s] = r]
                   /\ calm' = [calm EXCEPT ![s] = FALSE]
      BY <2>1 DEF Incorporate
    <3> QED BY <3>1 DEF CronInv, CronTypeOK
  <2>2. CASE Answer(r)
    BY <2>2 DEF Answer, CronInv, CronTypeOK
  <2> QED BY <2>1, <2>2
<1>4. CronTypeOK'
  BY <1>1, <1>2, <1>3 DEF CronInv, CronTypeOK
<1>5. \A q \in Runs : input[q] = "answered" => input'[q] = "answered"
  BY <1>1 DEF CronInv, CronTypeOK
<1>6. ASSUME NEW s \in Sessions
      PROVE  completing'[s].left \subseteq Runs /\ completing'[s].answered \subseteq Runs
  BY <1>4 DEF CronTypeOK
<1>7. \A q \in Runs : run'[q].status = "completed" /\ run'[q].disposition = "none" =>
        run[q].status = "completed" /\ run[q].disposition = "none"
  BY <1>2
<1> QED BY <1>2, <1>4, <1>5, <1>6, <1>7, RunStep

-----------------------------------------------------------------------------
(* The steps that complete runs. *)

LEMMA ReportKeeps ==
  ASSUME CronInv, NEW r \in Runs, NEW d \in {"deliver", "no_finding"}, Report(r, d)
  PROVE  CronInv'
<1> DEFINE told == [run[r] EXCEPT !.disposition = d]
           row == FinishRun(told, "completed")
<1>1. run[r] \in RunRecords /\ run[r].status = "running"
  BY DEF Report, CronInv, CronTypeOK
<1>2. told \in RunRecords /\ told.status = "running" /\ told.disposition = d
  BY <1>1 DEF RunRecords
<1> HIDE DEF told
<1>3. row \in RunRecords /\ row.status = "completed" /\ row.disposition = d
  BY <1>2, FinishedRow DEF Active
<1>4. run' = [run EXCEPT ![r] = row]
  BY DEF Report, told
<1>5. UNCHANGED <<now, job, input, session, turn, current, calm, up, begun, checks, completing,
                  produced, commands, troubles>>
  BY DEF Report, conversations, memory
<1> HIDE DEF row
<1>6. CronTypeOK'
  BY <1>3, <1>4, <1>5 DEF CronInv, CronTypeOK
<1>7. run'[r] = row /\ \A q \in Runs : q # r => run'[q] = run[q]
  BY <1>4 DEF CronInv, CronTypeOK
<1>8. ASSUME NEW s \in Sessions
      PROVE  completing'[s].left \subseteq Runs /\ completing'[s].answered \subseteq Runs
  BY <1>6 DEF CronTypeOK
<1> QED BY <1>1, <1>3, <1>5, <1>6, <1>7, <1>8, RunStep

LEMMA CompleteBeginKeeps ==
  ASSUME CronInv, NEW s \in Sessions, CompleteBegin(s)
  PROVE  CronInv'
<1> DEFINE op == [left |-> ActiveRunsOf(s), answered |-> AnsweredRuns(s), reading |-> TRUE]
<1>1. /\ op \in [left : SUBSET Runs, answered : SUBSET Runs, reading : BOOLEAN]
      /\ \A r \in op.left : run[r].status = "running"
      /\ \A r \in op.answered : run[r].status = "running" /\ input[r] = "answered"
  BY DEF ActiveRunsOf, AnsweredRuns, ActiveRuns
<1>2. /\ completing' = [completing EXCEPT ![s] = op]
      /\ UNCHANGED <<now, job, run, input, session, turn, current, calm, up, begun, checks,
                     produced, commands, troubles>>
  BY DEF CompleteBegin, tables, conversations
<1> HIDE DEF op
<1>3. CronTypeOK'
  BY <1>1, <1>2 DEF CronInv, CronTypeOK
<1>4. completing'[s] = op /\ \A q \in Sessions : q # s => completing'[q] = completing[q]
  BY <1>2 DEF CronInv, CronTypeOK
<1>5. ASSUME NEW q \in Sessions
      PROVE  /\ completing'[q].left \subseteq Runs /\ completing'[q].answered \subseteq Runs
             /\ \A r \in completing'[q].left :
                  r \in completing[q].left \/ run[r].status \notin {"none", "claimed"}
             /\ \A r \in completing'[q].answered :
                  \/ r \in completing[q].answered
                  \/ run[r].status \notin {"none", "claimed"} /\ input[r] = "answered"
  <2>1. completing'[q].left \subseteq Runs /\ completing'[q].answered \subseteq Runs
    BY <1>3 DEF CronTypeOK
  <2> QED BY <2>1, <1>1, <1>4
<1>6. \A r \in Runs : run'[r] = run[r] /\ input'[r] = input[r]
  BY <1>2
<1> QED BY <1>2, <1>3, <1>5, <1>6, RunStep

LEMMA CompleteRunsKeeps ==
  ASSUME CronInv, NEW s \in Sessions, CompleteRuns(s)
  PROVE  CronInv'
<1> DEFINE c == completing[s]
<1>1. /\ UNCHANGED <<now, job, input, session, turn, current, calm, up, begun, checks, produced,
                     commands, troubles>>
  BY DEF CompleteRuns, conversations
<1>2. /\ c \in [left : SUBSET Runs, answered : SUBSET Runs, reading : BOOLEAN]
      /\ Idle \in [left : SUBSET Runs, answered : SUBSET Runs, reading : BOOLEAN]
      /\ Idle.left = {} /\ Idle.answered = {}
  BY DEF CronInv, CronTypeOK, Idle
<1>3. PICK op : /\ completing' = [completing EXCEPT ![s] = op]
                /\ op \in [left : SUBSET Runs, answered : SUBSET Runs, reading : BOOLEAN]
                /\ op.left \subseteq c.left /\ op.answered \subseteq c.answered
  <2>1. CASE completing' = [completing EXCEPT ![s] = Idle]
    BY <2>1, <1>2
  <2>2. CASE \E r \in c.left, passed \in SUBSET c.left :
               LET left == c.left \ (passed \cup {r}) IN
               completing' = [completing EXCEPT ![s] =
                 IF left = {} THEN Idle ELSE [c EXCEPT !.left = left, !.reading = FALSE]]
    <3>1. PICK r \in c.left, passed \in SUBSET c.left :
            LET left == c.left \ (passed \cup {r}) IN
            completing' = [completing EXCEPT ![s] =
              IF left = {} THEN Idle ELSE [c EXCEPT !.left = left, !.reading = FALSE]]
      BY <2>2
    <3> DEFINE left == c.left \ (passed \cup {r})
               rest == [c EXCEPT !.left = left, !.reading = FALSE]
    <3>2. left \subseteq c.left
      OBVIOUS
    <3> HIDE DEF left
    <3>3. /\ rest \in [left : SUBSET Runs, answered : SUBSET Runs, reading : BOOLEAN]
          /\ rest.left \subseteq c.left /\ rest.answered \subseteq c.answered
      <4> HIDE DEF c
      <4> QED BY <1>2, <3>2
    <3>4. \/ completing' = [completing EXCEPT ![s] = Idle]
          \/ completing' = [completing EXCEPT ![s] = rest]
      BY <3>1 DEF left
    <3> HIDE DEF rest
    <3> QED BY <1>2, <3>3, <3>4
  <2> QED BY <2>1, <2>2 DEF CompleteRuns
<1>4. CASE run' = run
  <2>1. CronTypeOK'
    BY <1>1, <1>3, <1>4 DEF CronInv, CronTypeOK
  <2>2. completing'[s] = op /\ \A q \in Sessions : q # s => completing'[q] = completing[q]
    BY <1>3 DEF CronInv, CronTypeOK
  <2>3. ASSUME NEW q \in Sessions
        PROVE  /\ completing'[q].left \subseteq Runs /\ completing'[q].answered \subseteq Runs
               /\ completing'[q].left \subseteq completing[q].left
               /\ completing'[q].answered \subseteq completing[q].answered
    <3>1. completing'[q].left \subseteq Runs /\ completing'[q].answered \subseteq Runs
      BY <2>1 DEF CronTypeOK
    <3> QED BY <3>1, <2>2, <1>3
  <2>4. \A r \in Runs : run'[r] = run[r] /\ input'[r] = input[r]
    BY <1>1, <1>4
  <2> QED BY <1>1, <2>1, <2>3, <2>4, RunStep
<1>5. CASE \E r \in c.left :
             run' = [run EXCEPT ![r] = FinishRun(@,
               IF r \in c.answered \/ @.disposition # "none" THEN "completed" ELSE "failed")]
  <2>1. PICK r \in c.left :
          run' = [run EXCEPT ![r] = FinishRun(@,
            IF r \in c.answered \/ @.disposition # "none" THEN "completed" ELSE "failed")]
    BY <1>5
  <2> DEFINE status == IF r \in c.answered \/ run[r].disposition # "none" THEN "completed"
                       ELSE "failed"
             row == FinishRun(run[r], status)
  <2>2. r \in Runs /\ run[r] \in RunRecords /\ status \in {"completed", "failed", "unknown"}
    BY <1>2 DEF CronInv, CronTypeOK
  <2>3. run' = [run EXCEPT ![r] = row]
    BY <2>1
  <2>4. run[r].status \notin {"none", "claimed"} /\ (r \in c.answered => input[r] = "answered")
    BY DEF CronInv, ReadingsStay
  <2>5. status = "completed" => run[r].disposition # "none" \/ input[r] = "answered"
    BY <2>4
  <2> HIDE DEF status
  <2>6. /\ row \in RunRecords /\ row.disposition = run[r].disposition
        /\ row.status = IF run[r].status \in Active THEN status ELSE run[r].status
    BY <2>2, FinishedRow
  <2> HIDE DEF row
  <2>7. CronTypeOK'
    BY <1>1, <1>3, <2>3, <2>6 DEF CronInv, CronTypeOK
  <2>8. completing'[s] = op /\ \A q \in Sessions : q # s => completing'[q] = completing[q]
    BY <1>3 DEF CronInv, CronTypeOK
  <2>9. ASSUME NEW q \in Sessions
        PROVE  /\ completing'[q].left \subseteq Runs /\ completing'[q].answered \subseteq Runs
               /\ completing'[q].left \subseteq completing[q].left
               /\ completing'[q].answered \subseteq completing[q].answered
    <3>1. completing'[q].left \subseteq Runs /\ completing'[q].answered \subseteq Runs
      BY <2>7 DEF CronTypeOK
    <3> QED BY <3>1, <2>8, <1>3
  <2>10. run'[r] = row /\ \A q \in Runs : q # r => run'[q] = run[q]
    BY <2>2, <2>3 DEF CronInv, CronTypeOK
  <2>11. ASSUME NEW q \in Runs
         PROVE  /\ run'[q].status = "none" <=> run[q].status = "none"
                /\ run[q].status \notin {"none", "claimed"} => run'[q].status \notin {"none", "claimed"}
                /\ run'[q].status = "completed" /\ run'[q].disposition = "none" =>
                     \/ run[q].status = "completed" /\ run[q].disposition = "none"
                     \/ input[q] = "answered"
    <3>1. CASE q # r
      BY <2>10, <3>1
    <3>2. CASE q = r
      BY <2>2, <2>4, <2>5, <2>6, <2>10, <3>2 DEF status
    <3> QED BY <3>1, <3>2
  <2> QED BY <1>1, <2>7, <2>9, <2>11, RunStep
<1> QED BY <1>4, <1>5 DEF CompleteRuns

-----------------------------------------------------------------------------
(* The theorems. *)

LEMMA CronInitially ==
  ASSUME Init
  PROVE  CronInv
<1>1. /\ NoJob \in JobRecords /\ NoJob.state = "none" /\ NoJob.next = 0 /\ NoJob.pending = 0
      /\ NoRunRow \in RunRecords /\ NoRunRow.status = "none"
      /\ Idle \in [left : SUBSET Runs, answered : SUBSET Runs, reading : BOOLEAN]
      /\ Idle.left = {} /\ Idle.answered = {}
  BY DEF NoJob, NoRunRow, Idle, JobRecords, RunRecords
<1>2. 0 \in 0..MaxTime /\ 0 \notin 1..MaxTime
  BY CronAssumption
<1>3. CronTypeOK
  BY <1>1, <1>2 DEF Init, CronTypeOK
<1>4. \A j \in Jobs, n \in 1..MaxTime : run[<<j, n>>].status = "none"
  BY <1>1, OccurrenceIsRun DEF Init
<1>5. JobsFit /\ RunsArePast
  BY <1>1, <1>2, <1>4 DEF Init, JobsFit, RunsArePast
<1>6. ReadingsStay /\ CheckResultKept /\ CompletedWasAnswered
  BY <1>1 DEF Init, ReadingsStay, CheckResultKept, CompletedWasAnswered
<1> QED BY <1>3, <1>5, <1>6 DEF CronInv

LEMMA CronStep ==
  ASSUME CronInv, [Next]_vars
  PROVE  CronInv'
<1>1. CASE UNCHANGED vars
  BY <1>1 DEF vars, tables, conversations, memory, CronInv, CronTypeOK, JobsFit, RunsArePast,
              ReadingsStay, CheckResultKept, CompletedWasAnswered
<1>2. CASE Elapse \/ Tick \/ OtherInput \/ Restart
  BY <1>2, ElapseKeeps, TickKeeps, OtherStepsKeep, RestartKeeps
<1>3. ASSUME NEW j \in Jobs,
             \/ \E paused, check \in BOOLEAN, n \in Repeats : Create(j, paused, n, check)
             \/ \E sc, rc, check \in BOOLEAN, n \in Repeats : Update(j, sc, rc, n, check)
             \/ Pause(j) \/ Resume(j) \/ Remove(j) \/ RunNow(j)
             \/ \E outcome \in {"quiet", "output", "failure"} : CheckEnds(j, outcome)
      PROVE  CronInv'
  BY <1>3, CreateKeeps, UpdateKeeps, PauseResumeRemoveKeep, RunNowKeeps, CheckEndsKeeps
<1>4. ASSUME NEW r \in Runs,
             \/ Dispatch(r) \/ DispatchEnds(r) \/ DispatchFails(r)
             \/ Incorporate(r) \/ Answer(r)
             \/ \E d \in {"deliver", "no_finding"} : Report(r, d)
      PROVE  CronInv'
  BY <1>4, DispatchKeeps, OtherStepsKeep, FailuresKeep, TranscriptKeeps, ReportKeeps
<1>5. ASSUME NEW s \in Sessions,
             \/ Start(s) \/ EndTurn(s) \/ Quieten(s) \/ WorkerEnds(s) \/ Passivate(s) \/ Delete(s)
             \/ CompleteBegin(s) \/ CompleteRuns(s)
      PROVE  CronInv'
  BY <1>5, OtherStepsKeep, FailuresKeep, CompleteBeginKeeps, CompleteRunsKeeps
<1> QED BY <1>1, <1>2, <1>3, <1>4, <1>5 DEF Next

\* The inductive invariant holds of every state: the tables are well formed, a job's three
\* occurrences differ and are new, and what an operation that completes runs has read stays true.
THEOREM CronInvariant == Spec => []CronInv
<1>1. Init => CronInv
  BY CronInitially
<1>2. CronInv /\ [Next]_vars => CronInv'
  BY CronStep
<1> QED BY <1>1, <1>2, PTL DEF Spec

\* Every occurrence of a job that calls for a run gets one run, whenever its check ends, whatever
\* else is done to the job meanwhile (cron-store.mjs: setPendingCheck, claimScheduledRun).
THEOREM OccurrencesAlwaysKept == Spec => []OccurrencesAreKept
<1>1. CronInv => OccurrencesAreKept
  BY DEF CronInv, JobsFit, OccurrencesAreKept, OccurrenceIsNew
<1> QED BY <1>1, CronInvariant, PTL

\* A run completed without a report has an answer of its own in the transcript
\* (supervisor.mjs: #completeCronRunsForSession).
THEOREM CompletedAlwaysAnswered == Spec => []CompletedWasAnswered
<1>1. CronInv => CompletedWasAnswered
  BY DEF CronInv
<1> QED BY <1>1, CronInvariant, PTL

-----------------------------------------------------------------------------
(* Which model a session infers with.                                      *)

Requests == [id : Nat \ {0}, model : Models, follow : BOOLEAN, error : BOOLEAN]
TaskRecords == [id : Nat, model : Models, wanted : BOOLEAN, follow : BOOLEAN]
Receipts == [id : Nat, error : BOOLEAN, model : Models \cup {None}]
PolicyRows == [model : Models, source : {"settings", "explicit"}, pending : Requests \cup {None}]
Engines == [model : Models, want : Requests \cup {None}, task : TaskRecords \cup {None}, busy : BOOLEAN]

InferenceTypeOK ==
  /\ policy \in PolicyRows /\ settings \in Models
  /\ stage \in {"off", "reading", "starting", "on"} /\ generation \in Nat
  /\ engine \in Engines /\ mail \in Seq(Requests) /\ reports \in Seq(Receipts)
  /\ picked \in [model : Models, state : Models, expected : Models] \cup {None}
  /\ change \in [from : Models, to : Models, moved : BOOLEAN] \cup {None}
  /\ choices \in Nat /\ choice \in Models /\ adrift \in BOOLEAN /\ faults \in Nat

\* A session without a worker has nothing under way; a receipt of what was applied tells the
\* model; what is applied is wanted until it is replaced; every request has an id that was handed out.
NothingSent(e, ms, rs) == ms = <<>> /\ rs = <<>> /\ e.want = None /\ e.task = None
IdsGiven(n, e, ms, rs) ==
  /\ e.want # None => e.want.id <= n
  /\ e.task # None => e.task.id <= n
  /\ \A i \in DOMAIN ms : ms[i].id <= n
  /\ \A i \in DOMAIN rs : rs[i].id <= n
UnderWay ==
  /\ ~Live => NothingSent(engine, mail, reports)
  /\ picked # None => stage = "on"
  /\ engine.task # None /\ engine.task.wanted => engine.want # None
  /\ \A i \in DOMAIN reports : ~reports[i].error => reports[i].model # None
  /\ policy.pending # None => policy.pending.id <= choices
  /\ IdsGiven(choices, engine, mail, reports)

\* What is pending, or else what is acknowledged, is the last choice.
ChoiceStands == policy.pending # None => policy.pending.model = choice
ModelStands == policy.pending = None => policy.model = choice

\* All that is under way is the choice `id` of the model m.
IsChoice(x, id, m) == x.id = id /\ x.model = m
MailIs(ms, id, m) == \A j \in DOMAIN ms : IsChoice(ms[j], id, m)
WantIs(e, id, m) == e.want # None => IsChoice(e.want, id, m)
TaskIs(e, id, m) == e.task # None => IsChoice(e.task, id, m)
ReportsFrom(rs, i, m) == \A j \in DOMAIN rs : i <= j => rs[j].model \in {None, m}

\* Whatever is under way behind the choice `id` is that choice, too; behind its receipt, the
\* worker has its model.
NothingOvertakes(id, m, e, ms, rs) ==
  /\ \A i, j \in DOMAIN ms : ms[i].id = id /\ i <= j => IsChoice(ms[j], id, m)
  /\ e.want # None /\ e.want.id = id => WantIs(e, id, m) /\ MailIs(ms, id, m)
  /\ e.task # None /\ e.task.id = id => TaskIs(e, id, m) /\ WantIs(e, id, m) /\ MailIs(ms, id, m)
  /\ \A i \in DOMAIN rs : ~rs[i].error /\ rs[i].id = id =>
       /\ e.model = m /\ TaskIs(e, id, m) /\ WantIs(e, id, m) /\ MailIs(ms, id, m)
       /\ ReportsFrom(rs, i, m)
LatestIsLast ==
  policy.pending # None => NothingOvertakes(policy.pending.id, policy.pending.model, engine, mail, reports)

\* With nothing pending, all that is under way is what is acknowledged.
Agreed(m, e, ms, rs) ==
  /\ e.model = m
  /\ \A i \in DOMAIN ms : ms[i].model = m
  /\ e.want # None => e.want.model = m
  /\ e.task # None => e.task.model = m
  /\ ReportsFrom(rs, 1, m)
SettledAgrees ==
  policy.pending = None /\ Live =>
    \/ Agreed(policy.model, engine, mail, reports)
    \/ stage = "starting" /\ NothingSent(engine, mail, reports)
PickIsTrue == picked # None /\ policy.pending = None => picked.state = policy.model

\* The last receipt that tells a model tells the worker's, or the one before what it applies;
\* without one, the row has it.
Applying(e, m) == e.model = m \/ (e.task # None /\ e.model = e.task.model)
Untold(rs, i) == \A j \in DOMAIN rs : i < j => rs[j].model = None
LastTells(e, rs) == \A i \in DOMAIN rs : rs[i].model # None /\ Untold(rs, i) => Applying(e, rs[i].model)
ReportsTell ==
  /\ LastTells(engine, reports)
  /\ stage = "on" /\ ~adrift /\ Untold(reports, 0) => Applying(engine, policy.model)

\* The inductive invariant.
InferenceInv ==
  /\ InferenceTypeOK /\ UnderWay /\ ChoiceStands /\ ModelStands /\ LatestIsLast
  /\ SettledAgrees /\ PickIsTrue /\ ReportsTell

-----------------------------------------------------------------------------
(* Lemmas about the operators. *)

\* What is taken from a queue, and what stays.
LEMMA QueueTaken ==
  ASSUME NEW S, NEW s \in Seq(S), s # <<>>
  PROVE  /\ Tail(s) \in Seq(S) /\ Head(s) \in S /\ Head(s) = s[1] /\ 1 \in DOMAIN s
         /\ \A i \in DOMAIN Tail(s) : i \in Nat /\ 1 <= i /\ i + 1 \in DOMAIN s /\ Tail(s)[i] = s[i + 1]
OBVIOUS

\* What is put at the end of a queue.
LEMMA QueuePut ==
  ASSUME NEW S, NEW s \in Seq(S), NEW x \in S
  PROVE  /\ Append(s, x) \in Seq(S) /\ Len(s) \in Nat /\ Len(s) + 1 \in DOMAIN Append(s, x)
         /\ Append(s, x)[Len(s) + 1] = x
         /\ \A i \in DOMAIN s : i \in Nat /\ i <= Len(s) /\ i \in DOMAIN Append(s, x) /\ Append(s, x)[i] = s[i]
         /\ \A i \in DOMAIN Append(s, x) : i \in DOMAIN s \/ i = Len(s) + 1
OBVIOUS

\* None is no request, no task and no model.
LEMMA NoneIsNone == None \notin Models /\ None \notin Requests /\ None \notin TaskRecords
BY NoneAssumption DEF Requests, TaskRecords

\* The type of the record fields.
LEMMA EngineFields ==
  ASSUME NEW e \in Engines
  PROVE  /\ e.model \in Models /\ e.busy \in BOOLEAN
         /\ e.want # None => e.want \in Requests
         /\ e.task # None => e.task \in TaskRecords
BY DEF Engines

LEMMA RequestFields ==
  ASSUME NEW r \in Requests
  PROVE  r.id \in Nat \ {0} /\ r.model \in Models /\ r.follow \in BOOLEAN /\ r.error \in BOOLEAN
BY DEF Requests

LEMMA RequestMarked ==
  ASSUME NEW r \in Requests, NEW f \in BOOLEAN
  PROVE  /\ [r EXCEPT !.error = f] \in Requests
         /\ [r EXCEPT !.error = f].id = r.id /\ [r EXCEPT !.error = f].model = r.model
         /\ [r EXCEPT !.error = f].follow = r.follow
BY DEF Requests

LEMMA TaskFields ==
  ASSUME NEW r \in TaskRecords
  PROVE  /\ r.id \in Nat /\ r.model \in Models /\ r.follow \in BOOLEAN /\ r.wanted \in BOOLEAN
         /\ [r EXCEPT !.wanted = FALSE] \in TaskRecords
         /\ [r EXCEPT !.wanted = FALSE].id = r.id /\ [r EXCEPT !.wanted = FALSE].model = r.model
BY DEF TaskRecords

LEMMA ReceiptFields ==
  ASSUME NEW r \in Receipts
  PROVE  r.id \in Nat /\ r.error \in BOOLEAN /\ r.model \in Models \cup {None}
BY DEF Receipts

LEMMA PolicyFields ==
  ASSUME NEW row \in PolicyRows
  PROVE  /\ row.model \in Models /\ row.source \in {"settings", "explicit"}
         /\ row.pending # None => row.pending \in Requests
BY DEF PolicyRows

-----------------------------------------------------------------------------
(* The row. *)

\* What a receipt makes of the row: it clears or keeps what is pending.
LEMMA RecordedRow ==
  ASSUME NEW row \in PolicyRows, NEW r \in Receipts, ~r.error => r.model # None
  PROVE  /\ Recorded(row, r) \in PolicyRows
         /\ Recorded(row, r).pending = None =>
              row.pending = None \/ (~r.error /\ row.pending.id = r.id)
         /\ Recorded(row, r).pending # None =>
              /\ row.pending # None
              /\ Recorded(row, r).pending.id = row.pending.id /\ Recorded(row, r).pending.model = row.pending.model
              /\ r.error \/ row.pending.id # r.id
         /\ Recorded(row, r).model = IF r.model = None \/ (r.error /\ Follows(row)) THEN row.model ELSE r.model
<1> USE PolicyFields, ReceiptFields, RequestFields, NoneIsNone
<1>1. CASE ~r.error
  BY <1>1 DEF Recorded, Updated, PolicyRows, Holds, Follows
<1>2. CASE r.error
  <2> DEFINE known == IF r.model # None /\ ~Follows(row) THEN Updated(row, r.model, 0) ELSE row
             after == IF Holds(known, r.id) THEN [known EXCEPT !.pending.error = TRUE] ELSE known
  <2>1. Recorded(row, r) = after
    BY <1>2 DEF Recorded
  <2>2. known \in PolicyRows /\ known.pending = row.pending
    BY DEF Updated, PolicyRows, Follows, Holds
  <2>3. known.model = IF r.model = None \/ Follows(row) THEN row.model ELSE r.model
    BY DEF Updated, PolicyRows
  <2> HIDE DEF known
  <2>4. CASE Holds(known, r.id)
    <3> DEFINE failed == [known.pending EXCEPT !.error = TRUE]
    <3>1. known.pending \in Requests /\ row.pending # None /\ row.pending \in Requests
      BY <2>2, <2>4 DEF Holds
    <3>2. failed \in Requests /\ failed.id = row.pending.id /\ failed.model = row.pending.model
      BY <2>2, <3>1, RequestMarked
    <3>3. after = [known EXCEPT !.pending = failed]
      BY <2>4
    <3> HIDE DEF failed
    <3>4. after \in PolicyRows /\ after.pending = failed /\ after.model = known.model
      BY <2>2, <3>2, <3>3 DEF PolicyRows
    <3> HIDE DEF after
    <3>5. failed # None
      BY <3>2
    <3> QED
      BY <1>2, <2>1, <2>3, <3>1, <3>2, <3>4, <3>5
  <2>5. CASE ~Holds(known, r.id)
    BY <1>2, <2>1, <2>2, <2>3, <2>5
  <2> QED
    BY <2>4, <2>5
<1> QED
  BY <1>1, <1>2, ReceiptFields

-----------------------------------------------------------------------------
(* Types. *)

\* A new choice.
LEMMA ChoiceIsRequest ==
  ASSUME NEW n \in Nat, NEW m \in Models, NEW f \in BOOLEAN
  PROVE  /\ Choice(n + 1, m, f) \in Requests /\ Choice(n + 1, m, f) # None
         /\ Choice(n + 1, m, f).id = n + 1 /\ Choice(n + 1, m, f).model = m /\ Choice(n + 1, m, f).follow = f
<1>1. n + 1 \in Nat \ {0}
  OBVIOUS
<1>2. Choice(n + 1, m, f) \in Requests
  BY <1>1 DEF Choice, Requests
<1> QED
  BY <1>2, NoneIsNone DEF Choice

\* What is pending is delivered.
LEMMA Delivered ==
  ASSUME NEW row \in PolicyRows, mail \in Seq(Requests), Sends(row)
  PROVE  /\ mail' \in Seq(Requests)
         /\ row.pending = None => mail' = mail
         /\ row.pending # None =>
              /\ [row.pending EXCEPT !.error = FALSE] \in Requests
              /\ mail' = Append(mail, [row.pending EXCEPT !.error = FALSE])
              /\ [row.pending EXCEPT !.error = FALSE].id = row.pending.id
              /\ [row.pending EXCEPT !.error = FALSE].model = row.pending.model
<1>1. CASE row.pending = None
  BY <1>1 DEF Sends
<1>2. CASE row.pending # None
  <2> DEFINE sent == [row.pending EXCEPT !.error = FALSE]
  <2>1. sent \in Requests /\ sent.id = row.pending.id /\ sent.model = row.pending.model
    BY <1>2, PolicyFields, RequestMarked
  <2>2. mail' = Append(mail, sent)
    BY <1>2 DEF Sends
  <2> HIDE DEF sent
  <2>3. Append(mail, sent) \in Seq(Requests)
    BY <2>1
  <2> USE DEF sent
  <2> QED
    BY <1>2, <2>1, <2>2, <2>3
<1> QED
  BY <1>1, <1>2

\* A receipt of the worker.
LEMMA Told ==
  ASSUME NEW n \in Nat, NEW f \in BOOLEAN, NEW m \in Models \cup {None}, Says(n, f, m), reports \in Seq(Receipts)
  PROVE  /\ reports' \in Seq(Receipts) /\ [id |-> n, error |-> f, model |-> m] \in Receipts
         /\ reports' = Append(reports, [id |-> n, error |-> f, model |-> m])
BY QueuePut DEF Says, Receipts

\* What was on its way to a worker that ends has failed.
LEMMA UndeliveredRow ==
  ASSUME policy \in PolicyRows
  PROVE  /\ Undelivered \in PolicyRows /\ Undelivered.model = policy.model
         /\ Undelivered.pending = None <=> policy.pending = None
         /\ policy.pending # None =>
              Undelivered.pending.id = policy.pending.id /\ Undelivered.pending.model = policy.pending.model
<1> DEFINE failed == [policy.pending EXCEPT !.error = TRUE]
<1>1. CASE Undelivered = policy
  BY <1>1
<1>2. CASE policy.pending # None /\ Undelivered = [policy EXCEPT !.pending = failed]
  <2>1. failed \in Requests /\ failed.id = policy.pending.id /\ failed.model = policy.pending.model
    BY <1>2, PolicyFields, RequestMarked
  <2> HIDE DEF failed
  <2> QED
    BY <1>2, <2>1, NoneIsNone DEF PolicyRows
<1> QED
  BY <1>1, <1>2 DEF Undelivered

\* A worker that ends.
LEMMA OffEngine ==
  ASSUME NEW m \in Models
  PROVE  Off(m) \in Engines /\ Off(m).model = m /\ Off(m).want = None /\ Off(m).task = None
BY DEF Off, Engines

\* The request that is accepted replaces what was wanted.
SelectedEngine(e, r) ==
  [e EXCEPT !.want = [r EXCEPT !.error = FALSE], !.task = IF @ = None THEN None ELSE [@ EXCEPT !.wanted = FALSE]]
LEMMA Selected ==
  ASSUME NEW e \in Engines, NEW r \in Requests
  PROVE  /\ SelectedEngine(e, r) \in Engines /\ SelectedEngine(e, r).model = e.model
         /\ SelectedEngine(e, r).want # None
         /\ SelectedEngine(e, r).want.id = r.id /\ SelectedEngine(e, r).want.model = r.model
         /\ SelectedEngine(e, r).task = None <=> e.task = None
         /\ e.task # None => /\ SelectedEngine(e, r).task.id = e.task.id
                             /\ SelectedEngine(e, r).task.model = e.task.model
<1> DEFINE want == [r EXCEPT !.error = FALSE]
           task == IF e.task = None THEN None ELSE [e.task EXCEPT !.wanted = FALSE]
<1>1. want \in Requests /\ want # None /\ want.id = r.id /\ want.model = r.model
  BY RequestMarked, NoneIsNone
<1>2. /\ task \in TaskRecords \cup {None} /\ (task = None <=> e.task = None)
      /\ e.task # None => task.id = e.task.id /\ task.model = e.task.model
  BY EngineFields, TaskFields, NoneIsNone
<1>3. SelectedEngine(e, r) = [e EXCEPT !.want = want, !.task = task]
  BY DEF SelectedEngine, Engines
<1> HIDE DEF want, task
<1> QED
  BY <1>1, <1>2, <1>3 DEF Engines

\* The choice that is wanted is applied.
AppliedEngine(e) ==
  [e EXCEPT !.task = [id |-> e.want.id, model |-> e.want.model, wanted |-> TRUE, follow |-> e.want.follow]]
LEMMA Begun ==
  ASSUME NEW e \in Engines, e.want # None
  PROVE  /\ AppliedEngine(e) \in Engines /\ AppliedEngine(e).model = e.model /\ AppliedEngine(e).want = e.want
         /\ AppliedEngine(e).task # None
         /\ AppliedEngine(e).task.id = e.want.id /\ AppliedEngine(e).task.model = e.want.model
<1> DEFINE task == [id |-> e.want.id, model |-> e.want.model, wanted |-> TRUE, follow |-> e.want.follow]
<1>0. e.want \in Requests
  BY EngineFields
<1>1. task \in TaskRecords
  BY <1>0 DEF TaskRecords, Requests
<1>3. task # None /\ task.id = e.want.id /\ task.model = e.want.model
  BY <1>1, NoneIsNone
<1> HIDE DEF task
<1>2. AppliedEngine(e) = [e EXCEPT !.task = task]
  BY DEF AppliedEngine, task
<1> QED
  BY <1>1, <1>2, <1>3 DEF Engines

\* What is wanted once a task has ended.
LEMMA WantedAfter ==
  ASSUME engine \in Engines, engine.task.wanted => engine.want # None, NEW f \in BOOLEAN
  PROVE  /\ WantAfter(f) \in Requests \cup {None}
         /\ WantAfter(f) # None => /\ engine.want # None
                                   /\ WantAfter(f).id = engine.want.id /\ WantAfter(f).model = engine.want.model
<1> DEFINE failed == [engine.want EXCEPT !.error = TRUE]
<1>1. engine.want # None => failed \in Requests /\ failed.id = engine.want.id /\ failed.model = engine.want.model
  BY EngineFields, RequestMarked
<1>2. WantAfter(f) = IF ~engine.task.wanted THEN engine.want ELSE IF f THEN failed ELSE None
  BY DEF WantAfter
<1> HIDE DEF failed
<1> QED
  BY <1>1, <1>2, EngineFields

\* A choice is queued.
LEMMA QueuedRow ==
  ASSUME NEW row \in PolicyRows, NEW m \in Models, NEW r \in Requests
  PROVE  /\ QueuedChoice(row, m, r) \in PolicyRows /\ QueuedChoice(row, m, r).pending = r
         /\ QueuedChoice(row, m, r).model = IF row.pending = None THEN m ELSE row.model
BY PolicyFields DEF QueuedChoice, PolicyRows

\* A session that follows the default moves with it.
LEMMA RetargetedRow ==
  ASSUME policy \in PolicyRows, change # None, change.to \in Models, choices \in Nat
  PROVE  /\ Retargeted(policy, choices + 1) \in PolicyRows
         /\ ~Moves(policy) => Retargeted(policy, choices + 1) = policy
         /\ Moves(policy) =>
              /\ policy.pending = None
              /\ Live => /\ Retargeted(policy, choices + 1).pending = Choice(choices + 1, change.to, TRUE)
                         /\ Retargeted(policy, choices + 1).model = policy.model
              /\ ~Live => /\ Retargeted(policy, choices + 1).pending = None
                          /\ Retargeted(policy, choices + 1).model = change.to
<1> DEFINE next == Choice(choices + 1, change.to, TRUE)
<1>1. next \in Requests
  BY ChoiceIsRequest
<1>2. Retargeted(policy, choices + 1) =
        IF ~Moves(policy) THEN policy ELSE IF Live THEN [policy EXCEPT !.pending = next]
        ELSE [policy EXCEPT !.model = change.to]
  BY DEF Retargeted
<1>3. Moves(policy) => policy.pending = None
  BY DEF Moves
<1> HIDE DEF next
<1>4. /\ [policy EXCEPT !.pending = next] \in PolicyRows /\ [policy EXCEPT !.pending = next].pending = next
      /\ [policy EXCEPT !.pending = next].model = policy.model
      /\ [policy EXCEPT !.model = change.to] \in PolicyRows
      /\ [policy EXCEPT !.model = change.to].model = change.to
      /\ [policy EXCEPT !.model = change.to].pending = policy.pending
  BY <1>1 DEF PolicyRows
<1>5. CASE ~Moves(policy)
  BY <1>2, <1>5
<1>6. CASE Moves(policy)
  BY <1>2, <1>3, <1>4, <1>6 DEF next
<1> QED
  BY <1>5, <1>6

\* The variables of the worker, and of the supervisor, that most steps leave alone.
LEMMA InferenceTypeStep ==
  ASSUME InferenceTypeOK, UnderWay, InferenceNext
  PROVE  InferenceTypeOK'
<1> USE DEF InferenceTypeOK
<1>0. /\ policy.model \in Models /\ engine.model \in Models /\ engine.want \in Requests \cup {None}
      /\ engine.task # None => engine.task \in TaskRecords
      /\ \A i \in DOMAIN mail : mail[i] \in Requests
  BY PolicyFields, EngineFields
<1>00. <<>> \in Seq(Requests) /\ <<>> \in Seq(Receipts) /\ Off(engine.model) \in Engines
  BY <1>0, OffEngine
<1>1. CASE Ask
  BY <1>0, <1>1 DEF Ask, Snapshot
<1>2. CASE Choose
  <2>1. picked.model \in Models /\ Snapshot(picked.state) \in Models
    BY <1>0, <1>2 DEF Choose, Snapshot
  <2>2. CASE UNCHANGED <<policy, mail, choices>> /\ choice' \in Models
    BY <1>2, <2>2 DEF Choose
  <2>3. CASE /\ choices' = choices + 1 /\ choice' = picked.model
             /\ policy' = QueuedChoice(policy, Snapshot(picked.state), Choice(choices', picked.model, FALSE))
             /\ Sends(policy')
    <3>1. policy' \in PolicyRows
      BY <2>1, <2>3, ChoiceIsRequest, QueuedRow
    <3>2. mail' \in Seq(Requests)
      BY <2>3, <3>1, Delivered
    <3>3. UNCHANGED <<settings, stage, generation, engine, reports, change, adrift, faults>> /\ picked' = None
      BY <1>2 DEF Choose
    <3>4. choices' \in Nat /\ choice' \in Models
      BY <2>1, <2>3
    <3> QED
      BY <3>1, <3>2, <3>3, <3>4
  <2> QED
    BY <1>2, <2>1, <2>2, <2>3 DEF Choose
<1>3. CASE Read
  <2>1. mail' \in Seq(Requests)
    BY <1>3, Delivered DEF Read
  <2> QED
    BY <1>3, <2>1 DEF Read, Fault, supervisor
<1>4. CASE DefaultBegins
  BY <1>4 DEF DefaultBegins
<1>5. CASE Retarget
  <2>1. change \in [from : Models, to : Models, moved : BOOLEAN] /\ change.to \in Models
    BY <1>5 DEF Retarget
  <2>2. policy' \in PolicyRows
    BY <1>5, <2>1, RetargetedRow DEF Retarget
  <2>3. [change EXCEPT !.moved = TRUE] \in [from : Models, to : Models, moved : BOOLEAN]
    BY <2>1
  <2> QED
    BY <1>5, <2>1, <2>2, <2>3 DEF Retarget
<1>6. CASE DefaultEnds
  BY <1>6, Delivered DEF DefaultEnds
<1>7. CASE SelectInference
  <2>1. engine' = SelectedEngine(engine, Head(mail)) /\ Tail(mail) \in Seq(Requests) /\ Head(mail) \in Requests
    BY <1>7, QueueTaken DEF SelectInference, SelectedEngine
  <2> QED
    BY <1>7, <2>1, Selected DEF SelectInference, Worker, supervisor
<1>8. CASE Unavailable
  <2>1. Tail(mail) \in Seq(Requests) /\ Head(mail) \in Requests /\ Head(mail).id \in Nat
    BY <1>8, QueueTaken, RequestFields DEF Unavailable
  <2>2. reports' \in Seq(Receipts)
    BY <1>8, <2>1, Told DEF Unavailable
  <2> QED
    BY <1>8, <2>1, <2>2 DEF Unavailable, Fault, supervisor
<1>9. CASE Busy \/ Rests
  BY <1>9 DEF Busy, Rests, Worker, supervisor, Engines
<1>10. CASE Apply
  <2>1. engine' = AppliedEngine(engine) /\ engine.want # None
    BY <1>10 DEF Apply, AppliedEngine
  <2> QED
    BY <1>10, <2>1, Begun DEF Apply, Worker, supervisor
<1>11. CASE SetModel
  BY <1>0, <1>11, TaskFields DEF SetModel, WithModel, Worker, supervisor, Engines
<1>12. ASSUME NEW f \in BOOLEAN, Reports(f) PROVE reports' \in Seq(Receipts) /\ engine' \in Engines
  <2>1. engine.task \in TaskRecords /\ engine.task.id \in Nat
    BY <1>0, <1>12, TaskFields DEF Reports
  <2>2. reports' \in Seq(Receipts)
    BY <1>0, <1>12, <2>1, Told DEF Reports
  <2>3. WantAfter(f) \in Requests \cup {None}
    BY <1>12, WantedAfter DEF UnderWay, Reports
  <2> QED
    BY <1>12, <2>2, <2>3 DEF Reports, Engines
<1>13. CASE Applied
  BY <1>12, <1>13 DEF Applied, Reports, Worker, supervisor
<1>14. CASE ApplyFails
  <2>1. adrift' \in BOOLEAN
    BY <1>0, <1>14, TaskFields DEF ApplyFails
  <2> QED
    <3>1. reports' \in Seq(Receipts) /\ engine' \in Engines
      BY <1>12, <1>14 DEF ApplyFails
    <3>2. faults' \in Nat /\ mail' = mail
      BY <1>14 DEF ApplyFails, Reports, Fault
    <3> QED
      BY <1>14, <2>1, <3>1, <3>2 DEF ApplyFails, supervisor
<1>15. CASE OnReport
  <2>1. /\ Head(reports) \in Receipts /\ Tail(reports) \in Seq(Receipts)
        /\ Head(reports) = reports[1] /\ 1 \in DOMAIN reports
    BY <1>15, QueueTaken DEF OnReport
  <2>2. policy' \in PolicyRows
    BY <1>15, <2>1, RecordedRow DEF OnReport, UnderWay
  <2>3. adrift' \in BOOLEAN
    BY <1>15 DEF OnReport
  <2> QED
    BY <1>15, <2>1, <2>2, <2>3 DEF OnReport, supervisor
<1>16. CASE SendTimesOut
  <2>1. mail[1] \in Requests /\ 1 \in DOMAIN mail /\ [mail[1] EXCEPT !.error = TRUE] \in Requests /\ mail[1].id \in Nat
    <3>1. mail[1] \in Requests /\ 1 \in DOMAIN mail
      BY <1>16, QueueTaken DEF SendTimesOut
    <3> QED
      BY <3>1, RequestMarked, RequestFields
  <2>2. mail' \in Seq(Requests)
    <3>1. mail' = [mail EXCEPT ![1] = [mail[1] EXCEPT !.error = TRUE]]
      BY <1>16 DEF SendTimesOut
    <3> QED
      BY <2>1, <3>1
  <2>3. [id |-> mail[1].id, error |-> TRUE, model |-> None] \in Receipts
    BY <2>1 DEF Receipts
  <2>4. policy' \in PolicyRows
    BY <1>16, <2>3, RecordedRow DEF SendTimesOut
  <2> QED
    BY <1>16, <2>2, <2>4 DEF SendTimesOut, Fault, supervisor
<1>17. CASE LaunchReads
  BY <1>0, <1>17, OffEngine DEF LaunchReads, supervisor
<1>18. CASE LaunchSpawns
  BY <1>18 DEF LaunchSpawns, supervisor
<1>19. CASE LaunchEnds
  <2>1. /\ mail' \in Seq(Requests) /\ policy' \in PolicyRows /\ engine' \in Engines
        /\ reports' \in Seq(Receipts) /\ stage' \in {"on", "off"}
    BY <1>00, <1>19, Delivered, UndeliveredRow DEF LaunchEnds
  <2> QED
    BY <1>19, <2>1 DEF LaunchEnds, supervisor
<1>20. CASE WorkerExits
  <2>1. engine' \in Engines /\ mail' \in Seq(Requests) /\ reports' \in Seq(Receipts) /\ policy' \in PolicyRows
    BY <1>00, <1>20, UndeliveredRow DEF WorkerExits
  <2>2. faults' \in Nat
    BY <1>20 DEF WorkerExits, Fault
  <2>3. stage' = "off" /\ picked' = None /\ adrift' \in BOOLEAN
    BY <1>20 DEF WorkerExits
  <2> QED
    BY <1>20, <2>1, <2>2, <2>3 DEF WorkerExits
<1>21. CASE DaemonEnds
  <2>1. engine' \in Engines /\ mail' \in Seq(Requests) /\ reports' \in Seq(Receipts)
    BY <1>00, <1>21 DEF DaemonEnds
  <2>2. faults' \in Nat
    BY <1>21 DEF DaemonEnds, Fault
  <2>3. stage' = "off" /\ picked' = None /\ change' = None /\ adrift' \in BOOLEAN
    BY <1>21 DEF DaemonEnds
  <2> QED
    BY <1>21, <2>1, <2>2, <2>3 DEF DaemonEnds
<1> QED
  BY <1>1, <1>2, <1>3, <1>4, <1>5, <1>6, <1>7, <1>8, <1>9, <1>10, <1>11, <1>13, <1>14, <1>15, <1>16, <1>17,
     <1>18, <1>19, <1>20, <1>21 DEF InferenceNext, Settles

-----------------------------------------------------------------------------
(* Nothing overtakes the last choice. *)

\* A new choice has an id that nothing under way has.
LEMMA NewChoiceIsLast ==
  ASSUME NEW n \in Nat, NEW m, NEW e \in Engines, NEW ms \in Seq(Requests), NEW rs \in Seq(Receipts),
         IdsGiven(n, e, ms, rs)
  PROVE  NothingOvertakes(n + 1, m, e, ms, rs)
<1>1. \A k \in Nat : k <= n => k # n + 1
  OBVIOUS
<1>2. /\ e.want # None => e.want.id \in Nat
      /\ e.task # None => e.task.id \in Nat
      /\ \A i \in DOMAIN ms : ms[i].id \in Nat
      /\ \A i \in DOMAIN rs : rs[i].id \in Nat
  <2>1. /\ e.want # None => e.want \in Requests
        /\ e.task # None => e.task \in TaskRecords
        /\ \A i \in DOMAIN ms : ms[i] \in Requests
        /\ \A i \in DOMAIN rs : rs[i] \in Receipts
    BY EngineFields
  <2> QED
    BY <2>1, RequestFields, TaskFields, ReceiptFields
<1> QED
  BY <1>1, <1>2 DEF IdsGiven, NothingOvertakes

\* It is sent to the worker, maybe not for the first time.
LEMMA SendingKeepsOrder ==
  ASSUME NEW id, NEW m, NEW e, NEW ms \in Seq(Requests), NEW rs, NothingOvertakes(id, m, e, ms, rs),
         NEW r \in Requests, r.id = id, r.model = m
  PROVE  NothingOvertakes(id, m, e, Append(ms, r), rs)
<1> DEFINE ns == Append(ms, r)
<1>1. /\ \A i \in DOMAIN ns : (i \in DOMAIN ms /\ ns[i] = ms[i]) \/ (i = Len(ms) + 1 /\ ns[i] = r)
      /\ \A i \in DOMAIN ms : i <= Len(ms) /\ i \in Nat
      /\ Len(ms) \in Nat
  BY QueuePut
<1> HIDE DEF ns
<1>2. MailIs(ms, id, m) => MailIs(ns, id, m)
  BY <1>1 DEF MailIs, IsChoice
<1>3. ASSUME NEW i \in DOMAIN ns, NEW j \in DOMAIN ns, ns[i].id = id, i <= j PROVE IsChoice(ns[j], id, m)
  BY <1>1, <1>3 DEF NothingOvertakes, IsChoice
<1> QED
  BY <1>2, <1>3 DEF NothingOvertakes, ns

\* The worker accepts it, or refuses it.
LEMMA TakingKeepsOrder ==
  ASSUME NEW id, NEW m, NEW e \in Engines, NEW ms \in Seq(Requests), NEW rs, NothingOvertakes(id, m, e, ms, rs),
         ms # <<>>
  PROVE  /\ NothingOvertakes(id, m, e, Tail(ms), rs)
         /\ NothingOvertakes(id, m, SelectedEngine(e, Head(ms)), Tail(ms), rs)
<1> DEFINE ns == Tail(ms) f == SelectedEngine(e, Head(ms))
<1>1. /\ \A i \in DOMAIN ns : i \in Nat /\ 1 <= i /\ i + 1 \in DOMAIN ms /\ ns[i] = ms[i + 1]
      /\ Head(ms) = ms[1] /\ 1 \in DOMAIN ms /\ Head(ms) \in Requests
  BY QueueTaken
<1>2. /\ f.model = e.model /\ f.want # None /\ f.want.id = ms[1].id /\ f.want.model = ms[1].model
      /\ f.task # None => e.task # None /\ f.task.id = e.task.id /\ f.task.model = e.task.model
  BY <1>1, Selected
<1> HIDE DEF ns, f
<1>3. ASSUME NEW i \in DOMAIN ns, NEW j \in DOMAIN ns, ns[i].id = id, i <= j PROVE IsChoice(ns[j], id, m)
  <2>1. i + 1 <= j + 1 /\ i + 1 \in DOMAIN ms /\ j + 1 \in DOMAIN ms /\ ms[i + 1].id = id /\ ns[j] = ms[j + 1]
    BY <1>1, <1>3
  <2> QED
    BY <2>1 DEF NothingOvertakes
<1>4. MailIs(ms, id, m) => MailIs(ns, id, m) /\ IsChoice(ms[1], id, m)
  BY <1>1 DEF MailIs
<1>5. ms[1].id = id => MailIs(ms, id, m)
  <2>1. \A i \in DOMAIN ms : 1 <= i
    OBVIOUS
  <2> QED
    BY <1>1, <2>1 DEF MailIs, NothingOvertakes
<1>6. NothingOvertakes(id, m, e, ns, rs)
  BY <1>3, <1>4 DEF NothingOvertakes
<1>7. MailIs(ms, id, m) => WantIs(f, id, m)
  BY <1>2, <1>4 DEF WantIs, IsChoice
<1>8. TaskIs(e, id, m) => TaskIs(f, id, m)
  BY <1>2 DEF TaskIs, IsChoice
<1>9. NothingOvertakes(id, m, f, ns, rs)
  BY <1>2, <1>3, <1>4, <1>5, <1>7, <1>8 DEF NothingOvertakes
<1> QED
  BY <1>6, <1>9 DEF ns, f

\* The worker begins to apply what it wants.
LEMMA BeginningKeepsOrder ==
  ASSUME NEW id, NEW m, NEW e \in Engines, NEW ms, NEW rs, NothingOvertakes(id, m, e, ms, rs), e.want # None
  PROVE  NothingOvertakes(id, m, AppliedEngine(e), ms, rs)
<1> DEFINE f == AppliedEngine(e)
<1>1. /\ f.model = e.model /\ f.want = e.want
      /\ f.task # None /\ f.task.id = e.want.id /\ f.task.model = e.want.model
  BY Begun
<1> HIDE DEF f
<1>2. WantIs(e, id, m) => WantIs(f, id, m) /\ TaskIs(f, id, m)
  BY <1>1 DEF WantIs, TaskIs, IsChoice
<1>3. NothingOvertakes(id, m, f, ms, rs)
  BY <1>1, <1>2 DEF NothingOvertakes
<1> QED
  BY <1>3 DEF f

\* Only the model, what is wanted and what is applied matter; the worker sets the model.
LEMMA SettingKeepsOrder ==
  ASSUME NEW id, NEW m, NEW e, NEW ms, NEW rs, NothingOvertakes(id, m, e, ms, rs),
         NEW f, f.want = e.want, f.task = e.task, f.model = e.model \/ (e.task # None /\ f.model = e.task.model)
  PROVE  NothingOvertakes(id, m, f, ms, rs)
<1>1. /\ WantIs(e, id, m) => WantIs(f, id, m)
      /\ TaskIs(e, id, m) => TaskIs(f, id, m) /\ (e.model = m => f.model = m)
  BY DEF WantIs, TaskIs, IsChoice
<1> QED
  BY <1>1 DEF NothingOvertakes

\* A receipt: the worker has applied what it did, or it failed.
LEMMA TellingKeepsOrder ==
  ASSUME NEW id, NEW m, NEW e, NEW ms, NEW rs \in Seq(Receipts), NothingOvertakes(id, m, e, ms, rs),
         NEW f, f.model = e.model,
         f.want # None => e.want # None /\ f.want.id = e.want.id /\ f.want.model = e.want.model,
         f.task = None \/ f = e,
         NEW r \in Receipts, r.model \in {e.model, None},
         ~r.error => e.task # None /\ r.id = e.task.id /\ e.model = e.task.model
  PROVE  NothingOvertakes(id, m, f, ms, Append(rs, r))
<1> DEFINE qs == Append(rs, r)
<1>1. /\ \A i \in DOMAIN qs : (i \in DOMAIN rs /\ qs[i] = rs[i]) \/ (i = Len(rs) + 1 /\ qs[i] = r)
      /\ \A i \in DOMAIN rs : i <= Len(rs) /\ i \in Nat
      /\ Len(rs) \in Nat
  BY QueuePut
<1> HIDE DEF qs
<1>2. /\ WantIs(e, id, m) => WantIs(f, id, m)
      /\ TaskIs(e, id, m) => TaskIs(f, id, m)
  BY DEF WantIs, TaskIs, IsChoice
<1>3. ASSUME NEW i \in DOMAIN qs, ~qs[i].error, qs[i].id = id
      PROVE  /\ f.model = m /\ TaskIs(f, id, m) /\ WantIs(f, id, m) /\ MailIs(ms, id, m)
             /\ ReportsFrom(qs, i, m)
  <2>1. CASE i \in DOMAIN rs /\ qs[i] = rs[i]
    <3>1. /\ e.model = m /\ TaskIs(e, id, m) /\ WantIs(e, id, m) /\ MailIs(ms, id, m)
          /\ ReportsFrom(rs, i, m)
      BY <1>3, <2>1 DEF NothingOvertakes
    <3>2. ReportsFrom(qs, i, m)
      BY <1>1, <3>1 DEF ReportsFrom
    <3> QED
      BY <1>2, <3>1, <3>2
  <2>2. CASE i = Len(rs) + 1 /\ qs[i] = r
    <3>1. TaskIs(e, id, m) /\ WantIs(e, id, m) /\ MailIs(ms, id, m)
      BY <1>3, <2>2 DEF NothingOvertakes
    <3>2. e.model = m
      BY <1>3, <2>2, <3>1 DEF TaskIs, IsChoice
    <3>3. ReportsFrom(qs, i, m)
      BY <1>1, <2>2, <3>2 DEF ReportsFrom
    <3> QED
      BY <1>2, <3>1, <3>2, <3>3
  <2> QED
    BY <1>1, <2>1, <2>2
<1>4. NothingOvertakes(id, m, f, ms, qs)
  BY <1>2, <1>3 DEF NothingOvertakes
<1> QED
  BY <1>4 DEF qs

\* The supervisor takes a receipt.
LEMMA HearingKeepsOrder ==
  ASSUME NEW id, NEW m, NEW e, NEW ms, NEW rs \in Seq(Receipts), NothingOvertakes(id, m, e, ms, rs), rs # <<>>
  PROVE  NothingOvertakes(id, m, e, ms, Tail(rs))
<1> DEFINE qs == Tail(rs)
<1>1. \A i \in DOMAIN qs : i \in Nat /\ 1 <= i /\ i + 1 \in DOMAIN rs /\ qs[i] = rs[i + 1]
  BY QueueTaken
<1> HIDE DEF qs
<1>2. \A i \in DOMAIN qs : ReportsFrom(rs, i + 1, m) => ReportsFrom(qs, i, m)
  BY <1>1 DEF ReportsFrom
<1>3. NothingOvertakes(id, m, e, ms, qs)
  BY <1>1, <1>2 DEF NothingOvertakes
<1> QED
  BY <1>3 DEF qs

-----------------------------------------------------------------------------
(* What is under way, step by step. *)

\* Ids stay given out, when a request is sent, accepted or refused, when its choice is
\* begun, told of, and heard of.
LEMMA IdsStayGiven ==
  ASSUME NEW n \in Nat, NEW e \in Engines, NEW ms \in Seq(Requests), NEW rs \in Seq(Receipts),
         IdsGiven(n, e, ms, rs)
  PROVE  /\ IdsGiven(n + 1, e, ms, rs)
         /\ \A r \in Requests : r.id <= n => IdsGiven(n, e, Append(ms, r), rs)
         /\ ms # <<>> => /\ Head(ms).id <= n /\ IdsGiven(n, e, Tail(ms), rs)
                         /\ IdsGiven(n, SelectedEngine(e, Head(ms)), Tail(ms), rs)
         /\ e.want # None => IdsGiven(n, AppliedEngine(e), ms, rs)
         /\ \A r \in Receipts : r.id <= n => IdsGiven(n, e, ms, Append(rs, r))
         /\ rs # <<>> => IdsGiven(n, e, ms, Tail(rs))
<1>1. /\ e.want # None => e.want.id \in Nat
      /\ e.task # None => e.task.id \in Nat
      /\ \A i \in DOMAIN ms : ms[i].id \in Nat
      /\ \A i \in DOMAIN rs : rs[i].id \in Nat
  <2>1. /\ e.want # None => e.want \in Requests
        /\ e.task # None => e.task \in TaskRecords
        /\ \A i \in DOMAIN ms : ms[i] \in Requests
        /\ \A i \in DOMAIN rs : rs[i] \in Receipts
    BY EngineFields
  <2> QED
    BY <2>1, RequestFields, TaskFields, ReceiptFields
<1>2. IdsGiven(n + 1, e, ms, rs)
  BY <1>1 DEF IdsGiven
<1>3. ASSUME NEW r \in Requests, r.id <= n PROVE IdsGiven(n, e, Append(ms, r), rs)
  BY <1>3, QueuePut DEF IdsGiven
<1>4. ASSUME ms # <<>>
      PROVE  /\ Head(ms).id <= n /\ IdsGiven(n, e, Tail(ms), rs)
             /\ IdsGiven(n, SelectedEngine(e, Head(ms)), Tail(ms), rs)
  <2>1. Head(ms).id <= n /\ IdsGiven(n, e, Tail(ms), rs)
    BY <1>4, QueueTaken DEF IdsGiven
  <2>2. Head(ms) \in Requests
    BY <1>4
  <2> QED
    BY <2>1, <2>2, Selected DEF IdsGiven
<1>5. ASSUME e.want # None PROVE IdsGiven(n, AppliedEngine(e), ms, rs)
  BY <1>5, Begun DEF IdsGiven
<1>6. ASSUME NEW r \in Receipts, r.id <= n PROVE IdsGiven(n, e, ms, Append(rs, r))
  BY <1>6, QueuePut DEF IdsGiven
<1>7. ASSUME rs # <<>> PROVE IdsGiven(n, e, ms, Tail(rs))
  BY <1>7, QueueTaken DEF IdsGiven
<1> QED
  BY <1>2, <1>3, <1>4, <1>5, <1>6, <1>7

\* With nothing pending, the worker goes on as it is.
LEMMA AgreedStays ==
  ASSUME NEW m, NEW e \in Engines, NEW ms \in Seq(Requests), NEW rs \in Seq(Receipts), Agreed(m, e, ms, rs)
  PROVE  /\ ms # <<>> => Agreed(m, e, Tail(ms), rs) /\ Agreed(m, SelectedEngine(e, Head(ms)), Tail(ms), rs)
         /\ e.want # None => Agreed(m, AppliedEngine(e), ms, rs)
         /\ \A r \in Receipts : r.model \in {m, None} => Agreed(m, e, ms, Append(rs, r))
         /\ rs # <<>> => Agreed(m, e, ms, Tail(rs))
<1>1. ASSUME ms # <<>> PROVE Agreed(m, e, Tail(ms), rs) /\ Agreed(m, SelectedEngine(e, Head(ms)), Tail(ms), rs)
  <2>1. Agreed(m, e, Tail(ms), rs) /\ Head(ms).model = m
    BY <1>1, QueueTaken DEF Agreed
  <2>2. Head(ms) \in Requests
    BY <1>1
  <2> QED
    BY <2>1, <2>2, Selected DEF Agreed
<1>2. ASSUME e.want # None PROVE Agreed(m, AppliedEngine(e), ms, rs)
  BY <1>2, Begun DEF Agreed
<1>3. ASSUME NEW r \in Receipts, r.model \in {m, None} PROVE Agreed(m, e, ms, Append(rs, r))
  <2>1. ReportsFrom(Append(rs, r), 1, m)
    BY <1>3, QueuePut DEF Agreed, ReportsFrom
  <2> QED
    BY <2>1 DEF Agreed
<1>4. ASSUME rs # <<>> PROVE Agreed(m, e, ms, Tail(rs))
  <2>1. ReportsFrom(Tail(rs), 1, m)
    BY <1>4, QueueTaken DEF Agreed, ReportsFrom
  <2> QED
    BY <2>1 DEF Agreed
<1> QED
  BY <1>1, <1>2, <1>3, <1>4

\* The receipt of the choice that is pending: all that is behind it agrees.
LEMMA ReceiptSettles ==
  ASSUME NEW id, NEW m, NEW e \in Engines, NEW ms \in Seq(Requests), NEW rs \in Seq(Receipts),
         NothingOvertakes(id, m, e, ms, rs), rs # <<>>, ~rs[1].error, rs[1].id = id
  PROVE  rs[1].model \in {m, None} /\ Agreed(m, e, ms, Tail(rs))
<1>1. /\ e.model = m /\ TaskIs(e, id, m) /\ WantIs(e, id, m) /\ MailIs(ms, id, m)
      /\ ReportsFrom(rs, 1, m)
  BY DEF NothingOvertakes
<1>2. Agreed(m, e, ms, rs)
  BY <1>1 DEF Agreed, TaskIs, WantIs, MailIs, IsChoice
<1>3. rs[1].model \in {m, None}
  BY <1>1 DEF ReportsFrom
<1> QED
  BY <1>2, <1>3, AgreedStays

\* What the worker's receipts tell, as it goes on.
LEMMA TellingStays ==
  ASSUME NEW e, NEW f, NEW rs, LastTells(e, rs),
         \A x : Applying(e, x) => Applying(f, x)
  PROVE  LastTells(f, rs)
BY DEF LastTells

LEMMA TellingEnds ==
  ASSUME NEW e, NEW rs \in Seq(Receipts), NEW r \in Receipts, r.model # None, e.model = r.model
  PROVE  LastTells(e, Append(rs, r)) /\ ~Untold(Append(rs, r), 0)
<1> DEFINE qs == Append(rs, r)
<1>1. /\ Len(rs) \in Nat /\ Len(rs) + 1 \in DOMAIN qs /\ qs[Len(rs) + 1] = r
      /\ \A i \in DOMAIN rs : i <= Len(rs) /\ i \in Nat
      /\ \A i \in DOMAIN qs : i \in DOMAIN rs \/ i = Len(rs) + 1
  BY QueuePut
<1> HIDE DEF qs
<1>2. \A i \in DOMAIN qs : Untold(qs, i) => i = Len(rs) + 1
  BY <1>1 DEF Untold
<1>3. ~Untold(qs, 0)
  BY <1>1 DEF Untold
<1>4. LastTells(e, qs)
  BY <1>1, <1>2 DEF LastTells, Applying
<1> QED
  BY <1>3, <1>4 DEF qs

LEMMA RefusalTellsNothing ==
  ASSUME NEW e, NEW rs \in Seq(Receipts), NEW r \in Receipts, r.model = None, LastTells(e, rs)
  PROVE  LastTells(e, Append(rs, r)) /\ (Untold(Append(rs, r), 0) => Untold(rs, 0))
<1> DEFINE qs == Append(rs, r)
<1>1. /\ \A i \in DOMAIN rs : i \in DOMAIN qs /\ qs[i] = rs[i]
      /\ \A i \in DOMAIN qs : i \in DOMAIN rs \/ qs[i] = r
  BY QueuePut
<1> HIDE DEF qs
<1>2. \A i : Untold(qs, i) => Untold(rs, i)
  BY <1>1 DEF Untold
<1>3. LastTells(e, qs)
  BY <1>1, <1>2 DEF LastTells
<1> QED
  BY <1>2, <1>3 DEF qs

LEMMA HearingTells ==
  ASSUME NEW e, NEW rs \in Seq(Receipts), rs # <<>>, LastTells(e, rs)
  PROVE  /\ LastTells(e, Tail(rs))
         /\ Untold(Tail(rs), 0) => IF rs[1].model = None THEN Untold(rs, 0) ELSE Applying(e, rs[1].model)
<1> DEFINE qs == Tail(rs)
<1>1. /\ \A i \in DOMAIN qs : i \in Nat /\ 1 <= i /\ i + 1 \in DOMAIN rs /\ qs[i] = rs[i + 1]
      /\ \A j \in DOMAIN rs : j \in Nat /\ 1 <= j /\ (1 < j => j - 1 \in DOMAIN qs /\ qs[j - 1] = rs[j])
      /\ 1 \in DOMAIN rs
  BY QueueTaken
<1> HIDE DEF qs
<1>2. ASSUME NEW i \in Nat, Untold(qs, i) PROVE Untold(rs, i + 1)
  <2> SUFFICES ASSUME NEW j \in DOMAIN rs, i + 1 < j PROVE rs[j].model = None
    BY DEF Untold
  <2>1. i < j - 1 /\ 1 < j /\ j - 1 \in DOMAIN qs /\ qs[j - 1] = rs[j]
    BY <1>1
  <2> QED
    BY <1>2, <2>1 DEF Untold
<1>3. LastTells(e, qs)
  BY <1>1, <1>2 DEF LastTells
<1>4. ASSUME Untold(qs, 0) PROVE IF rs[1].model = None THEN Untold(rs, 0) ELSE Applying(e, rs[1].model)
  <2>1. Untold(rs, 1)
    BY <1>2, <1>4
  <2>2. rs[1].model = None => Untold(rs, 0)
    BY <1>1, <2>1 DEF Untold
  <2> QED
    BY <1>1, <2>1, <2>2 DEF LastTells
<1> QED
  BY <1>3, <1>4 DEF qs

-----------------------------------------------------------------------------
(* The steps of the worker. *)

\* A step of the worker, which leaves the row alone.
LEMMA WorkerKeeps ==
  ASSUME InferenceInv, InferenceTypeOK', UNCHANGED <<policy, stage, picked, choices, choice>>, Live,
         engine'.task # None /\ engine'.task.wanted => engine'.want # None,
         \A i \in DOMAIN reports' : ~reports'[i].error => reports'[i].model # None,
         IdsGiven(choices, engine', mail', reports'),
         \A id, m : NothingOvertakes(id, m, engine, mail, reports) => NothingOvertakes(id, m, engine', mail', reports'),
         \A m : Agreed(m, engine, mail, reports) => Agreed(m, engine', mail', reports'),
         NothingSent(engine, mail, reports) => NothingSent(engine', mail', reports'),
         ReportsTell'
  PROVE  InferenceInv'
<1> USE DEF InferenceInv
<1>1. UnderWay'
  BY DEF UnderWay, Live
<1>2. ChoiceStands' /\ ModelStands' /\ PickIsTrue'
  BY DEF ChoiceStands, ModelStands, PickIsTrue
<1>3. LatestIsLast'
  BY DEF LatestIsLast
<1>4. SettledAgrees'
  BY DEF SettledAgrees, Live
<1> QED
  BY <1>1, <1>2, <1>3, <1>4

LEMMA SelectInferenceKeeps ==
  ASSUME InferenceInv, InferenceTypeOK', SelectInference
  PROVE  InferenceInv'
<1> USE DEF InferenceInv
<1>1. /\ Live /\ mail # <<>> /\ mail' = Tail(mail) /\ engine' = SelectedEngine(engine, Head(mail))
      /\ UNCHANGED <<policy, stage, picked, choices, choice, adrift, reports>>
      /\ engine \in Engines /\ mail \in Seq(Requests) /\ reports \in Seq(Receipts) /\ Head(mail) \in Requests
      /\ choices \in Nat
  BY QueueTaken DEF SelectInference, SelectedEngine, Worker, supervisor, InferenceTypeOK
<1>2. engine'.want # None /\ engine'.model = engine.model
  BY <1>1, Selected
<1>3. \A x : Applying(engine, x) => Applying(engine', x)
  BY <1>1, Selected DEF Applying
<1>4. ReportsTell'
  BY <1>1, <1>3 DEF ReportsTell, LastTells
<1>5. IdsGiven(choices, engine', mail', reports')
  BY <1>1, IdsStayGiven DEF UnderWay
<1>6. ASSUME NEW id, NEW m, NothingOvertakes(id, m, engine, mail, reports)
      PROVE NothingOvertakes(id, m, engine', mail', reports')
  BY <1>1, <1>6, TakingKeepsOrder
<1>7. ASSUME NEW m, Agreed(m, engine, mail, reports) PROVE Agreed(m, engine', mail', reports')
  BY <1>1, <1>7, AgreedStays
<1>8. ~NothingSent(engine, mail, reports)
  BY <1>1 DEF NothingSent
<1>9. \A i \in DOMAIN reports' : ~reports'[i].error => reports'[i].model # None
  BY <1>1 DEF UnderWay
<1> QED
  BY <1>1, <1>2, <1>4, <1>5, <1>6, <1>7, <1>8, <1>9, WorkerKeeps

LEMMA UnavailableKeeps ==
  ASSUME InferenceInv, InferenceTypeOK', Unavailable
  PROVE  InferenceInv'
<1> USE DEF InferenceInv
<1> DEFINE r == [id |-> Head(mail).id, error |-> TRUE, model |-> None]
<1>1. /\ Live /\ mail # <<>> /\ mail' = Tail(mail) /\ engine' = engine
      /\ UNCHANGED <<policy, stage, picked, choices, choice, adrift>>
      /\ engine \in Engines /\ mail \in Seq(Requests) /\ reports \in Seq(Receipts) /\ Head(mail) \in Requests
      /\ mail' \in Seq(Requests) /\ choices \in Nat
  BY QueueTaken DEF Unavailable, supervisor, InferenceTypeOK
<1>2. r \in Receipts /\ r.model = None /\ r.error /\ r.id = Head(mail).id
  BY <1>1, RequestFields DEF Receipts
<1>3. reports' = reports \/ reports' = Append(reports, r)
  BY DEF Unavailable, Says
<1> HIDE DEF r
<1>4. Head(mail).id <= choices /\ IdsGiven(choices, engine, mail', reports)
  BY <1>1, IdsStayGiven DEF UnderWay
<1>5. IdsGiven(choices, engine', mail', reports')
  BY <1>1, <1>2, <1>3, <1>4, IdsStayGiven
<1>6. ASSUME NEW id, NEW m, NothingOvertakes(id, m, engine, mail, reports)
      PROVE NothingOvertakes(id, m, engine', mail', reports')
  <2>1. NothingOvertakes(id, m, engine, mail', reports)
    BY <1>1, <1>6, TakingKeepsOrder
  <2>2. NothingOvertakes(id, m, engine, mail', Append(reports, r))
    BY <1>1, <1>2, <2>1, TellingKeepsOrder
  <2> QED
    BY <1>1, <1>3, <2>1, <2>2
<1>7. ASSUME NEW m, Agreed(m, engine, mail, reports) PROVE Agreed(m, engine', mail', reports')
  <2>1. Agreed(m, engine, mail', reports)
    BY <1>1, <1>7, AgreedStays
  <2>2. Agreed(m, engine, mail', Append(reports, r))
    BY <1>1, <1>2, <2>1, AgreedStays
  <2> QED
    BY <1>1, <1>3, <2>1, <2>2
<1>8. ~NothingSent(engine, mail, reports)
  BY <1>1 DEF NothingSent
<1>9. \A i \in DOMAIN reports' : ~reports'[i].error => reports'[i].model # None
  <2>1. \A i \in DOMAIN Append(reports, r) : 
      \/ i \in DOMAIN reports /\ Append(reports, r)[i] = reports[i]
      \/ Append(reports, r)[i] = r
    BY <1>1, <1>2, QueuePut
  <2> QED
    BY <1>2, <1>3, <2>1 DEF UnderWay
<1>10. LastTells(engine, reports') /\ (Untold(reports', 0) => Untold(reports, 0))
  BY <1>1, <1>2, <1>3, RefusalTellsNothing DEF ReportsTell
<1>11. ReportsTell'
  BY <1>1, <1>10 DEF ReportsTell
<1>12. engine'.task # None /\ engine'.task.wanted => engine'.want # None
  BY <1>1 DEF UnderWay
<1> QED
  BY <1>1, <1>5, <1>6, <1>7, <1>8, <1>9, <1>11, <1>12, WorkerKeeps

LEMMA BusyKeeps ==
  ASSUME InferenceInv, InferenceTypeOK', Busy \/ Rests
  PROVE  InferenceInv'
<1> USE DEF InferenceInv
<1>1. /\ UNCHANGED <<policy, stage, picked, choices, choice, adrift, mail, reports>>
      /\ engine'.model = engine.model /\ engine'.want = engine.want /\ engine'.task = engine.task
  BY DEF Busy, Rests, Worker, supervisor, InferenceTypeOK, Engines
<1>2. IdsGiven(choices, engine', mail', reports')
  BY <1>1 DEF UnderWay, IdsGiven
<1>3. UnderWay'
  BY <1>1, <1>2 DEF UnderWay, Live, NothingSent
<1>4. ChoiceStands' /\ ModelStands' /\ PickIsTrue'
  BY <1>1 DEF ChoiceStands, ModelStands, PickIsTrue
<1>5. LatestIsLast'
  BY <1>1, SettingKeepsOrder DEF LatestIsLast
<1>6. SettledAgrees'
  BY <1>1 DEF SettledAgrees, Agreed, NothingSent, Live
<1>7. ReportsTell'
  BY <1>1 DEF ReportsTell, LastTells, Applying
<1> QED
  BY <1>3, <1>4, <1>5, <1>6, <1>7

LEMMA ApplyKeeps ==
  ASSUME InferenceInv, InferenceTypeOK', Apply
  PROVE  InferenceInv'
<1> USE DEF InferenceInv
<1>1. /\ Live /\ engine.task = None /\ engine.want # None /\ engine' = AppliedEngine(engine)
      /\ UNCHANGED <<policy, stage, picked, choices, choice, adrift, mail, reports>>
      /\ engine \in Engines /\ mail \in Seq(Requests) /\ reports \in Seq(Receipts) /\ choices \in Nat
  BY DEF Apply, AppliedEngine, Worker, supervisor, InferenceTypeOK
<1>2. engine'.want # None /\ engine'.model = engine.model
  BY <1>1, Begun
<1>3. ReportsTell'
  BY <1>1, <1>2 DEF ReportsTell, LastTells, Applying
<1>5. IdsGiven(choices, engine', mail', reports')
  BY <1>1, IdsStayGiven DEF UnderWay
<1>6. ASSUME NEW id, NEW m, NothingOvertakes(id, m, engine, mail, reports)
      PROVE NothingOvertakes(id, m, engine', mail', reports')
  BY <1>1, <1>6, BeginningKeepsOrder
<1>7. ASSUME NEW m, Agreed(m, engine, mail, reports) PROVE Agreed(m, engine', mail', reports')
  BY <1>1, <1>7, AgreedStays
<1>8. ~NothingSent(engine, mail, reports)
  BY <1>1 DEF NothingSent
<1>9. \A i \in DOMAIN reports' : ~reports'[i].error => reports'[i].model # None
  BY <1>1 DEF UnderWay
<1> QED
  BY <1>1, <1>2, <1>3, <1>5, <1>6, <1>7, <1>8, <1>9, WorkerKeeps

LEMMA SetModelKeeps ==
  ASSUME InferenceInv, InferenceTypeOK', SetModel
  PROVE  InferenceInv'
<1> USE DEF InferenceInv
<1>1. /\ engine.task # None /\ engine'.model = engine.task.model
      /\ engine'.want = engine.want /\ engine'.task = engine.task
      /\ UNCHANGED <<policy, stage, picked, choices, choice, adrift, mail, reports>>
      /\ engine \in Engines /\ mail \in Seq(Requests) /\ reports \in Seq(Receipts) /\ choices \in Nat
  BY DEF SetModel, WithModel, Worker, supervisor, InferenceTypeOK, Engines
<1>2. Live
  BY <1>1 DEF UnderWay, NothingSent
<1>3. ReportsTell'
  BY <1>1 DEF ReportsTell, LastTells, Applying
<1>5. IdsGiven(choices, engine', mail', reports')
  BY <1>1 DEF UnderWay, IdsGiven
<1>6. ASSUME NEW id, NEW m, NothingOvertakes(id, m, engine, mail, reports)
      PROVE NothingOvertakes(id, m, engine', mail', reports')
  BY <1>1, <1>6, SettingKeepsOrder
<1>7. ASSUME NEW m, Agreed(m, engine, mail, reports) PROVE Agreed(m, engine', mail', reports')
  BY <1>1, <1>7 DEF Agreed
<1>8. ~NothingSent(engine, mail, reports)
  BY <1>1 DEF NothingSent
<1>9. /\ \A i \in DOMAIN reports' : ~reports'[i].error => reports'[i].model # None
      /\ engine'.task # None /\ engine'.task.wanted => engine'.want # None
  BY <1>1 DEF UnderWay
<1> QED
  BY <1>1, <1>2, <1>3, <1>5, <1>6, <1>7, <1>8, <1>9, WorkerKeeps

\* The task is over: its receipt tells the worker's model.
LEMMA ReportsKeep ==
  ASSUME InferenceInv, InferenceTypeOK', NEW f \in BOOLEAN, Reports(f),
         UNCHANGED <<policy, stage, picked, choices, choice>>
  PROVE  InferenceInv'
<1> USE DEF InferenceInv
<1> DEFINE r == [id |-> engine.task.id, error |-> f, model |-> engine.model]
<1>1. /\ engine.task # None /\ (f \/ engine.model = engine.task.model) /\ mail' = mail
      /\ reports' = Append(reports, r)
      /\ engine \in Engines /\ mail \in Seq(Requests) /\ reports \in Seq(Receipts) /\ choices \in Nat
      /\ engine.task \in TaskRecords /\ engine.model \in Models
  BY EngineFields DEF Reports, Says, InferenceTypeOK
<1>2. engine'.task = None /\ engine'.want = WantAfter(f) /\ engine'.model = engine.model
  BY <1>1, WantedAfter DEF Reports, Engines
<1>3. WantAfter(f) # None => /\ engine.want # None
                             /\ WantAfter(f).id = engine.want.id /\ WantAfter(f).model = engine.want.model
  BY <1>1, WantedAfter DEF UnderWay
<1>4. r \in Receipts /\ r.model = engine.model /\ r.id = engine.task.id /\ r.error = f /\ r.model # None
  BY <1>1, TaskFields, NoneIsNone DEF Receipts
<1> HIDE DEF r
<1>5. Live
  BY <1>1 DEF UnderWay, NothingSent
<1>6. LastTells(engine', reports') /\ ~Untold(reports', 0)
  BY <1>1, <1>2, <1>4, TellingEnds
<1>7. ReportsTell'
  BY <1>6 DEF ReportsTell
<1>8. IdsGiven(choices, engine', mail', reports')
  <2>1. r.id <= choices
    BY <1>1, <1>4 DEF UnderWay, IdsGiven
  <2>2. IdsGiven(choices, engine, mail, reports')
    BY <1>1, <1>4, <2>1, IdsStayGiven DEF UnderWay
  <2> QED
    BY <1>1, <1>2, <1>3, <2>2 DEF IdsGiven
<1>9. ASSUME NEW id, NEW m, NothingOvertakes(id, m, engine, mail, reports)
      PROVE NothingOvertakes(id, m, engine', mail', reports')
  BY <1>1, <1>2, <1>3, <1>4, <1>9, TellingKeepsOrder
<1>10. ASSUME NEW m, Agreed(m, engine, mail, reports) PROVE Agreed(m, engine', mail', reports')
  <2>1. Agreed(m, engine, mail, reports')
    <3>1. r.model \in {m, None}
      BY <1>4, <1>10 DEF Agreed
    <3> QED
      BY <1>1, <1>4, <1>10, <3>1, AgreedStays
  <2> QED
    BY <1>1, <1>2, <1>3, <2>1 DEF Agreed
<1>11. ~NothingSent(engine, mail, reports)
  BY <1>1 DEF NothingSent
<1>12. \A i \in DOMAIN reports' : ~reports'[i].error => reports'[i].model # None
  BY <1>1, <1>4, QueuePut DEF UnderWay
<1> QED
  BY <1>2, <1>5, <1>7, <1>8, <1>9, <1>10, <1>11, <1>12, WorkerKeeps

-----------------------------------------------------------------------------
(* The steps of the supervisor. *)

LEMMA AskKeeps ==
  ASSUME InferenceInv, InferenceTypeOK', Ask
  PROVE  InferenceInv'
<1> USE DEF InferenceInv
<1>1. /\ stage = "on"
      /\ UNCHANGED <<policy, settings, stage, generation, engine, mail, reports, change, choices, choice, adrift>>
      /\ UNCHANGED faults
      /\ \E m \in Models : picked' = [model |-> m, state |-> engine.model, expected |-> Snapshot(engine.model)]
  BY DEF Ask, Free
<1>2. picked'.state = engine.model
  BY <1>1
<1>3. PickIsTrue'
  BY <1>1, <1>2 DEF PickIsTrue, SettledAgrees, Agreed, Live
<1>4. UnderWay' /\ ChoiceStands' /\ ModelStands'
  BY <1>1 DEF UnderWay, ChoiceStands, ModelStands, Live
<1>5. LatestIsLast' /\ SettledAgrees' /\ ReportsTell'
  BY <1>1 DEF LatestIsLast, SettledAgrees, ReportsTell, Live
<1> QED
  BY <1>3, <1>4, <1>5

\* A choice that is new: it has the next id.
LEMMA ChoiceKeeps ==
  ASSUME InferenceInv, InferenceTypeOK', NEW r \in Requests, r.id = choices + 1, policy'.pending = r,
         policy'.model = policy.model, choices' = choices + 1, choice' = r.model, Live,
         UNCHANGED <<stage, engine, reports, adrift>>, picked' \in {None, picked},
         mail' = mail \/ \E s \in Requests : s.id = r.id /\ s.model = r.model /\ mail' = Append(mail, s)
  PROVE  InferenceInv'
<1> USE DEF InferenceInv
<1>1. /\ r # None /\ choices \in Nat
      /\ engine \in Engines /\ mail \in Seq(Requests) /\ reports \in Seq(Receipts)
  BY NoneIsNone DEF InferenceTypeOK
<1>2. IdsGiven(choices + 1, engine, mail, reports)
  BY <1>1, IdsStayGiven DEF UnderWay
<1>3. choices + 1 \in Nat /\ choices + 1 <= choices + 1
  BY <1>1
<1>4. IdsGiven(choices', engine', mail', reports')
  <2>1. CASE mail' = mail
    BY <1>2, <2>1
  <2>2. ASSUME NEW s \in Requests, s.id = r.id, mail' = Append(mail, s)
        PROVE  IdsGiven(choices', engine', mail', reports')
    BY <1>1, <1>2, <1>3, <2>2, IdsStayGiven
  <2> QED
    BY <2>1, <2>2
<1>5. UnderWay'
  BY <1>1, <1>3, <1>4 DEF UnderWay, Live
<1>6. ChoiceStands' /\ ModelStands' /\ PickIsTrue' /\ SettledAgrees'
  BY <1>1 DEF ChoiceStands, ModelStands, PickIsTrue, SettledAgrees
<1>7. NothingOvertakes(r.id, r.model, engine, mail, reports)
  BY <1>1, NewChoiceIsLast DEF UnderWay
<1>8. LatestIsLast'
  <2>1. NothingOvertakes(r.id, r.model, engine, mail', reports)
    BY <1>1, <1>7, SendingKeepsOrder
  <2> QED
    BY <2>1 DEF LatestIsLast
<1>9. ReportsTell'
  BY DEF ReportsTell
<1> QED
  BY <1>5, <1>6, <1>8, <1>9

\* What is pending is delivered once more.
LEMMA SendingKeeps ==
  ASSUME InferenceInv, InferenceTypeOK', Live, Sends(policy),
         UNCHANGED <<policy, stage, engine, reports, adrift, picked, choices, choice>>
  PROVE  InferenceInv'
<1> USE DEF InferenceInv
<1>1. /\ engine \in Engines /\ mail \in Seq(Requests) /\ reports \in Seq(Receipts) /\ policy \in PolicyRows
      /\ choices \in Nat
  BY DEF InferenceTypeOK
<1>2. CASE policy.pending = None
  <2>1. mail' = mail
    BY <1>1, <1>2, Delivered
  <2>2. UnderWay' /\ ChoiceStands' /\ ModelStands' /\ PickIsTrue'
    BY <2>1 DEF UnderWay, ChoiceStands, ModelStands, PickIsTrue, Live
  <2>3. LatestIsLast' /\ SettledAgrees' /\ ReportsTell'
    BY <2>1 DEF LatestIsLast, SettledAgrees, ReportsTell, Live
  <2> QED
    BY <2>2, <2>3
<1>3. CASE policy.pending # None
  <2> DEFINE s == [policy.pending EXCEPT !.error = FALSE]
  <2>1. s \in Requests /\ mail' = Append(mail, s) /\ s.id = policy.pending.id /\ s.model = policy.pending.model
    BY <1>1, <1>3, Delivered
  <2> HIDE DEF s
  <2>2. s.id <= choices /\ IdsGiven(choices, engine, mail, reports)
    BY <1>3, <2>1 DEF UnderWay
  <2>3. IdsGiven(choices', engine', mail', reports')
    BY <1>1, <2>1, <2>2, IdsStayGiven
  <2>4. UnderWay'
    BY <2>3 DEF UnderWay, Live
  <2>5. ChoiceStands' /\ ModelStands' /\ PickIsTrue' /\ SettledAgrees'
    BY <1>3 DEF ChoiceStands, ModelStands, PickIsTrue, SettledAgrees
  <2>6. LatestIsLast'
    <3>1. NothingOvertakes(policy.pending.id, policy.pending.model, engine, Append(mail, s), reports)
      BY <1>1, <1>3, <2>1, SendingKeepsOrder DEF LatestIsLast
    <3> QED
      BY <2>1, <3>1 DEF LatestIsLast
  <2>7. ReportsTell'
    BY DEF ReportsTell
  <2> QED
    BY <2>4, <2>5, <2>6, <2>7
<1> QED
  BY <1>2, <1>3

LEMMA ChooseKeeps ==
  ASSUME InferenceInv, InferenceTypeOK', Choose
  PROVE  InferenceInv'
<1> USE DEF InferenceInv
<1>1. /\ picked # None /\ stage = "on" /\ picked' = None
      /\ UNCHANGED <<settings, stage, generation, engine, reports, change, adrift, faults>>
      /\ mail \in Seq(Requests) /\ policy \in PolicyRows /\ choices \in Nat /\ picked.model \in Models
      /\ policy.model \in Models /\ picked.state \in Models
  BY PolicyFields DEF Choose, InferenceTypeOK
<1>2. policy.pending = None => picked.state = policy.model
  BY <1>1 DEF PickIsTrue
<1>3. Snapshot(picked.state) = policy.model
  BY <1>2 DEF Snapshot
<1>4. CASE /\ UNCHANGED <<policy, mail, choices>>
           /\ choice' = choice \/ (policy.pending = None /\ choice' = policy.model)
  <2>1. ChoiceStands' /\ ModelStands'
    BY <1>4 DEF ChoiceStands, ModelStands
  <2>2. UnderWay' /\ PickIsTrue'
    BY <1>1, <1>4 DEF UnderWay, PickIsTrue, Live
  <2>3. LatestIsLast' /\ SettledAgrees' /\ ReportsTell'
    BY <1>1, <1>4 DEF LatestIsLast, SettledAgrees, ReportsTell, Live
  <2> QED
    BY <2>1, <2>2, <2>3
<1>5. CASE /\ choices' = choices + 1 /\ choice' = picked.model
           /\ policy' = QueuedChoice(policy, policy.model, Choice(choices', picked.model, FALSE))
           /\ Sends(policy')
  <2> DEFINE r == Choice(choices + 1, picked.model, FALSE)
  <2>1. r \in Requests /\ r # None /\ r.id = choices + 1 /\ r.model = picked.model
    BY <1>1, ChoiceIsRequest
  <2>2. policy' = QueuedChoice(policy, policy.model, r)
    BY <1>5
  <2> HIDE DEF r
  <2>3. policy' \in PolicyRows /\ policy'.pending = r /\ policy'.model = policy.model
    BY <1>1, <2>1, <2>2, QueuedRow
  <2>4. \E s \in Requests : s.id = r.id /\ s.model = r.model /\ mail' = Append(mail, s)
    BY <1>1, <1>5, <2>1, <2>3, Delivered
  <2>5. Live
    BY <1>1 DEF Live
  <2> QED
    BY <1>1, <1>5, <2>1, <2>3, <2>4, <2>5, ChoiceKeeps
<1> QED
  BY <1>3, <1>4, <1>5 DEF Choose

LEMMA DefaultKeeps ==
  ASSUME InferenceInv, InferenceTypeOK', Read \/ DefaultBegins \/ Retarget \/ DefaultEnds
  PROVE  InferenceInv'
<1> USE DEF InferenceInv
<1>1. CASE Read
  <2>1. Live
    BY <1>1 DEF Read, Free, Live
  <2> QED
    BY <1>1, <2>1, SendingKeeps DEF Read, supervisor
<1>2. ASSUME UNCHANGED <<policy, stage, engine, mail, reports, adrift, picked, choice>>,
             choices' = choices \/ choices' = choices + 1
      PROVE  InferenceInv'
  <2>1. IdsGiven(choices', engine, mail, reports)
    BY <1>2, IdsStayGiven DEF UnderWay, InferenceTypeOK
  <2>2. policy.pending # None => policy.pending.id <= choices'
    BY <1>2, PolicyFields, RequestFields DEF UnderWay, InferenceTypeOK
  <2>3. UnderWay' /\ ChoiceStands' /\ ModelStands' /\ PickIsTrue'
    BY <1>2, <2>1, <2>2 DEF UnderWay, ChoiceStands, ModelStands, PickIsTrue, Live
  <2>4. LatestIsLast' /\ SettledAgrees' /\ ReportsTell'
    BY <1>2 DEF LatestIsLast, SettledAgrees, ReportsTell, Live
  <2> QED
    BY <2>3, <2>4
<1>3. CASE DefaultBegins
  BY <1>2, <1>3 DEF DefaultBegins
<1>4. CASE DefaultEnds
  BY <1>2, <1>4, SendingKeeps DEF DefaultEnds
<1>5. CASE Retarget
  <2>1. /\ change # None /\ change.to \in Models /\ policy \in PolicyRows /\ choices \in Nat
        /\ choices' = choices + 1 /\ policy' = Retargeted(policy, choices + 1)
        /\ UNCHANGED <<stage, engine, mail, reports, picked, adrift>>
        /\ choice' = IF Moves(policy) THEN change.to ELSE choice
    BY <1>5 DEF Retarget, InferenceTypeOK
  <2>2. CASE ~Moves(policy)
    BY <1>2, <2>1, <2>2, RetargetedRow
  <2>3. CASE Moves(policy) /\ Live
    <3> DEFINE r == Choice(choices + 1, change.to, TRUE)
    <3>1. r \in Requests /\ r # None /\ r.id = choices + 1 /\ r.model = change.to
      BY <2>1, ChoiceIsRequest
    <3>2. policy'.pending = r /\ policy'.model = policy.model
      BY <2>1, <2>3, RetargetedRow
    <3> HIDE DEF r
    <3> QED
      BY <2>1, <2>3, <3>1, <3>2, ChoiceKeeps
  <2>4. CASE Moves(policy) /\ ~Live
    <3>1. policy'.pending = None /\ policy'.model = change.to /\ choice' = change.to
      BY <2>1, <2>4, RetargetedRow
    <3>2. IdsGiven(choices', engine, mail, reports)
      BY <2>1, IdsStayGiven DEF UnderWay, InferenceTypeOK
    <3>3. UnderWay'
      BY <2>1, <3>1, <3>2 DEF UnderWay, Live
    <3>4. ChoiceStands' /\ ModelStands' /\ LatestIsLast'
      BY <3>1 DEF ChoiceStands, ModelStands, LatestIsLast
    <3>5. SettledAgrees' /\ PickIsTrue' /\ ReportsTell'
      BY <2>1, <2>4 DEF SettledAgrees, PickIsTrue, ReportsTell, UnderWay, Live
    <3> QED
      BY <3>3, <3>4, <3>5
  <2> QED
    BY <2>2, <2>3, <2>4
<1> QED
  BY <1>1, <1>3, <1>4, <1>5

\* A receipt, when none may overtake the state that a choice is made on.
LEMMA OnReportKeeps ==
  ASSUME InferenceInv, InferenceTypeOK', OnReport, ~SharedChunks
  PROVE  InferenceInv'
<1> USE DEF InferenceInv
<1> DEFINE r == Head(reports)
<1>1. /\ Live /\ reports # <<>> /\ reports' = Tail(reports) /\ picked = None /\ policy' = Recorded(policy, r)
      /\ UNCHANGED <<stage, engine, mail, picked, choices, choice>>
      /\ adrift' = (adrift \/ (r.error /\ r.model # None /\ Follows(policy)))
      /\ engine \in Engines /\ mail \in Seq(Requests) /\ reports \in Seq(Receipts) /\ policy \in PolicyRows
      /\ choices \in Nat
  BY DEF OnReport, supervisor, InferenceTypeOK
<1>2. r \in Receipts /\ r = reports[1] /\ 1 \in DOMAIN reports
  BY <1>1, QueueTaken
<1> HIDE DEF r
<1>3. ~r.error => r.model # None
  BY <1>2 DEF UnderWay
<1>4. /\ policy'.pending = None => policy.pending = None \/ (~r.error /\ policy.pending.id = r.id)
      /\ policy'.pending # None =>
           /\ policy.pending # None
           /\ policy'.pending.id = policy.pending.id /\ policy'.pending.model = policy.pending.model
      /\ policy'.model = IF r.model = None \/ (r.error /\ Follows(policy)) THEN policy.model ELSE r.model
  BY <1>1, <1>2, <1>3, RecordedRow
<1>5. UnderWay'
  <2>1. IdsGiven(choices, engine, mail, Tail(reports))
    BY <1>1, IdsStayGiven DEF UnderWay
  <2>2. \A i \in DOMAIN reports' : ~reports'[i].error => reports'[i].model # None
    BY <1>1, QueueTaken DEF UnderWay
  <2> QED
    BY <1>1, <1>4, <2>1, <2>2 DEF UnderWay, Live
<1>6. LatestIsLast'
  <2> SUFFICES ASSUME policy'.pending # None
               PROVE  NothingOvertakes(policy'.pending.id, policy'.pending.model, engine', mail', reports')
    BY DEF LatestIsLast
  <2>1. NothingOvertakes(policy.pending.id, policy.pending.model, engine, mail, reports)
    BY <1>4 DEF LatestIsLast
  <2>2. NothingOvertakes(policy.pending.id, policy.pending.model, engine, mail, Tail(reports))
    BY <1>1, <2>1, HearingKeepsOrder
  <2> QED
    BY <1>1, <1>4, <2>2
<1>7. ASSUME policy'.pending = None
      PROVE  /\ policy'.model = choice'
             /\ \/ Agreed(policy'.model, engine', mail', reports')
                \/ stage = "starting" /\ NothingSent(engine', mail', reports')
  <2>1. CASE policy.pending = None
    <3>1. Agreed(policy.model, engine, mail, reports)
      BY <1>1, <2>1 DEF SettledAgrees, NothingSent
    <3>2. r.model \in {policy.model, None}
      BY <1>2, <3>1 DEF Agreed, ReportsFrom
    <3>3. Agreed(policy.model, engine, mail, Tail(reports))
      BY <1>1, <3>1, AgreedStays
    <3> QED
      BY <1>1, <1>4, <2>1, <3>2, <3>3 DEF ModelStands
  <2>2. CASE policy.pending # None
    <3>1. ~r.error /\ policy.pending.id = r.id
      BY <1>4, <1>7, <2>2
    <3>2. NothingOvertakes(policy.pending.id, policy.pending.model, engine, mail, reports)
      BY <2>2 DEF LatestIsLast
    <3>3. r.model \in {policy.pending.model, None} /\ Agreed(policy.pending.model, engine, mail, Tail(reports))
      BY <1>1, <1>2, <3>1, <3>2, ReceiptSettles
    <3>4. policy'.model = policy.pending.model
      BY <1>3, <1>4, <3>1, <3>3
    <3> QED
      BY <1>1, <2>2, <3>3, <3>4 DEF ChoiceStands
  <2> QED
    BY <2>1, <2>2
<1>8. ModelStands' /\ SettledAgrees'
  BY <1>1, <1>7 DEF ModelStands, SettledAgrees
<1>9. ChoiceStands' /\ PickIsTrue'
  BY <1>1, <1>4 DEF ChoiceStands, PickIsTrue
<1>10. ReportsTell'
  <2>1. /\ LastTells(engine, Tail(reports))
        /\ Untold(Tail(reports), 0) => IF r.model = None THEN Untold(reports, 0) ELSE Applying(engine, r.model)
    BY <1>1, <1>2, HearingTells DEF ReportsTell
  <2>2. ASSUME stage' = "on", ~adrift', Untold(reports', 0) PROVE Applying(engine', policy'.model)
    <3>1. CASE r.model = None
      BY <1>1, <1>4, <2>1, <2>2, <3>1 DEF ReportsTell
    <3>2. CASE r.model # None
      BY <1>1, <1>4, <2>1, <2>2, <3>2
    <3> QED
      BY <3>1, <3>2
  <2> QED
    BY <1>1, <2>1, <2>2 DEF ReportsTell
<1> QED
  BY <1>5, <1>6, <1>8, <1>9, <1>10

\* A delivery that times out is marked, and so is the choice.
LEMMA SendTimesOutKeeps ==
  ASSUME InferenceInv, InferenceTypeOK', SendTimesOut
  PROVE  InferenceInv'
<1> USE DEF InferenceInv
<1> DEFINE r == [id |-> mail[1].id, error |-> TRUE, model |-> None]
<1>1. /\ Live /\ mail # <<>> /\ mail' = [mail EXCEPT ![1] = [mail[1] EXCEPT !.error = TRUE]]
      /\ policy' = Recorded(policy, r)
      /\ UNCHANGED <<stage, engine, reports, adrift, picked, choices, choice>>
      /\ engine \in Engines /\ mail \in Seq(Requests) /\ reports \in Seq(Receipts) /\ policy \in PolicyRows
      /\ mail[1] \in Requests
  BY DEF SendTimesOut, supervisor, InferenceTypeOK
<1>2. r \in Receipts /\ r.error /\ r.model = None
  BY <1>1, RequestFields DEF Receipts
<1> HIDE DEF r
<1>3. /\ policy'.pending = None => policy.pending = None
      /\ policy'.pending # None =>
           /\ policy.pending # None
           /\ policy'.pending.id = policy.pending.id /\ policy'.pending.model = policy.pending.model
      /\ policy'.model = policy.model
  BY <1>1, <1>2, RecordedRow
<1>4. DOMAIN mail' = DOMAIN mail /\ \A i \in DOMAIN mail : mail'[i].id = mail[i].id /\ mail'[i].model = mail[i].model
  BY <1>1, RequestMarked
<1>5. UnderWay'
  BY <1>1, <1>3, <1>4 DEF UnderWay, IdsGiven, Live
<1>6. \A id, m : MailIs(mail, id, m) => MailIs(mail', id, m)
  BY <1>4 DEF MailIs, IsChoice
<1>7. ASSUME NEW id, NEW m, NothingOvertakes(id, m, engine, mail, reports)
      PROVE  NothingOvertakes(id, m, engine, mail', reports)
  <2>1. \A i, j \in DOMAIN mail' : mail'[i].id = id /\ i <= j => IsChoice(mail'[j], id, m)
    BY <1>4, <1>7 DEF NothingOvertakes, IsChoice
  <2> QED
    BY <1>6, <1>7, <2>1 DEF NothingOvertakes
<1>8. LatestIsLast'
  BY <1>1, <1>3, <1>7 DEF LatestIsLast
<1>9. SettledAgrees'
  BY <1>1, <1>3, <1>4 DEF SettledAgrees, Agreed, NothingSent, Live
<1>10. ChoiceStands' /\ ModelStands' /\ PickIsTrue' /\ ReportsTell'
  BY <1>1, <1>3 DEF ChoiceStands, ModelStands, PickIsTrue, ReportsTell
<1> QED
  BY <1>5, <1>8, <1>9, <1>10

\* A worker is launched, or ends.
LEMMA NothingIsUnderWay ==
  ASSUME InferenceInv, InferenceTypeOK', stage' \in {"off", "reading", "starting"},
         NothingSent(engine', mail', reports'), picked' = None, choice' = choice, choices' = choices,
         policy'.model = policy.model, policy'.pending = None <=> policy.pending = None,
         policy.pending # None => policy'.pending.id = policy.pending.id /\ policy'.pending.model = policy.pending.model
  PROVE  InferenceInv'
<1> USE DEF InferenceInv
<1>1. mail' = <<>> /\ reports' = <<>> /\ engine'.want = None /\ engine'.task = None
  BY DEF NothingSent
<1>2. IdsGiven(choices', engine', mail', reports') /\ UnderWay'
  BY <1>1 DEF IdsGiven, UnderWay, Live
<1>3. ChoiceStands' /\ ModelStands' /\ PickIsTrue' /\ SettledAgrees'
  BY DEF ChoiceStands, ModelStands, PickIsTrue, SettledAgrees, Live
<1>4. LatestIsLast'
  BY <1>1 DEF LatestIsLast, NothingOvertakes
<1>5. ReportsTell'
  BY <1>1 DEF ReportsTell, LastTells
<1> QED
  BY <1>2, <1>3, <1>4, <1>5

LEMMA LaunchKeeps ==
  ASSUME InferenceInv, InferenceTypeOK', LaunchReads \/ LaunchSpawns \/ LaunchEnds \/ WorkerExits \/ DaemonEnds
  PROVE  InferenceInv'
<1> USE DEF InferenceInv
<1>0. /\ policy \in PolicyRows /\ policy.model \in Models /\ engine.model \in Models
      /\ stage # "on" => picked = None
      /\ ~Live => NothingSent(engine, mail, reports)
      /\ Off(engine.model).want = None /\ Off(engine.model).task = None
      /\ Off(policy.model).want = None /\ Off(policy.model).task = None
  BY PolicyFields, EngineFields DEF InferenceTypeOK, UnderWay, Off
<1>1. CASE LaunchReads
  BY <1>0, <1>1, NothingIsUnderWay DEF LaunchReads, supervisor, NothingSent, Live
<1>2. CASE LaunchSpawns
  BY <1>0, <1>2, NothingIsUnderWay DEF LaunchSpawns, supervisor, NothingSent, Live
<1>3. CASE LaunchEnds /\ ~Resolved
  <2>1. policy' = Undelivered /\ stage' = "off" /\ picked' = None /\ choice' = choice /\ choices' = choices
    BY <1>0, <1>3 DEF LaunchEnds, supervisor
  <2>2. NothingSent(engine', mail', reports')
    BY <1>0, <1>3 DEF LaunchEnds, NothingSent
  <2> QED
    BY <1>0, <2>1, <2>2, UndeliveredRow, NothingIsUnderWay
<1>4. CASE LaunchEnds /\ Resolved
  <2>1. /\ stage = "starting" /\ stage' = "on" /\ Sends(policy) /\ picked' = None /\ engine.model = policy.model
        /\ UNCHANGED <<policy, engine, reports, choice, choices>>
        /\ mail \in Seq(Requests) /\ engine \in Engines /\ reports \in Seq(Receipts) /\ choices \in Nat
    BY <1>0, <1>4 DEF LaunchEnds, Resolved, supervisor, InferenceTypeOK
  <2>2. policy.pending = None => mail' = mail
    BY <1>0, <2>1, Delivered
  <2>3. /\ \A id, m : /\ policy.pending # None /\ id = policy.pending.id /\ m = policy.pending.model
                       /\ NothingOvertakes(id, m, engine, mail, reports)
              => NothingOvertakes(id, m, engine, mail', reports)
        /\ IdsGiven(choices, engine, mail', reports)
    <3>1. CASE policy.pending = None
      BY <2>2, <3>1 DEF UnderWay
    <3>2. CASE policy.pending # None
      <4> DEFINE s == [policy.pending EXCEPT !.error = FALSE]
      <4>1. s \in Requests /\ mail' = Append(mail, s) /\ s.id = policy.pending.id /\ s.model = policy.pending.model
        BY <1>0, <2>1, <3>2, Delivered
      <4> HIDE DEF s
      <4>2. s.id <= choices /\ IdsGiven(choices, engine, mail, reports)
        BY <3>2, <4>1 DEF UnderWay
      <4> QED
        BY <2>1, <4>1, <4>2, IdsStayGiven, SendingKeepsOrder
    <3> QED
      BY <3>1, <3>2
  <2>4. UnderWay'
    BY <2>1, <2>3 DEF UnderWay, Live
  <2>5. LatestIsLast'
    BY <2>1, <2>3 DEF LatestIsLast
  <2>6. ASSUME policy'.pending = None PROVE Agreed(policy'.model, engine', mail', reports')
    <3>1. mail' = mail /\ policy.pending = None
      BY <2>1, <2>2, <2>6
    <3>2. CASE Agreed(policy.model, engine, mail, reports)
      BY <2>1, <3>1, <3>2
    <3>3. CASE NothingSent(engine, mail, reports)
      BY <2>1, <3>1, <3>3 DEF NothingSent, Agreed, ReportsFrom
    <3> QED
      BY <2>1, <3>1, <3>2, <3>3 DEF SettledAgrees, Live
  <2>7. SettledAgrees'
    BY <2>6 DEF SettledAgrees
  <2>8. ChoiceStands' /\ ModelStands' /\ PickIsTrue'
    BY <2>1 DEF ChoiceStands, ModelStands, PickIsTrue
  <2>9. ReportsTell'
    BY <2>1 DEF ReportsTell, Applying
  <2> QED
    BY <2>4, <2>5, <2>7, <2>8, <2>9
<1>5. CASE WorkerExits
  <2>1. policy' = Undelivered /\ stage' = "off" /\ picked' = None /\ choice' = choice /\ choices' = choices
    BY <1>5 DEF WorkerExits
  <2>2. NothingSent(engine', mail', reports')
    BY <1>0, <1>5 DEF WorkerExits, NothingSent
  <2> QED
    BY <1>0, <2>1, <2>2, UndeliveredRow, NothingIsUnderWay
<1>6. CASE DaemonEnds
  BY <1>0, <1>6, NothingIsUnderWay DEF DaemonEnds, NothingSent
<1> QED
  BY <1>1, <1>2, <1>3, <1>4, <1>5, <1>6

\* Every step keeps the invariant.
LEMMA InferenceStep ==
  ASSUME InferenceInv, InferenceNext, ~SharedChunks
  PROVE  InferenceInv'
<1>1. InferenceTypeOK'
  BY InferenceTypeStep DEF InferenceInv
<1>2. CASE Ask \/ Choose \/ Read \/ DefaultBegins \/ Retarget \/ DefaultEnds
  BY <1>1, <1>2, AskKeeps, ChooseKeeps, DefaultKeeps
<1>3. CASE SelectInference \/ Unavailable \/ Busy \/ Rests \/ Apply \/ SetModel
  BY <1>1, <1>3, SelectInferenceKeeps, UnavailableKeeps, BusyKeeps, ApplyKeeps, SetModelKeeps
<1>4. CASE Applied
  BY <1>1, <1>4, ReportsKeep DEF Applied, Worker, supervisor
<1>5. CASE ApplyFails
  BY <1>1, <1>5, ReportsKeep DEF ApplyFails, supervisor
<1>6. CASE OnReport \/ SendTimesOut
  BY <1>1, <1>6, OnReportKeeps, SendTimesOutKeeps
<1>7. CASE LaunchReads \/ LaunchSpawns \/ LaunchEnds \/ WorkerExits \/ DaemonEnds
  BY <1>1, <1>7, LaunchKeeps
<1> QED
  BY <1>2, <1>3, <1>4, <1>5, <1>6, <1>7 DEF InferenceNext, Settles

LEMMA InferenceStart == InferenceInit => InferenceInv
<1> SUFFICES ASSUME InferenceInit PROVE InferenceInv
  OBVIOUS
<1>1. /\ settings \in Models /\ choice = settings /\ engine = Off(settings)
      /\ policy \in [model : {settings}, source : {"settings", "explicit"}, pending : {None}]
      /\ stage = "off" /\ generation = 0 /\ mail = <<>> /\ reports = <<>> /\ picked = None /\ change = None
      /\ choices = 0 /\ adrift = FALSE /\ faults = 0
  BY DEF InferenceInit
<1>2. InferenceTypeOK
  <2>1. policy \in PolicyRows
    BY <1>1 DEF PolicyRows
  <2>2. engine \in Engines /\ mail \in Seq(Requests) /\ reports \in Seq(Receipts) /\ choice \in Models
    BY <1>1, OffEngine
  <2>3. adrift \in BOOLEAN /\ generation \in Nat /\ choices \in Nat /\ faults \in Nat
    BY <1>1
  <2> QED
    BY <1>1, <2>1, <2>2, <2>3 DEF InferenceTypeOK
<1>3. policy.pending = None /\ policy.model = choice /\ engine.want = None /\ engine.task = None
  BY <1>1, OffEngine
<1>4. UnderWay
  BY <1>1, <1>3 DEF UnderWay, IdsGiven, NothingSent
<1>5. ChoiceStands /\ ModelStands /\ LatestIsLast /\ SettledAgrees /\ PickIsTrue
  BY <1>1, <1>3 DEF ChoiceStands, ModelStands, LatestIsLast, SettledAgrees, PickIsTrue, Live
<1>6. ReportsTell
  BY <1>1 DEF ReportsTell, LastTells
<1> QED
  BY <1>2, <1>4, <1>5, <1>6 DEF InferenceInv

\* The invariant holds of the specification, if no receipt arrives with the state that a
\* choice is made on.
THEOREM InferenceInvariant ==
  ASSUME ~SharedChunks
  PROVE  InferenceSpec => []InferenceInv
<1>1. InferenceInv /\ [InferenceNext]_infVars => InferenceInv'
  <2> SUFFICES ASSUME InferenceInv, [InferenceNext]_infVars PROVE InferenceInv'
    OBVIOUS
  <2>1. CASE InferenceNext
    BY <2>1, InferenceStep
  <2>2. CASE UNCHANGED infVars
    <3> USE DEF infVars
    <3>1. InferenceTypeOK' /\ UnderWay' /\ ChoiceStands' /\ ModelStands' /\ PickIsTrue'
      BY <2>2 DEF InferenceInv, InferenceTypeOK, UnderWay, ChoiceStands, ModelStands, PickIsTrue, Live
    <3>2. LatestIsLast' /\ SettledAgrees' /\ ReportsTell'
      BY <2>2 DEF InferenceInv, LatestIsLast, SettledAgrees, ReportsTell, Live
    <3> QED
      BY <3>1, <3>2 DEF InferenceInv
  <2> QED
    BY <2>1, <2>2
<1> QED
  BY <1>1, InferenceStart, PTL DEF InferenceSpec

\* The last choice is the one that ends up acknowledged, and what is acknowledged is what the
\* worker infers with, for any models and any number of choices, launches and faults.
THEOREM SelectionHolds ==
  ASSUME ~SharedChunks
  PROVE  InferenceSpec => []SelectionIsTrue
<1>1. InferenceInv => SelectionIsTrue
  <2> SUFFICES ASSUME InferenceInv PROVE SelectionIsTrue
    OBVIOUS
  <2>1. policy.pending = None => policy.model = choice
    BY DEF InferenceInv, ModelStands
  <2>2. ASSUME stage = "on", engine.task = None, reports = <<>>, ~adrift PROVE engine.model = policy.model
    BY <2>2 DEF InferenceInv, ReportsTell, Untold, Applying
  <2> QED
    BY <2>1, <2>2 DEF SelectionIsTrue
<1> QED
  BY <1>1, InferenceInvariant, PTL
=============================================================================
