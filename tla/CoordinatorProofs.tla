-------------------------- MODULE CoordinatorProofs --------------------------
(* What holds of the coordinator for any inputs, calls, retry policy and   *)
(* troubles.  The queue and the inputs a delivery takes from it are left   *)
(* open: nothing that is proved depends on them.                           *)
EXTENDS Coordinator, FiniteSetTheorems, TLAPS

Progress == {"unused", "queued", "blocked", "open", "running", "answered", "orphaned"}
Phases ==
  {"rest", "entry", "starting", "loop", "deliver", "prompt", "infer", "prepare", "streaming", "tools",
   "summary", "delay", "draining", "settle", "ending", "settled"}
Attempts ==
  [kind : {"none", "transient", "fatal", "overflow", "aborted"}, admitted : BOOLEAN, number : Nat]
Runs ==
  [on : BOOLEAN, stopping : BOOLEAN, aborted : BOOLEAN, failure : BOOLEAN, natural : BOOLEAN,
   unsent : BOOLEAN, attempt : Nat \ {0}, admitted : BOOLEAN, failed : Attempts, overflowTried : BOOLEAN]
Receipts ==
  [failed : BOOLEAN, provider : BOOLEAN, tool : BOOLEAN, report : {"none", "before", "unknown", "effects"}]

IsDrive(d) ==
  d \in [at : Phases, todo : {d.todo}, after : {"loop", "again", "request", "retry"}, back : {d.back},
         prompted : BOOLEAN, truncated : BOOLEAN, overflow : BOOLEAN, cut : BOOLEAN]

CoordTypeOK ==
  /\ call \in [Calls -> Progress] /\ native \subseteq Calls /\ ran \in Seq(Calls)
  /\ tail \in Seq(Calls) /\ IsDrive(drive) /\ run \in Runs /\ receipt \in Receipts

\* A tool that ran has its call behind it.
RanInv(history, progress) ==
  /\ IsFiniteSet(Members(history)) /\ Distinct(history)
  /\ \A c \in Members(history) : progress[c] \in {"running", "answered", "orphaned"}

\* Once the boundary is frozen the run only winds up: unless it says that tools may have run,
\* none is left, and neither the provider nor a tool is reached before the next run.
ReceiptInv(f, d, r, t) ==
  /\ f.report # "none" =>
       /\ d.at \in {"rest", "entry", "settle", "ending", "settled"}
       /\ r.on => r.stopping \/ d.at = "ending"
       /\ f.report # "effects" => t = <<>>
  /\ f.report = "before" => ~f.provider /\ ~f.tool
  /\ f.report = "unknown" => ~f.tool

\* The drive is about to repeat the failed attempt.
Waits(d) == d.at = "delay" \/ (d.at \in {"deliver", "prompt"} /\ d.after = "retry")
\* The drive is on its way to the provider, at it, or at a summary.
Works(d) ==
  \/ d.at \in {"infer", "prepare", "streaming", "tools", "summary"}
  \/ d.at \in {"deliver", "prompt"} /\ d.after # "retry"

\* What is repeated admitted nothing; what was admitted since has its results.
RetryInv(d, r, t) ==
  /\ Waits(d) => Retryable(r.failed) /\ (r.admitted => t = <<>>)
  /\ r.on /\ ~r.stopping /\ r.failure /\ Retryable(r.failed) /\ r.admitted => t = <<>>
  /\ r.on /\ ~r.stopping /\ r.aborted => ~Retryable(r.failed)
  /\ Works(d) => ~r.failure
  /\ d.at = "summary" => t = <<>>

\* The inductive invariant.
CoordInv ==
  CoordTypeOK /\ RanInv(ran, call) /\ ReceiptInv(receipt, drive, run, tail) /\ RetryInv(drive, run, tail)

-----------------------------------------------------------------------------
(* Lemmas about the operators. *)

LEMMA Places ==
  /\ \A p \in Phases : IsDrive(Goto(p)) /\ Goto(p).at = p /\ Goto(p).after = "loop"
  /\ \A p \in Phases : \A b :
       IsDrive(Infers(p, b)) /\ Infers(p, b).at = p /\ Infers(p, b).after = "loop"
  /\ \A todo : \A a \in {"loop", "again", "request", "retry"} :
       IsDrive(Delivers(todo, a)) /\ Delivers(todo, a).at = "deliver" /\ Delivers(todo, a).after = a
  /\ \A o \in BOOLEAN :
       IsDrive(Summarizes(o)) /\ Summarizes(o).at = "summary" /\ Summarizes(o).after = "loop"
  /\ IsDrive(AtRest) /\ AtRest.at = "rest" /\ AtRest.after = "loop"
<1>1. "rest" \in Phases /\ "deliver" \in Phases /\ "summary" \in Phases
  BY DEF Phases
<1> DEFINE d == AtRest
<1>2. IsDrive(d) /\ d.at = "rest" /\ d.after = "loop"
  BY <1>1 DEF IsDrive, AtRest
<1> HIDE DEF d
<1>3. ASSUME NEW p \in Phases
      PROVE  IsDrive(Goto(p)) /\ Goto(p).at = p /\ Goto(p).after = "loop"
  <2>1. Goto(p) = [d EXCEPT !.at = p]
    BY DEF Goto, d
  <2> QED BY <1>2, <2>1 DEF IsDrive
<1>4. ASSUME NEW p \in Phases, NEW b
      PROVE  IsDrive(Infers(p, b)) /\ Infers(p, b).at = p /\ Infers(p, b).after = "loop"
  <2>1. Infers(p, b) = [d EXCEPT !.at = p, !.back = b]
    BY DEF Infers, d
  <2> QED BY <1>2, <2>1 DEF IsDrive
<1>5. ASSUME NEW todo, NEW a \in {"loop", "again", "request", "retry"}
      PROVE  /\ IsDrive(Delivers(todo, a)) /\ Delivers(todo, a).at = "deliver"
             /\ Delivers(todo, a).after = a
  <2> DEFINE e == Infers("deliver", drive.back)
  <2>1. Delivers(todo, a) = [e EXCEPT !.todo = todo, !.after = a]
    BY DEF Delivers
  <2>2. IsDrive(e) /\ e.at = "deliver"
    BY <1>1, <1>4
  <2> HIDE DEF e
  <2> QED BY <2>1, <2>2 DEF IsDrive
<1>6. ASSUME NEW o \in BOOLEAN
      PROVE  IsDrive(Summarizes(o)) /\ Summarizes(o).at = "summary" /\ Summarizes(o).after = "loop"
  <2> DEFINE e == Goto("summary")
  <2>1. Summarizes(o) = [e EXCEPT !.overflow = o]
    BY DEF Summarizes
  <2>2. IsDrive(e) /\ e.at = "summary" /\ e.after = "loop"
    BY <1>1, <1>3
  <2> HIDE DEF e
  <2> QED BY <2>1, <2>2 DEF IsDrive
<1> QED BY <1>2, <1>3, <1>4, <1>5, <1>6 DEF d

\* A drive that ends rests, or begins anew.
LEMMA Ends ==
  ASSUME NEW r, NEW q, NEW t
  PROVE  /\ IsDrive(Ended(r, q, t)) /\ Ended(r, q, t).after = "loop"
         /\ Ended(r, q, t).at \in {"rest", "entry"}
<1>1. Ended(r, q, t) = AtRest \/ Ended(r, q, t) = Goto("entry")
  BY DEF Ended, Goto
<1>2. "entry" \in Phases
  BY DEF Phases
<1> QED BY <1>1, <1>2, Places

LEMMA Settles ==
  ASSUME NEW r
  PROVE  /\ IsDrive(SettleOrEnd(r)) /\ SettleOrEnd(r).after = "loop"
         /\ SettleOrEnd(r).at \in {"rest", "entry", "settle"}
<1>1. "settle" \in Phases
  BY DEF Phases
<1> QED BY <1>1, Places, Ends DEF SettleOrEnd

\* Waking starts a drive that rests.
LEMMA Wakes ==
  ASSUME IsDrive(drive), NEW cut \in BOOLEAN
  PROVE  /\ IsDrive(Woken) /\ Woken.after = drive.after
         /\ Woken.at = IF drive.at = "rest" THEN "entry" ELSE drive.at
         /\ IsDrive([Woken EXCEPT !.cut = cut]) /\ [Woken EXCEPT !.cut = cut].after = drive.after
         /\ [Woken EXCEPT !.cut = cut].at = IF drive.at = "rest" THEN "entry" ELSE drive.at
<1>1. /\ IsDrive(Woken) /\ Woken.after = drive.after
      /\ Woken.at = IF drive.at = "rest" THEN "entry" ELSE drive.at
  BY DEF IsDrive, Woken, Phases
<1> DEFINE d == Woken
<1> HIDE DEF d
<1>2. /\ IsDrive(d) => /\ IsDrive([d EXCEPT !.cut = cut]) /\ [d EXCEPT !.cut = cut].after = d.after
                       /\ [d EXCEPT !.cut = cut].at = d.at
  BY DEF IsDrive
<1> QED BY <1>1, <1>2 DEF d

\* An inference returns to the loop, or first to a summary if nothing failed and no tool is left.
LEMMA Returns ==
  ASSUME NEW r, NEW d, d \in Preflight(r) \/ d \in Returned(r)
  PROVE  /\ IsDrive(d) /\ d.after = "loop"
         /\ d.at = "loop" \/ (d.at = "summary" /\ ~r.failure /\ tail = <<>>)
<1>1. d = Goto("loop") \/ (d = Summarizes(FALSE) /\ MayCompact(r))
  BY DEF Preflight, Returned
<1>2. "loop" \in Phases
  BY DEF Phases
<1>3. CASE d = Goto("loop")
  BY <1>2, <1>3, Places
<1>4. CASE d = Summarizes(FALSE) /\ MayCompact(r)
  BY <1>2, <1>4, Places DEF MayCompact
<1> QED BY <1>1, <1>3, <1>4

\* No failed attempt, or one of another kind, is repeated.
LEMMA NotRepeated ==
  /\ NoAttempt \in Attempts /\ ~Retryable(NoAttempt)
  /\ \A a : a.kind # "transient" => ~Retryable(a)
  BY DEF NoAttempt, Attempts, Retryable

LEMMA MembersAre ==
  ASSUME NEW S, NEW s \in Seq(S)
  PROVE  /\ Members(s) \subseteq S
         /\ \A e \in S : Members(Append(s, e)) = Members(s) \cup {e}
<1>1. Members(s) \subseteq S
  BY DEF Members
<1>2. ASSUME NEW e \in S
      PROVE  Members(Append(s, e)) = Members(s) \cup {e}
  <2>1. /\ DOMAIN Append(s, e) = 1..Len(s) + 1 /\ DOMAIN s = 1..Len(s) /\ Len(s) \in Nat
        /\ Append(s, e)[Len(s) + 1] = e /\ \A i \in 1..Len(s) : Append(s, e)[i] = s[i]
    OBVIOUS
  <2>2. \A n \in Nat : n + 1 \in 1..n + 1 /\ \A i \in 1..n + 1 : i \in 1..n \/ i = n + 1
    OBVIOUS
  <2>3. \A n \in Nat : \A i \in 1..n : i \in 1..n + 1
    OBVIOUS
  <2> QED BY <2>1, <2>2, <2>3 DEF Members
<1> QED BY <1>1, <1>2

-----------------------------------------------------------------------------
(* Steps that leave the calls alone. *)

LEMMA CallsKept ==
  ASSUME CoordInv, UNCHANGED <<call, native, ran, tail>>, IsDrive(drive'), run' \in Runs,
         receipt' \in Receipts, ReceiptInv(receipt, drive, run, tail)', RetryInv(drive, run, tail)'
  PROVE  CoordInv'
  BY DEF CoordInv, CoordTypeOK, RanInv

\* A step of a drive whose run has no frozen boundary.
LEMMA NotReported ==
  ASSUME CoordInv, UNCHANGED <<call, native, ran, tail>>, IsDrive(drive'), run' \in Runs,
         receipt' \in Receipts, receipt'.report = "none", RetryInv(drive, run, tail)'
  PROVE  CoordInv'
<1>1. ReceiptInv(receipt, drive, run, tail)'
  BY DEF ReceiptInv
<1> QED BY <1>1, CallsKept

\* While the drive works, and between its steps while the run goes on, no boundary is frozen.
LEMMA Unreported ==
  ASSUME CoordInv,
         \/ drive.at \notin {"rest", "entry", "settle", "ending", "settled"}
         \/ drive.at = "entry" /\ run.on /\ ~run.stopping
  PROVE  receipt.report = "none"
  BY DEF CoordInv, ReceiptInv

\* Something happens to the actor from outside of the drive: at most a drive wakes, a failure is
\* forgotten or the run is stopped.
LEMMA Outside ==
  ASSUME CoordInv, UNCHANGED <<call, native, ran, tail, receipt>>, IsDrive(drive'), run' \in Runs,
         drive'.after = drive.after, drive'.at = drive.at \/ (drive.at = "rest" /\ drive'.at = "entry"),
         run'.on = run.on, run'.admitted = run.admitted, run'.failed = run.failed,
         run'.failure => run.failure, run'.stopping \/ (~run.stopping /\ run'.aborted = run.aborted)
                                        \/ (run'.stopping = run.stopping /\ run'.aborted = run.aborted)
  PROVE  CoordInv'
<1>1. receipt' \in Receipts
  BY DEF CoordInv, CoordTypeOK
<1>2. run.stopping => run'.stopping
  OBVIOUS
<1>3. ReceiptInv(receipt, drive, run, tail)'
  BY <1>2 DEF CoordInv, ReceiptInv
<1>4. RetryInv(drive, run, tail)'
  BY DEF CoordInv, RetryInv, Waits, Works
<1> QED BY <1>1, <1>3, <1>4, CallsKept

LEMMA OutsideSteps ==
  ASSUME CoordInv,
         \/ \E i \in Inputs : Submit(i) \/ \E triggerTurn \in BOOLEAN : SendCustom(i, triggerTurn)
         \/ Abort \/ Compact \/ CompactEnds
  PROVE  CoordInv'
<1>1. IsDrive(drive) /\ run \in Runs
  BY DEF CoordInv, CoordTypeOK
<1>2. UNCHANGED <<call, native, ran, tail, receipt>>
  BY DEF Submit, SendCustom, Abort, Compact, CompactEnds, transcript
<1>3. \/ run' = run \/ run' = [run EXCEPT !.failure = FALSE]
      \/ run' = [run EXCEPT !.stopping = TRUE, !.aborted = TRUE]
  BY DEF Submit, SendCustom, Abort, Compact, CompactEnds
<1>4. drive' = drive \/ drive' = Woken \/ drive' = [Woken EXCEPT !.cut = (drive.at = "summary")]
  BY DEF Submit, SendCustom, Abort, Compact, CompactEnds
<1>5. /\ IsDrive(drive') /\ drive'.after = drive.after
      /\ drive'.at = drive.at \/ (drive.at = "rest" /\ drive'.at = "entry")
  BY <1>1, <1>4, Wakes
<1>6. /\ run' \in Runs /\ run'.on = run.on /\ run'.admitted = run.admitted /\ run'.failed = run.failed
      /\ run'.failure => run.failure
      /\ run'.stopping \/ (run'.stopping = run.stopping /\ run'.aborted = run.aborted)
  BY <1>1, <1>3 DEF Runs
<1> QED BY <1>2, <1>5, <1>6, Outside
-----------------------------------------------------------------------------
(* Tools, and the death of the worker. *)

\* Calls that move on, in a tail that does not grow, leave the drive and the run as they are.
LEMMA TailKept ==
  ASSUME CoordInv, native' \subseteq Calls, call' \in [Calls -> Progress], ran' \in Seq(Calls),
         RanInv(ran, call)', tail' \in Seq(Calls), tail = <<>> => tail' = <<>>,
         IsDrive(drive'), drive'.after = drive.after,
         drive'.at = drive.at \/ (drive.at = "rest" /\ drive'.at = "entry"),
         run' \in Runs, run'.on = run.on, run'.admitted = run.admitted, run'.failed = run.failed,
         run'.failure = run.failure, run'.stopping = run.stopping, run'.aborted = run.aborted,
         receipt' \in Receipts, receipt'.report = receipt.report,
         receipt'.provider = receipt.provider, (receipt'.tool = receipt.tool) \/ tail # <<>>
  PROVE  CoordInv'
<1>1. ReceiptInv(receipt, drive, run, tail)'
  BY DEF CoordInv, CoordTypeOK, Receipts, ReceiptInv
<1>2. RetryInv(drive, run, tail)'
  BY DEF CoordInv, RetryInv, Waits, Works
<1> QED BY <1>1, <1>2 DEF CoordInv, CoordTypeOK

\* The call at the head of the tail.
LEMMA HeadCall ==
  ASSUME CoordInv, tail # <<>>
  PROVE  Head(tail) \in Calls /\ Tail(tail) \in Seq(Calls)
  BY DEF CoordInv, CoordTypeOK

\* A call whose progress is past its execution stays there.
LEMMA RanKept ==
  ASSUME CoordInv, UNCHANGED ran, NEW c \in Calls, NEW p \in Progress,
         call' = [call EXCEPT ![c] = p],
         p \in {"running", "answered", "orphaned"} \/ call[c] \notin {"running", "answered", "orphaned"}
  PROVE  call' \in [Calls -> Progress] /\ RanInv(ran, call)' /\ ran' \in Seq(Calls)
<1>1. Members(ran) \subseteq Calls
  BY MembersAre DEF CoordInv, CoordTypeOK
<1>2. call \in [Calls -> Progress] /\ ran \in Seq(Calls) /\ RanInv(ran, call)
  BY DEF CoordInv, CoordTypeOK
<1>3. \A m \in Members(ran) : call'[m] \in {"running", "answered", "orphaned"}
  BY <1>1, <1>2 DEF RanInv
<1> QED BY <1>2, <1>3 DEF RanInv

LEMMA AnswerSteps ==
  ASSUME CoordInv, RefuseTool \/ FinishTool
  PROVE  CoordInv'
<1> DEFINE c == Head(tail)
<1>1. tail # <<>> /\ c \in Calls /\ Tail(tail) \in Seq(Calls)
  BY HeadCall DEF RefuseTool, FinishTool
<1>2. Answer(c) /\ UNCHANGED ran
  BY DEF RefuseTool, FinishTool
<1> HIDE DEF c
<1>3. /\ call' = [call EXCEPT ![c] = "answered"] /\ tail' = Tail(tail)
      /\ run' = [run EXCEPT !.unsent = TRUE] /\ drive' = Woken /\ UNCHANGED <<native, receipt>>
  BY <1>2 DEF Answer
<1>4. /\ IsDrive(drive) /\ run \in Runs /\ native \subseteq Calls /\ receipt \in Receipts
  BY DEF CoordInv, CoordTypeOK
<1>5. call' \in [Calls -> Progress] /\ RanInv(ran, call)' /\ ran' \in Seq(Calls)
  BY <1>1, <1>2, <1>3, RanKept DEF Progress
<1>6. /\ IsDrive(drive') /\ drive'.after = drive.after
      /\ drive'.at = drive.at \/ (drive.at = "rest" /\ drive'.at = "entry")
  BY <1>3, <1>4, Wakes
<1>7. /\ run' \in Runs /\ run'.on = run.on /\ run'.admitted = run.admitted /\ run'.failed = run.failed
      /\ run'.failure = run.failure /\ run'.stopping = run.stopping /\ run'.aborted = run.aborted
  BY <1>3, <1>4 DEF Runs
<1> QED BY <1>1, <1>3, <1>4, <1>5, <1>6, <1>7, TailKept

LEMMA OpenToolStep ==
  ASSUME CoordInv, OpenTool
  PROVE  CoordInv'
<1> DEFINE c == Head(tail)
<1>1. tail # <<>> /\ c \in Calls
  BY HeadCall DEF OpenTool
<1>2. /\ call[c] = "queued" /\ call' = [call EXCEPT ![c] = "open"]
      /\ UNCHANGED <<ran, native, tail, drive, run, receipt>>
  BY DEF OpenTool
<1> HIDE DEF c
<1>3. call' \in [Calls -> Progress] /\ RanInv(ran, call)' /\ ran' \in Seq(Calls)
  BY <1>1, <1>2, RanKept DEF Progress
<1>4. /\ IsDrive(drive) /\ run \in Runs /\ native \subseteq Calls /\ receipt \in Receipts /\ tail \in Seq(Calls)
  BY DEF CoordInv, CoordTypeOK
<1> QED BY <1>2, <1>3, <1>4, TailKept

\* A call that opens has not run; from now on it counts as run.
LEMMA RunToolStep ==
  ASSUME CoordInv, RunTool
  PROVE  CoordInv'
<1> DEFINE c == Head(tail)
<1>1. tail # <<>> /\ c \in Calls
  BY HeadCall DEF RunTool
<1>2. /\ call[c] = "open" /\ call' = [call EXCEPT ![c] = "running"] /\ ran' = Append(ran, c)
      /\ receipt' = [receipt EXCEPT !.tool = TRUE] /\ UNCHANGED <<native, tail, drive, run>>
  BY DEF RunTool
<1> HIDE DEF c
<1>3. /\ IsDrive(drive) /\ run \in Runs /\ native \subseteq Calls /\ receipt \in Receipts
      /\ tail \in Seq(Calls) /\ ran \in Seq(Calls) /\ call \in [Calls -> Progress] /\ RanInv(ran, call)
  BY DEF CoordInv, CoordTypeOK
<1>4. Members(ran') = Members(ran) \cup {c} /\ Members(ran) \subseteq Calls
  BY <1>1, <1>2, <1>3, MembersAre
<1>5. c \notin Members(ran)
  BY <1>2, <1>3 DEF RanInv
<1>6. ran' \in Seq(Calls) /\ Len(ran') = Len(ran) + 1
  BY <1>1, <1>2, <1>3
<1>7. IsFiniteSet(Members(ran')) /\ Distinct(ran')
  <2>1. IsFiniteSet(Members(ran)) /\ Cardinality(Members(ran)) = Len(ran)
    BY <1>3 DEF RanInv, Distinct
  <2>2. IsFiniteSet(Members(ran')) /\ Cardinality(Members(ran')) = Cardinality(Members(ran)) + 1
    BY <1>4, <1>5, <2>1, FS_AddElement
  <2> QED BY <1>6, <2>1, <2>2 DEF Distinct
<1>8. call' \in [Calls -> Progress] /\ RanInv(ran, call)'
  <2>1. \A m \in Members(ran') : call'[m] \in {"running", "answered", "orphaned"}
    BY <1>1, <1>2, <1>3, <1>4 DEF RanInv
  <2>2. call' \in [Calls -> Progress]
    BY <1>2, <1>3 DEF Progress
  <2> QED BY <1>7, <2>1, <2>2 DEF RanInv
<1>9. /\ receipt' \in Receipts /\ receipt'.report = receipt.report
      /\ receipt'.provider = receipt.provider
  BY <1>2, <1>3 DEF Receipts
<1> QED BY <1>1, <1>2, <1>3, <1>6, <1>8, <1>9, TailKept

LEMMA CrashStep ==
  ASSUME CoordInv, Crash
  PROVE  CoordInv'
<1>1. /\ call' = [c \in Calls |-> IF call[c] \in Pending THEN "orphaned" ELSE call[c]]
      /\ tail' = <<>> /\ drive' = AtRest /\ run' = NoRun /\ receipt' = NoReceipt
      /\ UNCHANGED <<native, ran>>
  BY DEF Crash
<1>2. /\ native \subseteq Calls /\ ran \in Seq(Calls) /\ call \in [Calls -> Progress] /\ RanInv(ran, call)
  BY DEF CoordInv, CoordTypeOK
<1>3. call' \in [Calls -> Progress] /\ RanInv(ran, call)'
  <2>1. Members(ran) \subseteq Calls
    BY <1>2, MembersAre
  <2>2. \A m \in Members(ran) : call'[m] \in {"running", "answered", "orphaned"}
    BY <1>1, <1>2, <2>1 DEF RanInv
  <2>3. call' \in [Calls -> Progress]
    BY <1>1, <1>2 DEF Progress
  <2> QED BY <1>1, <1>2, <2>2, <2>3 DEF RanInv
<1>4. /\ NoRun \in Runs /\ ~NoRun.on /\ ~NoRun.failure
  BY NotRepeated DEF NoRun, Runs
<1>5. NoReceipt \in Receipts /\ NoReceipt.report = "none"
  BY DEF NoReceipt, Receipts
<1>6. IsDrive(drive') /\ drive'.at = "rest"
  BY <1>1, Places
<1>7. RetryInv(drive, run, tail)'
  BY <1>1, <1>4, <1>6 DEF RetryInv, Waits, Works
<1>8. ReceiptInv(receipt, drive, run, tail)'
  BY <1>1, <1>5 DEF ReceiptInv
<1>9. tail' \in Seq(Calls)
  BY <1>1
<1> QED BY <1>1, <1>2, <1>3, <1>4, <1>5, <1>6, <1>7, <1>8, <1>9 DEF CoordInv, CoordTypeOK

-----------------------------------------------------------------------------
(* The drive between runs. *)

LEMMA RetryNowhere ==
  ASSUME RetryInv(drive, run, tail), UNCHANGED <<run, tail>>, ~Waits(drive'), ~Works(drive')
  PROVE  RetryInv(drive, run, tail)'
  BY DEF RetryInv, Works

LEMMA EntrySteps ==
  ASSUME CoordInv, NothingToDrive \/ StopRun \/ ResumeRun \/ Settled
  PROVE  CoordInv'
<1>1. /\ UNCHANGED <<call, native, ran, tail, run, receipt>>
      /\ run \in Runs /\ receipt \in Receipts /\ RetryInv(drive, run, tail)
      /\ ReceiptInv(receipt, drive, run, tail)
  BY DEF NothingToDrive, StopRun, ResumeRun, Settled, transcript, CoordInv, CoordTypeOK
<1>2. CASE ResumeRun
  <2>1. drive' = Goto("loop") /\ drive.at = "entry" /\ run.on /\ ~run.stopping
    BY <1>2 DEF ResumeRun
  <2>2. IsDrive(drive') /\ drive'.at = "loop"
    BY <2>1, Places DEF Phases
  <2>3. RetryInv(drive, run, tail)'
    BY <1>1, <2>2, RetryNowhere DEF Waits, Works
  <2>4. receipt.report = "none"
    BY <2>1, Unreported
  <2> QED BY <1>1, <2>2, <2>3, <2>4, NotReported
<1>3. CASE ~ResumeRun
  <2>1. /\ drive.at = "settled" \/ (drive.at = "entry" /\ (run.on => run.stopping \/ drive' = Ended(run, queue, tail)))
        /\ drive' = Ended(run, queue, tail) \/ drive' = SettleOrEnd(run)
    BY <1>3 DEF NothingToDrive, StopRun, Settled
  <2>2. IsDrive(drive') /\ drive'.at \in {"rest", "entry", "settle"}
    BY <2>1, Ends, Settles
  <2>3. RetryInv(drive, run, tail)'
    BY <1>1, <2>2, RetryNowhere DEF Waits, Works
  <2>4. ReceiptInv(receipt, drive, run, tail)'
    BY <1>1, <2>1, <2>2 DEF ReceiptInv
  <2> QED BY <1>1, <2>2, <2>3, <2>4, CallsKept
<1> QED BY <1>2, <1>3

LEMMA StartRunStep ==
  ASSUME CoordInv, StartRun
  PROVE  CoordInv'
<1>1. /\ run' = [run EXCEPT !.on = TRUE, !.stopping = FALSE, !.aborted = FALSE, !.attempt = 1,
                            !.failed = NoAttempt, !.overflowTried = FALSE]
      /\ receipt' = NoReceipt /\ drive' = Goto("starting") /\ UNCHANGED <<call, native, ran, tail>>
  BY DEF StartRun, transcript
<1>2. run' \in Runs /\ run'.failed = NoAttempt
  <2>1. run \in Runs /\ NoAttempt \in Attempts
    BY NotRepeated DEF CoordInv, CoordTypeOK
  <2> DEFINE none == NoAttempt
             first == 1
             r == [run EXCEPT !.on = TRUE, !.stopping = FALSE, !.aborted = FALSE]
  <2>2. run' = [r EXCEPT !.attempt = first, !.failed = none, !.overflowTried = FALSE]
    BY <1>1
  <2>3. none \in Attempts /\ first \in Nat \ {0} /\ r \in Runs
    <3>1. none \in Attempts
      BY <2>1
    <3>2. first \in Nat \ {0}
      OBVIOUS
    <3>3. r \in Runs
      BY <2>1 DEF Runs
    <3> QED BY <3>1, <3>2, <3>3
  <2> HIDE DEF none, first, r
  <2>4. run' \in Runs /\ run'.failed = none
    BY <2>2, <2>3 DEF Runs
  <2> QED BY <2>4 DEF none
<1>3. IsDrive(drive') /\ drive'.at = "starting"
  BY <1>1, Places DEF Phases
<1>4. RetryInv(drive, run, tail)'
  BY <1>2, <1>3, NotRepeated DEF RetryInv, Waits, Works
<1>5. receipt' \in Receipts /\ receipt'.report = "none"
  BY <1>1 DEF NoReceipt, Receipts
<1> QED BY <1>1, <1>2, <1>3, <1>4, <1>5, NotReported

\* Recovery ends the calls that another process left.
LEMMA BeginStep ==
  ASSUME CoordInv, Begin
  PROVE  CoordInv'
<1>1. /\ call' = IF recovered THEN call ELSE [c \in Calls |-> IF c \in Orphans THEN "answered" ELSE call[c]]
      /\ drive' \in Preflight(run) /\ drive.at = "starting" /\ UNCHANGED <<native, ran, tail, run, receipt>>
  BY DEF Begin
<1>2. /\ native \subseteq Calls /\ ran \in Seq(Calls) /\ call \in [Calls -> Progress] /\ RanInv(ran, call)
      /\ tail \in Seq(Calls) /\ run \in Runs /\ receipt \in Receipts /\ RetryInv(drive, run, tail)
  BY DEF CoordInv, CoordTypeOK
<1>3. call' \in [Calls -> Progress] /\ RanInv(ran, call)'
  <2>1. Members(ran) \subseteq Calls
    BY <1>2, MembersAre
  <2>2. \A m \in Members(ran) : call'[m] \in {"running", "answered", "orphaned"}
    BY <1>1, <1>2, <2>1 DEF RanInv
  <2>3. call' \in [Calls -> Progress]
    BY <1>1, <1>2 DEF Progress
  <2> QED BY <1>1, <1>2, <2>2, <2>3 DEF RanInv
<1>4. /\ IsDrive(drive')
      /\ drive'.at = "loop" \/ (drive'.at = "summary" /\ ~run.failure /\ tail = <<>>)
  BY <1>1, Returns
<1>5. RetryInv(drive, run, tail)'
  BY <1>1, <1>2, <1>4 DEF RetryInv, Waits, Works
<1>6. receipt.report = "none"
  BY <1>1, Unreported
<1>7. ReceiptInv(receipt, drive, run, tail)'
  BY <1>1, <1>6 DEF ReceiptInv
<1> QED BY <1>1, <1>2, <1>3, <1>4, <1>5, <1>7 DEF CoordInv, CoordTypeOK

\* The boundary is frozen as what may have happened; a frozen one is kept.
LEMMA Journals ==
  ASSUME NEW f \in Receipts
  PROVE  /\ Journal(f) \in Receipts /\ Journal(f).provider = f.provider /\ Journal(f).tool = f.tool
         /\ f.report # "none" => Journal(f) = f
         /\ f.report = "none" =>
              /\ Journal(f).report = "before" => ~f.tool /\ ~f.provider /\ tail = <<>>
              /\ Journal(f).report = "unknown" => ~f.tool /\ tail = <<>>
<1>1. /\ Boundary(f) \in {"effects", "unknown", "before"}
      /\ Boundary(f) = "before" => ~f.tool /\ ~f.provider /\ tail = <<>>
      /\ Boundary(f) = "unknown" => ~f.tool /\ tail = <<>>
  BY DEF Boundary
<1>2. CASE f.failed /\ f.report = "none"
  <2>1. Journal(f) = [f EXCEPT !.report = Boundary(f)]
    BY <1>2 DEF Journal
  <2> DEFINE boundary == Boundary(f)
  <2> HIDE DEF boundary
  <2>2. Journal(f) \in Receipts /\ Journal(f).provider = f.provider /\ Journal(f).tool = f.tool
        /\ Journal(f).report = boundary
    <3>1. boundary \in {"effects", "unknown", "before"} /\ Journal(f) = [f EXCEPT !.report = boundary]
      BY <1>1, <2>1 DEF boundary
    <3> QED BY <3>1 DEF Receipts
  <2> QED BY <1>1, <1>2, <2>2 DEF boundary
<1>3. CASE ~(f.failed /\ f.report = "none")
  BY <1>3 DEF Journal
<1> QED BY <1>2, <1>3

LEMMA SettleStep ==
  ASSUME CoordInv, Settle
  PROVE  CoordInv'
<1> DEFINE failed == receipt.failed \/ (run.failure /\ ~run.stopping)
           f == [receipt EXCEPT !.failed = failed]
<1>1. /\ receipt' = Journal(f) /\ drive' = Goto("ending") /\ drive.at = "settle"
      /\ UNCHANGED <<call, native, ran, tail, run>>
  BY DEF Settle, transcript
<1>2. /\ run \in Runs /\ receipt \in Receipts /\ RetryInv(drive, run, tail)
      /\ ReceiptInv(receipt, drive, run, tail)
  BY DEF CoordInv, CoordTypeOK
<1>3. failed \in BOOLEAN
  BY <1>2 DEF Receipts, Runs
<1> HIDE DEF failed
<1>4. /\ f \in Receipts /\ f.report = receipt.report /\ f.provider = receipt.provider
      /\ f.tool = receipt.tool
  BY <1>2, <1>3 DEF Receipts
<1> HIDE DEF f
<1>5. IsDrive(drive') /\ drive'.at = "ending"
  BY <1>1, Places DEF Phases
<1>6. RetryInv(drive, run, tail)'
  BY <1>1, <1>2, <1>5, RetryNowhere DEF Waits, Works
<1>7. /\ receipt' \in Receipts /\ receipt'.provider = receipt.provider /\ receipt'.tool = receipt.tool
      /\ receipt.report # "none" => receipt'.report = receipt.report
      /\ receipt.report = "none" =>
           /\ receipt'.report = "before" => ~receipt.tool /\ ~receipt.provider /\ tail = <<>>
           /\ receipt'.report = "unknown" => ~receipt.tool /\ tail = <<>>
  BY <1>1, <1>4, Journals
<1>8. ReceiptInv(receipt, drive, run, tail)'
  <2>1. receipt'.report \in {"none", "before", "unknown", "effects"}
    BY <1>7 DEF Receipts
  <2> QED BY <1>1, <1>2, <1>5, <1>7, <2>1 DEF ReceiptInv
<1> QED BY <1>1, <1>2, <1>5, <1>6, <1>7, <1>8, CallsKept

LEMMA EndingStep ==
  ASSUME CoordInv, Ending
  PROVE  CoordInv'
<1>1. /\ run' = [run EXCEPT !.on = FALSE, !.stopping = FALSE] /\ drive' = Goto("settled")
      /\ drive.at = "ending" /\ UNCHANGED <<call, native, ran, tail, receipt>>
  BY DEF Ending, transcript
<1>2. /\ run \in Runs /\ receipt \in Receipts /\ ReceiptInv(receipt, drive, run, tail)
  BY DEF CoordInv, CoordTypeOK
<1>3. run' \in Runs /\ ~run'.on
  BY <1>1, <1>2 DEF Runs
<1>4. IsDrive(drive') /\ drive'.at = "settled"
  BY <1>1, Places DEF Phases
<1>5. RetryInv(drive, run, tail)'
  BY <1>3, <1>4 DEF RetryInv, Waits, Works
<1>6. ReceiptInv(receipt, drive, run, tail)'
  BY <1>1, <1>2, <1>3, <1>4 DEF ReceiptInv
<1> QED BY <1>1, <1>2, <1>3, <1>4, <1>5, <1>6, CallsKept

-----------------------------------------------------------------------------
(* The drive at its inputs. *)

\* What a step of the drive finds.
LEMMA Found ==
  ASSUME CoordInv
  PROVE  /\ run \in Runs /\ receipt \in Receipts /\ RetryInv(drive, run, tail) /\ IsDrive(drive)
         /\ ReceiptInv(receipt, drive, run, tail)
         /\ tail \in Seq(Calls) /\ native \subseteq Calls /\ call \in [Calls -> Progress]
         /\ ran \in Seq(Calls) /\ RanInv(ran, call)
  BY DEF CoordInv, CoordTypeOK

\* The drive moves on with the run as it is.
LEMMA Goes ==
  ASSUME CoordInv, UNCHANGED <<call, native, ran, tail, run, receipt>>, IsDrive(drive'),
         drive.at \notin {"rest", "entry", "settle", "ending", "settled"},
         Waits(drive') => Waits(drive), Works(drive') => Works(drive) \/ ~run.failure,
         drive'.at = "summary" => tail = <<>>
  PROVE  CoordInv'
<1>1. RetryInv(drive, run, tail)'
  BY Found DEF RetryInv
<1> QED BY <1>1, Found, Unreported, NotReported

LEMMA LoopStep ==
  ASSUME CoordInv, Loop
  PROVE  CoordInv'
<1>1. drive.at = "loop" /\ UNCHANGED <<call, native, ran, tail, run, receipt>>
  BY DEF Loop, transcript
<1>2. \/ drive' = Goto("settle") \/ drive' = Ended(run, queue, tail)
      \/ drive' = Delivers(Selected(TakesFollowUps), "loop") /\ ~run.failure
  BY DEF Loop
<1>3. /\ IsDrive(drive')
      /\ \/ drive'.at \in {"settle", "rest", "entry"}
         \/ drive'.at = "deliver" /\ drive'.after = "loop" /\ ~run.failure
  BY <1>2, Places, Ends DEF Phases
<1> QED BY <1>1, <1>3, Goes DEF Waits, Works

\* An input enters the transcript, or its prompt is prepared: the failures stay.
LEMMA InputSteps ==
  ASSUME CoordInv, EnterInput \/ PromptPrepared
  PROVE  CoordInv'
<1>1. UNCHANGED <<call, native, ran, tail, receipt>> /\ drive.at \in {"deliver", "prompt"}
  BY DEF EnterInput, PromptPrepared, transcript
<1>2. run' = run \/ run' = [run EXCEPT !.unsent = TRUE, !.natural = FALSE]
  BY DEF EnterInput, PromptPrepared
<1>3. /\ run' \in Runs /\ run'.on = run.on /\ run'.admitted = run.admitted /\ run'.failed = run.failed
      /\ run'.failure = run.failure /\ run'.stopping = run.stopping /\ run'.aborted = run.aborted
  BY <1>2, Found DEF Runs
<1>4. \/ drive' = [drive EXCEPT !.todo = Tail(@)]
      \/ drive' = [drive EXCEPT !.at = "prompt", !.todo = Tail(@), !.prompted = TRUE]
      \/ drive' = [drive EXCEPT !.at = "deliver"]
  BY DEF EnterInput, PromptPrepared
<1>5. IsDrive(drive') /\ drive'.after = drive.after /\ drive'.at \in {"deliver", "prompt"}
  BY <1>1, <1>4, Found DEF IsDrive, Phases
<1>6. RetryInv(drive, run, tail)'
  BY <1>1, <1>3, <1>5, Found DEF RetryInv, Waits, Works
<1> QED BY <1>1, <1>3, <1>5, <1>6, Found, Unreported, NotReported

LEMMA DeliveredStep ==
  ASSUME CoordInv, Delivered
  PROVE  CoordInv'
<1>1. /\ drive.at = "deliver" /\ drive.after \in {"loop", "again"}
      /\ UNCHANGED <<call, native, ran, tail, run, receipt>>
  BY DEF Delivered, transcript
<1>2. \/ drive' = Goto("loop") \/ drive' = Infers("infer", "run") \/ drive' = Ended(run, queue, tail)
      \/ drive' = Delivers(Selected(TRUE), "again") \/ drive' = Goto("settle")
  BY DEF Delivered
<1>3. /\ IsDrive(drive')
      /\ \/ drive'.at \in {"loop", "infer", "rest", "entry", "settle"}
         \/ drive'.at = "deliver" /\ drive'.after = "again"
  <2>1. "loop" \in Phases /\ "infer" \in Phases /\ "settle" \in Phases
    BY DEF Phases
  <2>2. CASE drive' = Delivers(Selected(TRUE), "again")
    <3>1. \A todo : /\ IsDrive(Delivers(todo, "again")) /\ Delivers(todo, "again").at = "deliver"
                    /\ Delivers(todo, "again").after = "again"
      BY Places
    <3> QED BY <2>2, <3>1
  <2>3. CASE drive' = Infers("infer", "run")
    BY <2>1, <2>3, Places
  <2>4. CASE drive' = Goto("loop") \/ drive' = Goto("settle")
    BY <2>1, <2>4, Places
  <2> QED BY <1>2, <2>2, <2>3, <2>4, Ends
<1> QED BY <1>1, <1>3, Goes DEF Waits, Works

-----------------------------------------------------------------------------
(* The drive at an inference. *)

\* A failed attempt is remembered with what it admitted.
LEMMA Fails ==
  ASSUME CoordInv, UNCHANGED <<call, native, ran, tail, receipt>>,
         drive.at \notin {"rest", "entry", "settle", "ending", "settled"},
         NEW kind \in {"transient", "fatal", "overflow", "aborted"}, NEW committed \in BOOLEAN,
         AttemptFails(kind, committed), kind = "transient" => ~run.aborted
  PROVE  CoordInv'
<1> DEFINE natural == run.natural /\ ~committed
           failed == [kind |-> kind, admitted |-> run.admitted, number |-> run.attempt]
<1>1. /\ run' = [run EXCEPT !.failure = TRUE, !.natural = natural, !.failed = failed]
      /\ drive' \in Returned(run')
  BY DEF AttemptFails
<1>2. natural \in BOOLEAN /\ failed \in Attempts /\ failed.kind = kind /\ failed.admitted = run.admitted
  BY Found DEF Runs, Attempts
<1> HIDE DEF natural, failed
<1>3. /\ run' \in Runs /\ run'.failure = TRUE /\ run'.failed = failed /\ run'.on = run.on
      /\ run'.stopping = run.stopping /\ run'.aborted = run.aborted /\ run'.admitted = run.admitted
  BY <1>1, <1>2, Found DEF Runs
<1>4. IsDrive(drive') /\ drive'.at = "loop"
  BY <1>1, <1>3, Returns
<1>5. Retryable(failed) => ~run.admitted /\ ~run.aborted
  BY <1>2 DEF Retryable
<1>6. RetryInv(drive, run, tail)'
  BY <1>3, <1>4, <1>5 DEF RetryInv, Waits, Works
<1> QED BY <1>3, <1>4, <1>6, Found, Unreported, NotReported

LEMMA InferStep ==
  ASSUME CoordInv, Infer
  PROVE  CoordInv'
<1>1. drive.at = "infer" /\ UNCHANGED <<call, native, ran, tail, receipt>>
  BY DEF Infer, transcript
<1>2. CASE drive' \in Returned(run) /\ UNCHANGED run
  <2>1. /\ IsDrive(drive')
        /\ drive'.at = "loop" \/ (drive'.at = "summary" /\ ~run.failure /\ tail = <<>>)
    BY <1>2, Returns
  <2> QED BY <1>1, <1>2, <2>1, Goes DEF Waits, Works
<1>3. CASE drive' = Infers("prepare", drive.back) /\ run' = [run EXCEPT !.admitted = FALSE]
  <2>1. /\ run' \in Runs /\ run'.failure = run.failure /\ run'.failed = run.failed /\ run'.on = run.on
        /\ run'.stopping = run.stopping /\ run'.aborted = run.aborted /\ ~run'.admitted
    BY <1>3, Found DEF Runs
  <2>2. IsDrive(drive') /\ drive'.at = "prepare"
    BY <1>3, Places DEF Phases
  <2>3. RetryInv(drive, run, tail)'
    BY <1>1, <2>1, <2>2, Found DEF RetryInv, Waits, Works
  <2> QED BY <1>1, <2>1, <2>2, <2>3, Found, Unreported, NotReported
<1> QED BY <1>2, <1>3 DEF Infer

LEMMA RequestPreparedStep ==
  ASSUME CoordInv, RequestPrepared
  PROVE  CoordInv'
<1>1. /\ drive.at = "prepare" /\ UNCHANGED <<call, native, ran, tail, run, receipt>>
      /\ drive' = Delivers(Selected(FALSE), "request")
  BY DEF RequestPrepared, transcript
<1>2. IsDrive(drive') /\ drive'.at = "deliver" /\ drive'.after = "request"
  BY <1>1, Places
<1> QED BY <1>1, <1>2, Goes DEF Waits, Works

\* The run fails without an attempt: in the repetition of one that is given up, or by an abort.
LEMMA RunFails ==
  ASSUME CoordInv, UNCHANGED <<call, native, ran, tail>>,
         run' = [run EXCEPT !.failure = TRUE], IsDrive(drive'), drive'.at \in {"rest", "entry", "settle"},
         receipt' \in Receipts, receipt'.report = receipt.report,
         drive.at \notin {"rest", "entry", "settle", "ending", "settled"},
         run.aborted \/ Waits(drive) \/ tail = <<>>
  PROVE  CoordInv'
<1>1. /\ run' \in Runs /\ run'.failed = run.failed /\ run'.on = run.on /\ run'.admitted = run.admitted
      /\ run'.stopping = run.stopping /\ run'.aborted = run.aborted
  BY Found DEF Runs
<1>2. RetryInv(drive, run, tail)'
  BY <1>1, Found DEF RetryInv, Waits, Works
<1> QED BY <1>1, <1>2, Unreported, NotReported

LEMMA PreparationFailsStep ==
  ASSUME CoordInv, PreparationFails
  PROVE  CoordInv'
<1>1. drive.at \in {"prompt", "prepare"} /\ UNCHANGED <<call, native, ran, tail>>
  BY DEF PreparationFails, transcript
<1>2. receipt.report = "none"
  BY <1>1, Unreported
<1>3. CASE LocalFailure
  <2> DEFINE f == [receipt EXCEPT !.failed = TRUE]
  <2>1. /\ run' = [run EXCEPT !.failure = TRUE, !.failed = NoAttempt, !.stopping = TRUE, !.aborted = TRUE]
        /\ receipt' = Journal(f) /\ drive' = Ended(run', queue, tail)
    BY <1>3 DEF LocalFailure
  <2>2. run' \in Runs /\ run'.failed = NoAttempt /\ run'.stopping
    BY <2>1, Found, NotRepeated DEF Runs
  <2>3. IsDrive(drive') /\ drive'.at \in {"rest", "entry"}
    BY <2>1, Ends
  <2>4. RetryInv(drive, run, tail)'
    BY <2>2, <2>3 DEF RetryInv, Waits, Works
  <2>5. f \in Receipts /\ f.report = "none"
    BY <1>2, Found DEF Receipts
  <2> HIDE DEF f
  <2>6. /\ receipt' \in Receipts /\ receipt'.provider = f.provider /\ receipt'.tool = f.tool
        /\ receipt'.report = "before" => ~f.tool /\ ~f.provider /\ tail = <<>>
        /\ receipt'.report = "unknown" => ~f.tool /\ tail = <<>>
    BY <2>1, <2>5, Journals
  <2>7. ReceiptInv(receipt, drive, run, tail)'
    <3>1. receipt'.report \in {"none", "before", "unknown", "effects"}
      BY <2>6 DEF Receipts
    <3> QED BY <1>1, <2>2, <2>3, <2>6, <3>1 DEF ReceiptInv
  <2> QED BY <1>1, <2>2, <2>3, <2>4, <2>6, <2>7, CallsKept
<1>4. CASE run.aborted /\ AttemptFails("aborted", FALSE) /\ UNCHANGED receipt
  BY <1>1, <1>4, Fails
<1>5. CASE run.aborted /\ run' = [run EXCEPT !.failure = TRUE] /\ drive' = SettleOrEnd(run') /\ UNCHANGED receipt
  BY <1>1, <1>5, Settles, RunFails, Found
<1>6. CASE run.aborted /\ Throws(FALSE)
  <2> DEFINE failed == receipt.failed \/ FALSE \/ (~run.stopping /\ ~run.aborted)
  <2>1. /\ run' = [run EXCEPT !.failure = TRUE] /\ drive' = Ended(run', queue, tail)
        /\ receipt' = [receipt EXCEPT !.failed = failed]
    BY <1>6 DEF Throws
  <2>2. failed \in BOOLEAN
    BY Found DEF Receipts, Runs
  <2> HIDE DEF failed
  <2>3. receipt' \in Receipts /\ receipt'.report = receipt.report
    BY <2>1, <2>2, Found DEF Receipts
  <2>4. IsDrive(drive') /\ drive'.at \in {"rest", "entry"}
    BY <2>1, Ends
  <2> QED BY <1>1, <1>6, <2>1, <2>3, <2>4, RunFails
<1> QED BY <1>3, <1>4, <1>5, <1>6 DEF PreparationFails

LEMMA AskStep ==
  ASSUME CoordInv, Ask
  PROVE  CoordInv'
<1>1. /\ drive.at = "deliver" /\ drive.after = "request" /\ UNCHANGED <<call, native, ran, tail>>
      /\ run' = [run EXCEPT !.unsent = FALSE] /\ receipt' = [receipt EXCEPT !.provider = TRUE]
      /\ drive' = Infers("streaming", drive.back)
  BY DEF Ask, transcript
<1>2. /\ run' \in Runs /\ run'.on = run.on /\ run'.admitted = run.admitted /\ run'.failed = run.failed
      /\ run'.failure = run.failure /\ run'.stopping = run.stopping /\ run'.aborted = run.aborted
  BY <1>1, Found DEF Runs
<1>3. receipt' \in Receipts /\ receipt'.report = "none"
  BY <1>1, Found, Unreported DEF Receipts
<1>4. IsDrive(drive') /\ drive'.at = "streaming"
  BY <1>1, Places DEF Phases
<1>5. RetryInv(drive, run, tail)'
  BY <1>1, <1>2, <1>4, Found DEF RetryInv, Waits, Works
<1> QED BY <1>1, <1>2, <1>3, <1>4, <1>5, NotReported

LEMMA NotAskedStep ==
  ASSUME CoordInv, NotAsked
  PROVE  CoordInv'
<1>1. /\ drive.at = "deliver" /\ drive.after = "request" /\ UNCHANGED <<call, native, ran, tail, receipt>>
  BY DEF NotAsked, transcript
<1>2. CASE AttemptFails("aborted", FALSE)
  BY <1>1, <1>2, Fails
<1>3. CASE AttemptFails("fatal", FALSE)
  BY <1>1, <1>3, Fails
<1>4. CASE drive' = Infers("prepare", drive.back) /\ UNCHANGED run
  <2>1. IsDrive(drive') /\ drive'.at = "prepare"
    BY <1>4, Places DEF Phases
  <2> QED BY <1>1, <1>4, <2>1, Goes DEF Waits, Works
<1> QED BY <1>2, <1>3, <1>4 DEF NotAsked

\* Calls are admitted while the response streams: none of them has run, nothing has failed.
LEMMA Admits ==
  ASSUME CoordInv, UNCHANGED <<ran, receipt>>, drive.at = "streaming",
         NEW cs \in Seq(Calls), NEW state \in {"queued", "blocked"}, NEW natively \in BOOLEAN,
         \A c \in Members(cs) : Fresh(c), Admit(cs, state, natively), run' = [run EXCEPT !.admitted = TRUE],
         IsDrive(drive'), drive'.at \in {"streaming", "tools"}
  PROVE  CoordInv'
<1>1. /\ call' = [c \in Calls |-> IF c \in Members(cs) THEN state ELSE call[c]]
      /\ native' = IF natively THEN native \cup Members(cs) ELSE native
      /\ tail' = tail \o cs
  BY DEF Admit
<1>2. Members(cs) \subseteq Calls /\ Members(ran) \subseteq Calls
  BY Found, MembersAre
<1>3. tail' \in Seq(Calls) /\ native' \subseteq Calls /\ call' \in [Calls -> Progress]
  <2>1. tail' \in Seq(Calls)
    BY <1>1, Found
  <2>2. call' \in [Calls -> Progress]
    BY <1>1, Found DEF Progress
  <2> QED BY <1>1, <1>2, <2>1, <2>2, Found
<1>4. RanInv(ran, call)'
  <2>1. \A c \in Members(ran) : call'[c] \in {"running", "answered", "orphaned"}
    BY <1>1, <1>2, Found DEF RanInv, Fresh
  <2> QED BY <2>1, Found DEF RanInv
<1>5. /\ run' \in Runs /\ run'.on = run.on /\ run'.failed = run.failed
      /\ run'.failure = run.failure /\ run'.stopping = run.stopping /\ run'.aborted = run.aborted
  BY Found DEF Runs
<1>6. RetryInv(drive, run, tail)'
  BY <1>5, Found DEF RetryInv, Waits, Works
<1>7. ReceiptInv(receipt, drive, run, tail)'
  BY Unreported DEF ReceiptInv
<1> QED BY <1>3, <1>4, <1>5, <1>6, <1>7, Found DEF CoordInv, CoordTypeOK

LEMMA AdmitSteps ==
  ASSUME CoordInv,
         \/ \E c \in Calls : NativeCall(c)
         \/ \E cs \in Batches, truncated \in BOOLEAN : Distinct(cs) /\ FinalCalls(cs, truncated)
  PROVE  CoordInv'
<1>1. ASSUME NEW c \in Calls, NativeCall(c)
      PROVE  CoordInv'
  <2> DEFINE cs == <<c>>
  <2>1. cs \in Seq(Calls) /\ Members(cs) = {c}
    BY DEF Members
  <2>2. /\ UNCHANGED <<ran, receipt, drive>> /\ drive.at = "streaming" /\ Fresh(c)
        /\ Admit(cs, "queued", TRUE) /\ run' = [run EXCEPT !.admitted = TRUE]
    BY <1>1 DEF NativeCall
  <2> HIDE DEF cs
  <2>3. IsDrive(drive')
    BY <2>2, Found
  <2> QED BY <2>1, <2>2, <2>3, Admits
<1>2. ASSUME NEW cs \in Batches, NEW truncated \in BOOLEAN, FinalCalls(cs, truncated)
      PROVE  CoordInv'
  <2>1. cs \in Seq(Calls)
    <3>1. (\E c \in Calls : cs = <<c>>) \/ \E c, d \in Calls : cs = <<c, d>>
      BY DEF Batches
    <3>2. \A c \in Calls : <<c>> \in Seq(Calls)
      OBVIOUS
    <3>3. \A c, d \in Calls : <<c, d>> \in Seq(Calls)
      OBVIOUS
    <3> QED BY <3>1, <3>2, <3>3
  <2> DEFINE state == IF truncated THEN "blocked" ELSE "queued"
  <2>2. /\ UNCHANGED <<ran, receipt>> /\ drive.at = "streaming" /\ \A c \in Members(cs) : Fresh(c)
        /\ Admit(cs, state, FALSE) /\ run' = [run EXCEPT !.admitted = TRUE]
        /\ drive' = [drive EXCEPT !.at = "tools", !.truncated = truncated]
    BY <1>2 DEF FinalCalls
  <2>3. state \in {"queued", "blocked"}
    OBVIOUS
  <2> HIDE DEF state
  <2>4. IsDrive(drive') /\ drive'.at = "tools"
    BY <2>2, Found DEF IsDrive, Phases
  <2> QED BY <2>1, <2>2, <2>3, <2>4, Admits
<1> QED BY <1>1, <1>2

\* A turn ends without a failure.
LEMMA TurnEndsStep ==
  ASSUME CoordInv, UNCHANGED <<call, native, ran, tail, receipt>>, drive.at \in {"streaming", "tools"},
         NEW natural \in BOOLEAN, TurnEnds(natural)
  PROVE  CoordInv'
<1> DEFINE first == 1
<1>1. /\ run' = [run EXCEPT !.natural = natural, !.overflowTried = FALSE, !.attempt = first]
      /\ drive' \in Returned(run') /\ first \in Nat \ {0}
  BY DEF TurnEnds
<1> HIDE DEF first
<1>2. /\ run' \in Runs /\ run'.on = run.on /\ run'.admitted = run.admitted /\ run'.failed = run.failed
      /\ run'.failure = run.failure /\ run'.stopping = run.stopping /\ run'.aborted = run.aborted
  BY <1>1, Found DEF Runs
<1>3. /\ IsDrive(drive')
      /\ drive'.at = "loop" \/ (drive'.at = "summary" /\ ~run'.failure /\ tail = <<>>)
  BY <1>1, Returns
<1>4. RetryInv(drive, run, tail)'
  BY <1>2, <1>3, Found DEF RetryInv, Waits, Works
<1> QED BY <1>2, <1>3, <1>4, Found, Unreported, NotReported

LEMMA AnswerEnds ==
  ASSUME CoordInv, \E natural \in BOOLEAN : FinalAnswer(natural)
  PROVE  CoordInv'
  BY TurnEndsStep DEF FinalAnswer, transcript

LEMMA ResultsInStep ==
  ASSUME CoordInv, ResultsIn
  PROVE  CoordInv'
<1>1. drive.at = "tools" /\ tail = <<>> /\ UNCHANGED <<call, native, ran, tail, receipt>>
  BY DEF ResultsIn, transcript
<1>2. CASE TurnEnds(FALSE)
  BY <1>1, <1>2, TurnEndsStep
<1>3. CASE ~TurnEnds(FALSE)
  <2> DEFINE failed == [kind |-> "overflow", admitted |-> TRUE, number |-> run.attempt]
  <2>1. /\ run' = [run EXCEPT !.natural = FALSE, !.failure = TRUE, !.failed = failed]
        /\ drive' \in Returned(run')
    BY <1>3 DEF ResultsIn
  <2>2. failed \in Attempts /\ failed.kind = "overflow"
    BY Found DEF Runs, Attempts
  <2> HIDE DEF failed
  <2>3. run' \in Runs /\ run'.failed = failed /\ run'.failure
    BY <2>1, <2>2, Found DEF Runs
  <2>4. IsDrive(drive') /\ drive'.at = "loop"
    BY <2>1, <2>3, Returns
  <2>5. RetryInv(drive, run, tail)'
    BY <2>2, <2>3, <2>4, NotRepeated DEF RetryInv, Waits, Works
  <2> QED BY <1>1, <2>3, <2>4, <2>5, Found, Unreported, NotReported
<1> QED BY <1>2, <1>3

LEMMA StreamFailsStep ==
  ASSUME CoordInv, NEW kind \in {"transient", "fatal", "overflow", "aborted"}, NEW committed \in BOOLEAN,
         StreamFails(kind, committed)
  PROVE  CoordInv'
<1>1. /\ drive.at = "streaming" /\ AttemptFails(kind, committed) /\ (kind = "aborted" <=> run.aborted)
      /\ UNCHANGED <<call, native, ran, tail, receipt>>
  BY DEF StreamFails, transcript
<1> QED BY <1>1, Fails

-----------------------------------------------------------------------------
(* The drive at a failure. *)

\* Recovery is for a run that failed, and that nobody stopped.
LEMMA Recovering ==
  ASSUME CoordInv, Recovers
  PROVE  /\ drive.at = "entry" /\ run.on /\ ~run.stopping /\ run.failure /\ receipt.report = "none"
         /\ Retryable(run.failed) /\ run.admitted => tail = <<>>
  BY Found, Unreported DEF Recovers, RetryInv

\* The failed attempt is forgotten.
LEMMA Forgets ==
  ASSUME CoordInv, UNCHANGED <<call, native, ran, tail, receipt>>, receipt.report = "none",
         run' \in Runs, run'.failed = NoAttempt, IsDrive(drive'),
         drive'.at \in {"rest", "entry", "settle"} \/ (drive'.at \in {"summary", "infer"} /\ ~run'.failure),
         drive'.at = "summary" => tail = <<>>
  PROVE  CoordInv'
<1>1. RetryInv(drive, run, tail)'
  BY NotRepeated DEF RetryInv, Waits, Works
<1> QED BY <1>1, Found, NotReported

LEMMA GiveUpStep ==
  ASSUME CoordInv, GiveUp
  PROVE  CoordInv'
<1>1. /\ run' = [run EXCEPT !.failed = NoAttempt, !.aborted = TRUE] /\ drive' = SettleOrEnd(run')
      /\ UNCHANGED <<call, native, ran, tail, receipt>> /\ receipt.report = "none"
  BY Recovering DEF GiveUp, transcript
<1>2. run' \in Runs /\ run'.failed = NoAttempt
  BY <1>1, Found, NotRepeated DEF Runs
<1> QED BY <1>1, <1>2, Settles, Forgets

LEMMA RetryLaterStep ==
  ASSUME CoordInv, RetryLater
  PROVE  CoordInv'
<1>1. /\ drive' = Goto("delay") /\ UNCHANGED <<call, native, ran, tail, run, receipt>>
      /\ receipt.report = "none" /\ Retryable(run.failed) /\ (run.admitted => tail = <<>>)
  BY Recovering DEF RetryLater, transcript
<1>2. IsDrive(drive') /\ drive'.at = "delay"
  BY <1>1, Places DEF Phases
<1>3. RetryInv(drive, run, tail)'
  BY <1>1, <1>2, Found DEF RetryInv, Waits, Works
<1> QED BY <1>1, <1>2, <1>3, Found, NotReported

LEMMA DelayEndsStep ==
  ASSUME CoordInv, DelayEnds
  PROVE  CoordInv'
<1>1. drive.at = "delay" /\ UNCHANGED <<call, native, ran, tail, receipt>>
  BY DEF DelayEnds, transcript
<1>2. CASE run' = [run EXCEPT !.failure = TRUE] /\ drive' = SettleOrEnd(run') /\ run.aborted
  BY <1>1, <1>2, Settles, RunFails, Found
<1>3. CASE drive' = Delivers(Selected(FALSE), "retry") /\ UNCHANGED run
  <2>1. IsDrive(drive') /\ drive'.at = "deliver" /\ drive'.after = "retry"
    BY <1>3, Places
  <2> QED BY <1>1, <1>3, <2>1, Goes DEF Waits, Works
<1> QED BY <1>2, <1>3 DEF DelayEnds

LEMMA RetryStep ==
  ASSUME CoordInv, Retry
  PROVE  CoordInv'
<1>1. /\ drive.at = "deliver" /\ drive.after = "retry" /\ UNCHANGED <<call, native, ran, tail, receipt>>
  BY DEF Retry, transcript
<1>2. CASE drive' = SettleOrEnd(run) /\ UNCHANGED run
  BY <1>1, <1>2, Settles, Goes DEF Waits, Works
<1>3. CASE ~(drive' = SettleOrEnd(run) /\ UNCHANGED run)
  <2> DEFINE next == run.failed.number + 1
  <2>1. /\ run' = [run EXCEPT !.failure = FALSE, !.failed = NoAttempt, !.attempt = next]
        /\ drive' = Infers("infer", "recovery")
    BY <1>3 DEF Retry
  <2>2. next \in Nat \ {0}
    BY Found DEF Runs, Attempts
  <2> HIDE DEF next
  <2>3. run' \in Runs /\ run'.failed = NoAttempt /\ ~run'.failure
    BY <2>1, <2>2, Found, NotRepeated DEF Runs
  <2>4. IsDrive(drive') /\ drive'.at = "infer"
    BY <2>1, Places DEF Phases
  <2> QED BY <1>1, <2>3, <2>4, Unreported, Forgets
<1> QED BY <1>2, <1>3

LEMMA DrainStep ==
  ASSUME CoordInv, Drain
  PROVE  CoordInv'
<1>1. /\ drive' = Goto("draining") /\ run' = [run EXCEPT !.aborted = TRUE]
      /\ UNCHANGED <<call, native, ran, tail, receipt>> /\ receipt.report = "none"
      /\ run.failed.kind = "overflow"
  BY Recovering DEF Drain, transcript
<1>2. run' \in Runs /\ run'.failed = run.failed /\ ~Retryable(run'.failed)
  BY <1>1, Found, NotRepeated DEF Runs
<1>3. IsDrive(drive') /\ drive'.at = "draining"
  BY <1>1, Places DEF Phases
<1>4. RetryInv(drive, run, tail)'
  BY <1>2, <1>3 DEF RetryInv, Waits, Works
<1> QED BY <1>1, <1>2, <1>3, <1>4, Found, NotReported

LEMMA DrainedStep ==
  ASSUME CoordInv, Drained
  PROVE  CoordInv'
<1>1. drive.at = "draining" /\ tail = <<>> /\ UNCHANGED <<call, native, ran, tail>>
  BY DEF Drained, transcript
<1>2. receipt.report = "none"
  BY <1>1, Unreported
<1>3. CASE /\ run' = [run EXCEPT !.failed = NoAttempt]
           /\ drive' = SettleOrEnd(run') /\ UNCHANGED receipt
  <2>1. run' \in Runs /\ run'.failed = NoAttempt
    BY <1>3, Found, NotRepeated DEF Runs
  <2> QED BY <1>1, <1>2, <1>3, <2>1, Settles, Forgets
<1>4. CASE /\ run' = [run EXCEPT !.overflowTried = TRUE, !.failure = FALSE, !.failed = NoAttempt, !.aborted = FALSE]
           /\ receipt' = [receipt EXCEPT !.provider = TRUE] /\ drive' = Summarizes(TRUE)
  <2>1. run' \in Runs /\ run'.failed = NoAttempt /\ ~run'.failure
    BY <1>4, Found, NotRepeated DEF Runs
  <2>2. IsDrive(drive') /\ drive'.at = "summary"
    BY <1>4, Places
  <2>3. RetryInv(drive, run, tail)'
    BY <1>1, <2>1, <2>2, NotRepeated DEF RetryInv, Waits, Works
  <2>4. receipt' \in Receipts /\ receipt'.report = "none"
    BY <1>2, <1>4, Found DEF Receipts
  <2> QED BY <1>1, <2>1, <2>2, <2>3, <2>4, NotReported
<1> QED BY <1>3, <1>4 DEF Drained

LEMMA SummaryEndsStep ==
  ASSUME CoordInv, SummaryEnds
  PROVE  CoordInv'
<1>1. /\ drive.at = "summary" /\ UNCHANGED <<call, native, ran, tail>>
      /\ receipt' = [receipt EXCEPT !.provider = TRUE] /\ ~run.failure
  BY Found DEF SummaryEnds, transcript, RetryInv, Works
<1>2. receipt' \in Receipts /\ receipt'.report = "none"
  BY <1>1, Found, Unreported DEF Receipts
<1> DEFINE first == 1
<1>3. /\ run' = run \/ run' = [run EXCEPT !.attempt = first]
      /\ drive' = Infers("infer", "recovery") \/ drive' = Goto("loop")
      /\ first \in Nat \ {0}
  BY DEF SummaryEnds
<1> HIDE DEF first
<1>4. /\ run' \in Runs /\ run'.on = run.on /\ run'.admitted = run.admitted /\ run'.failed = run.failed
      /\ run'.failure = run.failure /\ run'.stopping = run.stopping /\ run'.aborted = run.aborted
  BY <1>3, Found DEF Runs
<1>5. IsDrive(drive') /\ drive'.at \in {"infer", "loop"}
  BY <1>3, Places DEF Phases
<1>6. RetryInv(drive, run, tail)'
  BY <1>1, <1>4, <1>5, Found DEF RetryInv, Waits, Works
<1> QED BY <1>1, <1>2, <1>4, <1>5, <1>6, NotReported

LEMMA SummaryFailsStep ==
  ASSUME CoordInv, NEW cancelled \in BOOLEAN, SummaryFails(cancelled)
  PROVE  CoordInv'
<1> DEFINE failed == receipt.failed \/ (~cancelled /\ ~drive.cut)
           r == [receipt EXCEPT !.provider = TRUE, !.failed = failed]
           again == r.failed \/ (~run.stopping /\ ~run.aborted)
<1>1. /\ drive.at = "summary" /\ UNCHANGED <<call, native, ran, tail>> /\ tail = <<>>
      /\ receipt.report = "none"
      /\ \/ /\ run' = [run EXCEPT !.failure = TRUE, !.failed = NoAttempt, !.aborted = TRUE]
            /\ receipt' = r /\ drive' = SettleOrEnd(run')
         \/ receipt' = r /\ drive' = Goto("loop") /\ UNCHANGED run
         \/ /\ run' = [run EXCEPT !.failure = TRUE] /\ receipt' = [r EXCEPT !.failed = again]
            /\ drive' = Ended(run', queue, tail)
  BY Found, Unreported DEF SummaryFails, transcript, RetryInv
<1>2. r \in Receipts /\ r.report = "none"
  <2>1. failed \in BOOLEAN
    BY Found DEF Receipts
  <2> HIDE DEF failed
  <2> QED BY <1>1, <2>1, Found DEF Receipts
<1>3. again \in BOOLEAN
  BY <1>2, Found DEF Receipts, Runs
<1> HIDE DEF r, failed, again
<1>4. receipt' \in Receipts /\ receipt'.report = "none"
  BY <1>1, <1>2, <1>3 DEF Receipts
<1>5. CASE run' = [run EXCEPT !.failure = TRUE, !.failed = NoAttempt, !.aborted = TRUE]
           /\ drive' = SettleOrEnd(run')
  <2>1. run' \in Runs /\ run'.failed = NoAttempt
    BY <1>5, Found, NotRepeated DEF Runs
  <2>2. RetryInv(drive, run, tail)'
    BY <1>5, <2>1, Settles, NotRepeated DEF RetryInv, Waits, Works
  <2> QED BY <1>1, <1>4, <1>5, <2>1, <2>2, Settles, NotReported
<1>6. CASE drive' = Goto("loop") /\ UNCHANGED run
  <2>1. IsDrive(drive') /\ drive'.at = "loop"
    BY <1>6, Places DEF Phases
  <2>2. RetryInv(drive, run, tail)'
    BY <1>1, <1>6, <2>1, Found, RetryNowhere DEF Waits, Works
  <2> QED BY <1>1, <1>4, <1>6, <2>1, <2>2, Found, NotReported
<1>7. CASE run' = [run EXCEPT !.failure = TRUE] /\ drive' = Ended(run', queue, tail)
  BY <1>1, <1>4, <1>7, Ends, RunFails
<1> QED BY <1>1, <1>5, <1>6, <1>7

-----------------------------------------------------------------------------
(* The theorems. *)

LEMMA Begins == Init => CoordInv
<1> SUFFICES ASSUME Init PROVE CoordInv
  OBVIOUS
<1>1. Members(<<>>) = {}
  BY DEF Members
<1>2. run \in Runs /\ ~run.on /\ ~run.failure
  <2>1. 1 \in Nat \ {0}
    OBVIOUS
  <2> DEFINE first == run.attempt
  <2> QED BY <2>1 DEF Init, NoRun, NoAttempt, Runs, Attempts
<1>3. IsDrive(drive) /\ drive.at = "rest" /\ drive.after = "loop"
  BY Places DEF Init
<1>4. receipt \in Receipts /\ receipt.report = "none"
  BY DEF Init, NoReceipt, Receipts
<1>5. CoordTypeOK
  BY <1>2, <1>3, <1>4 DEF Init, CoordTypeOK, Progress
<1>6. RanInv(ran, call)
  BY <1>1, FS_EmptySet DEF Init, RanInv, Distinct
<1> QED BY <1>2, <1>3, <1>4, <1>5, <1>6 DEF CoordInv, ReceiptInv, RetryInv, Waits, Works

LEMMA NothingHappens == CoordInv /\ UNCHANGED vars => CoordInv'
BY DEF vars, transcript, CoordInv, CoordTypeOK, IsDrive, RanInv, ReceiptInv, RetryInv, Waits, Works,
       Members, Distinct, Retryable

LEMMA Preserved ==
  ASSUME CoordInv, [Next]_vars
  PROVE  CoordInv'
<1>1. CASE UNCHANGED vars
  BY <1>1, NothingHappens
<1>2. CASE DriveStep
  BY <1>2, EntrySteps, StartRunStep, BeginStep, SettleStep, EndingStep, LoopStep, InputSteps,
     DeliveredStep, InferStep, RequestPreparedStep, PreparationFailsStep, AskStep, NotAskedStep,
     AdmitSteps, AnswerEnds, ResultsInStep, StreamFailsStep, GiveUpStep, RetryLaterStep,
     DelayEndsStep, RetryStep, DrainStep, DrainedStep, SummaryEndsStep, SummaryFailsStep
     DEF DriveStep, Stream
<1>3. CASE ToolStep
  BY <1>3, AnswerSteps, OpenToolStep, RunToolStep DEF ToolStep
<1>4. CASE Crash
  BY <1>4, CrashStep
<1> QED BY <1>1, <1>2, <1>3, <1>4, OutsideSteps DEF Next

\* The invariant of the coordinator.
THEOREM CoordInvariant == Spec => []CoordInv
<1>1. Init => CoordInv
  BY Begins
<1>2. CoordInv /\ [Next]_vars => CoordInv'
  BY Preserved
<1> QED BY <1>1, <1>2, PTL DEF Spec

\* No tool runs twice for one call of the transcript (seenCalls, recover, evaluateInferenceRetry).
THEOREM EffectsAlwaysOnce == Spec => []EffectsOnce
<1>1. CoordInv => EffectsOnce
  BY DEF CoordInv, RanInv, EffectsOnce
<1> QED BY <1>1, CoordInvariant, PTL

\* A failure receipt never claims less than what may have happened (journalTurnFailure).
THEOREM ReportAlwaysConservative == Spec => []ReportIsConservative
<1>1. CoordInv => ReportIsConservative
  BY DEF CoordInv, ReceiptInv, ReportIsConservative
<1> QED BY <1>1, CoordInvariant, PTL

\* The attempt only grows when the failed one is repeated.
LEMMA AttemptsGrow ==
  ASSUME CoordInv, [Next]_vars
  PROVE  run'.attempt = run.attempt \/ run'.attempt = 1 \/ (Retry /\ ~run.stopping)
<1>1. run \in Runs
  BY DEF CoordInv, CoordTypeOK
<1> USE DEF Runs
<1>2. CASE UNCHANGED vars
  BY <1>2 DEF vars
<1>3. CASE DriveStep
  <2>1. CASE NothingToDrive \/ Begin \/ StopRun \/ ResumeRun \/ Settle \/ Settled \/ Loop \/ Delivered
             \/ RequestPrepared \/ RetryLater
    BY <2>1 DEF NothingToDrive, Begin, StopRun, ResumeRun, Settle, Settled, Loop, Delivered,
                RequestPrepared, RetryLater
  <2>2. CASE StartRun \/ Ending \/ EnterInput \/ PromptPrepared
    BY <1>1, <2>2 DEF StartRun, Ending, EnterInput, PromptPrepared
  <2>3. CASE Infer \/ Ask \/ GiveUp \/ DelayEnds \/ Drain \/ Drained
    BY <1>1, <2>3 DEF Infer, Ask, GiveUp, DelayEnds, Drain, Drained
  <2>4. CASE PreparationFails \/ NotAsked
    BY <1>1, <2>4 DEF PreparationFails, NotAsked, LocalFailure, Throws, AttemptFails
  <2>5. CASE Stream
    BY <1>1, <2>5 DEF Stream, NativeCall, FinalCalls, FinalAnswer, TurnEnds, StreamFails, AttemptFails
  <2>6. CASE ResultsIn \/ SummaryEnds \/ \E cancelled \in BOOLEAN : SummaryFails(cancelled)
    BY <1>1, <2>6 DEF ResultsIn, TurnEnds, SummaryEnds, SummaryFails
  <2>7. CASE Retry
    BY <2>7 DEF Retry
  <2> QED BY <1>3, <2>1, <2>2, <2>3, <2>4, <2>5, <2>6, <2>7 DEF DriveStep
<1>4. CASE ToolStep
  BY <1>1, <1>4 DEF ToolStep, RefuseTool, OpenTool, RunTool, FinishTool, Answer
<1>5. CASE Crash
  BY <1>5 DEF Crash, NoRun
<1>6. CASE \/ \E i \in Inputs : Submit(i) \/ \E triggerTurn \in BOOLEAN : SendCustom(i, triggerTurn)
           \/ Abort \/ Compact \/ CompactEnds
  BY <1>1, <1>6 DEF Submit, SendCustom, Abort, Compact, CompactEnds
<1> QED BY <1>2, <1>3, <1>4, <1>5, <1>6 DEF Next

\* No attempt that admitted a call is repeated, nor more often than the policy allows; what was
\* admitted since has its results (recoverInference, submit).
THEOREM RetriesAlwaysSafe == Spec => RetriesAreSafe
<1> DEFINE Safe == run'.attempt > run.attempt =>
                     ~run.failed.admitted /\ (run.admitted => tail = <<>>) /\ run'.attempt <= MaxRetries + 1
<1>1. ASSUME CoordInv, [Next]_vars
      PROVE  Safe
  <2>1. run \in Runs /\ run.attempt \in Nat \ {0} /\ run.failed.number \in Nat
    BY <1>1 DEF CoordInv, CoordTypeOK, Runs, Attempts
  <2>2. \A m \in Nat \ {0} : ~(m > m) /\ ~(1 > m)
    OBVIOUS
  <2>3. CASE run'.attempt = run.attempt \/ run'.attempt = 1
    BY <2>1, <2>2, <2>3
  <2>4. CASE Retry /\ ~run.stopping
    <3>1. run'.attempt = run.failed.number + 1
      BY <2>1, <2>4 DEF Retry, Runs
    <3>2. Retryable(run.failed) /\ (run.admitted => tail = <<>>)
      BY <1>1, <2>4 DEF Retry, CoordInv, RetryInv, Waits
    <3>3. \A m, n \in Nat : m <= n => m + 1 <= n + 1
      OBVIOUS
    <3> QED BY <2>1, <3>1, <3>2, <3>3, CoordinatorAssumption DEF Retryable
  <2> QED BY <1>1, <2>3, <2>4, AttemptsGrow
<1>2. CoordInv /\ [Next]_vars => [Safe]_vars
  BY <1>1
<1> QED BY <1>2, CoordInvariant, PTL DEF Spec, RetriesAreSafe
=============================================================================
