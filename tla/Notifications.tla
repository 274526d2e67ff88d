--------------------------- MODULE Notifications ---------------------------
(* When the user is told, and that a device is told once.  The supervisor   *)
(* divides the work of a family of sessions into EPISODES: one opens when a *)
(* member starts to work and closes when all of them, and their background  *)
(* jobs, have been quiet for a while.  An episode that served the user ends *)
(* with an idle notice; a request for the user's attention, by the agent or *)
(* by a dialog of an extension, is a notice of its own.  Devices claim what *)
(* is due under a lease, report what became of it, and are told to close a  *)
(* request that is over.                                                    *)
(*                                                                          *)
(* src/notification-store.mjs and the parts of supervisor.mjs that observe  *)
(* a family, track dialogs and answer a device's requests.                  *)
EXTENDS Naturals, FiniteSets

CONSTANTS
  Followed,      \* kinds of notices whose delivery is followed
  Attempts,      \* deliveries of one notice to one device at most
  MaxEpisodes,   \* episodes of the family
  MaxTriggers,   \* inputs, scheduled runs and background jobs
  MaxTroubles    \* workers lost, daemon restarts and leases that lapse

ASSUME AttemptsAssumption == Attempts \in Nat \ {0}

Generations == 1..(MaxTroubles + 1)

\* A notice is named by what it is about, so that it is created once.
Idle(e) == <<"idle", e>>
Ask == <<"ask", 0>>
Dialog(g) == <<"dialog", g>>
Notices == {Idle(e) : e \in 1..MaxEpisodes} \cup {Ask} \cup {Dialog(g) : g \in Generations}
Rows == {n \in Notices : n[1] \in Followed}
Attention == Notices \ {Idle(e) : e \in 1..MaxEpisodes}

VARIABLES
  worker,     \* "off", "starting" or "on"
  gen,        \* the generation of the worker
  busy,       \* a member streams, runs tools or compacts
  queued,     \* kinds of accepted inputs no member has taken up
  cronRun,    \* a scheduled run of the family is under way
  job,        \* a background job: "none", "running" or "over", and its origin
  episode,    \* number, whether it is open, owner, and how long it was quiet
  pending,    \* what is noted for the next episode: user input, other owner
  mark,       \* the last ownership checkpoint, and whether it is of this instant
  notes,      \* state of every notice, whether it was read, its episode
  dialog,     \* the generation whose dialog waits for an answer, 0 for none
  device,     \* what is known of the delivery of every notice
  said,       \* user input was accepted since the last notice
  deleted, triggers, troubles
vars == <<worker, gen, busy, queued, cronRun, job, episode, pending, mark, notes,
          dialog, device, said, deleted, triggers, troubles>>
world == <<worker, gen, busy, queued, cronRun, job>>
family == <<episode, pending, mark, said>>

----------------------------------------------------------------------------
(* Ownership: whose work an episode is.                                     *)

\* #checkpoint: recorded when the owner changes.
Checkpoint(owner) ==
  mark' = IF mark.owner = owner THEN mark ELSE [owner |-> owner, now |-> TRUE]

(* Variant: user input counts for the episode under way, not for the next.   *)
NoteForThisOnly ==
  /\ IF episode.open
     THEN episode' = [episode EXCEPT !.owner = "user"] /\ pending' = [pending EXCEPT !.user = FALSE]
     ELSE UNCHANGED <<episode, pending>>
  /\ Checkpoint("user")

\* noteUserInput
NoteUserInput ==
  /\ IF episode.open
     THEN episode' = [episode EXCEPT !.owner = "user"] /\ pending' = [pending EXCEPT !.user = FALSE]
     ELSE pending' = [pending EXCEPT !.user = TRUE] /\ UNCHANGED episode
  /\ Checkpoint("user")

\* bindOrigin: the owner at the instant of the launch, unless that is in doubt.
Origin == IF mark.owner = "none" \/ mark.now THEN "unknown" ELSE mark.owner

\* noteContinuation
NoteContinuation(origin) ==
  IF episode.open
  THEN LET owner == IF origin = "user" THEN "user" ELSE episode.owner IN
       /\ episode' = [episode EXCEPT !.owner = owner]
       /\ Checkpoint(owner) /\ UNCHANGED pending
  ELSE /\ pending' = [pending EXCEPT !.owner =
                        IF "user" \in {@, origin} THEN "user" ELSE origin]
       /\ UNCHANGED <<episode, mark>>

----------------------------------------------------------------------------
(* Notices.  One that is no longer pending was closed (resolved, cancelled  *)
(* or superseded) or has expired.                                           *)
Put(s, n) == [s EXCEPT ![n] = IF @.state # "absent" THEN @
                ELSE [state |-> "pending", read |-> FALSE, episode |-> episode.number]]
Over(s, which, how) ==
  [n \in Notices |-> IF n \in which /\ s[n].state = "pending"
                     THEN [s[n] EXCEPT !.state = how] ELSE s[n]]
Pending(n) == notes[n].state = "pending"
Unanswered == \E n \in Attention : Pending(n) /\ notes[n].episode = episode.number

(* observe, on the family as the step leaves it.                            *)
Opens ==
  /\ episode.number < MaxEpisodes
  /\ LET owner == IF pending.user THEN "user"
                  ELSE IF pending.owner # "none" THEN pending.owner
                  ELSE IF cronRun' THEN "cron" ELSE episode.owner
     IN /\ episode' = [number |-> episode.number + 1, open |-> TRUE, owner |-> owner, quiet |-> "no"]
        /\ Checkpoint(owner)
  /\ notes' = Over(notes, Notices \ Attention, "closed")
  /\ pending' = [user |-> FALSE, owner |-> "none"]
  /\ UNCHANGED said

Quiet(how) == episode' = [episode EXCEPT !.quiet = how] /\ UNCHANGED <<pending, mark, notes, said>>

Closes ==
  /\ episode' = [episode EXCEPT !.open = FALSE]
  /\ notes' = IF episode.owner = "user" /\ ~Unanswered
              THEN Put(notes, Idle(episode.number)) ELSE notes
  /\ said' = (said /\ episode.owner # "user")
  /\ UNCHANGED <<pending, mark>>

Observe ==
  IF busy' THEN IF episode.open THEN Quiet("no") ELSE Opens
  ELSE IF ~episode.open THEN UNCHANGED <<episode, pending, mark, notes, said>>
  ELSE IF worker' = "starting" \/ job'.state = "running" THEN Quiet("no")
  ELSE IF episode.quiet = "no" THEN Quiet("since")
  ELSE IF episode.quiet = "since" THEN UNCHANGED <<episode, pending, mark, notes, said>>
  ELSE Closes

----------------------------------------------------------------------------
(* The family at work.                                                      *)
Trigger == ~deleted /\ triggers < MaxTriggers /\ triggers' = triggers + 1

UserInput ==
  /\ Trigger
  /\ queued' = queued \cup {"user"} /\ said' = TRUE
  /\ NoteUserInput
  /\ UNCHANGED <<worker, gen, busy, cronRun, job, notes, dialog, device, deleted, troubles>>

CronStarts ==
  /\ Trigger /\ ~cronRun
  /\ cronRun' = TRUE /\ queued' = queued \cup {"cron"}
  /\ UNCHANGED <<worker, gen, busy, job, family, notes, dialog, device, deleted, troubles>>

CronEnds ==
  /\ cronRun /\ "cron" \notin queued /\ ~busy
  /\ cronRun' = FALSE
  /\ UNCHANGED <<worker, gen, busy, queued, job, family, notes, dialog, device, deleted,
                 triggers, troubles>>

Starting ==
  /\ worker = "off" /\ queued # {}
  /\ worker' = "starting" /\ gen' = gen + 1
  /\ UNCHANGED <<busy, queued, cronRun, job, family, notes, dialog, device, deleted,
                 triggers, troubles>>

Started ==
  /\ worker = "starting" /\ worker' = "on"
  /\ UNCHANGED <<gen, busy, queued, cronRun, job, family, notes, dialog, device, deleted,
                 triggers, troubles>>

\* agent_start and agent_settled: the frame is followed by an observation.
Begin ==
  /\ worker = "on" /\ queued # {} /\ (busy \/ episode.open \/ episode.number < MaxEpisodes)
  /\ busy' = TRUE /\ queued' = {}
  /\ UNCHANGED <<worker, gen, cronRun, job>>
  /\ Observe
  /\ UNCHANGED <<dialog, device, deleted, triggers, troubles>>

Settle ==
  /\ busy /\ dialog = 0
  /\ busy' = FALSE /\ UNCHANGED <<worker, gen, queued, cronRun, job>>
  /\ Observe
  /\ UNCHANGED <<dialog, device, deleted, triggers, troubles>>

JobStarts ==
  /\ Trigger /\ busy /\ job.state = "none"
  /\ job' = [state |-> "running", origin |-> Origin]
  /\ UNCHANGED <<worker, gen, busy, queued, cronRun, family, notes, dialog, device, deleted, troubles>>

\* The completion is handed to the session as an input.
JobEnds ==
  /\ job.state = "running"
  /\ job' = [job EXCEPT !.state = "over"]
  /\ IF deleted THEN UNCHANGED <<queued, episode, pending, mark>>
     ELSE queued' = queued \cup {"job"} /\ NoteContinuation(job.origin)
  /\ UNCHANGED <<worker, gen, busy, cronRun, said, notes, dialog, device, deleted,
                 triggers, troubles>>

\* The timer looks at every family whose episode is open.
Tick ==
  /\ episode.open /\ ~deleted
  /\ UNCHANGED world
  /\ Observe /\ <<episode, notes>>' # <<episode, notes>>
  /\ UNCHANGED <<dialog, device, deleted, triggers, troubles>>

\* Time: what is quiet has been so for longer, and no launch falls into the
\* instant of an old checkpoint.
Wait ==
  /\ \/ episode.quiet = "since" /\ episode' = [episode EXCEPT !.quiet = "long"] /\ UNCHANGED mark
     \/ mark.now /\ mark' = [mark EXCEPT !.now = FALSE] /\ UNCHANGED episode
  /\ UNCHANGED <<world, pending, said, notes, dialog, device, deleted, triggers, troubles>>

----------------------------------------------------------------------------
(* Requests for attention.                                                  *)
Note(s) == notes' = s /\ UNCHANGED <<world, family, device, deleted, triggers, troubles>>

\* request and resolveKey, by the running root worker; dismiss by the user.
AskUser == ~deleted /\ busy /\ Note(Put(notes, Ask)) /\ notes' # notes /\ UNCHANGED dialog
Withdraw ==
  /\ Pending(Ask) /\ Note(Over(notes, {Ask}, "closed")) /\ UNCHANGED dialog
Dismiss ==
  \E n \in Notices : Pending(n) /\ n[1] # "dialog"
    /\ Note(Over(notes, {n}, "closed")) /\ UNCHANGED dialog
ReadNotice ==
  \E n \in Rows : Pending(n) /\ ~notes[n].read
    /\ Note([notes EXCEPT ![n].read = TRUE]) /\ UNCHANGED dialog

\* An unanswered request expires (an idle notice, as if it were dismissed).
Expire == Pending(Ask) /\ Note(Over(notes, {Ask}, "expired")) /\ UNCHANGED dialog

\* #trackExtensionUiRequest: one dialog per generation here.
DialogOpens ==
  /\ ~deleted /\ busy /\ dialog = 0 /\ notes[Dialog(gen)].state = "absent"
  /\ dialog' = gen
  /\ Note(Put(notes, Dialog(gen)))

DialogEnds ==
  /\ dialog = gen /\ dialog # 0
  /\ dialog' = 0
  /\ \E how \in {"closed", "expired"} : Note(Over(notes, {Dialog(gen)}, how))

----------------------------------------------------------------------------
(* Deliveries to the device.                                                *)
Unsent == [state |-> "none", attempts |-> 0, late |-> FALSE, closed |-> FALSE]

\* A pending row is due, or waits for its retry (late); an inflight one has
\* its lease, or has lost it (late).  What failed, was suppressed or is no
\* longer wanted is over. 
Claimable(d) ==
  /\ d.attempts < Attempts
  /\ \/ d.state = "pending" /\ ~d.late
     \/ d.state = "inflight" /\ d.late

ClaimOf(n) ==
  LET wanted == Pending(n) /\ ~notes[n].read
      d == IF device[n].state = "none" /\ wanted
           THEN [device[n] EXCEPT !.state = "pending"] ELSE device[n]
  IN IF ~wanted /\ d.state \in {"pending", "inflight"} THEN [d EXCEPT !.state = "over", !.late = FALSE]
     ELSE IF Claimable(d) THEN [d EXCEPT !.state = "inflight", !.late = FALSE,
                                    !.attempts = @ + 1]
     ELSE IF d.state = "inflight" /\ d.late THEN [d EXCEPT !.state = "over", !.late = FALSE]
     ELSE d

(* Variant: a request that expired needs no close.                           *)
CloseAnswered(n, d) ==
  IF d.state = "accepted" /\ n \in Attention /\ notes[n].state = "closed"
  THEN [d EXCEPT !.closed = TRUE] ELSE d

\* claimClosures: a request that is over is closed where it was accepted.
CloseOf(n, d) ==
  IF d.state = "accepted" /\ n \in Attention /\ ~Pending(n)
  THEN [d EXCEPT !.closed = TRUE] ELSE d

Claim ==
  /\ device' = [n \in Rows |-> CloseOf(n, ClaimOf(n))]
  /\ device' # device
  /\ UNCHANGED <<world, family, notes, dialog, deleted, triggers, troubles>>

\* receipt: only the lease that is current counts, be it late.
Receipt ==
  \E n \in Rows : \E status \in {"accepted", "retry", "over"} :
    LET again == status = "retry" /\ device[n].attempts < Attempts IN
    /\ device[n].state = "inflight"
    /\ device' = [device EXCEPT ![n].late = again, ![n].state =
                     IF again THEN "pending" ELSE IF status = "accepted" THEN status ELSE "over"]
    /\ UNCHANGED <<world, family, notes, dialog, deleted, triggers, troubles>>

RetryDue ==
  /\ \E n \in Rows : device[n].state = "pending" /\ device[n].late
       /\ device' = [device EXCEPT ![n].late = FALSE]
  /\ UNCHANGED <<world, family, notes, dialog, deleted, triggers, troubles>>

Trouble == troubles < MaxTroubles /\ troubles' = troubles + 1

\* A minute passes without a receipt.
LeaseLapses ==
  /\ Trouble
  /\ \E n \in Rows : device[n].state = "inflight" /\ ~device[n].late
       /\ device' = [device EXCEPT ![n].late = TRUE]
  /\ UNCHANGED <<world, family, notes, dialog, deleted, triggers>>

----------------------------------------------------------------------------
(* Losses.                                                                  *)

\* #onActorExit: its dialogs are withdrawn; nothing is observed.
WorkerExits ==
  /\ Trouble /\ worker # "off"
  /\ worker' = "off" /\ busy' = FALSE
  /\ dialog' = 0
  /\ notes' = IF dialog = gen THEN Over(notes, {Dialog(gen)}, "closed") ELSE notes
  /\ UNCHANGED <<gen, queued, cronRun, job, family, device, deleted, triggers>>

\* The daemon restarts: cancelDialogs.
Restart ==
  /\ Trouble
  /\ worker' = "off" /\ busy' = FALSE /\ dialog' = 0
  /\ notes' = Over(notes, {Dialog(g) : g \in Generations}, "closed")
  /\ UNCHANGED <<gen, queued, cronRun, job, family, device, deleted, triggers>>

\* cancelSession, when the tree is deleted.
Delete ==
  /\ ~deleted /\ deleted' = TRUE
  /\ worker' = "off" /\ busy' = FALSE /\ queued' = {} /\ dialog' = 0 /\ cronRun' = FALSE
  /\ notes' = Over(notes, Notices, "closed")
  /\ episode' = [episode EXCEPT !.open = FALSE]
  /\ UNCHANGED <<gen, job, pending, mark, said, device, triggers, troubles>>

Init ==
  /\ worker = "off" /\ gen = 0 /\ busy = FALSE /\ queued = {} /\ cronRun = FALSE
  /\ job = [state |-> "none", origin |-> "none"]
  /\ episode = [number |-> 0, open |-> FALSE, owner |-> "user", quiet |-> "no"]
  /\ pending = [user |-> FALSE, owner |-> "none"]
  /\ mark = [owner |-> "none", now |-> FALSE]
  /\ notes = [n \in Notices |-> [state |-> "absent", read |-> FALSE, episode |-> 0]]
  /\ dialog = 0 /\ device = [n \in Rows |-> Unsent]
  /\ said = FALSE /\ deleted = FALSE /\ triggers = 0 /\ troubles = 0

\* What goes on by itself: workers start and settle, jobs end, the timer
\* ticks, dialogs time out and devices ask for what is due.
Proceed ==
  \/ Starting \/ Started \/ Begin \/ Settle \/ JobEnds \/ CronEnds \/ Tick \/ Wait
  \/ DialogEnds \/ Claim \/ RetryDue

Next ==
  \/ Proceed
  \/ UserInput \/ CronStarts \/ JobStarts
  \/ AskUser \/ Withdraw \/ Dismiss \/ ReadNotice \/ Expire \/ DialogOpens
  \/ Receipt \/ LeaseLapses \/ WorkerExits \/ Restart \/ Delete

Spec == Init /\ [][Next]_vars /\ WF_vars(Proceed)
----------------------------------------------------------------------------

\* User input is followed, once taken up, by an idle notice, or by a
\* request that stands for it, once the family comes to rest: whatever
\* scheduled runs and background jobs shared its episode, and over restarts.
\* (notification-store.mjs: noteUserInput, noteContinuation, observe)
UserWorkIsAnnounced == []<>(~said \/ deleted \/ episode.number = MaxEpisodes)

\* A device that accepted a request is told when it is over.
\* (notification-store.mjs: claimClosures)
RequestsAreClosed ==
  []<>(\A n \in Attention \cap Rows : device[n].state = "accepted" /\ ~Pending(n) => device[n].closed)
============================================================================
