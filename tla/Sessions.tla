------------------------------ MODULE Sessions ------------------------------
(***************************************************************************)
(* The supervisor's sessions as one tree: admission of roots and children, *)
(* the start queue and its capacity, residency and passivation, stopping,  *)
(* deleting a subtree behind its fence, worker deaths, restarts of the     *)
(* daemon, and the activity that each session shows of itself and of its   *)
(* descendants.                                                            *)
(*                                                                         *)
(* A session's quiet_since is set exactly while it is resident and not     *)
(* streaming, so it has no variable of its own.  The queue of a session's  *)
(* mutations is its holder: who waits behind it comes in any order.        *)
(***************************************************************************)
EXTENDS Naturals, Sequences, FiniteSets

CONSTANTS
  Ids,          \* the sessions there may ever be
  NoId,
  Parent,       \* the parent of a child; NoId of a root
  MaxResident,  \* workers that may be resident or starting together
  MaxStarts,    \* launches that may be under way together
  MaxWork,      \* bound on submitted inputs and explicit revivals together
  MaxTroubles   \* bound on stops, deletions, deaths, failed launches, timeouts and restarts together

ASSUME TreeAssumption == NoId \notin Ids /\ Parent \in [Ids -> Ids \cup {NoId}]
ASSUME LimitAssumption == MaxResident \in Nat \ {0} /\ MaxStarts \in Nat \ {0}

VARIABLES
  life,       \* the lifecycle column; "none" before admission
  activity,   \* the activity column
  streaming,  \* the streaming column
  owed,       \* whether the session has durable work no worker has taken
  queue,      \* #startQueue
  worker,     \* "none", "grant" (no record yet), "boot" (a process that is not resident), "up"
  closing,    \* the expectedLifecycle of the worker's record
  tail,       \* what holds the session's mutation queue
  waking,     \* the input wake: "no", "yes", "again" (asked for once more), "retry"
  spawning,   \* children a parent has asked for and the store has not admitted
  deletion,   \* the subtree behind the fence and the members whose workers were not told to stop
  drain,      \* #drainActorStarts: "idle", "due", or the session it waits for to make room
  work, troubles

vars == <<life, activity, streaming, owed, queue, worker, closing, tail, waking, spawning, deletion, drain, work, troubles>>

NoDeletion == [root |-> NoId, members |-> {}, left |-> {}]

TypeOK ==
  /\ life \in [Ids -> {"none", "starting", "resident", "passivated", "stopped", "error", "deleted"}]
  /\ activity \in [Ids -> {"inactive", "idle", "working", "delegating"}]
  /\ streaming \in [Ids -> BOOLEAN] /\ owed \in [Ids -> BOOLEAN] /\ waking \in [Ids -> {"no", "yes", "again", "retry"}]
  /\ queue \in Seq(Ids)
  /\ worker \in [Ids -> {"none", "grant", "boot", "up"}]
  /\ closing \in [Ids -> {"none", "passivated", "stopped", "error"}]
  /\ tail \in [Ids -> {"free", "passivate", "room", "stop"}]
  /\ spawning \subseteq Ids
  /\ deletion \in [root : Ids \cup {NoId}, members : SUBSET Ids, left : SUBSET Ids]
  /\ drain \in {"idle", "due"} \cup Ids
  /\ work \in 0..MaxWork /\ troubles \in 0..MaxTroubles

Trouble  == troubles < MaxTroubles /\ troubles' = troubles + 1
Work     == work < MaxWork /\ work' = work + 1
Quiet    == UNCHANGED <<work, troubles>>
Exists(s)    == life[s] \notin {"none", "deleted"}
Fenced(s)    == s \in deletion.members
Available(s) == Exists(s) /\ ~Fenced(s)
Retiring(s)  == Fenced(s) \/ tail[s] = "stop"
Queued(s)    == \E i \in DOMAIN queue : queue[i] = s
Recorded(s)  == worker[s] \in {"boot", "up"}
Launching    == {s \in Ids : worker[s] \in {"grant", "boot"}}
Occupied     == {s \in Ids : worker[s] # "none"}   \* #actors and #startingActors together

(***************************************************************************)
(* The tree.  Deleted members are passed through when a subtree is taken,  *)
(* and end the search for working descendants.                             *)
(***************************************************************************)
Upward(A)  == \A x \in A : Parent[x] \in A \cup {NoId}
AboveOf    == [s \in Ids |-> {p \in Ids : \A A \in SUBSET Ids : Upward(A) /\ Parent[s] \in A \cup {NoId} => p \in A}]
Above(s)   == AboveOf[s]
Subtree(s) == {d \in Ids : life[d] # "none" /\ (d = s \/ s \in Above(d))}
Busy(lv, str, s) == \E d \in Ids : /\ str[d] /\ s \in Above(d)
                                   /\ \A m \in {d} \cup (Above(d) \ ({s} \cup Above(s))) : lv[m] # "deleted"

\* What a session shows: its own turn, then its descendants', then its residency.
Shown(lv, str, s) ==
  IF lv[s] = "resident" /\ str[s] THEN "working"
  ELSE IF Busy(lv, str, s) THEN "delegating"
  ELSE IF lv[s] = "resident" THEN "idle" ELSE "inactive"

(* Variant: only the session itself. *)
Alone(act, lv, str, s) == act

\* The walk from the parent of s to the root.
Refreshed(act, lv, str, s) == [x \in Ids |-> IF x \in Above(s) THEN Shown(lv, str, x) ELSE act[x]]

\* Session s gets the lifecycle to, stops streaming, and it and its ancestors show it.
Mark(s, to) ==
  /\ life' = [life EXCEPT ![s] = to]
  /\ streaming' = [streaming EXCEPT ![s] = FALSE]
  /\ activity' = Refreshed([activity EXCEPT ![s] = Shown(life', streaming', s)], life', streaming', s)
Marked == UNCHANGED <<life, streaming, activity>>

(***************************************************************************)
(* Own idleness and the start queue.                                       *)
(***************************************************************************)
OwnIdle(s, owned) ==
  /\ worker[s] = "up" /\ closing[s] = "none" /\ life[s] = "resident" /\ ~streaming[s]
  /\ ~owed[s] /\ waking[s] = "no" /\ (owned \/ tail[s] = "free") /\ ~Fenced(s)
Wake == IF drain = "idle" THEN "due" ELSE drain
\* A session whose idleness changed may be the room that the queue waits for.
Sync(s) == drain' = IF OwnIdle(s, FALSE)' /\ queue' # <<>> THEN Wake ELSE drain

Unqueued(q, s) == SelectSeq(q, LAMBDA x : x # s)
\* Every member of S once, in some order.
InSomeOrder(S) == CHOOSE q \in [1..Cardinality(S) -> S] : \A x \in S : \E i \in DOMAIN q : q[i] = x
CanStart(s) == Available(s) /\ ~Retiring(s)
\* Only a session with no worker, launch or place in the queue is given a new one.
RequestStart(s, revive) ==
  IF Occupied \cap {s} # {} \/ Queued(s) THEN Marked /\ UNCHANGED <<queue, drain>>
  ELSE IF life[s] # "starting" /\ ~revive THEN Marked /\ UNCHANGED <<queue, drain>>
  ELSE /\ IF life[s] = "starting" THEN Marked
          ELSE /\ life' = [life EXCEPT ![s] = "starting"]
               /\ streaming' = [streaming EXCEPT ![s] = FALSE]
               /\ activity' = Refreshed([activity EXCEPT ![s] = "inactive"], life', streaming', s)
       /\ queue' = Append(queue, s) /\ drain' = Wake

\* Ask a recorded worker to end as l, or only record the lifecycle when there is none.
StopActor(s, l) ==
  /\ queue' = Unqueued(queue, s)
  /\ IF Recorded(s)
     THEN /\ closing' = [closing EXCEPT ![s] = l]
          /\ IF l = "error" THEN Mark(s, "error") ELSE Marked
     ELSE /\ UNCHANGED closing
          /\ IF life[s] \in {"deleted", l} THEN Marked ELSE Mark(s, l)

(***************************************************************************)
(* Admission.                                                              *)
(***************************************************************************)
Admit(s, task) ==
  /\ life' = [life EXCEPT ![s] = "starting"]
  /\ owed' = [owed EXCEPT ![s] = task]
  /\ queue' = Append(queue, s) /\ drain' = Wake
  /\ UNCHANGED <<activity, streaming, worker, closing, tail, waking, deletion>> /\ Quiet

CreateRoot(s) ==
  /\ Parent[s] = NoId /\ life[s] = "none"
  /\ Admit(s, FALSE) /\ UNCHANGED spawning

\* Forking the context and writing the child's files are awaited before its admission.
SpawnBegin(c) ==
  /\ Parent[c] # NoId /\ life[c] = "none" /\ c \notin spawning
  /\ Available(Parent[c]) /\ streaming[Parent[c]]
  /\ spawning' = spawning \cup {c}
  /\ UNCHANGED <<owed, queue, worker, closing, tail, waking, deletion, drain>> /\ Marked /\ Quiet

SpawnCommit(c) ==
  /\ c \in spawning /\ Available(Parent[c])
  /\ spawning' = spawning \ {c}
  /\ Admit(c, TRUE)

SpawnRejected(c) ==
  /\ c \in spawning /\ ~Available(Parent[c])
  /\ spawning' = spawning \ {c}
  /\ UNCHANGED <<owed, queue, worker, closing, tail, waking, deletion, drain>> /\ Marked /\ Quiet

(***************************************************************************)
(* Work and its wake.                                                      *)
(***************************************************************************)
Submit(s) ==
  /\ Work /\ CanStart(s) /\ tail[s] = "free"
  /\ owed' = [owed EXCEPT ![s] = TRUE]
  /\ waking' = [waking EXCEPT ![s] = IF @ = "no" THEN "yes" ELSE "again"]
  /\ RequestStart(s, TRUE)
  /\ UNCHANGED <<worker, closing, tail, spawning, deletion, troubles>>

Revive(s) ==
  /\ Work /\ CanStart(s) /\ tail[s] = "free"
  /\ RequestStart(s, TRUE)
  /\ UNCHANGED <<owed, worker, closing, tail, waking, spawning, deletion, troubles>>

AfterFailure(w) == IF w = "again" THEN "retry" ELSE "no"
FailWake(s) ==
  /\ waking[s] \in {"yes", "again"} /\ ~Retiring(s)
  /\ waking' = [waking EXCEPT ![s] = AfterFailure(@)]
  /\ StopActor(s, "error")
  /\ UNCHANGED <<owed, worker, tail, spawning, deletion>>
  /\ Sync(s)

\* The wait for the actor ends in its failure, or outlasts the time it is given.
WakeFails(s)    == life[s] = "error" /\ FailWake(s) /\ Quiet
WakeTimesOut(s) == life[s] # "error" /\ worker[s] # "up" /\ FailWake(s) /\ Trouble /\ UNCHANGED work

WakeRetries(s) ==
  /\ waking[s] = "retry" /\ CanStart(s) /\ closing[s] = "none"
  /\ waking' = [waking EXCEPT ![s] = "yes"]
  /\ RequestStart(s, TRUE)
  /\ UNCHANGED <<owed, worker, closing, tail, spawning, deletion>> /\ Quiet

WakeCancelled(s) ==
  /\ waking[s] # "no" /\ Retiring(s)
  /\ waking' = [waking EXCEPT ![s] = "no"]
  /\ UNCHANGED <<owed, queue, worker, closing, tail, spawning, deletion>> /\ Marked /\ Quiet
  /\ Sync(s)

(***************************************************************************)
(* The start queue: one turn of the loop of #drainActorStarts at a time.   *)
(***************************************************************************)
Full == Cardinality(Occupied) >= MaxResident
Drained == UNCHANGED <<owed, waking, spawning, deletion>> /\ Marked /\ Quiet
Draining == drain = "due" /\ queue # <<>> /\ Cardinality(Launching) < MaxStarts

DrainEnds ==
  /\ drain = "due" /\ ~Draining
  /\ drain' = "idle"
  /\ Drained /\ UNCHANGED <<queue, worker, closing, tail>>

DrainDrops ==
  /\ Draining /\ Retiring(Head(queue))
  /\ queue' = Tail(queue)
  /\ Drained /\ UNCHANGED <<worker, closing, tail, drain>>

Victims == {v \in Ids \ {Head(queue)} : OwnIdle(v, FALSE)}

DrainMakesRoom(v) ==
  /\ Draining /\ ~Retiring(Head(queue)) /\ Full
  /\ v \in Victims
  /\ tail' = [tail EXCEPT ![v] = "room"]
  /\ closing' = [closing EXCEPT ![v] = "passivated"]
  /\ drain' = v
  /\ Drained /\ UNCHANGED <<queue, worker>>

RoomMade(v) ==
  /\ drain = v /\ worker[v] = "none"
  /\ tail' = [tail EXCEPT ![v] = "free"]
  /\ drain' = "due"
  /\ Drained /\ UNCHANGED <<queue, worker, closing>>

DrainWaits ==
  /\ Draining /\ ~Retiring(Head(queue)) /\ Full /\ Victims = {}
  /\ drain' = "idle"
  /\ Drained /\ UNCHANGED <<queue, worker, closing, tail>>

DrainLaunches ==
  /\ Draining /\ ~Retiring(Head(queue)) /\ ~Full
  /\ queue' = Tail(queue)
  /\ worker' = IF life[Head(queue)] = "starting" THEN [worker EXCEPT ![Head(queue)] = "grant"] ELSE worker
  /\ Drained /\ UNCHANGED <<closing, tail, drain>>

(***************************************************************************)
(* A launch, and the worker it leaves.                                     *)
(***************************************************************************)
\* After the awaited grant: the launch goes on, or was cancelled or overtaken.
Granted(s) ==
  /\ worker[s] = "grant"
  /\ IF ~Retiring(s) /\ life[s] = "starting"
     THEN worker' = [worker EXCEPT ![s] = "boot"] /\ UNCHANGED drain
     ELSE worker' = [worker EXCEPT ![s] = "none"] /\ drain' = Wake
  /\ UNCHANGED <<owed, queue, closing, tail, waking, spawning, deletion>> /\ Marked /\ Quiet

BecomeResident(s) ==
  /\ worker[s] = "boot" /\ closing[s] = "none" /\ ~Retiring(s) /\ life[s] = "starting"
  /\ worker' = [worker EXCEPT ![s] = "up"]
  /\ Mark(s, "resident")
  /\ drain' = IF queue # <<>> THEN Wake ELSE drain
  /\ UNCHANGED <<owed, queue, closing, tail, waking, spawning, deletion>> /\ Quiet

(* Variant: the queue is not looked at when a worker ends. *)
EndsUnseen(s, to) ==
  /\ worker' = [worker EXCEPT ![s] = "none"]
  /\ closing' = [closing EXCEPT ![s] = "none"]
  /\ IF life[s] \in {"starting", "resident", "error"} THEN Mark(s, to) ELSE Marked
  /\ UNCHANGED <<owed, queue, tail, waking, spawning, deletion, drain>>

Ends(s, to) ==
  /\ worker' = [worker EXCEPT ![s] = "none"]
  /\ closing' = [closing EXCEPT ![s] = "none"]
  /\ IF life[s] \in {"starting", "resident", "error"} THEN Mark(s, to) ELSE Marked
  /\ drain' = Wake
  /\ UNCHANGED <<owed, queue, tail, waking, spawning, deletion>>

Exit(s) == Recorded(s) /\ closing[s] # "none" /\ Ends(s, closing[s]) /\ Quiet
Die(s) ==
  /\ Recorded(s) \/ (worker[s] = "grant" /\ ~Retiring(s))
  /\ closing[s] = "none"
  /\ Ends(s, "error")
  /\ Trouble /\ UNCHANGED work

\* The work becomes part of the transcript: in a new turn, or with none.
Deliver(s, turn) ==
  /\ owed[s] /\ worker[s] = "up" /\ closing[s] = "none" /\ ~Fenced(s)
  /\ owed' = [owed EXCEPT ![s] = FALSE]
  /\ waking' = [waking EXCEPT ![s] = "no"]
  /\ streaming' = [streaming EXCEPT ![s] = @ \/ turn]
  /\ activity' = Refreshed([activity EXCEPT ![s] = Shown(life, streaming', s)], life, streaming', s)
  /\ UNCHANGED <<life, queue, worker, closing, tail, spawning, deletion>> /\ Quiet
  /\ Sync(s)

Settle(s) ==
  /\ streaming[s] /\ worker[s] = "up" /\ life[s] = "resident"
  /\ streaming' = [streaming EXCEPT ![s] = FALSE]
  /\ activity' = Refreshed([activity EXCEPT ![s] = Shown(life, streaming', s)], life, streaming', s)
  /\ UNCHANGED <<life, owed, queue, worker, closing, tail, waking, spawning, deletion>> /\ Quiet
  /\ Sync(s)

(***************************************************************************)
(* Passivation, stopping and deletion.                                     *)
(***************************************************************************)
Passivate(s) ==
  /\ OwnIdle(s, FALSE)
  /\ tail' = [tail EXCEPT ![s] = "passivate"]
  /\ StopActor(s, "passivated")
  /\ UNCHANGED <<owed, worker, waking, spawning, deletion, drain>> /\ Quiet

StopBegin(s) ==
  /\ Available(s) /\ tail[s] = "free"
  /\ tail' = [tail EXCEPT ![s] = "stop"]
  /\ StopActor(s, "stopped")
  /\ UNCHANGED <<owed, worker, waking, spawning, deletion, drain, work>> /\ Trouble

\* Stopping waits for every launch and wake it retired.
Retired(s) == worker[s] = "none" /\ waking[s] = "no"

TailEnds(s) ==
  /\ \/ tail[s] = "passivate" /\ worker[s] = "none"
     \/ tail[s] = "stop" /\ Retired(s)
  /\ tail' = [tail EXCEPT ![s] = "free"]
  /\ UNCHANGED <<owed, queue, worker, closing, waking, spawning, deletion, drain>> /\ Marked /\ Quiet

DeleteBegin(r) ==
  /\ deletion = NoDeletion /\ Exists(r)
  /\ deletion' = [root |-> r, members |-> Subtree(r), left |-> Subtree(r)]
  /\ UNCHANGED <<owed, queue, worker, closing, tail, waking, spawning, drain, work>> /\ Marked /\ Trouble

DeleteStops(s) ==
  /\ s \in deletion.left
  /\ deletion' = [deletion EXCEPT !.left = @ \ {s}]
  /\ StopActor(s, "stopped")
  /\ UNCHANGED <<owed, worker, tail, waking, spawning, drain>> /\ Quiet

DeleteCommit ==
  /\ deletion # NoDeletion /\ deletion.left = {}
  /\ \A s \in deletion.members : Retired(s) /\ tail[s] = "free"
  /\ LET gone == Subtree(deletion.root) IN
       /\ life' = [s \in Ids |-> IF s \in gone THEN "deleted" ELSE life[s]]
       /\ streaming' = [s \in Ids |-> s \notin gone /\ streaming[s]]
       /\ owed' = [s \in Ids |-> s \notin gone /\ owed[s]]
       /\ activity' = Refreshed([s \in Ids |-> IF s \in gone THEN "inactive" ELSE activity[s]], life', streaming', deletion.root)
  /\ deletion' = NoDeletion
  /\ UNCHANGED <<queue, worker, closing, tail, waking, spawning, drain>> /\ Quiet

(***************************************************************************)
(* The daemon ends, by a stop that passivates its workers or by a crash    *)
(* that leaves them to be killed, and starts again.                        *)
(***************************************************************************)
Restart(graceful) ==
  LET parked == IF graceful THEN {s \in Ids : Recorded(s) /\ life[s] \in {"starting", "resident", "error"}} ELSE {}
      left   == [s \in Ids |-> IF s \in parked THEN "passivated" ELSE life[s]]
      shown  == [s \in Ids |-> IF \E p \in parked : p = s \/ s \in Above(p) THEN "inactive" ELSE activity[s]]
      owners == {s \in Ids : left[s] \in {"starting", "resident"} \/ (left[s] = "passivated" /\ owed[s])}
  IN /\ Trouble
     /\ life' = [s \in Ids |-> IF s \in owners THEN "starting" ELSE left[s]]
     /\ activity' = [s \in Ids |-> IF s \in owners THEN "inactive" ELSE shown[s]]
     /\ streaming' = [s \in Ids |-> FALSE]
     /\ queue' = InSomeOrder(owners) /\ drain' = "due"
     /\ worker' = [s \in Ids |-> "none"] /\ closing' = [s \in Ids |-> "none"]
     /\ tail' = [s \in Ids |-> "free"] /\ waking' = [s \in Ids |-> "no"]
     /\ spawning' = {} /\ deletion' = NoDeletion
     /\ UNCHANGED <<owed, work>>

Init ==
  /\ life = [s \in Ids |-> "none"] /\ activity = [s \in Ids |-> "inactive"]
  /\ streaming = [s \in Ids |-> FALSE] /\ owed = [s \in Ids |-> FALSE]
  /\ queue = <<>> /\ drain = "idle"
  /\ worker = [s \in Ids |-> "none"] /\ closing = [s \in Ids |-> "none"]
  /\ tail = [s \in Ids |-> "free"] /\ waking = [s \in Ids |-> "no"]
  /\ spawning = {} /\ deletion = NoDeletion
  /\ work = 0 /\ troubles = 0

\* What the supervisor and its workers do of themselves.
Proceed ==
  \/ \E s \in Ids :
       \/ SpawnCommit(s) \/ SpawnRejected(s)
       \/ WakeFails(s) \/ WakeRetries(s) \/ WakeCancelled(s)
       \/ DrainMakesRoom(s) \/ RoomMade(s)
       \/ Granted(s) \/ BecomeResident(s) \/ Exit(s)
       \/ (\E turn \in BOOLEAN : Deliver(s, turn)) \/ Settle(s)
       \/ TailEnds(s) \/ DeleteStops(s)
  \/ DrainEnds \/ DrainDrops \/ DrainWaits \/ DrainLaunches
  \/ DeleteCommit

Next ==
  \/ Proceed
  \/ \E s \in Ids :
       \/ CreateRoot(s) \/ SpawnBegin(s) \/ Submit(s) \/ Revive(s)
       \/ WakeTimesOut(s) \/ Die(s)
       \/ Passivate(s) \/ StopBegin(s) \/ DeleteBegin(s)
  \/ \E graceful \in BOOLEAN : Restart(graceful)

Spec == Init /\ [][Next]_vars

\* The process does not stop while it has something begun to finish.
FairSpec == Spec /\ WF_vars(Proceed)

-----------------------------------------------------------------------------

(***************************************************************************)
(* Properties.                                                             *)
(***************************************************************************)
\* A resident session shows its own turn and its descendants' work as they are, and a parked one is never
\* shown inactive above a working descendant.  Every change of a lifecycle walks the ancestors.
ActivityIsTrue ==
  \A s \in Ids :
    /\ life[s] = "resident" => activity[s] = Shown(life, streaming, s)
    /\ life[s] \in {"passivated", "stopped", "error"} /\ Busy(life, streaming, s) => activity[s] = "delegating"

\* Work accepted for a session is taken by its worker, or the session ends up visibly stopped, failed or deleted:
\* again and again there is a moment when none waits.  No start is forgotten behind a full house, a passivation,
\* a deletion or a restart.
WorkIsTaken == []<>(\A s \in Ids : owed[s] => life[s] \in {"stopped", "error", "deleted"})

=============================================================================
