--------------------------- MODULE FamilyMessages ---------------------------
(***************************************************************************)
(* Durable family messages between session actors: the `messages` table    *)
(* (store.mjs), the supervisor that routes them (supervisor.mjs) and the   *)
(* actor extension that journals, injects and acknowledges them            *)
(* (extension.mjs).  A message is accepted, its sender journals it, it is   *)
(* queued, handed to the recipient's connection, incorporated into the     *)
(* recipient's transcript and acknowledged.  Supervisor-authored failure   *)
(* receipts travel the same path from `queued` on.                         *)
(***************************************************************************)
EXTENDS Naturals, FiniteSets

CONSTANTS
  Sessions,      \* session identities
  NoSession,     \* the parent of a root session
  Parent,        \* parent of every session, or NoSession
  Home,          \* rootFailureObserver: the root that hears of other roots' exits
  Messages,      \* ids an actor's send_message may be given
  Reach,         \* <<sender, target>> pairs #resolveReachableTarget accepts
  PendingLimit,  \* PI_HARNESS_MAX_PENDING_MESSAGES
  MaxAttempts,   \* maxMessageDeliveryAttempts
  MaxGen,        \* bound: actor generations a session goes through
  MaxTroubles    \* bound: disconnections, worker exits, stops, deletions, restarts

ASSUME SessionsAssumption ==
  /\ NoSession \notin Sessions
  /\ Parent \in [Sessions -> Sessions \cup {NoSession}]
  /\ Home \in {s \in Sessions : Parent[s] = NoSession} \cup {NoSession}
  /\ Reach \subseteq Sessions \X Sessions
ASSUME BoundsAssumption ==
  /\ PendingLimit \in Nat /\ MaxAttempts \in Nat \ {0}
  /\ MaxGen \in Nat \ {0} /\ MaxTroubles \in Nat

\* #queueChildFailure's target: the parent of a child, Home for another root.
ReportTo(s) == IF Parent[s] # NoSession THEN Parent[s]
               ELSE IF s # Home THEN Home ELSE NoSession

\* A failure receipt is keyed by the session and the generation that failed.
Receipts == {s \in Sessions : ReportTo(s) # NoSession} \X (1..MaxGen)
ASSUME IdsAssumption == Messages \cap Receipts = {}
Ids == Messages \cup Receipts

VARIABLES
  msg,           \* durable: rows of the messages table
  journal,       \* durable: "to" entries of a message in its sender's transcript
  incorporated,  \* durable: custom_message entries in its recipient's transcript
  life, gen,     \* durable: sessions.lifecycle, sessions.actor_generation
  deletions,     \* supervisor: roots of the subtree deletions in progress
  worker,        \* supervisor #actors: generation of the live worker, 0 if none
  closing,       \* record.expectedLifecycle: "none", "passivated" or "stopped"
  conn,          \* #actorConnections: generation of the connection, 0 if none
  inFlight,      \* connection state.deliveryInFlight
  sweep,         \* sessions whose connection awaits a #deliverPending pass
  kicks,         \* messages whose #deliverMessageWhenReady call has not begun
  waits,         \* messages whose call holds the target's mutation tail and waits
  wire,          \* actor requests on their way to the supervisor
  frames,        \* events the actor's deliveryChain has not handled
  known,         \* actor: knownDeliveredIds
  acks,          \* actor: pendingAcknowledgements
  queue,         \* actor coordinator: injected messages not yet committed
  troubles       \* disturbances so far (bounded by MaxTroubles)

store == <<msg, life, gen>>
transcripts == <<journal, incorporated>>
owners == <<deletions, worker, closing>>
links == <<conn, inFlight>>
turns == <<sweep, kicks, waits>>
routing == <<owners, links, turns>>
actor == <<frames, known, acks, queue>>
vars == <<msg, journal, incorporated, life, gen, deletions, worker, closing, conn,
          inFlight, sweep, kicks, waits, wire, frames, known, acks, queue, troubles>>

Lifecycles == {"starting", "resident", "passivated", "stopped", "error", "deleted"}
States == {"none", "accepted", "queued", "delivered", "acknowledged", "rejected"}
Pending == {"queued", "delivered"}
Terminal == {"acknowledged", "rejected"}
NewRow(state, s, t) ==
  [state |-> state, from |-> s, to |-> t, entry |-> FALSE, attempts |-> 0]
NoRow == NewRow("none", NoSession, NoSession)

-----------------------------------------------------------------------------
(* Reading the store and the supervisor's routing state. *)

\* getSessionSubtree: a session and all its descendants.
Subtree == [r \in Sessions |->
  {s \in Sessions : \A S \in SUBSET Sessions :
     (r \in S /\ \A p \in S, c \in Sessions : Parent[c] = p => c \in S) => s \in S}]

\* isSessionDeleting, assertSessionAvailable.
Deleting(s) == \E r \in deletions : s \in Subtree[r]
Available(s) == life[s] # "deleted" /\ ~Deleting(s)

\* listMessagesAwaitingSenderEntry.
Awaiting(s) == {i \in Ids : msg[i].from = s /\ msg[i].state = "accepted"}

\* listPendingMessages.
PendingTo(s) == {i \in Ids : msg[i].to = s /\ msg[i].state \in Pending}

Persisted(i) == incorporated[i] > 0

\* The ids session_start reads back from the canonical transcript; as if it did not.
NoDeliveredIds(s) == {}
DeliveredIds(s) == {i \in Ids : msg[i].to = s /\ Persisted(i)}

\* listPendingChildExitMessages; as if receipts were retried no more than other messages.
NoReceipts(m, l) == {}
RetryableReceipts(m, l) ==
  {i \in Receipts : m[i].state \in Pending
                    /\ l[m[i].to] \in {"resident", "starting", "passivated"}}

\* The actor's client and the supervisor hold the two ends of one connection.
Connected(s) == worker[s] # 0 /\ conn[s] = worker[s]

\* #withSessionMutation: deliveries, stops and passivations of one session take turns,
\* and a stop or passivation holds its turn until the worker has exited.
TailFree(s) == closing[s] = "none" /\ \A i \in waits : msg[i].to # s

\* The guards of #deliverMessage that do not depend on the message.
CanDeliver(s) ==
  /\ ~Deleting(s) /\ life[s] = "resident"
  /\ conn[s] = gen[s] /\ worker[s] = gen[s] /\ closing[s] = "none"

-----------------------------------------------------------------------------
(* Store transitions.  Each is one BEGIN IMMEDIATE transaction. *)

SentRow(s, t) == NewRow("accepted", s, t)

Acknowledgeable(row, s) == row.to = s /\ row.state \in {"delivered", "acknowledged"}

MarkDelivered(row) ==
  IF row.state # "queued" THEN row
  ELSE IF row.attempts >= MaxAttempts THEN [row EXCEPT !.state = "rejected"]
  ELSE [row EXCEPT !.state = "delivered", !.attempts = @ + 1]

\* #terminalizeSessionWork on the messages table, for the sessions D.
Terminalize(D) ==
  [i \in Ids |->
     IF \/ msg[i].to \in D /\ msg[i].state \in {"accepted", "queued", "delivered"}
        \/ msg[i].from \in D /\ msg[i].state = "accepted"
     THEN [msg[i] EXCEPT !.state = "rejected"] ELSE msg[i]]

\* #queueChildFailure: INSERT OR IGNORE of the receipt for session c's generation g.
WithReceipt(c, g) ==
  LET p == ReportTo(c) IN
  IF p # NoSession /\ life[p] # "deleted" /\ ~Deleting(p) /\ ~Deleting(c)
       /\ msg[<<c, g>>].state = "none"
  THEN [msg EXCEPT ![<<c, g>>] = NewRow("queued", c, p)]
  ELSE msg

\* #deliverMessage for each message of D, all addressed to s.
Deliver(s, D) ==
  IF ~CanDeliver(s) THEN UNCHANGED <<msg, inFlight, frames>>
  ELSE LET fresh == {i \in D \ inFlight[s] : msg[i].state \in Pending}
           after == [i \in Ids |-> IF i \in fresh THEN MarkDelivered(msg[i]) ELSE msg[i]]
           out == {i \in fresh : after[i].state = "delivered"}
       IN /\ msg' = after
          /\ inFlight' = [inFlight EXCEPT ![s] = @ \cup out]
          /\ frames' = [frames EXCEPT ![s] = @ \cup {<<"message", i>> : i \in out}]

\* A disturbance: the environment has a bounded number of them.
Trouble == troubles < MaxTroubles /\ troubles' = troubles + 1

-----------------------------------------------------------------------------
Init ==
  /\ msg = [i \in Ids |-> NoRow]
  /\ journal = [i \in Ids |-> 0] /\ incorporated = [i \in Ids |-> 0]
  /\ life = [s \in Sessions |-> "starting"] /\ gen = [s \in Sessions |-> 1]
  /\ deletions = {}
  /\ worker = [s \in Sessions |-> 0] /\ closing = [s \in Sessions |-> "none"]
  /\ conn = [s \in Sessions |-> 0] /\ inFlight = [s \in Sessions |-> {}]
  /\ sweep = {} /\ kicks = {} /\ waits = {}
  /\ wire = [s \in Sessions |-> {}] /\ frames = [s \in Sessions |-> {}]
  /\ known = [s \in Sessions |-> {}] /\ acks = [s \in Sessions |-> {}]
  /\ queue = [s \in Sessions |-> {}]
  /\ troubles = 0

(* Sending. *)

\* #dispatchActor send_message: createMessage, then #deliverPendingOutgoingHistory
\* asks the sender's extension to journal every message still awaiting it.
SendMessage(s, t, m) ==
  /\ Connected(s) /\ <<s, t>> \in Reach
  /\ Available(s) /\ Available(t)
  /\ msg[m].state = "none"
  /\ Cardinality({i \in Ids : msg[i].to = t
       /\ msg[i].state \in {"accepted", "queued", "delivered"}}) < PendingLimit
  /\ msg' = [msg EXCEPT ![m] = SentRow(s, t)]
  /\ frames' = [frames EXCEPT ![s] = @ \cup {<<"history", i>> : i \in Awaiting(s) \cup {m}}]
  /\ UNCHANGED <<transcripts, routing, life, gen, wire, known, acks, queue, troubles>>

\* ensureOutgoingAgentMessage: reuse the transcript's "to" entry or append one,
\* then ask the supervisor to record it.  Offline, the history request is dropped.
JournalOutgoing(s, i) ==
  /\ worker[s] # 0 /\ <<"history", i>> \in frames[s]
  /\ frames' = [frames EXCEPT ![s] = @ \ {<<"history", i>>}]
  /\ IF Connected(s)
     THEN /\ journal' = [journal EXCEPT ![i] = IF @ = 0 THEN 1 ELSE @]
          /\ wire' = [wire EXCEPT ![s] = @ \cup {<<"entry", i>>}]
     ELSE UNCHANGED <<journal, wire>>
  /\ UNCHANGED <<store, routing, incorporated, known, acks, queue, troubles>>

\* record_agent_message_entry "to": recordMessageSenderEntry, and for a newly queued
\* message a #deliverMessageWhenReady call.  A stale generation is not accepted.
RecordSenderEntry(s, i) ==
  /\ conn[s] # 0 /\ <<"entry", i>> \in wire[s]
  /\ wire' = [wire EXCEPT ![s] = @ \ {<<"entry", i>>}]
  /\ IF /\ worker[s] = conn[s]
        /\ Available(s) /\ Available(msg[i].to)
        /\ msg[i].from = s /\ ~msg[i].entry /\ msg[i].state = "accepted"
     THEN /\ msg' = [msg EXCEPT ![i].entry = TRUE, ![i].state = "queued"]
          /\ kicks' = kicks \cup {i}
     ELSE UNCHANGED <<msg, kicks>>
  /\ UNCHANGED <<transcripts, owners, links, actor, life, gen, sweep, waits, troubles>>

(* Delivering. *)

\* #requestActorStart + prepareActorRevival: a session no worker runs gets a new
\* generation.
Startable(s) == worker[s] = 0 /\ Available(s) /\ life[s] # "starting" /\ gen[s] < MaxGen
Revive(s) ==
  /\ life' = [life EXCEPT ![s] = "starting"]
  /\ gen' = [gen EXCEPT ![s] = @ + 1]

\* What #deliverMessageWhenReady looks at first.  Only a receipt is looked up again, and
\* it wakes no target that is stopped or in error.
Deliverable(i) ==
  /\ Available(msg[i].to)
  /\ i \in Receipts => /\ msg[i].state \in Pending
                       /\ life[msg[i].to] \in {"resident", "starting", "passivated"}

\* #deliverMessageWhenReady takes its turn; #ensureActorReady starts the target.
KickBegin(i) ==
  LET s == msg[i].to IN
  /\ i \in kicks /\ TailFree(s) /\ Deliverable(i)
  /\ kicks' = kicks \ {i} /\ waits' = waits \cup {i}
  /\ IF Startable(s) THEN Revive(s) ELSE UNCHANGED <<life, gen>>
  /\ UNCHANGED <<transcripts, owners, links, actor, msg, sweep, wire, troubles>>

\* #ensureActorReadyOnce retires an idle worker whose skill grant changed, and
\* #deliverMessageWhenReady one whose transport never registered: pending work or not.
KickRetire(i) ==
  LET s == msg[i].to IN
  /\ Trouble
  /\ i \in waits /\ Available(s)
  /\ life[s] = "resident" /\ worker[s] = gen[s] /\ closing[s] = "none"
  /\ closing' = [closing EXCEPT ![s] = "passivated"]
  /\ UNCHANGED <<store, transcripts, links, turns, actor, deletions, worker, wire>>

\* The retired worker has exited: the same call starts its successor.
KickRestart(i) ==
  LET s == msg[i].to IN
  /\ i \in waits /\ life[s] = "passivated" /\ Startable(s) /\ Revive(s)
  /\ UNCHANGED <<transcripts, routing, actor, msg, wire, troubles>>

\* The target is resident and its connection is there.
KickDeliver(i) ==
  /\ i \in waits /\ CanDeliver(msg[i].to)
  /\ Deliver(msg[i].to, {i})
  /\ waits' = waits \ {i}
  /\ UNCHANGED <<transcripts, owners, life, gen, conn, sweep, kicks, wire, known, acks,
                 queue, troubles>>

\* #deliverMessageWhenReady gives up: the target may not be woken, could not start, is
\* being stopped, or a wait timed out.  Only a log line remains.
KickAbandon(i) ==
  /\ \/ i \in kicks /\ (~Deliverable(i) \/ closing[msg[i].to] = "stopped")
     \/ i \in waits /\ ~CanDeliver(msg[i].to)
  /\ kicks' = kicks \ {i} /\ waits' = waits \ {i}
  /\ UNCHANGED <<store, transcripts, owners, links, actor, sweep, wire, troubles>>

\* #deliverPending, run behind the session's mutation tail.
DeliverPending(s) ==
  /\ s \in sweep /\ TailFree(s)
  /\ sweep' = sweep \ {s}
  /\ Deliver(s, PendingTo(s))
  /\ UNCHANGED <<transcripts, owners, life, gen, conn, kicks, waits, wire, known, acks,
                 queue, troubles>>

RetryQueued(s) ==
  /\ sweep' = IF conn[s] # 0 /\ conn[s] = worker[s] THEN sweep \cup {s} ELSE sweep
  /\ kicks' = kicks \cup {i \in PendingTo(s) : msg[i].state = "queued"}

RunSettled(s) ==
  /\ life[s] = "resident" /\ worker[s] = gen[s] /\ closing[s] = "none"
  /\ RetryQueued(s)
  /\ UNCHANGED <<store, transcripts, owners, links, actor, waits, wire, troubles>>

\* #retryChildExitMessages, on the notification tick; #childExitDeliveries keeps it from
\* repeating a call still at work.
RetryReceipts ==
  /\ kicks' = kicks \cup (RetryableReceipts(msg, life) \ waits)
  /\ UNCHANGED <<store, transcripts, owners, links, actor, sweep, waits, wire, troubles>>

(* The recipient. *)

\* receiveMessage.  A known message is only acknowledged, and only once its entry is in
\* the transcript; any other is injected into the coordinator's queue.
ReceiveMessage(s, i) ==
  /\ worker[s] # 0 /\ <<"message", i>> \in frames[s]
  /\ frames' = [frames EXCEPT ![s] = @ \ {<<"message", i>>}]
  /\ IF i \notin known[s]
     THEN /\ known' = [known EXCEPT ![s] = @ \cup {i}]
          /\ acks' = [acks EXCEPT ![s] = @ \cup {i}]
          /\ queue' = [queue EXCEPT ![s] = @ \cup {i}]
          /\ UNCHANGED wire
     ELSE /\ UNCHANGED <<known, queue>>
          /\ IF ~Persisted(i) THEN UNCHANGED <<wire, acks>>
             ELSE /\ acks' = [acks EXCEPT ![s] = @ \cup {i}]
                  /\ wire' = IF Connected(s)
                             THEN [wire EXCEPT ![s] = @ \cup {<<"ack", i>>}] ELSE wire
  /\ UNCHANGED <<store, transcripts, routing, troubles>>

\* deliverQueued: the coordinator appends the custom message at a safe checkpoint.
CommitMessage(s, i) ==
  /\ worker[s] # 0 /\ i \in queue[s]
  /\ queue' = [queue EXCEPT ![s] = @ \ {i}]
  /\ incorporated' = [incorporated EXCEPT ![i] = @ + 1]
  /\ UNCHANGED <<store, routing, journal, wire, frames, known, acks, troubles>>

\* flushAcknowledgements: one ack_message per pending message whose entry is persisted.
FlushAcknowledgements(s) ==
  LET ready == {i \in acks[s] : Persisted(i)} IN
  /\ Connected(s) /\ ready # {}
  /\ wire' = [wire EXCEPT ![s] = @ \cup {<<"ack", i>> : i \in ready}]
  /\ UNCHANGED <<store, transcripts, routing, actor, troubles>>

\* ack_message: acknowledgeMessage and its response.
AckMessage(s, i) ==
  /\ conn[s] # 0 /\ <<"ack", i>> \in wire[s]
  /\ wire' = [wire EXCEPT ![s] = @ \ {<<"ack", i>>}]
  /\ IF Acknowledgeable(msg[i], s)
     THEN /\ msg' = [msg EXCEPT ![i].state = "acknowledged"]
          /\ inFlight' = [inFlight EXCEPT ![s] = @ \ {i}]
          /\ acks' = IF Connected(s) THEN [acks EXCEPT ![s] = @ \ {i}] ELSE acks
     ELSE UNCHANGED <<msg, inFlight, acks>>
  /\ UNCHANGED <<transcripts, owners, turns, life, gen, conn, frames, known, queue,
                 troubles>>

(* Connections. *)

NewInFlight(s) == {}

\* register_actor: the token and generation must be current.  A fresh connection starts
\* with nothing in flight, asks for the missing journal entries and gets a sweep.
Register(s) ==
  /\ worker[s] # 0 /\ worker[s] = gen[s] /\ conn[s] # worker[s] /\ Available(s)
  /\ conn' = [conn EXCEPT ![s] = worker[s]]
  /\ inFlight' = [inFlight EXCEPT ![s] = NewInFlight(s)]
  /\ wire' = [wire EXCEPT ![s] = {}]
  /\ frames' = [frames EXCEPT ![s] = @ \cup {<<"history", i>> : i \in Awaiting(s)}]
  /\ sweep' = sweep \cup {s}
  /\ UNCHANGED <<store, transcripts, owners, kicks, waits, known, acks, queue, troubles>>

\* The socket closes.  Requests and events still in transit may be lost.
Disconnect(s) ==
  /\ conn[s] # 0
  /\ IF worker[s] = conn[s] THEN Trouble ELSE UNCHANGED troubles
  /\ conn' = [conn EXCEPT ![s] = 0]
  /\ wire' = [wire EXCEPT ![s] = {}]
  /\ \E kept \in SUBSET frames[s] : frames' = [frames EXCEPT ![s] = kept]
  /\ UNCHANGED <<store, transcripts, owners, turns, inFlight, known, acks, queue>>

(* Actor lifecycles, as far as messages depend on them. *)

\* #launchActor spawns the worker; session_start reads the delivered ids back from the
\* canonical transcript.
Launch(s) ==
  /\ life[s] = "starting" /\ worker[s] = 0 /\ Available(s)
  /\ worker' = [worker EXCEPT ![s] = gen[s]]
  /\ known' = [known EXCEPT ![s] = DeliveredIds(s)]
  /\ UNCHANGED <<store, transcripts, links, turns, deletions, closing, wire, frames, acks,
                 queue, troubles>>

\* #launchActor fails before there is a worker: no exit, hence no receipt.
LaunchFails(s) ==
  /\ Trouble
  /\ life[s] = "starting" /\ worker[s] = 0 /\ Available(s)
  /\ life' = [life EXCEPT ![s] = "error"]
  /\ UNCHANGED <<transcripts, routing, actor, msg, gen, wire>>

\* markActorStarted, then #retryQueuedMessages for what earlier generations left.
BecomeResident(s) ==
  /\ life[s] = "starting" /\ worker[s] = gen[s] /\ closing[s] = "none" /\ Available(s)
  /\ life' = [life EXCEPT ![s] = "resident"]
  /\ RetryQueued(s)
  /\ UNCHANGED <<transcripts, owners, links, actor, msg, gen, waits, wire, troubles>>

\* Inactivity or eviction: #isActorOwnIdle, with hasPendingSessionWork false, then
\* #stopActor "passivated".
Passivate(s) ==
  /\ Trouble
  /\ life[s] = "resident" /\ worker[s] = gen[s] /\ ~Deleting(s)
  /\ PendingTo(s) = {} /\ TailFree(s)
  /\ closing' = [closing EXCEPT ![s] = "passivated"]
  /\ UNCHANGED <<store, transcripts, links, turns, actor, deletions, worker, wire>>

\* stop_child, stop_session: #stopActor "stopped", with or without a worker.
Stop(s) ==
  /\ Trouble
  /\ Available(s) /\ TailFree(s)
  /\ IF worker[s] # 0
     THEN closing' = [closing EXCEPT ![s] = "stopped"] /\ UNCHANGED life
     ELSE /\ life[s] # "stopped" /\ life' = [life EXCEPT ![s] = "stopped"]
          /\ UNCHANGED closing
  /\ UNCHANGED <<transcripts, links, turns, actor, msg, gen, deletions, worker, wire>>

\* revive_child and every other explicit start.
ReviveSession(s) ==
  /\ Startable(s) /\ Revive(s)
  /\ UNCHANGED <<transcripts, routing, actor, msg, wire, troubles>>

\* #onActorExit: markActorLifecycle with the expected lifecycle, or "error" and the
\* parent's receipt; the worker's memory is gone, its socket may outlive it.
WorkerExit(s) ==
  /\ worker[s] # 0
  /\ IF closing[s] = "none" THEN Trouble ELSE UNCHANGED troubles
  /\ LET end == IF closing[s] = "none" THEN "error" ELSE closing[s]
         rows == IF end = "error" THEN WithReceipt(s, worker[s]) ELSE msg
         lives == [life EXCEPT ![s] = end]
     IN /\ life' = lives /\ msg' = rows
        /\ kicks' = IF end = "error" THEN kicks \cup (RetryableReceipts(rows, lives) \ waits)
                    ELSE kicks
  /\ worker' = [worker EXCEPT ![s] = 0] /\ closing' = [closing EXCEPT ![s] = "none"]
  /\ frames' = [frames EXCEPT ![s] = {}] /\ known' = [known EXCEPT ![s] = {}]
  /\ acks' = [acks EXCEPT ![s] = {}] /\ queue' = [queue EXCEPT ![s] = {}]
  /\ UNCHANGED <<transcripts, links, gen, deletions, sweep, waits, wire>>

\* #deleteSessionTree up to its first await: fence the subtree, then stop its actors.
BeginDelete(r) ==
  /\ Trouble
  /\ life[r] # "deleted" /\ \A s \in Subtree[r] : ~Deleting(s)
  /\ deletions' = deletions \cup {r}
  /\ closing' = [s \in Sessions |-> IF s \in Subtree[r] /\ worker[s] # 0
                                    THEN "stopped" ELSE closing[s]]
  /\ life' = [s \in Sessions |-> IF s \in Subtree[r] /\ worker[s] = 0 /\ life[s] # "deleted"
                                 THEN "stopped" ELSE life[s]]
  /\ UNCHANGED <<transcripts, links, turns, actor, msg, gen, worker, wire>>

\* deleteSession commits once no worker of the subtree runs; #clearSessionRouting ends
\* the connections and the fence is released.
CommitDelete(r) ==
  /\ r \in deletions
  /\ \A s \in Subtree[r] : worker[s] = 0
  /\ \A i \in waits : msg[i].to \notin Subtree[r]
  /\ msg' = Terminalize(Subtree[r])
  /\ life' = [s \in Sessions |-> IF s \in Subtree[r] THEN "deleted" ELSE life[s]]
  /\ deletions' = deletions \ {r}
  /\ UNCHANGED <<transcripts, links, turns, actor, gen, worker, closing, wire, troubles>>

\* A worker that could not be stopped: the deletion is not committed.
AbandonDelete(r) ==
  /\ r \in deletions /\ \E s \in Subtree[r] : worker[s] # 0
  /\ deletions' = deletions \ {r}
  /\ UNCHANGED <<store, transcripts, links, turns, actor, worker, closing, wire,
                 troubles>>

\* start() after the rows were left at lives: reconcileAfterDaemonStart gives every
\* session still starting or resident a new generation; pending receipts are retried.
StartDaemon(lives) ==
  LET previous == {s \in Sessions : lives[s] \in {"starting", "resident"}}
      started == [s \in Sessions |-> IF s \in previous THEN "starting" ELSE lives[s]]
  IN
  /\ Trouble
  /\ \A s \in previous : gen[s] < MaxGen
  /\ life' = started
  /\ gen' = [s \in Sessions |-> IF s \in previous THEN gen[s] + 1 ELSE gen[s]]
  /\ kicks' = RetryableReceipts(msg, started) /\ waits' = {}
  /\ deletions' = {} /\ sweep' = {}
  /\ worker' = [s \in Sessions |-> 0] /\ conn' = [s \in Sessions |-> 0]
  /\ closing' = [s \in Sessions |-> "none"]
  /\ inFlight' = [s \in Sessions |-> {}] /\ wire' = [s \in Sessions |-> {}]
  /\ frames' = [s \in Sessions |-> {}] /\ known' = [s \in Sessions |-> {}]
  /\ acks' = [s \in Sessions |-> {}] /\ queue' = [s \in Sessions |-> {}]
  /\ UNCHANGED <<transcripts, msg>>

\* The daemon dies; its workers die with it or are terminated by the next start().
Crash ==
  /\ \E s \in Sessions : worker[s] # 0 \/ kicks \cup waits # {} \/ deletions # {}
  /\ StartDaemon(life)

\* stop() passivates every worker, whatever it still has to do, and start() follows.
StopAndStart ==
  /\ \E s \in Sessions : worker[s] # 0
  /\ StartDaemon([s \in Sessions |->
       IF worker[s] # 0 THEN "passivated" ELSE life[s]])

-----------------------------------------------------------------------------
Next ==
  \/ \E s, t \in Sessions, m \in Messages : SendMessage(s, t, m)
  \/ \E s \in Sessions, i \in Ids :
       \/ JournalOutgoing(s, i) \/ RecordSenderEntry(s, i)
       \/ ReceiveMessage(s, i) \/ CommitMessage(s, i) \/ AckMessage(s, i)
  \/ \E i \in Ids : KickBegin(i) \/ KickRetire(i) \/ KickRestart(i)
                   \/ KickDeliver(i) \/ KickAbandon(i)
  \/ \E s \in Sessions :
       \/ DeliverPending(s) \/ RunSettled(s) \/ FlushAcknowledgements(s)
       \/ Register(s) \/ Disconnect(s)
       \/ Launch(s) \/ LaunchFails(s) \/ BecomeResident(s) \/ Passivate(s) \/ Stop(s)
       \/ ReviveSession(s) \/ WorkerExit(s)
       \/ BeginDelete(s) \/ CommitDelete(s) \/ AbandonDelete(s)
  \/ RetryReceipts \/ Crash \/ StopAndStart

Spec == Init /\ [][Next]_vars

\* Each started worker, registered socket, queued frame and request is handled; the
\* coordinator reaches a checkpoint; the notification tick keeps firing; a readiness
\* attempt that recurs is not pre-empted for ever by its own timeout.
HandlersAreFair ==
  /\ \A s \in Sessions :
       /\ WF_vars(BecomeResident(s)) /\ WF_vars(Register(s))
       /\ WF_vars(closing[s] # "none" /\ WorkerExit(s))
       /\ WF_vars(DeliverPending(s)) /\ WF_vars(FlushAcknowledgements(s))
       /\ WF_vars(CommitDelete(s) \/ AbandonDelete(s))
  /\ \A s \in Sessions, i \in Ids :
       /\ WF_vars(JournalOutgoing(s, i)) /\ WF_vars(RecordSenderEntry(s, i))
       /\ WF_vars(ReceiveMessage(s, i)) /\ WF_vars(CommitMessage(s, i))
       /\ WF_vars(AckMessage(s, i))
  /\ \A i \in Ids : SF_vars(KickBegin(i)) /\ WF_vars(KickDeliver(i))
                   /\ WF_vars(KickRestart(i))
  /\ WF_vars(RetryReceipts)

Fairness == HandlersAreFair /\ \A s \in Sessions : WF_vars(Launch(s))

FairSpec == Spec /\ Fairness

-----------------------------------------------------------------------------
(* Properties. *)

Row == [state : States, from : Sessions \cup {NoSession}, to : Sessions \cup {NoSession},
        entry : BOOLEAN, attempts : 0..MaxAttempts]
Frames == {"history", "message"} \X Ids
Requests == {"entry", "ack"} \X Ids

\* Every table column, transcript count and piece of routing state keeps its type, and
\* no message uses more delivery attempts than markMessageDelivered allows.
TypeOK ==
  /\ msg \in [Ids -> Row]
  /\ journal \in [Ids -> Nat] /\ incorporated \in [Ids -> Nat]
  /\ life \in [Sessions -> Lifecycles] /\ gen \in [Sessions -> 1..MaxGen]
  /\ deletions \subseteq Sessions
  /\ worker \in [Sessions -> 0..MaxGen]
  /\ closing \in [Sessions -> {"none", "passivated", "stopped"}]
  /\ conn \in [Sessions -> 0..MaxGen]
  /\ inFlight \in [Sessions -> SUBSET Ids]
  /\ sweep \subseteq Sessions /\ kicks \subseteq Ids /\ waits \subseteq Ids
  /\ wire \in [Sessions -> SUBSET Requests] /\ frames \in [Sessions -> SUBSET Frames]
  /\ known \in [Sessions -> SUBSET Ids] /\ acks \in [Sessions -> SUBSET Ids]
  /\ queue \in [Sessions -> SUBSET Ids]
  /\ troubles \in 0..MaxTroubles

\* A message enters its recipient's transcript at most once, whatever is redelivered by
\* reconnections, settlements, retries and new generations: knownDeliveredIds is
\* rebuilt from the transcript before any frame is handled.
IncorporatedAtMostOnce == \A i \in Ids : incorporated[i] <= 1

\* acknowledgeMessage is reached only for a message the canonical transcript holds, so
\* no acknowledged message can be lost with the recipient's memory.
AcknowledgedOnlyIncorporated ==
  \A i \in Ids : msg[i].state = "acknowledged" => incorporated[i] > 0

\* A family message is deliverable only after its sender's transcript holds exactly one
\* "to" entry for it, and historyEntry never meets a duplicate.
JournaledBeforeQueued ==
  \A m \in Messages :
    /\ journal[m] <= 1
    /\ msg[m].state \in Pending \cup {"acknowledged"} => msg[m].entry /\ journal[m] = 1

\* diagnose() finds neither message_targets_deleted_session nor
\* message_awaits_deleted_sender, in whatever order sends and deletions interleave.
NoPendingToDeleted ==
  \A i \in Ids : msg[i].state # "none" =>
    /\ life[msg[i].to] = "deleted" => msg[i].state \in Terminal
    /\ life[msg[i].from] = "deleted" => msg[i].state # "accepted"

\* acknowledged and rejected are final, and nothing enters a transcript after it was
\* rejected: a late acknowledgement, entry report or frame cannot undo a deletion.
TerminalIsFinal ==
  [][\A i \in Ids : msg[i].state \in Terminal =>
       msg'[i].state = msg[i].state /\ incorporated'[i] = incorporated[i]]_vars

\* The promise made to senders and recipients, whatever the routing does.
Phase(i) == CASE msg[i].state = "none" -> "unsent"
              [] msg[i].state = "accepted" -> "accepted"
              [] msg[i].state \in Pending -> "owed"
              [] msg[i].state = "acknowledged" -> "done"
              [] msg[i].state = "rejected" -> "rejected"
Mailbox == INSTANCE FamilyMailbox WITH
  phase <- [i \in Ids |-> Phase(i)], entered <- incorporated,
  ends <- [i \in Ids |-> <<msg[i].from, msg[i].to>>],
  gone <- {s \in Sessions : life[s] = "deleted"}

\* Every behaviour of the supervisor, the actors and their failures is one the abstract
\* mailbox allows.
ImplementsMailbox == Mailbox!Spec

\* A report is not stranded while its recipient can be woken: the tick retries it until
\* it is settled, unless the recipient is stopped, in error, deleted, or the model's
\* generation bound is reached.
ReportsReachRecipient ==
  \A i \in Receipts :
    []<>(\/ msg[i].state \notin Pending
         \/ life[msg[i].to] \in {"stopped", "error", "deleted"}
         \/ gen[msg[i].to] = MaxGen)
=============================================================================
