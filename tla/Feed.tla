-------------------------------- MODULE Feed --------------------------------
(***************************************************************************)
(* What a client sees of one root session.  The session's worker emits     *)
(* events over a pipe; the supervisor numbers and broadcasts them, keeps   *)
(* the live rows that the transcript does not have yet, and projects the   *)
(* root-output feed that a client resumes from a cursor.  The client       *)
(* (client.mjs) reconnects after a lost connection.  On each connection    *)
(* its user subscribes to the feed from where it was; or it subscribes to  *)
(* the session's events and asks for the visible messages, as a program    *)
(* that draws the conversation does.                                       *)
(***************************************************************************)
EXTENDS Naturals, Sequences

CONSTANTS
  MaxMessages, \* bound: messages that are said
  MaxDeltas,   \* bound: deltas of a message
  MaxTurns,    \* bound: runs of the agent
  MaxGen,      \* bound: workers of the session
  MaxPipe,     \* bound: events between the worker and the supervisor
  MaxRing,     \* frames that the feed keeps for replay
  MaxQueue,    \* frames that may wait for a client
  MaxTroubles  \* bound: crashes, timeouts, refusals

ASSUME FeedAssumption ==
  /\ MaxMessages \in Nat /\ MaxDeltas \in Nat \ {0} /\ MaxTurns \in Nat /\ MaxGen \in Nat /\ MaxPipe \in Nat \ {0}
  /\ MaxRing \in Nat /\ MaxQueue \in Nat \ {0} /\ MaxTroubles \in Nat

Messages == 1..MaxMessages
Slots == 1..2

VARIABLES
  worker,  \* the session's worker: "off", "idle", "busy", or "dead" before its exit is noticed
  gen,     \* generation of the last worker
  turns,   \* runs so far
  said,    \* deltas of each message, as the worker produced them
  open,    \* message that the worker is saying, 0 for none
  over,    \* its text has ended
  file,    \* messages that the transcript has
  pipe,    \* events on their way to the supervisor
  up,      \* the supervisor runs
  epoch,   \* generation of the feed: one for each supervisor
  rows,    \* live rows of the worker's record
  turn,    \* generation of the open turn of the feed, 0 for none
  active,  \* somebody has subscribed to the feed
  seq,     \* last number of the feed
  ring,    \* frames kept for replay
  reads,   \* transcript reads for visible messages
  conn,    \* the client's connection, as the supervisor has it
  asked,   \* the client's request that is on its way
  wire,    \* frames on their way to the client
  client,  \* the client's state, and its user's progress on the connection
  follow,  \* the user's place in the feed
  wants,   \* what the user is after: "feed" or "view"
  view,    \* the rows that the user shows, and the generation of its snapshot
  troubles

workerVars == <<worker, gen, turns, said, open, over, file>>
serverVars == <<rows, turn, active, seq, ring>>
clientVars == <<client, wants, follow, view>>
feedVars == <<workerVars, pipe, up, epoch, serverVars, reads, conn, asked, wire, clientVars, troubles>>

NoRow == [text |-> 0, done |-> FALSE]
NoRows == [m \in Messages |-> NoRow]
NoRead == [phase |-> "none", page |-> {}, mine |-> FALSE]
NoConn == [open |-> FALSE, client |-> FALSE, feed |-> FALSE, watching |-> FALSE]
Online == {"registering", "subscribing", "attaching", "reading", "live"}
Spend == troubles < MaxTroubles /\ troubles' = troubles + 1

FeedInit ==
  /\ worker = "idle" /\ gen = 1 /\ turns = 0 /\ said = [m \in Messages |-> 0] /\ open = 0 /\ over = FALSE
  /\ file = {} /\ pipe = <<>>
  /\ up = TRUE /\ epoch = 1 /\ rows = NoRows /\ turn = 0 /\ active = FALSE /\ seq = 0 /\ ring = <<>>
  /\ reads = [k \in Slots |-> NoRead]
  /\ conn = NoConn /\ asked = "none" /\ wire = <<>>
  /\ client \in {"offline", "stopped"} /\ wants \in {"feed", "view"} /\ follow = [epoch |-> 0, seq |-> 0, open |-> 0, torn |-> FALSE]
  /\ view = [rows |-> NoRows, gen |-> 0]
  /\ troubles = 0

-----------------------------------------------------------------------------
(* The worker: the order in which it says, ends and commits. *)

Event(type, m) == [type |-> type, message |-> m]
Emit(event) == Len(pipe) < MaxPipe /\ pipe' = Append(pipe, event)
WorkerOnly == UNCHANGED <<gen, up, epoch, serverVars, reads, conn, asked, wire, clientVars, troubles>>

AgentStart ==
  /\ worker = "idle" /\ worker' = "busy" /\ Emit(Event("agent_start", 0))
  /\ turns < MaxTurns /\ turns' = turns + 1
  /\ UNCHANGED <<said, open, over, file>> /\ WorkerOnly

\* A delta of the message, or the first one of the next message.
Say(m) ==
  /\ worker = "busy" /\ ~over /\ open \in {0, m}
  /\ open = 0 => said[m] = 0 /\ \A k \in Messages : k < m => said[k] > 0
  /\ said[m] < MaxDeltas
  /\ said' = [said EXCEPT ![m] = @ + 1] /\ open' = m /\ Emit(Event("text_delta", m))
  /\ UNCHANGED <<worker, turns, over, file>> /\ WorkerOnly

TextEnd ==
  /\ worker = "busy" /\ open # 0 /\ ~over /\ over' = TRUE /\ Emit(Event("text_end", open))
  /\ UNCHANGED <<worker, turns, said, open, file>> /\ WorkerOnly

\* The transcript has the message before its message_end is published.
Commit ==
  /\ worker = "busy" /\ open # 0 /\ over /\ file' = file \cup {open} /\ Emit(Event("message_end", open))
  /\ open' = 0 /\ over' = FALSE
  /\ UNCHANGED <<worker, turns, said>> /\ WorkerOnly

AgentSettled ==
  /\ worker = "busy" /\ open = 0 /\ worker' = "idle" /\ Emit(Event("agent_settled", 0))
  /\ UNCHANGED <<turns, said, open, over, file>> /\ WorkerOnly

\* The process ends; what it was saying is lost.
WorkerDies ==
  /\ worker \in {"idle", "busy"} /\ Spend
  /\ worker' = "dead" /\ open' = 0 /\ over' = FALSE
  /\ UNCHANGED <<gen, turns, said, file, pipe, up, epoch, serverVars, reads, conn, asked, wire, clientVars>>

-----------------------------------------------------------------------------
(* The supervisor's side of a connection. *)

\* #write: the frame that exceeds what may wait destroys the socket.
Fits(frames) == Len(wire) + Len(frames) <= MaxQueue
Writes(frames) ==
  /\ wire' = IF Fits(frames) THEN wire \o frames ELSE SubSeq(wire \o frames, 1, MaxQueue)
  /\ conn' = IF Fits(frames) THEN conn ELSE NoConn

\* #publish: the number is the next, the oldest frames leave the ring.
Numbered(payloads) == [i \in DOMAIN payloads |-> [seq |-> seq + i, payload |-> payloads[i]]]
Kept(frames) == SubSeq(frames, IF Len(frames) > MaxRing THEN Len(frames) - MaxRing + 1 ELSE 1, Len(frames))
Published(payloads) == IF active THEN Numbered(payloads) ELSE <<>>
Frame(kind, f) == [kind |-> kind, epoch |-> epoch, seq |-> f.seq, payload |-> f.payload]
RootFrames(frames) == IF conn.feed THEN [i \in DOMAIN frames |-> Frame("root_output", frames[i])] ELSE <<>>
Publishes(frames) == seq' = seq + Len(frames) /\ ring' = Kept(ring \o frames)

\* accept: what an event of the open turn adds to the feed.
Payload(type) == [type |-> type, turn |-> gen]
Terminal(g) == [type |-> "turn_terminal", turn |-> g]
Accepted(event) ==
  IF event.type = "agent_start"
  THEN (IF turn # 0 THEN <<Terminal(turn)>> ELSE <<>>) \o <<Payload("turn_start")>>
  ELSE IF turn # gen THEN <<>>
  ELSE CASE event.type = "text_delta"    -> <<Payload("text_delta")>>
         [] event.type = "message_end"   -> <<Payload("assistant_terminal")>>
         [] event.type = "agent_settled" -> <<Terminal(gen)>>
         [] OTHER                        -> <<>>

TurnAfter(event) ==
  CASE event.type = "agent_start"   -> gen
    [] event.type = "agent_settled" -> 0
    [] OTHER                        -> turn

\* LiveConversation.accept: the whole text comes with text_end and with message_end.
RowsAfter(event) ==
  CASE event.type = "text_delta" -> [rows EXCEPT ![event.message].text = @ + 1]
    [] event.type \in {"text_end", "message_end"} ->
         [rows EXCEPT ![event.message] = [text |-> said[event.message], done |-> TRUE]]
    [] event.type = "agent_settled" -> [m \in Messages |-> [rows[m] EXCEPT !.done = rows[m].text > 0]]
    [] OTHER -> rows

ActorFrame(event) ==
  [kind |-> "actor_event", gen |-> gen, type |-> event.type, message |-> event.message,
   text |-> IF event.message = 0 THEN 0 ELSE said[event.message]]

\* #broadcast: what goes to the connections that watch the session.
ActorFrames(event) == IF conn.watching THEN <<ActorFrame(event)>> ELSE <<>>

\* #onActorEvent, for the record that the session has.
OnActorEvent ==
  /\ up /\ pipe # <<>> /\ pipe' = Tail(pipe)
  /\ \E frames \in {Published(Accepted(Head(pipe)))} :
       /\ Publishes(frames)
       /\ Writes(RootFrames(frames) \o ActorFrames(Head(pipe)))
  /\ rows' = RowsAfter(Head(pipe)) /\ turn' = TurnAfter(Head(pipe))
  /\ UNCHANGED <<workerVars, up, epoch, active, reads, asked, clientVars, troubles>>

FailSession == IF turn = gen THEN <<Terminal(gen)>> ELSE <<>>

\* #onActorExit: events that are still in the pipe find their record replaced.
OnActorExit ==
  /\ up /\ worker = "dead" /\ worker' = "off" /\ pipe' = <<>>
  /\ \E frames \in {Published(FailSession)} : Publishes(frames) /\ Writes(RootFrames(frames))
  /\ turn' = 0 /\ rows' = NoRows
  /\ UNCHANGED <<gen, turns, said, open, over, file, up, epoch, active, reads, asked, clientVars, troubles>>

\* A worker is launched once the last one's exit is noticed.  No transcript read outlasts that.
LaunchActor ==
  /\ worker = "off" /\ up /\ gen < MaxGen /\ \A k \in Slots : reads[k].phase # "read"
  /\ worker' = "idle" /\ gen' = gen + 1
  /\ UNCHANGED <<turns, said, open, over, file, pipe, up, epoch, serverVars, reads, conn, asked, wire, clientVars, troubles>>

-----------------------------------------------------------------------------
(* Requests. *)

\* #handleFrame takes the next frame; what it began may be answered later.
Handles(request) == up /\ conn.open /\ asked = request /\ asked' = "none"
Other == UNCHANGED <<workerVars, pipe, up, epoch, wants, follow, view, troubles>>

HandleRegister ==
  /\ Handles("register")
  /\ wire' = Append(wire, [kind |-> "registered"]) /\ conn' = [conn EXCEPT !.client = TRUE]
  /\ UNCHANGED <<serverVars, reads, client>> /\ Other

\* The cursor's frames are gone from the ring; as if the oldest one kept could be missed.
OverrunByOne(after) == ring # <<>> /\ after + 1 < ring[1].seq - 1
Overrun(after) == IF ring = <<>> THEN after < seq ELSE after < ring[1].seq - 1

\* The ring's frames behind a cursor; the ring is in order.
Missed(after) ==
  IF ring = <<>> \/ after >= seq THEN <<>>
  ELSE SubSeq(ring, IF after < ring[1].seq THEN 1 ELSE after + 2 - ring[1].seq, Len(ring))

\* subscribe: a cursor that cannot be resumed is answered with a gap.
Gap == follow.epoch # 0 /\ (follow.epoch # epoch \/ follow.seq > seq \/ Overrun(follow.seq))
HandleSubscribe ==
  /\ Handles("subscribe")
  /\ active' = TRUE /\ conn' = [conn EXCEPT !.feed = TRUE]
  /\ wire' = Append(wire, [kind |-> "subscribed", epoch |-> epoch, seq |-> seq, gap |-> Gap,
                           events |-> IF Gap \/ follow.epoch = 0 THEN <<>> ELSE Missed(follow.seq)])
  /\ UNCHANGED <<rows, turn, seq, ring, reads, client>> /\ Other

\* subscribe_session, passive: the session's events follow.
HandleWatch ==
  /\ Handles("watch")
  /\ wire' = Append(wire, [kind |-> "watching"]) /\ conn' = [conn EXCEPT !.watching = TRUE]
  /\ UNCHANGED <<serverVars, reads, client>> /\ Other

Free(k) == reads[k].phase = "none" /\ \A j \in Slots : j < k => reads[j].phase # "none"

\* get_visible_messages begins.
HandleRead(k) ==
  /\ Handles("read") /\ Free(k)
  /\ reads' = [reads EXCEPT ![k] = [phase |-> "waiting", page |-> {}, mine |-> TRUE]]
  /\ UNCHANGED <<serverVars, conn, wire, client>> /\ Other

\* Another client asks; of no matter to the feed.
OtherAsks(k) ==
  /\ up /\ wants = "view" /\ Free(k)
  /\ \A j \in Slots : reads[j].phase = "none" \/ reads[j].mine
  /\ reads' = [reads EXCEPT ![k].phase = "waiting"]
  /\ UNCHANGED <<serverVars, conn, asked, wire, client>> /\ Other

\* The reads of one transcript follow one another; as if they overlapped.
AnyTime(k) == TRUE
InTurn(k) == \A j \in Slots : reads[j].phase # "read"
ReadTranscript(k) ==
  /\ up /\ reads[k].phase = "waiting" /\ InTurn(k)
  /\ reads' = [reads EXCEPT ![k].phase = "read", ![k].page = file]
  /\ UNCHANGED <<serverVars, conn, asked, wire, client>> /\ Other

\* The page, and the live rows that it does not have.
Visible(page) ==
  [m \in Messages |-> IF m \in page THEN [text |-> said[m], done |-> TRUE] ELSE rows[m]]

\* reconcile: rows that are complete and on the page are dropped.
Reconciled(page) == [m \in Messages |-> IF rows[m].done /\ m \in page THEN NoRow ELSE rows[m]]

AnswerRead(k) ==
  /\ up /\ reads[k].phase = "read"
  /\ IF reads[k].mine /\ conn.open
     THEN Writes(<<[kind |-> "messages", gen |-> gen, rows |-> Visible(reads[k].page)]>>)
     ELSE UNCHANGED <<conn, wire>>
  /\ rows' = Reconciled(reads[k].page)
  /\ reads' = [reads EXCEPT ![k] = NoRead]
  /\ UNCHANGED <<turn, active, seq, ring, asked, client>> /\ Other

-----------------------------------------------------------------------------
(* The client. *)

ServerKeeps == UNCHANGED <<workerVars, pipe, up, epoch, serverVars, wants>>
Disowned == [k \in Slots |-> [reads[k] EXCEPT !.mine = FALSE]]
Hangs == conn' = NoConn /\ wire' = <<>> /\ asked' = "none" /\ reads' = Disowned

\* The retry timer fires.
Dial ==
  /\ client = "offline" /\ client' = "connecting"
  /\ ServerKeeps /\ UNCHANGED <<reads, conn, asked, wire, follow, view, troubles>>

\* #connectOnce: the registration is the first request on a connection.
Connect ==
  /\ client = "connecting"
  /\ IF up THEN client' = "registering" /\ conn' = [NoConn EXCEPT !.open = TRUE] /\ asked' = "register"
     ELSE client' = "offline" /\ UNCHANGED <<conn, asked>>
  /\ ServerKeeps /\ UNCHANGED <<reads, wire, follow, view, troubles>>

\* #onClose: pending requests are rejected and the retry timer is set; as if it were not when
\* a registration was cut short.
OfflineForGood(phase) == IF phase = "registering" THEN "gone" ELSE "offline"
AfterClose(phase) == "offline"

\* The supervisor has closed the connection.
OnClose ==
  /\ client \in Online /\ ~conn.open
  /\ client' = AfterClose(client) /\ Hangs
  /\ ServerKeeps /\ UNCHANGED <<follow, view, troubles>>

\* A request or a heartbeat is not answered in time: the client destroys the socket.
RequestTimesOut ==
  /\ client \in Online /\ conn.open /\ Spend
  /\ client' = AfterClose(client) /\ Hangs
  /\ ServerKeeps /\ UNCHANGED <<follow, view>>

\* The supervisor refuses the registration, or the frame itself.
Refused ==
  /\ client = "registering" /\ conn.open /\ asked = "register" /\ Spend
  /\ client' = "rejected" /\ Hangs
  /\ ServerKeeps /\ UNCHANGED <<follow, view>>

StopClient ==
  /\ client \notin {"stopped", "rejected"} /\ Spend
  /\ client' = "stopped" /\ Hangs
  /\ ServerKeeps /\ UNCHANGED <<follow, view>>

(* The user of the client: external. *)

\* Frames of the feed, each the next number; the last one of a turn's start or end tells the
\* turn that is open.
OpenAfter(payload) == IF payload.type = "turn_start" THEN payload.turn ELSE 0
IsLastTurn(frames, i) ==
  /\ frames[i].payload.type \in {"turn_start", "turn_terminal"}
  /\ \A j \in DOMAIN frames : i < j => frames[j].payload.type \notin {"turn_start", "turn_terminal"}
Follow(f, frames) ==
  [epoch |-> f.epoch, seq |-> IF frames = <<>> THEN f.seq ELSE frames[Len(frames)].seq,
   torn |-> f.torn \/ \E i \in DOMAIN frames : frames[i].seq # f.seq + i,
   open |-> IF \E i \in DOMAIN frames : IsLastTurn(frames, i)
            THEN OpenAfter(frames[CHOOSE i \in DOMAIN frames : IsLastTurn(frames, i)].payload) ELSE f.open]

\* Rows that are complete stay as they are; the end of a text brings all of it.
Show(shown, frame) ==
  CASE frame.type = "text_delta" /\ ~shown[frame.message].done -> [shown EXCEPT ![frame.message].text = @ + 1]
    [] frame.type \in {"text_end", "message_end"} ->
         [shown EXCEPT ![frame.message] = [text |-> frame.text, done |-> TRUE]]
    [] OTHER -> shown

Takes(kind) == client \in Online /\ wire # <<>> /\ Head(wire).kind = kind /\ wire' = Tail(wire)
Asks(next, request) == client' = next /\ asked' = request
UserOnly == ServerKeeps /\ UNCHANGED <<reads, conn, troubles>>

OnRegistered ==
  /\ Takes("registered")
  /\ IF wants = "feed" THEN Asks("subscribing", "subscribe") ELSE Asks("attaching", "watch")
  /\ UNCHANGED <<follow, view>> /\ UserOnly

\* A gap, or no cursor: the user starts anew from the feed's present end.
OnSubscribed ==
  /\ Takes("subscribed") /\ Asks("live", "none")
  /\ \E answer \in {Head(wire)} :
       follow' = IF answer.gap \/ follow.epoch = 0
                 THEN [epoch |-> answer.epoch, seq |-> answer.seq, open |-> 0, torn |-> follow.torn]
                 ELSE Follow(follow, answer.events)
  /\ UNCHANGED view /\ UserOnly

OnWatching ==
  /\ Takes("watching") /\ Asks("reading", "read")
  /\ UNCHANGED <<follow, view>> /\ UserOnly

OnMessages ==
  /\ Takes("messages") /\ client' = "live"
  /\ view' = [rows |-> Head(wire).rows, gen |-> Head(wire).gen]
  /\ UNCHANGED <<asked, follow>> /\ UserOnly

OnRootOutput ==
  /\ Takes("root_output") /\ follow' = Follow(follow, <<Head(wire)>>)
  /\ UNCHANGED <<client, asked, view>> /\ UserOnly

OnActorFrame ==
  /\ Takes("actor_event") /\ view' = [view EXCEPT !.rows = Show(@, Head(wire))]
  /\ UNCHANGED <<client, asked, follow>> /\ UserOnly

Refresh ==
  /\ client = "live" /\ wants = "view" /\ conn.open /\ Asks("reading", "read")
  /\ UNCHANGED <<wire, follow, view>> /\ UserOnly

-----------------------------------------------------------------------------
(* The supervisor ends, with its workers, and is started again. *)

SupervisorEnds ==
  /\ up /\ Spend
  /\ up' = FALSE /\ worker' = "off" /\ open' = 0 /\ over' = FALSE /\ pipe' = <<>>
  /\ rows' = NoRows /\ turn' = 0 /\ active' = FALSE /\ seq' = 0 /\ ring' = <<>>
  /\ reads' = [k \in Slots |-> NoRead] /\ conn' = NoConn
  /\ UNCHANGED <<gen, turns, said, file, epoch, asked, wire, clientVars>>

SupervisorStarts ==
  /\ ~up /\ up' = TRUE /\ epoch' = epoch + 1
  /\ UNCHANGED <<workerVars, pipe, serverVars, reads, conn, asked, wire, clientVars, troubles>>

-----------------------------------------------------------------------------
Speaks == AgentStart \/ (\E m \in Messages : Say(m)) \/ TextEnd \/ Commit \/ AgentSettled

\* What the client goes on with.
Receives ==
  \/ Dial \/ Connect \/ OnClose \/ OnRegistered \/ OnSubscribed \/ OnWatching \/ OnMessages
  \/ OnRootOutput \/ OnActorFrame

FeedNext ==
  \/ Speaks \/ WorkerDies \/ LaunchActor \/ OnActorEvent \/ OnActorExit
  \/ SupervisorEnds \/ SupervisorStarts
  \/ HandleRegister \/ HandleSubscribe \/ HandleWatch
  \/ \E k \in Slots : HandleRead(k) \/ OtherAsks(k) \/ ReadTranscript(k) \/ AnswerRead(k)
  \/ Dial \/ Connect \/ OnClose \/ RequestTimesOut \/ Refused \/ StopClient
  \/ OnRegistered \/ OnSubscribed \/ OnWatching \/ OnMessages \/ OnRootOutput \/ OnActorFrame \/ Refresh

\* Handlers run, timers fire, and reads are served in the order in which they were asked for.
Serves ==
  \/ OnActorEvent \/ OnActorExit \/ SupervisorStarts
  \/ HandleRegister \/ HandleSubscribe \/ HandleWatch \/ \E k \in Slots : HandleRead(k)
FeedFairness ==
  /\ WF_feedVars(Serves) /\ WF_feedVars(Receives)
  /\ \A k \in Slots : SF_feedVars(ReadTranscript(k)) /\ WF_feedVars(AnswerRead(k))

FeedSpec == FeedInit /\ [][FeedNext]_feedVars

-----------------------------------------------------------------------------
(* Properties. *)

CaughtUp == client \in Online /\ conn.open /\ conn.feed /\ wire = <<>>

\* Between the gaps that it is told of, a user gets every frame of the feed once and in order,
\* over however many connections and supervisors; and one who waits for no frame has the last,
\* so that it believes no turn open but the present worker's (subscribe, failSession).
FeedIsExact ==
  /\ ~follow.torn
  /\ CaughtUp => follow.seq = seq /\ follow.epoch = epoch /\ follow.open \in {0, turn}
  /\ turn # 0 => turn = gen /\ worker # "off"

\* A user who has every event shows each message as the worker has it and no other: what is
\* in the transcript, whole, and what is being said, however the reads of the transcript, the
\* commits and the events of the live rows interleave.
Said(m) ==
  IF m \in file THEN [text |-> said[m], done |-> TRUE]
  ELSE IF m = open THEN [text |-> said[m], done |-> over] ELSE NoRow
ViewIsExact ==
  client = "live" /\ wants = "view" /\ conn.open /\ wire = <<>> /\ pipe = <<>> /\ worker \in {"idle", "busy"} /\ view.gen = gen
    => view.rows = [m \in Messages |-> Said(m)]

\* A client that lost its connection, at whatever step, comes back and shows the session,
\* unless it was refused or stopped.
ClientRecovers == []<>(client \in {"live", "rejected", "stopped"})
=============================================================================
