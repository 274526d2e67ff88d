------------------------------- MODULE Stream -------------------------------
(***************************************************************************)
(* One inference attempt, from the provider's frames to the transcript.    *)
(* The adapter of native models (native-provider.mjs) checks the frames    *)
(* and turns them, through the SDK's parser, into events that share one    *)
(* growing message; the planner (actor-stream.mjs) cuts that message into  *)
(* segments, so that a proved asynchronous call can be committed and run   *)
(* while the response goes on; inference() of actor-coordinator.mjs        *)
(* commits the segments, schedules their calls and gives the attempt up    *)
(* when anything fails.  Deltas, usage, identities of messages and texts   *)
(* and the validation of data are left out.                                *)
(***************************************************************************)
EXTENDS Naturals, Sequences, FiniteSets, SequencesExt

CONSTANTS
  Texts, Thoughts, Calls,  \* output items of the response, by provider identity
  Opted,        \* calls of tools the request declared asynchronous
  Retired,      \* items of an earlier response on the connection that may be reused
  MaxBlocks,    \* bound: blocks of the response
  MaxBacklog,   \* bound: events pushed before the coordinator takes them
  MaxTroubles   \* bound: transport failures, aborts, hook edits and failed publications

Items == Texts \cup Thoughts \cup Calls

\* An output item has one type.
ASSUME StreamAssumption ==
  /\ Texts \cap Thoughts = {} /\ (Texts \cup Thoughts) \cap Calls = {}
  /\ Opted \subseteq Calls /\ Retired \subseteq Items
  /\ {MaxBlocks, MaxBacklog, MaxTroubles} \subseteq Nat

VARIABLES
  native,     \* useNative: the adapter of native models checks the frames
  net,        \* adapter: where the request stands
  out,        \* the shared message of adapter and events: its content
  against,    \* history: complete items the terminal frame contradicts
  events,     \* events pushed and not consumed, each a type and a content index
  planner,    \* createActorStreamPlanner: its slots, proofs, cursor and outcome
  plan,       \* planner: pending, the segment that waits for its commit
  co,         \* inference(): where it stands
  log,        \* transcript: committed segments and amendments
  unstarted,  \* attempt.unstarted: admitted calls not yet scheduled
  tasks,      \* scheduled calls, in the order of toolTail
  ran,        \* history: calls whose tool was executed
  view,       \* client: committed blocks and the live message it shows
  aborted,    \* the run's controller is aborted
  troubles

vars == <<native, net, out, against, events, planner, plan, co, log, unstarted, tasks, ran,
          view, aborted, troubles>>
provider == <<native, net, out, against>>
actor == <<planner, plan, co, log, unstarted, tasks, view>>

\* A block: call arguments, text and summaries have the body 0 while they are incomplete, 1 or
\* 2 as the provider has it, 3 as a hook has it; cipher is a thought's encrypted content.
Block(i, body) == [id |-> i, body |-> body, cipher |-> FALSE, async |-> FALSE]
NoSlot == [st |-> "none", block |-> <<>>]
NoPlan == [kind |-> "none", from |-> 0, to |-> 0, reason |-> "none", content |-> <<>>, rest |-> 0]

IsCall(b) == b.id \in Calls
Executable(reason) == reason \in {"stop", "toolUse"}
Ids(s) == {s[k].id : k \in DOMAIN s}

\* The places in S, in ascending order.
InOrder(S) == [n \in 1..Cardinality(S) |-> CHOOSE p \in S : Cardinality({q \in S : q <= p}) = n]
Trouble == troubles < MaxTroubles /\ troubles' = troubles + 1

-----------------------------------------------------------------------------
Init ==
  /\ native \in BOOLEAN
  /\ net \in [at : {"connect"}, ws : {TRUE}, tries : {0}, heard : {FALSE}, reused : BOOLEAN]
  /\ native \/ ~net.reused
  /\ out = <<>> /\ against = {} /\ events = <<>>
  /\ planner = [started |-> FALSE, terminal |-> FALSE, cursor |-> 0, proofs |-> {},
                slots |-> [k \in 1..MaxBlocks |-> NoSlot]]
  /\ plan = NoPlan
  /\ co = [at |-> "wait", todo |-> <<>>, failed |-> FALSE, committed |-> FALSE]
  /\ log = <<>> /\ unstarted = <<>> /\ tasks = <<>> /\ ran = <<>>
  /\ view = [kept |-> 0, from |-> 0, to |-> 0]
  /\ aborted = FALSE /\ troubles = 0

(* The adapter: connection and attempts. *)

Event(type, k) == [type |-> type, index |-> k]

\* The catch and finally of stream(): the last event, with what the message holds by now.
Failed(evs) == Append(evs, Event("error", 0))
EndsInFailure ==
  /\ net' = [net EXCEPT !.at = "over"] /\ events' = Failed(events)
  /\ UNCHANGED <<native, out, against, actor, ran, aborted>>

\* A websocket, kept or new, or a request whose response body is the stream; other models go
\* through the SDK, which starts its events at once.
Connect ==
  /\ net.at = "connect" /\ ~aborted
  /\ net' = [net EXCEPT !.at = "open", !.ws = @ /\ native]
  /\ events' = IF net'.ws THEN events ELSE Append(events, Event("start", 0))
  /\ UNCHANGED <<native, out, against, actor, ran, aborted, troubles>>

\* No websocket: transport "auto" falls back to one request.  That one fails for good.
ConnectFails ==
  /\ net.at = "connect" /\ Trouble
  /\ IF native /\ net.ws
     THEN /\ net' = [net EXCEPT !.ws = FALSE, !.reused = FALSE]
          /\ UNCHANGED <<native, out, against, events, actor, ran, aborted>>
     ELSE EndsInFailure

\* An error before anything of the response was heard that says the request was not taken:
\* once, it is sent again on a new connection.
Resendable == native /\ net.ws /\ ~net.heard /\ net.tries = 0 /\ ~aborted
Rejected ==
  /\ net.at = "open" /\ Trouble
  /\ IF Resendable
     THEN /\ net' = [net EXCEPT !.at = "connect", !.tries = 1, !.reused = FALSE]
          /\ UNCHANGED <<native, out, against, events, actor, ran, aborted>>
     ELSE EndsInFailure

\* The request's signal follows the run's.
RequestAborted ==
  /\ net.at # "over" /\ aborted
  /\ EndsInFailure /\ UNCHANGED troubles

(* The adapter: frames.  A frame changes the message and pushes events; the first one over a
   websocket pushes the start. *)

\* Successful responses of one connection share its inbox: frames of the earlier ones are
\* dropped by their identities.
Fenced(i) == net.reused /\ i \in Retired

Receives(message, evs) ==
  /\ out' = message
  /\ events' = (IF net.ws /\ ~net.heard THEN Append(events, Event("start", 0)) ELSE events) \o evs
  /\ UNCHANGED <<native, actor, ran, aborted>>
Listening == net.at = "open" /\ ~aborted /\ Len(events) < MaxBacklog /\ co.at # "over" /\ ~co.failed
Heard == net' = [net EXCEPT !.heard = TRUE]

\* A frame of a retired item that names the new response is an error; others are dropped.
RetiredFrame(i) ==
  /\ Listening /\ Fenced(i) /\ Trouble
  /\ EndsInFailure

\* Items come from the response, or late from an earlier one on the same connection.
Comes(i) == Listening /\ ~Fenced(i) /\ (i \in Retired => net.reused)

\* response.output_item.added: a new block.
ItemAdded(i) ==
  /\ Comes(i) /\ i \notin Ids(out) /\ Len(out) < MaxBlocks
  /\ Receives(Append(out, Block(i, 0)), <<Event("begin", Len(out) + 1)>>)
  /\ Heard /\ UNCHANGED <<against, troubles>>

\* An identity at a second place is refused by the adapter; without it the call is there twice.
ItemRepeated(i) ==
  /\ Comes(i) /\ i \in Ids(out) \cap Calls /\ Len(out) < MaxBlocks /\ Trouble
  /\ IF native THEN EndsInFailure
     ELSE /\ Receives(Append(out, Block(i, 0)), <<Event("begin", Len(out) + 1)>>)
          /\ Heard /\ UNCHANGED against

\* What the parser and the sink make of a complete item: a call is asynchronous only if the
\* provider says so of a tool the request declared so.
Completed(i, async, cipher) ==
  [Block(i, 1) EXCEPT !.cipher = cipher, !.async = async /\ i \in Opted]
Completions(i) ==
  {Completed(i, async /\ native /\ i \in Calls, cipher /\ i \in Thoughts) :
     async \in BOOLEAN, cipher \in BOOLEAN}

\* response.output_item.done, of a block that was added or of a new one.
ItemDone(i, b) ==
  LET k == IF i \in Ids(out) THEN CHOOSE k \in DOMAIN out : out[k].id = i ELSE Len(out) + 1 IN
  /\ Comes(i) /\ k <= MaxBlocks
  /\ k \in DOMAIN out => out[k].body = 0
  /\ Receives(IF k \in DOMAIN out THEN [out EXCEPT ![k] = b] ELSE Append(out, b),
              (IF k \in DOMAIN out THEN <<>> ELSE <<Event("begin", k)>>) \o <<Event("end", k)>>)
  /\ Heard /\ UNCHANGED <<against, troubles>>

\* The stream ends, or an error frame comes, before a terminal one; or the adapter refuses a
\* frame: a call explicitly incomplete, an item complete twice, an identity that changed.
StreamFails ==
  /\ Listening /\ Trouble /\ EndsInFailure

(* The adapter: the terminal frame. *)

\* It completes blocks still open, fills missing ciphers, and may contradict (wrong) complete
\* items, which the adapter finds out.
Conflicts(wrong) == wrong # {}

\* A call it leaves incomplete.
LeavesCallOpen(completes) ==
  \E k \in DOMAIN out : IsCall(out[k]) /\ out[k].body = 0 /\ k \notin completes

Told(completes, ciphers, wrong) ==
  [k \in DOMAIN out |->
     [out[k] EXCEPT !.body = IF k \in completes THEN 1 ELSE IF k \in wrong /\ ~native THEN 2 ELSE @,
                    !.cipher = @ \/ k \in ciphers]]

StopReason(status) ==
  IF status = "incomplete" THEN "length"
  ELSE IF \E k \in DOMAIN out : IsCall(out[k]) THEN "toolUse" ELSE "stop"

\* response.completed and response.incomplete.  Items the frame is the first to name are
\* covered by an ItemDone just before it, and so are those it completes before it fails.  The
\* SDK's own parser completes every call of a completed response.
Terminal(completes, ciphers, wrong, status) ==
  LET ended == InOrder(completes) IN
  /\ Listening /\ out # <<>>
  /\ native \/ status = "incomplete" \/ \A k \in DOMAIN out : IsCall(out[k]) /\ out[k].body = 0 => k \in completes
  /\ \A k \in completes : out[k].body = 0
  /\ \A k \in ciphers : out[k].id \in Thoughts /\ ~out[k].cipher /\ (k \in completes \/ out[k].body = 1)
  /\ \A k \in wrong : out[k].id \notin Texts /\ out[k].body = 1 /\ k \notin ciphers
  /\ against' = {out[k].id : k \in wrong}
  /\ IF wrong # {} THEN Trouble ELSE UNCHANGED troubles
  /\ net' = [net EXCEPT !.at = "over"]
  /\ IF native /\ (Conflicts(wrong) \/ LeavesCallOpen(completes))
     THEN events' = Failed(events) /\ UNCHANGED <<native, out, actor, ran, aborted>>
     ELSE Receives(Told(completes, ciphers, wrong),
                   [n \in DOMAIN ended |-> Event("end", ended[n])] \o <<Event(StopReason(status), 0)>>)

-----------------------------------------------------------------------------
(* The planner. *)

\* A closed block may still get its cipher, and nothing else.
OnlyCipherAdded(before, after) ==
  /\ [before EXCEPT !.cipher = FALSE] = [after EXCEPT !.cipher = FALSE]
  /\ before.cipher => after.cipher

\* consume refuses an event whose message contradicts the closed slots, a second start, a
\* block or an end without a start, and a call identity used twice.
Refuses(e) ==
  LET p == planner
      closed == {k \in 1..MaxBlocks : p.slots[k].st = "closed"}
      twice == \E k, l \in DOMAIN out : k # l /\ IsCall(out[k]) /\ out[k].id = out[l].id
  IN
  \/ \E k \in closed : ~OnlyCipherAdded(p.slots[k].block, out[k])
  \/ e.type = "start" /\ p.started
  \/ e.type \notin {"start", "error"} /\ ~p.started
  \/ e.type = "end" /\ \E k \in closed : IsCall(out[k]) /\ out[k].id = out[e.index].id
  \/ e.type \notin {"start", "begin", "end"} /\ twice

\* The slots after an event: a text or thought opens empty, a call as the message has it.
Slots(e) ==
  LET b == out[e.index]
      open == IF IsCall(b) THEN b ELSE [b EXCEPT !.body = 0]
  IN CASE e.type = "begin" -> [planner.slots EXCEPT ![e.index] = [st |-> "open", block |-> open]]
       [] e.type = "end" -> [planner.slots EXCEPT ![e.index] = [st |-> "closed", block |-> b]]
       [] OTHER -> planner.slots

\* The receipt of a complete asynchronous call, which alone lets it run early.
Proofs(e) == IF e.type = "end" /\ out[e.index].async THEN planner.proofs \cup {e.index}
             ELSE planner.proofs

\* The end of the longest run of closed slots that ends in a proved call; as if a slot still
\* open could be passed over.
PrefixPastOpen(slots, proofs) ==
  LET ends == {k \in proofs : k > planner.cursor}
  IN IF ends = {} THEN planner.cursor ELSE CHOOSE k \in ends : \A l \in ends : l <= k
PrefixEnd(slots, proofs) ==
  LET ends == {k \in proofs : /\ k > planner.cursor
                              /\ \A l \in planner.cursor + 1..k :
                                   /\ slots[l].st = "closed"
                                   /\ IsCall(slots[l].block) => l \in proofs}
  IN IF ends = {} THEN planner.cursor ELSE CHOOSE k \in ends : \A l \in ends : l <= k

\* What the next segment already has to show once a prefix is committed.
Remainder(slots, to) ==
  LET seen == {k \in 1..MaxBlocks : slots[k].st # "none"} \cup {to}
  IN CHOOSE k \in seen : \A l \in seen : l <= k

Marked(b, k, reason) == [b EXCEPT !.async = k \in planner.proofs /\ Executable(reason)]
Prefix(slots, to) ==
  [kind |-> "prefix", from |-> planner.cursor, to |-> to, reason |-> "toolUse",
   content |-> [n \in 1..to - planner.cursor |-> slots[planner.cursor + n].block],
   rest |-> Remainder(slots, to)]
Final(reason) ==
  [kind |-> "final", from |-> planner.cursor, to |-> Len(out), reason |-> reason,
   content |-> [n \in 1..Len(out) - planner.cursor |->
                  Marked(out[planner.cursor + n], planner.cursor + n, reason)],
   rest |-> Len(out)]

\* The committed thoughts whose cipher came after their commit.
Amendments ==
  InOrder({k \in 1..planner.cursor : out[k].cipher /\ ~planner.slots[k].block.cipher})

-----------------------------------------------------------------------------
(* inference(): the loop over the events. *)

Task(b, blocked) == [call |-> b, blocked |-> blocked, over |-> FALSE]

\* The catch of inference(): admitted calls that were not scheduled get a task that does not
\* run them; as if only their identities were kept.
DropUnstarted == tasks
BlockUnstarted == tasks \o [n \in DOMAIN unstarted |-> Task(unstarted[n].call, TRUE)]
GivesUp(committed) ==
  /\ co' = [co EXCEPT !.at = "catch", !.failed = TRUE, !.committed = committed]
  /\ tasks' = BlockUnstarted /\ unstarted' = <<>>

\* One event: live(), consume, message_start and message_update.
Take ==
  LET e == Head(events)
      ends == e.type \notin {"start", "begin", "end"}
  IN
  /\ co.at = "wait" /\ events # <<>>
  /\ events' = Tail(events)
  /\ IF aborted \/ Refuses(e)
     THEN GivesUp(FALSE) /\ UNCHANGED <<planner, plan, view, log>>
     ELSE \E slots \in {Slots(e)}, proofs \in {Proofs(e)} :
          LET to == IF ends THEN 0 ELSE PrefixEnd(slots, proofs) IN
          /\ planner' = [planner EXCEPT !.started = TRUE, !.terminal = ends,
                                        !.slots = slots, !.proofs = proofs]
          /\ plan' = IF ends THEN Final(e.type)
                     ELSE IF to > planner.cursor THEN Prefix(slots, to) ELSE NoPlan
          /\ view' = IF ends THEN view ELSE [view EXCEPT !.from = planner.cursor, !.to = Len(out)]
          /\ co' = IF ends THEN [co EXCEPT !.at = "amend", !.todo = Amendments]
                   ELSE IF to > planner.cursor THEN [co EXCEPT !.at = "hook"] ELSE co
          /\ UNCHANGED <<log, tasks, unstarted>>
  /\ UNCHANGED <<provider, ran, aborted, troubles>>

Stalled == co.at = "wait" /\ events = <<>>
Stall ==
  /\ Stalled
  /\ GivesUp(FALSE)
  /\ UNCHANGED <<provider, events, planner, plan, log, ran, view, aborted, troubles>>

\* Where a block of the source was committed: bindings.
Binding(k) ==
  LET n == CHOOSE n \in DOMAIN log : /\ log[n].kind = "segment"
                                     /\ log[n].from < k /\ k <= log[n].from + Len(log[n].content)
  IN [entry |-> n, at |-> k - log[n].from]

\* The amendments of the last event, one by one, before its plan.
AmendmentEntry(k) ==
  [kind |-> "amendment", entry |-> Binding(k).entry, at |-> Binding(k).at, from |-> 0,
   content |-> <<>>, reason |-> "none"]
Amend(published) ==
  /\ co.at = "amend" /\ co.todo # <<>>
  /\ IF published THEN UNCHANGED troubles ELSE Trouble
  /\ IF aborted THEN GivesUp(FALSE) /\ UNCHANGED log
     ELSE /\ log' = Append(log, AmendmentEntry(Head(co.todo)))
          /\ IF published THEN co' = [co EXCEPT !.todo = Tail(@)] /\ UNCHANGED <<tasks, unstarted>>
             ELSE GivesUp(FALSE)
  /\ UNCHANGED <<provider, events, planner, plan, ran, view, aborted>>
Amended ==
  /\ co.at = "amend" /\ co.todo = <<>>
  /\ co' = [co EXCEPT !.at = "hook"]
  /\ UNCHANGED <<provider, events, planner, plan, log, unstarted, tasks, ran, view, aborted, troubles>>

(* inference(): commitPlan. *)

\* What a message_end hook may make of the plan: another text, other arguments of a call, one
\* call less, a stop reason that runs nothing.
Edits == {"none", "text", "alter", "drop", "down", "throw"}
Edited(edit) ==
  LET content == plan.content
      calls == {n \in DOMAIN content : IsCall(content[n])}
      last == CHOOSE n \in calls : \A m \in calls : m <= n
      rewritten(S) == [n \in DOMAIN content |->
                         IF content[n].id \in S THEN [content[n] EXCEPT !.body = 3, !.async = FALSE]
                         ELSE content[n]]
  IN CASE edit = "text" -> rewritten(Texts)
       [] edit = "alter" -> rewritten(Calls)
       [] edit = "drop" /\ calls # {} -> RemoveAt(content, last)
       [] OTHER -> content
Lowered(edit) == IF edit = "down" THEN "error" ELSE plan.reason

\* The calls a committed message admits: those of a truncated response do not run.
Admits(content, reason) ==
  LET places == InOrder({n \in DOMAIN content : IsCall(content[n])})
  IN IF Executable(reason) \/ reason = "length"
     THEN [n \in DOMAIN places |-> Task(content[places[n]], ~Executable(reason))] ELSE <<>>

\* seenCalls: the identities of calls the transcript has.
SeenCalls == (UNION {Ids(log[n].content) : n \in DOMAIN log}) \cap Calls

\* prepareCommit keeps a prefix as it is but for its texts; a call identity the transcript has
\* already is refused.
Unacceptable(edit, content, reason) ==
  \/ edit = "throw"
  \/ plan.kind = "prefix" /\ edit \in {"alter", "drop", "down"}
  \/ \E n \in DOMAIN Admits(content, reason) : Admits(content, reason)[n].call.id \in SeenCalls

\* The planner's cursor moves, and the admitted calls are noted before anything is awaited.
Acknowledge(content, reason) ==
  /\ planner' = [planner EXCEPT !.cursor = plan.to]
  /\ unstarted' = Admits(content, reason)

\* commit up to its first wait after the hook: prepareCommit, the guard, the append and the
\* acknowledgement.
Commit(edit) ==
  \E content \in {Edited(edit)}, reason \in {Lowered(edit)} :
  /\ co.at = "hook"
  /\ IF edit = "none" THEN UNCHANGED troubles ELSE Trouble
  /\ IF Unacceptable(edit, content, reason) \/ aborted
     THEN /\ GivesUp(FALSE) /\ UNCHANGED <<planner, plan, log>>
     ELSE /\ log' = Append(log, [kind |-> "segment", entry |-> 0, at |-> 0, from |-> plan.from,
                                 content |-> content, reason |-> reason])
          /\ Acknowledge(content, reason)
          /\ co' = [co EXCEPT !.at = "publish", !.committed = plan.kind = "final"]
          /\ UNCHANGED <<plan, tasks>>
  /\ UNCHANGED <<provider, events, ran, view, aborted>>

\* The rest of commit and commitPlan: message_end is published, the next segment's message is
\* started if it has something to show, and every admitted call is scheduled, without
\* running it if the attempt was aborted meanwhile.
Schedule ==
  /\ co.at = "publish"
  /\ view' = [kept |-> plan.to, from |-> plan.to, to |-> IF aborted THEN plan.to ELSE plan.rest]
  /\ tasks' = tasks \o [n \in DOMAIN unstarted |-> [unstarted[n] EXCEPT !.blocked = @ \/ aborted]]
  /\ unstarted' = <<>>
  /\ LET early == unstarted # <<>> /\ \A n \in DOMAIN unstarted :
                     unstarted[n].call.async /\ ~unstarted[n].blocked
     IN co' = [co EXCEPT !.at = IF plan.kind = "prefix" THEN "wait"
                               ELSE IF unstarted # <<>> /\ ~early THEN "drain" ELSE "finish"]
  /\ plan' = IF plan.kind = "prefix" THEN NoPlan ELSE plan
  /\ UNCHANGED <<provider, events, planner, log, ran, aborted, troubles>>

\* The publication, or what follows a commit, fails.
PublishFails ==
  /\ co.at = "publish" /\ Trouble
  /\ GivesUp(FALSE)
  /\ UNCHANGED <<provider, events, planner, plan, log, ran, view, aborted>>

\* Ordinary calls of the answer are waited for.
Drain ==
  /\ co.at = "drain" /\ \A n \in DOMAIN tasks : tasks[n].over
  /\ co' = [co EXCEPT !.at = "finish"]
  /\ UNCHANGED <<provider, events, planner, plan, log, unstarted, tasks, ran, view, aborted, troubles>>

\* turn_end.  A provider's failure, and a truncation worth a retry, end the attempt in the
\* catch although their message is committed.
Finish(retryLength) ==
  /\ co.at = "finish"
  /\ IF plan.reason = "error" \/ (Last(log).reason = "length" /\ retryLength)
     THEN GivesUp(TRUE)
     ELSE co' = [co EXCEPT !.at = "over"] /\ UNCHANGED <<tasks, unstarted>>
  /\ UNCHANGED <<provider, events, planner, plan, log, ran, view, aborted, troubles>>

\* The catch: a message that says why, unless the provider's own was committed.
Catch ==
  /\ co.at = "catch"
  /\ co' = [co EXCEPT !.at = "over"]
  /\ log' = IF co.committed THEN log
            ELSE Append(log, [kind |-> "failure", entry |-> 0, at |-> 0, from |-> 0,
                              content |-> <<>>, reason |-> "error"])
  /\ UNCHANGED <<provider, events, planner, plan, unstarted, tasks, ran, view, aborted, troubles>>

\* The next task of the tool tail.
RunTool ==
  \E n \in DOMAIN tasks :
    /\ ~tasks[n].over /\ \A m \in 1..n - 1 : tasks[m].over
    /\ tasks' = [tasks EXCEPT ![n].over = TRUE]
    /\ ran' = IF tasks[n].blocked \/ aborted THEN ran ELSE Append(ran, tasks[n].call)
    /\ UNCHANGED <<provider, events, planner, plan, co, log, unstarted, view, aborted, troubles>>

\* abort() of the run.
Abort ==
  /\ co.at # "over" /\ ~aborted /\ Trouble
  /\ aborted' = TRUE
  /\ UNCHANGED <<provider, events, actor, ran>>

-----------------------------------------------------------------------------
Frame ==
  \/ \E i \in Items : \/ ItemAdded(i) \/ ItemRepeated(i) \/ RetiredFrame(i)
                      \/ \E b \in Completions(i) : ItemDone(i, b)
  \/ \E completes, ciphers, wrong \in SUBSET DOMAIN out, status \in {"completed", "incomplete"} :
       Terminal(completes, ciphers, wrong, status)
  \/ StreamFails

Next ==
  \/ Connect \/ ConnectFails \/ Rejected \/ RequestAborted \/ Frame
  \/ Take \/ Stall \/ Amended \/ (\E published \in BOOLEAN : Amend(published))
  \/ (\E edit \in Edits : Commit(edit)) \/ Schedule \/ PublishFails \/ Drain
  \/ (\E retry \in BOOLEAN : Finish(retry)) \/ Catch \/ RunTool \/ Abort

Spec == Init /\ [][Next]_vars

-----------------------------------------------------------------------------
(* Properties. *)

Succeeded == co.at = "over" /\ ~co.failed
Segments == {n \in DOMAIN log : log[n].kind = "segment"}
IsSaid(b) == b.id \notin Calls
Position(b) == CHOOSE k \in DOMAIN out : out[k].id = b.id

\* A thought as the transcript has it: with the cipher of its entry or of an amendment.
HasCipher(n, p) ==
  log[n].content[p].cipher \/ \E a \in DOMAIN log : log[a].kind = "amendment"
                                                   /\ log[a].entry = n /\ log[a].at = p

\* An attempt that succeeds leaves the provider's whole answer in the transcript, however it
\* was cut into segments: every text and thought once, in order, each with the cipher that may
\* have come after its commit, and nothing of an earlier response.
TranscriptIsWhole ==
  Succeeded =>
    /\ (UNION {Ids(log[n].content) : n \in Segments}) \ Calls = Ids(out) \ Calls
    /\ \A n, m \in Segments : \A p \in DOMAIN log[n].content, q \in DOMAIN log[m].content :
         /\ IsSaid(log[n].content[p]) /\ IsSaid(log[m].content[q])
         /\ n < m \/ (n = m /\ p < q)
         => Position(log[n].content[p]) < Position(log[m].content[q])
    /\ \A n \in Segments : \A p \in DOMAIN log[n].content :
         \A k \in DOMAIN out : out[k].id = log[n].content[p].id /\ out[k].cipher => HasCipher(n, p)
    /\ Ids(out) \cap Retired = {}

\* A tool runs for a call the transcript has, in a message that may run calls, with those
\* arguments, once; they were complete when it ran; and if the provider's last frame says
\* otherwise, the attempt does not succeed.
ToolsRunWhatWasSaid ==
  \A n \in DOMAIN ran :
    /\ ran[n].body # 0
    /\ \A m \in DOMAIN ran : ran[m].id = ran[n].id => m = n
    /\ \E g \in Segments : Executable(log[g].reason) /\ \E p \in DOMAIN log[g].content : log[g].content[p] = ran[n]
    /\ Succeeded /\ ran[n].body = 1 => ran[n].id \notin against

\* Once the attempt is over, however it ended, every call of a committed message that runs or
\* was truncated has one task, which gives it a result, and no other call has any.
AdmittedCallsAreScheduled ==
  co.at = "over" =>
    LET admitted == {a \in Segments \X (1..MaxBlocks) :
                       /\ a[2] \in DOMAIN log[a[1]].content /\ IsCall(log[a[1]].content[a[2]])
                       /\ Executable(log[a[1]].reason) \/ log[a[1]].reason = "length"}
    IN /\ Cardinality(admitted) = Len(tasks)
       /\ \A a \in admitted : \E k \in DOMAIN tasks : tasks[k].call = log[a[1]].content[a[2]]

\* Whenever a live actor waits for the provider, the client shows every block it was told of
\* exactly once: committed segments, then the live message.
LiveViewIsWhole ==
  co.at = "wait" /\ planner.started /\ ~aborted =>
    /\ view.kept = planner.cursor /\ view.from = planner.cursor
    /\ \A k \in 1..MaxBlocks : planner.slots[k].st # "none" => k <= view.to

\* Nothing of an answer is lost or repeated while it is cut into segments, neither for the
\* model's next request nor for those who watch.  (actor-coordinator.mjs: the commit of a segment)
AnswerIsWhole == TranscriptIsWhole /\ LiveViewIsWhole

\* The calls of an answer run exactly as it says, however it ends: no call runs that the
\* transcript does not have, and no call that it has is left without a task.
\* (actor-coordinator.mjs: scheduling the calls of a committed segment)
CallsAreRun == ToolsRunWhatWasSaid /\ AdmittedCallsAreScheduled

=============================================================================
