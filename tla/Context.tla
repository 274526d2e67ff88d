------------------------------ MODULE Context ------------------------------
(* The canonical history of one session and what the model is shown of it. *)
(* The history is a tree of entries in an append-only file; the branch that *)
(* ends in the leaf is the conversation.  A worker never keeps the entries: *)
(* it keeps an INDEX of the branch it last looked at, extends it with what  *)
(* was appended since, forgets the part before a bookmark when it is idle,  *)
(* and saves what a later process needs to start from that bookmark.        *)
(* Around the index stand the operations that move the leaf or cut the      *)
(* branch: recovery after an interruption, compaction, navigation.          *)
(*                                                                          *)
(* src/canonical-context.mjs, actor-compaction.mjs, actor-navigation.mjs,   *)
(* cold-cards.mjs, and the parts of actor-coordinator.mjs and               *)
(* sdk-worker.mjs that call them.  The session manager that holds the file  *)
(* and the choice of a first cut belong to the SDK: they are external.      *)
EXTENDS Naturals, Sequences, FiniteSets, SequencesExt

CONSTANTS
  MaxEntries,   \* entries of the history
  MaxInputs,    \* user messages among them
  MaxCustom,    \* bookmarks, edits and signatures among them
  MaxTroubles   \* restarts, navigations, compactions and idle reductions

VARIABLES
  archive,    \* the entries, in the order of the file
  leaf,       \* the last entry of the selected branch, 0 when it is empty
  index,      \* the worker's index of a branch, or None
  cards,      \* the saved cards of the session's file, or None
  loaded,     \* the cards this process read at its start and has not used
  saved,      \* the bookmark the cards were last exported for
  phase,      \* "idle", "recovery" or "run": the coordinator
  recovered,  \* whether this process has answered what was interrupted
  todo,       \* the unknown results that recovery still has to append
  live,       \* the calls whose tools are running
  job,        \* a compaction or a navigation under way, or None
  customs, troubles
vars == <<archive, leaf, index, cards, loaded, saved, phase, recovered, todo,
          live, job, customs, troubles>>

\* The functions on the history as it is, and as a step leaves it.
INSTANCE ContextView
After(entries, end) == INSTANCE ContextView WITH archive <- entries, leaf <- end

EntryOf(k, o) == [parent |-> leaf, kind |-> k, of |-> o]
Fits(n) == Here + n <= MaxEntries

\* withServiceMutation: of an actor that is not busy.
Idle == phase = "idle" /\ job = None

Opened == IF index # None THEN index
          ELSE IF loaded # None THEN Resumed(loaded) ELSE Empty

Read(mode) == ReadFrom(Opened, mode)
Indexed(x) == index' = x /\ loaded' = None

\* refreshCanonicalSessionContext, on the history as the step leaves it.
Refresh(x) ==
  /\ index' = After(archive', leaf')!ReadFrom(x, "native").index
  /\ loaded' = None

----------------------------------------------------------------------------
(* The session's file.                                                      *)
Put(e) == archive' = Append(archive, e) /\ leaf' = Here + 1
OnBranch == Range(Branch(leaf))
Unanswered == {c \in CallsIn(OnBranch) : Kind(c) = "call"} \ Targets(OnBranch, "result")

\* An extension records a bookmark: up to which message the older ones may
\* stay cold, and how many there are, rightly or not.
Bookmark ==
  /\ Fits(1) /\ customs < MaxCustom
  /\ \E src \in {i \in OnBranch : Kind(i) \in Messages}, right \in BOOLEAN :
       Put([parent |-> leaf, kind |-> "bookmark", of |-> src, right |-> right])
  /\ customs' = customs + 1
  /\ UNCHANGED <<index, cards, loaded, saved, phase, recovered, todo, live, job, troubles>>

\* An edit takes a message out of the context.
Edit ==
  /\ Fits(1) /\ customs < MaxCustom
  /\ \E target \in {i \in OnBranch : Kind(i) \in Messages} : Put(EntryOf("edit", target))
  /\ customs' = customs + 1
  /\ UNCHANGED <<index, cards, loaded, saved, phase, recovered, todo, live, job, troubles>>

\* The provider's encrypted reasoning of a message arrives after it.
Signature ==
  /\ phase = "run" /\ job = None /\ Fits(1) /\ customs < MaxCustom
  /\ \E target \in CallsIn(OnBranch) : Put(EntryOf("signature", target))
  /\ customs' = customs + 1
  /\ UNCHANGED <<index, cards, loaded, saved, phase, recovered, todo, live, job, troubles>>

----------------------------------------------------------------------------
(* The coordinator's run.                                                   *)

\* recover: once per process and after every navigation, what the branch
\* left unanswered gets an unknown result before the first request.
Start ==
  /\ Idle
  /\ \/ recovered /\ phase' = "run" /\ UNCHANGED <<index, loaded, todo>>
     \/ \E state \in {Managed(Opened)} :
          /\ ~recovered /\ state # None
          /\ Indexed(state)
          /\ todo' = SetToSeq({c \in state.facts.calls : Kind(c) = "call"} \ state.facts.results)
          /\ phase' = "recovery"
  /\ UNCHANGED <<archive, leaf, cards, saved, recovered, live, job, customs, troubles>>

Recover ==
  /\ phase = "recovery" /\ todo # <<>> /\ Fits(1)
  /\ Put(EntryOf("result", Head(todo)))
  /\ todo' = Tail(todo)
  /\ UNCHANGED <<index, cards, loaded, saved, phase, recovered, live, job, customs, troubles>>

RecoveryEnds ==
  /\ phase = "recovery" /\ todo = <<>>
  /\ recovered' = TRUE /\ phase' = "run"
  /\ UNCHANGED <<archive, leaf, index, cards, loaded, saved, todo, live, job, customs, troubles>>

Working == phase = "run" /\ job = None

Input ==
  /\ Working /\ Fits(1)
  /\ Cardinality({i \in 1..Here : Kind(i) = "user"}) < MaxInputs
  /\ Put(EntryOf("user", 0))
  /\ UNCHANGED <<index, cards, loaded, saved, phase, recovered, todo, live, job, customs, troubles>>

\* A request needs a projection without blocking findings.
Ready(mode) ==
  \E read \in {Read(mode)} :
    /\ read.view # None
    /\ read.view.blocked = {}
    /\ Indexed(read.index)

Infer ==
  /\ Working /\ Fits(1)
  /\ \E mode \in {"native", "ordinary"} : Ready(mode)
  /\ Put(EntryOf("call", 0))
  /\ live' = live \cup {Here + 1}
  /\ UNCHANGED <<cards, saved, phase, recovered, todo, job, customs, troubles>>

\* The provider fails after it named a call; the owner's witness follows at
\* once, unless it cannot be written.
InferFails ==
  /\ Working /\ Fits(2)
  /\ Ready("ordinary")
  /\ \/ /\ archive' = archive \o <<EntryOf("failed", 0),
              [parent |-> Here + 1, kind |-> "witness", of |-> Here + 1]>>
        /\ leaf' = Here + 2
     \/ Put(EntryOf("failed", 0))
  /\ UNCHANGED <<cards, saved, phase, recovered, todo, live, job, customs, troubles>>

Result ==
  /\ Working /\ Fits(1)
  /\ \E c \in live : Put(EntryOf("result", c)) /\ live' = live \ {c}
  /\ UNCHANGED <<index, cards, loaded, saved, phase, recovered, todo, job, customs, troubles>>

Settle ==
  /\ Working /\ live = {}
  /\ phase' = "idle"
  /\ UNCHANGED <<archive, leaf, index, cards, loaded, saved, recovered, todo, live, job,
                 customs, troubles>>

\* get_messages: an ordinary projection, at any time.
Look ==
  /\ \E read \in {Read("ordinary").index} : read # index /\ Indexed(read)
  /\ UNCHANGED <<archive, leaf, cards, saved, phase, recovered, todo, live, job,
                 customs, troubles>>

----------------------------------------------------------------------------
(* Operations that hold the coordinator across awaits.                      *)
Trouble == troubles < MaxTroubles /\ troubles' = troubles + 1
Same == leaf = job.leaf /\ Here = job.count

\* What is at a place of the context once the edits are applied.
RoleAt(ctx, k) ==
  IF ctx[k] \in Targets(Range(ctx), "edit") THEN "omitted" ELSE Kind(ctx[k])

\* The turn that a message belongs to starts at what was said to the model.
TurnStart(ctx, start, k) ==
  LET said == {t \in start..k : RoleAt(ctx, t) \in {"user", "summary"}}
  IN IF said = {} THEN start ELSE CHOOSE t \in said : \A u \in said : u <= t

(* Variant: the cut that the SDK proposes.                                   *)
ProposedCut(ctx, start, original) == original

\* A native call whose result stays is kept with its whole turn.
NativeCut(ctx, start, original) ==
  LET answered(k, cut) == \E r \in DOMAIN ctx :
            r < cut /\ RoleAt(ctx, r) = "result" /\ Of(ctx[r]) = ctx[k]
      least(a, b) == IF a <= b THEN a ELSE b
      cut[k \in start..original] ==
        IF k = original THEN original
        ELSE LET later == cut[k + 1] IN
             IF RoleAt(ctx, k) = "call" /\ ~answered(k, later)
             THEN least(later, TurnStart(ctx, start, k)) ELSE later
  IN cut[start]

\* The SDK proposes where the retained part begins, never at a result; a
\* refresh of the summary alone keeps all that follows the last one.
Proposals(ctx, start) ==
  {k \in start..Len(ctx) :
     \/ k > start /\ Kind(ctx[k]) \in Messages \ {"result"}
     \/ k = start /\ start = 2}

\* What a summary may keep from: the harness's own cut, when there is a
\* message before it, or any cut an extension names.
Offers(ctx) ==
  LET start == IF ctx # <<>> /\ Kind(Head(ctx)) = "compaction" THEN 2 ELSE 1
      from == Proposals(ctx, start)
      cut == [original \in from |-> NativeCut(ctx, start, original)]
      something(k) == \E i \in start..(k - 1) : RoleAt(ctx, i) \in Messages
  IN {<<cut[o], TRUE>> : o \in {q \in from : cut[q] = q \/ something(cut[q])}}
     \cup (IF from = {} THEN {} ELSE (DOMAIN ctx) \X {FALSE})

\* Prepared from the current branch; the summary is then asked of a provider,
\* or given by an extension, which may keep any part of the context.
CompactBegin ==
  /\ job = None /\ (phase = "idle" \/ (phase = "run" /\ live = {}))
  /\ Trouble
  /\ \E read \in {Read("native")}, ctx \in {ContextIds(Branch(leaf))} :
       /\ read.view # None /\ read.view.outstanding = {}
       /\ Indexed(read.index)
       /\ \E offer \in Offers(ctx) :
            job' = [kind |-> "compact", leaf |-> leaf, count |-> Here,
                    to |-> ctx[offer[1]], own |-> offer[2]]
  /\ UNCHANGED <<archive, leaf, cards, saved, phase, recovered, todo, live, customs>>

\* The branch must be the one that was summarized when the summary arrives.
CompactCommit ==
  /\ job.kind = "compact" /\ Same /\ Fits(1)
  /\ Put(EntryOf("compaction", job.to))
  /\ Refresh(Opened)
  /\ job' = None
  /\ UNCHANGED <<cards, saved, phase, recovered, todo, live, customs, troubles>>

\* The leaf before the chosen entry if that is an input, which is handed back
\* for editing.
NavigateBegin ==
  /\ Idle /\ Trouble
  /\ \E target \in (1..Here) \ {leaf} :
       job' = [kind |-> "navigate", leaf |-> leaf, count |-> Here, own |-> TRUE,
               to |-> IF Kind(target) = "user" THEN archive[target].parent ELSE target]
  /\ UNCHANGED <<archive, leaf, index, cards, loaded, saved, phase, recovered, todo, live, customs>>

(* Variant: what this process recovered once is recovered for good.         *)
NavigateOnly ==
  /\ job.kind = "navigate" /\ Same
  /\ leaf' = job.to /\ archive' = archive
  /\ Refresh([Opened EXCEPT !.moved = TRUE])
  /\ job' = None
  /\ UNCHANGED <<cards, saved, phase, recovered, todo, live, customs, troubles>>

\* One step moves the leaf, with or without a summary of what is left; the
\* view is read again and what the new branch lacks must be recovered.
NavigateCommit ==
  /\ job.kind = "navigate" /\ Same
  /\ \/ /\ leaf' = job.to /\ archive' = archive
        /\ Refresh([Opened EXCEPT !.moved = TRUE])
     \/ /\ Fits(1)
        /\ archive' = Append(archive, [parent |-> job.to, kind |-> "summary", of |-> 0])
        /\ leaf' = Here + 1
        /\ Refresh(Opened)
  /\ recovered' = FALSE /\ job' = None
  /\ UNCHANGED <<cards, saved, phase, todo, live, customs, troubles>>

\* Cancelled, refused as stale, or failed before the commit.
GiveUp ==
  /\ job # None
  /\ job' = None
  /\ UNCHANGED <<archive, leaf, index, cards, loaded, saved, phase, recovered, todo, live,
                 customs, troubles>>

\* The file is replaced as a whole, or not at all.
WriteCards(state) == cards' \in {cards, Cards(state)}

\* reduceIdleMemory: the worker forgets what precedes the bookmark and saves
\* cards for it, unless they were saved before.
Reduce ==
  /\ Idle /\ Trouble
  /\ \E state \in {Managed(Opened)} :
       \E less \in {IF state = None THEN None ELSE Released(state)} :
         /\ Indexed(less)
         /\ IF less # None /\ less.released /\ Boundary(less) \notin {0, saved}
            THEN /\ saved' = Boundary(less)
                 /\ WriteCards(less)
            ELSE UNCHANGED <<cards, saved>>
  /\ UNCHANGED <<archive, leaf, phase, recovered, todo, live, job, customs>>

\* The process ends at any moment; the next one opens the file at its end.
Restart ==
  /\ Trouble
  /\ leaf' = Here
  /\ index' = None /\ loaded' = cards
  /\ saved' = IF cards = None THEN 0 ELSE cards.upTo
  /\ phase' = "idle" /\ recovered' = FALSE /\ todo' = <<>> /\ live' = {} /\ job' = None
  /\ UNCHANGED <<archive, cards, customs>>

Init ==
  /\ archive = <<>> /\ leaf = 0 /\ index = None
  /\ cards = None /\ loaded = None /\ saved = 0
  /\ phase = "idle" /\ recovered = FALSE /\ todo = <<>> /\ live = {} /\ job = None
  /\ customs = 0 /\ troubles = 0

Next ==
  \/ Bookmark \/ Edit \/ Signature
  \/ Start \/ Recover \/ RecoveryEnds \/ Input \/ Infer \/ InferFails
  \/ Result \/ Settle \/ Look
  \/ CompactBegin \/ CompactCommit \/ NavigateBegin \/ NavigateCommit \/ GiveUp
  \/ Reduce \/ Restart

Spec == Init /\ [][Next]_vars
----------------------------------------------------------------------------

\* The index never shows a model another conversation than the file holds:
\* however it was extended, released, saved and resumed, a read gives the
\* messages, amendments and order of a complete read, and the same calls
\* without a result.  It may leave out less of a failed call, never more.
\* (canonical-context.mjs: managedState, projectManagedSource)
ReadsAgree ==
  \A mode \in {"native", "ordinary"} :
    LET view == Read(mode).view
        whole == Reference(mode)
        n == Len(whole.shown) - Len(view.shown)
    IN view # None =>
       /\ n >= 0 /\ mode = "ordinary" => n = 0
       /\ view.shown = SubSeq(whole.shown, n + 1, Len(whole.shown))
       /\ view.outstanding = whole.outstanding
       /\ view.omitted \subseteq whole.omitted
       /\ whole.blocked \subseteq view.blocked

\* While the coordinator runs, the calls of the branch that have no result
\* are exactly those whose tools it is running: nothing waits for an answer
\* nobody gives, and no answer arrives for a call the branch does not have.
\* (actor-coordinator.mjs: recover, navigateTree)
CallsAreAttended == phase = "run" => Unanswered = live

\* A summary made by the harness never separates a native call from its
\* result.  (actor-compaction.mjs: prepareActorCompaction)
SpansStayWhole ==
  [][(job.kind = "compact" /\ archive' # archive /\ job' = None /\ job.own)
      => LET before == Reference("native")
             after == After(archive', leaf')!Reference("native")
         IN /\ after.callPruned \subseteq before.callPruned
            /\ after.resultPruned \subseteq before.resultPruned]_vars
============================================================================
