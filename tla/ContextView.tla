---------------------------- MODULE ContextView ----------------------------
(* What the canonical history of a session says: the selected branch, what  *)
(* a model is shown of it, and the index of a branch that a worker keeps    *)
(* instead of the entries.  No step: Context moves the history and calls    *)
(* these functions on it.                                                   *)
(*                                                                          *)
(* src/canonical-context.mjs.  The session manager that holds the file      *)
(* belongs to the SDK: it is external.                                      *)
EXTENDS Naturals, Sequences, FiniteSets, SequencesExt

CONSTANTS
  archive,    \* the entries, in the order of the file
  leaf        \* the last entry of the selected branch, 0 when it is empty

None == [kind |-> "none"]

\* An entry is a user message; a call, that is an assistant message with a
\* native call; failed, one whose provider failed, with an ordinary call that
\* was never admitted; a result; a witness, signature, bookmark or edit of the
\* entry that "of" names; a branch summary; or a compaction.
Messages == {"user", "call", "failed", "result", "summary"}

Here == Len(archive)
Kind(i) == archive[i].kind
Of(i) == archive[i].of

\* selectIndexedBranch: from the leaf to the root, in order.
Branch(l) ==
  LET path[i \in 0..Here] ==
        IF i = 0 THEN <<>> ELSE Append(path[archive[i].parent], i)
  IN path[l]

----------------------------------------------------------------------------
(* What is known of a branch.  aliases: the identities under which its calls *)
(* are known; twice: those an identity of which is claimed by two records.   *)
NoFacts == [calls |-> {}, results |-> {}, witnessed |-> {},
            signed |-> {}, aliases |-> {}, twice |-> {}]

Targets(ids, k) == {Of(i) : i \in {j \in ids : Kind(j) = k}}
CallsIn(ids) == {i \in ids : Kind(i) \in {"call", "failed"}}

\* Appends of one result per call are required: a second one is refused.
Doubled(f, ids) ==
  \E i \in ids : Kind(i) = "result" /\ (Of(i) \in f.results
     \/ \E j \in ids \ {i} : Kind(j) = "result" /\ Of(j) = Of(i))

\* addSelectedFacts for every entry of ids; the last signature of a call wins.
Learn(f, ids) ==
  LET signers == {i \in ids : Kind(i) = "signature"} IN
  [calls |-> f.calls \cup CallsIn(ids),
   results |-> f.results \cup Targets(ids, "result"),
   witnessed |-> f.witnessed \cup Targets(ids, "witness"),
   signed |-> {s \in f.signed : s[1] \notin Targets(ids, "signature")}
      \cup {<<Of(i), i>> : i \in {j \in signers :
                              \A k \in signers : Of(k) = Of(j) => k <= j}},
   aliases |-> f.aliases \cup CallsIn(ids),
   twice |-> f.twice \cup (f.aliases \cap CallsIn(ids))]

----------------------------------------------------------------------------
(* The view: the messages a model is shown, and what else the projection    *)
(* reports.  "from" is the number of entries of the branch that a bookmark  *)
(* keeps out of it, 0 for the whole context.                                *)

\* The latest checkpoint stands for what precedes the entry it keeps.
ContextIds(sel) ==
  LET cuts == {k \in DOMAIN sel : Kind(sel[k]) = "compaction"} IN
  IF cuts = {} THEN sel
  ELSE LET cut == CHOOSE k \in cuts : \A j \in cuts : j <= k
           kept == CHOOSE k \in DOMAIN sel : sel[k] = Of(sel[cut])
       IN <<sel[cut]>> \o SubSeq(sel, kept, cut - 1)
                       \o SubSeq(sel, cut + 1, Len(sel))

Contributions(ctx) ==
  LET edited == Targets(Range(ctx), "edit")
      first == Head(ctx)
  IN SelectSeq(ctx, LAMBDA i : i \notin edited
                 /\ (Kind(i) \in Messages \/ (Kind(i) = "compaction" /\ i = first)))

\* omitUnadmittedCalls: only with the owner's own evidence, and only when no
\* other record claims an identity of the call.
Omitted(f, shown) ==
  {i \in Range(shown) : /\ Kind(i) = "failed" /\ i \in f.witnessed
                        /\ i \notin f.twice \cup f.results}

SignatureOf(f, i) == {s[2] : s \in {t \in f.signed : t[1] = i}}

\* Ordinary models need the result next to its call.
Beside(shown, moved) ==
  LET answer(c) == CHOOSE i \in Range(shown) : Kind(i) = "result" /\ Of(i) = c
  IN FlattenSeq([k \in DOMAIN shown |->
       IF Kind(shown[k]) = "result" /\ Of(shown[k]) \in moved THEN <<>>
       ELSE IF shown[k] \in moved THEN <<shown[k], answer(shown[k])>>
       ELSE <<shown[k]>>])

View(f, sel, from, mode) ==
  LET ctx == IF from = 0 THEN ContextIds(sel) ELSE SubSeq(sel, from + 1, Len(sel))
      shown == Contributions(ctx)
      omitted == Omitted(f, shown)
      calls == CallsIn(Range(shown)) \ omitted
      results == Targets(Range(shown), "result")
      held == calls \cup {sel[k] : k \in 1..from}
      native == {c \in f.calls : Kind(c) = "call"}
      pruned == {c \in f.calls \cap calls \cap f.results : c \notin results}
      inOrder == IF mode = "ordinary"
                 THEN Beside(shown, calls \cap native \cap results) ELSE shown
  IN [shown |-> [k \in DOMAIN inOrder |->
                   <<inOrder[k], SignatureOf(f, inOrder[k])>>],
      omitted |-> omitted,
      outstanding |-> {<<c, c \in held>> : c \in native \ f.results},
      resultPruned |-> pruned,
      callPruned |-> (f.results \cap f.calls \cap results) \ held,
      blocked |-> IF mode = "native" THEN {}
                  ELSE pruned \cup {c \in calls : Kind(c) = "failed"}
                              \cup {c \in calls \cap native : c \notin results}]

\* The projection of a complete read of the branch.
FactsOf(sel) == Learn(NoFacts, Range(sel))
Reference(mode) == View(FactsOf(Branch(leaf)), Branch(leaf), 0, mode)

----------------------------------------------------------------------------
(* The index: done entries of the file were seen when the branch that ends  *)
(* in "at" was; cold holds the entries reduced to their identity; moved, if *)
(* the leaf was moved since without an entry (the revision then counts more *)
(* than the entries do).                                                    *)
Empty == [kind |-> "index", done |-> 0, at |-> 0, sel |-> <<>>, facts |-> NoFacts,
          cold |-> {}, structural |-> FALSE, released |-> FALSE,
          resumed |-> FALSE, moved |-> TRUE]

\* resumeColdCards: the saved prefix, without reading it.
Resumed(saved) == [Empty EXCEPT !.done = saved.upTo, !.at = saved.upTo,
              !.sel = Branch(saved.upTo), !.facts = saved.facts,
              !.cold = 1..saved.upTo, !.released = TRUE, !.resumed = TRUE,
              !.moved = FALSE]

(* Variant: what was appended to the file continues the indexed branch.     *)
Appends(x) == x.resumed \/ ~x.moved

\* What was appended continues the indexed branch, entry by entry.
Extends(x) ==
  /\ x.resumed \/ ~x.moved
  /\ \A i \in (x.done + 1)..Here :
        archive[i].parent = IF i = x.done + 1 THEN x.at ELSE i - 1
  /\ leaf = IF x.done = Here THEN x.at ELSE Here

Structural(ids) == \E i \in ids : Kind(i) \in {"compaction", "edit"}

\* managedState: extended, or selected again from its headers; None when a
\* fact is missing, and the next attempt then reads everything.
Advance(x) ==
  LET goes == Extends(x)
      added == IF goes THEN (x.done + 1)..Here ELSE Range(Branch(leaf))
      old == IF goes THEN x.facts ELSE NoFacts
  IN IF \/ \E i \in added \cap x.cold : Kind(i) \in Messages \ {"summary"}
        \/ Doubled(old, added)
     THEN None
     ELSE [x EXCEPT !.done = Here, !.at = leaf, !.sel = Branch(leaf),
             !.facts = Learn(old, added),
             !.structural = (goes /\ @) \/ Structural(added),
             !.resumed = FALSE, !.moved = FALSE]
Managed(x) == Advance(IF x.resumed /\ ~Extends(x) THEN Empty ELSE x)

\* coldBoundary: the last bookmark of the branch, when it is enabled and the
\* entry it names is on the branch; 0 for none.
Boundary(x) ==
  LET marks == {k \in DOMAIN x.sel : Kind(x.sel[k]) = "bookmark"} IN
  IF x.structural \/ marks = {} THEN 0
  ELSE LET mark == x.sel[CHOOSE k \in marks : \A j \in marks : j <= k]
       IN IF Of(mark) \in Range(x.sel) THEN Of(mark) ELSE 0
Counted(x) ==
  \E i \in Range(x.sel) : Kind(i) = "bookmark" /\ Of(i) = Boundary(x) /\ archive[i].right
     /\ \A j \in Range(x.sel) : Kind(j) = "bookmark" => j <= i

\* projectManagedSource: a bookmark keeps older messages out of a native
\* read; any other read needs every entry back.
ReadFrom(x, mode) ==
  LET state == Managed(x)
      cold == IF mode = "native" /\ Counted(state) THEN Boundary(state) ELSE 0
      full == IF cold = 0 /\ state.released THEN Managed(Empty) ELSE state
      from == IF cold = 0 THEN 0 ELSE CHOOSE k \in DOMAIN state.sel : state.sel[k] = cold
  IN IF state = None THEN [index |-> None, view |-> None]
     ELSE IF full = None THEN [index |-> None, view |-> None]
     ELSE [index |-> full, view |-> View(full.facts, full.sel, from, mode)]
\* releaseColdHeaders: identities only up to the bookmark, and no trace of
\* the calls that were answered before it.
AnsweredBy(src) == {c \in 1..src : \E i \in c..src : Kind(i) = "result" /\ Of(i) = c}
Released(x) ==
  LET src == Boundary(x)
      gone == {c \in AnsweredBy(src) : \E i \in Range(x.sel) :
                   Kind(i) = "result" /\ Of(i) = c /\ i <= src}
  IN IF src = 0 THEN x
     ELSE [x EXCEPT !.cold = @ \cup 1..src, !.released = TRUE,
             !.facts.calls = @ \ gone, !.facts.results = @ \ gone]

\* exportColdCards: calls and results up to the bookmark, the rest as it is.
Cards(x) ==
  LET src == Boundary(x) IN
  [kind |-> "cards", upTo |-> src,
   facts |-> [x.facts EXCEPT !.calls = {c \in @ : c <= src},
                             !.results = @ \cap AnsweredBy(src)]]
============================================================================
