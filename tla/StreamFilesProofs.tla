-------------------------- MODULE StreamFilesProofs --------------------------
(* What holds of one answer and its calls, for any items, blocks and        *)
(* disturbances, and of files.write and files.edit for any calls at one     *)
(* name, any other programs and any number of failures and power losses.    *)
EXTENDS Stream, AtomicFile, FiniteSetTheorems, SequenceTheorems, TLAPS

(***************************************************************************)
(* Stream.                                                                 *)
(***************************************************************************)

Blocks == [id : Items, body : 0..3, cipher : BOOLEAN, async : BOOLEAN]
Ends == {"stop", "toolUse", "length", "error"}
NetRecords ==
  [at : {"connect", "open", "over"}, ws : BOOLEAN, tries : Nat, heard : BOOLEAN, reused : BOOLEAN]
EventRecords == [type : {"start", "begin", "end"} \cup Ends, index : Nat]
SlotRecords == {NoSlot} \cup [st : {"open", "closed"}, block : Blocks]
PlannerRecords ==
  [started : BOOLEAN, terminal : BOOLEAN, cursor : Nat, proofs : SUBSET (1..MaxBlocks),
   slots : [1..MaxBlocks -> SlotRecords]]
TaskRecords == [call : Blocks, blocked : BOOLEAN, over : BOOLEAN]
Steps == {"wait", "amend", "hook", "publish", "drain", "finish", "catch", "over"}

StreamTypeOK ==
  /\ native \in BOOLEAN /\ aborted \in BOOLEAN
  /\ net \in NetRecords
  /\ out \in Seq(Blocks) /\ Len(out) <= MaxBlocks
  /\ against \subseteq Items
  /\ events \in Seq(EventRecords)
  /\ planner \in PlannerRecords
  /\ plan.kind \in {"none", "prefix", "final"} /\ plan.to \in Nat
  /\ plan.content \in Seq(Blocks) /\ Len(plan.content) <= MaxBlocks
  /\ co = [at |-> co.at, todo |-> co.todo, failed |-> co.failed, committed |-> co.committed]
  /\ co.at \in Steps /\ co.failed \in BOOLEAN
  /\ log \in Seq({log[n] : n \in DOMAIN log})
  /\ \A n \in DOMAIN log : log[n].content \in Seq(Blocks) /\ Len(log[n].content) <= MaxBlocks
  /\ unstarted \in Seq(TaskRecords) /\ tasks \in Seq(TaskRecords) /\ ran \in Seq(Blocks)

Complete(s) == \A k \in DOMAIN s : IsCall(s[k]) => s[k].body # 0
Distinct(s) == \A k, l \in DOMAIN s : IsCall(s[k]) /\ s[k].id = s[l].id => k = l
\* Without the adapter, what the last frame contradicts is not what the calls of s say.
Corrected(s, wrong) == \A k \in DOMAIN s : IsCall(s[k]) /\ s[k].id \in wrong => s[k].body # 1

EventFits(e, content, at, wrong) ==
  /\ e.type \in {"begin", "end"} => e.index \in DOMAIN content
  /\ e.type = "end" => content[e.index].body # 0
  /\ e.type \in Ends => at = "over"
  /\ Executable(e.type) => Complete(content)
  /\ native /\ e.type \in Ends \ {"error"} => wrong = {}

AdapterFits ==
  /\ \A n \in DOMAIN events : EventFits(events[n], out, net.at, against)
  /\ native \/ \A k \in DOMAIN out : ~out[k].async
  /\ native \/ \A i \in against : \E k \in DOMAIN out : out[k].id = i /\ out[k].body = 2
  /\ net.at # "over" => against = {}

PlannerFits ==
  /\ native \/ planner.proofs = {}
  /\ planner.cursor <= Len(out)
  /\ \A k \in 1..MaxBlocks : planner.slots[k].st # "none" =>
       k \in DOMAIN out /\ planner.slots[k].block.id = out[k].id
  /\ \A k \in 1..MaxBlocks : planner.slots[k].st = "closed" => planner.slots[k].block.body # 0
  /\ \A k, l \in 1..MaxBlocks :
       /\ planner.slots[k].st = "closed" /\ planner.slots[l].st = "closed"
       /\ planner.slots[k].block.id \in Calls /\ planner.slots[k].block.id = planner.slots[l].block.id
       => k = l

PlanFits ==
  /\ plan.kind = "none" => plan.content = <<>> /\ ~Executable(plan.reason)
  /\ plan.kind = "prefix" => native
  /\ plan.kind = "final" => net.at = "over" /\ (native /\ plan.reason # "error" => against = {})
  /\ plan.to <= Len(out)
  /\ Executable(plan.reason) => Complete(plan.content)
  /\ Distinct(plan.content) /\ (native \/ Corrected(plan.content, against))

LoopFits ==
  /\ co.at \in {"hook", "publish"} => plan.kind # "none"
  /\ co.at \in {"amend", "drain", "finish"} => plan.kind = "final"
  /\ co.at = "catch" => co.failed
  /\ Succeeded => plan.kind = "final" /\ plan.reason # "error"
  /\ unstarted # <<>> => co.at = "publish"

LogFits ==
  \A n \in DOMAIN log :
    /\ log[n].kind # "segment" => log[n].content = <<>>
    /\ log[n].kind = "segment" => native \/ net.at = "over"
    /\ Executable(log[n].reason) => Complete(log[n].content)
    /\ native \/ Corrected(log[n].content, against)

\* A place of the transcript where a call is, in a message that runs its calls or was truncated.
AdmittedAt(l, n, p) ==
  /\ n \in DOMAIN l /\ l[n].kind = "segment"
  /\ p \in DOMAIN l[n].content /\ IsCall(l[n].content[p])
  /\ Executable(l[n].reason) \/ l[n].reason = "length"

Accounted(s, l) ==
  \A k \in DOMAIN s : \E n, p \in Nat :
    AdmittedAt(l, n, p) /\ l[n].content[p] = s[k].call /\ (s[k].blocked \/ Executable(l[n].reason))
IdsDiffer(s) == \A k, l \in DOMAIN s : s[k].call.id = s[l].call.id => k = l

TasksFit ==
  /\ Accounted(tasks, log) /\ Accounted(unstarted, log)
  /\ IdsDiffer(tasks) /\ IdsDiffer(unstarted)
  /\ \A k \in DOMAIN tasks, l \in DOMAIN unstarted : tasks[k].call.id # unstarted[l].call.id
  /\ \A n, p, m, q \in Nat : AdmittedAt(log, n, p) /\ AdmittedAt(log, m, q)
                             /\ log[n].content[p].id = log[m].content[q].id => n = m /\ p = q
  /\ \A n, p \in Nat : AdmittedAt(log, n, p) =>
       \/ \E k \in DOMAIN tasks : tasks[k].call = log[n].content[p]
       \/ \E k \in DOMAIN unstarted : unstarted[k].call = log[n].content[p]

RanFits ==
  /\ \A r \in DOMAIN ran :
       /\ \E k \in DOMAIN tasks : tasks[k].over /\ tasks[k].call = ran[r]
       /\ \E n, p \in Nat : AdmittedAt(log, n, p) /\ Executable(log[n].reason) /\ log[n].content[p] = ran[r]
  /\ \A r, s \in DOMAIN ran : ran[r].id = ran[s].id => r = s

CallsInvariant ==
  /\ StreamTypeOK /\ AdapterFits /\ PlannerFits /\ PlanFits /\ LoopFits /\ LogFits /\ TasksFit
  /\ RanFits

-----------------------------------------------------------------------------
\* The number of members up to one of them tells the members apart, and takes every value.
LEMMA RanksAreExact ==
  ASSUME NEW S \in SUBSET Nat, IsFiniteSet(S)
  PROVE  /\ Cardinality(S) \in Nat
         /\ \A p \in S : Cardinality({q \in S : q <= p}) \in 1..Cardinality(S)
         /\ \A p, r \in S : Cardinality({q \in S : q <= p}) = Cardinality({q \in S : q <= r}) => p = r
         /\ \A n \in 1..Cardinality(S) : \E p \in S : Cardinality({q \in S : q <= p}) = n
<1> DEFINE upto(p) == {q \in S : q <= p}
           rank == [p \in S |-> Cardinality(upto(p))]
<1>1. Cardinality(S) \in Nat
  BY FS_CardinalityType
<1>2. ASSUME NEW p \in S
      PROVE  /\ IsFiniteSet(upto(p)) /\ upto(p) \subseteq S
             /\ Cardinality(upto(p)) \in 1..Cardinality(S)
  <2>1. upto(p) \in SUBSET S /\ p \in upto(p)
    OBVIOUS
  <2>2. IsFiniteSet(upto(p)) /\ Cardinality(upto(p)) <= Cardinality(S)
    BY <2>1, FS_Subset
  <2>3. Cardinality(upto(p)) \in Nat /\ Cardinality(upto(p)) # 0
    BY <2>1, <2>2, FS_CardinalityType, FS_EmptySet
  <2> QED
    BY <1>1, <2>1, <2>2, <2>3
<1>3. ASSUME NEW p \in S, NEW r \in S, p < r
      PROVE  Cardinality(upto(p)) # Cardinality(upto(r))
  <2>0. p \in Nat /\ r \in Nat /\ \A q \in S : q \in Nat
    OBVIOUS
  <2>1. upto(p) \in SUBSET upto(r) /\ r \in upto(r) /\ r \notin upto(p)
    <3>1. r \in upto(r) /\ r \notin upto(p)
      BY <1>3, <2>0
    <3>2. \A q \in upto(p) : q \in upto(r)
      BY <1>3, <2>0
    <3> QED
      BY <3>1, <3>2
  <2>2. IsFiniteSet(upto(r))
    BY <1>2
  <2> QED
    BY <2>1, <2>2, FS_Subset
<1>4. \A p, r \in S : Cardinality(upto(p)) = Cardinality(upto(r)) => p = r
  <2> SUFFICES ASSUME NEW p \in S, NEW r \in S, p # r
               PROVE  Cardinality(upto(p)) # Cardinality(upto(r))
    OBVIOUS
  <2>1. p < r \/ r < p
    OBVIOUS
  <2> QED
    BY <1>3, <2>1
<1>5. \A n \in 1..Cardinality(S) : \E p \in S : rank[p] = n
  <2>1. rank \in Injection(S, 1..Cardinality(S))
    <3> HIDE DEF upto
    <3> QED
      BY <1>2, <1>4 DEF Injection, IsInjective
  <2>2. IsFiniteSet(1..Cardinality(S)) /\ Cardinality(1..Cardinality(S)) = Cardinality(S)
    BY <1>1, FS_Interval
  <2>3. rank \in Surjection(S, 1..Cardinality(S))
    BY <2>1, <2>2, FS_Injection
  <2> QED
    BY <2>3 DEF Surjection
<1> QED
  BY <1>1, <1>2, <1>4, <1>5

\* InOrder(S) lists the members of S, each once.
LEMMA InOrderLists ==
  ASSUME NEW S \in SUBSET Nat, IsFiniteSet(S)
  PROVE  /\ Cardinality(S) \in Nat /\ DOMAIN InOrder(S) = 1..Cardinality(S)
         /\ \A n \in DOMAIN InOrder(S) : InOrder(S)[n] \in S
         /\ \A m, n \in DOMAIN InOrder(S) : InOrder(S)[m] = InOrder(S)[n] => m = n
         /\ \A p \in S : \E n \in DOMAIN InOrder(S) : InOrder(S)[n] = p
<1> DEFINE rank(p) == Cardinality({q \in S : q <= p})
<1>1. /\ Cardinality(S) \in Nat
      /\ \A p \in S : rank(p) \in 1..Cardinality(S)
      /\ \A p, r \in S : rank(p) = rank(r) => p = r
      /\ \A n \in 1..Cardinality(S) : \E p \in S : rank(p) = n
  BY RanksAreExact
<1>2. InOrder(S) = [n \in 1..Cardinality(S) |-> CHOOSE p \in S : rank(p) = n]
  BY DEF InOrder
<1> HIDE DEF rank
<1>3. \A n \in 1..Cardinality(S) : InOrder(S)[n] \in S /\ rank(InOrder(S)[n]) = n
  BY <1>1, <1>2
<1> QED
  BY <1>1, <1>2, <1>3

\* A set of places that is not empty has a last one.
LEMMA LastPlace ==
  ASSUME NEW S \in SUBSET Nat, IsFiniteSet(S), S # {}
  PROVE  \E p \in S : \A q \in S : q <= p
<1>1. Cardinality(S) \in Nat /\ Cardinality(S) # 0
  BY FS_CardinalityType, FS_EmptySet
<1>2. PICK p \in S : Cardinality({q \in S : q <= p}) = Cardinality(S)
  BY <1>1, RanksAreExact
<1>3. {q \in S : q <= p} = S
  BY <1>2, FS_Subset
<1> QED
  BY <1>3

\* The places of a sequence.
LEMMA PlacesAreFinite ==
  ASSUME NEW k \in Nat, NEW S \in SUBSET (1..k)
  PROVE  IsFiniteSet(S) /\ S \in SUBSET Nat
<1>1. IsFiniteSet(1..k)
  BY FS_Interval
<1>2. IsFiniteSet(S)
  BY <1>1, FS_Subset
<1>3. \A n \in 1..k : n \in Nat
  OBVIOUS
<1> QED
  BY <1>2, <1>3

\* What Append, concatenation and removal do to a sequence.
LEMMA AppendedTo ==
  ASSUME NEW s, s \in Seq({s[n] : n \in DOMAIN s}), NEW e
  PROVE  /\ Append(s, e) \in Seq({Append(s, e)[n] : n \in DOMAIN Append(s, e)})
         /\ Len(s) \in Nat /\ DOMAIN s = 1..Len(s) /\ DOMAIN Append(s, e) = 1..Len(s) + 1
         /\ Append(s, e)[Len(s) + 1] = e /\ \A n \in DOMAIN s : Append(s, e)[n] = s[n]
<1> DEFINE T == {s[n] : n \in DOMAIN s} \cup {e}
<1>1. s \in Seq(T) /\ e \in T
  OBVIOUS
<1> HIDE DEF T
<1>2. /\ Append(s, e) \in Seq(T) /\ Len(Append(s, e)) = Len(s) + 1
      /\ Append(s, e)[Len(s) + 1] = e /\ \A n \in 1..Len(s) : Append(s, e)[n] = s[n]
      /\ Len(s) \in Nat /\ DOMAIN s = 1..Len(s)
  BY <1>1
<1>3. DOMAIN Append(s, e) = 1..Len(s) + 1
  BY <1>2
<1> DEFINE a == Append(s, e)
<1>4. Append(s, e) \in Seq({Append(s, e)[n] : n \in DOMAIN Append(s, e)})
  <2> SUFFICES ASSUME NEW a2, a2 \in Seq(T) PROVE a2 \in Seq({a2[n] : n \in DOMAIN a2})
    BY <1>2
  <2> QED
    BY SMT
<1> QED
  BY <1>2, <1>3, <1>4

LEMMA Removed ==
  ASSUME NEW T, NEW s \in Seq(T), NEW i \in DOMAIN s
  PROVE  /\ RemoveAt(s, i) \in Seq(T) /\ Len(RemoveAt(s, i)) = Len(s) - 1
         /\ \A k \in DOMAIN RemoveAt(s, i) :
              \E l \in DOMAIN s : RemoveAt(s, i)[k] = s[l] /\ l = IF k < i THEN k ELSE k + 1
<1>1. i \in 1..Len(s) /\ Len(s) \in Nat
  OBVIOUS
<1> DEFINE a == SubSeq(s, 1, i - 1)
           b == SubSeq(s, i + 1, Len(s))
<1>2. a \in Seq(T) /\ Len(a) = i - 1 /\ \A k \in 1..i - 1 : a[k] = s[k]
  BY <1>1
<1>3. b \in Seq(T) /\ Len(b) = Len(s) - i /\ \A k \in 1..Len(s) - i : b[k] = s[i + k]
  BY <1>1
<1>5. RemoveAt(s, i) = a \o b
  BY DEF RemoveAt
<1> HIDE DEF a, b
<1> DEFINE r == a \o b
<1>4. /\ r \in Seq(T) /\ Len(r) = Len(s) - 1
      /\ \A k \in 1..i - 1 : r[k] = a[k]
      /\ \A k \in 1..Len(s) - i : r[i - 1 + k] = b[k]
  <2>1. r \in Seq(T) /\ Len(r) = Len(a) + Len(b)
    <3>1. a \in Seq(T) /\ b \in Seq(T)
      BY <1>2, <1>3
    <3> QED
      BY <3>1
  <2>2. Len(r) = Len(s) - 1
    BY <1>1, <1>2, <1>3, <2>1
  <2>3. \A k \in 1..Len(a) : r[k] = a[k]
    BY <1>2, <1>3
  <2>4. \A k \in 1..Len(b) : r[Len(a) + k] = b[k]
    BY <1>2, <1>3
  <2> QED
    BY <1>2, <1>3, <2>1, <2>2, <2>3, <2>4
<1> HIDE DEF r
<1>6. ASSUME NEW k \in DOMAIN r
      PROVE  \E l \in DOMAIN s : r[k] = s[l] /\ l = IF k < i THEN k ELSE k + 1
  <2>1. k \in 1..Len(s) - 1
    BY <1>1, <1>4
  <2>2. CASE k < i
    <3>1. k \in 1..i - 1 /\ k \in DOMAIN s
      BY <1>1, <2>1, <2>2
    <3> QED
      BY <1>2, <1>4, <2>2, <3>1
  <2>3. CASE ~(k < i)
    <3>1. k - (i - 1) \in 1..Len(s) - i /\ i - 1 + (k - (i - 1)) = k /\ i + (k - (i - 1)) = k + 1
      BY <1>1, <2>1, <2>3
    <3>2. r[i - 1 + (k - (i - 1))] = b[k - (i - 1)]
      BY <1>4, <3>1
    <3>3. b[k - (i - 1)] = s[i + (k - (i - 1))]
      BY <1>3, <3>1
    <3>4. r[k] = s[k + 1]
      BY <3>1, <3>2, <3>3
    <3>5. k + 1 \in DOMAIN s
      BY <1>1, <2>1
    <3> QED
      BY <2>3, <3>4, <3>5
  <2> QED
    BY <2>2, <2>3
<1> QED
  BY <1>4, <1>5, <1>6 DEF r

LEMMA Joined ==
  ASSUME NEW T, NEW s \in Seq(T), NEW r \in Seq(T)
  PROVE  /\ s \o r \in Seq(T) /\ DOMAIN s = 1..Len(s) /\ DOMAIN r = 1..Len(r)
         /\ Len(s) \in Nat /\ Len(r) \in Nat /\ DOMAIN (s \o r) = 1..Len(s) + Len(r)
         /\ \A n \in DOMAIN s : n \in DOMAIN (s \o r) /\ (s \o r)[n] = s[n]
         /\ \A n \in DOMAIN r : Len(s) + n \in DOMAIN (s \o r) /\ (s \o r)[Len(s) + n] = r[n]
         /\ \A n \in DOMAIN (s \o r) : \/ n \in DOMAIN s
                                       \/ n - Len(s) \in DOMAIN r /\ Len(s) + (n - Len(s)) = n
<1> DEFINE j == s \o r
<1>1. /\ j \in Seq(T) /\ Len(j) = Len(s) + Len(r) /\ Len(s) \in Nat /\ Len(r) \in Nat
      /\ DOMAIN s = 1..Len(s) /\ DOMAIN r = 1..Len(r) /\ DOMAIN j = 1..Len(j)
  OBVIOUS
<1>2. \A n \in 1..Len(s) : j[n] = s[n]
  OBVIOUS
<1>3. \A n \in 1..Len(r) : j[Len(s) + n] = r[n]
  OBVIOUS
<1> HIDE DEF j
<1>4. \A n \in DOMAIN j : n \in DOMAIN s \/ (n - Len(s) \in DOMAIN r /\ Len(s) + (n - Len(s)) = n)
  BY <1>1
<1>5. /\ \A n \in DOMAIN s : n \in DOMAIN j
      /\ \A n \in DOMAIN r : Len(s) + n \in DOMAIN j
  BY <1>1
<1> QED
  BY <1>1, <1>2, <1>3, <1>4, <1>5 DEF j

-----------------------------------------------------------------------------
LEMMA AttemptStarts == Init => CallsInvariant
<1> SUFFICES ASSUME Init PROVE CallsInvariant
  OBVIOUS
<1> USE StreamAssumption
<1>1. StreamTypeOK
  <2>1. planner \in PlannerRecords
    BY DEF Init, PlannerRecords, SlotRecords
  <2>2. net \in NetRecords
    <3>1. /\ net = [at |-> net.at, ws |-> net.ws, tries |-> net.tries, heard |-> net.heard,
                    reused |-> net.reused]
          /\ net.at = "connect" /\ net.ws \in {TRUE} /\ net.tries = 0 /\ net.heard \in {FALSE}
          /\ net.reused \in BOOLEAN
      BY DEF Init
    <3>2. net.tries \in Nat
      BY <3>1
    <3>3. net.ws \in BOOLEAN
      BY <3>1, Zenon
    <3>4. net.heard \in BOOLEAN
      BY <3>1, Zenon
    <3> QED
      BY <3>1, <3>2, <3>3, <3>4 DEF NetRecords
  <2>3. log \in Seq({log[n] : n \in DOMAIN log})
    BY DEF Init
  <2>4. out \in Seq(Blocks) /\ events \in Seq(EventRecords) /\ unstarted \in Seq(TaskRecords)
        /\ tasks \in Seq(TaskRecords) /\ ran \in Seq(Blocks) /\ Len(out) <= MaxBlocks
    BY DEF Init
  <2>5. /\ plan.kind = "none" /\ plan.to = 0 /\ plan.content \in Seq(Blocks)
        /\ Len(plan.content) <= MaxBlocks
    BY DEF Init, NoPlan
  <2>6. /\ co = [at |-> co.at, todo |-> co.todo, failed |-> co.failed, committed |-> co.committed]
        /\ co.at \in Steps /\ co.failed \in BOOLEAN
    BY DEF Init, Steps
  <2>7. native \in BOOLEAN /\ against \subseteq Items /\ DOMAIN log = {}
    BY DEF Init
  <2>8. aborted \in BOOLEAN
    BY DEF Init
  <2> QED
    BY <2>1, <2>2, <2>3, <2>4, <2>5, <2>6, <2>7, <2>8 DEF StreamTypeOK
<1>2. AdapterFits /\ PlannerFits /\ PlanFits /\ LoopFits
  BY DEF Init, AdapterFits, PlannerFits, PlanFits, LoopFits, NoPlan, NoSlot, Succeeded, Complete,
         Distinct, Corrected, Executable
<1>3. LogFits /\ TasksFit /\ RanFits
  BY DEF Init, LogFits, TasksFit, RanFits, Accounted, IdsDiffer, AdmittedAt
<1> QED
  BY <1>1, <1>2, <1>3 DEF CallsInvariant

-----------------------------------------------------------------------------
(* Steps of the adapter. *)

OutGrows ==
  /\ out' \in Seq(Blocks) /\ Len(out') <= MaxBlocks /\ Len(out) <= Len(out')
  /\ \A k \in DOMAIN out : /\ k \in DOMAIN out' /\ out'[k].id = out[k].id
                           /\ out[k].body # 0 => out'[k].body # 0

AdapterSteps ==
  /\ net.at # "over" /\ OutGrows
  /\ UNCHANGED <<native, actor, ran, aborted>> /\ StreamTypeOK' /\ AdapterFits'

\* New events that fit, and a message that only grows, keep the adapter's invariant.
LEMMA AdapterKept ==
  ASSUME StreamTypeOK, AdapterFits, net.at # "over", UNCHANGED <<native, actor, ran, aborted>>,
         net' \in NetRecords, OutGrows, against' \subseteq Items, events' \in Seq(EventRecords),
         \A n \in DOMAIN events' : \/ \E m \in DOMAIN events : events'[n] = events[m]
                                  \/ EventFits(events'[n], out', net'.at, against'),
         native \/ \A k \in DOMAIN out' : ~out'[k].async,
         native \/ \A i \in against' : \E k \in DOMAIN out' : out'[k].id = i /\ out'[k].body = 2,
         net'.at # "over" => against' = {}
  PROVE  AdapterSteps
<1>1. StreamTypeOK'
  BY DEF StreamTypeOK, OutGrows, actor
<1>2. ASSUME NEW n \in DOMAIN events', NEW m \in DOMAIN events, events'[n] = events[m]
      PROVE  EventFits(events'[n], out', net'.at, against')
  <2>1. EventFits(events[m], out, net.at, against) /\ events[m] \in EventRecords
    BY DEF AdapterFits, StreamTypeOK
  <2>2. events[m].type \notin Ends /\ ~Executable(events[m].type)
    BY <2>1 DEF EventFits, Executable, Ends
  <2> QED
    BY <1>2, <2>1, <2>2 DEF EventFits, OutGrows
<1>3. AdapterFits'
  <2>1. \A n \in DOMAIN events' : EventFits(events'[n], out', net'.at, against')
    BY <1>2
  <2>2. native' = native
    OBVIOUS
  <2>3. \A n \in DOMAIN events' : EventFits(events[n], out, net.at, against)'
    BY <2>1, <2>2 DEF EventFits, Complete, IsCall, Executable
  <2> QED
    BY <2>2, <2>3 DEF AdapterFits
<1> QED
  BY <1>1, <1>3 DEF AdapterSteps

LEMMA FailuresFit ==
  ASSUME StreamTypeOK, AdapterFits, net.at # "over", net' = [net EXCEPT !.at = "over"],
         events' = Failed(events), UNCHANGED <<native, out, actor, ran, aborted>>,
         against' \subseteq Items, native \/ UNCHANGED against
  PROVE  AdapterSteps
<1>1. net' \in NetRecords /\ net'.at = "over"
  BY DEF StreamTypeOK, NetRecords
<1>2. events' = Append(events, Event("error", 0)) /\ Event("error", 0) \in EventRecords
  BY DEF Failed, Event, EventRecords, Ends
<1>3. events' \in Seq(EventRecords) /\ DOMAIN events' = 1..Len(events) + 1
      /\ events'[Len(events) + 1] = Event("error", 0)
      /\ \A n \in DOMAIN events : events'[n] = events[n]
      /\ Len(events) \in Nat /\ DOMAIN events = 1..Len(events)
  BY <1>2 DEF StreamTypeOK
<1>4. EventFits(Event("error", 0), out', net'.at, against')
  BY <1>1 DEF EventFits, Event, Executable, Ends
<1>5. OutGrows
  BY DEF OutGrows, StreamTypeOK
<1>6. /\ native \/ \A k \in DOMAIN out' : ~out'[k].async
      /\ native \/ \A i \in against' : \E k \in DOMAIN out' : out'[k].id = i /\ out'[k].body = 2
  BY DEF AdapterFits
<1>7. \A n \in DOMAIN events' : \/ \E m \in DOMAIN events : events'[n] = events[m]
                               \/ EventFits(events'[n], out', net'.at, against')
  BY <1>3, <1>4
<1> QED
  BY <1>1, <1>3, <1>5, <1>6, <1>7, AdapterKept

LEMMA EndsFit ==
  ASSUME StreamTypeOK, AdapterFits, net.at # "over", UNCHANGED aborted, EndsInFailure
  PROVE  AdapterSteps
<1>1. /\ net' = [net EXCEPT !.at = "over"] /\ events' = Failed(events)
      /\ UNCHANGED <<native, out, actor, ran, aborted>> /\ UNCHANGED against
  BY DEF EndsInFailure
<1>2. against' \subseteq Items
  BY <1>1 DEF StreamTypeOK
<1> QED
  BY <1>1, <1>2, FailuresFit

\* The events that a frame pushes come after those that wait.
LEMMA FramesFit ==
  ASSUME StreamTypeOK, AdapterFits, net.at # "over",
         NEW message \in Seq(Blocks), NEW evs \in Seq(EventRecords), Receives(message, evs),
         net' \in NetRecords, OutGrows, against' \subseteq Items,
         \A n \in DOMAIN evs : EventFits(evs[n], message, net'.at, against'),
         native \/ \A k \in DOMAIN message : ~message[k].async,
         native \/ \A i \in against' : \E k \in DOMAIN message : message[k].id = i /\ message[k].body = 2,
         net'.at # "over" => against' = {}
  PROVE  AdapterSteps
<1>1. PICK waiting \in {events, Append(events, Event("start", 0))} : events' = waiting \o evs
  BY DEF Receives
<1>2. Event("start", 0) \in EventRecords /\ EventFits(Event("start", 0), out', net'.at, against')
  BY DEF Event, EventRecords, EventFits, Ends, Executable
<1>3. waiting \in Seq(EventRecords)
  <2>1. events \in Seq(EventRecords)
    BY DEF StreamTypeOK
  <2>2. Append(events, Event("start", 0)) \in Seq(EventRecords)
    BY <1>2, <2>1
  <2> QED
    BY <2>1, <2>2
<1>4. \A n \in DOMAIN waiting : \/ \E m \in DOMAIN events : waiting[n] = events[m]
                                \/ EventFits(waiting[n], out', net'.at, against')
  <2>1. CASE waiting = events
    BY <2>1
  <2>2. CASE waiting = Append(events, Event("start", 0))
    <3>1. /\ DOMAIN waiting = 1..Len(events) + 1 /\ waiting[Len(events) + 1] = Event("start", 0)
          /\ \A n \in DOMAIN events : waiting[n] = events[n]
          /\ Len(events) \in Nat /\ DOMAIN events = 1..Len(events)
      BY <2>2 DEF StreamTypeOK
    <3> QED
      BY <1>2, <3>1
  <2> QED
    BY <2>1, <2>2
<1>5. out' = message /\ UNCHANGED <<native, actor, ran, aborted>>
  BY DEF Receives
<1>6. ASSUME NEW n \in DOMAIN events'
      PROVE  \/ \E m \in DOMAIN events : events'[n] = events[m]
             \/ EventFits(events'[n], out', net'.at, against')
  <2>1. \/ n \in DOMAIN waiting /\ events'[n] = waiting[n]
        \/ n - Len(waiting) \in DOMAIN evs /\ events'[n] = evs[n - Len(waiting)]
    BY <1>1, <1>3, Joined
  <2> QED
    BY <1>4, <1>5, <2>1
<1>7. events' \in Seq(EventRecords)
  BY <1>1, <1>3, Joined
<1> QED
  BY <1>5, <1>6, <1>7, AdapterKept

LEMMA ConnectFits == ASSUME StreamTypeOK, AdapterFits, Connect PROVE AdapterSteps
<1> USE DEF Connect
<1>1. net' \in NetRecords /\ net'.at # "over" /\ net.at # "over"
  BY DEF StreamTypeOK, NetRecords
<1>2. Event("start", 0) \in EventRecords /\ EventFits(Event("start", 0), out', net'.at, against')
  BY DEF Event, EventRecords, EventFits, Ends, Executable
<1>3. events \in Seq(EventRecords)
  BY DEF StreamTypeOK
<1>4. events' = events \/ events' = Append(events, Event("start", 0))
  OBVIOUS
<1>5. /\ events' \in Seq(EventRecords)
      /\ \A n \in DOMAIN events' : \/ \E m \in DOMAIN events : events'[n] = events[m]
                                   \/ EventFits(events'[n], out', net'.at, against')
  <2>1. CASE events' = events
    BY <1>3, <2>1
  <2>2. CASE events' = Append(events, Event("start", 0))
    <3>1. /\ DOMAIN events' = 1..Len(events) + 1 /\ events'[Len(events) + 1] = Event("start", 0)
          /\ \A n \in DOMAIN events : events'[n] = events[n]
          /\ Len(events) \in Nat /\ DOMAIN events = 1..Len(events)
          /\ events' \in Seq(EventRecords)
      BY <1>2, <1>3, <2>2
    <3> QED
      BY <1>2, <3>1
  <2> QED
    BY <1>4, <2>1, <2>2
<1>6. OutGrows /\ against' \subseteq Items
  BY DEF OutGrows, StreamTypeOK
<1>7. /\ native \/ \A k \in DOMAIN out' : ~out'[k].async
      /\ native \/ \A i \in against' : \E k \in DOMAIN out' : out'[k].id = i /\ out'[k].body = 2
      /\ net'.at # "over" => against' = {}
  BY <1>1 DEF AdapterFits
<1>8. UNCHANGED <<native, actor, ran, aborted>>
  OBVIOUS
<1> HIDE DEF Connect
<1> QED
  BY <1>1, <1>5, <1>6, <1>7, <1>8, AdapterKept

\* The connection fails or another one is tried.
LEMMA RetryFits ==
  ASSUME StreamTypeOK, AdapterFits, net.at # "over", net' \in NetRecords, net'.at # "over",
         UNCHANGED <<native, out, against, events, actor, ran, aborted>>
  PROVE  AdapterSteps
<1>1. OutGrows /\ against' \subseteq Items
  BY DEF OutGrows, StreamTypeOK
<1>2. /\ events' \in Seq(EventRecords)
      /\ \A n \in DOMAIN events' : \E m \in DOMAIN events : events'[n] = events[m]
  BY DEF StreamTypeOK
<1>3. /\ native \/ \A k \in DOMAIN out' : ~out'[k].async
      /\ native \/ \A i \in against' : \E k \in DOMAIN out' : out'[k].id = i /\ out'[k].body = 2
      /\ net'.at # "over" => against' = {}
  BY DEF AdapterFits
<1> QED
  BY <1>1, <1>2, <1>3, AdapterKept

LEMMA TransportFits ==
  ASSUME StreamTypeOK, AdapterFits,
         ConnectFails \/ Rejected \/ RequestAborted \/ StreamFails \/ \E i \in Items : RetiredFrame(i)
  PROVE  AdapterSteps
<1>1. CASE ConnectFails
  <2>1. CASE native /\ net.ws
    <3>1. /\ net.at # "over" /\ net' \in NetRecords /\ net'.at # "over"
          /\ UNCHANGED <<native, out, against, events, actor, ran, aborted>>
      BY <1>1, <2>1 DEF ConnectFails, StreamTypeOK, NetRecords
    <3> QED
      BY <3>1, RetryFits
  <2>2. CASE ~(native /\ net.ws)
    <3>1. net.at # "over" /\ EndsInFailure
      BY <1>1, <2>2 DEF ConnectFails
    <3> QED
      BY <3>1, EndsFit DEF EndsInFailure
  <2> QED
    BY <2>1, <2>2
<1>2. CASE Rejected
  <2>1. CASE Resendable
    <3>0. /\ net.at = "open" /\ net' = [net EXCEPT !.at = "connect", !.tries = 1, !.reused = FALSE]
          /\ UNCHANGED <<native, out, against, events, actor, ran, aborted>>
      BY <1>2, <2>1, Zenon DEF Rejected
    <3>1. /\ net.at # "over" /\ net' \in NetRecords /\ net'.at # "over"
          /\ UNCHANGED <<native, out, against, events, actor, ran, aborted>>
      BY <3>0 DEF StreamTypeOK, NetRecords
    <3> QED
      BY <3>1, RetryFits
  <2>2. CASE ~Resendable
    <3>1. net.at # "over" /\ EndsInFailure
      BY <1>2, <2>2 DEF Rejected
    <3> QED
      BY <3>1, EndsFit DEF EndsInFailure
  <2> QED
    BY <2>1, <2>2
<1>3. CASE RequestAborted \/ StreamFails \/ \E i \in Items : RetiredFrame(i)
  <2>1. net.at # "over" /\ EndsInFailure
    BY <1>3 DEF RequestAborted, StreamFails, RetiredFrame, Listening
  <2> QED
    BY <2>1, EndsFit DEF EndsInFailure
<1> QED
  BY <1>1, <1>2, <1>3

LEMMA NewBlock ==
  ASSUME NEW i \in Items
  PROVE  Block(i, 0) \in Blocks /\ Block(i, 0).id = i /\ ~Block(i, 0).async
BY DEF Block, Blocks

\* A block is added at the end of the message.
LEMMA AddedFits ==
  ASSUME StreamTypeOK, AdapterFits, Listening, Len(out) < MaxBlocks, UNCHANGED against, Heard,
         NEW b \in Blocks, native \/ ~b.async, NEW evs \in Seq(EventRecords),
         Receives(Append(out, b), evs),
         \A n \in DOMAIN evs : evs[n].type = "begin" \/ (evs[n].type = "end" /\ b.body # 0),
         \A n \in DOMAIN evs : evs[n].index = Len(out) + 1
  PROVE  AdapterSteps
<1> USE StreamAssumption
<1> DEFINE message == Append(out, b)
<1>1. out \in Seq(Blocks) /\ Len(out) \in Nat /\ DOMAIN out = 1..Len(out)
  BY DEF StreamTypeOK
<1>2. /\ message \in Seq(Blocks) /\ Len(message) = Len(out) + 1 /\ DOMAIN message = 1..Len(out) + 1
      /\ message[Len(out) + 1] = b /\ \A k \in DOMAIN out : message[k] = out[k]
  BY <1>1
<1> HIDE DEF message
<1>3. out' = message
  BY DEF Receives, message
<1>4. net' \in NetRecords /\ net'.at = "open" /\ net.at = "open"
  BY DEF Heard, Listening, StreamTypeOK, NetRecords
<1>5. OutGrows
  BY <1>1, <1>2, <1>3 DEF OutGrows
<1>6. \A n \in DOMAIN evs : EventFits(evs[n], message, net'.at, against')
  BY <1>1, <1>2 DEF EventFits, Executable, Ends
<1>7. /\ native \/ \A k \in DOMAIN message : ~message[k].async
      /\ against' = {}
  BY <1>1, <1>2, <1>4 DEF AdapterFits
<1>8. Receives(message, evs)
  BY DEF message
<1> QED
  BY <1>2, <1>4, <1>5, <1>6, <1>7, <1>8, FramesFit

LEMMA ItemAddedFits ==
  ASSUME StreamTypeOK, AdapterFits, NEW i \in Items, ItemAdded(i) \/ ItemRepeated(i)
  PROVE  AdapterSteps
<1>1. Block(i, 0) \in Blocks /\ ~Block(i, 0).async
  BY NewBlock
<1>2. (Listening /\ Len(out) < MaxBlocks /\ net.at # "over" /\ UNCHANGED aborted) \/ EndsInFailure
  BY DEF ItemAdded, ItemRepeated, Comes, Listening, Receives
<1>3. CASE /\ Receives(Append(out, Block(i, 0)), <<Event("begin", Len(out) + 1)>>)
           /\ Heard /\ UNCHANGED against
  <2>1. Listening /\ Len(out) < MaxBlocks
    BY DEF ItemAdded, ItemRepeated, Comes
  <2> DEFINE evs == <<Event("begin", Len(out) + 1)>>
  <2>2. evs \in Seq(EventRecords) /\ \A n \in DOMAIN evs : evs[n].type = "begin" /\ evs[n].index = Len(out) + 1
    BY DEF Event, EventRecords, StreamTypeOK
  <2> HIDE DEF evs
  <2> QED
    BY <1>1, <1>3, <2>1, <2>2, AddedFits DEF evs
<1>4. CASE EndsInFailure
  <2>1. net.at # "over"
    BY DEF ItemAdded, ItemRepeated, Comes, Listening
  <2> QED
    BY <1>4, <2>1, EndsFit DEF EndsInFailure
<1> QED
  BY <1>3, <1>4 DEF ItemAdded, ItemRepeated

LEMMA CompletionsFit ==
  ASSUME NEW i \in Items, NEW b \in Completions(i)
  PROVE  b \in Blocks /\ b.id = i /\ b.body = 1 /\ (native \/ ~b.async)
<1>1. PICK async \in BOOLEAN, cipher \in BOOLEAN :
        b = Completed(i, async /\ native /\ i \in Calls, cipher /\ i \in Thoughts)
  BY DEF Completions
<1> DEFINE ciphered == cipher /\ i \in Thoughts
           early == (async /\ native /\ i \in Calls) /\ i \in Opted
<1>2. b = [id |-> i, body |-> 1, cipher |-> ciphered, async |-> early]
  BY <1>1 DEF Completed, Block
<1>3. ciphered \in BOOLEAN /\ early \in BOOLEAN /\ (native \/ ~early)
  OBVIOUS
<1> HIDE DEF ciphered, early
<1>4. b \in Blocks
  BY <1>2, <1>3 DEF Blocks
<1>5. b.id = i /\ b.body = 1 /\ b.async = early
  BY <1>2
<1> QED
  BY <1>3, <1>4, <1>5

\* response.output_item.done closes a block that was open, or adds one.
LEMMA ItemDoneFits ==
  ASSUME StreamTypeOK, AdapterFits, NEW i \in Items, NEW b \in Completions(i), ItemDone(i, b)
  PROVE  AdapterSteps
<1> USE StreamAssumption
<1>1. b \in Blocks /\ b.id = i /\ b.body = 1 /\ (native \/ ~b.async)
  BY CompletionsFit
<1>2. out \in Seq(Blocks) /\ Len(out) \in Nat /\ DOMAIN out = 1..Len(out)
  BY DEF StreamTypeOK
<1>3. CASE i \notin Ids(out)
  <2> DEFINE first == <<Event("begin", Len(out) + 1)>>
             second == <<Event("end", Len(out) + 1)>>
             evs == first \o second
  <2>1. /\ first \in Seq(EventRecords) /\ second \in Seq(EventRecords)
        /\ \A n \in DOMAIN first : first[n].type = "begin" /\ first[n].index = Len(out) + 1
        /\ \A n \in DOMAIN second : second[n].type = "end" /\ second[n].index = Len(out) + 1
    BY <1>2 DEF Event, EventRecords
  <2> HIDE DEF first, second
  <2>2. /\ evs \in Seq(EventRecords)
        /\ \A n \in DOMAIN evs : evs[n].type \in {"begin", "end"} /\ evs[n].index = Len(out) + 1
    <3>1. evs \in Seq(EventRecords)
      BY <2>1, Joined
    <3>2. ASSUME NEW n \in DOMAIN evs
          PROVE  evs[n].type \in {"begin", "end"} /\ evs[n].index = Len(out) + 1
      <4>1. \/ n \in DOMAIN first /\ evs[n] = first[n]
            \/ n - Len(first) \in DOMAIN second /\ evs[n] = second[n - Len(first)]
        BY <2>1, Joined
      <4> QED
        BY <2>1, <4>1
    <3> QED
      BY <3>1, <3>2
  <2> HIDE DEF evs
  <2>3. /\ Listening /\ Len(out) < MaxBlocks /\ UNCHANGED against /\ Heard
        /\ Receives(Append(out, b), evs)
    BY <1>2, <1>3 DEF ItemDone, Comes, evs, first, second
  <2> QED
    BY <1>1, <2>2, <2>3, AddedFits
<1>4. CASE i \in Ids(out)
  <2> DEFINE k == CHOOSE l \in DOMAIN out : out[l].id = i
             message == [out EXCEPT ![k] = b]
             evs == <<>> \o <<Event("end", k)>>
  <2>1. k \in DOMAIN out /\ out[k].id = i
    BY <1>4 DEF Ids
  <2>2. Listening /\ out[k].body = 0 /\ Receives(message, evs) /\ Heard /\ UNCHANGED against
    BY <1>4, <2>1 DEF ItemDone, Comes
  <2> HIDE DEF k
  <2>3. evs \in Seq(EventRecords) /\ \A n \in DOMAIN evs : evs[n].type = "end" /\ evs[n].index = k
    BY <1>2, <2>1 DEF Event, EventRecords
  <2>4. /\ message \in Seq(Blocks) /\ Len(message) = Len(out) /\ DOMAIN message = DOMAIN out
        /\ message[k] = b /\ \A l \in DOMAIN out : l # k => message[l] = out[l]
    BY <1>1, <1>2, <2>1
  <2> HIDE DEF message, evs
  <2>5. out' = message
    BY <2>2 DEF Receives
  <2>6. net' \in NetRecords /\ net'.at = "open" /\ net.at = "open"
    BY <2>2 DEF Heard, Listening, StreamTypeOK, NetRecords
  <2>7. OutGrows
    <3>1. Len(out) <= MaxBlocks
      BY DEF StreamTypeOK
    <3>2. ASSUME NEW l \in DOMAIN out
          PROVE  /\ l \in DOMAIN message /\ message[l].id = out[l].id
                 /\ out[l].body # 0 => message[l].body # 0
      BY <1>1, <2>1, <2>2, <2>4
    <3> QED
      BY <1>2, <2>4, <2>5, <3>1, <3>2 DEF OutGrows
  <2>8. \A n \in DOMAIN evs : EventFits(evs[n], message, net'.at, against')
    BY <1>1, <2>1, <2>3, <2>4 DEF EventFits, Executable, Ends
  <2>9. (native \/ \A l \in DOMAIN message : ~message[l].async) /\ against' = {}
    BY <1>1, <2>2, <2>4, <2>6 DEF AdapterFits
  <2> QED
    BY <2>2, <2>3, <2>4, <2>6, <2>7, <2>8, <2>9, FramesFit
<1> QED
  BY <1>3, <1>4

\* response.completed and response.incomplete.
LEMMA TerminalFits ==
  ASSUME StreamTypeOK, AdapterFits, NEW completes \in SUBSET DOMAIN out,
         NEW ciphers \in SUBSET DOMAIN out, NEW wrong \in SUBSET DOMAIN out,
         NEW status \in {"completed", "incomplete"}, Terminal(completes, ciphers, wrong, status)
  PROVE  AdapterSteps
<1> DEFINE ended == InOrder(completes)
           message == Told(completes, ciphers, wrong)
           ends == [n \in DOMAIN ended |-> Event("end", ended[n])]
           last == <<Event(StopReason(status), 0)>>
<1>1. out \in Seq(Blocks) /\ Len(out) \in Nat /\ DOMAIN out = 1..Len(out) /\ Len(out) <= MaxBlocks
  BY DEF StreamTypeOK
<1>2. /\ net.at = "open" /\ net' = [net EXCEPT !.at = "over"]
      /\ against' = {out[k].id : k \in wrong}
      /\ \A k \in completes : out[k].body = 0
      /\ \A k \in wrong : out[k].body = 1
  BY DEF Terminal, Listening
<1>3. against' \subseteq Items
  <2>1. \A k \in wrong : out[k].id \in Items
    <3>1. \A k \in wrong : out[k] \in Blocks
      BY <1>1
    <3> QED
      BY <3>1 DEF Blocks
  <2> QED
    BY <1>2, <2>1
<1>4. CASE native /\ (Conflicts(wrong) \/ LeavesCallOpen(completes))
  <2>1. events' = Failed(events) /\ UNCHANGED <<native, out, actor, ran, aborted>>
    BY <1>4 DEF Terminal
  <2> QED
    BY <1>2, <1>3, <1>4, <2>1, FailuresFit
<1>5. CASE ~(native /\ (Conflicts(wrong) \/ LeavesCallOpen(completes)))
  <2>1. Receives(message, ends \o last)
    BY <1>5, Zenon DEF Terminal
  <2>2. net' \in NetRecords /\ net'.at = "over"
    BY <1>2 DEF StreamTypeOK, NetRecords
  <2>3. ASSUME NEW k \in DOMAIN out
        PROVE  /\ message[k] \in Blocks /\ message[k].id = out[k].id
               /\ message[k].async = out[k].async
               /\ message[k].body = IF k \in completes THEN 1
                                    ELSE IF k \in wrong /\ ~native THEN 2 ELSE out[k].body
    <3> DEFINE body == IF k \in completes THEN 1
                       ELSE IF k \in wrong /\ ~native THEN 2 ELSE out[k].body
               cipher == out[k].cipher \/ k \in ciphers
    <3>1. out[k] \in Blocks
      BY <1>1
    <3>2. message[k] = [[out[k] EXCEPT !.body = body] EXCEPT !.cipher = cipher]
      BY DEF Told
    <3>3. body \in 0..3 /\ cipher \in BOOLEAN
      BY <3>1 DEF Blocks
    <3> HIDE DEF body, cipher, message
    <3>4. /\ message[k] \in Blocks /\ message[k].id = out[k].id
          /\ message[k].async = out[k].async /\ message[k].body = body
      BY <3>1, <3>2, <3>3 DEF Blocks
    <3> QED
      BY <3>4 DEF body
  <2>4. message \in Seq(Blocks) /\ DOMAIN message = DOMAIN out /\ Len(message) = Len(out)
    <3>1. message = [k \in 1..Len(out) |-> message[k]]
      BY <1>1 DEF Told
    <3> HIDE DEF message
    <3> QED
      BY <1>1, <2>3, <3>1
  <2>5. out' = message
    BY <2>1 DEF Receives
  <2> HIDE DEF message
  <2>6. OutGrows
    BY <1>1, <2>3, <2>4, <2>5 DEF OutGrows
  <2>7. /\ DOMAIN ended = 1..Cardinality(completes) /\ Cardinality(completes) \in Nat
        /\ \A n \in DOMAIN ended : ended[n] \in completes
    BY <1>1, PlacesAreFinite, InOrderLists
  <2> HIDE DEF ended
  <2>8. /\ ends \in Seq(EventRecords)
        /\ \A n \in DOMAIN ends : ends[n].type = "end" /\ ends[n].index \in completes
    <3>1. \A n \in DOMAIN ended : Event("end", ended[n]) \in EventRecords
      BY <1>1, <2>7 DEF Event, EventRecords
    <3>2. ends \in Seq(EventRecords)
      BY <2>7, <3>1
    <3>3. \A n \in DOMAIN ends : ends[n].type = "end" /\ ends[n].index \in completes
      BY <2>7 DEF Event
    <3> QED
      BY <3>2, <3>3
  <2>9. /\ StopReason(status) \in Ends \ {"error"}
        /\ Executable(StopReason(status)) => status = "completed"
    BY DEF StopReason, Ends, Executable
  <2>10. last \in Seq(EventRecords) /\ \A n \in DOMAIN last : last[n].type = StopReason(status)
    BY <2>9 DEF Event, EventRecords
  <2>11. ASSUME status = "completed"
         PROVE  Complete(message)
    <3>1. \A k \in DOMAIN out : IsCall(out[k]) /\ out[k].body = 0 => k \in completes
      <4>1. CASE native
        BY <1>5, <4>1 DEF LeavesCallOpen
      <4>2. CASE ~native
        BY <2>11, <4>2 DEF Terminal
      <4> QED
        BY <4>1, <4>2
    <3> QED
      BY <1>1, <2>3, <2>4, <3>1 DEF Complete, IsCall, Blocks
  <2>12. native => against' = {}
    BY <1>2, <1>5 DEF Conflicts
  <2> HIDE DEF ends, last
  <2>13. ends \o last \in Seq(EventRecords)
    BY <2>8, <2>10, Joined
  <2>14. ASSUME NEW n \in DOMAIN (ends \o last)
         PROVE  EventFits((ends \o last)[n], message, net'.at, against')
    <3>1. CASE n \in DOMAIN ends
      <4>1. (ends \o last)[n] = ends[n]
        BY <2>8, <2>10, <3>1, Joined
      <4> QED
        BY <2>3, <2>4, <2>8, <3>1, <4>1 DEF EventFits, Executable, Ends
    <3>2. CASE n - Len(ends) \in DOMAIN last /\ Len(ends) + (n - Len(ends)) = n
      <4>1. (ends \o last)[n] = last[n - Len(ends)]
        BY <2>8, <2>10, <3>2, Joined
      <4>2. (ends \o last)[n].type = StopReason(status)
        BY <2>10, <3>2, <4>1
      <4> QED
        BY <2>2, <2>9, <2>11, <2>12, <4>2 DEF EventFits, Ends
    <3> QED
      BY <2>8, <2>10, <3>1, <3>2, Joined
  <2>15. /\ native \/ \A k \in DOMAIN message : ~message[k].async
         /\ native \/ \A i \in against' : \E k \in DOMAIN message : message[k].id = i /\ message[k].body = 2
    BY <1>2, <2>3, <2>4 DEF AdapterFits
  <2> QED
    BY <1>2, <1>3, <2>1, <2>2, <2>4, <2>6, <2>13, <2>14, <2>15, FramesFit
<1> QED
  BY <1>4, <1>5

LEMMA AdapterStepsFit ==
  ASSUME StreamTypeOK, AdapterFits,
         Connect \/ ConnectFails \/ Rejected \/ RequestAborted \/ Frame
  PROVE  AdapterSteps
BY ConnectFits, TransportFits, ItemAddedFits, ItemDoneFits, TerminalFits DEF Frame

\* The transcript gets nothing, or an amendment or a failure.
QuietLog ==
  /\ log' \in Seq({log'[n] : n \in DOMAIN log'})
  /\ \A n \in DOMAIN log : n \in DOMAIN log' /\ log'[n] = log[n]
  /\ \A n \in DOMAIN log' : n \in DOMAIN log \/ (log'[n].kind # "segment" /\ log'[n].content = <<>>)

LEMMA LogIsQuiet ==
  ASSUME StreamTypeOK,
         \/ log' = log
         \/ \E e : log' = Append(log, e) /\ e.kind # "segment" /\ e.content = <<>>
  PROVE  QuietLog
<1>1. CASE log' = log
  BY <1>1 DEF QuietLog, StreamTypeOK
<1>2. CASE \E e : log' = Append(log, e) /\ e.kind # "segment" /\ e.content = <<>>
  <2>1. PICK e : log' = Append(log, e) /\ e.kind # "segment" /\ e.content = <<>>
    BY <1>2
  <2>2. log \in Seq({log[n] : n \in DOMAIN log})
    BY DEF StreamTypeOK
  <2>3. /\ log' \in Seq({log'[n] : n \in DOMAIN log'}) /\ Len(log) \in Nat
        /\ DOMAIN log = 1..Len(log) /\ DOMAIN log' = 1..Len(log) + 1
        /\ log'[Len(log) + 1] = e /\ \A n \in DOMAIN log : log'[n] = log[n]
    BY <2>1, <2>2, AppendedTo
  <2>4. \A n \in DOMAIN log' : n \in DOMAIN log \/ n = Len(log) + 1
    BY <2>3
  <2>5. \A n \in DOMAIN log : n \in DOMAIN log'
    BY <2>3
  <2> QED
    BY <2>1, <2>3, <2>4, <2>5 DEF QuietLog
<1> QED
  BY <1>1, <1>2

LEMMA QuietAdmissions ==
  ASSUME QuietLog
  PROVE  \A n, p : /\ AdmittedAt(log', n, p) <=> AdmittedAt(log, n, p)
                   /\ AdmittedAt(log, n, p) => log'[n] = log[n]
BY DEF QuietLog, AdmittedAt

\* What holds of the tasks depends on the segments of the log only.
LEMMA TasksStay ==
  ASSUME TasksFit, RanFits, QuietLog, tasks' = tasks, unstarted' = unstarted, ran' = ran
  PROVE  TasksFit' /\ RanFits'
<1>1. \A n, p : /\ AdmittedAt(log', n, p) <=> AdmittedAt(log, n, p)
                /\ AdmittedAt(log, n, p) => log'[n] = log[n]
  BY QuietAdmissions
<1>2. Accounted(tasks, log') /\ Accounted(unstarted, log')
  BY <1>1 DEF TasksFit, Accounted
<1>3. TasksFit'
  BY <1>1, <1>2 DEF TasksFit
<1>4. RanFits'
  BY <1>1 DEF RanFits
<1> QED
  BY <1>3, <1>4

\* Noted calls become tasks, some of them blocked.
LEMMA TasksTaken ==
  ASSUME StreamTypeOK, TasksFit, RanFits, QuietLog, NEW more \in Seq(TaskRecords),
         DOMAIN more = DOMAIN unstarted,
         \A n \in DOMAIN more : more[n].call = unstarted[n].call
                                /\ (more[n].blocked \/ ~unstarted[n].blocked),
         tasks' = tasks \o more, unstarted' = <<>>, ran' = ran
  PROVE  TasksFit' /\ RanFits' /\ tasks' \in Seq(TaskRecords)
<1> DEFINE k0 == Len(tasks)
<1>1. tasks \in Seq(TaskRecords)
  BY DEF StreamTypeOK
<1>2. /\ tasks' \in Seq(TaskRecords)
      /\ \A n \in DOMAIN tasks : n \in DOMAIN tasks' /\ tasks'[n] = tasks[n]
      /\ \A n \in DOMAIN more : k0 + n \in DOMAIN tasks' /\ tasks'[k0 + n] = more[n]
      /\ \A n \in DOMAIN tasks' :
           \/ n \in DOMAIN tasks /\ tasks'[n] = tasks[n]
           \/ n - k0 \in DOMAIN more /\ k0 + (n - k0) = n /\ tasks'[n] = more[n - k0]
  BY <1>1, Joined
<1> HIDE DEF k0
<1>3. \A n, p : /\ AdmittedAt(log', n, p) <=> AdmittedAt(log, n, p)
                /\ AdmittedAt(log, n, p) => log'[n] = log[n]
  BY QuietAdmissions
<1>4. Accounted(tasks', log')
  <2> SUFFICES ASSUME NEW k \in DOMAIN tasks'
               PROVE  \E n, p \in Nat :
                        /\ AdmittedAt(log', n, p) /\ log'[n].content[p] = tasks'[k].call
                        /\ tasks'[k].blocked \/ Executable(log'[n].reason)
    BY DEF Accounted
  <2>1. CASE k \in DOMAIN tasks /\ tasks'[k] = tasks[k]
    <3>1. PICK n, p \in Nat :
            /\ AdmittedAt(log, n, p) /\ log[n].content[p] = tasks[k].call
            /\ tasks[k].blocked \/ Executable(log[n].reason)
      BY <2>1 DEF TasksFit, Accounted
    <3> QED
      BY <1>3, <2>1, <3>1
  <2>2. CASE k - k0 \in DOMAIN more /\ tasks'[k] = more[k - k0]
    <3>1. PICK n, p \in Nat :
            /\ AdmittedAt(log, n, p) /\ log[n].content[p] = unstarted[k - k0].call
            /\ unstarted[k - k0].blocked \/ Executable(log[n].reason)
      BY <2>2 DEF TasksFit, Accounted
    <3> QED
      BY <1>3, <2>2, <3>1
  <2> QED
    BY <1>2, <2>1, <2>2
<1>5. IdsDiffer(tasks')
  <2> SUFFICES ASSUME NEW k \in DOMAIN tasks', NEW l \in DOMAIN tasks',
                      tasks'[k].call.id = tasks'[l].call.id
               PROVE  k = l
    BY DEF IdsDiffer
  <2> DEFINE old(n) == n \in DOMAIN tasks /\ tasks'[n] = tasks[n]
             new(n) == /\ n - k0 \in DOMAIN unstarted /\ k0 + (n - k0) = n
                       /\ tasks'[n].call = unstarted[n - k0].call
  <2>1. (old(k) \/ new(k)) /\ (old(l) \/ new(l))
    BY <1>2
  <2>2. CASE old(k) /\ old(l)
    BY <2>2 DEF TasksFit, IdsDiffer
  <2>3. CASE new(k) /\ new(l)
    BY <2>3 DEF TasksFit, IdsDiffer
  <2>4. CASE (old(k) /\ new(l)) \/ (new(k) /\ old(l))
    BY <2>4 DEF TasksFit
  <2> QED
    BY <2>1, <2>2, <2>3, <2>4
<1>6. TasksFit'
  <2>1. Accounted(<<>>, log') /\ IdsDiffer(<<>>)
    BY DEF Accounted, IdsDiffer
  <2>2. ASSUME NEW n \in Nat, NEW p \in Nat, AdmittedAt(log', n, p)
        PROVE  \E k \in DOMAIN tasks' : tasks'[k].call = log'[n].content[p]
    <3>1. AdmittedAt(log, n, p) /\ log'[n] = log[n]
      BY <1>3, <2>2
    <3>2. \/ \E k \in DOMAIN tasks : tasks[k].call = log[n].content[p]
          \/ \E k \in DOMAIN unstarted : unstarted[k].call = log[n].content[p]
      BY <3>1 DEF TasksFit
    <3>3. CASE \E k \in DOMAIN tasks : tasks[k].call = log[n].content[p]
      BY <1>2, <3>1, <3>3
    <3>4. CASE \E k \in DOMAIN unstarted : unstarted[k].call = log[n].content[p]
      <4>1. PICK k \in DOMAIN unstarted : unstarted[k].call = log[n].content[p]
        BY <3>4
      <4>2. k0 + k \in DOMAIN tasks' /\ tasks'[k0 + k].call = unstarted[k].call
        BY <1>2, <4>1
      <4> QED
        BY <3>1, <4>1, <4>2
    <3> QED
      BY <3>2, <3>3, <3>4
  <2>3. \A n, p, m, q \in Nat : AdmittedAt(log', n, p) /\ AdmittedAt(log', m, q)
                                /\ log'[n].content[p].id = log'[m].content[q].id => n = m /\ p = q
    BY <1>3 DEF TasksFit
  <2>4. \A k \in DOMAIN tasks', l \in DOMAIN unstarted' : tasks'[k].call.id # unstarted'[l].call.id
    OBVIOUS
  <2>5. Accounted(unstarted', log') /\ IdsDiffer(unstarted')
    BY <2>1
  <2> QED
    BY <1>4, <1>5, <2>2, <2>3, <2>4, <2>5 DEF TasksFit
<1>7. RanFits'
  <2>1. ASSUME NEW r \in DOMAIN ran
        PROVE  /\ \E k \in DOMAIN tasks' : tasks'[k].over /\ tasks'[k].call = ran[r]
               /\ \E n, p \in Nat : AdmittedAt(log', n, p) /\ Executable(log'[n].reason)
                                    /\ log'[n].content[p] = ran[r]
    <3>1. PICK k \in DOMAIN tasks : tasks[k].over /\ tasks[k].call = ran[r]
      BY DEF RanFits
    <3>2. PICK n, p \in Nat : AdmittedAt(log, n, p) /\ Executable(log[n].reason)
                              /\ log[n].content[p] = ran[r]
      BY DEF RanFits
    <3> QED
      BY <1>2, <1>3, <3>1, <3>2
  <2>2. \A r \in DOMAIN ran' :
          /\ \E k \in DOMAIN tasks' : tasks'[k].over /\ tasks'[k].call = ran'[r]
          /\ \E n, p \in Nat : AdmittedAt(log', n, p) /\ Executable(log'[n].reason)
                               /\ log'[n].content[p] = ran'[r]
    BY <2>1
  <2>3. \A r, s \in DOMAIN ran' : ran'[r].id = ran'[s].id => r = s
    BY DEF RanFits
  <2> QED
    BY <2>2, <2>3 DEF RanFits
<1> QED
  BY <1>2, <1>6, <1>7

LEMMA AdapterKeepsCalls ==
  ASSUME CallsInvariant, AdapterSteps
  PROVE  CallsInvariant'
<1> USE DEF AdapterSteps
<1>1. /\ native' = native /\ planner' = planner /\ plan' = plan /\ co' = co /\ log' = log
      /\ unstarted' = unstarted /\ tasks' = tasks /\ ran' = ran
  BY DEF actor
<1>2. StreamTypeOK /\ OutGrows /\ net.at # "over"
  BY DEF CallsInvariant
<1>3. out \in Seq(Blocks) /\ DOMAIN out = 1..Len(out) /\ Len(out) \in Nat
      /\ Len(out') \in Nat /\ Len(out) <= Len(out') /\ planner \in PlannerRecords
      /\ plan.to \in Nat
  BY <1>2 DEF StreamTypeOK, OutGrows
<1>4. PlannerFits'
  <2>1. PlannerFits
    BY DEF CallsInvariant
  <2>2. planner.cursor <= Len(out') /\ planner.cursor \in Nat
    BY <1>3, <2>1 DEF PlannerFits, PlannerRecords
  <2>3. ASSUME NEW k \in 1..MaxBlocks, planner.slots[k].st # "none"
        PROVE  k \in DOMAIN out' /\ planner.slots[k].block.id = out'[k].id
    BY <1>2, <2>1, <2>3 DEF PlannerFits, OutGrows
  <2> QED
    BY <1>1, <2>1, <2>2, <2>3 DEF PlannerFits
<1>5. PlanFits'
  <2>1. PlanFits
    BY DEF CallsInvariant
  <2>2. plan.kind # "final" /\ (plan.kind = "prefix" => native) /\ (plan.kind = "none" => plan.content = <<>>)
        /\ plan.kind \in {"none", "prefix", "final"}
    BY <1>2, <2>1 DEF PlanFits, StreamTypeOK
  <2>3. native \/ Corrected(plan.content, against')
    BY <2>2 DEF Corrected
  <2>4. plan.to <= Len(out')
    BY <1>3, <2>1 DEF PlanFits
  <2>5. Complete(plan.content)' = Complete(plan.content) /\ Distinct(plan.content)' = Distinct(plan.content)
    BY <1>1 DEF Complete, Distinct
  <2> QED
    BY <1>1, <2>1, <2>2, <2>3, <2>4, <2>5 DEF PlanFits
<1>6. LoopFits'
  BY <1>1 DEF CallsInvariant, LoopFits, Succeeded
<1>7. LogFits'
  <2>1. LogFits
    BY DEF CallsInvariant
  <2>2. ASSUME NEW n \in DOMAIN log
        PROVE  /\ log[n].kind # "segment" => log[n].content = <<>>
               /\ log[n].kind = "segment" => native
               /\ Executable(log[n].reason) => Complete(log[n].content)
    BY <1>2, <2>1 DEF LogFits
  <2> QED
    BY <1>1, <2>2 DEF LogFits, Corrected, Complete, Executable, IsCall
<1>8. TasksFit' /\ RanFits'
  BY <1>1, <1>2, LogIsQuiet, TasksStay DEF CallsInvariant
<1> QED
  BY <1>4, <1>5, <1>6, <1>7, <1>8 DEF CallsInvariant

-----------------------------------------------------------------------------
(* Steps of inference() that leave the planner and its plan as they are. *)

EventsTaken ==
  /\ events' \in Seq(EventRecords)
  /\ \A n \in DOMAIN events' : \E m \in DOMAIN events : events'[n] = events[m]

LEMMA TakenEvents ==
  ASSUME StreamTypeOK, events' = events \/ (events # <<>> /\ events' = Tail(events))
  PROVE  EventsTaken
<1>1. events \in Seq(EventRecords)
  BY DEF StreamTypeOK
<1>2. CASE events' = events
  BY <1>1, <1>2 DEF EventsTaken
<1>3. CASE events # <<>> /\ events' = Tail(events)
  <2>1. /\ events' \in Seq(EventRecords) /\ Len(events') = Len(events) - 1
        /\ \A n \in 1..Len(events) - 1 : events'[n] = events[n + 1]
    BY <1>1, <1>3
  <2>2. \A n \in DOMAIN events' : n + 1 \in DOMAIN events /\ events'[n] = events[n + 1]
    BY <1>1, <2>1
  <2> QED
    BY <2>1, <2>2 DEF EventsTaken
<1> QED
  BY <1>2, <1>3

LEMMA CoreKept ==
  ASSUME CallsInvariant, UNCHANGED <<provider, planner, plan>>, EventsTaken, QuietLog
  PROVE  /\ AdapterFits' /\ PlannerFits' /\ PlanFits' /\ LogFits'
         /\ \A n \in DOMAIN log' : log'[n].content \in Seq(Blocks) /\ Len(log'[n].content) <= MaxBlocks
<1> USE StreamAssumption
<1>1. /\ native' = native /\ net' = net /\ out' = out /\ against' = against /\ planner' = planner
      /\ plan' = plan
  BY DEF provider
<1>2. AdapterFits'
  <2>1. \A n \in DOMAIN events' : EventFits(events'[n], out, net.at, against)
    BY DEF EventsTaken, CallsInvariant, AdapterFits
  <2> QED
    BY <1>1, <2>1 DEF CallsInvariant, AdapterFits, EventFits
<1>3. PlannerFits' /\ PlanFits'
  BY <1>1 DEF CallsInvariant, PlannerFits, PlanFits
<1>4. ASSUME NEW n \in DOMAIN log'
      PROVE  /\ log'[n].content \in Seq(Blocks) /\ Len(log'[n].content) <= MaxBlocks
             /\ log'[n].kind # "segment" => log'[n].content = <<>>
             /\ log'[n].kind = "segment" => native \/ net.at = "over"
             /\ Executable(log'[n].reason) => Complete(log'[n].content)
             /\ native \/ Corrected(log'[n].content, against)
  <2>1. CASE n \in DOMAIN log
    BY <2>1 DEF QuietLog, CallsInvariant, StreamTypeOK, LogFits
  <2>2. CASE log'[n].kind # "segment" /\ log'[n].content = <<>>
    <3>1. <<>> \in Seq(Blocks) /\ Len(<<>>) <= MaxBlocks
      OBVIOUS
    <3>2. Complete(<<>>) /\ Corrected(<<>>, against)
      BY DEF Complete, Corrected
    <3> QED
      BY <2>2, <3>1, <3>2
  <2> QED
    BY <2>1, <2>2 DEF QuietLog
<1>5. LogFits'
  BY <1>1, <1>4 DEF LogFits
<1> QED
  BY <1>2, <1>3, <1>4, <1>5

LEMMA NewTask ==
  ASSUME NEW b \in Blocks, NEW blocked \in BOOLEAN
  PROVE  /\ Task(b, blocked) \in TaskRecords /\ Task(b, blocked).call = b
         /\ Task(b, blocked).blocked = blocked
BY DEF Task, TaskRecords

LEMMA Mapped ==
  ASSUME NEW T, NEW U, NEW s \in Seq(T), NEW f, f = [n \in DOMAIN s |-> f[n]],
         \A n \in DOMAIN s : f[n] \in U
  PROVE  f \in Seq(U) /\ DOMAIN f = DOMAIN s /\ Len(f) = Len(s)
<1>1. DOMAIN s = 1..Len(s) /\ Len(s) \in Nat
  OBVIOUS
<1>2. f = [n \in 1..Len(s) |-> f[n]]
  BY <1>1
<1>3. f \in Seq(U) /\ DOMAIN f = DOMAIN s
  BY <1>1, <1>2
<1> QED
  BY <1>1, <1>3

LEMMA GivesUpKeeps ==
  ASSUME CallsInvariant, NEW committed, GivesUp(committed), QuietLog, EventsTaken,
         UNCHANGED <<provider, planner, plan, ran, aborted>>
  PROVE  CallsInvariant'
<1> DEFINE more == [n \in DOMAIN unstarted |-> Task(unstarted[n].call, TRUE)]
<1>1. /\ co' = [co EXCEPT !.at = "catch", !.failed = TRUE, !.committed = committed]
      /\ tasks' = tasks \o more /\ unstarted' = <<>> /\ ran' = ran
  BY DEF GivesUp, BlockUnstarted
<1>2. StreamTypeOK /\ TasksFit /\ RanFits
  BY DEF CallsInvariant
<1>3. /\ more \in Seq(TaskRecords) /\ DOMAIN more = DOMAIN unstarted
      /\ \A n \in DOMAIN more : more[n].call = unstarted[n].call
                                /\ (more[n].blocked \/ ~unstarted[n].blocked)
  <2>1. unstarted \in Seq(TaskRecords)
    BY <1>2 DEF StreamTypeOK
  <2>2. ASSUME NEW n \in DOMAIN unstarted PROVE unstarted[n].call \in Blocks
    <3>1. unstarted[n] \in TaskRecords
      BY <2>1
    <3> QED
      BY <3>1 DEF TaskRecords
  <2>3. \A n \in DOMAIN unstarted : more[n] \in TaskRecords /\ more[n].call = unstarted[n].call
                                     /\ more[n].blocked = TRUE
    BY <2>2, NewTask
  <2>4. more = [n \in DOMAIN unstarted |-> more[n]]
    OBVIOUS
  <2> HIDE DEF more
  <2>5. more \in Seq(TaskRecords) /\ DOMAIN more = DOMAIN unstarted
    BY <2>1, <2>3, <2>4, Mapped
  <2> QED
    BY <2>3, <2>5
<1> HIDE DEF more
<1>4. TasksFit' /\ RanFits' /\ tasks' \in Seq(TaskRecords)
  BY <1>1, <1>2, <1>3, TasksTaken
<1>5. /\ AdapterFits' /\ PlannerFits' /\ PlanFits' /\ LogFits'
      /\ \A n \in DOMAIN log' : log'[n].content \in Seq(Blocks) /\ Len(log'[n].content) <= MaxBlocks
  BY CoreKept
<1>6. /\ co' = [at |-> co'.at, todo |-> co'.todo, failed |-> co'.failed, committed |-> co'.committed]
      /\ co'.at = "catch" /\ co'.failed = TRUE
  BY <1>1, <1>2 DEF StreamTypeOK
<1>7. StreamTypeOK'
  <2>1. /\ unstarted' \in Seq(TaskRecords) /\ events' \in Seq(EventRecords)
        /\ log' \in Seq({log'[n] : n \in DOMAIN log'}) /\ co'.at \in Steps /\ co'.failed \in BOOLEAN
    BY <1>1, <1>6 DEF EventsTaken, QuietLog, Steps
  <2> QED
    BY <1>2, <1>4, <1>5, <1>6, <2>1 DEF StreamTypeOK, provider
<1>8. LoopFits'
  BY <1>1, <1>6 DEF LoopFits, Succeeded
<1> QED
  BY <1>4, <1>5, <1>7, <1>8 DEF CallsInvariant

LEMMA QuietKeeps ==
  ASSUME CallsInvariant, QuietLog, UNCHANGED <<provider, events, planner, plan, unstarted, tasks, ran>>,
         aborted' \in BOOLEAN, co'.at \in Steps, co'.failed \in BOOLEAN, LoopFits',
         co' = [at |-> co'.at, todo |-> co'.todo, failed |-> co'.failed, committed |-> co'.committed]
  PROVE  CallsInvariant'
<1>1. StreamTypeOK /\ TasksFit /\ RanFits /\ EventsTaken
  BY TakenEvents DEF CallsInvariant
<1>2. TasksFit' /\ RanFits'
  BY <1>1, TasksStay
<1>3. /\ AdapterFits' /\ PlannerFits' /\ PlanFits' /\ LogFits'
      /\ \A n \in DOMAIN log' : log'[n].content \in Seq(Blocks) /\ Len(log'[n].content) <= MaxBlocks
  BY <1>1, CoreKept
<1>4. StreamTypeOK'
  BY <1>1, <1>3 DEF StreamTypeOK, provider, QuietLog
<1> QED
  BY <1>2, <1>3, <1>4 DEF CallsInvariant

LEMMA LoopStepsKeep ==
  ASSUME CallsInvariant,
         \/ Stall \/ Amended \/ (\E published \in BOOLEAN : Amend(published)) \/ PublishFails \/ Drain
         \/ (\E retry \in BOOLEAN : Finish(retry)) \/ Catch \/ Abort
  PROVE  CallsInvariant'
<1>1. StreamTypeOK /\ LoopFits /\ PlanFits
  BY DEF CallsInvariant
<1>2. /\ co = [at |-> co.at, todo |-> co.todo, failed |-> co.failed, committed |-> co.committed]
      /\ co.failed \in BOOLEAN /\ aborted \in BOOLEAN /\ co.at \in Steps
  BY <1>1 DEF StreamTypeOK
<1>3. CASE Stall \/ PublishFails
  <2>1. /\ GivesUp(FALSE) /\ log' = log /\ events' = events
        /\ UNCHANGED <<provider, planner, plan, ran, aborted>>
    BY <1>3 DEF Stall, PublishFails
  <2> QED
    BY <1>1, <2>1, LogIsQuiet, TakenEvents, GivesUpKeeps
<1>4. CASE Amended \/ Drain
  <2>1. \E at \in {"hook", "finish"} :
          /\ co' = [co EXCEPT !.at = at] /\ plan.kind = "final" /\ unstarted = <<>>
    BY <1>1, <1>4 DEF Amended, Drain, LoopFits
  <2>2. /\ UNCHANGED <<provider, events, planner, plan, log, unstarted, tasks, ran>>
        /\ aborted' = aborted
    BY <1>4 DEF Amended, Drain
  <2>3. /\ co' = [at |-> co'.at, todo |-> co'.todo, failed |-> co'.failed, committed |-> co'.committed]
        /\ co'.at \in {"hook", "finish"} /\ co'.failed = co.failed
    BY <1>2, <2>1
  <2>4. LoopFits'
    BY <2>1, <2>2, <2>3 DEF LoopFits, Succeeded
  <2> QED
    BY <1>1, <1>2, <2>2, <2>3, <2>4, LogIsQuiet, QuietKeeps DEF Steps
<1>5. ASSUME NEW published \in BOOLEAN, Amend(published)
      PROVE  CallsInvariant'
  <2>1. /\ co.at = "amend" /\ UNCHANGED <<provider, events, planner, plan, ran, aborted>>
        /\ QuietLog
    <3>1. \/ log' = log
          \/ \E e : log' = Append(log, e) /\ e.kind # "segment" /\ e.content = <<>>
      <4>1. \A k : AmendmentEntry(k).kind # "segment" /\ AmendmentEntry(k).content = <<>>
        BY DEF AmendmentEntry
      <4>2. log' = log \/ log' = Append(log, AmendmentEntry(Head(co.todo)))
        BY <1>5 DEF Amend
      <4> QED
        BY <4>1, <4>2
    <3> QED
      BY <1>1, <1>5, <3>1, LogIsQuiet DEF Amend
  <2>2. CASE GivesUp(FALSE)
    BY <1>1, <2>1, <2>2, TakenEvents, GivesUpKeeps
  <2>3. CASE co' = [co EXCEPT !.todo = Tail(@)] /\ UNCHANGED <<tasks, unstarted>>
    <3>1. /\ co' = [at |-> co'.at, todo |-> co'.todo, failed |-> co'.failed, committed |-> co'.committed]
          /\ co'.at = co.at /\ co'.failed = co.failed
      BY <1>2, <2>3
    <3>2. LoopFits'
      BY <1>1, <2>1, <2>3, <3>1 DEF LoopFits, Succeeded
    <3> QED
      BY <1>2, <2>1, <2>3, <3>1, <3>2, QuietKeeps
  <2> QED
    BY <1>5, <2>2, <2>3 DEF Amend
<1>6. ASSUME NEW retry \in BOOLEAN, Finish(retry)
      PROVE  CallsInvariant'
  <2>1. /\ co.at = "finish" /\ log' = log
        /\ UNCHANGED <<provider, events, planner, plan, ran, aborted>>
    BY <1>6 DEF Finish
  <2>2. CASE GivesUp(TRUE)
    BY <1>1, <2>1, <2>2, TakenEvents, LogIsQuiet, GivesUpKeeps
  <2>3. CASE plan.reason # "error" /\ co' = [co EXCEPT !.at = "over"] /\ UNCHANGED <<tasks, unstarted>>
    <3>1. /\ co' = [at |-> co'.at, todo |-> co'.todo, failed |-> co'.failed, committed |-> co'.committed]
          /\ co'.at = "over" /\ co'.failed = co.failed
      BY <1>2, <2>3
    <3>2. LoopFits'
      BY <1>1, <2>1, <2>3, <3>1 DEF LoopFits, Succeeded
    <3> QED
      BY <1>1, <1>2, <2>1, <2>3, <3>1, <3>2, LogIsQuiet, QuietKeeps DEF Steps
  <2> QED
    BY <1>6, <2>2, <2>3 DEF Finish
<1>7. CASE Catch
  <2>1. \/ log' = log
        \/ \E e : log' = Append(log, e) /\ e.kind # "segment" /\ e.content = <<>>
    BY <1>7 DEF Catch
  <2>2. /\ co.at = "catch" /\ co' = [co EXCEPT !.at = "over"] /\ aborted' = aborted
        /\ UNCHANGED <<provider, events, planner, plan, unstarted, tasks, ran>>
    BY <1>7 DEF Catch
  <2>3. /\ co' = [at |-> co'.at, todo |-> co'.todo, failed |-> co'.failed, committed |-> co'.committed]
        /\ co'.at = "over" /\ co'.failed = co.failed /\ co.failed
    BY <1>1, <1>2, <2>2 DEF LoopFits
  <2>4. LoopFits'
    BY <1>1, <2>2, <2>3 DEF LoopFits, Succeeded
  <2> QED
    BY <1>1, <1>2, <2>1, <2>2, <2>3, <2>4, LogIsQuiet, QuietKeeps DEF Steps
<1>8. CASE Abort
  <2>1. /\ UNCHANGED <<provider, events, planner, plan, unstarted, tasks, ran>> /\ co' = co
        /\ log' = log /\ aborted' = TRUE
    BY <1>8 DEF Abort, actor
  <2>2. LoopFits'
    BY <1>1, <2>1 DEF LoopFits, Succeeded
  <2> QED
    BY <1>1, <1>2, <2>1, <2>2, LogIsQuiet, QuietKeeps
<1> QED
  BY <1>3, <1>4, <1>5, <1>6, <1>7, <1>8

LEMMA RunToolKeeps == ASSUME CallsInvariant, RunTool PROVE CallsInvariant'
<1>1. StreamTypeOK /\ TasksFit /\ RanFits /\ LoopFits
  BY DEF CallsInvariant
<1>2. PICK n \in DOMAIN tasks :
        /\ ~tasks[n].over /\ tasks' = [tasks EXCEPT ![n].over = TRUE]
        /\ ran' = IF tasks[n].blocked \/ aborted THEN ran ELSE Append(ran, tasks[n].call)
        /\ UNCHANGED <<provider, events, planner, plan, co, log, unstarted, aborted>>
  BY DEF RunTool
<1>3. tasks \in Seq(TaskRecords) /\ ran \in Seq(Blocks) /\ tasks[n] \in TaskRecords
  BY <1>1 DEF StreamTypeOK
<1>4. /\ tasks' \in Seq(TaskRecords) /\ DOMAIN tasks' = DOMAIN tasks /\ tasks'[n].over
      /\ \A k \in DOMAIN tasks : /\ tasks'[k].call = tasks[k].call
                                 /\ tasks'[k].blocked = tasks[k].blocked
                                 /\ tasks[k].over => tasks'[k].over
  <2> DEFINE run == [tasks[n] EXCEPT !.over = TRUE]
  <2>1. /\ run \in TaskRecords /\ run.call = tasks[n].call /\ run.blocked = tasks[n].blocked
        /\ run.over
    BY <1>3 DEF TaskRecords
  <2>2. tasks' = [tasks EXCEPT ![n] = run]
    BY <1>2
  <2> HIDE DEF run
  <2>3. /\ tasks' \in Seq(TaskRecords) /\ DOMAIN tasks' = DOMAIN tasks /\ tasks'[n] = run
        /\ \A k \in DOMAIN tasks : k # n => tasks'[k] = tasks[k]
    BY <1>3, <2>1, <2>2
  <2>4. ASSUME NEW k \in DOMAIN tasks
        PROVE  /\ tasks'[k].call = tasks[k].call /\ tasks'[k].blocked = tasks[k].blocked
               /\ tasks[k].over => tasks'[k].over
    BY <2>1, <2>3
  <2> QED
    BY <2>1, <2>3, <2>4
<1>5. /\ ran' \in Seq(Blocks)
      /\ ran' = ran \/ (/\ ~tasks[n].blocked /\ DOMAIN ran' = 1..Len(ran) + 1
                        /\ ran'[Len(ran) + 1] = tasks[n].call
                        /\ \A r \in DOMAIN ran : ran'[r] = ran[r]
                        /\ DOMAIN ran = 1..Len(ran) /\ Len(ran) \in Nat)
  <2>1. tasks[n].call \in Blocks
    BY <1>3 DEF TaskRecords
  <2>2. CASE tasks[n].blocked \/ aborted
    BY <1>2, <1>3, <2>2
  <2>3. CASE ~(tasks[n].blocked \/ aborted)
    <3>1. ran' = Append(ran, tasks[n].call)
      BY <1>2, <2>3
    <3> QED
      BY <1>3, <2>1, <2>3, <3>1
  <2> QED
    BY <2>2, <2>3
<1>6. QuietLog /\ EventsTaken
  BY <1>1, <1>2, LogIsQuiet, TakenEvents
<1>7. /\ AdapterFits' /\ PlannerFits' /\ PlanFits' /\ LogFits'
      /\ \A m \in DOMAIN log' : log'[m].content \in Seq(Blocks) /\ Len(log'[m].content) <= MaxBlocks
  BY <1>2, <1>6, CoreKept
<1>8. StreamTypeOK'
  BY <1>1, <1>2, <1>4, <1>5, <1>7 DEF StreamTypeOK, provider
<1>9. LoopFits'
  BY <1>1, <1>2 DEF LoopFits, Succeeded
<1>10. TasksFit'
  <2>1. Accounted(tasks', log) /\ IdsDiffer(tasks')
    <3>1. ASSUME NEW k \in DOMAIN tasks'
          PROVE  \E m, p \in Nat : /\ AdmittedAt(log, m, p) /\ log[m].content[p] = tasks'[k].call
                                   /\ tasks'[k].blocked \/ Executable(log[m].reason)
      <4>1. PICK m, p \in Nat : /\ AdmittedAt(log, m, p) /\ log[m].content[p] = tasks[k].call
                                /\ tasks[k].blocked \/ Executable(log[m].reason)
        BY <1>1, <1>4 DEF TasksFit, Accounted
      <4> QED
        BY <1>4, <4>1
    <3>2. IdsDiffer(tasks')
      BY <1>1, <1>4 DEF TasksFit, IdsDiffer
    <3> QED
      BY <3>1, <3>2 DEF Accounted
  <2>2. \A k \in DOMAIN tasks', l \in DOMAIN unstarted : tasks'[k].call.id # unstarted[l].call.id
    BY <1>1, <1>4 DEF TasksFit
  <2>3. ASSUME NEW m \in Nat, NEW p \in Nat, AdmittedAt(log, m, p)
        PROVE  \/ \E k \in DOMAIN tasks' : tasks'[k].call = log[m].content[p]
               \/ \E k \in DOMAIN unstarted : unstarted[k].call = log[m].content[p]
    BY <1>1, <1>4, <2>3 DEF TasksFit
  <2>4. log' = log /\ unstarted' = unstarted
    BY <1>2
  <2> QED
    BY <1>1, <2>1, <2>2, <2>3, <2>4 DEF TasksFit
<1>11. RanFits'
  <2>1. log' = log
    BY <1>2
  <2>2. ASSUME NEW r \in DOMAIN ran
        PROVE  /\ \E k \in DOMAIN tasks' : tasks'[k].over /\ tasks'[k].call = ran[r]
               /\ \E m, p \in Nat : AdmittedAt(log, m, p) /\ Executable(log[m].reason)
                                    /\ log[m].content[p] = ran[r]
               /\ ran[r].id # tasks[n].call.id
    <3>1. PICK k \in DOMAIN tasks : tasks[k].over /\ tasks[k].call = ran[r]
      BY <1>1 DEF RanFits
    <3>2. k # n
      BY <1>2, <3>1
    <3>3. ran[r].id # tasks[n].call.id
      BY <1>1, <3>1, <3>2 DEF TasksFit, IdsDiffer
    <3> QED
      BY <1>1, <1>4, <3>1, <3>3 DEF RanFits
  <2>3. ~tasks[n].blocked => \E m, p \in Nat : AdmittedAt(log, m, p) /\ Executable(log[m].reason)
                                               /\ log[m].content[p] = tasks[n].call
    BY <1>1 DEF TasksFit, Accounted
  <2>4. \A r \in DOMAIN ran' :
          /\ \E k \in DOMAIN tasks' : tasks'[k].over /\ tasks'[k].call = ran'[r]
          /\ \E m, p \in Nat : AdmittedAt(log, m, p) /\ Executable(log[m].reason)
                               /\ log[m].content[p] = ran'[r]
    <3>1. CASE ran' = ran
      BY <2>2, <3>1
    <3>2. CASE ran' # ran
      <4>1. \A r \in DOMAIN ran' : (r \in DOMAIN ran /\ ran'[r] = ran[r]) \/ ran'[r] = tasks[n].call
        BY <1>5, <3>2
      <4>2. \E k \in DOMAIN tasks' : tasks'[k].over /\ tasks'[k].call = tasks[n].call
        BY <1>4
      <4>3. \E m, p \in Nat : AdmittedAt(log, m, p) /\ Executable(log[m].reason)
                              /\ log[m].content[p] = tasks[n].call
        BY <1>5, <2>3, <3>2
      <4> SUFFICES ASSUME NEW r \in DOMAIN ran'
                   PROVE  /\ \E k \in DOMAIN tasks' : tasks'[k].over /\ tasks'[k].call = ran'[r]
                          /\ \E m, p \in Nat : AdmittedAt(log, m, p) /\ Executable(log[m].reason)
                                               /\ log[m].content[p] = ran'[r]
        OBVIOUS
      <4>4. CASE r \in DOMAIN ran /\ ran'[r] = ran[r]
        BY <2>2, <4>4
      <4>5. CASE ran'[r] = tasks[n].call
        BY <4>2, <4>3, <4>5
      <4> QED
        BY <4>1, <4>4, <4>5
    <3> QED
      BY <3>1, <3>2
  <2>5. \A r, s \in DOMAIN ran' : ran'[r].id = ran'[s].id => r = s
    <3>1. \A r, s \in DOMAIN ran : ran[r].id = ran[s].id => r = s
      BY <1>1 DEF RanFits
    <3>2. CASE ran' = ran
      BY <3>1, <3>2
    <3>3. CASE ran' # ran
      <4>1. \A r \in DOMAIN ran' : \/ r \in DOMAIN ran /\ ran'[r] = ran[r]
                                   \/ r = Len(ran) + 1 /\ ran'[r] = tasks[n].call
        BY <1>5, <3>3
      <4> QED
        BY <2>2, <3>1, <4>1
    <3> QED
      BY <3>2, <3>3
  <2> QED
    BY <2>1, <2>4, <2>5 DEF RanFits
<1> QED
  BY <1>7, <1>8, <1>9, <1>10, <1>11 DEF CallsInvariant

\* The rest of commitPlan: noted calls are scheduled, and the plan is done with.
LEMMA ScheduleKeeps == ASSUME CallsInvariant, Schedule PROVE CallsInvariant'
<1> USE StreamAssumption
<1> DEFINE more == [n \in DOMAIN unstarted |-> [unstarted[n] EXCEPT !.blocked = @ \/ aborted]]
<1>1. StreamTypeOK /\ TasksFit /\ RanFits /\ LoopFits /\ PlanFits
  BY DEF CallsInvariant
<1>2. /\ co.at = "publish" /\ tasks' = tasks \o more /\ unstarted' = <<>>
      /\ UNCHANGED <<provider, events, planner, log, ran, aborted>>
      /\ plan' = IF plan.kind = "prefix" THEN NoPlan ELSE plan
      /\ \E at \in {"drain", "finish"} :
           co' = [co EXCEPT !.at = IF plan.kind = "prefix" THEN "wait" ELSE at]
  BY DEF Schedule
<1>3. /\ more \in Seq(TaskRecords) /\ DOMAIN more = DOMAIN unstarted
      /\ \A n \in DOMAIN more : more[n].call = unstarted[n].call
                                /\ (more[n].blocked \/ ~unstarted[n].blocked)
  <2>1. unstarted \in Seq(TaskRecords)
    BY <1>1 DEF StreamTypeOK
  <2>2. ASSUME NEW n \in DOMAIN unstarted
        PROVE  /\ more[n] \in TaskRecords /\ more[n].call = unstarted[n].call
               /\ more[n].blocked \/ ~unstarted[n].blocked
    <3> DEFINE blocked == unstarted[n].blocked \/ aborted
    <3>1. unstarted[n] \in TaskRecords /\ more[n] = [unstarted[n] EXCEPT !.blocked = blocked]
      BY <2>1
    <3>2. blocked \in BOOLEAN /\ (blocked \/ ~unstarted[n].blocked)
      OBVIOUS
    <3> HIDE DEF blocked, more
    <3> QED
      BY <3>1, <3>2 DEF TaskRecords
  <2>3. more = [n \in DOMAIN unstarted |-> more[n]]
    OBVIOUS
  <2> HIDE DEF more
  <2>4. more \in Seq(TaskRecords) /\ DOMAIN more = DOMAIN unstarted
    BY <2>1, <2>2, <2>3, Mapped
  <2> QED
    BY <2>2, <2>4
<1> HIDE DEF more
<1>4. QuietLog /\ EventsTaken
  BY <1>1, <1>2, LogIsQuiet, TakenEvents
<1>5. TasksFit' /\ RanFits' /\ tasks' \in Seq(TaskRecords)
  BY <1>1, <1>2, <1>3, <1>4, TasksTaken
<1>6. plan.kind \in {"prefix", "final"}
  BY <1>1, <1>2 DEF LoopFits, StreamTypeOK
<1>7. /\ co' = [at |-> co'.at, todo |-> co'.todo, failed |-> co'.failed, committed |-> co'.committed]
      /\ co'.failed = co.failed
      /\ \/ co'.at = "wait" /\ plan.kind = "prefix"
         \/ co'.at \in {"drain", "finish"} /\ plan.kind = "final"
  BY <1>1, <1>2, <1>6 DEF StreamTypeOK
<1>8. /\ native' = native /\ net' = net /\ out' = out /\ against' = against /\ planner' = planner
      /\ events' = events /\ log' = log /\ aborted' = aborted /\ ran' = ran
  BY <1>2 DEF provider
<1>9. AdapterFits' /\ PlannerFits' /\ LogFits'
  BY <1>8 DEF CallsInvariant, AdapterFits, PlannerFits, LogFits, EventFits
<1>10. /\ PlanFits' /\ plan'.kind \in {"none", "prefix", "final"} /\ plan'.to \in Nat
       /\ plan'.content \in Seq(Blocks) /\ Len(plan'.content) <= MaxBlocks
  <2>1. CASE plan' = NoPlan
    <3>1. /\ plan'.kind = "none" /\ plan'.content = <<>> /\ plan'.reason = "none" /\ plan'.to = 0
          /\ <<>> \in Seq(Blocks) /\ Len(<<>>) <= MaxBlocks
      BY <2>1 DEF NoPlan
    <3>2. Distinct(<<>>) /\ Corrected(<<>>, against)
      BY DEF Distinct, Corrected
    <3>3. Len(out) \in Nat
      BY <1>1 DEF StreamTypeOK
    <3> QED
      BY <1>8, <3>1, <3>2, <3>3 DEF PlanFits, Executable
  <2>2. CASE plan' = plan
    BY <1>1, <1>8, <2>2 DEF PlanFits, StreamTypeOK
  <2> QED
    BY <1>2, <2>1, <2>2
<1>11. StreamTypeOK'
  BY <1>1, <1>2, <1>5, <1>7, <1>8, <1>10 DEF StreamTypeOK, Steps
<1>12. LoopFits'
  BY <1>2, <1>7 DEF LoopFits, Succeeded
<1> QED
  BY <1>5, <1>9, <1>10, <1>11, <1>12 DEF CallsInvariant

-----------------------------------------------------------------------------
(* The commit of a segment. *)

\* What holds of the content of a plan.
ContentFits(content, reason) ==
  /\ content \in Seq(Blocks) /\ Len(content) <= MaxBlocks /\ Distinct(content)
  /\ Executable(reason) => Complete(content)
  /\ native \/ Corrected(content, against)

LEMMA RewrittenBlock ==
  ASSUME NEW c \in Blocks
  PROVE  LET b == [c EXCEPT !.body = 3, !.async = FALSE] IN
         b \in Blocks /\ b.id = c.id /\ b.body = 3
<1> DEFINE b == [c EXCEPT !.body = 3, !.async = FALSE]
<1>1. c = [id |-> c.id, body |-> c.body, cipher |-> c.cipher, async |-> c.async]
  BY DEF Blocks
<1>2. c.id \in Items /\ c.cipher \in BOOLEAN
  BY DEF Blocks
<1> DEFINE half == [c EXCEPT !.body = 3]
<1>3. b = [half EXCEPT !.async = FALSE]
  OBVIOUS
<1>6. half = [id |-> c.id, body |-> 3, cipher |-> c.cipher, async |-> c.async]
  BY <1>1
<1> HIDE DEF b, half
<1>7. b = [id |-> c.id, body |-> 3, cipher |-> c.cipher, async |-> FALSE]
  BY <1>3, <1>6
<1>4. b \in Blocks
  BY <1>2, <1>7 DEF Blocks
<1>5. b.id = c.id /\ b.body = 3
  BY <1>7
<1> QED
  BY <1>4, <1>5 DEF b

\* A hook rewrites blocks of a plan or drops a call; the rest stays what it was.
LEMMA EditsFit ==
  ASSUME StreamTypeOK, PlanFits, NEW edit \in Edits
  PROVE  ContentFits(Edited(edit), Lowered(edit))
<1> DEFINE content == plan.content
           calls == {n \in DOMAIN content : IsCall(content[n])}
           last == CHOOSE n \in calls : \A m \in calls : m <= n
           rewritten(S) == [n \in DOMAIN content |->
                              IF content[n].id \in S THEN [content[n] EXCEPT !.body = 3, !.async = FALSE]
                              ELSE content[n]]
<1> USE StreamAssumption
<1>1. ContentFits(content, plan.reason) /\ content \in Seq(Blocks) /\ Len(content) <= MaxBlocks
  BY DEF StreamTypeOK, PlanFits, ContentFits
<1>2. Executable(Lowered(edit)) => Executable(plan.reason)
  BY DEF Lowered, Executable
<1>3. /\ Len(content) \in Nat /\ DOMAIN content = 1..Len(content)
  BY <1>1
<1>4. ASSUME NEW S
      PROVE  ContentFits(rewritten(S), plan.reason)
  <2>1. ASSUME NEW n \in DOMAIN content
        PROVE  /\ rewritten(S)[n] \in Blocks /\ rewritten(S)[n].id = content[n].id
               /\ rewritten(S)[n].body \in {3, content[n].body}
    <3> DEFINE b == [content[n] EXCEPT !.body = 3, !.async = FALSE]
    <3>1. content[n] \in Blocks
      BY <1>1
    <3>2. b \in Blocks /\ b.id = content[n].id /\ b.body = 3
      BY <3>1, RewrittenBlock
    <3>3. rewritten(S)[n] = b \/ rewritten(S)[n] = content[n]
      OBVIOUS
    <3> HIDE DEF b, rewritten
    <3> QED
      BY <3>1, <3>2, <3>3
  <2> DEFINE new == rewritten(S)
  <2>2. new = [n \in DOMAIN content |-> new[n]]
    OBVIOUS
  <2> HIDE DEF rewritten
  <2>3. new \in Seq(Blocks) /\ DOMAIN new = DOMAIN content /\ Len(new) = Len(content)
    <3>1. \A n \in DOMAIN content : new[n] \in Blocks
      BY <2>1
    <3> HIDE DEF new, content
    <3> QED
      BY <1>1, <2>2, <3>1, Mapped
  <2> HIDE DEF content
  <2>4. Distinct(new)
    BY <1>1, <2>1, <2>3 DEF ContentFits, Distinct, IsCall
  <2>5. Executable(plan.reason) => Complete(new)
    BY <1>1, <2>1, <2>3 DEF ContentFits, Complete, IsCall
  <2>6. native \/ Corrected(new, against)
    BY <1>1, <2>1, <2>3 DEF ContentFits, Corrected, IsCall
  <2> QED
    BY <1>1, <2>3, <2>4, <2>5, <2>6 DEF ContentFits
<1>5. ASSUME calls # {}
      PROVE  ContentFits(RemoveAt(content, last), plan.reason)
  <2>1. IsFiniteSet(calls) /\ calls \in SUBSET Nat
    BY <1>3, PlacesAreFinite
  <2>2. \E n \in calls : \A m \in calls : m <= n
    BY <1>5, <2>1, LastPlace
  <2>3. last \in DOMAIN content
    BY <2>2
  <2> DEFINE new == RemoveAt(content, last)
  <2> HIDE DEF last, content
  <2>4. /\ new \in Seq(Blocks) /\ Len(new) = Len(content) - 1
        /\ \A k \in DOMAIN new : \E l \in DOMAIN content :
             new[k] = content[l] /\ l = IF k < last THEN k ELSE k + 1
    BY <1>1, <2>3, Removed
  <2>5. Len(new) <= MaxBlocks
    BY <1>1, <1>3, <2>4
  <2>6. Distinct(new)
    <3> SUFFICES ASSUME NEW k \in DOMAIN new, NEW l \in DOMAIN new, IsCall(new[k]), new[k].id = new[l].id
                 PROVE  k = l
      BY DEF Distinct
    <3>1. PICK m \in DOMAIN content : new[k] = content[m] /\ m = IF k < last THEN k ELSE k + 1
      BY <2>4
    <3>2. PICK n \in DOMAIN content : new[l] = content[n] /\ n = IF l < last THEN l ELSE l + 1
      BY <2>4
    <3>3. m = n
      BY <1>1, <3>1, <3>2 DEF ContentFits, Distinct
    <3>4. k \in Nat /\ l \in Nat /\ last \in Nat
      BY <1>3, <2>3, <2>4
    <3> QED
      BY <3>1, <3>2, <3>3, <3>4
  <2>7. (Executable(plan.reason) => Complete(new)) /\ (native \/ Corrected(new, against))
    BY <1>1, <2>4 DEF ContentFits, Complete, Corrected
  <2> QED
    BY <2>4, <2>5, <2>6, <2>7 DEF ContentFits
<1>6. \/ Edited(edit) = content \/ Edited(edit) = rewritten(Texts) \/ Edited(edit) = rewritten(Calls)
      \/ calls # {} /\ Edited(edit) = RemoveAt(content, last)
  BY Zenon DEF Edited
<1> HIDE DEF content, calls, last, rewritten
<1>7. ContentFits(Edited(edit), plan.reason)
  BY <1>1, <1>4, <1>5, <1>6
<1> QED
  BY <1>2, <1>7 DEF ContentFits

\* The admitted calls are those of the content, each once.
AdmittedFrom(admitted, content, reason) ==
  /\ admitted \in Seq(TaskRecords) /\ IdsDiffer(admitted)
  /\ \A k \in DOMAIN admitted : \E p \in DOMAIN content :
       /\ IsCall(content[p]) /\ content[p] = admitted[k].call
       /\ Executable(reason) \/ reason = "length"
       /\ admitted[k].blocked \/ Executable(reason)
  /\ Executable(reason) \/ reason = "length" =>
       \A p \in DOMAIN content : IsCall(content[p]) =>
         \E k \in DOMAIN admitted : admitted[k].call = content[p]

LEMMA AdmitsFit ==
  ASSUME NEW content \in Seq(Blocks), NEW reason, Distinct(content)
  PROVE  AdmittedFrom(Admits(content, reason), content, reason)
<1> DEFINE calls == {n \in DOMAIN content : IsCall(content[n])}
           places == InOrder(calls)
           admitted == Admits(content, reason)
<1>1. DOMAIN content = 1..Len(content) /\ Len(content) \in Nat
  OBVIOUS
<1>2. /\ Cardinality(calls) \in Nat /\ DOMAIN places = 1..Cardinality(calls)
      /\ \A n \in DOMAIN places : places[n] \in calls
      /\ \A m, n \in DOMAIN places : places[m] = places[n] => m = n
      /\ \A p \in calls : \E n \in DOMAIN places : places[n] = p
  BY <1>1, PlacesAreFinite, InOrderLists
<1>3. CASE ~(Executable(reason) \/ reason = "length")
  <2>1. admitted = <<>>
    BY <1>3 DEF Admits
  <2> HIDE DEF admitted
  <2>2. admitted \in Seq(TaskRecords) /\ IdsDiffer(admitted) /\ DOMAIN admitted = {}
    BY <2>1 DEF IdsDiffer
  <2> QED
    BY <1>3, <2>2 DEF admitted, AdmittedFrom
<1>4. CASE Executable(reason) \/ reason = "length"
  <2>1. admitted = [n \in DOMAIN places |-> Task(content[places[n]], ~Executable(reason))]
    BY <1>4 DEF Admits
  <2> HIDE DEF admitted, places
  <2>2. (~Executable(reason)) \in BOOLEAN
    BY DEF Executable
  <2>3. ASSUME NEW n \in DOMAIN places
        PROVE  /\ places[n] \in DOMAIN content /\ IsCall(content[places[n]])
               /\ admitted[n] \in TaskRecords /\ admitted[n].call = content[places[n]]
               /\ admitted[n].blocked \/ Executable(reason)
    <3>1. places[n] \in DOMAIN content /\ IsCall(content[places[n]])
      BY <1>2
    <3>2. content[places[n]] \in Blocks /\ admitted[n] = Task(content[places[n]], ~Executable(reason))
      BY <2>1, <3>1
    <3> QED
      BY <2>2, <3>1, <3>2, NewTask
  <2>4. DOMAIN admitted = DOMAIN places /\ admitted \in Seq(TaskRecords)
    <3>1. admitted = [n \in 1..Cardinality(calls) |-> admitted[n]]
      BY <1>2, <2>1
    <3>2. \A n \in 1..Cardinality(calls) : admitted[n] \in TaskRecords
      BY <1>2, <2>3
    <3> HIDE DEF calls
    <3> QED
      BY <1>2, <3>1, <3>2
  <2>5. IdsDiffer(admitted)
    BY <1>2, <2>3, <2>4 DEF IdsDiffer, Distinct
  <2>6. \A p \in DOMAIN content : IsCall(content[p]) =>
          \E k \in DOMAIN admitted : admitted[k].call = content[p]
    BY <1>2, <2>3, <2>4
  <2>7. \A k \in DOMAIN admitted : \E p \in DOMAIN content :
          /\ IsCall(content[p]) /\ content[p] = admitted[k].call
          /\ Executable(reason) \/ reason = "length"
          /\ admitted[k].blocked \/ Executable(reason)
    BY <1>4, <2>3, <2>4
  <2> QED
    BY <2>4, <2>5, <2>6, <2>7 DEF admitted, AdmittedFrom
<1> QED
  BY <1>3, <1>4

\* A committed segment: its calls are new to the transcript, and noted.
LEMMA SegmentKeeps ==
  ASSUME CallsInvariant, co.at = "hook", NEW content, NEW reason, ContentFits(content, reason),
         \A n \in DOMAIN Admits(content, reason) : Admits(content, reason)[n].call.id \notin SeenCalls,
         NEW e, e.kind = "segment", e.content = content, e.reason = reason, log' = Append(log, e),
         planner' = [planner EXCEPT !.cursor = plan.to], unstarted' = Admits(content, reason),
         co' = [co EXCEPT !.at = "publish", !.committed = plan.kind = "final"],
         UNCHANGED <<provider, events, plan, tasks, ran, aborted>>
  PROVE  CallsInvariant'
<1> DEFINE new == Len(log) + 1
           admitted == Admits(content, reason)
<1>1. /\ StreamTypeOK /\ AdapterFits /\ PlannerFits /\ PlanFits /\ LoopFits /\ LogFits /\ TasksFit
      /\ RanFits
  BY DEF CallsInvariant
<1>2. e.kind = "segment" /\ e.content = content /\ e.reason = reason
  OBVIOUS
<1>3. /\ log' \in Seq({log'[n] : n \in DOMAIN log'}) /\ Len(log) \in Nat
      /\ DOMAIN log = 1..Len(log) /\ DOMAIN log' = 1..Len(log) + 1
      /\ log'[Len(log) + 1] = e /\ \A n \in DOMAIN log : log'[n] = log[n]
  <2>1. log' = Append(log, e) /\ log \in Seq({log[n] : n \in DOMAIN log})
    BY <1>1 DEF StreamTypeOK
  <2> QED
    BY <2>1, AppendedTo
<1>4. /\ new \in Nat /\ new \notin DOMAIN log /\ new \in DOMAIN log' /\ log'[new] = e
      /\ \A n \in DOMAIN log : n \in DOMAIN log' /\ log'[n] = log[n]
      /\ \A n \in DOMAIN log' : n \in DOMAIN log \/ n = new
  BY <1>3
<1> HIDE DEF new
<1>5. /\ content \in Seq(Blocks) /\ Len(content) <= MaxBlocks /\ Distinct(content)
      /\ Executable(reason) => Complete(content)
      /\ native \/ Corrected(content, against)
      /\ DOMAIN content \subseteq Nat
  BY DEF ContentFits
<1>6. /\ admitted \in Seq(TaskRecords) /\ IdsDiffer(admitted)
      /\ \A k \in DOMAIN admitted : \E p \in DOMAIN content :
           /\ IsCall(content[p]) /\ content[p] = admitted[k].call
           /\ Executable(reason) \/ reason = "length"
           /\ admitted[k].blocked \/ Executable(reason)
      /\ Executable(reason) \/ reason = "length" =>
           \A p \in DOMAIN content : IsCall(content[p]) =>
             \E k \in DOMAIN admitted : admitted[k].call = content[p]
  <2>1. AdmittedFrom(admitted, content, reason)
    BY <1>5, AdmitsFit
  <2> HIDE DEF admitted
  <2> QED
    BY <2>1 DEF AdmittedFrom
<1>7. /\ \A k \in DOMAIN admitted : admitted[k].call.id \notin SeenCalls
      /\ unstarted' = admitted
  OBVIOUS
<1> HIDE DEF admitted
<1>8. /\ native' = native /\ net' = net /\ out' = out /\ against' = against /\ events' = events
      /\ plan' = plan /\ tasks' = tasks /\ ran' = ran /\ aborted' = aborted
  BY DEF provider
<1>9. /\ \A n, p : AdmittedAt(log, n, p) => AdmittedAt(log', n, p) /\ log'[n] = log[n] /\ n # new
      /\ \A n, p : AdmittedAt(log', n, p) => AdmittedAt(log, n, p) \/ n = new
      /\ \A p : AdmittedAt(log', new, p) <=> /\ p \in DOMAIN content /\ IsCall(content[p])
                                             /\ Executable(reason) \/ reason = "length"
  <2>1. ASSUME NEW n, NEW p, AdmittedAt(log, n, p)
        PROVE  AdmittedAt(log', n, p) /\ log'[n] = log[n] /\ n # new
    BY <1>4, <2>1 DEF AdmittedAt
  <2>2. ASSUME NEW n, NEW p, AdmittedAt(log', n, p), n # new
        PROVE  AdmittedAt(log, n, p)
    BY <1>4, <2>2 DEF AdmittedAt
  <2>3. ASSUME NEW p
        PROVE  AdmittedAt(log', new, p) <=> /\ p \in DOMAIN content /\ IsCall(content[p])
                                            /\ Executable(reason) \/ reason = "length"
    BY <1>2, <1>4 DEF AdmittedAt
  <2> QED
    BY <2>1, <2>2, <2>3
<1>10. \A n, p : AdmittedAt(log, n, p) => log[n].content[p].id \in SeenCalls
  <2> SUFFICES ASSUME NEW n, NEW p, AdmittedAt(log, n, p)
               PROVE  log[n].content[p].id \in SeenCalls
    OBVIOUS
  <2>1. n \in DOMAIN log /\ p \in DOMAIN log[n].content /\ log[n].content[p].id \in Calls
    BY DEF AdmittedAt, IsCall
  <2>2. log[n].content[p].id \in Ids(log[n].content)
    BY <2>1 DEF Ids
  <2> QED
    BY <2>1, <2>2 DEF SeenCalls
<1>11. unstarted = <<>>
  BY <1>1 DEF LoopFits
<1>12. TasksFit'
  <2>1. Accounted(tasks, log')
    <3> SUFFICES ASSUME NEW k \in DOMAIN tasks
                 PROVE  \E n, p \in Nat : /\ AdmittedAt(log', n, p) /\ log'[n].content[p] = tasks[k].call
                                          /\ tasks[k].blocked \/ Executable(log'[n].reason)
      BY DEF Accounted
    <3>1. PICK n, p \in Nat : /\ AdmittedAt(log, n, p) /\ log[n].content[p] = tasks[k].call
                              /\ tasks[k].blocked \/ Executable(log[n].reason)
      BY <1>1 DEF TasksFit, Accounted
    <3>2. AdmittedAt(log', n, p) /\ log'[n] = log[n]
      BY <1>9, <3>1
    <3> QED
      BY <3>1, <3>2
  <2>2. Accounted(admitted, log')
    <3> SUFFICES ASSUME NEW k \in DOMAIN admitted
                 PROVE  \E n, p \in Nat : /\ AdmittedAt(log', n, p) /\ log'[n].content[p] = admitted[k].call
                                          /\ admitted[k].blocked \/ Executable(log'[n].reason)
      BY DEF Accounted
    <3>1. PICK p \in DOMAIN content :
            /\ IsCall(content[p]) /\ content[p] = admitted[k].call
            /\ Executable(reason) \/ reason = "length"
            /\ admitted[k].blocked \/ Executable(reason)
      BY <1>6
    <3>2. AdmittedAt(log', new, p) /\ p \in Nat
      BY <1>5, <1>9, <3>1
    <3> QED
      BY <1>2, <1>4, <3>1, <3>2
  <2>3. ASSUME NEW k \in DOMAIN tasks, NEW l \in DOMAIN admitted
        PROVE  tasks[k].call.id # admitted[l].call.id
    <3>1. PICK n, p \in Nat : AdmittedAt(log, n, p) /\ log[n].content[p] = tasks[k].call
      BY <1>1 DEF TasksFit, Accounted
    <3>2. tasks[k].call.id \in SeenCalls
      BY <1>10, <3>1
    <3> QED
      BY <1>7, <3>2
  <2>4. ASSUME NEW p, AdmittedAt(log', new, p)
        PROVE  log'[new].content[p] = content[p] /\ content[p].id \notin SeenCalls
               /\ \E k \in DOMAIN admitted : admitted[k].call = content[p]
    <3>1. /\ p \in DOMAIN content /\ IsCall(content[p])
          /\ Executable(reason) \/ reason = "length"
      BY <1>9, <2>4
    <3>2. PICK k \in DOMAIN admitted : admitted[k].call = content[p]
      BY <1>6, <3>1
    <3> QED
      BY <1>2, <1>4, <1>7, <3>2
  <2>5. ASSUME NEW n \in Nat, NEW p \in Nat, NEW m \in Nat, NEW q \in Nat,
               AdmittedAt(log', n, p), AdmittedAt(log', m, q),
               log'[n].content[p].id = log'[m].content[q].id
        PROVE  n = m /\ p = q
    <3>1. CASE AdmittedAt(log, n, p) /\ AdmittedAt(log, m, q)
      <4>1. log'[n] = log[n] /\ log'[m] = log[m]
        BY <1>9, <3>1
      <4>2. log[n].content[p].id = log[m].content[q].id
        BY <2>5, <4>1
      <4> QED
        BY <1>1, <3>1, <4>2 DEF TasksFit
    <3>2. CASE AdmittedAt(log, n, p) /\ m = new
      <4>1. log'[n].content[p].id \in SeenCalls
        BY <1>9, <1>10, <3>2
      <4> QED
        BY <2>4, <2>5, <3>2, <4>1
    <3>3. CASE n = new /\ AdmittedAt(log, m, q)
      <4>1. log'[m].content[q].id \in SeenCalls
        BY <1>9, <1>10, <3>3
      <4> QED
        BY <2>4, <2>5, <3>3, <4>1
    <3>4. CASE n = new /\ m = new
      <4>1. p \in DOMAIN content /\ q \in DOMAIN content /\ IsCall(content[p])
        BY <1>9, <2>5, <3>4
      <4>2. content[p].id = content[q].id
        BY <1>2, <1>4, <2>5, <3>4
      <4> QED
        BY <1>5, <3>4, <4>1, <4>2 DEF Distinct
    <3> QED
      BY <1>9, <2>5, <3>1, <3>2, <3>3, <3>4
  <2>6. ASSUME NEW n \in Nat, NEW p \in Nat, AdmittedAt(log', n, p)
        PROVE  \/ \E k \in DOMAIN tasks : tasks[k].call = log'[n].content[p]
               \/ \E k \in DOMAIN admitted : admitted[k].call = log'[n].content[p]
    <3>1. CASE AdmittedAt(log, n, p)
      <4>1. log'[n] = log[n]
        BY <1>9, <3>1
      <4>2. \E k \in DOMAIN tasks : tasks[k].call = log[n].content[p]
        BY <1>1, <1>11, <3>1 DEF TasksFit
      <4> QED
        BY <4>1, <4>2
    <3>2. CASE n = new
      BY <2>4, <2>6, <3>2
    <3> QED
      BY <1>9, <2>6, <3>1, <3>2
  <2>7. IdsDiffer(tasks) /\ IdsDiffer(admitted)
    BY <1>1, <1>6 DEF TasksFit
  <2>8. \A n, p, m, q \in Nat : AdmittedAt(log', n, p) /\ AdmittedAt(log', m, q)
                                /\ log'[n].content[p].id = log'[m].content[q].id => n = m /\ p = q
    BY <2>5
  <2>9. \A n, p \in Nat : AdmittedAt(log', n, p) =>
          \/ \E k \in DOMAIN tasks : tasks[k].call = log'[n].content[p]
          \/ \E k \in DOMAIN admitted : admitted[k].call = log'[n].content[p]
    BY <2>6
  <2>10. unstarted' = admitted /\ tasks' = tasks
    BY <1>7, <1>8
  <2>11. /\ Accounted(tasks', log') /\ Accounted(unstarted', log')
         /\ IdsDiffer(tasks') /\ IdsDiffer(unstarted')
    BY <2>1, <2>2, <2>7, <2>10
  <2>12. \A k \in DOMAIN tasks', l \in DOMAIN unstarted' : tasks'[k].call.id # unstarted'[l].call.id
    BY <2>3, <2>10
  <2>13. \A n, p \in Nat : AdmittedAt(log', n, p) =>
           \/ \E k \in DOMAIN tasks' : tasks'[k].call = log'[n].content[p]
           \/ \E k \in DOMAIN unstarted' : unstarted'[k].call = log'[n].content[p]
    <3>1. ASSUME NEW n \in Nat, NEW p \in Nat, AdmittedAt(log', n, p)
          PROVE  \/ \E k \in DOMAIN tasks' : tasks'[k].call = log'[n].content[p]
                 \/ \E k \in DOMAIN unstarted' : unstarted'[k].call = log'[n].content[p]
      <4>1. \/ \E k \in DOMAIN tasks : tasks[k].call = log'[n].content[p]
            \/ \E k \in DOMAIN admitted : admitted[k].call = log'[n].content[p]
        BY <2>9, <3>1
      <4> QED
        BY <2>10, <4>1
    <3> QED
      BY <3>1
  <2> QED
    BY <2>8, <2>11, <2>12, <2>13 DEF TasksFit
<1>13. RanFits'
  <2>1. ASSUME NEW r \in DOMAIN ran
        PROVE  /\ \E k \in DOMAIN tasks : tasks[k].over /\ tasks[k].call = ran[r]
               /\ \E n, p \in Nat : AdmittedAt(log', n, p) /\ Executable(log'[n].reason)
                                    /\ log'[n].content[p] = ran[r]
    <3>1. PICK n, p \in Nat : AdmittedAt(log, n, p) /\ Executable(log[n].reason)
                              /\ log[n].content[p] = ran[r]
      BY <1>1 DEF RanFits
    <3>2. AdmittedAt(log', n, p) /\ log'[n] = log[n]
      BY <1>9, <3>1
    <3>3. \E k \in DOMAIN tasks : tasks[k].over /\ tasks[k].call = ran[r]
      BY <1>1 DEF RanFits
    <3>4. Executable(log'[n].reason) /\ log'[n].content[p] = ran[r]
      BY <3>1, <3>2
    <3> QED
      BY <3>2, <3>3, <3>4
  <2>2. \A r, s \in DOMAIN ran : ran[r].id = ran[s].id => r = s
    BY <1>1 DEF RanFits
  <2>3. \A r \in DOMAIN ran' :
          /\ \E k \in DOMAIN tasks' : tasks'[k].over /\ tasks'[k].call = ran'[r]
          /\ \E n, p \in Nat : AdmittedAt(log', n, p) /\ Executable(log'[n].reason)
                               /\ log'[n].content[p] = ran'[r]
    <3>1. ran' = ran /\ tasks' = tasks
      BY <1>8
    <3>2. ASSUME NEW r \in DOMAIN ran
          PROVE  \E k \in DOMAIN tasks' : tasks'[k].over /\ tasks'[k].call = ran'[r]
      BY <2>1, <3>1
    <3>3. ASSUME NEW r \in DOMAIN ran
          PROVE  \E n, p \in Nat : AdmittedAt(log', n, p) /\ Executable(log'[n].reason)
                                   /\ log'[n].content[p] = ran'[r]
      <4>1. PICK n, p \in Nat : AdmittedAt(log', n, p) /\ Executable(log'[n].reason)
                                /\ log'[n].content[p] = ran[r]
        BY <2>1
      <4> QED
        BY <3>1, <4>1
    <3> QED
      BY <3>1, <3>2, <3>3
  <2>4. \A r, s \in DOMAIN ran' : ran'[r].id = ran'[s].id => r = s
    BY <1>8, <2>2
  <2> QED
    BY <2>3, <2>4 DEF RanFits
<1>14. /\ co' = [at |-> co'.at, todo |-> co'.todo, failed |-> co'.failed, committed |-> co'.committed]
       /\ co'.at = "publish" /\ co'.failed = co.failed
  BY <1>1 DEF StreamTypeOK
<1>15. plan.kind \in {"prefix", "final"}
  BY <1>1 DEF LoopFits, StreamTypeOK
<1>16. LoopFits'
  BY <1>8, <1>14, <1>15 DEF LoopFits, Succeeded
<1>17. LogFits'
  <2>1. ASSUME NEW n \in DOMAIN log'
        PROVE  /\ log'[n].kind # "segment" => log'[n].content = <<>>
               /\ log'[n].kind = "segment" => native \/ net.at = "over"
               /\ Executable(log'[n].reason) => Complete(log'[n].content)
               /\ native \/ Corrected(log'[n].content, against)
    <3>1. CASE n \in DOMAIN log
      BY <1>1, <1>4, <3>1 DEF LogFits
    <3>2. CASE n = new
      <4>1. native \/ net.at = "over"
        BY <1>1, <1>15 DEF PlanFits
      <4> QED
        BY <1>2, <1>4, <1>5, <3>2, <4>1
    <3> QED
      BY <1>4, <3>1, <3>2
  <2> QED
    BY <1>8, <2>1 DEF LogFits
<1>18. AdapterFits' /\ PlanFits'
  BY <1>1, <1>8 DEF AdapterFits, EventFits, PlanFits
<1>19. /\ planner' \in PlannerRecords /\ planner'.cursor = plan.to /\ planner'.slots = planner.slots
       /\ planner'.proofs = planner.proofs
  BY <1>1 DEF StreamTypeOK, PlannerRecords
<1>20. PlannerFits'
  BY <1>1, <1>8, <1>19 DEF PlannerFits, PlanFits
<1>21. StreamTypeOK'
  <2>1. \A n \in DOMAIN log' : log'[n].content \in Seq(Blocks) /\ Len(log'[n].content) <= MaxBlocks
    BY <1>1, <1>2, <1>4, <1>5 DEF StreamTypeOK
  <2> QED
    BY <1>1, <1>3, <1>6, <1>7, <1>8, <1>14, <1>19, <2>1 DEF StreamTypeOK, Steps
<1> QED
  BY <1>12, <1>13, <1>16, <1>17, <1>18, <1>20, <1>21 DEF CallsInvariant

LEMMA CommitKeeps == ASSUME CallsInvariant, NEW edit \in Edits, Commit(edit) PROVE CallsInvariant'
<1>1. StreamTypeOK /\ PlanFits
  BY DEF CallsInvariant
<1> DEFINE content == Edited(edit)
           reason == Lowered(edit)
<1>2. /\ co.at = "hook" /\ UNCHANGED <<provider, events, ran, aborted>>
  BY DEF Commit
<1>3. CASE Unacceptable(edit, content, reason) \/ aborted
  <2>1. GivesUp(FALSE) /\ UNCHANGED <<planner, plan, log>>
    BY <1>3, Zenon DEF Commit
  <2> QED
    BY <1>1, <1>2, <2>1, LogIsQuiet, TakenEvents, GivesUpKeeps
<1>4. CASE ~(Unacceptable(edit, content, reason) \/ aborted)
  <2> DEFINE e == [kind |-> "segment", entry |-> 0, at |-> 0, from |-> plan.from,
                   content |-> content, reason |-> reason]
  <2>1. /\ log' = Append(log, e)
        /\ Acknowledge(content, reason)
        /\ co' = [co EXCEPT !.at = "publish", !.committed = plan.kind = "final"]
        /\ UNCHANGED <<plan, tasks>>
    BY <1>4, Zenon DEF Commit
  <2>2. ContentFits(content, reason)
    BY <1>1, EditsFit
  <2>3. \A n \in DOMAIN Admits(content, reason) : Admits(content, reason)[n].call.id \notin SeenCalls
    BY <1>4 DEF Unacceptable
  <2>4. e.kind = "segment" /\ e.content = content /\ e.reason = reason
    OBVIOUS
  <2> HIDE DEF content, reason, e
  <2>5. planner' = [planner EXCEPT !.cursor = plan.to] /\ unstarted' = Admits(content, reason)
    BY <2>1 DEF Acknowledge
  <2> QED
    BY <1>2, <2>1, <2>2, <2>3, <2>4, <2>5, SegmentKeeps
<1> QED
  BY <1>3, <1>4

-----------------------------------------------------------------------------
(* One event. *)

\* What holds of slots and of the receipts of complete calls.
SlotsFit(slots, proofs) ==
  /\ slots \in [1..MaxBlocks -> SlotRecords] /\ proofs \in SUBSET (1..MaxBlocks)
  /\ native \/ proofs = {}
  /\ \A k \in 1..MaxBlocks : slots[k].st # "none" => k \in DOMAIN out /\ slots[k].block.id = out[k].id
  /\ \A k \in 1..MaxBlocks : slots[k].st = "closed" => slots[k].block.body # 0
  /\ \A k, l \in 1..MaxBlocks :
       /\ slots[k].st = "closed" /\ slots[l].st = "closed"
       /\ slots[k].block.id \in Calls /\ slots[k].block.id = slots[l].block.id
       => k = l

\* An event that is not refused opens or closes a slot of its block; a call that ends here is
\* the only closed one of its identity.
LEMMA SlotsKept ==
  ASSUME StreamTypeOK, AdapterFits, PlannerFits, NEW e \in EventRecords,
         EventFits(e, out, net.at, against), ~Refuses(e)
  PROVE  SlotsFit(Slots(e), Proofs(e))
<1> USE StreamAssumption
<1>1. /\ out \in Seq(Blocks) /\ DOMAIN out = 1..Len(out) /\ Len(out) \in Nat
      /\ \A k \in DOMAIN out : k \in 1..MaxBlocks /\ out[k] \in Blocks
      /\ planner.slots \in [1..MaxBlocks -> SlotRecords] /\ planner.proofs \in SUBSET (1..MaxBlocks)
  BY DEF StreamTypeOK, PlannerRecords
<1>2. SlotsFit(planner.slots, planner.proofs)
  BY <1>1 DEF SlotsFit, PlannerFits
<1>3. CASE e.type = "begin"
  <2> DEFINE b == out[e.index]
             open == IF IsCall(b) THEN b ELSE [b EXCEPT !.body = 0]
             slot == [st |-> "open", block |-> open]
  <2>1. e.index \in DOMAIN out /\ e.index \in 1..MaxBlocks /\ b \in Blocks
    BY <1>1, <1>3 DEF EventFits
  <2>2. open \in Blocks /\ open.id = b.id
    BY <2>1 DEF Blocks
  <2>3. Slots(e) = [planner.slots EXCEPT ![e.index] = slot] /\ Proofs(e) = planner.proofs
    BY <1>3 DEF Slots, Proofs
  <2> HIDE DEF open
  <2>4. slot \in SlotRecords /\ slot.st = "open" /\ slot.block.id = out[e.index].id
    BY <2>2 DEF SlotRecords
  <2> HIDE DEF slot
  <2> DEFINE slots == Slots(e)
  <2>5. /\ slots \in [1..MaxBlocks -> SlotRecords] /\ slots[e.index] = slot
        /\ \A k \in 1..MaxBlocks : k # e.index => slots[k] = planner.slots[k]
    BY <1>1, <2>1, <2>3, <2>4
  <2> HIDE DEF slots
  <2>6. SlotsFit(slots, planner.proofs)
    BY <1>2, <2>1, <2>4, <2>5 DEF SlotsFit
  <2> QED
    BY <2>3, <2>6 DEF slots
<1>4. CASE e.type = "end"
  <2> DEFINE b == out[e.index]
             slot == [st |-> "closed", block |-> b]
  <2>1. e.index \in DOMAIN out /\ e.index \in 1..MaxBlocks /\ b \in Blocks /\ b.body # 0
    BY <1>1, <1>4 DEF EventFits
  <2>2. Slots(e) = [planner.slots EXCEPT ![e.index] = slot]
    BY <1>4 DEF Slots
  <2>3. slot \in SlotRecords /\ slot.st = "closed" /\ slot.block.id = out[e.index].id /\ slot.block.body # 0
    BY <2>1 DEF SlotRecords
  <2> HIDE DEF slot
  <2> DEFINE slots == Slots(e)
  <2>4. /\ slots \in [1..MaxBlocks -> SlotRecords] /\ slots[e.index] = slot
        /\ \A k \in 1..MaxBlocks : k # e.index => slots[k] = planner.slots[k]
    BY <1>1, <2>1, <2>2, <2>3
  <2> HIDE DEF slots
  <2>5. \A k \in 1..MaxBlocks : planner.slots[k].st = "closed" /\ out[k].id \in Calls =>
          out[k].id # out[e.index].id
    BY <1>4 DEF Refuses, IsCall
  <2>6. Proofs(e) \in SUBSET (1..MaxBlocks)
    BY <1>1, <2>1 DEF Proofs
  <2>7. native \/ Proofs(e) = {}
    BY <1>2, <2>1 DEF Proofs, AdapterFits, SlotsFit
  <2>8. \A k \in 1..MaxBlocks : slots[k].st # "none" => k \in DOMAIN out /\ slots[k].block.id = out[k].id
    BY <1>2, <2>1, <2>3, <2>4 DEF SlotsFit
  <2>9. \A k \in 1..MaxBlocks : slots[k].st = "closed" => slots[k].block.body # 0
    BY <1>2, <2>3, <2>4 DEF SlotsFit
  <2>10. ASSUME NEW k \in 1..MaxBlocks, NEW l \in 1..MaxBlocks,
                slots[k].st = "closed", slots[l].st = "closed",
                slots[k].block.id \in Calls, slots[k].block.id = slots[l].block.id
         PROVE  k = l
    <3>1. /\ slots[k].block.id = out[k].id /\ slots[l].block.id = out[l].id
      BY <2>8, <2>10
    <3>2. CASE k = e.index \/ l = e.index
      BY <2>4, <2>5, <2>10, <3>1, <3>2
    <3>3. CASE k # e.index /\ l # e.index
      <4>1. slots[k] = planner.slots[k] /\ slots[l] = planner.slots[l]
        BY <2>4, <3>3
      <4> QED
        BY <1>2, <2>10, <4>1 DEF SlotsFit
    <3> QED
      BY <3>2, <3>3
  <2>11. SlotsFit(slots, Proofs(e))
    BY <2>4, <2>6, <2>7, <2>8, <2>9, <2>10 DEF SlotsFit
  <2> QED
    BY <2>11 DEF slots
<1>5. CASE e.type \notin {"begin", "end"}
  <2>1. Slots(e) = planner.slots /\ Proofs(e) = planner.proofs
    BY <1>5 DEF Slots, Proofs
  <2> QED
    BY <1>2, <2>1
<1> QED
  BY <1>3, <1>4, <1>5

\* What holds of the plan that waits for its commit.
NextPlanFits(p) ==
  /\ p.kind \in {"prefix", "final"} /\ p.to \in Nat /\ p.to <= Len(out)
  /\ p.kind = "prefix" => native
  /\ p.kind = "final" => net.at = "over" /\ (native /\ p.reason # "error" => against = {})
  /\ ContentFits(p.content, p.reason)

\* A prefix is a run of closed slots.
LEMMA PrefixFits ==
  ASSUME StreamTypeOK, PlannerFits, NEW slots, NEW proofs, SlotsFit(slots, proofs),
         PrefixEnd(slots, proofs) > planner.cursor
  PROVE  LET p == Prefix(slots, PrefixEnd(slots, proofs)) IN NextPlanFits(p) /\ p.kind = "prefix"
<1> USE StreamAssumption
<1> DEFINE c == planner.cursor
           ends == {k \in proofs : /\ k > c
                                   /\ \A l \in c + 1..k : /\ slots[l].st = "closed"
                                                          /\ IsCall(slots[l].block) => l \in proofs}
           to == PrefixEnd(slots, proofs)
           p == Prefix(slots, to)
<1>1. c \in Nat /\ Len(out) \in Nat /\ c <= Len(out) /\ Len(out) <= MaxBlocks
      /\ DOMAIN out = 1..Len(out) /\ proofs \in SUBSET (1..MaxBlocks)
  BY DEF StreamTypeOK, PlannerRecords, PlannerFits, SlotsFit
<1>2. to = IF ends = {} THEN c ELSE CHOOSE k \in ends : \A l \in ends : l <= k
  BY DEF PrefixEnd
<1>3. ends # {}
  BY <1>1, <1>2
<1>4. to \in ends
  <2>1. IsFiniteSet(ends) /\ ends \in SUBSET Nat
    <3>1. ends \in SUBSET (1..MaxBlocks)
      BY <1>1
    <3> HIDE DEF ends
    <3> QED
      BY <3>1, PlacesAreFinite
  <2> HIDE DEF ends, to
  <2>2. \E k \in ends : \A l \in ends : l <= k
    BY <1>3, <2>1, LastPlace
  <2> QED
    BY <1>2, <1>3, <2>2
<1>5. /\ to \in 1..MaxBlocks /\ to > c
      /\ \A l \in c + 1..to : slots[l].st = "closed"
  BY <1>1, <1>4
<1>6. native
  BY <1>4 DEF SlotsFit
<1>7. /\ p.kind = "prefix" /\ p.to = to /\ p.reason = "toolUse"
      /\ p.content = [n \in 1..to - c |-> slots[c + n].block]
  BY DEF Prefix
<1> HIDE DEF p, to, ends
<1>8. ASSUME NEW n \in 1..to - c
      PROVE  /\ c + n \in 1..MaxBlocks /\ slots[c + n].st = "closed"
             /\ slots[c + n].block \in Blocks /\ p.content[n] = slots[c + n].block
  <2>1. c + n \in c + 1..to /\ c + n \in 1..MaxBlocks
    BY <1>1, <1>5
  <2>2. slots[c + n].st = "closed" /\ slots[c + n] \in SlotRecords
    BY <1>5, <2>1 DEF SlotsFit
  <2>3. slots[c + n].block \in Blocks
    BY <2>2 DEF SlotRecords, NoSlot
  <2> QED
    BY <1>7, <2>1, <2>2, <2>3
<1>9. p.content \in Seq(Blocks) /\ Len(p.content) = to - c /\ DOMAIN p.content = 1..to - c
  <2>1. to - c \in Nat
    BY <1>1, <1>5
  <2> HIDE DEF c
  <2> QED
    BY <1>7, <1>8, <2>1
<1>10. to <= Len(out)
  <2>1. to \in c + 1..to
    BY <1>1, <1>5
  <2>2. slots[to].st # "none"
    BY <1>5, <2>1
  <2> QED
    BY <1>1, <1>5, <2>2 DEF SlotsFit
<1>11. Distinct(p.content)
  <2> SUFFICES ASSUME NEW k \in 1..to - c, NEW l \in 1..to - c,
                      IsCall(p.content[k]), p.content[k].id = p.content[l].id
               PROVE  k = l
    BY <1>9 DEF Distinct
  <2>1. /\ c + k \in 1..MaxBlocks /\ slots[c + k].st = "closed" /\ p.content[k] = slots[c + k].block
        /\ c + l \in 1..MaxBlocks /\ slots[c + l].st = "closed" /\ p.content[l] = slots[c + l].block
    BY <1>8
  <2>2. c + k = c + l
    BY <2>1 DEF SlotsFit, IsCall
  <2> QED
    BY <1>1, <2>2
<1>12. Complete(p.content)
  <2>1. ASSUME NEW n \in 1..to - c PROVE p.content[n].body # 0
    BY <1>8 DEF SlotsFit
  <2> QED
    BY <1>9, <2>1 DEF Complete
<1>13. ContentFits(p.content, p.reason)
  BY <1>1, <1>5, <1>6, <1>9, <1>11, <1>12 DEF ContentFits
<1>14. NextPlanFits(p)
  BY <1>5, <1>6, <1>7, <1>10, <1>13 DEF NextPlanFits
<1> QED
  BY <1>7, <1>14 DEF p, to

\* The last event plans the rest of the answer.
LEMMA FinalFits ==
  ASSUME StreamTypeOK, AdapterFits, PlannerFits, NEW e \in EventRecords, e.type \in Ends,
         EventFits(e, out, net.at, against), ~Refuses(e)
  PROVE  NextPlanFits(Final(e.type)) /\ Final(e.type).kind = "final"
         /\ Final(e.type).reason = e.type
<1> USE StreamAssumption
<1> DEFINE c == planner.cursor
           p == Final(e.type)
<1>1. /\ c \in Nat /\ Len(out) \in Nat /\ c <= Len(out) /\ Len(out) <= MaxBlocks
      /\ out \in Seq(Blocks) /\ DOMAIN out = 1..Len(out)
  BY DEF StreamTypeOK, PlannerRecords, PlannerFits
<1>2. /\ p.kind = "final" /\ p.to = Len(out) /\ p.reason = e.type
      /\ p.content = [n \in 1..Len(out) - c |-> Marked(out[c + n], c + n, e.type)]
  BY DEF Final
<1>3. Distinct(out)
  <2>1. e.type \notin {"start", "begin", "end"}
    BY DEF Ends
  <2> QED
    BY <2>1 DEF Refuses, Distinct
<1> HIDE DEF p
<1>4. ASSUME NEW n \in 1..Len(out) - c
      PROVE  /\ c + n \in DOMAIN out /\ p.content[n] \in Blocks
             /\ p.content[n].id = out[c + n].id /\ p.content[n].body = out[c + n].body
  <2> DEFINE early == c + n \in planner.proofs /\ Executable(e.type)
  <2>1. c + n \in DOMAIN out
    BY <1>1
  <2>2. p.content[n] = [out[c + n] EXCEPT !.async = early]
    BY <1>2 DEF Marked
  <2>3. early \in BOOLEAN /\ out[c + n] \in Blocks
    BY <1>1, <2>1 DEF Executable
  <2> HIDE DEF early
  <2> QED
    BY <2>1, <2>2, <2>3 DEF Blocks
<1>5. p.content \in Seq(Blocks) /\ Len(p.content) = Len(out) - c /\ DOMAIN p.content = 1..Len(out) - c
  <2>1. Len(out) - c \in Nat
    BY <1>1
  <2> HIDE DEF c
  <2> QED
    BY <1>2, <1>4, <2>1
<1>6. Distinct(p.content)
  <2> SUFFICES ASSUME NEW k \in 1..Len(out) - c, NEW l \in 1..Len(out) - c,
                      IsCall(p.content[k]), p.content[k].id = p.content[l].id
               PROVE  k = l
    BY <1>5 DEF Distinct
  <2>1. c + k = c + l
    BY <1>3, <1>4 DEF Distinct, IsCall
  <2> QED
    BY <1>1, <2>1
<1>7. ASSUME Executable(e.type) PROVE Complete(p.content)
  <2>1. Complete(out)
    BY <1>7 DEF EventFits
  <2>2. ASSUME NEW n \in 1..Len(out) - c, IsCall(p.content[n]) PROVE p.content[n].body # 0
    BY <1>4, <2>1, <2>2 DEF Complete, IsCall
  <2> QED
    BY <1>5, <2>2 DEF Complete
<1>8. ASSUME ~native PROVE Corrected(p.content, against)
  <2> SUFFICES ASSUME NEW n \in 1..Len(out) - c, IsCall(p.content[n]), p.content[n].id \in against
               PROVE  p.content[n].body # 1
    BY <1>5 DEF Corrected
  <2>1. PICK k \in DOMAIN out : out[k].id = p.content[n].id /\ out[k].body = 2
    BY <1>8 DEF AdapterFits
  <2>2. k = c + n
    BY <1>3, <1>4, <2>1 DEF Distinct, IsCall
  <2> QED
    BY <1>4, <2>1, <2>2
<1>9. net.at = "over" /\ (native /\ p.reason # "error" => against = {})
  BY <1>2 DEF EventFits
<1>10. ContentFits(p.content, p.reason)
  BY <1>1, <1>2, <1>5, <1>6, <1>7, <1>8 DEF ContentFits
<1>11. NextPlanFits(p)
  BY <1>1, <1>2, <1>9, <1>10 DEF NextPlanFits
<1> QED
  BY <1>2, <1>11 DEF p

LEMMA NextPlanKept ==
  ASSUME StreamTypeOK, NextPlanFits(plan'), UNCHANGED provider
  PROVE  /\ PlanFits' /\ plan'.kind \in {"none", "prefix", "final"} /\ plan'.to \in Nat
         /\ plan'.content \in Seq(Blocks) /\ Len(plan'.content) <= MaxBlocks
<1>1. native' = native /\ net' = net /\ out' = out /\ against' = against
  BY DEF provider
<1> QED
  BY <1>1 DEF NextPlanFits, ContentFits, PlanFits

LEMMA TakeKeeps == ASSUME CallsInvariant, Take PROVE CallsInvariant'
<1> USE StreamAssumption
<1> DEFINE e == Head(events)
           ends == e.type \notin {"start", "begin", "end"}
           slots == Slots(e)
           proofs == Proofs(e)
           to == IF ends THEN 0 ELSE PrefixEnd(slots, proofs)
<1>1. /\ StreamTypeOK /\ AdapterFits /\ PlannerFits /\ PlanFits /\ LoopFits /\ LogFits /\ TasksFit
      /\ RanFits
  BY DEF CallsInvariant
<1>2. /\ co.at = "wait" /\ events # <<>> /\ events' = Tail(events)
      /\ UNCHANGED <<provider, ran, aborted>>
  BY DEF Take
<1>3. EventsTaken
  BY <1>1, <1>2, TakenEvents
<1>4. e \in EventRecords /\ EventFits(e, out, net.at, against)
  <2>1. events \in Seq(EventRecords) /\ events # <<>>
    BY <1>1, <1>2 DEF StreamTypeOK
  <2>2. 1 \in DOMAIN events /\ e = events[1]
    BY <2>1
  <2> QED
    BY <1>1, <2>1, <2>2 DEF AdapterFits
<1> HIDE DEF e
<1>5. CASE aborted \/ Refuses(e)
  <2>1. GivesUp(FALSE) /\ UNCHANGED <<planner, plan, view, log>>
    BY <1>5, Zenon DEF Take, e
  <2> QED
    BY <1>1, <1>2, <1>3, <2>1, LogIsQuiet, GivesUpKeeps
<1>6. CASE ~(aborted \/ Refuses(e))
  <2>1. /\ planner' = [planner EXCEPT !.started = TRUE, !.terminal = ends, !.slots = slots,
                                      !.proofs = proofs]
        /\ plan' = IF ends THEN Final(e.type)
                   ELSE IF to > planner.cursor THEN Prefix(slots, to) ELSE NoPlan
        /\ co' = IF ends THEN [co EXCEPT !.at = "amend", !.todo = Amendments]
                 ELSE IF to > planner.cursor THEN [co EXCEPT !.at = "hook"] ELSE co
        /\ UNCHANGED <<log, tasks, unstarted>>
    BY <1>6, Zenon DEF Take, e
  <2>2. SlotsFit(slots, proofs)
    BY <1>1, <1>4, <1>6, SlotsKept
  <2>3. ends \in BOOLEAN /\ (ends => e.type \in Ends)
    BY <1>4 DEF EventRecords
  <2> HIDE DEF slots, proofs
  <2>4. /\ native' = native /\ net' = net /\ out' = out /\ against' = against /\ aborted' = aborted
        /\ ran' = ran
    BY <1>2 DEF provider
  <2>5. /\ planner' \in PlannerRecords /\ planner'.slots = slots /\ planner'.proofs = proofs
        /\ planner'.cursor = planner.cursor
    BY <1>1, <2>1, <2>2, <2>3 DEF StreamTypeOK, PlannerRecords, SlotsFit
  <2>6. PlannerFits'
    BY <1>1, <2>2, <2>4, <2>5 DEF PlannerFits, SlotsFit
  <2>7. AdapterFits'
    <3>1. \A n \in DOMAIN events' : EventFits(events'[n], out, net.at, against)
      BY <1>1, <1>3 DEF EventsTaken, AdapterFits
    <3> QED
      BY <1>1, <2>4, <3>1 DEF AdapterFits, EventFits
  <2>8. LogFits'
    BY <1>1, <2>1, <2>4 DEF LogFits
  <2>9. TasksFit' /\ RanFits' /\ QuietLog
    BY <1>1, <2>1, <2>4, LogIsQuiet, TasksStay
  <2> DEFINE PlanKept == /\ PlanFits' /\ plan'.kind \in {"none", "prefix", "final"} /\ plan'.to \in Nat
                         /\ plan'.content \in Seq(Blocks) /\ Len(plan'.content) <= MaxBlocks
             LoopKept == /\ co' = [at |-> co'.at, todo |-> co'.todo, failed |-> co'.failed,
                                   committed |-> co'.committed]
                         /\ co'.at \in {"wait", "amend", "hook"} /\ co'.failed = co.failed
                         /\ co'.at = "hook" => plan'.kind # "none"
                         /\ co'.at = "amend" => plan'.kind = "final"
  <2>10. ASSUME ends PROVE PlanKept /\ LoopKept
    <3>1. plan' = Final(e.type) /\ co' = [co EXCEPT !.at = "amend", !.todo = Amendments]
      BY <2>1, <2>10
    <3>2. NextPlanFits(plan') /\ plan'.kind = "final"
      BY <1>1, <1>4, <1>6, <2>3, <2>10, <3>1, FinalFits
    <3>3. PlanKept
      BY <1>1, <1>2, <3>2, NextPlanKept
    <3>4. LoopKept
      BY <1>1, <3>1, <3>2 DEF StreamTypeOK
    <3> QED
      BY <3>3, <3>4
  <2>11. ASSUME ~ends, to > planner.cursor PROVE PlanKept /\ LoopKept
    <3>1. plan' = Prefix(slots, PrefixEnd(slots, proofs)) /\ co' = [co EXCEPT !.at = "hook"]
          /\ PrefixEnd(slots, proofs) > planner.cursor
      BY <2>1, <2>11
    <3>2. NextPlanFits(plan') /\ plan'.kind = "prefix"
      BY <1>1, <2>2, <3>1, PrefixFits
    <3>3. PlanKept
      BY <1>1, <1>2, <3>2, NextPlanKept
    <3>4. LoopKept
      BY <1>1, <3>1, <3>2 DEF StreamTypeOK
    <3> QED
      BY <3>3, <3>4
  <2>12. ASSUME ~ends, ~(to > planner.cursor) PROVE PlanKept /\ LoopKept
    <3>1. plan' = NoPlan /\ co' = co
      BY <2>1, <2>12
    <3>2. PlanKept
      <4>1. /\ plan'.kind = "none" /\ plan'.content = <<>> /\ plan'.reason = "none" /\ plan'.to = 0
            /\ <<>> \in Seq(Blocks) /\ Len(<<>>) <= MaxBlocks
        BY <3>1 DEF NoPlan
      <4>2. Distinct(<<>>) /\ Corrected(<<>>, against)
        BY DEF Distinct, Corrected
      <4>3. Len(out) \in Nat
        BY <1>1 DEF StreamTypeOK
      <4> QED
        BY <2>4, <4>1, <4>2, <4>3 DEF PlanFits, Executable
    <3>3. LoopKept
      BY <1>1, <1>2, <3>1 DEF StreamTypeOK
    <3> QED
      BY <3>2, <3>3
  <2>13. PlanKept /\ LoopKept
    BY <2>10, <2>11, <2>12
  <2>14. LoopFits'
    BY <1>1, <1>2, <2>1, <2>13 DEF LoopFits, Succeeded
  <2>15. StreamTypeOK'
    <3>1. log' = log /\ tasks' = tasks /\ unstarted' = unstarted /\ events' \in Seq(EventRecords)
      BY <1>3, <2>1 DEF EventsTaken
    <3> QED
      BY <1>1, <2>4, <2>5, <2>13, <3>1 DEF StreamTypeOK, Steps
  <2> QED
    BY <2>6, <2>7, <2>8, <2>9, <2>13, <2>14, <2>15 DEF CallsInvariant
<1> QED
  BY <1>5, <1>6

\* Every step keeps what is known of the calls.
LEMMA StepsKeepCalls == ASSUME CallsInvariant, [Next]_vars PROVE CallsInvariant'
<1>1. CASE Connect \/ ConnectFails \/ Rejected \/ RequestAborted \/ Frame
  <2>1. StreamTypeOK /\ AdapterFits
    BY DEF CallsInvariant
  <2>2. AdapterSteps
    BY <1>1, <2>1, AdapterStepsFit
  <2> QED
    BY <2>2, AdapterKeepsCalls
<1>2. CASE Take
  BY <1>2, TakeKeeps
<1>3. CASE \/ Stall \/ Amended \/ (\E published \in BOOLEAN : Amend(published)) \/ PublishFails \/ Drain
           \/ (\E retry \in BOOLEAN : Finish(retry)) \/ Catch \/ Abort
  BY <1>3, LoopStepsKeep
<1>4. CASE \E edit \in Edits : Commit(edit)
  BY <1>4, CommitKeeps
<1>5. CASE Schedule
  BY <1>5, ScheduleKeeps
<1>6. CASE RunTool
  BY <1>6, RunToolKeeps
<1>7. CASE UNCHANGED vars
  <2>1. /\ UNCHANGED <<provider, events, planner, plan, unstarted, tasks, ran>>
        /\ log' = log /\ co' = co /\ aborted' = aborted
    BY <1>7 DEF vars, provider
  <2>2. StreamTypeOK /\ LoopFits
    BY DEF CallsInvariant
  <2>3. QuietLog /\ LoopFits'
    BY <2>1, <2>2, LogIsQuiet DEF LoopFits, Succeeded
  <2> QED
    BY <2>1, <2>2, <2>3, QuietKeeps DEF StreamTypeOK
<1> QED
  BY <1>1, <1>2, <1>3, <1>4, <1>5, <1>6, <1>7 DEF Next

LEMMA RanAreSaid == ASSUME CallsInvariant PROVE ToolsRunWhatWasSaid
<1>1. StreamTypeOK /\ AdapterFits /\ PlanFits /\ LoopFits /\ LogFits /\ RanFits
  BY DEF CallsInvariant
<1> SUFFICES ASSUME NEW r \in DOMAIN ran
             PROVE  /\ ran[r].body # 0
                    /\ \A s \in DOMAIN ran : ran[s].id = ran[r].id => s = r
                    /\ \E g \in Segments : /\ Executable(log[g].reason)
                                           /\ \E p \in DOMAIN log[g].content : log[g].content[p] = ran[r]
                    /\ Succeeded /\ ran[r].body = 1 => ran[r].id \notin against
  BY DEF ToolsRunWhatWasSaid
<1>2. PICK n \in Nat, p \in Nat : /\ AdmittedAt(log, n, p) /\ Executable(log[n].reason)
                                  /\ log[n].content[p] = ran[r]
  BY <1>1 DEF RanFits
<1>3. /\ n \in Segments /\ p \in DOMAIN log[n].content /\ IsCall(log[n].content[p])
      /\ Complete(log[n].content) /\ (native \/ Corrected(log[n].content, against))
  BY <1>1, <1>2 DEF AdmittedAt, Segments, LogFits
<1>4. ran[r].body # 0
  BY <1>2, <1>3 DEF Complete
<1>5. Succeeded /\ ran[r].body = 1 => ran[r].id \notin against
  <2>1. Succeeded /\ native => against = {}
    BY <1>1 DEF LoopFits, PlanFits
  <2>2. ~native /\ ran[r].body = 1 => ran[r].id \notin against
    BY <1>2, <1>3 DEF Corrected
  <2> QED
    BY <2>1, <2>2
<1> QED
  BY <1>1, <1>2, <1>3, <1>4, <1>5 DEF RanFits

\* Tasks and admitted places correspond, one to one.
LEMMA AdmittedAreTasks == ASSUME CallsInvariant PROVE AdmittedCallsAreScheduled
<1> USE StreamAssumption
<1>1. StreamTypeOK /\ LoopFits /\ TasksFit
  BY DEF CallsInvariant
<1> SUFFICES ASSUME co.at = "over" PROVE AdmittedCallsAreScheduled
  BY DEF AdmittedCallsAreScheduled
<1> DEFINE admitted == {a \in Segments \X (1..MaxBlocks) :
                          /\ a[2] \in DOMAIN log[a[1]].content /\ IsCall(log[a[1]].content[a[2]])
                          /\ Executable(log[a[1]].reason) \/ log[a[1]].reason = "length"}
           said(a) == log[a[1]].content[a[2]]
           g == [k \in 1..Len(tasks) |-> CHOOSE a \in admitted : said(a) = tasks[k].call]
<1>2. unstarted = <<>> /\ tasks \in Seq(TaskRecords) /\ DOMAIN tasks = 1..Len(tasks) /\ Len(tasks) \in Nat
  BY <1>1 DEF LoopFits, StreamTypeOK
<1>3. ASSUME NEW a \in admitted PROVE AdmittedAt(log, a[1], a[2]) /\ a[1] \in Nat /\ a[2] \in Nat /\ a = <<a[1], a[2]>>
  <2>1. a[1] \in Segments /\ a[2] \in 1..MaxBlocks /\ a = <<a[1], a[2]>>
    OBVIOUS
  <2>2. log \in Seq({log[n] : n \in DOMAIN log})
    BY <1>1 DEF StreamTypeOK
  <2>3. a[1] \in DOMAIN log /\ a[1] \in Nat
    BY <2>1, <2>2 DEF Segments
  <2> QED
    BY <2>1, <2>3 DEF AdmittedAt, Segments
<1>4. ASSUME NEW n \in Nat, NEW p \in Nat, AdmittedAt(log, n, p) PROVE <<n, p>> \in admitted
  <2>1. n \in DOMAIN log /\ p \in DOMAIN log[n].content /\ n \in Segments
    BY <1>4 DEF AdmittedAt, Segments
  <2>2. log[n].content \in Seq(Blocks) /\ Len(log[n].content) <= MaxBlocks
    BY <1>1, <2>1 DEF StreamTypeOK
  <2>3. p \in 1..MaxBlocks
    BY <2>1, <2>2
  <2> QED
    BY <1>4, <2>1, <2>3 DEF AdmittedAt
<1>5. \A k \in 1..Len(tasks) : \E a \in admitted : said(a) = tasks[k].call
  <2> SUFFICES ASSUME NEW k \in 1..Len(tasks) PROVE \E a \in admitted : said(a) = tasks[k].call
    OBVIOUS
  <2>1. PICK n \in Nat, p \in Nat : AdmittedAt(log, n, p) /\ log[n].content[p] = tasks[k].call
    BY <1>1, <1>2 DEF TasksFit, Accounted
  <2>2. <<n, p>> \in admitted /\ said(<<n, p>>) = tasks[k].call
    BY <1>4, <2>1
  <2> QED
    BY <2>2
<1>6. ASSUME NEW a \in admitted PROVE \E k \in 1..Len(tasks) : tasks[k].call = said(a)
  <2>1. /\ AdmittedAt(log, a[1], a[2]) /\ a[1] \in Nat /\ a[2] \in Nat
        /\ \A k \in DOMAIN unstarted : FALSE
    BY <1>2, <1>3
  <2>2. \/ \E k \in DOMAIN tasks : tasks[k].call = log[a[1]].content[a[2]]
        \/ \E k \in DOMAIN unstarted : unstarted[k].call = log[a[1]].content[a[2]]
    BY <1>1, <2>1 DEF TasksFit
  <2> QED
    BY <1>2, <2>1, <2>2
<1>7. ASSUME NEW a \in admitted, NEW b \in admitted, said(a) = said(b) PROVE a = b
  <2>1. /\ AdmittedAt(log, a[1], a[2]) /\ a[1] \in Nat /\ a[2] \in Nat /\ a = <<a[1], a[2]>>
        /\ AdmittedAt(log, b[1], b[2]) /\ b[1] \in Nat /\ b[2] \in Nat /\ b = <<b[1], b[2]>>
    BY <1>3
  <2>2. log[a[1]].content[a[2]] = log[b[1]].content[b[2]]
    BY <1>7
  <2> HIDE DEF admitted, said
  <2>3. \A n, i, m, q \in Nat : AdmittedAt(log, n, i) /\ AdmittedAt(log, m, q)
                                /\ log[n].content[i].id = log[m].content[q].id => n = m /\ i = q
    BY <1>1 DEF TasksFit
  <2>4. a[1] = b[1] /\ a[2] = b[2]
    BY <2>1, <2>2, <2>3
  <2> QED
    BY <2>1, <2>4
<1>8. \A k, l \in 1..Len(tasks) : tasks[k].call = tasks[l].call => k = l
  BY <1>1, <1>2 DEF TasksFit, IdsDiffer
<1> HIDE DEF admitted, said
<1>9. \A k \in 1..Len(tasks) : g[k] \in admitted /\ said(g[k]) = tasks[k].call
  BY <1>5
<1>10. g \in Bijection(1..Len(tasks), admitted)
  <2>1. g \in [1..Len(tasks) -> admitted]
    BY <1>9
  <2>2. \A k, l \in 1..Len(tasks) : g[k] = g[l] => k = l
    BY <1>8, <1>9
  <2>3. ASSUME NEW a \in admitted PROVE \E k \in 1..Len(tasks) : g[k] = a
    <3>1. PICK k \in 1..Len(tasks) : tasks[k].call = said(a)
      BY <1>6
    <3>2. g[k] \in admitted /\ said(g[k]) = said(a)
      BY <1>9, <3>1
    <3>3. g[k] = a
      BY <1>7, <3>2
    <3> QED
      BY <3>3
  <2> HIDE DEF g
  <2> QED
    BY <2>1, <2>2, <2>3, Zenon DEF Bijection, Injection, Surjection, IsInjective
<1>11. IsFiniteSet(1..Len(tasks)) /\ Cardinality(1..Len(tasks)) = Len(tasks)
  <2>1. 1 \in Int /\ Len(tasks) \in Int /\ (1 > Len(tasks) => Len(tasks) = 0)
    BY <1>2
  <2>2. /\ IsFiniteSet(1..Len(tasks))
        /\ Cardinality(1..Len(tasks)) = IF 1 > Len(tasks) THEN 0 ELSE Len(tasks) - 1 + 1
    BY <2>1, FS_Interval
  <2> QED
    BY <1>2, <2>1, <2>2
<1>12. Cardinality(admitted) = Len(tasks)
  <2>1. ExistsBijection(1..Len(tasks), admitted)
    BY <1>10 DEF ExistsBijection
  <2> QED
    BY <1>11, <2>1, FS_Bijection
<1>13. \A a \in admitted : \E k \in DOMAIN tasks : tasks[k].call = said(a)
  BY <1>2, <1>6
<1> QED
  BY <1>12, <1>13 DEF AdmittedCallsAreScheduled, admitted, said

\* However frames, hooks, failed publications, an abort and the tools interleave, what the
\* adapter has let through, the planner's slots, the plan that waits, the transcript, the tasks
\* and the calls that ran fit together.  (actor-coordinator.mjs: inference)
THEOREM CallsInvariantHolds == Spec => []CallsInvariant
<1>1. Init => CallsInvariant
  BY AttemptStarts
<1>2. CallsInvariant /\ [Next]_vars => CallsInvariant'
  BY StepsKeepCalls
<1> QED
  BY <1>1, <1>2, PTL DEF Spec

\* No tool runs for a call the transcript does not have, or twice, or with arguments the
\* provider had not completed; and no call of the transcript is left without a task, whether
\* the attempt ends well, fails or is aborted.  (actor-coordinator.mjs: inference, its tool tail
\* and its catch)
THEOREM CallsAlwaysRun == Spec => []CallsAreRun
<1>1. CallsInvariant => CallsAreRun
  BY RanAreSaid, AdmittedAreTasks DEF CallsAreRun
<1> QED
  BY <1>1, CallsInvariantHolds, PTL

-----------------------------------------------------------------------------
(* The whole answer: what holds beside CallsInvariant. *)

\* Identities of texts and thoughts are not repeated, nor those of an earlier response; only
\* thoughts have ciphers.
ItemsFit ==
  /\ \A k, l \in DOMAIN out : IsSaid(out[k]) /\ out[k].id = out[l].id => k = l
  /\ \A k \in DOMAIN out : out[k].id \notin Retired /\ (out[k].cipher => out[k].id \in Thoughts)

\* A block begins before it ends, and each once: what is closed has no event under way.
IsMark(e) == e.type \in {"begin", "end"}
EventsOnce ==
  /\ \A n \in DOMAIN events : IsMark(events[n]) => planner.slots[events[n].index].st # "closed"
  /\ \A n, m \in DOMAIN events :
       n < m /\ IsMark(events[n]) /\ IsMark(events[m]) /\ events[n].index = events[m].index
       => events[n].type = "begin" /\ events[m].type = "end"
  /\ \A k \in 1..MaxBlocks : planner.slots[k].st = "closed" => out[k].body # 0

\* The view follows the planner.
ShowsUpTo(k) == \A l \in 1..MaxBlocks : planner.slots[l].st # "none" => l <= k
ViewFits ==
  /\ view = [kept |-> view.kept, from |-> view.from, to |-> view.to]
  /\ co.at = "wait" => view.kept = planner.cursor
  /\ co.at = "wait" /\ planner.started /\ ~aborted => view.from = planner.cursor /\ ShowsUpTo(view.to)
  /\ co.at \in {"hook", "publish"} /\ plan.kind = "prefix" => ShowsUpTo(plan.rest)
  /\ co.at = "publish" => planner.cursor = plan.to

\* The plan takes the message up where the planner's cursor is.
PlanExact ==
  /\ co.at = "hook" /\ plan.kind = "prefix" =>
       /\ plan.from = planner.cursor /\ plan.to = planner.cursor + Len(plan.content)
       /\ \A n \in DOMAIN plan.content : planner.slots[planner.cursor + n] = [st |-> "closed", block |-> plan.content[n]]
  /\ co.at \in {"amend", "hook"} /\ plan.kind = "final" =>
       /\ plan.from = planner.cursor /\ planner.cursor + Len(plan.content) = Len(out)
       /\ \A n \in DOMAIN plan.content :
            /\ plan.content[n].id = out[planner.cursor + n].id
            /\ plan.content[n].cipher = out[planner.cursor + n].cipher

\* While only prefixes are committed, they cover the source up to the cursor, each block once.
IsSegment(l, n) == n \in DOMAIN l /\ l[n].kind = "segment"
Covered(l, slots, cursor) ==
  /\ \A n \in DOMAIN l : IsSegment(l, n) =>
       /\ l[n].from \in Nat /\ l[n].from + Len(l[n].content) <= cursor
       /\ \A p \in DOMAIN l[n].content :
            /\ slots[l[n].from + p].st = "closed" /\ l[n].content[p].id = slots[l[n].from + p].block.id
            /\ slots[l[n].from + p].block.cipher => l[n].content[p].cipher
  /\ \A n, m \in DOMAIN l : IsSegment(l, n) /\ IsSegment(l, m) /\ n < m =>
       l[n].from + Len(l[n].content) <= l[m].from
  /\ \A k \in 1..cursor : \E n \in DOMAIN l : IsSegment(l, n) /\ \E p \in DOMAIN l[n].content : l[n].from + p = k
Streaming == co.at \in {"wait", "amend", "hook"} \/ (co.at = "publish" /\ plan.kind = "prefix")
SegmentsExact == Streaming => Covered(log, planner.slots, planner.cursor)

\* What became known of a committed thought is amended, or is to be.
IsAmended(l, n, p) == \E a \in DOMAIN l : l[a].kind = "amendment" /\ l[a].entry = n /\ l[a].at = p
AmendmentsFit ==
  /\ co.at = "amend" => co.todo \in Seq(1..planner.cursor)
  /\ co.at \in {"amend", "hook"} /\ plan.kind = "final" =>
       \A n \in DOMAIN log : IsSegment(log, n) => \A p \in DOMAIN log[n].content :
         out[log[n].from + p].cipher =>
           \/ log[n].content[p].cipher \/ IsAmended(log, n, p)
           \/ co.at = "amend" /\ \E j \in DOMAIN co.todo : co.todo[j] = log[n].from + p

\* From the final commit on, the transcript has the whole answer.
Whole(l, o) ==
  /\ \A k \in DOMAIN o : IsSaid(o[k]) =>
       \E n \in DOMAIN l : IsSegment(l, n) /\ \E p \in DOMAIN l[n].content : l[n].content[p].id = o[k].id
  /\ \A n \in DOMAIN l : IsSegment(l, n) => \A p \in DOMAIN l[n].content :
       \E k \in DOMAIN o : o[k].id = l[n].content[p].id /\ (o[k].cipher => l[n].content[p].cipher \/ IsAmended(l, n, p))
  /\ \A n, m \in DOMAIN l : IsSegment(l, n) /\ IsSegment(l, m) =>
       \A p \in DOMAIN l[n].content, q \in DOMAIN l[m].content : n < m \/ (n = m /\ p < q) =>
         \E j, k \in DOMAIN o : j < k /\ o[j].id = l[n].content[p].id /\ o[k].id = l[m].content[q].id
IsTold == (co.at \in {"publish", "drain", "finish"} /\ plan.kind = "final") \/ Succeeded
AnswerTold == IsTold => Whole(log, out)

AnswerInvariant ==
  /\ ItemsFit /\ EventsOnce /\ ViewFits /\ PlanExact /\ SegmentsExact /\ AmendmentsFit /\ AnswerTold

-----------------------------------------------------------------------------
LEMMA AnswerStarts == Init => AnswerInvariant
<1> SUFFICES ASSUME Init PROVE AnswerInvariant
  OBVIOUS
<1>1. /\ DOMAIN out = {} /\ DOMAIN events = {} /\ DOMAIN log = {} /\ co.at = "wait" /\ plan.kind = "none"
      /\ planner.cursor = 0 /\ ~planner.started /\ view = [kept |-> 0, from |-> 0, to |-> 0]
      /\ \A k \in 1..MaxBlocks : planner.slots[k] = NoSlot
  BY DEF Init, NoPlan
<1>2. NoSlot.st = "none"
  BY DEF NoSlot
<1>3. ItemsFit /\ EventsOnce /\ ViewFits /\ PlanExact
  BY <1>1, <1>2 DEF ItemsFit, EventsOnce, ViewFits, PlanExact
<1>4. AmendmentsFit /\ AnswerTold
  BY <1>1 DEF AmendmentsFit, AnswerTold, IsTold, Succeeded
<1>5. SegmentsExact
  BY <1>1 DEF SegmentsExact, Covered, IsSegment
<1> QED
  BY <1>3, <1>4, <1>5 DEF AnswerInvariant

-----------------------------------------------------------------------------
(* Frames. *)

\* A mark that may follow the events there are.
Fresh(e) == e.index \in DOMAIN out => e.type = "end" /\ out[e.index].body = 0
MarksInTurn(evs, k) ==
  \A n, m \in DOMAIN evs :
    k < n /\ n < m /\ IsMark(evs[n]) /\ IsMark(evs[m]) /\ evs[n].index = evs[m].index
    => evs[n].type = "begin" /\ evs[m].type = "end"

LEMMA MarksKept ==
  ASSUME StreamTypeOK, AdapterFits, PlannerFits, EventsOnce, AdapterSteps, Len(events) <= Len(events'),
         \A n \in DOMAIN events : events'[n] = events[n],
         \A n \in DOMAIN events' : Len(events) < n /\ IsMark(events'[n]) => Fresh(events'[n]),
         MarksInTurn(events', Len(events))
  PROVE  EventsOnce'
<1> USE StreamAssumption
<1>1. /\ planner' = planner /\ OutGrows /\ events' \in Seq(EventRecords) /\ events \in Seq(EventRecords)
      /\ out' \in Seq(Blocks) /\ Len(out') <= MaxBlocks
      /\ out \in Seq(Blocks) /\ Len(out) <= MaxBlocks
  BY DEF AdapterSteps, StreamTypeOK, actor
<1>2. /\ DOMAIN events = 1..Len(events) /\ DOMAIN events' = 1..Len(events')
      /\ Len(events) \in Nat /\ Len(events') \in Nat
      /\ DOMAIN out \subseteq 1..MaxBlocks /\ DOMAIN out' \subseteq 1..MaxBlocks
  BY <1>1
<1>3. ASSUME NEW n \in DOMAIN events, IsMark(events[n])
      PROVE  /\ events[n].index \in DOMAIN out /\ planner.slots[events[n].index].st # "closed"
             /\ events[n].type = "end" => out[events[n].index].body # 0
  BY <1>3 DEF AdapterFits, EventFits, EventsOnce, IsMark
<1>4. ASSUME NEW n \in DOMAIN events', IsMark(events'[n])
      PROVE  events'[n].index \in 1..MaxBlocks
  <2>1. AdapterFits'
    BY DEF AdapterSteps
  <2>2. events'[n].index \in DOMAIN out'
    BY <1>4, <2>1 DEF AdapterFits, EventFits, IsMark
  <2> QED
    BY <1>2, <2>2
<1>5. \A k \in 1..MaxBlocks : planner.slots[k].st = "closed" => k \in DOMAIN out /\ out[k].body # 0
  BY DEF PlannerFits, EventsOnce
<1>6. ASSUME NEW n \in DOMAIN events', IsMark(events'[n])
      PROVE  planner.slots[events'[n].index].st # "closed"
  <2>1. CASE n \in DOMAIN events
    BY <1>3, <1>6, <2>1
  <2>2. CASE n \notin DOMAIN events
    <3>1. Len(events) < n
      BY <1>2, <2>2
    <3>2. Fresh(events'[n])
      BY <1>6, <3>1
    <3> QED
      BY <1>4, <1>5, <1>6, <3>2 DEF Fresh
  <2> QED
    BY <2>1, <2>2
<1>7. ASSUME NEW n \in DOMAIN events', NEW m \in DOMAIN events', n < m, IsMark(events'[n]),
             IsMark(events'[m]), events'[n].index = events'[m].index
      PROVE  events'[n].type = "begin" /\ events'[m].type = "end"
  <2>1. CASE m \in DOMAIN events
    <3>1. n \in DOMAIN events
      BY <1>2, <1>7, <2>1
    <3> QED
      BY <1>7, <2>1, <3>1 DEF EventsOnce
  <2>2. CASE n \in DOMAIN events /\ m \notin DOMAIN events
    <3>1. Len(events) < m
      BY <1>2, <2>2
    <3>2. Fresh(events'[m]) /\ events'[n] = events[n]
      BY <1>7, <2>2, <3>1
    <3> QED
      BY <1>3, <1>7, <2>2, <3>2 DEF Fresh, IsMark
  <2>3. CASE n \notin DOMAIN events
    <3>1. Len(events) < n
      BY <1>2, <2>3
    <3> QED
      BY <1>7, <3>1 DEF MarksInTurn
  <2> QED
    BY <2>1, <2>2, <2>3
<1>8. \A k \in 1..MaxBlocks : planner.slots[k].st = "closed" => out'[k].body # 0
  BY <1>1, <1>5 DEF OutGrows
<1> QED
  BY <1>1, <1>6, <1>7, <1>8 DEF EventsOnce

LEMMA NoMarks ==
  ASSUME StreamTypeOK, AdapterFits, PlannerFits, EventsOnce, AdapterSteps,
         events' = events \/ \E e : events' = Append(events, e) /\ ~IsMark(e)
  PROVE  EventsOnce'
<1>1. events \in Seq(EventRecords) /\ Len(events) \in Nat /\ DOMAIN events = 1..Len(events)
  BY DEF StreamTypeOK
<1>2. CASE events' = events
  <2>1. \A n \in DOMAIN events' : ~(Len(events) < n)
    BY <1>1, <1>2
  <2> QED
    BY <1>1, <1>2, <2>1, MarksKept DEF MarksInTurn
<1>3. CASE \E e : events' = Append(events, e) /\ ~IsMark(e)
  <2>1. PICK e : events' = Append(events, e) /\ ~IsMark(e)
    BY <1>3
  <2>2. events \in Seq({events[n] : n \in DOMAIN events})
    BY <1>1
  <2>3. /\ DOMAIN events' = 1..Len(events) + 1 /\ events'[Len(events) + 1] = e
        /\ \A n \in DOMAIN events : events'[n] = events[n]
    BY <2>1, <2>2, AppendedTo
  <2>4. events' \in Seq(EventRecords)
    BY DEF AdapterSteps, StreamTypeOK
  <2>5. Len(events) <= Len(events')
    <3>1. Len(events) + 1 \in DOMAIN events'
      BY <1>1, <2>3
    <3> QED
      BY <1>1, <2>4, <3>1
  <2>6. ASSUME NEW n \in DOMAIN events', Len(events) < n PROVE ~IsMark(events'[n])
    <3>1. n = Len(events) + 1
      BY <1>1, <2>3, <2>6
    <3> QED
      BY <2>1, <2>3, <3>1
  <2> QED
    BY <2>3, <2>5, <2>6, MarksKept DEF MarksInTurn
<1> QED
  BY <1>2, <1>3

\* New marks come after waiting events that have none.
LEMMA JoinedMarks ==
  ASSUME NEW T, NEW s \in Seq(T), NEW w \in Seq(T), NEW r \in Seq(T), Len(s) <= Len(w),
         \A n \in DOMAIN s : w[n] = s[n], \A n \in DOMAIN w : Len(s) < n => ~IsMark(w[n]),
         \A n \in DOMAIN r : IsMark(r[n]) => Fresh(r[n]), MarksInTurn(r, 0)
  PROVE  /\ Len(s) <= Len(w \o r) /\ \A n \in DOMAIN s : (w \o r)[n] = s[n]
         /\ \A n \in DOMAIN (w \o r) : Len(s) < n /\ IsMark((w \o r)[n]) => Fresh((w \o r)[n])
         /\ MarksInTurn(w \o r, Len(s))
<1> DEFINE j == w \o r
<1>1. /\ DOMAIN s = 1..Len(s) /\ DOMAIN w = 1..Len(w) /\ DOMAIN r = 1..Len(r)
      /\ Len(s) \in Nat /\ Len(w) \in Nat /\ Len(r) \in Nat
  OBVIOUS
<1>2. j \in Seq(T) /\ DOMAIN j = 1..Len(w) + Len(r)
  BY Joined
<1>3. \A n \in DOMAIN w : j[n] = w[n]
  BY Joined
<1>4. \A n \in DOMAIN r : j[Len(w) + n] = r[n]
  BY Joined
<1>5. Len(j) = Len(w) + Len(r)
  OBVIOUS
<1> HIDE DEF j
<1>6. ASSUME NEW n \in DOMAIN j, Len(s) < n, IsMark(j[n])
      PROVE  n - Len(w) \in DOMAIN r /\ j[n] = r[n - Len(w)] /\ n \in Nat
  <2>1. n \notin DOMAIN w
    BY <1>3, <1>6
  <2>2. n \in Nat /\ n - Len(w) \in DOMAIN r /\ Len(w) + (n - Len(w)) = n
    BY <1>1, <1>2, <2>1
  <2>3. j[Len(w) + (n - Len(w))] = r[n - Len(w)]
    BY <1>4, <2>2
  <2> QED
    BY <2>2, <2>3
<1>7. \A n \in DOMAIN j : Len(s) < n /\ IsMark(j[n]) => Fresh(j[n])
  BY <1>6
<1>8. MarksInTurn(j, Len(s))
  <2> SUFFICES ASSUME NEW n \in DOMAIN j, NEW m \in DOMAIN j, Len(s) < n, n < m,
                      IsMark(j[n]), IsMark(j[m]), j[n].index = j[m].index
               PROVE  j[n].type = "begin" /\ j[m].type = "end"
    BY DEF MarksInTurn
  <2>1. Len(s) < m /\ n \in Nat /\ m \in Nat
    BY <1>1, <1>2
  <2>2. /\ n - Len(w) \in DOMAIN r /\ j[n] = r[n - Len(w)]
        /\ m - Len(w) \in DOMAIN r /\ j[m] = r[m - Len(w)]
    BY <1>6, <2>1
  <2>3. n - Len(w) < m - Len(w) /\ 0 < n - Len(w)
    BY <1>1, <2>1, <2>2
  <2> QED
    BY <2>2, <2>3 DEF MarksInTurn
<1>9. Len(s) <= Len(j) /\ \A n \in DOMAIN s : j[n] = s[n]
  BY <1>1, <1>3, <1>5
<1> QED
  BY <1>7, <1>8, <1>9 DEF j

LEMMA FramesOnce ==
  ASSUME StreamTypeOK, AdapterFits, PlannerFits, EventsOnce, AdapterSteps,
         NEW message, NEW evs \in Seq(EventRecords), Receives(message, evs),
         \A n \in DOMAIN evs : IsMark(evs[n]) => Fresh(evs[n]), MarksInTurn(evs, 0)
  PROVE  EventsOnce'
<1>1. Event("start", 0) \in EventRecords /\ ~IsMark(Event("start", 0))
  BY DEF Event, EventRecords, IsMark
<1>2. events \in Seq(EventRecords)
  BY DEF StreamTypeOK
<1>3. CASE events' = events \o evs
  <2>1. \A n \in DOMAIN events : Len(events) < n => ~IsMark(events[n])
    BY <1>2
  <2>2. /\ Len(events) <= Len(events \o evs) /\ \A n \in DOMAIN events : (events \o evs)[n] = events[n]
        /\ \A n \in DOMAIN (events \o evs) : Len(events) < n /\ IsMark((events \o evs)[n]) => Fresh((events \o evs)[n])
        /\ MarksInTurn(events \o evs, Len(events))
    BY <1>2, <2>1, JoinedMarks
  <2> QED
    BY <1>3, <2>2, MarksKept
<1>4. CASE events' = Append(events, Event("start", 0)) \o evs
  <2> DEFINE w == Append(events, Event("start", 0))
  <2>1. /\ w \in Seq(EventRecords) /\ Len(w) = Len(events) + 1 /\ w[Len(events) + 1] = Event("start", 0)
        /\ \A n \in DOMAIN events : w[n] = events[n]
    BY <1>1, <1>2
  <2> HIDE DEF w
  <2>2. Len(events) <= Len(w)
    BY <1>2, <2>1
  <2>3. ASSUME NEW n \in DOMAIN w, Len(events) < n PROVE ~IsMark(w[n])
    <3>1. n = Len(events) + 1
      BY <1>2, <2>1, <2>3
    <3> QED
      BY <1>1, <2>1, <3>1
  <2>4. /\ Len(events) <= Len(w \o evs) /\ \A n \in DOMAIN events : (w \o evs)[n] = events[n]
        /\ \A n \in DOMAIN (w \o evs) : Len(events) < n /\ IsMark((w \o evs)[n]) => Fresh((w \o evs)[n])
        /\ MarksInTurn(w \o evs, Len(events))
    BY <1>2, <2>1, <2>2, <2>3, JoinedMarks
  <2> QED
    BY <1>4, <2>4, MarksKept DEF w
<1>5. events' = events \o evs \/ events' = Append(events, Event("start", 0)) \o evs
  BY DEF Receives
<1> QED
  BY <1>3, <1>4, <1>5

\* Blocks keep their identities, and a new one is of this response.
LEMMA ItemsKept ==
  ASSUME StreamTypeOK, ItemsFit, OutGrows,
         \A k \in DOMAIN out : out'[k].cipher => out[k].cipher \/ out[k].id \in Thoughts,
         \A k \in DOMAIN out' \ DOMAIN out :
           /\ k = Len(out) + 1 /\ out'[k].id \notin Retired /\ out'[k].id \notin Ids(out) \ Calls
           /\ out'[k].cipher => out'[k].id \in Thoughts
  PROVE  ItemsFit'
<1>1. \A k \in DOMAIN out : k \in DOMAIN out' /\ out'[k].id = out[k].id
  BY DEF OutGrows
<1>2. ASSUME NEW k \in DOMAIN out', NEW l \in DOMAIN out', IsSaid(out'[k]), out'[k].id = out'[l].id
      PROVE  k = l
  <2>1. CASE k \in DOMAIN out /\ l \in DOMAIN out
    BY <1>1, <1>2, <2>1 DEF ItemsFit, IsSaid
  <2>2. CASE k \in DOMAIN out /\ l \notin DOMAIN out
    BY <1>1, <1>2, <2>2 DEF IsSaid, Ids
  <2>3. CASE k \notin DOMAIN out /\ l \in DOMAIN out
    BY <1>1, <1>2, <2>3 DEF IsSaid, Ids
  <2>4. CASE k \notin DOMAIN out /\ l \notin DOMAIN out
    BY <2>4
  <2> QED
    BY <2>1, <2>2, <2>3, <2>4
<1>3. ASSUME NEW k \in DOMAIN out'
      PROVE  out'[k].id \notin Retired /\ (out'[k].cipher => out'[k].id \in Thoughts)
  <2>1. CASE k \in DOMAIN out
    BY <1>1, <2>1 DEF ItemsFit
  <2>2. CASE k \notin DOMAIN out
    BY <2>2
  <2> QED
    BY <2>1, <2>2
<1>4. \A k, l \in DOMAIN out' : IsSaid(out'[k]) /\ out'[k].id = out'[l].id => k = l
  BY <1>2
<1> QED
  BY <1>3, <1>4 DEF ItemsFit, IsSaid

LEMMA QuietFrames ==
  ASSUME StreamTypeOK, AdapterFits, PlannerFits, EventsOnce, ItemsFit, AdapterSteps, UNCHANGED out,
         events' = events \/ events' = Append(events, Event("start", 0)) \/ events' = Failed(events)
  PROVE  EventsOnce' /\ ItemsFit'
<1>1. ~IsMark(Event("start", 0)) /\ ~IsMark(Event("error", 0))
  BY DEF IsMark, Event
<1>2. events' = events \/ \E e : events' = Append(events, e) /\ ~IsMark(e)
  BY <1>1 DEF Failed
<1> QED
  BY <1>2, NoMarks DEF ItemsFit

LEMMA AddedOnce ==
  ASSUME StreamTypeOK, AdapterFits, PlannerFits, EventsOnce, ItemsFit, AdapterSteps,
         NEW b \in Blocks, b.id \notin Retired, b.id \notin Ids(out) \ Calls, b.cipher => b.id \in Thoughts,
         NEW evs \in Seq(EventRecords), Receives(Append(out, b), evs), MarksInTurn(evs, 0),
         \A n \in DOMAIN evs : evs[n].index = Len(out) + 1
  PROVE  EventsOnce' /\ ItemsFit'
<1>1. /\ out \in Seq(Blocks) /\ DOMAIN out = 1..Len(out) /\ Len(out) \in Nat /\ OutGrows
  BY DEF StreamTypeOK, AdapterSteps
<1>2. out' = Append(out, b)
  BY DEF Receives
<1>3. /\ DOMAIN out' = 1..Len(out) + 1 /\ out'[Len(out) + 1] = b /\ \A k \in DOMAIN out : out'[k] = out[k]
  BY <1>1, <1>2
<1>4. \A n \in DOMAIN evs : Fresh(evs[n])
  BY <1>1 DEF Fresh
<1>5. EventsOnce'
  <2> DEFINE message == Append(out, b)
  <2>1. Receives(message, evs)
    OBVIOUS
  <2> HIDE DEF message
  <2> QED
    BY <1>4, <2>1, FramesOnce
<1>6. \A k \in DOMAIN out' \ DOMAIN out : k = Len(out) + 1
  BY <1>1, <1>3
<1> QED
  BY <1>1, <1>3, <1>5, <1>6, ItemsKept

LEMMA ItemAddedOnce ==
  ASSUME StreamTypeOK, AdapterFits, PlannerFits, EventsOnce, ItemsFit, AdapterSteps,
         NEW i \in Items, ItemAdded(i) \/ ItemRepeated(i)
  PROVE  EventsOnce' /\ ItemsFit'
<1>1. CASE Receives(Append(out, Block(i, 0)), <<Event("begin", Len(out) + 1)>>)
  <2> DEFINE evs == <<Event("begin", Len(out) + 1)>>
             b == Block(i, 0)
  <2>1. /\ evs \in Seq(EventRecords) /\ DOMAIN evs = {1}
        /\ \A n \in DOMAIN evs : evs[n].index = Len(out) + 1
    BY DEF Event, EventRecords, StreamTypeOK
  <2>2. b \in Blocks /\ b.id = i /\ ~b.cipher
    BY DEF Block, Blocks
  <2>3. i \notin Retired /\ i \notin Ids(out) \ Calls
    BY DEF ItemAdded, ItemRepeated, Comes, Fenced
  <2>4. Receives(Append(out, b), evs)
    BY <1>1
  <2> HIDE DEF evs, b
  <2>5. MarksInTurn(evs, 0)
    BY <2>1 DEF MarksInTurn
  <2> QED
    BY <2>1, <2>2, <2>3, <2>4, <2>5, AddedOnce
<1>2. CASE EndsInFailure
  BY <1>2, QuietFrames DEF EndsInFailure
<1> QED
  BY <1>1, <1>2 DEF ItemAdded, ItemRepeated

LEMMA ItemDoneOnce ==
  ASSUME StreamTypeOK, AdapterFits, PlannerFits, EventsOnce, ItemsFit, AdapterSteps,
         NEW i \in Items, NEW b \in Completions(i), ItemDone(i, b)
  PROVE  EventsOnce' /\ ItemsFit'
<1>1. /\ out \in Seq(Blocks) /\ DOMAIN out = 1..Len(out) /\ Len(out) \in Nat /\ OutGrows
  BY DEF StreamTypeOK, AdapterSteps
<1>2. b \in Blocks /\ b.id = i /\ (b.cipher => i \in Thoughts)
  <2>1. b \in Blocks /\ b.id = i
    BY CompletionsFit
  <2>2. PICK async \in BOOLEAN, cipher \in BOOLEAN :
          b = Completed(i, async /\ native /\ i \in Calls, cipher /\ i \in Thoughts)
    BY DEF Completions
  <2> DEFINE early == async /\ native /\ i \in Calls
             ciphered == cipher /\ i \in Thoughts
  <2>3. b = [id |-> i, body |-> 1, cipher |-> ciphered, async |-> early /\ i \in Opted]
    BY <2>2 DEF Completed, Block
  <2> HIDE DEF early
  <2>4. b.cipher = ciphered
    BY <2>3
  <2> QED
    BY <2>1, <2>4
<1>3. CASE i \notin Ids(out)
  <2> DEFINE k == Len(out) + 1
             first == <<Event("begin", k)>>
             second == <<Event("end", k)>>
             evs == first \o second
  <2>1. Event("begin", k) \in EventRecords /\ Event("end", k) \in EventRecords
    BY <1>1 DEF Event, EventRecords
  <2>2. /\ first \in Seq(EventRecords) /\ Len(first) = 1 /\ first[1] = Event("begin", k)
        /\ second \in Seq(EventRecords) /\ Len(second) = 1 /\ second[1] = Event("end", k)
    <3> HIDE DEF k
    <3> QED
      BY <2>1
  <2>4. Receives(Append(out, b), evs)
    BY <1>1, <1>3 DEF ItemDone
  <2> HIDE DEF first, second
  <2>3. evs \in Seq(EventRecords) /\ DOMAIN evs = 1..2 /\ evs[1] = Event("begin", k) /\ evs[2] = Event("end", k)
    <3>1. evs \in Seq(EventRecords) /\ DOMAIN evs = 1..Len(first) + Len(second)
      BY <2>2, Joined
    <3>2. 1 \in DOMAIN first /\ 1 \in DOMAIN second
      BY <2>2
    <3>3. evs[1] = first[1]
      BY <2>2, <3>2, Joined
    <3>4. evs[Len(first) + 1] = second[1]
      BY <2>2, <3>2, Joined
    <3> HIDE DEF evs
    <3> QED
      BY <2>2, <3>1, <3>3, <3>4
  <2> HIDE DEF evs
  <2>5. \A n \in DOMAIN evs : n = 1 \/ n = 2
    BY <2>3
  <2>6. /\ \A n \in DOMAIN evs : evs[n].index = k
        /\ evs[1].type = "begin" /\ evs[2].type = "end"
    BY <2>3, <2>5 DEF Event
  <2>7. MarksInTurn(evs, 0)
    <3> SUFFICES ASSUME NEW n \in DOMAIN evs, NEW m \in DOMAIN evs, n < m
                 PROVE  evs[n].type = "begin" /\ evs[m].type = "end"
      BY DEF MarksInTurn
    <3>1. n = 1 /\ m = 2
      BY <2>5
    <3> QED
      BY <2>6, <3>1
  <2>8. i \notin Retired
    BY DEF ItemDone, Comes, Fenced
  <2> QED
    BY <1>2, <1>3, <2>3, <2>4, <2>6, <2>7, <2>8, AddedOnce
<1>4. CASE i \in Ids(out)
  <2> DEFINE k == CHOOSE l \in DOMAIN out : out[l].id = i
             message == [out EXCEPT ![k] = b]
             evs == <<>> \o <<Event("end", k)>>
  <2>1. k \in DOMAIN out /\ out[k].id = i
    BY <1>4 DEF Ids
  <2>2. out[k].body = 0 /\ Receives(message, evs)
    BY <1>4, <2>1 DEF ItemDone
  <2> HIDE DEF k
  <2>3. /\ evs \in Seq(EventRecords) /\ DOMAIN evs = {1}
        /\ \A n \in DOMAIN evs : evs[n].type = "end" /\ evs[n].index = k
    BY <1>1, <2>1 DEF Event, EventRecords
  <2>4. /\ DOMAIN message = DOMAIN out /\ message[k] = b /\ \A l \in DOMAIN out : l # k => message[l] = out[l]
    BY <1>1, <2>1
  <2> HIDE DEF message, evs
  <2>5. out' = message
    BY <2>2 DEF Receives
  <2>6. EventsOnce'
    <3>1. \A n \in DOMAIN evs : Fresh(evs[n])
      BY <2>2, <2>3 DEF Fresh
    <3>2. MarksInTurn(evs, 0)
      BY <2>3 DEF MarksInTurn
    <3> QED
      BY <2>2, <2>3, <3>1, <3>2, FramesOnce
  <2>7. \A l \in DOMAIN out : out'[l].cipher => out[l].cipher \/ out[l].id \in Thoughts
    BY <1>2, <2>1, <2>4, <2>5
  <2> QED
    BY <1>1, <2>4, <2>5, <2>6, <2>7, ItemsKept
<1> QED
  BY <1>3, <1>4

LEMMA TerminalOnce ==
  ASSUME StreamTypeOK, AdapterFits, PlannerFits, EventsOnce, ItemsFit, AdapterSteps,
         NEW completes \in SUBSET DOMAIN out, NEW ciphers \in SUBSET DOMAIN out,
         NEW wrong \in SUBSET DOMAIN out, NEW status, Terminal(completes, ciphers, wrong, status)
  PROVE  EventsOnce' /\ ItemsFit'
<1> DEFINE ended == InOrder(completes)
           message == Told(completes, ciphers, wrong)
           ends == [n \in DOMAIN ended |-> Event("end", ended[n])]
           last == <<Event(StopReason(status), 0)>>
<1>1. out \in Seq(Blocks) /\ DOMAIN out = 1..Len(out) /\ Len(out) \in Nat /\ OutGrows
  BY DEF StreamTypeOK, AdapterSteps
<1>2. CASE native /\ (Conflicts(wrong) \/ LeavesCallOpen(completes))
  <2>1. events' = Failed(events) /\ UNCHANGED out
    BY <1>2 DEF Terminal
  <2> QED
    BY <2>1, QuietFrames
<1>3. CASE ~(native /\ (Conflicts(wrong) \/ LeavesCallOpen(completes)))
  <2>1. Receives(message, ends \o last)
    BY <1>3, Zenon DEF Terminal
  <2>2. /\ \A k \in completes : out[k].body = 0
        /\ \A k \in ciphers : out[k].id \in Thoughts
    BY DEF Terminal
  <2>3. /\ DOMAIN ended = 1..Cardinality(completes) /\ Cardinality(completes) \in Nat
        /\ \A n \in DOMAIN ended : ended[n] \in completes
        /\ \A m, n \in DOMAIN ended : ended[m] = ended[n] => m = n
    BY <1>1, PlacesAreFinite, InOrderLists
  <2> HIDE DEF ended
  <2>4. /\ ends \in Seq(EventRecords) /\ DOMAIN ends = DOMAIN ended
        /\ \A n \in DOMAIN ends : ends[n].type = "end" /\ ends[n].index = ended[n]
    <3>1. \A n \in DOMAIN ended : Event("end", ended[n]) \in EventRecords
      BY <1>1, <2>3 DEF Event, EventRecords
    <3>2. ends \in Seq(EventRecords)
      BY <2>3, <3>1
    <3>3. \A n \in DOMAIN ends : ends[n].type = "end" /\ ends[n].index = ended[n]
      BY <2>3 DEF Event
    <3> QED
      BY <3>2, <3>3
  <2>5. last \in Seq(EventRecords) /\ \A n \in DOMAIN last : ~IsMark(last[n])
    BY DEF Event, EventRecords, StopReason, IsMark, Ends
  <2> HIDE DEF ends, last
  <2> DEFINE evs == ends \o last
  <2>6. evs \in Seq(EventRecords)
    BY <2>4, <2>5, Joined
  <2>7. ASSUME NEW n \in DOMAIN evs, IsMark(evs[n])
        PROVE  n \in DOMAIN ends /\ evs[n] = ends[n]
    <3>1. CASE n \in DOMAIN ends
      BY <2>4, <2>5, <3>1, Joined
    <3>2. CASE n - Len(ends) \in DOMAIN last /\ Len(ends) + (n - Len(ends)) = n
      <4>1. evs[n] = last[n - Len(ends)]
        BY <2>4, <2>5, <3>2, Joined
      <4> QED
        BY <2>5, <2>7, <3>2, <4>1
    <3> QED
      BY <2>4, <2>5, <3>1, <3>2, Joined
  <2>8. EventsOnce'
    <3> HIDE DEF evs, message
    <3>1. \A n \in DOMAIN evs : IsMark(evs[n]) => Fresh(evs[n])
      BY <2>2, <2>3, <2>4, <2>7 DEF Fresh
    <3>2. MarksInTurn(evs, 0)
      <4> SUFFICES ASSUME NEW n \in DOMAIN evs, NEW m \in DOMAIN evs, n < m, IsMark(evs[n]),
                          IsMark(evs[m]), evs[n].index = evs[m].index
                   PROVE  FALSE
        BY DEF MarksInTurn
      <4>1. n \in DOMAIN ended /\ m \in DOMAIN ended /\ ended[n] = ended[m]
        BY <2>4, <2>7
      <4>2. n = m /\ n \in Nat
        BY <2>3, <4>1
      <4> QED
        BY <4>2
    <3>3. Receives(message, evs)
      BY <2>1 DEF evs
    <3> QED
      BY <2>6, <3>1, <3>2, <3>3, FramesOnce
  <2>9. /\ DOMAIN out' = DOMAIN out
        /\ \A k \in DOMAIN out : out'[k].cipher => out[k].cipher \/ out[k].id \in Thoughts
    <3>1. out' = message
      BY <2>1 DEF Receives
    <3>2. DOMAIN message = DOMAIN out
      BY DEF Told
    <3>3. ASSUME NEW k \in DOMAIN out, message[k].cipher PROVE out[k].cipher \/ out[k].id \in Thoughts
      <4> DEFINE body == IF k \in completes THEN 1 ELSE IF k \in wrong /\ ~native THEN 2 ELSE out[k].body
                 cipher == out[k].cipher \/ k \in ciphers
      <4>1. message[k] = [[out[k] EXCEPT !.body = body] EXCEPT !.cipher = cipher]
        BY DEF Told
      <4>2. out[k] \in Blocks
        BY <1>1
      <4> HIDE DEF body, cipher, message
      <4>3. message[k].cipher = cipher
        BY <4>1, <4>2 DEF Blocks
      <4> QED
        BY <2>2, <3>3, <4>3 DEF cipher
    <3> QED
      BY <3>1, <3>2, <3>3
  <2> QED
    BY <1>1, <2>8, <2>9, ItemsKept
<1> QED
  BY <1>2, <1>3

LEMMA FramesKeepItems ==
  ASSUME StreamTypeOK, AdapterFits, PlannerFits, EventsOnce, ItemsFit, AdapterSteps,
         Connect \/ ConnectFails \/ Rejected \/ RequestAborted \/ Frame
  PROVE  EventsOnce' /\ ItemsFit'
<1>1. CASE Connect \/ ConnectFails \/ Rejected \/ RequestAborted \/ StreamFails \/ \E i \in Items : RetiredFrame(i)
  BY <1>1, QuietFrames DEF Connect, ConnectFails, Rejected, RequestAborted, StreamFails, RetiredFrame,
                           EndsInFailure
<1>2. CASE \E i \in Items : ItemAdded(i) \/ ItemRepeated(i)
  BY <1>2, ItemAddedOnce
<1>3. CASE \E i \in Items : \E b \in Completions(i) : ItemDone(i, b)
  BY <1>3, ItemDoneOnce
<1>4. CASE \E completes, ciphers, wrong \in SUBSET DOMAIN out, status \in {"completed", "incomplete"} :
             Terminal(completes, ciphers, wrong, status)
  BY <1>4, TerminalOnce
<1> QED
  BY <1>1, <1>2, <1>3, <1>4 DEF Frame

\* While the adapter still works, no final plan is there, and the rest does not look at its message.
LEMMA AdapterKeepsAnswer ==
  ASSUME CallsInvariant, AnswerInvariant, AdapterSteps,
         Connect \/ ConnectFails \/ Rejected \/ RequestAborted \/ Frame
  PROVE  AnswerInvariant'
<1>1. /\ StreamTypeOK /\ AdapterFits /\ PlannerFits /\ PlanFits /\ LoopFits
      /\ ItemsFit /\ EventsOnce /\ ViewFits /\ PlanExact /\ SegmentsExact
  BY DEF CallsInvariant, AnswerInvariant
<1>2. EventsOnce' /\ ItemsFit'
  BY <1>1, FramesKeepItems
<1>3. /\ planner' = planner /\ plan' = plan /\ co' = co /\ log' = log /\ view' = view /\ aborted' = aborted
      /\ plan.kind # "final"
  BY <1>1 DEF AdapterSteps, actor, PlanFits
<1>4. ViewFits'
  BY <1>1, <1>3 DEF ViewFits, ShowsUpTo
<1>5. PlanExact' /\ SegmentsExact'
  BY <1>1, <1>3 DEF PlanExact, SegmentsExact, Streaming
<1>6. AmendmentsFit' /\ AnswerTold'
  BY <1>1, <1>3 DEF AmendmentsFit, AnswerTold, IsTold, LoopFits, Succeeded, AnswerInvariant
<1> QED
  BY <1>2, <1>4, <1>5, <1>6 DEF AnswerInvariant

-----------------------------------------------------------------------------
(* One event. *)

LEMMA GivenUpKeepsAnswer ==
  ASSUME AnswerInvariant, GivesUp(FALSE) \/ GivesUp(TRUE), co.at \in Steps,
         co = [at |-> co.at, todo |-> co.todo, failed |-> co.failed, committed |-> co.committed],
         UNCHANGED <<out, view>>, EventsOnce'
  PROVE  AnswerInvariant'
<1>1. co'.at = "catch"
  BY DEF GivesUp
<1>2. ItemsFit' /\ view' = [kept |-> view'.kept, from |-> view'.from, to |-> view'.to]
  BY DEF AnswerInvariant, ItemsFit, ViewFits
<1>3. ViewFits' /\ PlanExact' /\ SegmentsExact' /\ AmendmentsFit' /\ AnswerTold'
  BY <1>1, <1>2 DEF ViewFits, PlanExact, SegmentsExact, Streaming, AmendmentsFit, AnswerTold, IsTold, Succeeded
<1> QED
  BY <1>2, <1>3 DEF AnswerInvariant

\* An event opens or closes the slot of its block, which was not closed.
SlotsMove(slots) ==
  /\ slots \in [1..MaxBlocks -> SlotRecords]
  /\ \A k \in 1..MaxBlocks : planner.slots[k].st = "closed" => slots[k] = planner.slots[k]
  /\ \A k \in 1..MaxBlocks : slots[k].st = "closed" => out[k].body # 0

LEMMA TakenOnce ==
  ASSUME StreamTypeOK, AdapterFits, EventsOnce, events # <<>>, events' = Tail(events),
         NEW slots, slots = planner.slots \/ (slots = Slots(Head(events)) /\ ~Refuses(Head(events))), PlannerFits
  PROVE  /\ SlotsMove(slots)
         /\ \A n \in DOMAIN events' : IsMark(events'[n]) => slots[events'[n].index].st # "closed"
         /\ \A n, m \in DOMAIN events' :
              n < m /\ IsMark(events'[n]) /\ IsMark(events'[m]) /\ events'[n].index = events'[m].index
              => events'[n].type = "begin" /\ events'[m].type = "end"
<1> USE StreamAssumption
<1> DEFINE e == Head(events)
<1>1. /\ events \in Seq(EventRecords) /\ DOMAIN events = 1..Len(events) /\ Len(events) \in Nat
      /\ out \in Seq(Blocks) /\ DOMAIN out \subseteq 1..MaxBlocks
      /\ planner.slots \in [1..MaxBlocks -> SlotRecords]
  BY DEF StreamTypeOK, PlannerRecords
<1>2. /\ 1 \in DOMAIN events /\ e = events[1] /\ e \in EventRecords
      /\ Len(events') = Len(events) - 1 /\ events' \in Seq(EventRecords)
      /\ \A n \in 1..Len(events) - 1 : events'[n] = events[n + 1]
  BY <1>1
<1>3. ASSUME NEW n \in DOMAIN events'
      PROVE  n + 1 \in DOMAIN events /\ events'[n] = events[n + 1] /\ 1 < n + 1 /\ n \in Nat
  BY <1>1, <1>2
<1>4. EventFits(e, out, net.at, against)
  BY <1>2 DEF AdapterFits
<1>5. \A k \in 1..MaxBlocks : planner.slots[k].st = "closed" => out[k].body # 0
  BY DEF EventsOnce
<1>6. ASSUME NEW n \in DOMAIN events', NEW m \in DOMAIN events', n < m, IsMark(events'[n]),
             IsMark(events'[m]), events'[n].index = events'[m].index
      PROVE  events'[n].type = "begin" /\ events'[m].type = "end"
  <2>1. n + 1 < m + 1
    BY <1>3, <1>6
  <2> QED
    BY <1>3, <1>6, <2>1 DEF EventsOnce
<1>7. CASE slots = planner.slots
  <2>1. \A n \in DOMAIN events' : IsMark(events'[n]) => slots[events'[n].index].st # "closed"
    BY <1>3, <1>7 DEF EventsOnce
  <2> QED
    BY <1>1, <1>5, <1>6, <1>7, <2>1 DEF SlotsMove
<1>8. CASE slots = Slots(e) /\ ~Refuses(e)
  <2>0. SlotsFit(slots, Proofs(e))
    BY <1>2, <1>4, <1>8, SlotsKept
  <2>1. IsMark(e) => e.index \in DOMAIN out /\ e.index \in 1..MaxBlocks /\ planner.slots[e.index].st # "closed"
    BY <1>1, <1>2, <1>4 DEF EventsOnce, EventFits, IsMark
  <2>2. \A k \in 1..MaxBlocks : k # e.index \/ ~IsMark(e) => slots[k] = planner.slots[k]
    BY <1>1, <1>8 DEF Slots, IsMark
  <2>3. /\ e.type = "end" => out[e.index].body # 0
        /\ e.type = "begin" => slots[e.index].st = "open"
    <3>1. e.type = "begin" => slots[e.index].st = "open"
      BY <1>1, <1>8, <2>1 DEF Slots, IsMark
    <3> QED
      BY <1>4, <3>1 DEF EventFits
  <2> HIDE DEF e
  <2>4. SlotsMove(slots)
    <3>1. ASSUME NEW k \in 1..MaxBlocks, slots[k].st = "closed" PROVE out[k].body # 0
      BY <1>5, <2>2, <2>3, <3>1 DEF IsMark
    <3>2. \A k \in 1..MaxBlocks : planner.slots[k].st = "closed" => slots[k] = planner.slots[k]
      BY <2>1, <2>2
    <3> QED
      BY <2>0, <3>1, <3>2 DEF SlotsMove, SlotsFit
  <2>5. ASSUME NEW n \in DOMAIN events', IsMark(events'[n])
        PROVE  slots[events'[n].index].st # "closed"
    <3> DEFINE k == events'[n].index
    <3>1. n + 1 \in DOMAIN events /\ events'[n] = events[n + 1] /\ 1 < n + 1
      BY <1>3
    <3>2. k \in 1..MaxBlocks /\ planner.slots[k].st # "closed"
      BY <1>1, <2>5, <3>1 DEF EventsOnce, AdapterFits, EventFits, IsMark
    <3>3. CASE k = e.index /\ IsMark(e)
      <4>1. e.type = "begin"
        BY <1>2, <2>5, <3>1, <3>3 DEF EventsOnce
      <4> QED
        BY <2>3, <3>3, <4>1
    <3>4. CASE ~(k = e.index /\ IsMark(e))
      BY <2>2, <3>2, <3>4
    <3> QED
      BY <3>3, <3>4
  <2> QED
    BY <1>6, <2>4, <2>5
<1> QED
  BY <1>7, <1>8

\* Closed slots stay as they are, and with them what is committed.
LEMMA CoveredKept ==
  ASSUME StreamTypeOK, NEW cursor \in Nat, cursor <= MaxBlocks, NEW s, NEW t,
         Covered(log, s, cursor), \A k \in 1..MaxBlocks : s[k].st = "closed" => t[k] = s[k]
  PROVE  Covered(log, t, cursor)
<1> USE StreamAssumption
<1>1. ASSUME NEW n \in DOMAIN log, IsSegment(log, n), NEW p \in DOMAIN log[n].content
      PROVE  t[log[n].from + p] = s[log[n].from + p]
  <2>1. log[n].content \in Seq(Blocks) /\ log[n].from \in Nat /\ log[n].from + Len(log[n].content) <= cursor
    BY <1>1 DEF StreamTypeOK, Covered
  <2>2. p \in 1..Len(log[n].content) /\ Len(log[n].content) \in Nat
    BY <2>1
  <2>3. log[n].from + p \in 1..MaxBlocks
    <3> DEFINE f == log[n].from
               k == Len(log[n].content)
    <3>1. f \in Nat /\ k \in Nat /\ f + k <= cursor /\ p \in 1..k
      BY <2>1, <2>2
    <3> HIDE DEF f, k
    <3>2. f + p \in 1..MaxBlocks
      BY <3>1
    <3> QED
      BY <3>2 DEF f
  <2>4. s[log[n].from + p].st = "closed"
    BY <1>1 DEF Covered
  <2> QED
    BY <2>3, <2>4
<1>2. ASSUME NEW n \in DOMAIN log, IsSegment(log, n)
      PROVE  /\ log[n].from \in Nat /\ log[n].from + Len(log[n].content) <= cursor
             /\ \A p \in DOMAIN log[n].content :
                  /\ t[log[n].from + p].st = "closed" /\ log[n].content[p].id = t[log[n].from + p].block.id
                  /\ t[log[n].from + p].block.cipher => log[n].content[p].cipher
  <2>1. /\ log[n].from \in Nat /\ log[n].from + Len(log[n].content) <= cursor
        /\ \A p \in DOMAIN log[n].content :
             /\ s[log[n].from + p].st = "closed" /\ log[n].content[p].id = s[log[n].from + p].block.id
             /\ s[log[n].from + p].block.cipher => log[n].content[p].cipher
    BY <1>2 DEF Covered
  <2>2. \A p \in DOMAIN log[n].content : t[log[n].from + p] = s[log[n].from + p]
    BY <1>1, <1>2
  <2> QED
    BY <2>1, <2>2
<1>3. /\ \A n, m \in DOMAIN log : IsSegment(log, n) /\ IsSegment(log, m) /\ n < m =>
           log[n].from + Len(log[n].content) <= log[m].from
      /\ \A k \in 1..cursor : \E n \in DOMAIN log : IsSegment(log, n) /\ \E p \in DOMAIN log[n].content : log[n].from + p = k
  BY DEF Covered
<1> QED
  BY <1>2, <1>3 DEF Covered

\* What the planner has seen is in the message, and what is left of a prefix goes on to it.
LEMMA RemainderShows ==
  ASSUME NEW slots, NEW to \in 1..MaxBlocks
  PROVE  \A k \in 1..MaxBlocks : slots[k].st # "none" => k <= Remainder(slots, to)
<1> USE StreamAssumption
<1> DEFINE seen == {k \in 1..MaxBlocks : slots[k].st # "none"} \cup {to}
<1>1. seen \in SUBSET (1..MaxBlocks) /\ seen # {}
  OBVIOUS
<1>2. \A k \in 1..MaxBlocks : slots[k].st # "none" => k \in seen
  OBVIOUS
<1>3. Remainder(slots, to) = CHOOSE k \in seen : \A l \in seen : l <= k
  BY DEF Remainder
<1> HIDE DEF seen
<1>4. IsFiniteSet(seen) /\ seen \in SUBSET Nat
  BY <1>1, PlacesAreFinite
<1>5. \E k \in seen : \A l \in seen : l <= k
  BY <1>1, <1>4, LastPlace
<1> QED
  BY <1>2, <1>3, <1>5

LEMMA PrefixExact ==
  ASSUME StreamTypeOK, PlannerFits, NEW slots, NEW proofs, SlotsFit(slots, proofs),
         PrefixEnd(slots, proofs) > planner.cursor
  PROVE  LET p == Prefix(slots, PrefixEnd(slots, proofs)) IN
         /\ p.from = planner.cursor /\ p.to = planner.cursor + Len(p.content) /\ p.to \in 1..MaxBlocks
         /\ p.rest = Remainder(slots, p.to)
         /\ \A n \in DOMAIN p.content : slots[planner.cursor + n] = [st |-> "closed", block |-> p.content[n]]
<1> USE StreamAssumption
<1> DEFINE c == planner.cursor
           ends == {k \in proofs : /\ k > c
                                   /\ \A l \in c + 1..k : /\ slots[l].st = "closed"
                                                          /\ IsCall(slots[l].block) => l \in proofs}
           to == PrefixEnd(slots, proofs)
           p == Prefix(slots, to)
<1>1. c \in Nat /\ proofs \in SUBSET (1..MaxBlocks)
  BY DEF StreamTypeOK, PlannerRecords, SlotsFit
<1>2. to = IF ends = {} THEN c ELSE CHOOSE k \in ends : \A l \in ends : l <= k
  BY DEF PrefixEnd
<1>3. ends # {}
  BY <1>1, <1>2
<1>4. to \in ends
  <2>1. IsFiniteSet(ends) /\ ends \in SUBSET Nat
    <3>1. ends \in SUBSET (1..MaxBlocks)
      BY <1>1
    <3> HIDE DEF ends
    <3> QED
      BY <3>1, PlacesAreFinite
  <2> HIDE DEF ends, to
  <2>2. \E k \in ends : \A l \in ends : l <= k
    BY <1>3, <2>1, LastPlace
  <2> QED
    BY <1>2, <1>3, <2>2
<1>5. /\ to \in 1..MaxBlocks /\ to > c
      /\ \A l \in c + 1..to : slots[l].st = "closed"
  BY <1>1, <1>4
<1>6. /\ p.from = c /\ p.to = to /\ p.rest = Remainder(slots, to)
      /\ p.content = [n \in 1..to - c |-> slots[c + n].block]
  BY DEF Prefix
<1> HIDE DEF p, to, ends
<1>7. to - c \in Nat /\ c + (to - c) = to
  BY <1>1, <1>5
<1>8. Len(p.content) = to - c /\ DOMAIN p.content = 1..to - c
  <2> HIDE DEF c
  <2> QED
    BY <1>6, <1>7
<1>9. ASSUME NEW n \in 1..to - c
      PROVE  slots[c + n] = [st |-> "closed", block |-> p.content[n]]
  <2>1. c + n \in c + 1..to /\ c + n \in 1..MaxBlocks
    BY <1>1, <1>5
  <2>2. slots[c + n].st = "closed" /\ slots[c + n] \in SlotRecords
    BY <1>5, <2>1 DEF SlotsFit
  <2>3. p.content[n] = slots[c + n].block
    BY <1>6
  <2>4. slots[c + n] \in [st : {"open", "closed"}, block : Blocks]
    BY <2>2 DEF SlotRecords, NoSlot
  <2> QED
    BY <2>2, <2>3, <2>4
<1> QED
  BY <1>5, <1>6, <1>7, <1>8, <1>9 DEF p, to

LEMMA FinalExact ==
  ASSUME StreamTypeOK, PlannerFits, NEW reason \in Ends
  PROVE  LET p == Final(reason) IN
         /\ p.from = planner.cursor /\ planner.cursor + Len(p.content) = Len(out)
         /\ \A n \in DOMAIN p.content : /\ p.content[n].id = out[planner.cursor + n].id
                                        /\ p.content[n].cipher = out[planner.cursor + n].cipher
<1> DEFINE c == planner.cursor
           p == Final(reason)
<1>1. /\ c \in Nat /\ Len(out) \in Nat /\ c <= Len(out)
      /\ out \in Seq(Blocks) /\ DOMAIN out = 1..Len(out)
  BY DEF StreamTypeOK, PlannerRecords, PlannerFits
<1>2. /\ p.from = c
      /\ p.content = [n \in 1..Len(out) - c |-> Marked(out[c + n], c + n, reason)]
  BY DEF Final
<1> HIDE DEF p
<1>3. Len(out) - c \in Nat /\ c + (Len(out) - c) = Len(out)
  BY <1>1
<1>4. Len(p.content) = Len(out) - c /\ DOMAIN p.content = 1..Len(out) - c
  <2> HIDE DEF c
  <2> QED
    BY <1>2, <1>3
<1>5. ASSUME NEW n \in 1..Len(out) - c
      PROVE  p.content[n].id = out[c + n].id /\ p.content[n].cipher = out[c + n].cipher
  <2> DEFINE early == c + n \in planner.proofs /\ Executable(reason)
  <2>1. c + n \in DOMAIN out
    BY <1>1
  <2>2. p.content[n] = [out[c + n] EXCEPT !.async = early]
    BY <1>2 DEF Marked
  <2>3. out[c + n] \in Blocks
    BY <1>1, <2>1
  <2> HIDE DEF early
  <2> QED
    BY <2>2, <2>3 DEF Blocks
<1> QED
  BY <1>2, <1>3, <1>4, <1>5 DEF p

\* The places whose cipher came after their commit.
LEMMA AmendmentsExact ==
  ASSUME StreamTypeOK, PlannerFits
  PROVE  /\ Amendments \in Seq(1..planner.cursor)
         /\ \A k \in 1..planner.cursor : out[k].cipher /\ ~planner.slots[k].block.cipher =>
              \E j \in DOMAIN Amendments : Amendments[j] = k
<1> DEFINE c == planner.cursor
           late == {k \in 1..c : out[k].cipher /\ ~planner.slots[k].block.cipher}
           todo == InOrder(late)
<1>1. c \in Nat
  BY DEF StreamTypeOK, PlannerRecords
<1>2. late \in SUBSET (1..c) /\ \A k \in 1..c : out[k].cipher /\ ~planner.slots[k].block.cipher => k \in late
  OBVIOUS
<1>3. Amendments = todo
  BY DEF Amendments
<1> HIDE DEF late
<1>4. IsFiniteSet(late) /\ late \in SUBSET Nat
  BY <1>1, <1>2, PlacesAreFinite
<1>5. /\ Cardinality(late) \in Nat /\ DOMAIN todo = 1..Cardinality(late)
      /\ \A n \in DOMAIN todo : todo[n] \in late
      /\ \A p \in late : \E n \in DOMAIN todo : todo[n] = p
  BY <1>4, InOrderLists
<1>6. todo = [n \in 1..Cardinality(late) |-> todo[n]]
  <2>1. todo = [n \in 1..Cardinality(late) |-> CHOOSE p \in late : Cardinality({q \in late : q <= p}) = n]
    BY DEF InOrder
  <2> QED
    BY <2>1
<1> HIDE DEF todo
<1>7. todo \in Seq(1..c)
  <2> DEFINE T == 1..c
             k == Cardinality(late)
  <2>1. \A n \in 1..k : todo[n] \in T
    BY <1>2, <1>5
  <2>2. k \in Nat /\ todo = [n \in 1..k |-> todo[n]]
    BY <1>5, <1>6
  <2> HIDE DEF T, k, c
  <2>3. todo \in Seq(T)
    BY <2>1, <2>2
  <2> QED
    BY <2>3 DEF T
<1> QED
  BY <1>2, <1>3, <1>5, <1>7

LEMMA TakeKeepsAnswer == ASSUME CallsInvariant, AnswerInvariant, Take PROVE AnswerInvariant'
<1> USE StreamAssumption
<1> DEFINE e == Head(events)
           ends == e.type \notin {"start", "begin", "end"}
           slots == Slots(e)
           proofs == Proofs(e)
           to == IF ends THEN 0 ELSE PrefixEnd(slots, proofs)
<1>1. /\ StreamTypeOK /\ AdapterFits /\ PlannerFits /\ PlanFits /\ LoopFits
      /\ ItemsFit /\ EventsOnce /\ ViewFits /\ SegmentsExact
  BY DEF CallsInvariant, AnswerInvariant
<1>2. /\ co.at = "wait" /\ events # <<>> /\ events' = Tail(events)
      /\ UNCHANGED <<provider, ran, aborted>>
  BY DEF Take
<1>3. out' = out /\ aborted' = aborted
  BY <1>2 DEF provider
<1>4. e \in EventRecords /\ EventFits(e, out, net.at, against)
  <2>1. events \in Seq(EventRecords) /\ events # <<>>
    BY <1>1, <1>2 DEF StreamTypeOK
  <2>2. 1 \in DOMAIN events /\ e = events[1]
    BY <2>1
  <2> QED
    BY <1>1, <2>1, <2>2 DEF AdapterFits
<1>5. CASE aborted \/ Refuses(e)
  <2>1. GivesUp(FALSE) /\ UNCHANGED <<planner, plan, view, log>>
    BY <1>5, Zenon DEF Take
  <2>2. EventsOnce'
    <3> DEFINE s == planner.slots
    <3>1. /\ SlotsMove(s)
          /\ \A n \in DOMAIN events' : IsMark(events'[n]) => s[events'[n].index].st # "closed"
          /\ \A n, m \in DOMAIN events' :
               n < m /\ IsMark(events'[n]) /\ IsMark(events'[m]) /\ events'[n].index = events'[m].index
               => events'[n].type = "begin" /\ events'[m].type = "end"
      BY <1>1, <1>2, TakenOnce
    <3>2. planner' = planner
      BY <2>1
    <3> QED
      BY <1>3, <3>1, <3>2 DEF EventsOnce, SlotsMove
  <2> QED
    BY <1>1, <1>3, <2>1, <2>2, GivenUpKeepsAnswer DEF StreamTypeOK
<1>6. CASE ~(aborted \/ Refuses(e))
  <2>1. /\ planner' = [planner EXCEPT !.started = TRUE, !.terminal = ends, !.slots = slots,
                                      !.proofs = proofs]
        /\ plan' = IF ends THEN Final(e.type)
                   ELSE IF to > planner.cursor THEN Prefix(slots, to) ELSE NoPlan
        /\ view' = IF ends THEN view ELSE [view EXCEPT !.from = planner.cursor, !.to = Len(out)]
        /\ co' = IF ends THEN [co EXCEPT !.at = "amend", !.todo = Amendments]
                 ELSE IF to > planner.cursor THEN [co EXCEPT !.at = "hook"] ELSE co
        /\ log' = log
    BY <1>6, Zenon DEF Take
  <2>2. SlotsFit(slots, proofs)
    BY <1>1, <1>4, <1>6, SlotsKept
  <2>3. /\ SlotsMove(slots)
        /\ \A n \in DOMAIN events' : IsMark(events'[n]) => slots[events'[n].index].st # "closed"
        /\ \A n, m \in DOMAIN events' :
             n < m /\ IsMark(events'[n]) /\ IsMark(events'[m]) /\ events'[n].index = events'[m].index
             => events'[n].type = "begin" /\ events'[m].type = "end"
    BY <1>1, <1>2, <1>6, TakenOnce
  <2>4. ends \in BOOLEAN /\ (ends => e.type \in Ends /\ slots = planner.slots)
    BY <1>4 DEF EventRecords, Slots
  <2> HIDE DEF slots, proofs, e
  <2>5. planner'.slots = slots /\ planner'.cursor = planner.cursor
    BY <1>1, <2>1 DEF StreamTypeOK, PlannerRecords
  <2>6. EventsOnce'
    BY <1>3, <2>3, <2>5 DEF EventsOnce, SlotsMove
  <2>7. ItemsFit'
    BY <1>1, <1>3 DEF ItemsFit
  <2>8. /\ planner.cursor \in Nat /\ planner.cursor <= MaxBlocks
        /\ Covered(log, planner.slots, planner.cursor)
    <3>1. /\ planner.cursor \in Nat /\ planner.cursor <= Len(out) /\ Len(out) <= MaxBlocks
          /\ out \in Seq(Blocks)
      BY <1>1 DEF StreamTypeOK, PlannerRecords, PlannerFits
    <3>2. Covered(log, planner.slots, planner.cursor)
      BY <1>1, <1>2 DEF SegmentsExact, Streaming
    <3> QED
      BY <3>1, <3>2
  <2>9. SegmentsExact'
    <3>1. Covered(log, slots, planner.cursor)
      BY <1>1, <2>3, <2>8, CoveredKept DEF SlotsMove
    <3> QED
      BY <2>1, <2>5, <3>1 DEF SegmentsExact
  <2> DEFINE Rest == ViewFits' /\ PlanExact' /\ AmendmentsFit' /\ AnswerTold'
  <2>10. co = [at |-> co.at, todo |-> co.todo, failed |-> co.failed, committed |-> co.committed]
    BY <1>1 DEF StreamTypeOK
  <2>11. ASSUME ends PROVE Rest
    <3>1. plan' = Final(e.type) /\ co'.at = "amend" /\ co'.todo = Amendments /\ e.type \in Ends
      BY <2>1, <2>4, <2>10, <2>11
    <3>2. plan'.kind = "final"
      BY <3>1 DEF Final
    <3>3. ViewFits' /\ AnswerTold'
      <4>1. view' = [kept |-> view'.kept, from |-> view'.from, to |-> view'.to]
        BY <1>1, <2>1, <2>11 DEF ViewFits
      <4> QED
        BY <3>1, <3>2, <4>1 DEF ViewFits, AnswerTold, IsTold, Succeeded
    <3>4. PlanExact'
      <4>1. /\ plan'.from = planner.cursor /\ planner.cursor + Len(plan'.content) = Len(out)
            /\ \A n \in DOMAIN plan'.content : /\ plan'.content[n].id = out[planner.cursor + n].id
                                               /\ plan'.content[n].cipher = out[planner.cursor + n].cipher
        BY <1>1, <3>1, FinalExact
      <4> QED
        BY <1>3, <2>5, <3>1, <3>2, <4>1 DEF PlanExact
    <3>5. AmendmentsFit'
      <4>1. /\ Amendments \in Seq(1..planner.cursor)
            /\ \A k \in 1..planner.cursor : out[k].cipher /\ ~planner.slots[k].block.cipher =>
                 \E j \in DOMAIN Amendments : Amendments[j] = k
        BY <1>1, AmendmentsExact
      <4>2. ASSUME NEW n \in DOMAIN log, IsSegment(log, n), NEW p \in DOMAIN log[n].content,
                   out[log[n].from + p].cipher
            PROVE  \/ log[n].content[p].cipher
                   \/ \E j \in DOMAIN Amendments : Amendments[j] = log[n].from + p
        <5>1. /\ log[n].from \in Nat /\ log[n].from + Len(log[n].content) <= planner.cursor
              /\ planner.slots[log[n].from + p].block.cipher => log[n].content[p].cipher
          BY <2>8, <4>2 DEF Covered
        <5>2. log[n].content \in Seq(Blocks)
          BY <1>1 DEF StreamTypeOK
        <5>3. p \in 1..Len(log[n].content) /\ Len(log[n].content) \in Nat
          BY <5>2
        <5>4. log[n].from + p \in 1..planner.cursor
          <6> DEFINE f == log[n].from
                     k == Len(log[n].content)
                     c == planner.cursor
          <6>1. f \in Nat /\ k \in Nat /\ f + k <= c /\ p \in 1..k /\ c \in Nat
            BY <2>8, <5>1, <5>3
          <6> HIDE DEF f, k, c
          <6>2. f + p \in 1..c
            BY <6>1
          <6> QED
            BY <6>2 DEF f, c
        <5> QED
          BY <4>1, <4>2, <5>1, <5>4
      <4>3. co'.todo \in Seq(1..planner'.cursor)
        BY <2>5, <3>1, <4>1
      <4> QED
        BY <1>3, <2>1, <3>1, <4>2, <4>3 DEF AmendmentsFit
    <3> QED
      BY <3>3, <3>4, <3>5
  <2>12. ASSUME ~ends, to > planner.cursor PROVE Rest
    <3>1. /\ plan' = Prefix(slots, PrefixEnd(slots, proofs)) /\ co'.at = "hook"
          /\ PrefixEnd(slots, proofs) > planner.cursor
      BY <2>1, <2>10, <2>12
    <3>2. /\ plan'.from = planner.cursor /\ plan'.to = planner.cursor + Len(plan'.content)
          /\ plan'.to \in 1..MaxBlocks /\ plan'.rest = Remainder(slots, plan'.to)
          /\ \A n \in DOMAIN plan'.content : slots[planner.cursor + n] = [st |-> "closed", block |-> plan'.content[n]]
      BY <1>1, <2>2, <3>1, PrefixExact
    <3>3. plan'.kind = "prefix"
      BY <3>1 DEF Prefix
    <3>4. \A k \in 1..MaxBlocks : slots[k].st # "none" => k <= plan'.rest
      BY <3>2, RemainderShows
    <3>5. ViewFits'
      <4>1. view' = [kept |-> view'.kept, from |-> view'.from, to |-> view'.to]
        BY <1>1, <2>1, <2>12 DEF ViewFits
      <4> QED
        BY <2>5, <3>1, <3>4, <4>1 DEF ViewFits, ShowsUpTo
    <3>6. PlanExact'
      BY <2>5, <3>1, <3>2, <3>3 DEF PlanExact
    <3>7. AmendmentsFit' /\ AnswerTold'
      BY <3>1, <3>3 DEF AmendmentsFit, AnswerTold, IsTold, Succeeded
    <3> QED
      BY <3>5, <3>6, <3>7
  <2>13. ASSUME ~ends, ~(to > planner.cursor) PROVE Rest
    <3>1. /\ plan' = NoPlan /\ co' = co
          /\ view' = [view EXCEPT !.from = planner.cursor, !.to = Len(out)]
      BY <2>1, <2>13
    <3>2. \A k \in 1..MaxBlocks : slots[k].st # "none" => k <= Len(out)
      <4>1. DOMAIN out = 1..Len(out) /\ Len(out) \in Nat
        BY <1>1 DEF StreamTypeOK
      <4> QED
        BY <2>2, <4>1 DEF SlotsFit
    <3>3. /\ view'.kept = planner.cursor /\ view'.from = planner.cursor /\ view'.to = Len(out)
          /\ view' = [kept |-> view'.kept, from |-> view'.from, to |-> view'.to]
      <4>1. view = [kept |-> view.kept, from |-> view.from, to |-> view.to] /\ view.kept = planner.cursor
        BY <1>1, <1>2 DEF ViewFits
      <4>2. view' = [kept |-> planner.cursor, from |-> planner.cursor, to |-> Len(out)]
        BY <3>1, <4>1
      <4> QED
        BY <4>2
    <3>4. ViewFits'
      BY <1>2, <2>5, <3>1, <3>2, <3>3 DEF ViewFits, ShowsUpTo
    <3>5. PlanExact' /\ AmendmentsFit' /\ AnswerTold'
      BY <1>2, <3>1 DEF NoPlan, PlanExact, AmendmentsFit, AnswerTold, IsTold, Succeeded
    <3> QED
      BY <3>4, <3>5
  <2>14. Rest
    BY <2>11, <2>12, <2>13
  <2> QED
    BY <2>6, <2>7, <2>9, <2>14 DEF AnswerInvariant
<1> QED
  BY <1>5, <1>6

-----------------------------------------------------------------------------
(* The loop. *)

\* An entry that is no segment covers nothing.
LEMMA CoveredGrows ==
  ASSUME StreamTypeOK, NEW slots, NEW cursor, Covered(log, slots, cursor),
         NEW e, e.kind # "segment", log' = Append(log, e)
  PROVE  /\ Covered(log', slots, cursor)
         /\ \A n \in DOMAIN log : n \in DOMAIN log' /\ log'[n] = log[n]
         /\ \A n \in DOMAIN log' : IsSegment(log', n) => n \in DOMAIN log /\ IsSegment(log, n)
         /\ Len(log) + 1 \in DOMAIN log' /\ log'[Len(log) + 1] = e
<1>1. /\ Len(log) \in Nat /\ DOMAIN log = 1..Len(log) /\ DOMAIN log' = 1..Len(log) + 1
      /\ log'[Len(log) + 1] = e /\ \A n \in DOMAIN log : log'[n] = log[n]
  BY AppendedTo DEF StreamTypeOK
<1>2. \A n \in DOMAIN log : n \in DOMAIN log' /\ log'[n] = log[n]
  BY <1>1
<1>3. \A n \in DOMAIN log' : IsSegment(log', n) => n \in DOMAIN log /\ IsSegment(log, n)
  <2> SUFFICES ASSUME NEW n \in DOMAIN log', log'[n].kind = "segment"
               PROVE  n \in DOMAIN log
    BY <1>2 DEF IsSegment
  <2>1. n # Len(log) + 1
    BY <1>1
  <2> QED
    BY <1>1, <2>1
<1>4. ASSUME NEW n \in DOMAIN log', IsSegment(log', n)
      PROVE  /\ log'[n].from \in Nat /\ log'[n].from + Len(log'[n].content) <= cursor
             /\ \A p \in DOMAIN log'[n].content :
                  /\ slots[log'[n].from + p].st = "closed"
                  /\ log'[n].content[p].id = slots[log'[n].from + p].block.id
                  /\ slots[log'[n].from + p].block.cipher => log'[n].content[p].cipher
  <2>1. n \in DOMAIN log /\ IsSegment(log, n) /\ log'[n] = log[n]
    BY <1>2, <1>3, <1>4
  <2>2. /\ log[n].from \in Nat /\ log[n].from + Len(log[n].content) <= cursor
        /\ \A p \in DOMAIN log[n].content :
             /\ slots[log[n].from + p].st = "closed" /\ log[n].content[p].id = slots[log[n].from + p].block.id
             /\ slots[log[n].from + p].block.cipher => log[n].content[p].cipher
    BY <2>1 DEF Covered
  <2> QED
    BY <2>1, <2>2
<1>5. \A n, m \in DOMAIN log' : IsSegment(log', n) /\ IsSegment(log', m) /\ n < m =>
        log'[n].from + Len(log'[n].content) <= log'[m].from
  <2> SUFFICES ASSUME NEW n \in DOMAIN log', NEW m \in DOMAIN log', IsSegment(log', n), IsSegment(log', m), n < m
               PROVE  log'[n].from + Len(log'[n].content) <= log'[m].from
    OBVIOUS
  <2>1. /\ n \in DOMAIN log /\ IsSegment(log, n) /\ log'[n] = log[n]
        /\ m \in DOMAIN log /\ IsSegment(log, m) /\ log'[m] = log[m]
    BY <1>2, <1>3
  <2>2. log[n].from + Len(log[n].content) <= log[m].from
    BY <2>1 DEF Covered
  <2> QED
    BY <2>1, <2>2
<1>6. ASSUME NEW k \in 1..cursor
      PROVE  \E n \in DOMAIN log' : IsSegment(log', n) /\ \E p \in DOMAIN log'[n].content : log'[n].from + p = k
  <2>1. PICK n \in DOMAIN log : IsSegment(log, n) /\ \E p \in DOMAIN log[n].content : log[n].from + p = k
    BY DEF Covered
  <2>2. n \in DOMAIN log' /\ log'[n] = log[n]
    BY <1>2
  <2> QED
    BY <2>1, <2>2 DEF IsSegment
<1>7. Covered(log', slots, cursor)
  BY <1>4, <1>5, <1>6 DEF Covered
<1> QED
  BY <1>1, <1>2, <1>3, <1>7

\* A block of the source has one place in the transcript.
LEMMA BindingExact ==
  ASSUME StreamTypeOK, NEW slots, NEW cursor, Covered(log, slots, cursor),
         NEW n \in DOMAIN log, IsSegment(log, n), NEW p \in DOMAIN log[n].content
  PROVE  Binding(log[n].from + p) = [entry |-> n, at |-> p]
<1> DEFINE f == log[n].from
           k == f + p
           Holds(m) == log[m].kind = "segment" /\ log[m].from < k /\ k <= log[m].from + Len(log[m].content)
<1>1. /\ f \in Nat /\ Len(log[n].content) \in Nat /\ p \in 1..Len(log[n].content)
      /\ DOMAIN log = 1..Len(log) /\ Len(log) \in Nat
  <2>1. log[n].content \in Seq(Blocks) /\ log \in Seq({log[m] : m \in DOMAIN log})
    BY DEF StreamTypeOK
  <2>2. f \in Nat
    BY DEF Covered
  <2> HIDE DEF f
  <2> QED
    BY <2>1, <2>2
<1>2. Holds(n)
  <2>1. log[n].kind = "segment"
    BY DEF IsSegment
  <2> DEFINE k2 == Len(log[n].content)
  <2>2. f < f + p /\ f + p <= f + k2
    <3>1. f \in Nat /\ k2 \in Nat /\ p \in 1..k2
      BY <1>1
    <3> HIDE DEF f, k2
    <3> QED
      BY <3>1
  <2> QED
    BY <2>1, <2>2
<1>3. ASSUME NEW m \in DOMAIN log, Holds(m) PROVE m = n
  <2>1. IsSegment(log, m) /\ IsSegment(log, n)
    BY <1>3 DEF IsSegment
  <2>2. /\ m < n => log[m].from + Len(log[m].content) <= log[n].from
        /\ n < m => log[n].from + Len(log[n].content) <= log[m].from
    BY <2>1 DEF Covered
  <2>3. log[m].from \in Nat /\ log[m].content \in Seq(Blocks)
    BY <2>1 DEF Covered, StreamTypeOK
  <2>4. Len(log[m].content) \in Nat
    BY <2>3
  <2> DEFINE g == log[m].from
             i == Len(log[m].content)
             j == Len(log[n].content)
  <2>5. /\ f \in Nat /\ g \in Nat /\ i \in Nat /\ j \in Nat /\ p \in 1..j /\ m \in Nat /\ n \in Nat
        /\ g < f + p /\ f + p <= g + i /\ (m < n => g + i <= f) /\ (n < m => f + j <= g)
    BY <1>1, <1>3, <2>2, <2>3, <2>4
  <2> HIDE DEF f, g, i, j
  <2> QED
    BY <2>5
<1>4. (CHOOSE m \in DOMAIN log : Holds(m)) = n
  <2> HIDE DEF Holds
  <2> QED
    BY <1>2, <1>3
<1>5. Binding(k) = [entry |-> n, at |-> k - f]
  BY <1>4 DEF Binding
<1>6. k - f = p
  <2>1. f \in Nat /\ p \in Nat
    BY <1>1
  <2> HIDE DEF f
  <2> QED
    BY <2>1
<1> QED
  BY <1>5, <1>6

\* One amendment: what it names is not to be amended any more.
LEMMA AmendmentKept ==
  ASSUME CallsInvariant, AnswerInvariant, co.at = "amend", co.todo # <<>>,
         log' = Append(log, AmendmentEntry(Head(co.todo))), co' = [co EXCEPT !.todo = Tail(@)],
         UNCHANGED <<out, events, planner, plan, view, aborted>>
  PROVE  AnswerInvariant'
<1>1. /\ StreamTypeOK /\ LoopFits /\ ItemsFit /\ EventsOnce /\ ViewFits /\ PlanExact /\ SegmentsExact
      /\ AmendmentsFit /\ plan.kind = "final"
  BY DEF CallsInvariant, AnswerInvariant, LoopFits
<1> DEFINE todo == co.todo
           e == AmendmentEntry(Head(todo))
           c == planner.cursor
<1>2. Covered(log, planner.slots, c)
  BY <1>1 DEF SegmentsExact, Streaming
<1>3. /\ e.kind = "amendment" /\ e.entry = Binding(Head(todo)).entry /\ e.at = Binding(Head(todo)).at
  BY DEF AmendmentEntry
<1>4. /\ todo \in Seq(1..c) /\ DOMAIN todo = 1..Len(todo) /\ Len(todo) \in Nat /\ Head(todo) = todo[1]
      /\ Tail(todo) \in Seq(1..c) /\ Len(Tail(todo)) = Len(todo) - 1
      /\ \A j \in 1..Len(todo) - 1 : Tail(todo)[j] = todo[j + 1]
  <2>1. todo \in Seq(1..c) /\ todo # <<>>
    BY <1>1 DEF AmendmentsFit
  <2> HIDE DEF todo, c
  <2> DEFINE T == 1..c
  <2>2. todo \in Seq(T) /\ todo # <<>>
    BY <2>1
  <2> HIDE DEF T
  <2>3. /\ DOMAIN todo = 1..Len(todo) /\ Len(todo) \in Nat /\ Head(todo) = todo[1]
        /\ Tail(todo) \in Seq(T) /\ Len(Tail(todo)) = Len(todo) - 1
        /\ \A j \in 1..Len(todo) - 1 : Tail(todo)[j] = todo[j + 1]
    BY <2>2
  <2> QED
    BY <2>1, <2>3 DEF T
<1>5. co'.at = "amend" /\ co'.todo = Tail(todo) /\ co'.failed = co.failed
  BY <1>1 DEF StreamTypeOK
<1> HIDE DEF e
<1>6. /\ Covered(log', planner.slots, c)
      /\ \A n \in DOMAIN log : n \in DOMAIN log' /\ log'[n] = log[n]
      /\ \A n \in DOMAIN log' : IsSegment(log', n) => n \in DOMAIN log /\ IsSegment(log, n)
      /\ Len(log) + 1 \in DOMAIN log' /\ log'[Len(log) + 1] = e
  <2>1. e.kind # "segment" /\ log' = Append(log, e)
    BY <1>3 DEF e
  <2> QED
    BY <1>1, <1>2, <2>1, CoveredGrows
<1>7. ASSUME NEW n \in DOMAIN log', IsSegment(log', n), NEW p \in DOMAIN log'[n].content,
             out[log'[n].from + p].cipher
      PROVE  \/ log'[n].content[p].cipher \/ IsAmended(log', n, p)
             \/ \E j \in DOMAIN Tail(todo) : Tail(todo)[j] = log'[n].from + p
  <2>1. n \in DOMAIN log /\ IsSegment(log, n) /\ log'[n] = log[n]
    BY <1>6, <1>7
  <2>2. \/ log[n].content[p].cipher \/ IsAmended(log, n, p)
        \/ \E j \in DOMAIN todo : todo[j] = log[n].from + p
    BY <1>1, <1>7, <2>1 DEF AmendmentsFit
  <2>3. CASE log[n].content[p].cipher
    BY <2>1, <2>3
  <2>4. CASE IsAmended(log, n, p)
    BY <1>6, <2>4 DEF IsAmended
  <2>5. ASSUME NEW j \in DOMAIN todo, todo[j] = log[n].from + p
        PROVE  IsAmended(log', n, p) \/ \E i \in DOMAIN Tail(todo) : Tail(todo)[i] = log[n].from + p
    <3>1. CASE j = 1
      <4>1. Head(todo) = log[n].from + p
        BY <1>4, <2>5, <3>1
      <4>2. Binding(log[n].from + p) = [entry |-> n, at |-> p]
        BY <1>1, <1>2, <1>7, <2>1, BindingExact
      <4>3. e.entry = n /\ e.at = p
        BY <1>3, <4>1, <4>2
      <4> QED
        BY <1>3, <1>6, <4>3 DEF IsAmended
    <3>2. CASE j # 1
      <4>1. j - 1 \in 1..Len(todo) - 1 /\ (j - 1) + 1 = j
        BY <1>4, <2>5, <3>2
      <4>2. j - 1 \in DOMAIN Tail(todo) /\ Tail(todo)[j - 1] = todo[j]
        BY <1>4, <4>1
      <4> QED
        BY <2>5, <4>2
    <3> QED
      BY <3>1, <3>2
  <2> QED
    BY <2>1, <2>2, <2>3, <2>4, <2>5
<1>8. AmendmentsFit'
  <2>1. co'.todo \in Seq(1..planner'.cursor)
    BY <1>4, <1>5
  <2>2. \A n \in DOMAIN log' : IsSegment(log', n) => \A p \in DOMAIN log'[n].content :
          out'[log'[n].from + p].cipher =>
            \/ log'[n].content[p].cipher \/ IsAmended(log', n, p)
            \/ co'.at = "amend" /\ \E j \in DOMAIN co'.todo : co'.todo[j] = log'[n].from + p
    BY <1>5, <1>7
  <2> QED
    BY <2>1, <2>2 DEF AmendmentsFit
<1>9. ItemsFit' /\ EventsOnce'
  BY <1>1 DEF ItemsFit, EventsOnce
<1>10. SegmentsExact'
  BY <1>6 DEF SegmentsExact
<1>11. ViewFits' /\ PlanExact'
  BY <1>1, <1>5 DEF ViewFits, PlanExact, ShowsUpTo
<1>12. AnswerTold'
  BY <1>5 DEF AnswerTold, IsTold, Succeeded
<1> QED
  BY <1>8, <1>9, <1>10, <1>11, <1>12 DEF AnswerInvariant

LEMMA LoopStepsKeepAnswer ==
  ASSUME CallsInvariant, AnswerInvariant,
         \/ Stall \/ Amended \/ (\E published \in BOOLEAN : Amend(published)) \/ PublishFails \/ Drain
         \/ (\E retry \in BOOLEAN : Finish(retry)) \/ Catch \/ Abort \/ RunTool \/ UNCHANGED vars
  PROVE  AnswerInvariant'
<1>1. /\ StreamTypeOK /\ LoopFits /\ PlanFits
      /\ ItemsFit /\ EventsOnce /\ ViewFits /\ PlanExact /\ SegmentsExact /\ AmendmentsFit /\ AnswerTold
  BY DEF CallsInvariant, AnswerInvariant
<1>2. co = [at |-> co.at, todo |-> co.todo, failed |-> co.failed, committed |-> co.committed] /\ co.at \in Steps
  BY <1>1 DEF StreamTypeOK
<1>3. out' = out /\ events' = events /\ planner' = planner /\ plan' = plan /\ view' = view
  BY DEF Stall, Amended, Amend, PublishFails, Drain, Finish, Catch, Abort, RunTool, vars, provider, actor
<1>4. EventsOnce' /\ ItemsFit'
  BY <1>1, <1>3 DEF EventsOnce, ItemsFit
<1>5. CASE GivesUp(FALSE) \/ GivesUp(TRUE)
  BY <1>2, <1>3, <1>4, <1>5, GivenUpKeepsAnswer
<1>6. CASE Amended
  <2>1. /\ co.at = "amend" /\ co.todo = <<>> /\ co'.at = "hook" /\ co'.failed = co.failed
        /\ log' = log /\ aborted' = aborted /\ plan.kind = "final"
    BY <1>1, <1>2, <1>6 DEF Amended, LoopFits
  <2>2. ViewFits' /\ PlanExact' /\ SegmentsExact'
    BY <1>1, <1>3, <2>1 DEF ViewFits, PlanExact, SegmentsExact, Streaming, ShowsUpTo
  <2>3. DOMAIN co.todo = {}
    BY <2>1
  <2>4. AmendmentsFit' /\ AnswerTold'
    BY <1>1, <1>3, <2>1, <2>3 DEF AmendmentsFit, AnswerTold, IsTold, Succeeded
  <2> QED
    BY <1>4, <2>2, <2>4 DEF AnswerInvariant
<1>7. ASSUME NEW published \in BOOLEAN, Amend(published) PROVE AnswerInvariant'
  <2>1. CASE GivesUp(FALSE)
    BY <1>5, <2>1
  <2>2. CASE ~GivesUp(FALSE)
    <3>1. /\ co.at = "amend" /\ co.todo # <<>> /\ log' = Append(log, AmendmentEntry(Head(co.todo)))
          /\ co' = [co EXCEPT !.todo = Tail(@)] /\ aborted' = aborted
      BY <1>7, <2>2, Zenon DEF Amend
    <3> QED
      BY <1>3, <3>1, AmendmentKept
  <2> QED
    BY <2>1, <2>2
<1>8. ASSUME co.at \in {"drain", "finish"}, co'.at \in {"finish", "over"}, log' = log, aborted' = aborted
      PROVE  AnswerInvariant'
  <2>1. plan.kind = "final"
    BY <1>1, <1>8 DEF LoopFits
  <2>2. ViewFits' /\ PlanExact' /\ SegmentsExact' /\ AmendmentsFit'
    BY <1>1, <1>3, <1>8 DEF ViewFits, PlanExact, SegmentsExact, Streaming, AmendmentsFit
  <2>3. AnswerTold'
    BY <1>1, <1>3, <1>8, <2>1 DEF AnswerTold, IsTold
  <2> QED
    BY <1>4, <2>2, <2>3 DEF AnswerInvariant
<1>9. CASE Drain
  BY <1>2, <1>8, <1>9 DEF Drain
<1>10. ASSUME NEW retry \in BOOLEAN, Finish(retry) PROVE AnswerInvariant'
  <2>1. CASE GivesUp(TRUE)
    BY <1>5, <2>1
  <2>2. CASE ~GivesUp(TRUE)
    <3>1. co.at = "finish" /\ co' = [co EXCEPT !.at = "over"] /\ log' = log /\ aborted' = aborted
      BY <1>10, <2>2, Zenon DEF Finish
    <3>2. co'.at = "over"
      BY <1>2, <3>1
    <3> QED
      BY <1>8, <3>1, <3>2
  <2> QED
    BY <2>1, <2>2
<1>11. CASE Catch
  <2>1. co.at = "catch" /\ co'.at = "over" /\ co'.failed = co.failed /\ co.failed
    BY <1>1, <1>2, <1>11 DEF Catch, LoopFits
  <2>2. ViewFits' /\ PlanExact' /\ SegmentsExact' /\ AmendmentsFit' /\ AnswerTold'
    BY <1>1, <1>3, <2>1 DEF ViewFits, PlanExact, SegmentsExact, Streaming, AmendmentsFit, AnswerTold,
                            IsTold, Succeeded
  <2> QED
    BY <1>4, <2>2 DEF AnswerInvariant
<1>12. CASE Abort \/ RunTool \/ UNCHANGED vars
  <2>1. co' = co /\ log' = log /\ (aborted' = aborted \/ aborted')
    BY <1>12 DEF Abort, RunTool, vars, actor
  <2>2. ViewFits'
    BY <1>1, <1>3, <2>1 DEF ViewFits, ShowsUpTo
  <2>3. PlanExact' /\ SegmentsExact' /\ AmendmentsFit' /\ AnswerTold'
    BY <1>1, <1>3, <2>1 DEF PlanExact, SegmentsExact, Streaming, AmendmentsFit, AnswerTold, IsTold, Succeeded
  <2> QED
    BY <1>4, <2>2, <2>3 DEF AnswerInvariant
<1>13. CASE Stall \/ PublishFails
  BY <1>5, <1>13 DEF Stall, PublishFails
<1> QED
  BY <1>6, <1>7, <1>9, <1>10, <1>11, <1>12, <1>13

LEMMA ScheduleKeepsAnswer == ASSUME CallsInvariant, AnswerInvariant, Schedule PROVE AnswerInvariant'
<1>1. /\ StreamTypeOK /\ LoopFits
      /\ ItemsFit /\ EventsOnce /\ ViewFits /\ SegmentsExact /\ AnswerTold
  BY DEF CallsInvariant, AnswerInvariant
<1>2. /\ co.at = "publish"
      /\ view' = [kept |-> plan.to, from |-> plan.to, to |-> IF aborted THEN plan.to ELSE plan.rest]
      /\ UNCHANGED <<provider, events, planner, log, aborted>>
      /\ plan' = IF plan.kind = "prefix" THEN NoPlan ELSE plan
      /\ \E at \in {"drain", "finish"} :
           co' = [co EXCEPT !.at = IF plan.kind = "prefix" THEN "wait" ELSE at]
  BY DEF Schedule
<1>3. co = [at |-> co.at, todo |-> co.todo, failed |-> co.failed, committed |-> co.committed]
  BY <1>1 DEF StreamTypeOK
<1>4. out' = out /\ events' = events /\ planner' = planner /\ log' = log /\ aborted' = aborted
  BY <1>2 DEF provider
<1>5. EventsOnce' /\ ItemsFit'
  BY <1>1, <1>4 DEF EventsOnce, ItemsFit
<1>6. /\ view' = [kept |-> view'.kept, from |-> view'.from, to |-> view'.to]
      /\ view'.kept = planner.cursor /\ view'.from = planner.cursor
      /\ ~aborted => view'.to = plan.rest
  BY <1>1, <1>2 DEF ViewFits
<1>7. CASE plan.kind = "prefix"
  <2>1. co'.at = "wait" /\ plan'.kind = "none"
    BY <1>2, <1>3, <1>7 DEF NoPlan
  <2>2. ShowsUpTo(plan.rest)
    BY <1>1, <1>2, <1>7 DEF ViewFits
  <2>3. ViewFits'
    BY <1>4, <1>6, <2>1, <2>2 DEF ViewFits, ShowsUpTo
  <2>4. SegmentsExact'
    BY <1>1, <1>2, <1>4, <1>7 DEF SegmentsExact, Streaming
  <2>5. PlanExact' /\ AmendmentsFit' /\ AnswerTold'
    BY <2>1 DEF PlanExact, AmendmentsFit, AnswerTold, IsTold, Succeeded
  <2> QED
    BY <1>5, <2>3, <2>4, <2>5 DEF AnswerInvariant
<1>8. CASE plan.kind # "prefix"
  <2>1. co'.at \in {"drain", "finish"} /\ plan' = plan /\ plan.kind = "final"
    BY <1>1, <1>2, <1>3, <1>8 DEF LoopFits, StreamTypeOK
  <2>2. ViewFits' /\ PlanExact' /\ AmendmentsFit' /\ SegmentsExact'
    BY <1>6, <2>1 DEF ViewFits, PlanExact, AmendmentsFit, SegmentsExact, Streaming
  <2>3. AnswerTold'
    BY <1>1, <1>2, <1>4, <2>1 DEF AnswerTold, IsTold
  <2> QED
    BY <1>5, <2>2, <2>3 DEF AnswerInvariant
<1> QED
  BY <1>7, <1>8

-----------------------------------------------------------------------------
(* The commit of a segment. *)

LEMMA Within ==
  ASSUME NEW f \in Nat, NEW k \in Nat, NEW p \in 1..k, NEW c \in Nat, f + k <= c
  PROVE  f + p \in 1..c /\ f + p <= f + k /\ f < f + p
OBVIOUS

\* A hook keeps texts and thoughts in their order, whichever call it drops.
OldPlace(d, q) == IF q < d THEN q ELSE q + 1
Keeps(new, d) ==
  /\ new \in Seq(Blocks)
  /\ \A q \in DOMAIN new :
       /\ OldPlace(d, q) \in DOMAIN plan.content
       /\ new[q].id = plan.content[OldPlace(d, q)].id
       /\ new[q].cipher = plan.content[OldPlace(d, q)].cipher
  /\ \A p \in DOMAIN plan.content : IsSaid(plan.content[p]) => \E q \in DOMAIN new : OldPlace(d, q) = p
SameBlocks(new) ==
  /\ new \in Seq(Blocks) /\ Len(new) = Len(plan.content)
  /\ \A q \in DOMAIN plan.content :
       new[q].id = plan.content[q].id /\ new[q].cipher = plan.content[q].cipher

LEMMA SameKeeps ==
  ASSUME StreamTypeOK, NEW new, SameBlocks(new)
  PROVE  \E d \in Nat : Keeps(new, d)
<1> DEFINE d == Len(plan.content) + 1
<1>1. /\ plan.content \in Seq(Blocks) /\ Len(plan.content) \in Nat /\ DOMAIN plan.content = 1..Len(plan.content)
      /\ new \in Seq(Blocks) /\ DOMAIN new = DOMAIN plan.content
  BY DEF StreamTypeOK, SameBlocks
<1>2. \A q \in DOMAIN new : OldPlace(d, q) = q
  BY <1>1 DEF OldPlace
<1>3. d \in Nat
  BY <1>1
<1> HIDE DEF d
<1>4. Keeps(new, d)
  BY <1>1, <1>2 DEF Keeps, SameBlocks
<1> QED
  BY <1>3, <1>4

LEMMA EditsKeep ==
  ASSUME StreamTypeOK, NEW edit \in Edits
  PROVE  /\ edit \in {"none", "text"} => SameBlocks(Edited(edit))
         /\ \E d \in Nat : Keeps(Edited(edit), d)
<1> DEFINE content == plan.content
           calls == {n \in DOMAIN content : IsCall(content[n])}
           last == CHOOSE n \in calls : \A m \in calls : m <= n
           rewritten(S) == [n \in DOMAIN content |->
                              IF content[n].id \in S THEN [content[n] EXCEPT !.body = 3, !.async = FALSE]
                              ELSE content[n]]
<1> USE StreamAssumption
<1>1. content \in Seq(Blocks) /\ Len(content) \in Nat /\ DOMAIN content = 1..Len(content)
  BY DEF StreamTypeOK
<1>2. ASSUME NEW S PROVE SameBlocks(rewritten(S))
  <2>1. ASSUME NEW n \in DOMAIN content
        PROVE  /\ rewritten(S)[n] \in Blocks /\ rewritten(S)[n].id = content[n].id
               /\ rewritten(S)[n].cipher = content[n].cipher
    <3> DEFINE b == [content[n] EXCEPT !.body = 3, !.async = FALSE]
    <3>1. content[n] \in Blocks
      BY <1>1
    <3>2. b \in Blocks /\ b.id = content[n].id
      BY <3>1, RewrittenBlock
    <3>3. b.cipher = content[n].cipher
      BY <3>1 DEF Blocks
    <3>4. rewritten(S)[n] = b \/ rewritten(S)[n] = content[n]
      OBVIOUS
    <3> HIDE DEF b, rewritten
    <3> QED
      BY <3>1, <3>2, <3>3, <3>4
  <2> DEFINE new == rewritten(S)
  <2>2. new = [n \in DOMAIN content |-> new[n]]
    OBVIOUS
  <2> HIDE DEF rewritten
  <2>3. new \in Seq(Blocks) /\ Len(new) = Len(content)
    <3>1. \A n \in DOMAIN content : new[n] \in Blocks
      BY <2>1
    <3> HIDE DEF new, content
    <3> QED
      BY <1>1, <2>2, <3>1, Mapped
  <2> QED
    BY <2>1, <2>3 DEF SameBlocks
<1>3. SameBlocks(content)
  BY <1>1 DEF SameBlocks
<1>4. ASSUME calls # {}
      PROVE  last \in Nat /\ Keeps(RemoveAt(content, last), last)
  <2>1. IsFiniteSet(calls) /\ calls \in SUBSET Nat
    BY <1>1, PlacesAreFinite
  <2>2. \E n \in calls : \A m \in calls : m <= n
    BY <1>4, <2>1, LastPlace
  <2>3. last \in DOMAIN content /\ IsCall(content[last])
    BY <2>2
  <2> DEFINE new == RemoveAt(content, last)
  <2> HIDE DEF last, content
  <2>4. /\ new \in Seq(Blocks) /\ Len(new) = Len(content) - 1
        /\ \A k \in DOMAIN new : \E l \in DOMAIN content :
             new[k] = content[l] /\ l = IF k < last THEN k ELSE k + 1
    BY <1>1, <2>3, Removed
  <2>5. DOMAIN new = 1..Len(content) - 1 /\ last \in 1..Len(content)
    BY <1>1, <2>3, <2>4
  <2> HIDE DEF new
  <2>6. ASSUME NEW p \in DOMAIN content, IsSaid(content[p])
        PROVE  \E q \in DOMAIN new : OldPlace(last, q) = p
    <3>1. p # last /\ p \in 1..Len(content)
      BY <1>1, <2>3, <2>6 DEF IsSaid, IsCall
    <3>2. CASE p < last
      BY <1>1, <2>5, <3>1, <3>2 DEF OldPlace
    <3>3. CASE ~(p < last)
      <4>1. p - 1 \in DOMAIN new /\ OldPlace(last, p - 1) = p
        BY <1>1, <2>5, <3>1, <3>3 DEF OldPlace
      <4> QED
        BY <4>1
    <3> QED
      BY <3>2, <3>3
  <2>7. \A q \in DOMAIN new : OldPlace(last, q) \in DOMAIN content /\ new[q] = content[OldPlace(last, q)]
    BY <2>4 DEF OldPlace
  <2> QED
    BY <1>1, <2>4, <2>5, <2>6, <2>7 DEF Keeps, new, content
<1>5. \/ Edited(edit) = content \/ Edited(edit) = rewritten(Texts) \/ Edited(edit) = rewritten(Calls)
      \/ calls # {} /\ Edited(edit) = RemoveAt(content, last)
  BY Zenon DEF Edited
<1>6. edit = "none" => Edited(edit) = content
  BY DEF Edited
<1>7. edit = "text" => Edited(edit) = rewritten(Texts)
  BY DEF Edited
<1> HIDE DEF content, calls, last, rewritten
<1>8. edit \in {"none", "text"} => SameBlocks(Edited(edit))
  BY <1>2, <1>3, <1>6, <1>7
<1>9. \E d \in Nat : Keeps(Edited(edit), d)
  BY <1>2, <1>3, <1>4, <1>5, SameKeeps
<1> QED
  BY <1>8, <1>9

\* A committed prefix goes on where the transcript had come to.
LEMMA PrefixCovers ==
  ASSUME StreamTypeOK, NEW slots, NEW cursor \in Nat, Covered(log, slots, cursor),
         NEW new, SameBlocks(new),
         \A n \in DOMAIN plan.content : slots[cursor + n] = [st |-> "closed", block |-> plan.content[n]],
         NEW e, e.kind = "segment", e.from = cursor, e.content = new, log' = Append(log, e)
  PROVE  Covered(log', slots, cursor + Len(plan.content))
<1> DEFINE k == Len(plan.content)
           to == cursor + k
<1>1. /\ Len(log) \in Nat /\ DOMAIN log = 1..Len(log) /\ DOMAIN log' = 1..Len(log) + 1
      /\ log'[Len(log) + 1] = e /\ \A n \in DOMAIN log : log'[n] = log[n]
  BY AppendedTo DEF StreamTypeOK
<1>2. /\ k \in Nat /\ DOMAIN plan.content = 1..k /\ DOMAIN new = 1..k /\ Len(new) = k
      /\ \A q \in 1..k : new[q].id = plan.content[q].id /\ new[q].cipher = plan.content[q].cipher
  BY DEF StreamTypeOK, SameBlocks
<1>3. \A n \in DOMAIN log : n \in Nat /\ n < Len(log) + 1 /\ n \in DOMAIN log'
  BY <1>1
<1>4. \A n \in DOMAIN log' : n \in DOMAIN log \/ n = Len(log) + 1
  BY <1>1
<1>5. to \in Nat /\ cursor <= to
  BY <1>2
<1>6. ASSUME NEW n \in DOMAIN log', IsSegment(log', n)
      PROVE  /\ log'[n].from \in Nat /\ log'[n].from + Len(log'[n].content) <= to
             /\ \A p \in DOMAIN log'[n].content :
                  /\ slots[log'[n].from + p].st = "closed"
                  /\ log'[n].content[p].id = slots[log'[n].from + p].block.id
                  /\ slots[log'[n].from + p].block.cipher => log'[n].content[p].cipher
  <2>1. CASE n \in DOMAIN log
    <3>1. IsSegment(log, n) /\ log'[n] = log[n]
      BY <1>1, <1>6, <2>1 DEF IsSegment
    <3>2. /\ log[n].from \in Nat /\ log[n].from + Len(log[n].content) <= cursor
          /\ \A p \in DOMAIN log[n].content :
               /\ slots[log[n].from + p].st = "closed" /\ log[n].content[p].id = slots[log[n].from + p].block.id
               /\ slots[log[n].from + p].block.cipher => log[n].content[p].cipher
      BY <2>1, <3>1 DEF Covered
    <3>3. Len(log[n].content) \in Nat
      BY <2>1 DEF StreamTypeOK
    <3>4. log[n].from + Len(log[n].content) <= to
      BY <1>5, <3>2, <3>3
    <3> QED
      BY <3>1, <3>2, <3>4
  <2>2. CASE n = Len(log) + 1
    <3>1. log'[n] = e
      BY <1>1, <2>2
    <3>2. ASSUME NEW p \in 1..k
          PROVE  /\ slots[cursor + p].st = "closed" /\ new[p].id = slots[cursor + p].block.id
                 /\ slots[cursor + p].block.cipher => new[p].cipher
      <4>1. slots[cursor + p] = [st |-> "closed", block |-> plan.content[p]]
        BY <1>2
      <4> QED
        BY <1>2, <4>1
    <3>3. e.from \in Nat /\ e.from + Len(e.content) <= to
      BY <1>2, <1>5
    <3> QED
      BY <1>2, <3>1, <3>2, <3>3
  <2> QED
    BY <1>4, <2>1, <2>2
<1>7. ASSUME NEW n \in DOMAIN log', NEW m \in DOMAIN log', IsSegment(log', n), IsSegment(log', m), n < m
      PROVE  log'[n].from + Len(log'[n].content) <= log'[m].from
  <2>1. n \in DOMAIN log
    BY <1>1, <1>7
  <2>2. IsSegment(log, n) /\ log'[n] = log[n]
    BY <1>1, <1>7, <2>1 DEF IsSegment
  <2>3. CASE m \in DOMAIN log
    <3>1. IsSegment(log, m) /\ log'[m] = log[m]
      BY <1>1, <1>7, <2>3 DEF IsSegment
    <3>2. log[n].from + Len(log[n].content) <= log[m].from
      BY <1>7, <2>1, <2>2, <2>3, <3>1 DEF Covered
    <3> QED
      BY <2>2, <3>1, <3>2
  <2>4. CASE m = Len(log) + 1
    <3>1. log[n].from + Len(log[n].content) <= cursor
      BY <2>1, <2>2 DEF Covered
    <3>2. log'[m].from = cursor
      BY <1>1, <2>4
    <3> QED
      BY <2>2, <3>1, <3>2
  <2> QED
    BY <1>4, <2>3, <2>4
<1>8. ASSUME NEW i \in 1..to
      PROVE  \E n \in DOMAIN log' : IsSegment(log', n) /\ \E p \in DOMAIN log'[n].content : log'[n].from + p = i
  <2>1. CASE i \in 1..cursor
    <3>1. PICK n \in DOMAIN log : IsSegment(log, n) /\ \E p \in DOMAIN log[n].content : log[n].from + p = i
      BY <2>1 DEF Covered
    <3>2. n \in DOMAIN log' /\ log'[n] = log[n]
      BY <1>1, <1>3
    <3> QED
      BY <3>1, <3>2 DEF IsSegment
  <2>2. CASE i \notin 1..cursor
    <3>1. i - cursor \in 1..k /\ cursor + (i - cursor) = i
      BY <1>2, <1>5, <2>2
    <3>2. Len(log) + 1 \in DOMAIN log' /\ IsSegment(log', Len(log) + 1)
      BY <1>1 DEF IsSegment
    <3>3. i - cursor \in DOMAIN log'[Len(log) + 1].content /\ log'[Len(log) + 1].from + (i - cursor) = i
      BY <1>1, <1>2, <3>1
    <3> QED
      BY <3>2, <3>3
  <2> QED
    BY <2>1, <2>2
<1> HIDE DEF k
<1>9. Covered(log', slots, to)
  BY <1>6, <1>7, <1>8 DEF Covered
<1> QED
  BY <1>9 DEF k

\* The final segment makes the transcript whole: what the prefixes cover, and the rest.
LEMMA FinalIsWhole ==
  ASSUME StreamTypeOK, PlannerFits, Covered(log, planner.slots, planner.cursor),
         \A n \in DOMAIN log : IsSegment(log, n) => \A p \in DOMAIN log[n].content :
           out[log[n].from + p].cipher => log[n].content[p].cipher \/ IsAmended(log, n, p),
         planner.cursor + Len(plan.content) = Len(out),
         \A n \in DOMAIN plan.content : /\ plan.content[n].id = out[planner.cursor + n].id
                                        /\ plan.content[n].cipher = out[planner.cursor + n].cipher,
         NEW new, NEW d \in Nat, Keeps(new, d),
         NEW e, e.kind = "segment", e.content = new, log' = Append(log, e)
  PROVE  Whole(log', out)
<1> DEFINE c == planner.cursor
           last == Len(log) + 1
           src(n, p) == IF n = last THEN c + OldPlace(d, p) ELSE log[n].from + p
<1>1. /\ Len(log) \in Nat /\ DOMAIN log = 1..Len(log) /\ DOMAIN log' = 1..Len(log) + 1
      /\ log'[Len(log) + 1] = e /\ \A n \in DOMAIN log : log'[n] = log[n]
  BY AppendedTo DEF StreamTypeOK
<1>2. /\ c \in Nat /\ Len(out) \in Nat /\ DOMAIN out = 1..Len(out) /\ c <= Len(out) /\ Len(out) <= MaxBlocks
      /\ Len(plan.content) \in Nat /\ DOMAIN plan.content = 1..Len(plan.content)
      /\ Len(new) \in Nat /\ DOMAIN new = 1..Len(new)
  BY DEF StreamTypeOK, PlannerRecords, PlannerFits, Keeps
<1>3. /\ \A n \in DOMAIN log : n \in Nat /\ n # last /\ n < last /\ n \in DOMAIN log' /\ log'[n] = log[n]
      /\ last \in DOMAIN log' /\ IsSegment(log', last) /\ log'[last].content = new
      /\ \A n \in DOMAIN log' : n \in DOMAIN log \/ n = last
  BY <1>1 DEF IsSegment
<1>4. ASSUME NEW n \in DOMAIN log, IsSegment(log, n), NEW p \in DOMAIN log[n].content
      PROVE  /\ log[n].from + p \in 1..c /\ log[n].from + p \in DOMAIN out
             /\ log[n].from \in Nat /\ p \in Nat /\ log[n].from < log[n].from + p
             /\ log[n].from + p <= log[n].from + Len(log[n].content)
             /\ out[log[n].from + p].id = log[n].content[p].id
             /\ out[log[n].from + p].cipher => log[n].content[p].cipher \/ IsAmended(log, n, p)
  <2>1. /\ log[n].from \in Nat /\ log[n].from + Len(log[n].content) <= c
        /\ planner.slots[log[n].from + p].st = "closed"
        /\ log[n].content[p].id = planner.slots[log[n].from + p].block.id
    BY <1>4 DEF Covered
  <2>2. log[n].content \in Seq(Blocks)
    BY DEF StreamTypeOK
  <2>3. Len(log[n].content) \in Nat /\ p \in 1..Len(log[n].content) /\ p \in Nat
    BY <2>2
  <2>4. /\ log[n].from + p \in 1..c /\ log[n].from < log[n].from + p
        /\ log[n].from + p <= log[n].from + Len(log[n].content)
    BY <1>2, <2>1, <2>3, Within
  <2>5. log[n].from + p \in 1..MaxBlocks /\ log[n].from + p \in DOMAIN out
    <3> DEFINE k == log[n].from + p
    <3>1. k \in 1..c
      BY <2>4
    <3> HIDE DEF k
    <3>2. k \in 1..MaxBlocks /\ k \in 1..Len(out)
      BY <1>2, <3>1, StreamAssumption
    <3> QED
      BY <1>2, <3>2 DEF k
  <2>6. out[log[n].from + p].id = log[n].content[p].id
    BY <2>1, <2>5 DEF PlannerFits
  <2> QED
    BY <1>4, <2>1, <2>3, <2>4, <2>5, <2>6
<1>5. ASSUME NEW q \in DOMAIN new
      PROVE  /\ c + OldPlace(d, q) \in DOMAIN out /\ c < c + OldPlace(d, q) /\ OldPlace(d, q) \in Nat
             /\ out[c + OldPlace(d, q)].id = new[q].id /\ out[c + OldPlace(d, q)].cipher = new[q].cipher
  <2>1. /\ OldPlace(d, q) \in 1..Len(plan.content) /\ new[q].id = plan.content[OldPlace(d, q)].id
        /\ new[q].cipher = plan.content[OldPlace(d, q)].cipher
    BY <1>2 DEF Keeps
  <2>2. c + OldPlace(d, q) \in 1..Len(out) /\ c < c + OldPlace(d, q)
    BY <1>2, <2>1
  <2> QED
    BY <1>2, <2>1, <2>2
<1>6. ASSUME NEW n \in DOMAIN log', IsSegment(log', n), NEW p \in DOMAIN log'[n].content
      PROVE  /\ src(n, p) \in DOMAIN out /\ out[src(n, p)].id = log'[n].content[p].id
             /\ out[src(n, p)].cipher => log'[n].content[p].cipher \/ IsAmended(log', n, p)
  <2>1. CASE n \in DOMAIN log
    <3>1. IsSegment(log, n) /\ log'[n] = log[n] /\ src(n, p) = log[n].from + p
      BY <1>3, <1>6, <2>1 DEF IsSegment
    <3>2. IsAmended(log, n, p) => IsAmended(log', n, p)
      BY <1>3 DEF IsAmended
    <3> QED
      BY <1>4, <1>6, <2>1, <3>1, <3>2
  <2>2. CASE n = last
    BY <1>3, <1>5, <1>6, <2>2
  <2> QED
    BY <1>3, <2>1, <2>2
<1>7. ASSUME NEW n \in DOMAIN log', NEW m \in DOMAIN log', IsSegment(log', n), IsSegment(log', m),
             NEW p \in DOMAIN log'[n].content, NEW q \in DOMAIN log'[m].content,
             n < m \/ (n = m /\ p < q)
      PROVE  src(n, p) < src(m, q)
  <2>1. CASE n \in DOMAIN log /\ m \in DOMAIN log
    <3>1. /\ IsSegment(log, n) /\ log'[n] = log[n] /\ src(n, p) = log[n].from + p
          /\ IsSegment(log, m) /\ log'[m] = log[m] /\ src(m, q) = log[m].from + q
      BY <1>3, <1>7, <2>1 DEF IsSegment
    <3>2. /\ log[n].from \in Nat /\ p \in Nat /\ log[n].from + p <= log[n].from + Len(log[n].content)
          /\ log[m].from \in Nat /\ q \in Nat /\ log[m].from < log[m].from + q
      BY <1>4, <1>7, <2>1, <3>1
    <3>3. CASE n < m
      <4>1. log[n].from + Len(log[n].content) <= log[m].from
        BY <2>1, <3>1, <3>3 DEF Covered
      <4>2. Len(log[n].content) \in Nat
        BY <2>1 DEF StreamTypeOK
      <4> DEFINE f == log[n].from
                 g == log[m].from
                 k == Len(log[n].content)
      <4>3. f \in Nat /\ g \in Nat /\ k \in Nat /\ p \in Nat /\ q \in Nat /\ f + p <= f + k /\ g < g + q /\ f + k <= g
        BY <3>2, <4>1, <4>2
      <4> HIDE DEF f, g, k
      <4>4. f + p < g + q
        BY <4>3
      <4> QED
        BY <3>1, <4>4 DEF f, g
    <3>4. CASE n = m /\ p < q
      <4> DEFINE f == log[n].from
      <4>1. f \in Nat /\ p \in Nat /\ q \in Nat /\ p < q
        BY <3>2, <3>4
      <4> HIDE DEF f
      <4>2. f + p < f + q
        BY <4>1
      <4> QED
        BY <3>1, <3>4, <4>2 DEF f
    <3> QED
      BY <1>7, <3>3, <3>4
  <2>2. CASE n \in DOMAIN log /\ m = last
    <3>1. IsSegment(log, n) /\ log'[n] = log[n] /\ src(n, p) = log[n].from + p /\ src(m, q) = c + OldPlace(d, q)
      BY <1>3, <1>7, <2>2 DEF IsSegment
    <3>2. log[n].from + p \in 1..c
      BY <1>4, <1>7, <2>2, <3>1
    <3>3. c < c + OldPlace(d, q) /\ OldPlace(d, q) \in Nat
      BY <1>3, <1>5, <1>7, <2>2
    <3> DEFINE k == log[n].from + p
               b == OldPlace(d, q)
    <3>4. k \in 1..c /\ c < c + b /\ b \in Nat
      BY <3>2, <3>3
    <3> HIDE DEF k, b
    <3>5. k < c + b
      BY <1>2, <3>4
    <3> QED
      BY <3>1, <3>5 DEF k, b
  <2>3. CASE n = last
    <3>1. m = last /\ p < q
      BY <1>1, <1>3, <1>7, <2>3
    <3>2. p \in 1..Len(new) /\ q \in 1..Len(new)
      BY <1>2, <1>3, <1>7, <2>3, <3>1
    <3>3. OldPlace(d, p) \in Nat /\ OldPlace(d, q) \in Nat /\ OldPlace(d, p) < OldPlace(d, q)
      BY <1>2, <3>1, <3>2 DEF OldPlace
    <3>4. c + OldPlace(d, p) < c + OldPlace(d, q)
      BY <1>2, <3>3
    <3> QED
      BY <2>3, <3>1, <3>4
  <2> QED
    BY <1>3, <2>1, <2>2, <2>3
<1>8. ASSUME NEW k \in DOMAIN out, IsSaid(out[k])
      PROVE  \E n \in DOMAIN log' : IsSegment(log', n) /\ \E p \in DOMAIN log'[n].content : log'[n].content[p].id = out[k].id
  <2>1. CASE k \in 1..c
    <3>1. PICK n \in DOMAIN log : IsSegment(log, n) /\ \E p \in DOMAIN log[n].content : log[n].from + p = k
      BY <2>1 DEF Covered
    <3>2. PICK p \in DOMAIN log[n].content : log[n].from + p = k
      BY <3>1
    <3>3. out[k].id = log[n].content[p].id
      BY <1>4, <3>1, <3>2
    <3> QED
      BY <1>3, <3>1, <3>3 DEF IsSegment
  <2>2. CASE k \notin 1..c
    <3>1. k - c \in DOMAIN plan.content /\ c + (k - c) = k
      BY <1>2, <2>2
    <3>2. plan.content[k - c].id = out[k].id /\ IsSaid(plan.content[k - c])
      BY <1>8, <3>1 DEF IsSaid
    <3>3. PICK q \in DOMAIN new : OldPlace(d, q) = k - c
      BY <3>1, <3>2 DEF Keeps
    <3>4. new[q].id = out[k].id
      BY <3>2, <3>3 DEF Keeps
    <3> QED
      BY <1>3, <3>4
  <2> QED
    BY <2>1, <2>2
<1> HIDE DEF src
<1>9. \A n \in DOMAIN log' : IsSegment(log', n) => \A p \in DOMAIN log'[n].content :
        \E k \in DOMAIN out : /\ out[k].id = log'[n].content[p].id
                              /\ out[k].cipher => log'[n].content[p].cipher \/ IsAmended(log', n, p)
  BY <1>6
<1>10. \A n, m \in DOMAIN log' : IsSegment(log', n) /\ IsSegment(log', m) =>
         \A p \in DOMAIN log'[n].content, q \in DOMAIN log'[m].content : n < m \/ (n = m /\ p < q) =>
           \E j, k \in DOMAIN out : j < k /\ out[j].id = log'[n].content[p].id /\ out[k].id = log'[m].content[q].id
  BY <1>6, <1>7
<1> QED
  BY <1>8, <1>9, <1>10 DEF Whole

LEMMA CommitKeepsAnswer ==
  ASSUME CallsInvariant, AnswerInvariant, NEW edit \in Edits, Commit(edit)
  PROVE  AnswerInvariant'
<1> DEFINE content == Edited(edit)
           reason == Lowered(edit)
<1>1. /\ StreamTypeOK /\ LoopFits /\ PlannerFits
      /\ ItemsFit /\ EventsOnce /\ ViewFits /\ PlanExact /\ SegmentsExact /\ AmendmentsFit
  BY DEF CallsInvariant, AnswerInvariant
<1>2. /\ co.at = "hook" /\ out' = out /\ events' = events /\ view' = view /\ aborted' = aborted
  BY DEF Commit, provider
<1>3. CASE Unacceptable(edit, content, reason) \/ aborted
  <2>1. GivesUp(FALSE) /\ UNCHANGED <<planner, plan, log>>
    BY <1>3, Zenon DEF Commit
  <2>2. EventsOnce'
    BY <1>1, <1>2, <2>1 DEF EventsOnce
  <2> QED
    BY <1>1, <1>2, <2>1, <2>2, GivenUpKeepsAnswer DEF StreamTypeOK
<1>4. CASE ~(Unacceptable(edit, content, reason) \/ aborted)
  <2> DEFINE e == [kind |-> "segment", entry |-> 0, at |-> 0, from |-> plan.from,
                   content |-> content, reason |-> reason]
  <2>1. /\ log' = Append(log, e)
        /\ Acknowledge(content, reason)
        /\ co' = [co EXCEPT !.at = "publish", !.committed = plan.kind = "final"]
        /\ plan' = plan
    BY <1>4, Zenon DEF Commit
  <2>2. plan.kind = "prefix" => edit \in {"none", "text"}
    BY <1>4 DEF Unacceptable, Edits
  <2>3. e.kind = "segment" /\ e.content = content /\ e.from = plan.from
    OBVIOUS
  <2>4. (edit \in {"none", "text"} => SameBlocks(content)) /\ \E d \in Nat : Keeps(content, d)
    BY <1>1, EditsKeep
  <2> HIDE DEF content, reason, e
  <2>5. /\ planner'.cursor = plan.to /\ planner'.slots = planner.slots /\ planner'.started = planner.started
        /\ co'.at = "publish" /\ co'.failed = co.failed
    BY <1>1, <2>1 DEF Acknowledge, StreamTypeOK, PlannerRecords
  <2>6. EventsOnce' /\ ItemsFit'
    BY <1>1, <1>2, <2>5 DEF EventsOnce, ItemsFit
  <2>7. ViewFits' /\ PlanExact' /\ AmendmentsFit'
    BY <1>1, <1>2, <2>1, <2>5 DEF ViewFits, ShowsUpTo, PlanExact, AmendmentsFit
  <2>8. planner.cursor \in Nat /\ Covered(log, planner.slots, planner.cursor)
    BY <1>1, <1>2 DEF SegmentsExact, Streaming, StreamTypeOK, PlannerRecords
  <2>9. CASE plan.kind = "prefix"
    <3>1. /\ plan.from = planner.cursor /\ plan.to = planner.cursor + Len(plan.content)
          /\ \A n \in DOMAIN plan.content :
               planner.slots[planner.cursor + n] = [st |-> "closed", block |-> plan.content[n]]
      BY <1>1, <1>2, <2>9 DEF PlanExact
    <3>2. Covered(log', planner.slots, planner.cursor + Len(plan.content))
      BY <1>1, <2>1, <2>2, <2>3, <2>4, <2>8, <2>9, <3>1, PrefixCovers
    <3>3. SegmentsExact'
      BY <2>5, <3>1, <3>2 DEF SegmentsExact
    <3>4. AnswerTold'
      BY <2>1, <2>5, <2>9 DEF AnswerTold, IsTold, Succeeded
    <3> QED
      BY <2>6, <2>7, <3>3, <3>4 DEF AnswerInvariant
  <2>10. CASE plan.kind # "prefix"
    <3>1. plan.kind = "final"
      BY <1>1, <1>2, <2>10 DEF LoopFits, StreamTypeOK
    <3>2. /\ planner.cursor + Len(plan.content) = Len(out)
          /\ \A n \in DOMAIN plan.content : /\ plan.content[n].id = out[planner.cursor + n].id
                                            /\ plan.content[n].cipher = out[planner.cursor + n].cipher
      BY <1>1, <1>2, <3>1 DEF PlanExact
    <3>3. \A n \in DOMAIN log : IsSegment(log, n) => \A p \in DOMAIN log[n].content :
            out[log[n].from + p].cipher => log[n].content[p].cipher \/ IsAmended(log, n, p)
      BY <1>1, <1>2, <3>1 DEF AmendmentsFit
    <3>4. Whole(log', out)
      BY <1>1, <2>1, <2>3, <2>4, <2>8, <3>2, <3>3, FinalIsWhole
    <3>5. SegmentsExact'
      BY <2>1, <2>5, <2>10 DEF SegmentsExact, Streaming
    <3>6. AnswerTold'
      BY <1>2, <3>4 DEF AnswerTold
    <3> QED
      BY <2>6, <2>7, <3>5, <3>6 DEF AnswerInvariant
  <2> QED
    BY <2>9, <2>10
<1> QED
  BY <1>3, <1>4

-----------------------------------------------------------------------------
LEMMA StepsKeepAnswer ==
  ASSUME CallsInvariant, AnswerInvariant, [Next]_vars PROVE AnswerInvariant'
<1>1. CASE Connect \/ ConnectFails \/ Rejected \/ RequestAborted \/ Frame
  <2>1. StreamTypeOK /\ AdapterFits
    BY DEF CallsInvariant
  <2>2. AdapterSteps
    BY <1>1, <2>1, AdapterStepsFit
  <2> QED
    BY <1>1, <2>2, AdapterKeepsAnswer
<1>2. CASE Take
  BY <1>2, TakeKeepsAnswer
<1>3. CASE \/ Stall \/ Amended \/ (\E published \in BOOLEAN : Amend(published)) \/ PublishFails \/ Drain
           \/ (\E retry \in BOOLEAN : Finish(retry)) \/ Catch \/ Abort \/ RunTool \/ UNCHANGED vars
  BY <1>3, LoopStepsKeepAnswer
<1>4. CASE \E edit \in Edits : Commit(edit)
  BY <1>4, CommitKeepsAnswer
<1>5. CASE Schedule
  BY <1>5, ScheduleKeepsAnswer
<1> QED
  BY <1>1, <1>2, <1>3, <1>4, <1>5 DEF Next

\* What is told of the whole answer, in the words of the property.
LEMMA ToldIsWhole == ASSUME CallsInvariant, AnswerInvariant PROVE TranscriptIsWhole
<1> SUFFICES ASSUME Succeeded PROVE
      /\ (UNION {Ids(log[n].content) : n \in Segments}) \ Calls = Ids(out) \ Calls
      /\ \A n, m \in Segments : \A p \in DOMAIN log[n].content, q \in DOMAIN log[m].content :
           /\ IsSaid(log[n].content[p]) /\ IsSaid(log[m].content[q])
           /\ n < m \/ (n = m /\ p < q)
           => Position(log[n].content[p]) < Position(log[m].content[q])
      /\ \A n \in Segments : \A p \in DOMAIN log[n].content :
           \A k \in DOMAIN out : out[k].id = log[n].content[p].id /\ out[k].cipher => HasCipher(n, p)
      /\ Ids(out) \cap Retired = {}
  BY DEF TranscriptIsWhole
<1> USE StreamAssumption
<1>1. ItemsFit /\ Whole(log, out)
  BY DEF AnswerInvariant, AnswerTold, IsTold
<1>2. \A n \in Segments : n \in DOMAIN log /\ IsSegment(log, n)
  BY DEF Segments, IsSegment
<1>3. \A n \in DOMAIN log : IsSegment(log, n) => n \in Segments
  BY DEF Segments, IsSegment
<1>4. ASSUME NEW k \in DOMAIN out, NEW b, b.id = out[k].id, IsSaid(b)
      PROVE  Position(b) = k
  <2>1. \A l \in DOMAIN out : out[l].id = b.id => l = k
    BY <1>1, <1>4 DEF ItemsFit, IsSaid
  <2> QED
    BY <1>4, <2>1 DEF Position
<1>5. (UNION {Ids(log[n].content) : n \in Segments}) \ Calls = Ids(out) \ Calls
  <2>1. ASSUME NEW n \in Segments, NEW p \in DOMAIN log[n].content
        PROVE  log[n].content[p].id \in Ids(out)
    BY <1>1, <1>2 DEF Whole, Ids
  <2>2. ASSUME NEW k \in DOMAIN out, out[k].id \notin Calls
        PROVE  \E n \in Segments : out[k].id \in Ids(log[n].content)
    <3>1. PICK n \in DOMAIN log : IsSegment(log, n) /\ \E p \in DOMAIN log[n].content : log[n].content[p].id = out[k].id
      BY <1>1, <2>2 DEF Whole, IsSaid
    <3> QED
      BY <1>3, <3>1 DEF Ids
  <2> QED
    BY <2>1, <2>2 DEF Ids
<1>6. ASSUME NEW n \in Segments, NEW m \in Segments, NEW p \in DOMAIN log[n].content, NEW q \in DOMAIN log[m].content,
             IsSaid(log[n].content[p]), IsSaid(log[m].content[q]), n < m \/ (n = m /\ p < q)
      PROVE  Position(log[n].content[p]) < Position(log[m].content[q])
  <2>1. PICK j \in DOMAIN out : \E k \in DOMAIN out : j < k /\ out[j].id = log[n].content[p].id /\ out[k].id = log[m].content[q].id
    BY <1>1, <1>2, <1>6 DEF Whole
  <2>2. PICK k \in DOMAIN out : j < k /\ out[j].id = log[n].content[p].id /\ out[k].id = log[m].content[q].id
    BY <2>1
  <2>3. Position(log[n].content[p]) = j /\ Position(log[m].content[q]) = k
    BY <1>4, <1>6, <2>2
  <2> QED
    BY <2>2, <2>3
<1>7. ASSUME NEW n \in Segments, NEW p \in DOMAIN log[n].content, NEW k \in DOMAIN out,
             out[k].id = log[n].content[p].id, out[k].cipher
      PROVE  HasCipher(n, p)
  <2>1. PICK l \in DOMAIN out : /\ out[l].id = log[n].content[p].id
                                /\ out[l].cipher => log[n].content[p].cipher \/ IsAmended(log, n, p)
    BY <1>1, <1>2 DEF Whole
  <2>2. IsSaid(out[k])
    BY <1>1, <1>7 DEF ItemsFit, IsSaid
  <2>3. l = k
    BY <1>1, <1>7, <2>1, <2>2 DEF ItemsFit
  <2> QED
    BY <1>7, <2>1, <2>3 DEF HasCipher, IsAmended
<1>8. Ids(out) \cap Retired = {}
  BY <1>1 DEF ItemsFit, Ids
<1> QED
  BY <1>5, <1>6, <1>7, <1>8

\* However an answer is cut into segments, its blocks, the events under way, the view, the plan
\* and the transcript fit together: segments cover the source up to the planner's cursor, and
\* what came later of a committed thought is amended.  (actor-stream.mjs: prefixPlan and
\* finalPlan; actor-coordinator.mjs: inference)
THEOREM AnswerInvariantHolds == Spec => [](CallsInvariant /\ AnswerInvariant)
<1>1. Init => CallsInvariant /\ AnswerInvariant
  BY AttemptStarts, AnswerStarts
<1>2. CallsInvariant /\ AnswerInvariant /\ [Next]_vars => (CallsInvariant /\ AnswerInvariant)'
  BY StepsKeepCalls, StepsKeepAnswer
<1> QED
  BY <1>1, <1>2, PTL DEF Spec

\* An attempt that succeeds leaves every text and thought of the answer in the transcript, once,
\* in order, with its cipher, whenever prefixes were cut off for their calls; and a live client
\* shows all of it, committed or under way.  (actor-coordinator.mjs: the commit of a segment)
THEOREM AnswerAlwaysWhole == Spec => []AnswerIsWhole
<1>1. CallsInvariant /\ AnswerInvariant => AnswerIsWhole
  <2> SUFFICES ASSUME CallsInvariant, AnswerInvariant PROVE AnswerIsWhole
    OBVIOUS
  <2>1. TranscriptIsWhole
    BY ToldIsWhole
  <2>2. LiveViewIsWhole
    BY DEF AnswerInvariant, ViewFits, ShowsUpTo, LiveViewIsWhole
  <2> QED
    BY <2>1, <2>2 DEF AnswerIsWhole
<1> QED
  BY <1>1, AnswerInvariantHolds, PTL

-----------------------------------------------------------------------------
(***************************************************************************)
(* AtomicFile.                                                             *)
(***************************************************************************)
Names  == Inodes \cup {None, Odd, Unmade}
Before == {"open", "look", "read", "prepare", "verify", "folder", "check", "commit", "publish"}
After  == {"unlink", "sync", "inspect"}
Ended  == {"cleanup", "done", "dead"}

CallRecords ==
  [kind : {"write", "edit"}, at : Before \cup After \cup Ended, folder : Nat,
   source : Inodes \cup {None}, stamp : Nat, base : SUBSET Inodes,
   temp : {None, "own", "swapped", "gone"}, seen : Nat, published : BOOLEAN,
   end : {None, "ok", "committed", "failed"},
   late : BOOLEAN, over : SUBSET (Inodes \cup Names), blind : BOOLEAN]

FileRecords == [text : SUBSET Inodes, stamp : Nat, flushed : {TRUE}]

FilesTypeOK ==
  /\ place \in Nat /\ meddling \in 0..MaxMeddling
  /\ leaf \in [Folders -> Names] /\ onDisk \in [Folders -> Names]
  /\ inode \in [Inodes -> FileRecords]
  /\ call \in [Mutations -> CallRecords]

\* Directories are made one after another, and the bound on changes leaves one to be made.
FoldersGrow ==
  \E k \in Nat :
    /\ \A d \in Folders : (leaf[d] = Unmade <=> d > k) /\ (onDisk[d] = Unmade <=> d > k)
    /\ place <= k /\ k <= meddling + 1 /\ (place = 0 => k <= meddling)
    /\ \A c \in Mutations : call[c].folder <= k /\ call[c].seen <= k

\* A change is made at most once: what is in no text was never made, and leads nowhere.
Made == {n \in Changes : \E i \in Inodes : n \in inode[i].text}
ChangesAreNew ==
  /\ Cardinality(Made) <= meddling
  /\ \A n \in Changes : inode[n].text = {} \/ n \in inode[n].text
  /\ \A d \in Folders : /\ leaf[d] \in Changes => leaf[d] \in inode[leaf[d]].text
                        /\ onDisk[d] \in Changes => onDisk[d] \in inode[onDisk[d]].text
  /\ \A c \in Mutations : call[c].source \in Changes => call[c].source \in inode[call[c].source].text

\* Before a call publishes its private file, no name and no other call leads to it.
UnpublishedIsPrivate ==
  \A c \in Mutations : ~call[c].published =>
    /\ \A d \in Folders : leaf[d] # c /\ onDisk[d] # c
    /\ \A o \in Mutations : call[o].source # c

\* How far a call is, by its kind and by what it published.
StepsFit(r) ==
  /\ r.at \in Before => ~r.published
  /\ r.at \in After => r.published
  /\ r.at \notin Ended => r.end = None
  /\ r.end = "ok" => r.published /\ r.at \in Ended
  /\ r.at = "done" => r.end # None /\ (r.published <=> r.end \in {"ok", "committed"})
  /\ r.end = "failed" => ~r.published
  /\ r.at \in (Before \cup After) \ {"open"} => 0 < r.folder
  /\ r.kind = "write" => r.source = None
  /\ r.kind = "edit" /\ r.at \in Before \ {"open", "look"} => r.source # None
  /\ r.at \in {"open", "look"} => r.source = None /\ r.base = {}
  /\ r.at = "read" => r.kind = "edit"
  /\ r.published => IF r.kind = "write" THEN r.over = {None} ELSE r.blind \/ r.over = r.base

\* What a call read is part of the file's text, all of it for as long as the stamp stays.
SourceFits(r, file) ==
  r.source # None =>
    /\ r.base \subseteq file[r.source].text
    /\ r.at \in {"prepare", "verify", "folder", "check"} =>
         /\ r.stamp <= file[r.source].stamp
         /\ r.stamp = file[r.source].stamp => r.base = file[r.source].text

Confirmed(r) == r.end = "ok" /\ r.at # "dead"
TextOf(c, r) == IF r.kind = "edit" THEN r.base \cup {c} ELSE {c}

\* What a call may rely on, unless it was told that another changed the name.
UndisturbedFits(c, r, here, names, disk, file) ==
  ~r.late =>
    /\ r.at = "check" => here = r.folder
    /\ r.at \in {"commit", "publish"} /\ r.source # None =>
         here = r.folder /\ names[here] = r.source /\ r.base = file[r.source].text
    /\ r.at = "inspect" \/ Confirmed(r) =>
         0 < here /\ here = r.seen /\ disk[here] = names[here]
    /\ Confirmed(r) => names[here] = c /\ file[c].text = TextOf(c, r)

CallFits(c, r, here, names, disk, file) ==
  StepsFit(r) /\ SourceFits(r, file) /\ UndisturbedFits(c, r, here, names, disk, file)

CallsFit == \A c \in Mutations : CallFits(c, call[c], place, leaf, onDisk, inode)

\* The inductive invariant.
FilesInv ==
  FilesTypeOK /\ FoldersGrow /\ ChangesAreNew /\ UnpublishedIsPrivate /\ CallsFit

-----------------------------------------------------------------------------
(* Lemmas about the operators. *)

LEMMA FileNames ==
  /\ None \notin Inodes /\ Odd \notin Inodes /\ Unmade \notin Inodes /\ Torn \notin Inodes
  /\ None # Odd /\ None # Unmade /\ Odd # Unmade
  /\ Original \notin Mutations /\ Original \notin Changes /\ Mutations \cap Changes = {}
  /\ Mutations \subseteq Inodes /\ Changes \subseteq Inodes /\ Original \in Inodes
  BY FilesAssumption DEF Inodes, None, Odd, Unmade, Torn

\* The directories made so far are the first ones, and the next is another.
LEMMA NextFolder ==
  ASSUME FilesTypeOK, NEW k \in Nat, k <= MaxMeddling,
         \A d \in Folders : leaf[d] = Unmade <=> d > k
  PROVE  MadeSoFar + 1 = k + 1 /\ k + 1 \in Folders
<1> DEFINE D == {d \in Folders : leaf[d] # Unmade}
<1>1. D = 1..k
  BY FilesAssumption DEF Folders
<1>2. Cardinality(1..k) = k
  <2>1. Cardinality(1..k) = IF 1 > k THEN 0 ELSE k - 1 + 1
    BY FS_Interval
  <2> QED BY <2>1
<1>3. MadeSoFar = k
  BY <1>1, <1>2 DEF MadeSoFar
<1> QED BY <1>3, FilesAssumption DEF Folders

LEMMA MadeIsFinite == IsFiniteSet(Made)
  BY FilesAssumption, FS_Subset DEF Made

\* A step of another program has a change to make.
LEMMA ChangeIsNew ==
  ASSUME FilesInv, meddling < MaxMeddling
  PROVE  /\ Change \in Changes /\ Change \in Inodes /\ Change \notin Mutations /\ Change \in Names
         /\ \A i \in Inodes : Change \notin inode[i].text
         /\ inode[Change].text = {}
         /\ \A d \in Folders : leaf[d] # Change /\ onDisk[d] # Change
         /\ \A c \in Mutations : call[c].source # Change
<1>1. Made # Changes
  <2>1. Cardinality(Made) < Cardinality(Changes)
    <3>1. Cardinality(Made) \in Nat /\ Cardinality(Changes) \in Nat
      BY MadeIsFinite, FilesAssumption, FS_CardinalityType
    <3>2. Cardinality(Made) <= meddling /\ meddling \in Nat /\ MaxMeddling <= Cardinality(Changes)
      BY FilesAssumption DEF FilesInv, FilesTypeOK, ChangesAreNew
    <3> QED BY <3>1, <3>2, FilesAssumption
  <2> QED BY <2>1, MadeIsFinite, FS_CardinalityType
<1>2. \E n \in Changes : \A i \in Inodes : n \notin inode[i].text
  BY <1>1 DEF Made
<1>3. Change \in Changes /\ \A i \in Inodes : Change \notin inode[i].text
  BY <1>2 DEF Change
<1>4. Change \in Inodes /\ Change \notin Mutations
  BY <1>3, FileNames
<1>5. inode[Change].text = {}
  BY <1>3, <1>4 DEF FilesInv, ChangesAreNew
<1> QED BY <1>3, <1>4, <1>5 DEF FilesInv, ChangesAreNew, Names

\* A step that writes no change by another program, and one that writes at most one.
LEMMA MadeStays ==
  ASSUME FilesInv, meddling' \in Nat, meddling <= meddling',
         \A i \in Inodes : inode'[i].text \cap Changes \subseteq Made
  PROVE  Cardinality(Made') <= meddling'
<1>1. Made' \subseteq Made
  BY DEF Made
<1>2. Cardinality(Made') <= Cardinality(Made) /\ Cardinality(Made') \in Nat /\ Cardinality(Made) \in Nat
  BY <1>1, MadeIsFinite, FS_Subset, FS_CardinalityType
<1> QED BY <1>2 DEF FilesInv, ChangesAreNew, FilesTypeOK

LEMMA MadeByOne ==
  ASSUME FilesInv, meddling' = meddling + 1, NEW n,
         \A i \in Inodes : inode'[i].text \cap Changes \subseteq Made \cup {n}
  PROVE  Cardinality(Made') <= meddling'
<1>1. Made' \subseteq Made \cup {n}
  BY DEF Made
<1>2. IsFiniteSet(Made \cup {n}) /\ Cardinality(Made \cup {n}) <= Cardinality(Made) + 1
  <2>1. Cardinality(Made) \in Nat
    BY MadeIsFinite, FS_CardinalityType
  <2>2. /\ IsFiniteSet(Made \cup {n})
        /\ \/ Cardinality(Made \cup {n}) = Cardinality(Made)
           \/ Cardinality(Made \cup {n}) = Cardinality(Made) + 1
    BY MadeIsFinite, FS_AddElement
  <2> QED BY <2>1, <2>2
<1>3. /\ Cardinality(Made') <= Cardinality(Made \cup {n})
      /\ Cardinality(Made') \in Nat /\ Cardinality(Made) \in Nat /\ Cardinality(Made \cup {n}) \in Nat
  BY <1>1, <1>2, MadeIsFinite, FS_Subset, FS_CardinalityType
<1> QED BY <1>2, <1>3 DEF FilesInv, ChangesAreNew, FilesTypeOK

\* Telling a call changes nothing else of it.
LEMMA TellOne ==
  ASSUME NEW r \in CallRecords, NEW o \in Mutations
  PROVE  LET told == [r EXCEPT !.late = TRUE] IN
         /\ told \in CallRecords /\ told.late
         /\ told.kind = r.kind /\ told.at = r.at /\ told.folder = r.folder /\ told.source = r.source
         /\ told.stamp = r.stamp /\ told.base = r.base /\ told.temp = r.temp /\ told.seen = r.seen
         /\ told.published = r.published /\ told.end = r.end /\ told.over = r.over
         /\ told.blind = r.blind
  BY DEF CallRecords

\* A call that was told, or that nothing touched.
SameCall(old, new) ==
  /\ new \in CallRecords
  /\ new.kind = old.kind /\ new.at = old.at /\ new.folder = old.folder /\ new.source = old.source
  /\ new.stamp = old.stamp /\ new.base = old.base /\ new.temp = old.temp /\ new.seen = old.seen
  /\ new.published = old.published /\ new.end = old.end /\ new.over = old.over
  /\ new.blind = old.blind
  /\ new.late \/ new.late = old.late

LEMMA TellFacts ==
  ASSUME NEW calls \in [Mutations -> CallRecords], NEW who \in SUBSET Mutations
  PROVE  /\ Tell(calls, who) \in [Mutations -> CallRecords]
         /\ \A o \in Mutations : SameCall(calls[o], Tell(calls, who)[o])
         /\ \A o \in who : Tell(calls, who)[o].late
         /\ \A o \in Mutations \ who : Tell(calls, who)[o] = calls[o]
  BY TellOne DEF Tell, SameCall

\* How far a call is says nothing of whether it was told.
LEMMA SameFits ==
  ASSUME NEW old \in CallRecords, NEW new, SameCall(old, new), StepsFit(old)
  PROVE  StepsFit(new)
  BY DEF SameCall, StepsFit

-----------------------------------------------------------------------------
(* Steps that move one call and leave the files as they are. *)

\* The call of a step becomes r, and r came by its file and directories as a call may.
Moves(c, r) ==
  /\ r \in CallRecords /\ call' = [call EXCEPT ![c] = r]
  /\ r.published = call[c].published
  /\ r.source = call[c].source \/ \E d \in Folders : r.source = leaf[d]
  /\ r.folder \in {call[c].folder, place} /\ r.seen \in {call[c].seen, place}
  /\ UNCHANGED <<place, leaf, onDisk, inode>>
  /\ meddling' \in 0..MaxMeddling /\ meddling <= meddling'

LEMMA MoveKeeps ==
  ASSUME FilesInv, NEW c \in Mutations, NEW r, Moves(c, r), CallFits(c, r, place, leaf, onDisk, inode)
  PROVE  FilesInv'
<1>1. FilesTypeOK'
  BY DEF FilesInv, FilesTypeOK, Moves
<1>2. FoldersGrow'
  <2>1. PICK k \in Nat :
          /\ \A d \in Folders : (leaf[d] = Unmade <=> d > k) /\ (onDisk[d] = Unmade <=> d > k)
          /\ place <= k /\ k <= meddling + 1 /\ (place = 0 => k <= meddling)
          /\ \A o \in Mutations : call[o].folder <= k /\ call[o].seen <= k
    BY DEF FilesInv, FoldersGrow
  <2>2. \A o \in Mutations : call'[o].folder <= k /\ call'[o].seen <= k
    BY <2>1 DEF Moves, FilesInv, FilesTypeOK
  <2>3. k <= meddling' + 1 /\ (place = 0 => k <= meddling')
    <3>1. meddling \in Nat /\ meddling' \in Nat /\ meddling <= meddling' /\ place \in Nat
      BY FilesAssumption DEF Moves, FilesInv, FilesTypeOK
    <3>2. k <= meddling + 1 /\ (place = 0 => k <= meddling)
      BY <2>1
    <3>3. \A m, n \in Nat : m <= n => (k <= m + 1 => k <= n + 1) /\ (k <= m => k <= n)
      OBVIOUS
    <3> QED BY <3>1, <3>2, <3>3
  <2> QED BY <2>1, <2>2, <2>3 DEF FoldersGrow, Moves
<1>3. ChangesAreNew'
  <2>1. Made' = Made
    BY DEF Moves, Made
  <2>2. Cardinality(Made) <= meddling'
    <3>1. Cardinality(Made) \in Nat
      BY MadeIsFinite, FS_CardinalityType
    <3> QED BY <3>1 DEF FilesInv, ChangesAreNew, FilesTypeOK, Moves
  <2> QED BY <2>1, <2>2 DEF FilesInv, ChangesAreNew, FilesTypeOK, Moves
<1>4. UnpublishedIsPrivate'
  BY DEF FilesInv, UnpublishedIsPrivate, FilesTypeOK, Moves
<1>5. CallsFit'
  <2>1. \A o \in Mutations \ {c} : call'[o] = call[o]
    BY DEF Moves, FilesInv, FilesTypeOK
  <2>2. call'[c] = r
    BY DEF Moves, FilesInv, FilesTypeOK
  <2>3. \A o \in Mutations : CallFits(o, call'[o], place, leaf, onDisk, inode)
    BY <2>1, <2>2 DEF FilesInv, CallsFit
  <2> QED BY <2>3 DEF CallsFit, Moves
<1> QED BY <1>1, <1>2, <1>3, <1>4, <1>5 DEF FilesInv

\* A step that fails goes to the cleanup, before or after publication.
LEMMA FailKeeps ==
  ASSUME FilesInv, NEW c \in Mutations, call[c].at \notin Ended, Fails(c),
         UNCHANGED <<place, leaf, onDisk, inode>>, meddling' \in 0..MaxMeddling, meddling <= meddling'
  PROVE  FilesInv'
<1> DEFINE r == [call[c] EXCEPT !.at = "cleanup"]
<1>1. call[c] \in CallRecords
  BY DEF FilesInv, FilesTypeOK
<1>2. /\ r \in CallRecords /\ r.at = "cleanup" /\ r.kind = call[c].kind /\ r.folder = call[c].folder
      /\ r.source = call[c].source /\ r.base = call[c].base /\ r.seen = call[c].seen
      /\ r.published = call[c].published /\ r.end = call[c].end /\ r.over = call[c].over
      /\ r.blind = call[c].blind
  BY <1>1 DEF CallRecords, Ended
<1>3. call' = [call EXCEPT ![c] = r]
  BY DEF Fails, Goes
<1> HIDE DEF r
<1>4. Moves(c, r)
  BY <1>2, <1>3 DEF Moves
<1>5. CallFits(c, call[c], place, leaf, onDisk, inode)
  BY DEF FilesInv, CallsFit
<1>6. StepsFit(r)
  BY <1>2, <1>5 DEF CallFits, StepsFit, Before, After, Ended
<1>7. SourceFits(r, inode)
  BY <1>2, <1>5 DEF CallFits, SourceFits
<1>8. UndisturbedFits(c, r, place, leaf, onDisk, inode)
  BY <1>2, <1>5 DEF CallFits, StepsFit, UndisturbedFits, Confirmed, None
<1> QED BY <1>4, <1>6, <1>7, <1>8, MoveKeeps DEF CallFits

LEMMA QuietMeddling ==
  ASSUME FilesInv, Quietly \/ Meddle
  PROVE  meddling' \in 0..MaxMeddling /\ meddling <= meddling' /\ meddling' \in Nat
  BY FilesAssumption DEF FilesInv, FilesTypeOK, Quietly, Meddle

LEMMA StepFailsKeeps ==
  ASSUME FilesInv, NEW c \in Mutations, StepFails(c)
  PROVE  FilesInv'
<1>1. call[c].at \notin Ended
  BY DEF StepFails, Ended
<1> QED BY <1>1, FailKeeps, QuietMeddling DEF StepFails

LEMMA GoneTo ==
  ASSUME NEW old \in CallRecords, NEW step \in Before \cup After \cup Ended
  PROVE  LET r == [old EXCEPT !.at = step] IN
         /\ r \in CallRecords /\ r.at = step /\ r.kind = old.kind /\ r.folder = old.folder
         /\ r.source = old.source /\ r.stamp = old.stamp /\ r.base = old.base /\ r.temp = old.temp
         /\ r.seen = old.seen /\ r.published = old.published /\ r.end = old.end
         /\ r.late = old.late /\ r.over = old.over /\ r.blind = old.blind
  BY DEF CallRecords

\* A step that only goes on, from one check to the next.
LEMMA GoKeeps ==
  ASSUME FilesInv, NEW c \in Mutations, NEW step, Goes(c, step), Quietly,
         UNCHANGED <<place, leaf, onDisk, inode>>,
         \/ call[c].at = "verify" /\ step = "folder"
         \/ call[c].at = "check" /\ step = "commit" /\ SourceUnchanged(c)
         \/ call[c].at = "commit" /\ step = "publish"
  PROVE  FilesInv'
<1> DEFINE r == [call[c] EXCEPT !.at = step]
<1>1. call[c] \in CallRecords /\ CallFits(c, call[c], place, leaf, onDisk, inode)
  BY DEF FilesInv, FilesTypeOK, CallsFit
<1>2. /\ r \in CallRecords /\ r.at = step /\ r.kind = call[c].kind /\ r.folder = call[c].folder
      /\ r.source = call[c].source /\ r.stamp = call[c].stamp /\ r.base = call[c].base
      /\ r.seen = call[c].seen /\ r.published = call[c].published /\ r.end = call[c].end
      /\ r.late = call[c].late /\ r.over = call[c].over /\ r.blind = call[c].blind
  BY <1>1, GoneTo DEF Before
<1>3. call' = [call EXCEPT ![c] = r]
  BY DEF Goes
<1> HIDE DEF r
<1>4. Moves(c, r)
  BY <1>2, <1>3, QuietMeddling DEF Moves
<1>5. StepsFit(r)
  BY <1>1, <1>2 DEF CallFits, StepsFit, Before, After, Ended
<1>6. SourceFits(r, inode)
  BY <1>1, <1>2 DEF CallFits, SourceFits
<1>7. UndisturbedFits(c, r, place, leaf, onDisk, inode)
  <2>1. r.end = None /\ r.at \notin {"check", "inspect"}
    BY <1>1, <1>2 DEF CallFits, StepsFit, Ended
  <2>2. ASSUME ~r.late, r.at \in {"commit", "publish"}, r.source # None
        PROVE  place = r.folder /\ leaf[place] = r.source /\ r.base = inode[r.source].text
    BY <1>1, <1>2, <2>2 DEF CallFits, SourceFits, UndisturbedFits, SourceUnchanged
  <2> QED BY <2>1, <2>2 DEF UndisturbedFits, Confirmed, None
<1> QED BY <1>4, <1>5, <1>6, <1>7, MoveKeeps DEF CallFits

LEMMA CheckKeeps ==
  ASSUME FilesInv, NEW c \in Mutations, Verify(c) \/ CheckSource(c) \/ CheckTemp(c)
  PROVE  FilesInv'
<1>1. CASE Verify(c)
  BY <1>1, GoKeeps, FailKeeps, QuietMeddling DEF Verify, At, Ended
<1>2. CASE CheckSource(c)
  BY <1>2, GoKeeps, FailKeeps, QuietMeddling DEF CheckSource, At, Ended
<1>3. CASE CheckTemp(c)
  BY <1>3, GoKeeps, FailKeeps, QuietMeddling DEF CheckTemp, At, Ended
<1> QED BY <1>1, <1>2, <1>3

LEMMA LookKeeps ==
  ASSUME FilesInv, NEW c \in Mutations, Look(c)
  PROVE  FilesInv'
<1> DEFINE found == leaf[call[c].folder]
           r == [call[c] EXCEPT !.source = found, !.at = IF found = None THEN "prepare" ELSE "read"]
<1>1. /\ call[c] \in CallRecords /\ CallFits(c, call[c], place, leaf, onDisk, inode)
      /\ call[c].at = "look"
  BY DEF FilesInv, FilesTypeOK, CallsFit, Look, At
<1>2. CASE found = Odd \/ (found = None /\ call[c].kind = "edit") \/ (found # None /\ call[c].kind = "write")
  BY <1>1, <1>2, FailKeeps, QuietMeddling DEF Look, Ended
<1>3. CASE ~(found = Odd \/ (found = None /\ call[c].kind = "edit") \/ (found # None /\ call[c].kind = "write"))
  <2>1. call[c].folder \in Folders /\ found \in Inodes \cup {None}
    <3>1. PICK k \in Nat :
            /\ \A d \in Folders : leaf[d] = Unmade <=> d > k
            /\ k <= meddling + 1 /\ call[c].folder <= k
      BY DEF FilesInv, FoldersGrow
    <3>2. call[c].folder \in Nat /\ 0 < call[c].folder
      BY <1>1 DEF CallFits, StepsFit, CallRecords, Before
    <3>3. \A m, f \in Nat : m <= MaxMeddling /\ f <= k /\ k <= m + 1 /\ 0 < f =>
            f \in 1..(MaxMeddling + 1) /\ ~(f > k)
      BY FilesAssumption
    <3>4. meddling \in Nat /\ meddling <= MaxMeddling
      BY FilesAssumption DEF FilesInv, FilesTypeOK
    <3>5. call[c].folder \in Folders /\ found # Unmade
      BY <3>1, <3>2, <3>3, <3>4 DEF Folders
    <3> QED BY <1>3, <3>5 DEF FilesInv, FilesTypeOK, Names
  <2>2. /\ r \in CallRecords /\ r.at = (IF found = None THEN "prepare" ELSE "read")
        /\ r.kind = call[c].kind /\ r.folder = call[c].folder
        /\ r.source = found /\ r.stamp = call[c].stamp /\ r.base = call[c].base
        /\ r.seen = call[c].seen /\ r.published = call[c].published /\ r.end = call[c].end
        /\ r.late = call[c].late /\ r.over = call[c].over /\ r.blind = call[c].blind
    BY <1>1, <2>1 DEF CallRecords, Before
  <2>3. call' = [call EXCEPT ![c] = r]
    BY <1>3 DEF Look
  <2> HIDE DEF r
  <2>4. Moves(c, r)
    BY <2>1, <2>2, <2>3, QuietMeddling DEF Moves, Look
  <2>5. call[c].kind \in {"write", "edit"} /\ (call[c].kind = "write" <=> found = None)
    BY <1>1, <1>3 DEF CallRecords
  <2>6. StepsFit(r)
    BY <1>1, <2>2, <2>5 DEF CallFits, StepsFit, Before, After, Ended
  <2>7. call[c].base = {}
    BY <1>1 DEF CallFits, StepsFit
  <2>8. SourceFits(r, inode)
    BY <1>1, <2>2, <2>7 DEF CallFits, SourceFits
  <2>9. UndisturbedFits(c, r, place, leaf, onDisk, inode)
    BY <1>1, <2>2 DEF CallFits, StepsFit, UndisturbedFits, Confirmed, None, Ended
  <2> QED BY <2>4, <2>6, <2>8, <2>9, MoveKeeps DEF CallFits
<1> QED BY <1>2, <1>3

LEMMA ReadKeeps ==
  ASSUME FilesInv, NEW c \in Mutations, Read(c)
  PROVE  FilesInv'
<1> DEFINE file == inode[call[c].source]
           r == [call[c] EXCEPT !.at = "prepare", !.stamp = file.stamp, !.base = file.text]
<1>1. /\ call[c] \in CallRecords /\ CallFits(c, call[c], place, leaf, onDisk, inode)
      /\ call[c].at = "read"
  BY DEF FilesInv, FilesTypeOK, CallsFit, Read, At
<1>2. CASE leaf[call[c].folder] # call[c].source
  BY <1>1, <1>2, FailKeeps, QuietMeddling DEF Read, Ended
<1>3. CASE leaf[call[c].folder] = call[c].source
  <2>1. call[c].source \in Inodes /\ call[c].kind = "edit"
    BY <1>1 DEF CallFits, StepsFit, CallRecords, Before
  <2>2. file.text \in SUBSET Inodes /\ file.stamp \in Nat
    BY <2>1 DEF FilesInv, FilesTypeOK, FileRecords
  <2>3. /\ r \in CallRecords /\ r.at = "prepare"
        /\ r.kind = call[c].kind /\ r.folder = call[c].folder
        /\ r.source = call[c].source /\ r.stamp = file.stamp /\ r.base = file.text
        /\ r.seen = call[c].seen /\ r.published = call[c].published /\ r.end = call[c].end
        /\ r.late = call[c].late /\ r.over = call[c].over /\ r.blind = call[c].blind
    BY <1>1, <2>2 DEF CallRecords, Before
  <2>4. call' = [call EXCEPT ![c] = r]
    BY <1>3 DEF Read
  <2> HIDE DEF r
  <2>5. Moves(c, r)
    BY <2>3, <2>4, QuietMeddling DEF Moves, Read
  <2>6. StepsFit(r)
    BY <1>1, <2>1, <2>3 DEF CallFits, StepsFit, Before, After, Ended
  <2>7. SourceFits(r, inode)
    BY <2>2, <2>3 DEF SourceFits
  <2>8. UndisturbedFits(c, r, place, leaf, onDisk, inode)
    BY <1>1, <2>3 DEF CallFits, StepsFit, UndisturbedFits, Confirmed, None, Ended
  <2> QED BY <2>5, <2>6, <2>7, <2>8, MoveKeeps DEF CallFits
<1> QED BY <1>2, <1>3

\* The last look at the path: what happens to the name from here on is told.
LEMMA CheckFolderKeeps ==
  ASSUME FilesInv, NEW c \in Mutations, CheckFolder(c)
  PROVE  FilesInv'
<1> DEFINE next == IF call[c].source = None THEN "commit" ELSE "check"
           r == [call[c] EXCEPT !.at = next, !.late = FALSE]
<1>1. /\ call[c] \in CallRecords /\ CallFits(c, call[c], place, leaf, onDisk, inode)
      /\ call[c].at = "folder"
  BY DEF FilesInv, FilesTypeOK, CallsFit, CheckFolder, At
<1>2. CASE place # call[c].folder
  BY <1>1, <1>2, FailKeeps, QuietMeddling DEF CheckFolder, Ended
<1>3. CASE place = call[c].folder
  <2>1. /\ r \in CallRecords /\ r.at = next /\ ~r.late
        /\ r.kind = call[c].kind /\ r.folder = call[c].folder
        /\ r.source = call[c].source /\ r.stamp = call[c].stamp /\ r.base = call[c].base
        /\ r.seen = call[c].seen /\ r.published = call[c].published /\ r.end = call[c].end
        /\ r.over = call[c].over /\ r.blind = call[c].blind
    BY <1>1 DEF CallRecords, Before
  <2>2. call' = [call EXCEPT ![c] = r]
    BY <1>3 DEF CheckFolder
  <2> HIDE DEF r
  <2>3. Moves(c, r)
    BY <2>1, <2>2, QuietMeddling DEF Moves, CheckFolder
  <2>4. StepsFit(r)
    BY <1>1, <2>1 DEF CallFits, StepsFit, Before, After, Ended
  <2>5. SourceFits(r, inode)
    BY <1>1, <2>1 DEF CallFits, SourceFits
  <2>6. UndisturbedFits(c, r, place, leaf, onDisk, inode)
    BY <1>1, <1>3, <2>1 DEF CallFits, StepsFit, UndisturbedFits, Confirmed, None, Ended
  <2> QED BY <2>3, <2>4, <2>5, <2>6, MoveKeeps DEF CallFits
<1> QED BY <1>2, <1>3

\* A success is said only of a name that leads to the whole text, in the directory that
\* was flushed.
LEMMA InspectKeeps ==
  ASSUME FilesInv, NEW c \in Mutations, Inspect(c)
  PROVE  FilesInv'
<1> DEFINE found == leaf[call[c].seen] = c /\ inode[c].text = NewText(c)
           end == IF found THEN "ok" ELSE None
           r == [call[c] EXCEPT !.at = "cleanup", !.end = end]
<1>1. /\ call[c] \in CallRecords /\ CallFits(c, call[c], place, leaf, onDisk, inode)
      /\ call[c].at = "inspect"
  BY DEF FilesInv, FilesTypeOK, CallsFit, Inspect, At
<1>2. /\ r \in CallRecords /\ r.at = "cleanup" /\ r.end = end
      /\ r.kind = call[c].kind /\ r.folder = call[c].folder
      /\ r.source = call[c].source /\ r.stamp = call[c].stamp /\ r.base = call[c].base
      /\ r.seen = call[c].seen /\ r.published = call[c].published
      /\ r.late = call[c].late /\ r.over = call[c].over /\ r.blind = call[c].blind
  BY <1>1 DEF CallRecords, Ended
<1>3. call' = [call EXCEPT ![c] = r]
  BY DEF Inspect
<1>4. end \in {"ok", None}
  OBVIOUS
<1>5. end = "ok" => leaf[call[c].seen] = c /\ inode[c].text = NewText(c)
  BY DEF None
<1> HIDE DEF r, end
<1>6. Moves(c, r)
  BY <1>2, <1>3, QuietMeddling DEF Moves, Inspect
<1>7. StepsFit(r)
  BY <1>1, <1>2, <1>4 DEF CallFits, StepsFit, Before, After, Ended, None
<1>8. SourceFits(r, inode)
  BY <1>1, <1>2 DEF CallFits, SourceFits
<1>9. UndisturbedFits(c, r, place, leaf, onDisk, inode)
  BY <1>1, <1>2, <1>5 DEF CallFits, UndisturbedFits, Confirmed, NewText, TextOf
<1> QED BY <1>6, <1>7, <1>8, <1>9, MoveKeeps DEF CallFits

LEMMA CleanupKeeps ==
  ASSUME FilesInv, NEW c \in Mutations, Cleanup(c)
  PROVE  FilesInv'
<1>1. /\ call[c] \in CallRecords /\ CallFits(c, call[c], place, leaf, onDisk, inode)
      /\ call[c].at = "cleanup"
  BY DEF FilesInv, FilesTypeOK, CallsFit, Cleanup, At
<1>2. PICK temp \in {None, "own", "swapped", "gone"}, end \in {"ok", ErrorOf(c)} :
        /\ call' = [call EXCEPT ![c] = [call[c] EXCEPT !.at = "done", !.temp = temp, !.end = end]]
        /\ end = "ok" => call[c].end = "ok"
  <2>1. CASE Quietly /\ call' = [call EXCEPT ![c].at = "done", ![c].temp = None,
                                             ![c].end = IF @ = "ok" THEN "ok" ELSE ErrorOf(c)]
    <3> DEFINE e == IF call[c].end = "ok" THEN "ok" ELSE ErrorOf(c)
    <3>1. call' = [call EXCEPT ![c] = [call[c] EXCEPT !.at = "done", !.temp = None, !.end = e]]
      BY <2>1, <1>1 DEF CallRecords, FilesInv, FilesTypeOK
    <3>2. e \in {"ok", ErrorOf(c)} /\ (e = "ok" => call[c].end = "ok")
      BY DEF ErrorOf
    <3> QED BY <3>1, <3>2
  <2>2. CASE Meddle /\ call' = [call EXCEPT ![c].at = "done", ![c].end = ErrorOf(c)]
    <3>1. call' = [call EXCEPT ![c] =
                     [call[c] EXCEPT !.at = "done", !.temp = call[c].temp, !.end = ErrorOf(c)]]
      BY <2>2, <1>1 DEF CallRecords, FilesInv, FilesTypeOK
    <3>2. call[c].temp \in {None, "own", "swapped", "gone"} /\ ErrorOf(c) # "ok"
      BY <1>1 DEF CallRecords, ErrorOf
    <3> QED BY <3>1, <3>2
  <2> QED BY <2>1, <2>2 DEF Cleanup
<1> DEFINE r == [call[c] EXCEPT !.at = "done", !.temp = temp, !.end = end]
<1>3. /\ r \in CallRecords /\ r.at = "done" /\ r.end = end
      /\ r.kind = call[c].kind /\ r.folder = call[c].folder
      /\ r.source = call[c].source /\ r.stamp = call[c].stamp /\ r.base = call[c].base
      /\ r.seen = call[c].seen /\ r.published = call[c].published
      /\ r.late = call[c].late /\ r.over = call[c].over /\ r.blind = call[c].blind
  BY <1>1 DEF CallRecords, Ended, ErrorOf
<1>4. call' = [call EXCEPT ![c] = r]
  BY <1>2
<1> HIDE DEF r
<1>5. Moves(c, r)
  BY <1>3, <1>4, QuietMeddling DEF Moves, Cleanup
<1>6. StepsFit(r)
  BY <1>1, <1>2, <1>3 DEF CallFits, StepsFit, Before, After, Ended, None, ErrorOf
<1>7. SourceFits(r, inode)
  BY <1>1, <1>3 DEF CallFits, SourceFits
<1>8. UndisturbedFits(c, r, place, leaf, onDisk, inode)
  BY <1>1, <1>2, <1>3 DEF CallFits, UndisturbedFits, Confirmed, TextOf
<1> QED BY <1>5, <1>6, <1>7, <1>8, MoveKeeps DEF CallFits

-----------------------------------------------------------------------------
(* Steps that change the files. *)

\* What a step leaves of a call that it does not move: it may have told it.
Kept(o) == SameCall(call[o], call'[o])

\* What the invariant says of each call follows for one that is only told, from how the step
\* left the files that call relies on.
LEMMA KeptFits ==
  ASSUME FilesInv, NEW o \in Mutations, Kept(o), inode' \in [Inodes -> FileRecords],
         call[o].source # None =>
           \/ inode'[call[o].source] = inode[call[o].source]
           \/ /\ inode[call[o].source].text \subseteq inode'[call[o].source].text
              /\ inode[call[o].source].stamp < inode'[call[o].source].stamp,
         \/ call'[o].late
         \/ /\ place' = place /\ leaf'[place] = leaf[place]
            /\ onDisk'[place] \in {onDisk[place], leaf[place]}
            /\ call[o].source # None =>
                 inode'[call[o].source].text = inode[call[o].source].text
            /\ inode'[o].text = inode[o].text \/ ~call[o].published
         \/ call[o].at \in Before \ {"check", "commit", "publish"}
         \/ call[o].at \in Before \ {"commit", "publish"} /\ place' = place
         \/ call[o].at \in {"unlink", "sync"} \cup Ended /\ ~Confirmed(call[o])
         \/ place = 0
  PROVE  CallFits(o, call'[o], place', leaf', onDisk', inode')
<1>1. /\ call[o] \in CallRecords /\ call'[o] \in CallRecords
      /\ CallFits(o, call[o], place, leaf, onDisk, inode)
  BY DEF FilesInv, FilesTypeOK, CallsFit, Kept, SameCall
<1>2. StepsFit(call'[o])
  BY <1>1, SameFits DEF Kept, CallFits
<1>3. SourceFits(call'[o], inode')
  <2>1. ASSUME call[o].source # None
        PROVE  /\ inode[call[o].source].stamp \in Nat /\ inode'[call[o].source].stamp \in Nat
               /\ call[o].stamp \in Nat
    BY <1>1, <2>1 DEF FilesInv, FilesTypeOK, CallRecords, FileRecords
  <2> QED BY <1>1, <2>1 DEF SourceFits, CallFits, Kept, SameCall
<1>4. UndisturbedFits(o, call'[o], place', leaf', onDisk', inode')
  <2>1. /\ call'[o].source = call[o].source /\ call'[o].folder = call[o].folder
        /\ call'[o].seen = call[o].seen /\ call'[o].base = call[o].base /\ call'[o].at = call[o].at
        /\ call'[o].end = call[o].end /\ TextOf(o, call'[o]) = TextOf(o, call[o])
        /\ call'[o].late \/ call'[o].late = call[o].late
    BY DEF Kept, SameCall, TextOf
  <2>2. CASE call'[o].late
    BY <2>2 DEF UndisturbedFits
  <2>3. CASE /\ place' = place /\ leaf'[place] = leaf[place]
             /\ onDisk'[place] \in {onDisk[place], leaf[place]}
             /\ call[o].source # None => inode'[call[o].source].text = inode[call[o].source].text
             /\ inode'[o].text = inode[o].text \/ ~call[o].published
    <3> SUFFICES ASSUME ~call'[o].late, ~call[o].late
                 PROVE  UndisturbedFits(o, call'[o], place', leaf', onDisk', inode')
      BY <2>1, <2>2 DEF UndisturbedFits
    <3>1. call[o].at = "check" => place' = call[o].folder
      BY <1>1, <2>3 DEF CallFits, UndisturbedFits
    <3>2. call[o].at \in {"commit", "publish"} /\ call[o].source # None =>
            /\ place' = call[o].folder /\ leaf'[place'] = call[o].source
            /\ call[o].base = inode'[call[o].source].text
      BY <1>1, <2>3 DEF CallFits, UndisturbedFits
    <3>3. call[o].at = "inspect" \/ Confirmed(call[o]) =>
            0 < place' /\ place' = call[o].seen /\ onDisk'[place'] = leaf'[place']
      BY <1>1, <2>3 DEF CallFits, UndisturbedFits
    <3>4. Confirmed(call[o]) => leaf'[place'] = o /\ inode'[o].text = TextOf(o, call[o])
      BY <1>1, <2>3 DEF CallFits, StepsFit, UndisturbedFits, Confirmed
    <3> QED BY <2>1, <3>1, <3>2, <3>3, <3>4 DEF UndisturbedFits, Confirmed
  <2>4. CASE call[o].at \in Before \ {"check", "commit", "publish"}
    BY <1>1, <2>1, <2>4 DEF CallFits, StepsFit, UndisturbedFits, Confirmed, Before, Ended, None
  <2>5. CASE call[o].at \in Before \ {"commit", "publish"} /\ place' = place
    BY <1>1, <2>1, <2>5 DEF CallFits, StepsFit, UndisturbedFits, Confirmed, Before, Ended, None
  <2>6. CASE call[o].at \in {"unlink", "sync"} \cup Ended /\ ~Confirmed(call[o])
    BY <2>1, <2>6 DEF UndisturbedFits, Confirmed, Ended
  <2>7. CASE place = 0
    <3>1. call[o].at \in {"check", "commit", "publish"} => call[o].folder \in Nat /\ 0 < call[o].folder
      BY <1>1 DEF CallFits, StepsFit, Before, CallRecords
    <3> QED BY <1>1, <2>1, <2>7, <3>1 DEF CallFits, UndisturbedFits, Confirmed
  <2> QED BY <2>2, <2>3, <2>4, <2>5, <2>6, <2>7
<1> QED BY <1>2, <1>3, <1>4 DEF CallFits

\* No directory is made, though the path may lead to one no longer.
LEMMA FoldersStay ==
  ASSUME FilesInv, meddling' \in Nat, meddling <= meddling',
         place' = place \/ (place' = 0 /\ meddling < meddling'),
         \A d \in Folders : (leaf'[d] = Unmade <=> leaf[d] = Unmade)
                            /\ (onDisk'[d] = Unmade <=> onDisk[d] = Unmade),
         \A o \in Mutations : /\ call'[o].folder \in {call[o].folder, place}
                              /\ call'[o].seen \in {call[o].seen, place}
  PROVE  FoldersGrow'
<1>1. PICK k \in Nat :
        /\ \A d \in Folders : (leaf[d] = Unmade <=> d > k) /\ (onDisk[d] = Unmade <=> d > k)
        /\ place <= k /\ k <= meddling + 1 /\ (place = 0 => k <= meddling)
        /\ \A o \in Mutations : call[o].folder <= k /\ call[o].seen <= k
  BY DEF FilesInv, FoldersGrow
<1>2. \A o \in Mutations : call'[o].folder <= k /\ call'[o].seen <= k
  BY <1>1
<1>3. place' <= k /\ k <= meddling' + 1 /\ (place' = 0 => k <= meddling')
  <2>1. \A m, n \in Nat : m <= n =>
          /\ k <= m + 1 => k <= n + 1
          /\ k <= m => k <= n
          /\ m < n => (k <= m + 1 => k <= n)
    OBVIOUS
  <2>2. meddling \in Nat /\ place \in Nat /\ 0 <= k
    BY FilesAssumption DEF FilesInv, FilesTypeOK
  <2> QED BY <1>1, <2>1, <2>2
<1> QED BY <1>1, <1>2, <1>3 DEF FoldersGrow

\* A directory is made: the next one.
LEMMA FoldersByOne ==
  ASSUME FilesInv, meddling' \in Nat, meddling' <= MaxMeddling, meddling <= meddling',
         place = 0 \/ meddling < meddling', place' = MadeSoFar + 1,
         NEW l \in Names \ {Unmade},
         leaf' = [leaf EXCEPT ![place'] = l], onDisk' = [onDisk EXCEPT ![place'] = l],
         \A o \in Mutations : /\ call'[o].folder \in {call[o].folder, place, place'}
                              /\ call'[o].seen \in {call[o].seen, place}
  PROVE  /\ FoldersGrow' /\ place' \in Folders /\ place' \in Nat /\ 0 < place'
         /\ leaf[place'] = Unmade /\ onDisk[place'] = Unmade
         /\ \A o \in Mutations : call[o].folder < place'
<1>1. PICK k \in Nat :
        /\ \A d \in Folders : (leaf[d] = Unmade <=> d > k) /\ (onDisk[d] = Unmade <=> d > k)
        /\ place <= k /\ k <= meddling + 1 /\ (place = 0 => k <= meddling)
        /\ \A o \in Mutations : call[o].folder <= k /\ call[o].seen <= k
  BY DEF FilesInv, FoldersGrow
<1>2. k <= meddling' /\ k <= MaxMeddling
  <2>1. \A m, n \in Nat : m <= n /\ n <= MaxMeddling =>
          /\ k <= m => k <= n /\ k <= MaxMeddling
          /\ m < n => (k <= m + 1 => k <= n /\ k <= MaxMeddling)
    BY FilesAssumption
  <2>2. meddling \in Nat
    BY FilesAssumption DEF FilesInv, FilesTypeOK
  <2> QED BY <1>1, <2>1, <2>2
<1>3. place' = k + 1 /\ k + 1 \in Folders
  BY <1>1, <1>2, NextFolder DEF FilesInv
<1>4. \A d \in Folders : (leaf'[d] = Unmade <=> d > k + 1) /\ (onDisk'[d] = Unmade <=> d > k + 1)
  <2>1. \A d \in Folders : d > k + 1 <=> d > k /\ d # k + 1
    BY FilesAssumption DEF Folders
  <2>2. /\ leaf \in [Folders -> Names] /\ onDisk \in [Folders -> Names]
    BY DEF FilesInv, FilesTypeOK
  <2> QED BY <1>1, <1>3, <2>1, <2>2
<1>5. \A o \in Mutations : call'[o].folder <= k + 1 /\ call'[o].seen <= k + 1 /\ call[o].folder < k + 1
  <2>1. \A o \in Mutations : call[o].folder \in Nat /\ call[o].seen \in Nat
    BY DEF FilesInv, FilesTypeOK, CallRecords
  <2>2. place \in Nat
    BY DEF FilesInv, FilesTypeOK
  <2> QED BY <1>1, <1>3, <2>1, <2>2
<1>6. PICK m \in Nat : m = k + 1 /\ m # 0 /\ 0 < m /\ k < m
  <2>1. k + 1 \in Nat /\ k + 1 # 0 /\ 0 < k + 1 /\ k < k + 1
    OBVIOUS
  <2> QED BY <2>1
<1>7. m <= meddling' + 1
  <2>1. \A n \in Nat : k <= n => k + 1 <= n + 1
    OBVIOUS
  <2> QED BY <1>2, <1>6, <2>1
<1>8. FoldersGrow'
  <2>1. place' = m /\ place' # 0
    BY <1>3, <1>6
  <2>2. \A d \in Folders : (leaf'[d] = Unmade <=> d > m) /\ (onDisk'[d] = Unmade <=> d > m)
    BY <1>4, <1>6
  <2>3. \A o \in Mutations : call'[o].folder <= m /\ call'[o].seen <= m
    BY <1>5, <1>6
  <2>4. place' <= m /\ (place' = 0 => m <= meddling')
    BY <2>1
  <2> HIDE <1>6
  <2> QED BY <1>7, <2>2, <2>3, <2>4 DEF FoldersGrow
<1> QED BY <1>1, <1>3, <1>5, <1>6, <1>8

LEMMA TellKeepsCalls ==
  ASSUME FilesInv, NEW who \in SUBSET Mutations, call' = Tell(call, who)
  PROVE  /\ call' \in [Mutations -> CallRecords]
         /\ \A o \in Mutations : Kept(o)
         /\ \A o \in who : call'[o].late
         /\ \A o \in Mutations : /\ call'[o].source = call[o].source
                                 /\ call'[o].published = call[o].published
                                 /\ call'[o].folder = call[o].folder /\ call'[o].seen = call[o].seen
  BY TellFacts DEF Kept, SameCall, FilesInv, FilesTypeOK

\* The directory that the path leads to was made.
LEMMA PlaceIsMade ==
  ASSUME FilesInv, place # 0
  PROVE  place \in Folders /\ leaf[place] # Unmade /\ onDisk[place] # Unmade
<1>1. PICK k \in Nat :
        /\ \A d \in Folders : (leaf[d] = Unmade <=> d > k) /\ (onDisk[d] = Unmade <=> d > k)
        /\ place <= k /\ k <= meddling + 1
  BY DEF FilesInv, FoldersGrow
<1>2. \A m, p \in Nat : m <= MaxMeddling /\ p # 0 /\ p <= k /\ k <= m + 1 =>
        p \in 1..(MaxMeddling + 1) /\ ~(p > k)
  BY FilesAssumption
<1>3. meddling \in Nat /\ meddling <= MaxMeddling /\ place \in Nat
  BY FilesAssumption DEF FilesInv, FilesTypeOK
<1> QED BY <1>1, <1>2, <1>3 DEF Folders

LEMMA MeddlingGrows ==
  ASSUME FilesInv, Meddle
  PROVE  /\ meddling' = meddling + 1 /\ meddling < MaxMeddling /\ meddling < meddling'
         /\ meddling <= meddling' /\ meddling' \in Nat /\ meddling' \in 0..MaxMeddling
         /\ meddling' <= MaxMeddling
  BY FilesAssumption DEF FilesInv, FilesTypeOK, Meddle

\* What a change by another program makes of the text it is written into.
LEMMA WrittenInto ==
  ASSUME NEW file \in FileRecords, Change \in Inodes
  PROVE  /\ Written(file) \in FileRecords /\ Written(file).text = file.text \cup {Change}
         /\ file.stamp < Written(file).stamp
<1>1. /\ file.text \in SUBSET Inodes /\ file.stamp \in Nat
      /\ file.text \cup {Change} \in SUBSET Inodes /\ file.stamp + 1 \in Nat
      /\ file.stamp < file.stamp + 1
  BY DEF FileRecords
<1>2. \A x, y : LET new == [file EXCEPT !.text = x, !.stamp = y] IN
        /\ x \in SUBSET Inodes /\ y \in Nat => new \in FileRecords
        /\ new.text = x /\ new.stamp = y
  BY DEF FileRecords
<1> QED BY <1>1, <1>2 DEF Written

\* A link or a rename changes the status of a file and leaves its text.
LEMMA Restamped ==
  ASSUME NEW file \in FileRecords
  PROVE  LET new == [file EXCEPT !.stamp = file.stamp + 1] IN
         new \in FileRecords /\ new.text = file.text /\ file.stamp < new.stamp
<1>1. file.stamp + 1 \in Nat /\ file.stamp < file.stamp + 1
  BY DEF FileRecords
<1>2. \A y \in Nat : LET new == [file EXCEPT !.stamp = y] IN
        new \in FileRecords /\ new.text = file.text /\ new.stamp = y
  BY DEF FileRecords
<1> QED BY <1>1, <1>2

\* A change to the name is told to every call that is past its last look at it.
LEMMA NotTold ==
  ASSUME NEW r \in CallRecords, r.at \notin LeafSteps
  PROVE  r.at \in Before \ {"commit", "publish"} \/ r.at = "dead"
  BY DEF CallRecords, LeafSteps, Before, After, Ended

LEMMA WriteInPlaceKeeps ==
  ASSUME FilesInv, WriteInPlace
  PROVE  FilesInv'
<1> DEFINE f == leaf[place]
           who == {c \in Mutations : call[c].at \in LeafSteps}
<1>1. /\ place # 0 /\ f \in Inodes /\ Meddle /\ UNCHANGED <<place, leaf, onDisk>>
      /\ call' = Tell(call, who)
      /\ inode' = [inode EXCEPT ![f] = Written(@)]
  BY DEF WriteInPlace
<1>2. /\ Change \in Changes /\ Change \in Inodes /\ \A i \in Inodes : Change \notin inode[i].text
      /\ \A d \in Folders : leaf[d] # Change
  BY <1>1, ChangeIsNew DEF Meddle
<1>3. /\ call' \in [Mutations -> CallRecords] /\ \A o \in Mutations : Kept(o)
      /\ \A o \in who : call'[o].late
      /\ \A o \in Mutations : /\ call'[o].source = call[o].source
                              /\ call'[o].published = call[o].published
                              /\ call'[o].folder = call[o].folder /\ call'[o].seen = call[o].seen
  BY <1>1, TellKeepsCalls
<1>4. /\ inode' \in [Inodes -> FileRecords]
      /\ \A i \in Inodes : i # f => inode'[i] = inode[i]
      /\ inode'[f].text = inode[f].text \cup {Change} /\ inode[f].stamp < inode'[f].stamp
  <2>1. inode \in [Inodes -> FileRecords]
    BY DEF FilesInv, FilesTypeOK
  <2>2. /\ Written(inode[f]) \in FileRecords /\ inode[f].stamp < Written(inode[f]).stamp
        /\ Written(inode[f]).text = inode[f].text \cup {Change}
    BY <1>1, <1>2, <2>1, WrittenInto
  <2> HIDE DEF f
  <2> QED BY <1>1, <2>1, <2>2
<1>5. f # Change
  BY <1>1, <1>2, PlaceIsMade
<1> HIDE DEF f, who
<1>6. FilesTypeOK'
  BY <1>1, <1>3, <1>4, MeddlingGrows DEF FilesInv, FilesTypeOK
<1>7. FoldersGrow'
  BY <1>1, <1>3, MeddlingGrows, FoldersStay
<1>8. ChangesAreNew'
  <2>1. Cardinality(Made') <= meddling'
    <3>1. \A i \in Inodes : inode'[i].text \cap Changes \subseteq Made \cup {Change}
      BY <1>4 DEF Made
    <3> QED BY <1>1, <3>1, MadeByOne, MeddlingGrows
  <2>2. \A n \in Inodes : /\ n \in inode[n].text => n \in inode'[n].text
                          /\ n \in Changes => inode'[n].text = {} \/ n \in inode'[n].text
    <3>1. f \in Changes => f \in inode[f].text
      BY <1>1, PlaceIsMade DEF f, FilesInv, ChangesAreNew
    <3> QED BY <1>4, <3>1 DEF FilesInv, ChangesAreNew
  <2> QED BY <1>1, <1>3, <2>1, <2>2, FileNames DEF FilesInv, ChangesAreNew
<1>9. UnpublishedIsPrivate'
  BY <1>1, <1>3 DEF FilesInv, UnpublishedIsPrivate
<1>10. CallsFit'
  <2>1. ASSUME NEW o \in Mutations PROVE CallFits(o, call'[o], place', leaf', onDisk', inode')
    <3>1. call[o] \in CallRecords
      BY DEF FilesInv, FilesTypeOK
    <3>2. \/ inode'[call[o].source] = inode[call[o].source]
          \/ /\ inode[call[o].source].text \subseteq inode'[call[o].source].text
             /\ inode[call[o].source].stamp < inode'[call[o].source].stamp
          \/ call[o].source = None
      BY <1>4, <3>1 DEF CallRecords
    <3>3. CASE o \in who
      BY <1>3, <1>4, <3>2, <3>3, KeptFits
    <3>4. CASE o \notin who
      <4>1. call[o].at \in Before \ {"commit", "publish"} \/ call[o].at = "dead"
        BY <3>1, <3>4, NotTold DEF who
      <4>2. call[o].at = "dead" => ~Confirmed(call[o]) /\ call[o].at \in Ended
        BY DEF Confirmed, Ended
      <4> QED BY <1>1, <1>3, <1>4, <3>2, <4>1, <4>2, KeptFits
    <3> QED BY <3>3, <3>4
  <2> QED BY <2>1 DEF CallsFit
<1> QED BY <1>6, <1>7, <1>8, <1>9, <1>10 DEF FilesInv

\* A file that another program makes holds its own change, and nothing led to it.
ChangedFile == [text |-> {Change}, stamp |-> 0, flushed |-> TRUE]

LEMMA NewFile ==
  ASSUME FilesInv, Meddle, inode' = [inode EXCEPT ![Change] = ChangedFile]
  PROVE  /\ Change \in Changes /\ Change \in Inodes /\ Change \notin Mutations /\ Change \in Names \ {Unmade}
         /\ inode' \in [Inodes -> FileRecords]
         /\ \A i \in Inodes : i # Change => inode'[i] = inode[i]
         /\ inode'[Change].text = {Change}
         /\ \A d \in Folders : leaf[d] # Change /\ onDisk[d] # Change
         /\ \A c \in Mutations : call[c].source # Change
         /\ Cardinality(Made') <= meddling'
         /\ \A n \in Inodes : /\ n \in inode[n].text => n \in inode'[n].text
                              /\ n \in Changes => inode'[n].text = {} \/ n \in inode'[n].text
<1>1. /\ Change \in Changes /\ Change \in Inodes /\ Change \notin Mutations /\ Change \in Names
      /\ \A i \in Inodes : Change \notin inode[i].text
      /\ inode[Change].text = {}
      /\ \A d \in Folders : leaf[d] # Change /\ onDisk[d] # Change
      /\ \A c \in Mutations : call[c].source # Change
  BY ChangeIsNew DEF Meddle
<1>2. inode \in [Inodes -> FileRecords]
  BY DEF FilesInv, FilesTypeOK
<1>3. ChangedFile \in FileRecords /\ ChangedFile.text = {Change}
  BY <1>1 DEF FileRecords, ChangedFile
<1>4. /\ inode' \in [Inodes -> FileRecords]
      /\ \A i \in Inodes : i # Change => inode'[i] = inode[i]
      /\ inode'[Change].text = {Change}
  BY <1>1, <1>2, <1>3
<1>5. Cardinality(Made') <= meddling'
  <2>1. \A i \in Inodes : inode'[i].text \cap Changes \subseteq Made \cup {Change}
    BY <1>4 DEF Made
  <2> QED BY <2>1, MadeByOne, MeddlingGrows
<1>6. \A n \in Inodes : /\ n \in inode[n].text => n \in inode'[n].text
                        /\ n \in Changes => inode'[n].text = {} \/ n \in inode'[n].text
  BY <1>1, <1>4 DEF FilesInv, ChangesAreNew
<1> QED BY <1>1, <1>4, <1>5, <1>6, FileNames

LEMMA ReplaceFileKeeps ==
  ASSUME FilesInv, ReplaceFile
  PROVE  FilesInv'
<1> DEFINE who == {c \in Mutations : call[c].at \in LeafSteps}
<1>1. /\ place # 0 /\ Meddle /\ UNCHANGED place /\ call' = Tell(call, who)
      /\ inode' = [inode EXCEPT ![Change] = ChangedFile]
  BY DEF ReplaceFile, ChangedFile
<1>2. PICK what \in {None, Odd, Change} :
        leaf' = [leaf EXCEPT ![place] = what] /\ onDisk' = [onDisk EXCEPT ![place] = what]
  BY DEF ReplaceFile
<1>3. /\ call' \in [Mutations -> CallRecords] /\ \A o \in Mutations : Kept(o)
      /\ \A o \in who : call'[o].late
      /\ \A o \in Mutations : /\ call'[o].source = call[o].source
                              /\ call'[o].published = call[o].published
                              /\ call'[o].folder = call[o].folder /\ call'[o].seen = call[o].seen
  BY <1>1, TellKeepsCalls
<1>4. /\ Change \in Changes /\ Change \in Inodes /\ Change \notin Mutations /\ Change \in Names \ {Unmade}
      /\ inode' \in [Inodes -> FileRecords]
      /\ \A i \in Inodes : i # Change => inode'[i] = inode[i]
      /\ inode'[Change].text = {Change}
      /\ \A d \in Folders : leaf[d] # Change /\ onDisk[d] # Change
      /\ \A c \in Mutations : call[c].source # Change
      /\ Cardinality(Made') <= meddling'
      /\ \A n \in Inodes : /\ n \in inode[n].text => n \in inode'[n].text
                           /\ n \in Changes => inode'[n].text = {} \/ n \in inode'[n].text
  BY <1>1, NewFile
<1>5. what \in Names \ {Unmade} /\ what \notin Mutations /\ (what \in Changes => what = Change)
  <2>1. None \notin Mutations /\ Odd \notin Mutations /\ None \notin Changes /\ Odd \notin Changes
    BY FileNames
  <2> QED BY <1>2, <1>4, <2>1, FileNames DEF Names
<1>6. /\ leaf' \in [Folders -> Names] /\ onDisk' \in [Folders -> Names]
      /\ \A d \in Folders : /\ leaf'[d] = IF d = place THEN what ELSE leaf[d]
                            /\ onDisk'[d] = IF d = place THEN what ELSE onDisk[d]
  BY <1>1, <1>2, <1>5, PlaceIsMade DEF FilesInv, FilesTypeOK
<1> HIDE DEF who
<1>7. FilesTypeOK'
  BY <1>1, <1>3, <1>4, <1>6, MeddlingGrows DEF FilesInv, FilesTypeOK
<1>8. FoldersGrow'
  <2>1. \A d \in Folders : (leaf'[d] = Unmade <=> leaf[d] = Unmade)
                           /\ (onDisk'[d] = Unmade <=> onDisk[d] = Unmade)
    BY <1>1, <1>5, <1>6, PlaceIsMade
  <2> QED BY <1>1, <1>3, <2>1, MeddlingGrows, FoldersStay
<1>9. ChangesAreNew'
  <2>1. \A d \in Folders : /\ leaf'[d] \in Changes => leaf'[d] \in inode'[leaf'[d]].text
                           /\ onDisk'[d] \in Changes => onDisk'[d] \in inode'[onDisk'[d]].text
    BY <1>4, <1>5, <1>6, FileNames DEF FilesInv, ChangesAreNew
  <2>2. \A n \in Changes : inode'[n].text = {} \/ n \in inode'[n].text
    BY <1>4, FileNames
  <2>3. \A o \in Mutations : call'[o].source \in Changes => call'[o].source \in inode'[call'[o].source].text
    BY <1>3, <1>4, FileNames DEF FilesInv, ChangesAreNew
  <2> QED BY <1>4, <2>1, <2>2, <2>3 DEF ChangesAreNew
<1>10. UnpublishedIsPrivate'
  BY <1>3, <1>5, <1>6 DEF FilesInv, UnpublishedIsPrivate
<1>11. CallsFit'
  <2>1. ASSUME NEW o \in Mutations PROVE CallFits(o, call'[o], place', leaf', onDisk', inode')
    <3>1. call[o] \in CallRecords
      BY DEF FilesInv, FilesTypeOK
    <3>2. inode'[call[o].source] = inode[call[o].source] \/ call[o].source = None
      BY <1>4, <3>1 DEF CallRecords
    <3>3. CASE o \in who
      BY <1>3, <1>4, <3>2, <3>3, KeptFits
    <3>4. CASE o \notin who
      <4>1. call[o].at \in Before \ {"commit", "publish"} \/ call[o].at = "dead"
        BY <3>1, <3>4, NotTold DEF who
      <4>2. call[o].at = "dead" => ~Confirmed(call[o]) /\ call[o].at \in Ended
        BY DEF Confirmed, Ended
      <4> QED BY <1>1, <1>3, <1>4, <3>2, <4>1, <4>2, KeptFits
    <3> QED BY <3>3, <3>4
  <2> QED BY <2>1 DEF CallsFit
<1> QED BY <1>7, <1>8, <1>9, <1>10, <1>11 DEF FilesInv

LEMMA ReplaceFolderKeeps ==
  ASSUME FilesInv, ReplaceFolder
  PROVE  FilesInv'
<1> DEFINE who == {c \in Mutations : call[c].at \in FolderSteps}
<1>1. place # 0 /\ Meddle /\ call' = Tell(call, who)
  BY DEF ReplaceFolder
<1>2. /\ call' \in [Mutations -> CallRecords] /\ \A o \in Mutations : Kept(o)
      /\ \A o \in who : call'[o].late
      /\ \A o \in Mutations : /\ call'[o].source = call[o].source
                              /\ call'[o].published = call[o].published
                              /\ call'[o].folder = call[o].folder /\ call'[o].seen = call[o].seen
  BY <1>1, TellKeepsCalls
<1>3. ASSUME NEW o \in Mutations, o \notin who
      PROVE  \/ call[o].at \in Before \ {"check", "commit", "publish"}
             \/ call[o].at \in Ended /\ ~Confirmed(call[o])
  <2>1. call[o] \in CallRecords /\ call[o].at \notin LeafSteps /\ call[o].at # "check"
    BY <1>3 DEF FilesInv, FilesTypeOK, FolderSteps
  <2> QED BY <2>1, NotTold DEF Confirmed, Ended
<1> HIDE DEF who
<1>4. CASE place' = 0 /\ UNCHANGED <<leaf, onDisk, inode>>
  <2>1. FilesTypeOK'
    BY <1>1, <1>2, <1>4, MeddlingGrows DEF FilesInv, FilesTypeOK
  <2>2. FoldersGrow'
    BY <1>1, <1>2, <1>4, MeddlingGrows, FoldersStay
  <2>3. ChangesAreNew'
    <3>1. Cardinality(Made') <= meddling'
      BY <1>1, <1>4, MeddlingGrows, MadeStays DEF Made
    <3> QED BY <1>2, <1>4, <3>1 DEF FilesInv, ChangesAreNew
  <2>4. UnpublishedIsPrivate'
    BY <1>2, <1>4 DEF FilesInv, UnpublishedIsPrivate
  <2>5. CallsFit'
    <3>1. ASSUME NEW o \in Mutations PROVE CallFits(o, call'[o], place', leaf', onDisk', inode')
      <4>1. inode' \in [Inodes -> FileRecords] /\ inode' = inode
        BY <1>4, <2>1 DEF FilesTypeOK
      <4> QED BY <1>2, <1>3, <4>1, KeptFits
    <3> QED BY <3>1 DEF CallsFit
  <2> QED BY <2>1, <2>2, <2>3, <2>4, <2>5 DEF FilesInv
<1>5. CASE /\ place' = MadeSoFar + 1
           /\ \E what \in {None, Change} :
                leaf' = [leaf EXCEPT ![place'] = what] /\ onDisk' = [onDisk EXCEPT ![place'] = what]
           /\ inode' = [inode EXCEPT ![Change] = ChangedFile]
  <2>1. PICK what \in {None, Change} :
          leaf' = [leaf EXCEPT ![place'] = what] /\ onDisk' = [onDisk EXCEPT ![place'] = what]
    BY <1>5
  <2>2. /\ Change \in Changes /\ Change \in Inodes /\ Change \notin Mutations /\ Change \in Names \ {Unmade}
        /\ inode' \in [Inodes -> FileRecords]
        /\ \A i \in Inodes : i # Change => inode'[i] = inode[i]
        /\ inode'[Change].text = {Change}
        /\ \A c \in Mutations : call[c].source # Change
        /\ Cardinality(Made') <= meddling'
        /\ \A n \in Inodes : /\ n \in inode[n].text => n \in inode'[n].text
                             /\ n \in Changes => inode'[n].text = {} \/ n \in inode'[n].text
    BY <1>1, <1>5, NewFile
  <2>3. what \in Names \ {Unmade} /\ what \notin Mutations /\ (what \in Changes => what = Change)
    <3>1. None \notin Mutations /\ None \notin Changes
      BY FileNames
    <3> QED BY <2>1, <2>2, <3>1, FileNames DEF Names
  <2>4. FoldersGrow' /\ place' \in Folders /\ place' \in Nat
    BY <1>1, <1>2, <1>5, <2>1, <2>3, MeddlingGrows, FoldersByOne
  <2>5. /\ leaf' \in [Folders -> Names] /\ onDisk' \in [Folders -> Names]
        /\ \A d \in Folders : /\ leaf'[d] = IF d = place' THEN what ELSE leaf[d]
                              /\ onDisk'[d] = IF d = place' THEN what ELSE onDisk[d]
    BY <2>1, <2>3, <2>4 DEF FilesInv, FilesTypeOK
  <2>6. FilesTypeOK'
    BY <1>1, <1>2, <2>2, <2>4, <2>5, MeddlingGrows DEF FilesInv, FilesTypeOK
  <2>7. ChangesAreNew'
    <3>0. \A d \in Folders : leaf[d] # Change /\ onDisk[d] # Change
      BY <1>1, ChangeIsNew DEF Meddle
    <3>1. \A d \in Folders : /\ leaf'[d] \in Changes => leaf'[d] \in inode'[leaf'[d]].text
                             /\ onDisk'[d] \in Changes => onDisk'[d] \in inode'[onDisk'[d]].text
      BY <2>2, <2>3, <2>5, <3>0, FileNames DEF FilesInv, ChangesAreNew
    <3>2. \A n \in Changes : inode'[n].text = {} \/ n \in inode'[n].text
      BY <2>2, FileNames
    <3>3. \A o \in Mutations : call'[o].source \in Changes => call'[o].source \in inode'[call'[o].source].text
      BY <1>2, <2>2, FileNames DEF FilesInv, ChangesAreNew
    <3> QED BY <2>2, <3>1, <3>2, <3>3 DEF ChangesAreNew
  <2>8. UnpublishedIsPrivate'
    BY <1>2, <2>3, <2>5 DEF FilesInv, UnpublishedIsPrivate
  <2>9. CallsFit'
    <3>1. ASSUME NEW o \in Mutations PROVE CallFits(o, call'[o], place', leaf', onDisk', inode')
      <4>1. inode'[call[o].source] = inode[call[o].source] \/ call[o].source = None
        BY <2>2 DEF FilesInv, FilesTypeOK, CallRecords
      <4> QED BY <1>2, <1>3, <2>2, <4>1, KeptFits
    <3> QED BY <3>1 DEF CallsFit
  <2> QED BY <2>4, <2>6, <2>7, <2>8, <2>9 DEF FilesInv
<1> QED BY <1>4, <1>5 DEF ReplaceFolder, ChangedFile

LEMMA MovedAlone ==
  ASSUME FilesInv, NEW c \in Mutations, NEW r \in CallRecords, call' = [call EXCEPT ![c] = r]
  PROVE  /\ call' \in [Mutations -> CallRecords] /\ call'[c] = r
         /\ \A o \in Mutations : o # c => call'[o] = call[o] /\ Kept(o)
<1>1. call \in [Mutations -> CallRecords]
  BY DEF FilesInv, FilesTypeOK
<1> QED BY <1>1 DEF Kept, SameCall

\* Where a file keeps its text, or only gains one.
LEMMA TamperKeeps ==
  ASSUME FilesInv, NEW c \in Mutations, TamperWithTemp(c)
  PROVE  FilesInv'
<1>1. call[c] \in CallRecords /\ CallFits(c, call[c], place, leaf, onDisk, inode)
  BY DEF FilesInv, FilesTypeOK, CallsFit
<1>2. CASE /\ ~call[c].published /\ inode' = [inode EXCEPT ![c] = Written(@)] /\ UNCHANGED call
  <2>1. Meddle /\ UNCHANGED <<place, leaf, onDisk>>
    BY DEF TamperWithTemp
  <2>2. /\ Change \in Changes /\ Change \in Inodes /\ \A i \in Inodes : Change \notin inode[i].text
        /\ Change # c
    BY <2>1, ChangeIsNew DEF Meddle
  <2>3. /\ inode' \in [Inodes -> FileRecords]
        /\ \A i \in Inodes : i # c => inode'[i] = inode[i]
        /\ inode'[c].text = inode[c].text \cup {Change}
    <3>1. inode \in [Inodes -> FileRecords] /\ c \in Inodes
      BY FileNames DEF FilesInv, FilesTypeOK
    <3>2. /\ Written(inode[c]) \in FileRecords /\ inode[c].stamp < Written(inode[c]).stamp
          /\ Written(inode[c]).text = inode[c].text \cup {Change}
      BY <2>2, <3>1, WrittenInto
    <3> QED BY <1>2, <3>1, <3>2
  <2>4. FilesTypeOK'
    BY <1>2, <2>1, <2>3, MeddlingGrows DEF FilesInv, FilesTypeOK
  <2>5. FoldersGrow'
    BY <1>2, <2>1, MeddlingGrows, FoldersStay
  <2>6. ChangesAreNew'
    <3>1. Cardinality(Made') <= meddling'
      <4>1. \A i \in Inodes : inode'[i].text \cap Changes \subseteq Made \cup {Change}
        BY <2>3 DEF Made
      <4> QED BY <2>1, <4>1, MadeByOne, MeddlingGrows
    <3>2. \A n \in Changes : n # c /\ n \in Inodes
      BY FileNames
    <3> QED BY <1>2, <2>1, <2>3, <3>1, <3>2 DEF FilesInv, ChangesAreNew
  <2>7. UnpublishedIsPrivate'
    BY <1>2, <2>1 DEF FilesInv, UnpublishedIsPrivate
  <2>8. CallsFit'
    <3>1. ASSUME NEW o \in Mutations PROVE CallFits(o, call'[o], place', leaf', onDisk', inode')
      <4>1. call[o] \in CallRecords /\ Kept(o)
        BY <1>2 DEF FilesInv, FilesTypeOK, Kept, SameCall
      <4>2. call[o].source # c
        BY <1>2 DEF FilesInv, UnpublishedIsPrivate
      <4>3. call[o].source # None => inode'[call[o].source] = inode[call[o].source]
        BY <2>3, <4>1, <4>2 DEF CallRecords
      <4>4. inode'[o].text = inode[o].text \/ ~call[o].published
        BY <1>2, <2>3, FileNames
      <4> QED BY <2>1, <2>3, <4>1, <4>3, <4>4, KeptFits
    <3> QED BY <3>1 DEF CallsFit
  <2> QED BY <2>4, <2>5, <2>6, <2>7, <2>8 DEF FilesInv
<1>3. CASE \E state \in {"swapped", "gone"} : call' = [call EXCEPT ![c].temp = state] /\ UNCHANGED inode
  <2>1. PICK state \in {"swapped", "gone"} : call' = [call EXCEPT ![c].temp = state]
    BY <1>3
  <2> DEFINE r == [call[c] EXCEPT !.temp = state]
  <2>2. /\ r \in CallRecords /\ r.at = call[c].at /\ r.end = call[c].end
        /\ r.kind = call[c].kind /\ r.folder = call[c].folder
        /\ r.source = call[c].source /\ r.stamp = call[c].stamp /\ r.base = call[c].base
        /\ r.seen = call[c].seen /\ r.published = call[c].published
        /\ r.late = call[c].late /\ r.over = call[c].over /\ r.blind = call[c].blind
    BY <1>1 DEF CallRecords
  <2>3. call' = [call EXCEPT ![c] = r]
    BY <2>1
  <2> HIDE DEF r
  <2>4. Moves(c, r)
    BY <1>3, <2>2, <2>3, MeddlingGrows DEF Moves, TamperWithTemp
  <2>5. StepsFit(r)
    BY <1>1, <2>2 DEF CallFits, StepsFit
  <2>6. SourceFits(r, inode)
    BY <1>1, <2>2 DEF CallFits, SourceFits
  <2>7. UndisturbedFits(c, r, place, leaf, onDisk, inode)
    <3>1. TextOf(c, r) = TextOf(c, call[c]) /\ (Confirmed(r) <=> Confirmed(call[c]))
      BY <2>2 DEF TextOf, Confirmed
    <3> QED BY <1>1, <2>2, <3>1 DEF CallFits, UndisturbedFits
  <2> QED BY <2>4, <2>5, <2>6, <2>7, MoveKeeps DEF CallFits
<1> QED BY <1>2, <1>3 DEF TamperWithTemp

\* Every private file was flushed before it was published, and a call that succeeded has
\* flushed the directory: the power takes neither.
LEMMA PowerLossKeeps ==
  ASSUME FilesInv, PowerLoss
  PROVE  FilesInv'
<1>1. /\ Meddle /\ UNCHANGED place /\ onDisk' = leaf'
      /\ \A d \in Folders : leaf'[d] \in {leaf[d], onDisk[d]}
      /\ leaf' \in [Folders -> Names]
  <2>1. leaf \in [Folders -> Names] /\ onDisk \in [Folders -> Names]
    BY DEF FilesInv, FilesTypeOK
  <2> QED BY <2>1 DEF PowerLoss
<1>2. inode' = inode
  <2>1. inode \in [Inodes -> FileRecords] /\ \A i \in Inodes : inode[i].flushed
    BY DEF FilesInv, FilesTypeOK, FileRecords
  <2>2. inode' = [i \in Inodes |-> inode[i]]
    BY <2>1 DEF PowerLoss
  <2> QED BY <2>1, <2>2
<1>3. \A o \in Mutations :
        /\ call'[o] \in CallRecords
        /\ call'[o].source = call[o].source /\ call'[o].published = call[o].published
        /\ call'[o].folder = call[o].folder /\ call'[o].seen = call[o].seen
        /\ call'[o].base = call[o].base /\ call'[o].kind = call[o].kind
        /\ call'[o].over = call[o].over /\ call'[o].blind = call[o].blind /\ call'[o].end = call[o].end
        /\ IF call[o].at = "done" THEN call'[o] = call[o] ELSE call'[o].at = "dead"
  <2> SUFFICES ASSUME NEW o \in Mutations
               PROVE  /\ call'[o] \in CallRecords
                      /\ call'[o].source = call[o].source /\ call'[o].published = call[o].published
                      /\ call'[o].folder = call[o].folder /\ call'[o].seen = call[o].seen
                      /\ call'[o].base = call[o].base /\ call'[o].kind = call[o].kind
                      /\ call'[o].over = call[o].over /\ call'[o].blind = call[o].blind
                      /\ call'[o].end = call[o].end
                      /\ IF call[o].at = "done" THEN call'[o] = call[o] ELSE call'[o].at = "dead"
    OBVIOUS
  <2>1. call[o] \in CallRecords
    BY DEF FilesInv, FilesTypeOK
  <2>2. call'[o] = IF call[o].at = "done" THEN call[o] ELSE [call[o] EXCEPT !.at = "dead"]
    BY DEF PowerLoss, At
  <2>3. "dead" \in Before \cup After \cup Ended
    BY DEF Ended
  <2> QED BY <2>1, <2>2, <2>3, GoneTo
<1>4. FilesTypeOK'
  <2>1. call' \in [Mutations -> CallRecords]
    BY <1>3 DEF PowerLoss
  <2> QED BY <1>1, <1>2, <2>1, MeddlingGrows DEF FilesInv, FilesTypeOK
<1>5. FoldersGrow'
  <2>1. \A d \in Folders : leaf[d] = Unmade <=> onDisk[d] = Unmade
    BY DEF FilesInv, FoldersGrow
  <2>2. \A d \in Folders : (leaf'[d] = Unmade <=> leaf[d] = Unmade)
                           /\ (onDisk'[d] = Unmade <=> onDisk[d] = Unmade)
    BY <1>1, <2>1
  <2> QED BY <1>1, <1>3, <2>2, MeddlingGrows, FoldersStay
<1>6. ChangesAreNew'
  <2>1. Cardinality(Made') <= meddling'
    BY <1>1, <1>2, MeddlingGrows, MadeStays DEF Made
  <2> QED BY <1>1, <1>2, <1>3, <2>1 DEF FilesInv, ChangesAreNew
<1>7. UnpublishedIsPrivate'
  BY <1>1, <1>3 DEF FilesInv, UnpublishedIsPrivate
<1>8. CallsFit'
  <2>1. ASSUME NEW o \in Mutations PROVE CallFits(o, call'[o], place', leaf', onDisk', inode')
    <3>0. CallFits(o, call[o], place, leaf, onDisk, inode) /\ call[o] \in CallRecords
      BY DEF FilesInv, CallsFit, FilesTypeOK
    <3>1. CASE call[o].at = "done" /\ ~call[o].late /\ Confirmed(call[o])
      <4>1. place # 0 /\ onDisk[place] = leaf[place]
        BY <3>0, <3>1 DEF CallFits, UndisturbedFits
      <4>2. leaf'[place] = leaf[place] /\ onDisk'[place] = onDisk[place]
        BY <1>1, <4>1, PlaceIsMade
      <4>3. Kept(o) /\ inode' \in [Inodes -> FileRecords]
        BY <1>3, <1>4, <3>1 DEF Kept, SameCall, FilesTypeOK
      <4> QED BY <1>1, <1>2, <4>2, <4>3, KeptFits
    <3>2. CASE call[o].at = "done" /\ (call[o].late \/ ~Confirmed(call[o]))
      <4>1. Kept(o) /\ call'[o] = call[o] /\ inode' \in [Inodes -> FileRecords]
        BY <1>3, <1>4, <3>2 DEF Kept, SameCall, FilesTypeOK
      <4> QED BY <1>1, <1>2, <3>2, <4>1, KeptFits DEF Ended
    <3>3. CASE call[o].at # "done"
      <4>1. call'[o].at = "dead"
        BY <1>3, <3>3
      <4>2. StepsFit(call'[o])
        BY <1>3, <3>0, <3>3, <4>1 DEF CallFits, StepsFit, Before, After, Ended
      <4>3. SourceFits(call'[o], inode')
        BY <1>2, <1>3, <3>0, <4>1 DEF CallFits, SourceFits
      <4>4. UndisturbedFits(o, call'[o], place', leaf', onDisk', inode')
        BY <4>1 DEF UndisturbedFits, Confirmed
      <4> QED BY <4>2, <4>3, <4>4 DEF CallFits
    <3> QED BY <3>1, <3>2, <3>3
  <2> QED BY <2>1 DEF CallsFit
<1> QED BY <1>4, <1>5, <1>6, <1>7, <1>8 DEF FilesInv

-----------------------------------------------------------------------------
(* Steps of a call that change the files. *)

LEMMA OpenFolderKeeps ==
  ASSUME FilesInv, NEW c \in Mutations, OpenFolder(c)
  PROVE  FilesInv'
<1>1. /\ call[c] \in CallRecords /\ CallFits(c, call[c], place, leaf, onDisk, inode)
      /\ call[c].at = "open" /\ Quietly /\ inode' = inode
  BY DEF FilesInv, FilesTypeOK, CallsFit, OpenFolder, At
<1>q. meddling' = meddling /\ meddling \in Nat /\ meddling <= MaxMeddling /\ place \in Nat
  BY <1>1, FilesAssumption DEF Quietly, FilesInv, FilesTypeOK
<1> DEFINE opened(f) == [call[c] EXCEPT !.at = "look", !.folder = f]
<1>2. ASSUME NEW f \in Nat, 0 < f
      PROVE  /\ opened(f) \in CallRecords /\ opened(f).at = "look" /\ opened(f).folder = f
             /\ opened(f).source = call[c].source /\ opened(f).published = call[c].published
             /\ opened(f).seen = call[c].seen
             /\ StepsFit(opened(f)) /\ SourceFits(opened(f), inode)
             /\ \A p, l, d : UndisturbedFits(c, opened(f), p, l, d, inode)
  <2> DEFINE r == opened(f)
  <2>1. /\ r \in CallRecords /\ r.at = "look" /\ r.folder = f /\ r.end = call[c].end
        /\ r.kind = call[c].kind /\ r.source = call[c].source /\ r.stamp = call[c].stamp
        /\ r.base = call[c].base /\ r.seen = call[c].seen /\ r.published = call[c].published
        /\ r.late = call[c].late /\ r.over = call[c].over /\ r.blind = call[c].blind
    BY <1>1, <1>2 DEF CallRecords, Before
  <2> HIDE DEF r
  <2>2. StepsFit(r)
    BY <1>1, <1>2, <2>1 DEF CallFits, StepsFit, Before, After, Ended
  <2>3. SourceFits(r, inode)
    BY <1>1, <2>1 DEF CallFits, SourceFits
  <2>4. \A p, l, d : UndisturbedFits(c, r, p, l, d, inode)
    BY <1>1, <2>1 DEF CallFits, StepsFit, UndisturbedFits, Confirmed, None, Ended
  <2> QED BY <2>1, <2>2, <2>3, <2>4 DEF r
<1>3. CASE place # 0 /\ call' = [call EXCEPT ![c] = opened(place)] /\ UNCHANGED <<place, leaf, onDisk>>
  <2>1. 0 < place
    BY <1>3, <1>q
  <2> DEFINE r == opened(place)
  <2>2. Moves(c, r)
    BY <1>1, <1>q, <1>2, <1>3, <2>1, QuietMeddling DEF Moves
  <2>3. CallFits(c, r, place, leaf, onDisk, inode)
    BY <1>q, <1>2, <2>1 DEF CallFits
  <2> HIDE DEF r
  <2> QED BY <2>2, <2>3, MoveKeeps
<1>4. CASE place = 0 /\ call[c].kind = "edit" /\ Fails(c) /\ UNCHANGED <<place, leaf, onDisk>>
  BY <1>1, <1>4, FailKeeps, QuietMeddling DEF Ended
<1>5. CASE /\ place = 0 /\ place' = MadeSoFar + 1
           /\ leaf' = [leaf EXCEPT ![place'] = None] /\ onDisk' = [onDisk EXCEPT ![place'] = None]
           /\ call' = [call EXCEPT ![c] = opened(place')]
  <2> DEFINE r == opened(place')
  <2>1. PICK k \in Nat : k <= meddling /\ \A d \in Folders : leaf[d] = Unmade <=> d > k
    BY <1>5 DEF FilesInv, FoldersGrow
  <2>2. place' = k + 1 /\ k + 1 \in Nat /\ 0 < k + 1
    <3>1. k <= MaxMeddling
      <4>1. \A m \in Nat : k <= m /\ m <= MaxMeddling => k <= MaxMeddling
        BY FilesAssumption
      <4> QED BY <1>q, <2>1, <4>1
    <3> QED BY <1>5, <2>1, <3>1, NextFolder DEF FilesInv
  <2>3. /\ r \in CallRecords /\ r.at = "look" /\ r.folder = place'
        /\ r.source = call[c].source /\ r.published = call[c].published
        /\ r.seen = call[c].seen /\ StepsFit(r) /\ SourceFits(r, inode)
        /\ \A p, l, d : UndisturbedFits(c, r, p, l, d, inode)
    BY <1>2, <2>2
  <2>4. call' = [call EXCEPT ![c] = r]
    BY <1>5
  <2> HIDE DEF r
  <2>5. /\ call' \in [Mutations -> CallRecords] /\ call'[c] = r
        /\ \A o \in Mutations : o # c => call'[o] = call[o] /\ Kept(o)
    BY <2>3, <2>4, MovedAlone
  <2>6. FoldersGrow' /\ place' \in Folders
    <3>1. \A o \in Mutations : /\ call'[o].folder \in {call[o].folder, place, place'}
                               /\ call'[o].seen \in {call[o].seen, place}
      BY <2>3, <2>5
    <3>2. None \in Names \ {Unmade}
      BY FileNames DEF Names
    <3>3. meddling' \in Nat /\ meddling' <= MaxMeddling /\ meddling <= meddling'
      BY <1>q
    <3> QED BY <1>5, <3>1, <3>2, <3>3, FoldersByOne
  <2>7. /\ leaf' \in [Folders -> Names] /\ onDisk' \in [Folders -> Names]
        /\ \A d \in Folders : /\ leaf'[d] = IF d = place' THEN None ELSE leaf[d]
                              /\ onDisk'[d] = IF d = place' THEN None ELSE onDisk[d]
    BY <1>5, <2>6 DEF FilesInv, FilesTypeOK, Names
  <2>8. FilesTypeOK'
    BY <1>1, <1>q, <2>2, <2>5, <2>7 DEF FilesInv, FilesTypeOK
  <2>9. ChangesAreNew'
    <3>1. Cardinality(Made') <= meddling'
      BY <1>1, <1>q, MadeStays DEF Made
    <3>2. \A o \in Mutations : call'[o].source = call[o].source
      BY <2>3, <2>5
    <3>3. None \notin Changes
      BY FileNames
    <3> QED BY <1>1, <2>7, <3>1, <3>2, <3>3 DEF FilesInv, ChangesAreNew
  <2>10. UnpublishedIsPrivate'
    <3>1. \A o \in Mutations : /\ call'[o].source = call[o].source /\ o # None
                               /\ call'[o].published = call[o].published
      BY <2>3, <2>5, FileNames
    <3> QED BY <2>7, <3>1 DEF FilesInv, UnpublishedIsPrivate
  <2>11. CallsFit'
    <3>1. ASSUME NEW o \in Mutations PROVE CallFits(o, call'[o], place', leaf', onDisk', inode')
      <4>1. CASE o = c
        BY <1>1, <2>3, <2>5, <4>1 DEF CallFits
      <4>2. CASE o # c
        BY <1>1, <1>5, <2>5, <2>8, <4>2, KeptFits DEF FilesTypeOK
      <4> QED BY <4>1, <4>2
    <3> QED BY <3>1 DEF CallsFit
  <2> QED BY <2>6, <2>8, <2>9, <2>10, <2>11 DEF FilesInv
<1>6. \/ place # 0 /\ call' = [call EXCEPT ![c] = opened(place)] /\ UNCHANGED <<place, leaf, onDisk>>
      \/ place = 0 /\ call[c].kind = "edit" /\ Fails(c) /\ UNCHANGED <<place, leaf, onDisk>>
      \/ /\ place = 0 /\ place' = MadeSoFar + 1
         /\ leaf' = [leaf EXCEPT ![place'] = None] /\ onDisk' = [onDisk EXCEPT ![place'] = None]
         /\ call' = [call EXCEPT ![c] = opened(place')]
  BY DEF OpenFolder
<1> QED BY <1>3, <1>4, <1>5, <1>6

LEMMA CreateTempKeeps ==
  ASSUME FilesInv, NEW c \in Mutations, CreateTemp(c)
  PROVE  FilesInv'
<1> DEFINE r == [call[c] EXCEPT !.at = "verify", !.temp = "own"]
<1>1. /\ call[c] \in CallRecords /\ CallFits(c, call[c], place, leaf, onDisk, inode)
      /\ call[c].at = "prepare" /\ Quietly /\ UNCHANGED <<place, leaf, onDisk>>
      /\ inode' = [inode EXCEPT ![c] = OwnedTemp(c)] /\ call' = [call EXCEPT ![c] = r]
  BY DEF FilesInv, FilesTypeOK, CallsFit, CreateTemp, At
<1>q. meddling' = meddling /\ meddling \in Nat /\ meddling <= MaxMeddling /\ meddling <= meddling'
  BY <1>1, FilesAssumption DEF Quietly, FilesInv, FilesTypeOK
<1>2. /\ r \in CallRecords /\ r.at = "verify" /\ r.folder = call[c].folder /\ r.end = call[c].end
      /\ r.kind = call[c].kind /\ r.source = call[c].source /\ r.stamp = call[c].stamp
      /\ r.base = call[c].base /\ r.seen = call[c].seen /\ r.published = call[c].published
      /\ r.late = call[c].late /\ r.over = call[c].over /\ r.blind = call[c].blind
  BY <1>1 DEF CallRecords, Before
<1>3. StepsFit(r) /\ ~call[c].published
  BY <1>1, <1>2 DEF CallFits, StepsFit, Before, After, Ended
<1> HIDE DEF r
<1>4. /\ call' \in [Mutations -> CallRecords] /\ call'[c] = r
      /\ \A o \in Mutations : o # c => call'[o] = call[o] /\ Kept(o)
  BY <1>1, <1>2, MovedAlone
<1>5. /\ OwnedTemp(c) \in FileRecords /\ OwnedTemp(c).text \in {{c}, call[c].base \cup {c}}
  BY <1>1, FileNames DEF OwnedTemp, NewText, FileRecords, CallRecords
<1>6. /\ inode' \in [Inodes -> FileRecords] /\ inode'[c].text = OwnedTemp(c).text
      /\ \A i \in Inodes : i # c => inode'[i] = inode[i]
  <2>1. inode \in [Inodes -> FileRecords] /\ c \in Inodes
    BY FileNames DEF FilesInv, FilesTypeOK
  <2> QED BY <1>1, <1>5, <2>1
<1>7. \A o \in Mutations : call[o].source # c /\ call'[o].source = call[o].source
                           /\ call'[o].published = call[o].published
                           /\ call'[o].folder = call[o].folder /\ call'[o].seen = call[o].seen
  BY <1>2, <1>3, <1>4 DEF FilesInv, UnpublishedIsPrivate
<1>8. FilesTypeOK'
  BY <1>1, <1>q, <1>4, <1>6 DEF FilesInv, FilesTypeOK
<1>9. FoldersGrow'
  BY <1>1, <1>q, <1>7, FoldersStay
<1>10. ChangesAreNew'
  <2>1. Cardinality(Made') <= meddling'
    <3>1. inode'[c].text \cap Changes \subseteq Made
      <4>1. c \notin Changes
        BY FileNames
      <4>2. CASE call[c].source = None
        <5>1. call[c].kind = "write"
          BY <1>1, <4>2 DEF CallFits, StepsFit, CallRecords, Before
        <5> QED BY <1>6, <4>1, <5>1 DEF OwnedTemp, NewText
      <4>3. CASE call[c].source # None
        <5>1. call[c].source \in Inodes /\ call[c].base \subseteq inode[call[c].source].text
          BY <1>1, <4>3 DEF CallFits, SourceFits, CallRecords
        <5> QED BY <1>5, <1>6, <4>1, <5>1 DEF Made
      <4> QED BY <4>2, <4>3
    <3>2. \A i \in Inodes : inode'[i].text \cap Changes \subseteq Made
      BY <1>6, <3>1 DEF Made
    <3> QED BY <1>q, <3>2, MadeStays
  <2>2. \A n \in Changes : n # c /\ n \in Inodes
    BY FileNames
  <2> QED BY <1>1, <1>6, <1>7, <2>1, <2>2 DEF FilesInv, ChangesAreNew
<1>11. UnpublishedIsPrivate'
  BY <1>1, <1>7 DEF FilesInv, UnpublishedIsPrivate
<1>12. CallsFit'
  <2>1. ASSUME NEW o \in Mutations PROVE CallFits(o, call'[o], place', leaf', onDisk', inode')
    <3>1. call[o] \in CallRecords /\ (call[o].source # None => inode'[call[o].source] = inode[call[o].source])
      BY <1>6, <1>7 DEF FilesInv, FilesTypeOK, CallRecords
    <3>2. CASE o = c
      <4>1. SourceFits(r, inode')
        BY <1>1, <1>2, <3>1, <3>2 DEF CallFits, SourceFits
      <4>2. UndisturbedFits(c, r, place', leaf', onDisk', inode')
        BY <1>1, <1>2 DEF CallFits, StepsFit, UndisturbedFits, Confirmed, None, Ended
      <4> QED BY <1>3, <1>4, <3>2, <4>1, <4>2 DEF CallFits
    <3>3. CASE o # c
      <4>1. inode'[o].text = inode[o].text
        BY <1>6, <3>3, FileNames
      <4> QED BY <1>1, <1>4, <1>6, <3>1, <3>3, <4>1, KeptFits
    <3> QED BY <3>2, <3>3
  <2> QED BY <2>1 DEF CallsFit
<1> QED BY <1>8, <1>9, <1>10, <1>11, <1>12 DEF FilesInv

\* The published file keeps its text; what it replaced is what the call read, unless it was
\* told of a change.
LEMMA PublishesKeeps ==
  ASSUME FilesInv, NEW c \in Mutations, NEW step \in {"sync", "unlink"},
         NEW temp \in {None, "own", "swapped", "gone"},
         At(c, "publish"), place # 0, Quietly, Publishes(c, step, temp), UNCHANGED <<place, onDisk>>,
         call[c].source = None => leaf[place] = None
  PROVE  FilesInv'
<1> DEFINE r == [call[c] EXCEPT !.at = step, !.temp = temp, !.published = TRUE, !.late = FALSE,
                                !.blind = call[c].late, !.over = TextUnder(place)]
           calls == [call EXCEPT ![c] = r]
           who == Others(c, LeafSteps)
           what == IF call[c].temp = "own" THEN c ELSE Odd
<1>1. /\ call[c] \in CallRecords /\ CallFits(c, call[c], place, leaf, onDisk, inode)
      /\ call[c].at = "publish" /\ UNCHANGED <<place, onDisk>>
      /\ inode' = [inode EXCEPT ![c].stamp = @ + 1] /\ leaf' = [leaf EXCEPT ![place] = what]
  BY DEF FilesInv, FilesTypeOK, CallsFit, Publishes, At
<1>2. call' = Tell(calls, who)
  BY DEF Publishes
<1>q. meddling' = meddling /\ meddling \in Nat /\ meddling <= MaxMeddling /\ meddling <= meddling'
  BY FilesAssumption DEF Quietly, FilesInv, FilesTypeOK
<1>3. /\ TextUnder(place) \in SUBSET (Inodes \cup Names)
      /\ call[c].kind = "write" => TextUnder(place) = {None}
      /\ call[c].kind = "edit" /\ ~call[c].late => TextUnder(place) = call[c].base
  <2>1. leaf[place] \in Names /\ inode \in [Inodes -> FileRecords]
    BY PlaceIsMade DEF FilesInv, FilesTypeOK
  <2>2. TextUnder(place) \in SUBSET (Inodes \cup Names)
    BY <2>1 DEF TextUnder, FileRecords, Names
  <2>3. call[c].kind = "write" => TextUnder(place) = {None}
    <3>1. call[c].kind = "write" => leaf[place] = None
      BY <1>1 DEF CallFits, StepsFit
    <3> QED BY <3>1, FileNames DEF TextUnder
  <2>4. call[c].kind = "edit" /\ ~call[c].late => TextUnder(place) = call[c].base
    <3>1. call[c].kind = "edit" => call[c].source # None /\ call[c].source \in Inodes
      BY <1>1 DEF CallFits, StepsFit, CallRecords, Before
    <3>2. call[c].kind = "edit" /\ ~call[c].late =>
            leaf[place] = call[c].source /\ call[c].base = inode[call[c].source].text
      BY <1>1, <3>1 DEF CallFits, UndisturbedFits
    <3> QED BY <3>1, <3>2 DEF TextUnder
  <2> QED BY <2>2, <2>3, <2>4
<1>4. /\ r \in CallRecords /\ r.at = step /\ r.temp = temp /\ r.published /\ ~r.late
      /\ r.blind = call[c].late /\ r.over = TextUnder(place)
      /\ r.folder = call[c].folder /\ r.end = call[c].end /\ r.kind = call[c].kind
      /\ r.source = call[c].source /\ r.stamp = call[c].stamp
      /\ r.base = call[c].base /\ r.seen = call[c].seen
  <2> DEFINE old == call[c]
             over == TextUnder(place)
             half == [old EXCEPT !.at = step, !.temp = temp, !.published = TRUE]
  <2>1. /\ old \in CallRecords /\ over \in SUBSET (Inodes \cup Names)
        /\ r = [half EXCEPT !.late = FALSE, !.blind = old.late, !.over = over]
    BY <1>1, <1>3
  <2> HIDE DEF r, over, old
  <2>2. /\ half \in CallRecords /\ half.at = step /\ half.temp = temp /\ half.published
        /\ half.folder = old.folder /\ half.end = old.end /\ half.kind = old.kind
        /\ half.source = old.source /\ half.stamp = old.stamp
        /\ half.base = old.base /\ half.seen = old.seen
    BY <2>1 DEF CallRecords, After
  <2>3. old.late \in BOOLEAN
    BY <2>1 DEF CallRecords
  <2> HIDE DEF half
  <2>4. /\ r \in CallRecords /\ ~r.late /\ r.blind = old.late /\ r.over = over
        /\ r.at = half.at /\ r.temp = half.temp /\ r.published = half.published
        /\ r.folder = half.folder /\ r.end = half.end /\ r.kind = half.kind
        /\ r.source = half.source /\ r.stamp = half.stamp
        /\ r.base = half.base /\ r.seen = half.seen
    BY <2>1, <2>2, <2>3 DEF CallRecords
  <2> QED BY <2>2, <2>4 DEF over, old
<1> HIDE DEF r, what, calls, who
<1>5. StepsFit(r)
  <2>1. call[c].kind \in {"write", "edit"}
    BY <1>1 DEF CallRecords
  <2>2. IF r.kind = "write" THEN r.over = {None} ELSE r.blind \/ r.over = r.base
    BY <1>3, <1>4, <2>1
  <2>3. call[c].end = None /\ 0 < call[c].folder /\ (call[c].kind = "write" => call[c].source = None)
    BY <1>1 DEF CallFits, StepsFit, Before, Ended
  <2>4. r.at \in After /\ r.at \notin Before /\ r.at \notin Ended /\ r.at \notin {"open", "look", "read", "done"}
    BY <1>4 DEF Before, After, Ended
  <2>5. None \notin {"ok", "failed"}
    BY DEF None
  <2> QED BY <1>4, <2>2, <2>3, <2>4, <2>5 DEF StepsFit
<1>6. /\ calls \in [Mutations -> CallRecords] /\ calls[c] = r
      /\ \A o \in Mutations : o # c => calls[o] = call[o]
  BY <1>4 DEF FilesInv, FilesTypeOK, calls
<1>7. c \notin who /\ who \in SUBSET Mutations
  BY DEF Others, who
<1>8. /\ call' \in [Mutations -> CallRecords] /\ call'[c] = r
      /\ \A o \in Mutations : o # c => Kept(o)
      /\ \A o \in who : call'[o].late
  BY <1>2, <1>6, <1>7, TellFacts DEF Kept
<1>9. \A o \in Mutations : /\ call'[o].source = call[o].source
                           /\ call[o].published => call'[o].published
                           /\ o # c => call'[o].published = call[o].published
                           /\ call'[o].folder = call[o].folder /\ call'[o].seen = call[o].seen
  BY <1>4, <1>8 DEF Kept, SameCall
<1>10. /\ inode' \in [Inodes -> FileRecords]
       /\ \A i \in Inodes : inode'[i].text = inode[i].text /\ (i # c => inode'[i] = inode[i])
       /\ inode[c].stamp < inode'[c].stamp
  <2>1. inode \in [Inodes -> FileRecords] /\ c \in Inodes
    BY FileNames DEF FilesInv, FilesTypeOK
  <2> DEFINE new == [inode[c] EXCEPT !.stamp = inode[c].stamp + 1]
  <2>2. new \in FileRecords /\ new.text = inode[c].text /\ inode[c].stamp < new.stamp
    BY <2>1, Restamped
  <2>3. inode' = [inode EXCEPT ![c] = new]
    BY <1>1
  <2> HIDE DEF new
  <2> QED BY <2>1, <2>2, <2>3
<1>11. /\ what \in Names \ {Unmade} /\ what \notin Changes
       /\ \A o \in Mutations : o # c => what # o
  BY FileNames DEF Names, what
<1>12. /\ leaf' \in [Folders -> Names]
       /\ \A d \in Folders : leaf'[d] = IF d = place THEN what ELSE leaf[d]
  BY <1>1, <1>11, PlaceIsMade DEF FilesInv, FilesTypeOK
<1>13. FilesTypeOK'
  BY <1>1, <1>q, <1>8, <1>10, <1>12 DEF FilesInv, FilesTypeOK
<1>14. FoldersGrow'
  <2>1. \A d \in Folders : leaf'[d] = Unmade <=> leaf[d] = Unmade
    BY <1>11, <1>12, PlaceIsMade
  <2> QED BY <1>1, <1>q, <1>9, <2>1, FoldersStay
<1>15. ChangesAreNew'
  <2>1. Cardinality(Made') <= meddling'
    BY <1>q, <1>10, MadeStays DEF Made
  <2>2. \A n \in Changes : n \in Inodes
    BY FileNames
  <2> QED BY <1>1, <1>9, <1>10, <1>11, <1>12, <2>1, <2>2 DEF FilesInv, ChangesAreNew
<1>16. UnpublishedIsPrivate'
  <2>1. \A o \in Mutations : ~call'[o].published => ~call[o].published /\ o # c
    BY <1>4, <1>8, <1>9
  <2> QED BY <1>1, <1>9, <1>11, <1>12, <2>1 DEF FilesInv, UnpublishedIsPrivate
<1>17. CallsFit'
  <2>1. ASSUME NEW o \in Mutations PROVE CallFits(o, call'[o], place', leaf', onDisk', inode')
    <3>1. call[o] \in CallRecords
      BY DEF FilesInv, FilesTypeOK
    <3>2. CASE o = c
      <4>1. SourceFits(r, inode')
        BY <1>1, <1>4, <1>10 DEF CallFits, SourceFits, CallRecords
      <4>2. UndisturbedFits(c, r, place', leaf', onDisk', inode')
        BY <1>1, <1>4 DEF CallFits, StepsFit, UndisturbedFits, Confirmed, None, Ended
      <4> QED BY <1>5, <1>8, <3>2, <4>1, <4>2 DEF CallFits
    <3>3. CASE o # c
      <4>1. \/ call[o].source = None
            \/ inode'[call[o].source] = inode[call[o].source]
            \/ /\ inode[call[o].source].text \subseteq inode'[call[o].source].text
               /\ inode[call[o].source].stamp < inode'[call[o].source].stamp
        BY <1>10, <3>1 DEF CallRecords
      <4>2. CASE o \in who
        BY <1>8, <1>10, <3>3, <4>1, <4>2, KeptFits
      <4>3. CASE o \notin who
        <5>1. call[o].at \in Before \ {"commit", "publish"} \/ call[o].at = "dead"
          BY <3>1, <3>3, <4>3, NotTold DEF who, Others
        <5>2. call[o].at = "dead" => ~Confirmed(call[o]) /\ call[o].at \in Ended
          BY DEF Confirmed, Ended
        <5> QED BY <1>1, <1>8, <1>10, <3>3, <4>1, <5>1, <5>2, KeptFits
      <4> QED BY <4>2, <4>3
    <3> QED BY <3>2, <3>3
  <2> QED BY <2>1 DEF CallsFit
<1> QED BY <1>13, <1>14, <1>15, <1>16, <1>17 DEF FilesInv

LEMMA PublicationKeeps ==
  ASSUME FilesInv, NEW c \in Mutations, Rename(c) \/ Link(c)
  PROVE  FilesInv'
<1>1. call[c].at \notin Ended /\ At(c, "publish") /\ Quietly /\ UNCHANGED <<place, onDisk>>
  BY DEF Rename, Link, At, Ended
<1>2. CASE Fails(c) /\ UNCHANGED <<leaf, inode>>
  BY <1>1, <1>2, FailKeeps, QuietMeddling
<1>3. CASE Rename(c) /\ place # 0 /\ Publishes(c, "sync", None)
  <2>1. call[c].source # None
    BY <1>3 DEF Rename
  <2> QED BY <1>1, <1>3, <2>1, PublishesKeeps
<1>4. CASE Link(c) /\ MayLink(c) /\ Publishes(c, "unlink", call[c].temp)
  <2>1. call[c].temp \in {None, "own", "swapped", "gone"}
    BY DEF FilesInv, FilesTypeOK, CallRecords
  <2> QED BY <1>1, <1>4, <2>1, PublishesKeeps DEF MayLink
<1> QED BY <1>2, <1>3, <1>4 DEF Rename, Link

LEMMA UnlinkTempKeeps ==
  ASSUME FilesInv, NEW c \in Mutations, UnlinkTemp(c)
  PROVE  FilesInv'
<1> DEFINE r == [call[c] EXCEPT !.at = "sync", !.temp = None]
<1>1. /\ call[c] \in CallRecords /\ CallFits(c, call[c], place, leaf, onDisk, inode)
      /\ call[c].at = "unlink" /\ Quietly /\ UNCHANGED <<place, leaf, onDisk>>
  BY DEF FilesInv, FilesTypeOK, CallsFit, UnlinkTemp, At
<1>2. CASE call[c].temp = "gone"
  BY <1>1, <1>2, FailKeeps, QuietMeddling DEF UnlinkTemp, Ended
<1>3. CASE call[c].temp # "gone"
  <2>q. meddling' = meddling /\ meddling \in Nat /\ meddling <= MaxMeddling /\ meddling <= meddling'
    BY <1>1, FilesAssumption DEF Quietly, FilesInv, FilesTypeOK
  <2>1. /\ r \in CallRecords /\ r.at = "sync" /\ r.folder = call[c].folder /\ r.end = call[c].end
        /\ r.kind = call[c].kind /\ r.source = call[c].source /\ r.stamp = call[c].stamp
        /\ r.base = call[c].base /\ r.seen = call[c].seen /\ r.published = call[c].published
        /\ r.late = call[c].late /\ r.over = call[c].over /\ r.blind = call[c].blind
    BY <1>1 DEF CallRecords, After
  <2>2. call' = [call EXCEPT ![c] = r]
    BY <1>3 DEF UnlinkTemp
  <2> HIDE DEF r
  <2>3. /\ call' \in [Mutations -> CallRecords] /\ call'[c] = r
        /\ \A o \in Mutations : o # c => call'[o] = call[o] /\ Kept(o)
    BY <2>1, <2>2, MovedAlone
  <2>4. /\ inode' \in [Inodes -> FileRecords]
        /\ \A i \in Inodes : /\ inode'[i].text = inode[i].text
                             /\ inode'[i] = inode[i] \/ inode[i].stamp < inode'[i].stamp
    <3>1. inode \in [Inodes -> FileRecords] /\ c \in Inodes
      BY FileNames DEF FilesInv, FilesTypeOK
    <3> DEFINE new == [inode[c] EXCEPT !.stamp = inode[c].stamp + 1]
    <3>2. new \in FileRecords /\ new.text = inode[c].text /\ inode[c].stamp < new.stamp
      BY <3>1, Restamped
    <3>3. inode' = inode \/ inode' = [inode EXCEPT ![c] = new]
      BY <1>3 DEF UnlinkTemp
    <3> HIDE DEF new
    <3> QED BY <3>1, <3>2, <3>3
  <2>5. \A o \in Mutations : /\ call'[o].source = call[o].source
                             /\ call'[o].published = call[o].published
                             /\ call'[o].folder = call[o].folder /\ call'[o].seen = call[o].seen
    BY <2>1, <2>3
  <2>6. FilesTypeOK'
    BY <1>1, <2>q, <2>3, <2>4 DEF FilesInv, FilesTypeOK
  <2>7. FoldersGrow'
    BY <1>1, <2>q, <2>5, FoldersStay
  <2>8. ChangesAreNew'
    <3>1. Cardinality(Made') <= meddling'
      BY <2>q, <2>4, MadeStays DEF Made
    <3>2. \A n \in Changes : n \in Inodes
      BY FileNames
    <3> QED BY <1>1, <2>4, <2>5, <3>1, <3>2 DEF FilesInv, ChangesAreNew
  <2>9. UnpublishedIsPrivate'
    BY <1>1, <2>5 DEF FilesInv, UnpublishedIsPrivate
  <2>10. CallsFit'
    <3>1. ASSUME NEW o \in Mutations PROVE CallFits(o, call'[o], place', leaf', onDisk', inode')
      <4>1. /\ call[o] \in CallRecords /\ inode'[o].text = inode[o].text
            /\ call[o].source # None => inode'[call[o].source].text = inode[call[o].source].text
            /\ \/ call[o].source = None
               \/ inode'[call[o].source] = inode[call[o].source]
               \/ /\ inode[call[o].source].text \subseteq inode'[call[o].source].text
                  /\ inode[call[o].source].stamp < inode'[call[o].source].stamp
        BY <2>4, FileNames DEF FilesInv, FilesTypeOK, CallRecords
      <4>2. CASE o = c
        <5>1. StepsFit(r)
          BY <1>1, <2>1 DEF CallFits, StepsFit, Before, After, Ended
        <5>2. SourceFits(r, inode')
          BY <1>1, <2>1, <4>1, <4>2 DEF CallFits, SourceFits
        <5>3. UndisturbedFits(c, r, place', leaf', onDisk', inode')
          BY <1>1, <2>1 DEF CallFits, StepsFit, UndisturbedFits, Confirmed, None, Ended
        <5> QED BY <2>3, <4>2, <5>1, <5>2, <5>3 DEF CallFits
      <4>3. CASE o # c
        BY <1>1, <2>3, <2>4, <4>1, <4>3, KeptFits
      <4> QED BY <4>2, <4>3
    <3> QED BY <3>1 DEF CallsFit
  <2> QED BY <2>6, <2>7, <2>8, <2>9, <2>10 DEF FilesInv
<1> QED BY <1>2, <1>3

LEMMA SyncFoldersKeeps ==
  ASSUME FilesInv, NEW c \in Mutations, SyncFolders(c)
  PROVE  FilesInv'
<1>1. /\ call[c] \in CallRecords /\ CallFits(c, call[c], place, leaf, onDisk, inode)
      /\ call[c].at = "sync" /\ Quietly /\ UNCHANGED <<place, leaf, inode>>
  BY DEF FilesInv, FilesTypeOK, CallsFit, SyncFolders, At
<1>2. CASE place = 0
  BY <1>1, <1>2, FailKeeps, QuietMeddling DEF SyncFolders, Ended
<1>3. CASE place # 0
  <2>q. meddling' = meddling /\ meddling \in Nat /\ meddling <= MaxMeddling /\ meddling <= meddling'
    BY <1>1, FilesAssumption DEF Quietly, FilesInv, FilesTypeOK
  <2>1. /\ onDisk' \in [Folders -> Names]
        /\ \A d \in Folders : onDisk'[d] \in {leaf[d], onDisk[d]}
        /\ onDisk'[place] = leaf[place]
    BY <1>3, PlaceIsMade DEF SyncFolders, FilesInv, FilesTypeOK
  <2>2. PICK r \in CallRecords :
          /\ call' = [call EXCEPT ![c] = r]
          /\ r.at \in {"inspect", "cleanup"} /\ (r.at = "inspect" => r.seen = place)
          /\ r.seen \in {call[c].seen, place}
          /\ r.folder = call[c].folder /\ r.end = call[c].end
          /\ r.kind = call[c].kind /\ r.source = call[c].source /\ r.stamp = call[c].stamp
          /\ r.base = call[c].base /\ r.published = call[c].published
          /\ r.late = call[c].late /\ r.over = call[c].over /\ r.blind = call[c].blind
    <3>1. CASE call[c].source # None /\ place # call[c].folder
      <4> DEFINE r == [call[c] EXCEPT !.at = "cleanup"]
      <4>1. /\ r \in CallRecords /\ r.at = "cleanup" /\ r.kind = call[c].kind
            /\ r.folder = call[c].folder
            /\ r.source = call[c].source /\ r.stamp = call[c].stamp /\ r.base = call[c].base
            /\ r.seen = call[c].seen /\ r.published = call[c].published /\ r.end = call[c].end
            /\ r.late = call[c].late /\ r.over = call[c].over /\ r.blind = call[c].blind
        BY <1>1, GoneTo DEF Ended
      <4>2. call' = [call EXCEPT ![c] = r]
        BY <1>3, <3>1 DEF SyncFolders, Fails, Goes
      <4> HIDE DEF r
      <4> QED BY <4>1, <4>2
    <3>2. CASE ~(call[c].source # None /\ place # call[c].folder)
      <4> DEFINE r == [call[c] EXCEPT !.at = "inspect", !.seen = place]
      <4>1. /\ r \in CallRecords /\ r.at = "inspect" /\ r.kind = call[c].kind
            /\ r.folder = call[c].folder
            /\ r.source = call[c].source /\ r.stamp = call[c].stamp /\ r.base = call[c].base
            /\ r.seen = place /\ r.published = call[c].published /\ r.end = call[c].end
            /\ r.late = call[c].late /\ r.over = call[c].over /\ r.blind = call[c].blind
        <5>1. place \in Nat
          BY DEF FilesInv, FilesTypeOK
        <5> QED BY <1>1, <5>1 DEF CallRecords, After
      <4>2. call' = [call EXCEPT ![c] = r]
        BY <1>3, <3>2 DEF SyncFolders
      <4> HIDE DEF r
      <4> QED BY <4>1, <4>2
    <3> QED BY <3>1, <3>2
  <2>3. /\ call' \in [Mutations -> CallRecords] /\ call'[c] = r
        /\ \A o \in Mutations : o # c => call'[o] = call[o] /\ Kept(o)
    BY <2>2, MovedAlone
  <2>4. \A o \in Mutations : /\ call'[o].source = call[o].source
                             /\ call'[o].published = call[o].published
                             /\ call'[o].folder = call[o].folder
                             /\ call'[o].seen \in {call[o].seen, place}
    BY <2>2, <2>3
  <2>5. FilesTypeOK'
    BY <1>1, <2>q, <2>1, <2>3 DEF FilesInv, FilesTypeOK
  <2>6. FoldersGrow'
    <3>1. \A d \in Folders : leaf[d] = Unmade <=> onDisk[d] = Unmade
      BY DEF FilesInv, FoldersGrow
    <3>2. \A d \in Folders : onDisk'[d] = Unmade <=> onDisk[d] = Unmade
      BY <2>1, <3>1
    <3> QED BY <1>1, <2>q, <2>4, <3>2, FoldersStay
  <2>7. ChangesAreNew'
    <3>1. Cardinality(Made') <= meddling'
      BY <1>1, <2>q, MadeStays DEF Made
    <3> QED BY <1>1, <2>1, <2>4, <3>1 DEF FilesInv, ChangesAreNew
  <2>8. UnpublishedIsPrivate'
    BY <1>1, <2>1, <2>4 DEF FilesInv, UnpublishedIsPrivate
  <2>9. CallsFit'
    <3>1. ASSUME NEW o \in Mutations PROVE CallFits(o, call'[o], place', leaf', onDisk', inode')
      <4>1. CASE o = c
        <5>1. StepsFit(r)
          BY <1>1, <2>2 DEF CallFits, StepsFit, Before, After, Ended
        <5>2. SourceFits(r, inode')
          BY <1>1, <2>2 DEF CallFits, SourceFits
        <5>3. UndisturbedFits(c, r, place', leaf', onDisk', inode')
          <6>1. place \in Nat /\ r.end = None
            BY <1>1, <2>2 DEF CallFits, StepsFit, FilesInv, FilesTypeOK, Ended
          <6> QED BY <1>1, <1>3, <2>1, <2>2, <6>1 DEF UndisturbedFits, Confirmed, None
        <5> QED BY <2>3, <4>1, <5>1, <5>2, <5>3 DEF CallFits
      <4>2. CASE o # c
        <5>1. inode' \in [Inodes -> FileRecords] /\ place \in Folders
          BY <1>3, <2>5, PlaceIsMade DEF FilesTypeOK
        <5> QED BY <1>1, <2>1, <2>3, <4>2, <5>1, KeptFits
      <4> QED BY <4>1, <4>2
    <3> QED BY <3>1 DEF CallsFit
  <2> QED BY <2>5, <2>6, <2>7, <2>8, <2>9 DEF FilesInv
<1> QED BY <1>2, <1>3

-----------------------------------------------------------------------------
(* The theorems. *)

LEMMA FilesInitInv == FilesInit => FilesInv
<1> SUFFICES ASSUME FilesInit PROVE FilesInv
  OBVIOUS
<1>1. place \in {0, 1} /\ meddling = 0 /\ onDisk = leaf
  BY DEF FilesInit
<1>2. /\ \A d \in Folders : leaf[d] = Unmade <=> d > place
      /\ leaf \in [Folders -> Names] /\ \A d \in Folders : leaf[d] \notin Mutations \cup Changes
  <2>1. PICK there \in {Unmade, None, Odd, Original} :
          /\ leaf = [d \in Folders |-> IF d = 1 THEN there ELSE Unmade]
          /\ place = 0 <=> there = Unmade
    BY <1>1, FileNames DEF FilesInit
  <2>2. \A d \in Folders : (d > 1 <=> d # 1) /\ d > 0
    BY FilesAssumption DEF Folders
  <2> QED BY <1>1, <2>1, <2>2, FileNames DEF Names
<1>3. /\ inode \in [Inodes -> FileRecords]
      /\ \A i \in Inodes : inode[i].text \in {{}, {Original}} /\ (i # Original => inode[i].text = {})
  BY FileNames DEF FilesInit, NoFile, FileRecords
<1>4. PICK kind \in [Mutations -> {"write", "edit"}] : call = [c \in Mutations |-> Ready(kind[c])]
  BY DEF FilesInit
<1>5. ASSUME NEW c \in Mutations
      PROVE  /\ call[c] \in CallRecords /\ call[c].at = "open" /\ ~call[c].published /\ call[c].end = None
             /\ call[c].source = None /\ call[c].base = {} /\ call[c].folder = 0 /\ call[c].seen = 0
  BY <1>4 DEF Ready, CallRecords, Before
<1>6. FilesTypeOK
  <2>1. call \in [Mutations -> CallRecords]
    BY <1>4, <1>5
  <2> QED BY <1>1, <1>2, <1>3, <2>1, FilesAssumption DEF FilesTypeOK
<1>7. FoldersGrow
  <2>1. place \in Nat /\ place <= place /\ place <= meddling + 1 /\ 0 <= place
        /\ (place = 0 => place <= meddling)
    BY <1>1
  <2> QED BY <1>1, <1>2, <1>5, <2>1 DEF FoldersGrow
<1>8. ChangesAreNew
  <2>1. Made = {}
    BY <1>3, FileNames DEF Made
  <2>2. Cardinality({}) = 0
    BY FS_EmptySet
  <2> QED BY <1>1, <1>2, <1>3, <1>5, <2>1, <2>2, FileNames DEF ChangesAreNew
<1>9. UnpublishedIsPrivate
  BY <1>1, <1>2, <1>5, FileNames DEF UnpublishedIsPrivate
<1>10. CallsFit
  <2>1. ASSUME NEW c \in Mutations PROVE CallFits(c, call[c], place, leaf, onDisk, inode)
    BY <1>5 DEF CallFits, StepsFit, SourceFits, UndisturbedFits, Confirmed, Before, After, Ended, None
  <2> QED BY <2>1 DEF CallsFit
<1> QED BY <1>6, <1>7, <1>8, <1>9, <1>10 DEF FilesInv

LEMMA FilesNextInv == FilesInv /\ [FilesNext]_fileVars => FilesInv'
<1> SUFFICES ASSUME FilesInv, [FilesNext]_fileVars PROVE FilesInv'
  OBVIOUS
<1>1. ASSUME NEW c \in Mutations, CallStep(c) PROVE FilesInv'
  BY <1>1, OpenFolderKeeps, LookKeeps, ReadKeeps, CreateTempKeeps, CheckKeeps, CheckFolderKeeps,
     PublicationKeeps, UnlinkTempKeeps, SyncFoldersKeeps, InspectKeeps, CleanupKeeps,
     StepFailsKeeps DEF CallStep
<1>2. ASSUME NEW c \in Mutations, TamperWithTemp(c) PROVE FilesInv'
  BY <1>2, TamperKeeps
<1>3. ASSUME WriteInPlace \/ ReplaceFile \/ ReplaceFolder \/ PowerLoss PROVE FilesInv'
  BY <1>3, WriteInPlaceKeeps, ReplaceFileKeeps, ReplaceFolderKeeps, PowerLossKeeps
<1>4. CASE UNCHANGED fileVars
  BY <1>4 DEF fileVars, FilesInv, FilesTypeOK, FoldersGrow, ChangesAreNew, Made,
              UnpublishedIsPrivate, CallsFit
<1> QED BY <1>1, <1>2, <1>3, <1>4 DEF FilesNext

\* The files, the directories and the calls at them keep their types: each call's step fits
\* what it has published and read.
THEOREM FilesInvariant == FilesSpec => []FilesInv
  BY FilesInitInv, FilesNextInv, PTL DEF FilesSpec

\* files.write and files.edit end as they say, lose no text they did not read unless the name
\* changed after their last look, and leave whole texts, for any calls, other programs and
\* power losses.
THEOREM FilesAreMutatedTruly == FilesSpec => []MutationsAreTrue
<1>1. FilesInv => MutationsAreTrue
  <2> SUFFICES ASSUME FilesInv PROVE MutationsAreTrue
    OBVIOUS
  <2>1. \A c \in Mutations : /\ call[c] \in CallRecords
                             /\ CallFits(c, call[c], place, leaf, onDisk, inode)
    BY DEF FilesInv, FilesTypeOK, CallsFit
  <2>2. OutcomesAreTrue
    BY <2>1 DEF OutcomesAreTrue, Done, At, CallFits, StepsFit, FilesInv, UnpublishedIsPrivate
  <2>3. NothingUnseenIsLost
    BY <2>1 DEF NothingUnseenIsLost, CallFits, StepsFit
  <2>4. PublishedIsWhole
    <3>1. ASSUME NEW c \in Mutations, Done(c), call[c].end = "ok", ~call[c].late
          PROVE  place # 0 /\ leaf[place] = c /\ inode[c].text = NewText(c)
      <4>1. Confirmed(call[c]) /\ TextOf(c, call[c]) = NewText(c)
        BY <3>1 DEF Confirmed, Done, At, TextOf, NewText
      <4> QED BY <2>1, <3>1, <4>1 DEF CallFits, UndisturbedFits
    <3>2. ASSUME NEW d \in Folders, leaf[d] \in Mutations PROVE Torn \notin inode[leaf[d]].text
      <4>1. inode[leaf[d]].text \in SUBSET Inodes
        BY <3>2, FileNames DEF FilesInv, FilesTypeOK, FileRecords
      <4> QED BY <4>1, FileNames
    <3> QED BY <3>1, <3>2 DEF PublishedIsWhole
  <2> QED BY <2>2, <2>3, <2>4 DEF MutationsAreTrue
<1> QED BY <1>1, FilesInvariant, PTL
=============================================================================
