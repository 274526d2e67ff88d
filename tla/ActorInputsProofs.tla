-------------------------- MODULE ActorInputsProofs --------------------------
(* What holds of admitted inputs for any inputs, generations and troubles:   *)
(* the input machinery implements InputContract, and a wake that gives up    *)
(* shows on every input it leaves.                                           *)
EXTENDS ActorInputs, FiniteSetTheorems, WellFoundedInduction, SequenceTheorems, TLAPS

Rows == [state : {"none", "queued", "accepted"}, gen : Nat]
Phases == {"none", "decide", "answer", "accepted", "handled", "ran"}
Passes ==
  [owner : Owners \cup {"none"}, phase : Phases, scope : SUBSET Inputs, proven : SUBSET Inputs,
   unresolved : SUBSET Inputs, todo : SUBSET Inputs]

\* The session, its actor's process and the work of waking it.
SessionTypeOK ==
  /\ flag \in [Inputs -> Nat]
  /\ life \in {"starting", "resident", "error", "stopped", "passivated"} /\ gen \in Nat \ {0}
  /\ closing \in {"none", "error", "stopped", "passivated"}
  /\ wake \in {"none", "begin", "ready", "pass", "failing"} /\ again \in BOOLEAN
  /\ dispatch \in {"none", "begin", "ready"} /\ online \in BOOLEAN /\ troubles \in Nat

\* The inputs on their way from the tables to the transcript: receipts r, their numbers n, rows o,
\* the transcript s; the worker w, the passes m in its tail, the pass p under way, submissions f
\* without an answer; the worker's queue q, what it enqueued e and has to report d; lost answers l.
InputsTyped(r, n, o, s, w, m, p, f, q, e, d, l) ==
  /\ r \in [Inputs -> {"none", "reserved", "delivered", "handled"}] /\ n \in [Inputs -> Nat]
  /\ o \in [Inputs -> Rows] /\ s \in Seq(Inputs)
  /\ w \in Nat /\ m \subseteq Owners /\ p \in Passes /\ f \in [Inputs -> Nat]
  /\ q \in Seq(Inputs) /\ e \subseteq Inputs /\ d \subseteq Inputs /\ l \in [Inputs -> Nat]

\* The user inputs that become messages.
Users == Inputs \ (Internal \cup Commands)

\* The input of S that was admitted first, by the numbers n: First(S) is Earliest(sequence, S).
Earliest(n, S) == CHOOSE i \in S : \A j \in S : n[i] <= n[j]

\* How often i stands in the sequence s; and how often it will stand in the transcript s, at
\* most, once the queue q and the submissions f under way are worked off.
Places(s, i) == {n \in DOMAIN s : s[n] = i}
Times(s, i) == Cardinality(Places(s, i))
Load(s, q, f, i) == Times(s \o q, i) + f[i]

\* An input has its row until it is completed, and only commands are handled.
RowsFit(r, o) ==
  \A i \in Inputs : /\ o[i].state # "none" <=> r[i] = "reserved"
                    /\ r[i] = "handled" => i \in Commands
                    /\ r[i] = "delivered" => i \notin Commands

\* Only what was admitted is submitted, and only what becomes a message is queued or entered.
Admitted(r, s, q, f, p) ==
  \A i \in Inputs :
    /\ Times(s \o q, i) > 0 => i \notin Commands /\ r[i] \in {"reserved", "delivered"}
    /\ f[i] > 0 \/ i \in p.todo => r[i] # "none"

\* A worker that is gone leaves no pass and no memory.
Gone(w, p, m, q, f, e) ==
  w = 0 => p = NoPass /\ m = {} /\ q = <<>> /\ e = {} /\ \A i \in Inputs : f[i] = 0

\* What a pass has before it, and what it has read.
PassFits(r, n, p, s) ==
  /\ p.phase \in {"none", "decide"} <=> p.todo = {}
  /\ \A i \in p.todo \cap Commands : r[i] = "reserved"
  /\ p.phase = "handled" => Earliest(n, p.todo) \in Commands
  /\ p.phase = "accepted" => Earliest(n, p.todo) \in Users
  /\ p.phase = "ran" => Earliest(n, p.todo) \in Internal
  /\ \A i \in p.proven : Times(s, i) > 0

\* An internal input is queued once for each worker, and only until it stands in the transcript.
InternalOnce(s, q, e, d) ==
  /\ \A i \in Internal : Times(s \o q, i) <= 1 /\ (Times(s \o q, i) > Times(s, i) => i \in e)
  /\ \A i \in d : Times(s, i) > 0

\* A pass need not submit i: its row is gone, its worker has accepted it, or is about to.
Seen(o, w, n, p, i) ==
  \/ o[i].state = "none"
  \/ o[i].state = "accepted" /\ o[i].gen = w
  \/ p.phase \in {"answer", "accepted"} /\ Earliest(n, p.todo) = i

\* Every pass sees i: the one that goes on, from what it has read, and the next from the transcript.
Shown(o, w, n, p, s, i) ==
  /\ Seen(o, w, n, p, i) \/ Times(s, i) > 0
  /\ i \in p.scope \ (p.proven \cup p.unresolved) => Seen(o, w, n, p, i)
  /\ i \in p.todo => Earliest(n, p.todo) = i

\* A user input is under way once more than its answers were lost only where every pass sees it.
UsersOnce(o, w, n, p, s, q, f, l) ==
  \A i \in Users : /\ Load(s, q, f, i) <= l[i] + 1
                   /\ Load(s, q, f, i) > l[i] => Shown(o, w, n, p, s, i)

\* What is true of the inputs at every moment: an entry is made only while fewer were made than
\* answers were lost, because what is queued and submitted counts as well, and what counts too much
\* is never submitted again.
Fits(r, n, o, s, w, m, p, f, q, e, d, l) ==
  /\ InputsTyped(r, n, o, s, w, m, p, f, q, e, d, l)
  /\ RowsFit(r, o) /\ Admitted(r, s, q, f, p) /\ Gone(w, p, m, q, f, e) /\ PassFits(r, n, p, s)
  /\ InternalOnce(s, q, e, d) /\ UsersOnce(o, w, n, p, s, q, f, l)

InputsSound ==
  Fits(receipt, sequence, row, transcript, worker, tail, pass, flight, queue, enqueued, reports, lapses)

\* The inductive invariant.
InputsInv == SessionTypeOK /\ InputsSound

-----------------------------------------------------------------------------
(* Lemmas about the operators. *)

\* The first admitted of some inputs is one of them, and depends on their numbers alone.
LEMMA EarliestIsOne ==
  ASSUME NEW S, S # {}, NEW n, \A i \in S : n[i] \in Nat
  PROVE  Earliest(n, S) \in S
<1> DEFINE V == {n[i] : i \in S}
           R == OpToRel(<, Nat)
<1>1. IsWellFoundedOn(R, Nat)
  BY NatLessThanWellFounded
<1>2. \A x, y \in Nat : x < y => <<x, y>> \in R
  BY DEF OpToRel
<1>3. V \in SUBSET Nat /\ V # {}
  OBVIOUS
<1> HIDE DEF R, V
<1>4. \E x \in V : \A y \in V : ~(<<y, x>> \in R)
  BY <1>1, <1>3, WFMin
<1>5. \A x, y \in Nat : ~(y < x) => x <= y
  OBVIOUS
<1>6. \E x \in V : \A y \in V : x <= y
  BY <1>2, <1>3, <1>4, <1>5, Zenon
<1>7. \E i \in S : \A j \in S : n[i] <= n[j]
  BY <1>6 DEF V
<1> QED BY <1>7 DEF Earliest

LEMMA EarliestDepends ==
  ASSUME NEW S, NEW m, NEW n, \A i \in S : m[i] = n[i]
  PROVE  Earliest(m, S) = Earliest(n, S)
<1>1. \A i : (i \in S /\ \A j \in S : m[i] <= m[j]) <=> (i \in S /\ \A j \in S : n[i] <= n[j])
  OBVIOUS
<1>2. (CHOOSE i : i \in S /\ \A j \in S : m[i] <= m[j]) = (CHOOSE i : i \in S /\ \A j \in S : n[i] <= n[j])
  BY <1>1
<1>3. Earliest(m, S) = (CHOOSE i : i \in S /\ \A j \in S : m[i] <= m[j])
  BY DEF Earliest
<1> QED BY <1>2, <1>3 DEF Earliest

LEMMA PlacesAre ==
  ASSUME NEW s \in Seq(Inputs), NEW i
  PROVE  /\ IsFiniteSet(Places(s, i)) /\ Places(s, i) \subseteq 1..Len(s) /\ Times(s, i) \in Nat
         /\ Times(s, i) > 0 <=> \E n \in DOMAIN s : s[n] = i
<1>1. IsFiniteSet(1..Len(s)) /\ Places(s, i) \subseteq 1..Len(s)
  BY FS_Interval DEF Places
<1>2. IsFiniteSet(Places(s, i))
  BY <1>1, FS_Subset
<1>3. Times(s, i) \in Nat /\ (Times(s, i) = 0 <=> Places(s, i) = {})
  BY <1>2, FS_CardinalityType, FS_EmptySet DEF Times
<1>4. Times(s, i) > 0 <=> Places(s, i) # {}
  <2>1. \A m \in Nat : m > 0 <=> m # 0
    OBVIOUS
  <2> QED BY <1>3, <2>1
<1> QED BY <1>1, <1>2, <1>3, <1>4 DEF Places

LEMMA TimesAppended ==
  ASSUME NEW s \in Seq(Inputs), NEW e \in Inputs, NEW i
  PROVE  Times(Append(s, e), i) = IF e = i THEN Times(s, i) + 1 ELSE Times(s, i)
<1> DEFINE t == Append(s, e)
           z == Len(s) + 1
<1>1. /\ Len(s) \in Nat /\ DOMAIN s = 1..Len(s) /\ DOMAIN t = 1..z
      /\ t[z] = e /\ \A n \in 1..Len(s) : t[n] = s[n]
  OBVIOUS
<1>2. 1..z = (1..Len(s)) \cup {z} /\ z \notin 1..Len(s)
  BY <1>1
<1>3. IsFiniteSet(Places(s, i)) /\ z \notin Places(s, i)
  BY <1>2, PlacesAre
<1> HIDE DEF t, z
<1>4. CASE e = i
  <2>1. Places(t, i) = Places(s, i) \cup {z}
    BY <1>1, <1>2, <1>4 DEF Places
  <2> QED BY <1>3, <1>4, <2>1, FS_AddElement DEF Times, t
<1>5. CASE e # i
  <2>1. Places(t, i) = Places(s, i)
    BY <1>1, <1>2, <1>5 DEF Places
  <2> QED BY <1>5, <2>1 DEF Times, t
<1> QED BY <1>4, <1>5

\* The transcript and the queue behind it, as one sequence.
LEMMA Ahead ==
  ASSUME NEW s \in Seq(Inputs), NEW q \in Seq(Inputs)
  PROVE  /\ s \o q \in Seq(Inputs) /\ s \o <<>> = s
         /\ \A i : Times(s, i) \in Nat /\ Times(s \o q, i) \in Nat /\ Times(s, i) <= Times(s \o q, i)
         /\ \A e \in Inputs : Append(q, e) \in Seq(Inputs) /\ s \o Append(q, e) = Append(s \o q, e)
         /\ q # <<>> => /\ Head(q) \in Inputs /\ Tail(q) \in Seq(Inputs) /\ Append(s, Head(q)) \in Seq(Inputs)
                        /\ Append(s, Head(q)) \o Tail(q) = s \o q
<1>1. s \o q \in Seq(Inputs) /\ s \o <<>> = s
  BY ConcatEmptySeq
<1>2. \A i : Times(s, i) \in Nat /\ Times(s \o q, i) \in Nat /\ Times(s, i) <= Times(s \o q, i)
  <2> TAKE i
  <2>1. Places(s, i) \subseteq Places(s \o q, i)
    BY <1>1, ConcatProperties DEF Places
  <2>2. IsFiniteSet(Places(s \o q, i)) /\ Times(s, i) \in Nat /\ Times(s \o q, i) \in Nat
    BY <1>1, PlacesAre
  <2> QED BY <2>1, <2>2, FS_Subset DEF Times
<1>3. \A e \in Inputs : Append(q, e) \in Seq(Inputs) /\ s \o Append(q, e) = Append(s \o q, e)
  OBVIOUS
<1>4. q # <<>> => /\ Head(q) \in Inputs /\ Tail(q) \in Seq(Inputs) /\ Append(s, Head(q)) \in Seq(Inputs)
                  /\ Append(s, Head(q)) \o Tail(q) = s \o q
  OBVIOUS
<1> QED BY <1>1, <1>2, <1>3, <1>4

-----------------------------------------------------------------------------
(* The session's part: types only. *)

LEMMA PiecesTyped ==
  ASSUME SessionTypeOK, BoundsAssumption
  PROVE  /\ Start => life' \in {"starting", "resident", "error", "stopped", "passivated"} /\ gen' \in Nat \ {0}
         /\ \A g \in Nat : Flag(g) => flag' \in [Inputs -> Nat]
         /\ \A S : Complete(S) => flag' \in [Inputs -> Nat]
         /\ Trouble => troubles' \in Nat
         /\ WakeEnds => wake' \in {"none", "begin"} /\ again' = FALSE
         /\ PassReturns => wake' \in {"none", "begin", "ready", "pass", "failing"} /\ again' \in BOOLEAN
<1>1. Start => life' \in {"starting", "resident", "error", "stopped", "passivated"} /\ gen' \in Nat \ {0}
  BY DEF SessionTypeOK, Start
<1>2. \A g \in Nat : Flag(g) => flag' \in [Inputs -> Nat]
  <2> SUFFICES ASSUME NEW g \in Nat, Flag(g) PROVE flag' \in [Inputs -> Nat]
    OBVIOUS
  <2>1. flag \in [Inputs -> Nat]
    BY DEF SessionTypeOK
  <2>2. \A i \in Inputs : (IF i \in Pending THEN g ELSE flag[i]) \in Nat
    BY <2>1
  <2> QED BY <2>2 DEF Flag
<1>3. \A S : Complete(S) => flag' \in [Inputs -> Nat]
  <2> SUFFICES ASSUME NEW S, Complete(S) PROVE flag' \in [Inputs -> Nat]
    OBVIOUS
  <2>1. flag \in [Inputs -> Nat]
    BY DEF SessionTypeOK
  <2> QED BY <2>1 DEF Complete
<1>4. Trouble => troubles' \in Nat
  <2>1. \A m \in Nat : m + 1 \in Nat
    OBVIOUS
  <2> QED BY <2>1 DEF SessionTypeOK, Trouble
<1>5. WakeEnds => wake' \in {"none", "begin"} /\ again' = FALSE
  BY DEF WakeEnds
<1>6. PassReturns => wake' \in {"none", "begin", "ready", "pass", "failing"} /\ again' \in BOOLEAN
  BY <1>5 DEF PassReturns, SessionTypeOK
<1> QED BY <1>1, <1>2, <1>3, <1>4, <1>5, <1>6

LEMMA FailuresTyped ==
  ASSUME SessionTypeOK, BoundsAssumption
  PROVE  /\ WakeFailed => /\ flag' \in [Inputs -> Nat] /\ life' = "error"
                          /\ closing' \in {closing, "error"} /\ again' \in BOOLEAN
                          /\ wake' \in {"none", "begin", "failing"}
         /\ PassFails => /\ flag' \in [Inputs -> Nat] /\ life' \in {life, "error"}
                         /\ closing' \in {closing, "error"} /\ again' \in BOOLEAN
                         /\ wake' \in {wake, "none", "begin", "failing"}
<1>1. gen \in Nat /\ again \in BOOLEAN /\ flag \in [Inputs -> Nat]
  BY DEF SessionTypeOK
<1>2. WakeFailed => /\ flag' \in [Inputs -> Nat] /\ life' = "error"
                    /\ closing' \in {closing, "error"} /\ again' \in BOOLEAN
                    /\ wake' \in {"none", "begin", "failing"}
  BY <1>1, PiecesTyped DEF WakeFailed
<1>3. PassFails => /\ flag' \in [Inputs -> Nat] /\ life' \in {life, "error"}
                   /\ closing' \in {closing, "error"} /\ again' \in BOOLEAN
                   /\ wake' \in {wake, "none", "begin", "failing"}
  <2> SUFFICES ASSUME PassFails
               PROVE  /\ flag' \in [Inputs -> Nat] /\ life' \in {life, "error"}
                      /\ closing' \in {closing, "error"} /\ again' \in BOOLEAN
                      /\ wake' \in {wake, "none", "begin", "failing"}
    OBVIOUS
  <2>1. CASE pass.owner = "wake" /\ wake = "pass"
    BY <1>2, <2>1 DEF PassFails
  <2>2. (MayPublish /\ Flag(gen)) \/ flag' = flag => flag' \in [Inputs -> Nat]
    BY <1>1, PiecesTyped
  <2>3. CASE ~(pass.owner = "wake" /\ wake = "pass") /\ pass.owner = "launch"
    BY <1>1, <2>2, <2>3 DEF PassFails
  <2>4. CASE ~(pass.owner = "wake" /\ wake = "pass") /\ pass.owner # "launch"
    BY <1>1, <2>2, <2>4 DEF PassFails
  <2> QED BY <2>1, <2>3, <2>4
<1> QED BY <1>2, <1>3

\* Every step keeps the session's part well typed.
LEMMA SessionSafe ==
  ASSUME SessionTypeOK, BoundsAssumption, Next
  PROVE  SessionTypeOK'
<1> USE PiecesTyped, FailuresTyped DEF session, process, wakes
<1>1. ASSUME NEW i \in Inputs, SubmitInput(i) PROVE SessionTypeOK'
  <2>1. flag' \in [Inputs -> Nat]
    BY <1>1 DEF SubmitInput
  <2> QED BY <1>1, <2>1 DEF SubmitInput, QueueWake, SessionTypeOK
<1>2. ASSUME NEW i \in Inputs, DispatchInternal(i) PROVE SessionTypeOK'
  BY <1>2 DEF DispatchInternal, SessionTypeOK
<1>3. ASSUME NEW i \in Inputs, SubmitToWorker(i) PROVE SessionTypeOK'
  BY <1>3 DEF SubmitToWorker, SessionTypeOK, store
<1>4. ASSUME NEW i \in Inputs, RunInputCommand(i) PROVE SessionTypeOK'
  BY <1>4 DEF RunInputCommand, SessionTypeOK, store
<1>5. ASSUME NEW i \in Inputs, EndInputCommand(i) PROVE SessionTypeOK'
  BY <1>5 DEF EndInputCommand, SessionTypeOK
<1>6. ASSUME NEW i \in Inputs, RecordDelivery(i) PROVE SessionTypeOK'
  <2>1. flag' \in [Inputs -> Nat]
    BY <1>6 DEF RecordDelivery, SessionTypeOK
  <2> QED BY <1>6, <2>1 DEF RecordDelivery, SessionTypeOK
<1>7. ASSUME WakeBegin PROVE SessionTypeOK'
  BY <1>7 DEF WakeBegin, SessionTypeOK, store
<1>8. ASSUME WakeReady PROVE SessionTypeOK'
  BY <1>8 DEF WakeReady, SessionTypeOK, store
<1>9. ASSUME WakeFails PROVE SessionTypeOK'
  <2>1. troubles' \in Nat
    BY <1>9 DEF WakeFails, SessionTypeOK
  <2> QED BY <1>9, <2>1 DEF WakeFails, SessionTypeOK
<1>10. ASSUME DispatchBegin PROVE SessionTypeOK'
  BY <1>10 DEF DispatchBegin, SessionTypeOK, store
<1>11. ASSUME DispatchReady PROVE SessionTypeOK'
  BY <1>11 DEF DispatchReady, SessionTypeOK, store
<1>12. ASSUME DispatchFails PROVE SessionTypeOK'
  <2>1. troubles' \in Nat
    BY <1>12 DEF DispatchFails, SessionTypeOK
  <2> QED BY <1>12, <2>1 DEF DispatchFails, SessionTypeOK, store
<1>13. ASSUME NEW o \in Owners, PassBegin(o) PROVE SessionTypeOK'
  <2>1. wake' \in {"none", "begin", "ready", "pass", "failing"} /\ again' \in BOOLEAN
    BY <1>13 DEF PassBegin, SessionTypeOK
  <2> QED BY <1>13, <2>1 DEF PassBegin, SessionTypeOK, store
<1>14. ASSUME PassDecide PROVE SessionTypeOK'
  <2>1. wake' \in {"none", "begin", "ready", "pass", "failing"} /\ again' \in BOOLEAN
    BY <1>14 DEF PassDecide, SessionTypeOK
  <2>2. flag' \in [Inputs -> Nat]
    BY <1>14 DEF PassDecide, SessionTypeOK
  <2> QED BY <1>14, <2>1, <2>2 DEF PassDecide, SessionTypeOK
<1>15. ASSUME PassSendFails PROVE SessionTypeOK'
  <2>1. PassFails /\ Trouble /\ UNCHANGED <<gen, dispatch, online>>
    BY <1>15 DEF PassSendFails
  <2>2. /\ flag' \in [Inputs -> Nat] /\ life' \in {life, "error"} /\ closing' \in {closing, "error"}
        /\ again' \in BOOLEAN /\ wake' \in {wake, "none", "begin", "failing"} /\ troubles' \in Nat
    BY <2>1
  <2> QED BY <2>1, <2>2 DEF SessionTypeOK
<1>16. ASSUME PassLapses PROVE SessionTypeOK'
  <2>1. PassFails /\ Trouble /\ UNCHANGED <<gen, dispatch, online>>
    BY <1>16 DEF PassLapses
  <2>2. /\ flag' \in [Inputs -> Nat] /\ life' \in {life, "error"} /\ closing' \in {closing, "error"}
        /\ again' \in BOOLEAN /\ wake' \in {wake, "none", "begin", "failing"} /\ troubles' \in Nat
    BY <2>1
  <2> QED BY <2>1, <2>2 DEF SessionTypeOK
<1>17. ASSUME NEW p, Onward(p)
       PROVE  wake' \in {"none", "begin", "ready", "pass", "failing"} /\ again' \in BOOLEAN
  BY <1>17 DEF Onward, SessionTypeOK
<1>18. ASSUME PassAnswered PROVE SessionTypeOK'
  <2>1. flag' \in [Inputs -> Nat]
    BY <1>18 DEF PassAnswered, SessionTypeOK
  <2> QED BY <1>17, <1>18, <2>1 DEF PassAnswered, SessionTypeOK
<1>19. ASSUME PassVerifies PROVE SessionTypeOK'
  <2>1. CASE PassFails
    BY <1>19, <2>1 DEF PassVerifies, SessionTypeOK
  <2>2. CASE /\ flag' = flag \/ \E S : Complete(S)
             /\ \E p : Onward(p)
             /\ UNCHANGED <<life, closing>>
    <3>1. flag' \in [Inputs -> Nat]
      BY <2>2 DEF SessionTypeOK
    <3> QED BY <1>17, <1>19, <2>2, <3>1 DEF PassVerifies, SessionTypeOK
  <2>3. PassFails \/ (/\ flag' = flag \/ \E S : Complete(S)
                      /\ \E p : Onward(p)
                      /\ UNCHANGED <<life, closing>>)
    BY <1>19, Zenon DEF PassVerifies
  <2> QED BY <2>1, <2>2, <2>3
<1>20. ASSUME CommitInput PROVE SessionTypeOK'
  BY <1>20 DEF CommitInput, SessionTypeOK, store
<1>21. ASSUME FlushInputs PROVE SessionTypeOK'
  BY <1>21 DEF FlushInputs, SessionTypeOK, store
<1>22. ASSUME SettledWake PROVE SessionTypeOK'
  <2>1. flag' \in [Inputs -> Nat]
    BY <1>22 DEF SettledWake
  <2> QED BY <1>22, <2>1 DEF SettledWake, QueueWake, SessionTypeOK
<1>23. ASSUME Register PROVE SessionTypeOK'
  BY <1>23 DEF Register, SessionTypeOK, store
<1>24. ASSUME Disconnect PROVE SessionTypeOK'
  BY <1>24 DEF Disconnect, SessionTypeOK, store
<1>25. ASSUME Launch PROVE SessionTypeOK'
  BY <1>25 DEF Launch, SessionTypeOK, store
<1>26. ASSUME LaunchFails PROVE SessionTypeOK'
  BY <1>26 DEF LaunchFails, SessionTypeOK, store
<1>27. ASSUME BecomeResident PROVE SessionTypeOK'
  BY <1>27 DEF BecomeResident, SessionTypeOK, store
<1>28. ASSUME Passivate PROVE SessionTypeOK'
  BY <1>28 DEF Passivate, SessionTypeOK, store
<1>29. ASSUME Stop PROVE SessionTypeOK'
  BY <1>29 DEF Stop, SessionTypeOK, store
<1>30. ASSUME Revive PROVE SessionTypeOK'
  BY <1>30 DEF Revive, SessionTypeOK, store
<1>31. ASSUME WorkerExit PROVE SessionTypeOK'
  <2>1. troubles' \in Nat
    BY <1>31 DEF WorkerExit, SessionTypeOK
  <2>2. flag' \in [Inputs -> Nat]
    BY <1>31 DEF WorkerExit, SessionTypeOK
  <2>3. wake' \in {"none", "begin", "ready", "pass", "failing"} /\ again' \in BOOLEAN
    BY <1>31 DEF WorkerExit, SessionTypeOK
  <2> QED BY <1>31, <2>1, <2>2, <2>3 DEF WorkerExit, SessionTypeOK
<1>32. ASSUME NEW l \in {"starting", "resident", "error", "stopped", "passivated"}, StartDaemon(l)
       PROVE  SessionTypeOK'
  <2>1. troubles' \in Nat /\ flag' \in [Inputs -> Nat]
    BY <1>32 DEF StartDaemon, SessionTypeOK, store
  <2>2. \A m \in Nat \ {0} : m + 1 \in Nat \ {0}
    OBVIOUS
  <2>3. gen' \in {gen, gen + 1} /\ life' \in {"starting", l}
    BY <1>32 DEF StartDaemon
  <2>4. gen' \in Nat \ {0}
    BY <2>2, <2>3 DEF SessionTypeOK
  <2>5. wake' = "none" /\ again' = FALSE /\ dispatch' = "none" /\ online' = FALSE /\ closing' = "none"
    BY <1>32 DEF StartDaemon
  <2> QED BY <1>32, <2>1, <2>3, <2>4, <2>5 DEF SessionTypeOK
<1>33. ASSUME Crash \/ StopAndStart PROVE SessionTypeOK'
  BY <1>32, <1>33 DEF Crash, StopAndStart, SessionTypeOK
<1> QED
  BY <1>1, <1>2, <1>3, <1>4, <1>5, <1>6, <1>7, <1>8, <1>9, <1>10, <1>11, <1>12, <1>13, <1>14, <1>15, <1>16,
     <1>18, <1>19, <1>20, <1>21, <1>22, <1>23, <1>24, <1>25, <1>26, <1>27, <1>28, <1>29, <1>30, <1>31, <1>33
     DEF Next

-----------------------------------------------------------------------------
(* What may change while the inputs still fit. *)

\* Passes may be queued for a worker that is there, and leave the tail.
LEMMA TailFits ==
  ASSUME NEW r, NEW n, NEW o, NEW s, NEW w, NEW m, NEW p, NEW f, NEW q, NEW e, NEW d, NEW l,
         Fits(r, n, o, s, w, m, p, f, q, e, d, l),
         NEW t \in SUBSET Owners, w = 0 => t = {}
  PROVE  Fits(r, n, o, s, w, t, p, f, q, e, d, l)
BY DEF Fits, InputsTyped, Gone

\* How much is under way.
LEMMA LoadIs ==
  ASSUME NEW s \in Seq(Inputs), NEW q \in Seq(Inputs), NEW f \in [Inputs -> Nat]
  PROVE  \A i \in Inputs : /\ Load(s, q, f, i) \in Nat /\ Times(s, i) \in Nat /\ Times(s \o q, i) \in Nat
                           /\ Times(s, i) <= Times(s \o q, i) /\ Times(s \o q, i) <= Load(s, q, f, i)
                           /\ f[i] \in Nat /\ f[i] <= Load(s, q, f, i)
<1> TAKE i \in Inputs
<1>1. Times(s, i) \in Nat /\ Times(s \o q, i) \in Nat /\ Times(s, i) <= Times(s \o q, i) /\ f[i] \in Nat
  BY Ahead
<1>2. \A a, b \in Nat : a + b \in Nat /\ a <= a + b /\ b <= a + b
  OBVIOUS
<1> QED BY <1>1, <1>2 DEF Load

\* Without a worker nothing but the entries themselves counts, so another may be started.
LEMMA LaunchFits ==
  ASSUME NEW r, NEW n, NEW o, NEW s, NEW m, NEW p, NEW f, NEW q, NEW e, NEW d, NEW l,
         Fits(r, n, o, s, 0, m, p, f, q, e, d, l), NEW w \in Nat
  PROVE  Fits(r, n, o, s, w, m, p, f, q, e, d, l)
<1>1. InputsTyped(r, n, o, s, 0, m, p, f, q, e, d, l)
  BY DEF Fits
<1>2. p = NoPass /\ m = {} /\ q = <<>> /\ e = {} /\ \A i \in Inputs : f[i] = 0
  BY DEF Fits, Gone
<1>3. UsersOnce(o, w, n, p, s, q, f, l)
  <2> SUFFICES ASSUME NEW i \in Users
               PROVE  /\ Load(s, q, f, i) <= l[i] + 1
                      /\ Load(s, q, f, i) > l[i] => Shown(o, w, n, p, s, i)
    BY DEF UsersOnce
  <2>1. Load(s, q, f, i) <= l[i] + 1
    BY DEF Fits, UsersOnce
  <2>2. l[i] \in Nat /\ Times(s, i) \in Nat /\ s \o q = s
    BY <1>1, <1>2, Ahead DEF InputsTyped, Users
  <2>3. Load(s, q, f, i) = Times(s, i)
    BY <1>2, <2>2 DEF Load, Users
  <2>4. Load(s, q, f, i) > l[i] => Times(s, i) > 0
    BY <2>2, <2>3
  <2> QED BY <1>2, <2>1, <2>4 DEF Shown, NoPass
<1>4. Gone(w, p, m, q, f, e)
  BY <1>2 DEF Gone
<1> QED BY <1>1, <1>3, <1>4 DEF Fits, InputsTyped

\* A worker that ends leaves the entries.
LEMMA ForgetFits ==
  ASSUME NEW r, NEW n, NEW o, NEW s, NEW w, NEW m, NEW p, NEW f, NEW q, NEW e, NEW d, NEW l,
         Fits(r, n, o, s, w, m, p, f, q, e, d, l)
  PROVE  Fits(r, n, o, s, 0, {}, NoPass, [i \in Inputs |-> 0], <<>>, {}, {}, l)
<1> DEFINE g == [i \in Inputs |-> 0]
<1>1. InputsTyped(r, n, o, s, w, m, p, f, q, e, d, l)
  BY DEF Fits
<1>2. NoPass \in Passes
  BY DEF NoPass, Passes, Phases
<1>3. g \in [Inputs -> Nat] /\ <<>> \in Seq(Inputs) /\ {} \subseteq Inputs /\ {} \subseteq Owners /\ 0 \in Nat
  OBVIOUS
<1>4. s \in Seq(Inputs) /\ q \in Seq(Inputs) /\ s \o <<>> = s
  BY <1>1, Ahead DEF InputsTyped
<1>5. \A i \in Inputs : Load(s, <<>>, g, i) = Times(s, i)
  <2>1. \A a \in Nat : a + 0 = a
    OBVIOUS
  <2>2. \A i \in Inputs : Times(s, i) \in Nat
    BY <1>4, Ahead
  <2> QED BY <1>4, <2>1, <2>2 DEF Load
<1>6. InputsTyped(r, n, o, s, 0, {}, NoPass, g, <<>>, {}, {}, l)
  BY <1>1, <1>2, <1>3 DEF InputsTyped
<1>7. Admitted(r, s, <<>>, g, NoPass)
  <2> SUFFICES ASSUME NEW i \in Inputs
               PROVE  /\ Times(s, i) > 0 => i \notin Commands /\ r[i] \in {"reserved", "delivered"}
                      /\ g[i] = 0
    BY <1>4 DEF Admitted, NoPass
  <2>1. \A a, b \in Nat : a <= b /\ a > 0 => b > 0
    OBVIOUS
  <2>2. Times(s, i) > 0 => Times(s \o q, i) > 0
    BY <1>4, <2>1, Ahead
  <2> QED BY <2>2 DEF Fits, Admitted
<1>8. Gone(0, NoPass, {}, <<>>, g, {})
  BY DEF Gone
<1>9. PassFits(r, n, NoPass, s)
  BY DEF PassFits, NoPass
<1>10. InternalOnce(s, <<>>, {}, {})
  <2> SUFFICES ASSUME NEW i \in Internal PROVE Times(s, i) <= 1 /\ ~(Times(s, i) > Times(s, i))
    BY <1>4 DEF InternalOnce
  <2>1. Times(s \o q, i) <= 1
    BY DEF Fits, InternalOnce
  <2>2. Times(s, i) \in Nat /\ Times(s \o q, i) \in Nat /\ Times(s, i) <= Times(s \o q, i)
    BY <1>4, Ahead
  <2> QED BY <2>1, <2>2
<1>11. UsersOnce(o, 0, n, NoPass, s, <<>>, g, l)
  <2> SUFFICES ASSUME NEW i \in Users
               PROVE  /\ Times(s, i) <= l[i] + 1
                      /\ Times(s, i) > l[i] => Shown(o, 0, n, NoPass, s, i)
    BY <1>5 DEF UsersOnce, Users
  <2>1. Load(s, q, f, i) <= l[i] + 1
    BY DEF Fits, UsersOnce
  <2>2. l[i] \in Nat /\ Load(s, q, f, i) \in Nat /\ Times(s, i) \in Nat /\ Times(s \o q, i) \in Nat
        /\ Times(s, i) <= Times(s \o q, i) /\ Times(s \o q, i) <= Load(s, q, f, i)
    BY <1>1, LoadIs DEF InputsTyped, Users
  <2>3. Times(s, i) > l[i] => Times(s, i) > 0
    BY <2>2
  <2>4. Times(s, i) <= l[i] + 1
    BY <2>1, <2>2
  <2> QED BY <2>3, <2>4 DEF Shown, NoPass
<1>12. RowsFit(r, o)
  BY DEF Fits
<1> QED BY <1>6, <1>7, <1>8, <1>9, <1>10, <1>11, <1>12 DEF Fits

\* A new input has nothing under way.
LEMMA AdmitFits ==
  ASSUME NEW r, NEW n, NEW o, NEW s, NEW w, NEW m, NEW p, NEW f, NEW q, NEW e, NEW d, NEW l,
         Fits(r, n, o, s, w, m, p, f, q, e, d, l),
         NEW i \in Inputs, r[i] = "none", NEW k \in Nat
  PROVE  Fits([r EXCEPT ![i] = "reserved"], [n EXCEPT ![i] = k],
              [o EXCEPT ![i] = [state |-> "queued", gen |-> 0]], s, w, m, p, f, q, e, d, l)
<1> DEFINE new == [state |-> "queued", gen |-> 0]
           r2 == [r EXCEPT ![i] = "reserved"]
           n2 == [n EXCEPT ![i] = k]
           o2 == [o EXCEPT ![i] = new]
<1>1. InputsTyped(r, n, o, s, w, m, p, f, q, e, d, l)
  BY DEF Fits
<1>2. new \in Rows /\ new.state = "queued"
  BY DEF Rows
<1> HIDE DEF new
<1>3. /\ r2[i] = "reserved" /\ o2[i] = new /\ n2[i] = k
      /\ \A j \in Inputs \ {i} : r2[j] = r[j] /\ n2[j] = n[j] /\ o2[j] = o[j]
  BY <1>1 DEF InputsTyped
<1>4. InputsTyped(r2, n2, o2, s, w, m, p, f, q, e, d, l)
  BY <1>1, <1>2 DEF InputsTyped
<1>5. \A j \in Inputs : Load(s, q, f, j) \in Nat /\ Times(s \o q, j) \in Nat /\ f[j] \in Nat /\ l[j] \in Nat
  BY <1>1, LoadIs DEF InputsTyped
<1>6. i \notin p.todo /\ f[i] = 0 /\ Times(s \o q, i) = 0
  <2>1. \A a \in Nat : ~(a > 0) => a = 0
    OBVIOUS
  <2> QED BY <1>5, <2>1 DEF Fits, Admitted
<1>7. p.todo \subseteq Inputs
  BY <1>1 DEF InputsTyped, Passes
<1> HIDE DEF r2, n2, o2
<1>8. Earliest(n2, p.todo) = Earliest(n, p.todo)
  BY <1>3, <1>6, <1>7, EarliestDepends
<1>9. RowsFit(r2, o2)
  BY <1>2, <1>3 DEF Fits, RowsFit
<1>10. Admitted(r2, s, q, f, p)
  BY <1>3, <1>5, <1>6 DEF Fits, Admitted
<1>11. PassFits(r2, n2, p, s)
  BY <1>3, <1>6, <1>7, <1>8 DEF Fits, PassFits
<1>12. UsersOnce(o2, w, n2, p, s, q, f, l)
  <2> SUFFICES ASSUME NEW j \in Users
               PROVE  /\ Load(s, q, f, j) <= l[j] + 1
                      /\ Load(s, q, f, j) > l[j] => Shown(o2, w, n2, p, s, j)
    BY DEF UsersOnce
  <2>1. Load(s, q, f, j) <= l[j] + 1 /\ (Load(s, q, f, j) > l[j] => Shown(o, w, n, p, s, j))
    BY DEF Fits, UsersOnce
  <2>2. CASE j = i
    <3>1. Load(s, q, f, i) = 0
      BY <1>6 DEF Load
    <3>2. ~(Load(s, q, f, j) > l[j])
      BY <1>5, <2>2, <3>1
    <3> QED BY <2>1, <3>2
  <2>3. CASE j # i
    <3>1. o2[j] = o[j]
      BY <1>3, <2>3 DEF Users
    <3>2. Shown(o, w, n, p, s, j) => Shown(o2, w, n2, p, s, j)
      BY <1>8, <3>1 DEF Shown, Seen
    <3> QED BY <2>1, <3>2
  <2> QED BY <2>2, <2>3
<1> QED BY <1>4, <1>9, <1>10, <1>11, <1>12 DEF Fits, r2, n2, o2, new

\* Inputs that stand in the transcript are completed.
LEMMA CompleteFits ==
  ASSUME NEW r, NEW n, NEW o, NEW s, NEW w, NEW m, NEW p, NEW f, NEW q, NEW e, NEW d, NEW l,
         Fits(r, n, o, s, w, m, p, f, q, e, d, l),
         NEW S \in SUBSET Inputs, \A i \in S : r[i] = "reserved" /\ Times(s, i) > 0
  PROVE  Fits([i \in Inputs |-> IF i \in S THEN "delivered" ELSE r[i]], n,
              [i \in Inputs |-> IF i \in S THEN NoRow ELSE o[i]], s, w, m, p, f, q, e, d, l)
<1> DEFINE r2 == [i \in Inputs |-> IF i \in S THEN "delivered" ELSE r[i]]
           o2 == [i \in Inputs |-> IF i \in S THEN NoRow ELSE o[i]]
<1>1. InputsTyped(r, n, o, s, w, m, p, f, q, e, d, l)
  BY DEF Fits
<1>2. NoRow \in Rows /\ NoRow.state = "none"
  BY DEF Rows, NoRow
<1>3. InputsTyped(r2, n, o2, s, w, m, p, f, q, e, d, l)
  BY <1>1, <1>2 DEF InputsTyped
<1>4. /\ \A i \in S : r2[i] = "delivered" /\ o2[i] = NoRow
      /\ \A i \in Inputs \ S : r2[i] = r[i] /\ o2[i] = o[i]
  OBVIOUS
<1>5. \A i \in S : i \notin Commands
  <2>1. \A a, b \in Nat : a <= b /\ a > 0 => b > 0
    OBVIOUS
  <2>2. \A i \in S : Times(s \o q, i) > 0
    BY <1>1, <2>1, Ahead DEF InputsTyped
  <2> QED BY <2>2 DEF Fits, Admitted
<1>6. p.todo \subseteq Inputs
  BY <1>1 DEF InputsTyped, Passes
<1> HIDE DEF r2, o2
<1>7. RowsFit(r2, o2)
  BY <1>2, <1>4, <1>5 DEF Fits, RowsFit
<1>8. Admitted(r2, s, q, f, p)
  BY <1>4 DEF Fits, Admitted
<1>9. PassFits(r2, n, p, s)
  BY <1>4, <1>5, <1>6 DEF Fits, PassFits
<1>10. UsersOnce(o2, w, n, p, s, q, f, l)
  <2>1. \A i \in Inputs : Seen(o, w, n, p, i) => Seen(o2, w, n, p, i)
    BY <1>2, <1>4 DEF Seen
  <2> QED BY <2>1 DEF Fits, UsersOnce, Shown, Users
<1> QED BY <1>3, <1>7, <1>8, <1>9, <1>10 DEF Fits, r2, o2

\* A pass with nothing on its way may read the transcript, or end.
LEMMA ReadFits ==
  ASSUME NEW r, NEW n, NEW o, NEW s, NEW w, NEW m, NEW p, NEW f, NEW q, NEW e, NEW d, NEW l,
         Fits(r, n, o, s, w, m, p, f, q, e, d, l), p.phase \notin {"answer", "accepted"}, w # 0,
         NEW x \in Passes, x.phase = "decide", x.todo = {},
         \A i \in x.proven : Times(s, i) > 0,
         \A i \in x.scope \ (x.proven \cup x.unresolved) : Times(s, i) = 0
  PROVE  Fits(r, n, o, s, w, m, x, f, q, e, d, l)
<1>1. InputsTyped(r, n, o, s, w, m, x, f, q, e, d, l)
  BY DEF Fits, InputsTyped
<1>2. Admitted(r, s, q, f, x)
  BY DEF Fits, Admitted
<1>3. Gone(w, x, m, q, f, e)
  BY DEF Gone, Fits, InputsTyped
<1>4. PassFits(r, n, x, s)
  BY DEF PassFits
<1>5. UsersOnce(o, w, n, x, s, q, f, l)
  <2> SUFFICES ASSUME NEW i \in Users
               PROVE  /\ Load(s, q, f, i) <= l[i] + 1
                      /\ Load(s, q, f, i) > l[i] => Shown(o, w, n, x, s, i)
    BY DEF UsersOnce
  <2>1. Load(s, q, f, i) <= l[i] + 1 /\ (Load(s, q, f, i) > l[i] => Shown(o, w, n, p, s, i))
    BY DEF Fits, UsersOnce
  <2>2. Seen(o, w, n, p, i) => Seen(o, w, n, x, i)
    BY DEF Seen
  <2>3. ~(0 > 0)
    OBVIOUS
  <2> QED BY <2>1, <2>2, <2>3 DEF Shown
<1> QED BY <1>1, <1>2, <1>3, <1>4, <1>5 DEF Fits

LEMMA EndFits ==
  ASSUME NEW r, NEW n, NEW o, NEW s, NEW w, NEW m, NEW p, NEW f, NEW q, NEW e, NEW d, NEW l,
         Fits(r, n, o, s, w, m, p, f, q, e, d, l), p.phase \notin {"answer", "accepted"}
  PROVE  Fits(r, n, o, s, w, m, NoPass, f, q, e, d, l)
<1>1. NoPass \in Passes /\ NoPass.phase = "none" /\ NoPass.todo = {} /\ NoPass.scope = {} /\ NoPass.proven = {}
  BY DEF NoPass, Passes, Phases
<1>2. InputsTyped(r, n, o, s, w, m, NoPass, f, q, e, d, l)
  BY <1>1 DEF Fits, InputsTyped
<1>3. Admitted(r, s, q, f, NoPass)
  BY <1>1 DEF Fits, Admitted
<1>4. Gone(w, NoPass, m, q, f, e)
  BY DEF Gone, Fits
<1>5. PassFits(r, n, NoPass, s)
  BY <1>1 DEF PassFits
<1>6. UsersOnce(o, w, n, NoPass, s, q, f, l)
  <2> SUFFICES ASSUME NEW i \in Users
               PROVE  /\ Load(s, q, f, i) <= l[i] + 1
                      /\ Load(s, q, f, i) > l[i] => Shown(o, w, n, NoPass, s, i)
    BY DEF UsersOnce
  <2>1. Load(s, q, f, i) <= l[i] + 1 /\ (Load(s, q, f, i) > l[i] => Shown(o, w, n, p, s, i))
    BY DEF Fits, UsersOnce
  <2>2. Seen(o, w, n, p, i) => Seen(o, w, n, NoPass, i)
    BY DEF Seen
  <2> QED BY <1>1, <2>1, <2>2 DEF Shown
<1> QED BY <1>2, <1>3, <1>4, <1>5, <1>6 DEF Fits

\* A pass that has dealt with the first of its inputs.
Free(p) == [p EXCEPT !.phase = "decide", !.todo = {}]

LEMMA FreeIs ==
  ASSUME NEW p \in Passes
  PROVE  /\ Free(p) \in Passes /\ Free(p).phase = "decide" /\ Free(p).todo = {}
         /\ Free(p).scope = p.scope /\ Free(p).proven = p.proven /\ Free(p).unresolved = p.unresolved
         /\ \A t \in SUBSET Inputs, h \in Phases :
              /\ [p EXCEPT !.phase = h, !.todo = t] \in Passes
              /\ [Free(p) EXCEPT !.phase = h, !.todo = t] = [p EXCEPT !.phase = h, !.todo = t]
<1>1. \A t \in SUBSET Inputs, h \in Phases : [p EXCEPT !.phase = h, !.todo = t] \in Passes
  BY DEF Passes
<1>2. "decide" \in Phases
  BY DEF Phases
<1>3. /\ Free(p) \in Passes /\ Free(p).phase = "decide" /\ Free(p).todo = {}
      /\ Free(p).scope = p.scope /\ Free(p).proven = p.proven /\ Free(p).unresolved = p.unresolved
  BY <1>1, <1>2 DEF Free, Passes
<1>4. \A t \in SUBSET Inputs, h \in Phases :
        [Free(p) EXCEPT !.phase = h, !.todo = t] = [p EXCEPT !.phase = h, !.todo = t]
  BY DEF Free, Passes
<1> QED BY <1>1, <1>3, <1>4

LEMMA FreeFits ==
  ASSUME NEW r, NEW n, NEW o, NEW s, NEW w, NEW m, NEW p, NEW f, NEW q, NEW e, NEW d, NEW l,
         Fits(r, n, o, s, w, m, p, f, q, e, d, l), p.phase \notin {"answer", "accepted"}, w # 0
  PROVE  Fits(r, n, o, s, w, m, Free(p), f, q, e, d, l)
<1> DEFINE x == Free(p)
<1>1. p \in Passes
  BY DEF Fits, InputsTyped
<1>2. /\ x \in Passes /\ x.phase = "decide" /\ x.todo = {}
      /\ x.scope = p.scope /\ x.proven = p.proven /\ x.unresolved = p.unresolved
  BY <1>1, FreeIs
<1> HIDE DEF x
<1>3. InputsTyped(r, n, o, s, w, m, x, f, q, e, d, l)
  BY <1>2 DEF Fits, InputsTyped
<1>4. Admitted(r, s, q, f, x)
  BY <1>2 DEF Fits, Admitted
<1>5. Gone(w, x, m, q, f, e)
  BY DEF Gone, Fits, InputsTyped
<1>6. PassFits(r, n, x, s)
  BY <1>2 DEF Fits, PassFits
<1>7. UsersOnce(o, w, n, x, s, q, f, l)
  <2> SUFFICES ASSUME NEW i \in Users
               PROVE  /\ Load(s, q, f, i) <= l[i] + 1
                      /\ Load(s, q, f, i) > l[i] => Shown(o, w, n, x, s, i)
    BY DEF UsersOnce
  <2>1. Load(s, q, f, i) <= l[i] + 1 /\ (Load(s, q, f, i) > l[i] => Shown(o, w, n, p, s, i))
    BY DEF Fits, UsersOnce
  <2>2. Seen(o, w, n, p, i) => Seen(o, w, n, x, i)
    BY DEF Seen
  <2> QED BY <1>2, <2>1, <2>2 DEF Shown
<1> QED BY <1>3, <1>4, <1>5, <1>6, <1>7 DEF Fits, x

\* A pass submits only what is not under way too often.
LEMMA SubmitFits ==
  ASSUME NEW r, NEW n, NEW o, NEW s, NEW w, NEW m, NEW p, NEW f, NEW q, NEW e, NEW d, NEW l,
         Fits(r, n, o, s, w, m, p, f, q, e, d, l), p.todo = {}, w # 0,
         NEW T \in SUBSET Inputs, T # {},
         \A i \in T : /\ r[i] # "none" /\ (i \in Commands => r[i] = "reserved")
                      /\ i \in Users => Load(s, q, f, i) <= l[i]
  PROVE  /\ Earliest(n, T) \in T
         /\ Fits(r, n, o, s, w, m, [p EXCEPT !.phase = "answer", !.todo = T],
                 [f EXCEPT ![Earliest(n, T)] = @ + 1], q, e, d, l)
<1> DEFINE x == [p EXCEPT !.phase = "answer", !.todo = T]
           c == Earliest(n, T)
           g == [f EXCEPT ![c] = f[c] + 1]
<1>1. InputsTyped(r, n, o, s, w, m, p, f, q, e, d, l)
  BY DEF Fits
<1>2. c \in T
  BY <1>1, EarliestIsOne DEF InputsTyped
<1> HIDE DEF c
<1>3. x \in Passes
  BY <1>1, FreeIs DEF Phases, InputsTyped
<1>4. /\ x.phase = "answer" /\ x.todo = T
      /\ x.scope = p.scope /\ x.proven = p.proven /\ x.unresolved = p.unresolved
  BY <1>1 DEF InputsTyped, Passes
<1> HIDE DEF x
<1>5. g \in [Inputs -> Nat] /\ g[c] = f[c] + 1 /\ \A i \in Inputs \ {c} : g[i] = f[i]
  BY <1>1, <1>2 DEF InputsTyped
<1> HIDE DEF g
<1>6. /\ \A i \in Inputs : Load(s, q, f, i) \in Nat /\ l[i] \in Nat
      /\ Load(s, q, g, c) = Load(s, q, f, c) + 1
      /\ \A i \in Inputs \ {c} : Load(s, q, g, i) = Load(s, q, f, i)
  <2>1. \A i \in Inputs : Load(s, q, f, i) \in Nat /\ l[i] \in Nat /\ Times(s \o q, i) \in Nat /\ f[i] \in Nat
    BY <1>1, LoadIs DEF InputsTyped
  <2>2. \A a, b \in Nat : a + (b + 1) = (a + b) + 1
    OBVIOUS
  <2> QED BY <1>2, <1>5, <2>1, <2>2 DEF Load
<1>7. p.phase \in {"none", "decide"}
  BY DEF Fits, PassFits
<1>8. InputsTyped(r, n, o, s, w, m, x, g, q, e, d, l)
  BY <1>1, <1>3, <1>5 DEF InputsTyped
<1>9. Admitted(r, s, q, g, x)
  BY <1>2, <1>4, <1>5 DEF Fits, Admitted
<1>10. Gone(w, x, m, q, g, e)
  BY DEF Gone
<1>11. PassFits(r, n, x, s)
  BY <1>4 DEF Fits, PassFits
<1>12. UsersOnce(o, w, n, x, s, q, g, l)
  <2> SUFFICES ASSUME NEW i \in Users
               PROVE  /\ Load(s, q, g, i) <= l[i] + 1
                      /\ Load(s, q, g, i) > l[i] => Shown(o, w, n, x, s, i)
    BY DEF UsersOnce
  <2>1. Load(s, q, f, i) <= l[i] + 1 /\ (Load(s, q, f, i) > l[i] => Shown(o, w, n, p, s, i))
    BY DEF Fits, UsersOnce
  <2>2. CASE i = c
    <3>1. \A a, b \in Nat : a <= b => a + 1 <= b + 1
      OBVIOUS
    <3>2. Load(s, q, g, i) <= l[i] + 1
      BY <1>2, <1>6, <2>2, <3>1 DEF Users
    <3>3. Seen(o, w, n, x, i)
      BY <1>4, <2>2 DEF Seen, c
    <3> QED BY <1>4, <2>2, <3>2, <3>3 DEF Shown, c
  <2>3. CASE i # c
    <3>1. Load(s, q, g, i) = Load(s, q, f, i)
      BY <1>6, <2>3 DEF Users
    <3>2. Load(s, q, f, i) > l[i] => i \notin T
      <4>1. \A a, b \in Nat : ~(a > b /\ a <= b)
        OBVIOUS
      <4> QED BY <1>6, <4>1 DEF Users
    <3>3. Seen(o, w, n, p, i) => Seen(o, w, n, x, i)
      BY <1>7 DEF Seen
    <3> QED BY <1>4, <2>1, <3>1, <3>2, <3>3 DEF Shown
  <2> QED BY <2>2, <2>3
<1>13. Fits(r, n, o, s, w, m, x, g, q, e, d, l)
  BY <1>8, <1>9, <1>10, <1>11, <1>12 DEF Fits
<1> QED BY <1>2, <1>13 DEF x, g, c

\* The answer of an accepted input is recorded, while it still has its row.
LEMMA AcceptFits ==
  ASSUME NEW r, NEW n, NEW o, NEW s, NEW w, NEW m, NEW p, NEW f, NEW q, NEW e, NEW d, NEW l,
         Fits(r, n, o, s, w, m, p, f, q, e, d, l), p.phase = "accepted", w # 0,
         NEW c, c = Earliest(n, p.todo)
  PROVE  /\ c \in p.todo
         /\ Fits(r, n, IF o[c].state = "none" THEN o ELSE [o EXCEPT ![c] = [state |-> "accepted", gen |-> w]],
                 s, w, m, Free(p), f, q, e, d, l)
<1> DEFINE new == [state |-> "accepted", gen |-> w]
           o2 == IF o[c].state = "none" THEN o ELSE [o EXCEPT ![c] = new]
           x == Free(p)
<1>1. InputsTyped(r, n, o, s, w, m, p, f, q, e, d, l)
  BY DEF Fits
<1>2. c \in p.todo /\ c \in Users /\ p.todo \subseteq Inputs
  <2>1. p.todo # {} /\ c \in Users
    BY DEF Fits, PassFits
  <2>2. p.todo \subseteq Inputs
    BY <1>1 DEF InputsTyped, Passes
  <2> QED BY <1>1, <2>1, <2>2, EarliestIsOne DEF InputsTyped
<1>3. new \in Rows /\ new.state = "accepted" /\ new.gen = w
  BY <1>1 DEF Rows, InputsTyped
<1> HIDE DEF new
<1>4. o2 \in [Inputs -> Rows] /\ o2[c] \in {o[c], new} /\ (o[c].state # "none" => o2[c] = new)
      /\ (o[c].state = "none" => o2 = o) /\ \A i \in Inputs \ {c} : o2[i] = o[i]
  BY <1>1, <1>2, <1>3 DEF InputsTyped
<1>5. /\ x \in Passes /\ x.phase = "decide" /\ x.todo = {}
      /\ x.scope = p.scope /\ x.proven = p.proven /\ x.unresolved = p.unresolved
  BY <1>1, FreeIs DEF InputsTyped
<1> HIDE DEF x, o2
<1>6. InputsTyped(r, n, o2, s, w, m, x, f, q, e, d, l)
  BY <1>1, <1>4, <1>5 DEF InputsTyped
<1>7. RowsFit(r, o2)
  BY <1>3, <1>4 DEF Fits, RowsFit
<1>8. Admitted(r, s, q, f, x)
  BY <1>5 DEF Fits, Admitted
<1>9. Gone(w, x, m, q, f, e)
  BY DEF Gone
<1>10. PassFits(r, n, x, s)
  BY <1>5 DEF Fits, PassFits
<1>11. UsersOnce(o2, w, n, x, s, q, f, l)
  <2> SUFFICES ASSUME NEW i \in Users
               PROVE  /\ Load(s, q, f, i) <= l[i] + 1
                      /\ Load(s, q, f, i) > l[i] => Shown(o2, w, n, x, s, i)
    BY DEF UsersOnce
  <2>1. Load(s, q, f, i) <= l[i] + 1 /\ (Load(s, q, f, i) > l[i] => Shown(o, w, n, p, s, i))
    BY DEF Fits, UsersOnce
  <2>2. Seen(o, w, n, p, i) => Seen(o2, w, n, x, i)
    <3>1. CASE i = c
      BY <1>3, <1>4, <3>1 DEF Seen
    <3>2. CASE i # c
      BY <1>4, <3>2 DEF Seen, Users
    <3> QED BY <3>1, <3>2
  <2> QED BY <1>5, <2>1, <2>2 DEF Shown
<1>12. Fits(r, n, o2, s, w, m, x, f, q, e, d, l)
  BY <1>6, <1>7, <1>8, <1>9, <1>10, <1>11, Zenon DEF Fits, InternalOnce
<1> QED BY <1>2, <1>12 DEF x, o2, new

\* A command that is answered is handled.
LEMMA HandleFits ==
  ASSUME NEW r, NEW n, NEW o, NEW s, NEW w, NEW m, NEW p, NEW f, NEW q, NEW e, NEW d, NEW l,
         Fits(r, n, o, s, w, m, p, f, q, e, d, l), p.phase = "handled", w # 0,
         NEW c, c = Earliest(n, p.todo)
  PROVE  Fits([r EXCEPT ![c] = "handled"], n, [o EXCEPT ![c] = NoRow], s, w, m, Free(p), f, q, e, d, l)
<1> DEFINE r2 == [r EXCEPT ![c] = "handled"]
           o2 == [o EXCEPT ![c] = NoRow]
           x == Free(p)
<1>1. InputsTyped(r, n, o, s, w, m, p, f, q, e, d, l)
  BY DEF Fits
<1>2. c \in p.todo /\ c \in Commands /\ p.todo \subseteq Inputs /\ r[c] = "reserved"
  <2>1. p.todo # {} /\ c \in Commands
    BY DEF Fits, PassFits
  <2>2. p.todo \subseteq Inputs
    BY <1>1 DEF InputsTyped, Passes
  <2>3. c \in p.todo
    BY <1>1, <2>1, <2>2, EarliestIsOne DEF InputsTyped
  <2> QED BY <2>1, <2>2, <2>3 DEF Fits, PassFits
<1>3. NoRow \in Rows /\ NoRow.state = "none"
  BY DEF Rows, NoRow
<1>4. r2 \in [Inputs -> {"none", "reserved", "delivered", "handled"}] /\ o2 \in [Inputs -> Rows]
      /\ r2[c] = "handled" /\ o2[c] = NoRow /\ \A i \in Inputs \ {c} : r2[i] = r[i] /\ o2[i] = o[i]
  BY <1>1, <1>2, <1>3 DEF InputsTyped
<1>5. /\ x \in Passes /\ x.phase = "decide" /\ x.todo = {}
      /\ x.scope = p.scope /\ x.proven = p.proven /\ x.unresolved = p.unresolved
  BY <1>1, FreeIs DEF InputsTyped
<1> HIDE DEF x, o2, r2
<1>6. InputsTyped(r2, n, o2, s, w, m, x, f, q, e, d, l)
  BY <1>1, <1>4, <1>5 DEF InputsTyped
<1>7. RowsFit(r2, o2)
  BY <1>2, <1>3, <1>4 DEF Fits, RowsFit
<1>8. Admitted(r2, s, q, f, x)
  BY <1>2, <1>4, <1>5 DEF Fits, Admitted
<1>9. Gone(w, x, m, q, f, e)
  BY DEF Gone
<1>10. PassFits(r2, n, x, s)
  BY <1>5 DEF Fits, PassFits
<1>11. UsersOnce(o2, w, n, x, s, q, f, l)
  <2> SUFFICES ASSUME NEW i \in Users
               PROVE  /\ Load(s, q, f, i) <= l[i] + 1
                      /\ Load(s, q, f, i) > l[i] => Shown(o2, w, n, x, s, i)
    BY DEF UsersOnce
  <2>1. Load(s, q, f, i) <= l[i] + 1 /\ (Load(s, q, f, i) > l[i] => Shown(o, w, n, p, s, i))
    BY DEF Fits, UsersOnce
  <2>2. Seen(o, w, n, p, i) => Seen(o2, w, n, x, i)
    BY <1>2, <1>4 DEF Seen, Users
  <2> QED BY <1>5, <2>1, <2>2 DEF Shown
<1>12. Fits(r2, n, o2, s, w, m, x, f, q, e, d, l)
  BY <1>6, <1>7, <1>8, <1>9, <1>10, <1>11, Zenon DEF Fits, InternalOnce
<1> QED BY <1>12 DEF x, o2, r2

\* A pass may end before the first of its inputs is submitted, and when its answer is lost.
LEMMA AbandonFits ==
  ASSUME NEW r, NEW n, NEW o, NEW s, NEW w, NEW m, NEW p, NEW f, NEW q, NEW e, NEW d, NEW l,
         Fits(r, n, o, s, w, m, p, f, q, e, d, l), p.phase = "answer",
         NEW c, c = Earliest(n, p.todo), NEW g \in [Inputs -> Nat], NEW k \in [Inputs -> Nat],
         \/ k = l /\ f[c] > 0 /\ g = [f EXCEPT ![c] = @ - 1]
         \/ g = f /\ k = [l EXCEPT ![c] = @ + 1]
  PROVE  Fits(r, n, o, s, w, m, NoPass, g, q, e, d, k)
<1>1. InputsTyped(r, n, o, s, w, m, p, f, q, e, d, l)
  BY DEF Fits
<1>2. NoPass \in Passes /\ NoPass.phase = "none" /\ NoPass.todo = {} /\ NoPass.scope = {} /\ NoPass.proven = {}
  BY DEF NoPass, Passes, Phases
<1>3. c \in p.todo /\ p.todo \subseteq Inputs
  <2>1. p.todo # {}
    BY DEF Fits, PassFits
  <2>2. p.todo \subseteq Inputs
    BY <1>1 DEF InputsTyped, Passes
  <2> QED BY <1>1, <2>1, <2>2, EarliestIsOne DEF InputsTyped
<1>4. \A i \in Inputs : f[i] \in Nat /\ l[i] \in Nat /\ g[i] \in Nat /\ Load(s, q, f, i) \in Nat /\ Times(s \o q, i) \in Nat
  BY <1>1, LoadIs DEF InputsTyped
<1>5. /\ \A i \in Inputs : g[i] > 0 => f[i] > 0
      /\ \A i \in Inputs \ {c} : g[i] = f[i] /\ k[i] = l[i]
      /\ \/ g[c] = f[c] - 1 /\ f[c] > 0 /\ k[c] = l[c]
         \/ g[c] = f[c] /\ k[c] = l[c] + 1
  BY <1>1, <1>3, <1>4 DEF InputsTyped
<1>6. InputsTyped(r, n, o, s, w, m, NoPass, g, q, e, d, k)
  BY <1>1, <1>2 DEF InputsTyped
<1>7. Admitted(r, s, q, g, NoPass)
  BY <1>2, <1>5 DEF Fits, Admitted
<1>8. Gone(w, NoPass, m, q, g, e)
  BY <1>2, <1>3 DEF Gone, Fits
<1>9. PassFits(r, n, NoPass, s)
  BY <1>2 DEF PassFits
<1>10. UsersOnce(o, w, n, NoPass, s, q, g, k)
  <2> SUFFICES ASSUME NEW i \in Users
               PROVE  /\ Load(s, q, g, i) <= k[i] + 1
                      /\ Load(s, q, g, i) > k[i] => Shown(o, w, n, NoPass, s, i)
    BY DEF UsersOnce
  <2>1. Load(s, q, f, i) <= l[i] + 1 /\ (Load(s, q, f, i) > l[i] => Shown(o, w, n, p, s, i))
    BY DEF Fits, UsersOnce
  <2>2. CASE i = c
    <3>1. \A a, b, z \in Nat : a + b <= z + 1 /\ b > 0 => a + (b - 1) <= z
      OBVIOUS
    <3>2. \A a, z \in Nat : a <= z => a <= z + 1 /\ ~(a > z)
      OBVIOUS
    <3>3. Load(s, q, g, i) <= k[i] /\ Load(s, q, g, i) \in Nat /\ k[i] \in Nat
      <4>1. CASE g[c] = f[c] - 1 /\ f[c] > 0 /\ k[c] = l[c]
        <5>1. Times(s \o q, c) + f[c] <= l[c] + 1
          BY <2>1, <2>2 DEF Load
        <5>2. Times(s \o q, c) + g[c] <= k[c]
          BY <1>3, <1>4, <3>1, <4>1, <5>1
        <5>3. Times(s \o q, c) + g[c] \in Nat
          BY <1>3, <1>4
        <5> QED BY <1>3, <1>4, <2>2, <5>2, <5>3, <4>1 DEF Load
      <4>2. CASE g[c] = f[c] /\ k[c] = l[c] + 1
        BY <1>3, <1>4, <2>1, <2>2, <4>2 DEF Load
      <4> QED BY <1>5, <4>1, <4>2
    <3> QED BY <3>2, <3>3
  <2>3. CASE i # c
    <3>1. Load(s, q, g, i) = Load(s, q, f, i) /\ k[i] = l[i]
      BY <1>5, <2>3 DEF Load, Users
    <3>2. Seen(o, w, n, p, i) => Seen(o, w, n, NoPass, i)
      BY <2>3 DEF Seen
    <3> QED BY <1>2, <2>1, <3>1, <3>2 DEF Shown
  <2> QED BY <2>2, <2>3
<1> QED BY <1>6, <1>7, <1>8, <1>9, <1>10 DEF Fits

\* The answer of a submission reaches the pass that waits for it.
LEMMA AnswerFits ==
  ASSUME NEW r, NEW n, NEW o, NEW s, NEW w, NEW m, NEW p, NEW f, NEW q, NEW e, NEW d, NEW l,
         Fits(r, n, o, s, w, m, p, f, q, e, d, l), p.phase = "answer", w # 0,
         NEW h, \/ h = "handled" /\ Earliest(n, p.todo) \in Commands
                \/ h = "accepted" /\ Earliest(n, p.todo) \in Users
                \/ h = "ran" /\ Earliest(n, p.todo) \in Internal
  PROVE  Fits(r, n, o, s, w, m, [p EXCEPT !.phase = h], f, q, e, d, l)
<1> DEFINE x == [p EXCEPT !.phase = h]
<1>1. /\ x \in Passes /\ x.phase = h /\ x.todo = p.todo
      /\ x.scope = p.scope /\ x.proven = p.proven /\ x.unresolved = p.unresolved
  BY DEF Passes, Phases, Fits, InputsTyped
<1> HIDE DEF x
<1>2. InputsTyped(r, n, o, s, w, m, x, f, q, e, d, l)
  BY <1>1 DEF Fits, InputsTyped
<1>3. Admitted(r, s, q, f, x)
  BY <1>1 DEF Fits, Admitted
<1>4. Gone(w, x, m, q, f, e)
  BY DEF Gone
<1>5. PassFits(r, n, x, s)
  BY <1>1 DEF Fits, PassFits
<1>6. UsersOnce(o, w, n, x, s, q, f, l)
  <2> SUFFICES ASSUME NEW i \in Users
               PROVE  /\ Load(s, q, f, i) <= l[i] + 1
                      /\ Load(s, q, f, i) > l[i] => Shown(o, w, n, x, s, i)
    BY DEF UsersOnce
  <2>1. Load(s, q, f, i) <= l[i] + 1 /\ (Load(s, q, f, i) > l[i] => Shown(o, w, n, p, s, i))
    BY DEF Fits, UsersOnce
  <2>2. Seen(o, w, n, p, i) => Seen(o, w, n, x, i)
    BY <1>1 DEF Seen, Users
  <2> QED BY <1>1, <2>1, <2>2 DEF Shown
<1> QED BY <1>2, <1>3, <1>4, <1>5, <1>6 DEF Fits, x

LEMMA TimesQueued ==
  ASSUME NEW s \in Seq(Inputs), NEW q \in Seq(Inputs), NEW c \in Inputs
  PROVE  /\ Append(q, c) \in Seq(Inputs)
         /\ \A i : Times(s \o Append(q, c), i) = IF c = i THEN Times(s \o q, i) + 1 ELSE Times(s \o q, i)
<1> DEFINE u == s \o q
<1>1. u \in Seq(Inputs) /\ Append(q, c) \in Seq(Inputs) /\ s \o Append(q, c) = Append(u, c)
  OBVIOUS
<1> HIDE DEF u
<1>2. \A i : Times(Append(u, c), i) = IF c = i THEN Times(u, i) + 1 ELSE Times(u, i)
  BY <1>1, TimesAppended
<1> QED BY <1>1, <1>2 DEF u

\* A submission that is answered joins the queue, unless it is no message of a user.
LEMMA QueueFits ==
  ASSUME NEW r, NEW n, NEW o, NEW s, NEW w, NEW m, NEW p, NEW f, NEW q, NEW e, NEW d, NEW l,
         Fits(r, n, o, s, w, m, p, f, q, e, d, l), w # 0,
         NEW c \in Users, f[c] > 0
  PROVE  Fits(r, n, o, s, w, m, p, [f EXCEPT ![c] = @ - 1], Append(q, c), e, d, l)
<1> DEFINE g == [f EXCEPT ![c] = f[c] - 1]
           z == Append(q, c)
<1>1. InputsTyped(r, n, o, s, w, m, p, f, q, e, d, l)
  BY DEF Fits
<1>2. c \in Inputs /\ c \notin Internal /\ c \notin Commands
  BY DEF Users
<1>3. \A i \in Inputs : f[i] \in Nat /\ l[i] \in Nat /\ Times(s \o q, i) \in Nat /\ Load(s, q, f, i) \in Nat
  BY <1>1, LoadIs DEF InputsTyped
<1>4. s \in Seq(Inputs) /\ q \in Seq(Inputs)
  BY <1>1 DEF InputsTyped
<1>5. /\ z \in Seq(Inputs) /\ \A i \in Inputs \ {c} : Times(s \o z, i) = Times(s \o q, i)
      /\ Times(s \o z, c) = Times(s \o q, c) + 1
  BY <1>2, <1>4, TimesQueued
<1> HIDE DEF z
<1>6. f[c] - 1 \in Nat /\ f[c] \in Nat
  BY <1>2, <1>3
<1>7. g \in [Inputs -> Nat] /\ g[c] = f[c] - 1 /\ \A i \in Inputs \ {c} : g[i] = f[i]
  BY <1>1, <1>2, <1>6 DEF InputsTyped
<1> HIDE DEF g
<1>8. \A i \in Inputs : Load(s, z, g, i) = Load(s, q, f, i)
  <2>1. \A a, b \in Nat : b > 0 => (a + 1) + (b - 1) = a + b
    OBVIOUS
  <2>2. Load(s, z, g, c) = Load(s, q, f, c)
    <3>1. Times(s \o q, c) \in Nat /\ f[c] \in Nat
      BY <1>2, <1>3
    <3>2. (Times(s \o q, c) + 1) + (f[c] - 1) = Times(s \o q, c) + f[c]
      BY <2>1, <3>1
    <3> QED BY <1>5, <1>7, <3>2 DEF Load
  <2>3. \A i \in Inputs \ {c} : Load(s, z, g, i) = Load(s, q, f, i)
    BY <1>5, <1>7 DEF Load
  <2> QED BY <2>2, <2>3
<1>9. InputsTyped(r, n, o, s, w, m, p, g, z, e, d, l)
  BY <1>1, <1>5, <1>7 DEF InputsTyped
<1>10. Admitted(r, s, z, g, p)
  <2> SUFFICES ASSUME NEW i \in Inputs
               PROVE  /\ Times(s \o z, i) > 0 => i \notin Commands /\ r[i] \in {"reserved", "delivered"}
                      /\ g[i] > 0 \/ i \in p.todo => r[i] # "none"
    BY DEF Admitted
  <2>1. CASE i = c
    <3>1. r[c] # "none"
      BY <1>2 DEF Fits, Admitted
    <3>2. r[c] # "handled"
      BY <1>2 DEF Fits, RowsFit
    <3>3. r[c] \in {"none", "reserved", "delivered", "handled"}
      BY <1>1, <1>2 DEF InputsTyped
    <3> QED BY <1>2, <2>1, <3>1, <3>2, <3>3
  <2>2. CASE i # c
    BY <1>5, <1>7, <2>2 DEF Fits, Admitted
  <2> QED BY <2>1, <2>2
<1>11. Gone(w, p, m, z, g, e)
  BY DEF Gone
<1>12. InternalOnce(s, z, e, d)
  <2> SUFFICES ASSUME NEW i \in Internal
               PROVE  Times(s \o z, i) <= 1 /\ (Times(s \o z, i) > Times(s, i) => i \in e)
    BY DEF Fits, InternalOnce
  <2>1. i # c
    BY <1>2
  <2>2. i \in Inputs
    BY InputsAssumption
  <2> QED BY <1>5, <2>1, <2>2 DEF Fits, InternalOnce
<1>13. UsersOnce(o, w, n, p, s, z, g, l)
  BY <1>8 DEF Fits, UsersOnce, Users
<1> QED BY <1>9, <1>10, <1>11, <1>12, <1>13 DEF Fits, g, z

LEMMA AnsweredFits ==
  ASSUME NEW r, NEW n, NEW o, NEW s, NEW w, NEW m, NEW p, NEW f, NEW q, NEW e, NEW d, NEW l,
         Fits(r, n, o, s, w, m, p, f, q, e, d, l), w # 0,
         NEW c \in Inputs \ Users, f[c] > 0
  PROVE  Fits(r, n, o, s, w, m, p, [f EXCEPT ![c] = @ - 1], q, e, d, l)
<1> DEFINE g == [f EXCEPT ![c] = f[c] - 1]
<1>1. InputsTyped(r, n, o, s, w, m, p, f, q, e, d, l)
  BY DEF Fits
<1>2. f[c] - 1 \in Nat
  BY <1>1 DEF InputsTyped
<1>3. g \in [Inputs -> Nat] /\ \A i \in Inputs \ {c} : g[i] = f[i]
  BY <1>1, <1>2 DEF InputsTyped
<1> HIDE DEF g
<1>4. InputsTyped(r, n, o, s, w, m, p, g, q, e, d, l)
  BY <1>1, <1>3 DEF InputsTyped
<1>5. Admitted(r, s, q, g, p)
  BY <1>3 DEF Fits, Admitted
<1>6. Gone(w, p, m, q, g, e)
  BY DEF Gone
<1>7. \A i \in Users : Load(s, q, g, i) = Load(s, q, f, i)
  BY <1>3 DEF Load, Users
<1>8. UsersOnce(o, w, n, p, s, q, g, l)
  BY <1>7 DEF Fits, UsersOnce
<1> QED BY <1>4, <1>5, <1>6, <1>8 DEF Fits, g

\* The input command queues an internal input that this worker has not queued and that does not
\* stand in the transcript.
LEMMA EnqueueFits ==
  ASSUME NEW r, NEW n, NEW o, NEW s, NEW w, NEW m, NEW p, NEW f, NEW q, NEW e, NEW d, NEW l,
         Fits(r, n, o, s, w, m, p, f, q, e, d, l), w # 0,
         NEW c \in Internal, f[c] > 0, Times(s, c) = 0, c \notin e
  PROVE  Fits(r, n, o, s, w, m, p, f, Append(q, c), e \cup {c}, d, l)
<1> DEFINE z == Append(q, c)
<1>1. InputsTyped(r, n, o, s, w, m, p, f, q, e, d, l)
  BY DEF Fits
<1>2. c \in Inputs /\ c \notin Users /\ c \notin Commands /\ Internal \subseteq Inputs
  BY InputsAssumption DEF Users
<1>3. s \in Seq(Inputs) /\ q \in Seq(Inputs)
  BY <1>1 DEF InputsTyped
<1>4. \A i \in Inputs : Times(s, i) \in Nat /\ Times(s \o q, i) \in Nat /\ Times(s, i) <= Times(s \o q, i)
  BY <1>3, Ahead
<1>5. /\ z \in Seq(Inputs) /\ \A i \in Inputs \ {c} : Times(s \o z, i) = Times(s \o q, i)
      /\ Times(s \o z, c) = Times(s \o q, c) + 1
  BY <1>2, <1>3, TimesQueued
<1> HIDE DEF z
<1>6. Times(s \o z, c) = 1
  <2>1. ~(Times(s \o q, c) > Times(s, c))
    BY DEF Fits, InternalOnce
  <2>2. \A a \in Nat : ~(a > 0) => a + 1 = 1
    OBVIOUS
  <2> QED BY <1>2, <1>4, <1>5, <2>1, <2>2
<1>7. InputsTyped(r, n, o, s, w, m, p, f, z, e \cup {c}, d, l)
  BY <1>1, <1>2, <1>5 DEF InputsTyped
<1>8. Admitted(r, s, z, f, p)
  <2> SUFFICES ASSUME NEW i \in Inputs
               PROVE  /\ Times(s \o z, i) > 0 => i \notin Commands /\ r[i] \in {"reserved", "delivered"}
                      /\ f[i] > 0 \/ i \in p.todo => r[i] # "none"
    BY DEF Admitted
  <2>1. CASE i = c
    <3>1. r[c] # "none"
      BY <1>2 DEF Fits, Admitted
    <3>2. r[c] # "handled"
      BY <1>2 DEF Fits, RowsFit
    <3>3. r[c] \in {"none", "reserved", "delivered", "handled"}
      BY <1>1, <1>2 DEF InputsTyped
    <3> QED BY <1>2, <2>1, <3>1, <3>2, <3>3
  <2>2. CASE i # c
    BY <1>5, <2>2 DEF Fits, Admitted
  <2> QED BY <2>1, <2>2
<1>9. Gone(w, p, m, z, f, e \cup {c})
  BY DEF Gone
<1>10. InternalOnce(s, z, e \cup {c}, d)
  <2> SUFFICES ASSUME NEW i \in Internal
               PROVE  Times(s \o z, i) <= 1 /\ (Times(s \o z, i) > Times(s, i) => i \in e \cup {c})
    BY DEF Fits, InternalOnce
  <2>1. CASE i = c
    BY <1>6, <2>1
  <2>2. CASE i # c
    BY <1>2, <1>5, <2>2 DEF Fits, InternalOnce
  <2> QED BY <2>1, <2>2
<1>11. \A i \in Users : Load(s, z, f, i) = Load(s, q, f, i)
  BY <1>2, <1>5 DEF Load, Users
<1>12. UsersOnce(o, w, n, p, s, z, f, l)
  BY <1>11 DEF Fits, UsersOnce
<1> QED BY <1>7, <1>8, <1>9, <1>10, <1>12 DEF Fits, z

\* The extension accepts an internal input that has its row.
LEMMA AcceptInternalFits ==
  ASSUME NEW r, NEW n, NEW o, NEW s, NEW w, NEW m, NEW p, NEW f, NEW q, NEW e, NEW d, NEW l,
         Fits(r, n, o, s, w, m, p, f, q, e, d, l),
         NEW c \in Internal, o[c].state # "none"
  PROVE  Fits(r, n, [o EXCEPT ![c] = [state |-> "accepted", gen |-> w]], s, w, m, p, f, q, e, d, l)
<1> DEFINE new == [state |-> "accepted", gen |-> w]
           o2 == [o EXCEPT ![c] = new]
<1>1. InputsTyped(r, n, o, s, w, m, p, f, q, e, d, l)
  BY DEF Fits
<1>2. c \in Inputs /\ c \notin Users
  BY InputsAssumption DEF Users
<1>3. new \in Rows /\ new.state = "accepted"
  BY <1>1 DEF Rows, InputsTyped
<1> HIDE DEF new
<1>4. o2 \in [Inputs -> Rows] /\ o2[c] = new /\ \A i \in Inputs \ {c} : o2[i] = o[i]
  BY <1>1, <1>2, <1>3 DEF InputsTyped
<1> HIDE DEF o2
<1>5. InputsTyped(r, n, o2, s, w, m, p, f, q, e, d, l)
  BY <1>1, <1>4 DEF InputsTyped
<1>6. RowsFit(r, o2)
  BY <1>3, <1>4 DEF Fits, RowsFit
<1>7. \A i \in Users : o2[i] = o[i]
  BY <1>2, <1>4 DEF Users
<1>8. UsersOnce(o2, w, n, p, s, q, f, l)
  BY <1>7 DEF Fits, UsersOnce, Shown, Seen
<1> QED BY <1>5, <1>6, <1>8 DEF Fits, o2, new

\* What stands in the transcript may be reported, and is forgotten when it was.
LEMMA ReportFits ==
  ASSUME NEW r, NEW n, NEW o, NEW s, NEW w, NEW m, NEW p, NEW f, NEW q, NEW e, NEW d, NEW l,
         Fits(r, n, o, s, w, m, p, f, q, e, d, l), w # 0,
         NEW c \in Inputs, Times(s, c) > 0
  PROVE  /\ Fits(r, n, o, s, w, m, p, f, q, e, d \cup {c}, l)
         /\ Fits(r, n, o, s, w, m, p, f, q, e \ {c}, d \ {c}, l)
<1>1. InputsTyped(r, n, o, s, w, m, p, f, q, e, d, l)
  BY DEF Fits
<1>2. /\ InputsTyped(r, n, o, s, w, m, p, f, q, e, d \cup {c}, l)
      /\ InputsTyped(r, n, o, s, w, m, p, f, q, e \ {c}, d \ {c}, l)
  BY <1>1 DEF InputsTyped
<1>3. Gone(w, p, m, q, f, e) /\ Gone(w, p, m, q, f, e \ {c})
  BY DEF Gone
<1>4. InternalOnce(s, q, e, d \cup {c})
  BY DEF Fits, InternalOnce
<1>5. InternalOnce(s, q, e \ {c}, d \ {c})
  <2> SUFFICES ASSUME NEW i \in Internal
               PROVE  Times(s \o q, i) <= 1 /\ (Times(s \o q, i) > Times(s, i) => i \in e \ {c})
    BY DEF Fits, InternalOnce
  <2>1. Times(s \o q, i) <= 1 /\ (Times(s \o q, i) > Times(s, i) => i \in e)
    BY DEF Fits, InternalOnce
  <2>2. Times(s, i) \in Nat /\ Times(s \o q, i) \in Nat
    BY <1>1, Ahead DEF InputsTyped
  <2>3. Times(s \o q, c) > Times(s, c) => ~(Times(s \o q, c) <= 1) \/ c # i
    BY <2>2
  <2> QED BY <2>1, <2>3
<1> QED BY <1>2, <1>3, <1>4, <1>5 DEF Fits

\* The first of the queue enters the transcript.
LEMMA HeadIs ==
  ASSUME NEW s \in Seq(Inputs), NEW q \in Seq(Inputs), q # <<>>
  PROVE  /\ Head(q) \in Inputs
         /\ \A i : Times(Append(s, Head(q)), i) = IF Head(q) = i THEN Times(s, i) + 1 ELSE Times(s, i)
         /\ Times(s, Head(q)) + 1 <= Times(s \o q, Head(q))
<1> DEFINE c == Head(q)
           t == Append(s, c)
           z == Tail(q)
<1>1. c \in Inputs /\ t \in Seq(Inputs) /\ z \in Seq(Inputs) /\ t \o z = s \o q
  BY Ahead
<1>2. \A i : Times(t, i) = IF c = i THEN Times(s, i) + 1 ELSE Times(s, i)
  BY <1>1, TimesAppended
<1> HIDE DEF c, t, z
<1>3. Times(t, c) <= Times(t \o z, c)
  BY <1>1, Ahead
<1>4. Times(t, c) = Times(s, c) + 1
  BY <1>2
<1>5. Times(s, c) + 1 <= Times(s \o q, c)
  BY <1>1, <1>3, <1>4
<1> QED BY <1>1, <1>2, <1>5 DEF c, t

LEMMA CommitFits ==
  ASSUME NEW r, NEW n, NEW o, NEW s, NEW w, NEW m, NEW p, NEW f, NEW q, NEW e, NEW d, NEW l,
         Fits(r, n, o, s, w, m, p, f, q, e, d, l), w # 0, q # <<>>
  PROVE  Fits(r, n, o, Append(s, Head(q)), w, m, p, f, Tail(q), e, d \cup {Head(q)}, l)
<1> DEFINE c == Head(q)
           t == Append(s, c)
           z == Tail(q)
<1>1. InputsTyped(r, n, o, s, w, m, p, f, q, e, d, l)
  BY DEF Fits
<1>2. s \in Seq(Inputs) /\ q \in Seq(Inputs)
  BY <1>1 DEF InputsTyped
<1>3. c \in Inputs /\ t \in Seq(Inputs) /\ z \in Seq(Inputs) /\ t \o z = s \o q
  BY <1>2, Ahead
<1>4. \A i : Times(t, i) = IF c = i THEN Times(s, i) + 1 ELSE Times(s, i)
  BY <1>2, HeadIs
<1> HIDE DEF c, t, z
<1>5. \A i : Times(s, i) \in Nat /\ Times(t, i) \in Nat /\ Times(t, i) <= Times(s \o q, i)
  <2>1. \A i : Times(t, i) \in Nat /\ Times(t, i) <= Times(t \o z, i)
    BY <1>3, Ahead
  <2> QED BY <1>2, <1>3, <2>1, Ahead
<1>6. \A i : Times(s, i) <= Times(t, i) /\ (Times(s, i) > 0 => Times(t, i) > 0)
  <2>1. \A a \in Nat : a <= a + 1 /\ a <= a /\ (a > 0 => a + 1 > 0)
    OBVIOUS
  <2> QED BY <1>4, <1>5, <2>1
<1>7. Times(t, c) > 0
  BY <1>4, <1>5
<1>8. InputsTyped(r, n, o, t, w, m, p, f, z, e, d \cup {c}, l)
  BY <1>1, <1>3 DEF InputsTyped
<1>9. Admitted(r, t, z, f, p)
  BY <1>3 DEF Fits, Admitted
<1>10. Gone(w, p, m, z, f, e)
  BY DEF Gone
<1>11. PassFits(r, n, p, t)
  BY <1>6 DEF Fits, PassFits
<1>12. InternalOnce(t, z, e, d \cup {c})
  <2>1. \A i \in Internal : Times(t \o z, i) <= 1 /\ (Times(t \o z, i) > Times(t, i) => i \in e)
    <3> TAKE i \in Internal
    <3>1. Times(s \o q, i) <= 1 /\ (Times(s \o q, i) > Times(s, i) => i \in e)
      BY DEF Fits, InternalOnce
    <3>2. Times(s, i) \in Nat /\ Times(t, i) \in Nat /\ Times(s, i) <= Times(t, i) /\ Times(s \o q, i) \in Nat
      BY <1>2, <1>5, <1>6, Ahead
    <3>3. Times(s \o q, i) > Times(t, i) => Times(s \o q, i) > Times(s, i)
      BY <3>2
    <3> QED BY <1>3, <3>1, <3>3
  <2>2. \A i \in d : Times(s, i) > 0
    BY DEF Fits, InternalOnce
  <2> QED BY <1>6, <1>7, <2>1, <2>2 DEF InternalOnce
<1>13. UsersOnce(o, w, n, p, t, z, f, l)
  <2>1. \A i : Load(t, z, f, i) = Load(s, q, f, i)
    BY <1>3 DEF Load
  <2> QED BY <1>6, <2>1 DEF Fits, UsersOnce, Shown
<1>14. Fits(r, n, o, t, w, m, p, f, z, e, d \cup {c}, l)
  BY <1>8, <1>9, <1>10, <1>11, <1>12, <1>13 DEF Fits
<1> QED BY <1>14 DEF c, t, z

-----------------------------------------------------------------------------
(* The steps. *)

\* The module's own operators, in these terms.
LEMMA InTerms ==
  ASSUME InputsSound
  PROVE  /\ InputsTyped(receipt, sequence, row, transcript, worker, tail, pass, flight, queue, enqueued,
                        reports, lapses)
         /\ \A S : First(S) = Earliest(sequence, S)
         /\ \A i : Entries(i) = Times(transcript, i) /\ Times(transcript, i) \in Nat
         /\ Pending \subseteq Inputs /\ \A i \in Inputs : i \in Pending <=> receipt[i] = "reserved"
         /\ (tail # {} \/ pass.phase # "none" \/ queue # <<>> => worker # 0)
<1>1. InputsTyped(receipt, sequence, row, transcript, worker, tail, pass, flight, queue, enqueued,
                  reports, lapses)
  BY DEF InputsSound, Fits
<1>2. \A S : First(S) = Earliest(sequence, S)
  BY DEF First, Earliest
<1>3. \A i : Entries(i) = Times(transcript, i)
  BY DEF Entries, Times, Places
<1>4. \A i : Times(transcript, i) \in Nat
  BY <1>1, PlacesAre DEF InputsTyped
<1>5. Pending \subseteq Inputs /\ \A i \in Inputs : i \in Pending <=> receipt[i] = "reserved"
  BY DEF InputsSound, Fits, RowsFit, Pending
<1>6. tail # {} \/ pass.phase # "none" \/ queue # <<>> => worker # 0
  BY DEF InputsSound, Fits, Gone, NoPass
<1> QED BY <1>1, <1>2, <1>3, <1>4, <1>5, <1>6

\* What the supervisor reads of some inputs, as a pass keeps it.
LEMMA ReadIs ==
  ASSUME InputsSound, NEW S \in SUBSET Inputs
  PROVE  /\ Proven(S) \subseteq S /\ Unresolved(S) \subseteq S
         /\ \A i \in Proven(S) : Times(transcript, i) > 0
         /\ \A i \in S \ (Proven(S) \cup Unresolved(S)) : Times(transcript, i) = 0
<1>1. \A i : Entries(i) = Times(transcript, i) /\ Times(transcript, i) \in Nat
  BY InTerms
<1>2. \A a \in Nat : (a = 1 => a > 0) /\ (a # 1 /\ ~(a > 1) => a = 0)
  OBVIOUS
<1> QED BY <1>1, <1>2 DEF Proven, Unresolved

\* Steps that leave the inputs and the passes where they are.
LEMMA StillSound ==
  ASSUME InputsSound,
         UNCHANGED <<receipt, sequence, row, transcript, worker, tail, pass, flight, queue, enqueued,
                     reports, lapses>>
  PROVE  InputsSound'
BY DEF InputsSound

\* Steps that change the queue of passes alone.
LEMMA TailSound ==
  ASSUME InputsSound, tail' \subseteq Owners, worker = 0 => tail' = {},
         UNCHANGED <<receipt, sequence, row, transcript, worker, pass, flight, queue, enqueued, reports,
                     lapses>>
  PROVE  InputsSound'
BY TailFits DEF InputsSound

\* The end of a worker.
LEMMA ForgetSound ==
  ASSUME InputsSound, worker' = 0, tail' = {}, pass' = NoPass, ForgetMemory,
         UNCHANGED <<receipt, sequence, row, transcript, lapses>>
  PROVE  InputsSound'
<1>1. flight' = [i \in Inputs |-> 0] /\ queue' = <<>> /\ enqueued' = {} /\ reports' = {}
  BY DEF ForgetMemory
<1>2. Fits(receipt, sequence, row, transcript, 0, {}, NoPass, [i \in Inputs |-> 0], <<>>, {}, {}, lapses)
  BY ForgetFits DEF InputsSound
<1> QED BY <1>1, <1>2 DEF InputsSound

\* Admission.
LEMMA ReserveSound ==
  ASSUME InputsSound, NEW i \in Inputs, Reserve(i),
         UNCHANGED <<transcript, worker, tail, pass, flight, queue, enqueued, reports, lapses>>
  PROVE  InputsSound'
<1> DEFINE k == 1 + Cardinality({j \in Inputs : sequence[j] > 0})
<1>1. k \in Nat
  <2>1. Cardinality({j \in Inputs : sequence[j] > 0}) \in Nat
    BY InputsAssumption, FS_Subset, FS_CardinalityType
  <2> QED BY <2>1
<1>2. /\ receipt[i] = "none" /\ receipt' = [receipt EXCEPT ![i] = "reserved"]
      /\ sequence' = [sequence EXCEPT ![i] = k]
      /\ row' = [row EXCEPT ![i] = [state |-> "queued", gen |-> 0]]
  BY DEF Reserve
<1> HIDE DEF k
<1>3. Fits([receipt EXCEPT ![i] = "reserved"], [sequence EXCEPT ![i] = k],
           [row EXCEPT ![i] = [state |-> "queued", gen |-> 0]], transcript, worker, tail, pass, flight,
           queue, enqueued, reports, lapses)
  BY <1>1, <1>2, AdmitFits DEF InputsSound
<1> QED BY <1>2, <1>3 DEF InputsSound

\* Everything outside the passes and the worker.
LEMMA OutsideSound ==
  ASSUME InputsSound, SessionTypeOK,
         \/ \E i \in Inputs : SubmitInput(i) \/ DispatchInternal(i)
         \/ WakeBegin \/ WakeReady \/ WakeFails \/ DispatchBegin \/ DispatchReady \/ DispatchFails
         \/ FlushInputs \/ SettledWake
         \/ Register \/ Disconnect \/ Launch \/ LaunchFails \/ BecomeResident
         \/ Passivate \/ Stop \/ Revive \/ WorkerExit \/ Crash \/ StopAndStart
  PROVE  InputsSound'
<1> USE DEF session, process, wakes, passes, memory, store
<1>1. tail \subseteq Owners /\ worker \in Nat /\ {"wake"} \subseteq Owners /\ {"kick"} \subseteq Owners
      /\ {"launch"} \subseteq Owners
  BY InTerms DEF InputsTyped, Owners
<1>2. ASSUME NEW i \in Inputs, SubmitInput(i) \/ DispatchInternal(i) PROVE InputsSound'
  <2>1. UNCHANGED <<transcript, worker, tail, pass, flight, queue, enqueued, reports, lapses>>
    BY <1>2 DEF SubmitInput, DispatchInternal
  <2>2. Reserve(i) \/ UNCHANGED <<receipt, sequence, row>>
    BY <1>2 DEF SubmitInput, DispatchInternal
  <2> QED BY <2>1, <2>2, ReserveSound, StillSound
<1>3. CASE WakeBegin
  BY <1>3, StillSound DEF WakeBegin
<1>4. CASE WakeReady
  BY <1>1, <1>4, TailSound DEF WakeReady, Serving
<1>5. CASE WakeFails
  BY <1>5, StillSound DEF WakeFails
<1>6. CASE DispatchBegin
  BY <1>6, StillSound DEF DispatchBegin
<1>7. CASE DispatchReady
  BY <1>1, <1>7, TailSound DEF DispatchReady, Serving
<1>8. CASE DispatchFails
  BY <1>8, StillSound DEF DispatchFails
<1>9. CASE FlushInputs
  BY <1>1, <1>9, TailSound DEF FlushInputs
<1>10. CASE SettledWake
  BY <1>10, StillSound DEF SettledWake
<1>11. CASE Register
  BY <1>1, <1>11, TailSound DEF Register
<1>12. CASE Disconnect
  BY <1>12, StillSound DEF Disconnect
<1>13. CASE Launch
  <2>1. Fits(receipt, sequence, row, transcript, 0, tail, pass, flight, queue, enqueued, reports, lapses)
    BY <1>13 DEF Launch, InputsSound
  <2>2. gen \in Nat
    BY DEF SessionTypeOK
  <2>3. Fits(receipt, sequence, row, transcript, gen, tail, pass, flight, queue, enqueued, reports, lapses)
    BY <2>1, <2>2, LaunchFits
  <2>4. /\ worker' = gen
        /\ UNCHANGED <<receipt, sequence, row, transcript, tail, pass, flight, queue, enqueued, reports,
                       lapses>>
    BY <1>13 DEF Launch
  <2> QED BY <2>3, <2>4 DEF InputsSound
<1>14. CASE LaunchFails
  BY <1>14, StillSound DEF LaunchFails
<1>15. CASE BecomeResident
  <2>1. worker # 0
    BY <1>15 DEF BecomeResident, SessionTypeOK
  <2> QED BY <1>1, <1>15, <2>1, TailSound DEF BecomeResident
<1>16. CASE Passivate
  BY <1>16, StillSound DEF Passivate
<1>17. CASE Stop
  BY <1>17, StillSound DEF Stop
<1>18. CASE Revive
  BY <1>18, StillSound DEF Revive
<1>19. CASE WorkerExit
  BY <1>19, ForgetSound DEF WorkerExit
<1>20. CASE Crash
  BY <1>20, ForgetSound DEF Crash, StartDaemon
<1>21. CASE StopAndStart
  BY <1>21, ForgetSound DEF StopAndStart, StartDaemon
<1> QED
  BY <1>2, <1>3, <1>4, <1>5, <1>6, <1>7, <1>8, <1>9, <1>10, <1>11, <1>12, <1>13, <1>14, <1>15, <1>16, <1>17,
     <1>18, <1>19, <1>20, <1>21

\* What is left of a pass's inputs behind the first may be submitted.
LEMMA RestIs ==
  ASSUME NEW r, NEW n, NEW o, NEW s, NEW w, NEW m, NEW p, NEW f, NEW q, NEW e, NEW d, NEW l,
         Fits(r, n, o, s, w, m, p, f, q, e, d, l)
  PROVE  \A i \in p.todo \ {Earliest(n, p.todo)} :
           /\ i \in Inputs /\ r[i] # "none" /\ (i \in Commands => r[i] = "reserved")
           /\ i \in Users => Load(s, q, f, i) <= l[i]
<1> TAKE i \in p.todo \ {Earliest(n, p.todo)}
<1>1. InputsTyped(r, n, o, s, w, m, p, f, q, e, d, l)
  BY DEF Fits
<1>2. i \in Inputs
  BY <1>1 DEF InputsTyped, Passes
<1>3. r[i] # "none" /\ (i \in Commands => r[i] = "reserved")
  BY <1>2 DEF Fits, Admitted, PassFits
<1>4. i \in Users => ~(Load(s, q, f, i) > l[i])
  BY DEF Fits, UsersOnce, Shown
<1>5. Load(s, q, f, i) \in Nat /\ l[i] \in Nat
  BY <1>1, <1>2, LoadIs DEF InputsTyped
<1>6. i \in Users => Load(s, q, f, i) <= l[i]
  BY <1>4, <1>5
<1> QED BY <1>2, <1>3, <1>6

\* A pass goes on with what is left, once its first input is dealt with.
LEMMA OnwardSound ==
  ASSUME NEW p \in Passes, Onward(p), worker # 0,
         Fits(receipt', sequence, row', transcript, worker, tail, Free(p), flight, queue, enqueued, reports,
              lapses),
         \A i \in p.todo \ {First(p.todo)} :
           /\ i \in Inputs /\ receipt'[i] # "none" /\ (i \in Commands => receipt'[i] = "reserved")
           /\ i \in Users => Load(transcript, queue, flight, i) <= lapses[i],
         UNCHANGED <<sequence, transcript, worker, tail, queue, enqueued, reports, lapses>>
  PROVE  InputsSound'
<1> DEFINE rest == p.todo \ ({First(p.todo)} \cup p.proven \cup p.unresolved)
           x == Free(p)
<1>1. x.phase = "decide" /\ x.todo = {}
  BY FreeIs
<1>2. CASE pass' = NoPass /\ UNCHANGED flight
  <2>1. Fits(receipt', sequence, row', transcript, worker, tail, NoPass, flight, queue, enqueued, reports,
             lapses)
    BY <1>1, EndFits
  <2> QED BY <1>2, <2>1 DEF InputsSound
<1>3. CASE pass' = x /\ UNCHANGED flight
  BY <1>3 DEF InputsSound
<1>4. CASE Submit(p, rest) /\ rest # {}
  <2>1. rest \subseteq Inputs
    OBVIOUS
  <2>2. \A i \in rest : /\ receipt'[i] # "none" /\ (i \in Commands => receipt'[i] = "reserved")
                        /\ i \in Users => Load(transcript, queue, flight, i) <= lapses[i]
    OBVIOUS
  <2> HIDE DEF rest, x
  <2>3. Fits(receipt', sequence, row', transcript, worker, tail, [x EXCEPT !.phase = "answer", !.todo = rest],
             [flight EXCEPT ![Earliest(sequence, rest)] = @ + 1], queue, enqueued, reports, lapses)
    BY <1>1, <1>4, <2>1, <2>2, SubmitFits DEF x
  <2>4. [x EXCEPT !.phase = "answer", !.todo = rest] = [p EXCEPT !.phase = "answer", !.todo = rest]
    BY <2>1, FreeIs DEF x, Phases
  <2>5. First(rest) = Earliest(sequence, rest)
    BY DEF First, Earliest
  <2> QED BY <1>4, <2>3, <2>4, <2>5 DEF InputsSound, Submit
<1>5. \/ pass' = NoPass /\ UNCHANGED flight
      \/ pass' = x /\ UNCHANGED flight
      \/ Submit(p, rest) /\ rest # {}
  BY DEF Onward, PassReturns, Free
<1> QED BY <1>2, <1>3, <1>4, <1>5

LEMMA PassBeginSound ==
  ASSUME InputsSound, NEW o \in Owners, PassBegin(o)
  PROVE  InputsSound'
<1> USE DEF session, process, memory, store
<1>1. /\ pass = NoPass /\ o \in tail /\ tail' = tail \ {o}
      /\ UNCHANGED <<receipt, sequence, row, transcript, worker, flight, queue, enqueued, reports, lapses>>
      /\ pass' = pass \/ pass' = Read(o)
  BY DEF PassBegin
<1>2. worker # 0 /\ tail \subseteq Owners
  BY <1>1, InTerms DEF InputsTyped
<1>3. CASE pass' = pass
  BY <1>1, <1>2, <1>3, TailSound
<1>4. CASE pass' = Read(o)
  <2>1. /\ Read(o) \in Passes /\ Read(o).phase = "decide" /\ Read(o).todo = {}
        /\ Read(o).scope = Pending /\ Read(o).proven = Proven(Pending)
        /\ Read(o).unresolved = Unresolved(Pending)
    BY InTerms, ReadIs DEF Read, Passes, Phases
  <2>2. /\ \A i \in Read(o).proven : Times(transcript, i) > 0
        /\ \A i \in Read(o).scope \ (Read(o).proven \cup Read(o).unresolved) : Times(transcript, i) = 0
    BY <2>1, InTerms, ReadIs
  <2>3. pass.phase \notin {"answer", "accepted"}
    BY <1>1 DEF NoPass
  <2>4. Fits(receipt, sequence, row, transcript, worker, tail, Read(o), flight, queue, enqueued, reports,
             lapses)
    BY <1>2, <2>1, <2>2, <2>3, ReadFits DEF InputsSound
  <2>5. Fits(receipt, sequence, row, transcript, worker, tail \ {o}, Read(o), flight, queue, enqueued,
             reports, lapses)
    BY <1>2, <2>4, TailFits
  <2> QED BY <1>1, <1>4, <2>5 DEF InputsSound
<1> QED BY <1>1, <1>3, <1>4

\* What a pass finds in the transcript is completed: it was pending, and stands there.
LEMMA CompleteSound ==
  ASSUME InputsSound, NEW S \in SUBSET Pending, \A i \in S : Times(transcript, i) > 0, Complete(S)
  PROVE  /\ Fits(receipt', sequence, row', transcript, worker, tail, pass, flight, queue, enqueued, reports,
                 lapses)
         /\ \A i \in Inputs \ S : receipt'[i] = receipt[i] /\ row'[i] = row[i]
<1>1. S \subseteq Inputs /\ \A i \in S : receipt[i] = "reserved"
  BY InTerms
<1>2. /\ receipt' = [i \in Inputs |-> IF i \in S THEN "delivered" ELSE receipt[i]]
      /\ row' = [i \in Inputs |-> IF i \in S THEN NoRow ELSE row[i]]
  BY DEF Complete
<1>3. Fits([i \in Inputs |-> IF i \in S THEN "delivered" ELSE receipt[i]], sequence,
           [i \in Inputs |-> IF i \in S THEN NoRow ELSE row[i]], transcript, worker, tail, pass, flight,
           queue, enqueued, reports, lapses)
  BY <1>1, CompleteFits DEF InputsSound
<1> QED BY <1>2, <1>3

LEMMA PassDecideSound ==
  ASSUME InputsSound, PassDecide
  PROVE  InputsSound'
<1>1. /\ pass.phase = "decide"
      /\ UNCHANGED <<sequence, transcript, worker, tail, queue, enqueued, reports, lapses>>
  BY DEF PassDecide, session, process
<1>2. worker # 0 /\ Pending \subseteq Inputs /\ pass \in Passes
  BY <1>1, InTerms DEF InputsTyped
<1>3. pass.todo = {} /\ \A i \in pass.proven : Times(transcript, i) > 0
  BY <1>1 DEF InputsSound, Fits, PassFits
<1>4. CASE UNCHANGED <<receipt, row, flight>> /\ PassReturns
  <2>1. Fits(receipt, sequence, row, transcript, worker, tail, NoPass, flight, queue, enqueued, reports,
             lapses)
    BY <1>1, EndFits DEF InputsSound
  <2> QED BY <1>1, <1>4, <2>1 DEF InputsSound, PassReturns
<1>5. CASE pass' = Read(pass.owner) /\ UNCHANGED <<receipt, row, flight>>
  <2> DEFINE x == Read(pass.owner)
  <2>1. /\ x \in Passes /\ x.phase = "decide" /\ x.todo = {}
        /\ x.scope = Pending /\ x.proven = Proven(Pending) /\ x.unresolved = Unresolved(Pending)
    BY <1>2, ReadIs DEF Read, Passes, Phases
  <2>2. /\ \A i \in x.proven : Times(transcript, i) > 0
        /\ \A i \in x.scope \ (x.proven \cup x.unresolved) : Times(transcript, i) = 0
    BY <1>2, <2>1, ReadIs
  <2> HIDE DEF x
  <2>3. Fits(receipt, sequence, row, transcript, worker, tail, x, flight, queue, enqueued, reports, lapses)
    BY <1>1, <1>2, <2>1, <2>2, ReadFits DEF InputsSound
  <2> QED BY <1>1, <1>5, <2>3 DEF InputsSound, x
<1>6. ASSUME Complete(pass.proven \cap Pending)
      PROVE  /\ Fits(receipt', sequence, row', transcript, worker, tail, pass, flight, queue, enqueued, reports,
                     lapses)
             /\ \A i \in Inputs \ (pass.proven \cap Pending) : receipt'[i] = receipt[i] /\ row'[i] = row[i]
  BY <1>3, <1>6, CompleteSound
<1>7. CASE Complete(pass.proven \cap Pending) /\ PassReturns /\ UNCHANGED flight
  <2>1. Fits(receipt', sequence, row', transcript, worker, tail, NoPass, flight, queue, enqueued, reports,
             lapses)
    BY <1>1, <1>6, <1>7, EndFits
  <2> QED BY <1>1, <1>7, <2>1 DEF InputsSound, PassReturns
<1>8. CASE Complete(pass.proven \cap Pending) /\ ToSubmit # {} /\ Submit(pass, ToSubmit) /\ Pending \subseteq pass.scope
  <2>1. ToSubmit \subseteq Inputs
    BY <1>2 DEF ToSubmit
  <2>2. ASSUME NEW i \in ToSubmit
        PROVE  /\ receipt'[i] # "none" /\ (i \in Commands => receipt'[i] = "reserved")
               /\ i \in Users => Load(transcript, queue, flight, i) <= lapses[i]
    <3>1. i \in Pending /\ i \in Inputs /\ i \notin pass.proven /\ i \notin pass.unresolved
          /\ ~(row[i].state = "accepted" /\ row[i].gen = worker)
      BY <1>2, <2>2 DEF ToSubmit
    <3>2. receipt'[i] = "reserved"
      BY <1>6, <1>8, <3>1, InTerms
    <3>3. row[i].state # "none"
      BY <3>1 DEF Pending
    <3>4. ~Seen(row, worker, sequence, pass, i)
      BY <1>1, <3>1, <3>3 DEF Seen
    <3>5. i \in Users => ~(Load(transcript, queue, flight, i) > lapses[i])
      BY <1>8, <3>1, <3>4 DEF InputsSound, Fits, UsersOnce, Shown
    <3>6. Load(transcript, queue, flight, i) \in Nat /\ lapses[i] \in Nat
      BY <3>1, InTerms, LoadIs DEF InputsTyped
    <3>7. \A a, b \in Nat : ~(a > b) => a <= b
      OBVIOUS
    <3> QED BY <3>2, <3>5, <3>6, <3>7
  <2>3. Fits(receipt', sequence, row', transcript, worker, tail, [pass EXCEPT !.phase = "answer", !.todo = ToSubmit],
             [flight EXCEPT ![Earliest(sequence, ToSubmit)] = @ + 1], queue, enqueued, reports, lapses)
    BY <1>2, <1>3, <1>6, <1>8, <2>1, <2>2, SubmitFits
  <2>4. First(ToSubmit) = Earliest(sequence, ToSubmit)
    BY InTerms
  <2> QED BY <1>1, <1>8, <2>3, <2>4 DEF InputsSound, Submit
<1>9. \/ UNCHANGED <<receipt, row, flight>> /\ PassReturns
      \/ pass' = Read(pass.owner) /\ UNCHANGED <<receipt, row, flight>>
      \/ Complete(pass.proven \cap Pending) /\ PassReturns /\ UNCHANGED flight
      \/ Complete(pass.proven \cap Pending) /\ ToSubmit # {} /\ Submit(pass, ToSubmit) /\ Pending \subseteq pass.scope
  BY DEF PassDecide, Outgrown
<1> QED BY <1>4, <1>5, <1>7, <1>8, <1>9

LEMMA PassAbandonSound ==
  ASSUME InputsSound, PassSendFails \/ PassLapses
  PROVE  InputsSound'
<1> DEFINE c == First(pass.todo)
<1>1. InputsTyped(receipt, sequence, row, transcript, worker, tail, pass, flight, queue, enqueued, reports, lapses)
      /\ c = Earliest(sequence, pass.todo)
  BY InTerms
<1> HIDE DEF c
<1>2. pass.phase = "answer" /\ PassFails
      /\ UNCHANGED <<receipt, sequence, row, transcript, worker, tail, queue, enqueued, reports>>
  BY DEF PassSendFails, PassLapses, memory
<1>3. pass' = NoPass
  BY <1>2 DEF PassFails
<1>4. c \in pass.todo /\ c \in Inputs
  <2>1. pass.todo # {} /\ pass.todo \subseteq Inputs
    BY <1>1, <1>2 DEF InputsSound, Fits, PassFits, InputsTyped, Passes
  <2> QED BY <1>1, <2>1, EarliestIsOne DEF InputsTyped
<1>5. CASE PassSendFails
  <2>1. flight[c] > 0 /\ flight' = [flight EXCEPT ![c] = @ - 1] /\ lapses' = lapses
    BY <1>5 DEF PassSendFails, c
  <2>2. flight' \in [Inputs -> Nat]
    BY <1>1, <1>4, <2>1 DEF InputsTyped
  <2>3. lapses \in [Inputs -> Nat]
    BY <1>1 DEF InputsTyped
  <2>4. Fits(receipt, sequence, row, transcript, worker, tail, NoPass, flight', queue, enqueued, reports, lapses)
    BY <1>1, <1>2, <2>1, <2>2, <2>3, AbandonFits DEF InputsSound
  <2> QED BY <1>2, <1>3, <2>1, <2>4 DEF InputsSound
<1>6. CASE PassLapses
  <2>1. lapses' = [lapses EXCEPT ![c] = @ + 1] /\ flight' = flight
    BY <1>6 DEF PassLapses, c, memory
  <2>2. lapses' \in [Inputs -> Nat]
    BY <1>1, <1>4, <2>1 DEF InputsTyped
  <2>3. flight \in [Inputs -> Nat]
    BY <1>1 DEF InputsTyped
  <2>4. Fits(receipt, sequence, row, transcript, worker, tail, NoPass, flight, queue, enqueued, reports, lapses')
    BY <1>1, <1>2, <2>1, <2>2, <2>3, AbandonFits DEF InputsSound
  <2> QED BY <1>2, <1>3, <2>1, <2>4 DEF InputsSound
<1> QED BY <1>5, <1>6

LEMMA PassAnsweredSound ==
  ASSUME InputsSound, PassAnswered
  PROVE  InputsSound'
<1> DEFINE c == First(pass.todo)
<1>1. InputsTyped(receipt, sequence, row, transcript, worker, tail, pass, flight, queue, enqueued, reports, lapses)
      /\ c = Earliest(sequence, pass.todo)
  BY InTerms
<1>2. pass.phase \in {"accepted", "handled"} /\ Onward(pass)
      /\ UNCHANGED <<sequence, transcript, worker, tail, queue, enqueued, reports, lapses>>
  BY DEF PassAnswered, session, process
<1>3. worker # 0 /\ pass \in Passes
  BY <1>1, <1>2, InTerms DEF InputsTyped
<1>4. \A i \in pass.todo \ {c} :
        /\ i \in Inputs /\ receipt[i] # "none" /\ (i \in Commands => receipt[i] = "reserved")
        /\ i \in Users => Load(transcript, queue, flight, i) <= lapses[i]
  BY <1>1, RestIs DEF InputsSound
<1>5. CASE pass.phase = "accepted"
  <2>1. /\ row' = IF row[c].state = "none" THEN row
                  ELSE [row EXCEPT ![c] = [state |-> "accepted", gen |-> worker]]
        /\ receipt' = receipt
    BY <1>5 DEF PassAnswered
  <2> HIDE DEF c
  <2>2. Fits(receipt, sequence, row', transcript, worker, tail, Free(pass), flight, queue, enqueued, reports, lapses)
    BY <1>1, <1>3, <1>5, <2>1, AcceptFits DEF InputsSound
  <2> QED BY <1>2, <1>3, <1>4, <2>1, <2>2, OnwardSound DEF c
<1>6. CASE pass.phase = "handled"
  <2>1. receipt' = [receipt EXCEPT ![c] = "handled"] /\ row' = [row EXCEPT ![c] = NoRow]
    BY <1>6 DEF PassAnswered
  <2> HIDE DEF c
  <2>2. Fits(receipt', sequence, row', transcript, worker, tail, Free(pass), flight, queue, enqueued, reports, lapses)
    BY <1>1, <1>3, <1>6, <2>1, HandleFits DEF InputsSound
  <2>3. \A i \in pass.todo \ {c} :
          /\ i \in Inputs /\ receipt'[i] # "none" /\ (i \in Commands => receipt'[i] = "reserved")
          /\ i \in Users => Load(transcript, queue, flight, i) <= lapses[i]
    BY <1>1, <1>4, <2>1 DEF InputsTyped
  <2> QED BY <1>2, <1>3, <2>2, <2>3, OnwardSound DEF c
<1> QED BY <1>2, <1>5, <1>6

LEMMA PassVerifiesSound ==
  ASSUME InputsSound, PassVerifies
  PROVE  InputsSound'
<1> DEFINE c == First(pass.todo)
           scope == Pending \cup {c}
           p == [pass EXCEPT !.scope = scope, !.proven = Proven(scope), !.unresolved = Unresolved(scope)]
<1>1. InputsTyped(receipt, sequence, row, transcript, worker, tail, pass, flight, queue, enqueued, reports, lapses)
      /\ c = Earliest(sequence, pass.todo)
  BY InTerms
<1>2. pass.phase = "ran"
      /\ UNCHANGED <<sequence, transcript, worker, tail, queue, enqueued, reports, lapses>>
  BY DEF PassVerifies
<1>3. worker # 0 /\ pass \in Passes
  BY <1>1, <1>2, InTerms DEF InputsTyped
<1>4. \A i \in pass.todo \ {c} :
        /\ i \in Inputs /\ receipt[i] # "none" /\ (i \in Commands => receipt[i] = "reserved")
        /\ i \in Users => Load(transcript, queue, flight, i) <= lapses[i]
  BY <1>1, RestIs DEF InputsSound
<1>5. c \in pass.todo /\ c \in Inputs
  <2>1. pass.todo # {} /\ pass.todo \subseteq Inputs
    BY <1>1, <1>2 DEF InputsSound, Fits, PassFits, InputsTyped, Passes
  <2> QED BY <1>1, <2>1, EarliestIsOne DEF InputsTyped
<1>6. CASE Onward(pass) /\ UNCHANGED <<receipt, row>>
  <2>1. Fits(receipt, sequence, row, transcript, worker, tail, Free(pass), flight, queue, enqueued, reports, lapses)
    BY <1>2, <1>3, FreeFits DEF InputsSound
  <2> QED BY <1>2, <1>3, <1>4, <1>6, <2>1, OnwardSound
<1>7. CASE PassFails /\ UNCHANGED <<receipt, row, flight>>
  <2>1. Fits(receipt, sequence, row, transcript, worker, tail, NoPass, flight, queue, enqueued, reports, lapses)
    BY <1>2, EndFits DEF InputsSound
  <2>2. pass' = NoPass
    BY <1>7 DEF PassFails
  <2> QED BY <1>2, <1>7, <2>1, <2>2 DEF InputsSound
<1>8. CASE /\ row[c].state # "none" /\ Times(transcript, c) > 0 /\ Onward(p)
           /\ Complete({c}) \/ UNCHANGED <<receipt, row>>
  <2>1. scope \in SUBSET Inputs /\ c \in Pending
    BY <1>5, <1>8, InTerms DEF Pending
  <2>2. /\ Proven(scope) \subseteq scope /\ Unresolved(scope) \subseteq scope
        /\ \A i \in Proven(scope) : Times(transcript, i) > 0
        /\ \A i \in scope \ (Proven(scope) \cup Unresolved(scope)) : Times(transcript, i) = 0
    BY <2>1, ReadIs
  <2>3. p \in Passes /\ p.todo = pass.todo
        /\ p.scope = scope /\ p.proven = Proven(scope) /\ p.unresolved = Unresolved(scope)
    BY <1>3, <2>1, <2>2 DEF Passes
  <2> HIDE DEF c, scope, p
  <2>4. /\ Fits(receipt', sequence, row', transcript, worker, tail, pass, flight, queue, enqueued, reports, lapses)
        /\ \A i \in Inputs \ {c} : receipt'[i] = receipt[i]
    <3>1. CASE Complete({c})
      BY <1>8, <2>1, <3>1, CompleteSound
    <3>2. CASE UNCHANGED <<receipt, row>>
      BY <3>2 DEF InputsSound
    <3> QED BY <1>8, <3>1, <3>2
  <2>5. /\ Free(p) \in Passes /\ Free(p).phase = "decide" /\ Free(p).todo = {}
        /\ \A i \in Free(p).proven : Times(transcript, i) > 0
        /\ \A i \in Free(p).scope \ (Free(p).proven \cup Free(p).unresolved) : Times(transcript, i) = 0
    BY <2>2, <2>3, FreeIs
  <2>6. Fits(receipt', sequence, row', transcript, worker, tail, Free(p), flight, queue, enqueued, reports, lapses)
    BY <1>2, <1>3, <2>4, <2>5, ReadFits
  <2>7. \A i \in p.todo \ {First(p.todo)} :
          /\ i \in Inputs /\ receipt'[i] # "none" /\ (i \in Commands => receipt'[i] = "reserved")
          /\ i \in Users => Load(transcript, queue, flight, i) <= lapses[i]
    BY <1>4, <2>3, <2>4 DEF c
  <2> QED BY <1>2, <1>3, <1>8, <2>3, <2>6, <2>7, OnwardSound
<1>9. \/ Onward(pass) /\ UNCHANGED <<receipt, row>>
      \/ PassFails /\ UNCHANGED <<receipt, row, flight>>
      \/ /\ row[c].state # "none" /\ Times(transcript, c) > 0 /\ Onward(p)
         /\ Complete({c}) \/ UNCHANGED <<receipt, row>>
  <2>1. Entries(c) = Times(transcript, c) /\ Times(transcript, c) \in Nat
    BY InTerms
  <2>2. \A a \in Nat : a # 0 => a > 0
    OBVIOUS
  <2>3. Entries(c) # 0 => Times(transcript, c) > 0
    BY <2>1, <2>2
  <2> QED BY <2>3, Zenon DEF PassVerifies
<1> QED BY <1>6, <1>7, <1>8, <1>9

\* The worker's side.
LEMMA ActorSound ==
  ASSUME InputsSound,
         \/ \E i \in Inputs : SubmitToWorker(i) \/ RunInputCommand(i) \/ EndInputCommand(i) \/ RecordDelivery(i)
         \/ CommitInput
  PROVE  InputsSound'
<1> USE DEF store, session, process, wakes, passes, memory
<1>1. InputsTyped(receipt, sequence, row, transcript, worker, tail, pass, flight, queue, enqueued, reports, lapses)
  BY InTerms
<1>2. ASSUME NEW i \in Inputs, NEW h, Answer(i, h), worker # 0,
             \/ h = "handled" /\ i \in Commands
             \/ h = "accepted" /\ i \in Users
             \/ h = "ran" /\ i \in Internal
      PROVE  /\ flight[i] > 0 /\ flight' = [flight EXCEPT ![i] = @ - 1]
             /\ Fits(receipt, sequence, row, transcript, worker, tail, pass', flight, queue, enqueued, reports, lapses)
  <2>1. CASE pass' = pass
    BY <1>2, <2>1 DEF Answer, InputsSound
  <2>2. CASE Awaited(i) /\ pass' = [pass EXCEPT !.phase = h]
    <3>1. pass.phase = "answer" /\ Earliest(sequence, pass.todo) = i
      BY <2>2, InTerms DEF Awaited
    <3>2. Fits(receipt, sequence, row, transcript, worker, tail, [pass EXCEPT !.phase = h], flight, queue, enqueued,
               reports, lapses)
      BY <1>2, <3>1, AnswerFits DEF InputsSound
    <3> QED BY <1>2, <2>2, <3>2 DEF Answer
  <2> QED BY <1>2, <2>1, <2>2 DEF Answer
<1>3. ASSUME NEW i \in Inputs, SubmitToWorker(i) PROVE InputsSound'
  <2>1. worker # 0 /\ i \notin Internal
        /\ UNCHANGED <<receipt, sequence, row, transcript, worker, tail, enqueued, reports, lapses>>
    BY <1>3 DEF SubmitToWorker
  <2>2. CASE i \in Commands
    <3>1. Answer(i, "handled") /\ queue' = queue
      BY <1>3, <2>2 DEF SubmitToWorker
    <3>2. i \in Inputs \ Users
      BY <2>2 DEF Users
    <3>3. /\ flight[i] > 0 /\ flight' = [flight EXCEPT ![i] = @ - 1]
          /\ Fits(receipt, sequence, row, transcript, worker, tail, pass', flight, queue, enqueued, reports, lapses)
      BY <1>2, <2>1, <2>2, <3>1
    <3>4. Fits(receipt, sequence, row, transcript, worker, tail, pass', [flight EXCEPT ![i] = @ - 1], queue, enqueued,
               reports, lapses)
      BY <2>1, <3>2, <3>3, AnsweredFits
    <3> QED BY <2>1, <3>1, <3>3, <3>4 DEF InputsSound
  <2>3. CASE i \notin Commands
    <3>1. Answer(i, "accepted") /\ queue' = Append(queue, i)
      BY <1>3, <2>3 DEF SubmitToWorker
    <3>2. i \in Users
      BY <2>1, <2>3 DEF Users
    <3>3. /\ flight[i] > 0 /\ flight' = [flight EXCEPT ![i] = @ - 1]
          /\ Fits(receipt, sequence, row, transcript, worker, tail, pass', flight, queue, enqueued, reports, lapses)
      BY <1>2, <2>1, <3>1, <3>2
    <3>4. Fits(receipt, sequence, row, transcript, worker, tail, pass', [flight EXCEPT ![i] = @ - 1],
               Append(queue, i), enqueued, reports, lapses)
      BY <2>1, <3>2, <3>3, QueueFits
    <3> QED BY <2>1, <3>1, <3>3, <3>4 DEF InputsSound
  <2> QED BY <2>2, <2>3
<1>4. ASSUME NEW i \in Inputs, RunInputCommand(i) PROVE InputsSound'
  <2>1. /\ worker # 0 /\ i \in Internal /\ flight[i] > 0 /\ Times(transcript, i) = 0 /\ i \notin enqueued
        /\ enqueued' = enqueued \cup {i} /\ queue' = Append(queue, i)
        /\ UNCHANGED <<receipt, sequence, row, transcript, worker, tail, pass, flight, reports, lapses>>
    BY <1>4, InTerms DEF RunInputCommand, SentBefore
  <2>2. Fits(receipt, sequence, row, transcript, worker, tail, pass, flight, Append(queue, i), enqueued \cup {i},
             reports, lapses)
    BY <2>1, EnqueueFits DEF InputsSound
  <2> QED BY <2>1, <2>2 DEF InputsSound
<1>5. ASSUME NEW i \in Inputs, EndInputCommand(i) PROVE InputsSound'
  <2>1. /\ worker # 0 /\ i \in Internal /\ Answer(i, "ran") /\ i \in Inputs \ Users
        /\ UNCHANGED <<receipt, sequence, transcript, worker, tail, queue, enqueued, lapses>>
    BY <1>5 DEF EndInputCommand, Users
  <2>2. /\ flight[i] > 0 /\ flight' = [flight EXCEPT ![i] = @ - 1]
        /\ Fits(receipt, sequence, row, transcript, worker, tail, pass', flight, queue, enqueued, reports, lapses)
    BY <1>2, <2>1
  <2>3. Fits(receipt, sequence, row, transcript, worker, tail, pass', flight', queue, enqueued, reports, lapses)
    BY <2>1, <2>2, AnsweredFits
  <2>4. CASE row[i].state # "none" /\ row' = [row EXCEPT ![i] = [state |-> "accepted", gen |-> worker]] /\ reports' = reports
    <3>1. Fits(receipt, sequence, row', transcript, worker, tail, pass', flight', queue, enqueued, reports, lapses)
      BY <2>1, <2>3, <2>4, AcceptInternalFits
    <3> QED BY <2>1, <2>4, <3>1 DEF InputsSound
  <2>5. CASE row' = row /\ reports' = reports
    BY <2>1, <2>3, <2>5 DEF InputsSound
  <2>6. CASE row' = row /\ Entries(i) > 0 /\ reports' = reports \cup {i}
    <3>1. Times(transcript, i) > 0
      BY <2>6, InTerms
    <3>2. Fits(receipt, sequence, row, transcript, worker, tail, pass', flight', queue, enqueued, reports \cup {i},
               lapses)
      BY <2>1, <2>3, <3>1, ReportFits
    <3> QED BY <2>1, <2>6, <3>2 DEF InputsSound
  <2> QED BY <1>5, <2>4, <2>5, <2>6 DEF EndInputCommand
<1>6. ASSUME NEW i \in Inputs, RecordDelivery(i) PROVE InputsSound'
  <2>1. /\ worker # 0 /\ i \in reports /\ reports' = reports \ {i} /\ enqueued' = enqueued \ {i}
        /\ UNCHANGED <<sequence, transcript, worker, tail, pass, flight, queue, lapses>>
        /\ UNCHANGED <<receipt, row>> \/ (receipt[i] # "delivered" /\ Complete({i}))
    BY <1>6 DEF RecordDelivery
  <2>2. Times(transcript, i) > 0
    BY <2>1 DEF InputsSound, Fits, InternalOnce
  <2>3. Fits(receipt', sequence, row', transcript, worker, tail, pass, flight, queue, enqueued, reports, lapses)
    <3>1. CASE UNCHANGED <<receipt, row>>
      BY <3>1 DEF InputsSound
    <3>2. CASE receipt[i] # "delivered" /\ Complete({i})
      <4>1. Times(transcript \o queue, i) > 0
        <5>1. \A a, b \in Nat : a > 0 /\ a <= b => b > 0
          OBVIOUS
        <5>2. transcript \in Seq(Inputs) /\ queue \in Seq(Inputs)
          BY <1>1 DEF InputsTyped
        <5>3. /\ Times(transcript, i) \in Nat /\ Times(transcript \o queue, i) \in Nat
              /\ Times(transcript, i) <= Times(transcript \o queue, i)
          BY <5>2, Ahead
        <5> QED BY <2>2, <5>1, <5>3
      <4>2. receipt[i] = "reserved"
        BY <3>2, <4>1 DEF InputsSound, Fits, Admitted
      <4>3. {i} \subseteq Pending
        BY <4>2, InTerms
      <4> QED BY <2>2, <3>2, <4>3, CompleteSound
    <3> QED BY <2>1, <3>1, <3>2
  <2>4. Fits(receipt', sequence, row', transcript, worker, tail, pass, flight, queue, enqueued \ {i}, reports \ {i},
             lapses)
    BY <2>1, <2>2, <2>3, ReportFits
  <2> QED BY <2>1, <2>4 DEF InputsSound
<1>7. CASE CommitInput
  <2>1. /\ worker # 0 /\ queue # <<>> /\ transcript' = Append(transcript, Head(queue)) /\ queue' = Tail(queue)
        /\ reports' = reports \cup {Head(queue)}
        /\ UNCHANGED <<receipt, sequence, row, worker, tail, pass, flight, enqueued, lapses>>
    BY <1>7 DEF CommitInput
  <2>2. Fits(receipt, sequence, row, Append(transcript, Head(queue)), worker, tail, pass, flight, Tail(queue), enqueued,
             reports \cup {Head(queue)}, lapses)
    BY <2>1, CommitFits DEF InputsSound
  <2> QED BY <2>1, <2>2 DEF InputsSound
<1> QED BY <1>3, <1>4, <1>5, <1>6, <1>7

-----------------------------------------------------------------------------
(* The invariant. *)

LEMMA InitFits ==
  ASSUME Init
  PROVE  InputsInv
<1>1. NoRow \in Rows /\ NoRow.state = "none" /\ NoPass \in Passes
      /\ NoPass.phase = "none" /\ NoPass.todo = {} /\ NoPass.scope = {} /\ NoPass.proven = {}
  BY DEF Rows, NoRow, NoPass, Passes, Phases
<1>2. SessionTypeOK
  <2>1. /\ flag = [i \in Inputs |-> 0] /\ life = "starting" /\ gen = 1 /\ closing = "none" /\ wake = "none"
        /\ again = FALSE /\ dispatch = "none" /\ online = FALSE /\ troubles = 0
    BY DEF Init
  <2>2. again \in BOOLEAN /\ online \in BOOLEAN
    BY <2>1
  <2>3. flag \in [Inputs -> Nat]
    BY <2>1
  <2>4. gen \in Nat \ {0} /\ troubles \in Nat
    BY <2>1
  <2>5. /\ life \in {"starting", "resident", "error", "stopped", "passivated"}
        /\ closing \in {"none", "error", "stopped", "passivated"}
        /\ wake \in {"none", "begin", "ready", "pass", "failing"} /\ dispatch \in {"none", "begin", "ready"}
    BY <2>1
  <2> QED BY <2>2, <2>3, <2>4, <2>5 DEF SessionTypeOK
<1>3. /\ receipt = [i \in Inputs |-> "none"] /\ sequence = [i \in Inputs |-> 0] /\ row = [i \in Inputs |-> NoRow]
      /\ transcript = <<>> /\ worker = 0 /\ tail = {} /\ pass = NoPass /\ flight = [i \in Inputs |-> 0]
      /\ queue = <<>> /\ enqueued = {} /\ reports = {} /\ lapses = [i \in Inputs |-> 0]
  BY DEF Init
<1>4. InputsTyped(receipt, sequence, row, transcript, worker, tail, pass, flight, queue, enqueued, reports, lapses)
  BY <1>1, <1>3 DEF InputsTyped
<1>5. <<>> \in Seq(Inputs) /\ <<>> \o <<>> = <<>> /\ \A i : Times(<<>>, i) = 0
  <2>1. \A i : Places(<<>>, i) = {}
    BY DEF Places
  <2> QED BY <2>1, FS_EmptySet DEF Times
<1>6. \A i \in Inputs : Load(transcript, queue, flight, i) = 0
  BY <1>3, <1>5 DEF Load
<1>7. UsersOnce(row, worker, sequence, pass, transcript, queue, flight, lapses)
  BY <1>3, <1>6 DEF UsersOnce, Users
<1>8. InternalOnce(transcript, queue, enqueued, reports)
  BY <1>3, <1>5 DEF InternalOnce
<1>9. /\ RowsFit(receipt, row) /\ Admitted(receipt, transcript, queue, flight, pass)
      /\ Gone(worker, pass, tail, queue, flight, enqueued) /\ PassFits(receipt, sequence, pass, transcript)
  BY <1>1, <1>3, <1>5 DEF RowsFit, Admitted, Gone, PassFits
<1> QED BY <1>2, <1>4, <1>7, <1>8, <1>9 DEF InputsInv, InputsSound, Fits

LEMMA StepFits ==
  ASSUME InputsInv, [Next]_vars
  PROVE  InputsInv'
<1>1. CASE Next
  <2>1. SessionTypeOK'
    BY <1>1, BoundsAssumption, SessionSafe DEF InputsInv
  <2>2. InputsSound'
    BY <1>1, OutsideSound, ActorSound, PassBeginSound, PassDecideSound, PassAbandonSound, PassAnsweredSound,
       PassVerifiesSound DEF Next, InputsInv
  <2> QED BY <2>1, <2>2 DEF InputsInv
<1>2. CASE UNCHANGED vars
  BY <1>2 DEF vars, InputsInv, SessionTypeOK, InputsSound
<1> QED BY <1>1, <1>2

\* Whatever is admitted, delivered, cut short and retried, no input is under way more often than its
\* answers were lost and once more (createActorInput, #deliverActorInputs, coordinator.submit).
THEOREM InputsInvariant == Spec => []InputsInv
<1>1. Init => InputsInv
  BY InitFits
<1>2. InputsInv /\ [Next]_vars => InputsInv'
  BY StepFits
<1> QED BY <1>1, <1>2, PTL DEF Spec

-----------------------------------------------------------------------------
(* A wake that gives up. *)

LEMMA FailedWakeStep ==
  ASSUME InputsInv, Next, wake # "none", wake' = "none", life' = "error", worker' = 0, ~Crash, ~StopAndStart
  PROVE  \A i \in Inputs : row'[i].state # "none" => flag'[i] # 0
<1> USE DEF session, process, wakes, passes, memory, store
<1>1. /\ gen # 0 /\ wake \in {"begin", "ready", "pass", "failing"}
      /\ closing \in {"none", "error", "stopped", "passivated"}
  BY DEF InputsInv, SessionTypeOK
<1>2. tail # {} \/ pass.phase # "none" \/ queue # <<>> => worker # 0
  BY InTerms DEF InputsInv
<1>3. ASSUME Flag(gen), row' = row PROVE \A i \in Inputs : row'[i].state # "none" => flag'[i] # 0
  BY <1>1, <1>3 DEF Flag, Pending
<1>4. ASSUME worker' = worker, worker # 0 PROVE FALSE
  BY <1>4
<1>5. ASSUME wake' = wake \/ wake' = "begin" \/ QueueWake PROVE FALSE
  BY <1>5 DEF QueueWake
<1>6. CASE \E i \in Inputs : SubmitInput(i) \/ DispatchInternal(i)
  BY <1>5, <1>6 DEF SubmitInput, DispatchInternal
<1>7. CASE \E i \in Inputs : SubmitToWorker(i) \/ RunInputCommand(i) \/ EndInputCommand(i) \/ RecordDelivery(i)
  BY <1>5, <1>7 DEF SubmitToWorker, RunInputCommand, EndInputCommand, RecordDelivery
<1>8. CASE WakeBegin \/ WakeReady
  BY <1>8 DEF WakeBegin, WakeReady
<1>9. CASE WakeFails
  BY <1>3, <1>9 DEF WakeFails, WakeFailed
<1>10. CASE DispatchBegin \/ DispatchReady \/ DispatchFails
  BY <1>5, <1>10 DEF DispatchBegin, DispatchReady, DispatchFails
<1>11. CASE \E o \in Owners : PassBegin(o)
  <2>1. worker' = worker /\ tail # {}
    BY <1>11 DEF PassBegin
  <2> QED BY <1>2, <1>4, <2>1
<1>12. CASE PassDecide \/ PassSendFails \/ PassLapses \/ PassAnswered \/ PassVerifies
  <2>1. worker' = worker /\ pass.phase # "none"
    BY <1>12 DEF PassDecide, PassSendFails, PassLapses, PassAnswered, PassVerifies
  <2> QED BY <1>2, <1>4, <2>1
<1>13. CASE CommitInput \/ FlushInputs \/ SettledWake
  BY <1>5, <1>13 DEF CommitInput, FlushInputs, SettledWake
<1>14. CASE Register \/ Disconnect \/ Launch \/ LaunchFails \/ BecomeResident \/ Passivate \/ Revive
  BY <1>5, <1>14 DEF Register, Disconnect, Launch, LaunchFails, BecomeResident, Passivate, Revive
<1>15. CASE Stop
  BY <1>4, <1>15 DEF Stop
<1>16. CASE WorkerExit
  <2>1. closing \in {"none", "error"}
    BY <1>1, <1>16 DEF WorkerExit
  <2>2. Flag(gen) /\ row' = row
    BY <1>16, <2>1 DEF WorkerExit, MayPublish
  <2> QED BY <1>3, <2>2
<1> QED
  BY <1>6, <1>7, <1>8, <1>9, <1>10, <1>11, <1>12, <1>13, <1>14, <1>15, <1>16 DEF Next

\* However a wake ends with its session in error and no worker, but by the daemon's own end, every input
\* that stays has its retryable error (#wakeActorInput, #onActorExit, setActorInputWakeError).
THEOREM FailedWakeAlwaysShown == Spec => FailedWakeIsShown
<1>1. InputsInv /\ [Next]_vars =>
        [(wake # "none" /\ wake' = "none" /\ life' = "error" /\ worker' = 0 /\ ~Crash /\ ~StopAndStart) =>
           \A i \in Inputs : row'[i].state # "none" => flag'[i] # 0]_vars
  BY FailedWakeStep
<1> QED BY <1>1, InputsInvariant, PTL DEF Spec, FailedWakeIsShown

-----------------------------------------------------------------------------
(* The contract. *)

\* The steps of the contract.
LEMMA ContractSteps ==
  ASSUME InputsInv
  PROVE  /\ UNCHANGED <<receipt, transcript, lapses>> => UNCHANGED Contract!vars
         /\ \A i \in Inputs : (/\ receipt[i] = "none" /\ receipt' = [receipt EXCEPT ![i] = "reserved"]
                               /\ UNCHANGED <<transcript, lapses>>) => Contract!Admit(i)
         /\ \A S \in SUBSET Pending : (/\ \A i \in S : Times(transcript, i) > 0
                                       /\ Complete(S) /\ UNCHANGED <<transcript, lapses>>) => Contract!Deliver(S)
         /\ \A i \in Inputs : (/\ receipt[i] = "reserved" /\ Times(transcript, i) = 0
                               /\ receipt' = [receipt EXCEPT ![i] = "handled"]
                               /\ UNCHANGED <<transcript, lapses>>) => Contract!Handle(i)
         /\ \A i \in Inputs : (/\ receipt[i] # "none" /\ lapses' = [lapses EXCEPT ![i] = @ + 1]
                               /\ UNCHANGED <<receipt, transcript>>) => Contract!LoseAnswer(i)
<1>1. \A i : Entries(i) = Times(transcript, i)
  BY InTerms DEF InputsInv
<1>2. ASSUME transcript' = transcript
      PROVE  [i \in Inputs |-> Entries(i)]' = [i \in Inputs |-> Entries(i)]
  BY <1>2 DEF Entries
<1>3. UNCHANGED <<receipt, transcript, lapses>> => UNCHANGED Contract!vars
  BY <1>2 DEF Contract!vars
<1>4. \A i \in Inputs : (/\ receipt[i] = "none" /\ receipt' = [receipt EXCEPT ![i] = "reserved"]
                         /\ UNCHANGED <<transcript, lapses>>) => Contract!Admit(i)
  BY <1>2 DEF Contract!Admit
<1>5. ASSUME NEW S \in SUBSET Pending, \A i \in S : Times(transcript, i) > 0,
             Complete(S), UNCHANGED <<transcript, lapses>>
      PROVE  Contract!Deliver(S)
  <2>1. S \subseteq Inputs /\ \A i \in S : receipt[i] = "reserved"
    BY InTerms DEF InputsInv
  <2>2. \A i \in S : [j \in Inputs |-> Entries(j)][i] > 0
    BY <1>1, <1>5, <2>1
  <2>3. receipt' = [i \in Inputs |-> IF i \in S THEN "delivered" ELSE receipt[i]]
    BY <1>5 DEF Complete
  <2> QED BY <1>2, <1>5, <2>1, <2>2, <2>3 DEF Contract!Deliver
<1>6. \A i \in Inputs : (/\ receipt[i] = "reserved" /\ Times(transcript, i) = 0
                         /\ receipt' = [receipt EXCEPT ![i] = "handled"]
                         /\ UNCHANGED <<transcript, lapses>>) => Contract!Handle(i)
  BY <1>1, <1>2 DEF Contract!Handle
<1>7. \A i \in Inputs : (/\ receipt[i] # "none" /\ lapses' = [lapses EXCEPT ![i] = @ + 1]
                         /\ UNCHANGED <<receipt, transcript>>) => Contract!LoseAnswer(i)
  BY <1>2 DEF Contract!LoseAnswer
<1> QED BY <1>3, <1>4, <1>5, <1>6, <1>7

\* An entry is made while fewer were made than answers were lost.
LEMMA CommitEnters ==
  ASSUME InputsInv, CommitInput
  PROVE  \E i \in Inputs : Contract!Enter(i)
<1> DEFINE c == Head(queue)
           E == [i \in Inputs |-> Entries(i)]
<1>1. /\ worker # 0 /\ queue # <<>> /\ transcript' = Append(transcript, c)
      /\ UNCHANGED <<receipt, lapses>>
  BY DEF CommitInput, store
<1>2. /\ InputsTyped(receipt, sequence, row, transcript, worker, tail, pass, flight, queue, enqueued, reports, lapses)
      /\ \A i : Entries(i) = Times(transcript, i)
  BY InTerms DEF InputsInv
<1>3. /\ c \in Inputs /\ Times(transcript, c) + 1 <= Times(transcript \o queue, c)
      /\ \A i : Times(Append(transcript, c), i) = IF c = i THEN Times(transcript, i) + 1 ELSE Times(transcript, i)
  <2>1. transcript \in Seq(Inputs) /\ queue \in Seq(Inputs)
    BY <1>2 DEF InputsTyped
  <2> QED BY <1>1, <2>1, HeadIs
<1> HIDE DEF c
<1>4. transcript \in Seq(Inputs) /\ queue \in Seq(Inputs) /\ flight \in [Inputs -> Nat] /\ lapses[c] \in Nat
  BY <1>2, <1>3 DEF InputsTyped
<1>5. /\ Times(transcript, c) \in Nat /\ Times(transcript \o queue, c) \in Nat
      /\ Load(transcript, queue, flight, c) \in Nat
      /\ Times(transcript \o queue, c) <= Load(transcript, queue, flight, c)
  BY <1>3, <1>4, LoadIs
<1>6. Times(transcript \o queue, c) > 0
  BY <1>3, <1>5
<1>7. c \notin Commands /\ receipt[c] \in {"reserved", "delivered"}
  BY <1>3, <1>6 DEF InputsInv, InputsSound, Fits, Admitted
<1>8. Times(transcript, c) <= lapses[c]
  <2>1. CASE c \in Internal
    <3>1. Times(transcript \o queue, c) <= 1
      BY <2>1 DEF InputsInv, InputsSound, Fits, InternalOnce
    <3>2. \A a, b, k \in Nat : a + 1 <= b /\ b <= 1 => a <= k
      OBVIOUS
    <3> QED BY <1>3, <1>4, <1>5, <3>1, <3>2
  <2>2. CASE c \notin Internal
    <3>1. c \in Users
      BY <1>3, <1>7, <2>2 DEF Users
    <3>2. Load(transcript, queue, flight, c) <= lapses[c] + 1
      BY <3>1 DEF InputsInv, InputsSound, Fits, UsersOnce
    <3>3. \A a, b, k, z \in Nat : a + 1 <= b /\ b <= z /\ z <= k + 1 => a <= k
      OBVIOUS
    <3> QED BY <1>3, <1>4, <1>5, <3>2, <3>3
  <2> QED BY <2>1, <2>2
<1>9. E' = [i \in Inputs |-> Times(transcript', i)]
  BY DEF Entries, Times, Places
<1>10. E = [i \in Inputs |-> Times(transcript, i)]
  BY <1>2
<1> HIDE DEF E
<1>11. E' = [E EXCEPT ![c] = @ + 1]
  BY <1>1, <1>3, <1>9, <1>10
<1>12. receipt[c] \in {"reserved", "delivered"} /\ E[c] <= lapses[c]
  BY <1>3, <1>7, <1>8, <1>10
<1> QED BY <1>1, <1>3, <1>11, <1>12 DEF Contract!Enter, E

\* Every step is one of the contract's, or changes nothing it speaks of.
LEMMA ContractStep ==
  ASSUME InputsInv, Next
  PROVE  Contract!Next \/ UNCHANGED Contract!vars
<1> USE DEF session, process, wakes, passes, memory, store
<1>1. ASSUME UNCHANGED <<receipt, transcript, lapses>> PROVE Contract!Next \/ UNCHANGED Contract!vars
  BY <1>1, ContractSteps
<1>2. ASSUME NEW S \in SUBSET Pending, \A i \in S : Times(transcript, i) > 0,
             Complete(S), UNCHANGED <<transcript, lapses>>
      PROVE  Contract!Next
  <2>1. S \in SUBSET Inputs
    BY InTerms DEF InputsInv
  <2> QED BY <1>2, <2>1, ContractSteps DEF Contract!Next
<1>3. /\ \A i : Entries(i) = Times(transcript, i) /\ Times(transcript, i) \in Nat
      /\ \A i \in Inputs : i \in Pending <=> receipt[i] = "reserved"
      /\ \A S : First(S) = Earliest(sequence, S)
  BY InTerms DEF InputsInv
<1>4. \A S \in SUBSET Inputs : S # {} => First(S) \in S
  <2>1. sequence \in [Inputs -> Nat]
    BY InTerms DEF InputsInv, InputsTyped
  <2> QED BY <1>3, <2>1, EarliestIsOne
<1>5. pass.todo \subseteq Inputs
  BY InTerms DEF InputsInv, InputsTyped, Passes
<1>6. Fits(receipt, sequence, row, transcript, worker, tail, pass, flight, queue, enqueued, reports, lapses)
  BY DEF InputsInv, InputsSound
<1>7. CASE \E i \in Inputs : SubmitInput(i) \/ DispatchInternal(i)
  <2>1. PICK i \in Inputs : SubmitInput(i) \/ DispatchInternal(i)
    BY <1>7
  <2>2. UNCHANGED <<transcript, lapses>> /\ (Reserve(i) \/ UNCHANGED receipt)
    BY <2>1 DEF SubmitInput, DispatchInternal
  <2>3. CASE Reserve(i)
    BY <2>2, <2>3, ContractSteps DEF Reserve, Contract!Next
  <2> QED BY <1>1, <2>2, <2>3
<1>8. CASE \E i \in Inputs : SubmitToWorker(i) \/ RunInputCommand(i) \/ EndInputCommand(i)
  BY <1>1, <1>8 DEF SubmitToWorker, RunInputCommand, EndInputCommand
<1>9. CASE \E i \in Inputs : RecordDelivery(i)
  <2>1. PICK i \in Inputs : RecordDelivery(i)
    BY <1>9
  <2>2. /\ i \in reports /\ UNCHANGED <<transcript, lapses>>
        /\ UNCHANGED receipt \/ (receipt[i] # "delivered" /\ Complete({i}))
    BY <2>1 DEF RecordDelivery
  <2>3. CASE receipt[i] # "delivered" /\ Complete({i})
    <3>1. Times(transcript, i) > 0
      BY <1>6, <2>2 DEF Fits, InternalOnce
    <3>2. transcript \in Seq(Inputs) /\ queue \in Seq(Inputs)
      BY <1>6 DEF Fits, InputsTyped
    <3>3. Times(transcript \o queue, i) > 0
      <4>1. /\ Times(transcript, i) \in Nat /\ Times(transcript \o queue, i) \in Nat
            /\ Times(transcript, i) <= Times(transcript \o queue, i)
        BY <3>2, Ahead
      <4>2. \A a, b \in Nat : a > 0 /\ a <= b => b > 0
        OBVIOUS
      <4> QED BY <3>1, <4>1, <4>2
    <3>4. i \in Pending
      BY <1>3, <1>6, <2>3, <3>3 DEF Fits, Admitted
    <3> QED BY <1>2, <2>2, <2>3, <3>1, <3>4
  <2> QED BY <1>1, <2>2, <2>3
<1>10. CASE WakeBegin \/ WakeReady \/ WakeFails \/ DispatchBegin \/ DispatchReady \/ DispatchFails
  BY <1>1, <1>10 DEF WakeBegin, WakeReady, WakeFails, DispatchBegin, DispatchReady, DispatchFails
<1>11. CASE (\E o \in Owners : PassBegin(o)) \/ PassSendFails
  BY <1>1, <1>11 DEF PassBegin, PassSendFails
<1>12. CASE PassDecide
  <2>1. /\ UNCHANGED <<transcript, lapses>>
        /\ UNCHANGED receipt \/ Complete(pass.proven \cap Pending)
    BY <1>12 DEF PassDecide
  <2>2. \A i \in pass.proven : Times(transcript, i) > 0
    BY <1>6 DEF Fits, PassFits
  <2> QED BY <1>1, <1>2, <2>1, <2>2
<1>13. CASE PassLapses
  <2>1. /\ pass.phase = "answer" /\ UNCHANGED <<receipt, transcript>>
        /\ lapses' = [lapses EXCEPT ![First(pass.todo)] = @ + 1]
    BY <1>13 DEF PassLapses
  <2>2. pass.todo # {}
    BY <1>6, <2>1 DEF Fits, PassFits
  <2>3. First(pass.todo) \in pass.todo /\ First(pass.todo) \in Inputs
    BY <1>4, <1>5, <2>2
  <2>4. receipt[First(pass.todo)] # "none"
    BY <1>6, <2>3 DEF Fits, Admitted
  <2> QED BY <2>1, <2>3, <2>4, ContractSteps DEF Contract!Next
<1>14. CASE PassAnswered
  <2> DEFINE c == First(pass.todo)
  <2>1. /\ UNCHANGED <<transcript, lapses>>
        /\ \/ UNCHANGED receipt
           \/ pass.phase = "handled" /\ receipt' = [receipt EXCEPT ![c] = "handled"]
    BY <1>14 DEF PassAnswered
  <2>2. CASE pass.phase = "handled" /\ receipt' = [receipt EXCEPT ![c] = "handled"]
    <3>1. c = Earliest(sequence, pass.todo)
      BY <1>3
    <3> HIDE DEF c
    <3>2. c \in pass.todo /\ c \in Commands /\ receipt[c] = "reserved"
      <4>1. pass.todo # {} /\ c \in Commands
        BY <1>6, <2>2, <3>1 DEF Fits, PassFits
      <4>2. c \in pass.todo
        BY <1>4, <1>5, <4>1 DEF c
      <4> QED BY <1>6, <4>1, <4>2 DEF Fits, PassFits
    <3>3. c \in Inputs
      BY <1>5, <3>2
    <3>4. Times(transcript, c) = 0
      <4>1. transcript \in Seq(Inputs) /\ queue \in Seq(Inputs)
        BY <1>6 DEF Fits, InputsTyped
      <4>2. /\ Times(transcript, c) \in Nat /\ Times(transcript \o queue, c) \in Nat
            /\ Times(transcript, c) <= Times(transcript \o queue, c)
        BY <4>1, Ahead
      <4>3. ~(Times(transcript \o queue, c) > 0)
        BY <1>6, <3>2, <3>3 DEF Fits, Admitted
      <4>4. \A a, b \in Nat : a <= b /\ ~(b > 0) => a = 0
        OBVIOUS
      <4> QED BY <4>2, <4>3, <4>4
    <3> QED BY <2>1, <2>2, <3>2, <3>3, <3>4, ContractSteps DEF Contract!Next
  <2> QED BY <1>1, <2>1, <2>2
<1>15. CASE PassVerifies
  <2> DEFINE c == First(pass.todo)
  <2>1. /\ pass.phase = "ran" /\ UNCHANGED <<transcript, lapses>>
        /\ UNCHANGED receipt \/ (row[c].state # "none" /\ Entries(c) = 1 /\ Complete({c}))
    BY <1>15 DEF PassVerifies
  <2>2. CASE row[c].state # "none" /\ Entries(c) = 1 /\ Complete({c})
    <3>1. pass.todo # {}
      BY <1>6, <2>1 DEF Fits, PassFits
    <3>2. c \in Inputs
      BY <1>4, <1>5, <3>1
    <3>3. {c} \subseteq Pending /\ \A i \in {c} : Times(transcript, i) > 0
      BY <1>3, <2>2, <3>2 DEF Pending
    <3> QED BY <1>2, <2>1, <2>2, <3>3
  <2> QED BY <1>1, <2>1, <2>2
<1>16. CASE CommitInput
  BY <1>16, CommitEnters DEF Contract!Next
<1>17. CASE FlushInputs \/ SettledWake \/ Register \/ Disconnect \/ Launch \/ LaunchFails \/ BecomeResident
  BY <1>1, <1>17 DEF FlushInputs, SettledWake, Register, Disconnect, Launch, LaunchFails, BecomeResident
<1>18. CASE Passivate \/ Stop \/ Revive \/ WorkerExit \/ Crash \/ StopAndStart
  BY <1>1, <1>18 DEF Passivate, Stop, Revive, WorkerExit, Crash, StopAndStart, StartDaemon
<1> QED
  BY <1>7, <1>8, <1>9, <1>10, <1>11, <1>12, <1>13, <1>14, <1>15, <1>16, <1>17, <1>18 DEF Next

\* The inputs' machinery keeps the contract of an admitted input: it is completed in one way and after
\* the fact, and enters the transcript once, and once more at most for each answer that was lost.
THEOREM InputsRefinement == Spec => ImplementsContract
<1>1. Init => Contract!Init
  <2> SUFFICES ASSUME Init PROVE Contract!Init
    OBVIOUS
  <2>1. receipt = [i \in Inputs |-> "none"] /\ transcript = <<>> /\ lapses = [i \in Inputs |-> 0]
    BY DEF Init
  <2>2. \A i : {n \in DOMAIN transcript : transcript[n] = i} = {}
    BY <2>1
  <2>3. \A i : Entries(i) = 0
    BY <2>2, FS_EmptySet DEF Entries
  <2> QED BY <2>1, <2>3 DEF Contract!Init
<1>2. InputsInv /\ [Next]_vars => [Contract!Next]_(Contract!vars)
  <2> SUFFICES ASSUME InputsInv, [Next]_vars PROVE [Contract!Next]_(Contract!vars)
    OBVIOUS
  <2>1. CASE Next
    BY <2>1, ContractStep
  <2>2. CASE UNCHANGED vars
    <3>1. UNCHANGED <<receipt, transcript, lapses>>
      BY <2>2 DEF vars
    <3> QED BY <3>1, ContractSteps
  <2> QED BY <2>1, <2>2
<1> QED BY <1>1, <1>2, InputsInvariant, PTL DEF Spec, ImplementsContract, Contract!Spec
=============================================================================
