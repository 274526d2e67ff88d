---------------------- MODULE SessionsBackgroundProofs ----------------------
(* What holds of the activity of sessions for any tree and any troubles,    *)
(* and of background processes for any jobs, roots and deaths.             *)
EXTENDS Sessions, Background, TLAPS

-----------------------------------------------------------------------------
(* The tree of sessions. *)

\* What is above a session: its parent and what is above that, and nothing else.
LEMMA AboveUpward ==
  ASSUME NEW s \in Ids
  PROVE  Above(s) \subseteq Ids /\ Upward(Above(s)) /\ Parent[s] \in Above(s) \cup {NoId}
<1>1. Parent \in [Ids -> Ids \cup {NoId}] BY TreeAssumption
<1>2. Above(s) = {p \in Ids : \A A \in SUBSET Ids : Upward(A) /\ Parent[s] \in A \cup {NoId} => p \in A}
  BY DEF Above, AboveOf
<1>3. Parent[s] \in Above(s) \cup {NoId} BY <1>1, <1>2
<1>4. ASSUME NEW x \in Above(s), Parent[x] # NoId PROVE Parent[x] \in Above(s)
  <2>1. x \in Ids /\ Parent[x] \in Ids BY <1>1, <1>2, <1>4
  <2>2. ASSUME NEW A \in SUBSET Ids, Upward(A), Parent[s] \in A \cup {NoId} PROVE Parent[x] \in A
    <3>1. x \in A BY <1>2, <2>2
    <3> QED BY <1>4, <2>2, <3>1 DEF Upward
  <2> QED BY <1>2, <2>1, <2>2
<1> QED BY <1>2, <1>3, <1>4 DEF Upward

\* Every set that is closed upwards and has the parent of a session has all that is above it.
LEMMA AboveLeast ==
  ASSUME NEW s \in Ids, NEW A \in SUBSET Ids, Upward(A), Parent[s] \in A \cup {NoId}
  PROVE  Above(s) \subseteq A
BY DEF Above, AboveOf

\* What is above a session is its parent or above its parent.
LEMMA AboveUnfolds ==
  ASSUME NEW s \in Ids, NEW x \in Above(s)
  PROVE  Parent[s] \in Ids /\ (x = Parent[s] \/ x \in Above(Parent[s]))
<1>1. Parent[s] \in Ids \cup {NoId} BY TreeAssumption
<1>2. CASE Parent[s] = NoId
  <2>1. Upward({}) BY DEF Upward
  <2>2. {} \in SUBSET Ids /\ Parent[s] \in {} \cup {NoId} BY <1>2
  <2>3. Above(s) \subseteq {} BY <2>1, <2>2, AboveLeast
  <2> QED BY <2>3
<1>3. CASE Parent[s] \in Ids
  <2> DEFINE A == {Parent[s]} \cup Above(Parent[s])
  <2>1. A \in SUBSET Ids BY <1>3, AboveUpward
  <2>2. Upward(A) BY <1>3, AboveUpward DEF Upward
  <2>3. Above(s) \subseteq A
    <3> HIDE DEF A
    <3>1. Parent[s] \in A \cup {NoId} BY DEF A
    <3> QED BY <2>1, <2>2, <3>1, AboveLeast
  <2> QED BY <1>3, <2>3
<1> QED BY <1>1, <1>2, <1>3

\* What is above a session above s is above s.
LEMMA AboveIsTransitive ==
  ASSUME NEW s \in Ids, NEW x \in Above(s)
  PROVE  x \in Ids /\ Above(x) \subseteq Above(s)
<1>1. Above(s) \in SUBSET Ids /\ Upward(Above(s)) BY AboveUpward
<1>2. Parent[x] \in Above(s) \cup {NoId} BY <1>1 DEF Upward
<1> QED BY <1>1, <1>2, AboveLeast

\* Of two sessions above a third one is above the other.
LEMMA AboveIsALine ==
  ASSUME NEW d \in Ids, NEW x \in Above(d), NEW y \in Above(d)
  PROVE  x = y \/ x \in Above(y) \/ y \in Above(x)
<1> DEFINE A == {z \in Above(d) : \A w \in Above(d) : z = w \/ z \in Above(w) \/ w \in Above(z)}
<1>1. Above(d) \in SUBSET Ids /\ Upward(Above(d)) /\ Parent[d] \in Above(d) \cup {NoId} BY AboveUpward
<1>2. Parent[d] \in A \cup {NoId}
  <2>1. SUFFICES ASSUME Parent[d] # NoId PROVE Parent[d] \in A OBVIOUS
  <2>2. \A w \in Above(d) : w = Parent[d] \/ w \in Above(Parent[d]) BY AboveUnfolds
  <2> QED BY <1>1, <2>1, <2>2
<1>3. ASSUME NEW z \in A, Parent[z] # NoId PROVE Parent[z] \in A
  <2> DEFINE q == Parent[z]
  <2>1. z \in Ids /\ q \in Above(d) /\ q \in Ids /\ q \in Above(z)
    <3>1. z \in Above(d) /\ z \in Ids BY <1>1, <1>3
    <3>2. q \in Above(d) BY <1>1, <1>3, <3>1 DEF Upward
    <3>3. q \in Above(z) BY <1>3, <3>1, AboveUpward
    <3> QED BY <1>1, <3>1, <3>2, <3>3
  <2>2. ASSUME NEW w \in Above(d) PROVE q = w \/ q \in Above(w) \/ w \in Above(q)
    <3>1. w \in Ids BY <1>1
    <3>2. CASE z = w BY <2>1, <3>2
    <3>3. CASE z \in Above(w) BY <2>1, <3>1, <3>3, AboveIsTransitive
    <3>4. CASE w \in Above(z) BY <2>1, <3>4, AboveUnfolds
    <3> QED BY <1>3, <3>2, <3>3, <3>4
  <2> QED BY <2>1, <2>2
<1>4. A \in SUBSET Ids BY <1>1
<1>5. Upward(A) BY <1>3 DEF Upward
<1>6. Above(d) \subseteq A
  <2> HIDE DEF A
  <2> QED BY <1>2, <1>4, <1>5, AboveLeast
<1> QED BY <1>6

\* A session's working descendants are counted alike when none of those that changed is below it.
LEMMA BusyUnchanged ==
  ASSUME NEW lv, NEW lw, NEW str, NEW stw, NEW x \in Ids, NEW G,
         \A d \in Ids \ G : str[d] = stw[d] /\ (lv[d] = "deleted" <=> lw[d] = "deleted"),
         x \notin G, \A g \in G \cap Ids : x \notin Above(g)
  PROVE  Busy(lv, str, x) <=> Busy(lw, stw, x)
<1>1. ASSUME NEW d \in Ids, x \in Above(d), NEW m \in {d} \cup (Above(d) \ ({x} \cup Above(x)))
      PROVE  m \in Ids \ G
  <2>1. CASE m = d BY <1>1, <2>1
  <2>2. CASE m \in Above(d) \ ({x} \cup Above(x))
    <3>1. m \in Ids BY <2>2, AboveUpward
    <3>2. x \in Above(m) BY <1>1, <2>2, AboveIsALine
    <3> QED BY <3>1, <3>2
  <2> QED BY <1>1, <2>1, <2>2
<1>2. ASSUME NEW d \in Ids, x \in Above(d) PROVE d \in Ids \ G
  BY <1>2
<1>3. ASSUME NEW d \in Ids
      PROVE  (/\ str[d] /\ x \in Above(d)
              /\ \A m \in {d} \cup (Above(d) \ ({x} \cup Above(x))) : lv[m] # "deleted")
         <=> (/\ stw[d] /\ x \in Above(d)
              /\ \A m \in {d} \cup (Above(d) \ ({x} \cup Above(x))) : lw[m] # "deleted")
  <2>1. CASE x \notin Above(d) BY <2>1
  <2>2. CASE x \in Above(d)
    <3>1. str[d] = stw[d] BY <1>2, <2>2
    <3>2. \A m \in {d} \cup (Above(d) \ ({x} \cup Above(x))) : lv[m] = "deleted" <=> lw[m] = "deleted"
      BY <1>1, <2>2
    <3> QED BY <3>1, <3>2
  <2> QED BY <2>1, <2>2
<1> QED BY <1>3 DEF Busy

-----------------------------------------------------------------------------
(* The activity shown. *)

Lives == {"none", "starting", "resident", "passivated", "stopped", "error", "deleted"}

\* The types of what the activity and its walks read.
TreeTypes ==
  /\ life \in [Ids -> Lives]
  /\ activity \in [Ids -> {"inactive", "idle", "working", "delegating"}]
  /\ streaming \in [Ids -> BOOLEAN]
  /\ waking \in [Ids -> {"no", "yes", "again", "retry"}]
  /\ closing \in [Ids -> {"none", "passivated", "stopped", "error"}]
  /\ spawning \subseteq Ids
  /\ deletion \in [root : Ids \cup {NoId}, members : SUBSET Ids, left : SUBSET Ids]

\* Children that are being spawned have no row yet; sessions that are woken, or stopped for a deletion, have one.
Admitted ==
  /\ \A c \in spawning : Parent[c] # NoId /\ life[c] = "none"
  /\ \A s \in Ids : waking[s] # "no" => life[s] # "none"
  /\ \A s \in deletion.left : life[s] # "none"
  /\ deletion # NoDeletion => deletion.root \in Ids

\* What is asked of the activity a that session s shows.
Fits(lv, str, a, s) ==
  /\ lv[s] = "resident" => a = Shown(lv, str, s)
  /\ lv[s] \in {"passivated", "stopped", "error"} /\ Busy(lv, str, s) => a = "delegating"

\* The property, session by session, before and after a step.
LEMMA ActivityFits ==
  /\ ActivityIsTrue <=> \A s \in Ids : Fits(life, streaming, activity[s], s)
  /\ ActivityIsTrue' <=> \A s \in Ids : Fits(life', streaming', activity'[s], s)
BY DEF ActivityIsTrue, Fits

\* What Shown computes is what is asked.
LEMMA ShownFits ==
  ASSUME NEW lv, NEW str, NEW s
  PROVE  Fits(lv, str, Shown(lv, str, s), s)
BY DEF Fits, Shown

\* A session whose own row and working descendants stay the same still fits.
LEMMA FitsUnchanged ==
  ASSUME NEW lv, NEW lw, NEW str, NEW stw, NEW a, NEW x \in Ids,
         lw[x] = lv[x], stw[x] = str[x], Busy(lv, str, x) <=> Busy(lw, stw, x), Fits(lv, str, a, x)
  PROVE  Fits(lw, stw, a, x)
BY DEF Fits, Shown

\* A step that changes the rows G, refreshes what is above top, and leaves no other session above a row of G.
LEMMA WalkKeeps ==
  ASSUME TreeTypes, ActivityIsTrue, NEW G, NEW top \in Ids,
         \A d \in Ids \ G : streaming'[d] = streaming[d] /\ life'[d] = life[d],
         \A x \in Ids \ (G \cup Above(top)) : activity'[x] = activity[x],
         \A x \in Above(top) : activity'[x] = Shown(life', streaming', x),
         \A x \in G \cap Ids : Fits(life', streaming', activity'[x], x),
         \A x \in Ids \ (G \cup Above(top)) : life[x] = "none" \/ \A g \in G \cap Ids : x \notin Above(g)
  PROVE  ActivityIsTrue'
<1> SUFFICES ASSUME NEW x \in Ids PROVE Fits(life', streaming', activity'[x], x) BY ActivityFits
<1>1. CASE x \in Above(top) BY <1>1, ShownFits
<1>2. CASE x \in G BY <1>2
<1>3. CASE x \notin G /\ x \notin Above(top)
  <2>1. activity'[x] = activity[x] /\ life'[x] = life[x] /\ streaming'[x] = streaming[x] BY <1>3
  <2>2. CASE life[x] = "none" BY <2>1, <2>2 DEF Fits
  <2>3. CASE \A g \in G \cap Ids : x \notin Above(g)
    <3>1. \A d \in Ids \ G : streaming[d] = streaming'[d] /\ (life[d] = "deleted" <=> life'[d] = "deleted")
      OBVIOUS
    <3>2. Busy(life, streaming, x) <=> Busy(life', streaming', x) BY <1>3, <2>3, <3>1, BusyUnchanged
    <3>3. Fits(life, streaming, activity[x], x) BY ActivityFits
    <3> QED BY <2>1, <3>2, <3>3, FitsUnchanged
  <2> QED BY <1>3, <2>2, <2>3
<1> QED BY <1>1, <1>2, <1>3

\* Shown is an activity.
LEMMA ShownTyped ==
  ASSUME NEW lv, NEW str, NEW s
  PROVE  Shown(lv, str, s) \in {"inactive", "idle", "working", "delegating"}
BY DEF Shown

\* Marking a session's lifecycle and walking its ancestors keeps the property.
LEMMA MarkKeeps ==
  ASSUME TreeTypes, ActivityIsTrue, NEW s \in Ids, NEW to, Mark(s, to)
  PROVE  ActivityIsTrue'
<1>1. \A d \in Ids \ {s} : streaming'[d] = streaming[d] /\ life'[d] = life[d]
  BY DEF Mark, TreeTypes
<1>2. \A x \in Ids : activity'[x] = IF x \in Above(s) \/ x = s THEN Shown(life', streaming', x) ELSE activity[x]
  BY DEF Mark, Refreshed, TreeTypes
<1>3. Above(s) \subseteq Ids BY AboveUpward
<1>4. \A x \in {s} \cap Ids : Fits(life', streaming', activity'[x], x) BY <1>2, ShownFits
<1> QED BY <1>1, <1>2, <1>3, <1>4, WalkKeeps

\* So does the beginning or the end of a turn.
LEMMA StreamingKeeps ==
  ASSUME TreeTypes, ActivityIsTrue, NEW s \in Ids, NEW b \in BOOLEAN, UNCHANGED life,
         streaming' = [streaming EXCEPT ![s] = b],
         activity' = Refreshed([activity EXCEPT ![s] = Shown(life, streaming', s)], life, streaming', s)
  PROVE  ActivityIsTrue'
<1>1. \A d \in Ids \ {s} : streaming'[d] = streaming[d] /\ life'[d] = life[d]
  BY DEF TreeTypes
<1>2. \A x \in Ids : activity'[x] = IF x \in Above(s) \/ x = s THEN Shown(life', streaming', x) ELSE activity[x]
  BY DEF Refreshed, TreeTypes
<1>3. Above(s) \subseteq Ids BY AboveUpward
<1>4. \A x \in {s} \cap Ids : Fits(life', streaming', activity'[x], x) BY <1>2, ShownFits
<1> QED BY <1>1, <1>2, <1>3, <1>4, WalkKeeps

\* So does a requested start.
LEMMA RequestKeeps ==
  ASSUME TreeTypes, ActivityIsTrue, NEW s \in Ids, NEW revive, RequestStart(s, revive)
  PROVE  ActivityIsTrue'
<1>1. CASE Marked BY <1>1, ActivityFits DEF Marked
<1>2. CASE /\ life' = [life EXCEPT ![s] = "starting"]
           /\ streaming' = [streaming EXCEPT ![s] = FALSE]
           /\ activity' = Refreshed([activity EXCEPT ![s] = "inactive"], life', streaming', s)
  <2>1. \A d \in Ids \ {s} : streaming'[d] = streaming[d] /\ life'[d] = life[d] BY <1>2 DEF TreeTypes
  <2>2. \A x \in Ids \ {s} : activity'[x] = IF x \in Above(s) THEN Shown(life', streaming', x) ELSE activity[x]
    BY <1>2 DEF Refreshed, TreeTypes
  <2>3. \A x \in Above(s) : activity'[x] = Shown(life', streaming', x)
    BY <1>2, AboveUpward DEF Refreshed
  <2>4. Fits(life', streaming', activity'[s], s) BY <1>2 DEF Fits, TreeTypes
  <2>5. /\ \A x \in Ids \ ({s} \cup Above(s)) : activity'[x] = activity[x]
        /\ \A x \in {s} \cap Ids : Fits(life', streaming', activity'[x], x)
        /\ \A x \in Ids \ ({s} \cup Above(s)) : life[x] = "none" \/ \A g \in {s} \cap Ids : x \notin Above(g)
    BY <2>2, <2>4
  <2> QED BY <2>1, <2>3, <2>5, WalkKeeps
<1> QED BY <1>1, <1>2 DEF RequestStart

\* So does the admission of a new session, which nothing works below yet.
LEMMA AdmitKeeps ==
  ASSUME TreeTypes, ActivityIsTrue, NEW s \in Ids, life[s] = "none", life' = [life EXCEPT ![s] = "starting"],
         UNCHANGED <<streaming, activity>>
  PROVE  ActivityIsTrue'
<1> SUFFICES ASSUME NEW x \in Ids PROVE Fits(life', streaming', activity'[x], x) BY ActivityFits
<1>1. CASE x = s BY <1>1 DEF Fits, TreeTypes
<1>2. CASE x # s
  <2>1. \A d \in Ids \ {} : streaming[d] = streaming'[d] /\ (life[d] = "deleted" <=> life'[d] = "deleted")
    BY DEF TreeTypes
  <2>2. Busy(life, streaming, x) <=> Busy(life', streaming', x)
    <3>1. x \notin {} /\ \A g \in {} \cap Ids : x \notin Above(g) OBVIOUS
    <3> QED BY Zenon, <2>1, <3>1, BusyUnchanged
  <2>3. life'[x] = life[x] /\ streaming'[x] = streaming[x] BY <1>2 DEF TreeTypes
  <2>4. Fits(life, streaming, activity[x], x) BY ActivityFits
  <2> QED BY <2>2, <2>3, <2>4, FitsUnchanged
<1> QED BY <1>1, <1>2

\* So does the deletion of a subtree, above which every ancestor of its root is refreshed.
LEMMA DeleteKeeps ==
  ASSUME TreeTypes, Admitted, ActivityIsTrue, DeleteCommit
  PROVE  ActivityIsTrue'
<1> DEFINE root == deletion.root
           gone == Subtree(root)
<1>1. root \in Ids BY DEF DeleteCommit, Admitted
<1>2. gone \subseteq Ids BY DEF Subtree
<1>3. \A d \in Ids : /\ life'[d] = IF d \in gone THEN "deleted" ELSE life[d]
                     /\ streaming'[d] = (d \notin gone /\ streaming[d])
                     /\ activity'[d] = IF d \in Above(root) THEN Shown(life', streaming', d)
                                       ELSE IF d \in gone THEN "inactive" ELSE activity[d]
  BY DEF DeleteCommit, Refreshed, TreeTypes
<1>4. \A d \in Ids \ gone : streaming'[d] = streaming[d] /\ life'[d] = life[d] BY <1>3 DEF TreeTypes
<1>5. \A x \in gone \cap Ids : Fits(life', streaming', activity'[x], x)
  BY <1>3 DEF Fits
<1>6. ASSUME NEW x \in Ids \ (gone \cup Above(root)), life[x] # "none", NEW g \in gone \cap Ids PROVE x \notin Above(g)
  <2>1. x # root /\ root \notin Above(x) BY <1>6 DEF Subtree
  <2>2. CASE g = root BY <1>6, <2>2
  <2>3. CASE root \in Above(g) BY <1>6, <2>1, <2>3, AboveIsALine
  <2> QED BY <1>6, <2>2, <2>3 DEF Subtree
<1>7. Above(root) \subseteq Ids BY <1>1, AboveUpward
<1> HIDE DEF root, gone
<1> QED BY <1>1, <1>3, <1>4, <1>5, <1>6, <1>7, WalkKeeps

RowTypes ==
  /\ life \in [Ids -> Lives]
  /\ activity \in [Ids -> {"inactive", "idle", "working", "delegating"}]
  /\ streaming \in [Ids -> BOOLEAN]
SameRows == \A x \in Ids : life'[x] = "none" <=> life[x] = "none"

\* A walk leaves activities.
LEMMA RefreshedTyped ==
  ASSUME NEW act \in [Ids -> {"inactive", "idle", "working", "delegating"}], NEW lv, NEW str, NEW s
  PROVE  Refreshed(act, lv, str, s) \in [Ids -> {"inactive", "idle", "working", "delegating"}]
BY ShownTyped DEF Refreshed

\* What each change of a session's columns keeps: their types, and who has a row.
LEMMA MarkRows ==
  ASSUME TreeTypes, NEW s \in Ids, NEW to \in Lives \ {"none"}, life[s] # "none", Mark(s, to)
  PROVE  RowTypes' /\ SameRows
<1>1. life' \in [Ids -> Lives] /\ SameRows BY DEF Mark, TreeTypes, SameRows
<1>2. streaming' \in [Ids -> BOOLEAN] BY DEF Mark, TreeTypes
<1> DEFINE act == [activity EXCEPT ![s] = Shown(life', streaming', s)]
<1>3. act \in [Ids -> {"inactive", "idle", "working", "delegating"}]
  <2>1. Shown(life', streaming', s) \in {"inactive", "idle", "working", "delegating"} BY ShownTyped
  <2> QED BY <2>1 DEF TreeTypes
<1>4. activity' = Refreshed(act, life', streaming', s) BY DEF Mark
<1> HIDE DEF act
<1>5. activity' \in [Ids -> {"inactive", "idle", "working", "delegating"}] BY <1>3, <1>4, RefreshedTyped
<1> QED BY <1>1, <1>2, <1>5 DEF RowTypes

\* The beginning or the end of a turn.
LEMMA StreamingRows ==
  ASSUME TreeTypes, NEW s \in Ids, NEW b \in BOOLEAN, UNCHANGED life,
         streaming' = [streaming EXCEPT ![s] = b],
         activity' = Refreshed([activity EXCEPT ![s] = Shown(life, streaming', s)], life, streaming', s)
  PROVE  RowTypes' /\ SameRows
<1>1. life' \in [Ids -> Lives] /\ SameRows BY DEF TreeTypes, SameRows
<1>2. streaming' \in [Ids -> BOOLEAN] BY DEF TreeTypes
<1> DEFINE act == [activity EXCEPT ![s] = Shown(life, streaming', s)]
<1>3. act \in [Ids -> {"inactive", "idle", "working", "delegating"}]
  <2>1. Shown(life, streaming', s) \in {"inactive", "idle", "working", "delegating"} BY ShownTyped
  <2> QED BY <2>1 DEF TreeTypes
<1>4. activity' = Refreshed(act, life, streaming', s) OBVIOUS
<1> HIDE DEF act
<1>5. Refreshed(act, life, streaming', s) \in [Ids -> {"inactive", "idle", "working", "delegating"}]
  BY <1>3, RefreshedTyped
<1>6. activity' \in [Ids -> {"inactive", "idle", "working", "delegating"}] BY Zenon, <1>4, <1>5
<1> QED BY <1>1, <1>2, <1>6 DEF RowTypes

\* A requested start.
LEMMA RequestRows ==
  ASSUME TreeTypes, NEW s \in Ids, life[s] # "none", NEW revive, RequestStart(s, revive)
  PROVE  RowTypes' /\ SameRows
<1>1. CASE Marked BY <1>1 DEF Marked, TreeTypes, RowTypes, SameRows
<1>2. CASE /\ life' = [life EXCEPT ![s] = "starting"]
           /\ streaming' = [streaming EXCEPT ![s] = FALSE]
           /\ activity' = Refreshed([activity EXCEPT ![s] = "inactive"], life', streaming', s)
  <2>1. life' \in [Ids -> Lives] /\ SameRows BY <1>2 DEF TreeTypes, SameRows, Lives
  <2>2. streaming' \in [Ids -> BOOLEAN] BY <1>2 DEF TreeTypes
  <2> DEFINE act == [activity EXCEPT ![s] = "inactive"]
  <2>3. act \in [Ids -> {"inactive", "idle", "working", "delegating"}] BY DEF TreeTypes
  <2>4. activity' = Refreshed(act, life', streaming', s) BY <1>2
  <2> HIDE DEF act
  <2>5. activity' \in [Ids -> {"inactive", "idle", "working", "delegating"}] BY <2>3, <2>4, RefreshedTyped
  <2> QED BY <2>1, <2>2, <2>5 DEF RowTypes
<1> QED BY <1>1, <1>2 DEF RequestStart

\* A worker asked to end, or a lifecycle recorded when there is none.
LEMMA StopRows ==
  ASSUME TreeTypes, NEW s \in Ids, life[s] # "none", NEW l \in {"passivated", "stopped", "error"}, StopActor(s, l)
  PROVE  /\ RowTypes' /\ SameRows
         /\ closing' \in [Ids -> {"none", "passivated", "stopped", "error"}]
         /\ ActivityIsTrue => ActivityIsTrue'
<1>1. closing' \in [Ids -> {"none", "passivated", "stopped", "error"}] BY DEF StopActor, TreeTypes
<1>2. CASE Marked BY <1>1, <1>2, ActivityFits DEF Marked, TreeTypes, RowTypes, SameRows
<1>3. CASE Mark(s, l)
  <2>1. l \in Lives \ {"none"} BY DEF Lives
  <2> QED BY <1>1, <1>3, <2>1, MarkRows, MarkKeeps
<1> QED BY <1>2, <1>3 DEF StopActor

\* The end of a worker.
LEMMA EndsRows ==
  ASSUME TreeTypes, NEW s \in Ids, NEW to \in Lives \ {"none"}, Ends(s, to)
  PROVE  /\ RowTypes' /\ SameRows
         /\ closing' \in [Ids -> {"none", "passivated", "stopped", "error"}]
         /\ ActivityIsTrue => ActivityIsTrue'
         /\ UNCHANGED <<waking, spawning, deletion>>
<1>1. closing' \in [Ids -> {"none", "passivated", "stopped", "error"}] /\ UNCHANGED <<waking, spawning, deletion>>
  BY DEF Ends, TreeTypes
<1>2. CASE Marked BY <1>1, <1>2, ActivityFits DEF Marked, TreeTypes, RowTypes, SameRows
<1>3. CASE life[s] # "none" /\ Mark(s, to) BY <1>1, <1>3, MarkRows, MarkKeeps
<1> QED BY <1>2, <1>3 DEF Ends

SessionsInvariant == TreeTypes /\ Admitted /\ ActivityIsTrue

\* A step after which the same sessions have rows keeps the invariant.
LEMMA RowsKeep ==
  ASSUME TreeTypes, Admitted, RowTypes', SameRows, ActivityIsTrue',
         closing' \in [Ids -> {"none", "passivated", "stopped", "error"}],
         waking' \in [Ids -> {"no", "yes", "again", "retry"}],
         \A x \in Ids : waking'[x] # "no" => waking[x] # "no" \/ life[x] # "none",
         spawning' \subseteq Ids,
         \A c \in spawning' : c \in spawning \/ (Parent[c] # NoId /\ life[c] = "none"),
         deletion' \in [root : Ids \cup {NoId}, members : SUBSET Ids, left : SUBSET Ids],
         \A s \in deletion'.left : life[s] # "none",
         deletion' # NoDeletion => deletion'.root \in Ids
  PROVE  SessionsInvariant'
<1>1. TreeTypes' BY DEF TreeTypes, RowTypes
<1>2. Admitted' BY DEF TreeTypes, Admitted, SameRows, NoDeletion
<1> QED BY <1>1, <1>2 DEF SessionsInvariant

\* A deletion that does not move stays as it is asked to be.
LEMMA SameDeletion ==
  ASSUME TreeTypes, Admitted, UNCHANGED deletion
  PROVE  /\ deletion' \in [root : Ids \cup {NoId}, members : SUBSET Ids, left : SUBSET Ids]
         /\ \A s \in deletion'.left : life[s] # "none"
         /\ deletion' # NoDeletion => deletion'.root \in Ids
BY DEF TreeTypes, Admitted

\* A step that leaves the rows and the deletion alone.
LEMMA MarkedKeep ==
  ASSUME SessionsInvariant, Marked, UNCHANGED <<spawning, deletion>>,
         closing' \in [Ids -> {"none", "passivated", "stopped", "error"}],
         waking' \in [Ids -> {"no", "yes", "again", "retry"}],
         \A x \in Ids : waking'[x] # "no" => waking[x] # "no"
  PROVE  SessionsInvariant'
<1>1. RowTypes' /\ SameRows /\ ActivityIsTrue'
  BY ActivityFits DEF SessionsInvariant, TreeTypes, RowTypes, SameRows, Marked
<1> QED BY <1>1, RowsKeep, SameDeletion DEF SessionsInvariant, TreeTypes

\* Every step keeps the invariant.
LEMMA SessionsStep ==
  ASSUME SessionsInvariant, [Next]_vars
  PROVE  SessionsInvariant'
<1> USE TreeAssumption
<1>t. TreeTypes /\ Admitted /\ ActivityIsTrue BY DEF SessionsInvariant
<1>u. /\ waking \in [Ids -> {"no", "yes", "again", "retry"}]
      /\ closing \in [Ids -> {"none", "passivated", "stopped", "error"}]
      /\ spawning \subseteq Ids
  BY <1>t DEF TreeTypes
<1>1. ASSUME NEW s \in Ids, CreateRoot(s) \/ SpawnCommit(s) PROVE SessionsInvariant'
  <2>1. life[s] = "none" /\ life' = [life EXCEPT ![s] = "starting"] /\ UNCHANGED <<streaming, activity>>
    BY <1>t, <1>1 DEF CreateRoot, SpawnCommit, Admit, Admitted
  <2>2. ActivityIsTrue' BY <1>t, <2>1, AdmitKeeps
  <2>3. UNCHANGED <<closing, waking, deletion>> /\ spawning' \subseteq spawning /\ s \notin spawning'
    BY <1>t, <1>1 DEF CreateRoot, SpawnCommit, Admit, Admitted
  <2>4. TreeTypes' BY <1>t, <2>1, <2>3 DEF TreeTypes, Lives
  <2>5. Admitted' BY <1>t, <1>u, <2>1, <2>3 DEF Admitted, TreeTypes, NoDeletion
  <2> QED BY <2>2, <2>4, <2>5 DEF SessionsInvariant
<1>2. ASSUME NEW c \in Ids, SpawnBegin(c) \/ SpawnRejected(c) PROVE SessionsInvariant'
  <2>1. Marked /\ UNCHANGED <<closing, waking, deletion>>
    BY <1>2 DEF SpawnBegin, SpawnRejected
  <2>2. spawning' \subseteq Ids /\ \A d \in spawning' : d \in spawning \/ (Parent[d] # NoId /\ life[d] = "none")
    BY <1>u, <1>2 DEF SpawnBegin, SpawnRejected
  <2>3. RowTypes' /\ SameRows /\ ActivityIsTrue'
    BY <1>t, <2>1, ActivityFits DEF TreeTypes, RowTypes, SameRows, Marked
  <2> QED BY <1>t, <1>u, <2>1, <2>2, <2>3, RowsKeep, SameDeletion
<1>3. ASSUME NEW s \in Ids, Submit(s) \/ Revive(s) \/ WakeRetries(s) PROVE SessionsInvariant'
  <2>1. life[s] # "none" /\ RequestStart(s, TRUE) /\ UNCHANGED <<closing, spawning, deletion>>
    BY <1>3 DEF Submit, Revive, WakeRetries, CanStart, Available, Exists
  <2>2. waking' \in [Ids -> {"no", "yes", "again", "retry"}] /\ \A x \in Ids \ {s} : waking'[x] = waking[x]
    BY <1>u, <1>3 DEF Submit, Revive, WakeRetries
  <2>3. RowTypes' /\ SameRows /\ ActivityIsTrue' BY <1>t, <2>1, RequestRows, RequestKeeps
  <2> QED BY <1>t, <1>u, <2>1, <2>2, <2>3, RowsKeep, SameDeletion
<1>4. ASSUME NEW s \in Ids, FailWake(s) PROVE SessionsInvariant'
  <2>1. life[s] # "none" /\ StopActor(s, "error") /\ UNCHANGED <<spawning, deletion>>
    BY <1>t, <1>4 DEF FailWake, Admitted
  <2>2. waking' \in [Ids -> {"no", "yes", "again", "retry"}] /\ \A x \in Ids : waking'[x] # "no" => waking[x] # "no"
    BY <1>u, <1>4 DEF FailWake, AfterFailure
  <2>3. RowTypes' /\ SameRows /\ ActivityIsTrue' /\ closing' \in [Ids -> {"none", "passivated", "stopped", "error"}]
    BY <1>t, <2>1, StopRows
  <2> QED BY <1>t, <1>u, <2>1, <2>2, <2>3, RowsKeep, SameDeletion
<1>5. ASSUME NEW s \in Ids, WakeCancelled(s) PROVE SessionsInvariant'
  <2>1. waking' = [waking EXCEPT ![s] = "no"] /\ Marked /\ UNCHANGED <<closing, spawning, deletion>>
    BY <1>5 DEF WakeCancelled
  <2> QED BY <1>u, <2>1, MarkedKeep
<1>6. ASSUME DrainEnds \/ DrainDrops \/ DrainWaits \/ DrainLaunches PROVE SessionsInvariant'
  <2>1. Marked /\ UNCHANGED <<closing, waking, spawning, deletion>>
    BY <1>6 DEF DrainEnds, DrainDrops, DrainWaits, DrainLaunches, Drained
  <2> QED BY <1>u, <2>1, MarkedKeep
<1>7. ASSUME NEW s \in Ids, DrainMakesRoom(s) \/ RoomMade(s) PROVE SessionsInvariant'
  <2>1. Marked /\ UNCHANGED <<waking, spawning, deletion>>
    BY <1>7 DEF DrainMakesRoom, RoomMade, Drained
  <2>2. closing' \in [Ids -> {"none", "passivated", "stopped", "error"}]
    BY <1>u, <1>7 DEF DrainMakesRoom, RoomMade
  <2> QED BY <1>u, <2>1, <2>2, MarkedKeep
<1>8. ASSUME NEW s \in Ids, Granted(s) PROVE SessionsInvariant'
  <2>1. Marked /\ UNCHANGED <<closing, waking, spawning, deletion>> BY <1>8 DEF Granted
  <2> QED BY <1>u, <2>1, MarkedKeep
<1>9. ASSUME NEW s \in Ids, BecomeResident(s) PROVE SessionsInvariant'
  <2>1. life[s] # "none" /\ Mark(s, "resident") /\ UNCHANGED <<closing, waking, spawning, deletion>>
    BY <1>9 DEF BecomeResident
  <2>2. "resident" \in Lives \ {"none"} BY DEF Lives
  <2>3. RowTypes' /\ SameRows /\ ActivityIsTrue' BY <1>t, <2>1, <2>2, MarkRows, MarkKeeps
  <2> QED BY <1>t, <1>u, <2>1, <2>3, RowsKeep, SameDeletion
<1>10. ASSUME NEW s \in Ids, Exit(s) \/ Die(s) PROVE SessionsInvariant'
  <2>1. PICK to \in Lives \ {"none"} : Ends(s, to)
    <3>1. CASE Exit(s)
      <4>1. Ends(s, closing[s]) /\ closing[s] \in Lives \ {"none"} BY <1>u, <3>1 DEF Exit, Lives
      <4> QED BY <4>1
    <3>2. CASE Die(s)
      <4>1. Ends(s, "error") /\ "error" \in Lives \ {"none"} BY <3>2 DEF Die, Lives
      <4> QED BY <4>1
    <3> QED BY <1>10, <3>1, <3>2
  <2>2. /\ RowTypes' /\ SameRows /\ ActivityIsTrue' /\ UNCHANGED <<waking, spawning, deletion>>
        /\ closing' \in [Ids -> {"none", "passivated", "stopped", "error"}]
    BY <1>t, <2>1, EndsRows
  <2> QED BY <1>t, <1>u, <2>2, RowsKeep, SameDeletion
<1>11. ASSUME NEW s \in Ids, NEW turn \in BOOLEAN, Deliver(s, turn) PROVE SessionsInvariant'
  <2>1. /\ (streaming[s] \/ turn) \in BOOLEAN /\ UNCHANGED <<life, closing, spawning, deletion>>
        /\ streaming' = [streaming EXCEPT ![s] = streaming[s] \/ turn]
        /\ activity' = Refreshed([activity EXCEPT ![s] = Shown(life, streaming', s)], life, streaming', s)
        /\ waking' = [waking EXCEPT ![s] = "no"]
    BY <1>t, <1>11 DEF Deliver, TreeTypes
  <2>2. RowTypes' /\ SameRows /\ ActivityIsTrue' BY <1>t, <2>1, StreamingRows, StreamingKeeps
  <2>3. waking' \in [Ids -> {"no", "yes", "again", "retry"}] /\ \A x \in Ids : waking'[x] # "no" => waking[x] # "no"
    BY <1>u, <2>1
  <2> QED BY <1>t, <1>u, <2>1, <2>2, <2>3, RowsKeep, SameDeletion
<1>12. ASSUME NEW s \in Ids, Settle(s) PROVE SessionsInvariant'
  <2>1. /\ FALSE \in BOOLEAN /\ UNCHANGED <<life, closing, waking, spawning, deletion>>
        /\ streaming' = [streaming EXCEPT ![s] = FALSE]
        /\ activity' = Refreshed([activity EXCEPT ![s] = Shown(life, streaming', s)], life, streaming', s)
    BY <1>12 DEF Settle
  <2>2. RowTypes' /\ SameRows /\ ActivityIsTrue' BY <1>t, <2>1, StreamingRows, StreamingKeeps
  <2> QED BY <1>t, <1>u, <2>1, <2>2, RowsKeep, SameDeletion
<1>13. ASSUME NEW s \in Ids, Passivate(s) \/ StopBegin(s) PROVE SessionsInvariant'
  <2>1. PICK l \in {"passivated", "stopped", "error"} : StopActor(s, l)
    BY <1>13 DEF Passivate, StopBegin
  <2>2. life[s] # "none" /\ UNCHANGED <<waking, spawning, deletion>>
    BY <1>13 DEF Passivate, StopBegin, OwnIdle, Available, Exists
  <2>3. RowTypes' /\ SameRows /\ ActivityIsTrue' /\ closing' \in [Ids -> {"none", "passivated", "stopped", "error"}]
    BY <1>t, <2>1, <2>2, StopRows
  <2> QED BY <1>t, <1>u, <2>2, <2>3, RowsKeep, SameDeletion
<1>14. ASSUME NEW s \in Ids, TailEnds(s) PROVE SessionsInvariant'
  <2>1. Marked /\ UNCHANGED <<closing, waking, spawning, deletion>> BY <1>14 DEF TailEnds
  <2> QED BY <1>u, <2>1, MarkedKeep
<1>15. ASSUME NEW r \in Ids, DeleteBegin(r) PROVE SessionsInvariant'
  <2>1. /\ Marked /\ UNCHANGED <<closing, waking, spawning>>
        /\ deletion' = [root |-> r, members |-> Subtree(r), left |-> Subtree(r)]
    BY <1>15 DEF DeleteBegin
  <2>2. /\ deletion' \in [root : Ids \cup {NoId}, members : SUBSET Ids, left : SUBSET Ids]
        /\ \A s \in deletion'.left : life[s] # "none"
        /\ deletion' # NoDeletion => deletion'.root \in Ids
    BY <2>1 DEF Subtree
  <2>3. RowTypes' /\ SameRows /\ ActivityIsTrue'
    BY <1>t, <2>1, ActivityFits DEF TreeTypes, RowTypes, SameRows, Marked
  <2> QED BY <1>t, <1>u, <2>1, <2>2, <2>3, RowsKeep
<1>16. ASSUME NEW s \in Ids, DeleteStops(s) PROVE SessionsInvariant'
  <2>1. /\ life[s] # "none" /\ StopActor(s, "stopped") /\ UNCHANGED <<waking, spawning>>
        /\ deletion' = [deletion EXCEPT !.left = deletion.left \ {s}]
    BY <1>t, <1>16 DEF DeleteStops, Admitted
  <2>2. /\ deletion' \in [root : Ids \cup {NoId}, members : SUBSET Ids, left : SUBSET Ids]
        /\ \A x \in deletion'.left : life[x] # "none"
        /\ deletion' # NoDeletion => deletion'.root \in Ids
    <3>1. deletion \in [root : Ids \cup {NoId}, members : SUBSET Ids, left : SUBSET Ids] BY <1>t DEF TreeTypes
    <3>2. deletion # NoDeletion BY <1>16 DEF DeleteStops, NoDeletion
    <3>3. deletion'.root = deletion.root /\ deletion'.left \subseteq deletion.left BY <2>1, <3>1
    <3>4. deletion' \in [root : Ids \cup {NoId}, members : SUBSET Ids, left : SUBSET Ids] BY <2>1, <3>1
    <3> QED BY <1>t, <3>2, <3>3, <3>4 DEF Admitted
  <2>3. RowTypes' /\ SameRows /\ ActivityIsTrue' /\ closing' \in [Ids -> {"none", "passivated", "stopped", "error"}]
    BY <1>t, <2>1, StopRows
  <2> QED BY <1>t, <1>u, <2>1, <2>2, <2>3, RowsKeep
<1>17. ASSUME DeleteCommit PROVE SessionsInvariant'
  <2> DEFINE gone == Subtree(deletion.root)
  <2>1. /\ life' = [s \in Ids |-> IF s \in gone THEN "deleted" ELSE life[s]]
        /\ streaming' = [s \in Ids |-> s \notin gone /\ streaming[s]]
        /\ activity' = Refreshed([s \in Ids |-> IF s \in gone THEN "inactive" ELSE activity[s]], life', streaming',
                                 deletion.root)
        /\ deletion' = NoDeletion /\ UNCHANGED <<closing, waking, spawning>>
    BY <1>17 DEF DeleteCommit
  <2>2. life' \in [Ids -> Lives] BY <1>t, <2>1 DEF TreeTypes, Lives
  <2>3. SameRows BY <2>1 DEF SameRows, Subtree
  <2>4. streaming' \in [Ids -> BOOLEAN] BY <1>t, <2>1 DEF TreeTypes
  <2>5. activity' \in [Ids -> {"inactive", "idle", "working", "delegating"}]
    <3> DEFINE act == [s \in Ids |-> IF s \in gone THEN "inactive" ELSE activity[s]]
    <3>1. act \in [Ids -> {"inactive", "idle", "working", "delegating"}] BY <1>t DEF TreeTypes
    <3>2. activity' = Refreshed(act, life', streaming', deletion.root) BY <2>1
    <3> HIDE DEF act
    <3> QED BY <3>1, <3>2, RefreshedTyped
  <2>6. RowTypes' BY <2>2, <2>4, <2>5 DEF RowTypes
  <2>7. deletion' \in [root : Ids \cup {NoId}, members : SUBSET Ids, left : SUBSET Ids] /\ deletion'.left = {}
    BY <2>1 DEF NoDeletion
  <2>8. ActivityIsTrue' BY <1>t, <1>17, DeleteKeeps
  <2> QED BY <1>t, <1>u, <2>1, <2>3, <2>6, <2>7, <2>8, RowsKeep
<1>18. ASSUME NEW graceful \in BOOLEAN, Restart(graceful) PROVE SessionsInvariant'
  <2> DEFINE parked == IF graceful THEN {s \in Ids : Recorded(s) /\ life[s] \in {"starting", "resident", "error"}} ELSE {}
             left   == [s \in Ids |-> IF s \in parked THEN "passivated" ELSE life[s]]
             shown  == [s \in Ids |-> IF \E p \in parked : p = s \/ s \in Above(p) THEN "inactive" ELSE activity[s]]
             owners == {s \in Ids : left[s] \in {"starting", "resident"} \/ (left[s] = "passivated" /\ owed[s])}
  <2>1. /\ life' = [s \in Ids |-> IF s \in owners THEN "starting" ELSE left[s]]
        /\ activity' = [s \in Ids |-> IF s \in owners THEN "inactive" ELSE shown[s]]
        /\ streaming' = [s \in Ids |-> FALSE]
        /\ closing' = [s \in Ids |-> "none"] /\ waking' = [s \in Ids |-> "no"]
        /\ spawning' = {} /\ deletion' = NoDeletion
    BY <1>18 DEF Restart
  <2>2. left \in [Ids -> Lives] /\ \A s \in Ids : left[s] = "none" <=> life[s] = "none"
    BY <1>t DEF TreeTypes, Lives
  <2>3. life' \in [Ids -> Lives] /\ SameRows /\ \A s \in Ids : life'[s] # "resident"
    <3> HIDE DEF left
    <3> QED BY <2>1, <2>2 DEF Lives, SameRows
  <2>4. activity' \in [Ids -> {"inactive", "idle", "working", "delegating"}]
    <3>1. shown \in [Ids -> {"inactive", "idle", "working", "delegating"}] BY <1>t DEF TreeTypes
    <3> HIDE DEF shown, owners
    <3> QED BY <2>1, <3>1
  <2>5. RowTypes' BY <2>1, <2>3, <2>4 DEF RowTypes
  <2>6. ActivityIsTrue' BY <2>1, <2>3 DEF ActivityIsTrue, Busy
  <2>7. deletion' \in [root : Ids \cup {NoId}, members : SUBSET Ids, left : SUBSET Ids] /\ deletion'.left = {}
    BY <2>1 DEF NoDeletion
  <2> HIDE DEF parked, left, shown, owners
  <2> QED BY <1>t, <2>1, <2>3, <2>5, <2>6, <2>7, RowsKeep
<1>19. ASSUME UNCHANGED vars PROVE SessionsInvariant'
  <2>1. Marked /\ UNCHANGED <<closing, waking, spawning, deletion>> BY <1>19 DEF vars, Marked
  <2> QED BY <1>u, <2>1, MarkedKeep
<1>20. ASSUME Proceed PROVE SessionsInvariant'
  BY Zenon, <1>20, <1>1, <1>2, <1>3, <1>4, <1>5, <1>6, <1>7, <1>8, <1>9, <1>10, <1>11, <1>12, <1>14, <1>16, <1>17
     DEF Proceed, WakeFails
<1>21. ASSUME NEW s \in Ids,
              \/ CreateRoot(s) \/ SpawnBegin(s) \/ Submit(s) \/ Revive(s) \/ WakeTimesOut(s) \/ Die(s)
              \/ Passivate(s) \/ StopBegin(s) \/ DeleteBegin(s)
       PROVE  SessionsInvariant'
  BY Zenon, <1>21, <1>1, <1>2, <1>3, <1>4, <1>10, <1>13, <1>15 DEF WakeTimesOut
<1> QED BY Zenon, <1>18, <1>19, <1>20, <1>21 DEF Next

\* The inductive invariant of the tree of sessions: who has a row, and that every session shows what it and its
\* descendants do.
THEOREM SessionsInvariantHolds == Spec => []SessionsInvariant
<1>1. Init => SessionsInvariant
  <2> SUFFICES ASSUME Init PROVE SessionsInvariant OBVIOUS
  <2>1. TreeTypes BY DEF Init, TreeTypes, Lives, NoDeletion
  <2>2. Admitted BY DEF Init, Admitted, NoDeletion
  <2>3. ActivityIsTrue BY DEF Init, ActivityIsTrue
  <2> QED BY <2>1, <2>2, <2>3 DEF SessionsInvariant
<1>2. SessionsInvariant /\ [Next]_vars => SessionsInvariant' BY SessionsStep
<1> QED BY <1>1, <1>2, PTL DEF Spec

\* Every resident session shows its own turn and its descendants' work as they are, and no parked one is shown
\* inactive above a working descendant, for any tree, capacity, work and troubles, through deletions of subtrees,
\* worker deaths and restarts (store.mjs, #refreshAncestors).
THEOREM ActivityAlwaysTrue == Spec => []ActivityIsTrue
<1>1. SessionsInvariant => ActivityIsTrue BY DEF SessionsInvariant
<1> QED BY <1>1, SessionsInvariantHolds, PTL

-----------------------------------------------------------------------------
(* Background processes. *)

JobsTypes ==
  /\ dir \in [Jobs -> {"none", "bare", "whole", "removed", "pruned"}]
  /\ kind \in [Jobs -> {"none", "launched", "adopted"}]
  /\ proc \in [Jobs -> {"none", "running", "ended", "dead"}]
  /\ watcher \in [Jobs -> BOOLEAN]
  /\ exit \in [Jobs -> {"none", "own", "unknown", "stopped"}]
  /\ marker \in [Jobs -> {"none", "sent", "skipped"}]
  /\ op \in [do : {"none", "launch", "stop", "remove"}, job : Jobs \cup {"none"}, by : Sessions \cup {"none"},
             at : {"none", "spawn", "identity", "wait", "write"}]
  /\ kernel \in [Sessions -> {"up", "orphan", "down"}]
  /\ deleted \subseteq Sessions /\ admitted \subseteq Jobs /\ aged \subseteq Jobs
  /\ scan \in [on : BOOLEAN, left : SUBSET Jobs, owners : SUBSET Jobs, done : SUBSET Jobs, told : SUBSET Jobs,
               live : SUBSET Jobs]
  /\ cursor \subseteq Jobs /\ retry \subseteq Jobs /\ active \subseteq Jobs
  /\ inflight \in [Jobs -> {"none", "admit", "ready", "sent", "skipped"}]
  /\ scratch \in [Sessions -> {"ready", "deleting", "removed"}]
  /\ sample \in [on : BOOLEAN, owners : SUBSET Sessions, jobs : SUBSET Jobs, known : SUBSET Jobs]
  /\ clean \in [at : {"none", "processes", "proof", "check"}, roots : SUBSET Sessions, quiet : SUBSET Sessions]
  /\ failures \in 0..MaxFailures

\* What a scan took for owned when it began covers every dispatch since, and so every completion it read that was
\* marked after.
ScanKnows ==
  /\ ~scan.on => scan.left = {} /\ scan.done = {}
  /\ \A j \in Jobs : scan.on /\ inflight[j] # "none" => j \in scan.owners
  /\ \A j \in Jobs : j \in scan.done /\ marker[j] # "none" => j \in scan.owners

\* A job that has no directory yet, and one whose launch has made only that, has no process; nothing alive has an
\* exit on record, nor one that is about to be written; what is pruned, or read to be, has one.
ExitsAreLast ==
  /\ \A j \in Jobs : dir[j] = "none" => proc[j] = "none" /\ exit[j] = "none" /\ ~watcher[j]
  /\ op.do = "launch" => op.job \in Jobs /\ dir[op.job] \in {"bare", "pruned"}
  /\ op.do = "launch" /\ op.at = "spawn" => proc[op.job] = "none" /\ exit[op.job] = "none" /\ ~watcher[op.job]
  /\ op.do = "stop" /\ op.at = "write" => ~Alive(op.job)
  /\ \A j \in Jobs : exit[j] # "none" => ~Alive(j)
  /\ \A j \in Jobs : dir[j] = "pruned" \/ j \in scan.told => exit[j] # "none"

\* A deleted family has no worker; the roots found quiet have no kernel, and the sample has every job on disk of
\* the families it is taken for.
FamiliesEnded ==
  /\ \A s \in deleted : kernel[s] # "up"
  /\ clean.roots \subseteq deleted
  /\ clean.quiet \subseteq deleted /\ \A s \in clean.quiet : kernel[s] = "down"
  /\ sample.owners \subseteq deleted
  /\ sample.on => \A j \in Jobs : Owner[j] \in sample.owners /\ OnDisk(j) => j \in sample.jobs

\* Every step keeps the types.
LEMMA JobsTypesStep ==
  ASSUME JobsTypes, [JobsNext]_jobVars
  PROVE  JobsTypes'
<1> USE BackgroundAssumption DEF JobsTypes
<1>1. UNCHANGED <<dir, kind, proc, watcher, exit, marker, aged, op, kernel, deleted, admitted, scan, cursor,
    retry, active, inflight, scratch, sample, clean, failures>> => JobsTypes'
  BY DEF JobsTypes
<1>2. ASSUME NEW j \in Jobs, LaunchBegins(j) PROVE JobsTypes'
  BY <1>2 DEF JobsTypes, LaunchBegins, store, monitor, cleanup, MayOperate, Running, Alive
<1>3. ASSUME NEW j \in Jobs, LaunchSpawns(j) PROVE JobsTypes'
  BY <1>3 DEF JobsTypes, LaunchSpawns, files, store, monitor, cleanup
<1>4. ASSUME NEW j \in Jobs, LaunchEnds(j) PROVE JobsTypes'
  BY <1>4 DEF JobsTypes, LaunchEnds, store, monitor, cleanup, NoOp, Alive
<1>5. ASSUME NEW j \in Jobs, Adopt(j) PROVE JobsTypes'
  BY <1>5 DEF JobsTypes, Adopt, store, monitor, cleanup, MayOperate, NoOp
<1>6. ASSUME NEW j \in Jobs, NEW s \in Sessions, StopBegins(s, j, "stop") \/ StopBegins(s, j, "remove")
      PROVE  JobsTypes'
  BY <1>6 DEF JobsTypes, StopBegins, files, processes, store, monitor, cleanup, Running, Alive
<1>7. ASSUME NEW j \in Jobs, NEW s \in Sessions, Remove(s, j) PROVE JobsTypes'
  BY <1>7 DEF JobsTypes, Remove, processes, store, monitor, cleanup, OnDisk, Running, Alive, NoOp
<1>8. ASSUME NEW j \in Jobs, Killed(j) PROVE JobsTypes'
  BY <1>8 DEF JobsTypes, Killed, files, store, monitor, cleanup, Alive
<1>9. ASSUME NEW j \in Jobs, StopReads(j) PROVE JobsTypes'
  BY <1>9 DEF JobsTypes, StopReads, files, processes, store, monitor, cleanup, NoOp, OnceGone, Alive
<1>10. ASSUME NEW j \in Jobs, StopWrites(j) PROVE JobsTypes'
  BY <1>10 DEF JobsTypes, StopWrites, processes, store, monitor, cleanup, NoOp, OnDisk
<1>11. ASSUME NEW j \in Jobs, RemoveEnds(j) PROVE JobsTypes'
  BY <1>11 DEF JobsTypes, RemoveEnds, processes, store, monitor, cleanup, NoOp, Alive
<1>12. ASSUME NEW j \in Jobs, CommandEnds(j) PROVE JobsTypes'
  BY <1>12 DEF JobsTypes, CommandEnds, files, store, monitor, cleanup, Alive
<1>13. ASSUME NEW j \in Jobs, SupervisorReports(j) PROVE JobsTypes'
  BY <1>13 DEF JobsTypes, SupervisorReports, store, monitor, cleanup, WriteExit, Alive
<1>14. ASSUME NEW j \in Jobs, WatcherReports(j) PROVE JobsTypes'
  BY <1>14 DEF JobsTypes, WatcherReports, store, monitor, cleanup, WriteExit, Alive
<1>15. ASSUME NEW j \in Jobs, WatchDies(j) PROVE JobsTypes'
  <2>1. UNCHANGED <<files, kind, op, kernel, store, monitor, cleanup>> /\ failures' \in 0..MaxFailures
    BY <1>15 DEF WatchDies, Failure
  <2>2. CASE proc' = [proc EXCEPT ![j] = "dead"] /\ UNCHANGED watcher
    BY <2>1, <2>2 DEF files, store, monitor, cleanup
  <2>3. CASE watcher' = [watcher EXCEPT ![j] = FALSE] /\ UNCHANGED proc
    <3>1. watcher' \in [Jobs -> BOOLEAN] BY <2>3
    <3> QED BY <2>1, <2>3, <3>1 DEF files, store, monitor, cleanup
  <2> QED BY <1>15, <2>2, <2>3 DEF WatchDies
<1>16. ASSUME NEW j \in Jobs, ReadJob(j) PROVE JobsTypes'
  <2>1. scan' \in [on : BOOLEAN, left : SUBSET Jobs, owners : SUBSET Jobs, done : SUBSET Jobs,
      told : SUBSET Jobs,
                   live : SUBSET Jobs]
    <3>1. (IF Done(j) THEN scan.done \cup {j} ELSE scan.done) \in SUBSET Jobs OBVIOUS
    <3>2. (IF Told(j) THEN scan.told \cup {j} ELSE scan.told) \in SUBSET Jobs OBVIOUS
    <3>3. (IF Running(j) THEN scan.live \cup {j} ELSE scan.live) \in SUBSET Jobs OBVIOUS
    <3> QED BY <1>16, <3>1, <3>2, <3>3 DEF ReadJob
  <2> QED BY <1>16, <2>1 DEF ReadJob, files, processes, store, cleanup
<1>17. ASSUME NEW j \in Jobs, DispatchAdmits(j) PROVE JobsTypes'
  BY <1>17 DEF JobsTypes, DispatchAdmits, files, processes, cleanup
<1>18. ASSUME NEW j \in Jobs, DispatchReady(j) PROVE JobsTypes'
  BY <1>18 DEF JobsTypes, DispatchReady, files, processes, store, cleanup
<1>19. ASSUME NEW j \in Jobs, DispatchFails(j) PROVE JobsTypes'
  BY <1>19 DEF JobsTypes, DispatchFails, files, processes, store, cleanup, AfterFailedDispatch, Failure
<1>20. ASSUME NEW j \in Jobs, DispatchMarks(j) PROVE JobsTypes'
  BY <1>20 DEF JobsTypes, DispatchMarks, processes, store, cleanup, OnDisk
<1>21. ASSUME NEW j \in Jobs, Ages(j) PROVE JobsTypes'
  BY <1>21 DEF JobsTypes, Ages, processes, store, monitor, cleanup
<1>22. ASSUME NEW s \in Sessions, WorkerDies(s) PROVE JobsTypes'
  BY <1>22 DEF JobsTypes, WorkerDies, files, processes, store, monitor, cleanup, Failure
<1>23. ASSUME NEW s \in Sessions, KernelEnds(s) PROVE JobsTypes'
  BY <1>23 DEF JobsTypes, KernelEnds, files, processes, store, monitor, cleanup, NoOp, Failure
<1>24. ASSUME NEW s \in Sessions, KernelStarts(s) PROVE JobsTypes'
  BY <1>24 DEF JobsTypes, KernelStarts, files, processes, store, monitor, cleanup
<1>25. ASSUME NEW s \in Sessions, Delete(s) PROVE JobsTypes'
  BY <1>25 DEF JobsTypes, Delete, files, processes, monitor, NoSample, Intent
<1>26. ASSUME NEW s \in Sessions, CleanTries(s) PROVE JobsTypes'
  BY <1>26 DEF JobsTypes, CleanTries, files, processes, store, monitor, NoClean, Sample, Quiescent
<1>27. ASSUME ScanBegins PROVE JobsTypes'
  <2>1. PICK read \in SUBSET Jobs : scan' = [NoScan EXCEPT !.on = TRUE, !.left = retry \cup active \cup read,
                                                        !.owners = {j \in Jobs : inflight[j] # "none"}]
                                  /\ cursor' \subseteq Jobs
    <3> DEFINE entries == IF cursor = {} THEN {j \in Jobs : OnDisk(j)} ELSE cursor
    <3>1. entries \subseteq Jobs OBVIOUS
    <3>2. PICK read \in SUBSET entries :
             /\ cursor' = entries \ read
             /\ scan' = [NoScan EXCEPT !.on = TRUE, !.left = retry \cup active \cup read,
                                      !.owners = {j \in Jobs : inflight[j] # "none"}]
      BY Zenon, <1>27 DEF ScanBegins
    <3> QED BY <3>1, <3>2
  <2>2. scan' \in [on : BOOLEAN, left : SUBSET Jobs, owners : SUBSET Jobs, done : SUBSET Jobs,
      told : SUBSET Jobs,
                   live : SUBSET Jobs]
    BY <2>1 DEF NoScan
  <2> QED BY <1>27, <2>1, <2>2 DEF ScanBegins, files, processes, store, cleanup
<1>28. ASSUME ScanEnds PROVE JobsTypes'
  <2>1. scan' = NoScan /\ active' \subseteq Jobs /\ retry' \subseteq Jobs
    BY <1>28 DEF ScanEnds
  <2>2. scan' \in [on : BOOLEAN, left : SUBSET Jobs, owners : SUBSET Jobs, done : SUBSET Jobs,
      told : SUBSET Jobs,
                   live : SUBSET Jobs]
    BY <2>1 DEF NoScan
  <2>3. inflight' \in [Jobs -> {"none", "admit", "ready", "sent", "skipped"}] BY <1>28 DEF ScanEnds
  <2>4. dir' \in [Jobs -> {"none", "bare", "whole", "removed", "pruned"}] BY <1>28 DEF ScanEnds
  <2>5. /\ sample' \in [on : BOOLEAN, owners : SUBSET Sessions, jobs : SUBSET Jobs, known : SUBSET Jobs]
        /\ clean' \in [at : {"none", "processes", "proof", "check"}, roots : SUBSET Sessions,
            quiet : SUBSET Sessions]
    <3>1. {s \in deleted : scratch[s] = "deleting"} \in SUBSET Sessions OBVIOUS
    <3>2. NoSample \in [on : BOOLEAN, owners : SUBSET Sessions, jobs : SUBSET Jobs, known : SUBSET Jobs]
      BY DEF NoSample
    <3>3. ASSUME NEW roots \in SUBSET Sessions
          PROVE  [NoClean EXCEPT !.at = "processes", !.roots = roots]
                   \in [at : {"none", "processes", "proof", "check"}, roots : SUBSET Sessions,
                       quiet : SUBSET Sessions]
      BY DEF NoClean
    <3>4. CASE sample' = NoSample /\ UNCHANGED clean BY <3>2, <3>4
    <3>5. CASE clean' = [NoClean EXCEPT !.at = "processes", !.roots = {s \in deleted : scratch[s] = "deleting"}]
               /\ UNCHANGED sample
      BY <3>1, <3>3, <3>5
    <3> QED BY <1>28, <3>4, <3>5 DEF ScanEnds
  <2> QED BY <1>28, <2>1, <2>2, <2>3, <2>4, <2>5 DEF ScanEnds, processes, store
<1>29. ASSUME MonitorRestarts PROVE JobsTypes'
  BY <1>29 DEF JobsTypes, MonitorRestarts, files, processes, store, Failure, NoScan, NoSample, NoClean
<1>30. ASSUME CleanProcesses PROVE JobsTypes'
  BY <1>30 DEF JobsTypes, CleanProcesses, files, processes, store, monitor
<1>31. ASSUME CleanProves PROVE JobsTypes'
  BY <1>31 DEF JobsTypes, CleanProves, files, processes, store, monitor, SampledBefore, OnDisk
<1>32. CASE UNCHANGED jobVars BY <1>1, <1>32 DEF jobVars
<1> QED BY Zenon, <1>2, <1>3, <1>4, <1>5, <1>6, <1>7, <1>8, <1>9, <1>10, <1>11, <1>12, <1>13, <1>14, <1>15,
    <1>16, <1>17, <1>18, <1>19, <1>20, <1>21, <1>22, <1>23, <1>24, <1>25, <1>26, <1>27, <1>28, <1>29, <1>30,
    <1>31, <1>32 DEF JobsNext

\* A dispatch is made only at the end of a scan, and a marker written only by one that is under way.
LEMMA ScanKnowsStep ==
  ASSUME JobsTypes, ScanKnows, [JobsNext]_jobVars
  PROVE  ScanKnows'
<1> USE BackgroundAssumption DEF JobsTypes
<1>1. UNCHANGED <<scan, inflight, marker>> => ScanKnows'
  BY DEF ScanKnows
<1>2. ASSUME NEW j \in Jobs, LaunchBegins(j) PROVE ScanKnows'
  BY <1>2, <1>1 DEF LaunchBegins, store, monitor, cleanup
<1>3. ASSUME NEW j \in Jobs, LaunchSpawns(j) PROVE ScanKnows'
  BY <1>3, <1>1 DEF LaunchSpawns, files, store, monitor, cleanup
<1>4. ASSUME NEW j \in Jobs, LaunchEnds(j) PROVE ScanKnows'
  BY <1>4, <1>1 DEF LaunchEnds, store, monitor, cleanup
<1>5. ASSUME NEW j \in Jobs, Adopt(j) PROVE ScanKnows'
  BY <1>5, <1>1 DEF Adopt, store, monitor, cleanup
<1>6. ASSUME NEW j \in Jobs, NEW s \in Sessions, StopBegins(s, j, "stop") \/ StopBegins(s, j, "remove")
      PROVE  ScanKnows'
  BY <1>6, <1>1 DEF StopBegins, files, processes, store, monitor, cleanup
<1>7. ASSUME NEW j \in Jobs, NEW s \in Sessions, Remove(s, j) PROVE ScanKnows'
  BY <1>7, <1>1 DEF Remove, processes, store, monitor, cleanup
<1>8. ASSUME NEW j \in Jobs, Killed(j) PROVE ScanKnows'
  BY <1>8, <1>1 DEF Killed, files, store, monitor, cleanup
<1>9. ASSUME NEW j \in Jobs, StopReads(j) PROVE ScanKnows'
  BY <1>9, <1>1 DEF StopReads, files, processes, store, monitor, cleanup
<1>10. ASSUME NEW j \in Jobs, StopWrites(j) PROVE ScanKnows'
  BY <1>10, <1>1 DEF StopWrites, processes, store, monitor, cleanup
<1>11. ASSUME NEW j \in Jobs, RemoveEnds(j) PROVE ScanKnows'
  BY <1>11, <1>1 DEF RemoveEnds, processes, store, monitor, cleanup
<1>12. ASSUME NEW j \in Jobs, CommandEnds(j) PROVE ScanKnows'
  BY <1>12, <1>1 DEF CommandEnds, files, store, monitor, cleanup
<1>13. ASSUME NEW j \in Jobs, SupervisorReports(j) PROVE ScanKnows'
  BY <1>13, <1>1 DEF SupervisorReports, store, monitor, cleanup
<1>14. ASSUME NEW j \in Jobs, WatcherReports(j) PROVE ScanKnows'
  BY <1>14, <1>1 DEF WatcherReports, store, monitor, cleanup
<1>15. ASSUME NEW j \in Jobs, WatchDies(j) PROVE ScanKnows'
  BY <1>15, <1>1 DEF WatchDies, files, store, monitor, cleanup
<1>16. ASSUME NEW j \in Jobs, ReadJob(j) PROVE ScanKnows'
  BY <1>16 DEF ScanKnows, ReadJob, files, processes, store, cleanup, Done, Told, Running, OnDisk, Alive
<1>17. ASSUME NEW j \in Jobs, DispatchAdmits(j) PROVE ScanKnows'
  BY <1>17 DEF ScanKnows, DispatchAdmits, files, processes, cleanup
<1>18. ASSUME NEW j \in Jobs, DispatchReady(j) PROVE ScanKnows'
  BY <1>18 DEF ScanKnows, DispatchReady, files, processes, store, cleanup
<1>19. ASSUME NEW j \in Jobs, DispatchFails(j) PROVE ScanKnows'
  BY <1>19 DEF ScanKnows, DispatchFails, files, processes, store, cleanup, AfterFailedDispatch, Failure
<1>20. ASSUME NEW j \in Jobs, DispatchMarks(j) PROVE ScanKnows'
  <2>1. /\ UNCHANGED scan /\ inflight' = [inflight EXCEPT ![j] = "none"]
        /\ inflight[j] # "none" /\ \A k \in Jobs \ {j} : marker'[k] = marker[k]
    BY <1>20 DEF DispatchMarks
  <2>2. ASSUME NEW k \in Jobs, scan'.on, inflight'[k] # "none" PROVE k \in scan'.owners
    BY <2>1, <2>2 DEF ScanKnows
  <2>3. ASSUME NEW k \in Jobs, k \in scan'.done, marker'[k] # "none" PROVE k \in scan'.owners
    <3>1. CASE k = j BY <2>1, <2>3, <3>1 DEF ScanKnows
    <3>2. CASE k # j BY <2>1, <2>3, <3>2 DEF ScanKnows
    <3> QED BY <3>1, <3>2
  <2> QED BY <2>1, <2>2, <2>3 DEF ScanKnows
<1>21. ASSUME NEW j \in Jobs, Ages(j) PROVE ScanKnows'
  BY <1>21, <1>1 DEF Ages, processes, store, monitor, cleanup
<1>22. ASSUME NEW s \in Sessions, WorkerDies(s) PROVE ScanKnows'
  BY <1>22, <1>1 DEF WorkerDies, files, processes, store, monitor, cleanup
<1>23. ASSUME NEW s \in Sessions, KernelEnds(s) PROVE ScanKnows'
  BY <1>23, <1>1 DEF KernelEnds, files, processes, store, monitor, cleanup
<1>24. ASSUME NEW s \in Sessions, KernelStarts(s) PROVE ScanKnows'
  BY <1>24, <1>1 DEF KernelStarts, files, processes, store, monitor, cleanup
<1>25. ASSUME NEW s \in Sessions, Delete(s) PROVE ScanKnows'
  BY <1>25, <1>1 DEF Delete, files, processes, monitor
<1>26. ASSUME NEW s \in Sessions, CleanTries(s) PROVE ScanKnows'
  BY <1>26, <1>1 DEF CleanTries, files, processes, store, monitor
<1>27. ASSUME ScanBegins PROVE ScanKnows'
  BY <1>27 DEF ScanKnows, ScanBegins, files, processes, store, cleanup, NoScan, OnDisk, NoClean
<1>28. ASSUME ScanEnds PROVE ScanKnows'
  BY <1>28 DEF ScanKnows, ScanEnds, processes, store, NoScan, NoSample, NoClean, Unowned, OnDisk
<1>29. ASSUME MonitorRestarts PROVE ScanKnows'
  BY <1>29 DEF ScanKnows, MonitorRestarts, files, processes, store, Failure, NoScan, NoSample, NoClean
<1>30. ASSUME CleanProcesses PROVE ScanKnows'
  BY <1>30, <1>1 DEF CleanProcesses, files, processes, store, monitor
<1>31. ASSUME CleanProves PROVE ScanKnows'
  BY <1>31, <1>1 DEF CleanProves, files, processes, store, monitor
<1>32. CASE UNCHANGED jobVars BY <1>1, <1>32 DEF jobVars
<1> QED BY Zenon, <1>2, <1>3, <1>4, <1>5, <1>6, <1>7, <1>8, <1>9, <1>10, <1>11, <1>12, <1>13, <1>14, <1>15,
    <1>16, <1>17, <1>18, <1>19, <1>20, <1>21, <1>22, <1>23, <1>24, <1>25, <1>26, <1>27, <1>28, <1>29, <1>30,
    <1>31, <1>32 DEF JobsNext

\* An exit is written for what has ended, and nothing that has one starts again.
LEMMA ExitsAreLastStep ==
  ASSUME JobsTypes, ExitsAreLast, [JobsNext]_jobVars
  PROVE  ExitsAreLast'
<1> USE BackgroundAssumption DEF JobsTypes
<1>1. UNCHANGED <<dir, proc, watcher, exit, op, scan>> => ExitsAreLast'
  BY DEF ExitsAreLast, Alive
<1>2. ASSUME NEW j \in Jobs, LaunchBegins(j) PROVE ExitsAreLast'
  BY <1>2 DEF ExitsAreLast, Alive, LaunchBegins, store, monitor, cleanup, MayOperate, Running, Alive
<1>3. ASSUME NEW j \in Jobs, LaunchSpawns(j) PROVE ExitsAreLast'
  <2>1. /\ UNCHANGED <<dir, exit, watcher, scan>> /\ proc' = [proc EXCEPT ![j] = "running"]
        /\ op'.at = "identity" /\ op'.do = "launch" /\ op'.job = j /\ op.at = "spawn" /\ op.do = "launch" /\ op.job = j
    BY <1>3 DEF LaunchSpawns, files, monitor
  <2>2. proc[j] = "none" /\ exit[j] = "none" /\ ~watcher[j] BY <2>1 DEF ExitsAreLast
  <2>3. dir[j] = "bare" BY <2>1, <2>2 DEF ExitsAreLast
  <2>4. \A k \in Jobs \ {j} : Alive(k)' = Alive(k) /\ proc'[k] = proc[k] BY <2>1 DEF Alive
  <2>5. ASSUME NEW k \in Jobs, dir'[k] = "none" PROVE proc'[k] = "none" /\ exit'[k] = "none" /\ ~watcher'[k]
    BY <2>1, <2>3, <2>4, <2>5 DEF ExitsAreLast
  <2>6. ASSUME NEW k \in Jobs, exit'[k] # "none" PROVE ~Alive(k)'
    <3>1. k # j BY <2>1, <2>2, <2>6
    <3> QED BY <2>1, <2>4, <2>6, <3>1 DEF ExitsAreLast
  <2> QED BY <2>1, <2>3, <2>5, <2>6 DEF ExitsAreLast
<1>4. ASSUME NEW j \in Jobs, LaunchEnds(j) PROVE ExitsAreLast'
  BY <1>4 DEF ExitsAreLast, Alive, LaunchEnds, store, monitor, cleanup, NoOp, Alive
<1>5. ASSUME NEW j \in Jobs, Adopt(j) PROVE ExitsAreLast'
  BY <1>5 DEF ExitsAreLast, Alive, Adopt, store, monitor, cleanup, MayOperate, NoOp
<1>6. ASSUME NEW j \in Jobs, NEW s \in Sessions, StopBegins(s, j, "stop") \/ StopBegins(s, j, "remove")
      PROVE  ExitsAreLast'
  BY <1>6 DEF ExitsAreLast, Alive, StopBegins, files, processes, store, monitor, cleanup, Running, Alive
<1>7. ASSUME NEW j \in Jobs, NEW s \in Sessions, Remove(s, j) PROVE ExitsAreLast'
  BY <1>7 DEF ExitsAreLast, Alive, Remove, processes, store, monitor, cleanup, OnDisk, Running, Alive, NoOp
<1>8. ASSUME NEW j \in Jobs, Killed(j) PROVE ExitsAreLast'
  BY <1>8 DEF ExitsAreLast, Alive, Killed, files, store, monitor, cleanup, Alive
<1>9. ASSUME NEW j \in Jobs, StopReads(j) PROVE ExitsAreLast'
  BY <1>9 DEF ExitsAreLast, Alive, StopReads, files, processes, store, monitor, cleanup, NoOp, OnceGone, Alive
<1>10. ASSUME NEW j \in Jobs, StopWrites(j) PROVE ExitsAreLast'
  BY <1>10 DEF ExitsAreLast, Alive, StopWrites, processes, store, monitor, cleanup, NoOp, OnDisk
<1>11. ASSUME NEW j \in Jobs, RemoveEnds(j) PROVE ExitsAreLast'
  BY <1>11 DEF ExitsAreLast, Alive, RemoveEnds, processes, store, monitor, cleanup, NoOp, Alive
<1>12. ASSUME NEW j \in Jobs, CommandEnds(j) PROVE ExitsAreLast'
  BY <1>12 DEF ExitsAreLast, Alive, CommandEnds, files, store, monitor, cleanup, Alive
<1>13. ASSUME NEW j \in Jobs, SupervisorReports(j) PROVE ExitsAreLast'
  BY <1>13 DEF ExitsAreLast, Alive, SupervisorReports, store, monitor, cleanup, WriteExit, Alive
<1>14. ASSUME NEW j \in Jobs, WatcherReports(j) PROVE ExitsAreLast'
  BY <1>14 DEF ExitsAreLast, Alive, WatcherReports, store, monitor, cleanup, WriteExit, Alive
<1>15. ASSUME NEW j \in Jobs, WatchDies(j) PROVE ExitsAreLast'
  <2>1. UNCHANGED <<dir, exit, op, scan>> BY <1>15 DEF WatchDies, files, monitor
  <2>2. CASE proc' = [proc EXCEPT ![j] = "dead"] /\ Alive(j) /\ UNCHANGED watcher
    BY <2>1, <2>2 DEF ExitsAreLast, Alive
  <2>3. CASE watcher' = [watcher EXCEPT ![j] = FALSE] /\ UNCHANGED proc
    <3>1. \A k \in Jobs : watcher'[k] => watcher[k] BY <2>3
    <3>2. op.job \in Jobs \cup {"none"} OBVIOUS
    <3>3. watcher'[op.job] => watcher[op.job] BY <2>3
    <3> QED BY <2>1, <2>3, <3>1, <3>3 DEF ExitsAreLast, Alive
  <2> QED BY <1>15, <2>2, <2>3 DEF WatchDies
<1>16. ASSUME NEW j \in Jobs, ReadJob(j) PROVE ExitsAreLast'
  BY <1>16 DEF ExitsAreLast, Alive, ReadJob, files, processes, store, cleanup, Done, Told, Running, OnDisk,
      Alive
<1>17. ASSUME NEW j \in Jobs, DispatchAdmits(j) PROVE ExitsAreLast'
  BY <1>17, <1>1 DEF DispatchAdmits, files, processes, cleanup
<1>18. ASSUME NEW j \in Jobs, DispatchReady(j) PROVE ExitsAreLast'
  BY <1>18, <1>1 DEF DispatchReady, files, processes, store, cleanup
<1>19. ASSUME NEW j \in Jobs, DispatchFails(j) PROVE ExitsAreLast'
  BY <1>19, <1>1 DEF DispatchFails, files, processes, store, cleanup
<1>20. ASSUME NEW j \in Jobs, DispatchMarks(j) PROVE ExitsAreLast'
  BY <1>20, <1>1 DEF DispatchMarks, processes, store, cleanup
<1>21. ASSUME NEW j \in Jobs, Ages(j) PROVE ExitsAreLast'
  BY <1>21, <1>1 DEF Ages, processes, store, monitor, cleanup
<1>22. ASSUME NEW s \in Sessions, WorkerDies(s) PROVE ExitsAreLast'
  BY <1>22, <1>1 DEF WorkerDies, files, processes, store, monitor, cleanup
<1>23. ASSUME NEW s \in Sessions, KernelEnds(s) PROVE ExitsAreLast'
  BY <1>23 DEF ExitsAreLast, Alive, KernelEnds, files, processes, store, monitor, cleanup, NoOp, Failure
<1>24. ASSUME NEW s \in Sessions, KernelStarts(s) PROVE ExitsAreLast'
  BY <1>24, <1>1 DEF KernelStarts, files, processes, store, monitor, cleanup
<1>25. ASSUME NEW s \in Sessions, Delete(s) PROVE ExitsAreLast'
  BY <1>25, <1>1 DEF Delete, files, processes, monitor
<1>26. ASSUME NEW s \in Sessions, CleanTries(s) PROVE ExitsAreLast'
  BY <1>26, <1>1 DEF CleanTries, files, processes, store, monitor
<1>27. ASSUME ScanBegins PROVE ExitsAreLast'
  BY <1>27 DEF ExitsAreLast, Alive, ScanBegins, files, processes, store, cleanup, NoScan, OnDisk, NoClean
<1>28. ASSUME ScanEnds PROVE ExitsAreLast'
  BY <1>28 DEF ExitsAreLast, Alive, ScanEnds, processes, store, NoScan, NoSample, NoClean, Unowned, OnDisk
<1>29. ASSUME MonitorRestarts PROVE ExitsAreLast'
  BY <1>29 DEF ExitsAreLast, Alive, MonitorRestarts, files, processes, store, Failure, NoScan, NoSample, NoClean
<1>30. ASSUME CleanProcesses PROVE ExitsAreLast'
  BY <1>30, <1>1 DEF CleanProcesses, files, processes, store, monitor
<1>31. ASSUME CleanProves PROVE ExitsAreLast'
  BY <1>31, <1>1 DEF CleanProves, files, processes, store, monitor
<1>32. CASE UNCHANGED jobVars BY <1>1, <1>32 DEF jobVars
<1> QED BY Zenon, <1>2, <1>3, <1>4, <1>5, <1>6, <1>7, <1>8, <1>9, <1>10, <1>11, <1>12, <1>13, <1>14, <1>15,
    <1>16, <1>17, <1>18, <1>19, <1>20, <1>21, <1>22, <1>23, <1>24, <1>25, <1>26, <1>27, <1>28, <1>29, <1>30,
    <1>31, <1>32 DEF JobsNext

\* No kernel of a deleted family starts again, so no job of one appears after the sample.
LEMMA FamiliesEndedStep ==
  ASSUME JobsTypes, ExitsAreLast, ~LateLaunch, FamiliesEnded, [JobsNext]_jobVars
  PROVE  FamiliesEnded'
<1> USE BackgroundAssumption DEF JobsTypes
<1>1. UNCHANGED <<dir, kernel, deleted, clean, sample>> => FamiliesEnded'
  BY DEF FamiliesEnded, OnDisk
<1>2. ASSUME NEW j \in Jobs, LaunchBegins(j) PROVE FamiliesEnded'
  BY <1>2 DEF FamiliesEnded, OnDisk, LaunchBegins, store, monitor, cleanup, MayOperate, Running, Alive
<1>3. ASSUME NEW j \in Jobs, LaunchSpawns(j) PROVE FamiliesEnded'
  BY <1>3, <1>1 DEF LaunchSpawns, files, store, monitor, cleanup
<1>4. ASSUME NEW j \in Jobs, LaunchEnds(j) PROVE FamiliesEnded'
  <2>1. UNCHANGED <<kernel, deleted, clean, sample>> BY <1>4 DEF LaunchEnds, store, cleanup
  <2>2. ASSUME NEW k \in Jobs, OnDisk(k)' PROVE OnDisk(k)
    <3>1. CASE Alive(j) /\ dir' = [dir EXCEPT ![j] = "whole"]
      BY <1>4, <2>2, <3>1 DEF LaunchEnds, OnDisk, ExitsAreLast
    <3>2. CASE UNCHANGED dir BY <2>2, <3>2 DEF OnDisk
    <3>3. CASE dir' = [dir EXCEPT ![j] = "removed"] BY <2>2, <3>3 DEF OnDisk
    <3> QED BY <1>4, <3>1, <3>2, <3>3 DEF LaunchEnds
  <2> QED BY <2>1, <2>2 DEF FamiliesEnded
<1>5. ASSUME NEW j \in Jobs, Adopt(j) PROVE FamiliesEnded'
  BY <1>5 DEF FamiliesEnded, OnDisk, Adopt, store, monitor, cleanup, MayOperate, NoOp
<1>6. ASSUME NEW j \in Jobs, NEW s \in Sessions, StopBegins(s, j, "stop") \/ StopBegins(s, j, "remove")
      PROVE  FamiliesEnded'
  BY <1>6, <1>1 DEF StopBegins, files, processes, store, monitor, cleanup
<1>7. ASSUME NEW j \in Jobs, NEW s \in Sessions, Remove(s, j) PROVE FamiliesEnded'
  BY <1>7 DEF FamiliesEnded, OnDisk, Remove, processes, store, monitor, cleanup, OnDisk, Running, Alive, NoOp
<1>8. ASSUME NEW j \in Jobs, Killed(j) PROVE FamiliesEnded'
  BY <1>8, <1>1 DEF Killed, files, store, monitor, cleanup
<1>9. ASSUME NEW j \in Jobs, StopReads(j) PROVE FamiliesEnded'
  BY <1>9, <1>1 DEF StopReads, files, processes, store, monitor, cleanup
<1>10. ASSUME NEW j \in Jobs, StopWrites(j) PROVE FamiliesEnded'
  BY <1>10, <1>1 DEF StopWrites, processes, store, monitor, cleanup
<1>11. ASSUME NEW j \in Jobs, RemoveEnds(j) PROVE FamiliesEnded'
  BY <1>11 DEF FamiliesEnded, OnDisk, RemoveEnds, processes, store, monitor, cleanup, NoOp, Alive
<1>12. ASSUME NEW j \in Jobs, CommandEnds(j) PROVE FamiliesEnded'
  BY <1>12, <1>1 DEF CommandEnds, files, store, monitor, cleanup
<1>13. ASSUME NEW j \in Jobs, SupervisorReports(j) PROVE FamiliesEnded'
  BY <1>13, <1>1 DEF SupervisorReports, store, monitor, cleanup
<1>14. ASSUME NEW j \in Jobs, WatcherReports(j) PROVE FamiliesEnded'
  BY <1>14, <1>1 DEF WatcherReports, store, monitor, cleanup
<1>15. ASSUME NEW j \in Jobs, WatchDies(j) PROVE FamiliesEnded'
  BY <1>15, <1>1 DEF WatchDies, files, store, monitor, cleanup
<1>16. ASSUME NEW j \in Jobs, ReadJob(j) PROVE FamiliesEnded'
  BY <1>16, <1>1 DEF ReadJob, files, processes, store, cleanup
<1>17. ASSUME NEW j \in Jobs, DispatchAdmits(j) PROVE FamiliesEnded'
  BY <1>17, <1>1 DEF DispatchAdmits, files, processes, cleanup
<1>18. ASSUME NEW j \in Jobs, DispatchReady(j) PROVE FamiliesEnded'
  BY <1>18, <1>1 DEF DispatchReady, files, processes, store, cleanup
<1>19. ASSUME NEW j \in Jobs, DispatchFails(j) PROVE FamiliesEnded'
  BY <1>19, <1>1 DEF DispatchFails, files, processes, store, cleanup
<1>20. ASSUME NEW j \in Jobs, DispatchMarks(j) PROVE FamiliesEnded'
  BY <1>20, <1>1 DEF DispatchMarks, processes, store, cleanup
<1>21. ASSUME NEW j \in Jobs, Ages(j) PROVE FamiliesEnded'
  BY <1>21, <1>1 DEF Ages, processes, store, monitor, cleanup
<1>22. ASSUME NEW s \in Sessions, WorkerDies(s) PROVE FamiliesEnded'
  BY <1>22 DEF FamiliesEnded, OnDisk, WorkerDies, files, processes, store, monitor, cleanup, Failure
<1>23. ASSUME NEW s \in Sessions, KernelEnds(s) PROVE FamiliesEnded'
  BY <1>23 DEF FamiliesEnded, OnDisk, KernelEnds, files, processes, store, monitor, cleanup, NoOp, Failure
<1>24. ASSUME NEW s \in Sessions, KernelStarts(s) PROVE FamiliesEnded'
  BY <1>24 DEF FamiliesEnded, OnDisk, KernelStarts, files, processes, store, monitor, cleanup
<1>25. ASSUME NEW s \in Sessions, Delete(s) PROVE FamiliesEnded'
  BY <1>25 DEF FamiliesEnded, OnDisk, Delete, files, processes, monitor, NoSample, Intent
<1>26. ASSUME NEW s \in Sessions, CleanTries(s) PROVE FamiliesEnded'
  BY <1>26 DEF FamiliesEnded, OnDisk, CleanTries, files, processes, store, monitor, NoClean, Sample, Quiescent
<1>27. ASSUME ScanBegins PROVE FamiliesEnded'
  BY <1>27, <1>1 DEF ScanBegins, files, processes, store, cleanup
<1>28. ASSUME ScanEnds PROVE FamiliesEnded'
  <2>1. UNCHANGED <<kernel, deleted>> BY <1>28 DEF ScanEnds, store
  <2>2. ASSUME NEW k \in Jobs, OnDisk(k)' PROVE OnDisk(k)
    BY <1>28, <2>2 DEF ScanEnds, OnDisk
  <2>3. CASE sample' = NoSample /\ UNCHANGED clean
    BY <2>1, <2>3 DEF FamiliesEnded, NoSample
  <2>4. CASE clean' = [NoClean EXCEPT !.at = "processes", !.roots = {s \in deleted : scratch[s] = "deleting"}]
             /\ UNCHANGED sample
    BY <2>1, <2>2, <2>4 DEF FamiliesEnded, NoClean
  <2> QED BY <1>28, <2>3, <2>4 DEF ScanEnds
<1>29. ASSUME MonitorRestarts PROVE FamiliesEnded'
  BY <1>29 DEF FamiliesEnded, OnDisk, MonitorRestarts, files, processes, store, Failure, NoScan, NoSample,
      NoClean
<1>30. ASSUME CleanProcesses PROVE FamiliesEnded'
  BY <1>30 DEF FamiliesEnded, OnDisk, CleanProcesses, files, processes, store, monitor
<1>31. ASSUME CleanProves PROVE FamiliesEnded'
  BY <1>31 DEF FamiliesEnded, OnDisk, CleanProves, files, processes, store, monitor, SampledBefore, OnDisk
<1>32. CASE UNCHANGED jobVars BY <1>1, <1>32 DEF jobVars
<1> QED BY Zenon, <1>2, <1>3, <1>4, <1>5, <1>6, <1>7, <1>8, <1>9, <1>10, <1>11, <1>12, <1>13, <1>14, <1>15,
    <1>16, <1>17, <1>18, <1>19, <1>20, <1>21, <1>22, <1>23, <1>24, <1>25, <1>26, <1>27, <1>28, <1>29, <1>30,
    <1>31, <1>32 DEF JobsNext

\* The inductive invariant.  Its last part takes that no kernel launches a job after its worker's death.
JobsInvariant == JobsTypes /\ ScanKnows /\ ExitsAreLast /\ (~LateLaunch => FamiliesEnded)

\* The inductive invariant of background processes (the skill's store, the watching processes, the monitor and the
\* reclamation of scratch): the types, what a scan knows, what an exit on record says, and, when no kernel launches
\* after its worker's death, that deleted families come to an end.
THEOREM JobsInvariantHolds == JobsSpec => []JobsInvariant
<1>1. JobsInit => JobsInvariant
  <2> SUFFICES ASSUME JobsInit PROVE JobsInvariant OBVIOUS
  <2> USE BackgroundAssumption DEF JobsInit
  <2>1. JobsTypes BY DEF JobsTypes, NoOp, NoScan, NoSample, NoClean
  <2>2. ScanKnows BY DEF ScanKnows, NoScan
  <2>3. ExitsAreLast BY DEF ExitsAreLast, NoOp, NoScan, Alive
  <2>4. FamiliesEnded BY DEF FamiliesEnded, NoSample, NoClean
  <2> QED BY <2>1, <2>2, <2>3, <2>4 DEF JobsInvariant
<1>2. JobsInvariant /\ [JobsNext]_jobVars => JobsInvariant'
  BY JobsTypesStep, ScanKnowsStep, ExitsAreLastStep, FamiliesEndedStep DEF JobsInvariant
<1> QED BY <1>1, <1>2, PTL DEF JobsSpec

\* No completion is dispatched to its owner again once it was reported, for any jobs, sessions, orders of scans,
\* dispatches and marks, removals, deaths and restarts (background-notifier.mjs, #runScan).
THEOREM CompletionsReportedOnce == JobsSpec => ReportedOnce
<1>1. ASSUME JobsInvariant, [JobsNext]_jobVars, NEW j \in Jobs, inflight[j] = "none", inflight'[j] # "none"
      PROVE  marker[j] = "none"
  <2> USE BackgroundAssumption DEF JobsInvariant, JobsTypes
  <2>1. ASSUME ScanEnds PROVE marker[j] = "none"
    <3>1. j \in scan.done /\ Unowned(j) BY <1>1, <2>1 DEF ScanEnds
    <3> QED BY <1>1, <3>1 DEF ScanKnows, Unowned
  <2>2. ASSUME NEW k \in Jobs, DispatchAdmits(k) \/ DispatchReady(k) \/ DispatchFails(k) \/ DispatchMarks(k)
        PROVE  inflight'[j] = "none"
    BY <1>1, <2>2 DEF DispatchAdmits, DispatchReady, DispatchFails, DispatchMarks, AfterFailedDispatch
  <2>3. ASSUME UNCHANGED monitor \/ UNCHANGED inflight \/ UNCHANGED jobVars PROVE FALSE
    BY <1>1, <2>3 DEF monitor, jobVars
  <2>4. ASSUME MonitorRestarts PROVE FALSE BY <1>1, <2>4 DEF MonitorRestarts
  <2>5. ASSUME NEW k \in Jobs,
               \/ LaunchBegins(k) \/ LaunchSpawns(k) \/ LaunchEnds(k) \/ Adopt(k)
               \/ \E s \in Sessions : StopBegins(s, k, "stop") \/ StopBegins(s, k, "remove") \/ Remove(s, k)
               \/ Killed(k) \/ StopReads(k) \/ StopWrites(k) \/ RemoveEnds(k)
               \/ CommandEnds(k) \/ SupervisorReports(k) \/ WatcherReports(k) \/ WatchDies(k) \/ Ages(k)
        PROVE  UNCHANGED monitor
    BY <2>5 DEF LaunchBegins, LaunchSpawns, LaunchEnds, Adopt, StopBegins, Remove, Killed, StopReads, StopWrites,
         RemoveEnds, CommandEnds, SupervisorReports, WatcherReports, WatchDies, Ages
  <2>6. ASSUME NEW s \in Sessions, WorkerDies(s) \/ KernelEnds(s) \/ KernelStarts(s) \/ Delete(s) \/ CleanTries(s)
        PROVE  UNCHANGED monitor
    BY <2>6 DEF WorkerDies, KernelEnds, KernelStarts, Delete, CleanTries
  <2>7. ASSUME (\E k \in Jobs : ReadJob(k)) \/ ScanBegins PROVE UNCHANGED inflight BY <2>7 DEF ReadJob, ScanBegins
  <2>8. ASSUME CleanProcesses \/ CleanProves PROVE UNCHANGED monitor BY <2>8 DEF CleanProcesses, CleanProves
  <2> QED BY Zenon, <1>1, <2>1, <2>2, <2>3, <2>4, <2>5, <2>6, <2>7, <2>8 DEF JobsNext
<1>2. JobsInvariant /\ [JobsNext]_jobVars
      => [\A j \in Jobs : inflight[j] = "none" /\ inflight'[j] # "none" => marker[j] = "none"]_jobVars
  BY <1>1
<1> QED BY <1>2, JobsInvariantHolds, PTL DEF JobsSpec, ReportedOnce

\* When no kernel launches after its worker's death, nothing of a deleted root's scratch goes while a kernel or a job
\* of the family may use it, for any jobs and sessions and wherever a launch, a stop or a scan is
\* (session-scratch.mjs, reclaimSessionScratch).
THEOREM ScratchReclaimedWhenQuiet ==
  ASSUME ~LateLaunch
  PROVE  JobsSpec => ReclaimedWhenQuiet
<1> DEFINE Step == \A s \in Sessions : scratch'[s] = "removed" /\ scratch[s] # "removed" =>
       kernel[s] = "down" /\ \A j \in Jobs : Owner[j] = s => ~Alive(j) \/ dir[j] \in {"none", "removed"}
<1>1. ASSUME JobsInvariant, [JobsNext]_jobVars, NEW s \in Sessions, scratch'[s] = "removed", scratch[s] # "removed"
      PROVE  CleanTries(s)
  <2> USE BackgroundAssumption DEF JobsInvariant, JobsTypes
  <2>1. ASSUME UNCHANGED cleanup \/ UNCHANGED scratch \/ UNCHANGED jobVars PROVE FALSE
    BY <1>1, <2>1 DEF cleanup, jobVars
  <2>2. ASSUME NEW t \in Sessions, Delete(t) PROVE FALSE BY <1>1, <2>2 DEF Delete, Intent
  <2>3. ASSUME NEW t \in Sessions, CleanTries(t) PROVE CleanTries(s)
    <3>1. CASE t = s BY <2>3, <3>1
    <3>2. CASE t # s BY <1>1, <2>3, <3>2 DEF CleanTries
    <3> QED BY <3>1, <3>2
  <2>4. ASSUME NEW k \in Jobs,
               \/ LaunchBegins(k) \/ LaunchSpawns(k) \/ LaunchEnds(k) \/ Adopt(k)
               \/ \E t \in Sessions : StopBegins(t, k, "stop") \/ StopBegins(t, k, "remove") \/ Remove(t, k)
               \/ Killed(k) \/ StopReads(k) \/ StopWrites(k) \/ RemoveEnds(k)
               \/ CommandEnds(k) \/ SupervisorReports(k) \/ WatcherReports(k) \/ WatchDies(k) \/ Ages(k)
               \/ ReadJob(k) \/ DispatchAdmits(k) \/ DispatchReady(k) \/ DispatchFails(k) \/ DispatchMarks(k)
        PROVE  UNCHANGED cleanup
    BY <2>4 DEF LaunchBegins, LaunchSpawns, LaunchEnds, Adopt, StopBegins, Remove, Killed, StopReads, StopWrites,
         RemoveEnds, CommandEnds, SupervisorReports, WatcherReports, WatchDies, Ages, ReadJob, DispatchAdmits,
         DispatchReady, DispatchFails, DispatchMarks
  <2>5. ASSUME NEW t \in Sessions, WorkerDies(t) \/ KernelEnds(t) \/ KernelStarts(t) PROVE UNCHANGED cleanup
    BY <2>5 DEF WorkerDies, KernelEnds, KernelStarts
  <2>6. ASSUME ScanBegins PROVE UNCHANGED cleanup BY <2>6 DEF ScanBegins
  <2>7. ASSUME ScanEnds \/ MonitorRestarts \/ CleanProcesses \/ CleanProves PROVE UNCHANGED scratch
    BY <2>7 DEF ScanEnds, MonitorRestarts, CleanProcesses, CleanProves
  <2> QED BY Zenon, <1>1, <2>1, <2>2, <2>3, <2>4, <2>5, <2>6, <2>7 DEF JobsNext
<1>2. ASSUME JobsInvariant, NEW s \in Sessions, CleanTries(s), scratch'[s] = "removed", scratch[s] # "removed"
      PROVE  kernel[s] = "down" /\ \A j \in Jobs : Owner[j] = s => ~Alive(j) \/ dir[j] \in {"none", "removed"}
  <2> USE BackgroundAssumption DEF JobsInvariant, JobsTypes
  <2>1. sample.on /\ s \in sample.owners /\ Quiescent(s) /\ s \in clean.quiet BY <1>2 DEF CleanTries
  <2>2. kernel[s] = "down" BY <1>2, <2>1 DEF FamiliesEnded
  <2>3. ASSUME NEW j \in Jobs, Owner[j] = s, OnDisk(j) PROVE ~Alive(j)
    BY <1>2, <2>1, <2>3 DEF FamiliesEnded, Quiescent, Sample
  <2>4. ASSUME NEW j \in Jobs, ~OnDisk(j) PROVE ~Alive(j) \/ dir[j] \in {"none", "removed"}
    BY <1>2, <2>4 DEF OnDisk, ExitsAreLast
  <2> QED BY <2>2, <2>3, <2>4
<1>3. JobsInvariant /\ [JobsNext]_jobVars => [Step]_jobVars
  BY <1>1, <1>2
<1> QED BY <1>3, JobsInvariantHolds, PTL DEF JobsSpec, ReclaimedWhenQuiet

=============================================================================
