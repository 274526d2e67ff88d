-------------------------- MODULE FamilyTurnsProofs --------------------------
(* What holds of family messages for every family, limit and bound, and of *)
(* reported failures for any turns and any troubles.                       *)
EXTENDS FamilyMessages, TurnReports, WellFoundedInduction, TLAPS

-----------------------------------------------------------------------------
(* Family messages. *)

\* What a row of the messages table says of itself: only an unsent message has no ends,
\* and only a delivery attempt counts attempts or precedes the recipient's entry.
RowsFit ==
  \A i \in Ids :
    /\ msg[i].state = "none" => msg[i].to = NoSession /\ msg[i].from = NoSession
    /\ msg[i].state # "none" => msg[i].to \in Sessions /\ msg[i].from \in Sessions
    /\ msg[i].state \in {"none", "accepted", "queued"} =>
         msg[i].attempts = 0 /\ incorporated[i] = 0
    /\ i \in kicks \cup waits => msg[i].state # "none"

\* A worker's memory dies with it, and a deleted session has no worker.
MemoryNeedsWorker ==
  \A s \in Sessions :
    /\ worker[s] = 0 => frames[s] = {} /\ known[s] = {} /\ queue[s] = {}
    /\ life[s] = "deleted" => worker[s] = 0

\* What a worker was handed is addressed to it and was marked delivered.
HandedOut ==
  \A s \in Sessions, i \in Ids :
    /\ <<"message", i>> \in frames[s] \/ i \in queue[s] =>
         msg[i].to = s /\ msg[i].state \in {"delivered", "acknowledged"}
    /\ i \in known[s] => msg[i].to = s

\* A worker knows what its transcript holds and what waits to enter it, never both.
KnownOnce ==
  \A i \in Ids :
    /\ incorporated[i] \in {0, 1}
    /\ \A s \in Sessions :
         /\ i \in queue[s] => i \in known[s] /\ incorporated[i] = 0
         /\ incorporated[i] = 1 /\ msg[i].to = s /\ worker[s] # 0 => i \in known[s]
         /\ <<"ack", i>> \in wire[s] => incorporated[i] = 1

\* An entry report travels after the entry it reports.
ReportsFollowEntries ==
  \A i \in Ids :
    /\ journal[i] \in {0, 1}
    /\ \A s \in Sessions : <<"entry", i>> \in wire[s] => journal[i] = 1

\* The inductive invariant.
IInv ==
  /\ TypeOK /\ RowsFit /\ MemoryNeedsWorker /\ HandedOut /\ KnownOnce
  /\ ReportsFollowEntries
  /\ AcknowledgedOnlyIncorporated /\ JournaledBeforeQueued /\ NoPendingToDeleted

-----------------------------------------------------------------------------
(* Lemmas about the operators. *)

\* Changing a row's state alone.
LEMMA RowWithState ==
  ASSUME NEW row \in Row, NEW x \in States
  PROVE  LET new == [row EXCEPT !.state = x] IN
         /\ new \in Row /\ new.state = x
         /\ new.from = row.from /\ new.to = row.to /\ new.entry = row.entry
  BY DEF Row

\* The fields of a row as it is inserted.
LEMMA NewRowFields ==
  ASSUME NEW state \in States, NEW s \in Sessions, NEW t \in Sessions
  PROVE  /\ NewRow(state, s, t) \in Row /\ NewRow(state, s, t).state = state
         /\ NewRow(state, s, t).from = s /\ NewRow(state, s, t).to = t
         /\ NewRow(state, s, t).attempts = 0
<1>1. 0 \in 0..MaxAttempts
  BY BoundsAssumption
<1> QED BY <1>1 DEF NewRow, Row

\* markMessageDelivered turns a queued row into a delivered one: the attempts limit is
\* never met, since nothing queues a delivered message again.
LEMMA MarkDeliveredRow ==
  ASSUME NEW row \in Row, row.state \in Pending, row.state = "queued" => row.attempts = 0
  PROVE  /\ MarkDelivered(row) \in Row
         /\ MarkDelivered(row).state = "delivered"
         /\ MarkDelivered(row).from = row.from /\ MarkDelivered(row).to = row.to
         /\ MarkDelivered(row).entry = row.entry
         /\ row.state = "delivered" => MarkDelivered(row) = row
<1>1. CASE row.state = "queued"
  <2>1. row.attempts = 0 /\ ~(0 >= MaxAttempts) /\ 0 + 1 \in 0..MaxAttempts
    BY <1>1, BoundsAssumption
  <2>2. MarkDelivered(row) = [row EXCEPT !.state = "delivered", !.attempts = @ + 1]
    BY <1>1, <2>1 DEF MarkDelivered
  <2>3. "delivered" \in States
    BY DEF States
  <2> QED BY <1>1, <2>1, <2>2, <2>3 DEF Row
<1>2. CASE row.state # "queued"
  BY <1>2 DEF MarkDelivered, Row, Pending
<1> QED BY <1>1, <1>2

\* What #deliverMessage does to the rows and frames, for any set of messages addressed
\* to one session.
LEMMA DeliverFacts ==
  ASSUME TypeOK, RowsFit, NEW s \in Sessions, NEW D \in SUBSET Ids,
         \A i \in D : msg[i].to = s, Deliver(s, D)
  PROVE  /\ msg' \in [Ids -> Row] /\ inFlight' \in [Sessions -> SUBSET Ids]
         /\ frames' \in [Sessions -> SUBSET Frames]
         /\ \A j \in Ids :
              /\ msg'[j].from = msg[j].from /\ msg'[j].to = msg[j].to
              /\ msg'[j].entry = msg[j].entry
              /\ \/ msg'[j] = msg[j]
                 \/ msg[j].state = "queued" /\ msg'[j].state = "delivered"
         /\ \A r \in Sessions, j \in Ids :
              <<"message", j>> \in frames'[r] =>
                \/ <<"message", j>> \in frames[r]
                \/ msg[j].to = r /\ msg'[j].state = "delivered"
         /\ \A r \in Sessions : worker[r] = 0 => frames'[r] = frames[r]
<1> DEFINE fresh == {i \in D \ inFlight[s] : msg[i].state \in Pending}
           after == [i \in Ids |-> IF i \in fresh THEN MarkDelivered(msg[i]) ELSE msg[i]]
           out == {i \in fresh : after[i].state = "delivered"}
<1>0. /\ msg \in [Ids -> Row] /\ frames \in [Sessions -> SUBSET Frames]
      /\ inFlight \in [Sessions -> SUBSET Ids] /\ gen \in [Sessions -> 1..MaxGen]
  BY DEF TypeOK
<1>1. CASE ~CanDeliver(s)
  <2>1. UNCHANGED <<msg, inFlight, frames>>
    BY <1>1 DEF Deliver
  <2> QED BY <1>0, <2>1
<1>2. CASE CanDeliver(s)
  <2>1. /\ msg' = after /\ inFlight' = [inFlight EXCEPT ![s] = @ \cup out]
        /\ frames' = [frames EXCEPT ![s] = @ \cup {<<"message", i>> : i \in out}]
    BY <1>2 DEF Deliver
  <2>2. worker[s] # 0
    BY <1>0, <1>2, BoundsAssumption DEF CanDeliver
  <2>3. \A j \in Ids : j \notin fresh => after[j] = msg[j]
    OBVIOUS
  <2>4. \A j \in fresh : /\ j \in Ids /\ after[j] = MarkDelivered(msg[j])
                         /\ msg[j] \in Row /\ msg[j].to = s /\ msg[j].state \in Pending
                         /\ msg[j].state = "queued" => msg[j].attempts = 0
    BY <1>0 DEF RowsFit
  <2>5. \A j \in fresh :
          /\ after[j] \in Row /\ after[j].state = "delivered"
          /\ after[j].from = msg[j].from /\ after[j].to = msg[j].to
          /\ after[j].entry = msg[j].entry
          /\ after[j] = msg[j] \/ msg[j].state = "queued"
    BY <2>4, MarkDeliveredRow DEF Pending
  <2>6. out = fresh /\ out \subseteq Ids
    BY <2>4, <2>5
  <2> HIDE DEF fresh, after, out
  <2>7. msg' \in [Ids -> Row]
    <3>1. after \in [Ids -> Row]
      BY <1>0, <2>3, <2>5 DEF after
    <3> QED BY <2>1, <3>1
  <2>8. \A r \in Sessions, j \in Ids :
          <<"message", j>> \in frames'[r] => \/ <<"message", j>> \in frames[r]
                                             \/ r = s /\ j \in out
    BY <1>0, <2>1
  <2>9. frames' \in [Sessions -> SUBSET Frames] /\ inFlight' \in [Sessions -> SUBSET Ids]
    BY <1>0, <2>1, <2>6 DEF Frames
  <2>10. \A r \in Sessions : worker[r] = 0 => frames'[r] = frames[r]
    BY <1>0, <2>1, <2>2
  <2>11. \A j \in Ids :
           /\ msg'[j].from = msg[j].from /\ msg'[j].to = msg[j].to
           /\ msg'[j].entry = msg[j].entry
           /\ \/ msg'[j] = msg[j]
              \/ msg[j].state = "queued" /\ msg'[j].state = "delivered"
    <3>1. \A j \in Ids : j \in fresh \/ after[j] = msg[j]
      BY <2>3
    <3> QED BY <2>1, <2>5, <3>1
  <2>12. \A j \in out : msg[j].to = s /\ msg'[j].state = "delivered"
    BY <2>1, <2>4, <2>5, <2>6
  <2> QED BY <2>7, <2>8, <2>9, <2>10, <2>11, <2>12
<1> QED BY <1>1, <1>2

\* #terminalizeSessionWork only rejects, and only what a session of D was to receive or
\* had not journaled.
LEMMA TerminalizeFacts ==
  ASSUME TypeOK, NEW D \in SUBSET Sessions, msg' = Terminalize(D)
  PROVE  /\ msg' \in [Ids -> Row]
         /\ \A j \in Ids :
              /\ msg'[j].from = msg[j].from /\ msg'[j].to = msg[j].to
              /\ msg'[j].entry = msg[j].entry
              /\ \/ /\ \/ msg[j].to \in D /\ msg[j].state \in {"accepted", "queued", "delivered"}
                       \/ msg[j].from \in D /\ msg[j].state = "accepted"
                    /\ msg'[j].state = "rejected"
                 \/ /\ msg[j].to \in D => msg[j].state \notin {"accepted", "queued", "delivered"}
                    /\ msg[j].from \in D => msg[j].state # "accepted"
                    /\ msg'[j] = msg[j]
<1>1. msg \in [Ids -> Row]
  BY DEF TypeOK
<1>2. \A j \in Ids : [msg[j] EXCEPT !.state = "rejected"] \in Row
  BY <1>1, RowWithState DEF States
<1>3. \A j \in Ids : LET row == [msg[j] EXCEPT !.state = "rejected"] IN
        /\ row.from = msg[j].from /\ row.to = msg[j].to /\ row.entry = msg[j].entry
        /\ row.state = "rejected"
  BY <1>1, RowWithState DEF States
<1>4. msg' \in [Ids -> Row]
  BY <1>1, <1>2 DEF Terminalize
<1> QED BY <1>3, <1>4 DEF Terminalize

\* #queueChildFailure inserts at most the receipt of the generation that ended, and only
\* for a recipient that is not deleted.
LEMMA WithReceiptFacts ==
  ASSUME TypeOK, NEW c \in Sessions, NEW g \in 1..MaxGen
  PROVE  /\ WithReceipt(c, g) \in [Ids -> Row]
         /\ \A j \in Ids :
              \/ WithReceipt(c, g)[j] = msg[j]
              \/ /\ msg[j].state = "none" /\ j \in Receipts
                 /\ \E p \in Sessions :
                      /\ life[p] # "deleted"
                      /\ WithReceipt(c, g)[j] = NewRow("queued", c, p)
<1> DEFINE p == ReportTo(c)
<1>0. msg \in [Ids -> Row]
  BY DEF TypeOK
<1>1. CASE p # NoSession /\ life[p] # "deleted" /\ msg[<<c, g>>].state = "none"
           /\ WithReceipt(c, g) = [msg EXCEPT ![<<c, g>>] = NewRow("queued", c, p)]
  <2>1. p \in Sessions
    BY <1>1, SessionsAssumption DEF ReportTo
  <2>2. <<c, g>> \in Receipts
    BY <1>1 DEF Receipts
  <2>3. NewRow("queued", c, p) \in Row
    BY <2>1, NewRowFields DEF States
  <2> HIDE DEF p
  <2> QED BY <1>0, <1>1, <2>1, <2>2, <2>3 DEF Ids
<1>2. CASE WithReceipt(c, g) = msg
  BY <1>0, <1>2
<1> QED BY <1>1, <1>2, Zenon DEF WithReceipt

\* Both deliveries, a single message's and a session's whole backlog, keep the invariant.
LEMMA DeliverStep ==
  ASSUME IInv, NEW s \in Sessions, NEW D \in SUBSET Ids, \A i \in D : msg[i].to = s,
         Deliver(s, D), sweep' \subseteq sweep, waits' \subseteq waits,
         UNCHANGED <<journal, incorporated, deletions, worker, closing, life, gen, conn,
                     kicks, wire, known, acks, queue, troubles>>
  PROVE  IInv'
<1>r. /\ msg' \in [Ids -> Row] /\ inFlight' \in [Sessions -> SUBSET Ids]
      /\ frames' \in [Sessions -> SUBSET Frames]
      /\ \A j \in Ids :
           /\ msg'[j].from = msg[j].from /\ msg'[j].to = msg[j].to
           /\ msg'[j].entry = msg[j].entry
           /\ \/ msg'[j] = msg[j]
              \/ msg[j].state = "queued" /\ msg'[j].state = "delivered"
      /\ \A r \in Sessions, j \in Ids :
           <<"message", j>> \in frames'[r] =>
             \/ <<"message", j>> \in frames[r]
             \/ msg[j].to = r /\ msg'[j].state = "delivered"
      /\ \A r \in Sessions : worker[r] = 0 => frames'[r] = frames[r]
  BY DeliverFacts DEF IInv
<1> USE <1>r DEF IInv
<1>1. TypeOK'
  BY DEF TypeOK
<1>2. RowsFit'
  BY DEF RowsFit
<1>3. MemoryNeedsWorker'
  BY DEF MemoryNeedsWorker
<1>4. HandedOut'
  <2> SUFFICES ASSUME NEW r \in Sessions, NEW j \in Ids
               PROVE  /\ <<"message", j>> \in frames'[r] \/ j \in queue'[r] =>
                           msg'[j].to = r /\ msg'[j].state \in {"delivered", "acknowledged"}
                      /\ j \in known'[r] => msg'[j].to = r
    BY DEF HandedOut
  <2>1. <<"message", j>> \in frames[r] \/ j \in queue[r] =>
          msg[j].to = r /\ msg[j].state \in {"delivered", "acknowledged"}
    BY DEF HandedOut
  <2>2. msg[j].state \in {"delivered", "acknowledged"} => msg'[j] = msg[j]
    OBVIOUS
  <2>3. j \in known[r] => msg[j].to = r
    BY DEF HandedOut
  <2> QED BY <2>1, <2>2, <2>3
<1>5. KnownOnce'
  BY DEF KnownOnce
<1>6. ReportsFollowEntries'
  BY DEF ReportsFollowEntries
<1>7. AcknowledgedOnlyIncorporated'
  BY DEF AcknowledgedOnlyIncorporated
<1>8. JournaledBeforeQueued'
  BY DEF JournaledBeforeQueued, Pending, Ids
<1>9. NoPendingToDeleted'
  BY DEF NoPendingToDeleted, Terminal
<1> QED BY <1>1, <1>2, <1>3, <1>4, <1>5, <1>6, <1>7, <1>8, <1>9

-----------------------------------------------------------------------------
(* Each action keeps the invariant. *)

\* Sending writes one new row, which nothing yet refers to.
LEMMA SendMessageStep ==
  ASSUME IInv, NEW s \in Sessions, NEW t \in Sessions, NEW m \in Messages, SendMessage(s, t, m)
  PROVE  IInv'
<1> USE DEF IInv, TypeOK, SendMessage, transcripts, routing, owners, links, turns
<1>r. /\ m \in Ids /\ msg[m].state = "none" /\ life[s] # "deleted" /\ life[t] # "deleted"
      /\ msg' \in [Ids -> Row]
      /\ msg'[m].state = "accepted" /\ msg'[m].from = s /\ msg'[m].to = t
      /\ msg'[m].attempts = 0
      /\ \A j \in Ids : j # m => msg'[j] = msg[j]
  <2>1. "accepted" \in States /\ m \in Ids
    BY DEF States, Ids
  <2> QED BY <2>1, NewRowFields DEF SentRow, Available
<1>f. /\ frames' \in [Sessions -> SUBSET Frames]
      /\ \A r \in Sessions, j \in Ids :
           <<"message", j>> \in frames'[r] => <<"message", j>> \in frames[r]
      /\ \A r \in Sessions : worker[r] = 0 => frames'[r] = frames[r]
  <2>1. {<<"history", j>> : j \in Awaiting(s) \cup {m}} \subseteq Frames
    BY <1>r DEF Awaiting, Frames
  <2>2. \A j \in Ids : <<"message", j>> \notin {<<"history", k>> : k \in Awaiting(s) \cup {m}}
    OBVIOUS
  <2> QED BY <2>1, <2>2 DEF Connected
<1> USE <1>r, <1>f
<1>1. TypeOK'
  OBVIOUS
<1>2. RowsFit'
  BY DEF RowsFit
<1>3. MemoryNeedsWorker'
  BY DEF MemoryNeedsWorker
<1>4. HandedOut'
  <2>1. \A r \in Sessions : m \notin queue[r] /\ m \notin known[r] /\ <<"message", m>> \notin frames[r]
    BY SessionsAssumption DEF HandedOut, RowsFit
  <2>2. ASSUME NEW r \in Sessions, NEW j \in Ids
        PROVE  /\ <<"message", j>> \in frames'[r] \/ j \in queue'[r] =>
                    msg'[j].to = r /\ msg'[j].state \in {"delivered", "acknowledged"}
               /\ j \in known'[r] => msg'[j].to = r
    <3>1. CASE j = m
      BY <2>1, <3>1 DEF HandedOut
    <3>2. CASE j # m
      BY <3>2 DEF HandedOut
    <3> QED BY <3>1, <3>2
  <2> QED BY <2>2 DEF HandedOut
<1>5. KnownOnce'
  BY DEF KnownOnce, RowsFit
<1>6. ReportsFollowEntries'
  BY DEF ReportsFollowEntries
<1>7. AcknowledgedOnlyIncorporated'
  BY DEF AcknowledgedOnlyIncorporated
<1>8. JournaledBeforeQueued'
  BY DEF JournaledBeforeQueued, Pending, Ids
<1>9. NoPendingToDeleted'
  BY DEF NoPendingToDeleted
<1> QED BY <1>1, <1>2, <1>3, <1>4, <1>5, <1>6, <1>7, <1>8, <1>9

\* Journaling: the "to" entry is written once, and only then reported.
LEMMA JournalOutgoingStep ==
  ASSUME IInv, NEW s \in Sessions, NEW i \in Ids, JournalOutgoing(s, i)
  PROVE  IInv'
<1> USE DEF IInv, TypeOK, JournalOutgoing, store, routing, owners, links, turns
<1>f. \A r \in Sessions, j \in Ids :
        <<"message", j>> \in frames'[r] => <<"message", j>> \in frames[r]
  OBVIOUS
<1>1. TypeOK'
  <2>1. journal' \in [Ids -> Nat]
    <3>1. \A n \in Nat : (IF n = 0 THEN 1 ELSE n) \in Nat
      OBVIOUS
    <3> QED BY <3>1
  <2>2. wire' \in [Sessions -> SUBSET Requests]
    BY DEF Requests
  <2>3. frames' \in [Sessions -> SUBSET Frames]
    OBVIOUS
  <2> QED BY <2>1, <2>2, <2>3
<1>2. MemoryNeedsWorker'
  BY DEF MemoryNeedsWorker
<1>3. HandedOut'
  BY DEF HandedOut, RowsFit, MemoryNeedsWorker, Connected, Pending
<1>4. KnownOnce'
  BY DEF KnownOnce
<1>5. ReportsFollowEntries'
  BY DEF ReportsFollowEntries
<1>6. JournaledBeforeQueued'
  <2>1. \A j \in Ids : journal'[j] = journal[j] \/ (journal[j] = 0 /\ journal'[j] = 1)
    OBVIOUS
  <2> QED BY <2>1 DEF JournaledBeforeQueued, Ids
<1>7. RowsFit' /\ AcknowledgedOnlyIncorporated' /\ NoPendingToDeleted'
  BY DEF RowsFit, AcknowledgedOnlyIncorporated, NoPendingToDeleted
<1> QED BY <1>1, <1>2, <1>3, <1>4, <1>5, <1>6, <1>7

\* Queueing follows the sender's entry.
LEMMA RecordSenderEntryStep ==
  ASSUME IInv, NEW s \in Sessions, NEW i \in Ids, RecordSenderEntry(s, i)
  PROVE  IInv'
<1> USE DEF IInv, TypeOK, RecordSenderEntry, transcripts, owners, links, actor
<1>w. /\ wire' \in [Sessions -> SUBSET Requests]
      /\ \A r \in Sessions : wire'[r] \subseteq wire[r]
  OBVIOUS
<1>1. CASE UNCHANGED <<msg, kicks>>
  BY <1>w, <1>1 DEF RowsFit, MemoryNeedsWorker, HandedOut, KnownOnce, ReportsFollowEntries,
     AcknowledgedOnlyIncorporated, JournaledBeforeQueued, NoPendingToDeleted
<1>2. CASE /\ Available(msg[i].to) /\ msg[i].state = "accepted"
           /\ msg' = [msg EXCEPT ![i].entry = TRUE, ![i].state = "queued"]
           /\ kicks' = kicks \cup {i}
  <2>r. /\ msg' \in [Ids -> Row] /\ kicks' \subseteq Ids
        /\ msg'[i].state = "queued" /\ msg'[i].entry /\ msg'[i].attempts = msg[i].attempts
        /\ msg'[i].from = msg[i].from /\ msg'[i].to = msg[i].to
        /\ \A j \in Ids : j # i => msg'[j] = msg[j]
        /\ journal[i] = 1 /\ life[msg[i].to] # "deleted"
    <3>1. "queued" \in States
      BY DEF States
    <3>2. msg'[i] = [msg[i] EXCEPT !.entry = TRUE, !.state = "queued"]
      BY <1>2
    <3>3. msg'[i] \in Row /\ \A j \in Ids : j # i => msg'[j] = msg[j]
      BY <1>2, <3>1, <3>2 DEF Row
    <3>4. journal[i] = 1
      BY DEF ReportsFollowEntries
    <3>5. msg' \in [Ids -> Row]
      BY <1>2, <3>3
    <3>6. /\ msg'[i].state = "queued" /\ msg'[i].entry /\ msg'[i].attempts = msg[i].attempts
          /\ msg'[i].from = msg[i].from /\ msg'[i].to = msg[i].to
      BY <3>2 DEF Row
    <3> QED BY <1>2, <3>3, <3>4, <3>5, <3>6 DEF Available
  <2> USE <1>w, <1>2, <2>r
  <2>1. TypeOK'
    OBVIOUS
  <2>2. RowsFit'
    BY DEF RowsFit
  <2>3. MemoryNeedsWorker'
    BY DEF MemoryNeedsWorker
  <2>4. HandedOut'
    <3>1. \A r \in Sessions : i \notin queue[r] /\ <<"message", i>> \notin frames[r]
      BY DEF HandedOut
    <3>2. ASSUME NEW r \in Sessions, NEW j \in Ids
          PROVE  /\ <<"message", j>> \in frames'[r] \/ j \in queue'[r] =>
                      msg'[j].to = r /\ msg'[j].state \in {"delivered", "acknowledged"}
                 /\ j \in known'[r] => msg'[j].to = r
      <4>1. CASE j = i
        BY <3>1, <4>1 DEF HandedOut
      <4>2. CASE j # i
        BY <4>2 DEF HandedOut
      <4> QED BY <4>1, <4>2
    <3> QED BY <3>2 DEF HandedOut
  <2>5. KnownOnce'
    BY DEF KnownOnce
  <2>6. ReportsFollowEntries'
    BY DEF ReportsFollowEntries
  <2>7. AcknowledgedOnlyIncorporated'
    BY DEF AcknowledgedOnlyIncorporated
  <2>8. JournaledBeforeQueued'
    BY DEF JournaledBeforeQueued, Ids
  <2>9. NoPendingToDeleted'
    BY DEF NoPendingToDeleted
  <2> QED BY <2>1, <2>2, <2>3, <2>4, <2>5, <2>6, <2>7, <2>8, <2>9
<1> QED BY <1>1, <1>2

\* KickBegin keeps the invariant.
LEMMA KickBeginStep ==
  ASSUME IInv, NEW i \in Ids, KickBegin(i)
  PROVE  IInv'
<1> USE DEF IInv, TypeOK, KickBegin, transcripts, owners, links, actor
<1>1. TypeOK'
  <2>1. life' \in [Sessions -> Lifecycles]
    BY DEF Lifecycles, Revive
  <2>2. gen' \in [Sessions -> 1..MaxGen]
    BY BoundsAssumption DEF Startable, Revive
  <2>3. kicks' \subseteq Ids
    OBVIOUS
  <2>4. waits' \subseteq Ids
    OBVIOUS
  <2> QED BY <2>1, <2>2, <2>3, <2>4
<1>2. RowsFit'
  BY DEF RowsFit
<1>3. MemoryNeedsWorker'
  BY DEF MemoryNeedsWorker, Revive
<1>4. NoPendingToDeleted'
  BY DEF NoPendingToDeleted, RowsFit, Revive
<1>5. /\ HandedOut' /\ KnownOnce' /\ ReportsFollowEntries' /\ AcknowledgedOnlyIncorporated'
      /\ JournaledBeforeQueued'
  BY DEF HandedOut, KnownOnce, ReportsFollowEntries, AcknowledgedOnlyIncorporated,
     JournaledBeforeQueued
<1> QED BY <1>1, <1>2, <1>3, <1>4, <1>5

\* KickRetire keeps the invariant.
LEMMA KickRetireStep ==
  ASSUME IInv, NEW i \in Ids, KickRetire(i)
  PROVE  IInv'
<1> USE DEF IInv, TypeOK, KickRetire, store, transcripts, links, turns, actor
<1>1. TypeOK'
  <2>1. closing' \in [Sessions -> {"none", "passivated", "stopped"}]
    OBVIOUS
  <2>2. troubles' \in 0..MaxTroubles
    BY BoundsAssumption DEF Trouble
  <2> QED BY <2>1, <2>2
<1>2. /\ RowsFit' /\ MemoryNeedsWorker' /\ HandedOut' /\ KnownOnce'
      /\ ReportsFollowEntries' /\ AcknowledgedOnlyIncorporated'
      /\ JournaledBeforeQueued' /\ NoPendingToDeleted'
  BY DEF RowsFit, MemoryNeedsWorker, HandedOut, KnownOnce, ReportsFollowEntries,
     AcknowledgedOnlyIncorporated, JournaledBeforeQueued, NoPendingToDeleted
<1> QED BY <1>1, <1>2

\* KickRestart keeps the invariant.
LEMMA KickRestartStep ==
  ASSUME IInv, NEW i \in Ids, KickRestart(i)
  PROVE  IInv'
<1> USE DEF IInv, TypeOK, KickRestart, transcripts, routing, actor, owners, links, turns
<1>1. TypeOK'
  <2>1. life' \in [Sessions -> Lifecycles]
    BY DEF Lifecycles, Revive
  <2>2. gen' \in [Sessions -> 1..MaxGen]
    <3>1. gen[msg[i].to] < MaxGen /\ gen' = [gen EXCEPT ![msg[i].to] = @ + 1]
      BY DEF Startable, Revive
    <3>2. \A n \in 1..MaxGen : n < MaxGen => n + 1 \in 1..MaxGen
      BY BoundsAssumption
    <3> QED BY <3>1, <3>2
  <2> QED BY <2>1, <2>2
<1>2. MemoryNeedsWorker'
  BY DEF MemoryNeedsWorker, Revive
<1>3. NoPendingToDeleted'
  BY DEF NoPendingToDeleted, Revive
<1>4. /\ RowsFit' /\ HandedOut' /\ KnownOnce' /\ ReportsFollowEntries'
      /\ AcknowledgedOnlyIncorporated' /\ JournaledBeforeQueued'
  BY DEF RowsFit, HandedOut, KnownOnce, ReportsFollowEntries, AcknowledgedOnlyIncorporated,
     JournaledBeforeQueued
<1> QED BY <1>1, <1>2, <1>3, <1>4

\* KickDeliver keeps the invariant.
LEMMA KickDeliverStep ==
  ASSUME IInv, NEW i \in Ids, KickDeliver(i)
  PROVE  IInv'
<1>1. msg[i].to \in Sessions
  BY SessionsAssumption DEF IInv, RowsFit, KickDeliver
<1>2. /\ Deliver(msg[i].to, {i}) /\ waits' = waits \ {i}
      /\ UNCHANGED <<journal, incorporated, deletions, worker, closing, life, gen, conn, sweep,
                     kicks, wire, known, acks, queue, troubles>>
  BY DEF KickDeliver, transcripts, owners
<1>3. waits' \subseteq waits
  BY <1>2
<1> QED BY <1>1, <1>2, <1>3, DeliverStep

\* KickAbandon keeps the invariant.
LEMMA KickAbandonStep ==
  ASSUME IInv, NEW i \in Ids, KickAbandon(i)
  PROVE  IInv'
<1> USE DEF IInv, TypeOK, KickAbandon, store, transcripts, owners, links, actor
<1>1. TypeOK'
  <2>1. kicks' \subseteq Ids
    OBVIOUS
  <2>2. waits' \subseteq Ids
    OBVIOUS
  <2> QED BY <2>1, <2>2
<1>2. RowsFit'
  BY DEF RowsFit
<1>3. /\ MemoryNeedsWorker' /\ HandedOut' /\ KnownOnce' /\ ReportsFollowEntries'
      /\ AcknowledgedOnlyIncorporated' /\ JournaledBeforeQueued' /\ NoPendingToDeleted'
  BY DEF MemoryNeedsWorker, HandedOut, KnownOnce, ReportsFollowEntries,
     AcknowledgedOnlyIncorporated, JournaledBeforeQueued, NoPendingToDeleted
<1> QED BY <1>1, <1>2, <1>3

\* DeliverPending keeps the invariant.
LEMMA DeliverPendingStep ==
  ASSUME IInv, NEW s \in Sessions, DeliverPending(s)
  PROVE  IInv'
<1>1. /\ Deliver(s, PendingTo(s)) /\ sweep' \subseteq sweep
      /\ UNCHANGED <<journal, incorporated, deletions, worker, closing, life, gen, conn,
                     kicks, waits, wire, known, acks, queue, troubles>>
  BY DEF DeliverPending, transcripts, owners
<1>2. PendingTo(s) \in SUBSET Ids /\ \A i \in PendingTo(s) : msg[i].to = s
  BY DEF PendingTo
<1> QED BY <1>1, <1>2, DeliverStep

\* RunSettled keeps the invariant.
LEMMA RunSettledStep ==
  ASSUME IInv, NEW s \in Sessions, RunSettled(s)
  PROVE  IInv'
<1> USE DEF IInv, TypeOK, RunSettled, store, transcripts, owners, links, actor
<1>1. TypeOK'
  <2>1. sweep' \subseteq Sessions
    BY DEF RetryQueued
  <2>2. kicks' \subseteq Ids
    BY DEF RetryQueued, PendingTo
  <2> QED BY <2>1, <2>2
<1>2. RowsFit'
  BY DEF RowsFit, RetryQueued
<1>3. /\ MemoryNeedsWorker' /\ HandedOut' /\ KnownOnce' /\ ReportsFollowEntries'
      /\ AcknowledgedOnlyIncorporated' /\ JournaledBeforeQueued' /\ NoPendingToDeleted'
  BY DEF MemoryNeedsWorker, HandedOut, KnownOnce, ReportsFollowEntries,
     AcknowledgedOnlyIncorporated, JournaledBeforeQueued, NoPendingToDeleted
<1> QED BY <1>1, <1>2, <1>3

\* RetryReceipts keeps the invariant.
LEMMA RetryReceiptsStep ==
  ASSUME IInv, RetryReceipts
  PROVE  IInv'
<1> USE DEF IInv, TypeOK, RetryReceipts, store, transcripts, owners, links, actor
<1>1. TypeOK'
  <2>1. kicks' \subseteq Ids
    BY DEF Ids, RetryableReceipts
  <2> QED BY <2>1
<1>2. RowsFit'
  BY DEF RowsFit, RetryableReceipts, Pending
<1>3. /\ MemoryNeedsWorker' /\ HandedOut' /\ KnownOnce' /\ ReportsFollowEntries'
      /\ AcknowledgedOnlyIncorporated' /\ JournaledBeforeQueued' /\ NoPendingToDeleted'
  BY DEF MemoryNeedsWorker, HandedOut, KnownOnce, ReportsFollowEntries,
     AcknowledgedOnlyIncorporated, JournaledBeforeQueued, NoPendingToDeleted
<1> QED BY <1>1, <1>2, <1>3

\* An unknown message is not held yet, so it may be queued.
LEMMA ReceiveMessageStep ==
  ASSUME IInv, NEW s \in Sessions, NEW i \in Ids, ReceiveMessage(s, i)
  PROVE  IInv'
<1> USE DEF IInv, TypeOK, ReceiveMessage, store, transcripts, routing, owners, links, turns
<1>f. \A r \in Sessions, j \in Ids :
        <<"message", j>> \in frames'[r] => <<"message", j>> \in frames[r]
  OBVIOUS
<1>1. TypeOK'
  <2>1. wire' \in [Sessions -> SUBSET Requests]
    BY DEF Requests, Persisted, Connected
  <2>2. frames' \in [Sessions -> SUBSET Frames]
    BY DEF Frames
  <2>3. known' \in [Sessions -> SUBSET Ids]
    BY DEF Ids
  <2>4. acks' \in [Sessions -> SUBSET Ids]
    BY DEF Persisted, Connected
  <2>5. queue' \in [Sessions -> SUBSET Ids]
    BY DEF Persisted, Connected
  <2> QED BY <2>1, <2>2, <2>3, <2>4, <2>5
<1>2. MemoryNeedsWorker'
  BY DEF MemoryNeedsWorker, Persisted, Connected, Pending
<1>3. HandedOut'
  <2>1. \A r \in Sessions, j \in Ids :
          /\ j \in queue'[r] => j \in queue[r] \/ <<"message", j>> \in frames[r]
          /\ j \in known'[r] => j \in known[r] \/ <<"message", j>> \in frames[r]
    OBVIOUS
  <2>2. msg' = msg
    OBVIOUS
  <2> QED BY <1>f, <2>1, <2>2 DEF HandedOut
<1>4. KnownOnce'
  <2>1. msg' = msg /\ incorporated' = incorporated /\ worker' = worker
    OBVIOUS
  <2>2. i \notin known[s] => incorporated[i] = 0
    <3>1. msg[i].to = s
      BY DEF HandedOut
    <3>2. incorporated[i] \in {0, 1} /\ worker[s] # 0
      BY DEF KnownOnce
    <3> QED BY <3>1, <3>2 DEF KnownOnce
  <2>3. \A r \in Sessions, j \in Ids :
          /\ j \in known[r] => j \in known'[r]
          /\ j \in queue'[r] =>
               j \in queue[r] \/ (r = s /\ j = i /\ i \notin known[s] /\ i \in known'[s])
    OBVIOUS
  <2>4. \A r \in Sessions, j \in Ids :
          <<"ack", j>> \in wire'[r] =>
            <<"ack", j>> \in wire[r] \/ (j = i /\ incorporated[i] > 0)
    BY DEF Persisted
  <2>k. KnownOnce
    OBVIOUS
  <2> HIDE DEF IInv, TypeOK, ReceiveMessage, store, transcripts, routing, owners, links, turns
  <2>5. ASSUME NEW j \in Ids, NEW r \in Sessions
        PROVE  /\ incorporated'[j] \in {0, 1}
               /\ j \in queue'[r] => j \in known'[r] /\ incorporated'[j] = 0
               /\ incorporated'[j] = 1 /\ msg'[j].to = r /\ worker'[r] # 0 => j \in known'[r]
               /\ <<"ack", j>> \in wire'[r] => incorporated'[j] = 1
    <3>1. incorporated'[j] \in {0, 1} /\ incorporated[i] \in {0, 1}
      BY <2>1, <2>k DEF KnownOnce
    <3>2. j \in queue'[r] => j \in known'[r] /\ incorporated'[j] = 0
      BY <2>1, <2>2, <2>3, <2>k DEF KnownOnce
    <3>3. incorporated'[j] = 1 /\ msg'[j].to = r /\ worker'[r] # 0 => j \in known'[r]
      BY <2>1, <2>3, <2>k DEF KnownOnce
    <3>4. <<"ack", j>> \in wire'[r] => incorporated'[j] = 1
      BY <2>1, <2>4, <2>k, <3>1 DEF KnownOnce
    <3> QED BY <3>1, <3>2, <3>3, <3>4
  <2> QED BY <2>1, <2>5 DEF KnownOnce
<1>5. ReportsFollowEntries'
  BY DEF ReportsFollowEntries, Persisted, Connected, Pending
<1>6. /\ RowsFit' /\ AcknowledgedOnlyIncorporated' /\ JournaledBeforeQueued'
      /\ NoPendingToDeleted'
  BY DEF RowsFit, AcknowledgedOnlyIncorporated, JournaledBeforeQueued, NoPendingToDeleted
<1> QED BY <1>1, <1>2, <1>3, <1>4, <1>5, <1>6

\* The coordinator commits only what is queued, and a queued message is not yet held.
LEMMA CommitMessageStep ==
  ASSUME IInv, NEW s \in Sessions, NEW i \in Ids, CommitMessage(s, i)
  PROVE  IInv'
<1> USE DEF IInv, TypeOK, CommitMessage, store, routing, owners, links, turns
<1>1. TypeOK'
  <2>1. incorporated' \in [Ids -> Nat]
    OBVIOUS
  <2>2. queue' \in [Sessions -> SUBSET Ids]
    OBVIOUS
  <2> QED BY <2>1, <2>2
<1>2. RowsFit'
  <2>1. msg[i].state \in {"delivered", "acknowledged"}
    BY DEF HandedOut
  <2>2. \A j \in Ids : j # i => incorporated'[j] = incorporated[j]
    OBVIOUS
  <2> QED BY <2>1, <2>2 DEF RowsFit
<1>3. MemoryNeedsWorker'
  BY DEF MemoryNeedsWorker, Pending
<1>4. HandedOut'
  <2>1. \A r \in Sessions, j \in Ids : j \in queue'[r] => j \in queue[r]
    BY DEF Ids
  <2> QED BY <2>1 DEF HandedOut
<1>5. KnownOnce'
  <2>1. incorporated[i] = 0 /\ msg[i].to = s /\ i \in known[s]
    BY DEF KnownOnce, HandedOut
  <2>2. incorporated'[i] = 1 /\ \A j \in Ids : j # i => incorporated'[j] = incorporated[j]
    BY <2>1
  <2>3. \A r \in Sessions, j \in Ids : j \in queue'[r] => j \in queue[r] /\ j # i
    BY <2>1 DEF HandedOut
  <2> QED BY <2>1, <2>2, <2>3 DEF KnownOnce
<1>6. AcknowledgedOnlyIncorporated'
  BY DEF AcknowledgedOnlyIncorporated, KnownOnce, RowsFit, Pending
<1>7. ReportsFollowEntries' /\ JournaledBeforeQueued' /\ NoPendingToDeleted'
  BY DEF ReportsFollowEntries, JournaledBeforeQueued, NoPendingToDeleted
<1> QED BY <1>1, <1>2, <1>3, <1>4, <1>5, <1>6, <1>7

\* FlushAcknowledgements keeps the invariant.
LEMMA FlushAcknowledgementsStep ==
  ASSUME IInv, NEW s \in Sessions, FlushAcknowledgements(s)
  PROVE  IInv'
<1> USE DEF IInv, TypeOK, FlushAcknowledgements, store, transcripts, routing, actor, owners, links, turns
<1>1. TypeOK'
  <2>1. wire' \in [Sessions -> SUBSET Requests]
    BY DEF Requests
  <2> QED BY <2>1
<1>2. KnownOnce'
  BY DEF KnownOnce, Persisted
<1>3. ReportsFollowEntries'
  BY DEF ReportsFollowEntries
<1>4. /\ RowsFit' /\ MemoryNeedsWorker' /\ HandedOut' /\ AcknowledgedOnlyIncorporated'
      /\ JournaledBeforeQueued' /\ NoPendingToDeleted'
  BY DEF RowsFit, MemoryNeedsWorker, HandedOut, AcknowledgedOnlyIncorporated,
     JournaledBeforeQueued, NoPendingToDeleted
<1> QED BY <1>1, <1>2, <1>3, <1>4

\* An acknowledgement on the wire speaks of a message the transcript holds.
LEMMA AckMessageStep ==
  ASSUME IInv, NEW s \in Sessions, NEW i \in Ids, AckMessage(s, i)
  PROVE  IInv'
<1> USE DEF IInv, TypeOK, AckMessage, transcripts, owners, turns
<1>w. /\ wire' \in [Sessions -> SUBSET Requests]
      /\ \A r \in Sessions : wire'[r] \subseteq wire[r]
  OBVIOUS
<1>1. CASE UNCHANGED <<msg, inFlight, acks>>
  BY <1>w, <1>1 DEF RowsFit, MemoryNeedsWorker, HandedOut, KnownOnce, ReportsFollowEntries,
     AcknowledgedOnlyIncorporated, JournaledBeforeQueued, NoPendingToDeleted
<1>2. CASE /\ Acknowledgeable(msg[i], s)
           /\ msg' = [msg EXCEPT ![i].state = "acknowledged"]
           /\ inFlight' = [inFlight EXCEPT ![s] = @ \ {i}]
           /\ acks' = IF Connected(s) THEN [acks EXCEPT ![s] = @ \ {i}] ELSE acks
  <2>r. /\ msg' \in [Ids -> Row] /\ incorporated[i] = 1
        /\ msg[i].state \in {"delivered", "acknowledged"}
        /\ msg'[i].state = "acknowledged" /\ msg'[i].entry = msg[i].entry
        /\ msg'[i].from = msg[i].from /\ msg'[i].to = msg[i].to
        /\ \A j \in Ids : j # i => msg'[j] = msg[j]
    <3>1. "acknowledged" \in States
      BY DEF States
    <3>2. msg'[i] = [msg[i] EXCEPT !.state = "acknowledged"]
      BY <1>2
    <3>3. msg'[i] \in Row
      BY <3>1, <3>2, RowWithState
    <3>7. \A j \in Ids : j # i => msg'[j] = msg[j]
      BY <1>2
    <3>4. incorporated[i] = 1
      BY DEF KnownOnce
    <3>5. msg' \in [Ids -> Row]
      BY <1>2, <3>3
    <3>6. /\ msg'[i].state = "acknowledged" /\ msg'[i].entry = msg[i].entry
          /\ msg'[i].from = msg[i].from /\ msg'[i].to = msg[i].to
      BY <3>1, <3>2, RowWithState
    <3> QED BY <1>2, <3>3, <3>4, <3>5, <3>6, <3>7 DEF Acknowledgeable
  <2>t. inFlight' \in [Sessions -> SUBSET Ids] /\ acks' \in [Sessions -> SUBSET Ids]
    BY <1>2
  <2> USE <1>w, <2>r, <2>t
  <2>1. TypeOK'
    OBVIOUS
  <2>2. RowsFit'
    BY DEF RowsFit
  <2>3. MemoryNeedsWorker'
    BY DEF MemoryNeedsWorker
  <2>4. HandedOut'
    <3>1. \A r \in Sessions : i \in queue[r] \/ <<"message", i>> \in frames[r] \/ i \in known[r] => msg[i].to = r
      BY DEF HandedOut
    <3>2. ASSUME NEW r \in Sessions, NEW j \in Ids
          PROVE  /\ <<"message", j>> \in frames'[r] \/ j \in queue'[r] =>
                      msg'[j].to = r /\ msg'[j].state \in {"delivered", "acknowledged"}
                 /\ j \in known'[r] => msg'[j].to = r
      <4>1. CASE j = i
        BY <3>1, <4>1 DEF HandedOut
      <4>2. CASE j # i
        BY <4>2 DEF HandedOut
      <4> QED BY <4>1, <4>2
    <3> QED BY <3>2 DEF HandedOut
  <2>5. KnownOnce'
    BY DEF KnownOnce
  <2>6. ReportsFollowEntries'
    BY DEF ReportsFollowEntries
  <2>7. AcknowledgedOnlyIncorporated'
    BY DEF AcknowledgedOnlyIncorporated
  <2>8. JournaledBeforeQueued'
    BY DEF JournaledBeforeQueued, Pending, Ids
  <2>9. NoPendingToDeleted'
    BY DEF NoPendingToDeleted, Terminal
  <2> QED BY <2>1, <2>2, <2>3, <2>4, <2>5, <2>6, <2>7, <2>8, <2>9
<1> QED BY <1>1, <1>2

\* Register keeps the invariant.
LEMMA RegisterStep ==
  ASSUME IInv, NEW s \in Sessions, Register(s)
  PROVE  IInv'
<1> USE DEF IInv, TypeOK, Register, NewInFlight, store, transcripts, owners
<1>f. \A r \in Sessions, j \in Ids :
        <<"message", j>> \in frames'[r] => <<"message", j>> \in frames[r]
  OBVIOUS
<1>1. TypeOK'
  <2>1. conn' \in [Sessions -> 0..MaxGen]
    OBVIOUS
  <2>2. inFlight' \in [Sessions -> SUBSET Ids]
    OBVIOUS
  <2>3. sweep' \subseteq Sessions
    OBVIOUS
  <2>4. wire' \in [Sessions -> SUBSET Requests]
    OBVIOUS
  <2>5. frames' \in [Sessions -> SUBSET Frames]
    BY DEF Frames, Awaiting
  <2> QED BY <2>1, <2>2, <2>3, <2>4, <2>5
<1>2. MemoryNeedsWorker'
  BY DEF MemoryNeedsWorker
<1>3. HandedOut'
  BY <1>f DEF HandedOut
<1>4. KnownOnce'
  BY DEF KnownOnce
<1>5. ReportsFollowEntries'
  BY DEF ReportsFollowEntries
<1>6. /\ RowsFit' /\ AcknowledgedOnlyIncorporated' /\ JournaledBeforeQueued'
      /\ NoPendingToDeleted'
  BY DEF RowsFit, AcknowledgedOnlyIncorporated, JournaledBeforeQueued, NoPendingToDeleted
<1> QED BY <1>1, <1>2, <1>3, <1>4, <1>5, <1>6

\* Disconnect keeps the invariant.
LEMMA DisconnectStep ==
  ASSUME IInv, NEW s \in Sessions, Disconnect(s)
  PROVE  IInv'
<1> USE DEF IInv, TypeOK, Disconnect, store, transcripts, owners, turns
<1>f. \A r \in Sessions, j \in Ids :
        <<"message", j>> \in frames'[r] => <<"message", j>> \in frames[r]
  OBVIOUS
<1>1. TypeOK'
  <2>1. conn' \in [Sessions -> 0..MaxGen]
    BY BoundsAssumption
  <2>2. wire' \in [Sessions -> SUBSET Requests]
    OBVIOUS
  <2>3. frames' \in [Sessions -> SUBSET Frames]
    OBVIOUS
  <2>4. troubles' \in 0..MaxTroubles
    BY BoundsAssumption DEF Trouble
  <2> QED BY <2>1, <2>2, <2>3, <2>4
<1>2. MemoryNeedsWorker'
  BY DEF MemoryNeedsWorker
<1>3. HandedOut'
  BY <1>f DEF HandedOut
<1>4. KnownOnce'
  BY DEF KnownOnce
<1>5. ReportsFollowEntries'
  BY DEF ReportsFollowEntries
<1>6. /\ RowsFit' /\ AcknowledgedOnlyIncorporated' /\ JournaledBeforeQueued'
      /\ NoPendingToDeleted'
  BY DEF RowsFit, AcknowledgedOnlyIncorporated, JournaledBeforeQueued, NoPendingToDeleted
<1> QED BY <1>1, <1>2, <1>3, <1>4, <1>5, <1>6

\* A launched worker knows what its transcript holds before it handles a frame.
LEMMA LaunchStep ==
  ASSUME IInv, NEW s \in Sessions, Launch(s)
  PROVE  IInv'
<1> USE DEF IInv, TypeOK, Launch, store, transcripts, links, turns
<1>1. TypeOK'
  <2>1. worker' \in [Sessions -> 0..MaxGen]
    OBVIOUS
  <2>2. known' \in [Sessions -> SUBSET Ids]
    BY DEF DeliveredIds
  <2> QED BY <2>1, <2>2
<1>2. MemoryNeedsWorker'
  BY DEF MemoryNeedsWorker
<1>3. HandedOut'
  BY DEF HandedOut, DeliveredIds
<1>4. KnownOnce'
  BY DEF KnownOnce, MemoryNeedsWorker, DeliveredIds, Persisted
<1>5. /\ RowsFit' /\ ReportsFollowEntries' /\ AcknowledgedOnlyIncorporated'
      /\ JournaledBeforeQueued' /\ NoPendingToDeleted'
  BY DEF RowsFit, ReportsFollowEntries, AcknowledgedOnlyIncorporated, JournaledBeforeQueued,
     NoPendingToDeleted
<1> QED BY <1>1, <1>2, <1>3, <1>4, <1>5

\* LaunchFails keeps the invariant.
LEMMA LaunchFailsStep ==
  ASSUME IInv, NEW s \in Sessions, LaunchFails(s)
  PROVE  IInv'
<1> USE DEF IInv, TypeOK, LaunchFails, transcripts, routing, actor, owners, links, turns
<1>1. TypeOK'
  <2>1. life' \in [Sessions -> Lifecycles]
    BY DEF Lifecycles
  <2>2. troubles' \in 0..MaxTroubles
    BY BoundsAssumption DEF Trouble
  <2> QED BY <2>1, <2>2
<1>2. MemoryNeedsWorker'
  BY DEF MemoryNeedsWorker
<1>3. NoPendingToDeleted'
  BY DEF NoPendingToDeleted
<1>4. /\ RowsFit' /\ HandedOut' /\ KnownOnce' /\ ReportsFollowEntries'
      /\ AcknowledgedOnlyIncorporated' /\ JournaledBeforeQueued'
  BY DEF RowsFit, HandedOut, KnownOnce, ReportsFollowEntries, AcknowledgedOnlyIncorporated,
     JournaledBeforeQueued
<1> QED BY <1>1, <1>2, <1>3, <1>4

\* BecomeResident keeps the invariant.
LEMMA BecomeResidentStep ==
  ASSUME IInv, NEW s \in Sessions, BecomeResident(s)
  PROVE  IInv'
<1> USE DEF IInv, TypeOK, BecomeResident, transcripts, owners, links, actor
<1>1. TypeOK'
  <2>1. life' \in [Sessions -> Lifecycles]
    BY DEF Lifecycles
  <2>2. sweep' \subseteq Sessions
    BY DEF RetryQueued
  <2>3. kicks' \subseteq Ids
    BY DEF RetryQueued, PendingTo
  <2> QED BY <2>1, <2>2, <2>3
<1>2. RowsFit'
  BY DEF RowsFit, RetryQueued
<1>3. MemoryNeedsWorker'
  BY DEF MemoryNeedsWorker
<1>4. NoPendingToDeleted'
  BY DEF NoPendingToDeleted
<1>5. /\ HandedOut' /\ KnownOnce' /\ ReportsFollowEntries' /\ AcknowledgedOnlyIncorporated'
      /\ JournaledBeforeQueued'
  BY DEF HandedOut, KnownOnce, ReportsFollowEntries, AcknowledgedOnlyIncorporated,
     JournaledBeforeQueued
<1> QED BY <1>1, <1>2, <1>3, <1>4, <1>5

\* Passivate keeps the invariant.
LEMMA PassivateStep ==
  ASSUME IInv, NEW s \in Sessions, Passivate(s)
  PROVE  IInv'
<1> USE DEF IInv, TypeOK, Passivate, store, transcripts, links, turns, actor
<1>1. TypeOK'
  <2>1. closing' \in [Sessions -> {"none", "passivated", "stopped"}]
    OBVIOUS
  <2>2. troubles' \in 0..MaxTroubles
    BY BoundsAssumption DEF Trouble
  <2> QED BY <2>1, <2>2
<1>2. /\ RowsFit' /\ MemoryNeedsWorker' /\ HandedOut' /\ KnownOnce'
      /\ ReportsFollowEntries' /\ AcknowledgedOnlyIncorporated'
      /\ JournaledBeforeQueued' /\ NoPendingToDeleted'
  BY DEF RowsFit, MemoryNeedsWorker, HandedOut, KnownOnce, ReportsFollowEntries,
     AcknowledgedOnlyIncorporated, JournaledBeforeQueued, NoPendingToDeleted
<1> QED BY <1>1, <1>2

\* Stop keeps the invariant.
LEMMA StopStep ==
  ASSUME IInv, NEW s \in Sessions, Stop(s)
  PROVE  IInv'
<1> USE DEF IInv, TypeOK, Stop, transcripts, links, turns, actor
<1>1. TypeOK'
  <2>1. life' \in [Sessions -> Lifecycles]
    BY DEF Lifecycles
  <2>2. closing' \in [Sessions -> {"none", "passivated", "stopped"}]
    OBVIOUS
  <2>3. troubles' \in 0..MaxTroubles
    BY BoundsAssumption DEF Trouble
  <2> QED BY <2>1, <2>2, <2>3
<1>2. MemoryNeedsWorker'
  BY DEF MemoryNeedsWorker
<1>3. NoPendingToDeleted'
  BY DEF NoPendingToDeleted, RowsFit
<1>4. /\ RowsFit' /\ HandedOut' /\ KnownOnce' /\ ReportsFollowEntries'
      /\ AcknowledgedOnlyIncorporated' /\ JournaledBeforeQueued'
  BY DEF RowsFit, HandedOut, KnownOnce, ReportsFollowEntries, AcknowledgedOnlyIncorporated,
     JournaledBeforeQueued
<1> QED BY <1>1, <1>2, <1>3, <1>4

\* ReviveSession keeps the invariant.
LEMMA ReviveSessionStep ==
  ASSUME IInv, NEW s \in Sessions, ReviveSession(s)
  PROVE  IInv'
<1> USE DEF IInv, TypeOK, ReviveSession, transcripts, routing, actor, owners, links, turns
<1>1. TypeOK'
  <2>1. life' \in [Sessions -> Lifecycles]
    BY DEF Lifecycles, Revive
  <2>2. gen' \in [Sessions -> 1..MaxGen]
    BY BoundsAssumption DEF Startable, Revive
  <2> QED BY <2>1, <2>2
<1>2. MemoryNeedsWorker'
  BY DEF MemoryNeedsWorker, Revive
<1>3. NoPendingToDeleted'
  BY DEF NoPendingToDeleted, Revive
<1>4. /\ RowsFit' /\ HandedOut' /\ KnownOnce' /\ ReportsFollowEntries'
      /\ AcknowledgedOnlyIncorporated' /\ JournaledBeforeQueued'
  BY DEF RowsFit, HandedOut, KnownOnce, ReportsFollowEntries, AcknowledgedOnlyIncorporated,
     JournaledBeforeQueued
<1> QED BY <1>1, <1>2, <1>3, <1>4

\* A worker's exit: its memory goes, and with an error comes at most one receipt.
LEMMA WorkerExitStep ==
  ASSUME IInv, NEW s \in Sessions, WorkerExit(s)
  PROVE  IInv'
<1>0. /\ worker[s] \in 1..MaxGen /\ life[s] # "deleted"
      /\ closing[s] \in {"none", "passivated", "stopped"}
  BY BoundsAssumption DEF IInv, TypeOK, MemoryNeedsWorker, WorkerExit
<1>1. /\ worker' = [worker EXCEPT ![s] = 0] /\ closing' = [closing EXCEPT ![s] = "none"]
      /\ frames' = [frames EXCEPT ![s] = {}] /\ known' = [known EXCEPT ![s] = {}]
      /\ acks' = [acks EXCEPT ![s] = {}] /\ queue' = [queue EXCEPT ![s] = {}]
      /\ UNCHANGED <<journal, incorporated, conn, inFlight, gen, deletions, sweep, waits, wire>>
  BY DEF WorkerExit, transcripts, links
<1>2. /\ life' \in [Sessions -> Lifecycles]
      /\ \A r \in Sessions : life'[r] = "deleted" => life[r] = "deleted"
  <2>1. \E end \in {"error", "passivated", "stopped"} : life' = [life EXCEPT ![s] = end]
    BY <1>0 DEF WorkerExit
  <2> QED BY <2>1 DEF IInv, TypeOK, Lifecycles
<1>3. troubles' \in 0..MaxTroubles
  BY BoundsAssumption DEF IInv, TypeOK, WorkerExit, Trouble
<1>r. /\ msg' \in [Ids -> Row]
      /\ \A j \in Ids :
           \/ msg'[j] = msg[j]
           \/ /\ msg[j].state = "none" /\ j \in Receipts
              /\ msg'[j].state = "queued" /\ msg'[j].attempts = 0
              /\ msg'[j].from \in Sessions /\ msg'[j].to \in Sessions
              /\ life[msg'[j].to] # "deleted"
  <2>1. CASE msg' = msg
    BY <2>1 DEF IInv, TypeOK
  <2>2. CASE msg' = WithReceipt(s, worker[s])
    <3>1. "queued" \in States
      BY DEF States
    <3> QED BY <1>0, <2>2, <3>1, WithReceiptFacts, NewRowFields DEF IInv
  <2> QED BY <2>1, <2>2 DEF WorkerExit
<1>4. kicks' \subseteq Ids /\ \A j \in kicks' : j \in kicks \/ msg'[j].state \in Pending
  BY DEF IInv, TypeOK, WorkerExit, RetryableReceipts, Ids
<1> USE <1>0, <1>1, <1>2, <1>3, <1>4, <1>r DEF IInv, TypeOK
<1>5. TypeOK'
  <2>1. worker' \in [Sessions -> 0..MaxGen]
    BY BoundsAssumption
  <2>2. /\ frames' \in [Sessions -> SUBSET Frames] /\ known' \in [Sessions -> SUBSET Ids]
        /\ acks' \in [Sessions -> SUBSET Ids] /\ queue' \in [Sessions -> SUBSET Ids]
    OBVIOUS
  <2>3. closing' \in [Sessions -> {"none", "passivated", "stopped"}]
    OBVIOUS
  <2> QED BY <2>1, <2>2, <2>3
<1>6. RowsFit'
  BY DEF RowsFit, Pending
<1>7. MemoryNeedsWorker'
  BY DEF MemoryNeedsWorker
<1>8. HandedOut'
  <2> SUFFICES ASSUME NEW r \in Sessions, NEW j \in Ids
               PROVE  /\ <<"message", j>> \in frames'[r] \/ j \in queue'[r] =>
                           msg'[j].to = r /\ msg'[j].state \in {"delivered", "acknowledged"}
                      /\ j \in known'[r] => msg'[j].to = r
    BY DEF HandedOut
  <2>1. /\ <<"message", j>> \in frames'[r] => <<"message", j>> \in frames[r]
        /\ j \in queue'[r] => j \in queue[r]
        /\ j \in known'[r] => j \in known[r]
    OBVIOUS
  <2>2. <<"message", j>> \in frames[r] \/ j \in queue[r] =>
          msg[j].to = r /\ msg[j].state \in {"delivered", "acknowledged"}
    BY DEF HandedOut
  <2>3. j \in known[r] => msg[j].to = r
    BY DEF HandedOut
  <2>4. msg[j].to = r => msg'[j] = msg[j]
    BY SessionsAssumption DEF RowsFit
  <2> QED BY <2>1, <2>2, <2>3, <2>4
<1>9. KnownOnce'
  <2>1. \A j \in Ids : incorporated[j] = 1 => msg'[j] = msg[j]
    BY DEF RowsFit
  <2> QED BY <2>1 DEF KnownOnce
<1>10. ReportsFollowEntries'
  BY DEF ReportsFollowEntries
<1>11. AcknowledgedOnlyIncorporated'
  BY DEF AcknowledgedOnlyIncorporated
<1>12. JournaledBeforeQueued'
  BY IdsAssumption DEF JournaledBeforeQueued, Ids
<1>13. NoPendingToDeleted'
  <2> SUFFICES ASSUME NEW j \in Ids, msg'[j].state # "none"
               PROVE  /\ life'[msg'[j].to] = "deleted" => msg'[j].state \in Terminal
                      /\ life'[msg'[j].from] = "deleted" => msg'[j].state # "accepted"
    BY DEF NoPendingToDeleted
  <2>1. CASE msg'[j] = msg[j]
    BY <2>1 DEF NoPendingToDeleted, RowsFit
  <2>2. CASE msg'[j] # msg[j]
    BY <2>2
  <2> QED BY <2>1, <2>2
<1> QED BY <1>5, <1>6, <1>7, <1>8, <1>9, <1>10, <1>11, <1>12, <1>13

\* BeginDelete keeps the invariant.
LEMMA BeginDeleteStep ==
  ASSUME IInv, NEW s \in Sessions, BeginDelete(s)
  PROVE  IInv'
<1> USE DEF IInv, TypeOK, BeginDelete, transcripts, links, turns, actor
<1>1. TypeOK'
  <2>1. life' \in [Sessions -> Lifecycles]
    BY DEF Lifecycles
  <2>2. deletions' \subseteq Sessions
    OBVIOUS
  <2>3. closing' \in [Sessions -> {"none", "passivated", "stopped"}]
    OBVIOUS
  <2>4. troubles' \in 0..MaxTroubles
    BY BoundsAssumption DEF Trouble
  <2> QED BY <2>1, <2>2, <2>3, <2>4
<1>2. MemoryNeedsWorker'
  BY DEF MemoryNeedsWorker
<1>3. NoPendingToDeleted'
  BY DEF NoPendingToDeleted, RowsFit
<1>4. /\ RowsFit' /\ HandedOut' /\ KnownOnce' /\ ReportsFollowEntries'
      /\ AcknowledgedOnlyIncorporated' /\ JournaledBeforeQueued'
  BY DEF RowsFit, HandedOut, KnownOnce, ReportsFollowEntries, AcknowledgedOnlyIncorporated,
     JournaledBeforeQueued
<1> QED BY <1>1, <1>2, <1>3, <1>4

\* A deletion commits when no worker of the subtree runs.
LEMMA CommitDeleteStep ==
  ASSUME IInv, NEW s \in Sessions, CommitDelete(s)
  PROVE  IInv'
<1> DEFINE D == Subtree[s]
<1>1. D \in SUBSET Sessions
  BY DEF Subtree
<1>2. /\ msg' = Terminalize(D) /\ \A r \in D : worker[r] = 0
      /\ life' = [r \in Sessions |-> IF r \in D THEN "deleted" ELSE life[r]]
      /\ deletions' \subseteq deletions
      /\ UNCHANGED <<journal, incorporated, conn, inFlight, sweep, kicks, waits, frames, known,
                     acks, queue, gen, worker, closing, wire, troubles>>
  BY DEF CommitDelete, transcripts, links, turns, actor
<1> HIDE DEF D
<1>r. /\ msg' \in [Ids -> Row]
      /\ \A j \in Ids :
           /\ msg'[j].from = msg[j].from /\ msg'[j].to = msg[j].to
           /\ msg'[j].entry = msg[j].entry
           /\ \/ /\ \/ msg[j].to \in D /\ msg[j].state \in {"accepted", "queued", "delivered"}
                    \/ msg[j].from \in D /\ msg[j].state = "accepted"
                 /\ msg'[j].state = "rejected"
              \/ /\ msg[j].to \in D => msg[j].state \notin {"accepted", "queued", "delivered"}
                 /\ msg[j].from \in D => msg[j].state # "accepted"
                 /\ msg'[j] = msg[j]
  BY <1>1, <1>2, TerminalizeFacts DEF IInv
<1> USE <1>1, <1>2, <1>r DEF IInv
<1>3. TypeOK'
  BY DEF TypeOK, Lifecycles
<1>4. RowsFit'
  BY DEF RowsFit
<1>5. MemoryNeedsWorker'
  BY DEF MemoryNeedsWorker
<1>6. HandedOut'
  <2>1. \A r \in Sessions, j \in Ids :
          <<"message", j>> \in frames[r] \/ j \in queue[r] => msg'[j] = msg[j]
    <3>1. \A r \in D : frames[r] = {} /\ queue[r] = {}
      BY DEF MemoryNeedsWorker
    <3> QED BY <3>1 DEF HandedOut
  <2> QED BY <2>1 DEF HandedOut
<1>7. KnownOnce'
  BY DEF KnownOnce
<1>8. ReportsFollowEntries'
  BY DEF ReportsFollowEntries
<1>9. AcknowledgedOnlyIncorporated'
  BY DEF AcknowledgedOnlyIncorporated
<1>10. JournaledBeforeQueued'
  BY DEF JournaledBeforeQueued, Pending, Ids
<1>11. NoPendingToDeleted'
  <2> SUFFICES ASSUME NEW j \in Ids, msg'[j].state # "none"
               PROVE  /\ life'[msg'[j].to] = "deleted" => msg'[j].state \in Terminal
                      /\ life'[msg'[j].from] = "deleted" => msg'[j].state # "accepted"
    BY DEF NoPendingToDeleted
  <2>1. CASE msg'[j].state = "rejected"
    BY <2>1 DEF Terminal
  <2>2. CASE msg'[j] = msg[j]
    <3>1. /\ msg[j].to \in Sessions /\ msg[j].from \in Sessions
          /\ msg[j].state \in States \ {"none"}
      BY <2>2 DEF RowsFit, TypeOK, Row
    <3>2. \A r \in Sessions : life'[r] = "deleted" => r \in D \/ life[r] = "deleted"
      OBVIOUS
    <3> QED BY <2>2, <3>1, <3>2 DEF NoPendingToDeleted, Terminal, States
  <2> QED BY <2>1, <2>2
<1> QED BY <1>3, <1>4, <1>5, <1>6, <1>7, <1>8, <1>9, <1>10, <1>11

\* AbandonDelete keeps the invariant.
LEMMA AbandonDeleteStep ==
  ASSUME IInv, NEW s \in Sessions, AbandonDelete(s)
  PROVE  IInv'
<1> USE DEF IInv, TypeOK, AbandonDelete, store, transcripts, links, turns, actor
<1>1. TypeOK'
  <2>1. deletions' \subseteq Sessions
    OBVIOUS
  <2> QED BY <2>1
<1>2. /\ RowsFit' /\ MemoryNeedsWorker' /\ HandedOut' /\ KnownOnce'
      /\ ReportsFollowEntries' /\ AcknowledgedOnlyIncorporated'
      /\ JournaledBeforeQueued' /\ NoPendingToDeleted'
  BY DEF RowsFit, MemoryNeedsWorker, HandedOut, KnownOnce, ReportsFollowEntries,
     AcknowledgedOnlyIncorporated, JournaledBeforeQueued, NoPendingToDeleted
<1> QED BY <1>1, <1>2

\* start(): no worker's memory survives it.
LEMMA StartDaemonStep ==
  ASSUME IInv, NEW lives \in [Sessions -> Lifecycles], StartDaemon(lives),
         \A s \in Sessions : lives[s] = "deleted" => life[s] = "deleted"
  PROVE  IInv'
<1> USE DEF IInv, TypeOK, StartDaemon, transcripts
<1>1. TypeOK'
  <2>1. life' \in [Sessions -> Lifecycles]
    BY DEF Lifecycles
  <2>2. gen' \in [Sessions -> 1..MaxGen]
    BY BoundsAssumption
  <2>3. deletions' \subseteq Sessions
    OBVIOUS
  <2>4. worker' \in [Sessions -> 0..MaxGen]
    BY BoundsAssumption
  <2>5. closing' \in [Sessions -> {"none", "passivated", "stopped"}]
    OBVIOUS
  <2>6. conn' \in [Sessions -> 0..MaxGen]
    BY BoundsAssumption
  <2>7. inFlight' \in [Sessions -> SUBSET Ids]
    OBVIOUS
  <2>8. sweep' \subseteq Sessions
    OBVIOUS
  <2>9. kicks' \subseteq Ids
    BY DEF Ids, RetryableReceipts
  <2>10. waits' \subseteq Ids
    OBVIOUS
  <2>11. wire' \in [Sessions -> SUBSET Requests]
    OBVIOUS
  <2>12. frames' \in [Sessions -> SUBSET Frames]
    OBVIOUS
  <2>13. known' \in [Sessions -> SUBSET Ids]
    OBVIOUS
  <2>14. acks' \in [Sessions -> SUBSET Ids]
    OBVIOUS
  <2>15. queue' \in [Sessions -> SUBSET Ids]
    OBVIOUS
  <2>16. troubles' \in 0..MaxTroubles
    BY BoundsAssumption DEF Trouble
  <2> QED BY <2>1, <2>2, <2>3, <2>4, <2>5, <2>6, <2>7, <2>8, <2>9, <2>10, <2>11, <2>12, <2>13,
     <2>14, <2>15, <2>16
<1>2. RowsFit'
  BY DEF RowsFit, RetryableReceipts, Pending
<1>3. MemoryNeedsWorker'
  BY DEF MemoryNeedsWorker
<1>4. HandedOut'
  BY DEF HandedOut
<1>5. KnownOnce'
  BY DEF KnownOnce
<1>6. ReportsFollowEntries'
  BY DEF ReportsFollowEntries
<1>7. NoPendingToDeleted'
  <2>1. \A r \in Sessions : life'[r] = "deleted" => life[r] = "deleted"
    OBVIOUS
  <2> QED BY <2>1 DEF NoPendingToDeleted, RowsFit, Terminal
<1>8. AcknowledgedOnlyIncorporated' /\ JournaledBeforeQueued'
  BY DEF AcknowledgedOnlyIncorporated, JournaledBeforeQueued
<1> QED BY <1>1, <1>2, <1>3, <1>4, <1>5, <1>6, <1>7, <1>8

-----------------------------------------------------------------------------
(* The theorems. *)

\* Either restart: what stop() leaves behind is what a crash does, except for the
\* lifecycle it had time to write.
LEMMA RestartStep ==
  ASSUME IInv, Crash \/ StopAndStart
  PROVE  IInv'
<1>1. CASE Crash
  BY <1>1, StartDaemonStep DEF Crash, IInv, TypeOK
<1>2. CASE StopAndStart
  <2> DEFINE lives == [s \in Sessions |-> IF worker[s] # 0 THEN "passivated" ELSE life[s]]
  <2>1. lives \in [Sessions -> Lifecycles]
    BY DEF IInv, TypeOK, Lifecycles
  <2>2. \A s \in Sessions : lives[s] = "deleted" => life[s] = "deleted"
    OBVIOUS
  <2>3. StartDaemon(lives)
    BY <1>2 DEF StopAndStart
  <2> HIDE DEF lives
  <2> QED BY <2>1, <2>2, <2>3, StartDaemonStep
<1> QED BY <1>1, <1>2

\* The database of a family whose sessions start idle, with no message.
LEMMA InitInv == Init => IInv
<1> SUFFICES ASSUME Init PROVE IInv
  OBVIOUS
<1>1. NoRow \in Row /\ NoRow.state = "none" /\ NoRow.to = NoSession /\ NoRow.from = NoSession
      /\ NoRow.attempts = 0
  BY BoundsAssumption DEF NoRow, NewRow, Row, States
<1> USE <1>1 DEF Init
<1>2. TypeOK
  BY BoundsAssumption DEF TypeOK, Lifecycles
<1>3. RowsFit /\ MemoryNeedsWorker /\ HandedOut /\ KnownOnce /\ ReportsFollowEntries
  BY DEF RowsFit, MemoryNeedsWorker, HandedOut, KnownOnce, ReportsFollowEntries
<1>4. AcknowledgedOnlyIncorporated /\ JournaledBeforeQueued /\ NoPendingToDeleted
  BY DEF AcknowledgedOnlyIncorporated, JournaledBeforeQueued, NoPendingToDeleted, Pending, Ids
<1> QED BY <1>2, <1>3, <1>4 DEF IInv

\* One case per action; stuttering changes nothing.
LEMMA NextStep ==
  ASSUME IInv, [Next]_vars
  PROVE  IInv'
<1>1. CASE UNCHANGED vars
  BY <1>1 DEF vars, IInv, TypeOK, RowsFit, MemoryNeedsWorker, HandedOut, KnownOnce,
     ReportsFollowEntries, AcknowledgedOnlyIncorporated, JournaledBeforeQueued,
     NoPendingToDeleted
<1>2. ASSUME NEW s \in Sessions, NEW i \in Ids,
             \/ JournalOutgoing(s, i) \/ RecordSenderEntry(s, i)
             \/ ReceiveMessage(s, i) \/ CommitMessage(s, i) \/ AckMessage(s, i)
      PROVE  IInv'
  BY <1>2, JournalOutgoingStep, RecordSenderEntryStep, ReceiveMessageStep, CommitMessageStep,
     AckMessageStep
<1>3. ASSUME NEW i \in Ids,
             \/ KickBegin(i) \/ KickRetire(i) \/ KickRestart(i)
             \/ KickDeliver(i) \/ KickAbandon(i)
      PROVE  IInv'
  BY <1>3, KickBeginStep, KickRetireStep, KickRestartStep, KickDeliverStep, KickAbandonStep
<1>4. ASSUME NEW s \in Sessions,
             \/ DeliverPending(s) \/ RunSettled(s) \/ FlushAcknowledgements(s)
             \/ Register(s) \/ Disconnect(s)
      PROVE  IInv'
  BY <1>4, DeliverPendingStep, RunSettledStep, FlushAcknowledgementsStep, RegisterStep,
     DisconnectStep
<1>5. ASSUME NEW s \in Sessions,
             \/ Launch(s) \/ LaunchFails(s) \/ BecomeResident(s) \/ Passivate(s) \/ Stop(s)
             \/ ReviveSession(s) \/ WorkerExit(s)
      PROVE  IInv'
  BY <1>5, LaunchStep, LaunchFailsStep, BecomeResidentStep, PassivateStep, StopStep,
     ReviveSessionStep, WorkerExitStep
<1>6. ASSUME NEW s \in Sessions, BeginDelete(s) \/ CommitDelete(s) \/ AbandonDelete(s)
      PROVE  IInv'
  BY <1>6, BeginDeleteStep, CommitDeleteStep, AbandonDeleteStep
<1> QED BY <1>1, <1>2, <1>3, <1>4, <1>5, <1>6, SendMessageStep, RetryReceiptsStep,
           RestartStep DEF Next

\* The strengthening of all the safety properties below is inductive.
THEOREM Invariant == Spec => []IInv
<1>1. IInv /\ [Next]_vars => IInv'
  BY NextStep
<1> QED BY <1>1, InitInv, PTL DEF Spec

\* Every table column, count and piece of routing state keeps its type, and no message
\* uses more attempts than markMessageDelivered allows, in every family.
THEOREM TypeCorrect == Spec => []TypeOK
  BY Invariant, PTL DEF IInv

\* No message enters a transcript twice, whatever is redelivered, retried or restarted.
THEOREM AtMostOnce == Spec => []IncorporatedAtMostOnce
<1>1. IInv => IncorporatedAtMostOnce
  <2>1. IInv => \A i \in Ids : incorporated[i] \in {0, 1}
    BY DEF IInv, KnownOnce
  <2>2. \A n \in {0, 1} : n <= 1
    OBVIOUS
  <2> QED BY <2>1, <2>2 DEF IncorporatedAtMostOnce
<1> QED BY <1>1, Invariant, PTL

\* acknowledgeMessage finishes nothing the recipient's transcript lacks.
THEOREM NothingAcknowledgedLost == Spec => []AcknowledgedOnlyIncorporated
  BY Invariant, PTL DEF IInv

\* Nothing is deliverable before its sender's transcript holds its one entry.
THEOREM JournalFirst == Spec => []JournaledBeforeQueued
  BY Invariant, PTL DEF IInv

\* No deletion, however it interleaves with sends, leaves an undeliverable message.
THEOREM DeletionsLeaveNothing == Spec => []NoPendingToDeleted
  BY Invariant, PTL DEF IInv

-----------------------------------------------------------------------------
(* Every step is one of six kinds: the steps of the abstract mailbox.       *)

SameLives == \A s \in Sessions : life'[s] = "deleted" <=> life[s] = "deleted"
SameEnds == \A j \in Ids : msg'[j].from = msg[j].from /\ msg'[j].to = msg[j].to
OnlyRow(i) == msg' \in [Ids -> Row] /\ \A j \in Ids : j # i => msg'[j] = msg[j]

\* Neither a phase, nor a transcript, nor the set of deleted sessions changes.
Routes ==
  /\ UNCHANGED incorporated /\ SameLives /\ SameEnds
  /\ \A j \in Ids : \/ msg'[j].state = msg[j].state
                    \/ msg[j].state = "queued" /\ msg'[j].state = "delivered"

Accepts(i) ==
  /\ UNCHANGED incorporated /\ SameLives /\ OnlyRow(i)
  /\ msg[i].state = "none"
  /\ msg'[i].state = IF i \in Messages THEN "accepted" ELSE "queued"
  /\ \A e \in {msg'[i].from, msg'[i].to} : e \in Sessions /\ life[e] # "deleted"

Owes(i) ==
  /\ UNCHANGED incorporated /\ SameLives /\ SameEnds /\ OnlyRow(i)
  /\ msg[i].state = "accepted" /\ msg'[i].state = "queued"

Enters(i) ==
  /\ UNCHANGED msg /\ SameLives
  /\ msg[i].state = "delivered" /\ incorporated[i] = 0
  /\ incorporated' = [incorporated EXCEPT ![i] = 1]

Finishes(i) ==
  /\ UNCHANGED incorporated /\ SameLives /\ SameEnds /\ OnlyRow(i)
  /\ msg[i].state \in {"delivered", "acknowledged"} /\ msg'[i].state = "acknowledged"
  /\ incorporated[i] = 1

Deletes(D) ==
  /\ UNCHANGED incorporated
  /\ \A s \in Sessions : life'[s] = "deleted" <=> s \in D \/ life[s] = "deleted"
  /\ SameEnds
  /\ \A j \in Ids :
       \/ /\ \/ msg[j].to \in D /\ msg[j].state \in {"accepted", "queued", "delivered"}
             \/ msg[j].from \in D /\ msg[j].state = "accepted"
          /\ msg'[j].state = "rejected"
       \/ /\ msg[j].to \in D => msg[j].state \notin {"accepted", "queued", "delivered"}
          /\ msg[j].from \in D => msg[j].state # "accepted"
          /\ msg'[j] = msg[j]

KnownKind ==
  \/ Routes
  \/ \E i \in Ids : Accepts(i) \/ Owes(i) \/ Enters(i) \/ Finishes(i)
  \/ \E D \in SUBSET Sessions : Deletes(D)

\* Sending.
LEMMA SendMessageKind ==
  ASSUME IInv, NEW s \in Sessions, NEW t \in Sessions, NEW m \in Messages, SendMessage(s, t, m)
  PROVE  KnownKind
<1>1. "accepted" \in States /\ m \in Ids
  BY DEF States, Ids
<1>2. SentRow(s, t) \in Row /\ SentRow(s, t).state = "accepted"
      /\ SentRow(s, t).from = s /\ SentRow(s, t).to = t
  BY <1>1, NewRowFields DEF SentRow
<1>3. msg \in [Ids -> Row] /\ msg' = [msg EXCEPT ![m] = SentRow(s, t)]
      /\ UNCHANGED <<incorporated, life>> /\ msg[m].state = "none"
      /\ life[s] # "deleted" /\ life[t] # "deleted"
  BY DEF IInv, TypeOK, SendMessage, transcripts, Available
<1>4. Accepts(m)
  BY <1>1, <1>2, <1>3 DEF Accepts, SameLives, OnlyRow
<1> QED BY <1>1, <1>4 DEF KnownKind

\* Queueing.
LEMMA RecordSenderEntryKind ==
  ASSUME IInv, IInv', NEW s \in Sessions, NEW i \in Ids, RecordSenderEntry(s, i)
  PROVE  KnownKind
<1>1. UNCHANGED <<incorporated, life>>
  BY DEF RecordSenderEntry, transcripts
<1>2. CASE UNCHANGED msg
  BY <1>1, <1>2 DEF KnownKind, Routes, SameLives, SameEnds
<1>3. CASE msg[i].state = "accepted"
           /\ msg' = [msg EXCEPT ![i].entry = TRUE, ![i].state = "queued"]
  <2>1. msg \in [Ids -> Row] /\ msg' \in [Ids -> Row]
    BY DEF IInv, TypeOK
  <2>2. msg'[i] = [msg[i] EXCEPT !.entry = TRUE, !.state = "queued"]
        /\ \A j \in Ids : j # i => msg'[j] = msg[j]
    BY <1>3, <2>1
  <2>3. msg'[i].state = "queued" /\ msg'[i].from = msg[i].from /\ msg'[i].to = msg[i].to
    BY <2>1, <2>2 DEF Row
  <2>4. Owes(i)
    BY <1>1, <1>3, <2>1, <2>2, <2>3 DEF Owes, SameLives, SameEnds, OnlyRow
  <2> QED BY <2>4 DEF KnownKind
<1> QED BY <1>2, <1>3 DEF RecordSenderEntry

\* Delivering, one message or a backlog.
LEMMA DeliverKind ==
  ASSUME IInv, NEW s \in Sessions, NEW D \in SUBSET Ids, \A i \in D : msg[i].to = s,
         Deliver(s, D), UNCHANGED <<incorporated, life>>
  PROVE  KnownKind
<1>1. \A j \in Ids :
        /\ msg'[j].from = msg[j].from /\ msg'[j].to = msg[j].to
        /\ \/ msg'[j] = msg[j]
           \/ msg[j].state = "queued" /\ msg'[j].state = "delivered"
  BY DeliverFacts DEF IInv
<1> QED BY <1>1 DEF KnownKind, Routes, SameLives, SameEnds

\* The three callers of a delivery.
LEMMA DeliveryKind ==
  ASSUME IInv, (\E i \in Ids : KickDeliver(i)) \/ (\E s \in Sessions : DeliverPending(s))
  PROVE  KnownKind
<1>1. ASSUME NEW i \in Ids, KickDeliver(i) PROVE KnownKind
  <2>1. msg[i].to \in Sessions
    BY <1>1, SessionsAssumption DEF IInv, RowsFit, KickDeliver
  <2> QED BY <1>1, <2>1, DeliverKind DEF KickDeliver, transcripts
<1>2. ASSUME NEW s \in Sessions, DeliverPending(s) PROVE KnownKind
  BY <1>2, DeliverKind DEF DeliverPending, transcripts, PendingTo
<1> QED BY <1>1, <1>2

\* Entering the transcript.
LEMMA CommitMessageKind ==
  ASSUME IInv, NEW s \in Sessions, NEW i \in Ids, CommitMessage(s, i)
  PROVE  KnownKind
<1>1. incorporated[i] = 0 /\ msg[i].state \in {"delivered", "acknowledged"}
  BY DEF IInv, KnownOnce, HandedOut, CommitMessage
<1>2. msg[i].state = "delivered"
  BY <1>1 DEF IInv, AcknowledgedOnlyIncorporated
<1>3. incorporated' = [incorporated EXCEPT ![i] = 1] /\ UNCHANGED <<msg, life>>
  BY <1>1 DEF IInv, TypeOK, CommitMessage, store
<1>4. Enters(i)
  BY <1>1, <1>2, <1>3 DEF Enters, SameLives
<1> QED BY <1>4 DEF KnownKind

\* Acknowledging.
LEMMA AckMessageKind ==
  ASSUME IInv, IInv', NEW s \in Sessions, NEW i \in Ids, AckMessage(s, i)
  PROVE  KnownKind
<1>1. UNCHANGED <<incorporated, life>> /\ incorporated[i] = 1
  BY DEF IInv, KnownOnce, AckMessage, transcripts
<1>2. CASE UNCHANGED msg
  BY <1>1, <1>2 DEF KnownKind, Routes, SameLives, SameEnds
<1>3. CASE msg[i].state \in {"delivered", "acknowledged"}
           /\ msg' = [msg EXCEPT ![i].state = "acknowledged"]
  <2>1. msg \in [Ids -> Row] /\ msg' \in [Ids -> Row] /\ "acknowledged" \in States
    BY DEF IInv, TypeOK, States
  <2>2. msg'[i] = [msg[i] EXCEPT !.state = "acknowledged"]
        /\ \A j \in Ids : j # i => msg'[j] = msg[j]
    BY <1>3, <2>1
  <2>3. msg'[i].state = "acknowledged" /\ msg'[i].from = msg[i].from /\ msg'[i].to = msg[i].to
    BY <2>1, <2>2, RowWithState
  <2>4. Finishes(i)
    BY <1>1, <1>3, <2>1, <2>2, <2>3 DEF Finishes, SameLives, SameEnds, OnlyRow
  <2> QED BY <2>4 DEF KnownKind
<1> QED BY <1>2, <1>3 DEF AckMessage, Acknowledgeable

\* An exit: at most one receipt.
LEMMA WorkerExitKind ==
  ASSUME IInv, IInv', NEW s \in Sessions, WorkerExit(s)
  PROVE  KnownKind
<1>0. /\ worker[s] \in 1..MaxGen /\ life[s] # "deleted"
      /\ closing[s] \in {"none", "passivated", "stopped"}
  BY BoundsAssumption DEF IInv, TypeOK, MemoryNeedsWorker, WorkerExit
<1>1. UNCHANGED incorporated /\ SameLives
  <2>1. \E end \in {"error", "passivated", "stopped"} : life' = [life EXCEPT ![s] = end]
    BY <1>0 DEF WorkerExit
  <2> QED BY <1>0, <2>1 DEF IInv, TypeOK, SameLives, WorkerExit, transcripts
<1>2. CASE UNCHANGED msg
  BY <1>1, <1>2 DEF KnownKind, Routes, SameEnds
<1>3. CASE msg' = WithReceipt(s, worker[s]) /\ msg' # msg
  <2>1. msg \in [Ids -> Row] /\ msg' \in [Ids -> Row]
    BY DEF IInv, TypeOK
  <2>2. PICK j \in Ids : msg'[j] # msg[j]
    BY <1>3, <2>1
  <2>3. \A k \in Ids : k # <<s, worker[s]>> => msg'[k] = msg[k]
    BY <1>3, <2>1 DEF WithReceipt
  <2>4. j = <<s, worker[s]>> /\ OnlyRow(j)
    BY <2>1, <2>2, <2>3 DEF OnlyRow
  <2>5. /\ msg[j].state = "none" /\ j \in Receipts
        /\ \E p \in Sessions : life[p] # "deleted" /\ msg'[j] = NewRow("queued", s, p)
    BY <1>0, <1>3, <2>2, WithReceiptFacts DEF IInv
  <2>6. "queued" \in States
    BY DEF States
  <2>7. /\ msg'[j].state = "queued" /\ j \notin Messages
        /\ \A e \in {msg'[j].from, msg'[j].to} : e \in Sessions /\ life[e] # "deleted"
    BY <1>0, <2>5, <2>6, NewRowFields, IdsAssumption
  <2>8. Accepts(j)
    BY <1>1, <2>4, <2>5, <2>7 DEF Accepts
  <2> QED BY <2>8 DEF KnownKind
<1> QED BY <1>2, <1>3 DEF WorkerExit

\* A deletion's commit.
LEMMA CommitDeleteKind ==
  ASSUME IInv, NEW r \in Sessions, CommitDelete(r)
  PROVE  KnownKind
<1> DEFINE D == Subtree[r]
<1>1. D \in SUBSET Sessions
  BY DEF Subtree
<1>2. /\ msg' = Terminalize(D) /\ UNCHANGED incorporated
      /\ life' = [s \in Sessions |-> IF s \in D THEN "deleted" ELSE life[s]]
  BY DEF CommitDelete, transcripts
<1> HIDE DEF D
<1>3. Deletes(D)
  BY <1>1, <1>2, TerminalizeFacts DEF IInv, Deletes, SameEnds
<1> QED BY <1>1, <1>3 DEF KnownKind

\* The deletion fence and both restarts leave deleted sessions deleted and no other.
LEMMA RestartKind ==
  ASSUME IInv, (\E r \in Sessions : BeginDelete(r)) \/ Crash \/ StopAndStart
  PROVE  KnownKind
<1>1. UNCHANGED <<msg, incorporated>>
  BY DEF BeginDelete, Crash, StopAndStart, StartDaemon, transcripts
<1>2. SameLives
  BY DEF IInv, TypeOK, MemoryNeedsWorker, SameLives, BeginDelete, Crash, StopAndStart,
     StartDaemon
<1> QED BY <1>1, <1>2 DEF KnownKind, Routes, SameEnds

\* Every other action of a session, or of a delivery call.
LEMMA RoutingKind ==
  ASSUME IInv,
         \/ UNCHANGED vars \/ RetryReceipts
         \/ \E s \in Sessions, i \in Ids : JournalOutgoing(s, i) \/ ReceiveMessage(s, i)
         \/ \E i \in Ids : KickBegin(i) \/ KickRetire(i) \/ KickRestart(i) \/ KickAbandon(i)
         \/ \E s \in Sessions :
              \/ RunSettled(s) \/ FlushAcknowledgements(s) \/ Register(s) \/ Disconnect(s)
              \/ Launch(s) \/ LaunchFails(s) \/ BecomeResident(s) \/ Passivate(s) \/ Stop(s)
              \/ ReviveSession(s) \/ AbandonDelete(s)
  PROVE  KnownKind
<1>1. UNCHANGED <<msg, incorporated>>
  BY DEF vars, RetryReceipts, JournalOutgoing, ReceiveMessage, KickBegin, KickRetire,
     KickRestart,
     KickAbandon, RunSettled, FlushAcknowledgements, Register, Disconnect, Launch, LaunchFails,
     BecomeResident, Passivate, Stop, ReviveSession, AbandonDelete, store, transcripts
<1>2. UNCHANGED life
      \/ \E s, x : life' = [life EXCEPT ![s] = x] /\ life[s] # "deleted" /\ x # "deleted"
  BY DEF vars, RetryReceipts, JournalOutgoing, ReceiveMessage, KickBegin, KickRetire,
     KickRestart,
     KickAbandon, RunSettled, FlushAcknowledgements, Register, Disconnect, Launch, LaunchFails,
     BecomeResident, Passivate, Stop, ReviveSession, AbandonDelete, store, Startable, Revive,
     Available
<1>3. SameLives
  BY <1>2 DEF IInv, TypeOK, SameLives
<1> QED BY <1>1, <1>3 DEF KnownKind, Routes, SameEnds

\* Every step is of a known kind.
LEMMA StepKinds ==
  ASSUME IInv, IInv', [Next]_vars
  PROVE  KnownKind
BY SendMessageKind, RecordSenderEntryKind, DeliveryKind, CommitMessageKind, AckMessageKind,
   WorkerExitKind, CommitDeleteKind, RestartKind, RoutingKind DEF Next

\* No late acknowledgement, entry report or frame changes a finished message.
THEOREM FinishedStaysFinished == Spec => TerminalIsFinal
<1>1. IInv /\ IInv' /\ [Next]_vars =>
        [\A i \in Ids : msg[i].state \in Terminal =>
           msg'[i].state = msg[i].state /\ incorporated'[i] = incorporated[i]]_vars
  <2> SUFFICES ASSUME IInv, IInv', [Next]_vars, NEW i \in Ids, msg[i].state \in Terminal
               PROVE  msg'[i].state = msg[i].state /\ incorporated'[i] = incorporated[i]
    OBVIOUS
  <2>1. KnownKind
    BY StepKinds
  <2> QED BY <2>1 DEF KnownKind, Routes, Accepts, Owes, Enters, Finishes, Deletes, OnlyRow,
             Terminal, IInv, TypeOK
<1> QED BY <1>1, Invariant, PTL DEF Spec, TerminalIsFinal

-----------------------------------------------------------------------------
(* The refinement.                                                          *)

\* The phase of a row.

\* What the mapping makes of a row.
LEMMA PhaseOf ==
  ASSUME TypeOK, NEW i \in Ids
  PROVE  Phase(i) = IF msg[i].state = "none" THEN "unsent"
                    ELSE IF msg[i].state \in Pending THEN "owed"
                    ELSE IF msg[i].state = "acknowledged" THEN "done" ELSE msg[i].state
<1>1. msg[i].state \in States
  BY DEF TypeOK, Row
<1> QED BY <1>1 DEF Phase, Pending, States

\* The mapped variables.
phases == [i \in Ids |-> Phase(i)]
ends == [i \in Ids |-> <<msg[i].from, msg[i].to>>]
gone == {s \in Sessions : life[s] = "deleted"}

\* The initial states map to the abstract one.
LEMMA MailboxInit == IInv /\ Init => Mailbox!Init
<1> SUFFICES ASSUME IInv, Init PROVE Mailbox!Init
  OBVIOUS
<1>1. \A i \in Ids : msg[i].state = "none" /\ msg[i].from = NoSession /\ msg[i].to = NoSession
  BY DEF Init, NoRow, NewRow
<1>2. \A i \in Ids : Phase(i) = "unsent"
  BY <1>1, PhaseOf DEF IInv
<1>3. gone = {}
  BY DEF Init, gone
<1> QED BY <1>1, <1>2, <1>3 DEF Init, Mailbox!Init, Mailbox!Ids, Ids, gone

\* A step of each kind is an abstract step or a stutter.
LEMMA MailboxStep ==
  ASSUME IInv, IInv', [Next]_vars
  PROVE  [Mailbox!Next]_Mailbox!mailbox
<1>1. KnownKind
  BY StepKinds
<1>t. TypeOK /\ TypeOK' /\ msg \in [Ids -> Row] /\ incorporated \in [Ids -> Nat]
      /\ msg' \in [Ids -> Row]
  BY DEF IInv, TypeOK
<1>p. /\ \A i \in Ids : Phase(i) = IF msg[i].state = "none" THEN "unsent"
             ELSE IF msg[i].state \in Pending THEN "owed"
             ELSE IF msg[i].state = "acknowledged" THEN "done" ELSE msg[i].state
      /\ \A i \in Ids : Phase(i)' = IF msg'[i].state = "none" THEN "unsent"
             ELSE IF msg'[i].state \in Pending THEN "owed"
             ELSE IF msg'[i].state = "acknowledged" THEN "done" ELSE msg'[i].state
  <2>1. \A i \in Ids : msg'[i].state \in States
    BY <1>t DEF Row
  <2> QED BY <1>t, <2>1, PhaseOf DEF Phase, Pending, States
<1>s. \A i \in Ids : msg[i].state \in States
  BY <1>t DEF Row
<1>2. CASE Routes
  <2>1. \A i \in Ids : Phase(i)' = Phase(i)
    BY <1>2, <1>p DEF Routes, Pending
  <2>2. phases' = phases /\ ends' = ends /\ gone' = gone /\ incorporated' = incorporated
    BY <1>2, <2>1 DEF Routes, SameEnds, SameLives, phases, ends, gone
  <2> QED BY <2>2 DEF Mailbox!mailbox, phases, ends, gone
<1>3. ASSUME NEW i \in Ids, Accepts(i)
      PROVE  Mailbox!Accept(i)
  <2>1. \A j \in Ids : j # i => Phase(j)' = Phase(j) /\ msg'[j] = msg[j]
    BY <1>3, <1>p DEF Accepts, OnlyRow
  <2>2. /\ Phase(i) = "unsent"
        /\ Phase(i)' = IF i \in Messages THEN "accepted" ELSE "owed"
    BY <1>3, <1>p DEF Accepts, Pending
  <2>3. phases[i] = "unsent"
        /\ phases' = [phases EXCEPT ![i] = IF i \in Messages THEN "accepted" ELSE "owed"]
    BY <2>1, <2>2 DEF phases
  <2>4. /\ msg'[i].from \in Sessions \ gone /\ msg'[i].to \in Sessions \ gone
        /\ ends' = [ends EXCEPT ![i] = <<msg'[i].from, msg'[i].to>>]
    BY <1>3, <2>1 DEF Accepts, ends, gone
  <2>5. gone' = gone /\ incorporated' = incorporated
    BY <1>3 DEF Accepts, SameLives, gone
  <2> QED BY <2>3, <2>4, <2>5 DEF Mailbox!Accept, phases, ends, gone
<1>4. ASSUME NEW i \in Ids, Owes(i)
      PROVE  Mailbox!Owe(i)
  <2>1. \A j \in Ids : j # i => Phase(j)' = Phase(j)
    BY <1>4, <1>p DEF Owes, OnlyRow
  <2>2. Phase(i) = "accepted" /\ Phase(i)' = "owed"
    BY <1>4, <1>p DEF Owes, Pending
  <2>3. phases[i] = "accepted" /\ phases' = [phases EXCEPT ![i] = "owed"]
    BY <2>1, <2>2 DEF phases
  <2>4. ends' = ends /\ gone' = gone /\ incorporated' = incorporated
    BY <1>4 DEF Owes, SameEnds, SameLives, ends, gone
  <2> QED BY <2>3, <2>4 DEF Mailbox!Owe, phases, ends, gone
<1>5. ASSUME NEW i \in Ids, Enters(i)
      PROVE  Mailbox!Enter(i)
  <2>1. \A j \in Ids : Phase(j)' = Phase(j)
    BY <1>5, <1>p DEF Enters
  <2>2. Phase(i) = "owed"
    BY <1>5, <1>p DEF Enters, Pending
  <2>3. phases[i] = "owed" /\ phases' = phases
    BY <2>1, <2>2 DEF phases
  <2>4. ends' = ends /\ gone' = gone
    BY <1>5 DEF Enters, SameLives, ends, gone
  <2> QED BY <1>5, <2>3, <2>4 DEF Enters, Mailbox!Enter, phases, ends, gone
<1>6. ASSUME NEW i \in Ids, Finishes(i)
      PROVE  Mailbox!Finish(i) \/ UNCHANGED Mailbox!mailbox
  <2>1. \A j \in Ids : j # i => Phase(j)' = Phase(j)
    BY <1>6, <1>p DEF Finishes, OnlyRow
  <2>2. ends' = ends /\ gone' = gone /\ incorporated' = incorporated
    BY <1>6 DEF Finishes, SameEnds, SameLives, ends, gone
  <2>3. CASE msg[i].state = "delivered"
    <3>1. Phase(i) = "owed" /\ Phase(i)' = "done"
      BY <1>6, <1>p, <2>3 DEF Finishes, Pending
    <3>2. phases[i] = "owed" /\ phases' = [phases EXCEPT ![i] = "done"]
      BY <2>1, <3>1 DEF phases
    <3> QED BY <1>6, <2>2, <3>2 DEF Finishes, Mailbox!Finish, phases, ends, gone
  <2>4. CASE msg[i].state = "acknowledged"
    <3>1. Phase(i)' = Phase(i)
      BY <1>6, <1>p, <2>4 DEF Finishes, Pending
    <3>2. phases' = phases
      BY <2>1, <3>1 DEF phases
    <3> QED BY <2>2, <3>2 DEF Mailbox!mailbox, phases, ends, gone
  <2> QED BY <1>6, <2>3, <2>4 DEF Finishes
<1>7. ASSUME NEW D \in SUBSET Sessions, Deletes(D)
      PROVE  Mailbox!Delete(D)
  <2>1. gone' = gone \cup D /\ incorporated' = incorporated /\ ends' = ends
    BY <1>7 DEF Deletes, SameEnds, ends, gone
  <2>2. \A j \in Ids :
          Phase(j)' = IF \/ ends[j][2] \in D /\ Phase(j) \in {"accepted", "owed"}
                         \/ ends[j][1] \in D /\ Phase(j) = "accepted"
                      THEN "rejected" ELSE Phase(j)
    <3> SUFFICES ASSUME NEW j \in Ids
                 PROVE  Phase(j)' = IF \/ msg[j].to \in D /\ Phase(j) \in {"accepted", "owed"}
                                       \/ msg[j].from \in D /\ Phase(j) = "accepted"
                                    THEN "rejected" ELSE Phase(j)
      BY DEF ends
    <3>1. CASE msg'[j].state = "rejected"
               /\ \/ msg[j].to \in D /\ msg[j].state \in {"accepted", "queued", "delivered"}
                  \/ msg[j].from \in D /\ msg[j].state = "accepted"
      BY <1>p, <3>1 DEF Pending
    <3>2. CASE /\ msg[j].to \in D => msg[j].state \notin {"accepted", "queued", "delivered"}
               /\ msg[j].from \in D => msg[j].state # "accepted"
               /\ msg'[j] = msg[j]
      BY <1>p, <1>s, <3>2 DEF Pending, States
    <3> QED BY <1>7, <3>1, <3>2 DEF Deletes
  <2>3. phases' = [j \in Ids |-> IF \/ ends[j][2] \in D /\ phases[j] \in {"accepted", "owed"}
                                    \/ ends[j][1] \in D /\ phases[j] = "accepted"
                                 THEN "rejected" ELSE phases[j]]
    BY <2>2 DEF phases
  <2> QED BY <2>1, <2>3 DEF Mailbox!Delete, Mailbox!Ids, Ids, phases, ends, gone
<1>8. CASE \E D \in SUBSET Sessions : Deletes(D)
  <2>1. PICK D \in SUBSET Sessions : Deletes(D)
    BY <1>8
  <2> QED BY <1>7, <2>1 DEF Mailbox!Next
<1> QED BY <1>1, <1>2, <1>3, <1>4, <1>5, <1>6, <1>8 DEF KnownKind, Mailbox!Next, Mailbox!Ids,
   Ids

\* The detailed system implements the abstract mailbox, for every family and bound.
THEOREM Refinement == Spec => ImplementsMailbox
<1>1. IInv /\ Init => Mailbox!Init
  BY MailboxInit
<1>2. IInv /\ IInv' /\ [Next]_vars => [Mailbox!Next]_Mailbox!mailbox
  BY MailboxStep
<1> QED BY <1>1, <1>2, Invariant, PTL DEF Spec, ImplementsMailbox, Mailbox!Spec

-----------------------------------------------------------------------------
(* Reported failures. *)

Entries == [what : {"failed", "accepted"}, turn : Nat, place : Nat]
Events == [what : {"start", "fine", "failed", "exit"}, turn : Nat]

Turns == [number : Nat, at : {"idle", "runs", "journaled", "reports", "settles"}, failed : BOOLEAN]
Reporters ==
  [pending : SUBSET Nat, upTo : Nat, drain : {"none", "ask", "wait", "witness"}, timer : BOOLEAN]
Sockets == [up : BOOLEAN, ask : Nat, answer : {"none", "recorded", "refused"}]
Nudges == [turn : Nat, failed : BOOLEAN]
Histories ==
  [recorded : SUBSET Nat, settled : Nat, how : {"none", "fine", "failed"}, late : BOOLEAN,
   woken : BOOLEAN, wakes : SUBSET {"none", "fine", "failed", "late"}, forgotten : BOOLEAN]

TurnsTypeOK ==
  /\ home \in BOOLEAN /\ transcript \in Seq(Entries) /\ alive \in BOOLEAN
  /\ turn \in Turns /\ reporter \in Reporters /\ socket \in Sockets /\ pipe \in Seq(Events)
  /\ observer \in BOOLEAN /\ told \subseteq Nat /\ shown \in BOOLEAN
  /\ nudge \in Nudges /\ nudged \subseteq Nat /\ history \in Histories
  /\ turnTroubles \in Nat

\* The failures stand in the order of their turns, one for each, and the turn under way has
\* journaled its own, if it failed.
InOrder(entries, t) ==
  /\ \A n \in DOMAIN entries : entries[n].what = "failed" =>
       /\ entries[n].turn \in 1..t.number
       /\ t.at = "runs" => entries[n].turn # t.number
  /\ \A m, n \in DOMAIN entries :
       entries[m].what = "failed" /\ entries[n].what = "failed" /\ m < n =>
         entries[m].turn < entries[n].turn
  /\ t.at = "journaled" =>
       \E n \in DOMAIN entries : entries[n].what = "failed" /\ entries[n].turn = t.number

\* Only failures are pending; what is on its way, or was answered, is the report of the first.
ReportsFirst(entries, r, s, recorded) ==
  /\ \A n \in r.pending : n \in DOMAIN entries /\ entries[n].what = "failed"
  /\ r.drain # "none" => r.pending # {}
  /\ s.ask # NoTurn => r.drain = "wait" /\ s.answer = "none" /\ s.ask = entries[First(r.pending)].turn
  /\ s.answer # "none" => r.drain = "wait"
  /\ s.answer = "recorded" \/ r.drain = "witness" => entries[First(r.pending)].turn \in recorded

\* A session without a worker has no turn, no reporter and no connection.
Dead == ~alive => turn.at = "idle" /\ reporter = NoReporter /\ socket = Down

\* The places up to which all failures have receipts.
Told(entries, recorded, place) ==
  \A n \in DOMAIN entries : entries[n].what = "failed" /\ n <= place => entries[n].turn \in recorded

\* Every failure has a receipt, is pending, or has only just been written.
Attended ==
  alive => \A n \in Failures :
    \/ transcript[n].turn \in history.recorded \/ n \in reporter.pending
    \/ turn.at = "journaled" /\ transcript[n].turn = turn.number

\* The events of the worker arrive in the order of its turns.  While a turn runs the supervisor
\* has seen no end of it; when all that was sent has arrived, it has seen its start.
InTurn(events, t, settled, isShown) ==
  /\ \A i \in DOMAIN events : events[i].turn <= t.number
  /\ \A i, j \in DOMAIN events : i <= j => events[i].turn <= events[j].turn
  /\ settled <= t.number
  /\ t.at # "idle" =>
       /\ \A i \in DOMAIN events : events[i].what # "start" => events[i].turn < t.number
       /\ settled < t.number
       /\ IF Len(events) = 0 THEN isShown ELSE events[Len(events)].what = "start"

\* A failing turn whose end the supervisor has still to see.
Open(events, t, settled, n) ==
  /\ n > settled
  /\ \A i \in DOMAIN events : ~(events[i].what = "fine" /\ events[i].turn = n)
  /\ \/ t.at # "idle" /\ t.failed /\ n = t.number
     \/ \E i \in DOMAIN events : events[i].what \in {"failed", "exit"} /\ events[i].turn = n

\* Home is to be woken after a good turn, or will be unless a failing one ends first.
NudgeIsOpen ==
  /\ ~home => nudge.turn = NoTurn
  /\ nudge.turn # NoTurn /\ ~history.late /\ (history.how = "fine" \/ nudge.failed) =>
       \E n \in Nat : Open(pipe, turn, history.settled, n)

JournalInv ==
  /\ InOrder(transcript, turn) /\ ReportsFirst(transcript, reporter, socket, history.recorded)
  /\ Dead /\ (turn.at \in {"journaled", "reports"} => turn.failed)
  /\ Frontier \in 0..Len(transcript) /\ Told(transcript, history.recorded, Frontier)
  /\ alive => reporter.upTo = Frontier
  /\ Attended

PipeInv == InTurn(pipe, turn, history.settled, shown) /\ NudgeIsOpen /\ NudgesAreDue

\* The inductive invariant.
ReportsInv == TurnsTypeOK /\ JournalInv /\ PipeInv

-----------------------------------------------------------------------------
(* Lemmas about the operators. *)

\* The first of some places is one of them, and before the others.
LEMMA FirstIsLeast ==
  ASSUME NEW T \in SUBSET Nat, T # {}
  PROVE  First(T) \in T /\ \A m \in T : First(T) <= m
<1> DEFINE R == OpToRel(<, Nat)
<1>1. IsWellFoundedOn(R, Nat)
  BY NatLessThanWellFounded
<1>2. \A x, y \in Nat : x < y => <<x, y>> \in R
  BY DEF OpToRel
<1> HIDE DEF R
<1>3. \E x \in T : \A y \in T : ~(<<y, x>> \in R)
  BY <1>1, WFMin
<1>4. \A x, y \in Nat : ~(y < x) => x <= y
  OBVIOUS
<1>5. \A x \in T : x \in Nat
  OBVIOUS
<1>6. \E n \in T : \A m \in T : n <= m
  BY <1>2, <1>3, <1>4, <1>5, Zenon
<1> QED BY <1>6 DEF First

\* A place that is behind all others does not become the first.
LEMMA FirstStays ==
  ASSUME NEW T \in SUBSET Nat, T # {}, NEW n \in Nat, \A m \in T : m <= n
  PROVE  First(T \cup {n}) = First(T)
<1>1. First(T) \in T /\ \A m \in T : First(T) <= m
  BY FirstIsLeast
<1>2. /\ First(T \cup {n}) \in T \cup {n}
      /\ \A m \in T \cup {n} : First(T \cup {n}) <= m
  <2>1. T \cup {n} \in SUBSET Nat /\ T \cup {n} # {}
    OBVIOUS
  <2> QED BY <2>1, FirstIsLeast
<1>3. \A x, y \in Nat : x <= y /\ y <= x => x = y
  OBVIOUS
<1>4. First(T) \in Nat /\ First(T \cup {n}) \in Nat
  BY <1>1, <1>2
<1>5. First(T \cup {n}) <= First(T) /\ First(T) <= n
  BY <1>1, <1>2
<1>6. First(T) <= First(T \cup {n})
  BY <1>1, <1>2, <1>5
<1> QED BY <1>3, <1>4, <1>5, <1>6

LEMMA Appended ==
  ASSUME NEW S, NEW s \in Seq(S), NEW e \in S
  PROVE  /\ Append(s, e) \in Seq(S) /\ Len(s) \in Nat /\ Len(Append(s, e)) = Len(s) + 1
         /\ DOMAIN s = 1..Len(s) /\ DOMAIN Append(s, e) = 1..Len(s) + 1
         /\ Append(s, e)[Len(s) + 1] = e /\ Append(s, e) # <<>>
         /\ \A i \in DOMAIN s : i \in DOMAIN Append(s, e) /\ Append(s, e)[i] = s[i] /\ i < Len(s) + 1
         /\ \A i \in DOMAIN Append(s, e) : i \in DOMAIN s \/ i = Len(s) + 1
  OBVIOUS

LEMMA HeadGone ==
  ASSUME NEW S, NEW s \in Seq(S), s # <<>>
  PROVE  /\ Head(s) \in S /\ Head(s) = s[1] /\ 1 \in DOMAIN s /\ Tail(s) \in Seq(S)
         /\ \A i \in DOMAIN s : i \in Nat /\ 1 <= i
         /\ \A i \in DOMAIN Tail(s) : i + 1 \in DOMAIN s /\ Tail(s)[i] = s[i + 1]
         /\ \A i \in DOMAIN s : i = 1 \/ (i - 1 \in DOMAIN Tail(s) /\ Tail(s)[i - 1] = s[i])
         /\ Len(Tail(s)) # 0 => Tail(s)[Len(Tail(s))] = s[Len(s)]
         /\ Len(Tail(s)) = 0 => Len(s) = 1
<1>1. Len(s) \in Nat /\ Len(s) # 0 /\ DOMAIN s = 1..Len(s) /\ Len(Tail(s)) = Len(s) - 1
      /\ DOMAIN Tail(s) = 1..Len(s) - 1
  OBVIOUS
<1>2. Head(s) \in S /\ Head(s) = s[1] /\ Tail(s) \in Seq(S)
  OBVIOUS
<1>3. \A i \in 1..Len(s) - 1 : i + 1 \in 1..Len(s) /\ Tail(s)[i] = s[i + 1]
  OBVIOUS
<1>4. \A i \in 1..Len(s) : i \in Nat /\ 1 <= i
                           /\ (i = 1 \/ (i - 1 \in 1..Len(s) - 1 /\ (i - 1) + 1 = i))
  BY <1>1
<1>5. Len(Tail(s)) = 0 => Len(s) = 1
  <2> DEFINE k == Len(s)
             l == Len(Tail(s))
  <2>1. k \in Nat /\ l = k - 1
    BY <1>1
  <2> HIDE DEF k, l
  <2>2. l = 0 => k = 1
    BY <2>1
  <2> QED BY <2>2 DEF k, l
<1>6. Len(Tail(s)) # 0 => Len(s) - 1 \in 1..Len(s) - 1 /\ (Len(s) - 1) + 1 = Len(s)
  BY <1>1
<1> QED BY <1>1, <1>2, <1>3, <1>4, <1>5, <1>6

\* Some places up to n, if there are any, have a last one.
LEMMA LastExists ==
  ASSUME NEW n \in Nat, NEW T \in SUBSET (1..n), T # {}
  PROVE  \E k \in T : \A m \in T : m <= k
<1> DEFINE U == {u \in Nat : \A m \in T : m <= u}
           u == First(U)
<1>1. n \in U /\ U \in SUBSET Nat
  OBVIOUS
<1>2. u \in U /\ \A v \in U : u <= v
  BY <1>1, FirstIsLeast
<1> HIDE DEF u
<1>3. u \in Nat /\ \A m \in T : m \in Nat /\ 1 <= m /\ m <= u
  BY <1>2
<1>4. CASE u \in T
  BY <1>3, <1>4
<1>5. CASE u \notin T
  <2>1. \A m \in T : m <= u - 1
    BY <1>3, <1>5
  <2>2. u - 1 \in Nat
    <3>1. PICK m \in T : TRUE
      OBVIOUS
    <3>2. m \in Nat /\ 1 <= m /\ m <= u
      BY <1>3, <3>1
    <3> QED BY <1>3, <3>2
  <2>3. u - 1 \in U
    BY <2>1, <2>2
  <2> QED BY <1>2, <1>3, <2>3
<1> QED BY <1>4, <1>5

\* What the transcript says is accepted moves with the last witness only.
LEMMA FrontierMoves ==
  ASSUME transcript \in Seq(Entries), NEW e \in Entries, transcript' = Append(transcript, e)
  PROVE  Frontier' = IF e.what = "accepted" THEN e.place ELSE Frontier
<1> DEFINE seen == {n \in DOMAIN transcript : transcript[n].what = "accepted"}
           last == Len(transcript) + 1
<1>1. /\ DOMAIN transcript = 1..Len(transcript) /\ DOMAIN transcript' = 1..last
      /\ transcript'[last] = e /\ last \in Nat
      /\ \A n \in DOMAIN transcript : n \in Nat /\ n < last /\ transcript'[n] = transcript[n]
      /\ \A n \in DOMAIN transcript' : n \in DOMAIN transcript \/ n = last
  BY Appended
<1>2. seen' = IF e.what = "accepted" THEN seen \cup {last} ELSE seen
  BY <1>1
<1>3. CASE e.what = "accepted"
  <2>1. (CHOOSE n \in seen' : \A m \in seen' : m <= n) = last
    <3>1. last \in seen' /\ \A m \in seen' : m <= last
      BY <1>1, <1>2, <1>3
    <3>2. \A n \in seen' : (\A m \in seen' : m <= n) => n = last
      BY <1>1, <1>2, <1>3
    <3> QED BY <3>1, <3>2
  <2>2. seen' # {} /\ transcript'[last].place = e.place
    BY <1>1, <1>2, <1>3
  <2> QED BY <1>3, <2>1, <2>2 DEF Frontier
<1>4. CASE e.what # "accepted"
  <2>1. seen' = seen
    BY <1>2, <1>4
  <2> DEFINE place(n) == transcript[n].place
  <2>2. CASE seen = {}
    BY <1>4, <2>1, <2>2 DEF Frontier
  <2>3. CASE seen # {}
    <3> DEFINE c == CHOOSE n \in seen : \A m \in seen : m <= n
    <3>1. Frontier = transcript[c].place /\ Frontier' = transcript'[c].place
      BY <2>1, <2>3 DEF Frontier
    <3>2. seen \in SUBSET (1..Len(transcript)) /\ Len(transcript) \in Nat
      BY <1>1, Appended
    <3>3. c \in DOMAIN transcript
      <4>1. \E n \in seen : \A m \in seen : m <= n
        BY <2>3, <3>2, LastExists
      <4>2. c \in seen
        BY <4>1
      <4> QED BY <4>2
    <3> HIDE DEF c
    <3> QED BY <1>1, <1>4, <3>1, <3>3
  <2> QED BY <2>2, <2>3
<1> QED BY <1>3, <1>4

-----------------------------------------------------------------------------
(* Types. *)

LEMMA TurnTypes ==
  ASSUME NEW t \in Turns, NEW at \in {"idle", "runs", "journaled", "reports", "settles"}
  PROVE  /\ [t EXCEPT !.at = at] \in Turns
         /\ [t EXCEPT !.at = "journaled", !.failed = TRUE] \in Turns
         /\ [number |-> t.number + 1, at |-> "runs", failed |-> FALSE] \in Turns
         /\ t.number \in Nat /\ t.failed \in BOOLEAN
<1> USE DEF Turns
<1>1. [t EXCEPT !.at = at] \in Turns
  OBVIOUS
<1>2. [t EXCEPT !.at = "journaled", !.failed = TRUE] \in Turns
  OBVIOUS
<1>3. t.number \in Nat /\ t.failed \in BOOLEAN
  OBVIOUS
<1>4. [number |-> t.number + 1, at |-> "runs", failed |-> FALSE] \in Turns
  BY <1>3
<1> HIDE DEF Turns
<1> QED BY <1>1, <1>2, <1>3, <1>4

LEMMA DrainOverTypes ==
  ASSUME turn \in Turns, DrainOver
  PROVE  turn' \in Turns
  BY TurnTypes DEF DrainOver

LEMMA ReporterTypes ==
  ASSUME NEW r \in Reporters, NEW drain \in {"none", "ask", "wait", "witness"},
         NEW T \in SUBSET Nat, NEW n \in Nat, NEW up
  PROVE  /\ [r EXCEPT !.drain = drain] \in Reporters
         /\ [r EXCEPT !.timer = FALSE] \in Reporters
         /\ [r EXCEPT !.pending = T] \in Reporters
         /\ [r EXCEPT !.pending = T, !.upTo = n] \in Reporters
         /\ [r EXCEPT !.pending = T, !.upTo = n, !.drain = drain] \in Reporters
         /\ Retries(r) \in Reporters /\ Flush(r, up) \in Reporters
         /\ r.pending \in SUBSET Nat /\ r.upTo \in Nat
<1> USE DEF Reporters
<1>1. [r EXCEPT !.drain = drain] \in Reporters /\ [r EXCEPT !.drain = "ask"] \in Reporters
  OBVIOUS
<1>2. [r EXCEPT !.timer = FALSE] \in Reporters
  OBVIOUS
<1>3. [r EXCEPT !.pending = T] \in Reporters /\ r.pending \in SUBSET Nat /\ r.upTo \in Nat
  OBVIOUS
<1>4. [r EXCEPT !.pending = T, !.upTo = n] \in Reporters
  OBVIOUS
<1>5. [r EXCEPT !.pending = T, !.upTo = n, !.drain = drain] \in Reporters
  OBVIOUS
<1>6. Retries(r) \in Reporters
  BY DEF Retries
<1>7. Flush(r, up) \in Reporters
  <2>1. Flush(r, up) = r \/ Flush(r, up) = [r EXCEPT !.drain = "ask"]
    BY DEF Flush
  <2> HIDE DEF Reporters
  <2> QED BY <1>1, <2>1
<1> HIDE DEF Reporters
<1> QED BY <1>1, <1>2, <1>3, <1>4, <1>5, <1>6, <1>7

LEMMA SocketTypes ==
  ASSUME NEW s \in Sockets, NEW n \in Nat, NEW answer \in {"none", "recorded", "refused"}
  PROVE  /\ [s EXCEPT !.ask = n] \in Sockets /\ [s EXCEPT !.answer = answer] \in Sockets
         /\ [s EXCEPT !.ask = NoTurn, !.answer = answer] \in Sockets
         /\ Down \in Sockets /\ [Down EXCEPT !.up = TRUE] \in Sockets
         /\ NoReporter \in Reporters /\ [turn |-> NoTurn, failed |-> FALSE] \in Nudges
  BY DEF Sockets, Down, NoTurn, NoReporter, Reporters, Nudges

LEMMA TroubleTypes ==
  ASSUME turnTroubles \in Nat, TurnTrouble \/ NoTurnTrouble
  PROVE  turnTroubles' \in Nat
  BY DEF TurnTrouble, NoTurnTrouble

LEMMA HistoryTypes ==
  ASSUME NEW h \in Histories, NEW b \in BOOLEAN, NEW c \in BOOLEAN, NEW n \in Nat,
         NEW how \in {"fine", "failed"}, NEW R \in SUBSET Nat,
         NEW W \in SUBSET {"none", "fine", "failed", "late"}
  PROVE  /\ [h EXCEPT !.late = b] \in Histories
         /\ [h EXCEPT !.late = b, !.forgotten = c] \in Histories
         /\ [h EXCEPT !.recorded = R, !.late = b, !.forgotten = c] \in Histories
         /\ [h EXCEPT !.settled = n, !.how = how, !.woken = FALSE, !.late = b] \in Histories
         /\ [h EXCEPT !.woken = TRUE, !.late = FALSE, !.wakes = W] \in Histories
<1> USE DEF Histories
<1>1. [h EXCEPT !.late = b] \in Histories
  OBVIOUS
<1>2. [h EXCEPT !.late = b, !.forgotten = c] \in Histories
  OBVIOUS
<1>3. [h EXCEPT !.recorded = R, !.late = b, !.forgotten = c] \in Histories
  OBVIOUS
<1>4. [h EXCEPT !.settled = n, !.how = how, !.woken = FALSE, !.late = b] \in Histories
  OBVIOUS
<1>5. [h EXCEPT !.woken = TRUE, !.late = FALSE, !.wakes = W] \in Histories
  OBVIOUS
<1> HIDE DEF Histories
<1> QED BY <1>1, <1>2, <1>3, <1>4, <1>5

\* What the reporter asks about, or witnesses, is a failure in the transcript.
LEMMA FirstPending ==
  ASSUME ReportsInv, reporter.drain # "none"
  PROVE  /\ First(reporter.pending) \in reporter.pending
         /\ \A n \in reporter.pending : n \in Nat /\ First(reporter.pending) <= n
         /\ First(reporter.pending) \in DOMAIN transcript /\ First(reporter.pending) \in Nat
         /\ transcript[First(reporter.pending)] \in Entries
         /\ transcript[First(reporter.pending)].what = "failed"
         /\ transcript[First(reporter.pending)].turn \in Nat
<1>1. reporter.pending \in SUBSET Nat /\ reporter.pending # {}
  BY DEF ReportsInv, TurnsTypeOK, Reporters, JournalInv, ReportsFirst
<1> DEFINE n == First(reporter.pending)
<1>2. n \in reporter.pending /\ \A m \in reporter.pending : n <= m
  BY <1>1, FirstIsLeast
<1> HIDE DEF n
<1>3. n \in DOMAIN transcript /\ transcript[n].what = "failed"
  BY <1>2 DEF ReportsInv, JournalInv, ReportsFirst
<1>4. transcript[n] \in Entries
  BY <1>3 DEF ReportsInv, TurnsTypeOK
<1>5. transcript[n].turn \in Nat
  BY <1>4 DEF Entries
<1> QED BY <1>1, <1>2, <1>3, <1>4, <1>5 DEF n

\* The failure that a turn has just journaled is the last one.
LEMMA JournaledFailure ==
  ASSUME ReportsInv, turn.at = "journaled"
  PROVE  LET n == FailureOf(turn.number) IN
         /\ n \in DOMAIN transcript /\ n \in Nat /\ n # 0
         /\ transcript[n].what = "failed" /\ transcript[n].turn = turn.number
         /\ \A m \in Failures : m <= n
<1> DEFINE n == FailureOf(turn.number)
<1>1. n \in DOMAIN transcript /\ transcript[n].what = "failed" /\ transcript[n].turn = turn.number
  BY DEF FailureOf, ReportsInv, JournalInv, InOrder
<1> HIDE DEF n
<1>2. \A m \in DOMAIN transcript : m \in Nat /\ m # 0
  BY DEF ReportsInv, TurnsTypeOK
<1>3. ASSUME NEW m \in Failures
      PROVE  m <= n
  <2>1. m \in DOMAIN transcript /\ transcript[m].what = "failed"
    BY DEF Failures
  <2>2. transcript[m].turn \in 1..turn.number /\ turn.number \in Nat
    BY <2>1 DEF ReportsInv, JournalInv, InOrder, TurnsTypeOK, Turns
  <2>3. CASE n < m
    <3>1. transcript[n].turn < transcript[m].turn
      BY <1>1, <2>1, <2>3 DEF ReportsInv, JournalInv, InOrder
    <3> QED BY <1>1, <2>2, <3>1
  <2>4. CASE ~(n < m)
    <3>1. \A x, y \in Nat : ~(x < y) => y <= x
      OBVIOUS
    <3> QED BY <1>1, <1>2, <2>1, <2>4, <3>1
  <2> QED BY <2>3, <2>4
<1> QED BY <1>1, <1>2, <1>3 DEF n

\* No turn has two failures.
LEMMA OneFailure ==
  ASSUME ReportsInv, NEW j \in Failures, NEW k \in Failures, transcript[j].turn = transcript[k].turn
  PROVE  j = k
<1>1. /\ j \in DOMAIN transcript /\ transcript[j].what = "failed"
      /\ k \in DOMAIN transcript /\ transcript[k].what = "failed"
  BY DEF Failures
<1>2. DOMAIN transcript \subseteq Nat /\ transcript[j].turn \in Nat
  BY <1>1 DEF ReportsInv, JournalInv, InOrder, TurnsTypeOK, Turns
<1>3. ~(j < k) /\ ~(k < j)
  BY <1>1, <1>2 DEF ReportsInv, JournalInv, InOrder
<1>4. \A m, n \in Nat : ~(m < n) /\ ~(n < m) => m = n
  OBVIOUS
<1> QED BY <1>1, <1>2, <1>3, <1>4

LEMMA TurnsTypesStep ==
  ASSUME ReportsInv, TurnsNext
  PROVE  TurnsTypeOK'
<1>1. /\ home \in BOOLEAN /\ transcript \in Seq(Entries) /\ alive \in BOOLEAN
      /\ turn \in Turns /\ reporter \in Reporters /\ socket \in Sockets /\ pipe \in Seq(Events)
      /\ observer \in BOOLEAN /\ told \subseteq Nat /\ shown \in BOOLEAN
      /\ nudge \in Nudges /\ nudged \subseteq Nat /\ history \in Histories
      /\ turnTroubles \in Nat
  BY DEF ReportsInv, TurnsTypeOK
<1>2. TurnTrouble \/ NoTurnTrouble => turnTroubles' \in Nat
  BY <1>1, TroubleTypes
<1>3. DrainOver \/ UNCHANGED turn => turn' \in Turns
  BY <1>1, DrainOverTypes
<1>4. /\ Down \in Sockets /\ [Down EXCEPT !.up = TRUE] \in Sockets /\ NoReporter \in Reporters
      /\ [turn |-> NoTurn, failed |-> FALSE] \in Nudges
  BY <1>1, SocketTypes
<1>5. turn.number \in Nat /\ \A at \in {"idle", "settles", "reports"} : [turn EXCEPT !.at = at] \in Turns
  BY <1>1, TurnTypes
<1>6. /\ \A drain \in {"none", "ask", "wait", "witness"} : [reporter EXCEPT !.drain = drain] \in Reporters
      /\ Retries(reporter) \in Reporters /\ reporter.pending \in SUBSET Nat /\ reporter.upTo \in Nat
      /\ \A up : Flush(reporter, up) \in Reporters
  BY <1>1, ReporterTypes
<1>7. CASE BeginTurn
  <2>1. turn' \in Turns
    BY <1>1, <1>7, TurnTypes DEF BeginTurn
  <2>2. [what |-> "start", turn |-> turn'.number] \in Events
    BY <2>1, TurnTypes DEF Events
  <2>3. pipe' \in Seq(Events)
    BY <1>1, <1>7, <2>2, Appended DEF BeginTurn
  <2> QED BY <1>1, <1>2, <1>7, <2>1, <2>3 DEF BeginTurn, supervisorVars, TurnsTypeOK
<1>8. CASE EndTurn
  <2>1. turn' \in Turns
    BY <1>1, <1>8, TurnTypes DEF EndTurn
  <2>2. [what |-> "failed", turn |-> turn.number, place |-> 0] \in Entries
    BY <1>5 DEF Entries
  <2>3. transcript' \in Seq(Entries)
    BY <1>1, <1>8, <2>2, Appended DEF EndTurn
  <2> QED BY <1>1, <1>2, <1>8, <2>1, <2>3 DEF EndTurn, supervisorVars, TurnsTypeOK
<1>9. CASE Remember
  <2> DEFINE n == FailureOf(turn.number)
             r == IF n <= reporter.upTo THEN reporter
                  ELSE [reporter EXCEPT !.pending = @ \cup {n}]
  <2>1. n \in Nat
    BY <1>9, JournaledFailure DEF Remember
  <2> HIDE DEF n
  <2>2. r \in Reporters
    <3>1. reporter.pending \cup {n} \in SUBSET Nat
      BY <1>6, <2>1
    <3> QED BY <1>1, <3>1, ReporterTypes
  <2>3. reporter' = Flush(r, socket.up)
    BY <1>9 DEF Remember, n
  <2> HIDE DEF r
  <2>4. reporter' \in Reporters
    BY <2>2, <2>3, ReporterTypes
  <2>5. turn' \in Turns
    BY <1>5, <1>9 DEF Remember
  <2> QED BY <1>1, <1>2, <1>9, <2>4, <2>5 DEF Remember, supervisorVars, TurnsTypeOK
<1>10. CASE Settle
  <2>1. [what |-> IF turn.failed THEN "failed" ELSE "fine", turn |-> turn.number] \in Events
    BY <1>5 DEF Events
  <2>2. pipe' \in Seq(Events)
    BY <1>1, <1>10, <2>1, Appended DEF Settle
  <2> QED BY <1>1, <1>2, <1>5, <1>10, <2>2 DEF Settle, supervisorVars, TurnsTypeOK
<1>11. CASE Ask
  <2>1. transcript[First(reporter.pending)].turn \in Nat
    BY <1>11, FirstPending DEF Ask
  <2>2. socket' \in Sockets
    BY <1>1, <1>11, <2>1, SocketTypes DEF Ask
  <2>3. reporter' \in Reporters
    BY <1>6, <1>11 DEF Ask
  <2> QED BY <1>1, <1>2, <1>3, <1>11, <2>2, <2>3 DEF Ask, supervisorVars, TurnsTypeOK
<1>12. CASE TakeAnswer
  <2>1. socket' \in Sockets
    BY <1>1, <1>12, SocketTypes DEF TakeAnswer
  <2>2. reporter' \in Reporters
    BY <1>6, <1>12 DEF TakeAnswer
  <2> QED BY <1>1, <1>2, <1>3, <1>12, <2>1, <2>2 DEF TakeAnswer, supervisorVars, TurnsTypeOK
<1>13. CASE WriteWitness
  <2> DEFINE n == First(reporter.pending)
             rest == reporter.pending \ {n}
             drain == IF rest = {} THEN "none" ELSE "ask"
             next == [reporter EXCEPT !.pending = rest, !.upTo = n, !.drain = drain]
             witness == [what |-> "accepted", turn |-> NoTurn, place |-> Witnessed(n)]
  <2>1. n \in Nat /\ rest \in SUBSET Nat
    BY <1>6, <1>13, FirstPending DEF WriteWitness
  <2>2. /\ transcript' \in {transcript, Append(transcript, witness)}
        /\ reporter' \in {next, Retries(reporter)}
        /\ DrainOver \/ UNCHANGED turn
        /\ TurnTrouble \/ NoTurnTrouble
    BY <1>13 DEF WriteWitness
  <2> HIDE DEF n
  <2>3. witness \in Entries
    BY <2>1 DEF Entries, NoTurn, Witnessed
  <2> HIDE DEF rest, witness
  <2>4. Append(transcript, witness) \in Seq(Entries)
    BY <1>1, <2>3, Appended
  <2>5. drain \in {"none", "ask", "wait", "witness"}
    OBVIOUS
  <2> HIDE DEF drain
  <2>6. next \in Reporters
    BY <1>1, <2>1, <2>5, ReporterTypes
  <2> HIDE DEF next
  <2>7. UNCHANGED <<home, alive, socket, pipe, supervisorVars>>
    BY <1>13 DEF WriteWitness
  <2> QED BY <1>1, <1>2, <1>3, <1>6, <2>2, <2>4, <2>6, <2>7 DEF supervisorVars, TurnsTypeOK
<1>14. CASE RetryTimer
  <2>1. [reporter EXCEPT !.timer = FALSE] \in Reporters
    BY <1>1, ReporterTypes
  <2>2. reporter' \in Reporters
    BY <1>14, <2>1, ReporterTypes DEF RetryTimer
  <2> QED BY <1>1, <1>2, <1>14, <2>2 DEF RetryTimer, supervisorVars, TurnsTypeOK
<1>15. CASE Connect
  BY <1>1, <1>2, <1>4, <1>6, <1>15 DEF Connect, supervisorVars, TurnsTypeOK
<1>16. CASE LoseConnection
  BY <1>1, <1>2, <1>3, <1>4, <1>6, <1>16 DEF LoseConnection, supervisorVars, TurnsTypeOK
<1>17. CASE StartWorker
  <2>1. Unaccepted \in SUBSET Nat /\ Frontier \in Nat
    <3>1. DOMAIN transcript \subseteq Nat
      BY <1>1
    <3> QED BY <3>1, <1>1 DEF Unaccepted, ReportsInv, JournalInv
  <2>2. [NoReporter EXCEPT !.pending = Unaccepted, !.upTo = Frontier] \in Reporters
    BY <1>4, <2>1, ReporterTypes
  <2> QED BY <1>1, <1>2, <1>17, <2>2 DEF StartWorker, supervisorVars, TurnsTypeOK
<1>18. CASE WorkerDies
  <2>1. [what |-> "exit", turn |-> turn.number] \in Events
    BY <1>5 DEF Events
  <2>2. pipe' \in Seq(Events)
    BY <1>1, <1>18, <2>1, Appended DEF WorkerDies
  <2> QED BY <1>1, <1>2, <1>4, <1>5, <1>18, <2>2
          DEF WorkerDies, WorkerGone, supervisorVars, TurnsTypeOK
<1>19. CASE SupervisorEnds
  <2> DEFINE forgotten == history.forgotten \/ nudge.turn # NoTurn \/ pipe # <<>>
  <2>1. forgotten \in BOOLEAN
    BY <1>1 DEF Histories
  <2>2. history' = [history EXCEPT !.late = FALSE, !.forgotten = forgotten]
    BY <1>19 DEF SupervisorEnds
  <2> HIDE DEF forgotten
  <2>3. history' \in Histories
    BY <1>1, <2>1, <2>2, HistoryTypes
  <2>4. pipe' \in Seq(Events)
    BY <1>19 DEF SupervisorEnds
  <2> QED BY <1>1, <1>2, <1>4, <1>5, <1>19, <2>3, <2>4 DEF SupervisorEnds, WorkerGone, TurnsTypeOK
<1>20. CASE RecordFailure
  <2> DEFINE t == socket.ask
             late == (history.late /\ nudge.turn # NoTurn) \/ ~(turn.at = "reports" /\ turn.number = t)
             lost == history.forgotten \/ \E n \in DOMAIN pipe :
                       pipe[n].what \in {"fine", "failed"} /\ pipe[n].turn < t
             recorded == history.recorded \cup {t}
             next == [history EXCEPT !.recorded = recorded, !.late = late, !.forgotten = lost]
  <2>1. t \in Nat /\ late \in BOOLEAN /\ lost \in BOOLEAN /\ recorded \in SUBSET Nat
    BY <1>1 DEF Sockets, Histories
  <2>2. /\ socket' \in {[socket EXCEPT !.ask = NoTurn, !.answer = "recorded"],
                        [socket EXCEPT !.ask = NoTurn, !.answer = "refused"]}
        /\ told' \in {told, told \cup {t}} /\ nudge' \in {nudge, NudgeFailed(t)}
        /\ history' \in {history, next}
        /\ TurnTrouble \/ NoTurnTrouble
        /\ UNCHANGED <<home, transcript, alive, turn, reporter, pipe, observer, shown, nudged>>
    BY <1>20 DEF RecordFailure
  <2>3. NudgeFailed(t) \in Nudges
    BY <1>1, <2>1 DEF NudgeFailed, Nudges
  <2> HIDE DEF late, lost, recorded
  <2>4. next \in Histories
    BY <1>1, <2>1, HistoryTypes
  <2> HIDE DEF t, next
  <2>5. socket' \in Sockets
    BY <1>1, <2>2, SocketTypes
  <2> QED BY <1>1, <1>2, <2>1, <2>2, <2>3, <2>4, <2>5 DEF TurnsTypeOK
<1>21. CASE HandleEvent
  <2> DEFINE e == Head(pipe)
             late == history.late /\ nudge'.turn # NoTurn
             over == history.late \/ (e.what = "exit" /\ e.turn # history.settled)
             ended == [history EXCEPT !.settled = e.turn, !.how = e.what, !.woken = FALSE, !.late = late]
             other == [history EXCEPT !.late = over]
  <2>1. e \in Events /\ pipe' \in Seq(Events)
    BY <1>1, <1>21, HeadGone DEF HandleEvent
  <2>2. late \in BOOLEAN /\ over \in BOOLEAN
    BY <1>1 DEF Histories
  <2>3. /\ shown' = (e.what = "start") /\ nudge' \in {nudge, NudgeSettled}
        /\ IF e.what \in {"fine", "failed"} THEN history' = ended ELSE history' = other
        /\ UNCHANGED <<home, transcript, alive, turn, reporter, socket, observer, told, nudged>>
        /\ NoTurnTrouble
    BY <1>21 DEF HandleEvent
  <2>4. NudgeSettled \in Nudges
    BY <1>1 DEF NudgeSettled, Nudges, NoTurn
  <2> HIDE DEF e, late, over
  <2>5. history' \in Histories
    <3>1. e.turn \in Nat
      BY <2>1 DEF Events
    <3>2. e.what \in {"fine", "failed"} => ended \in Histories
      BY <1>1, <2>2, <3>1, HistoryTypes
    <3>3. other \in Histories
      BY <1>1, <2>2, HistoryTypes
    <3> HIDE DEF ended, other
    <3> QED BY <2>3, <3>2, <3>3
  <2> HIDE DEF ended, other
  <2> QED BY <1>1, <1>2, <2>1, <2>3, <2>4, <2>5 DEF TurnsTypeOK
<1>22. CASE NudgeHome
  <2> DEFINE wakes == history.wakes \cup {IF history.late THEN "late" ELSE history.how}
  <2>1. wakes \in SUBSET {"none", "fine", "failed", "late"}
    BY <1>1 DEF Histories
  <2>2. history' = [history EXCEPT !.woken = TRUE, !.late = FALSE, !.wakes = wakes]
    BY <1>22 DEF NudgeHome
  <2> HIDE DEF wakes
  <2>3. history' \in Histories
    BY <1>1, <2>1, <2>2, HistoryTypes
  <2>4. nudge' \in Nudges /\ nudged' \subseteq Nat
    BY <1>1, <1>22 DEF NudgeHome, NoTurn, Nudges
  <2> QED BY <1>1, <1>2, <1>22, <2>3, <2>4 DEF NudgeHome, TurnsTypeOK
<1>23. CASE ObserverDeleted
  BY <1>1, <1>2, <1>23 DEF ObserverDeleted, TurnsTypeOK
<1> QED BY <1>7, <1>8, <1>9, <1>10, <1>11, <1>12, <1>13, <1>14, <1>15, <1>16, <1>17, <1>18, <1>19,
           <1>20, <1>21, <1>22, <1>23 DEF TurnsNext, ReporterStep, SupervisorStep

-----------------------------------------------------------------------------
(* The journal and the reporter. *)

\* A step of the reporter that leaves the transcript and what is pending alone.
LEMMA DrainStep ==
  ASSUME ReportsInv, alive, UNCHANGED <<transcript, alive>>, history'.recorded = history.recorded,
         reporter'.pending = reporter.pending, reporter'.upTo = reporter.upTo,
         DrainOver \/ UNCHANGED turn,
         ReportsFirst(transcript, reporter, socket, history.recorded)'
  PROVE  JournalInv'
<1>1. /\ turn'.number = turn.number
      /\ turn'.at = turn.at \/ (turn.at = "reports" /\ turn'.at = "settles")
      /\ turn'.failed = turn.failed
  BY DEF DrainOver, ReportsInv, TurnsTypeOK, Turns
<1>2. InOrder(transcript, turn)'
  BY <1>1 DEF ReportsInv, JournalInv, InOrder
<1>3. Dead' /\ (turn'.at \in {"journaled", "reports"} => turn'.failed)
  BY <1>1 DEF Dead, ReportsInv, JournalInv
<1>4. Frontier' = Frontier
  BY DEF Frontier
<1>5. /\ Frontier' \in 0..Len(transcript') /\ Told(transcript, history.recorded, Frontier)'
      /\ alive' => reporter'.upTo = Frontier'
  BY <1>4 DEF Told, ReportsInv, JournalInv
<1>6. Attended'
  BY <1>1 DEF Attended, Failures, ReportsInv, JournalInv
<1> QED BY <1>2, <1>3, <1>5, <1>6 DEF JournalInv

\* A drain that begins, ends or is retried has nothing on its way.
LEMMA FirstIdle ==
  ASSUME ReportsInv, UNCHANGED transcript, history'.recorded = history.recorded,
         reporter'.pending = reporter.pending,
         reporter'.drain = "none" \/ (reporter'.drain = "ask" /\ reporter.pending # {}),
         socket'.ask = NoTurn, socket'.answer = "none"
  PROVE  ReportsFirst(transcript, reporter, socket, history.recorded)'
  BY DEF ReportsInv, JournalInv, ReportsFirst

LEMMA FlushFields ==
  ASSUME NEW r \in Reporters, NEW up
  PROVE  /\ Flush(r, up).pending = r.pending /\ Flush(r, up).upTo = r.upTo
         /\ \/ Flush(r, up) = r
            \/ r.drain = "none" /\ Flush(r, up).drain = "ask" /\ r.pending # {}
  BY DEF Flush, Reporters

LEMMA RetriesFields ==
  ASSUME NEW r \in Reporters
  PROVE  Retries(r).pending = r.pending /\ Retries(r).upTo = r.upTo /\ Retries(r).drain = "none"
  BY DEF Retries, Reporters

LEMMA SocketFields ==
  ASSUME NEW s \in Sockets, NEW n, NEW answer
  PROVE  /\ [s EXCEPT !.ask = n].ask = n /\ [s EXCEPT !.ask = n].answer = s.answer
         /\ [s EXCEPT !.ask = n].up = s.up
         /\ [s EXCEPT !.answer = answer].ask = s.ask /\ [s EXCEPT !.answer = answer].answer = answer
         /\ [s EXCEPT !.answer = answer].up = s.up
         /\ [s EXCEPT !.ask = NoTurn, !.answer = answer].ask = NoTurn
         /\ [s EXCEPT !.ask = NoTurn, !.answer = answer].answer = answer
         /\ Down.ask = NoTurn /\ Down.answer = "none" /\ ~Down.up
         /\ [Down EXCEPT !.up = TRUE].ask = NoTurn /\ [Down EXCEPT !.up = TRUE].answer = "none"
<1>1. /\ [s EXCEPT !.ask = n].ask = n /\ [s EXCEPT !.ask = n].answer = s.answer
      /\ [s EXCEPT !.ask = n].up = s.up
  BY DEF Sockets
<1>2. /\ [s EXCEPT !.answer = answer].ask = s.ask /\ [s EXCEPT !.answer = answer].answer = answer
      /\ [s EXCEPT !.answer = answer].up = s.up
  BY DEF Sockets
<1>3. /\ [s EXCEPT !.ask = NoTurn, !.answer = answer].ask = NoTurn
      /\ [s EXCEPT !.ask = NoTurn, !.answer = answer].answer = answer
  BY DEF Sockets
<1>4. /\ Down.ask = NoTurn /\ Down.answer = "none" /\ ~Down.up
      /\ [Down EXCEPT !.up = TRUE].ask = NoTurn /\ [Down EXCEPT !.up = TRUE].answer = "none"
  BY DEF Down
<1> QED BY <1>1, <1>2, <1>3, <1>4

LEMMA DrainSteps ==
  ASSUME ReportsInv, Ask \/ TakeAnswer \/ RetryTimer \/ Connect \/ LoseConnection
  PROVE  JournalInv'
<1>1. reporter \in Reporters /\ socket \in Sockets
  BY DEF ReportsInv, TurnsTypeOK
<1>2. UNCHANGED <<transcript, alive, history>>
  BY DEF Ask, TakeAnswer, RetryTimer, Connect, LoseConnection, supervisorVars
<1>3. ReportsFirst(transcript, reporter, socket, history.recorded)
  BY DEF ReportsInv, JournalInv
<1>4. CASE Ask
  <2>1. DrainOver \/ UNCHANGED turn
    BY <1>4 DEF Ask
  <2>2. CASE socket.up
    <3>1. /\ socket' = [socket EXCEPT !.ask = transcript[First(reporter.pending)].turn]
          /\ reporter' = [reporter EXCEPT !.drain = "wait"] /\ reporter.drain = "ask"
      BY <1>4, <2>2 DEF Ask
    <3>2. /\ reporter'.pending = reporter.pending /\ reporter'.upTo = reporter.upTo
          /\ reporter'.drain = "wait"
      BY <1>1, <3>1 DEF Reporters
    <3>3. /\ socket'.ask = transcript[First(reporter.pending)].turn
          /\ socket'.answer = socket.answer
      BY <1>1, <3>1, SocketFields
    <3>4. ReportsFirst(transcript, reporter, socket, history.recorded)'
      BY <1>2, <1>3, <3>1, <3>2, <3>3 DEF ReportsFirst
    <3> QED BY <1>2, <1>4, <2>1, <3>2, <3>4, DrainStep DEF Ask
  <2>3. CASE ~socket.up
    <3>1. reporter' = Retries(reporter) /\ UNCHANGED socket /\ reporter.drain = "ask"
      BY <1>4, <2>3 DEF Ask
    <3>2. socket.ask = NoTurn /\ socket.answer = "none"
      BY <1>3, <3>1 DEF ReportsFirst
    <3> QED BY <1>1, <1>2, <1>4, <2>1, <3>1, <3>2, RetriesFields, FirstIdle, DrainStep DEF Ask
  <2> QED BY <2>2, <2>3
<1>5. CASE TakeAnswer
  <2>1. (DrainOver \/ UNCHANGED turn) /\ socket' = [socket EXCEPT !.answer = "none"]
    BY <1>5 DEF TakeAnswer
  <2>2. socket'.ask = socket.ask /\ socket'.answer = "none" /\ socket.ask = NoTurn
    BY <1>1, <1>3, <1>5, <2>1, SocketFields DEF TakeAnswer, ReportsFirst
  <2>3. CASE socket.answer = "recorded"
    <3>1. reporter' = [reporter EXCEPT !.drain = "witness"] /\ reporter.drain = "wait"
      BY <1>5, <2>3 DEF TakeAnswer
    <3>2. /\ reporter'.pending = reporter.pending /\ reporter'.upTo = reporter.upTo
          /\ reporter'.drain = "witness"
      BY <1>1, <3>1 DEF Reporters
    <3>3. ReportsFirst(transcript, reporter, socket, history.recorded)'
      BY <1>2, <1>3, <2>2, <2>3, <3>1, <3>2 DEF ReportsFirst
    <3> QED BY <1>2, <1>5, <2>1, <3>2, <3>3, DrainStep DEF TakeAnswer
  <2>4. CASE socket.answer # "recorded"
    <3>1. reporter' = Retries(reporter)
      BY <1>5, <2>4 DEF TakeAnswer
    <3> QED BY <1>1, <1>2, <1>5, <2>1, <2>2, <3>1, RetriesFields, FirstIdle, DrainStep DEF TakeAnswer
  <2> QED BY <2>3, <2>4
<1>6. CASE RetryTimer
  <2> DEFINE r == [reporter EXCEPT !.timer = FALSE]
  <2>1. /\ r \in Reporters /\ r.pending = reporter.pending /\ r.upTo = reporter.upTo
        /\ r.drain = reporter.drain
    BY <1>1 DEF Reporters
  <2>2. reporter' = Flush(r, socket.up) /\ UNCHANGED <<turn, socket>>
    BY <1>6 DEF RetryTimer
  <2> HIDE DEF r
  <2>3. /\ reporter'.pending = reporter.pending /\ reporter'.upTo = reporter.upTo
        /\ \/ reporter'.drain = reporter.drain
           \/ reporter.drain = "none" /\ reporter'.drain = "ask" /\ reporter.pending # {}
    BY <2>1, <2>2, FlushFields
  <2>4. ReportsFirst(transcript, reporter, socket, history.recorded)'
    BY <1>2, <1>3, <2>2, <2>3 DEF ReportsFirst
  <2> QED BY <1>2, <1>6, <2>2, <2>3, <2>4, DrainStep DEF RetryTimer
<1>7. CASE Connect
  <2>1. /\ reporter' = Flush(reporter, TRUE) /\ socket' = [Down EXCEPT !.up = TRUE] /\ UNCHANGED turn
    BY <1>7 DEF Connect
  <2>2. socket'.ask = NoTurn /\ socket'.answer = "none"
    BY <1>1, <2>1, SocketFields
  <2>3. /\ reporter'.pending = reporter.pending /\ reporter'.upTo = reporter.upTo
        /\ \/ reporter'.drain = reporter.drain
           \/ reporter.drain = "none" /\ reporter'.drain = "ask" /\ reporter.pending # {}
    BY <1>1, <2>1, FlushFields
  <2>4. ReportsFirst(transcript, reporter, socket, history.recorded)'
    BY <1>2, <1>3, <2>2, <2>3 DEF ReportsFirst
  <2> QED BY <1>2, <1>7, <2>1, <2>3, <2>4, DrainStep DEF Connect
<1>8. CASE LoseConnection
  <2>1. alive
    <3>1. socket.up
      BY <1>8 DEF LoseConnection
    <3>2. ~alive => socket = Down
      BY DEF ReportsInv, JournalInv, Dead
    <3> QED BY <1>1, <3>1, <3>2, SocketFields
  <2>2. socket' = Down /\ socket'.ask = NoTurn /\ socket'.answer = "none"
    BY <1>1, <1>8, SocketFields DEF LoseConnection
  <2>3. CASE reporter.drain = "wait"
    <3>1. reporter' = Retries(reporter) /\ DrainOver
      BY <1>8, <2>3 DEF LoseConnection
    <3> QED BY <1>1, <1>2, <2>1, <2>2, <3>1, RetriesFields, FirstIdle, DrainStep
  <2>4. CASE reporter.drain # "wait"
    <3>1. UNCHANGED <<reporter, turn>>
      BY <1>8, <2>4 DEF LoseConnection
    <3>2. ReportsFirst(transcript, reporter, socket, history.recorded)'
      BY <1>2, <1>3, <2>2, <3>1 DEF ReportsFirst
    <3> QED BY <1>2, <2>1, <3>1, <3>2, DrainStep
  <2> QED BY <2>3, <2>4
<1> QED BY <1>4, <1>5, <1>6, <1>7, <1>8

\* The witness of the first report: what is before it has receipts too.
LEMMA WriteWitnessJournal ==
  ASSUME ReportsInv, WriteWitness
  PROVE  JournalInv'
<1>1. /\ reporter \in Reporters /\ transcript \in Seq(Entries) /\ turn \in Turns
      /\ InOrder(transcript, turn) /\ ReportsFirst(transcript, reporter, socket, history.recorded)
      /\ alive /\ reporter.drain = "witness"
      /\ UNCHANGED <<alive, socket, history>>
  BY DEF ReportsInv, TurnsTypeOK, JournalInv, WriteWitness, supervisorVars
<1>2. CASE reporter' = Retries(reporter) /\ DrainOver /\ UNCHANGED transcript
  <2>1. socket.ask = NoTurn /\ socket.answer = "none"
    BY <1>1 DEF ReportsFirst
  <2>2. DrainOver \/ UNCHANGED turn
    BY <1>2
  <2>3. socket'.ask = NoTurn /\ socket'.answer = "none"
    BY <1>1, <2>1
  <2>4. /\ reporter'.pending = reporter.pending /\ reporter'.upTo = reporter.upTo
        /\ reporter'.drain = "none"
    BY <1>1, <1>2, RetriesFields
  <2>5. history'.recorded = history.recorded
    BY <1>1
  <2>6. ReportsFirst(transcript, reporter, socket, history.recorded)'
    BY <1>2, <2>3, <2>4, <2>5, FirstIdle
  <2> QED BY <1>1, <1>2, <2>2, <2>4, <2>5, <2>6, DrainStep
<1>3. CASE ~(reporter' = Retries(reporter) /\ DrainOver /\ UNCHANGED transcript)
  <2> DEFINE n == First(reporter.pending)
             rest == reporter.pending \ {n}
             witness == [what |-> "accepted", turn |-> NoTurn, place |-> n]
  <2>1. /\ transcript' = Append(transcript, witness)
        /\ reporter' = [reporter EXCEPT !.pending = rest, !.upTo = n,
                                        !.drain = IF rest = {} THEN "none" ELSE "ask"]
        /\ IF rest = {} THEN DrainOver ELSE UNCHANGED turn
    BY <1>3 DEF WriteWitness, Witnessed
  <2>2. /\ reporter'.pending = rest /\ reporter'.upTo = n
        /\ reporter'.drain = IF rest = {} THEN "none" ELSE "ask"
    BY <1>1, <2>1 DEF Reporters
  <2>3. /\ n \in reporter.pending /\ \A m \in reporter.pending : m \in Nat /\ n <= m
        /\ n \in DOMAIN transcript /\ n \in Nat /\ transcript[n].what = "failed"
    BY <1>1, FirstPending
  <2>4. transcript[n].turn \in history.recorded
    BY <1>1 DEF ReportsFirst
  <2> HIDE DEF n
  <2>5. witness \in Entries /\ witness.what = "accepted" /\ witness.place = n
    BY <2>3 DEF Entries, NoTurn
  <2> HIDE DEF rest, witness
  <2>6. /\ Len(transcript) \in Nat /\ Len(transcript') = Len(transcript) + 1
        /\ DOMAIN transcript = 1..Len(transcript)
        /\ transcript'[Len(transcript) + 1] = witness
        /\ \A i \in DOMAIN transcript : i \in DOMAIN transcript' /\ transcript'[i] = transcript[i]
        /\ \A i \in DOMAIN transcript' : i \in DOMAIN transcript \/ i = Len(transcript) + 1
    BY <1>1, <2>1, <2>5, Appended
  <2>7. \A i \in DOMAIN transcript' : transcript'[i].what = "failed" =>
          i \in DOMAIN transcript /\ transcript'[i] = transcript[i]
    BY <2>5, <2>6
  <2>8. /\ turn'.number = turn.number /\ turn'.failed = turn.failed
        /\ turn'.at = turn.at \/ (turn.at = "reports" /\ turn'.at = "settles")
    BY <1>1, <2>1 DEF DrainOver, Turns
  <2>9. InOrder(transcript, turn)'
    <3>1. /\ \A i \in DOMAIN transcript' : transcript'[i].what = "failed" =>
               /\ transcript'[i].turn \in 1..turn'.number
               /\ turn'.at = "runs" => transcript'[i].turn # turn'.number
          /\ \A i, j \in DOMAIN transcript' :
               transcript'[i].what = "failed" /\ transcript'[j].what = "failed" /\ i < j =>
                 transcript'[i].turn < transcript'[j].turn
      BY <1>1, <2>7, <2>8 DEF InOrder
    <3>2. turn'.at = "journaled" =>
            \E i \in DOMAIN transcript' :
              transcript'[i].what = "failed" /\ transcript'[i].turn = turn'.number
      BY <1>1, <2>6, <2>8 DEF InOrder
    <3> QED BY <3>1, <3>2 DEF InOrder
  <2>10. ReportsFirst(transcript, reporter, socket, history.recorded)'
    <3>1. socket'.ask = NoTurn /\ socket'.answer = "none"
      BY <1>1 DEF ReportsFirst
    <3>2. \A i \in rest : i \in DOMAIN transcript /\ transcript[i].what = "failed"
      BY <1>1 DEF ReportsFirst, rest
    <3> QED BY <2>2, <2>6, <3>1, <3>2 DEF ReportsFirst
  <2>11. Dead' /\ (turn'.at \in {"journaled", "reports"} => turn'.failed)
    BY <1>1, <2>8 DEF Dead, ReportsInv, JournalInv
  <2>12. ASSUME NEW i \in DOMAIN transcript, transcript[i].what = "failed", i <= n
         PROVE  transcript[i].turn \in history.recorded
    <3>1. \/ transcript[i].turn \in history.recorded \/ i \in reporter.pending
          \/ turn.at = "journaled" /\ transcript[i].turn = turn.number
      BY <1>1, <2>12 DEF Attended, Failures, ReportsInv, JournalInv
    <3>2. CASE i \in reporter.pending
      <4>1. i \in Nat /\ n <= i
        BY <2>3, <3>2
      <4> QED BY <2>3, <2>4, <2>12, <4>1
    <3>3. CASE turn.at = "journaled" /\ transcript[i].turn = turn.number
      <4>1. i = FailureOf(turn.number)
        BY <2>12, <3>3, JournaledFailure, OneFailure DEF Failures
      <4>2. n <= i
        BY <2>3, <3>3, <4>1, JournaledFailure DEF Failures
      <4> QED BY <2>3, <2>4, <2>6, <2>12, <4>2
    <3> QED BY <3>1, <3>2, <3>3
  <2>13. Told(transcript', history'.recorded, n)
    BY <1>1, <2>7, <2>12 DEF Told
  <2>14. Frontier' = n
    BY <1>1, <2>1, <2>5, FrontierMoves
  <2>15. Frontier' \in 0..Len(transcript')
    BY <2>3, <2>6, <2>14
  <2>16. Attended'
    <3>1. ASSUME NEW i \in DOMAIN transcript, transcript[i].what = "failed"
          PROVE  \/ transcript[i].turn \in history.recorded \/ i \in rest
                 \/ turn.at = "journaled" /\ transcript[i].turn = turn.number
      BY <1>1, <2>4, <3>1 DEF Attended, Failures, rest, ReportsInv, JournalInv
    <3> QED BY <1>1, <2>2, <2>7, <2>8, <3>1 DEF Attended, Failures
  <2> QED BY <2>2, <2>9, <2>10, <2>11, <2>13, <2>14, <2>15, <2>16 DEF JournalInv
<1> QED BY <1>2, <1>3

\* A step of a turn that neither writes to the transcript nor remembers anything.
LEMMA TurnStep ==
  ASSUME ReportsInv, UNCHANGED <<transcript, alive, reporter, socket>>,
         history'.recorded = history.recorded, alive, turn.at # "journaled",
         turn'.at \notin {"journaled", "reports"}, InOrder(transcript, turn)'
  PROVE  JournalInv'
<1>1. ReportsFirst(transcript, reporter, socket, history.recorded)'
  BY DEF ReportsInv, JournalInv, ReportsFirst
<1>2. Frontier' = Frontier
  BY DEF Frontier
<1>3. /\ Frontier' \in 0..Len(transcript') /\ Told(transcript, history.recorded, Frontier)'
      /\ alive' => reporter'.upTo = Frontier'
  BY <1>2 DEF Told, ReportsInv, JournalInv
<1>4. Dead' /\ (turn'.at \in {"journaled", "reports"} => turn'.failed)
  BY DEF Dead
<1>5. Attended'
  BY DEF Attended, Failures, ReportsInv, JournalInv
<1> QED BY <1>1, <1>3, <1>4, <1>5 DEF JournalInv

LEMMA TurnSteps ==
  ASSUME ReportsInv, BeginTurn \/ Settle
  PROVE  JournalInv'
<1>1. /\ turn \in Turns /\ turn.number \in Nat /\ InOrder(transcript, turn) /\ alive
      /\ UNCHANGED <<transcript, alive, reporter, socket, history>>
  BY TurnTypes DEF ReportsInv, TurnsTypeOK, JournalInv, BeginTurn, Settle, supervisorVars
<1>2. CASE BeginTurn
  <2>1. turn'.number = turn.number + 1 /\ turn'.at = "runs" /\ turn.at = "idle"
    BY <1>2 DEF BeginTurn
  <2>2. \A k \in 1..turn.number : k \in 1..turn.number + 1 /\ k # turn.number + 1
    BY <1>1
  <2>3. InOrder(transcript, turn)'
    BY <1>1, <2>1, <2>2 DEF InOrder
  <2> QED BY <1>1, <2>1, <2>3, TurnStep
<1>3. CASE Settle
  <2>1. turn'.number = turn.number /\ turn'.at = "idle" /\ turn.at = "settles"
    BY <1>1, <1>3 DEF Settle, Turns
  <2>2. InOrder(transcript, turn)'
    BY <1>1, <2>1 DEF InOrder
  <2> QED BY <1>1, <2>1, <2>2, TurnStep
<1> QED BY <1>2, <1>3

\* The failure of the turn that ends stands behind all others.
LEMMA EndTurnJournal ==
  ASSUME ReportsInv, EndTurn
  PROVE  JournalInv'
<1>1. /\ turn \in Turns /\ turn.number \in Nat /\ InOrder(transcript, turn) /\ alive
      /\ transcript \in Seq(Entries) /\ reporter \in Reporters
      /\ ReportsFirst(transcript, reporter, socket, history.recorded)
      /\ UNCHANGED <<alive, reporter, socket, history>> /\ turn.at = "runs"
  BY TurnTypes DEF ReportsInv, TurnsTypeOK, JournalInv, EndTurn, supervisorVars
<1>2. CASE turn' = [turn EXCEPT !.at = "settles"] /\ UNCHANGED transcript
  <2>1. turn'.number = turn.number /\ turn'.at = "settles"
    BY <1>1, <1>2 DEF Turns
  <2>2. InOrder(transcript, turn)'
    BY <1>1, <1>2, <2>1 DEF InOrder
  <2> QED BY <1>1, <1>2, <2>1, <2>2, TurnStep
<1>3. CASE ~(turn' = [turn EXCEPT !.at = "settles"] /\ UNCHANGED transcript)
  <2> DEFINE failure == [what |-> "failed", turn |-> turn.number, place |-> 0]
             last == Len(transcript) + 1
  <2>1. /\ transcript' = Append(transcript, failure)
        /\ turn' = [turn EXCEPT !.at = "journaled", !.failed = TRUE]
    BY <1>3 DEF EndTurn
  <2>2. failure \in Entries /\ failure.what = "failed" /\ failure.turn = turn.number
    BY <1>1 DEF Entries
  <2> HIDE DEF failure
  <2>3. turn'.number = turn.number /\ turn'.at = "journaled" /\ turn'.failed = TRUE
    BY <1>1, <2>1 DEF Turns
  <2>4. /\ Len(transcript) \in Nat /\ Len(transcript') = last /\ last \in DOMAIN transcript'
        /\ DOMAIN transcript = 1..Len(transcript) /\ transcript'[last] = failure
        /\ \A i \in DOMAIN transcript :
             i \in DOMAIN transcript' /\ transcript'[i] = transcript[i] /\ i < last /\ i \in Nat
        /\ \A i \in DOMAIN transcript' : i \in DOMAIN transcript \/ i = last
    BY <1>1, <2>1, <2>2, Appended
  <2>5. \A m \in 0..Len(transcript) : m \in 0..last /\ ~(last <= m)
    BY <2>4
  <2> HIDE DEF last
  <2>6. \A i \in DOMAIN transcript : transcript[i].what = "failed" =>
          transcript[i].turn \in 1..turn.number /\ transcript[i].turn < turn.number
    <3>1. \A t \in 1..turn.number : t # turn.number => t < turn.number
      BY <1>1
    <3> QED BY <1>1, <3>1 DEF InOrder
  <2>7. turn.number \in 1..turn.number
    <3>1. turn.number # 0
      BY <1>1 DEF ReportsInv, PipeInv, InTurn, TurnsTypeOK, Histories
    <3> QED BY <1>1, <3>1
  <2>8. InOrder(transcript, turn)'
    <3>1. \A i \in DOMAIN transcript' : transcript'[i].what = "failed" => transcript'[i].turn \in 1..turn.number
      BY <2>2, <2>4, <2>6, <2>7
    <3>2. ASSUME NEW i \in DOMAIN transcript', NEW j \in DOMAIN transcript',
                 transcript'[i].what = "failed", transcript'[j].what = "failed", i < j
          PROVE  transcript'[i].turn < transcript'[j].turn
      <4>1. i \in DOMAIN transcript
        <5>1. last \in Nat /\ \A m \in DOMAIN transcript : m \in Nat /\ m < last
          BY <2>4
        <5>2. \A m \in Nat : ~(m < m) /\ \A n \in Nat : m < n => ~(n < m)
          OBVIOUS
        <5> QED BY <2>4, <3>2, <5>1, <5>2
      <4>2. CASE j = last
        BY <2>2, <2>4, <2>6, <3>2, <4>1, <4>2
      <4>3. CASE j # last
        BY <1>1, <2>4, <3>2, <4>1, <4>3 DEF InOrder
      <4> QED BY <4>2, <4>3
    <3> QED BY <2>2, <2>3, <2>4, <3>1, <3>2 DEF InOrder
  <2>9. ReportsFirst(transcript, reporter, socket, history.recorded)'
    <3>1. reporter.drain # "none" => First(reporter.pending) \in DOMAIN transcript
      BY FirstPending
    <3>2. reporter.drain # "none" => transcript'[First(reporter.pending)] = transcript[First(reporter.pending)]
      BY <2>4, <3>1
    <3> QED BY <1>1, <2>4, <3>2 DEF ReportsFirst
  <2>10. Frontier' = Frontier /\ Frontier \in 0..Len(transcript)
    BY <1>1, <2>1, <2>2, FrontierMoves DEF ReportsInv, JournalInv
  <2>11. Frontier' \in 0..Len(transcript') /\ Told(transcript, history.recorded, Frontier)'
    BY <1>1, <2>4, <2>5, <2>10 DEF Told, ReportsInv, JournalInv
  <2>12. Attended'
    BY <1>1, <2>2, <2>3, <2>4 DEF Attended, Failures, ReportsInv, JournalInv
  <2>13. Dead' /\ (turn'.at \in {"journaled", "reports"} => turn'.failed)
    BY <1>1, <2>3 DEF Dead
  <2>14. alive' => reporter'.upTo = Frontier'
    BY <1>1, <2>10 DEF ReportsInv, JournalInv
  <2> QED BY <2>8, <2>9, <2>11, <2>12, <2>13, <2>14 DEF JournalInv
<1> QED BY <1>2, <1>3

\* What has just been journaled is remembered, unless a witness says that it was accepted.
LEMMA RememberJournal ==
  ASSUME ReportsInv, Remember
  PROVE  JournalInv'
<1> DEFINE n == FailureOf(turn.number)
           r == IF n <= reporter.upTo THEN reporter ELSE [reporter EXCEPT !.pending = @ \cup {n}]
<1>1. /\ reporter \in Reporters /\ turn \in Turns /\ InOrder(transcript, turn) /\ alive
      /\ ReportsFirst(transcript, reporter, socket, history.recorded)
      /\ UNCHANGED <<transcript, alive, socket, history>> /\ turn.at = "journaled" /\ turn.failed
      /\ reporter' = Flush(r, socket.up)
      /\ turn' = [turn EXCEPT !.at = IF reporter'.drain = "none" THEN "settles" ELSE "reports"]
  BY DEF ReportsInv, TurnsTypeOK, JournalInv, Remember, supervisorVars
<1>2. /\ n \in Failures /\ n \in Nat /\ n \in DOMAIN transcript /\ transcript[n].what = "failed"
      /\ transcript[n].turn = turn.number
      /\ \A m \in Failures : m <= n /\ (transcript[m].turn = turn.number => m = n)
  BY <1>1, JournaledFailure, OneFailure DEF Failures
<1> HIDE DEF n
<1>3. /\ turn'.number = turn.number /\ turn'.failed /\ turn'.at \in {"settles", "reports"}
  BY <1>1 DEF Turns
<1>4. /\ r \in Reporters /\ r.drain = reporter.drain /\ r.upTo = reporter.upTo
      /\ r.pending = IF n <= reporter.upTo THEN reporter.pending ELSE reporter.pending \cup {n}
  BY <1>1, <1>2 DEF Reporters
<1> HIDE DEF r
<1>5. /\ reporter'.pending = r.pending /\ reporter'.upTo = reporter.upTo
      /\ \/ reporter'.drain = reporter.drain
         \/ reporter.drain = "none" /\ reporter'.drain = "ask" /\ r.pending # {}
  BY <1>1, <1>4, FlushFields
<1>6. InOrder(transcript, turn)'
  BY <1>1, <1>3 DEF InOrder
<1>7. Frontier' = Frontier /\ reporter.upTo = Frontier
  BY <1>1 DEF Frontier, ReportsInv, JournalInv
<1>8. /\ Frontier' \in 0..Len(transcript') /\ Told(transcript, history.recorded, Frontier)'
      /\ alive' => reporter'.upTo = Frontier'
  BY <1>1, <1>5, <1>7 DEF Told, ReportsInv, JournalInv
<1>9. /\ \A m \in r.pending : m \in DOMAIN transcript /\ transcript[m].what = "failed"
      /\ reporter.pending \subseteq r.pending
  BY <1>1, <1>2, <1>4 DEF ReportsFirst
<1>10. reporter.drain # "none" => First(r.pending) = First(reporter.pending)
  <2>1. \A m \in reporter.pending : m <= n
    BY <1>1, <1>2 DEF ReportsFirst, Failures
  <2>2. reporter.drain # "none" => reporter.pending # {}
    BY <1>1 DEF ReportsFirst
  <2>3. reporter.pending \in SUBSET Nat
    BY <1>1, ReporterTypes
  <2> QED BY <1>2, <1>4, <2>1, <2>2, <2>3, FirstStays
<1>11. ReportsFirst(transcript, reporter, socket, history.recorded)'
  <2>1. CASE reporter'.drain = reporter.drain
    <3>1. reporter.drain # "none" => r.pending # {}
      BY <1>1, <1>9 DEF ReportsFirst
    <3> QED BY <1>1, <1>5, <1>9, <1>10, <2>1, <3>1 DEF ReportsFirst
  <2>2. CASE reporter.drain = "none" /\ reporter'.drain = "ask" /\ r.pending # {}
    <3>1. socket.ask = NoTurn /\ socket.answer = "none"
      BY <1>1, <2>2 DEF ReportsFirst
    <3> QED BY <1>1, <1>5, <1>9, <2>2, <3>1 DEF ReportsFirst
  <2> QED BY <1>5, <2>1, <2>2
<1>12. ASSUME NEW m \in Failures
       PROVE  transcript[m].turn \in history.recorded \/ m \in r.pending
  <2>1. \/ transcript[m].turn \in history.recorded \/ m \in reporter.pending
        \/ transcript[m].turn = turn.number
    BY <1>1 DEF Attended, ReportsInv, JournalInv
  <2>2. CASE transcript[m].turn = turn.number
    <3>1. m = n
      BY <1>2, <2>2
    <3>2. n <= Frontier => transcript[n].turn \in history.recorded
      BY <1>2 DEF Told, ReportsInv, JournalInv
    <3> QED BY <1>4, <1>7, <3>1, <3>2
  <2> QED BY <1>9, <2>1, <2>2
<1>13. Attended'
  BY <1>1, <1>5, <1>12 DEF Attended, Failures
<1>14. Dead' /\ (turn'.at \in {"journaled", "reports"} => turn'.failed)
  BY <1>1, <1>3 DEF Dead
<1> QED BY <1>6, <1>8, <1>11, <1>13, <1>14 DEF JournalInv

\* A worker that starts remembers what is behind the frontier.
LEMMA StartWorkerJournal ==
  ASSUME ReportsInv, StartWorker
  PROVE  JournalInv'
<1>1. /\ turn.at = "idle" /\ socket = Down /\ InOrder(transcript, turn) /\ alive'
      /\ transcript \in Seq(Entries)
      /\ UNCHANGED <<transcript, turn, socket, history>>
      /\ reporter' = [NoReporter EXCEPT !.pending = Unaccepted, !.upTo = Frontier]
  BY DEF ReportsInv, TurnsTypeOK, JournalInv, Dead, StartWorker, supervisorVars
<1>2. reporter'.pending = Unaccepted /\ reporter'.upTo = Frontier /\ reporter'.drain = "none"
  BY <1>1 DEF NoReporter
<1>3. Frontier' = Frontier
  BY <1>1 DEF Frontier
<1>4. InOrder(transcript, turn)'
  BY <1>1 DEF InOrder
<1>5. ReportsFirst(transcript, reporter, socket, history.recorded)'
  <2>1. socket'.ask = NoTurn /\ socket'.answer = "none"
    BY <1>1 DEF Down
  <2> QED BY <1>1, <1>2, <2>1 DEF ReportsFirst, Unaccepted
<1>6. Dead' /\ (turn'.at \in {"journaled", "reports"} => turn'.failed)
  BY <1>1 DEF Dead
<1>7. /\ Frontier' \in 0..Len(transcript') /\ Told(transcript, history.recorded, Frontier)'
      /\ alive' => reporter'.upTo = Frontier'
  BY <1>1, <1>2, <1>3 DEF Told, ReportsInv, JournalInv
<1>8. ASSUME NEW n \in Failures
      PROVE  transcript[n].turn \in history.recorded \/ n \in Unaccepted
  <2>1. n \in Nat /\ Frontier \in Nat
    BY <1>1 DEF Failures, ReportsInv, JournalInv
  <2>2. n > Frontier \/ n <= Frontier
    BY <2>1
  <2> QED BY <2>2 DEF Failures, Unaccepted, Told, ReportsInv, JournalInv
<1>9. Attended'
  BY <1>1, <1>2, <1>8 DEF Attended, Failures
<1> QED BY <1>4, <1>5, <1>6, <1>7, <1>9 DEF JournalInv

LEMMA WorkerGoneJournal ==
  ASSUME ReportsInv, WorkerDies \/ SupervisorEnds
  PROVE  JournalInv'
<1>1. WorkerGone /\ UNCHANGED transcript /\ turn \in Turns /\ InOrder(transcript, turn)
  BY DEF WorkerDies, SupervisorEnds, ReportsInv, TurnsTypeOK, JournalInv
<1>2. history'.recorded = history.recorded
  BY DEF WorkerDies, SupervisorEnds, supervisorVars, ReportsInv, TurnsTypeOK, Histories
<1>3. turn'.number = turn.number /\ turn'.at = "idle" /\ ~alive' /\ reporter' = NoReporter /\ socket' = Down
  BY <1>1 DEF WorkerGone, Turns
<1>4. InOrder(transcript, turn)'
  BY <1>1, <1>3 DEF InOrder
<1>5. ReportsFirst(transcript, reporter, socket, history.recorded)'
  <2>1. socket'.ask = NoTurn /\ socket'.answer = "none"
    BY <1>3 DEF Down
  <2>2. reporter'.pending = {} /\ reporter'.drain = "none"
    BY <1>3 DEF NoReporter
  <2> QED BY <2>1, <2>2 DEF ReportsFirst
<1>6. Frontier' = Frontier
  BY <1>1 DEF Frontier
<1>7. Frontier' \in 0..Len(transcript') /\ Told(transcript, history.recorded, Frontier)'
  BY <1>1, <1>2, <1>6 DEF Told, ReportsInv, JournalInv
<1> QED BY <1>3, <1>4, <1>5, <1>7 DEF Dead, Attended, JournalInv

\* A receipt is for the first of what is pending.
LEMMA RecordFailureJournal ==
  ASSUME ReportsInv, RecordFailure
  PROVE  JournalInv'
<1>1. /\ socket \in Sockets /\ history \in Histories
      /\ ReportsFirst(transcript, reporter, socket, history.recorded)
      /\ UNCHANGED <<transcript, alive, turn, reporter>> /\ socket.ask # NoTurn
  BY DEF ReportsInv, TurnsTypeOK, JournalInv, RecordFailure
<1>2. socket'.ask = NoTurn
  <2>1. \E answer : socket' = [socket EXCEPT !.ask = NoTurn, !.answer = answer]
    BY DEF RecordFailure
  <2> QED BY <1>1, <2>1 DEF Sockets
<1>3. /\ socket'.answer # "none" => reporter.drain = "wait"
      /\ history.recorded \subseteq history'.recorded
      /\ socket'.answer = "recorded" \/ reporter.drain = "witness" =>
           transcript[First(reporter.pending)].turn \in history'.recorded
  <2>1. reporter.drain = "wait" /\ socket.ask = transcript[First(reporter.pending)].turn
    BY <1>1 DEF ReportsFirst
  <2>2. CASE socket' = [socket EXCEPT !.ask = NoTurn, !.answer = "refused"] /\ UNCHANGED history
    <3>1. socket'.answer = "refused"
      BY <1>1, <2>2 DEF Sockets
    <3> QED BY <2>1, <2>2, <3>1
  <2>3. CASE ~(socket' = [socket EXCEPT !.ask = NoTurn, !.answer = "refused"] /\ UNCHANGED history)
    <3> DEFINE late == (history.late /\ nudge.turn # NoTurn)
                       \/ ~(turn.at = "reports" /\ turn.number = socket.ask)
               lost == history.forgotten \/ \E n \in DOMAIN pipe :
                         pipe[n].what \in {"fine", "failed"} /\ pipe[n].turn < socket.ask
    <3>1. history' = [history EXCEPT !.recorded = @ \cup {socket.ask}, !.late = late, !.forgotten = lost]
      BY <2>3 DEF RecordFailure
    <3> HIDE DEF late, lost
    <3>2. history'.recorded = history.recorded \cup {socket.ask}
      BY <1>1, <3>1 DEF Histories
    <3> QED BY <2>1, <3>2
  <2> QED BY <2>2, <2>3
<1>4. ReportsFirst(transcript, reporter, socket, history.recorded)'
  BY <1>1, <1>2, <1>3 DEF ReportsFirst
<1>5. InOrder(transcript, turn)' /\ Dead' /\ (turn'.at \in {"journaled", "reports"} => turn'.failed)
  <2>1. alive
    <3>1. reporter.drain = "wait"
      BY <1>1 DEF ReportsFirst
    <3>2. NoReporter.drain = "none"
      BY DEF NoReporter
    <3> QED BY <3>1, <3>2 DEF ReportsInv, JournalInv, Dead
  <2> QED BY <1>1, <2>1 DEF InOrder, Dead, ReportsInv, JournalInv
<1>6. Frontier' = Frontier
  BY <1>1 DEF Frontier
<1>7. /\ Frontier' \in 0..Len(transcript') /\ Told(transcript, history.recorded, Frontier)'
      /\ alive' => reporter'.upTo = Frontier'
  BY <1>1, <1>3, <1>6 DEF Told, ReportsInv, JournalInv
<1>8. Attended'
  BY <1>1, <1>3 DEF Attended, Failures, ReportsInv, JournalInv
<1> QED BY <1>4, <1>5, <1>7, <1>8 DEF JournalInv

\* What the supervisor does with the worker's events is nothing to the journal.
LEMMA OtherSteps ==
  ASSUME ReportsInv, HandleEvent \/ NudgeHome \/ ObserverDeleted
  PROVE  JournalInv'
<1>1. UNCHANGED <<transcript, alive, turn, reporter, socket>>
  BY DEF HandleEvent, NudgeHome, ObserverDeleted
<1>2. history'.recorded = history.recorded
  <2>1. history \in Histories
    BY DEF ReportsInv, TurnsTypeOK
  <2>2. CASE HandleEvent
    <3> DEFINE e == Head(pipe)
               late == history.late /\ nudge'.turn # NoTurn
               over == history.late \/ (e.what = "exit" /\ e.turn # history.settled)
    <3>1. \/ history' = [history EXCEPT !.settled = e.turn, !.how = e.what, !.woken = FALSE, !.late = late]
          \/ history' = [history EXCEPT !.late = over]
      BY <2>2 DEF HandleEvent
    <3> HIDE DEF e, late, over
    <3> QED BY <2>1, <3>1 DEF Histories
  <2>3. CASE NudgeHome
    <3>1. \E wakes : history' = [history EXCEPT !.woken = TRUE, !.late = FALSE, !.wakes = wakes]
      BY <2>3 DEF NudgeHome
    <3> QED BY <2>1, <3>1 DEF Histories
  <2>4. CASE ObserverDeleted
    BY <2>4 DEF ObserverDeleted
  <2> QED BY <2>2, <2>3, <2>4
<1>3. Frontier' = Frontier
  BY <1>1 DEF Frontier
<1>4. Dead'
  BY <1>1 DEF Dead, ReportsInv, JournalInv
<1>5. InOrder(transcript, turn)' /\ (turn'.at \in {"journaled", "reports"} => turn'.failed)
  BY <1>1 DEF InOrder, ReportsInv, JournalInv
<1>6. ReportsFirst(transcript, reporter, socket, history.recorded)'
  BY <1>1, <1>2 DEF ReportsFirst, ReportsInv, JournalInv
<1>7. /\ Frontier' \in 0..Len(transcript') /\ Told(transcript, history.recorded, Frontier)'
      /\ alive' => reporter'.upTo = Frontier'
  BY <1>1, <1>2, <1>3 DEF Told, ReportsInv, JournalInv
<1>8. Attended'
  BY <1>1, <1>2 DEF Attended, Failures, ReportsInv, JournalInv
<1> QED BY <1>4, <1>5, <1>6, <1>7, <1>8 DEF JournalInv

-----------------------------------------------------------------------------
(* The pipe and the nudge. *)

\* A step that neither sends nor handles an event, and begins and ends no turn.
LEMMA PipeKept ==
  ASSUME ReportsInv, UNCHANGED <<home, pipe, shown, nudge, history>>, turn'.number = turn.number,
         turn'.at = "idle" <=> turn.at = "idle", turn.failed => turn'.failed
  PROVE  PipeInv'
<1>1. InTurn(pipe, turn, history.settled, shown)'
  BY DEF ReportsInv, PipeInv, InTurn
<1>2. \A n : Open(pipe, turn, history.settled, n) => Open(pipe, turn, history.settled, n)'
  BY DEF Open
<1>3. NudgeIsOpen'
  BY <1>2 DEF ReportsInv, PipeInv, NudgeIsOpen
<1> QED BY <1>1, <1>3 DEF ReportsInv, PipeInv, NudgesAreDue

LEMMA QuietSteps ==
  ASSUME ReportsInv,
         \/ Ask \/ TakeAnswer \/ WriteWitness \/ RetryTimer \/ Connect \/ LoseConnection
         \/ Remember \/ EndTurn \/ StartWorker \/ ObserverDeleted
  PROVE  PipeInv'
<1>1. turn \in Turns
  BY DEF ReportsInv, TurnsTypeOK
<1>2. UNCHANGED <<home, pipe, shown, nudge, history>>
  BY DEF Ask, TakeAnswer, WriteWitness, RetryTimer, Connect, LoseConnection, Remember, EndTurn,
         StartWorker, ObserverDeleted, supervisorVars
<1>3. /\ turn'.number = turn.number /\ (turn'.at = "idle" <=> turn.at = "idle")
      /\ turn.failed => turn'.failed
  <2>1. CASE DrainOver \/ UNCHANGED turn
    BY <1>1, <2>1 DEF DrainOver, Turns
  <2>2. CASE Remember
    <3>1. PICK at \in {"settles", "reports"} : turn' = [turn EXCEPT !.at = at]
      BY <2>2 DEF Remember
    <3>2. turn.at = "journaled"
      BY <2>2 DEF Remember
    <3> QED BY <1>1, <3>1, <3>2 DEF Turns
  <2>3. CASE EndTurn
    <3>1. turn.at = "runs" /\ (\/ turn' = [turn EXCEPT !.at = "settles"]
                               \/ turn' = [turn EXCEPT !.at = "journaled", !.failed = TRUE])
      BY <2>3 DEF EndTurn
    <3> QED BY <1>1, <3>1 DEF Turns
  <2>4. (Ask \/ TakeAnswer \/ WriteWitness \/ LoseConnection) => DrainOver \/ UNCHANGED turn
    BY DEF Ask, TakeAnswer, WriteWitness, LoseConnection
  <2>5. (RetryTimer \/ Connect \/ StartWorker \/ ObserverDeleted) => UNCHANGED turn
    BY DEF RetryTimer, Connect, StartWorker, ObserverDeleted
  <2> QED BY <2>1, <2>2, <2>3, <2>4, <2>5
<1> QED BY <1>2, <1>3, PipeKept

\* An event is sent when a turn begins or ends; a failing turn that ends says so.
LEMMA PipeGrows ==
  ASSUME ReportsInv, NEW e \in Events, pipe' = Append(pipe, e), UNCHANGED <<home, shown, nudge, history>>,
         turn'.number \in Nat, turn.number <= turn'.number, e.turn = turn'.number,
         turn'.at # "idle" => e.what = "start" /\ turn.number < turn'.number,
         \A n \in Nat : Open(pipe, turn, history.settled, n) =>
           /\ ~(e.what = "fine" /\ e.turn = n)
           /\ turn.at # "idle" /\ turn.failed /\ n = turn.number =>
                e.what \in {"failed", "exit"} /\ e.turn = n
  PROVE  PipeInv'
<1> DEFINE last == Len(pipe) + 1
<1>1. /\ pipe \in Seq(Events) /\ turn \in Turns /\ history \in Histories
      /\ InTurn(pipe, turn, history.settled, shown)
  BY DEF ReportsInv, TurnsTypeOK, PipeInv
<1>2. /\ Len(pipe) \in Nat /\ Len(pipe') = last /\ DOMAIN pipe' = 1..last /\ last \in DOMAIN pipe'
      /\ pipe'[last] = e /\ last \in Nat /\ last # 0 /\ DOMAIN pipe \subseteq Nat
      /\ \A i \in DOMAIN pipe : i \in DOMAIN pipe' /\ pipe'[i] = pipe[i] /\ i < last
      /\ \A i \in DOMAIN pipe' : i \in DOMAIN pipe \/ i = last
      /\ \A i \in DOMAIN pipe : pipe[i] \in Events /\ pipe[i].turn \in Nat
  <2>1. \A i \in DOMAIN pipe : pipe[i] \in Events
    BY <1>1
  <2>2. \A i \in DOMAIN pipe : pipe[i].turn \in Nat
    BY <2>1 DEF Events
  <2>3. Len(pipe) \in Nat => last \in Nat /\ last # 0 /\ last \in 1..last
    OBVIOUS
  <2>4. DOMAIN pipe \subseteq Nat
    BY <1>1
  <2> QED BY <1>1, <2>1, <2>2, <2>3, <2>4, Appended
<1> HIDE DEF last
<1>3. turn.number \in Nat /\ history.settled \in Nat
  BY <1>1 DEF Turns, Histories
<1>4. \A k \in Nat : k <= turn.number =>
        k <= turn'.number /\ (turn.number < turn'.number => k < turn'.number)
  BY <1>3
<1>5. InTurn(pipe, turn, history.settled, shown)'
  <2>1. \A i \in DOMAIN pipe' : pipe'[i].turn <= turn'.number
    <3>1. turn'.number <= turn'.number
      OBVIOUS
    <3> QED BY <1>1, <1>2, <1>4, <3>1 DEF InTurn
  <2>2. ASSUME NEW i \in DOMAIN pipe', NEW j \in DOMAIN pipe', i <= j
        PROVE  pipe'[i].turn <= pipe'[j].turn
    <3>1. CASE j = last
      BY <1>2, <2>1, <3>1
    <3>2. CASE j # last
      <4>1. \A m \in Nat : m < last => ~(last <= m)
        BY <1>2
      <4>2. j \in DOMAIN pipe /\ i \in DOMAIN pipe
        BY <1>2, <2>2, <3>2, <4>1
      <4> QED BY <1>1, <1>2, <2>2, <4>2 DEF InTurn
    <3> QED BY <3>1, <3>2
  <2>3. history'.settled <= turn'.number /\ (turn'.at # "idle" => history'.settled < turn'.number)
    BY <1>1, <1>3, <1>4 DEF InTurn
  <2>4. ASSUME turn'.at # "idle"
        PROVE  /\ \A i \in DOMAIN pipe' : pipe'[i].what # "start" => pipe'[i].turn < turn'.number
               /\ Len(pipe') # 0 /\ pipe'[Len(pipe')].what = "start"
    BY <1>1, <1>2, <1>4, <2>4 DEF InTurn
  <2> QED BY <2>1, <2>2, <2>3, <2>4 DEF InTurn
<1>6. \A n \in Nat : Open(pipe, turn, history.settled, n) => Open(pipe, turn, history.settled, n)'
  BY <1>2 DEF Open
<1>7. NudgeIsOpen'
  BY <1>6 DEF ReportsInv, PipeInv, NudgeIsOpen
<1> QED BY <1>5, <1>7 DEF ReportsInv, PipeInv, NudgesAreDue

LEMMA SendingSteps ==
  ASSUME ReportsInv, BeginTurn \/ Settle \/ WorkerDies
  PROVE  PipeInv'
<1>1. /\ turn \in Turns /\ turn.number \in Nat /\ history \in Histories /\ pipe \in Seq(Events)
      /\ InTurn(pipe, turn, history.settled, shown) /\ \A i \in DOMAIN pipe : pipe[i].turn \in Nat
  <2>1. \A i \in DOMAIN pipe : pipe \in Seq(Events) => pipe[i] \in Events
    OBVIOUS
  <2>2. turn \in Turns => turn.number \in Nat
    BY DEF Turns
  <2> QED BY <2>1, <2>2 DEF Events, ReportsInv, TurnsTypeOK, PipeInv
<1>2. UNCHANGED <<home, shown, nudge, history>>
  BY DEF BeginTurn, Settle, WorkerDies, supervisorVars
<1>3. CASE BeginTurn
  <2> DEFINE e == [what |-> "start", turn |-> turn'.number]
  <2>1. pipe' = Append(pipe, e) /\ turn'.number = turn.number + 1 /\ turn.at = "idle"
    BY <1>3 DEF BeginTurn
  <2>2. turn'.number \in Nat /\ turn.number <= turn'.number /\ turn.number < turn'.number
    BY <1>1, <2>1
  <2>3. e \in Events /\ e.turn = turn'.number /\ e.what = "start"
    BY <2>2 DEF Events
  <2> HIDE DEF e
  <2> QED BY <1>2, <2>1, <2>2, <2>3, PipeGrows
<1>4. CASE Settle
  <2> DEFINE what == IF turn.failed THEN "failed" ELSE "fine"
             e == [what |-> what, turn |-> turn.number]
  <2>1. /\ pipe' = Append(pipe, e) /\ turn'.number = turn.number /\ turn'.at = "idle"
        /\ turn.at = "settles"
    BY <1>1, <1>4 DEF Settle, Turns
  <2>2. turn.number <= turn'.number
    BY <1>1, <2>1
  <2>3. e \in Events /\ e.turn = turn.number /\ e.what = what
    BY <1>1 DEF Events
  <2> HIDE DEF e
  <2>4. ASSUME NEW n \in Nat, Open(pipe, turn, history.settled, n)
        PROVE  /\ ~(e.what = "fine" /\ e.turn = n)
               /\ turn.at # "idle" /\ turn.failed /\ n = turn.number =>
                    e.what \in {"failed", "exit"} /\ e.turn = n
    <3>1. CASE turn.failed
      BY <2>3, <3>1
    <3>2. CASE ~turn.failed
      <4>1. PICK i \in DOMAIN pipe : pipe[i].what \in {"failed", "exit"} /\ pipe[i].turn = n
        BY <2>4, <3>2 DEF Open
      <4>2. n < turn.number
        BY <1>1, <2>1, <4>1 DEF InTurn
      <4>3. n # turn.number
        BY <1>1, <4>2
      <4> QED BY <2>3, <3>2, <4>3
    <3> QED BY <3>1, <3>2
  <2> QED BY <1>1, <1>2, <2>1, <2>2, <2>3, <2>4, PipeGrows
<1>5. CASE WorkerDies
  <2> DEFINE e == [what |-> "exit", turn |-> turn.number]
  <2>1. pipe' = Append(pipe, e) /\ turn'.number = turn.number /\ turn'.at = "idle"
    BY <1>1, <1>5 DEF WorkerDies, WorkerGone, Turns
  <2>2. turn.number <= turn'.number
    BY <1>1, <2>1
  <2>3. e \in Events /\ e.turn = turn.number /\ e.what = "exit"
    BY <1>1 DEF Events
  <2> HIDE DEF e
  <2> QED BY <1>1, <1>2, <2>1, <2>2, <2>3, PipeGrows
<1> QED BY <1>3, <1>4, <1>5

LEMMA SupervisorEndsPipe ==
  ASSUME ReportsInv, SupervisorEnds
  PROVE  PipeInv'
<1>1. /\ turn \in Turns /\ history \in Histories /\ InTurn(pipe, turn, history.settled, shown)
      /\ pipe' = <<>> /\ nudge'.turn = NoTurn /\ turn' = [turn EXCEPT !.at = "idle"] /\ UNCHANGED home
  BY DEF ReportsInv, TurnsTypeOK, PipeInv, SupervisorEnds, WorkerGone
<1>2. turn'.at = "idle" /\ turn'.number = turn.number
  BY <1>1 DEF Turns
<1>3. history'.settled = history.settled /\ history'.wakes = history.wakes
  <2> DEFINE forgotten == history.forgotten \/ nudge.turn # NoTurn \/ pipe # <<>>
  <2>1. history' = [history EXCEPT !.late = FALSE, !.forgotten = forgotten]
    BY DEF SupervisorEnds
  <2> HIDE DEF forgotten
  <2> QED BY <1>1, <2>1 DEF Histories
<1>4. InTurn(pipe, turn, history.settled, shown)'
  BY <1>1, <1>2, <1>3 DEF InTurn
<1> QED BY <1>1, <1>3, <1>4 DEF ReportsInv, PipeInv, NudgeIsOpen, NudgesAreDue

\* A report that is not late is that of the turn under way, which fails.
LEMMA RecordFailurePipe ==
  ASSUME ReportsInv, RecordFailure
  PROVE  PipeInv'
<1>1. /\ turn \in Turns /\ history \in Histories /\ InTurn(pipe, turn, history.settled, shown)
      /\ UNCHANGED <<home, turn, pipe, shown>>
  BY DEF ReportsInv, TurnsTypeOK, PipeInv, RecordFailure
<1>2. CASE UNCHANGED <<nudge, history>>
  BY <1>1, <1>2, PipeKept
<1>3. CASE ~UNCHANGED <<nudge, history>>
  <2> DEFINE late == (history.late /\ nudge.turn # NoTurn)
                     \/ ~(turn.at = "reports" /\ turn.number = socket.ask)
             lost == history.forgotten \/ \E n \in DOMAIN pipe :
                       pipe[n].what \in {"fine", "failed"} /\ pipe[n].turn < socket.ask
             recorded == history.recorded \cup {socket.ask}
  <2>1. /\ history' = [history EXCEPT !.recorded = recorded, !.late = late, !.forgotten = lost]
        /\ nudge' = IF home THEN NudgeFailed(socket.ask) ELSE nudge
    BY <1>3 DEF RecordFailure
  <2> HIDE DEF late, lost, recorded
  <2>2. /\ history'.settled = history.settled /\ history'.how = history.how
        /\ history'.wakes = history.wakes /\ history'.late = late
    BY <1>1, <2>1 DEF Histories
  <2>3. InTurn(pipe, turn, history.settled, shown)'
    BY <1>1, <2>2
  <2>4. ~late => Open(pipe, turn, history.settled, turn.number)' /\ turn.number \in Nat
    <3>1. SUFFICES ASSUME ~late
                   PROVE  Open(pipe, turn, history.settled, turn.number) /\ turn.number \in Nat
      BY <1>1, <2>2
    <3>2. turn.at = "reports" /\ turn.failed
      BY <3>1 DEF late, ReportsInv, JournalInv
    <3>3. turn.number \in Nat /\ history.settled < turn.number
      BY <1>1, <3>2 DEF InTurn, Turns
    <3>4. turn.number > history.settled /\ ~(turn.number < turn.number)
      BY <1>1, <3>3 DEF Histories
    <3>5. \A i \in DOMAIN pipe : ~(pipe[i].what = "fine" /\ pipe[i].turn = turn.number)
      BY <1>1, <3>2, <3>4 DEF InTurn
    <3> QED BY <3>2, <3>3, <3>4, <3>5 DEF Open
  <2>5. NudgeIsOpen'
    <3>1. ~home' => nudge'.turn = NoTurn
      BY <1>1, <2>1 DEF ReportsInv, PipeInv, NudgeIsOpen
    <3>2. ~history'.late => \E n \in Nat : Open(pipe, turn, history.settled, n)'
      BY <1>1, <2>2, <2>4
    <3> QED BY <3>1, <3>2 DEF NudgeIsOpen
  <2> QED BY <2>2, <2>3, <2>5 DEF ReportsInv, PipeInv, NudgesAreDue
<1> QED BY <1>2, <1>3

\* The supervisor takes the event at the head of the pipe.
LEMMA HandleEventPipe ==
  ASSUME ReportsInv, HandleEvent
  PROVE  PipeInv'
<1> DEFINE e == Head(pipe)
           rest == Tail(pipe)
           late == history.late /\ nudge'.turn # NoTurn
           over == history.late \/ (e.what = "exit" /\ e.turn # history.settled)
<1>1. /\ turn \in Turns /\ history \in Histories /\ nudge \in Nudges /\ pipe \in Seq(Events)
      /\ pipe # <<>> /\ pipe' = rest /\ shown' = (e.what = "start")
      /\ InTurn(pipe, turn, history.settled, shown) /\ NudgeIsOpen /\ UNCHANGED <<home, turn>>
  BY DEF ReportsInv, TurnsTypeOK, PipeInv, HandleEvent
<1>2. /\ e.what \in {"fine", "failed"} =>
           /\ nudge' = IF home THEN NudgeSettled ELSE nudge
           /\ history' = [history EXCEPT !.settled = e.turn, !.how = e.what, !.woken = FALSE, !.late = late]
      /\ e.what \notin {"fine", "failed"} =>
           nudge' = nudge /\ history' = [history EXCEPT !.late = over]
  BY DEF HandleEvent
<1>3. /\ e \in Events /\ e = pipe[1] /\ 1 \in DOMAIN pipe
      /\ \A i \in DOMAIN pipe : i \in Nat /\ 1 <= i
      /\ \A i \in DOMAIN rest : i + 1 \in DOMAIN pipe /\ rest[i] = pipe[i + 1] /\ i \in Nat
      /\ \A i \in DOMAIN pipe : i = 1 \/ (i - 1 \in DOMAIN rest /\ rest[i - 1] = pipe[i])
      /\ Len(rest) # 0 => rest[Len(rest)] = pipe[Len(pipe)]
      /\ Len(rest) = 0 => Len(pipe) = 1
  <2>1. rest \in Seq(Events)
    BY <1>1, HeadGone
  <2>2. \A i \in DOMAIN rest : i \in Nat
    BY <2>1
  <2> HIDE DEF rest
  <2> QED BY <1>1, <2>2, HeadGone DEF rest
<1> HIDE DEF e, rest, late, over
<1>4. /\ e.what \in {"fine", "failed"} =>
           /\ history'.settled = e.turn /\ history'.how = e.what
           /\ history'.wakes = history.wakes /\ history'.late = late
      /\ e.what \notin {"fine", "failed"} =>
           /\ history'.settled = history.settled /\ history'.how = history.how
           /\ history'.wakes = history.wakes /\ history'.late = over
  BY <1>1, <1>2 DEF Histories
<1>5. e.turn \in Nat /\ turn.number \in Nat /\ history.settled \in Nat /\ Len(pipe) # 0
  BY <1>1, <1>3 DEF Events, Turns, Histories
<1>6. \A i \in DOMAIN pipe : e.turn <= pipe[i].turn /\ pipe[i].turn \in Nat
  <2>1. \A i \in DOMAIN pipe : pipe[i] \in Events
    BY <1>1
  <2> QED BY <1>1, <1>3, <2>1 DEF InTurn, Events
<1>7. InTurn(pipe, turn, history.settled, shown)'
  <2>1. \A i, j \in Nat : i <= j => i + 1 <= j + 1
    OBVIOUS
  <2>2. /\ \A i \in DOMAIN rest : rest[i].turn <= turn.number
        /\ \A i, j \in DOMAIN rest : i <= j => rest[i].turn <= rest[j].turn
    BY <1>1, <1>3, <2>1 DEF InTurn
  <2>3. history'.settled <= turn.number
    BY <1>1, <1>3, <1>4 DEF InTurn
  <2>4. ASSUME turn.at # "idle"
        PROVE  /\ \A i \in DOMAIN rest : rest[i].what # "start" => rest[i].turn < turn.number
               /\ history'.settled < turn.number
               /\ IF Len(rest) = 0 THEN shown' ELSE rest[Len(rest)].what = "start"
    <3>1. \A i \in DOMAIN rest : rest[i].what # "start" => rest[i].turn < turn.number
      BY <1>1, <1>3, <2>4 DEF InTurn
    <3>2. history'.settled < turn.number
      BY <1>1, <1>3, <1>4, <2>4 DEF InTurn
    <3>3. pipe[Len(pipe)].what = "start"
      BY <1>1, <1>5, <2>4 DEF InTurn
    <3> QED BY <1>1, <1>3, <3>1, <3>2, <3>3
  <2> QED BY <1>1, <2>2, <2>3, <2>4 DEF InTurn
\* The failing turn that the nudge waits for is not that of the event.
<1>8. ASSUME NEW n \in Nat, Open(pipe, turn, history.settled, n), n > history'.settled,
             e.turn = n => e.what \notin {"failed", "exit"}
      PROVE  Open(pipe, turn, history.settled, n)'
  <2>1. \A i \in DOMAIN rest : ~(rest[i].what = "fine" /\ rest[i].turn = n)
    BY <1>3, <1>8 DEF Open
  <2>2. ASSUME NEW i \in DOMAIN pipe, pipe[i].what \in {"failed", "exit"}, pipe[i].turn = n
        PROVE  \E j \in DOMAIN rest : rest[j].what \in {"failed", "exit"} /\ rest[j].turn = n
    BY <1>3, <1>8, <2>2
  <2>3. \/ turn.at # "idle" /\ turn.failed /\ n = turn.number
        \/ \E j \in DOMAIN rest : rest[j].what \in {"failed", "exit"} /\ rest[j].turn = n
    BY <1>8, <2>2 DEF Open
  <2> QED BY <1>1, <1>8, <2>1, <2>3 DEF Open
<1>9. ~home' => nudge'.turn = NoTurn
  BY <1>1, <1>2 DEF NudgeIsOpen
<1>10. ASSUME nudge'.turn # NoTurn, ~history'.late, history'.how = "fine" \/ nudge'.failed
       PROVE  \E n \in Nat : Open(pipe, turn, history.settled, n)'
  <2>1. home
    BY <1>1, <1>9, <1>10
  <2>2. CASE e.what \in {"fine", "failed"}
    <3>1. nudge' = NudgeSettled
      BY <1>2, <2>1, <2>2
    <3>2. ~nudge'.failed /\ nudge.failed /\ nudge.turn # NoTurn
      BY <1>10, <3>1 DEF NudgeSettled
    <3>3. e.what = "fine" /\ ~history.late
      BY <1>4, <1>10, <2>2, <3>2 DEF late
    <3>4. PICK n \in Nat : Open(pipe, turn, history.settled, n)
      BY <1>1, <3>2, <3>3 DEF NudgeIsOpen
    <3>5. n # e.turn
      BY <1>3, <3>3, <3>4 DEF Open
    <3>6. e.turn <= n
      <4>1. CASE turn.at # "idle" /\ n = turn.number
        BY <1>1, <1>3, <4>1 DEF InTurn
      <4>2. CASE \E i \in DOMAIN pipe : pipe[i].turn = n
        BY <1>6, <4>2
      <4> QED BY <3>4, <4>1, <4>2 DEF Open
    <3>7. \A k, m \in Nat : k <= m /\ m # k => m > k
      OBVIOUS
    <3>8. n > history'.settled
      BY <1>4, <1>5, <2>2, <3>5, <3>6, <3>7
    <3> QED BY <1>8, <3>3, <3>4, <3>8
  <2>3. CASE e.what \notin {"fine", "failed"}
    <3>1. /\ ~history.late /\ (e.what = "exit" => e.turn = history.settled)
          /\ nudge.turn # NoTurn /\ (history.how = "fine" \/ nudge.failed)
          /\ history'.settled = history.settled
      BY <1>2, <1>4, <1>10, <2>3 DEF over
    <3>2. PICK n \in Nat : Open(pipe, turn, history.settled, n)
      BY <1>1, <3>1 DEF NudgeIsOpen
    <3>3. n > history'.settled
      BY <3>1, <3>2 DEF Open
    <3>4. e.turn = n => e.what \notin {"failed", "exit"}
      <4>1. ~(history.settled > history.settled)
        BY <1>5
      <4> QED BY <2>3, <3>1, <3>3, <4>1
    <3> QED BY <1>8, <3>2, <3>3, <3>4
  <2> QED BY <2>2, <2>3
<1>11. NudgeIsOpen'
  BY <1>9, <1>10 DEF NudgeIsOpen
<1>12. history'.wakes = history.wakes
  BY <1>4
<1> QED BY <1>7, <1>11, <1>12 DEF ReportsInv, PipeInv, NudgesAreDue

\* When Home is woken no turn runs and nothing is in the pipe: no failing turn is open.
LEMMA NudgeHomePipe ==
  ASSUME ReportsInv, NudgeHome
  PROVE  PipeInv'
<1>1. /\ turn \in Turns /\ history \in Histories /\ InTurn(pipe, turn, history.settled, shown)
      /\ nudge \in Nudges /\ nudge.turn # NoTurn /\ pipe = <<>> /\ ~shown
      /\ nudge' = [nudge EXCEPT !.turn = NoTurn]
      /\ UNCHANGED <<home, turn, pipe, shown>> /\ "fine" \notin history.wakes /\ NudgeIsOpen
  BY DEF ReportsInv, TurnsTypeOK, PipeInv, NudgesAreDue, NudgeHome
<1> DEFINE wakes == history.wakes \cup {IF history.late THEN "late" ELSE history.how}
<1>2. history' = [history EXCEPT !.woken = TRUE, !.late = FALSE, !.wakes = wakes]
  BY DEF NudgeHome
<1>3. "fine" \notin wakes
  <2>1. SUFFICES ASSUME ~history.late, history.how = "fine"
                 PROVE  FALSE
    BY <1>1
  <2>2. PICK n \in Nat : Open(pipe, turn, history.settled, n)
    BY <1>1, <2>1 DEF NudgeIsOpen
  <2>3. Len(pipe) = 0 /\ DOMAIN pipe = {}
    BY <1>1
  <2>4. turn.at # "idle"
    BY <2>2, <2>3 DEF Open
  <2> QED BY <1>1, <2>3, <2>4 DEF InTurn
<1> HIDE DEF wakes
<1>4. history'.settled = history.settled /\ history'.wakes = wakes
  BY <1>1, <1>2 DEF Histories
<1>5. nudge'.turn = NoTurn
  BY <1>1 DEF Nudges
<1>6. InTurn(pipe, turn, history.settled, shown)'
  BY <1>1, <1>4
<1> QED BY <1>3, <1>4, <1>5, <1>6 DEF PipeInv, NudgeIsOpen, NudgesAreDue

-----------------------------------------------------------------------------
(* The theorems. *)

LEMMA TurnsInitInv == TurnsInit => ReportsInv
<1> SUFFICES ASSUME TurnsInit
             PROVE  ReportsInv
  OBVIOUS
<1>1. /\ home \in BOOLEAN /\ transcript = <<>> /\ alive = FALSE
      /\ turn = [number |-> 0, at |-> "idle", failed |-> FALSE]
      /\ reporter = NoReporter /\ socket = Down /\ pipe = <<>>
      /\ observer = TRUE /\ told = {} /\ shown = FALSE
      /\ nudge = [turn |-> 0, failed |-> FALSE] /\ nudged = {}
      /\ history = NoHistory /\ turnTroubles = 0
  BY DEF TurnsInit, NoTurn
<1>2. DOMAIN transcript = {} /\ DOMAIN pipe = {} /\ Len(transcript) = 0
  BY <1>1
<1>3. NoReporter \in Reporters /\ Down \in Sockets /\ nudge \in Nudges /\ turn \in Turns
  BY <1>1 DEF NoReporter, Reporters, Down, Sockets, Nudges, NoTurn, Turns
<1>4. /\ NoHistory \in Histories /\ NoHistory.settled = 0 /\ NoHistory.wakes = {}
  BY DEF NoHistory, Histories, NoTurn
<1>5. TurnsTypeOK
  <2>1. transcript \in Seq(Entries) /\ pipe \in Seq(Events)
    BY <1>1
  <2> QED BY <1>1, <1>3, <1>4, <2>1 DEF TurnsTypeOK
<1>6. Frontier = 0
  BY <1>2 DEF Frontier
<1>7. NoReporter.pending = {} /\ NoReporter.drain = "none" /\ Down.ask = NoTurn /\ Down.answer = "none"
  BY DEF NoReporter, Down
<1>8. JournalInv
  <2>1. InOrder(transcript, turn)
    BY <1>1, <1>2 DEF InOrder
  <2>2. ReportsFirst(transcript, reporter, socket, history.recorded)
    BY <1>1, <1>7 DEF ReportsFirst
  <2>3. Frontier \in 0..Len(transcript) /\ Told(transcript, history.recorded, Frontier)
    BY <1>2, <1>6 DEF Told
  <2> QED BY <1>1, <2>1, <2>2, <2>3 DEF JournalInv, Dead, Attended
<1>9. PipeInv
  BY <1>1, <1>2, <1>4 DEF PipeInv, InTurn, NudgeIsOpen, NudgesAreDue, NoTurn
<1> QED BY <1>5, <1>8, <1>9 DEF ReportsInv

LEMMA TurnsStutter ==
  ASSUME ReportsInv, UNCHANGED turnVars
  PROVE  ReportsInv'
<1> USE DEF turnVars
<1>1. TurnsTypeOK'
  BY DEF ReportsInv, TurnsTypeOK
<1>2. Frontier' = Frontier
  BY DEF Frontier
<1>3. JournalInv'
  BY <1>2 DEF ReportsInv, JournalInv, InOrder, ReportsFirst, Dead, Told, Attended, Failures
<1>4. PipeInv'
  BY PipeKept
<1> QED BY <1>1, <1>3, <1>4 DEF ReportsInv

\* In every reachable state the failures stand in the order of their turns, what the reporter
\* works on is the first of those without a receipt, all up to the accepted frontier have one,
\* and Home's nudge waits for a failing turn that has not ended for the supervisor yet.
THEOREM ReportsInvariant == TurnsSpec => []ReportsInv
<1>1. TurnsInit => ReportsInv
  BY TurnsInitInv
<1>2. ReportsInv /\ [TurnsNext]_turnVars => ReportsInv'
  <2> SUFFICES ASSUME ReportsInv, [TurnsNext]_turnVars
               PROVE  ReportsInv'
    OBVIOUS
  <2>1. CASE TurnsNext
    <3>1. TurnsTypeOK'
      BY <2>1, TurnsTypesStep
    <3>2. JournalInv'
      BY <2>1, TurnSteps, EndTurnJournal, RememberJournal, DrainSteps, WriteWitnessJournal,
         StartWorkerJournal, WorkerGoneJournal, RecordFailureJournal, OtherSteps
         DEF TurnsNext, ReporterStep, SupervisorStep
    <3>3. PipeInv'
      BY <2>1, QuietSteps, SendingSteps, SupervisorEndsPipe, RecordFailurePipe, HandleEventPipe,
         NudgeHomePipe DEF TurnsNext, ReporterStep, SupervisorStep
    <3> QED BY <3>1, <3>2, <3>3 DEF ReportsInv
  <2>2. CASE UNCHANGED turnVars
    BY <2>2, TurnsStutter
  <2> QED BY <2>1, <2>2
<1> QED BY <1>1, <1>2, PTL DEF TurnsSpec

LEMMA ReportsInvIsTrue == ReportsInv => ReportsAreTrue
<1> SUFFICES ASSUME ReportsInv
             PROVE  ReportsAreTrue
  OBVIOUS
<1>1. ASSUME NEW n \in Failures
      PROVE  transcript[n].turn \in history.recorded \/ n > Frontier
  <2>1. n \in Nat /\ Frontier \in Nat /\ n \in DOMAIN transcript /\ transcript[n].what = "failed"
    BY DEF Failures, ReportsInv, TurnsTypeOK, JournalInv
  <2>2. n <= Frontier \/ n > Frontier
    BY <2>1
  <2> QED BY <2>1, <2>2 DEF Told, ReportsInv, JournalInv
<1>2. ASSUME alive, NEW n \in Failures
      PROVE  \/ transcript[n].turn \in history.recorded \cup Unreported
             \/ turn.at = "journaled" /\ transcript[n].turn = turn.number
  BY <1>2 DEF Unreported, Attended, ReportsInv, JournalInv
<1> QED BY <1>1, <1>2 DEF ReportsAreTrue, KeptUntilTold, ReportsInv, PipeInv

\* No report is passed over before it has a receipt, whatever is lost, refused or written twice,
\* and Home is never woken after a good turn unless the report was late: for any number of turns
\* and of troubles.
THEOREM ReportsAlwaysTrue == TurnsSpec => []ReportsAreTrue
<1>1. TurnsSpec => []ReportsInv
  BY ReportsInvariant
<1> QED BY <1>1, ReportsInvIsTrue, PTL

=============================================================================
