------------------------------ MODULE History ------------------------------
(* The searchable history of one session.  The transcript is a file its     *)
(* worker appends to; the daemon keeps two things derived from it: a        *)
(* reader's cache of what it parsed, and an index for searches.  A worker   *)
(* tells the daemon how far it has written (a WATERMARK); an automatic      *)
(* refresh then reads only the new entries and notes that the old ones were *)
(* not checked again, and a strict refresh checks them.  Others may         *)
(* rewrite, truncate or replace the file at any time.                       *)
(*                                                                          *)
(* src/visible-transcript-reader.mjs, session-history-index.mjs,            *)
(* source-watermark.mjs and the maintenance queue of supervisor.mjs.  A     *)
(* digest stands for the bytes it was taken of; every write leaves the file *)
(* with a fingerprint it never had.                                         *)
EXTENDS Naturals, Sequences, SequencesExt

CONSTANTS
  Attempts,     \* reads of a file that keeps changing, per refresh
  MaxEntries,   \* entries of the file
  MaxWrites,    \* writes to the file, by anyone
  MaxGen,       \* workers of the session
  MaxTroubles   \* foreign writes, changed receipts, deadlines and restarts

ASSUME AttemptsAssumption == Attempts \in Nat \ {0}

VARIABLES
  file,      \* identity, entries, and the number of writes so far
  receipt,   \* version of the input receipts the projection depends on
  own,       \* the worker's view of its file, None without a worker
  hint,      \* the last watermark the daemon accepted
  busy,      \* the worker has or is about to have work
  cache,     \* what the reader keeps of the file
  index,     \* the published index of the session
  item,      \* its place in the maintenance queue
  job,       \* the refresh under way
  gen, troubles
vars == <<file, receipt, own, hint, busy, cache, index, item, job, gen, troubles>>
source == <<file, receipt, own, gen>>

None == [none |-> TRUE]

----------------------------------------------------------------------------
(* Entries, branches and fingerprints.                                      *)
Fp == [ino |-> file.ino, size |-> Len(file.data), stamp |-> file.stamp]

Ids(data) == {data[i].id : i \in 1..Len(data)}
Leaf(data) == IF data = <<>> THEN 0 ELSE Last(data).id
Entry(data, id) == CHOOSE e \in {data[i] : i \in 1..Len(data)} : e.id = id

\* #activeEntryIds fails on a branch with a missing parent.
Complete(data) == \A i \in 1..Len(data) : data[i].parent \in Ids(data) \cup {0}

\* The rows of the branch that ends in a leaf, oldest first.
Branch(data, leaf) ==
  LET path[id \in Ids(data) \cup {0}] ==
        IF id = 0 THEN <<>> ELSE Append(path[Entry(data, id).parent], Entry(data, id))
  IN path[leaf]
View(data) == Branch(data, Leaf(data))

----------------------------------------------------------------------------
(* The reader.                                                              *)
NewRecord(hashed) ==
  [ino |-> file.ino, data |-> <<>>, fp |-> None, hashed |-> hashed, verified |-> FALSE, mark |-> None]

SameFile(rec) == rec.ino = file.ino /\ Len(file.data) >= Len(rec.data)

Leased(history, full) ==
  IF full \/ cache = None THEN NewRecord(history)
  ELSE IF ~SameFile(cache) \/ (history /\ ~cache.hashed) THEN NewRecord(history) ELSE cache

\* What it has not parsed yet; old entries are taken as they were parsed.
Parsed(rec) ==
  [rec EXCEPT !.data = @ \o SubSeq(file.data, Len(@) + 1, Len(file.data)), !.fp = Fp,
              !.verified = @ /\ rec.fp = Fp]

\* followsSourceWatermark
Follows(base, next) ==
  /\ base # None /\ next # None
  /\ base.gen = next.gen /\ base.fp.ino = next.fp.ino
  /\ Len(next.data) > Len(base.data) /\ next.seq > base.seq

\* Only an accepted cursor of the worker waives the check of old entries.
OwnedAppend(rec, base, next) ==
  /\ Follows(base, next)
  /\ next.fp = Fp /\ rec.hashed
  /\ Len(rec.data) \in Len(base.data)..Len(next.data)
  /\ rec.mark = base \/ rec.data = base.data

\* Old entries are read again unless they were verified under this fingerprint.
Verified(rec) ==
  IF (rec.verified /\ rec.fp = Fp) \/ rec.data = SubSeq(file.data, 1, Len(rec.data))
  THEN rec ELSE NewRecord(TRUE)

Bound(rec, next) ==
  [rec EXCEPT !.mark = IF next # None /\ next.data = rec.data /\ next.fp = Fp THEN next ELSE None]

(* Variant: every read of the index certifies what it read. *)
CertifyingRead(base, next, full) ==
  LET rec == Leased(TRUE, full)
      owned == OwnedAppend(rec, base, next)
      read == Parsed(IF owned THEN rec ELSE Verified(rec))
  IN IF Complete(read.data) /\ (owned => read.data = next.data)
     THEN Bound([read EXCEPT !.verified = TRUE], next) ELSE None

\* A read for the index, of a file that does not change meanwhile.
HistoryRead(base, next, full) ==
  LET rec == Leased(TRUE, full)
      owned == OwnedAppend(rec, base, next)
      read == Parsed(IF owned THEN rec ELSE Verified(rec))
  IN IF Complete(read.data) /\ (owned => read.data = next.data)
     THEN Bound([read EXCEPT !.verified = ~owned], next) ELSE None

\* A read for a page, an image, a retry or a branch.
PageRead ==
  LET rec == Parsed(Leased(FALSE, FALSE)) IN IF Complete(rec.data) THEN rec ELSE None

\* readBranch: the entries are read again, at the place where they were parsed;
\* a branch of which one has changed is not given away.
BranchRead(rec, leaf) ==
  LET rows == Branch(rec.data, leaf)
      At(id) == CHOOSE i \in 1..Len(rec.data) : rec.data[i].id = id
  IN IF \A i \in 1..Len(rows) : file.data[At(rows[i].id)] = rows[i] THEN rows ELSE <<>>

----------------------------------------------------------------------------
(* The maintenance queue.                                                   *)
NoItem == [state |-> "none", again |-> FALSE]
NoJob == [kind |-> "none", phase |-> "none"]

\* #cancelHistoryMaintenance: the refresh goes on until its next check.
Cancelled(it) == IF it.state = "none" THEN it ELSE [state |-> "over", again |-> TRUE]

(* Variant: a session in the queue is not queued again. *)
QueuedOnce(it, working, invalidate) ==
  IF it.state # "none"
  THEN IF working THEN Cancelled(it) ELSE it
  ELSE IF working THEN it ELSE [it EXCEPT !.state = "waiting"]

\* #queueHistoryMaintenance
Queued(it, working, invalidate) ==
  IF it.state # "none"
  THEN IF working THEN Cancelled(it) ELSE [it EXCEPT !.again = @ \/ invalidate]
  ELSE IF working THEN it ELSE [it EXCEPT !.state = "waiting"]

Abandoned(it) == IF it.state = "over" /\ job.kind = "auto" THEN NoJob ELSE job

Queues(working, invalidate) == item' = Queued(item, working, invalidate) /\ job' = Abandoned(item')

MaintenanceEnds ==
  /\ item.state = "over"
  /\ item' = IF item.again THEN Queued(NoItem, busy, FALSE) ELSE NoItem
  /\ UNCHANGED <<source, hint, busy, cache, index, job, troubles>>

----------------------------------------------------------------------------
(* Refresh.                                                                 *)
\* The index is of the file as it is, and may be the answer to a question
\* about what is current, if no old entry is left to be checked (#projection).
Covered == index # None /\ index.fp = Fp /\ index.receipt = receipt
Current == Covered /\ ~index.debt

(* One attempt to read the file: the record leaves the cache.               *)
Attempt(kind, base, next, full, tries) ==
  [kind |-> kind, phase |-> "read", base |-> base, next |-> next, full |-> full, tries |-> tries,
   fp |-> Fp, receipt |-> receipt, record |-> HistoryRead(base, next, full)]

\* #refreshAllowed, up to the first read.
Refreshed(kind, next) ==
  LET kept == index # None /\ index.receipt = receipt
      debt == index # None /\ index.debt
      base == IF /\ kind = "auto" /\ kept /\ index.cursor # None /\ index.fp = index.cursor.fp
                 /\ next # None /\ next.fp = Fp /\ Follows(index.cursor, next)
              THEN index.cursor ELSE None
  IN IF /\ kept /\ index.fp = Fp
        /\ ~(kind = "strict" /\ debt)
        /\ next = None \/ index.cursor = next
     THEN NoJob ELSE Attempt(kind, base, next, debt /\ base = None, 1)

\* The job begins by taking the record out of the cache.
Begins(it) ==
  /\ item' = it
  /\ cache' = IF job' = NoJob THEN cache ELSE None

MaintenanceRuns ==
  /\ item.state = "waiting" /\ job = NoJob
  /\ job' = IF busy THEN NoJob ELSE Refreshed("auto", hint)
  /\ Begins([state |-> IF job' = NoJob THEN "over" ELSE "running", again |-> item.again \/ busy])
  /\ UNCHANGED <<source, hint, busy, index, troubles>>

StrictRequest ==
  /\ job = NoJob /\ ~Current
  /\ job' = Refreshed("strict", None) /\ Begins(item)
  /\ UNCHANGED <<source, hint, busy, index, troubles>>

Ends ==
  /\ job' = NoJob
  /\ item' = IF job.kind = "auto" THEN [item EXCEPT !.state = "over"] ELSE item

\* #readStable tries again; after an error without the worker's cursor.
Again(reset) ==
  IF job.tries = Attempts
  THEN index' = None /\ Ends /\ UNCHANGED cache
  ELSE /\ job' = Attempt(job.kind, IF reset THEN None ELSE job.base, job.next,
                         reset \/ job.full, job.tries + 1)
       /\ cache' = None /\ UNCHANGED <<index, item>>

\* What was read while the file changed is discarded, and so is the record.
ReadEnds ==
  /\ job.phase = "read"
  /\ IF job.record = None \/ job.fp # Fp
     THEN Again(TRUE)
     ELSE /\ cache' = job.record /\ job' = [job EXCEPT !.phase = "publish"]
          /\ UNCHANGED <<index, item>>
  /\ UNCHANGED <<source, hint, busy, troubles>>

\* The publication is one transaction; a change of the file seen before it
\* begins is one more attempt, and one seen before it commits its failure.
Publish ==
  /\ job.phase = "publish"
  /\ \/ /\ job.fp = Fp /\ job.receipt = receipt
        /\ index' = [fp |-> job.fp, rows |-> View(job.record.data), receipt |-> job.receipt,
                     cursor |-> job.record.mark, debt |-> ~job.record.verified]
        /\ Ends /\ UNCHANGED cache
     \/ job.fp # Fp /\ Again(FALSE)
     \/ (job.fp # Fp \/ job.receipt # receipt) /\ Ends /\ UNCHANGED <<index, cache>>
  /\ UNCHANGED <<source, hint, busy, troubles>>

----------------------------------------------------------------------------
(* Readers.  No two of them are in one file at a time.                      *)
\* A snapshot search answers from the index and notes what it does not cover.
Search ==
  /\ ~Covered
  /\ ~busy /\ item.state = "none"
  /\ item' = Queued(item, busy, FALSE)
  /\ UNCHANGED <<source, hint, busy, cache, index, job, troubles>>

\* A page, an image, a branch or a turn to retry is read.
PageReads ==
  /\ job.phase # "read"
  /\ cache' = PageRead /\ cache' # cache
  /\ UNCHANGED <<source, hint, busy, index, item, job, troubles>>

----------------------------------------------------------------------------
(* The worker.                                                              *)
Writes(ino, data) ==
  /\ file.stamp < MaxWrites
  /\ file' = [ino |-> ino, data |-> data, stamp |-> file.stamp + 1]

\* An entry is appended behind what the file holds by then; the watermark is
\* of what the worker wrote itself, and is dropped (normalizeSourceWatermark)
\* if its size is not that of the file.
AppendEntry ==
  /\ own # None /\ Len(file.data) < MaxEntries
  /\ \E parent \in {Leaf(own.data), 0} :
       LET entry == [id |-> file.stamp + 1, parent |-> parent, text |-> 0] IN
       /\ Writes(file.ino, Append(file.data, entry))
       /\ own' = [own EXCEPT !.data = Append(@, entry), !.seq = @ + 1]
       /\ hint' = IF Len(own.data) # Len(file.data) THEN None
                  ELSE [gen |-> gen, seq |-> own.seq + 1, data |-> Append(own.data, entry),
                        fp |-> [Fp EXCEPT !.size = @ + 1, !.stamp = @ + 1]]
  /\ Queues(busy, TRUE)
  /\ UNCHANGED <<receipt, gen, busy, cache, index, troubles>>

\* agent_start cancels the refresh, agent_settled asks for one.
AgentStarts ==
  /\ own # None /\ ~busy /\ busy' = TRUE
  /\ item' = Cancelled(item) /\ job' = Abandoned(item')
  /\ UNCHANGED <<source, hint, cache, index, troubles>>

AgentSettles ==
  /\ busy /\ busy' = FALSE /\ Queues(FALSE, TRUE)
  /\ UNCHANGED <<source, hint, cache, index, troubles>>

WorkerStarts ==
  /\ own = None /\ gen < MaxGen /\ Complete(file.data)
  /\ gen' = gen + 1
  /\ own' = [data |-> file.data, seq |-> 0]
  /\ Queues(busy, FALSE)
  /\ UNCHANGED <<file, receipt, hint, busy, cache, index, troubles>>

WorkerExits ==
  /\ own # None /\ own' = None
  /\ hint' = None /\ busy' = FALSE
  /\ Queues(FALSE, TRUE)
  /\ UNCHANGED <<file, receipt, gen, cache, index, troubles>>

----------------------------------------------------------------------------
(* Troubles.                                                                *)
Trouble == troubles < MaxTroubles /\ troubles' = troubles + 1

\* Another program writes into the file, cuts its end off or replaces it.
ForeignWrite ==
  /\ Trouble /\ file.data # <<>>
  /\ \/ Writes(file.ino, [file.data EXCEPT ![1].text = 1 - @])
     \/ Writes(file.ino, Front(file.data))
     \/ Writes(file.ino + 1, file.data)
  /\ UNCHANGED <<receipt, own, gen, hint, busy, cache, index, item, job>>

ReceiptChanges ==
  /\ Trouble /\ receipt' = receipt + 1
  /\ UNCHANGED <<file, own, gen, hint, busy, cache, index, item, job>>

\* A refresh runs out of time, or its requester leaves.
Deadline ==
  /\ Trouble /\ job # NoJob /\ Ends
  /\ UNCHANGED <<source, hint, busy, cache, index>>

\* The daemon restarts: the index is all it finds.
Restart ==
  /\ Trouble
  /\ own' = None /\ hint' = None /\ busy' = FALSE
  /\ cache' = None /\ item' = NoItem /\ job' = NoJob
  /\ UNCHANGED <<file, receipt, gen, index>>

Init ==
  /\ file = [ino |-> 1, data |-> <<>>, stamp |-> 0]
  /\ receipt = 0 /\ own = None /\ hint = None /\ busy = FALSE
  /\ cache = None /\ index = None /\ item = NoItem /\ job = NoJob
  /\ gen = 0 /\ troubles = 0

\* What goes on by itself.
Proceed ==
  \/ AgentSettles \/ MaintenanceRuns \/ MaintenanceEnds
  \/ ReadEnds \/ Publish

Next ==
  \/ Proceed
  \/ StrictRequest \/ Search \/ PageReads
  \/ AppendEntry \/ AgentStarts \/ WorkerStarts \/ WorkerExits
  \/ ForeignWrite \/ ReceiptChanges \/ Deadline \/ Restart

Spec == Init /\ [][Next]_vars /\ WF_vars(Proceed)
----------------------------------------------------------------------------
\* What the daemon would answer as current is what the file holds now:
\* whatever was rewritten, truncated or replaced under the index, its cursor
\* and the reader's cache.  (session-history-index.mjs: #projection, and
\* visible-transcript-reader.mjs: #read)
CurrentIsCanonical == Current => index.rows = View(file.data)

\* A branch that is copied for a fork is a branch of the file, entry by entry,
\* although the reader trusts what it parsed of it before.
\* (visible-transcript-reader.mjs: readBranch)
ForksAreCanonical ==
  LET read == PageRead IN
  read # None => \A leaf \in Ids(read.data) :
    \E rows \in {BranchRead(read, leaf)} :
      rows # <<>> => leaf \in Ids(file.data) /\ rows = Branch(file.data, leaf)

\* Nothing that is read passes for the transcript unless it is what the file holds.
\* (visible-transcript-reader.mjs: #read, readBranch)
ReadsAreCanonical == CurrentIsCanonical /\ ForksAreCanonical

\* What a worker appended is searchable once the session is at rest: the
\* queue forgets nothing, whichever refresh was under way or cancelled.
\* (supervisor.mjs: #queueHistoryMaintenance)
AppendsAreIndexed == []<>(busy \/ troubles > 0 \/ file.data = <<>> \/ (index # None /\ index.fp = Fp))
============================================================================
