------------------------------- MODULE Kernel -------------------------------
(***************************************************************************)
(* The persistent Python kernel of an actor: the FIFO of cells and saves   *)
(* that PythonKernel keeps in the worker, the Python process that runs     *)
(* them, the snapshot directory it writes, and the extension that launches *)
(* a kernel, replaces it and tells the model what a replacement restored.  *)
(*                                                                         *)
(* A namespace is the set of cells whose effects it holds; a snapshot is   *)
(* such a set with the checkpoint identity of the last cell run before it  *)
(* was written.  One command at a time is between the host and Python, so  *)
(* each direction of the control channel is one slot.                      *)
(***************************************************************************)
EXTENDS Naturals, Sequences, FiniteSets

CONSTANTS
  Cells,        \* calls of the ipython tool
  Modes,        \* "native": the result precedes its background save; "plain": a timer saves later
  SlowOrphans,  \* whether the save of a dead worker's process may outlast the start of the next one
  MaxTroubles   \* bound on cancellations, deaths, failed saves, reloads and cold steps together

ASSUME KernelAssumption ==
  /\ Modes \subseteq {"native", "plain"} /\ SlowOrphans \in BOOLEAN
  /\ Cells \cap {"none", "snap", "cold", "final"} = {}    \* no call is mistaken for another operation

VARIABLES
  cell,      \* per call: progress, mode, failure epoch read on submission, whether it was cancelled, its save
  queue,     \* the tail of the kernel: calls and the operations "snap", "cold" and "final", the head under way
  host,      \* the PythonKernel object and the extension's reference to it
  py,        \* the Python process
  toPy,      \* the command Python has not read
  toHost,    \* the frame the host has not read
  disk,      \* the snapshot directory and its .previous sibling
  orphan,    \* the save of a process whose worker died during it
  results,   \* native ipython results in the transcript
  after,     \* the namespace each call left behind in its process
  acked,     \* the last snapshot a native call was told of
  report,    \* the recovery diagnostic of the last kernel that became ready
  troubles

vars == <<cell, queue, host, py, toPy, toHost, disk, orphan, results, after, acked, report, troubles>>

None   == "none"
Absent == [kind |-> "absent"]                      \* no directory
Config == [kind |-> "config"]                      \* kernel-config.json alone
Snapshot(ns, ck) == [kind |-> "snapshot", ns |-> ns, ck |-> ck]
IsSnapshot(d) == d.kind = "snapshot"
NoFrame == [type |-> None]
NoProcess == [st |-> "none", ns |-> {}, ck |-> None, hold |-> FALSE]
NoOrphan  == [st |-> "none", ns |-> {}, ck |-> None, hold |-> FALSE, temp |-> FALSE]
NoReport  == [match |-> FALSE, expected |-> None, ns |-> {}]

Trouble == troubles < MaxTroubles /\ troubles' = troubles + 1
Quiet   == UNCHANGED troubles

Running == py.st # "none"                          \* isRunning: the exit of the child was not handled yet
Alive   == py.st \notin {"none", "dead"}
Front   == IF queue = <<>> THEN None ELSE Head(queue)
FrontCell == Front \in Cells
Dirty   == host.generation > host.saved
NewObject == [kernel |-> "launching", snapshot |-> FALSE, sent |-> FALSE, epoch |-> 0, generation |-> 0, saved |-> 0,
              timer |-> FALSE, killFor |-> None]
NoObject == [NewObject EXCEPT !.kernel = "none"]

----------------------------------------------------------------------------
(* The extension: launch, submit, cancel, replace, reload. *)

(* ensureKernel: no kernel, so the manager creates one and awaits its start. *)
Launch ==
  /\ host.kernel = "none"
  /\ host' = NewObject
  /\ UNCHANGED <<cell, queue, py, toPy, toHost, disk, orphan, results, after, acked, report>> /\ Quiet

(* executePython on a kernel that runs: the call joins the tail and remembers the failure epoch. *)
Submit(c, m) ==
  /\ cell[c].st = "new"
  /\ host.kernel = "open" /\ Running
  /\ cell' = [cell EXCEPT ![c].st = "queued", ![c].mode = m, ![c].epoch = host.epoch]
  /\ queue' = Append(queue, c)
  /\ UNCHANGED <<host, py, toPy, toHost, disk, orphan, results, after, acked, report>> /\ Quiet

(* What SIGINT can do to Python: end the cell or be swallowed by it; outside a cell nothing catches it. *)
Signalled(st) == IF st = "cell" THEN {"cell", "idle"} ELSE IF st = "idle" THEN {"idle", "dead"} ELSE {st}

(* interrupt: only the execution of the active cell can be interrupted; the timer then guards that cell. *)
Interrupt(c, st) ==
  /\ st \in Signalled(py.st)
  /\ py' = IF py.st = "cell" /\ st = "idle" THEN [py EXCEPT !.st = st, !.ns = @ \cup {c}] ELSE [py EXCEPT !.st = st]
  /\ after' = IF py.st = "cell" /\ st = "idle" THEN [after EXCEPT ![c] = py.ns \cup {c}] ELSE after
  /\ toHost' = IF py.st = "cell" /\ st = "idle" THEN [type |-> "done", ok |-> FALSE] ELSE toHost
  /\ host' = [host EXCEPT !.killFor = IF Alive /\ @ = None THEN c ELSE @]

(* The caller of a call that has not returned aborts. *)
Cancel(c) ==
  /\ Trouble
  /\ cell[c].st \in {"queued", "starting", "running"} /\ ~cell[c].cancelled
  /\ cell' = [cell EXCEPT ![c].cancelled = TRUE]
  /\ IF cell[c].st = "running" /\ Running
       THEN \E st \in Signalled(py.st) : Interrupt(c, st)
       ELSE UNCHANGED <<host, py, toHost, after>>
  /\ UNCHANGED <<queue, toPy, disk, orphan, results, acked, report>>

(* The kill timer, fenced to the cell and the execution it was armed for. *)
KillTimer ==
  /\ FrontCell /\ host.killFor = Front /\ cell[Front].st = "running" /\ Alive
  /\ py' = [py EXCEPT !.st = "dead"]
  /\ toPy' = None
  /\ host' = [host EXCEPT !.killFor = None]
  /\ UNCHANGED <<cell, queue, toHost, disk, orphan, results, after, acked, report>> /\ Quiet

(* close: nothing more is submitted to this object, and its tail runs out first. *)
Close(snapshot) == host' = [host EXCEPT !.kernel = "closing", !.snapshot = snapshot, !.timer = FALSE, !.killFor = None]

(* ensureKernel finds the process gone and closes its kernel without a snapshot. *)
Replace ==
  /\ host.kernel = "open" /\ ~Running
  /\ Close(FALSE)
  /\ UNCHANGED <<cell, queue, py, toPy, toHost, disk, orphan, results, after, acked, report>> /\ Quiet

(* The reload command, or restart from a cell: the kernel is closed and the next call launches another. *)
Reload ==
  /\ Trouble
  /\ host.kernel = "open"
  /\ Close(TRUE)
  /\ UNCHANGED <<cell, queue, py, toPy, toHost, disk, orphan, results, after, acked, report>>

----------------------------------------------------------------------------
(* The FIFO. *)

(* Settle the head of the tail. *)
Settled(c, ok) == [cell EXCEPT ![c].st = "settled", ![c].ok = ok]

(* notAdmitted: a call whose caller aborted, or whose process failed while it was queued, does not run. *)
NotAdmitted(c) == cell[c].cancelled \/ cell[c].epoch # host.epoch

Refuse(c) ==
  /\ cell' = Settled(c, FALSE)
  /\ queue' = Tail(queue)

(* The head of the tail asks for the process, which starts it if there is none. *)
Admit ==
  /\ FrontCell /\ cell[Front].st = "queued"
  /\ IF NotAdmitted(Front) THEN Refuse(Front)
     ELSE cell' = [cell EXCEPT ![Front].st = "starting"] /\ UNCHANGED queue
  /\ UNCHANGED <<host, py, toPy, toHost, disk, orphan, results, after, acked, report>> /\ Quiet

(* The start has resolved; the call is checked again and its cell is written. *)
Begin ==
  /\ FrontCell /\ cell[Front].st = "starting"
  /\ py.st \notin {"none", "boot"}
  /\ SlowOrphans \/ orphan.st = "none"
  /\ IF NotAdmitted(Front)
       THEN Refuse(Front) /\ UNCHANGED <<host, toPy>>
       ELSE /\ cell' = [cell EXCEPT ![Front].st = "running"]
            /\ host' = [host EXCEPT !.sent = TRUE, !.generation = @ + 1]
            /\ toPy' = IF Alive THEN "execute" ELSE None
            /\ UNCHANGED queue
  /\ UNCHANGED <<py, toHost, disk, orphan, results, after, acked, report>> /\ Quiet

(* The start failed with its process: the call has an error. *)
StartLost ==
  /\ FrontCell /\ cell[Front].st = "starting" /\ py.st = "none" /\ NotAdmitted(Front)
  /\ Refuse(Front)
  /\ UNCHANGED <<host, py, toPy, toHost, disk, orphan, results, after, acked, report>> /\ Quiet

(* The done frame of the active cell ends its interruption. *)
Done ==
  /\ toHost.type = "done" /\ FrontCell /\ cell[Front].st = "running"
  /\ cell' = [cell EXCEPT ![Front].st = "draining", ![Front].ok = toHost.ok]
  /\ host' = [host EXCEPT !.sent = FALSE, !.killFor = None]
  /\ toHost' = NoFrame
  /\ UNCHANGED <<queue, py, toPy, disk, orphan, results, after, acked, report>> /\ Quiet

(* Output is drained: a native call returns and its save begins; a plain call that succeeded arms the timer. *)
Drained ==
  /\ FrontCell /\ cell[Front].st = "draining"
  /\ \/ /\ cell[Front].mode = "native" /\ Running
        /\ cell' = [cell EXCEPT ![Front].st = "saving"]
        /\ host' = [host EXCEPT !.sent = TRUE]
        /\ toPy' = IF Alive THEN "snapshot" ELSE None
        /\ UNCHANGED queue
     \/ /\ cell[Front].mode = "native" /\ ~Running
        /\ Refuse(Front) /\ UNCHANGED <<host, toPy>>
     \/ /\ cell[Front].mode = "plain"
        /\ cell' = Settled(Front, cell[Front].ok)
        /\ queue' = Tail(queue)
        /\ host' = [host EXCEPT !.timer = @ \/ (cell[Front].ok /\ host.kernel = "open")]
        /\ UNCHANGED toPy
  /\ UNCHANGED <<py, toHost, disk, orphan, results, after, acked, report>> /\ Quiet

(* The answer to a save: of a native call, of the timer, or the last one of close. *)
SnapshotDone ==
  /\ toHost.type = "snapshot_done" /\ queue # <<>>
  /\ host' = [host EXCEPT !.sent = FALSE, !.saved = IF toHost.ok THEN host.generation ELSE @]
  /\ cell' = IF FrontCell THEN Settled(Front, toHost.ok) ELSE cell
  /\ acked' = IF FrontCell /\ toHost.ok THEN Snapshot(after[Front], Front) ELSE acked
  /\ queue' = Tail(queue)
  /\ toHost' = NoFrame
  /\ UNCHANGED <<py, toPy, disk, orphan, results, after, report>> /\ Quiet

(* scheduleSnapshot fires 500 ms after a plain cell. *)
TimerFires ==
  /\ host.timer /\ host.kernel = "open"
  /\ host' = [host EXCEPT !.timer = FALSE]
  /\ queue' = Append(queue, "snap")
  /\ UNCHANGED <<cell, py, toPy, toHost, disk, orphan, results, after, acked, report>> /\ Quiet

(* The queued save, skipped when the process is gone or nothing ran since the last one. *)
SnapBegins ==
  /\ Front = "snap" /\ ~host.sent
  /\ IF Running /\ Dirty
       THEN host' = [host EXCEPT !.sent = TRUE] /\ toPy' = (IF Alive THEN "snapshot" ELSE None) /\ UNCHANGED queue
       ELSE queue' = Tail(queue) /\ UNCHANGED <<host, toPy>>
  /\ UNCHANGED <<cell, py, toHost, disk, orphan, results, after, acked, report>> /\ Quiet

(* One batch of cold residency advice, taken synchronously when nothing is queued. *)
ColdStep ==
  /\ Trouble
  /\ host.kernel = "open" /\ queue = <<>> /\ ~host.timer /\ py.st \notin {"none", "boot"} /\ toHost = NoFrame
  /\ queue' = <<"cold">>
  /\ host' = [host EXCEPT !.sent = TRUE]
  /\ toPy' = IF Alive THEN "cold_memory" ELSE None
  /\ UNCHANGED <<cell, py, toHost, disk, orphan, results, after, acked, report>>

ColdDone ==
  /\ toHost.type = "cold_memory_done"
  /\ queue' = Tail(queue)
  /\ host' = [host EXCEPT !.sent = FALSE]
  /\ toHost' = NoFrame
  /\ UNCHANGED <<cell, py, toPy, disk, orphan, results, after, acked, report>> /\ Quiet

(* close, after the tail: one more save if something ran since the last, then the shutdown. *)
CloseSaves ==
  /\ host.kernel = "closing" /\ queue = <<>> /\ Running /\ host.snapshot /\ Dirty
  /\ queue' = <<"final">>
  /\ host' = [host EXCEPT !.sent = TRUE, !.snapshot = FALSE]
  /\ toPy' = IF Alive THEN "snapshot" ELSE None
  /\ UNCHANGED <<cell, py, toHost, disk, orphan, results, after, acked, report>> /\ Quiet

(* The shutdown is answered by the exit; a process that does not answer is killed. *)
CloseShuts ==
  /\ host.kernel = "closing" /\ queue = <<>> /\ Alive /\ ~(host.snapshot /\ Dirty)
  /\ py' = [py EXCEPT !.st = "dead"]
  /\ toPy' = None
  /\ UNCHANGED <<cell, queue, host, toHost, disk, orphan, results, after, acked, report>> /\ Quiet

CloseEnds ==
  /\ host.kernel = "closing" /\ queue = <<>> /\ ~Running
  /\ host' = NoObject
  /\ UNCHANGED <<cell, queue, py, toPy, toHost, disk, orphan, results, after, acked, report>> /\ Quiet

----------------------------------------------------------------------------
(* The snapshot directory. *)

(* save_snapshot puts the current directory aside: a configuration alone is held, anything else becomes .previous. *)
Holds(d) == d.cur = Config /\ d.prev # Absent
Aside(d) == IF d.cur = Absent THEN d
            ELSE IF Holds(d) THEN [d EXCEPT !.cur = Absent]
            ELSE [cur |-> Absent, prev |-> d.cur]

(* A save that failed after that puts back what it moved, unless the current directory exists again. *)
Back(d, hold) == IF d.cur # Absent THEN d
                 ELSE IF hold THEN [d EXCEPT !.cur = Config]
                 ELSE [cur |-> d.prev, prev |-> Absent]

(* Variant: .previous is not read. *)
CurrentOnly(d) == IF IsSnapshot(d.cur) THEN d.cur ELSE Snapshot({}, None)

(* What a new process restores: .previous when the current directory holds no snapshot, else the current one. *)
Restorable(d) == IF IsSnapshot(d.cur) THEN d.cur
                 ELSE IF IsSnapshot(d.prev) THEN d.prev
                 ELSE Snapshot({}, None)

(* The recovery diagnostic: the last native result, and whether its identity was restored. *)
Expected == IF results = <<>> THEN None ELSE results[Len(results)]
Diagnostic(s) == [match |-> Expected # None /\ s.ck = Expected, expected |-> Expected, ns |-> s.ns]

----------------------------------------------------------------------------
(* The Python process. *)

(* A kernel that is launched, or a call admitted without a process, spawns one over its state directory. *)
Spawn ==
  /\ py.st = "none"
  /\ host.kernel = "launching" \/ (FrontCell /\ cell[Front].st = "starting" /\ ~NotAdmitted(Front))
  /\ py' = [NoProcess EXCEPT !.st = "boot"]
  /\ disk' = IF disk.cur = Absent THEN [disk EXCEPT !.cur = Config] ELSE disk
  /\ UNCHANGED <<cell, queue, host, toPy, toHost, orphan, results, after, acked, report>> /\ Quiet

(* Validated and told to continue, it reads a snapshot and removes the temporary directories of other saves. *)
Restores ==
  /\ py.st = "boot" /\ toHost = NoFrame
  /\ py' = [py EXCEPT !.st = "idle", !.ns = Restorable(disk).ns, !.ck = Restorable(disk).ck]
  /\ orphan' = [orphan EXCEPT !.temp = FALSE]
  /\ toHost' = [type |-> "ready"]
  /\ UNCHANGED <<cell, queue, host, toPy, disk, results, after, acked, report>> /\ Quiet

(* The host takes the ready frame: the extension adopts the kernel and reports what it restored. *)
Ready ==
  /\ toHost.type = "ready"
  /\ toHost' = NoFrame
  /\ IF host.kernel = "launching"
       THEN host' = [host EXCEPT !.kernel = "open"] /\ report' = Diagnostic([ns |-> py.ns, ck |-> py.ck])
       ELSE UNCHANGED <<host, report>>
  /\ UNCHANGED <<cell, queue, py, toPy, disk, orphan, results, after, acked>> /\ Quiet

(* Variant: a plain cell leaves the identity of the last native one. *)
KeepsIdentity(c, ck) == IF cell[c].mode = "native" THEN c ELSE ck

(* The identity Python keeps for the next save: that of the cell it runs, none for a plain one. *)
CheckpointOf(c, ck) == IF cell[c].mode = "native" THEN c ELSE None

PyReads ==
  /\ py.st = "idle" /\ toPy # None
  /\ toPy' = None
  /\ py' = CASE toPy = "execute"     -> [py EXCEPT !.st = "cell", !.ck = CheckpointOf(Front, py.ck)]
             [] toPy = "snapshot"    -> [py EXCEPT !.st = "save"]
             [] toPy = "cold_memory" -> [py EXCEPT !.st = "cold"]
  /\ UNCHANGED <<cell, queue, host, toHost, disk, orphan, results, after, acked, report>> /\ Quiet

CellEnds(ok) ==
  /\ py.st = "cell"
  /\ py' = [py EXCEPT !.st = "idle", !.ns = @ \cup {Front}]
  /\ after' = [after EXCEPT ![Front] = py.ns \cup {Front}]
  /\ toHost' = [type |-> "done", ok |-> ok]
  /\ UNCHANGED <<cell, queue, host, toPy, disk, orphan, results, acked, report>> /\ Quiet

ColdEnds ==
  /\ py.st = "cold"
  /\ py' = [py EXCEPT !.st = "idle"]
  /\ toHost' = [type |-> "cold_memory_done", ok |-> TRUE]
  /\ UNCHANGED <<cell, queue, host, toPy, disk, orphan, results, after, acked, report>> /\ Quiet

SaveMoves ==
  /\ py.st = "save"
  /\ py' = [py EXCEPT !.st = "moved", !.hold = Holds(disk)]
  /\ disk' = Aside(disk)
  /\ UNCHANGED <<cell, queue, host, toPy, toHost, orphan, results, after, acked, report>> /\ Quiet

(* The rename onto the current name; it fails when an orphan's save, or a configuration, took the name meanwhile. *)
SavePlaces ==
  /\ py.st = "moved"
  /\ IF disk.cur = Absent
       THEN /\ disk' = [disk EXCEPT !.cur = Snapshot(py.ns, py.ck)]
            /\ py' = [py EXCEPT !.st = "placed"] /\ UNCHANGED toHost
       ELSE /\ py' = [py EXCEPT !.st = "idle"]
            /\ toHost' = [type |-> "snapshot_done", ok |-> FALSE] /\ UNCHANGED disk
  /\ UNCHANGED <<cell, queue, host, toPy, orphan, results, after, acked, report>> /\ Quiet

SaveEnds ==
  /\ py.st = "placed"
  /\ disk' = [disk EXCEPT !.prev = Absent]
  /\ py' = [py EXCEPT !.st = "idle"]
  /\ toHost' = [type |-> "snapshot_done", ok |-> TRUE]
  /\ UNCHANGED <<cell, queue, host, toPy, orphan, results, after, acked, report>> /\ Quiet

(* A write, a rename or a sync fails; once the new directory is in place it stays. *)
SaveFails ==
  /\ Trouble
  /\ py.st \in {"save", "moved", "placed"}
  /\ disk' = IF py.st = "moved" THEN Back(disk, py.hold) ELSE disk
  /\ py' = [py EXCEPT !.st = "idle"]
  /\ toHost' = [type |-> "snapshot_done", ok |-> FALSE]
  /\ UNCHANGED <<cell, queue, host, toPy, orphan, results, after, acked, report>>

(* Python ends by itself, is rejected in its start, or is killed for a broken control channel. *)
Dies ==
  /\ Trouble
  /\ Alive
  /\ py' = [py EXCEPT !.st = "dead"]
  /\ toPy' = None
  /\ UNCHANGED <<cell, queue, host, toHost, disk, orphan, results, after, acked, report>>

(* What failAll rejects: the command that waits for its answer. *)
Rejected == host.sent

(* The exit event, failAll: the pending command and the start fail, and every queued call is fenced. *)
Exit ==
  /\ py.st = "dead"
  /\ py' = NoProcess
  /\ toPy' = None /\ toHost' = NoFrame
  /\ host' = IF host.kernel = "launching" THEN NoObject
             ELSE [host EXCEPT !.epoch = @ + 1, !.sent = FALSE, !.killFor = None]
  /\ IF Rejected
       THEN /\ queue' = Tail(queue)
            /\ cell' = IF FrontCell THEN Settled(Front, FALSE) ELSE cell
       ELSE UNCHANGED <<cell, queue>>
  /\ UNCHANGED <<disk, orphan, results, after, acked, report>> /\ Quiet

----------------------------------------------------------------------------
(* The transcript, and the death of the worker with its orphan. *)

(* A native result is published with the identity its save will carry, as soon as the call has returned. *)
Publish(c) ==
  /\ cell[c].mode = "native" /\ cell[c].st \in {"saving", "settled"}
  /\ after[c] # {} /\ c \notin {results[i] : i \in 1..Len(results)}
  /\ results' = Append(results, c)
  /\ UNCHANGED <<cell, queue, host, py, toPy, toHost, disk, orphan, after, acked, report>> /\ Quiet

Saving == py.st \in {"save", "moved", "placed"} \/ (py.st = "idle" /\ toPy = "snapshot")

(* The worker ends: its calls end unknown, and a save that Python had begun, or had only been told of, goes on. *)
WorkerDies ==
  /\ Trouble
  /\ host.kernel # "none" /\ orphan.st = "none"
  /\ cell' = [c \in Cells |-> IF cell[c].st = "new" THEN cell[c] ELSE [cell[c] EXCEPT !.st = "settled", !.mode = "plain"]]
  /\ queue' = <<>> /\ host' = NoObject
  /\ orphan' = IF Saving
                 THEN [st |-> IF py.st = "idle" THEN "unread" ELSE py.st, ns |-> py.ns, ck |-> py.ck, hold |-> py.hold,
                       temp |-> py.st # "idle"]
                 ELSE NoOrphan
  /\ py' = NoProcess /\ toPy' = None /\ toHost' = NoFrame
  /\ UNCHANGED <<disk, results, after, acked, report>>

OrphanBegins ==
  /\ orphan.st = "unread"
  /\ orphan' = [orphan EXCEPT !.st = "save", !.temp = TRUE]
  /\ UNCHANGED disk

(* Without its temporary directory the save fails, as it does in SavePlaces when the name was taken. *)
OrphanMoves ==
  /\ orphan.st = "save"
  /\ IF orphan.temp
       THEN disk' = Aside(disk) /\ orphan' = [orphan EXCEPT !.st = "moved", !.hold = Holds(disk)]
       ELSE orphan' = NoOrphan /\ UNCHANGED disk

OrphanPlaces ==
  /\ orphan.st = "moved"
  /\ IF orphan.temp /\ disk.cur = Absent
       THEN disk' = [disk EXCEPT !.cur = Snapshot(orphan.ns, orphan.ck)] /\ orphan' = [orphan EXCEPT !.st = "placed"]
       ELSE disk' = Back(disk, orphan.hold) /\ orphan' = NoOrphan

OrphanEnds ==
  /\ orphan.st = "placed"
  /\ disk' = [disk EXCEPT !.prev = Absent]
  /\ orphan' = NoOrphan

Orphan ==
  /\ OrphanBegins \/ OrphanMoves \/ OrphanPlaces \/ OrphanEnds
  /\ UNCHANGED <<cell, queue, host, py, toPy, toHost, results, after, acked, report>> /\ Quiet

----------------------------------------------------------------------------
Init ==
  /\ cell = [c \in Cells |-> [st |-> "new", mode |-> "plain", epoch |-> 0, cancelled |-> FALSE, ok |-> FALSE]]
  /\ queue = <<>> /\ host = NoObject /\ py = NoProcess /\ toPy = None /\ toHost = NoFrame
  /\ disk = [cur |-> Absent, prev |-> Absent] /\ orphan = NoOrphan
  /\ results = <<>> /\ after = [c \in Cells |-> {}] /\ acked = Absent /\ report = NoReport
  /\ troubles = 0

Extension == Launch \/ (\E c \in Cells, m \in Modes : Submit(c, m)) \/ (\E c \in Cells : Cancel(c))
             \/ Replace \/ Reload \/ (\E c \in Cells : Publish(c)) \/ WorkerDies
Fifo == KillTimer \/ Admit \/ Begin \/ StartLost \/ Done \/ Drained \/ SnapshotDone \/ TimerFires \/ SnapBegins
        \/ ColdStep \/ ColdDone \/ CloseSaves \/ CloseShuts \/ CloseEnds \/ Ready \/ Exit
Python == Spawn \/ Restores \/ PyReads \/ (\E ok \in BOOLEAN : CellEnds(ok)) \/ ColdEnds
          \/ SaveMoves \/ SavePlaces \/ SaveEnds \/ SaveFails \/ Dies

Next == Extension \/ Fifo \/ Python \/ Orphan
Spec == Init /\ [][Next]_vars

----------------------------------------------------------------------------
(* Properties. *)

(* When the diagnostic says that the identity of the last native result was restored, the new process holds the   *)
(* namespace that call left: no plain cell, failed save or other generation slipped in under the same identity.   *)
(* projectNamespaceRecovery compares identities only; the model is told to build on the match.                    *)
RecoveryIsHonest == report.match => report.ns = after[report.expected]

(* A native save that was acknowledged can be restored whatever dies next: at every step of a later save the       *)
(* current directory or .previous still holds at least that namespace (save_snapshot, recover_previous_snapshot).  *)
SavedIsRestorable == IsSnapshot(acked) => acked.ns \subseteq Restorable(disk).ns
=============================================================================
