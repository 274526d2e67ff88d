------------------------------- MODULE Daemon -------------------------------
(***************************************************************************)
(* One supervisor per PID path.  harness-supervisor ensure launches a      *)
(* daemon when none answers, harness-supervisor start is one; a daemon     *)
(* claims the instance lock, clears what a dead one left behind, opens the *)
(* database, listens on a socket of its own, points the public link at it  *)
(* and publishes its PID file (start and stop of supervisor.mjs).          *)
(* Processes are killed at any moment; their files stay.                   *)
(***************************************************************************)
EXTENDS Naturals, FiniteSets

CONSTANTS
  Procs,         \* daemons that are started
  Old,           \* a daemon killed before: its files may be there
  MaxAttempts,   \* attempts to claim the instance lock: 5
  MaxKills       \* bound: kills, failed starts and reused PIDs

NoOne == "nobody"

ASSUME DaemonAssumption ==
  /\ Old \notin Procs /\ NoOne \notin Procs \cup {Old}
  /\ MaxAttempts \in Nat \ {0} /\ MaxKills \in Nat

Owners == Procs \cup {Old, NoOne}

VARIABLES
  pc,        \* a daemon's progress through start and stop
  tries,     \* attempts to claim the lock
  seen,      \* the lock's owner as a starting daemon read it
  launch,    \* the ensure that launches a daemon: its progress; "direct" for a start by hand
  startLock, \* ensure's start lock: the ensure that holds it
  unwritten, \* the start lock has no record yet
  lock,      \* instance lock file: the daemon whose record it has
  sockets,   \* socket files, by the daemon that made them
  publicLink,\* public socket path: the daemon whose socket it leads to
  pidFile,   \* PID file: the daemon whose record it has
  database,  \* daemons that have the database open
  reused,    \* dead daemons whose PID another program has
  kills

ownership == <<startLock, unwritten, lock, sockets, publicLink, pidFile, database>>
daemonVars == <<pc, tries, seen, launch, ownership, reused, kills>>

Starting == {"link", "inspect", "judge", "remove", "pid", "socket", "open", "listen",
             "publish", "record", "settle"}
Stopping == {"stop", "unlist", "unrecord", "close", "release"}
Living == Starting \cup Stopping \cup {"serving"}
Alive(p) == p \in Procs /\ pc[p] \in Living
Listening(p) == p \in sockets /\ Alive(p)

Goes(p, to) == pc' = [pc EXCEPT ![p] = to]
Kill == kills < MaxKills /\ kills' = kills + 1

-----------------------------------------------------------------------------
\* What a daemon that was killed may have left: it was starting, serving or stopping.
Leftovers ==
  {[lock |-> NoOne, socket |-> FALSE, publicLink |-> NoOne, pid |-> NoOne]}
  \cup {[lock |-> Old, socket |-> files[1], publicLink |-> files[2], pid |-> files[3]] :
          files \in {<<FALSE, NoOne, NoOne>>, <<TRUE, NoOne, NoOne>>, <<TRUE, Old, NoOne>>,
                     <<TRUE, Old, Old>>, <<FALSE, Old, Old>>, <<FALSE, NoOne, Old>>}}

DaemonInit ==
  /\ pc = [p \in Procs |-> "new"]
  /\ tries = [p \in Procs |-> 0] /\ seen = [p \in Procs |-> NoOne]
  /\ launch \in [Procs -> {"direct", "probe"}]
  /\ startLock = NoOne /\ unwritten = FALSE
  /\ \E left \in Leftovers :
       /\ lock = left.lock /\ publicLink = left.publicLink /\ pidFile = left.pid
       /\ sockets = IF left.socket THEN {Old} ELSE {}
  /\ database = {} /\ reused = {} /\ kills = 0

(* Whether a record's process is a living supervisor. *)

ProcessIsAlive(p) == Alive(p) \/ p \in reused

\* The command line, or the start time, tells a supervisor from a program that has its PID;
\* as if a living PID were proof enough.
AnyProgram(p) == TRUE
MatchesRecord(p) == Alive(p)

\* The owner of a lock starts, runs or stops.
LockOwnerIsLive(p) == ProcessIsAlive(p) /\ MatchesRecord(p)

\* The PID file's process must also answer on its socket.
PidRecordIsLive(p) == ProcessIsAlive(p) /\ MatchesRecord(p) /\ (Listening(p) \/ Listening(publicLink))

\* unlinkIfOwned removes a file that still is the one that was read; as if any would do.
AnyFile(file, owner) == TRUE
SameIdentity(file, owner) == file = owner

(* start: the instance lock. *)

\* start is called by hand.
Start(p) ==
  /\ pc[p] = "new" /\ launch[p] = "direct"
  /\ Goes(p, "link")
  /\ UNCHANGED <<tries, seen, launch, ownership, reused, kills>>

\* link() publishes the lock's whole record, or finds that there is one.
LinkLock(p) ==
  /\ pc[p] = "link"
  /\ IF tries[p] = MaxAttempts THEN Goes(p, "refused") /\ UNCHANGED <<tries, lock>>
     ELSE /\ tries' = [tries EXCEPT ![p] = @ + 1]
          /\ IF lock = NoOne THEN lock' = p /\ Goes(p, "pid") ELSE Goes(p, "inspect") /\ UNCHANGED lock
  /\ UNCHANGED <<seen, launch, startLock, unwritten, sockets, publicLink, pidFile, database, reused, kills>>

InspectLock(p) ==
  /\ pc[p] = "inspect"
  /\ seen' = [seen EXCEPT ![p] = lock]
  /\ Goes(p, IF lock = NoOne THEN "link" ELSE "judge")
  /\ UNCHANGED <<tries, launch, ownership, reused, kills>>

JudgeLock(p) ==
  /\ pc[p] = "judge"
  /\ Goes(p, IF LockOwnerIsLive(seen[p]) THEN "refused" ELSE "remove")
  /\ UNCHANGED <<tries, seen, launch, ownership, reused, kills>>

\* unlinkIfOwned: its check and its unlink are taken to be one step.
RemoveLock(p) ==
  /\ pc[p] = "remove" /\ Goes(p, "link")
  /\ lock' = IF SameIdentity(lock, seen[p]) THEN NoOne ELSE lock
  /\ UNCHANGED <<tries, seen, launch, startLock, unwritten, sockets, publicLink, pidFile, database, reused, kills>>

(* start: what was left behind, and what is published. *)

Releases(p) == lock' = IF lock = p THEN NoOne ELSE lock

\* preparePidPath refuses a live daemon's record and removes any other.
PreparePidPath(p) ==
  /\ pc[p] = "pid"
  /\ IF pidFile \notin {NoOne, p} /\ PidRecordIsLive(pidFile)
     THEN Goes(p, "refused") /\ Releases(p) /\ UNCHANGED pidFile
     ELSE Goes(p, "socket") /\ pidFile' = NoOne /\ UNCHANGED lock
  /\ UNCHANGED <<tries, seen, launch, startLock, unwritten, sockets, publicLink, database, reused, kills>>

\* prepareSocketPath refuses a link whose socket answers; any other goes, with its socket.
PrepareSocketPath(p) ==
  /\ pc[p] = "socket"
  /\ IF Listening(publicLink)
     THEN Goes(p, "refused") /\ Releases(p) /\ UNCHANGED <<sockets, publicLink>>
     ELSE Goes(p, "open") /\ publicLink' = NoOne /\ sockets' = sockets \ {publicLink} /\ UNCHANGED lock
  /\ UNCHANGED <<tries, seen, launch, startLock, unwritten, pidFile, database, reused, kills>>

\* The stores are opened, and what the previous daemon owned is reconciled.
OpenDatabase(p) ==
  /\ pc[p] = "open" /\ Goes(p, "listen")
  /\ database' = database \cup {p}
  /\ UNCHANGED <<tries, seen, launch, startLock, unwritten, lock, sockets, publicLink, pidFile, reused, kills>>

Listen(p) ==
  /\ pc[p] = "listen" /\ Goes(p, "publish")
  /\ sockets' = sockets \cup {p}
  /\ UNCHANGED <<tries, seen, launch, startLock, unwritten, lock, publicLink, pidFile, database, reused, kills>>

PublishSocketLink(p) ==
  /\ pc[p] = "publish" /\ Goes(p, "record")
  /\ publicLink' = p
  /\ UNCHANGED <<tries, seen, launch, startLock, unwritten, lock, sockets, pidFile, database, reused, kills>>

WriteOwnedPidFile(p) ==
  /\ pc[p] = "record" /\ Goes(p, "settle")
  /\ pidFile' = p
  /\ UNCHANGED <<tries, seen, launch, startLock, unwritten, lock, sockets, publicLink, database, reused, kills>>

\* The scheduler, the inbox and the monitors are started.
FinishStart(p) ==
  /\ pc[p] = "settle" /\ Goes(p, "serving")
  /\ UNCHANGED <<tries, seen, launch, ownership, reused, kills>>

\* start's catch: what it opened is closed, what it published stays.
StartFails(p) ==
  /\ pc[p] \in {"listen", "publish", "record", "settle"} /\ Kill
  /\ Goes(p, "failed")
  /\ sockets' = sockets \ {p} /\ database' = database \ {p} /\ Releases(p)
  /\ UNCHANGED <<tries, seen, launch, startLock, unwritten, publicLink, pidFile, reused>>

(* stop. *)

Stop(p) ==
  /\ pc[p] = "serving" /\ Goes(p, "stop")
  /\ UNCHANGED <<tries, seen, launch, ownership, reused, kills>>

\* The server is closed and its socket removed, then the link and the PID file if they still
\* are its own, then the database is closed; the lock is the last to go.
StopStep(p) ==
  /\ \/ /\ pc[p] = "stop" /\ Goes(p, "unlist") /\ sockets' = sockets \ {p}
        /\ UNCHANGED <<publicLink, pidFile, database, lock>>
     \/ /\ pc[p] = "unlist" /\ Goes(p, "unrecord")
        /\ publicLink' = IF SameIdentity(publicLink, p) THEN NoOne ELSE publicLink
        /\ UNCHANGED <<sockets, pidFile, database, lock>>
     \/ /\ pc[p] = "unrecord" /\ Goes(p, "close")
        /\ pidFile' = IF SameIdentity(pidFile, p) THEN NoOne ELSE pidFile
        /\ UNCHANGED <<sockets, publicLink, database, lock>>
     \/ /\ pc[p] = "close" /\ Goes(p, "release") /\ database' = database \ {p}
        /\ UNCHANGED <<sockets, publicLink, pidFile, lock>>
     \/ /\ pc[p] = "release" /\ Goes(p, "stopped") /\ Releases(p)
        /\ UNCHANGED <<sockets, publicLink, pidFile, database>>
  /\ UNCHANGED <<tries, seen, launch, startLock, unwritten, reused, kills>>

\* The process is killed: its files stay, its database handle does not.
Killed(p) ==
  /\ Alive(p) /\ Kill
  /\ Goes(p, "dead") /\ database' = database \ {p}
  /\ UNCHANGED <<tries, seen, launch, startLock, unwritten, lock, sockets, publicLink, pidFile, reused>>

PidReused(p) ==
  /\ p = Old \/ (p \in Procs /\ pc[p] = "dead")
  /\ p \notin reused /\ Kill
  /\ reused' = reused \cup {p}
  /\ UNCHANGED <<pc, tries, seen, launch, ownership>>

-----------------------------------------------------------------------------
(* ensure. *)

Proceeds(p, to) == launch' = [launch EXCEPT ![p] = to]
SocketAvailable == Listening(publicLink)
EnsureOnly == UNCHANGED <<tries, seen, lock, sockets, publicLink, pidFile, database, reused, kills>>

\* A daemon answers, or the start lock is next.
EnsureProbe(p) ==
  /\ launch[p] = "probe"
  /\ Proceeds(p, IF SocketAvailable THEN "done" ELSE "lock")
  /\ EnsureOnly /\ UNCHANGED <<pc, startLock, unwritten>>

\* acquireStartLock: the file is made, then written.
EnsureLock(p) ==
  /\ \/ launch[p] = "lock" /\ startLock = NoOne /\ startLock' = p /\ unwritten' = TRUE /\ Proceeds(p, "write")
     \/ launch[p] = "write" /\ unwritten' = (unwritten /\ startLock # p) /\ Proceeds(p, "again")
        /\ UNCHANGED startLock
  /\ EnsureOnly /\ UNCHANGED pc

\* An ensure is not killed while it holds the lock: what it has written tells that it lives.
StartLockOwnerIsLive == ~unwritten

\* A lock without a record passes for stale and is removed.
EnsureBreaksLock(p) ==
  /\ launch[p] = "lock" /\ startLock # NoOne /\ ~StartLockOwnerIsLive
  /\ startLock' = NoOne /\ unwritten' = FALSE
  /\ EnsureOnly /\ UNCHANGED <<pc, launch>>

\* The lock is held for longer than an ensure waits, or the daemon does not come up.
EnsureGivesUp(p) ==
  /\ \/ launch[p] = "lock" /\ startLock # NoOne /\ StartLockOwnerIsLive /\ Proceeds(p, "gaveUp")
        /\ UNCHANGED <<startLock, unwritten>>
     \/ launch[p] = "wait" /\ ~SocketAvailable /\ Proceeds(p, "gaveUp")
        /\ startLock' = NoOne /\ unwritten' = FALSE
  /\ EnsureOnly /\ UNCHANGED pc

\* With the lock, ensure looks again before it launches a daemon, and waits for one to answer.
EnsureLaunch(p) ==
  /\ \/ launch[p] = "again" /\ ~SocketAvailable /\ Proceeds(p, "wait")
        /\ Goes(p, "link") /\ UNCHANGED <<startLock, unwritten>>
     \/ launch[p] \in {"again", "wait"} /\ SocketAvailable /\ Proceeds(p, "done")
        /\ startLock' = NoOne /\ unwritten' = FALSE /\ UNCHANGED pc
  /\ EnsureOnly

-----------------------------------------------------------------------------
DaemonStep(p) ==
  \/ Start(p) \/ LinkLock(p) \/ InspectLock(p) \/ JudgeLock(p) \/ RemoveLock(p)
  \/ PreparePidPath(p) \/ PrepareSocketPath(p) \/ OpenDatabase(p) \/ Listen(p)
  \/ PublishSocketLink(p) \/ WriteOwnedPidFile(p) \/ FinishStart(p) \/ StopStep(p)

DaemonNext ==
  \/ \E p \in Procs : \/ DaemonStep(p) \/ Stop(p) \/ StartFails(p) \/ Killed(p)
                      \/ EnsureProbe(p) \/ EnsureLock(p) \/ EnsureBreaksLock(p)
                      \/ EnsureGivesUp(p) \/ EnsureLaunch(p)
  \/ \E p \in Procs \cup {Old} : PidReused(p)

DaemonSpec == DaemonInit /\ [][DaemonNext]_daemonVars

-----------------------------------------------------------------------------
(* Properties. *)

\* Two daemons never have the database open, however many are started at once over the files
\* of a dead one; and the one that serves holds the lock and is the one that the public link
\* and the PID file name, whatever starts and stops are under way.
OneDaemonServes ==
  /\ Cardinality(database) <= 1
  /\ \A p \in Procs : pc[p] = "serving" => lock = p /\ publicLink = p /\ p \in sockets /\ pidFile = p

\* What dead daemons left, and programs that now have their PIDs, never keep a new one from
\* serving: a start is refused only while another daemon lives.
LeftoversDoNotBlock ==
  [][\A p \in Procs : pc[p] # "refused" /\ pc'[p] = "refused" => \E q \in Procs \ {p} : Alive(q)]_daemonVars
=============================================================================
