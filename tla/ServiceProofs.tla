---------------------------- MODULE ServiceProofs ----------------------------
(***************************************************************************)
(* What holds of daemons for any number of starts, kills and reused PIDs;  *)
(* and of the feed and whoever follows it, for any number of messages,     *)
(* workers, supervisors and lost connections.                              *)
(***************************************************************************)
EXTENDS Daemon, Feed, FiniteSetTheorems, SequenceTheorems, WellFoundedInduction, TLAPS

Progress == {"new", "dead", "refused", "failed", "stopped"} \cup Living

DaemonTypeOK ==
  /\ pc \in [Procs -> Progress]
  /\ tries \in [Procs -> Nat] /\ seen \in [Procs -> Owners]
  /\ launch \in [Procs -> {"direct", "probe", "lock", "write", "again", "wait", "done", "gaveUp"}]
  /\ startLock \in Procs \cup {NoOne} /\ unwritten \in BOOLEAN
  /\ lock \in Owners /\ publicLink \in Owners /\ pidFile \in Owners
  /\ sockets \subseteq Procs \cup {Old} /\ database \subseteq Procs
  /\ reused \subseteq Procs \cup {Old} /\ kills \in Nat

\* The steps between a daemon's claim of the instance lock and its release, and those of them
\* at which it has the database open, its socket, the public link and the PID file.
Opened  == {"listen", "publish", "record", "settle", "serving", "stop", "unlist", "unrecord", "close"}
Holding == {"pid", "socket", "open", "release"} \cup Opened

\* Whoever is past its claim is named by the lock, so that there is one.
HolderIsNamed == \A p \in Procs : pc[p] \in Holding => lock = p

OpenedByHolder == \A p \in database : pc[p] \in Opened

\* A record that a daemon goes by is that of one which was started; what is to be removed is
\* the record of one that is over, and that stays so.
RecordsAreOfStarted ==
  /\ lock \in Procs => pc[lock] # "new"
  /\ \A p \in Procs : seen[p] \in Procs => pc[seen[p]] # "new"
  /\ \A p \in Procs : pc[p] = "remove" => ~Alive(seen[p])

\* ensure launches a daemon once.
LaunchedOnce == \A p \in Procs : launch[p] \in {"probe", "lock", "write", "again"} => pc[p] = "new"

\* What the holder publishes stays until it stops.
HolderPublishes ==
  \A p \in Procs :
    /\ pc[p] \in {"publish", "record", "settle", "serving"} => p \in sockets
    /\ pc[p] \in {"record", "settle", "serving"} => publicLink = p
    /\ pc[p] \in {"settle", "serving"} => pidFile = p

\* The inductive invariant: OneDaemonServes speaks of the database and of who serves; what
\* keeps both true is that the lock names its holder at every step in between, and that only
\* the record of a daemon that is over is ever removed by another.
DaemonInv ==
  /\ DaemonTypeOK
  /\ HolderIsNamed /\ OpenedByHolder /\ RecordsAreOfStarted /\ LaunchedOnce /\ HolderPublishes

-----------------------------------------------------------------------------
(* Each step preserves the invariant. *)

LEMMA StartKeeps ==
  ASSUME DaemonInv, NEW p \in Procs, Start(p)
  PROVE  DaemonInv'
<1> USE DaemonAssumption DEF DaemonInv, DaemonTypeOK, Living, Starting, Stopping,
        Start, Goes, ownership
<1>1. DaemonTypeOK'  BY DEF Progress, Owners
<1>2. HolderIsNamed' /\ OpenedByHolder'
  BY DEF HolderIsNamed, OpenedByHolder, RecordsAreOfStarted, LaunchedOnce, Holding, Opened, Alive
<1>3. RecordsAreOfStarted'  BY DEF Owners, RecordsAreOfStarted, LaunchedOnce, Alive
<1>4. LaunchedOnce'  BY DEF LaunchedOnce, Alive
<1>5. HolderPublishes'  BY DEF HolderIsNamed, HolderPublishes, LaunchedOnce, Holding, Opened, Alive
<1> QED  BY <1>1, <1>2, <1>3, <1>4, <1>5 DEF DaemonInv

LEMMA LinkLockKeeps ==
  ASSUME DaemonInv, NEW p \in Procs, LinkLock(p)
  PROVE  DaemonInv'
<1> USE DaemonAssumption DEF DaemonInv, DaemonTypeOK, Living, Starting, Stopping,
        LinkLock, Goes, ownership
<1>1. DaemonTypeOK'  BY DEF Progress, Owners
<1>2. HolderIsNamed' /\ OpenedByHolder'
  BY DEF HolderIsNamed, OpenedByHolder, RecordsAreOfStarted, LaunchedOnce, Holding, Opened, Alive
<1>3. RecordsAreOfStarted'  BY DEF Owners, RecordsAreOfStarted, LaunchedOnce, Alive
<1>4. LaunchedOnce'  BY DEF LaunchedOnce, Alive
<1>5. HolderPublishes'  BY DEF HolderIsNamed, HolderPublishes, LaunchedOnce, Holding, Opened, Alive
<1> QED  BY <1>1, <1>2, <1>3, <1>4, <1>5 DEF DaemonInv

LEMMA InspectLockKeeps ==
  ASSUME DaemonInv, NEW p \in Procs, InspectLock(p)
  PROVE  DaemonInv'
<1> USE DaemonAssumption DEF DaemonInv, DaemonTypeOK, Living, Starting, Stopping,
        InspectLock, Goes, ownership
<1>1. DaemonTypeOK'  BY DEF Progress, Owners
<1>2. HolderIsNamed' /\ OpenedByHolder'
  BY DEF HolderIsNamed, OpenedByHolder, RecordsAreOfStarted, LaunchedOnce, Holding, Opened, Alive
<1>3. RecordsAreOfStarted'  BY DEF Owners, RecordsAreOfStarted, LaunchedOnce, Alive
<1>4. LaunchedOnce'  BY DEF LaunchedOnce, Alive
<1>5. HolderPublishes'  BY DEF HolderIsNamed, HolderPublishes, LaunchedOnce, Holding, Opened, Alive
<1> QED  BY <1>1, <1>2, <1>3, <1>4, <1>5 DEF DaemonInv

LEMMA JudgeLockKeeps ==
  ASSUME DaemonInv, NEW p \in Procs, JudgeLock(p)
  PROVE  DaemonInv'
<1> USE DaemonAssumption DEF DaemonInv, DaemonTypeOK, Living, Starting, Stopping,
        JudgeLock, Goes, ownership, LockOwnerIsLive, MatchesRecord, ProcessIsAlive
<1>1. DaemonTypeOK'  BY DEF Progress, Owners
<1>2. HolderIsNamed' /\ OpenedByHolder'
  BY DEF HolderIsNamed, OpenedByHolder, RecordsAreOfStarted, LaunchedOnce, Holding, Opened, Alive
<1>3. RecordsAreOfStarted'  BY DEF Owners, RecordsAreOfStarted, LaunchedOnce, Alive
<1>4. LaunchedOnce'  BY DEF LaunchedOnce, Alive
<1>5. HolderPublishes'  BY DEF HolderIsNamed, HolderPublishes, LaunchedOnce, Holding, Opened, Alive
<1> QED  BY <1>1, <1>2, <1>3, <1>4, <1>5 DEF DaemonInv

LEMMA RemoveLockKeeps ==
  ASSUME DaemonInv, NEW p \in Procs, RemoveLock(p)
  PROVE  DaemonInv'
<1> USE DaemonAssumption DEF DaemonInv, DaemonTypeOK, Living, Starting, Stopping,
        RemoveLock, Goes, ownership, SameIdentity
<1>1. DaemonTypeOK'  BY DEF Progress, Owners
<1>2. HolderIsNamed' /\ OpenedByHolder'
  BY DEF HolderIsNamed, OpenedByHolder, RecordsAreOfStarted, LaunchedOnce, Holding, Opened, Alive
<1>3. RecordsAreOfStarted'  BY DEF Owners, RecordsAreOfStarted, LaunchedOnce, Alive
<1>4. LaunchedOnce'  BY DEF LaunchedOnce, Alive
<1>5. HolderPublishes'  BY DEF HolderIsNamed, HolderPublishes, LaunchedOnce, Holding, Opened, Alive
<1> QED  BY <1>1, <1>2, <1>3, <1>4, <1>5 DEF DaemonInv

LEMMA PreparePidPathKeeps ==
  ASSUME DaemonInv, NEW p \in Procs, PreparePidPath(p)
  PROVE  DaemonInv'
<1> USE DaemonAssumption DEF DaemonInv, DaemonTypeOK, Living, Starting, Stopping,
        PreparePidPath, Goes, ownership, Releases
<1>1. DaemonTypeOK'  BY DEF Progress, Owners
<1>2. HolderIsNamed' /\ OpenedByHolder'
  BY DEF HolderIsNamed, OpenedByHolder, RecordsAreOfStarted, LaunchedOnce, Holding, Opened, Alive
<1>3. RecordsAreOfStarted'  BY DEF Owners, RecordsAreOfStarted, LaunchedOnce, Alive
<1>4. LaunchedOnce'  BY DEF LaunchedOnce, Alive
<1>5. HolderPublishes'  BY DEF HolderIsNamed, HolderPublishes, LaunchedOnce, Holding, Opened, Alive
<1> QED  BY <1>1, <1>2, <1>3, <1>4, <1>5 DEF DaemonInv

LEMMA PrepareSocketPathKeeps ==
  ASSUME DaemonInv, NEW p \in Procs, PrepareSocketPath(p)
  PROVE  DaemonInv'
<1> USE DaemonAssumption DEF DaemonInv, DaemonTypeOK, Living, Starting, Stopping,
        PrepareSocketPath, Goes, ownership, Releases
<1>1. DaemonTypeOK'  BY DEF Progress, Owners
<1>2. HolderIsNamed' /\ OpenedByHolder'
  BY DEF HolderIsNamed, OpenedByHolder, RecordsAreOfStarted, LaunchedOnce, Holding, Opened, Alive
<1>3. RecordsAreOfStarted'  BY DEF Owners, RecordsAreOfStarted, LaunchedOnce, Alive
<1>4. LaunchedOnce'  BY DEF LaunchedOnce, Alive
<1>5. HolderPublishes'  BY DEF HolderIsNamed, HolderPublishes, LaunchedOnce, Holding, Opened, Alive
<1> QED  BY <1>1, <1>2, <1>3, <1>4, <1>5 DEF DaemonInv

LEMMA OpenDatabaseKeeps ==
  ASSUME DaemonInv, NEW p \in Procs, OpenDatabase(p)
  PROVE  DaemonInv'
<1> USE DaemonAssumption DEF DaemonInv, DaemonTypeOK, Living, Starting, Stopping,
        OpenDatabase, Goes, ownership
<1>1. DaemonTypeOK'  BY DEF Progress, Owners
<1>2. HolderIsNamed' /\ OpenedByHolder'
  BY DEF HolderIsNamed, OpenedByHolder, RecordsAreOfStarted, LaunchedOnce, Holding, Opened, Alive
<1>3. RecordsAreOfStarted'  BY DEF Owners, RecordsAreOfStarted, LaunchedOnce, Alive
<1>4. LaunchedOnce'  BY DEF LaunchedOnce, Alive
<1>5. HolderPublishes'  BY DEF HolderIsNamed, HolderPublishes, LaunchedOnce, Holding, Opened, Alive
<1> QED  BY <1>1, <1>2, <1>3, <1>4, <1>5 DEF DaemonInv

LEMMA ListenKeeps ==
  ASSUME DaemonInv, NEW p \in Procs, Listen(p)
  PROVE  DaemonInv'
<1> USE DaemonAssumption DEF DaemonInv, DaemonTypeOK, Living, Starting, Stopping,
        Listen, Goes, ownership
<1>1. DaemonTypeOK'  BY DEF Progress, Owners
<1>2. HolderIsNamed' /\ OpenedByHolder'
  BY DEF HolderIsNamed, OpenedByHolder, RecordsAreOfStarted, LaunchedOnce, Holding, Opened, Alive
<1>3. RecordsAreOfStarted'  BY DEF Owners, RecordsAreOfStarted, LaunchedOnce, Alive
<1>4. LaunchedOnce'  BY DEF LaunchedOnce, Alive
<1>5. HolderPublishes'  BY DEF HolderIsNamed, HolderPublishes, LaunchedOnce, Holding, Opened, Alive
<1> QED  BY <1>1, <1>2, <1>3, <1>4, <1>5 DEF DaemonInv

LEMMA PublishSocketLinkKeeps ==
  ASSUME DaemonInv, NEW p \in Procs, PublishSocketLink(p)
  PROVE  DaemonInv'
<1> USE DaemonAssumption DEF DaemonInv, DaemonTypeOK, Living, Starting, Stopping,
        PublishSocketLink, Goes, ownership
<1>1. DaemonTypeOK'  BY DEF Progress, Owners
<1>2. HolderIsNamed' /\ OpenedByHolder'
  BY DEF HolderIsNamed, OpenedByHolder, RecordsAreOfStarted, LaunchedOnce, Holding, Opened, Alive
<1>3. RecordsAreOfStarted'  BY DEF Owners, RecordsAreOfStarted, LaunchedOnce, Alive
<1>4. LaunchedOnce'  BY DEF LaunchedOnce, Alive
<1>5. HolderPublishes'  BY DEF HolderIsNamed, HolderPublishes, LaunchedOnce, Holding, Opened, Alive
<1> QED  BY <1>1, <1>2, <1>3, <1>4, <1>5 DEF DaemonInv

LEMMA WriteOwnedPidFileKeeps ==
  ASSUME DaemonInv, NEW p \in Procs, WriteOwnedPidFile(p)
  PROVE  DaemonInv'
<1> USE DaemonAssumption DEF DaemonInv, DaemonTypeOK, Living, Starting, Stopping,
        WriteOwnedPidFile, Goes, ownership
<1>1. DaemonTypeOK'  BY DEF Progress, Owners
<1>2. HolderIsNamed' /\ OpenedByHolder'
  BY DEF HolderIsNamed, OpenedByHolder, RecordsAreOfStarted, LaunchedOnce, Holding, Opened, Alive
<1>3. RecordsAreOfStarted'  BY DEF Owners, RecordsAreOfStarted, LaunchedOnce, Alive
<1>4. LaunchedOnce'  BY DEF LaunchedOnce, Alive
<1>5. HolderPublishes'  BY DEF HolderIsNamed, HolderPublishes, LaunchedOnce, Holding, Opened, Alive
<1> QED  BY <1>1, <1>2, <1>3, <1>4, <1>5 DEF DaemonInv

LEMMA FinishStartKeeps ==
  ASSUME DaemonInv, NEW p \in Procs, FinishStart(p)
  PROVE  DaemonInv'
<1> USE DaemonAssumption DEF DaemonInv, DaemonTypeOK, Living, Starting, Stopping,
        FinishStart, Goes, ownership
<1>1. DaemonTypeOK'  BY DEF Progress, Owners
<1>2. HolderIsNamed' /\ OpenedByHolder'
  BY DEF HolderIsNamed, OpenedByHolder, RecordsAreOfStarted, LaunchedOnce, Holding, Opened, Alive
<1>3. RecordsAreOfStarted'  BY DEF Owners, RecordsAreOfStarted, LaunchedOnce, Alive
<1>4. LaunchedOnce'  BY DEF LaunchedOnce, Alive
<1>5. HolderPublishes'  BY DEF HolderIsNamed, HolderPublishes, LaunchedOnce, Holding, Opened, Alive
<1> QED  BY <1>1, <1>2, <1>3, <1>4, <1>5 DEF DaemonInv

LEMMA StartFailsKeeps ==
  ASSUME DaemonInv, NEW p \in Procs, StartFails(p)
  PROVE  DaemonInv'
<1> USE DaemonAssumption DEF DaemonInv, DaemonTypeOK, Living, Starting, Stopping,
        StartFails, Goes, ownership, Releases, Kill
<1>1. DaemonTypeOK'  BY DEF Progress, Owners
<1>2. HolderIsNamed' /\ OpenedByHolder'
  BY DEF HolderIsNamed, OpenedByHolder, RecordsAreOfStarted, LaunchedOnce, Holding, Opened, Alive
<1>3. RecordsAreOfStarted'  BY DEF Owners, RecordsAreOfStarted, LaunchedOnce, Alive
<1>4. LaunchedOnce'  BY DEF LaunchedOnce, Alive
<1>5. HolderPublishes'  BY DEF HolderIsNamed, HolderPublishes, LaunchedOnce, Holding, Opened, Alive
<1> QED  BY <1>1, <1>2, <1>3, <1>4, <1>5 DEF DaemonInv

LEMMA StopKeeps ==
  ASSUME DaemonInv, NEW p \in Procs, Stop(p)
  PROVE  DaemonInv'
<1> USE DaemonAssumption DEF DaemonInv, DaemonTypeOK, Living, Starting, Stopping,
        Stop, Goes, ownership
<1>1. DaemonTypeOK'  BY DEF Progress, Owners
<1>2. HolderIsNamed' /\ OpenedByHolder'
  BY DEF HolderIsNamed, OpenedByHolder, RecordsAreOfStarted, LaunchedOnce, Holding, Opened, Alive
<1>3. RecordsAreOfStarted'  BY DEF Owners, RecordsAreOfStarted, LaunchedOnce, Alive
<1>4. LaunchedOnce'  BY DEF LaunchedOnce, Alive
<1>5. HolderPublishes'  BY DEF HolderIsNamed, HolderPublishes, LaunchedOnce, Holding, Opened, Alive
<1> QED  BY <1>1, <1>2, <1>3, <1>4, <1>5 DEF DaemonInv

LEMMA StopStepKeeps ==
  ASSUME DaemonInv, NEW p \in Procs, StopStep(p)
  PROVE  DaemonInv'
<1> USE DaemonAssumption DEF DaemonInv, DaemonTypeOK, Living, Starting, Stopping,
        StopStep, Goes, ownership, Releases, SameIdentity
<1>1. DaemonTypeOK'  BY DEF Progress, Owners
<1>2. HolderIsNamed' /\ OpenedByHolder'
  BY DEF HolderIsNamed, OpenedByHolder, RecordsAreOfStarted, LaunchedOnce, Holding, Opened, Alive
<1>3. RecordsAreOfStarted'  BY DEF Owners, RecordsAreOfStarted, LaunchedOnce, Alive
<1>4. LaunchedOnce'  BY DEF LaunchedOnce, Alive
<1>5. HolderPublishes'  BY DEF HolderIsNamed, HolderPublishes, LaunchedOnce, Holding, Opened, Alive
<1> QED  BY <1>1, <1>2, <1>3, <1>4, <1>5 DEF DaemonInv

LEMMA KilledKeeps ==
  ASSUME DaemonInv, NEW p \in Procs, Killed(p)
  PROVE  DaemonInv'
<1> USE DaemonAssumption DEF DaemonInv, DaemonTypeOK, Living, Starting, Stopping,
        Killed, Goes, ownership, Kill
<1>1. DaemonTypeOK'  BY DEF Progress, Owners
<1>2. HolderIsNamed' /\ OpenedByHolder'
  BY DEF HolderIsNamed, OpenedByHolder, RecordsAreOfStarted, LaunchedOnce, Holding, Opened, Alive
<1>3. RecordsAreOfStarted'  BY DEF Owners, RecordsAreOfStarted, LaunchedOnce, Alive
<1>4. LaunchedOnce'  BY DEF LaunchedOnce, Alive
<1>5. HolderPublishes'  BY DEF HolderIsNamed, HolderPublishes, LaunchedOnce, Holding, Opened, Alive
<1> QED  BY <1>1, <1>2, <1>3, <1>4, <1>5 DEF DaemonInv

LEMMA PidReusedKeeps ==
  ASSUME DaemonInv, NEW p \in Procs \cup {Old}, PidReused(p)
  PROVE  DaemonInv'
<1> USE DaemonAssumption DEF DaemonInv, DaemonTypeOK, Living, Starting, Stopping,
        PidReused, Goes, ownership, Kill
<1>1. DaemonTypeOK'  BY DEF Progress, Owners
<1>2. HolderIsNamed' /\ OpenedByHolder'
  BY DEF HolderIsNamed, OpenedByHolder, RecordsAreOfStarted, LaunchedOnce, Holding, Opened, Alive
<1>3. RecordsAreOfStarted'  BY DEF Owners, RecordsAreOfStarted, LaunchedOnce, Alive
<1>4. LaunchedOnce'  BY DEF LaunchedOnce, Alive
<1>5. HolderPublishes'  BY DEF HolderIsNamed, HolderPublishes, LaunchedOnce, Holding, Opened, Alive
<1> QED  BY <1>1, <1>2, <1>3, <1>4, <1>5 DEF DaemonInv

LEMMA EnsureProbeKeeps ==
  ASSUME DaemonInv, NEW p \in Procs, EnsureProbe(p)
  PROVE  DaemonInv'
<1> USE DaemonAssumption DEF DaemonInv, DaemonTypeOK, Living, Starting, Stopping,
        EnsureProbe, Goes, ownership, EnsureOnly, Proceeds
<1>1. DaemonTypeOK'  BY DEF Progress, Owners
<1>2. HolderIsNamed' /\ OpenedByHolder'
  BY DEF HolderIsNamed, OpenedByHolder, RecordsAreOfStarted, LaunchedOnce, Holding, Opened, Alive
<1>3. RecordsAreOfStarted'  BY DEF Owners, RecordsAreOfStarted, LaunchedOnce, Alive
<1>4. LaunchedOnce'  BY DEF LaunchedOnce, Alive
<1>5. HolderPublishes'  BY DEF HolderIsNamed, HolderPublishes, LaunchedOnce, Holding, Opened, Alive
<1> QED  BY <1>1, <1>2, <1>3, <1>4, <1>5 DEF DaemonInv

LEMMA EnsureLockKeeps ==
  ASSUME DaemonInv, NEW p \in Procs, EnsureLock(p)
  PROVE  DaemonInv'
<1> USE DaemonAssumption DEF DaemonInv, DaemonTypeOK, Living, Starting, Stopping,
        EnsureLock, Goes, ownership, EnsureOnly, Proceeds
<1>1. DaemonTypeOK'  BY DEF Progress, Owners
<1>2. HolderIsNamed' /\ OpenedByHolder'
  BY DEF HolderIsNamed, OpenedByHolder, RecordsAreOfStarted, LaunchedOnce, Holding, Opened, Alive
<1>3. RecordsAreOfStarted'  BY DEF Owners, RecordsAreOfStarted, LaunchedOnce, Alive
<1>4. LaunchedOnce'  BY DEF LaunchedOnce, Alive
<1>5. HolderPublishes'  BY DEF HolderIsNamed, HolderPublishes, LaunchedOnce, Holding, Opened, Alive
<1> QED  BY <1>1, <1>2, <1>3, <1>4, <1>5 DEF DaemonInv

LEMMA EnsureBreaksLockKeeps ==
  ASSUME DaemonInv, NEW p \in Procs, EnsureBreaksLock(p)
  PROVE  DaemonInv'
<1> USE DaemonAssumption DEF DaemonInv, DaemonTypeOK, Living, Starting, Stopping,
        EnsureBreaksLock, Goes, ownership, EnsureOnly, Proceeds
<1>1. DaemonTypeOK'  BY DEF Progress, Owners
<1>2. HolderIsNamed' /\ OpenedByHolder'
  BY DEF HolderIsNamed, OpenedByHolder, RecordsAreOfStarted, LaunchedOnce, Holding, Opened, Alive
<1>3. RecordsAreOfStarted'  BY DEF Owners, RecordsAreOfStarted, LaunchedOnce, Alive
<1>4. LaunchedOnce'  BY DEF LaunchedOnce, Alive
<1>5. HolderPublishes'  BY DEF HolderIsNamed, HolderPublishes, LaunchedOnce, Holding, Opened, Alive
<1> QED  BY <1>1, <1>2, <1>3, <1>4, <1>5 DEF DaemonInv

LEMMA EnsureGivesUpKeeps ==
  ASSUME DaemonInv, NEW p \in Procs, EnsureGivesUp(p)
  PROVE  DaemonInv'
<1> USE DaemonAssumption DEF DaemonInv, DaemonTypeOK, Living, Starting, Stopping,
        EnsureGivesUp, Goes, ownership, EnsureOnly, Proceeds
<1>1. DaemonTypeOK'  BY DEF Progress, Owners
<1>2. HolderIsNamed' /\ OpenedByHolder'
  BY DEF HolderIsNamed, OpenedByHolder, RecordsAreOfStarted, LaunchedOnce, Holding, Opened, Alive
<1>3. RecordsAreOfStarted'  BY DEF Owners, RecordsAreOfStarted, LaunchedOnce, Alive
<1>4. LaunchedOnce'  BY DEF LaunchedOnce, Alive
<1>5. HolderPublishes'  BY DEF HolderIsNamed, HolderPublishes, LaunchedOnce, Holding, Opened, Alive
<1> QED  BY <1>1, <1>2, <1>3, <1>4, <1>5 DEF DaemonInv

LEMMA EnsureLaunchKeeps ==
  ASSUME DaemonInv, NEW p \in Procs, EnsureLaunch(p)
  PROVE  DaemonInv'
<1> USE DaemonAssumption DEF DaemonInv, DaemonTypeOK, Living, Starting, Stopping,
        EnsureLaunch, Goes, ownership, EnsureOnly, Proceeds
<1>1. DaemonTypeOK'  BY DEF Progress, Owners
<1>2. HolderIsNamed' /\ OpenedByHolder'
  BY DEF HolderIsNamed, OpenedByHolder, RecordsAreOfStarted, LaunchedOnce, Holding, Opened, Alive
<1>3. RecordsAreOfStarted'  BY DEF Owners, RecordsAreOfStarted, LaunchedOnce, Alive
<1>4. LaunchedOnce'  BY DEF LaunchedOnce, Alive
<1>5. HolderPublishes'  BY DEF HolderIsNamed, HolderPublishes, LaunchedOnce, Holding, Opened, Alive
<1> QED  BY <1>1, <1>2, <1>3, <1>4, <1>5 DEF DaemonInv

-----------------------------------------------------------------------------
(* The theorems. *)

LEMMA DaemonInitHolds == DaemonInit => DaemonInv
<1> SUFFICES ASSUME DaemonInit PROVE DaemonInv  OBVIOUS
<1>1. lock \in {Old, NoOne} /\ publicLink \in {Old, NoOne} /\ pidFile \in {Old, NoOne} /\ sockets \subseteq {Old}
  BY DEF DaemonInit, Leftovers
<1>2. \A p \in Procs : pc[p] = "new" /\ seen[p] = NoOne  BY DEF DaemonInit
<1>3. DaemonTypeOK  BY <1>1 DEF DaemonInit, DaemonTypeOK, Progress, Owners
<1>4. HolderIsNamed /\ OpenedByHolder /\ LaunchedOnce /\ HolderPublishes
  BY <1>2 DEF DaemonInit, HolderIsNamed, OpenedByHolder, LaunchedOnce, HolderPublishes, Holding, Opened
<1>5. RecordsAreOfStarted  BY <1>1, <1>2, DaemonAssumption DEF RecordsAreOfStarted
<1> QED  BY <1>3, <1>4, <1>5 DEF DaemonInv

LEMMA DaemonNextKeeps == DaemonInv /\ [DaemonNext]_daemonVars => DaemonInv'
<1> SUFFICES ASSUME DaemonInv, [DaemonNext]_daemonVars PROVE DaemonInv'  OBVIOUS
<1>1. ASSUME NEW p \in Procs, DaemonStep(p) PROVE DaemonInv'
  BY <1>1, StartKeeps, LinkLockKeeps, InspectLockKeeps, JudgeLockKeeps, RemoveLockKeeps, PreparePidPathKeeps, PrepareSocketPathKeeps,
     OpenDatabaseKeeps, ListenKeeps, PublishSocketLinkKeeps, WriteOwnedPidFileKeeps, FinishStartKeeps, StopStepKeeps DEF DaemonStep
<1>2. ASSUME NEW p \in Procs, Stop(p) \/ StartFails(p) \/ Killed(p) PROVE DaemonInv'
  BY <1>2, StopKeeps, StartFailsKeeps, KilledKeeps
<1>3. ASSUME NEW p \in Procs, EnsureProbe(p) \/ EnsureLock(p) \/ EnsureBreaksLock(p) \/ EnsureGivesUp(p) \/ EnsureLaunch(p)
      PROVE DaemonInv'
  BY <1>3, EnsureProbeKeeps, EnsureLockKeeps, EnsureBreaksLockKeeps, EnsureGivesUpKeeps, EnsureLaunchKeeps
<1>4. ASSUME NEW p \in Procs \cup {Old}, PidReused(p) PROVE DaemonInv'  BY <1>4, PidReusedKeeps
<1>5. CASE UNCHANGED daemonVars
  BY <1>5 DEF daemonVars, ownership, DaemonInv, DaemonTypeOK, HolderIsNamed, OpenedByHolder, RecordsAreOfStarted,
              LaunchedOnce, HolderPublishes, Alive
<1> QED  BY <1>1, <1>2, <1>3, <1>4, <1>5 DEF DaemonNext

LEMMA DaemonInvariant == DaemonSpec => []DaemonInv
  BY DaemonInitHolds, DaemonNextKeeps, PTL DEF DaemonSpec

\* The files that daemons share, and each one's progress, have their types, for any number of
\* starts (supervisor.mjs: start and stop; harness-supervisor.mjs: ensure).
THEOREM DaemonTypes == DaemonSpec => []DaemonTypeOK
<1>1. DaemonInv => DaemonTypeOK  BY DEF DaemonInv
<1> QED  BY <1>1, DaemonInvariant, PTL

\* However many daemons are started, killed or stopped at any moment, over the files of dead
\* ones and whatever has their PIDs, one has the database open, and the one that serves is
\* the one that its files name (supervisor.mjs: the instance lock, and the order of start
\* and stop).
THEOREM OneDaemon == DaemonSpec => []OneDaemonServes
<1>1. ASSUME DaemonInv PROVE OneDaemonServes
  <2>1. \A p, q \in database : p = q
    BY <1>1 DEF DaemonInv, DaemonTypeOK, HolderIsNamed, OpenedByHolder, Holding
  <2>2. Cardinality(database) <= 1
    <3>1. CASE database = {}  BY <3>1, FS_EmptySet
    <3>2. CASE database # {}
      <4>1. PICK p \in database : TRUE  BY <3>2
      <4>2. database = {p}  BY <2>1, <4>1
      <4>3. Cardinality({p}) = 1  BY FS_Singleton
      <4> QED  BY <4>2, <4>3
    <3> QED  BY <3>1, <3>2
  <2>3. \A p \in Procs : pc[p] = "serving" => lock = p /\ publicLink = p /\ p \in sockets /\ pidFile = p
    BY <1>1 DEF DaemonInv, HolderIsNamed, HolderPublishes, Holding, Opened
  <2> QED  BY <2>2, <2>3 DEF OneDaemonServes
<1> QED  BY <1>1, DaemonInvariant, PTL

-----------------------------------------------------------------------------
(* Starts that are refused. *)

\* A daemon that has not claimed the lock yet, and those that never will claim it again; an
\* attempt of p is used up by one of these, and the one that the lock names is still ahead,
\* unless p has looked at it.
Unclaimed == {"new", "link", "inspect", "judge", "remove"}
Past(p) == {q \in (Procs \ {p}) \cup {Old} : q = Old \/ pc[q] \notin Unclaimed}
Ahead(p) ==
  IF pc[p] = "inspect" THEN {} ELSE IF pc[p] \in {"judge", "remove"} THEN {lock} \ {seen[p]} ELSE {lock}

AttemptsAreUsed ==
  /\ lock \in Procs => pc[lock] \notin Unclaimed
  /\ \A p \in Procs :
       /\ pc[p] \in Unclaimed => tries[p] <= Cardinality(Past(p) \ Ahead(p))
       /\ pc[p] \in {"judge", "remove"} => seen[p] # p
       /\ pc[p] \in Unclaimed \cup {"pid", "socket", "open", "listen"} => p \notin sockets

LEMMA PastCount ==
  ASSUME DaemonInv, IsFiniteSet(Procs), NEW p \in Procs
  PROVE  /\ IsFiniteSet(Past(p)) /\ Cardinality(Past(p)) \in Nat /\ Cardinality(Past(p)) <= Cardinality(Procs)
         /\ \A T \in SUBSET Past(p) : /\ IsFiniteSet(T) /\ Cardinality(T) \in Nat
                                      /\ \A R \in SUBSET T : Cardinality(R) <= Cardinality(T)
         /\ \A q \in Past(p) : Cardinality(Past(p) \ {q}) + 1 = Cardinality(Past(p))
         /\ NoOne \notin Past(p)
<1>1. /\ IsFiniteSet(Procs \ {p}) /\ Cardinality(Procs \ {p}) = Cardinality(Procs) - 1 /\ Cardinality(Procs) \in Nat
  BY FS_RemoveElement, FS_CardinalityType
<1>2. Old \notin Procs \ {p} /\ NoOne \notin Procs \cup {Old}  BY DaemonAssumption
<1>3. IsFiniteSet((Procs \ {p}) \cup {Old}) /\ Cardinality((Procs \ {p}) \cup {Old}) = Cardinality(Procs)
  <2>1. /\ IsFiniteSet((Procs \ {p}) \cup {Old})
        /\ Cardinality((Procs \ {p}) \cup {Old}) = Cardinality(Procs \ {p}) + 1
    BY <1>1, <1>2, FS_AddElement
  <2>2. Cardinality(Procs \ {p}) + 1 = Cardinality(Procs)  BY <1>1
  <2> QED  BY <2>1, <2>2
<1>4. Past(p) \subseteq (Procs \ {p}) \cup {Old}  BY DEF Past
<1>5. IsFiniteSet(Past(p)) /\ Cardinality(Past(p)) <= Cardinality(Procs)  BY <1>3, <1>4, FS_Subset
<1>6. Cardinality(Past(p)) \in Nat  BY <1>5, FS_CardinalityType
<1>7. ASSUME NEW T \in SUBSET Past(p)
      PROVE  /\ IsFiniteSet(T) /\ Cardinality(T) \in Nat
             /\ \A R \in SUBSET T : Cardinality(R) <= Cardinality(T)
  <2>1. IsFiniteSet(T)  BY <1>5, FS_Subset
  <2> QED  BY <2>1, FS_Subset, FS_CardinalityType
<1>8. ASSUME NEW q \in Past(p) PROVE Cardinality(Past(p) \ {q}) + 1 = Cardinality(Past(p))
  <2>1. Cardinality(Past(p) \ {q}) = Cardinality(Past(p)) - 1  BY <1>5, <1>8, FS_RemoveElement
  <2> QED  BY <1>6, <2>1
<1>9. NoOne \notin Past(p)  BY <1>2, <1>4
<1> QED  BY <1>5, <1>6, <1>7, <1>8, <1>9

\* Who has claimed the lock has done so for good, and the lock gets no new owner but one that
\* claims it.
Claims ==
  /\ \A q \in Procs : pc[q] \notin Unclaimed => pc'[q] \notin Unclaimed
  /\ \A q \in Procs : pc[q] = "new" => tries'[q] = tries[q] /\ pc'[q] \in {"new", "link", "dead"}
  /\ lock' \in {lock, NoOne} \/ (lock' \in Procs /\ lock = NoOne /\ pc[lock'] = "link" /\ pc'[lock'] = "pid")
\* A daemon that only sees others move, or begins.
Waits(p) ==
  /\ tries'[p] = tries[p]
  /\ \/ pc'[p] = pc[p] /\ seen'[p] = seen[p]
     \/ pc[p] = "new" /\ pc'[p] = "link"

LEMMA WaitsKeeps ==
  ASSUME DaemonInv, DaemonInv', AttemptsAreUsed, IsFiniteSet(Procs), Claims, NEW p \in Procs, Waits(p), pc'[p] \in Unclaimed
  PROVE  /\ tries'[p] <= Cardinality(Past(p)' \ Ahead(p)')
         /\ pc'[p] \in {"judge", "remove"} => seen'[p] # p
<1>1. pc[p] \in Unclaimed  BY DEF Waits, Unclaimed
<1>2. tries[p] \in Nat  BY DEF DaemonInv, DaemonTypeOK
<1>3. Past(p) \subseteq Past(p)'  BY DaemonAssumption DEF Past, Claims
<1>4. lock' \notin {lock, NoOne} => lock' \notin Past(p)  BY DaemonAssumption DEF Past, Claims, Unclaimed
<1>5. Past(p) \ Ahead(p) \subseteq Past(p)' \ Ahead(p)'
  <2>1. NoOne \notin Past(p)  BY PastCount
  <2>2. CASE pc'[p] = pc[p] /\ seen'[p] = seen[p]  BY <1>3, <1>4, <2>1, <2>2 DEF Ahead
  <2>3. CASE pc[p] = "new" /\ pc'[p] = "link"  BY <1>3, <1>4, <2>1, <2>3 DEF Ahead
  <2> QED  BY <2>2, <2>3 DEF Waits
<1>6. tries[p] <= Cardinality(Past(p) \ Ahead(p))  BY <1>1 DEF AttemptsAreUsed
<1>7. Cardinality(Past(p) \ Ahead(p)) \in Nat  BY PastCount
<1>8. /\ Cardinality(Past(p)' \ Ahead(p)') \in Nat
      /\ Cardinality(Past(p) \ Ahead(p)) <= Cardinality(Past(p)' \ Ahead(p)')
  <2>1. IsFiniteSet(Past(p)')
    <3>1. IsFiniteSet(Procs \ {p}) /\ IsFiniteSet((Procs \ {p}) \cup {Old})  BY FS_RemoveElement, FS_AddElement
    <3>2. Past(p)' \subseteq (Procs \ {p}) \cup {Old}  BY DEF Past
    <3> QED  BY <3>1, <3>2, FS_Subset
  <2>2. IsFiniteSet(Past(p)' \ Ahead(p)')  BY <2>1, FS_Subset
  <2> QED  BY <1>5, <2>2, FS_Subset, FS_CardinalityType
<1>9. tries'[p] <= Cardinality(Past(p)' \ Ahead(p)')  BY <1>2, <1>6, <1>7, <1>8 DEF Waits
<1>10. pc'[p] \in {"judge", "remove"} => seen'[p] # p  BY DEF Waits, AttemptsAreUsed
<1> QED  BY <1>9, <1>10

LEMMA OneStepClaims ==
  ASSUME DaemonInv, AttemptsAreUsed, [DaemonNext]_daemonVars
  PROVE  Claims
<1> USE DaemonAssumption DEF Claims, Unclaimed, Goes, ownership
<1>1. pc \in [Procs -> Progress] /\ tries \in [Procs -> Nat] /\ LaunchedOnce  BY DEF DaemonInv, DaemonTypeOK
<1>2. ASSUME NEW p \in Procs, Start(p) \/ LinkLock(p) \/ InspectLock(p) \/ JudgeLock(p) PROVE Claims
  BY <1>1, <1>2 DEF Start, LinkLock, InspectLock, JudgeLock
<1>3. ASSUME NEW p \in Procs, RemoveLock(p) PROVE Claims  BY <1>1, <1>3 DEF RemoveLock
<1>4. ASSUME NEW p \in Procs, PreparePidPath(p) \/ PrepareSocketPath(p) \/ OpenDatabase(p) \/ Listen(p) \/ PublishSocketLink(p)
                                \/ WriteOwnedPidFile(p) \/ FinishStart(p) \/ Stop(p)
      PROVE  Claims
  BY <1>1, <1>4 DEF PreparePidPath, PrepareSocketPath, OpenDatabase, Listen, PublishSocketLink, WriteOwnedPidFile, FinishStart, Stop, Releases
<1>5. ASSUME NEW p \in Procs, StopStep(p) PROVE Claims  BY <1>1, <1>5 DEF StopStep, Releases
<1>6. ASSUME NEW p \in Procs, StartFails(p) \/ Killed(p) PROVE Claims  BY <1>1, <1>6 DEF StartFails, Killed, Releases
<1>7. ASSUME NEW p \in Procs, EnsureProbe(p) \/ EnsureLock(p) \/ EnsureBreaksLock(p) \/ EnsureGivesUp(p) PROVE Claims
  BY <1>1, <1>7 DEF EnsureProbe, EnsureLock, EnsureBreaksLock, EnsureGivesUp, EnsureOnly
<1>8. ASSUME NEW p \in Procs, EnsureLaunch(p) PROVE Claims
  BY <1>1, <1>8 DEF EnsureLaunch, EnsureOnly, LaunchedOnce
<1>9. ASSUME NEW p \in Procs \cup {Old}, PidReused(p) PROVE Claims  BY <1>1, <1>9 DEF PidReused
<1>10. CASE UNCHANGED daemonVars  BY <1>1, <1>10 DEF daemonVars
<1> QED  BY <1>2, <1>3, <1>4, <1>5, <1>6, <1>7, <1>8, <1>9, <1>10 DEF DaemonNext, DaemonStep

\* What a step does with its own attempts, and that all others wait.
Attempts(p) ==
  \/ pc[p] = "link" /\ pc'[p] = "inspect" /\ tries'[p] = tries[p] + 1 /\ lock # NoOne /\ lock' = lock
  \/ pc[p] = "inspect" /\ pc'[p] = "link" /\ tries'[p] = tries[p] /\ lock = NoOne /\ lock' = lock
  \/ pc[p] = "inspect" /\ pc'[p] = "judge" /\ tries'[p] = tries[p] /\ lock' = lock /\ seen'[p] = lock
  \/ pc[p] = "judge" /\ pc'[p] = "remove" /\ tries'[p] = tries[p] /\ lock' = lock /\ seen'[p] = seen[p]
  \/ /\ pc[p] = "remove" /\ pc'[p] = "link" /\ tries'[p] = tries[p]
     /\ lock' = IF lock = seen[p] THEN NoOne ELSE lock
AttemptsOf(p) ==
  pc'[p] \in Unclaimed => \/ Waits(p)
                          \/ Attempts(p) /\ (\A q \in Procs \ {p} : pc'[q] = pc[q])

LEMMA OneStepAttempts ==
  ASSUME DaemonInv, [DaemonNext]_daemonVars, NEW p \in Procs
  PROVE  AttemptsOf(p)
<1> USE DaemonAssumption DEF AttemptsOf, Attempts, Waits, Unclaimed, Goes, ownership
<1>1. pc \in [Procs -> Progress] /\ tries \in [Procs -> Nat] /\ seen \in [Procs -> Owners] /\ LaunchedOnce  BY DEF DaemonInv, DaemonTypeOK
<1>2. ASSUME NEW q \in Procs, Start(q) \/ InspectLock(q) \/ JudgeLock(q) PROVE AttemptsOf(p)
  BY <1>1, <1>2 DEF Start, InspectLock, JudgeLock
<1>3. ASSUME NEW q \in Procs, LinkLock(q) PROVE AttemptsOf(p)  BY <1>1, <1>3 DEF LinkLock
<1>4. ASSUME NEW q \in Procs, RemoveLock(q) PROVE AttemptsOf(p)  BY <1>1, <1>4 DEF RemoveLock, SameIdentity
<1>5. ASSUME NEW q \in Procs, PreparePidPath(q) \/ PrepareSocketPath(q) \/ OpenDatabase(q) \/ Listen(q) \/ PublishSocketLink(q)
                                \/ WriteOwnedPidFile(q) \/ FinishStart(q) \/ Stop(q)
      PROVE  AttemptsOf(p)
  BY <1>1, <1>5 DEF PreparePidPath, PrepareSocketPath, OpenDatabase, Listen, PublishSocketLink, WriteOwnedPidFile, FinishStart, Stop
<1>6. ASSUME NEW q \in Procs, StopStep(q) PROVE AttemptsOf(p)  BY <1>1, <1>6 DEF StopStep
<1>7. ASSUME NEW q \in Procs, StartFails(q) \/ Killed(q) PROVE AttemptsOf(p)  BY <1>1, <1>7 DEF StartFails, Killed
<1>8. ASSUME NEW q \in Procs, EnsureProbe(q) \/ EnsureLock(q) \/ EnsureBreaksLock(q) \/ EnsureGivesUp(q) PROVE AttemptsOf(p)
  BY <1>1, <1>8 DEF EnsureProbe, EnsureLock, EnsureBreaksLock, EnsureGivesUp, EnsureOnly
<1>9. ASSUME NEW q \in Procs, EnsureLaunch(q) PROVE AttemptsOf(p)
  BY <1>1, <1>9 DEF EnsureLaunch, EnsureOnly, LaunchedOnce
<1>10. ASSUME NEW q \in Procs \cup {Old}, PidReused(q) PROVE AttemptsOf(p)  BY <1>1, <1>10 DEF PidReused
<1>11. CASE UNCHANGED daemonVars  BY <1>1, <1>11 DEF daemonVars
<1> QED  BY <1>2, <1>3, <1>4, <1>5, <1>6, <1>7, <1>8, <1>9, <1>10, <1>11 DEF DaemonNext, DaemonStep

\* No socket is made before the step that listens.
SocketsAfter(p) == pc[p] \in Unclaimed \cup {"pid", "socket", "open", "listen"} => p \notin sockets

LEMMA OneStepSockets ==
  ASSUME DaemonInv, [DaemonNext]_daemonVars, NEW p \in Procs, SocketsAfter(p)
  PROVE  SocketsAfter(p)'
<1> USE DaemonAssumption DEF SocketsAfter, Unclaimed, Goes, ownership
<1>1. pc \in [Procs -> Progress] /\ LaunchedOnce  BY DEF DaemonInv, DaemonTypeOK
<1>2. ASSUME NEW q \in Procs, Start(q) \/ InspectLock(q) \/ JudgeLock(q) \/ LinkLock(q) \/ RemoveLock(q) PROVE SocketsAfter(p)'
  BY <1>1, <1>2 DEF Start, InspectLock, JudgeLock, LinkLock, RemoveLock
<1>3. ASSUME NEW q \in Procs, PreparePidPath(q) \/ PrepareSocketPath(q) \/ OpenDatabase(q) \/ Listen(q) \/ PublishSocketLink(q)
                                \/ WriteOwnedPidFile(q) \/ FinishStart(q) \/ Stop(q)
      PROVE  SocketsAfter(p)'
  BY <1>1, <1>3 DEF PreparePidPath, PrepareSocketPath, OpenDatabase, Listen, PublishSocketLink, WriteOwnedPidFile, FinishStart, Stop
<1>4. ASSUME NEW q \in Procs, StopStep(q) PROVE SocketsAfter(p)'  BY <1>1, <1>4 DEF StopStep
<1>5. ASSUME NEW q \in Procs, StartFails(q) \/ Killed(q) PROVE SocketsAfter(p)'  BY <1>1, <1>5 DEF StartFails, Killed
<1>6. ASSUME NEW q \in Procs, EnsureProbe(q) \/ EnsureLock(q) \/ EnsureBreaksLock(q) \/ EnsureGivesUp(q) PROVE SocketsAfter(p)'
  BY <1>1, <1>6 DEF EnsureProbe, EnsureLock, EnsureBreaksLock, EnsureGivesUp, EnsureOnly
<1>7. ASSUME NEW q \in Procs, EnsureLaunch(q) PROVE SocketsAfter(p)'
  BY <1>1, <1>7 DEF EnsureLaunch, EnsureOnly, LaunchedOnce
<1>8. ASSUME NEW q \in Procs \cup {Old}, PidReused(q) PROVE SocketsAfter(p)'  BY <1>1, <1>8 DEF PidReused
<1>9. CASE UNCHANGED daemonVars  BY <1>1, <1>9 DEF daemonVars
<1> QED  BY <1>2, <1>3, <1>4, <1>5, <1>6, <1>7, <1>8, <1>9 DEF DaemonNext, DaemonStep

LEMMA AttemptKeeps ==
  ASSUME DaemonInv, AttemptsAreUsed, IsFiniteSet(Procs), NEW p \in Procs, Attempts(p),
         \A q \in Procs \ {p} : pc'[q] = pc[q]
  PROVE  /\ tries'[p] <= Cardinality(Past(p)' \ Ahead(p)')
         /\ pc'[p] \in {"judge", "remove"} => seen'[p] # p
<1>1. Past(p)' = Past(p)  BY DaemonAssumption DEF Past
<1>2. pc[p] \in Unclaimed  BY DEF Attempts, Unclaimed
<1>3. lock # p /\ lock \in Owners /\ tries[p] \in Nat  BY <1>2 DEF AttemptsAreUsed, DaemonInv, DaemonTypeOK
<1>4. tries[p] <= Cardinality(Past(p) \ Ahead(p))  BY <1>2 DEF AttemptsAreUsed
<1>5. NoOne \notin Past(p) /\ Cardinality(Past(p)) \in Nat  BY PastCount
<1>6. CASE /\ pc[p] = "link" /\ pc'[p] = "inspect" /\ tries'[p] = tries[p] + 1 /\ lock # NoOne /\ lock' = lock
  <2>1. lock \in Past(p)  BY <1>3, <1>6 DEF Past, Owners, AttemptsAreUsed
  <2>2. Cardinality(Past(p) \ {lock}) + 1 = Cardinality(Past(p))  BY <2>1, PastCount
  <2>3. Cardinality(Past(p) \ {lock}) \in Nat  BY PastCount
  <2>4. tries[p] <= Cardinality(Past(p) \ {lock})  BY <1>4, <1>6 DEF Ahead
  <2>5. tries'[p] <= Cardinality(Past(p))
    <3>1. tries'[p] = tries[p] + 1  BY <1>6
    <3> QED  BY <1>3, <2>2, <2>3, <2>4, <3>1
  <2>6. Past(p)' \ Ahead(p)' = Past(p)  BY <1>1, <1>6 DEF Ahead
  <2> QED  BY <1>6, <2>5, <2>6
<1>7. CASE /\ pc[p] = "inspect" /\ pc'[p] = "link" /\ tries'[p] = tries[p] /\ lock = NoOne /\ lock' = lock
  <2>1. Past(p)' \ Ahead(p)' = Past(p) \ Ahead(p)  BY <1>1, <1>5, <1>7 DEF Ahead
  <2> QED  BY <1>4, <1>7, <2>1
<1>8. CASE pc[p] = "inspect" /\ pc'[p] = "judge" /\ tries'[p] = tries[p] /\ lock' = lock /\ seen'[p] = lock
  <2>1. Past(p)' \ Ahead(p)' = Past(p) \ Ahead(p)  BY <1>1, <1>8 DEF Ahead
  <2> QED  BY <1>3, <1>4, <1>8, <2>1
<1>9. CASE pc[p] = "judge" /\ pc'[p] = "remove" /\ tries'[p] = tries[p] /\ lock' = lock /\ seen'[p] = seen[p]
  <2>1. Past(p)' \ Ahead(p)' = Past(p) \ Ahead(p)  BY <1>1, <1>9 DEF Ahead
  <2> QED  BY <1>4, <1>9, <2>1 DEF AttemptsAreUsed
<1>10. CASE /\ pc[p] = "remove" /\ pc'[p] = "link" /\ tries'[p] = tries[p]
            /\ lock' = IF lock = seen[p] THEN NoOne ELSE lock
  <2>1. Past(p)' \ Ahead(p)' = Past(p) \ Ahead(p)  BY <1>1, <1>5, <1>10 DEF Ahead
  <2> QED  BY <1>4, <1>10, <2>1
<1> QED  BY <1>6, <1>7, <1>8, <1>9, <1>10 DEF Attempts

LEMMA AttemptsStep ==
  ASSUME DaemonInv, DaemonInv', AttemptsAreUsed, IsFiniteSet(Procs), [DaemonNext]_daemonVars
  PROVE  AttemptsAreUsed'
<1>1. Claims  BY OneStepClaims
<1>2. lock' \in Procs => pc'[lock'] \notin Unclaimed
  BY <1>1, DaemonAssumption DEF Claims, AttemptsAreUsed, Unclaimed
<1>3. ASSUME NEW p \in Procs, pc'[p] \in Unclaimed
      PROVE  /\ tries'[p] <= Cardinality(Past(p)' \ Ahead(p)')
             /\ pc'[p] \in {"judge", "remove"} => seen'[p] # p
  <2>1. AttemptsOf(p)  BY OneStepAttempts
  <2>2. CASE Waits(p)  BY <1>1, <1>3, <2>2, WaitsKeeps
  <2>3. CASE Attempts(p) /\ (\A q \in Procs \ {p} : pc'[q] = pc[q])  BY <2>3, AttemptKeeps
  <2> QED  BY <1>3, <2>1, <2>2, <2>3 DEF AttemptsOf
<1>4. ASSUME NEW p \in Procs PROVE SocketsAfter(p)'
  BY OneStepSockets DEF AttemptsAreUsed, SocketsAfter
<1>5. \A p \in Procs : pc'[p] \in {"judge", "remove"} => pc'[p] \in Unclaimed  BY DEF Unclaimed
<1> QED  BY <1>2, <1>3, <1>4, <1>5 DEF AttemptsAreUsed, SocketsAfter

LEMMA RefusalIsOfLiving ==
  ASSUME DaemonInv, AttemptsAreUsed, IsFiniteSet(Procs), Cardinality(Procs) < MaxAttempts, [DaemonNext]_daemonVars,
         NEW p \in Procs, pc[p] # "refused", pc'[p] = "refused"
  PROVE  \E q \in Procs \ {p} : Alive(q)
<1> USE DaemonAssumption DEF Goes, ownership
<1>1. pc \in [Procs -> Progress] /\ tries[p] \in Nat /\ LaunchedOnce  BY DEF DaemonInv, DaemonTypeOK
<1>2. PICK q \in Procs : LinkLock(q) \/ JudgeLock(q) \/ PreparePidPath(q) \/ PrepareSocketPath(q)
  <2>1. ASSUME NEW q \in Procs, Start(q) \/ InspectLock(q) \/ RemoveLock(q) PROVE FALSE
    BY <1>1, <2>1 DEF Start, InspectLock, RemoveLock
  <2>2. ASSUME NEW q \in Procs, OpenDatabase(q) \/ Listen(q) \/ PublishSocketLink(q) \/ WriteOwnedPidFile(q) \/ FinishStart(q) \/ Stop(q)
        PROVE  FALSE
    BY <1>1, <2>2 DEF OpenDatabase, Listen, PublishSocketLink, WriteOwnedPidFile, FinishStart, Stop
  <2>3. ASSUME NEW q \in Procs, StopStep(q) \/ StartFails(q) \/ Killed(q) PROVE FALSE
    BY <1>1, <2>3 DEF StopStep, StartFails, Killed
  <2>4. ASSUME NEW q \in Procs, EnsureProbe(q) \/ EnsureLock(q) \/ EnsureBreaksLock(q) \/ EnsureGivesUp(q) PROVE FALSE
    BY <1>1, <2>4 DEF EnsureProbe, EnsureLock, EnsureBreaksLock, EnsureGivesUp, EnsureOnly
  <2>5. ASSUME NEW q \in Procs, EnsureLaunch(q) PROVE FALSE  BY <1>1, <2>5 DEF EnsureLaunch, EnsureOnly
  <2>6. ASSUME NEW q \in Procs \cup {Old}, PidReused(q) PROVE FALSE  BY <1>1, <2>6 DEF PidReused
  <2>7. ~UNCHANGED daemonVars  BY DEF daemonVars
  <2> QED  BY <2>1, <2>2, <2>3, <2>4, <2>5, <2>6, <2>7 DEF DaemonNext, DaemonStep
<1>3. q = p  BY <1>1, <1>2 DEF LinkLock, JudgeLock, PreparePidPath, PrepareSocketPath
<1>4. ~(pc[p] = "link" /\ tries[p] = MaxAttempts)
  <2> SUFFICES ASSUME pc[p] = "link", tries[p] = MaxAttempts PROVE FALSE  OBVIOUS
  <2>1. tries[p] <= Cardinality(Past(p) \ Ahead(p))  BY DEF AttemptsAreUsed, Unclaimed
  <2>2. Cardinality(Past(p) \ Ahead(p)) <= Cardinality(Past(p)) /\ Cardinality(Past(p) \ Ahead(p)) \in Nat  BY PastCount
  <2>3. Cardinality(Past(p)) \in Nat /\ Cardinality(Past(p)) <= Cardinality(Procs) /\ Cardinality(Procs) \in Nat
    BY PastCount, FS_CardinalityType
  <2>4. MaxAttempts \in Nat /\ tries[p] = MaxAttempts /\ Cardinality(Procs) < MaxAttempts  OBVIOUS
  <2> QED  BY <2>1, <2>2, <2>3, <2>4
<1>5. CASE LinkLock(p)  BY <1>1, <1>4, <1>5 DEF LinkLock
<1>6. CASE JudgeLock(p)
  <2>1. pc[p] = "judge" /\ Alive(seen[p])  BY <1>1, <1>6 DEF JudgeLock, LockOwnerIsLive, MatchesRecord
  <2> QED  BY <2>1 DEF AttemptsAreUsed, Alive
<1>7. CASE PreparePidPath(p)
  <2>1. pidFile # p /\ Alive(pidFile)  BY <1>1, <1>7 DEF PreparePidPath, PidRecordIsLive, MatchesRecord
  <2> QED  BY <2>1 DEF Alive
<1>8. CASE PrepareSocketPath(p)
  <2>1. pc[p] = "socket" /\ publicLink \in sockets /\ Alive(publicLink)  BY <1>1, <1>8 DEF PrepareSocketPath, Listening
  <2> QED  BY <2>1 DEF AttemptsAreUsed, Alive
<1> QED  BY <1>2, <1>3, <1>5, <1>6, <1>7, <1>8

\* What dead daemons left, and programs that have their PIDs, refuse no start, if fewer daemons
\* are started at once than a start tries to claim the lock: each attempt that fails is used up
\* by one that claimed it before, or by the one killed before all (supervisor.mjs: the claim of the
\* instance lock, preparePidPath, prepareSocketPath).
THEOREM LeftoversNeverBlock ==
  ASSUME IsFiniteSet(Procs), Cardinality(Procs) < MaxAttempts
  PROVE  DaemonSpec => LeftoversDoNotBlock
<1> DEFINE P == \A p \in Procs : pc[p] # "refused" /\ pc'[p] = "refused" => \E q \in Procs \ {p} : Alive(q)
<1>1. DaemonInit => AttemptsAreUsed
  <2> SUFFICES ASSUME DaemonInit PROVE AttemptsAreUsed  OBVIOUS
  <2>1. lock \in {Old, NoOne} /\ sockets \subseteq {Old}  BY DEF DaemonInit, Leftovers
  <2>2. \A p \in Procs : pc[p] = "new" /\ tries[p] = 0  BY DEF DaemonInit
  <2>3. DaemonInv  BY DaemonInitHolds
  <2>4. ASSUME NEW p \in Procs PROVE 0 <= Cardinality(Past(p) \ Ahead(p))
    <3>1. Cardinality(Past(p) \ Ahead(p)) \in Nat  BY <2>3, PastCount
    <3> QED  BY <3>1
  <2> QED  BY <2>1, <2>2, <2>4, DaemonAssumption DEF AttemptsAreUsed
<1>2. DaemonInv /\ DaemonInv' /\ AttemptsAreUsed /\ [DaemonNext]_daemonVars => AttemptsAreUsed'  BY AttemptsStep
<1>3. DaemonInv /\ AttemptsAreUsed /\ [DaemonNext]_daemonVars => [P]_daemonVars
  <2> SUFFICES ASSUME DaemonInv, AttemptsAreUsed, [DaemonNext]_daemonVars PROVE P  OBVIOUS
  <2> QED  BY RefusalIsOfLiving
<1> QED  BY <1>1, <1>2, <1>3, DaemonInvariant, PTL DEF DaemonSpec, LeftoversDoNotBlock

-----------------------------------------------------------------------------
(* THE FEED.  It numbers what it publishes; its ring keeps the end of that, for replay.  *)

RowRecords == [text : Nat, done : BOOLEAN]
LiveRows == [Messages -> RowRecords]
Events == [type : {"agent_start", "agent_settled"}, message : {0}]
          \cup [type : {"text_delta", "text_end", "message_end"}, message : Messages]
Payloads == [type : {"turn_start", "turn_terminal", "text_delta", "assistant_terminal"}, turn : Nat]
KeptFrames == [seq : Nat, payload : Payloads]
Subscriptions == [kind : {"subscribed"}, epoch : Nat, seq : Nat, gap : BOOLEAN, events : Seq(KeptFrames)]
RootOutputs == [kind : {"root_output"}, epoch : Nat, seq : Nat, payload : Payloads]
ViewFrames ==
  [kind : {"registered", "watching"}] \cup [kind : {"messages"}, gen : Nat, rows : LiveRows]
  \cup [kind : {"actor_event"}, gen : Nat, message : {0} \cup Messages, text : Nat,
        type : {"agent_start", "agent_settled", "text_delta", "text_end", "message_end"}]
Frames == Subscriptions \cup RootOutputs \cup ViewFrames
Connections == [open : BOOLEAN, client : BOOLEAN, feed : BOOLEAN, watching : BOOLEAN]
ReadRecords == [phase : {"none", "waiting", "read"}, page : SUBSET Messages, mine : BOOLEAN]

FeedTypeOK ==
  /\ worker \in {"off", "idle", "busy", "dead"} /\ gen \in Nat \ {0} /\ turns \in Nat
  /\ said \in [Messages -> Nat] /\ open \in {0} \cup Messages /\ over \in BOOLEAN /\ file \subseteq Messages
  /\ pipe \in Seq(Events) /\ up \in BOOLEAN /\ epoch \in Nat \ {0}
  /\ rows \in LiveRows /\ turn \in Nat /\ active \in BOOLEAN /\ seq \in Nat /\ ring \in Seq(KeptFrames)
  /\ reads \in [Slots -> ReadRecords] /\ conn \in Connections
  /\ asked \in {"none", "register", "subscribe", "watch", "read"} /\ wire \in Seq(Frames)
  /\ client \in {"offline", "connecting", "stopped", "rejected"} \cup Online
  /\ follow \in [epoch : Nat, seq : Nat, open : Nat, torn : BOOLEAN] /\ wants \in {"feed", "view"}
  /\ view \in [rows : LiveRows, gen : Nat] /\ troubles \in Nat

-----------------------------------------------------------------------------
(* The worker and the supervisor. *)

\* A turn that is open is the present worker's.
TurnIsOfWorker ==
  /\ turn # 0 => turn = gen
  /\ worker = "off" => turn = 0 /\ pipe = <<>>
  /\ ~up => worker = "off"

IsTurn(payload) == payload.type \in {"turn_start", "turn_terminal"}

\* The feed since the supervisor started: H has what was published, of which the ring keeps
\* the end, and the last start of a turn that has not ended is the open one's.
RingKeeps(H, n, frames) ==
  /\ Len(H) = n /\ Len(frames) <= n
  /\ \A i \in DOMAIN frames : frames[i].seq = n - Len(frames) + i /\ frames[i].payload = H[n - Len(frames) + i]
TurnIsTold(H, t) ==
  \A i \in DOMAIN H : H[i].type = "turn_start" /\ (\A j \in DOMAIN H : i < j => ~IsTurn(H[j])) => H[i].turn = t

\* What a user believes at its place n of the feed.
Believes(H, n, o) ==
  o # 0 => \E i \in DOMAIN H : /\ i <= n /\ H[i].type = "turn_start" /\ H[i].turn = o
                               /\ \A j \in DOMAIN H : i < j /\ j <= n => ~IsTurn(H[j])

\* Frames behind the place n, of the feed H if it is still the supervisor's (now).
FramesFollow(H, now, n, frames) ==
  \A i \in DOMAIN frames :
    /\ frames[i].seq = n + i
    /\ now => n + i \in DOMAIN H /\ frames[i].payload = H[n + i]
\* What is sent to the user, but for the first d frames of it.
RootsFollow(H, now, n, d, frames) ==
  \A i \in DOMAIN frames : i > d =>
    /\ frames[i].kind = "root_output" /\ frames[i].seq = n + i - d
    /\ now => n + i - d \in DOMAIN H /\ frames[i].payload = H[n + i - d]

Now(e) == up /\ e = epoch
FollowFits(H) ==
  /\ follow.epoch <= epoch
  /\ Now(follow.epoch) => follow.seq <= seq /\ Believes(H, follow.seq, follow.open)

\* The answer to a subscription, and what comes behind it.
AnswerFits(H, answer) ==
  /\ answer.kind = "subscribed" /\ answer.epoch <= epoch
  /\ Now(answer.epoch) => answer.seq <= seq
  /\ ~answer.gap /\ follow.epoch # 0 =>
       /\ answer.epoch = follow.epoch /\ answer.seq = follow.seq + Len(answer.events)
       /\ FramesFollow(H, Now(answer.epoch), follow.seq, answer.events)

\* A user of the feed.
FeedUser(H) ==
  /\ ~conn.watching /\ \A k \in Slots : ~reads[k].mine
  /\ asked \notin {"watch", "read"} /\ client \notin {"attaching", "reading"}
  /\ asked = "register" => client = "registering" /\ wire = <<>>
  /\ asked = "subscribe" => client = "subscribing" /\ wire = <<>> /\ ~conn.feed
  /\ client = "registering" => ~conn.feed /\ (wire = <<>> \/ (Len(wire) = 1 /\ wire[1].kind = "registered"))
  /\ client = "subscribing" =>
       \/ wire = <<>> /\ ~conn.feed
       \/ /\ wire # <<>> /\ asked = "none" /\ AnswerFits(H, wire[1])
          /\ RootsFollow(H, Now(wire[1].epoch), wire[1].seq, 1, wire)
          /\ conn.feed => wire[1].epoch = epoch /\ wire[1].seq + Len(wire) = seq + 1
  /\ client = "live" =>
       /\ RootsFollow(H, Now(follow.epoch), follow.seq, 0, wire)
       /\ conn.feed => follow.epoch = epoch /\ follow.seq + Len(wire) = seq

\* A user of the session's events.
ViewUser ==
  /\ ~conn.feed /\ asked # "subscribe" /\ client # "subscribing"
  /\ \A i \in DOMAIN wire : wire[i].kind \notin {"subscribed", "root_output"}

FeedFits(H) ==
  /\ RingKeeps(H, seq, ring) /\ TurnIsTold(H, turn) /\ (~active => seq = 0)
  /\ ~follow.torn /\ FollowFits(H)
  /\ conn.open => up
  /\ ~conn.open => conn = NoConn
  /\ client \notin Online => wire = <<>> /\ conn = NoConn /\ asked = "none"
  /\ IF wants = "feed" THEN FeedUser(H) ELSE ViewUser

FeedInv == FeedTypeOK /\ TurnIsOfWorker /\ \E H \in Seq(Payloads) : FeedFits(H)

-----------------------------------------------------------------------------
(* Sequences of frames, and the feed that they are of. *)

\* What is kept of the feed that more frames are added to.
LEMMA RingGrows ==
  ASSUME FeedAssumption, NEW H \in Seq(Payloads), NEW n \in Nat, NEW frames \in Seq(KeptFrames),
         RingKeeps(H, n, frames), NEW P \in Seq(Payloads), NEW more \in Seq(KeptFrames), Len(more) = Len(P),
         \A i \in DOMAIN more : more[i].seq = n + i /\ more[i].payload = P[i]
  PROVE  /\ Kept(frames \o more) \in Seq(KeptFrames)
         /\ RingKeeps(H \o P, n + Len(P), Kept(frames \o more))
<1> DEFINE all == frames \o more
           len == Len(frames) + Len(more)
           from == IF len > MaxRing THEN len - MaxRing + 1 ELSE 1
<1>1. all \in Seq(KeptFrames) /\ Len(all) = len
      /\ \A i \in 1..len : all[i] = IF i <= Len(frames) THEN frames[i] ELSE more[i - Len(frames)]
  BY ConcatProperties
<1>2. H \o P \in Seq(Payloads) /\ Len(H \o P) = Len(H) + Len(P)
      /\ \A i \in 1..Len(H) + Len(P) : (H \o P)[i] = IF i <= Len(H) THEN H[i] ELSE P[i - Len(H)]
  BY ConcatProperties
<1>3. Len(frames) \in Nat /\ Len(more) \in Nat /\ Len(H) \in Nat /\ DOMAIN frames = 1..Len(frames)
      /\ DOMAIN more = 1..Len(more) /\ DOMAIN H = 1..Len(H) /\ Len(H) = n /\ Len(frames) <= n
  BY DEF RingKeeps
<1>4. len \in Nat /\ from \in 1..(len + 1) /\ MaxRing \in Nat  BY <1>3 DEF FeedAssumption
<1>5. Kept(all) = SubSeq(all, from, len)  BY <1>1 DEF Kept
<1>6. \A i \in from..len : all[i] \in KeptFrames  BY <1>1, <1>3, <1>4
<1> HIDE DEF all, from
<1>7. /\ Kept(all) \in Seq(KeptFrames)
      /\ Len(Kept(all)) = len - from + 1
      /\ \A i \in 1..(len - from + 1) : Kept(all)[i] = all[from + i - 1]
  <2>1. from \in Int /\ len \in Int  BY <1>4
  <2>2. /\ SubSeq(all, from, len) \in Seq(KeptFrames)
        /\ Len(SubSeq(all, from, len)) = IF from <= len THEN len - from + 1 ELSE 0
        /\ \A i \in 1..(len - from + 1) : SubSeq(all, from, len)[i] = all[from + i - 1]
    BY <1>6, <2>1, SubSeqProperties
  <2> QED  BY <1>3, <1>4, <1>5, <2>2
<1>8. \A i \in 1..len : all[i].seq = n - Len(frames) + i /\ all[i].payload = (H \o P)[n - Len(frames) + i]
  <2> TAKE i \in 1..len
  <2>1. CASE i <= Len(frames)
    <3>1. all[i] = frames[i] /\ n - Len(frames) + i \in 1..Len(H)  BY <1>1, <1>3, <2>1
    <3>2. i \in DOMAIN frames  BY <1>3, <2>1
    <3>3. frames[i].seq = n - Len(frames) + i /\ frames[i].payload = H[n - Len(frames) + i]  BY <3>2 DEF RingKeeps
    <3>4. (H \o P)[n - Len(frames) + i] = H[n - Len(frames) + i]  BY <1>2, <1>3, <3>1
    <3> QED  BY <3>1, <3>3, <3>4
  <2>2. CASE i > Len(frames)
    <3> DEFINE j == i - Len(frames)
    <3>1. j \in DOMAIN more /\ all[i] = more[j] /\ n - Len(frames) + i = n + j /\ j <= Len(P)  BY <1>1, <1>3, <2>2
    <3>2. (H \o P)[n + j] = P[j]  BY <1>2, <1>3, <3>1
    <3> QED  BY <3>1, <3>2
  <2> QED  BY <1>3, <2>1, <2>2
<1> QED
  <2> DEFINE kept == Kept(all)
             m == n + Len(P)
  <2>1. Len(kept) = len - from + 1 /\ DOMAIN kept = 1..(len - from + 1) /\ Len(kept) <= len /\ len <= m /\ Len(P) = Len(more)
    BY <1>3, <1>4, <1>7
  <2>2. ASSUME NEW i \in DOMAIN kept
        PROVE  kept[i].seq = m - Len(kept) + i /\ kept[i].payload = (H \o P)[m - Len(kept) + i]
    <3>1. i \in 1..(len - from + 1) /\ Len(P) \in Nat /\ from \in Nat \ {0} /\ len \in Nat  BY <1>3, <1>4, <2>1
    <3>2. from + i - 1 \in 1..len  BY <3>1
    <3>4. kept[i] = all[from + i - 1]  BY <1>7, <3>1
    <3>3. n - Len(frames) + (from + i - 1) = m - Len(kept) + i  BY <1>3, <2>1, <3>1
    <3> QED  BY <1>8, <3>2, <3>3, <3>4
  <2>3. Len(H \o P) = m /\ Len(kept) <= m  BY <1>2, <1>3, <1>4, <2>1
  <2>4. RingKeeps(H \o P, m, kept)  BY <2>2, <2>3 DEF RingKeeps
  <2> QED  BY <1>7, <2>4 DEF all

\* What was told stays told as the feed grows.
LEMMA BelievesGrows ==
  ASSUME NEW H \in Seq(Payloads), NEW P \in Seq(Payloads), NEW n \in Nat, n <= Len(H), NEW o, Believes(H, n, o)
  PROVE  Believes(H \o P, n, o)
<1>1. Len(H \o P) = Len(H) + Len(P) /\ Len(H) \in Nat /\ Len(P) \in Nat /\ DOMAIN H = 1..Len(H) /\ DOMAIN (H \o P) = 1..(Len(H) + Len(P))
  BY ConcatProperties
<1>2. \A i \in 1..Len(H) : (H \o P)[i] = H[i]  BY <1>1, ConcatProperties
<1> QED  BY <1>1, <1>2 DEF Believes

LEMMA FollowGrows ==
  ASSUME NEW H \in Seq(Payloads), NEW P \in Seq(Payloads), NEW n \in Nat, NEW now, NEW frames, FramesFollow(H, now, n, frames)
  PROVE  FramesFollow(H \o P, now, n, frames)
<1>1. Len(H \o P) = Len(H) + Len(P) /\ Len(H) \in Nat /\ Len(P) \in Nat /\ DOMAIN H = 1..Len(H) /\ DOMAIN (H \o P) = 1..(Len(H) + Len(P))
  BY ConcatProperties
<1>2. \A i \in 1..Len(H) : (H \o P)[i] = H[i]  BY <1>1, ConcatProperties
<1> QED  BY <1>1, <1>2 DEF FramesFollow

\* The end of the last turn is told last.
LEMMA TurnGrows ==
  ASSUME NEW H \in Seq(Payloads), NEW P \in Seq(Payloads), NEW t \in Nat, NEW s \in Nat, TurnIsTold(H, t),
         \/ s = t /\ (\A i \in DOMAIN P : ~IsTurn(P[i]))
         \/ Len(P) > 0 /\ IsTurn(P[Len(P)]) /\ (P[Len(P)].type = "turn_start" => P[Len(P)].turn = s)
  PROVE  TurnIsTold(H \o P, s)
<1>1. Len(H \o P) = Len(H) + Len(P) /\ Len(H) \in Nat /\ Len(P) \in Nat /\ DOMAIN H = 1..Len(H) /\ DOMAIN P = 1..Len(P)
      /\ DOMAIN (H \o P) = 1..(Len(H) + Len(P))
  BY ConcatProperties
<1>2. \A i \in 1..Len(H) : (H \o P)[i] = H[i]  BY <1>1, ConcatProperties
<1>3. \A i \in 1..Len(P) : (H \o P)[Len(H) + i] = P[i]  BY <1>1, ConcatProperties
<1> SUFFICES ASSUME NEW i \in DOMAIN (H \o P), (H \o P)[i].type = "turn_start",
                    \A j \in DOMAIN (H \o P) : i < j => ~IsTurn((H \o P)[j])
             PROVE  (H \o P)[i].turn = s
  BY DEF TurnIsTold
<1>4. IsTurn((H \o P)[i])  BY DEF IsTurn
<1>5. CASE s = t /\ (\A k \in DOMAIN P : ~IsTurn(P[k]))
  <2>1. i <= Len(H)
    <3> SUFFICES ASSUME i > Len(H) PROVE FALSE  BY <1>1
    <3>1. i - Len(H) \in 1..Len(P) /\ (H \o P)[Len(H) + (i - Len(H))] = (H \o P)[i]  BY <1>1
    <3> QED  BY <1>1, <1>3, <1>4, <1>5, <3>1
  <2>2. \A j \in DOMAIN H : i < j => ~IsTurn(H[j])  BY <1>1, <1>2
  <2> QED  BY <1>1, <1>2, <1>5, <2>1, <2>2 DEF TurnIsTold
<1>6. CASE Len(P) > 0 /\ IsTurn(P[Len(P)]) /\ (P[Len(P)].type = "turn_start" => P[Len(P)].turn = s)
  <2> DEFINE k == Len(H) + Len(P)
  <2>1. k \in DOMAIN (H \o P) /\ (H \o P)[k] = P[Len(P)]  BY <1>1, <1>3, <1>6
  <2>2. i = k  BY <1>1, <1>6, <2>1
  <2> QED  BY <1>6, <2>1, <2>2
<1> QED  BY <1>5, <1>6

\* Of some places of a sequence one is the last.
LEMMA LastExists ==
  ASSUME NEW n \in Nat, NEW T \in SUBSET (1..n), T # {}
  PROVE  \E m \in T : \A j \in T : j <= m
<1> DEFINE V == {n - i : i \in T}
           R == OpToRel(<, Nat)
<1>1. IsWellFoundedOn(R, Nat)  BY NatLessThanWellFounded
<1>2. \A x, y \in Nat : x < y => <<x, y>> \in R  BY DEF OpToRel
<1> HIDE DEF R
<1>3. V \in SUBSET Nat /\ V # {}
  <2>1. \A i \in T : n - i \in Nat  OBVIOUS
  <2> QED  BY <2>1
<1>4. \A i \in T : n - i \in V  OBVIOUS
<1>5. \A v \in V : \E i \in T : v = n - i  OBVIOUS
<1> HIDE DEF V
<1>6. \E x \in V : \A y \in V : ~(<<y, x>> \in R)  BY <1>1, <1>3, WFMin
<1>7. PICK x \in V : \A y \in V : ~(y < x)  BY <1>2, <1>3, <1>6
<1>8. PICK m \in T : x = n - m  BY <1>5, <1>7
<1>9. \A j \in T : ~(n - j < n - m)  BY <1>4, <1>7, <1>8
<1>10. \A j \in T : j <= m
  <2> TAKE j \in T
  <2>1. j \in 1..n /\ m \in 1..n /\ ~(n - j < n - m)  BY <1>9
  <2> QED  BY <2>1
<1> QED  BY <1>10

\* Frames behind a place of the feed: what follows them, the first of them, and all but the first.
LEMMA FramesAppend ==
  ASSUME NEW H, NEW now, NEW n \in Nat, NEW S, NEW F \in Seq(S), NEW G \in Seq(S), NEW d \in Nat, d <= Len(F),
         RootsFollow(H, now, n, d, F), RootsFollow(H, now, n + Len(F) - d, 0, G)
  PROVE  RootsFollow(H, now, n, d, F \o G)
<1>1. Len(F) \in Nat /\ Len(G) \in Nat /\ DOMAIN F = 1..Len(F) /\ DOMAIN G = 1..Len(G) /\ DOMAIN (F \o G) = 1..(Len(F) + Len(G))
  BY ConcatProperties
<1>2. SUFFICES ASSUME NEW i \in DOMAIN (F \o G), i > d
               PROVE  /\ (F \o G)[i].kind = "root_output" /\ (F \o G)[i].seq = n + i - d
                      /\ now => n + i - d \in DOMAIN H /\ (F \o G)[i].payload = H[n + i - d]
  BY DEF RootsFollow
<1>3. CASE i <= Len(F)
  <2>1. i \in DOMAIN F /\ (F \o G)[i] = F[i]  BY <1>1, <1>3, ConcatProperties
  <2> QED  BY <1>2, <2>1 DEF RootsFollow
<1>4. CASE i > Len(F)
  <2> DEFINE j == i - Len(F)
  <2>1. j \in DOMAIN G /\ (F \o G)[i] = G[j] /\ n + Len(F) - d + j - 0 = n + i - d /\ j > 0
    BY <1>1, <1>4, ConcatProperties
  <2> HIDE DEF j
  <2> QED  BY <2>1 DEF RootsFollow
<1> QED  BY <1>1, <1>3, <1>4

LEMMA FramesPrefix ==
  ASSUME NEW H, NEW now, NEW n \in Nat, NEW S, NEW F \in Seq(S), NEW d, NEW k \in Nat, k <= Len(F), RootsFollow(H, now, n, d, F)
  PROVE  /\ SubSeq(F, 1, k) \in Seq(S) /\ Len(SubSeq(F, 1, k)) = k /\ \A i \in 1..k : SubSeq(F, 1, k)[i] = F[i]
         /\ RootsFollow(H, now, n, d, SubSeq(F, 1, k))
<1>1. Len(F) \in Nat /\ DOMAIN F = 1..Len(F) /\ \A i \in 1..k : F[i] \in S  BY ElementOfSeq
<1>2. SubSeq(F, 1, k) \in Seq(S) /\ Len(SubSeq(F, 1, k)) = k /\ \A i \in 1..k : SubSeq(F, 1, k)[i] = F[i]
  <2>1. /\ SubSeq(F, 1, k) \in Seq(S) /\ Len(SubSeq(F, 1, k)) = (IF 1 <= k THEN k - 1 + 1 ELSE 0)
        /\ \A i \in 1..(k - 1 + 1) : SubSeq(F, 1, k)[i] = F[1 + i - 1]
    BY <1>1, SubSeqProperties
  <2> QED  BY <2>1
<1>3. DOMAIN SubSeq(F, 1, k) = 1..k  BY <1>2
<1>4. 1..k \subseteq DOMAIN F  BY <1>1
<1> QED  BY <1>2, <1>3, <1>4 DEF RootsFollow

LEMMA FramesTail ==
  ASSUME NEW H, NEW now, NEW n \in Nat, NEW S, NEW F \in Seq(S), F # <<>>, RootsFollow(H, now, n, 1, F)
  PROVE  RootsFollow(H, now, n, 0, Tail(F))
<1>1. Len(F) \in Nat /\ DOMAIN F = 1..Len(F) /\ Tail(F) \in Seq(S) /\ Len(Tail(F)) = Len(F) - 1 /\ Len(F) > 0
      /\ \A i \in 1..Len(Tail(F)) : Tail(F)[i] = F[i + 1]
  BY HeadTailProperties
<1>2. SUFFICES ASSUME NEW i \in DOMAIN Tail(F)
               PROVE  /\ Tail(F)[i].kind = "root_output" /\ Tail(F)[i].seq = n + i - 0
                      /\ now => n + i - 0 \in DOMAIN H /\ Tail(F)[i].payload = H[n + i - 0]
  BY DEF RootsFollow
<1>3. i \in 1..Len(Tail(F)) /\ i + 1 \in DOMAIN F /\ n + (i + 1) - 1 = n + i - 0 /\ i + 1 > 1 /\ Tail(F)[i] = F[i + 1]
  BY <1>1
<1> QED  BY <1>3 DEF RootsFollow

\* The place after the first frame.
LEMMA FramesNext ==
  ASSUME NEW H, NEW now, NEW n \in Nat, NEW S, NEW F \in Seq(S), RootsFollow(H, now, n, 0, F)
  PROVE  RootsFollow(H, now, n + 1, 1, F)
<1>1. DOMAIN F = 1..Len(F) /\ Len(F) \in Nat  OBVIOUS
<1>2. SUFFICES ASSUME NEW i \in DOMAIN F, i > 1
               PROVE  /\ F[i].kind = "root_output" /\ F[i].seq = n + 1 + i - 1
                      /\ now => n + 1 + i - 1 \in DOMAIN H /\ F[i].payload = H[n + 1 + i - 1]
  BY DEF RootsFollow
<1>3. i > 0 /\ n + 1 + i - 1 = n + i - 0  BY <1>1
<1> QED  BY <1>3 DEF RootsFollow

LEMMA RootsGrow ==
  ASSUME NEW H \in Seq(Payloads), NEW P \in Seq(Payloads), NEW n \in Nat, NEW d \in Nat, NEW now, NEW S, NEW F \in Seq(S),
         RootsFollow(H, now, n, d, F)
  PROVE  RootsFollow(H \o P, now, n, d, F)
<1>1. Len(H \o P) = Len(H) + Len(P) /\ Len(H) \in Nat /\ Len(P) \in Nat /\ DOMAIN H = 1..Len(H) /\ DOMAIN (H \o P) = 1..(Len(H) + Len(P))
  BY ConcatProperties
<1>2. \A i \in 1..Len(H) : (H \o P)[i] = H[i]  BY <1>1, ConcatProperties
<1>3. DOMAIN H \subseteq DOMAIN (H \o P)  BY <1>1
<1> QED  BY <1>1, <1>2, <1>3 DEF RootsFollow

\* What of the ring follows a cursor that can be resumed.
LEMMA MissedFollows ==
  ASSUME NEW H \in Seq(Payloads), ring \in Seq(KeptFrames), seq \in Nat, RingKeeps(H, seq, ring),
         NEW n \in Nat, n <= seq, ~Overrun(n)
  PROVE  /\ Missed(n) \in Seq(KeptFrames) /\ Len(Missed(n)) = seq - n
         /\ FramesFollow(H, TRUE, n, Missed(n))
<1>1. CASE n = seq
  <2>1. Missed(n) = <<>>  BY <1>1 DEF Missed
  <2> QED  BY <1>1, <2>1 DEF FramesFollow
<1>2. CASE n < seq
  <2> DEFINE len == Len(ring)
             from == n + 1 - (seq - len)
  <2>1. ring # <<>> /\ ~(n < ring[1].seq - 1)  BY <1>2 DEF Overrun
  <2>2. len \in Nat \ {0} /\ DOMAIN ring = 1..len /\ DOMAIN H = 1..Len(H) /\ Len(H) = seq /\ len <= seq  BY <2>1 DEF RingKeeps
  <2>3. ring[1].seq = seq - len + 1  BY <2>2 DEF RingKeeps
  <2>4. from \in 1..len /\ from = IF n < ring[1].seq THEN 1 ELSE n + 2 - ring[1].seq  BY <1>2, <2>1, <2>2, <2>3
  <2>5. Missed(n) = SubSeq(ring, from, len)
    <3>1. Missed(n) = SubSeq(ring, IF n < ring[1].seq THEN 1 ELSE n + 2 - ring[1].seq, len)
      <4>1. ~(ring = <<>> \/ n >= seq)  BY <1>2, <2>1
      <4> QED  BY <4>1 DEF Missed
    <3> HIDE DEF from
    <3> QED  BY <2>4, <3>1
  <2>6. \A i \in from..len : ring[i] \in KeptFrames  BY <2>2, <2>4, ElementOfSeq
  <2>7. /\ Missed(n) \in Seq(KeptFrames) /\ Len(Missed(n)) = len - from + 1
        /\ \A i \in 1..(len - from + 1) : Missed(n)[i] = ring[from + i - 1]
    <3> HIDE DEF from, len
    <3>1. from \in Int /\ len \in Int  BY <2>2, <2>4
    <3>2. /\ SubSeq(ring, from, len) \in Seq(KeptFrames)
          /\ Len(SubSeq(ring, from, len)) = IF from <= len THEN len - from + 1 ELSE 0
          /\ \A i \in 1..(len - from + 1) : SubSeq(ring, from, len)[i] = ring[from + i - 1]
      BY <2>6, <3>1, SubSeqProperties
    <3> QED  BY <2>2, <2>4, <2>5, <3>2
  <2>8. Len(Missed(n)) = seq - n  BY <2>2, <2>7
  <2>9. ASSUME NEW i \in DOMAIN Missed(n)
        PROVE  Missed(n)[i].seq = n + i /\ n + i \in DOMAIN H /\ Missed(n)[i].payload = H[n + i]
    <3>1. i \in 1..(len - from + 1)  BY <2>7
    <3>2. i \in Nat /\ seq - len + (from + i - 1) = n + i /\ from + i - 1 \in 1..len /\ n + i \in 1..seq
      <4>1. len \in Nat /\ i \in Int /\ 1 <= i /\ i <= len - from + 1 /\ from \in Int /\ 1 <= from  BY <2>2, <2>4, <3>1
      <4>2. len - from = seq - n - 1  BY <2>2
      <4>3. i <= seq - n  BY <4>1, <4>2
      <4>4. n + i \in 1..seq  BY <4>1, <4>3
      <4>5. from + i - 1 \in 1..len
        <5> HIDE DEF from, len
        <5> QED  BY <4>1
      <4>6. seq - len + (from + i - 1) = n + i  BY <4>1
      <4> QED  BY <4>1, <4>4, <4>5, <4>6
    <3>3. from + i - 1 \in DOMAIN ring /\ n + i \in DOMAIN H  BY <2>2, <3>2
    <3> QED  BY <2>7, <3>1, <3>2, <3>3 DEF RingKeeps
  <2> QED  BY <2>7, <2>8, <2>9 DEF FramesFollow
<1>3. n = seq \/ n < seq  OBVIOUS
<1> QED  BY <1>1, <1>2, <1>3, Zenon

\* A user that goes on with frames of the feed.
Followers == [epoch : Nat, seq : Nat, open : Nat, torn : BOOLEAN]
LEMMA FollowReads ==
  ASSUME NEW H \in Seq(Payloads), NEW now \in BOOLEAN, NEW f \in Followers, ~f.torn, NEW S, NEW frames \in Seq(S),
         \A i \in DOMAIN frames : frames[i].seq \in Nat /\ frames[i].payload \in Payloads,
         FramesFollow(H, now, f.seq, frames), now => Believes(H, f.seq, f.open)
  PROVE  /\ Follow(f, frames) \in Followers /\ ~Follow(f, frames).torn
         /\ Follow(f, frames).epoch = f.epoch /\ Follow(f, frames).seq = f.seq + Len(frames)
         /\ now => Believes(H, f.seq + Len(frames), Follow(f, frames).open)
<1> DEFINE g == Follow(f, frames)
           told == CHOOSE i \in DOMAIN frames : IsLastTurn(frames, i)
<1>1. Len(frames) \in Nat /\ DOMAIN frames = 1..Len(frames) /\ f.seq \in Nat /\ f.epoch \in Nat /\ f.open \in Nat /\ f.torn = FALSE
  BY DEF Followers
<1>2. g.epoch = f.epoch /\ g.torn = FALSE
  BY <1>1 DEF Follow, FramesFollow
<1>3. g.seq = f.seq + Len(frames)
  <2>1. CASE frames = <<>>  BY <1>1, <2>1 DEF Follow
  <2>2. CASE frames # <<>>
    <3>1. Len(frames) \in DOMAIN frames  BY <1>1, <2>2
    <3> QED  BY <2>2, <3>1 DEF Follow, FramesFollow
  <2> QED  BY <2>1, <2>2
<1>4. CASE \E i \in DOMAIN frames : IsLastTurn(frames, i)
  <2>1. told \in DOMAIN frames /\ IsLastTurn(frames, told)  BY <1>4
  <2>2. g.open = OpenAfter(frames[told].payload)  BY <1>4 DEF Follow
  <2> HIDE DEF told
  <2>3. frames[told].payload \in Payloads  BY <2>1
  <2>4. g.open \in Nat
    <3>1. frames[told].payload.turn \in Nat  BY <2>3 DEF Payloads
    <3> QED  BY <2>2, <3>1 DEF OpenAfter
  <2>5. ASSUME now, g.open # 0 PROVE Believes(H, f.seq + Len(frames), g.open)
    <3> DEFINE n == f.seq + told
    <3>1. n \in DOMAIN H /\ H[n] = frames[told].payload  BY <2>1, <2>5 DEF FramesFollow
    <3>2. H[n].type = "turn_start" /\ H[n].turn = g.open  BY <2>2, <2>5, <3>1 DEF OpenAfter
    <3>3. n <= f.seq + Len(frames)  BY <1>1, <2>1
    <3>4. ASSUME NEW j \in DOMAIN H, n < j, j <= f.seq + Len(frames) PROVE ~IsTurn(H[j])
      <4>1. DOMAIN H = 1..Len(H) /\ Len(H) \in Nat  OBVIOUS
      <4>2. j - f.seq \in DOMAIN frames /\ told < j - f.seq /\ f.seq + (j - f.seq) = j  BY <1>1, <2>1, <3>4, <4>1
      <4>3. frames[j - f.seq].payload = H[j]
        <5> DEFINE k == j - f.seq
        <5>1. k \in DOMAIN frames /\ f.seq + k = j  BY <4>2
        <5> HIDE DEF k
        <5>2. frames[k].payload = H[f.seq + k]  BY <2>5, <5>1 DEF FramesFollow
        <5> QED  BY <5>1, <5>2 DEF k
      <4>4. frames[j - f.seq].payload.type \notin {"turn_start", "turn_terminal"}  BY <2>1, <4>2 DEF IsLastTurn
      <4> QED  BY <4>3, <4>4 DEF IsTurn
    <3> QED  BY <3>1, <3>2, <3>3, <3>4 DEF Believes
  <2>6. now => Believes(H, f.seq + Len(frames), g.open)  BY <2>5 DEF Believes
  <2>7. g \in Followers  BY <1>1, <1>2, <1>3, <2>4 DEF Followers, Follow
  <2> QED  BY <1>2, <1>3, <2>6, <2>7
<1>5. CASE ~\E i \in DOMAIN frames : IsLastTurn(frames, i)
  <2>1. g.open = f.open  BY <1>5 DEF Follow
  <2>2. \A i \in DOMAIN frames : frames[i].payload.type \notin {"turn_start", "turn_terminal"}
    <3> DEFINE T == {i \in DOMAIN frames : frames[i].payload.type \in {"turn_start", "turn_terminal"}}
    <3> SUFFICES ASSUME T # {} PROVE FALSE  OBVIOUS
    <3>1. T \in SUBSET (1..Len(frames))  BY <1>1
    <3>2. PICK m \in T : \A j \in T : j <= m  BY <1>1, <3>1, LastExists
    <3>3. IsLastTurn(frames, m)  BY <1>1, <3>1, <3>2 DEF IsLastTurn
    <3> QED  BY <1>5, <3>3
  <2>3. ASSUME now, f.open # 0 PROVE Believes(H, f.seq + Len(frames), f.open)
    <3>1. PICK i \in DOMAIN H : /\ i <= f.seq /\ H[i].type = "turn_start" /\ H[i].turn = f.open
                                /\ \A j \in DOMAIN H : i < j /\ j <= f.seq => ~IsTurn(H[j])
      BY <2>3 DEF Believes
    <3>2. DOMAIN H = 1..Len(H) /\ Len(H) \in Nat  OBVIOUS
    <3>3. ASSUME NEW j \in DOMAIN H, i < j, j <= f.seq + Len(frames) PROVE ~IsTurn(H[j])
      <4>1. CASE j <= f.seq  BY <3>1, <3>3, <4>1
      <4>2. CASE j > f.seq
        <5> DEFINE k == j - f.seq
        <5>1. k \in DOMAIN frames /\ f.seq + k = j  BY <1>1, <3>2, <3>3, <4>2
        <5> HIDE DEF k
        <5>2. frames[k].payload = H[f.seq + k]  BY <2>3, <5>1 DEF FramesFollow
        <5> QED  BY <2>2, <5>1, <5>2 DEF IsTurn
      <4> QED  BY <1>1, <3>2, <4>1, <4>2
    <3>4. i <= f.seq + Len(frames)  BY <1>1, <3>1, <3>2
    <3> QED  BY <3>1, <3>3, <3>4 DEF Believes
  <2>4. now => Believes(H, f.seq + Len(frames), f.open)  BY <2>3 DEF Believes
  <2>5. g \in Followers  BY <1>1, <1>2, <1>3, <2>1 DEF Followers, Follow
  <2> QED  BY <1>2, <1>3, <2>1, <2>4, <2>5
<1> QED  BY <1>4, <1>5

-----------------------------------------------------------------------------
(* What the supervisor writes. *)

FeedFacts == conn \in Connections /\ wire \in Seq(Frames) /\ seq \in Nat /\ epoch \in Nat /\ active \in BOOLEAN

LEMMA WritesWhole ==
  ASSUME FeedAssumption, FeedFacts, NEW frames \in Seq(Frames), Writes(frames)
  PROVE  /\ conn' \in Connections /\ wire' \in Seq(Frames)
         /\ \/ conn' = conn /\ wire' = wire \o frames
            \/ conn' = NoConn /\ wire' = SubSeq(wire \o frames, 1, MaxQueue) /\ MaxQueue < Len(wire \o frames)
<1>1. wire \o frames \in Seq(Frames) /\ Len(wire \o frames) = Len(wire) + Len(frames) /\ Len(wire) \in Nat /\ Len(frames) \in Nat
  BY ConcatProperties DEF FeedFacts
<1>2. NoConn \in Connections  BY DEF NoConn, Connections
<1>3. CASE Fits(frames)  BY <1>1, <1>3 DEF Writes, FeedFacts
<1>4. CASE ~Fits(frames)
  <2>1. MaxQueue \in Nat /\ MaxQueue < Len(wire \o frames)  BY <1>1, <1>4 DEF Fits, FeedAssumption
  <2>2. \A i \in 1..MaxQueue : (wire \o frames)[i] \in Frames  BY <1>1, <2>1, ElementOfSeq
  <2>3. SubSeq(wire \o frames, 1, MaxQueue) \in Seq(Frames)
    <3>1. 1 \in Int /\ MaxQueue \in Int  BY <2>1
    <3> QED  BY <2>2, <3>1, SubSeqProperties
  <2> QED  BY <1>2, <1>4, <2>1, <2>3 DEF Writes
<1> QED  BY <1>3, <1>4

\* What an event adds to the feed, and what of it goes to the user.
LEMMA PublishedFrames ==
  ASSUME FeedFacts, NEW P \in Seq(Payloads)
  PROVE  /\ Published(P) \in Seq(KeptFrames) /\ Len(Published(P)) = (IF active THEN Len(P) ELSE 0)
         /\ \A i \in DOMAIN Published(P) : Published(P)[i].seq = seq + i /\ Published(P)[i].payload = P[i]
<1>1. Len(P) \in Nat /\ DOMAIN P = 1..Len(P) /\ \A i \in 1..Len(P) : P[i] \in Payloads  BY ElementOfSeq
<1>2. CASE active
  <2>1. Published(P) = [i \in 1..Len(P) |-> [seq |-> seq + i, payload |-> P[i]]]  BY <1>1, <1>2 DEF Published, Numbered
  <2>2. \A i \in 1..Len(P) : [seq |-> seq + i, payload |-> P[i]] \in KeptFrames  BY <1>1 DEF KeptFrames, FeedFacts
  <2>3. Published(P) \in Seq(KeptFrames) /\ Len(Published(P)) = Len(P)  BY <1>1, <2>1, <2>2, IsASeq
  <2> QED  BY <1>1, <1>2, <2>1, <2>3
<1>3. CASE ~active  BY <1>3 DEF Published
<1> QED  BY <1>2, <1>3

LEMMA RootFramesTyped ==
  ASSUME FeedFacts, NEW F \in Seq(KeptFrames)
  PROVE  /\ RootFrames(F) \in Seq(Frames) /\ Len(RootFrames(F)) = (IF conn.feed THEN Len(F) ELSE 0)
         /\ \A i \in DOMAIN RootFrames(F) : /\ RootFrames(F)[i].kind = "root_output" /\ RootFrames(F)[i].seq = F[i].seq
                                            /\ RootFrames(F)[i].payload = F[i].payload
<1>1. Len(F) \in Nat /\ DOMAIN F = 1..Len(F) /\ \A i \in 1..Len(F) : F[i] \in KeptFrames  BY ElementOfSeq
<1>2. CASE conn.feed
  <2>1. RootFrames(F) = [i \in 1..Len(F) |-> Frame("root_output", F[i])]  BY <1>1, <1>2 DEF RootFrames
  <2>2. ASSUME NEW i \in 1..Len(F)
        PROVE  /\ Frame("root_output", F[i]) \in Frames /\ Frame("root_output", F[i]).kind = "root_output"
               /\ Frame("root_output", F[i]).seq = F[i].seq /\ Frame("root_output", F[i]).payload = F[i].payload
    <3>1. F[i].seq \in Nat /\ F[i].payload \in Payloads /\ epoch \in Nat  BY <1>1 DEF KeptFrames, FeedFacts
    <3>2. Frame("root_output", F[i]) \in RootOutputs  BY <3>1 DEF Frame, RootOutputs
    <3> QED  BY <3>2 DEF Frames, Frame
  <2>3. RootFrames(F) \in Seq(Frames) /\ Len(RootFrames(F)) = Len(F)  BY <1>1, <2>1, <2>2, IsASeq
  <2> QED  BY <1>1, <1>2, <2>1, <2>2, <2>3
<1>3. CASE ~conn.feed  BY <1>3 DEF RootFrames
<1> QED  BY <1>2, <1>3

LEMMA ActorFramesTyped ==
  ASSUME FeedTypeOK, NEW e \in Events
  PROVE  /\ ActorFrames(e) \in Seq(Frames)
         /\ ~conn.watching => ActorFrames(e) = <<>>
         /\ \A i \in DOMAIN ActorFrames(e) : ActorFrames(e)[i].kind = "actor_event"
<1>1. ActorFrame(e) \in Frames
  <2>1. (IF e.message = 0 THEN 0 ELSE said[e.message]) \in Nat
    <3>1. e.message = 0 \/ e.message \in Messages  BY DEF Events
    <3> QED  BY <3>1 DEF FeedTypeOK
  <2>2. gen \in Nat /\ e.message \in {0} \cup Messages
        /\ e.type \in {"agent_start", "agent_settled", "text_delta", "text_end", "message_end"}
    BY DEF FeedTypeOK, Events
  <2>3. ActorFrame(e) \in ViewFrames  BY <2>1, <2>2 DEF ActorFrame, ViewFrames
  <2> QED  BY <2>3 DEF Frames
<1>2. ActorFrame(e).kind = "actor_event"  BY DEF ActorFrame
<1>3. CASE conn.watching
  <2>1. ActorFrames(e) = <<ActorFrame(e)>>  BY <1>3 DEF ActorFrames
  <2> QED  BY <1>1, <1>2, <1>3, <2>1
<1>4. CASE ~conn.watching  BY <1>4 DEF ActorFrames
<1> QED  BY <1>3, <1>4

\* accept: the last start or end of a turn tells the turn that is open then.
ToldBy(P, t) ==
  \/ t = turn /\ \A i \in DOMAIN P : ~IsTurn(P[i])
  \/ Len(P) > 0 /\ IsTurn(P[Len(P)]) /\ (P[Len(P)].type = "turn_start" => P[Len(P)].turn = t)

LEMMA AcceptedTells ==
  ASSUME gen \in Nat \ {0}, turn \in Nat, turn # 0 => turn = gen, NEW e \in Events
  PROVE  Accepted(e) \in Seq(Payloads) /\ TurnAfter(e) \in {0, turn, gen} /\ ToldBy(Accepted(e), TurnAfter(e))
<1>1. /\ Payload("turn_start") \in Payloads /\ Payload("text_delta") \in Payloads /\ Payload("assistant_terminal") \in Payloads
      /\ Terminal(gen) \in Payloads /\ Terminal(turn) \in Payloads
  BY DEF Payloads, Payload, Terminal
<1>2. e.type \in {"agent_start", "agent_settled", "text_delta", "text_end", "message_end"}  BY DEF Events
<1>3. CASE e.type = "agent_start"
  <2>1. TurnAfter(e) = gen  BY <1>3 DEF TurnAfter
  <2> DEFINE first == IF turn # 0 THEN <<Terminal(turn)>> ELSE <<>>
             last == <<Payload("turn_start")>>
  <2>2. Accepted(e) = first \o last  BY <1>3 DEF Accepted
  <2>3. IsTurn(Payload("turn_start")) /\ Payload("turn_start").turn = gen  BY DEF IsTurn, Payload
  <2>4. first \in Seq(Payloads) /\ last \in Seq(Payloads) /\ Len(last) = 1 /\ last[1] = Payload("turn_start")  BY <1>1
  <2> HIDE DEF first, last
  <2>5. Accepted(e) \in Seq(Payloads) /\ Len(Accepted(e)) > 0 /\ Accepted(e)[Len(Accepted(e))] = Payload("turn_start")
    <3>1. first \o last \in Seq(Payloads) /\ Len(first \o last) = Len(first) + Len(last)  BY <2>4, ConcatProperties
    <3>2. Len(first) \in Nat  BY <2>4, LenProperties
    <3>3. Len(first \o last) = Len(first) + 1  BY <2>4, <3>1
    <3>4. (first \o last)[Len(first) + 1] = last[1]  BY <2>4, <3>2, <3>3, ConcatProperties
    <3> QED  BY <2>2, <2>4, <3>1, <3>2, <3>3, <3>4
  <2> QED  BY <2>1, <2>3, <2>5 DEF ToldBy
<1>4. CASE e.type = "agent_settled"
  <2>1. TurnAfter(e) = 0  BY <1>4 DEF TurnAfter
  <2>2. CASE turn # gen
    <3>1. turn = 0 /\ Accepted(e) = <<>>  BY <1>4, <2>2 DEF Accepted
    <3> QED  BY <2>1, <3>1 DEF ToldBy
  <2>3. CASE turn = gen
    <3>1. Accepted(e) = <<Terminal(gen)>>  BY <1>4, <2>3 DEF Accepted
    <3>2. IsTurn(Terminal(gen)) /\ Terminal(gen).type # "turn_start"  BY DEF IsTurn, Terminal
    <3>3. Accepted(e) \in Seq(Payloads) /\ Len(Accepted(e)) = 1 /\ Accepted(e)[1] = Terminal(gen)  BY <1>1, <3>1
    <3> QED  BY <2>1, <3>2, <3>3 DEF ToldBy
  <2> QED  BY <2>2, <2>3
<1>5. CASE e.type \in {"text_delta", "text_end", "message_end"}
  <2>1. TurnAfter(e) = turn  BY <1>5 DEF TurnAfter
  <2>2. \/ Accepted(e) = <<>>
        \/ Accepted(e) = <<Payload("text_delta")>> \/ Accepted(e) = <<Payload("assistant_terminal")>>
    BY <1>5 DEF Accepted
  <2>3. ~IsTurn(Payload("text_delta")) /\ ~IsTurn(Payload("assistant_terminal"))  BY DEF IsTurn, Payload
  <2>4. Accepted(e) \in Seq(Payloads) /\ \A i \in DOMAIN Accepted(e) : ~IsTurn(Accepted(e)[i])
    <3>1. CASE Accepted(e) = <<>>  BY <3>1
    <3>2. CASE Accepted(e) = <<Payload("text_delta")>>  BY <1>1, <2>3, <3>2
    <3>3. CASE Accepted(e) = <<Payload("assistant_terminal")>>  BY <1>1, <2>3, <3>3
    <3> QED  BY <2>2, <3>1, <3>2, <3>3
  <2> QED  BY <2>1, <2>4 DEF ToldBy
<1> QED  BY <1>2, <1>3, <1>4, <1>5

LEMMA FailureTells ==
  ASSUME gen \in Nat \ {0}, turn \in Nat, turn # 0 => turn = gen
  PROVE  FailSession \in Seq(Payloads) /\ ToldBy(FailSession, 0)
<1>1. CASE turn = gen
  <2>1. FailSession = <<Terminal(gen)>> /\ Terminal(gen) \in Payloads  BY <1>1 DEF FailSession, Payloads, Terminal
  <2>2. IsTurn(Terminal(gen)) /\ Terminal(gen).type # "turn_start"  BY DEF IsTurn, Terminal
  <2>3. FailSession \in Seq(Payloads) /\ Len(FailSession) = 1 /\ FailSession[1] = Terminal(gen)  BY <2>1
  <2> QED  BY <2>2, <2>3 DEF ToldBy
<1>2. CASE turn # gen
  <2>1. turn = 0 /\ FailSession = <<>>  BY <1>2 DEF FailSession
  <2> QED  BY <2>1 DEF ToldBy
<1> QED  BY <1>1, <1>2

-----------------------------------------------------------------------------
(* What is published keeps the feed and its users together. *)

LEMMA RootFramesFollow ==
  ASSUME FeedFacts, NEW H \in Seq(Payloads), Len(H) = seq, NEW D \in Seq(Payloads), NEW F \in Seq(KeptFrames), Len(F) = Len(D),
         \A i \in DOMAIN F : F[i].seq = seq + i /\ F[i].payload = D[i], NEW now
  PROVE  RootsFollow(H \o D, now, seq, 0, RootFrames(F))
<1>1. Len(H \o D) = Len(H) + Len(D) /\ Len(D) \in Nat /\ DOMAIN (H \o D) = 1..(Len(H) + Len(D)) /\ DOMAIN F = 1..Len(F)
  <2>1. H \o D \in Seq(Payloads) /\ Len(H \o D) = Len(H) + Len(D)  BY ConcatProperties
  <2>2. DOMAIN (H \o D) = 1..Len(H \o D) /\ Len(D) \in Nat /\ DOMAIN F = 1..Len(F)  BY <2>1
  <2> QED  BY <2>1, <2>2
<1>2. \A i \in 1..Len(D) : (H \o D)[Len(H) + i] = D[i]
  <2> TAKE i \in 1..Len(D)
  <2>1. Len(H) + i \in 1..Len(H) + Len(D) /\ ~(Len(H) + i <= Len(H)) /\ Len(H) + i - Len(H) = i /\ Len(H) \in Nat  BY <1>1
  <2> QED  BY <2>1, ConcatProperties
<1>3. /\ DOMAIN RootFrames(F) \subseteq DOMAIN F
      /\ \A i \in DOMAIN RootFrames(F) : /\ RootFrames(F)[i].kind = "root_output" /\ RootFrames(F)[i].seq = F[i].seq
                                         /\ RootFrames(F)[i].payload = F[i].payload
  <2>1. RootFrames(F) \in Seq(Frames) /\ Len(RootFrames(F)) \in {0, Len(F)}  BY RootFramesTyped
  <2>2. DOMAIN RootFrames(F) = 1..Len(RootFrames(F))  BY <2>1
  <2>3. Len(F) \in Nat  OBVIOUS
  <2>4. DOMAIN RootFrames(F) \subseteq DOMAIN F
    <3>1. Len(RootFrames(F)) <= Len(F)  BY <2>1, <2>3
    <3>2. Len(RootFrames(F)) \in Nat  BY <2>1, <2>3
    <3>3. \A i \in 1..Len(RootFrames(F)) : i \in 1..Len(F)  BY <2>3, <3>1, <3>2
    <3> QED  BY <1>1, <2>2, <3>3, Zenon
  <2>5. \A i \in DOMAIN RootFrames(F) : /\ RootFrames(F)[i].kind = "root_output" /\ RootFrames(F)[i].seq = F[i].seq
                                         /\ RootFrames(F)[i].payload = F[i].payload
    BY RootFramesTyped
  <2> QED  BY <2>4, <2>5
<1>4. SUFFICES ASSUME NEW i \in DOMAIN RootFrames(F)
               PROVE  /\ RootFrames(F)[i].kind = "root_output" /\ RootFrames(F)[i].seq = seq + i - 0
                      /\ seq + i - 0 \in DOMAIN (H \o D) /\ RootFrames(F)[i].payload = (H \o D)[seq + i - 0]
  BY DEF RootsFollow
<1>5. i \in 1..Len(D) /\ seq + i - 0 = seq + i /\ seq + i \in DOMAIN (H \o D)  BY <1>1, <1>3, <1>4 DEF FeedFacts
<1> QED  BY <1>2, <1>3, <1>4, <1>5

\* A publication, and other frames for one who looks at the session.
Publication(F, X) ==
  /\ Publishes(F) /\ Writes(RootFrames(F) \o X)
  /\ UNCHANGED <<up, epoch, active, reads, asked, clientVars>>

LEMMA AnswerTyped ==
  ASSUME NEW f \in Frames, f.kind = "subscribed"
  PROVE  f \in Subscriptions
BY DEF Frames, ViewFrames, Subscriptions, RootOutputs

LEMMA FeedUserHears ==
  ASSUME FeedAssumption, FeedTypeOK, NEW H \in Seq(Payloads), Len(H) = seq, FeedUser(H), FollowFits(H),
         NEW D \in Seq(Payloads), NEW F \in Seq(KeptFrames), Len(F) = Len(D),
         \A i \in DOMAIN F : F[i].seq = seq + i /\ F[i].payload = D[i], Publication(F, <<>>)
  PROVE  FeedUser(H \o D)'
<1> DEFINE G == H \o D
           RF == RootFrames(F)
<1>1. FeedFacts  BY DEF FeedTypeOK, FeedFacts
<1>2. RF \in Seq(Frames) /\ Len(RF) = (IF conn.feed THEN Len(F) ELSE 0)  BY <1>1, RootFramesTyped
<1>3. \A now : RootsFollow(G, now, seq, 0, RF)  BY <1>1, RootFramesFollow
<1>4. Len(F) \in Nat /\ Len(wire) \in Nat /\ seq \in Nat /\ seq' = seq + Len(F) /\ epoch' = epoch
      /\ Len(wire \o RF) = Len(wire) + Len(RF) /\ wire \o RF \in Seq(Frames) /\ MaxQueue \in Nat \ {0}
  <2>1. Len(F) \in Nat /\ Len(wire) \in Nat  BY DEF FeedTypeOK
  <2>3. wire \in Seq(Frames)  BY DEF FeedTypeOK
  <2>2. wire \o RF \in Seq(Frames) /\ Len(wire \o RF) = Len(wire) + Len(RF)
    <3> HIDE DEF RF
    <3> QED  BY <1>2, <2>3, ConcatProperties
  <2> QED  BY <2>1, <2>2 DEF FeedTypeOK, FeedAssumption, Publication, Publishes
<1>5. Writes(RF)
  <2>1. RF \o <<>> = RF  BY <1>2, ConcatEmptySeq
  <2> QED  BY <2>1 DEF Publication
<1>6. UNCHANGED <<up, epoch, active, reads, asked, clientVars>>  BY DEF Publication
<1> HIDE DEF RF, G
<1>7. \/ conn' = conn /\ wire' = wire \o RF
      \/ conn' = NoConn /\ wire' = SubSeq(wire \o RF, 1, MaxQueue) /\ MaxQueue < Len(wire \o RF)
  BY <1>1, <1>2, <1>5, WritesWhole
<1>8. NoConn.watching = FALSE /\ NoConn.feed = FALSE  BY DEF NoConn
<1>9. ~conn.feed => Len(RF) = 0 /\ RF = <<>>
  <2>1. ~conn.feed => Len(RF) = 0  BY <1>2
  <2> QED  BY <1>2, <2>1, EmptySeq
\* One who has no subscription yet is told nothing.
<1>10. ASSUME ~conn.feed, Len(wire) <= 1 PROVE wire' = wire /\ conn' = conn
  <2>1. wire \o RF = wire  BY <1>9, <1>10, ConcatEmptySeq DEF FeedTypeOK
  <2> QED  BY <1>4, <1>7, <1>10, <2>1
<1>11. ~conn'.watching /\ conn'.feed \in {FALSE, conn.feed}  BY <1>7, <1>8 DEF FeedUser
<1>12. asked' = "register" => client' = "registering" /\ wire' = <<>>
  <2> SUFFICES ASSUME asked = "register" PROVE client' = "registering" /\ wire' = <<>>  BY <1>6
  <2>1. client = "registering" /\ wire = <<>> /\ ~conn.feed  BY DEF FeedUser
  <2> QED  BY <1>6, <1>10, <2>1 DEF clientVars
<1>13. asked' = "subscribe" => client' = "subscribing" /\ wire' = <<>> /\ ~conn'.feed
  <2> SUFFICES ASSUME asked = "subscribe" PROVE client' = "subscribing" /\ wire' = <<>> /\ ~conn'.feed  BY <1>6
  <2>1. client = "subscribing" /\ wire = <<>> /\ ~conn.feed  BY DEF FeedUser
  <2> QED  BY <1>6, <1>10, <2>1 DEF clientVars
<1>14. client' = "registering" => ~conn'.feed /\ (wire' = <<>> \/ (Len(wire') = 1 /\ wire'[1].kind = "registered"))
  <2> SUFFICES ASSUME client = "registering"
               PROVE  ~conn'.feed /\ (wire' = <<>> \/ (Len(wire') = 1 /\ wire'[1].kind = "registered"))
    BY <1>6 DEF clientVars
  <2>1. ~conn.feed /\ (wire = <<>> \/ (Len(wire) = 1 /\ wire[1].kind = "registered"))  BY DEF FeedUser
  <2>2. Len(wire) <= 1
    <3>1. CASE wire = <<>>  BY <3>1
    <3>2. CASE Len(wire) = 1  BY <3>2
    <3> QED  BY <2>1, <3>1, <3>2
  <2> QED  BY <1>10, <2>1, <2>2
<1>15. ASSUME NEW n \in Nat, NEW d \in Nat, d <= Len(wire), NEW now, RootsFollow(H, now, n, d, wire),
              conn.feed => n + Len(wire) = seq + d
       PROVE  /\ RootsFollow(G, now, n, d, wire')
              /\ conn'.feed => n + Len(wire') = seq' + d
  <2>1. RootsFollow(G, now, n, d, wire)  BY <1>15, RootsGrow DEF G, FeedTypeOK
  <2>2. RootsFollow(G, now, n, d, wire \o RF)
    <3>1. CASE conn.feed
      <4>3. n + Len(wire) = seq + d  BY <1>15, <3>1, Zenon
      <4>1. n + Len(wire) - d = seq  BY <1>4, <4>3
      <4>2. RootsFollow(G, now, n + Len(wire) - d, 0, RF)  BY <1>3, <4>1
      <4> QED  BY <1>2, <1>15, <2>1, <4>2, FramesAppend DEF FeedTypeOK
    <3>2. CASE ~conn.feed
      <4>1. wire \o RF = wire  BY <1>9, <3>2, ConcatEmptySeq DEF FeedTypeOK
      <4> QED  BY <2>1, <4>1
    <3> QED  BY <3>1, <3>2
  <2>3. CASE conn' = conn /\ wire' = wire \o RF
    <3>1. RootsFollow(G, now, n, d, wire')  BY <2>2, <2>3
    <3>2. ASSUME conn.feed PROVE n + Len(wire') = seq' + d
      <4>1. Len(RF) = Len(F)  BY <1>2, <3>2
      <4>2. n + Len(wire) = seq + d  BY <1>15, <3>2, Zenon
      <4>3. Len(wire') = Len(wire) + Len(F)  BY <1>4, <2>3, <4>1
      <4>4. seq \in Nat /\ Len(wire) \in Nat /\ Len(F) \in Nat /\ seq' = seq + Len(F)  BY <1>4
      <4>6. n \in Nat /\ d \in Nat  BY <1>15
      <4>7. PICK w \in Nat, f \in Nat, q \in Nat : w = Len(wire) /\ f = Len(F) /\ q = seq  BY <4>4
      <4>8. n + w = q + d  BY <4>2, <4>7
      <4>9. n + (w + f) = (q + f) + d  BY <4>6, <4>8
      <4>5. n + (Len(wire) + Len(F)) = (seq + Len(F)) + d  BY <4>7, <4>9
      <4> QED  BY <4>3, <4>4, <4>5, Zenon
    <3> QED  BY <2>3, <3>1, <3>2
  <2>4. CASE conn' = NoConn /\ wire' = SubSeq(wire \o RF, 1, MaxQueue) /\ MaxQueue < Len(wire \o RF)
    <3>1. RootsFollow(G, now, n, d, SubSeq(wire \o RF, 1, MaxQueue))
      <4>1. MaxQueue \in Nat /\ MaxQueue <= Len(wire \o RF)  BY <1>4, <2>4
      <4> QED  BY <1>4, <2>2, <4>1, FramesPrefix
    <3> QED  BY <1>8, <2>4, <3>1
  <2> QED  BY <1>7, <2>3, <2>4
<1>16. client' = "live" => /\ RootsFollow(G, Now(follow.epoch)', follow.seq', 0, wire')
                           /\ conn'.feed => follow'.epoch = epoch' /\ follow'.seq + Len(wire') = seq'
  <2> SUFFICES ASSUME client = "live"
               PROVE  /\ RootsFollow(G, Now(follow.epoch)', follow.seq', 0, wire')
                      /\ conn'.feed => follow'.epoch = epoch' /\ follow'.seq + Len(wire') = seq'
    BY <1>6 DEF clientVars
  <2>1. follow' = follow /\ (Now(follow.epoch)' <=> Now(follow.epoch))  BY <1>6 DEF clientVars, Now
  <2>2. follow.seq \in Nat  BY DEF FeedTypeOK
  <2>3. /\ RootsFollow(H, Now(follow.epoch), follow.seq, 0, wire)
        /\ conn.feed => follow.epoch = epoch /\ follow.seq + Len(wire) = seq
    BY DEF FeedUser
  <2>4. 0 \in Nat /\ 0 <= Len(wire) /\ (conn.feed => follow.seq + Len(wire) = seq + 0)  BY <1>4, <2>3
  <2>5. /\ RootsFollow(G, Now(follow.epoch), follow.seq, 0, wire')
        /\ conn'.feed => follow.seq + Len(wire') = seq' + 0
    BY <1>15, <2>2, <2>3, <2>4
  <2>6. seq' + 0 = seq'  BY <1>4
  <2>7. RootsFollow(G, Now(follow.epoch)', follow.seq', 0, wire')
    <3>1. Now(follow.epoch) \in BOOLEAN /\ Now(follow.epoch)' \in BOOLEAN  BY DEF Now, FeedTypeOK
    <3> QED  BY <2>1, <2>5 DEF RootsFollow
  <2> QED  BY <1>4, <1>11, <2>1, <2>3, <2>5, <2>6, <2>7
<1>17. ASSUME client = "subscribing", wire # <<>>
       PROVE  /\ wire' # <<>> /\ asked' = "none" /\ AnswerFits(G, wire[1])' /\ wire'[1] = wire[1]
              /\ RootsFollow(G, Now(wire[1].epoch)', wire[1].seq, 1, wire')
              /\ conn'.feed => wire[1].epoch = epoch' /\ wire[1].seq + Len(wire') = seq' + 1
  <2>1. /\ asked = "none" /\ AnswerFits(H, wire[1])
        /\ RootsFollow(H, Now(wire[1].epoch), wire[1].seq, 1, wire)
        /\ conn.feed => wire[1].epoch = epoch /\ wire[1].seq + Len(wire) = seq + 1
    BY <1>17 DEF FeedUser
  <2>2. PICK a : a = wire[1]  OBVIOUS
  <2>3. Len(wire) >= 1 /\ wire[1] \in Frames
    <3>1. wire \in Seq(Frames)  BY DEF FeedTypeOK
    <3> QED  BY <1>17, <3>1
  <2>4. a \in Subscriptions  BY <2>1, <2>2, <2>3, AnswerTyped DEF AnswerFits
  <2>5. a.seq \in Nat /\ a.epoch \in Nat /\ a.gap \in BOOLEAN /\ a.events \in Seq(KeptFrames)  BY <2>4 DEF Subscriptions
  <2>6. wire' # <<>> /\ wire'[1] = a
    <3>1. (wire \o RF)[1] = wire[1]  BY <1>2, <1>4, <2>3, ConcatProperties DEF FeedTypeOK
    <3>2. CASE wire' = wire \o RF  BY <1>4, <2>2, <2>3, <3>1, <3>2
    <3>3. CASE wire' = SubSeq(wire \o RF, 1, MaxQueue) /\ MaxQueue < Len(wire \o RF)
      <4>1. MaxQueue \in Nat /\ 1 <= MaxQueue /\ MaxQueue <= Len(wire \o RF)  BY <1>4, <3>3
      <4>2. \A i \in 1..MaxQueue : (wire \o RF)[i] \in Frames  BY <1>4, <4>1, ElementOfSeq
      <4>3. Len(wire') = MaxQueue /\ wire'[1] = (wire \o RF)[1]
        <5>1. /\ Len(SubSeq(wire \o RF, 1, MaxQueue)) = IF 1 <= MaxQueue THEN MaxQueue - 1 + 1 ELSE 0
              /\ \A i \in 1..(MaxQueue - 1 + 1) : SubSeq(wire \o RF, 1, MaxQueue)[i] = (wire \o RF)[1 + i - 1]
          BY <4>1, <4>2, SubSeqProperties
        <5> QED  BY <3>3, <4>1, <5>1
      <4> QED  BY <2>2, <3>1, <4>1, <4>3
    <3> QED  BY <1>7, <3>2, <3>3
  <2>7. asked' = "none" /\ follow' = follow /\ \A e : Now(e)' <=> Now(e)  BY <1>6, <2>1 DEF clientVars, Now
  <2>8. conn.feed => a.seq + Len(wire) = seq + 1  BY <2>1, <2>2, Zenon
  <2>9. /\ RootsFollow(G, Now(a.epoch), a.seq, 1, wire')
        /\ conn'.feed => a.seq + Len(wire') = seq' + 1
    <3>1. RootsFollow(H, Now(a.epoch), a.seq, 1, wire)  BY <2>1, <2>2
    <3>2. 1 \in Nat /\ 1 <= Len(wire)  BY <1>4, <2>3
    <3> QED  BY <1>15, <2>5, <2>8, <3>1, <3>2
  <2>10. RootsFollow(G, Now(a.epoch)', a.seq, 1, wire')  BY <2>7, <2>9 DEF RootsFollow
  <2>11. conn'.feed => a.epoch = epoch'  BY <1>4, <1>11, <2>1, <2>2
  <2>12. AnswerFits(G, a)'
    <3>1. AnswerFits(H, a)  BY <2>1, <2>2
    <3>2. a.kind = "subscribed" /\ a.epoch <= epoch' /\ (Now(a.epoch)' => a.seq <= seq')
      <4>1. a.kind = "subscribed" /\ a.epoch <= epoch'  BY <1>4, <3>1 DEF AnswerFits
      <4>2. ASSUME Now(a.epoch)' PROVE a.seq <= seq'
        <5>1. a.seq <= seq  BY <2>7, <3>1, <4>2 DEF AnswerFits
        <5>2. seq \in Nat /\ Len(F) \in Nat /\ seq' = seq + Len(F)  BY <1>4
        <5> QED  BY <2>5, <5>1, <5>2
      <4> QED  BY <4>1, <4>2
    <3>3. ASSUME ~a.gap, follow'.epoch # 0
          PROVE  /\ a.epoch = follow'.epoch /\ a.seq = follow'.seq + Len(a.events)
                 /\ FramesFollow(G, Now(a.epoch)', follow'.seq, a.events)
      <4>1. /\ a.epoch = follow.epoch /\ a.seq = follow.seq + Len(a.events)
            /\ FramesFollow(H, Now(a.epoch), follow.seq, a.events)
        BY <2>7, <3>1, <3>3 DEF AnswerFits
      <4>2. follow.seq \in Nat  BY DEF FeedTypeOK
      <4>3. FramesFollow(G, Now(a.epoch), follow.seq, a.events)  BY <4>1, <4>2, FollowGrows DEF G
      <4> QED  BY <2>7, <4>1, <4>3 DEF FramesFollow
    <3> QED  BY <3>2, <3>3 DEF AnswerFits
  <2> QED  BY <2>2, <2>6, <2>7, <2>9, <2>10, <2>11, <2>12
<1>18. client' = "subscribing" =>
         \/ wire' = <<>> /\ ~conn'.feed
         \/ /\ wire' # <<>> /\ asked' = "none" /\ AnswerFits(G, wire[1])'
            /\ RootsFollow(G, Now(wire[1].epoch)', wire'[1].seq, 1, wire')
            /\ conn'.feed => wire'[1].epoch = epoch' /\ wire'[1].seq + Len(wire') = seq' + 1
  <2> SUFFICES ASSUME client = "subscribing"
               PROVE  \/ wire' = <<>> /\ ~conn'.feed
                      \/ /\ wire' # <<>> /\ asked' = "none" /\ AnswerFits(G, wire[1])'
                         /\ RootsFollow(G, Now(wire[1].epoch)', wire'[1].seq, 1, wire')
                         /\ conn'.feed => wire'[1].epoch = epoch' /\ wire'[1].seq + Len(wire') = seq' + 1
    BY <1>6 DEF clientVars
  <2>1. CASE wire = <<>>
    <3>1. ~conn.feed /\ Len(wire) <= 1  BY <2>1 DEF FeedUser
    <3> QED  BY <1>10, <2>1, <3>1
  <2>2. CASE wire # <<>>  BY <1>17, <2>2
  <2> QED  BY <2>1, <2>2
<1>19. /\ \A k \in Slots : ~reads'[k].mine
       /\ asked' \notin {"watch", "read"} /\ client' \notin {"attaching", "reading"}
  BY <1>6 DEF clientVars, FeedUser
<1> QED  BY <1>11, <1>12, <1>13, <1>14, <1>16, <1>18, <1>19 DEF FeedUser, G

\* Frames that are no part of the feed, for one who looks at the session.
LEMMA ViewWrites ==
  ASSUME FeedAssumption, FeedFacts, NEW X \in Seq(Frames), Writes(X),
         \A i \in DOMAIN X : X[i].kind \notin {"subscribed", "root_output"},
         \A i \in DOMAIN wire : wire[i].kind \notin {"subscribed", "root_output"}
  PROVE  /\ conn' = conn \/ conn' = NoConn
         /\ \A i \in DOMAIN wire' : wire'[i].kind \notin {"subscribed", "root_output"}
<1>5. \/ conn' = conn /\ wire' = wire \o X
      \/ conn' = NoConn /\ wire' = SubSeq(wire \o X, 1, MaxQueue) /\ MaxQueue < Len(wire \o X)
  BY WritesWhole
<1>6. wire \in Seq(Frames) /\ MaxQueue \in Nat /\ Len(wire) \in Nat /\ Len(X) \in Nat  BY DEF FeedFacts, FeedAssumption
<1>7. wire \o X \in Seq(Frames) /\ Len(wire \o X) = Len(wire) + Len(X)
      /\ \A i \in 1..Len(wire) + Len(X) : (wire \o X)[i] = IF i <= Len(wire) THEN wire[i] ELSE X[i - Len(wire)]
  BY <1>6, ConcatProperties
<1>8. \A i \in 1..Len(wire) + Len(X) : (wire \o X)[i].kind \notin {"subscribed", "root_output"}
  <2> TAKE i \in 1..Len(wire) + Len(X)
  <2>1. CASE i <= Len(wire)
    <3>1. i \in DOMAIN wire /\ (wire \o X)[i] = wire[i]  BY <1>6, <1>7, <2>1
    <3> QED  BY <3>1
  <2>2. CASE i > Len(wire)
    <3>1. i - Len(wire) \in DOMAIN X /\ (wire \o X)[i] = X[i - Len(wire)]  BY <1>6, <1>7, <2>2
    <3> QED  BY <3>1
  <2> QED  BY <1>6, <2>1, <2>2
<1>9. \A i \in DOMAIN wire' : wire'[i].kind \notin {"subscribed", "root_output"}
  <2>1. CASE wire' = wire \o X
    <3>1. DOMAIN wire' = 1..Len(wire) + Len(X)  BY <1>7, <2>1
    <3> QED  BY <1>8, <2>1, <3>1
  <2>2. CASE wire' = SubSeq(wire \o X, 1, MaxQueue) /\ MaxQueue < Len(wire \o X)
    <3>1. \A i \in 1..MaxQueue : i \in 1..Len(wire) + Len(X) /\ (wire \o X)[i] \in Frames
      <4>1. \A i \in 1..MaxQueue : i \in 1..Len(wire \o X)  BY <1>6, <1>7, <2>2
      <4> QED  BY <1>7, <4>1, ElementOfSeq
    <3>2. wire' \in Seq(Frames) /\ Len(wire') = MaxQueue /\ \A i \in 1..MaxQueue : wire'[i] = (wire \o X)[i]
      <4>1. /\ SubSeq(wire \o X, 1, MaxQueue) \in Seq(Frames)
            /\ Len(SubSeq(wire \o X, 1, MaxQueue)) = IF 1 <= MaxQueue THEN MaxQueue - 1 + 1 ELSE 0
            /\ \A i \in 1..(MaxQueue - 1 + 1) : SubSeq(wire \o X, 1, MaxQueue)[i] = (wire \o X)[1 + i - 1]
        BY <1>6, <3>1, SubSeqProperties
      <4> QED  BY <1>6, <2>2, <4>1
    <3>3. DOMAIN wire' = 1..MaxQueue  BY <3>2
    <3> QED  BY <1>8, <3>1, <3>2, <3>3
  <2> QED  BY <1>5, <2>1, <2>2
<1> QED  BY <1>5, <1>9

LEMMA ViewUserHears ==
  ASSUME FeedAssumption, FeedTypeOK, ViewUser, NEW F \in Seq(KeptFrames), NEW X \in Seq(Frames),
         \A i \in DOMAIN X : X[i].kind \notin {"subscribed", "root_output"}, Publication(F, X)
  PROVE  ViewUser'
<1>1. FeedFacts  BY DEF FeedTypeOK, FeedFacts
<1>2. RootFrames(F) = <<>>  BY DEF RootFrames, ViewUser
<1>3. RootFrames(F) \o X = X  BY <1>2, ConcatEmptySeq
<1>4. Writes(X)  BY <1>3 DEF Publication
<1>5. /\ conn' = conn \/ conn' = NoConn
      /\ \A i \in DOMAIN wire' : wire'[i].kind \notin {"subscribed", "root_output"}
  BY <1>1, <1>4, ViewWrites DEF ViewUser
<1>6. ~conn'.feed  BY <1>5 DEF NoConn, ViewUser
<1> QED  BY <1>5, <1>6 DEF ViewUser, Publication, clientVars

LEMMA PublicationFits ==
  ASSUME FeedAssumption, FeedTypeOK, up, NEW H \in Seq(Payloads), FeedFits(H), NEW P \in Seq(Payloads),
         turn' \in Nat, ToldBy(P, turn'), NEW X \in Seq(Frames), ~conn.watching => X = <<>>,
         \A i \in DOMAIN X : X[i].kind \notin {"subscribed", "root_output"}, Publication(Published(P), X)
  PROVE  /\ seq' \in Nat /\ ring' \in Seq(KeptFrames) /\ conn' \in Connections /\ wire' \in Seq(Frames)
         /\ (\E G \in Seq(Payloads) : FeedFits(G))'
<1>1. FeedFacts /\ ring \in Seq(KeptFrames) /\ turn \in Nat  BY DEF FeedTypeOK, FeedFacts
<1>2. PICK F \in Seq(KeptFrames) : F = Published(P)  BY <1>1, PublishedFrames
<1>3. PICK D \in Seq(Payloads) : D = (IF active THEN P ELSE <<>>)
  <2>1. (IF active THEN P ELSE <<>>) \in Seq(Payloads)  OBVIOUS
  <2> QED  BY <2>1
<1>4. Len(F) = Len(D) /\ \A i \in DOMAIN F : F[i].seq = seq + i /\ F[i].payload = D[i]
  <2>1. CASE active  BY <1>1, <1>2, <1>3, <2>1, PublishedFrames
  <2>2. CASE ~active
    <3>1. F = <<>> /\ D = <<>>  BY <1>2, <1>3, <2>2 DEF Published
    <3> QED  BY <3>1
  <2> QED  BY <2>1, <2>2
<1>5. Publication(F, X)  BY <1>2
<1>6. seq' = seq + Len(F) /\ ring' = Kept(ring \o F) /\ Len(F) \in Nat /\ UNCHANGED <<up, epoch, active, reads, asked, clientVars>>
  BY <1>5 DEF Publication, Publishes
<1>7. RingKeeps(H, seq, ring) /\ Len(H) = seq /\ seq \in Nat /\ seq' \in Nat  BY <1>1, <1>6 DEF FeedFits, RingKeeps, FeedFacts
<1>8. ring' \in Seq(KeptFrames) /\ RingKeeps(H \o D, seq', ring')
  <2>1. Kept(ring \o F) \in Seq(KeptFrames) /\ RingKeeps(H \o D, seq + Len(D), Kept(ring \o F))
    <3>1. seq \in Nat /\ ring \in Seq(KeptFrames) /\ RingKeeps(H, seq, ring)  BY <1>1, <1>7
    <3>2. Len(F) = Len(D) /\ \A i \in DOMAIN F : F[i].seq = seq + i /\ F[i].payload = D[i]  BY <1>4
    <3> QED  BY <3>1, <3>2, RingGrows, Zenon
  <2>2. seq' = seq + Len(D)  BY <1>4, <1>6
  <2> QED  BY <1>6, <2>1, <2>2
<1>9. conn' \in Connections /\ wire' \in Seq(Frames) /\ (conn' = conn \/ conn' = NoConn)
  <2>1. RootFrames(F) \in Seq(Frames)  BY <1>1, RootFramesTyped
  <2>2. RootFrames(F) \o X \in Seq(Frames)  BY <2>1, ConcatProperties
  <2>3. Writes(RootFrames(F) \o X)  BY <1>5 DEF Publication
  <2> QED  BY <1>1, <2>2, <2>3, WritesWhole
<1>10. TurnIsTold(H \o D, turn')
  <2>1. CASE active
    <3>1. D = P  BY <1>3, <2>1
    <3>2. \/ turn' = turn /\ (\A i \in DOMAIN D : ~IsTurn(D[i]))
          \/ Len(D) > 0 /\ IsTurn(D[Len(D)]) /\ (D[Len(D)].type = "turn_start" => D[Len(D)].turn = turn')
      BY <3>1 DEF ToldBy
    <3>3. TurnIsTold(H, turn)  BY DEF FeedFits
    <3> QED  BY <1>1, <3>2, <3>3, TurnGrows
  <2>2. CASE ~active
    <3>1. H = <<>> /\ D = <<>>
      <4>1. Len(H) = 0  BY <1>7, <2>2 DEF FeedFits
      <4> QED  BY <1>3, <2>2, <4>1, EmptySeq
    <3>2. H \o D = <<>>  BY <3>1
    <3> QED  BY <3>2 DEF TurnIsTold
  <2> QED  BY <2>1, <2>2
<1>11. ~active' => seq' = 0
  <2> SUFFICES ASSUME ~active PROVE seq' = 0  BY <1>6
  <2>1. Len(F) = 0 /\ seq = 0
    <3>1. F = <<>>  BY <1>2 DEF Published
    <3> QED  BY <3>1 DEF FeedFits
  <2> QED  BY <1>6, <2>1
<1>12. follow' = follow /\ client' = client /\ wants' = wants /\ \A e : Now(e)' <=> Now(e)  BY <1>6 DEF clientVars, Now
<1>13. ~follow'.torn /\ FollowFits(H \o D)'
  <2>1. FollowFits(H) /\ ~follow.torn /\ follow.seq \in Nat  BY DEF FeedFits, FeedTypeOK
  <2>2. follow'.epoch <= epoch'  BY <1>6, <1>12, <2>1 DEF FollowFits
  <2>3. ASSUME Now(follow.epoch) PROVE follow.seq <= seq' /\ Believes(H \o D, follow.seq, follow.open)
    <3>1. follow.seq <= seq /\ Believes(H, follow.seq, follow.open)  BY <2>1, <2>3 DEF FollowFits
    <3>2. follow.seq <= seq'  BY <1>6, <1>7, <2>1, <3>1
    <3> QED  BY <1>7, <2>1, <3>1, <3>2, BelievesGrows
  <2> QED  BY <1>12, <2>1, <2>2, <2>3 DEF FollowFits
<1>14. (conn'.open => up') /\ (~conn'.open => conn' = NoConn)  BY <1>6, <1>9 DEF FeedFits, NoConn
<1>15. client' \notin Online => wire' = <<>> /\ conn' = NoConn /\ asked' = "none"
  <2> SUFFICES ASSUME client \notin Online PROVE wire' = <<>> /\ conn' = NoConn /\ asked' = "none"  BY <1>12
  <2>1. wire = <<>> /\ conn = NoConn /\ asked = "none"  BY DEF FeedFits
  <2>2. X = <<>> /\ RootFrames(F) = <<>>  BY <2>1 DEF NoConn, RootFrames
  <2>3. RootFrames(F) \o X = <<>>  BY <2>2
  <2>4. Writes(<<>>)  BY <1>5, <2>3 DEF Publication
  <2>5. Fits(<<>>) /\ wire \o <<>> = <<>>  BY <2>1 DEF Fits, FeedAssumption
  <2> QED  BY <1>6, <2>1, <2>4, <2>5 DEF Writes
<1>16. IF wants' = "feed" THEN FeedUser(H \o D)' ELSE ViewUser'
  <2>1. CASE wants = "feed"
    <3>1. FeedUser(H) /\ FollowFits(H) /\ X = <<>>  BY <2>1 DEF FeedFits, FeedUser
    <3> QED  BY <1>4, <1>5, <1>7, <1>12, <2>1, <3>1, FeedUserHears
  <2>2. CASE wants # "feed"
    <3>1. ViewUser  BY <2>2 DEF FeedFits
    <3> QED  BY <1>5, <1>12, <2>2, <3>1, ViewUserHears
  <2> QED  BY <2>1, <2>2
<1>17. H \o D \in Seq(Payloads)  BY ConcatProperties
<1>18. FeedFits(H \o D)'  BY <1>8, <1>10, <1>11, <1>13, <1>14, <1>15, <1>16 DEF FeedFits
<1> QED  BY <1>7, <1>8, <1>9, <1>17, <1>18

-----------------------------------------------------------------------------
(* Each step preserves the invariant. *)

\* A step beside the feed and its user.
Beside ==
  /\ UNCHANGED <<up, epoch, turn, active, seq, ring, conn, asked, wire, client, wants, follow>>
  /\ \A k \in Slots : reads'[k].mine => reads[k].mine

LEMMA BesideFits ==
  ASSUME NEW H \in Seq(Payloads), FeedFits(H), Beside
  PROVE  FeedFits(H)'
<1>1. ~follow'.torn /\ FollowFits(H)'  BY DEF Beside, FeedFits, FollowFits, Now
<1>2. RingKeeps(H, seq', ring') /\ TurnIsTold(H, turn') /\ (~active' => seq' = 0)  BY DEF Beside, FeedFits
<1>3. /\ conn'.open => up'
      /\ ~conn'.open => conn' = NoConn
      /\ client' \notin Online => wire' = <<>> /\ conn' = NoConn /\ asked' = "none"
  BY DEF Beside, FeedFits
<1>4. ASSUME wants = "feed" PROVE FeedUser(H)'
  <2>1. FeedUser(H)  BY <1>4 DEF FeedFits
  <2>2. \A e : Now(e)' <=> Now(e)  BY DEF Beside, Now
  <2>3. \A n, d : /\ RootsFollow(H, Now(follow.epoch), n, d, wire) => RootsFollow(H, Now(follow.epoch)', n, d, wire')
                  /\ RootsFollow(H, Now(wire[1].epoch), n, d, wire) => RootsFollow(H, Now(wire[1].epoch)', n, d, wire')
    BY <2>2 DEF Beside, RootsFollow
  <2>4. AnswerFits(H, wire[1]) => AnswerFits(H, wire[1])'  BY <2>2 DEF Beside, AnswerFits, FramesFollow
  <2> QED  BY <2>1, <2>3, <2>4 DEF Beside, FeedUser
<1>5. ASSUME wants # "feed" PROVE ViewUser'
  BY <1>5 DEF Beside, FeedFits, ViewUser
<1>6. IF wants' = "feed" THEN FeedUser(H)' ELSE ViewUser'
  <2>1. wants' = wants  BY DEF Beside
  <2> QED  BY <1>4, <1>5, <2>1
<1> QED  BY <1>1, <1>2, <1>3, <1>6 DEF FeedFits

LEMMA SpeaksKeeps ==
  ASSUME FeedAssumption, FeedInv, Speaks \/ WorkerDies \/ LaunchActor
  PROVE  FeedInv'
<1> USE FeedAssumption
<1>1. FeedTypeOK /\ TurnIsOfWorker  BY DEF FeedInv
<1>2. Beside /\ up' = up /\ turn' = turn
  <2> USE DEF Beside, WorkerOnly, serverVars, clientVars
  <2>1. CASE AgentStart  BY <2>1 DEF AgentStart
  <2>2. ASSUME NEW m \in Messages, Say(m) PROVE Beside /\ up' = up /\ turn' = turn  BY <2>2 DEF Say
  <2>3. CASE TextEnd  BY <2>3 DEF TextEnd
  <2>4. CASE Commit  BY <2>4 DEF Commit
  <2>5. CASE AgentSettled  BY <2>5 DEF AgentSettled
  <2>6. CASE WorkerDies  BY <2>6 DEF WorkerDies
  <2>7. CASE LaunchActor  BY <2>7 DEF LaunchActor
  <2> QED  BY <2>1, <2>2, <2>3, <2>4, <2>5, <2>6, <2>7 DEF Speaks
<1>3. \A m \in Messages : m \in Nat \ {0} /\ m # 0  BY DEF Messages
<1>4. FeedTypeOK'
  <2>1. /\ Event("agent_start", 0) \in Events /\ Event("agent_settled", 0) \in Events
        /\ \A m \in Messages : Event("text_delta", m) \in Events /\ Event("text_end", m) \in Events /\ Event("message_end", m) \in Events
    BY DEF Event, Events
  <2>2. \A e \in Events : Append(pipe, e) \in Seq(Events)  BY <1>1 DEF FeedTypeOK
  <2> USE DEF FeedTypeOK, WorkerOnly, serverVars, clientVars, Emit
  <2>3. CASE AgentStart  BY <1>1, <2>1, <2>2, <2>3 DEF AgentStart
  <2>4. ASSUME NEW m \in Messages, Say(m) PROVE FeedTypeOK'
    <3>1. said' \in [Messages -> Nat]  BY <1>1, <2>4 DEF Say
    <3> QED  BY <1>1, <2>1, <2>2, <2>4, <3>1 DEF Say
  <2>5. CASE TextEnd
    <3>1. open \in Messages  BY <1>1, <2>5 DEF TextEnd
    <3> QED  BY <1>1, <2>1, <2>2, <2>5, <3>1 DEF TextEnd
  <2>6. CASE Commit
    <3>1. open \in Messages  BY <1>1, <2>6 DEF Commit
    <3> QED  BY <1>1, <2>1, <2>2, <2>6, <3>1 DEF Commit
  <2>7. CASE AgentSettled  BY <1>1, <2>1, <2>2, <2>7 DEF AgentSettled
  <2>8. CASE WorkerDies
    <3>1. troubles' \in Nat  BY <1>1, <2>8 DEF WorkerDies, Spend
    <3>2. worker' = "dead" /\ open' = 0 /\ over' = FALSE
          /\ UNCHANGED <<gen, turns, said, file, pipe, up, epoch, serverVars, reads, conn, asked, wire, clientVars>>
      BY <2>8 DEF WorkerDies
    <3> QED  BY <1>1, <3>1, <3>2
  <2>9. CASE LaunchActor  BY <1>1, <2>9 DEF LaunchActor
  <2> QED  BY <2>3, <2>4, <2>5, <2>6, <2>7, <2>8, <2>9 DEF Speaks
<1>5. TurnIsOfWorker'
  <2> USE <1>1, <1>2 DEF TurnIsOfWorker
  <2>1. CASE AgentStart  BY <2>1 DEF AgentStart, WorkerOnly
  <2>2. ASSUME NEW m \in Messages, Say(m) PROVE TurnIsOfWorker'  BY <2>2 DEF Say, WorkerOnly
  <2>3. CASE TextEnd  BY <2>3 DEF TextEnd, WorkerOnly
  <2>4. CASE Commit  BY <2>4 DEF Commit, WorkerOnly
  <2>5. CASE AgentSettled  BY <2>5 DEF AgentSettled, WorkerOnly
  <2>6. CASE WorkerDies  BY <2>6 DEF WorkerDies
  <2>7. CASE LaunchActor  BY <2>7 DEF LaunchActor
  <2> QED  BY <2>1, <2>2, <2>3, <2>4, <2>5, <2>6, <2>7 DEF Speaks
<1>6. (\E H \in Seq(Payloads) : FeedFits(H))'
  <2>1. PICK H \in Seq(Payloads) : FeedFits(H)  BY DEF FeedInv
  <2>2. FeedFits(H)'  BY <1>2, <2>1, BesideFits
  <2> QED  BY <2>2
<1> QED  BY <1>4, <1>5, <1>6 DEF FeedInv

\* LiveConversation.accept, for the types.
LEMMA RowsAfterTyped ==
  ASSUME FeedTypeOK, NEW e \in Events
  PROVE  RowsAfter(e) \in LiveRows
<1>1. rows \in LiveRows /\ said \in [Messages -> Nat]  BY DEF FeedTypeOK
<1>2. e.type \in {"agent_start", "agent_settled", "text_delta", "text_end", "message_end"}
      /\ (e.type \in {"text_delta", "text_end", "message_end"} => e.message \in Messages)
  BY DEF Events
<1>3. CASE e.type = "text_delta"
  <2>1. RowsAfter(e) = [rows EXCEPT ![e.message].text = @ + 1]  BY <1>3 DEF RowsAfter
  <2>2. rows[e.message] \in RowRecords  BY <1>1, <1>2, <1>3 DEF LiveRows
  <2>3. [rows[e.message] EXCEPT !.text = @ + 1] \in RowRecords  BY <2>2 DEF RowRecords
  <2> QED  BY <1>1, <1>2, <1>3, <2>1, <2>3 DEF LiveRows
<1>4. CASE e.type \in {"text_end", "message_end"}
  <2>1. RowsAfter(e) = [rows EXCEPT ![e.message] = [text |-> said[e.message], done |-> TRUE]]  BY <1>4 DEF RowsAfter
  <2>2. [text |-> said[e.message], done |-> TRUE] \in RowRecords  BY <1>1, <1>2, <1>4 DEF RowRecords
  <2> QED  BY <1>1, <1>2, <1>4, <2>1, <2>2 DEF LiveRows
<1>5. CASE e.type = "agent_settled"
  <2>1. RowsAfter(e) = [m \in Messages |-> [rows[m] EXCEPT !.done = rows[m].text > 0]]  BY <1>5 DEF RowsAfter
  <2>2. \A m \in Messages : [rows[m] EXCEPT !.done = rows[m].text > 0] \in RowRecords
    <3> TAKE m \in Messages
    <3>1. rows[m] \in RowRecords  BY <1>1 DEF LiveRows
    <3>2. (rows[m].text > 0) \in BOOLEAN  BY <3>1 DEF RowRecords
    <3> QED  BY <3>1, <3>2 DEF RowRecords
  <2> QED  BY <2>1, <2>2 DEF LiveRows
<1>6. CASE e.type = "agent_start"  BY <1>1, <1>6 DEF RowsAfter
<1> QED  BY <1>2, <1>3, <1>4, <1>5, <1>6

LEMMA EventKeeps ==
  ASSUME FeedAssumption, FeedInv, OnActorEvent
  PROVE  FeedInv'
<1>1. FeedTypeOK /\ TurnIsOfWorker  BY DEF FeedInv
<1>2. PICK H \in Seq(Payloads) : FeedFits(H)  BY DEF FeedInv
<1>3. pipe \in Seq(Events) /\ pipe # <<>> /\ gen \in Nat \ {0} /\ turn \in Nat /\ up  BY <1>1 DEF FeedTypeOK, OnActorEvent
<1>4. PICK e \in Events : e = Head(pipe)  BY <1>3, HeadTailProperties
<1>5. Tail(pipe) \in Seq(Events)  BY <1>3, HeadTailProperties
<1>6. worker # "off" /\ (turn # 0 => turn = gen)  BY <1>1, <1>3 DEF TurnIsOfWorker
<1>7. Accepted(e) \in Seq(Payloads) /\ TurnAfter(e) \in {0, turn, gen} /\ ToldBy(Accepted(e), TurnAfter(e))
  BY <1>3, <1>6, AcceptedTells
<1>8. /\ pipe' = Tail(pipe) /\ rows' = RowsAfter(e) /\ turn' = TurnAfter(e)
      /\ UNCHANGED <<workerVars, up, epoch, active, reads, asked, clientVars, troubles>>
      /\ Publication(Published(Accepted(e)), ActorFrames(e))
  <2>1. /\ \E frames \in {Published(Accepted(e))} : Publishes(frames) /\ Writes(RootFrames(frames) \o ActorFrames(e))
        /\ pipe' = Tail(pipe) /\ rows' = RowsAfter(e) /\ turn' = TurnAfter(e)
        /\ UNCHANGED <<workerVars, up, epoch, active, reads, asked, clientVars, troubles>>
    BY <1>4 DEF OnActorEvent
  <2> QED  BY <2>1 DEF Publication
<1>9. turn' \in Nat /\ ToldBy(Accepted(e), turn')  BY <1>3, <1>7, <1>8
<1>10. /\ ActorFrames(e) \in Seq(Frames)
       /\ ~conn.watching => ActorFrames(e) = <<>>
       /\ \A i \in DOMAIN ActorFrames(e) : ActorFrames(e)[i].kind \notin {"subscribed", "root_output"}
  BY <1>1, ActorFramesTyped
<1>11. /\ seq' \in Nat /\ ring' \in Seq(KeptFrames) /\ conn' \in Connections /\ wire' \in Seq(Frames)
       /\ (\E G \in Seq(Payloads) : FeedFits(G))'
  BY <1>1, <1>2, <1>3, <1>7, <1>8, <1>9, <1>10, PublicationFits
<1>12. rows' \in LiveRows  BY <1>1, <1>8, RowsAfterTyped
<1>13. FeedTypeOK'  BY <1>1, <1>5, <1>8, <1>9, <1>11, <1>12 DEF FeedTypeOK, workerVars, clientVars
<1>14. TurnIsOfWorker'
  <2>1. turn' # 0 => turn' = gen  BY <1>6, <1>7, <1>8
  <2> QED  BY <1>3, <1>6, <1>8, <2>1 DEF TurnIsOfWorker, workerVars
<1> QED  BY <1>11, <1>13, <1>14 DEF FeedInv

LEMMA ExitKeeps ==
  ASSUME FeedAssumption, FeedInv, OnActorExit
  PROVE  FeedInv'
<1>1. FeedTypeOK /\ TurnIsOfWorker  BY DEF FeedInv
<1>2. PICK H \in Seq(Payloads) : FeedFits(H)  BY DEF FeedInv
<1>3. gen \in Nat \ {0} /\ turn \in Nat /\ up /\ (turn # 0 => turn = gen)  BY <1>1 DEF FeedTypeOK, OnActorExit, TurnIsOfWorker
<1>4. FailSession \in Seq(Payloads) /\ ToldBy(FailSession, 0)  BY <1>3, FailureTells
<1>5. /\ worker' = "off" /\ pipe' = <<>> /\ rows' = NoRows /\ turn' = 0
      /\ UNCHANGED <<gen, turns, said, open, over, file, up, epoch, active, reads, asked, clientVars, troubles>>
      /\ Publication(Published(FailSession), <<>>)
  <2>1. /\ \E frames \in {Published(FailSession)} : Publishes(frames) /\ Writes(RootFrames(frames))
        /\ worker' = "off" /\ pipe' = <<>> /\ rows' = NoRows /\ turn' = 0
        /\ UNCHANGED <<gen, turns, said, open, over, file, up, epoch, active, reads, asked, clientVars, troubles>>
    BY DEF OnActorExit
  <2>2. Published(FailSession) \in Seq(KeptFrames)
    <3>1. FeedFacts  BY <1>1 DEF FeedTypeOK, FeedFacts
    <3> QED  BY <1>4, <3>1, PublishedFrames
  <2>3. RootFrames(Published(FailSession)) \in Seq(Frames)
    <3>1. FeedFacts  BY <1>1 DEF FeedTypeOK, FeedFacts
    <3> QED  BY <2>2, <3>1, RootFramesTyped
  <2>4. RootFrames(Published(FailSession)) \o <<>> = RootFrames(Published(FailSession))  BY <2>3, ConcatEmptySeq
  <2> QED  BY <2>1, <2>4 DEF Publication
<1>6. turn' \in Nat /\ ToldBy(FailSession, turn')  BY <1>4, <1>5
<1>7. <<>> \in Seq(Frames)  OBVIOUS
<1>8. PICK X : X = <<>>  OBVIOUS
<1>9. X \in Seq(Frames)  BY <1>7, <1>8
<1>10. \A i \in DOMAIN X : X[i].kind \notin {"subscribed", "root_output"}  BY <1>8
<1>11. Publication(Published(FailSession), X) /\ (~conn.watching => X = <<>>)  BY <1>5, <1>8
<1>12. /\ seq' \in Nat /\ ring' \in Seq(KeptFrames) /\ conn' \in Connections /\ wire' \in Seq(Frames)
      /\ (\E G \in Seq(Payloads) : FeedFits(G))'
  BY <1>1, <1>2, <1>3, <1>4, <1>6, <1>9, <1>10, <1>11, PublicationFits
<1>13. NoRows \in LiveRows  BY DEF NoRows, NoRow, LiveRows, RowRecords
<1>14. FeedTypeOK'  BY <1>1, <1>5, <1>6, <1>12, <1>13 DEF FeedTypeOK, clientVars
<1>15. TurnIsOfWorker'  BY <1>3, <1>5 DEF TurnIsOfWorker
<1> QED  BY <1>12, <1>14, <1>15 DEF FeedInv

\* The supervisor's feed is not the one that its users know.
LEMMA OtherFeedFits ==
  ASSUME FeedTypeOK, NEW H, FeedFits(H), NEW G, epoch' \in Nat, epoch <= epoch', conn' = NoConn,
         \A e \in Nat : e <= epoch => ~Now(e)', UNCHANGED <<asked, wire, client, wants, follow>>,
         \A k \in Slots : reads'[k].mine => reads[k].mine
  PROVE  /\ ~follow'.torn /\ FollowFits(G)'
         /\ (conn'.open => up') /\ (~conn'.open => conn' = NoConn)
         /\ client' \notin Online => wire' = <<>> /\ conn' = NoConn /\ asked' = "none"
         /\ IF wants' = "feed" THEN FeedUser(G)' ELSE ViewUser'
<1>1. epoch \in Nat /\ follow \in Followers  BY DEF FeedTypeOK, Followers
<1>2. ~follow'.torn /\ FollowFits(G)'
  <2>1. ~follow.torn /\ follow.epoch <= epoch /\ follow.epoch \in Nat  BY <1>1 DEF FeedFits, FollowFits, Followers
  <2>2. ~Now(follow.epoch)' /\ follow.epoch <= epoch'  BY <1>1, <2>1
  <2> QED  BY <2>1, <2>2 DEF FollowFits, Now
<1>3. ~conn'.open /\ ~conn'.feed /\ ~conn'.watching  BY DEF NoConn
<1>4. client' \notin Online => wire' = <<>> /\ conn' = NoConn /\ asked' = "none"  BY DEF FeedFits
<1>5. ASSUME wants = "feed" PROVE FeedUser(G)'
  <2>1. FeedUser(H)  BY <1>5 DEF FeedFits
  <2>2. client' = "live" => RootsFollow(G, Now(follow.epoch)', follow.seq, 0, wire')
    <3> SUFFICES ASSUME client = "live" PROVE RootsFollow(G, Now(follow.epoch)', follow.seq, 0, wire)  OBVIOUS
    <3>1. RootsFollow(H, Now(follow.epoch), follow.seq, 0, wire)  BY <2>1 DEF FeedUser
    <3>2. ~Now(follow.epoch)'  BY <1>1 DEF FeedFits, FollowFits, Followers
    <3> QED  BY <3>1, <3>2 DEF RootsFollow
  <2>3. ASSUME client = "subscribing", wire # <<>>
        PROVE  /\ wire' # <<>> /\ asked' = "none" /\ AnswerFits(G, wire[1])'
               /\ RootsFollow(G, Now(wire[1].epoch)', wire'[1].seq, 1, wire')
    <3>1. /\ asked = "none" /\ AnswerFits(H, wire[1])
          /\ RootsFollow(H, Now(wire[1].epoch), wire[1].seq, 1, wire)
      BY <2>1, <2>3 DEF FeedUser
    <3>2. PICK a : a = wire[1]  OBVIOUS
    <3>3. a \in Frames /\ AnswerFits(H, a)
      <4>1. wire \in Seq(Frames) /\ 1 \in DOMAIN wire  BY <2>3 DEF FeedTypeOK
      <4> QED  BY <3>1, <3>2, <4>1
    <3>4. a \in Subscriptions  BY <3>3, AnswerTyped DEF AnswerFits
    <3>5. a.epoch \in Nat /\ a.epoch <= epoch  BY <3>3, <3>4 DEF Subscriptions, AnswerFits
    <3>6. ~Now(a.epoch)' /\ a.epoch <= epoch'  BY <1>1, <3>5
    <3>7. RootsFollow(G, Now(a.epoch)', a.seq, 1, wire')  BY <3>1, <3>2, <3>6 DEF RootsFollow
    <3>8. AnswerFits(G, a)'  BY <3>3, <3>6 DEF AnswerFits, FramesFollow
    <3> QED  BY <2>3, <3>1, <3>2, <3>7, <3>8
  <2>4. client' = "subscribing" =>
          \/ wire' = <<>> /\ ~conn'.feed
          \/ /\ wire' # <<>> /\ asked' = "none" /\ AnswerFits(G, wire[1])'
             /\ RootsFollow(G, Now(wire[1].epoch)', wire'[1].seq, 1, wire')
    BY <1>3, <2>3
  <2> QED  BY <1>3, <2>1, <2>2, <2>4 DEF FeedUser
<1>6. ASSUME wants # "feed" PROVE ViewUser'
  BY <1>3, <1>6 DEF FeedFits, ViewUser
<1> QED  BY <1>2, <1>3, <1>4, <1>5, <1>6

LEMMA EndKeeps ==
  ASSUME FeedAssumption, FeedInv, SupervisorEnds \/ SupervisorStarts
  PROVE  FeedInv'
<1>1. FeedTypeOK /\ TurnIsOfWorker  BY DEF FeedInv
<1>2. PICK H \in Seq(Payloads) : FeedFits(H)  BY DEF FeedInv
<1>3. epoch \in Nat \ {0} /\ troubles \in Nat  BY <1>1 DEF FeedTypeOK
<1>4. NoConn \in Connections /\ NoRows \in LiveRows /\ NoRead \in ReadRecords /\ ~NoRead.mine
  BY DEF NoConn, Connections, NoRows, NoRow, LiveRows, RowRecords, NoRead, ReadRecords
<1>5. CASE SupervisorEnds
  <2>1. /\ up' = FALSE /\ worker' = "off" /\ open' = 0 /\ over' = FALSE /\ pipe' = <<>>
        /\ rows' = NoRows /\ turn' = 0 /\ active' = FALSE /\ seq' = 0 /\ ring' = <<>>
        /\ reads' = [k \in Slots |-> NoRead] /\ conn' = NoConn
        /\ UNCHANGED <<gen, turns, said, file, epoch, asked, wire, client, wants, follow, view>>
    BY <1>5 DEF SupervisorEnds, clientVars
  <2>2. troubles' \in Nat  BY <1>3, <1>5 DEF SupervisorEnds, Spend
  <2>3. reads' \in [Slots -> ReadRecords]  BY <1>4, <2>1
  <2>4. FeedTypeOK'
    <3>1. pipe' \in Seq(Events) /\ ring' \in Seq(KeptFrames)  BY <2>1
    <3>2. conn' \in Connections /\ rows' \in LiveRows /\ epoch' \in Nat \ {0}  BY <1>3, <1>4, <2>1
    <3>3. /\ worker' \in {"off", "idle", "busy", "dead"} /\ gen' \in Nat \ {0} /\ turns' \in Nat
          /\ said' \in [Messages -> Nat] /\ open' \in {0} \cup Messages /\ over' \in BOOLEAN /\ file' \subseteq Messages
      BY <1>1, <2>1 DEF FeedTypeOK
    <3>4. up' \in BOOLEAN /\ turn' \in Nat /\ active' \in BOOLEAN /\ seq' \in Nat  BY <2>1
    <3>5. /\ asked' \in {"none", "register", "subscribe", "watch", "read"} /\ wire' \in Seq(Frames)
          /\ client' \in {"offline", "connecting", "stopped", "rejected"} \cup Online
          /\ follow' \in [epoch : Nat, seq : Nat, open : Nat, torn : BOOLEAN] /\ wants' \in {"feed", "view"}
          /\ view' \in [rows : LiveRows, gen : Nat]
      BY <1>1, <2>1 DEF FeedTypeOK
    <3> QED  BY <2>2, <2>3, <3>1, <3>2, <3>3, <3>4, <3>5 DEF FeedTypeOK
  <2>5. TurnIsOfWorker'  BY <2>1 DEF TurnIsOfWorker
  <2>6. \A e \in Nat : e <= epoch => ~Now(e)'  BY <2>1 DEF Now
  <2>7. \A k \in Slots : reads'[k].mine => reads[k].mine  BY <1>4, <2>1
  <2>8. epoch' \in Nat /\ epoch <= epoch'  BY <1>3, <2>1
  <2>9. /\ ~follow'.torn /\ FollowFits(<<>>)'
        /\ (conn'.open => up') /\ (~conn'.open => conn' = NoConn)
        /\ client' \notin Online => wire' = <<>> /\ conn' = NoConn /\ asked' = "none"
        /\ IF wants' = "feed" THEN FeedUser(<<>>)' ELSE ViewUser'
    BY <1>1, <1>2, <2>1, <2>6, <2>7, <2>8, OtherFeedFits
  <2>10. RingKeeps(<<>>, seq', ring') /\ TurnIsTold(<<>>, turn') /\ (~active' => seq' = 0)
    BY <2>1 DEF RingKeeps, TurnIsTold
  <2>11. FeedFits(<<>>)'  BY <2>9, <2>10 DEF FeedFits
  <2>12. <<>> \in Seq(Payloads)  OBVIOUS
  <2>13. (\E G \in Seq(Payloads) : FeedFits(G))'  BY <2>11, <2>12
  <2> QED  BY <2>4, <2>5, <2>13 DEF FeedInv
<1>6. CASE SupervisorStarts
  <2>1. /\ ~up /\ up' = TRUE /\ epoch' = epoch + 1
        /\ UNCHANGED <<workerVars, pipe, serverVars, reads, conn, asked, wire, client, wants, follow, view, troubles>>
    BY <1>6 DEF SupervisorStarts, clientVars
  <2>2. FeedTypeOK'  BY <1>1, <2>1 DEF FeedTypeOK, workerVars, serverVars
  <2>3. TurnIsOfWorker'  BY <1>1, <2>1 DEF TurnIsOfWorker, workerVars, serverVars
  <2>4. \A e \in Nat : e <= epoch => ~Now(e)'  BY <1>3, <2>1 DEF Now
  <2>5. epoch' \in Nat /\ epoch <= epoch'  BY <1>3, <2>1
  <2>6. conn' = NoConn  BY <1>2, <2>1 DEF FeedFits
  <2>7. /\ ~follow'.torn /\ FollowFits(H)'
        /\ (conn'.open => up') /\ (~conn'.open => conn' = NoConn)
        /\ client' \notin Online => wire' = <<>> /\ conn' = NoConn /\ asked' = "none"
        /\ IF wants' = "feed" THEN FeedUser(H)' ELSE ViewUser'
    BY <1>1, <1>2, <2>1, <2>4, <2>5, <2>6, OtherFeedFits
  <2>8. RingKeeps(H, seq', ring') /\ TurnIsTold(H, turn') /\ (~active' => seq' = 0)
    BY <1>2, <2>1 DEF FeedFits, serverVars
  <2>9. FeedFits(H)'  BY <2>7, <2>8 DEF FeedFits
  <2> QED  BY <2>2, <2>3, <2>9 DEF FeedInv
<1> QED  BY <1>5, <1>6

-----------------------------------------------------------------------------
(* Requests, and the client. *)

\* What a step of the client or of a request leaves alone, and what remains to be shown of it.
Served ==
  /\ UNCHANGED <<worker, gen, turns, said, open, over, file, pipe, up, epoch, turn, seq, ring, wants>>
  /\ troubles' \in {troubles, troubles + 1}

LEMMA ServedKeeps ==
  ASSUME FeedInv, Served,
         rows' \in LiveRows, active' \in BOOLEAN, active => active', reads' \in [Slots -> ReadRecords], conn' \in Connections,
         asked' \in {"none", "register", "subscribe", "watch", "read"}, wire' \in Seq(Frames),
         client' \in {"offline", "connecting", "stopped", "rejected"} \cup Online, view' \in [rows : LiveRows, gen : Nat],
         follow' \in Followers, ~follow'.torn,
         conn'.open => up', ~conn'.open => conn' = NoConn,
         client' \notin Online => wire' = <<>> /\ conn' = NoConn /\ asked' = "none",
         ASSUME NEW H \in Seq(Payloads), FeedFits(H)
         PROVE  FollowFits(H)' /\ IF wants' = "feed" THEN FeedUser(H)' ELSE ViewUser'
  PROVE  FeedInv'
<1>1. FeedTypeOK /\ TurnIsOfWorker  BY DEF FeedInv
<1>2. PICK H \in Seq(Payloads) : FeedFits(H)  BY DEF FeedInv
<1>3. FeedTypeOK'  BY <1>1 DEF FeedTypeOK, Served, Followers
<1>4. TurnIsOfWorker'  BY <1>1 DEF TurnIsOfWorker, Served
<1>5. RingKeeps(H, seq', ring') /\ TurnIsTold(H, turn') /\ (~active' => seq' = 0)
  BY <1>1, <1>2 DEF FeedFits, Served, FeedTypeOK
<1>6. FollowFits(H)' /\ IF wants' = "feed" THEN FeedUser(H)' ELSE ViewUser'  BY <1>2
<1>7. FeedFits(H)'  BY <1>5, <1>6 DEF FeedFits
<1> QED  BY <1>3, <1>4, <1>7 DEF FeedInv

LEMMA HandleKeeps ==
  ASSUME FeedAssumption, FeedInv, HandleRegister \/ HandleWatch
  PROVE  FeedInv'
<1>1. FeedTypeOK  BY DEF FeedInv
<1>2. Served /\ up /\ conn.open /\ asked' = "none" /\ UNCHANGED <<rows, active, reads, client, follow, view>>
  BY DEF HandleRegister, HandleWatch, Handles, Other, serverVars, workerVars, Served
<1>3. PICK f \in Frames : /\ wire' = Append(wire, f) /\ f.kind \in {"registered", "watching"}
                          /\ (HandleRegister => f.kind = "registered")
  <2>1. [kind |-> "registered"] \in Frames /\ [kind |-> "watching"] \in Frames  BY DEF Frames, ViewFrames
  <2>2. CASE HandleRegister  BY <2>1, <2>2 DEF HandleRegister
  <2>3. CASE HandleWatch /\ ~HandleRegister  BY <2>1, <2>3 DEF HandleWatch
  <2> QED  BY <2>2, <2>3
<1>4. conn' \in Connections /\ conn'.open /\ conn'.feed = conn.feed /\ (HandleRegister => conn'.watching = conn.watching)
  BY <1>1, <1>2 DEF FeedTypeOK, Connections, HandleRegister, HandleWatch
<1>5. client \in Online
  <2>1. PICK H \in Seq(Payloads) : FeedFits(H)  BY DEF FeedInv
  <2>2. conn # NoConn  BY <1>2 DEF NoConn
  <2> QED  BY <2>1, <2>2 DEF FeedFits
<1>6. wire' \in Seq(Frames)  BY <1>1, <1>3 DEF FeedTypeOK
<1>7. ASSUME NEW H \in Seq(Payloads), FeedFits(H)
      PROVE  FollowFits(H)' /\ IF wants' = "feed" THEN FeedUser(H)' ELSE ViewUser'
  <2>1. FollowFits(H)'  BY <1>2, <1>7 DEF FeedFits, FollowFits, Now, Served
  <2>2. ASSUME wants = "feed" PROVE FeedUser(H)'
    <3>1. FeedUser(H)  BY <1>7, <2>2 DEF FeedFits
    <3>2. asked = "register" /\ HandleRegister  BY <3>1 DEF HandleRegister, HandleWatch, Handles, FeedUser
    <3>3. client = "registering" /\ wire = <<>> /\ ~conn.feed  BY <3>1, <3>2 DEF FeedUser
    <3>4. Len(wire') = 1 /\ wire'[1] = f  BY <1>3, <3>3
    <3> QED  BY <1>2, <1>3, <1>4, <3>1, <3>2, <3>3, <3>4 DEF FeedUser
  <2>3. ASSUME wants # "feed" PROVE ViewUser'
    <3>1. ViewUser  BY <1>7, <2>3 DEF FeedFits
    <3>2. \A i \in DOMAIN wire' : wire'[i].kind \notin {"subscribed", "root_output"}
      <4>1. wire \in Seq(Frames)  BY <1>1 DEF FeedTypeOK
      <4>2. DOMAIN wire' = 1..(Len(wire) + 1) /\ wire'[Len(wire) + 1] = f /\ \A i \in 1..Len(wire) : wire'[i] = wire[i]
        BY <1>3, <4>1
      <4>3. \A i \in 1..Len(wire) : wire[i].kind \notin {"subscribed", "root_output"}  BY <3>1, <4>1 DEF ViewUser
      <4>4. \A i \in 1..(Len(wire) + 1) : i \in 1..Len(wire) \/ i = Len(wire) + 1  BY <4>1
      <4> QED  BY <1>3, <4>2, <4>3, <4>4
    <3> QED  BY <1>2, <1>4, <3>1, <3>2 DEF ViewUser
  <2>4. wants' = wants  BY <1>2 DEF Served
  <2> QED  BY <2>1, <2>2, <2>3, <2>4
<1>8. /\ rows' \in LiveRows /\ active' \in BOOLEAN /\ (active => active') /\ reads' \in [Slots -> ReadRecords]
      /\ asked' \in {"none", "register", "subscribe", "watch", "read"}
      /\ client' \in {"offline", "connecting", "stopped", "rejected"} \cup Online /\ view' \in [rows : LiveRows, gen : Nat]
      /\ follow' \in Followers
  BY <1>1, <1>2 DEF FeedTypeOK, Followers
<1>9. ~follow'.torn /\ up'
  <2>1. PICK H \in Seq(Payloads) : FeedFits(H)  BY DEF FeedInv
  <2> QED  BY <1>2, <2>1 DEF FeedFits, Served
<1> QED  BY <1>2, <1>4, <1>5, <1>6, <1>7, <1>8, <1>9, ServedKeeps

LEMMA SubscribeKeeps ==
  ASSUME FeedAssumption, FeedInv, HandleSubscribe
  PROVE  FeedInv'
<1>1. FeedTypeOK  BY DEF FeedInv
<1>2. /\ Served /\ up /\ conn.open /\ asked = "subscribe" /\ asked' = "none" /\ active' = TRUE
      /\ UNCHANGED <<rows, ring, reads, client, follow, view>>
      /\ conn' = [conn EXCEPT !.feed = TRUE]
  BY DEF HandleSubscribe, Handles, Other, workerVars, Served
<1>3. PICK a : a = [kind |-> "subscribed", epoch |-> epoch, seq |-> seq, gap |-> Gap,
                    events |-> IF Gap \/ follow.epoch = 0 THEN <<>> ELSE Missed(follow.seq)]
  OBVIOUS
<1>4. wire' = Append(wire, a)  BY <1>3 DEF HandleSubscribe
<1>5. epoch \in Nat \ {0} /\ seq \in Nat /\ ring \in Seq(KeptFrames) /\ follow \in Followers /\ up \in BOOLEAN
  BY <1>1 DEF FeedTypeOK, Followers
<1>6. ASSUME NEW H \in Seq(Payloads), FeedFits(H), ~Gap, follow.epoch # 0
      PROVE  /\ follow.epoch = epoch /\ follow.seq \in Nat /\ follow.seq <= seq
             /\ Missed(follow.seq) \in Seq(KeptFrames) /\ Len(Missed(follow.seq)) = seq - follow.seq
             /\ FramesFollow(H, TRUE, follow.seq, Missed(follow.seq))
  <2>1. follow.epoch = epoch /\ ~(follow.seq > seq) /\ ~Overrun(follow.seq)  BY <1>6 DEF Gap
  <2>2. follow.seq \in Nat  BY <1>5 DEF Followers
  <2>3. follow.seq <= seq  BY <1>5, <2>1, <2>2
  <2>4. RingKeeps(H, seq, ring)  BY <1>6 DEF FeedFits
  <2> QED  BY <1>5, <2>1, <2>2, <2>3, <2>4, MissedFollows
<1>7. PICK H0 \in Seq(Payloads) : FeedFits(H0)  BY DEF FeedInv
<1>8. a \in Subscriptions
  <2>1. Gap \in BOOLEAN  BY DEF Gap
  <2>2. (IF Gap \/ follow.epoch = 0 THEN <<>> ELSE Missed(follow.seq)) \in Seq(KeptFrames)
    <3>1. CASE Gap \/ follow.epoch = 0  BY <3>1
    <3>2. CASE ~Gap /\ follow.epoch # 0  BY <1>6, <1>7, <3>2
    <3> QED  BY <3>1, <3>2
  <2> QED  BY <1>3, <1>5, <2>1, <2>2 DEF Subscriptions
<1>9. wire' \in Seq(Frames)  BY <1>1, <1>4, <1>8 DEF FeedTypeOK, Frames
<1>10. conn' \in Connections /\ conn'.open /\ conn'.watching = conn.watching  BY <1>1, <1>2 DEF FeedTypeOK, Connections
<1>11. client \in Online
  <2>1. conn # NoConn  BY <1>2 DEF NoConn
  <2> QED  BY <1>7, <2>1 DEF FeedFits
<1>12. ASSUME NEW H \in Seq(Payloads), FeedFits(H)
       PROVE  FollowFits(H)' /\ IF wants' = "feed" THEN FeedUser(H)' ELSE ViewUser'
  <2>1. FollowFits(H) /\ FollowFits(H)'  BY <1>2, <1>12 DEF FeedFits, FollowFits, Now, Served
  <2>2. wants = "feed" /\ FeedUser(H)  BY <1>2, <1>12 DEF FeedFits, ViewUser
  <2>3. client = "subscribing" /\ wire = <<>> /\ ~conn.watching  BY <1>2, <2>2 DEF FeedUser
  <2>4. Len(wire') = 1 /\ wire'[1] = a /\ wire' # <<>> /\ DOMAIN wire' = 1..1  BY <1>4, <2>3
  <2>5. a.kind = "subscribed" /\ a.epoch = epoch /\ a.seq = seq /\ a.gap = Gap
        /\ a.events = (IF Gap \/ follow.epoch = 0 THEN <<>> ELSE Missed(follow.seq))
    BY <1>3
  <2>6. Now(a.epoch)' <=> TRUE  BY <1>2, <2>5 DEF Now, Served
  <2>7. AnswerFits(H, a)'
    <3>1. a.epoch <= epoch' /\ a.seq <= seq'  BY <1>2, <1>5, <2>5 DEF Served
    <3>2. ASSUME ~a.gap, follow'.epoch # 0
          PROVE  /\ a.epoch = follow'.epoch /\ a.seq = follow'.seq + Len(a.events)
                 /\ FramesFollow(H, Now(a.epoch)', follow'.seq, a.events)
      <4>1. ~Gap /\ follow.epoch # 0 /\ follow' = follow  BY <1>2, <2>5, <3>2
      <4>2. /\ follow.epoch = epoch /\ follow.seq \in Nat /\ follow.seq <= seq
            /\ Missed(follow.seq) \in Seq(KeptFrames) /\ Len(Missed(follow.seq)) = seq - follow.seq
            /\ FramesFollow(H, TRUE, follow.seq, Missed(follow.seq))
        BY <1>6, <1>12, <4>1
      <4>3. a.events = Missed(follow.seq)  BY <2>5, <4>1
      <4>4. a.seq = follow.seq + Len(a.events)  BY <1>5, <2>5, <4>2, <4>3
      <4> QED  BY <2>5, <2>6, <4>1, <4>2, <4>3, <4>4 DEF FramesFollow
    <3> QED  BY <2>5, <3>1, <3>2 DEF AnswerFits
  <2>8. RootsFollow(H, Now(a.epoch)', a.seq, 1, wire')  BY <2>4 DEF RootsFollow
  <2>9. a.epoch = epoch' /\ a.seq + Len(wire') = seq' + 1  BY <1>2, <1>5, <2>4, <2>5 DEF Served
  <2>10. FeedUser(H)'
    BY <1>2, <1>10, <2>2, <2>3, <2>4, <2>7, <2>8, <2>9 DEF FeedUser
  <2>11. wants' = "feed"  BY <1>2, <2>2 DEF Served
  <2> QED  BY <2>1, <2>10, <2>11
<1>13. /\ rows' \in LiveRows /\ active' \in BOOLEAN /\ (active => active') /\ reads' \in [Slots -> ReadRecords]
       /\ asked' \in {"none", "register", "subscribe", "watch", "read"}
       /\ client' \in {"offline", "connecting", "stopped", "rejected"} \cup Online /\ view' \in [rows : LiveRows, gen : Nat]
       /\ follow' \in Followers
  BY <1>1, <1>2 DEF FeedTypeOK, Followers
<1>14. ~follow'.torn /\ up'  BY <1>2, <1>7 DEF FeedFits, Served
<1> QED  BY <1>2, <1>9, <1>10, <1>11, <1>12, <1>13, <1>14, ServedKeeps

LEMMA ReadKeeps ==
  ASSUME FeedAssumption, FeedInv, NEW k \in Slots, HandleRead(k) \/ OtherAsks(k) \/ ReadTranscript(k)
  PROVE  FeedInv'
<1>1. FeedTypeOK  BY DEF FeedInv
<1>2. PICK H0 \in Seq(Payloads) : FeedFits(H0)  BY DEF FeedInv
<1>3. /\ Served /\ UNCHANGED <<rows, active, ring, conn, wire, client, follow, view>> /\ asked' \in {"none", asked}
      /\ HandleRead(k) => asked = "read"
      /\ ~HandleRead(k) => asked' = asked
  BY DEF HandleRead, OtherAsks, ReadTranscript, Handles, Other, workerVars, serverVars, Served
<1>4. reads' \in [Slots -> ReadRecords]
  <2>1. reads \in [Slots -> ReadRecords] /\ reads[k] \in ReadRecords /\ file \subseteq Messages  BY <1>1 DEF FeedTypeOK
  <2>2. CASE HandleRead(k)
    <3>1. [phase |-> "waiting", page |-> {}, mine |-> TRUE] \in ReadRecords  BY DEF ReadRecords
    <3> QED  BY <2>1, <2>2, <3>1 DEF HandleRead
  <2>3. CASE OtherAsks(k)
    <3>1. [reads[k] EXCEPT !.phase = "waiting"] \in ReadRecords  BY <2>1 DEF ReadRecords
    <3> QED  BY <2>1, <2>3, <3>1 DEF OtherAsks
  <2>4. CASE ReadTranscript(k)
    <3>1. reads' = [reads EXCEPT ![k] = [[reads[k] EXCEPT !.phase = "read"] EXCEPT !.page = file]]
      BY <2>1, <2>4 DEF ReadTranscript
    <3>2. [[reads[k] EXCEPT !.phase = "read"] EXCEPT !.page = file] \in ReadRecords  BY <2>1 DEF ReadRecords
    <3> QED  BY <2>1, <3>1, <3>2
  <2> QED  BY <2>2, <2>3, <2>4
<1>5. ~HandleRead(k) => \A j \in Slots : reads'[j].mine => reads[j].mine
  <2>1. reads \in [Slots -> ReadRecords]  BY <1>1 DEF FeedTypeOK
  <2>2. CASE OtherAsks(k)  BY <2>1, <2>2 DEF OtherAsks, ReadRecords
  <2>3. CASE ReadTranscript(k)  BY <2>1, <2>3 DEF ReadTranscript, ReadRecords
  <2> QED  BY <2>2, <2>3
<1>6. ASSUME NEW H \in Seq(Payloads), FeedFits(H)
      PROVE  FollowFits(H)' /\ IF wants' = "feed" THEN FeedUser(H)' ELSE ViewUser'
  <2>1. CASE HandleRead(k)
    <3>1. wants # "feed" /\ ViewUser  BY <1>3, <1>6, <2>1 DEF FeedFits, FeedUser
    <3>2. ViewUser'  BY <1>3, <3>1 DEF ViewUser
    <3>3. FollowFits(H)'  BY <1>3, <1>6 DEF FeedFits, FollowFits, Now, Served
    <3>4. wants' # "feed"  BY <1>3, <3>1 DEF Served
    <3> QED  BY <3>2, <3>3, <3>4
  <2>2. CASE ~HandleRead(k)
    <3>1. Beside  BY <1>3, <1>5, <2>2 DEF Beside, Served
    <3> QED  BY <1>6, <3>1, BesideFits DEF FeedFits
  <2> QED  BY <2>1, <2>2
<1>7. /\ rows' \in LiveRows /\ active' \in BOOLEAN /\ (active => active')
      /\ asked' \in {"none", "register", "subscribe", "watch", "read"} /\ conn' \in Connections /\ wire' \in Seq(Frames)
      /\ client' \in {"offline", "connecting", "stopped", "rejected"} \cup Online /\ view' \in [rows : LiveRows, gen : Nat]
      /\ follow' \in Followers
  BY <1>1, <1>3 DEF FeedTypeOK, Followers
<1>8. /\ ~follow'.torn /\ (conn'.open => up') /\ (~conn'.open => conn' = NoConn)
      /\ client' \notin Online => wire' = <<>> /\ conn' = NoConn /\ asked' = "none"
  BY <1>2, <1>3 DEF FeedFits, Served
<1> QED  BY <1>3, <1>4, <1>6, <1>7, <1>8, ServedKeeps

LEMMA AnswerKeeps ==
  ASSUME FeedAssumption, FeedInv, NEW k \in Slots, AnswerRead(k)
  PROVE  FeedInv'
<1>1. FeedTypeOK  BY DEF FeedInv
<1>2. PICK H0 \in Seq(Payloads) : FeedFits(H0)  BY DEF FeedInv
<1>3. /\ Served /\ UNCHANGED <<active, ring, asked, client, follow, view>> /\ up
      /\ rows' = Reconciled(reads[k].page) /\ reads' = [reads EXCEPT ![k] = NoRead]
  BY DEF AnswerRead, Other, workerVars, Served
<1>4. reads \in [Slots -> ReadRecords] /\ reads[k] \in ReadRecords /\ rows \in LiveRows /\ said \in [Messages -> Nat] /\ gen \in Nat
  BY <1>1 DEF FeedTypeOK
<1>5. NoRead \in ReadRecords /\ ~NoRead.mine /\ NoRow \in RowRecords  BY DEF NoRead, ReadRecords, NoRow, RowRecords
<1>6. reads' \in [Slots -> ReadRecords] /\ \A j \in Slots : reads'[j].mine => reads[j].mine  BY <1>3, <1>4, <1>5
<1>7. rows' \in LiveRows  BY <1>3, <1>4, <1>5 DEF Reconciled, LiveRows
<1>8. PICK f : f = [kind |-> "messages", gen |-> gen, rows |-> Visible(reads[k].page)]  OBVIOUS
<1>9. f \in Frames /\ f.kind = "messages"
  <2>1. \A m \in Messages : [text |-> said[m], done |-> TRUE] \in RowRecords /\ rows[m] \in RowRecords
    BY <1>4 DEF RowRecords, LiveRows
  <2>2. Visible(reads[k].page) \in LiveRows  BY <2>1 DEF Visible, LiveRows
  <2> QED  BY <1>4, <1>8, <2>2 DEF Frames, ViewFrames
<1>10. PICK X \in Seq(Frames) : X = <<f>>
  <2>1. <<f>> \in Seq(Frames)  BY <1>9
  <2> QED  BY <2>1
<1>11. \A i \in DOMAIN X : X[i].kind \notin {"subscribed", "root_output"}  BY <1>9, <1>10
<1>12. FeedFacts  BY <1>1 DEF FeedTypeOK, FeedFacts
<1>13. CASE reads[k].mine /\ conn.open
  <2>1. Writes(X)  BY <1>8, <1>10, <1>13 DEF AnswerRead
  <2>2. conn' \in Connections /\ wire' \in Seq(Frames) /\ (conn' = conn \/ conn' = NoConn)  BY <1>12, <2>1, WritesWhole
  <2>3. client \in Online /\ wants # "feed" /\ ViewUser /\ wants' = wants
    <3>1. conn # NoConn  BY <1>13 DEF NoConn
    <3> QED  BY <1>2, <1>3, <1>13, <3>1 DEF FeedFits, FeedUser, Served
  <2>4. ViewUser'
    <3>1. \A i \in DOMAIN wire' : wire'[i].kind \notin {"subscribed", "root_output"}
      BY <1>11, <1>12, <2>1, <2>3, ViewWrites DEF ViewUser
    <3>2. ~conn'.feed  BY <2>2, <2>3 DEF ViewUser, NoConn
    <3> QED  BY <1>3, <2>3, <3>1, <3>2 DEF ViewUser
  <2>5. ASSUME NEW H \in Seq(Payloads), FeedFits(H)
        PROVE  FollowFits(H)' /\ IF wants' = "feed" THEN FeedUser(H)' ELSE ViewUser'
    <3>1. FollowFits(H)'  BY <1>3, <2>5 DEF FeedFits, FollowFits, Now, Served
    <3> QED  BY <2>3, <2>4, <3>1
  <2>6. /\ active' \in BOOLEAN /\ (active => active') /\ asked' \in {"none", "register", "subscribe", "watch", "read"}
        /\ client' \in {"offline", "connecting", "stopped", "rejected"} \cup Online /\ view' \in [rows : LiveRows, gen : Nat]
        /\ follow' \in Followers
    BY <1>1, <1>3 DEF FeedTypeOK, Followers
  <2>7. /\ ~follow'.torn /\ (conn'.open => up') /\ (~conn'.open => conn' = NoConn)
        /\ client' \notin Online => wire' = <<>> /\ conn' = NoConn /\ asked' = "none"
    BY <1>2, <1>3, <2>2, <2>3 DEF FeedFits, Served, NoConn
  <2> QED  BY <1>3, <1>6, <1>7, <2>2, <2>5, <2>6, <2>7, ServedKeeps
<1>14. CASE ~(reads[k].mine /\ conn.open)
  <2>1. UNCHANGED <<conn, wire>>  BY <1>14 DEF AnswerRead
  <2>2. Beside  BY <1>3, <1>6, <2>1 DEF Beside, Served
  <2>3. ASSUME NEW H \in Seq(Payloads), FeedFits(H)
        PROVE  FollowFits(H)' /\ IF wants' = "feed" THEN FeedUser(H)' ELSE ViewUser'
    BY <2>2, <2>3, BesideFits DEF FeedFits
  <2>4. /\ active' \in BOOLEAN /\ (active => active') /\ conn' \in Connections /\ wire' \in Seq(Frames)
        /\ asked' \in {"none", "register", "subscribe", "watch", "read"}
        /\ client' \in {"offline", "connecting", "stopped", "rejected"} \cup Online /\ view' \in [rows : LiveRows, gen : Nat]
        /\ follow' \in Followers
    BY <1>1, <1>3, <2>1 DEF FeedTypeOK, Followers
  <2>5. /\ ~follow'.torn /\ (conn'.open => up') /\ (~conn'.open => conn' = NoConn)
        /\ client' \notin Online => wire' = <<>> /\ conn' = NoConn /\ asked' = "none"
    BY <1>2, <1>3, <2>1 DEF FeedFits, Served
  <2> QED  BY <1>3, <1>6, <1>7, <2>3, <2>4, <2>5, ServedKeeps
<1> QED  BY <1>13, <1>14

\* A connection that ends, or is begun.
LEMMA HangKeeps ==
  ASSUME FeedAssumption, FeedInv, Dial \/ OnClose \/ RequestTimesOut \/ Refused \/ StopClient
  PROVE  FeedInv'
<1>1. FeedTypeOK  BY DEF FeedInv
<1>2. PICK H0 \in Seq(Payloads) : FeedFits(H0)  BY DEF FeedInv
<1>3. /\ Served /\ UNCHANGED <<rows, active, follow, view>>
      /\ client' \in {"offline", "connecting", "stopped", "rejected"}
      /\ conn' = NoConn /\ wire' = <<>> /\ asked' = "none" /\ reads' \in {reads, Disowned}
  <2> USE DEF Served, ServerKeeps, workerVars, serverVars
  <2>1. CASE Dial
    <3>1. client \notin Online  BY <2>1 DEF Dial, Online
    <3> QED  BY <1>2, <2>1, <3>1 DEF Dial, FeedFits
  <2>2. CASE OnClose  BY <2>2 DEF OnClose, Hangs, AfterClose
  <2>3. CASE RequestTimesOut  BY <2>3 DEF RequestTimesOut, Hangs, AfterClose, Spend
  <2>4. CASE Refused  BY <2>4 DEF Refused, Hangs, Spend
  <2>5. CASE StopClient  BY <2>5 DEF StopClient, Hangs, Spend
  <2> QED  BY <2>1, <2>2, <2>3, <2>4, <2>5
<1>4. NoConn \in Connections /\ ~NoConn.open /\ ~NoConn.feed /\ ~NoConn.watching  BY DEF NoConn, Connections
<1>5. reads' \in [Slots -> ReadRecords] /\ \A k \in Slots : reads'[k].mine => reads[k].mine
  <2>1. reads \in [Slots -> ReadRecords]  BY <1>1 DEF FeedTypeOK
  <2>2. \A k \in Slots : [reads[k] EXCEPT !.mine = FALSE] \in ReadRecords /\ ~[reads[k] EXCEPT !.mine = FALSE].mine
    BY <2>1 DEF ReadRecords
  <2> QED  BY <1>3, <2>1, <2>2 DEF Disowned
<1>6. client' \notin Online /\ client' \notin {"live", "registering", "subscribing", "attaching", "reading"}
  BY <1>3 DEF Online
<1>7. ASSUME NEW H \in Seq(Payloads), FeedFits(H)
      PROVE  FollowFits(H)' /\ IF wants' = "feed" THEN FeedUser(H)' ELSE ViewUser'
  <2>1. FollowFits(H)'  BY <1>3, <1>7 DEF FeedFits, FollowFits, Now, Served
  <2>2. ASSUME wants = "feed" PROVE FeedUser(H)'
    <3>1. \A k \in Slots : ~reads'[k].mine  BY <1>5, <1>7, <2>2 DEF FeedFits, FeedUser
    <3> QED  BY <1>3, <1>4, <1>6, <3>1 DEF FeedUser
  <2>3. ViewUser'  BY <1>3, <1>4, <1>6 DEF ViewUser
  <2> QED  BY <1>3, <2>1, <2>2, <2>3 DEF Served
<1>8. /\ rows' \in LiveRows /\ active' \in BOOLEAN /\ (active => active') /\ wire' \in Seq(Frames)
      /\ view' \in [rows : LiveRows, gen : Nat] /\ follow' \in Followers /\ ~follow'.torn
  BY <1>1, <1>2, <1>3 DEF FeedTypeOK, Followers, FeedFits
<1> QED  BY <1>3, <1>4, <1>5, <1>7, <1>8, ServedKeeps

LEMMA ConnectKeeps ==
  ASSUME FeedAssumption, FeedInv, Connect
  PROVE  FeedInv'
<1>1. FeedTypeOK  BY DEF FeedInv
<1>2. PICK H0 \in Seq(Payloads) : FeedFits(H0)  BY DEF FeedInv
<1>3. Served /\ UNCHANGED <<rows, active, ring, reads, wire, follow, view>> /\ client = "connecting"
  BY DEF Connect, ServerKeeps, workerVars, serverVars, Served
<1>4. wire = <<>> /\ conn = NoConn /\ asked = "none"  BY <1>2, <1>3 DEF FeedFits, Online
<1>5. \/ /\ up /\ client' = "registering" /\ conn' = [NoConn EXCEPT !.open = TRUE] /\ asked' = "register"
      \/ client' = "offline" /\ conn' = NoConn /\ asked' = "none"
  BY <1>4 DEF Connect
<1>6. conn' \in Connections /\ ~conn'.feed /\ ~conn'.watching /\ (conn'.open => up) /\ (~conn'.open => conn' = NoConn)
  <2> DEFINE dialled == [NoConn EXCEPT !.open = TRUE]
  <2>1. NoConn \in Connections /\ ~NoConn.feed /\ ~NoConn.watching /\ ~NoConn.open  BY DEF NoConn, Connections
  <2>2. dialled \in Connections /\ ~dialled.feed /\ ~dialled.watching /\ dialled.open  BY DEF NoConn, Connections
  <2>3. CASE up /\ conn' = dialled  BY <2>2, <2>3
  <2>4. CASE conn' = NoConn  BY <2>1, <2>4
  <2> QED  BY <1>5, <2>3, <2>4
<1>7. ASSUME NEW H \in Seq(Payloads), FeedFits(H)
      PROVE  FollowFits(H)' /\ IF wants' = "feed" THEN FeedUser(H)' ELSE ViewUser'
  <2>1. FollowFits(H)'  BY <1>3, <1>7 DEF FeedFits, FollowFits, Now, Served
  <2>2. ASSUME wants = "feed" PROVE FeedUser(H)'
    <3>1. \A k \in Slots : ~reads'[k].mine  BY <1>3, <1>7, <2>2 DEF FeedFits, FeedUser
    <3> QED  BY <1>3, <1>4, <1>5, <1>6, <3>1 DEF FeedUser
  <2>3. ViewUser'  BY <1>3, <1>4, <1>5, <1>6 DEF ViewUser
  <2> QED  BY <1>3, <2>1, <2>2, <2>3 DEF Served
<1>8. /\ rows' \in LiveRows /\ active' \in BOOLEAN /\ (active => active') /\ wire' \in Seq(Frames)
      /\ asked' \in {"none", "register", "subscribe", "watch", "read"} /\ reads' \in [Slots -> ReadRecords]
      /\ client' \in {"offline", "connecting", "stopped", "rejected"} \cup Online
      /\ view' \in [rows : LiveRows, gen : Nat] /\ follow' \in Followers /\ ~follow'.torn
  BY <1>1, <1>2, <1>3, <1>5 DEF FeedTypeOK, Followers, FeedFits, Online
<1>9. (conn'.open => up') /\ (client' \notin Online => wire' = <<>> /\ conn' = NoConn /\ asked' = "none")
  BY <1>3, <1>4, <1>5, <1>6 DEF Served, Online
<1> QED  BY <1>3, <1>6, <1>7, <1>8, <1>9, ServedKeeps

\* The client takes a frame; what it is tells the user and its state.
LEMMA TakesFrame ==
  ASSUME FeedInv, NEW kind, Takes(kind)
  PROVE  /\ client \in Online /\ wire # <<>> /\ wire \in Seq(Frames) /\ Len(wire) \in Nat \ {0} /\ 1 \in DOMAIN wire
         /\ Head(wire) = wire[1] /\ wire[1] \in Frames /\ wire[1].kind = kind
         /\ wire' = Tail(wire) /\ wire' \in Seq(Frames) /\ Len(wire') = Len(wire) - 1 /\ DOMAIN wire' = 1..(Len(wire) - 1)
         /\ \A i \in DOMAIN wire' : i + 1 \in DOMAIN wire /\ wire'[i] = wire[i + 1]
<1>1. wire \in Seq(Frames) /\ wire # <<>> /\ wire' = Tail(wire) /\ Head(wire).kind = kind /\ client \in Online
  BY DEF FeedInv, FeedTypeOK, Takes
<1>2. Len(wire) \in Nat \ {0} /\ 1 \in DOMAIN wire /\ Head(wire) = wire[1] /\ wire[1] \in Frames /\ DOMAIN wire = 1..Len(wire)
  BY <1>1
<1>3. wire' \in Seq(Frames) /\ Len(wire') = Len(wire) - 1 /\ \A i \in 1..Len(wire') : wire'[i] = wire[i + 1]
  BY <1>1, HeadTailProperties
<1>4. DOMAIN wire' = 1..(Len(wire) - 1) /\ \A i \in 1..(Len(wire) - 1) : i + 1 \in 1..Len(wire)
  BY <1>2, <1>3
<1> QED  BY <1>1, <1>2, <1>3, <1>4

LEMMA FeedUserTakes ==
  ASSUME FeedTypeOK, NEW H, FeedUser(H), wire # <<>>, wire \in Seq(Frames), client \in Online
  PROVE  /\ client \in {"registering", "subscribing", "live"} /\ asked = "none"
         /\ client = "registering" => wire[1].kind = "registered" /\ Len(wire) = 1
         /\ client = "subscribing" => wire[1].kind = "subscribed"
         /\ client = "live" => wire[1].kind = "root_output"
<1>1. client \in {"registering", "subscribing", "live"}  BY DEF FeedUser, Online
<1>2. asked = "none"  BY DEF FeedUser, FeedTypeOK
<1>3. 1 \in DOMAIN wire /\ Len(wire) \in Nat  OBVIOUS
<1>4. client = "registering" => wire[1].kind = "registered" /\ Len(wire) = 1  BY DEF FeedUser
<1>5. client = "subscribing" => wire[1].kind = "subscribed"  BY DEF FeedUser, AnswerFits
<1>6. client = "live" => wire[1].kind = "root_output"
  <2>1. client = "live" => RootsFollow(H, Now(follow.epoch), follow.seq, 0, wire)  BY DEF FeedUser
  <2>2. 1 > 0  OBVIOUS
  <2> QED  BY <1>3, <2>1, <2>2 DEF RootsFollow
<1> QED  BY <1>1, <1>2, <1>4, <1>5, <1>6

LEMMA RegisteredKeeps ==
  ASSUME FeedAssumption, FeedInv, OnRegistered
  PROVE  FeedInv'
<1>1. FeedTypeOK  BY DEF FeedInv
<1>2. PICK H0 \in Seq(Payloads) : FeedFits(H0)  BY DEF FeedInv
<1>3. /\ client \in Online /\ wire # <<>> /\ wire \in Seq(Frames) /\ wire[1].kind = "registered"
      /\ wire' \in Seq(Frames) /\ Len(wire') = Len(wire) - 1
      /\ \A i \in DOMAIN wire' : i + 1 \in DOMAIN wire /\ wire'[i] = wire[i + 1]
  BY TakesFrame DEF OnRegistered
<1>4. /\ Served /\ UNCHANGED <<rows, active, ring, reads, conn, follow, view>>
      /\ IF wants = "feed" THEN client' = "subscribing" /\ asked' = "subscribe" ELSE client' = "attaching" /\ asked' = "watch"
  BY DEF OnRegistered, UserOnly, ServerKeeps, Asks, workerVars, serverVars, Served
<1>5. ASSUME NEW H \in Seq(Payloads), FeedFits(H)
      PROVE  FollowFits(H)' /\ IF wants' = "feed" THEN FeedUser(H)' ELSE ViewUser'
  <2>1. FollowFits(H)'  BY <1>4, <1>5 DEF FeedFits, FollowFits, Now, Served
  <2>2. ASSUME wants = "feed" PROVE FeedUser(H)'
    <3>1. FeedUser(H)  BY <1>5, <2>2 DEF FeedFits
    <3>2. client = "registering" /\ Len(wire) = 1  BY <1>1, <1>3, <3>1, FeedUserTakes
    <3>3. Len(wire') = 0  BY <1>3, <3>2
    <3>4. wire' = <<>>  BY <1>3, <3>3, EmptySeq
    <3>5. ~conn.feed /\ ~conn.watching /\ \A k \in Slots : ~reads[k].mine  BY <3>1, <3>2 DEF FeedUser
    <3> QED  BY <1>4, <2>2, <3>4, <3>5 DEF FeedUser
  <2>3. ASSUME wants # "feed" PROVE ViewUser'
    <3>1. ViewUser  BY <1>5, <2>3 DEF FeedFits
    <3>2. \A i \in DOMAIN wire' : wire'[i].kind \notin {"subscribed", "root_output"}  BY <1>3, <3>1 DEF ViewUser
    <3> QED  BY <1>4, <2>3, <3>1, <3>2 DEF ViewUser
  <2> QED  BY <1>4, <2>1, <2>2, <2>3 DEF Served
<1>6. /\ rows' \in LiveRows /\ active' \in BOOLEAN /\ (active => active') /\ conn' \in Connections
      /\ asked' \in {"none", "register", "subscribe", "watch", "read"} /\ reads' \in [Slots -> ReadRecords]
      /\ client' \in {"offline", "connecting", "stopped", "rejected"} \cup Online
      /\ view' \in [rows : LiveRows, gen : Nat] /\ follow' \in Followers /\ ~follow'.torn
  BY <1>1, <1>2, <1>4 DEF FeedTypeOK, Followers, FeedFits, Online
<1>7. /\ conn'.open => up'
      /\ ~conn'.open => conn' = NoConn
      /\ client' \in Online
  BY <1>2, <1>4 DEF Served, FeedFits, Online
<1> QED  BY <1>3, <1>4, <1>5, <1>6, <1>7, ServedKeeps

LEMMA SubscribedKeeps ==
  ASSUME FeedAssumption, FeedInv, OnSubscribed
  PROVE  FeedInv'
<1>1. FeedTypeOK  BY DEF FeedInv
<1>2. PICK H0 \in Seq(Payloads) : FeedFits(H0)  BY DEF FeedInv
<1>3. /\ client \in Online /\ wire # <<>> /\ wire \in Seq(Frames) /\ wire[1].kind = "subscribed" /\ wire[1] \in Frames
      /\ Head(wire) = wire[1] /\ 1 \in DOMAIN wire /\ Len(wire) \in Nat
      /\ wire' = Tail(wire) /\ wire' \in Seq(Frames) /\ Len(wire') = Len(wire) - 1
  BY TakesFrame DEF OnSubscribed
<1>4. /\ Served /\ UNCHANGED <<rows, active, ring, reads, conn, view>> /\ client' = "live" /\ asked' = "none"
  BY DEF OnSubscribed, UserOnly, ServerKeeps, Asks, workerVars, serverVars, Served
<1>5. PICK a \in Frames : a = wire[1]  BY <1>3
<1>6. follow' = IF a.gap \/ follow.epoch = 0
                THEN [epoch |-> a.epoch, seq |-> a.seq, open |-> 0, torn |-> follow.torn]
                ELSE Follow(follow, a.events)
  BY <1>3, <1>5 DEF OnSubscribed
<1>7. a \in Subscriptions  BY <1>3, <1>5, AnswerTyped
<1>8. a.seq \in Nat /\ a.epoch \in Nat /\ a.gap \in BOOLEAN /\ a.events \in Seq(KeptFrames)  BY <1>7 DEF Subscriptions
<1>9. follow \in Followers /\ follow.torn = FALSE /\ epoch \in Nat
  BY <1>1, <1>2 DEF FeedTypeOK, Followers, FeedFits
<1>10. ASSUME NEW H \in Seq(Payloads), FeedFits(H)
       PROVE  /\ wants = "feed" /\ FeedUser(H) /\ client = "subscribing" /\ AnswerFits(H, a)
              /\ RootsFollow(H, Now(a.epoch), a.seq, 1, wire)
              /\ conn.feed => a.epoch = epoch /\ a.seq + Len(wire) = seq + 1
  <2>1. wants = "feed"  BY <1>3, <1>10 DEF FeedFits, ViewUser
  <2>2. FeedUser(H)  BY <1>10, <2>1 DEF FeedFits
  <2>3. client = "subscribing"  BY <1>1, <1>3, <2>2, FeedUserTakes
  <2> QED  BY <1>3, <1>5, <2>1, <2>2, <2>3 DEF FeedUser
<1>11. ASSUME NEW H \in Seq(Payloads), FeedFits(H)
       PROVE  /\ follow' \in Followers /\ ~follow'.torn /\ follow'.epoch = a.epoch /\ follow'.seq = a.seq
              /\ Now(a.epoch) => Believes(H, follow'.seq, follow'.open)
  <2>1. CASE a.gap \/ follow.epoch = 0
    <3>1. follow' = [epoch |-> a.epoch, seq |-> a.seq, open |-> 0, torn |-> follow.torn]  BY <1>6, <2>1
    <3> QED  BY <1>8, <1>9, <3>1 DEF Followers, Believes
  <2>2. CASE ~a.gap /\ follow.epoch # 0
    <3>1. follow' = Follow(follow, a.events)  BY <1>6, <2>2
    <3>2. /\ a.epoch = follow.epoch /\ a.seq = follow.seq + Len(a.events)
          /\ FramesFollow(H, Now(a.epoch), follow.seq, a.events)
      BY <1>10, <1>11, <2>2 DEF AnswerFits
    <3>3. Now(a.epoch) => Believes(H, follow.seq, follow.open)  BY <1>11, <3>2 DEF FeedFits, FollowFits
    <3>4. Now(a.epoch) \in BOOLEAN  BY <1>1 DEF Now, FeedTypeOK
    <3>5. \A i \in DOMAIN a.events : a.events[i].seq \in Nat /\ a.events[i].payload \in Payloads
      <4>1. \A i \in DOMAIN a.events : a.events[i] \in KeptFrames  BY <1>8
      <4> QED  BY <4>1 DEF KeptFrames
    <3>6. /\ Follow(follow, a.events) \in Followers /\ ~Follow(follow, a.events).torn
          /\ Follow(follow, a.events).epoch = follow.epoch /\ Follow(follow, a.events).seq = follow.seq + Len(a.events)
          /\ Now(a.epoch) => Believes(H, follow.seq + Len(a.events), Follow(follow, a.events).open)
      BY <1>8, <1>9, <3>2, <3>3, <3>4, <3>5, FollowReads
    <3> QED  BY <3>1, <3>2, <3>6
  <2> QED  BY <2>1, <2>2
<1>12. ASSUME NEW H \in Seq(Payloads), FeedFits(H)
       PROVE  FollowFits(H)' /\ IF wants' = "feed" THEN FeedUser(H)' ELSE ViewUser'
  <2>1. /\ wants = "feed" /\ FeedUser(H) /\ client = "subscribing" /\ AnswerFits(H, a)
        /\ RootsFollow(H, Now(a.epoch), a.seq, 1, wire)
        /\ conn.feed => a.epoch = epoch /\ a.seq + Len(wire) = seq + 1
    BY <1>10, <1>12
  <2>2. /\ follow' \in Followers /\ follow'.epoch = a.epoch /\ follow'.seq = a.seq
        /\ Now(a.epoch) => Believes(H, follow'.seq, follow'.open)
    BY <1>11, <1>12
  <2>3. \A e : Now(e)' <=> Now(e)  BY <1>4 DEF Now, Served
  <2>4. FollowFits(H)'
    <3>1. a.epoch <= epoch' /\ (Now(a.epoch) => a.seq <= seq')  BY <1>4, <2>1 DEF AnswerFits, Served
    <3> QED  BY <2>2, <2>3, <3>1 DEF FollowFits
  <2>5. RootsFollow(H, Now(a.epoch), a.seq, 0, wire')  BY <1>3, <1>8, <2>1, FramesTail
  <2>6. RootsFollow(H, Now(follow.epoch)', follow'.seq, 0, wire')
    <3>1. Now(follow.epoch)' <=> Now(a.epoch)  BY <2>2, <2>3
    <3> QED  BY <2>2, <2>5, <3>1 DEF RootsFollow
  <2>7. conn'.feed => follow'.epoch = epoch' /\ follow'.seq + Len(wire') = seq'
    <3> SUFFICES ASSUME conn.feed PROVE follow'.epoch = epoch' /\ follow'.seq + Len(wire') = seq'  BY <1>4
    <3>1. a.epoch = epoch /\ a.seq + Len(wire) = seq + 1  BY <2>1
    <3>2. seq \in Nat /\ seq' = seq /\ epoch' = epoch  BY <1>1, <1>4 DEF FeedTypeOK, Served
    <3>3. a.seq + (Len(wire) - 1) = seq
      <4>1. Len(wire) \in Nat /\ a.seq \in Nat /\ seq \in Nat /\ a.seq + Len(wire) = seq + 1  BY <1>3, <1>8, <3>1, <3>2
      <4> QED  BY <4>1
    <3> QED  BY <1>3, <2>2, <3>1, <3>2, <3>3
  <2>8. FeedUser(H)'  BY <1>4, <2>1, <2>6, <2>7 DEF FeedUser
  <2> QED  BY <1>4, <2>1, <2>4, <2>8 DEF Served
<1>13. /\ rows' \in LiveRows /\ active' \in BOOLEAN /\ (active => active') /\ conn' \in Connections
       /\ asked' \in {"none", "register", "subscribe", "watch", "read"} /\ reads' \in [Slots -> ReadRecords]
       /\ client' \in {"offline", "connecting", "stopped", "rejected"} \cup Online
       /\ view' \in [rows : LiveRows, gen : Nat]
  BY <1>1, <1>4 DEF FeedTypeOK, Online
<1>14. follow' \in Followers /\ ~follow'.torn  BY <1>2, <1>11
<1>15. /\ conn'.open => up'
       /\ ~conn'.open => conn' = NoConn
       /\ client' \in Online
  BY <1>2, <1>4 DEF Served, FeedFits, Online
<1> QED  BY <1>3, <1>4, <1>12, <1>13, <1>14, <1>15, ServedKeeps

LEMMA RootOutputKeeps ==
  ASSUME FeedAssumption, FeedInv, OnRootOutput
  PROVE  FeedInv'
<1>1. FeedTypeOK  BY DEF FeedInv
<1>2. PICK H0 \in Seq(Payloads) : FeedFits(H0)  BY DEF FeedInv
<1>3. /\ client \in Online /\ wire # <<>> /\ wire \in Seq(Frames) /\ wire[1].kind = "root_output" /\ wire[1] \in Frames
      /\ Head(wire) = wire[1] /\ 1 \in DOMAIN wire /\ Len(wire) \in Nat
      /\ wire' = Tail(wire) /\ wire' \in Seq(Frames) /\ Len(wire') = Len(wire) - 1
  BY TakesFrame DEF OnRootOutput
<1>4. Served /\ UNCHANGED <<rows, active, ring, reads, conn, view, client, asked>>
  BY DEF OnRootOutput, UserOnly, ServerKeeps, workerVars, serverVars, Served
<1>5. PICK f : f = wire[1]  OBVIOUS
<1>6. PICK one \in Seq(Frames) : one = <<f>>
  <2>1. <<f>> \in Seq(Frames)  BY <1>3, <1>5
  <2> QED  BY <2>1
<1>7. Len(one) = 1 /\ DOMAIN one = 1..1 /\ one[1] = f  BY <1>6
<1>8. follow' = Follow(follow, one)  BY <1>3, <1>5, <1>6 DEF OnRootOutput
<1>9. f \in RootOutputs
  <2>1. f \in Frames /\ f.kind = "root_output"  BY <1>3, <1>5
  <2> QED  BY <2>1 DEF Frames, ViewFrames, Subscriptions, RootOutputs
<1>10. follow \in Followers /\ follow.torn = FALSE /\ follow.seq \in Nat /\ follow.epoch \in Nat /\ seq \in Nat
  BY <1>1, <1>2 DEF FeedTypeOK, Followers, FeedFits
<1>11. ASSUME NEW H \in Seq(Payloads), FeedFits(H)
       PROVE  /\ wants = "feed" /\ FeedUser(H) /\ client = "live"
              /\ RootsFollow(H, Now(follow.epoch), follow.seq, 0, wire)
              /\ conn.feed => follow.epoch = epoch /\ follow.seq + Len(wire) = seq
  <2>1. wants = "feed"  BY <1>3, <1>11 DEF FeedFits, ViewUser
  <2>2. FeedUser(H)  BY <1>11, <2>1 DEF FeedFits
  <2>3. client = "live"  BY <1>1, <1>3, <2>2, FeedUserTakes
  <2> QED  BY <2>1, <2>2, <2>3 DEF FeedUser
<1>12. ASSUME NEW H \in Seq(Payloads), FeedFits(H)
       PROVE  /\ follow' \in Followers /\ ~follow'.torn /\ follow'.epoch = follow.epoch /\ follow'.seq = follow.seq + 1
              /\ Now(follow.epoch) => Believes(H, follow.seq + 1, follow'.open) /\ follow.seq + 1 \in DOMAIN H
  <2>1. RootsFollow(H, Now(follow.epoch), follow.seq, 0, wire)  BY <1>11, <1>12
  <2>2. f.seq = follow.seq + 1 /\ (Now(follow.epoch) => follow.seq + 1 \in DOMAIN H /\ f.payload = H[follow.seq + 1])
    <3>1. 1 > 0 /\ follow.seq + 1 - 0 = follow.seq + 1  BY <1>10
    <3> QED  BY <1>3, <1>5, <2>1, <3>1 DEF RootsFollow
  <2>3. FramesFollow(H, Now(follow.epoch), follow.seq, one)
    <3>1. \A i \in DOMAIN one : i = 1  BY <1>7
    <3> QED  BY <1>7, <2>2, <3>1 DEF FramesFollow
  <2>4. Now(follow.epoch) => Believes(H, follow.seq, follow.open)  BY <1>12 DEF FeedFits, FollowFits
  <2>5. Now(follow.epoch) \in BOOLEAN  BY <1>1 DEF Now, FeedTypeOK
  <2>6. \A i \in DOMAIN one : one[i].seq \in Nat /\ one[i].payload \in Payloads
    <3>1. \A i \in DOMAIN one : i = 1  BY <1>7
    <3>2. f.seq \in Nat /\ f.payload \in Payloads  BY <1>9 DEF RootOutputs
    <3> QED  BY <1>7, <3>1, <3>2
  <2>7. /\ Follow(follow, one) \in Followers /\ ~Follow(follow, one).torn
        /\ Follow(follow, one).epoch = follow.epoch /\ Follow(follow, one).seq = follow.seq + Len(one)
        /\ Now(follow.epoch) => Believes(H, follow.seq + Len(one), Follow(follow, one).open)
    BY <1>10, <2>3, <2>4, <2>5, <2>6, FollowReads
  <2> QED  BY <1>7, <1>8, <2>2, <2>7
<1>13. ASSUME NEW H \in Seq(Payloads), FeedFits(H)
       PROVE  FollowFits(H)' /\ IF wants' = "feed" THEN FeedUser(H)' ELSE ViewUser'
  <2>1. /\ wants = "feed" /\ FeedUser(H) /\ client = "live"
        /\ RootsFollow(H, Now(follow.epoch), follow.seq, 0, wire)
        /\ conn.feed => follow.epoch = epoch /\ follow.seq + Len(wire) = seq
    BY <1>11, <1>13
  <2>2. /\ follow'.epoch = follow.epoch /\ follow'.seq = follow.seq + 1
        /\ Now(follow.epoch) => Believes(H, follow.seq + 1, follow'.open) /\ follow.seq + 1 \in DOMAIN H
    BY <1>12, <1>13
  <2>3. \A e : Now(e)' <=> Now(e)  BY <1>4 DEF Now, Served
  <2>4. FollowFits(H)'
    <3>1. follow.epoch <= epoch'  BY <1>4, <1>13 DEF FeedFits, FollowFits, Served
    <3>2. follow.seq + 1 \in DOMAIN H => follow.seq + 1 <= seq'
      <4>1. Len(H) = seq /\ DOMAIN H = 1..Len(H) /\ seq' = seq  BY <1>4, <1>13 DEF FeedFits, RingKeeps, Served
      <4> QED  BY <1>10, <4>1
    <3> QED  BY <2>2, <2>3, <3>1, <3>2 DEF FollowFits
  <2>5. RootsFollow(H, Now(follow.epoch), follow.seq + 1, 0, wire')
    <3>1. RootsFollow(H, Now(follow.epoch), follow.seq + 1, 1, wire)  BY <1>3, <1>10, <2>1, FramesNext
    <3>2. follow.seq + 1 \in Nat  BY <1>10
    <3> QED  BY <1>3, <3>1, <3>2, FramesTail
  <2>6. RootsFollow(H, Now(follow.epoch)', follow'.seq, 0, wire')
    <3>1. Now(follow.epoch)' <=> Now(follow.epoch)  BY <2>2, <2>3
    <3> QED  BY <2>2, <2>5, <3>1 DEF RootsFollow
  <2>7. conn'.feed => follow'.epoch = epoch' /\ follow'.seq + Len(wire') = seq'
    <3> SUFFICES ASSUME conn.feed PROVE follow'.epoch = epoch' /\ follow'.seq + Len(wire') = seq'  BY <1>4
    <3>1. follow.epoch = epoch /\ follow.seq + Len(wire) = seq  BY <2>1
    <3>2. seq' = seq /\ epoch' = epoch  BY <1>4 DEF Served
    <3>3. (follow.seq + 1) + (Len(wire) - 1) = seq  BY <1>3, <1>10, <3>1
    <3> QED  BY <1>3, <2>2, <3>1, <3>2, <3>3
  <2>8. FeedUser(H)'  BY <1>4, <2>1, <2>6, <2>7 DEF FeedUser
  <2> QED  BY <1>4, <2>1, <2>4, <2>8 DEF Served
<1>14. /\ rows' \in LiveRows /\ active' \in BOOLEAN /\ (active => active') /\ conn' \in Connections
       /\ asked' \in {"none", "register", "subscribe", "watch", "read"} /\ reads' \in [Slots -> ReadRecords]
       /\ client' \in {"offline", "connecting", "stopped", "rejected"} \cup Online /\ client' \in Online
       /\ view' \in [rows : LiveRows, gen : Nat]
  BY <1>1, <1>3, <1>4 DEF FeedTypeOK
<1>15. follow' \in Followers /\ ~follow'.torn  BY <1>2, <1>12
<1>16. /\ conn'.open => up'
       /\ ~conn'.open => conn' = NoConn
  BY <1>2, <1>4 DEF Served, FeedFits
<1> QED  BY <1>3, <1>4, <1>13, <1>14, <1>15, <1>16, ServedKeeps

LEMMA ShowTyped ==
  ASSUME NEW r \in LiveRows, NEW f \in ViewFrames, f.kind = "actor_event"
  PROVE  Show(r, f) \in LiveRows
<1>1. f.text \in Nat /\ f.message \in {0} \cup Messages  BY DEF ViewFrames
<1>2. CASE f.type = "text_delta" /\ ~r[f.message].done
  <2>1. Show(r, f) = [r EXCEPT ![f.message].text = @ + 1]  BY <1>2 DEF Show
  <2>2. ASSUME f.message \in Messages PROVE [r[f.message] EXCEPT !.text = @ + 1] \in RowRecords
    <3>1. r[f.message] \in RowRecords  BY <2>2 DEF LiveRows
    <3> QED  BY <3>1 DEF RowRecords
  <2> QED  BY <2>1, <2>2 DEF LiveRows
<1>3. CASE f.type \in {"text_end", "message_end"}
  <2>1. Show(r, f) = [r EXCEPT ![f.message] = [text |-> f.text, done |-> TRUE]]  BY <1>3 DEF Show
  <2>2. [text |-> f.text, done |-> TRUE] \in RowRecords  BY <1>1 DEF RowRecords
  <2> QED  BY <2>1, <2>2 DEF LiveRows
<1>4. CASE ~(f.type = "text_delta" /\ ~r[f.message].done) /\ f.type \notin {"text_end", "message_end"}
  <2>1. Show(r, f) = r  BY <1>4 DEF Show
  <2> QED  BY <2>1
<1> QED  BY <1>2, <1>3, <1>4

\* What only one who looks at the session takes, or asks for.
LEMMA ViewKeeps ==
  ASSUME FeedAssumption, FeedInv, OnWatching \/ OnMessages \/ OnActorFrame \/ Refresh
  PROVE  FeedInv'
<1>1. FeedTypeOK  BY DEF FeedInv
<1>2. PICK H0 \in Seq(Payloads) : FeedFits(H0)  BY DEF FeedInv
<1>3. /\ Served /\ UNCHANGED <<rows, active, ring, reads, conn, follow>>
      /\ client' \in {"reading", "live", client} /\ asked' \in {"read", asked}
  BY DEF OnWatching, OnMessages, OnActorFrame, Refresh, UserOnly, ServerKeeps, Asks, workerVars, serverVars, Served
<1>4. CASE OnWatching \/ OnMessages \/ OnActorFrame
  <2>1. PICK kind \in {"watching", "messages", "actor_event"} : Takes(kind) /\ (kind = "watching" => OnWatching)
                       /\ (kind = "messages" => OnMessages) /\ (kind = "actor_event" => OnActorFrame)
    <3>1. CASE OnWatching /\ Takes("watching")  BY <3>1
    <3>2. CASE OnMessages /\ Takes("messages")  BY <3>2
    <3>3. CASE OnActorFrame /\ Takes("actor_event")  BY <3>3
    <3> QED  BY <1>4, <3>1, <3>2, <3>3 DEF OnWatching, OnMessages, OnActorFrame
  <2>2. /\ client \in Online /\ wire # <<>> /\ wire \in Seq(Frames) /\ wire[1].kind = kind /\ wire[1] \in Frames /\ Head(wire) = wire[1]
        /\ wire' \in Seq(Frames) /\ \A i \in DOMAIN wire' : i + 1 \in DOMAIN wire /\ wire'[i] = wire[i + 1]
    BY <2>1, TakesFrame
  <2>3. wants # "feed"
    <3> SUFFICES ASSUME wants = "feed" PROVE FALSE  OBVIOUS
    <3>1. FeedUser(H0)  BY <1>2 DEF FeedFits
    <3>2. wire[1].kind \in {"registered", "subscribed", "root_output"}  BY <1>1, <2>2, <3>1, FeedUserTakes
    <3> QED  BY <2>2, <3>2
  <2>4. PICK f : f = wire[1]  OBVIOUS
  <2>5. f \in ViewFrames /\ f.kind = kind
    <3>1. f \in Frames /\ f.kind \in {"watching", "messages", "actor_event"}  BY <2>1, <2>2, <2>4
    <3> QED  BY <2>2, <2>4, <3>1 DEF Frames, Subscriptions, RootOutputs
  <2>6. view' \in [rows : LiveRows, gen : Nat]
    <3>1. view \in [rows : LiveRows, gen : Nat]  BY <1>1 DEF FeedTypeOK
    <3>2. CASE kind = "watching"  BY <2>1, <3>1, <3>2 DEF OnWatching
    <3>3. CASE kind = "messages"
      <4>1. f.rows \in LiveRows /\ f.gen \in Nat  BY <2>5, <3>3 DEF ViewFrames
      <4>2. view' = [rows |-> f.rows, gen |-> f.gen]  BY <2>1, <2>2, <2>4, <3>3 DEF OnMessages
      <4> QED  BY <4>1, <4>2
    <3>4. CASE kind = "actor_event"
      <4>1. view' = [view EXCEPT !.rows = Show(view.rows, f)]  BY <2>1, <2>2, <2>4, <3>4 DEF OnActorFrame
      <4>2. Show(view.rows, f) \in LiveRows  BY <2>5, <3>1, <3>4, ShowTyped
      <4> QED  BY <3>1, <4>1, <4>2
    <3> QED  BY <2>1, <3>2, <3>3, <3>4
  <2>7. ASSUME NEW H \in Seq(Payloads), FeedFits(H)
        PROVE  FollowFits(H)' /\ IF wants' = "feed" THEN FeedUser(H)' ELSE ViewUser'
    <3>1. FollowFits(H)'  BY <1>3, <2>7 DEF FeedFits, FollowFits, Now, Served
    <3>2. ViewUser /\ wants' = wants  BY <1>3, <2>3, <2>7 DEF FeedFits, Served
    <3>3. \A i \in DOMAIN wire' : wire'[i].kind \notin {"subscribed", "root_output"}  BY <2>2, <3>2 DEF ViewUser
    <3>4. ViewUser'  BY <1>3, <3>2, <3>3 DEF ViewUser
    <3> QED  BY <2>3, <3>1, <3>2, <3>4
  <2>8. client' \in Online  BY <1>3, <2>2 DEF Online
  <2>9. /\ rows' \in LiveRows /\ active' \in BOOLEAN /\ (active => active') /\ conn' \in Connections
        /\ asked' \in {"none", "register", "subscribe", "watch", "read"} /\ reads' \in [Slots -> ReadRecords]
        /\ client' \in {"offline", "connecting", "stopped", "rejected"} \cup Online
        /\ follow' \in Followers /\ ~follow'.torn
    BY <1>1, <1>2, <1>3, <2>8 DEF FeedTypeOK, Followers, FeedFits
  <2>10. /\ conn'.open => up'
         /\ ~conn'.open => conn' = NoConn
    BY <1>2, <1>3 DEF Served, FeedFits
  <2> QED  BY <1>3, <2>2, <2>6, <2>7, <2>8, <2>9, <2>10, ServedKeeps
<1>5. CASE Refresh
  <2>1. wants # "feed" /\ client' = "reading" /\ UNCHANGED <<wire, view>>  BY <1>5 DEF Refresh, Asks
  <2>2. ASSUME NEW H \in Seq(Payloads), FeedFits(H)
        PROVE  FollowFits(H)' /\ IF wants' = "feed" THEN FeedUser(H)' ELSE ViewUser'
    <3>1. FollowFits(H)'  BY <1>3, <2>2 DEF FeedFits, FollowFits, Now, Served
    <3>2. ViewUser /\ wants' = wants  BY <1>3, <2>1, <2>2 DEF FeedFits, Served
    <3>3. ViewUser'  BY <1>3, <2>1, <3>2 DEF ViewUser
    <3> QED  BY <2>1, <3>1, <3>2, <3>3
  <2>3. client' \in Online  BY <2>1 DEF Online
  <2>4. /\ rows' \in LiveRows /\ active' \in BOOLEAN /\ (active => active') /\ conn' \in Connections /\ wire' \in Seq(Frames)
        /\ asked' \in {"none", "register", "subscribe", "watch", "read"} /\ reads' \in [Slots -> ReadRecords]
        /\ client' \in {"offline", "connecting", "stopped", "rejected"} \cup Online
        /\ view' \in [rows : LiveRows, gen : Nat] /\ follow' \in Followers /\ ~follow'.torn
    BY <1>1, <1>2, <1>3, <2>1, <2>3 DEF FeedTypeOK, Followers, FeedFits
  <2>5. /\ conn'.open => up'
        /\ ~conn'.open => conn' = NoConn
    BY <1>2, <1>3 DEF Served, FeedFits
  <2> QED  BY <1>3, <2>2, <2>3, <2>4, <2>5, ServedKeeps
<1> QED  BY <1>4, <1>5

-----------------------------------------------------------------------------
LEMMA FeedBegins ==
  ASSUME FeedAssumption, FeedInit
  PROVE  FeedInv
<1>1. NoConn \in Connections /\ NoRead \in ReadRecords /\ ~NoRead.mine /\ NoRows \in LiveRows
      /\ ~NoConn.open /\ ~NoConn.feed /\ ~NoConn.watching
  BY DEF NoConn, Connections, NoRead, ReadRecords, NoRows, NoRow, LiveRows, RowRecords
<1>2. reads \in [Slots -> ReadRecords] /\ \A k \in Slots : ~reads[k].mine  BY <1>1 DEF FeedInit
<1>3. pipe \in Seq(Events) /\ wire \in Seq(Frames) /\ ring \in Seq(KeptFrames) /\ pipe = <<>>  BY DEF FeedInit
<1>4. client \notin Online /\ client \in {"offline", "connecting", "stopped", "rejected"}  BY DEF FeedInit, Online
<1>5. FeedTypeOK
  <2>1. said \in [Messages -> Nat] /\ view \in [rows : LiveRows, gen : Nat] /\ rows \in LiveRows /\ conn \in Connections
    BY <1>1 DEF FeedInit
  <2>2. follow \in [epoch : Nat, seq : Nat, open : Nat, torn : BOOLEAN]  BY DEF FeedInit
  <2>3. worker = "idle" /\ gen = 1 /\ turns = 0 /\ open = 0 /\ file = {} /\ epoch = 1 /\ turn = 0 /\ asked = "none"
        /\ wants \in {"feed", "view"} /\ troubles = 0 /\ seq = 0
    BY DEF FeedInit
  <2>4. over \in BOOLEAN /\ up \in BOOLEAN /\ active \in BOOLEAN  BY DEF FeedInit
  <2> QED  BY <1>2, <1>3, <1>4, <2>1, <2>2, <2>3, <2>4 DEF FeedTypeOK
<1>6. TurnIsOfWorker  BY DEF FeedInit, TurnIsOfWorker
<1>7. PICK H \in Seq(Payloads) : H = <<>>
  <2>1. <<>> \in Seq(Payloads)  OBVIOUS
  <2> QED  BY <2>1
<1>8. Len(H) = 0 /\ DOMAIN H = {}  BY <1>7
<1>9. RingKeeps(H, seq, ring) /\ TurnIsTold(H, turn) /\ FollowFits(H)
  <2>1. RingKeeps(H, seq, ring)  BY <1>8 DEF FeedInit, RingKeeps
  <2>2. TurnIsTold(H, turn)  BY <1>8 DEF TurnIsTold
  <2>3. FollowFits(H)  BY DEF FeedInit, FollowFits, Believes, Now
  <2> QED  BY <2>1, <2>2, <2>3
<1>10. FeedUser(H)
  <2>1. asked = "none" /\ wire = <<>> /\ conn = NoConn /\ client \in {"offline", "stopped"}  BY DEF FeedInit
  <2> QED  BY <1>1, <1>2, <2>1 DEF FeedUser
<1>11. ViewUser
  <2>1. asked = "none" /\ wire = <<>> /\ conn = NoConn /\ client \in {"offline", "stopped"}  BY DEF FeedInit
  <2> QED  BY <1>1, <2>1 DEF ViewUser
<1>12. FeedFits(H)  BY <1>1, <1>4, <1>9, <1>10, <1>11 DEF FeedInit, FeedFits
<1> QED  BY <1>5, <1>6, <1>12 DEF FeedInv

LEMMA FeedStep ==
  ASSUME FeedAssumption, FeedInv, [FeedNext]_feedVars
  PROVE  FeedInv'
<1>1. CASE Speaks \/ WorkerDies \/ LaunchActor  BY <1>1, SpeaksKeeps
<1>2. CASE OnActorEvent  BY <1>2, EventKeeps
<1>3. CASE OnActorExit  BY <1>3, ExitKeeps
<1>4. CASE SupervisorEnds \/ SupervisorStarts  BY <1>4, EndKeeps
<1>5. CASE HandleRegister \/ HandleWatch  BY <1>5, HandleKeeps
<1>6. CASE HandleSubscribe  BY <1>6, SubscribeKeeps
<1>7. ASSUME NEW k \in Slots, HandleRead(k) \/ OtherAsks(k) \/ ReadTranscript(k) PROVE FeedInv'  BY <1>7, ReadKeeps
<1>8. ASSUME NEW k \in Slots, AnswerRead(k) PROVE FeedInv'  BY <1>8, AnswerKeeps
<1>9. CASE Dial \/ OnClose \/ RequestTimesOut \/ Refused \/ StopClient  BY <1>9, HangKeeps
<1>10. CASE Connect  BY <1>10, ConnectKeeps
<1>11. CASE OnRegistered  BY <1>11, RegisteredKeeps
<1>12. CASE OnSubscribed  BY <1>12, SubscribedKeeps
<1>13. CASE OnRootOutput  BY <1>13, RootOutputKeeps
<1>14. CASE OnWatching \/ OnMessages \/ OnActorFrame \/ Refresh  BY <1>14, ViewKeeps
<1>15. CASE UNCHANGED feedVars
  <2>1. PICK H \in Seq(Payloads) : FeedFits(H)  BY DEF FeedInv
  <2>2. Beside  BY <1>15 DEF Beside, feedVars, serverVars, clientVars
  <2>3. FeedFits(H)'  BY <2>1, <2>2, BesideFits
  <2>4. FeedTypeOK' /\ TurnIsOfWorker'
    BY <1>15 DEF FeedInv, FeedTypeOK, TurnIsOfWorker, feedVars, workerVars, serverVars, clientVars
  <2> QED  BY <2>3, <2>4 DEF FeedInv
<1> QED  BY <1>1, <1>2, <1>3, <1>4, <1>5, <1>6, <1>7, <1>8, <1>9, <1>10, <1>11, <1>12, <1>13, <1>14, <1>15 DEF FeedNext

\* The feed and each of its users stand as follows at every step: what the user has and what
\* is on its way are the supervisor's own frames, in order and without a gap.
THEOREM FeedInvariant == FeedSpec => []FeedInv
<1>1. FeedInit => FeedInv  BY FeedAssumption, FeedBegins
<1>2. FeedInv /\ [FeedNext]_feedVars => FeedInv'  BY FeedAssumption, FeedStep
<1> QED  BY <1>1, <1>2, PTL DEF FeedSpec

LEMMA FeedImplies ==
  ASSUME FeedInv
  PROVE  FeedIsExact
<1>1. FeedTypeOK /\ TurnIsOfWorker  BY DEF FeedInv
<1>2. PICK H \in Seq(Payloads) : FeedFits(H)  BY DEF FeedInv
<1>3. ~follow.torn  BY <1>2 DEF FeedFits
<1>4. turn # 0 => turn = gen /\ worker # "off"  BY <1>1 DEF TurnIsOfWorker
<1>5. ASSUME CaughtUp PROVE follow.seq = seq /\ follow.epoch = epoch /\ follow.open \in {0, turn}
  <2>1. client \in Online /\ conn.open /\ conn.feed /\ wire = <<>>  BY <1>5 DEF CaughtUp
  <2>2. wants = "feed" /\ FeedUser(H)  BY <1>2, <2>1 DEF FeedFits, ViewUser
  <2>3. client = "live"
    <3>1. client \in {"registering", "subscribing", "live"}  BY <2>1, <2>2 DEF FeedUser, Online
    <3> QED  BY <2>1, <2>2, <3>1 DEF FeedUser
  <2>4. follow.epoch = epoch /\ follow.seq + Len(wire) = seq  BY <2>1, <2>2, <2>3 DEF FeedUser
  <2>5. follow.seq \in Nat /\ seq \in Nat /\ turn \in Nat /\ follow.open \in Nat  BY <1>1 DEF FeedTypeOK
  <2>6. follow.seq = seq
    <3>1. Len(wire) = 0  BY <2>1
    <3> QED  BY <2>4, <2>5, <3>1
  <2>7. Now(follow.epoch)  BY <1>2, <2>1, <2>4 DEF Now, FeedFits
  <2>8. Believes(H, seq, follow.open)  BY <1>2, <2>6, <2>7 DEF FeedFits, FollowFits
  <2>9. ASSUME follow.open # 0 PROVE follow.open = turn
    <3>1. PICK i \in DOMAIN H : /\ H[i].type = "turn_start" /\ H[i].turn = follow.open
                                /\ \A j \in DOMAIN H : i < j /\ j <= seq => ~IsTurn(H[j])
      BY <2>8, <2>9 DEF Believes
    <3>2. \A j \in DOMAIN H : j <= seq
      <4>1. Len(H) = seq /\ DOMAIN H = 1..Len(H)  BY <1>2 DEF FeedFits, RingKeeps
      <4> QED  BY <4>1
    <3>3. TurnIsTold(H, turn)  BY <1>2 DEF FeedFits
    <3> QED  BY <3>1, <3>2, <3>3 DEF TurnIsTold
  <2> QED  BY <2>4, <2>6, <2>9
<1> QED  BY <1>3, <1>4, <1>5 DEF FeedIsExact

\* Between the gaps that it is told of, a user of the root output gets every frame once and in
\* order, over however many connections, workers and supervisors, and one who waits for
\* nothing is at the feed's end (subscribe, #publish, #write).
THEOREM FeedAlwaysExact == FeedSpec => []FeedIsExact
<1>1. FeedInv => FeedIsExact  BY FeedImplies
<1> QED  BY <1>1, FeedInvariant, PTL

-----------------------------------------------------------------------------
(* A user who shows the messages.  While no worker lives nothing is said of its view: it is of *)
(* a generation that is over when the next one does.                                           *)

WorkerLives == worker \in {"idle", "busy"}
Ends == {"text_end", "message_end"}
Ended(m) == m \in file \/ (m = open /\ over)
Saying(m) == m = open /\ ~over

\* Of the events behind the p-th: whether they are of m at all, end it, or add to it.
Mentioned(events, p, m) == \E i \in p+1..Len(events) : events[i].message = m
EndComes(events, p, m) == \E i \in p+1..Len(events) : events[i].message = m /\ events[i].type \in Ends
DeltaComes(events, p, m) == \E i \in p+1..Len(events) : events[i].message = m /\ events[i].type = "text_delta"

\* m's are the last n, each a delta.
LastAre(events, p, m, n) ==
  /\ n \in Nat /\ p + n <= Len(events)
  /\ \A i \in p+1..Len(events) : /\ events[i].message = m <=> i > Len(events) - n
                                 /\ events[i].message = m => events[i].type = "text_delta"

\* A message ends behind its deltas, and a run behind the ends of the messages that it brought.
Ordered(events) ==
  \A i, j \in DOMAIN events : i < j =>
    /\ events[i].type \in Ends /\ events[j].type = "text_delta" => events[i].message # events[j].message
    /\ events[i].type = "text_delta" /\ events[j].type = "agent_settled" =>
         \E k \in i..j : events[k].message = events[i].message /\ events[k].type \in Ends
SettledBehindEnd(events, m) ==
  \A j \in DOMAIN events : events[j].type = "agent_settled" =>
    \E k \in 1..j : events[k].message = m /\ events[k].type \in Ends

\* What the worker says, and what is read of it.
SaidInOrder ==
  /\ worker # "busy" => open = 0
  /\ open = 0 => ~over
  /\ open # 0 => said[open] > 0 /\ open \notin file
  /\ \A m \in file : said[m] > 0
  /\ worker = "off" => rows = NoRows
  /\ \A j, k \in Slots : reads[j].phase = "read" /\ reads[k].phase = "read" => j = k
  /\ \A k \in Slots : reads[k].page \subseteq file

\* The live row of m: what is said and not in it yet is in the pipe.  A message that ended has its row,
\* or its end is on the way, or the row was dropped; then the read that is still to be answered has it.
RowFollows(m) ==
  IF Saying(m)
  THEN /\ LastAre(pipe, 0, m, said[m] - rows[m].text)
       /\ rows[m].text > 0 => Len(pipe) = said[m] - rows[m].text
  ELSE \/ rows[m].done
       \/ EndComes(pipe, 0, m)
       \/ /\ rows[m] = NoRow /\ m \in file /\ ~DeltaComes(pipe, 0, m)
          /\ \A k \in Slots : reads[k].phase = "read" => m \in reads[k].page
       \/ rows[m] = NoRow /\ m \notin file \cup {open} /\ ~Mentioned(pipe, 0, m)
RowIsTrue(m) ==
  /\ rows[m].done => Ended(m) /\ rows[m].text = said[m] /\ ~DeltaComes(pipe, 0, m)
  /\ rows[m].text > 0 /\ ~rows[m].done => SettledBehindEnd(pipe, m)
  /\ RowFollows(m)
EndsAreTrue == \A m \in Messages, i \in DOMAIN pipe : pipe[i].message = m /\ pipe[i].type \in Ends => Ended(m)
RowsAreTrue ==
  /\ EndsAreTrue /\ Ordered(pipe)
  /\ \A m \in Messages : RowIsTrue(m)

\* The requests and answers of one connection.
AllEvents(frames, p) == \A i \in p+1..Len(frames) : frames[i].kind = "actor_event"
NoneMine == \A k \in Slots : ~reads[k].mine
Conversation ==
  /\ client = "registering" =>
       /\ NoneMine /\ ~conn.watching /\ asked \in {"register", "none"} /\ Len(wire) <= 1
       /\ asked = "register" => wire = <<>>
       /\ \A i \in DOMAIN wire : wire[i].kind = "registered"
  /\ client = "attaching" =>
       /\ NoneMine /\ asked \in {"watch", "none"}
       /\ asked = "watch" => wire = <<>> /\ ~conn.watching
       /\ asked = "none" => conn.watching /\ wire # <<>> /\ wire[1].kind = "watching" /\ AllEvents(wire, 1)
  /\ client = "reading" =>
       /\ conn.watching /\ asked \in {"read", "none"}
       /\ asked = "read" => NoneMine /\ AllEvents(wire, 0)
       /\ ~NoneMine => AllEvents(wire, 0)
       /\ \A j, k \in Slots : reads[j].mine /\ reads[k].mine => j = k
       /\ \A i \in DOMAIN wire : wire[i].kind = "actor_event" \/ (wire[i].kind = "messages" /\ AllEvents(wire, i))
  /\ client = "live" => conn.watching /\ asked = "none" /\ NoneMine /\ AllEvents(wire, 0)

\* A connection is open only while the client is online.
Talk == (client \notin Online => NoneMine) /\ (conn.open => Conversation)

\* Where the user's rows are, or the next snapshot for it; the frames behind lead from there to the live rows.
IsBase(p) == IF p = 0 THEN client = "live" ELSE wire[p].kind = "messages"
Base(p) == IF p = 0 THEN view ELSE wire[p]
ShownFollows(p, m, shown) ==
  /\ shown.done => Ended(m) /\ shown.text = said[m]
  /\ \A i \in p+1..Len(wire) : wire[i].message = m /\ wire[i].type \in Ends => Ended(m) /\ wire[i].text = said[m]
  /\ IF Saying(m) THEN LastAre(wire, p, m, rows[m].text - shown.text)
     ELSE \/ shown.done
          \/ EndComes(wire, p, m) \/ EndComes(pipe, 0, m)
          \/ shown = NoRow /\ m \notin file \cup {open} /\ ~Mentioned(wire, p, m) /\ ~Mentioned(pipe, 0, m)
ViewFollows ==
  \A p \in 0..Len(wire) : IsBase(p) /\ Base(p).gen = gen =>
    \A m \in Messages : ShownFollows(p, m, Base(p).rows[m])

OldOrPresent ==
  /\ view.gen <= gen
  /\ \A i \in DOMAIN wire : wire[i].kind = "messages" => wire[i].gen <= gen

ViewInv ==
  /\ SaidInOrder
  /\ WorkerLives => RowsAreTrue
  /\ wants = "view" =>
       /\ Talk /\ OldOrPresent
       /\ conn.open /\ WorkerLives => ViewFollows

-----------------------------------------------------------------------------
(* Events that are added to a sequence, and taken from it. *)

LEMMA AppendedEvent ==
  ASSUME NEW S, NEW s \in Seq(S), NEW e \in S
  PROVE  /\ Append(s, e) \in Seq(S) /\ Len(s) \in Nat /\ Len(Append(s, e)) = Len(s) + 1
         /\ DOMAIN s = 1..Len(s) /\ DOMAIN Append(s, e) = 1..Len(s) + 1
         /\ \A i \in 1..Len(s) : Append(s, e)[i] = s[i]
         /\ Append(s, e)[Len(s) + 1] = e
<1>1. /\ Append(s, e) \in Seq(S) /\ Len(s) \in Nat /\ Len(Append(s, e)) = Len(s) + 1
      /\ \A i \in 1..Len(s) : Append(s, e)[i] = s[i]
      /\ Append(s, e)[Len(s) + 1] = e
  BY AppendProperties
<1> QED  BY <1>1

\* What the added event e says of m, and what was said before.
LEMMA AppendComes ==
  ASSUME NEW S, NEW s \in Seq(S), NEW e \in S, NEW m, NEW p \in 0..Len(s)
  PROVE  /\ Mentioned(Append(s, e), p, m) <=> Mentioned(s, p, m) \/ e.message = m
         /\ EndComes(Append(s, e), p, m) <=> EndComes(s, p, m) \/ (e.message = m /\ e.type \in Ends)
         /\ DeltaComes(Append(s, e), p, m) <=> DeltaComes(s, p, m) \/ (e.message = m /\ e.type = "text_delta")
<1>1. Len(s) \in Nat /\ Len(Append(s, e)) = Len(s) + 1
      /\ (\A i \in 1..Len(s) : Append(s, e)[i] = s[i]) /\ Append(s, e)[Len(s) + 1] = e
  BY AppendedEvent
<1>2. /\ \A i \in p+1..Len(s)+1 : (i \in 1..Len(s) /\ i \in p+1..Len(s)) \/ i = Len(s) + 1
      /\ \A i \in p+1..Len(s) : i \in 1..Len(s) /\ i \in p+1..Len(s)+1
      /\ Len(s) + 1 \in p+1..Len(s)+1
  BY <1>1
<1>3. Mentioned(Append(s, e), p, m) <=> Mentioned(s, p, m) \/ e.message = m
  <2>1. ASSUME Mentioned(Append(s, e), p, m) PROVE Mentioned(s, p, m) \/ e.message = m
    BY <1>1, <1>2, <2>1 DEF Mentioned
  <2>2. ASSUME Mentioned(s, p, m) \/ e.message = m PROVE Mentioned(Append(s, e), p, m)
    BY <1>1, <1>2, <2>2 DEF Mentioned
  <2> QED  BY <2>1, <2>2
<1>4. EndComes(Append(s, e), p, m) <=> EndComes(s, p, m) \/ (e.message = m /\ e.type \in Ends)
  <2>1. ASSUME EndComes(Append(s, e), p, m) PROVE EndComes(s, p, m) \/ (e.message = m /\ e.type \in Ends)
    BY <1>1, <1>2, <2>1 DEF EndComes
  <2>2. ASSUME EndComes(s, p, m) \/ (e.message = m /\ e.type \in Ends) PROVE EndComes(Append(s, e), p, m)
    BY <1>1, <1>2, <2>2 DEF EndComes
  <2> QED  BY <2>1, <2>2
<1>5. DeltaComes(Append(s, e), p, m) <=> DeltaComes(s, p, m) \/ (e.message = m /\ e.type = "text_delta")
  <2>1. ASSUME DeltaComes(Append(s, e), p, m) PROVE DeltaComes(s, p, m) \/ (e.message = m /\ e.type = "text_delta")
    BY <1>1, <1>2, <2>1 DEF DeltaComes
  <2>2. ASSUME DeltaComes(s, p, m) \/ (e.message = m /\ e.type = "text_delta") PROVE DeltaComes(Append(s, e), p, m)
    BY <1>1, <1>2, <2>2 DEF DeltaComes
  <2> QED  BY <2>1, <2>2
<1> QED  BY <1>3, <1>4, <1>5

\* A delta adds one to m's; another's event can only come if m has none.
LEMMA AppendLast ==
  ASSUME NEW S, NEW s \in Seq(S), NEW e \in S, NEW m, NEW p \in 0..Len(s), NEW n, LastAre(s, p, m, n)
  PROVE  /\ e.message = m /\ e.type = "text_delta" => LastAre(Append(s, e), p, m, n + 1)
         /\ e.message # m /\ n = 0 => LastAre(Append(s, e), p, m, n)
<1>1. Len(s) \in Nat /\ Len(Append(s, e)) = Len(s) + 1
      /\ (\A i \in 1..Len(s) : Append(s, e)[i] = s[i]) /\ Append(s, e)[Len(s) + 1] = e
  BY AppendedEvent
<1>2. n \in Nat /\ p + n <= Len(s)
      /\ \A i \in p+1..Len(s) : /\ s[i].message = m <=> i > Len(s) - n
                                /\ s[i].message = m => s[i].type = "text_delta"
  BY DEF LastAre
<1>3. \A i \in p+1..Len(s)+1 : (i \in 1..Len(s) /\ i \in p+1..Len(s)) \/ i = Len(s) + 1
  BY <1>1
<1>4. ASSUME e.message = m, e.type = "text_delta" PROVE LastAre(Append(s, e), p, m, n + 1)
  <2>1. n + 1 \in Nat /\ p + (n + 1) <= Len(Append(s, e))  BY <1>1, <1>2
  <2>2. ASSUME NEW i \in p+1..Len(s)+1
        PROVE  /\ Append(s, e)[i].message = m <=> i > Len(s) + 1 - (n + 1)
               /\ Append(s, e)[i].message = m => Append(s, e)[i].type = "text_delta"
    <3>1. CASE i \in 1..Len(s) /\ i \in p+1..Len(s)  BY <1>1, <1>2, <3>1
    <3>2. CASE i = Len(s) + 1  BY <1>1, <1>2, <1>4, <3>2
    <3> QED  BY <1>3, <3>1, <3>2
  <2> QED  BY <1>1, <2>1, <2>2 DEF LastAre
<1>5. ASSUME e.message # m, n = 0 PROVE LastAre(Append(s, e), p, m, n)
  <2>1. p + n <= Len(Append(s, e))  BY <1>1, <1>2
  <2>2. ASSUME NEW i \in p+1..Len(s)+1
        PROVE  /\ Append(s, e)[i].message = m <=> i > Len(s) + 1 - n
               /\ Append(s, e)[i].message = m => Append(s, e)[i].type = "text_delta"
    <3>1. CASE i \in 1..Len(s) /\ i \in p+1..Len(s)  BY <1>1, <1>2, <1>5, <3>1
    <3>2. CASE i = Len(s) + 1  BY <1>1, <1>2, <1>5, <3>2
    <3> QED  BY <1>3, <3>1, <3>2
  <2> QED  BY <1>1, <1>2, <2>1, <2>2 DEF LastAre
<1> QED  BY <1>4, <1>5

LEMMA AppendOrdered ==
  ASSUME NEW S, NEW s \in Seq(S), NEW e \in S, Ordered(s),
         e.type = "text_delta" => ~EndComes(s, 0, e.message),
         e.type = "agent_settled" => \A m : DeltaComes(s, 0, m) => EndComes(s, 0, m)
  PROVE  Ordered(Append(s, e))
<1>1. Len(s) \in Nat /\ DOMAIN s = 1..Len(s) /\ DOMAIN Append(s, e) = 1..Len(s) + 1
      /\ (\A i \in 1..Len(s) : Append(s, e)[i] = s[i]) /\ Append(s, e)[Len(s) + 1] = e
  BY AppendedEvent
<1> DEFINE t == Append(s, e)
<1> HIDE DEF t
<1>2. (\A i \in 1..Len(s) : t[i] = s[i]) /\ t[Len(s) + 1] = e /\ DOMAIN t = 1..Len(s) + 1  BY <1>1 DEF t
<1>3. SUFFICES ASSUME NEW i \in DOMAIN t, NEW j \in DOMAIN t, i < j
               PROVE  /\ t[i].type \in Ends /\ t[j].type = "text_delta" => t[i].message # t[j].message
                      /\ t[i].type = "text_delta" /\ t[j].type = "agent_settled" =>
                           \E k \in i..j : t[k].message = t[i].message /\ t[k].type \in Ends
  BY DEF Ordered, t
<1>4. i \in 1..Len(s) /\ t[i] = s[i]  BY <1>1, <1>2, <1>3
<1>5. CASE j \in 1..Len(s)
  <2>1. t[j] = s[j] /\ i \in DOMAIN s /\ j \in DOMAIN s  BY <1>1, <1>2, <1>4, <1>5
  <2>2. s[i].type \in Ends /\ s[j].type = "text_delta" => s[i].message # s[j].message  BY <1>3, <2>1 DEF Ordered
  <2>3. ASSUME s[i].type = "text_delta", s[j].type = "agent_settled"
        PROVE  \E k \in i..j : t[k].message = t[i].message /\ t[k].type \in Ends
    <3>1. PICK k \in i..j : s[k].message = s[i].message /\ s[k].type \in Ends  BY <1>3, <2>1, <2>3 DEF Ordered
    <3>2. k \in 1..Len(s)  BY <1>1, <1>4, <1>5, <3>1
    <3> QED  BY <1>2, <1>4, <3>1, <3>2
  <2> QED  BY <1>4, <2>1, <2>2, <2>3
<1>6. CASE j = Len(s) + 1
  <2>1. t[j] = e  BY <1>2, <1>6
  <2>2. ASSUME s[i].type \in Ends, e.type = "text_delta" PROVE s[i].message # e.message
    <3>1. i \in 0+1..Len(s)  BY <1>4
    <3> QED  BY <2>2, <3>1 DEF EndComes
  <2>3. ASSUME s[i].type = "text_delta", e.type = "agent_settled"
        PROVE  \E k \in i..j : t[k].message = t[i].message /\ t[k].type \in Ends
    <3>1. DeltaComes(s, 0, s[i].message)
      <4>1. i \in 0+1..Len(s)  BY <1>4
      <4> QED  BY <2>3, <4>1 DEF DeltaComes
    <3>2. PICK k \in 0+1..Len(s) : s[k].message = s[i].message /\ s[k].type \in Ends  BY <2>3, <3>1 DEF EndComes
    <3>3. k \in 1..Len(s) /\ i \in 1..Len(s)  BY <1>4, <3>2
    <3>4. ~(k < i)  BY <1>1, <2>3, <3>2, <3>3 DEF Ordered
    <3>5. k \in i..j /\ t[k] = s[k]  BY <1>1, <1>2, <1>6, <3>3, <3>4
    <3> QED  BY <1>4, <3>2, <3>5
  <2> QED  BY <1>4, <2>1, <2>2, <2>3
<1> QED  BY <1>1, <1>2, <1>5, <1>6

LEMMA AppendSettled ==
  ASSUME NEW S, NEW s \in Seq(S), NEW e \in S, NEW m, SettledBehindEnd(s, m),
         e.type = "agent_settled" => EndComes(s, 0, m)
  PROVE  SettledBehindEnd(Append(s, e), m)
<1>1. Len(s) \in Nat /\ DOMAIN s = 1..Len(s) /\ DOMAIN Append(s, e) = 1..Len(s) + 1
      /\ (\A i \in 1..Len(s) : Append(s, e)[i] = s[i]) /\ Append(s, e)[Len(s) + 1] = e
  BY AppendedEvent
<1> DEFINE t == Append(s, e)
<1> HIDE DEF t
<1>2. (\A i \in 1..Len(s) : t[i] = s[i]) /\ t[Len(s) + 1] = e /\ DOMAIN t = 1..Len(s) + 1  BY <1>1 DEF t
<1>3. SUFFICES ASSUME NEW j \in DOMAIN t, t[j].type = "agent_settled"
               PROVE  \E k \in 1..j : t[k].message = m /\ t[k].type \in Ends
  BY DEF SettledBehindEnd, t
<1>4. CASE j \in 1..Len(s)
  <2>1. PICK k \in 1..j : s[k].message = m /\ s[k].type \in Ends  BY <1>1, <1>2, <1>3, <1>4 DEF SettledBehindEnd
  <2>2. k \in 1..Len(s)  BY <1>1, <1>4, <2>1
  <2> QED  BY <1>2, <2>1, <2>2
<1>5. CASE j = Len(s) + 1
  <2>1. PICK k \in 0+1..Len(s) : s[k].message = m /\ s[k].type \in Ends  BY <1>2, <1>3, <1>5 DEF EndComes
  <2>2. k \in 1..Len(s) /\ k \in 1..j  BY <1>1, <1>5, <2>1
  <2> QED  BY <1>2, <2>1, <2>2
<1> QED  BY <1>1, <1>2, <1>4, <1>5

\* Without the first one, the others are one place nearer.
LEMMA TailComes ==
  ASSUME NEW S, NEW s \in Seq(S), s # <<>>, NEW m, NEW p \in 0..Len(s) - 1, NEW n
  PROVE  /\ Mentioned(Tail(s), p, m) <=> Mentioned(s, p + 1, m)
         /\ EndComes(Tail(s), p, m) <=> EndComes(s, p + 1, m)
         /\ DeltaComes(Tail(s), p, m) <=> DeltaComes(s, p + 1, m)
         /\ LastAre(Tail(s), p, m, n) <=> LastAre(s, p + 1, m, n)
<1>1. Len(s) \in Nat \ {0} /\ Len(Tail(s)) = Len(s) - 1 /\ \A i \in 1..Len(s) - 1 : Tail(s)[i] = s[i + 1]
  <2>1. Len(s) \in Nat \ {0}  OBVIOUS
  <2>2. Len(Tail(s)) = Len(s) - 1 /\ \A i \in 1..Len(Tail(s)) : Tail(s)[i] = s[i + 1]  BY HeadTailProperties
  <2> QED  BY <2>1, <2>2
<1> DEFINE t == Tail(s)
<1> HIDE DEF t
<1>2. \A i \in p+1..Len(t) : t[i] = s[i + 1] /\ i + 1 \in p+1+1..Len(s)  BY <1>1 DEF t
<1>3. \A i \in p+1+1..Len(s) : t[i - 1] = s[i] /\ i - 1 \in p+1..Len(t)
  <2> TAKE i \in p+1+1..Len(s)
  <2>1. i - 1 \in p+1..Len(t) /\ i - 1 + 1 = i  BY <1>1 DEF t
  <2> QED  BY <1>2, <2>1
<1>4. Mentioned(t, p, m) <=> Mentioned(s, p + 1, m)
  <2>1. ASSUME Mentioned(t, p, m) PROVE Mentioned(s, p + 1, m)  BY <1>2, <2>1 DEF Mentioned
  <2>2. ASSUME Mentioned(s, p + 1, m) PROVE Mentioned(t, p, m)  BY <1>3, <2>2 DEF Mentioned
  <2> QED  BY <2>1, <2>2
<1>5. EndComes(t, p, m) <=> EndComes(s, p + 1, m)
  <2>1. ASSUME EndComes(t, p, m) PROVE EndComes(s, p + 1, m)  BY <1>2, <2>1 DEF EndComes
  <2>2. ASSUME EndComes(s, p + 1, m) PROVE EndComes(t, p, m)  BY <1>3, <2>2 DEF EndComes
  <2> QED  BY <2>1, <2>2
<1>6. DeltaComes(t, p, m) <=> DeltaComes(s, p + 1, m)
  <2>1. ASSUME DeltaComes(t, p, m) PROVE DeltaComes(s, p + 1, m)  BY <1>2, <2>1 DEF DeltaComes
  <2>2. ASSUME DeltaComes(s, p + 1, m) PROVE DeltaComes(t, p, m)  BY <1>3, <2>2 DEF DeltaComes
  <2> QED  BY <2>1, <2>2
<1>7. LastAre(t, p, m, n) <=> LastAre(s, p + 1, m, n)
  <2>1. Len(t) = Len(s) - 1  BY <1>1 DEF t
  <2>2. ASSUME LastAre(t, p, m, n) PROVE LastAre(s, p + 1, m, n)
    <3>1. n \in Nat /\ p + 1 + n <= Len(s)  BY <1>1, <2>1, <2>2 DEF LastAre
    <3>2. ASSUME NEW i \in p+1+1..Len(s)
          PROVE  /\ s[i].message = m <=> i > Len(s) - n
                 /\ s[i].message = m => s[i].type = "text_delta"
      <4>1. t[i - 1] = s[i] /\ i - 1 \in p+1..Len(t)  BY <1>3
      <4>2. /\ t[i - 1].message = m <=> i - 1 > Len(t) - n
            /\ t[i - 1].message = m => t[i - 1].type = "text_delta"
        BY <2>2, <4>1 DEF LastAre
      <4>3. i - 1 > Len(t) - n <=> i > Len(s) - n  BY <1>1, <2>1, <3>1
      <4> QED  BY <4>1, <4>2, <4>3
    <3> QED  BY <3>1, <3>2 DEF LastAre
  <2>3. ASSUME LastAre(s, p + 1, m, n) PROVE LastAre(t, p, m, n)
    <3>1. n \in Nat /\ p + n <= Len(t)  BY <1>1, <2>1, <2>3 DEF LastAre
    <3>2. ASSUME NEW i \in p+1..Len(t)
          PROVE  /\ t[i].message = m <=> i > Len(t) - n
                 /\ t[i].message = m => t[i].type = "text_delta"
      <4>1. t[i] = s[i + 1] /\ i + 1 \in p+1+1..Len(s)  BY <1>2
      <4>2. /\ s[i + 1].message = m <=> i + 1 > Len(s) - n
            /\ s[i + 1].message = m => s[i + 1].type = "text_delta"
        BY <2>3, <4>1 DEF LastAre
      <4>3. i + 1 > Len(s) - n <=> i > Len(t) - n  BY <1>1, <2>1, <3>1
      <4> QED  BY <4>1, <4>2, <4>3
    <3> QED  BY <3>1, <3>2 DEF LastAre
  <2> QED  BY <2>2, <2>3
<1> QED  BY <1>4, <1>5, <1>6, <1>7 DEF t

\* The first one, and the others.
LEMMA FirstComes ==
  ASSUME NEW S, NEW s \in Seq(S), s # <<>>, NEW m
  PROVE  /\ Mentioned(s, 0, m) <=> s[1].message = m \/ Mentioned(s, 1, m)
         /\ EndComes(s, 0, m) <=> (s[1].message = m /\ s[1].type \in Ends) \/ EndComes(s, 1, m)
         /\ DeltaComes(s, 0, m) <=> (s[1].message = m /\ s[1].type = "text_delta") \/ DeltaComes(s, 1, m)
         /\ \A n : LastAre(s, 0, m, n) =>
              IF s[1].message = m THEN s[1].type = "text_delta" /\ n = Len(s) /\ LastAre(s, 1, m, n - 1)
              ELSE n # Len(s) /\ LastAre(s, 1, m, n)
<1>1. Len(s) \in Nat \ {0}  OBVIOUS
<1>2. \A i \in 0+1..Len(s) : i = 1 \/ i \in 1+1..Len(s)  BY <1>1
<1>3. 1 \in 0+1..Len(s) /\ \A i \in 1+1..Len(s) : i \in 0+1..Len(s)  BY <1>1
<1>4. Mentioned(s, 0, m) <=> s[1].message = m \/ Mentioned(s, 1, m)
  <2>1. ASSUME Mentioned(s, 0, m) PROVE s[1].message = m \/ Mentioned(s, 1, m)  BY <1>2, <2>1 DEF Mentioned
  <2>2. ASSUME s[1].message = m \/ Mentioned(s, 1, m) PROVE Mentioned(s, 0, m)  BY <1>3, <2>2 DEF Mentioned
  <2> QED  BY <2>1, <2>2
<1>5. EndComes(s, 0, m) <=> (s[1].message = m /\ s[1].type \in Ends) \/ EndComes(s, 1, m)
  <2>1. ASSUME EndComes(s, 0, m) PROVE (s[1].message = m /\ s[1].type \in Ends) \/ EndComes(s, 1, m)
    BY <1>2, <2>1 DEF EndComes
  <2>2. ASSUME (s[1].message = m /\ s[1].type \in Ends) \/ EndComes(s, 1, m) PROVE EndComes(s, 0, m)
    BY <1>3, <2>2 DEF EndComes
  <2> QED  BY <2>1, <2>2
<1>6. DeltaComes(s, 0, m) <=> (s[1].message = m /\ s[1].type = "text_delta") \/ DeltaComes(s, 1, m)
  <2>1. ASSUME DeltaComes(s, 0, m) PROVE (s[1].message = m /\ s[1].type = "text_delta") \/ DeltaComes(s, 1, m)
    BY <1>2, <2>1 DEF DeltaComes
  <2>2. ASSUME (s[1].message = m /\ s[1].type = "text_delta") \/ DeltaComes(s, 1, m) PROVE DeltaComes(s, 0, m)
    BY <1>3, <2>2 DEF DeltaComes
  <2> QED  BY <2>1, <2>2
<1>7. ASSUME NEW n, LastAre(s, 0, m, n)
      PROVE  IF s[1].message = m THEN s[1].type = "text_delta" /\ n = Len(s) /\ LastAre(s, 1, m, n - 1)
             ELSE n # Len(s) /\ LastAre(s, 1, m, n)
  <2>1. /\ n \in Nat /\ n <= Len(s)
        /\ \A i \in 0+1..Len(s) : /\ s[i].message = m <=> i > Len(s) - n
                                  /\ s[i].message = m => s[i].type = "text_delta"
    BY <1>1, <1>7 DEF LastAre
  <2>2. s[1].message = m <=> 1 > Len(s) - n  BY <1>3, <2>1
  <2>3. CASE s[1].message = m
    <3>1. n = Len(s) /\ n - 1 \in Nat /\ 1 + (n - 1) <= Len(s)  BY <1>1, <2>1, <2>2, <2>3
    <3>2. ASSUME NEW i \in 1+1..Len(s)
          PROVE  /\ s[i].message = m <=> i > Len(s) - (n - 1)
                 /\ s[i].message = m => s[i].type = "text_delta"
      <4>1. i > Len(s) - n <=> i > Len(s) - (n - 1)  BY <1>1, <3>1
      <4> QED  BY <1>3, <2>1, <4>1
    <3>3. LastAre(s, 1, m, n - 1)  BY <3>1, <3>2 DEF LastAre
    <3> QED  BY <1>3, <2>1, <2>3, <3>1, <3>3
  <2>4. CASE s[1].message # m
    <3>1. n # Len(s) /\ 1 + n <= Len(s)  BY <1>1, <2>1, <2>2, <2>4
    <3>2. LastAre(s, 1, m, n)  BY <1>3, <2>1, <3>1 DEF LastAre
    <3> QED  BY <2>4, <3>1, <3>2
  <2> QED  BY <2>3, <2>4
<1> QED  BY <1>4, <1>5, <1>6, <1>7

LEMMA TailOrdered ==
  ASSUME NEW S, NEW s \in Seq(S), s # <<>>, Ordered(s)
  PROVE  /\ Ordered(Tail(s))
         /\ s[1].type \in Ends => ~DeltaComes(s, 1, s[1].message)
         /\ s[1].type = "text_delta" => SettledBehindEnd(Tail(s), s[1].message)
         /\ \A m : SettledBehindEnd(s, m) /\ ~(s[1].message = m /\ s[1].type \in Ends) =>
              s[1].type # "agent_settled" /\ SettledBehindEnd(Tail(s), m)
<1> DEFINE t == Tail(s)
<1>1. Len(s) \in Nat \ {0} /\ Len(t) = Len(s) - 1 /\ DOMAIN t = 1..Len(s) - 1 /\ DOMAIN s = 1..Len(s)
      /\ \A i \in 1..Len(s) - 1 : t[i] = s[i + 1]
  <2>1. Len(s) \in Nat \ {0} /\ DOMAIN s = 1..Len(s)  OBVIOUS
  <2>2. Tail(s) \in Seq(S) /\ Len(Tail(s)) = Len(s) - 1 /\ \A i \in 1..Len(Tail(s)) : Tail(s)[i] = s[i + 1]  BY HeadTailProperties
  <2>3. DOMAIN Tail(s) = 1..Len(s) - 1  BY <2>1, <2>2
  <2> QED  BY <2>1, <2>2, <2>3
<1> HIDE DEF t
<1>2. 1 \in DOMAIN s /\ \A i \in DOMAIN t : i + 1 \in DOMAIN s /\ i + 1 > 1 /\ t[i] = s[i + 1]  BY <1>1
<1>3. Ordered(t)
  <2>1. SUFFICES ASSUME NEW i \in DOMAIN t, NEW j \in DOMAIN t, i < j
                 PROVE  /\ t[i].type \in Ends /\ t[j].type = "text_delta" => t[i].message # t[j].message
                        /\ t[i].type = "text_delta" /\ t[j].type = "agent_settled" =>
                             \E k \in i..j : t[k].message = t[i].message /\ t[k].type \in Ends
    BY DEF Ordered
  <2>2. i + 1 < j + 1 /\ i \in 1..Len(s) - 1 /\ j \in 1..Len(s) - 1  BY <1>1, <2>1
  <2>3. t[i].type \in Ends /\ t[j].type = "text_delta" => t[i].message # t[j].message  BY <1>2, <2>2 DEF Ordered
  <2>4. ASSUME t[i].type = "text_delta", t[j].type = "agent_settled"
        PROVE  \E k \in i..j : t[k].message = t[i].message /\ t[k].type \in Ends
    <3>0. /\ s[i+1].type = "text_delta" /\ s[j+1].type = "agent_settled"
          /\ i + 1 \in DOMAIN s /\ j + 1 \in DOMAIN s /\ i + 1 < j + 1
      BY <1>2, <2>2, <2>4
    <3>1. PICK k \in i+1..j+1 : s[k].message = s[i+1].message /\ s[k].type \in Ends
      <4>1. \A x, y \in DOMAIN s : x < y /\ s[x].type = "text_delta" /\ s[y].type = "agent_settled" =>
                 \E k \in x..y : s[k].message = s[x].message /\ s[k].type \in Ends
        BY DEF Ordered
      <4> QED  BY <3>0, <4>1
    <3>2. k - 1 \in i..j /\ k - 1 \in 1..Len(s) - 1 /\ k - 1 + 1 = k  BY <1>1, <2>2, <3>1
    <3>3. t[k - 1] = s[k]  BY <1>1, <3>2
    <3> QED  BY <1>2, <3>1, <3>2, <3>3
  <2> QED  BY <2>3, <2>4
<1>4. ASSUME s[1].type \in Ends PROVE ~DeltaComes(s, 1, s[1].message)
  <2> SUFFICES ASSUME NEW i \in 1+1..Len(s), s[i].message = s[1].message, s[i].type = "text_delta" PROVE FALSE
    BY DEF DeltaComes
  <2>1. i \in DOMAIN s /\ 1 < i  BY <1>1
  <2> QED  BY <1>2, <1>4, <2>1 DEF Ordered
<1>5. ASSUME s[1].type = "text_delta" PROVE SettledBehindEnd(t, s[1].message)
  <2> SUFFICES ASSUME NEW j \in DOMAIN t, t[j].type = "agent_settled"
               PROVE  \E k \in 1..j : t[k].message = s[1].message /\ t[k].type \in Ends
    BY DEF SettledBehindEnd
  <2>1. j \in 1..Len(s) - 1 /\ 1 < j + 1  BY <1>1
  <2>2. PICK k \in 1..j+1 : s[k].message = s[1].message /\ s[k].type \in Ends  BY <1>2, <1>5, <2>1 DEF Ordered
  <2>3. k # 1  BY <1>5, <2>2 DEF Ends
  <2>4. k - 1 \in 1..j /\ k - 1 \in 1..Len(s) - 1 /\ k - 1 + 1 = k  BY <1>1, <2>1, <2>2, <2>3
  <2>5. t[k - 1] = s[k]  BY <1>1, <2>4
  <2> QED  BY <2>2, <2>4, <2>5
<1>6. ASSUME NEW m, SettledBehindEnd(s, m), ~(s[1].message = m /\ s[1].type \in Ends)
      PROVE  s[1].type # "agent_settled" /\ SettledBehindEnd(t, m)
  <2>1. s[1].type # "agent_settled"
    <3> SUFFICES ASSUME s[1].type = "agent_settled" PROVE FALSE  OBVIOUS
    <3>1. PICK k \in 1..1 : s[k].message = m /\ s[k].type \in Ends  BY <1>2, <1>6 DEF SettledBehindEnd
    <3>2. k = 1  BY <3>1
    <3> QED  BY <1>6, <3>1, <3>2
  <2>2. SettledBehindEnd(t, m)
    <3> SUFFICES ASSUME NEW j \in DOMAIN t, t[j].type = "agent_settled"
                 PROVE  \E k \in 1..j : t[k].message = m /\ t[k].type \in Ends
      BY DEF SettledBehindEnd
    <3>1. j \in 1..Len(s) - 1  BY <1>1
    <3>2. PICK k \in 1..j+1 : s[k].message = m /\ s[k].type \in Ends  BY <1>2, <1>6 DEF SettledBehindEnd
    <3>3. k # 1  BY <1>6, <3>2
    <3>4. k - 1 \in 1..j /\ k - 1 \in 1..Len(s) - 1 /\ k - 1 + 1 = k  BY <1>1, <3>1, <3>2, <3>3
    <3>5. t[k - 1] = s[k]  BY <1>1, <3>4
    <3> QED  BY <3>2, <3>4, <3>5
  <2> QED  BY <2>1, <2>2
<1> QED  BY <1>3, <1>4, <1>5, <1>6 DEF t

-----------------------------------------------------------------------------
(* The live rows are true. *)

\* What is read is still so.
ReadsStay ==
  \A k \in Slots : /\ reads'[k].page \in {{}, reads[k].page}
                   /\ reads'[k].phase = "read" => reads[k].phase = "read" /\ reads'[k].page = reads[k].page

LEMMA EventFacts ==
  ASSUME FeedTypeOK
  PROVE  /\ \A m \in Messages : /\ m # 0 /\ m \in Nat \ {0} /\ said[m] \in Nat /\ rows[m] \in RowRecords
                                /\ rows[m].text \in Nat /\ rows[m].done \in BOOLEAN
         /\ \A e \in Events : /\ e.type \in {"agent_start", "agent_settled", "text_delta", "text_end", "message_end"}
                              /\ e.type \in {"agent_start", "agent_settled"} => e.message = 0
                              /\ e.type \in {"text_delta", "text_end", "message_end"} => e.message \in Messages
         /\ NoRow \in RowRecords /\ NoRow.text = 0 /\ NoRow.done = FALSE
         /\ \A m \in Messages : NoRows[m] = NoRow
<1>1. \A m \in Messages : m # 0 /\ m \in Nat \ {0}  BY DEF Messages
<1>2. \A m \in Messages : said[m] \in Nat /\ rows[m] \in RowRecords  BY DEF FeedTypeOK, LiveRows
<1>3. \A r \in RowRecords : r.text \in Nat /\ r.done \in BOOLEAN  BY DEF RowRecords
<1>4. NoRow \in RowRecords /\ NoRow.text = 0 /\ NoRow.done = FALSE  BY DEF NoRow, RowRecords
<1>5. \A m \in Messages : NoRows[m] = NoRow  BY DEF NoRows
<1>6. \A e \in Events : /\ e.type \in {"agent_start", "agent_settled", "text_delta", "text_end", "message_end"}
                        /\ e.type \in {"agent_start", "agent_settled"} => e.message = 0
                        /\ e.type \in {"text_delta", "text_end", "message_end"} => e.message \in Messages
  BY DEF Events
<1> QED  BY <1>1, <1>2, <1>3, <1>4, <1>5, <1>6

\* A message's state does not change where none of what it depends on does.
LEMMA RowsStay ==
  ASSUME RowsAreTrue, ReadsStay, UNCHANGED <<said, open, over, file, pipe, rows>>
  PROVE  RowsAreTrue'
<1>1. ASSUME NEW m PROVE (Ended(m)' <=> Ended(m)) /\ (Saying(m)' <=> Saying(m))  BY DEF Ended, Saying
<1>2. ASSUME NEW m, RowFollows(m) PROVE RowFollows(m)'  BY <1>1, <1>2 DEF RowFollows, ReadsStay
<1>3. ASSUME NEW m, RowIsTrue(m) PROVE RowIsTrue(m)'  BY <1>1, <1>2, <1>3 DEF RowIsTrue
<1> QED  BY <1>1, <1>3 DEF RowsAreTrue, EndsAreTrue

\* Without a row, an event or a read there is nothing to be wrong.
LEMMA NoRowsAreTrue ==
  ASSUME FeedTypeOK, rows = NoRows, pipe = <<>>, open = 0, \A k \in Slots : reads[k].phase # "read"
  PROVE  RowsAreTrue
<1>1. DOMAIN pipe = {} /\ Len(pipe) = 0  OBVIOUS
<1>2. Ordered(pipe) /\ EndsAreTrue  BY <1>1 DEF Ordered, EndsAreTrue
<1>3. ASSUME NEW m \in Messages PROVE RowIsTrue(m)
  <2>1. rows[m] = NoRow /\ NoRow.text = 0 /\ ~NoRow.done /\ m # 0  BY EventFacts
  <2>2. \A i \in 0+1..Len(pipe) : FALSE  BY <1>1
  <2>3. ~DeltaComes(pipe, 0, m) /\ ~Mentioned(pipe, 0, m)  BY <2>2 DEF DeltaComes, Mentioned
  <2>4. ~Saying(m)  BY <2>1 DEF Saying
  <2>5. RowFollows(m)  BY <2>1, <2>3, <2>4 DEF RowFollows
  <2> QED  BY <2>1, <2>5 DEF RowIsTrue
<1> QED  BY <1>2, <1>3 DEF RowsAreTrue

\* An event of another message, or of none, is added.
LEMMA RowBeside ==
  ASSUME FeedTypeOK, NEW m \in Messages, RowIsTrue(m), NEW e \in Events, pipe' = Append(pipe, e), e.message # m,
         UNCHANGED <<rows, reads>>, said'[m] = said[m], ~Saying(m), ~Saying(m)', m \in file' <=> m \in file,
         m = open' <=> m = open, Ended(m)' <=> Ended(m), e.type = "agent_settled" /\ ~rows[m].done /\ rows[m].text > 0 => EndComes(pipe, 0, m)
  PROVE  RowIsTrue(m)'
<1>1. pipe \in Seq(Events) /\ 0 \in 0..Len(pipe)
  <2>1. pipe \in Seq(Events)  BY DEF FeedTypeOK
  <2> QED  BY <2>1
<1>2. /\ Mentioned(pipe', 0, m) <=> Mentioned(pipe, 0, m)
      /\ EndComes(pipe', 0, m) <=> EndComes(pipe, 0, m)
      /\ DeltaComes(pipe', 0, m) <=> DeltaComes(pipe, 0, m)
  BY <1>1, AppendComes
<1>3. RowFollows(m)'  BY <1>2 DEF RowIsTrue, RowFollows
<1>4. rows[m].text > 0 /\ ~rows[m].done => SettledBehindEnd(pipe', m)
  BY <1>1, AppendSettled DEF RowIsTrue
<1>5. rows[m].done => Ended(m)' /\ rows[m].text = said'[m] /\ ~DeltaComes(pipe', 0, m)  BY <1>2 DEF RowIsTrue
<1> QED  BY <1>3, <1>4, <1>5 DEF RowIsTrue

\* The worker's end events stay true, and the order of its events.
LEMMA EventAdded ==
  ASSUME FeedTypeOK, RowsAreTrue, NEW e \in Events, pipe' = Append(pipe, e),
         \A m \in Messages : Ended(m) \/ (e.message = m /\ e.type \in Ends) => Ended(m)',
         e.type = "text_delta" => ~EndComes(pipe, 0, e.message),
         e.type = "agent_settled" => \A m : DeltaComes(pipe, 0, m) => EndComes(pipe, 0, m)
  PROVE  Ordered(pipe') /\ EndsAreTrue'
<1>1. pipe \in Seq(Events)  BY DEF FeedTypeOK
<1>2. /\ DOMAIN pipe' = 1..Len(pipe) + 1 /\ Len(pipe) \in Nat /\ DOMAIN pipe = 1..Len(pipe)
      /\ (\A i \in 1..Len(pipe) : pipe'[i] = pipe[i]) /\ pipe'[Len(pipe) + 1] = e
  BY <1>1, AppendedEvent
<1>3. Ordered(pipe')  BY <1>1, AppendOrdered DEF RowsAreTrue
<1>4. ASSUME NEW m \in Messages, NEW i \in DOMAIN pipe', pipe'[i].message = m, pipe'[i].type \in Ends PROVE Ended(m)'
  <2>1. CASE i \in 1..Len(pipe)
    <3>1. pipe'[i] = pipe[i] /\ i \in DOMAIN pipe  BY <1>2, <2>1
    <3>2. Ended(m)  BY <1>4, <3>1 DEF RowsAreTrue, EndsAreTrue
    <3> QED  BY <3>2
  <2>2. CASE i = Len(pipe) + 1
    <3>1. e.message = m /\ e.type \in Ends  BY <1>2, <1>4, <2>2
    <3> QED  BY <3>1
  <2> QED  BY <1>2, <2>1, <2>2
<1>5. EndsAreTrue'  BY <1>4 DEF EndsAreTrue
<1> QED  BY <1>3, <1>5

\* A message whose end is on its way, or that is not to be mentioned, has ended or not begun.
LEMMA NotEnded ==
  ASSUME FeedTypeOK, SaidInOrder, RowsAreTrue, NEW m \in Messages, ~Ended(m)
  PROVE  ~EndComes(pipe, 0, m) /\ ~rows[m].done
<1>1. pipe \in Seq(Events) /\ DOMAIN pipe = 1..Len(pipe)  BY DEF FeedTypeOK
<1>2. ASSUME NEW i \in 0+1..Len(pipe), pipe[i].message = m, pipe[i].type \in Ends PROVE FALSE
  <2>1. i \in DOMAIN pipe  BY <1>1, <1>2
  <2> QED  BY <1>2, <2>1 DEF RowsAreTrue, EndsAreTrue
<1>3. ~rows[m].done  BY DEF RowsAreTrue, RowIsTrue
<1> QED  BY <1>2, <1>3 DEF EndComes

\* Before its next delta, what is said of m and not in its row is in the pipe, and nothing else behind it.
LEMMA BeforeDelta ==
  ASSUME FeedTypeOK, SaidInOrder, RowsAreTrue, NEW m \in Messages, Say(m)
  PROVE  /\ ~Ended(m) /\ ~rows[m].done
         /\ LastAre(pipe, 0, m, said[m] - rows[m].text)
         /\ rows[m].text > 0 => Len(pipe) = said[m] - rows[m].text
         /\ ~Saying(m) => open = 0 /\ rows[m] = NoRow /\ said[m] = 0
<1>1. ~over /\ open \in {0, m} /\ (open = 0 => said[m] = 0) /\ m # 0 /\ NoRow.text = 0
  BY EventFacts DEF Say
<1>2. ~Ended(m)  BY <1>1 DEF Ended, SaidInOrder
<1>3. ~EndComes(pipe, 0, m) /\ ~rows[m].done /\ RowFollows(m)
  BY <1>2, NotEnded DEF RowsAreTrue, RowIsTrue
<1>4. CASE Saying(m)  BY <1>2, <1>3, <1>4 DEF RowFollows
<1>5. CASE ~Saying(m)
  <2>1. open = 0 /\ said[m] = 0 /\ m \notin file  BY <1>1, <1>2, <1>5 DEF Saying, Ended
  <2>2. rows[m] = NoRow /\ ~Mentioned(pipe, 0, m)  BY <1>3, <1>5, <2>1 DEF RowFollows
  <2>3. pipe \in Seq(Events) /\ Len(pipe) \in Nat
    <3>1. pipe \in Seq(Events)  BY DEF FeedTypeOK
    <3> QED  BY <3>1
  <2>4. LastAre(pipe, 0, m, 0)
    <3>1. \A i \in 0+1..Len(pipe) : pipe[i].message # m /\ ~(i > Len(pipe) - 0)  BY <2>2, <2>3 DEF Mentioned
    <3> QED  BY <2>3, <3>1 DEF LastAre
  <2>5. said[m] - rows[m].text = 0 /\ ~(rows[m].text > 0)  BY <1>1, <2>1, <2>2
  <2> QED  BY <1>2, <1>3, <2>1, <2>2, <2>4, <2>5
<1> QED  BY <1>4, <1>5

LEMMA SayKeepsRows ==
  ASSUME FeedTypeOK, SaidInOrder, RowsAreTrue, NEW m \in Messages, Say(m)
  PROVE  RowsAreTrue'
<1> DEFINE e == Event("text_delta", m)
<1>1. /\ ~over /\ over' = over /\ open \in {0, m} /\ open' = m /\ pipe' = Append(pipe, e)
      /\ said' = [said EXCEPT ![m] = @ + 1] /\ UNCHANGED <<rows, reads, file>>
  BY DEF Say, WorkerOnly, serverVars, Emit
<1>2. e \in Events /\ e.message = m /\ e.type = "text_delta"  BY DEF Event, Events
<1> HIDE DEF e
<1>3. m # 0 /\ said[m] \in Nat /\ rows[m].text \in Nat  BY EventFacts
<1>4. pipe \in Seq(Events) /\ said \in [Messages -> Nat]  BY DEF FeedTypeOK
<1>5. /\ ~Ended(m) /\ ~rows[m].done
      /\ LastAre(pipe, 0, m, said[m] - rows[m].text)
      /\ rows[m].text > 0 => Len(pipe) = said[m] - rows[m].text
  BY BeforeDelta
<1>6. \A n : Ended(n)' <=> Ended(n)  BY <1>1 DEF Ended
<1>7. Ordered(pipe') /\ EndsAreTrue'
  <2>1. ~EndComes(pipe, 0, m)  BY <1>5, NotEnded
  <2>2. e.type \notin Ends /\ e.type # "agent_settled"  BY <1>2 DEF Ends
  <2> QED  BY <1>1, <1>2, <1>6, <2>1, <2>2, EventAdded
<1>8. RowIsTrue(m)'
  <2>1. said'[m] = said[m] + 1 /\ rows' = rows  BY <1>1, <1>4
  <2>2. Len(pipe) \in Nat /\ Len(pipe') = Len(pipe) + 1 /\ 0 \in 0..Len(pipe) /\ pipe' \in Seq(Events)
    <3>1. Len(pipe) \in Nat /\ Len(pipe') = Len(pipe) + 1 /\ pipe' \in Seq(Events)  BY <1>1, <1>2, <1>4, AppendedEvent
    <3> QED  BY <3>1
  <2>3. LastAre(pipe', 0, m, said[m] - rows[m].text + 1)  BY <1>1, <1>2, <1>4, <1>5, <2>2, AppendLast
  <2>4. said[m] - rows[m].text + 1 = said'[m] - rows'[m].text  BY <1>3, <2>1
  <2>5. LastAre(pipe', 0, m, said'[m] - rows'[m].text)  BY <2>3, <2>4
  <2>6. rows'[m].text > 0 => Len(pipe') = said'[m] - rows'[m].text  BY <1>5, <2>1, <2>2, <2>4
  <2>7. Saying(m)'  BY <1>1 DEF Saying
  <2>8. RowFollows(m)'  BY <2>5, <2>6, <2>7 DEF RowFollows
  <2>9. rows'[m].text > 0 => SettledBehindEnd(pipe', m)
    <3> SUFFICES ASSUME rows'[m].text > 0, NEW j \in DOMAIN pipe', pipe'[j].type = "agent_settled" PROVE FALSE
      BY DEF SettledBehindEnd
    <3>1. j \in 0+1..Len(pipe') /\ Len(pipe') = said'[m] - rows'[m].text  BY <2>2, <2>6
    <3>2. j > Len(pipe') - (said'[m] - rows'[m].text)  BY <2>2, <3>1
    <3>3. pipe'[j].type = "text_delta"  BY <2>5, <3>1, <3>2 DEF LastAre
    <3> QED  BY <3>3
  <2>10. ~rows'[m].done  BY <1>5, <2>1
  <2> QED  BY <2>8, <2>9, <2>10 DEF RowIsTrue
<1>9. ASSUME NEW n \in Messages, n # m PROVE RowIsTrue(n)'
  <2>1. RowIsTrue(n) /\ n # 0  BY EventFacts DEF RowsAreTrue
  <2>2. ~Saying(n) /\ ~Saying(n)' /\ (n = open' <=> n = open)  BY <1>1, <1>9, <2>1 DEF Saying
  <2>3. said'[n] = said[n]  BY <1>1, <1>4, <1>9
  <2>4. e.type # "agent_settled"  BY <1>2
  <2> QED  BY <1>1, <1>2, <1>6, <1>9, <2>1, <2>2, <2>3, <2>4, RowBeside
<1> QED  BY <1>7, <1>8, <1>9 DEF RowsAreTrue

LEMMA SilentKeepsRows ==
  ASSUME FeedTypeOK, SaidInOrder, WorkerLives, RowsAreTrue, AgentStart \/ AgentSettled
  PROVE  RowsAreTrue'
<1>1. PICK e \in Events : e.message = 0 /\ e.type \in {"agent_start", "agent_settled"} /\ pipe' = Append(pipe, e)
  <2>1. Event("agent_start", 0) \in Events /\ Event("agent_settled", 0) \in Events  BY DEF Event, Events
  <2>2. CASE AgentStart  BY <2>1, <2>2 DEF AgentStart, Emit, Event
  <2>3. CASE AgentSettled  BY <2>1, <2>3 DEF AgentSettled, Emit, Event
  <2> QED  BY <2>2, <2>3
<1>2. open = 0 /\ UNCHANGED <<said, open, over, file, rows, reads>>
  <2>1. CASE AgentStart  BY <2>1 DEF AgentStart, WorkerOnly, serverVars, SaidInOrder
  <2>2. CASE AgentSettled  BY <2>2 DEF AgentSettled, WorkerOnly, serverVars
  <2> QED  BY <2>1, <2>2
<1>3. \A m : Ended(m)' <=> Ended(m)  BY <1>2 DEF Ended
<1>4. ASSUME NEW m \in Messages
      PROVE  /\ RowIsTrue(m) /\ m # 0 /\ ~Saying(m) /\ ~Saying(m)'
             /\ rows[m].text > 0 /\ ~rows[m].done => EndComes(pipe, 0, m)
             /\ DeltaComes(pipe, 0, m) => EndComes(pipe, 0, m)
  <2>1. RowIsTrue(m) /\ m # 0 /\ NoRow.text = 0  BY EventFacts DEF RowsAreTrue
  <2>2. ~Saying(m) /\ ~Saying(m)'  BY <1>2, <2>1 DEF Saying
  <2>3. ~Mentioned(pipe, 0, m) => ~DeltaComes(pipe, 0, m)  BY DEF Mentioned, DeltaComes
  <2> QED  BY <2>1, <2>2, <2>3 DEF RowIsTrue, RowFollows
<1>5. Ordered(pipe') /\ EndsAreTrue'
  <2>1. e.type \notin Ends /\ e.type # "text_delta"  BY <1>1 DEF Ends
  <2>2. ASSUME NEW m, DeltaComes(pipe, 0, m) PROVE EndComes(pipe, 0, m)
    <3>1. PICK i \in 0+1..Len(pipe) : pipe[i].message = m /\ pipe[i].type = "text_delta"  BY <2>2 DEF DeltaComes
    <3>2. pipe[i] \in Events
      <4>1. pipe \in Seq(Events)  BY DEF FeedTypeOK
      <4> QED  BY <3>1, <4>1
    <3>3. m \in Messages  BY <3>1, <3>2, EventFacts
    <3> QED  BY <1>4, <2>2, <3>3
  <2> QED  BY <1>1, <1>3, <2>1, <2>2, EventAdded
<1>6. ASSUME NEW m \in Messages PROVE RowIsTrue(m)'
  <2>1. m = open' <=> m = open  BY <1>2
  <2>2. e.message # m /\ said'[m] = said[m] /\ (m \in file' <=> m \in file)  BY <1>1, <1>2, <1>4
  <2> QED  BY <1>1, <1>2, <1>3, <1>4, <2>1, <2>2, RowBeside
<1> QED  BY <1>5, <1>6 DEF RowsAreTrue

LEMMA EndKeepsRows ==
  ASSUME FeedTypeOK, SaidInOrder, RowsAreTrue, TextEnd \/ Commit
  PROVE  RowsAreTrue'
<1>1. PICK o \in Messages : o = open
  <2>1. open \in Messages  BY DEF TextEnd, Commit, FeedTypeOK
  <2> QED  BY <2>1
<1>2. PICK e \in Events : e.message = o /\ e.type \in Ends /\ e.type # "text_delta" /\ e.type # "agent_settled"
                          /\ pipe' = Append(pipe, e)
  <2>1. Event("text_end", o) \in Events /\ Event("message_end", o) \in Events  BY DEF Event, Events
  <2>2. CASE TextEnd  BY <1>1, <2>1, <2>2 DEF TextEnd, Emit, Event, Ends
  <2>3. CASE Commit  BY <1>1, <2>1, <2>3 DEF Commit, Emit, Event, Ends
  <2> QED  BY <2>2, <2>3
<1>3. \A m \in Messages : m # 0  BY EventFacts
<1>4. /\ UNCHANGED <<said, rows, reads>> /\ open' \in {0, o}
      /\ o \in file' \/ (open' = o /\ over')
      /\ \A m \in Messages : m # o => (m \in file' <=> m \in file)
      /\ \A m \in Messages : m \in file => m \in file'
      /\ (open' = o => over')
  <2>1. CASE TextEnd  BY <1>1, <2>1 DEF TextEnd, WorkerOnly, serverVars
  <2>2. CASE Commit  BY <1>1, <1>3, <2>2 DEF Commit, WorkerOnly, serverVars
  <2> QED  BY <2>1, <2>2
<1>5. Ended(o)' /\ ~Saying(o)'  BY <1>1, <1>3, <1>4 DEF Ended, Saying
<1>6. ASSUME NEW m \in Messages, m # o
      PROVE  /\ m # 0 /\ (m = open' <=> m = open) /\ ~Saying(m) /\ ~Saying(m)'
             /\ (Ended(m)' <=> Ended(m))
  <2>1. m # 0 /\ m # open /\ m # open'  BY <1>1, <1>3, <1>4, <1>6
  <2> QED  BY <1>4, <1>6, <2>1 DEF Saying, Ended
<1>7. Ordered(pipe') /\ EndsAreTrue'
  <2>1. ASSUME NEW m \in Messages, Ended(m) \/ (e.message = m /\ e.type \in Ends) PROVE Ended(m)'
    BY <1>2, <1>5, <1>6, <2>1
  <2> QED  BY <1>2, <2>1, EventAdded
<1>8. RowIsTrue(o)'
  <2>1. pipe \in Seq(Events) /\ 0 \in 0..Len(pipe)
    <3>1. pipe \in Seq(Events)  BY DEF FeedTypeOK
    <3> QED  BY <3>1
  <2>2. EndComes(pipe', 0, o) /\ (DeltaComes(pipe', 0, o) <=> DeltaComes(pipe, 0, o))  BY <1>2, <2>1, AppendComes
  <2>3. RowIsTrue(o)  BY DEF RowsAreTrue
  <2>4. rows[o].text > 0 /\ ~rows[o].done => SettledBehindEnd(pipe', o)  BY <1>2, <2>1, <2>3, AppendSettled DEF RowIsTrue
  <2>5. rows[o].done => rows[o].text = said[o] /\ ~DeltaComes(pipe', 0, o)  BY <2>2, <2>3 DEF RowIsTrue
  <2>6. RowFollows(o)'  BY <1>5, <2>2 DEF RowFollows
  <2> QED  BY <1>4, <1>5, <2>4, <2>5, <2>6 DEF RowIsTrue
<1>9. ASSUME NEW m \in Messages, m # o PROVE RowIsTrue(m)'
  <2>1. RowIsTrue(m) /\ e.message # m /\ said'[m] = said[m] /\ (m \in file' <=> m \in file)
    BY <1>2, <1>4, <1>9 DEF RowsAreTrue
  <2> QED  BY <1>2, <1>4, <1>6, <1>9, <2>1, RowBeside
<1> QED  BY <1>7, <1>8, <1>9 DEF RowsAreTrue

\* The supervisor takes the next event of the pipe.
LEMMA TakenFacts ==
  ASSUME FeedTypeOK, OnActorEvent
  PROVE  /\ pipe \in Seq(Events) /\ pipe # <<>> /\ pipe[1] \in Events /\ pipe[1] = Head(pipe) /\ pipe' = Tail(pipe)
         /\ Len(pipe) \in Nat \ {0} /\ Len(pipe') = Len(pipe) - 1 /\ 0 \in 0..Len(pipe) - 1
         /\ \A i \in DOMAIN pipe' : i + 1 \in DOMAIN pipe /\ pipe'[i] = pipe[i + 1]
         /\ rows' = RowsAfter(pipe[1]) /\ UNCHANGED <<workerVars, reads, clientVars, asked, up>>
<1>1. pipe \in Seq(Events) /\ pipe # <<>> /\ pipe' = Tail(pipe)  BY DEF FeedTypeOK, OnActorEvent
<1>2. Len(pipe) \in Nat \ {0} /\ Head(pipe) = pipe[1] /\ pipe[1] \in Events /\ 0 \in 0..Len(pipe) - 1  BY <1>1
<1>3. Len(pipe') = Len(pipe) - 1 /\ pipe' \in Seq(Events) /\ \A i \in 1..Len(pipe') : pipe'[i] = pipe[i + 1]
  BY <1>1, HeadTailProperties
<1>4. \A i \in DOMAIN pipe' : i + 1 \in DOMAIN pipe /\ pipe'[i] = pipe[i + 1]
  <2>1. DOMAIN pipe' = 1..Len(pipe) - 1 /\ DOMAIN pipe = 1..Len(pipe)  BY <1>1, <1>3
  <2> QED  BY <1>2, <1>3, <2>1
<1>5. rows' = RowsAfter(Head(pipe)) /\ UNCHANGED <<workerVars, reads, clientVars, asked, up>>  BY DEF OnActorEvent
<1> QED  BY <1>1, <1>2, <1>3, <1>4, <1>5

\* What the event does to the row of m.
LEMMA TakenRow ==
  ASSUME FeedTypeOK, SaidInOrder, RowsAreTrue, OnActorEvent, NEW m \in Messages
  PROVE  /\ pipe[1].message # m => rows'[m] = rows[m]
         /\ pipe[1].message = m => pipe[1].type \in {"text_delta", "text_end", "message_end"}
         /\ pipe[1].message = m /\ pipe[1].type = "text_delta" =>
              rows'[m].text = rows[m].text + 1 /\ ~rows[m].done /\ ~rows'[m].done
         /\ pipe[1].message = m /\ pipe[1].type \in Ends =>
              rows'[m] = [text |-> said[m], done |-> TRUE] /\ Ended(m)
         /\ pipe[1].message # m /\ Saying(m) => rows[m].text = 0
<1>1. /\ pipe \in Seq(Events) /\ pipe # <<>> /\ pipe[1] \in Events /\ Len(pipe) \in Nat \ {0}
      /\ rows' = RowsAfter(pipe[1])
  BY TakenFacts
<1> DEFINE e == pipe[1]
<1>2. /\ e.type \in {"agent_start", "agent_settled", "text_delta", "text_end", "message_end"}
      /\ e.type \in {"agent_start", "agent_settled"} => e.message = 0
      /\ e.type \in {"text_delta", "text_end", "message_end"} => e.message \in Messages
  BY <1>1, EventFacts
<1>3. m # 0 /\ rows[m] \in RowRecords /\ rows[m].text \in Nat /\ rows[m].done \in BOOLEAN /\ said[m] \in Nat /\ RowIsTrue(m)
  BY EventFacts DEF RowsAreTrue
<1>4. rows \in [Messages -> RowRecords]  BY DEF FeedTypeOK, LiveRows
<1> HIDE DEF e
<1>5. rows' = RowsAfter(e)  BY <1>1 DEF e
<1>6. ASSUME e.message # m PROVE rows'[m] = rows[m]
  <2>1. CASE e.type = "text_delta"
    <3>1. rows' = [rows EXCEPT ![e.message].text = @ + 1]  BY <1>5, <2>1 DEF RowsAfter
    <3> QED  BY <1>4, <1>6, <3>1
  <2>2. CASE e.type \in Ends
    <3>1. rows' = [rows EXCEPT ![e.message] = [text |-> said[e.message], done |-> TRUE]]
      BY <1>5, <2>2 DEF RowsAfter, Ends
    <3> QED  BY <1>4, <1>6, <3>1
  <2>3. CASE e.type = "agent_settled"
    <3>1. rows'[m] = [rows[m] EXCEPT !.done = rows[m].text > 0]  BY <1>5, <2>3 DEF RowsAfter
    <3>2. rows[m].done => rows[m].text > 0
      <4>1. Ended(m) => said[m] > 0  BY <1>3 DEF Ended, SaidInOrder
      <4> QED  BY <1>3, <4>1 DEF RowIsTrue
    <3>3. rows[m].text > 0 => rows[m].done
      <4>1. SettledBehindEnd(pipe, m) => FALSE
        <5>1. ~(pipe[1].message = m /\ pipe[1].type \in Ends)  BY <1>6 DEF e
        <5> QED  BY <1>1, <2>3, <5>1, TailOrdered DEF RowsAreTrue, e
      <4> QED  BY <1>3, <4>1 DEF RowIsTrue
    <3>4. rows[m].done = (rows[m].text > 0)  BY <1>3, <3>2, <3>3
    <3> QED  BY <1>3, <3>1, <3>4 DEF RowRecords
  <2>4. CASE e.type = "agent_start"  BY <1>5, <2>4 DEF RowsAfter
  <2> QED  BY <1>2, <2>1, <2>2, <2>3, <2>4 DEF Ends
<1>7. ASSUME e.message = m, e.type = "text_delta"
      PROVE  rows'[m].text = rows[m].text + 1 /\ ~rows[m].done /\ ~rows'[m].done
  <2>1. rows' = [rows EXCEPT ![m].text = @ + 1]  BY <1>5, <1>7 DEF RowsAfter
  <2>2. rows'[m].text = rows[m].text + 1 /\ rows'[m].done = rows[m].done  BY <1>3, <1>4, <2>1 DEF RowRecords
  <2>3. DeltaComes(pipe, 0, m)  BY <1>1, <1>7, FirstComes DEF e
  <2> QED  BY <1>3, <2>2, <2>3 DEF RowIsTrue
<1>8. ASSUME e.message = m, e.type \in Ends
      PROVE  rows'[m] = [text |-> said[m], done |-> TRUE] /\ Ended(m)
  <2>1. rows' = [rows EXCEPT ![m] = [text |-> said[m], done |-> TRUE]]  BY <1>5, <1>8 DEF RowsAfter, Ends
  <2>2. 1 \in DOMAIN pipe  BY <1>1
  <2>3. Ended(m)  BY <1>8, <2>2 DEF RowsAreTrue, EndsAreTrue, e
  <2> QED  BY <1>4, <2>1, <2>3
<1>9. ASSUME e.message # m, Saying(m) PROVE rows[m].text = 0
  <2>1. LastAre(pipe, 0, m, said[m] - rows[m].text) /\ (rows[m].text > 0 => Len(pipe) = said[m] - rows[m].text)
    BY <1>3, <1>9 DEF RowIsTrue, RowFollows
  <2>2. said[m] - rows[m].text # Len(pipe)  BY <1>1, <1>9, <2>1, FirstComes DEF e
  <2> QED  BY <1>3, <2>1, <2>2
<1>10. e.message = m => e.type \in {"text_delta", "text_end", "message_end"}  BY <1>2, <1>3
<1> QED  BY <1>6, <1>7, <1>8, <1>9, <1>10 DEF e

LEMMA EventKeepsRows ==
  ASSUME FeedTypeOK, SaidInOrder, RowsAreTrue, OnActorEvent
  PROVE  RowsAreTrue'
<1>1. /\ pipe \in Seq(Events) /\ pipe # <<>> /\ pipe[1] \in Events /\ pipe' = Tail(pipe)
      /\ Len(pipe) \in Nat \ {0} /\ Len(pipe') = Len(pipe) - 1 /\ 0 \in 0..Len(pipe) - 1
      /\ \A i \in DOMAIN pipe' : i + 1 \in DOMAIN pipe /\ pipe'[i] = pipe[i + 1]
      /\ UNCHANGED <<workerVars, reads>>
  BY TakenFacts
<1>2. UNCHANGED <<said, open, over, file, reads>>  BY <1>1 DEF workerVars
<1>3. \A m : (Ended(m)' <=> Ended(m)) /\ (Saying(m)' <=> Saying(m))  BY <1>2 DEF Ended, Saying
<1>4. /\ Ordered(pipe')
      /\ pipe[1].type \in Ends => ~DeltaComes(pipe, 1, pipe[1].message)
      /\ pipe[1].type = "text_delta" => SettledBehindEnd(pipe', pipe[1].message)
      /\ \A m : SettledBehindEnd(pipe, m) /\ ~(pipe[1].message = m /\ pipe[1].type \in Ends) => SettledBehindEnd(pipe', m)
  BY <1>1, TailOrdered DEF RowsAreTrue
<1>5. EndsAreTrue'
  <2>1. ASSUME NEW m \in Messages, NEW i \in DOMAIN pipe', pipe'[i].message = m, pipe'[i].type \in Ends PROVE Ended(m)'
    <3>1. i + 1 \in DOMAIN pipe /\ pipe[i + 1].message = m /\ pipe[i + 1].type \in Ends  BY <1>1, <2>1
    <3>2. Ended(m)  BY <3>1 DEF RowsAreTrue, EndsAreTrue
    <3> QED  BY <1>3, <3>2
  <2> QED  BY <2>1 DEF EndsAreTrue
<1>6. ASSUME NEW m \in Messages PROVE RowIsTrue(m)'
  <2>1. /\ Mentioned(pipe', 0, m) <=> Mentioned(pipe, 1, m)
        /\ EndComes(pipe', 0, m) <=> EndComes(pipe, 1, m)
        /\ DeltaComes(pipe', 0, m) <=> DeltaComes(pipe, 1, m)
        /\ \A n : LastAre(pipe', 0, m, n) <=> LastAre(pipe, 1, m, n)
    <3>1. 0 + 1 = 1  OBVIOUS
    <3>2. \A n : /\ Mentioned(pipe', 0, m) <=> Mentioned(pipe, 0 + 1, m)
                 /\ EndComes(pipe', 0, m) <=> EndComes(pipe, 0 + 1, m)
                 /\ DeltaComes(pipe', 0, m) <=> DeltaComes(pipe, 0 + 1, m)
                 /\ LastAre(pipe', 0, m, n) <=> LastAre(pipe, 0 + 1, m, n)
      BY <1>1, TailComes
    <3> QED  BY <3>1, <3>2
  <2>2. /\ Mentioned(pipe, 0, m) <=> pipe[1].message = m \/ Mentioned(pipe, 1, m)
        /\ EndComes(pipe, 0, m) <=> (pipe[1].message = m /\ pipe[1].type \in Ends) \/ EndComes(pipe, 1, m)
        /\ DeltaComes(pipe, 0, m) <=> (pipe[1].message = m /\ pipe[1].type = "text_delta") \/ DeltaComes(pipe, 1, m)
        /\ \A n : LastAre(pipe, 0, m, n) =>
             IF pipe[1].message = m THEN pipe[1].type = "text_delta" /\ n = Len(pipe) /\ LastAre(pipe, 1, m, n - 1)
             ELSE n # Len(pipe) /\ LastAre(pipe, 1, m, n)
    BY <1>1, FirstComes
  <2>3. RowIsTrue(m)  BY DEF RowsAreTrue
  <2>4. rows[m].text \in Nat /\ said[m] \in Nat  BY EventFacts
  <2>5. CASE pipe[1].message # m
    <3>1. rows'[m] = rows[m] /\ (Saying(m) => rows[m].text = 0)  BY <2>5, TakenRow
    <3>2. rows[m].done => ~DeltaComes(pipe', 0, m)  BY <2>1, <2>2, <2>3 DEF RowIsTrue
    <3>3. rows[m].text > 0 /\ ~rows[m].done => SettledBehindEnd(pipe', m)  BY <1>4, <2>3, <2>5 DEF RowIsTrue
    <3>4. RowFollows(m)'
      <4>1. CASE Saying(m)
        <5>1. LastAre(pipe, 0, m, said[m] - rows[m].text)  BY <2>3, <4>1 DEF RowIsTrue, RowFollows
        <5>2. LastAre(pipe', 0, m, said[m] - rows[m].text)  BY <2>1, <2>2, <2>5, <5>1
        <5> QED  BY <1>2, <1>3, <3>1, <4>1, <5>2 DEF RowFollows
      <4>2. CASE ~Saying(m)
        <5>1. EndComes(pipe, 0, m) => EndComes(pipe', 0, m)  BY <2>1, <2>2, <2>5
        <5>2. Mentioned(pipe', 0, m) => Mentioned(pipe, 0, m)  BY <2>1, <2>2
        <5>3. DeltaComes(pipe', 0, m) => DeltaComes(pipe, 0, m)  BY <2>1, <2>2
        <5> QED  BY <1>2, <1>3, <2>3, <3>1, <4>2, <5>1, <5>2, <5>3 DEF RowIsTrue, RowFollows
      <4> QED  BY <4>1, <4>2
    <3> QED  BY <1>2, <1>3, <2>3, <3>1, <3>2, <3>3, <3>4 DEF RowIsTrue
  <2>6. CASE pipe[1].message = m /\ pipe[1].type = "text_delta"
    <3>1. rows'[m].text = rows[m].text + 1 /\ ~rows[m].done /\ ~rows'[m].done  BY <2>6, TakenRow
    <3>2. SettledBehindEnd(pipe', m)  BY <1>4, <2>6
    <3>3. RowFollows(m)'
      <4>1. CASE Saying(m)
        <5>1. LastAre(pipe, 0, m, said[m] - rows[m].text)  BY <2>3, <4>1 DEF RowIsTrue, RowFollows
        <5>2. said[m] - rows[m].text = Len(pipe) /\ LastAre(pipe, 1, m, said[m] - rows[m].text - 1)  BY <2>2, <2>6, <5>1
        <5>3. said[m] - rows[m].text - 1 = said'[m] - rows'[m].text  BY <1>2, <2>4, <3>1
        <5>4. LastAre(pipe', 0, m, said'[m] - rows'[m].text)  BY <2>1, <5>2, <5>3
        <5>5. Len(pipe') = said'[m] - rows'[m].text  BY <1>1, <5>2, <5>3
        <5> QED  BY <1>3, <4>1, <5>4, <5>5 DEF RowFollows
      <4>2. CASE ~Saying(m)
        <5>1. DeltaComes(pipe, 0, m) /\ Mentioned(pipe, 0, m)  BY <2>2, <2>6
        <5>2. EndComes(pipe, 0, m)  BY <2>3, <3>1, <4>2, <5>1 DEF RowIsTrue, RowFollows
        <5>3. EndComes(pipe', 0, m)  BY <2>1, <2>2, <2>6, <5>2 DEF Ends
        <5> QED  BY <1>3, <4>2, <5>3 DEF RowFollows
      <4> QED  BY <4>1, <4>2
    <3> QED  BY <3>1, <3>2, <3>3 DEF RowIsTrue
  <2>7. CASE pipe[1].message = m /\ pipe[1].type \in Ends
    <3>1. rows'[m] = [text |-> said[m], done |-> TRUE] /\ Ended(m)  BY <2>7, TakenRow
    <3>2. ~DeltaComes(pipe', 0, m)  BY <1>4, <2>1, <2>7
    <3>3. ~Saying(m)
      <4>1. m # 0  BY EventFacts
      <4> QED  BY <3>1, <4>1 DEF Ended, Saying, SaidInOrder
    <3>4. rows'[m].done /\ rows'[m].text = said'[m]  BY <1>2, <3>1
    <3>5. RowFollows(m)'  BY <1>3, <3>3, <3>4 DEF RowFollows
    <3> QED  BY <1>3, <3>1, <3>2, <3>4, <3>5 DEF RowIsTrue
  <2> QED  BY <2>5, <2>6, <2>7, TakenRow DEF Ends
<1> QED  BY <1>4, <1>5, <1>6 DEF RowsAreTrue

\* reconcile drops rows of messages that the page has, which no other read is without.
LEMMA AnswerKeepsRows ==
  ASSUME FeedTypeOK, SaidInOrder, RowsAreTrue, NEW k \in Slots, AnswerRead(k)
  PROVE  RowsAreTrue'
<1>1. /\ reads[k].phase = "read" /\ rows' = Reconciled(reads[k].page) /\ reads' = [reads EXCEPT ![k] = NoRead]
      /\ UNCHANGED <<said, open, over, file, pipe>>
  BY DEF AnswerRead, Other, workerVars
<1>2. reads \in [Slots -> ReadRecords] /\ NoRead.phase = "none"  BY DEF FeedTypeOK, NoRead
<1>3. \A j \in Slots : reads'[j].phase # "read"  BY <1>1, <1>2 DEF SaidInOrder
<1>4. \A m : (Ended(m)' <=> Ended(m)) /\ (Saying(m)' <=> Saying(m))  BY <1>1 DEF Ended, Saying
<1>5. ASSUME NEW m \in Messages PROVE RowIsTrue(m)'
  <2>1. RowIsTrue(m) /\ m # 0 /\ NoRow.text = 0 /\ ~NoRow.done  BY EventFacts DEF RowsAreTrue
  <2>2. rows'[m] = IF rows[m].done /\ m \in reads[k].page THEN NoRow ELSE rows[m]  BY <1>1 DEF Reconciled
  <2>3. CASE rows[m].done /\ m \in reads[k].page
    <3>1. rows'[m] = NoRow /\ m \in file /\ ~DeltaComes(pipe, 0, m)  BY <2>1, <2>2, <2>3 DEF SaidInOrder, RowIsTrue
    <3>2. ~Saying(m)  BY <2>1, <3>1 DEF Saying, SaidInOrder
    <3>3. RowFollows(m)'  BY <1>1, <1>3, <1>4, <3>1, <3>2 DEF RowFollows
    <3> QED  BY <2>1, <3>1, <3>3 DEF RowIsTrue
  <2>4. CASE ~(rows[m].done /\ m \in reads[k].page)
    <3>1. rows'[m] = rows[m]  BY <2>2, <2>4
    <3>2. RowFollows(m)'  BY <1>1, <1>3, <1>4, <2>1, <3>1 DEF RowIsTrue, RowFollows
    <3> QED  BY <1>1, <1>4, <2>1, <3>1, <3>2 DEF RowIsTrue
  <2> QED  BY <2>3, <2>4
<1>6. Ordered(pipe') /\ EndsAreTrue'  BY <1>1, <1>4 DEF RowsAreTrue, EndsAreTrue
<1> QED  BY <1>5, <1>6 DEF RowsAreTrue

\* A transcript that is read now has all that any row was dropped for.
LEMMA ReadKeepsRows ==
  ASSUME FeedTypeOK, RowsAreTrue, NEW k \in Slots, ReadTranscript(k)
  PROVE  RowsAreTrue'
<1>1. /\ \A j \in Slots : reads[j].phase # "read"
      /\ reads' = [reads EXCEPT ![k].phase = "read", ![k].page = file]
      /\ UNCHANGED <<said, open, over, file, pipe, rows>>
  BY DEF ReadTranscript, InTurn, Other, workerVars, serverVars
<1>2. reads \in [Slots -> ReadRecords]  BY DEF FeedTypeOK
<1>3. \A j \in Slots : reads'[j].phase = "read" => reads'[j].page = file
  <2> TAKE j \in Slots
  <2>1. CASE j = k
    <3>1. reads[k] \in ReadRecords  BY <1>2
    <3>2. reads'[k].page = file  BY <1>1, <1>2, <3>1 DEF ReadRecords
    <3> QED  BY <2>1, <3>2
  <2>2. CASE j # k  BY <1>1, <1>2, <2>2
  <2> QED  BY <2>1, <2>2
<1>4. \A m : (Ended(m)' <=> Ended(m)) /\ (Saying(m)' <=> Saying(m))  BY <1>1 DEF Ended, Saying
<1>5. ASSUME NEW m \in Messages PROVE RowIsTrue(m)'
  <2>1. RowIsTrue(m)  BY DEF RowsAreTrue
  <2>2. RowFollows(m)'  BY <1>1, <1>3, <1>4, <2>1 DEF RowIsTrue, RowFollows
  <2> QED  BY <1>1, <1>4, <2>1, <2>2 DEF RowIsTrue
<1>6. Ordered(pipe') /\ EndsAreTrue'  BY <1>1, <1>4 DEF RowsAreTrue, EndsAreTrue
<1> QED  BY <1>5, <1>6 DEF RowsAreTrue

\* Steps apart from the worker, its events and the live rows.
Apart == UNCHANGED <<worker, gen, said, open, over, file, pipe, rows>> /\ ReadsStay

LEMMA ApartSteps ==
  ASSUME FeedTypeOK,
         \/ SupervisorStarts \/ HandleRegister \/ HandleSubscribe \/ HandleWatch
         \/ \E k \in Slots : HandleRead(k) \/ OtherAsks(k)
         \/ Dial \/ Connect \/ OnClose \/ RequestTimesOut \/ Refused \/ StopClient
         \/ OnRegistered \/ OnSubscribed \/ OnWatching \/ OnMessages \/ OnRootOutput \/ OnActorFrame \/ Refresh
         \/ UNCHANGED feedVars
  PROVE  Apart
<1>1. reads \in [Slots -> ReadRecords]  BY DEF FeedTypeOK
<1>2. UNCHANGED reads => ReadsStay  BY DEF ReadsStay
<1>3. reads' = Disowned => ReadsStay
  <2>1. \A k \in Slots : [reads[k] EXCEPT !.mine = FALSE].phase = reads[k].phase /\ [reads[k] EXCEPT !.mine = FALSE].page = reads[k].page
    BY <1>1 DEF ReadRecords
  <2> QED  BY <2>1 DEF Disowned, ReadsStay
<1>4. CASE SupervisorStarts  BY <1>2, <1>4 DEF SupervisorStarts, Apart, workerVars, serverVars
<1>5. CASE HandleRegister \/ HandleSubscribe \/ HandleWatch
  <2>1. Other /\ UNCHANGED <<rows, reads>>  BY <1>5 DEF HandleRegister, HandleSubscribe, HandleWatch, serverVars
  <2> QED  BY <1>2, <2>1 DEF Other, Apart, workerVars
<1>6. ASSUME NEW k \in Slots, HandleRead(k) \/ OtherAsks(k) PROVE Apart
  <2>1. Other /\ UNCHANGED rows
        /\ (reads' = [reads EXCEPT ![k] = [phase |-> "waiting", page |-> {}, mine |-> TRUE]] \/ reads' = [reads EXCEPT ![k].phase = "waiting"])
    BY <1>6 DEF HandleRead, OtherAsks, serverVars
  <2>2. reads'[k].phase = "waiting" /\ reads'[k].page \in {{}, reads[k].page} /\ \A j \in Slots : j # k => reads'[j] = reads[j]
    <3>1. reads[k] \in ReadRecords  BY <1>1
    <3> QED  BY <1>1, <2>1, <3>1 DEF ReadRecords
  <2>3. ReadsStay  BY <2>2 DEF ReadsStay
  <2> QED  BY <2>1, <2>3 DEF Other, Apart, workerVars
<1>7. CASE Dial \/ Connect \/ OnClose \/ RequestTimesOut \/ Refused \/ StopClient
  <2>1. ServerKeeps /\ (UNCHANGED reads \/ reads' = Disowned)
    BY <1>7 DEF Dial, Connect, OnClose, RequestTimesOut, Refused, StopClient, Hangs
  <2> QED  BY <1>2, <1>3, <2>1 DEF ServerKeeps, Apart, workerVars, serverVars
<1>8. CASE OnRegistered \/ OnSubscribed \/ OnWatching \/ OnMessages \/ OnRootOutput \/ OnActorFrame \/ Refresh
  <2>1. ServerKeeps /\ UNCHANGED reads
    BY <1>8 DEF OnRegistered, OnSubscribed, OnWatching, OnMessages, OnRootOutput, OnActorFrame, Refresh, UserOnly
  <2> QED  BY <1>2, <2>1 DEF ServerKeeps, Apart, workerVars, serverVars
<1>9. CASE UNCHANGED feedVars  BY <1>2, <1>9 DEF feedVars, Apart, workerVars, serverVars
<1> QED  BY <1>4, <1>5, <1>6, <1>7, <1>8, <1>9

LEMMA SpeaksInOrder ==
  ASSUME FeedTypeOK, SaidInOrder, Speaks \/ WorkerDies \/ LaunchActor
  PROVE  SaidInOrder'
<1>1. said \in [Messages -> Nat] /\ open \in {0} \cup Messages /\ file \subseteq Messages /\ \A m \in Messages : m # 0
  BY EventFacts DEF FeedTypeOK
<1>2. UNCHANGED <<reads, rows>>
  <2> USE DEF WorkerOnly, serverVars, clientVars
  <2>1. CASE AgentStart  BY <2>1 DEF AgentStart
  <2>2. ASSUME NEW m \in Messages, Say(m) PROVE UNCHANGED <<reads, rows>>  BY <2>2 DEF Say
  <2>3. CASE TextEnd  BY <2>3 DEF TextEnd
  <2>4. CASE Commit  BY <2>4 DEF Commit
  <2>5. CASE AgentSettled  BY <2>5 DEF AgentSettled
  <2>6. CASE WorkerDies  BY <2>6 DEF WorkerDies
  <2>7. CASE LaunchActor  BY <2>7 DEF LaunchActor
  <2> QED  BY <2>1, <2>2, <2>3, <2>4, <2>5, <2>6, <2>7 DEF Speaks
<1>3. /\ worker' # "busy" => open' = 0
      /\ open' = 0 => ~over'
      /\ open' # 0 => said'[open'] > 0 /\ open' \notin file'
      /\ \A m \in file' : said'[m] > 0
      /\ worker' # "off" /\ file \subseteq file'
  <2> USE DEF SaidInOrder
  <2>1. CASE AgentStart  BY <1>1, <2>1 DEF AgentStart, WorkerOnly
  <2>2. CASE \E m \in Messages : Say(m)
    <3>1. PICK m \in Messages : Say(m)  BY <2>2
    <3>2. /\ worker = "busy" /\ worker' = worker /\ file' = file /\ open' = m /\ ~over' /\ open \in {0, m}
          /\ said' = [said EXCEPT ![m] = @ + 1] /\ (open = 0 => said[m] = 0)
      BY <3>1 DEF Say, WorkerOnly
    <3>3. said'[m] = said[m] + 1 /\ said[m] \in Nat /\ \A n \in Messages : n # m => said'[n] = said[n]  BY <1>1, <3>2
    <3>4. m \notin file  BY <1>1, <3>2
    <3> QED  BY <1>1, <3>2, <3>3, <3>4
  <2>3. CASE TextEnd  BY <1>1, <2>3 DEF TextEnd, WorkerOnly
  <2>4. CASE Commit  BY <1>1, <2>4 DEF Commit, WorkerOnly
  <2>5. CASE AgentSettled  BY <1>1, <2>5 DEF AgentSettled, WorkerOnly
  <2>6. CASE WorkerDies  BY <1>1, <2>6 DEF WorkerDies
  <2>7. CASE LaunchActor  BY <1>1, <2>7 DEF LaunchActor
  <2> QED  BY <2>1, <2>2, <2>3, <2>4, <2>5, <2>6, <2>7 DEF Speaks
<1> QED  BY <1>2, <1>3 DEF SaidInOrder

LEMMA OthersInOrder ==
  ASSUME FeedTypeOK, TurnIsOfWorker, SaidInOrder,
         Apart \/ OnActorEvent \/ OnActorExit \/ SupervisorEnds \/ \E k \in Slots : ReadTranscript(k) \/ AnswerRead(k)
  PROVE  SaidInOrder'
<1>1. reads \in [Slots -> ReadRecords]  BY DEF FeedTypeOK
<1>2. CASE Apart
  <2>1. \A k \in Slots : reads'[k].page \subseteq file'  BY <1>2 DEF Apart, ReadsStay, SaidInOrder
  <2> QED  BY <1>2, <2>1 DEF Apart, ReadsStay, SaidInOrder
<1>3. CASE OnActorEvent
  <2>1. UNCHANGED <<worker, said, open, over, file, reads>> /\ pipe # <<>>  BY <1>3 DEF OnActorEvent, workerVars
  <2>2. worker # "off"  BY <2>1 DEF TurnIsOfWorker
  <2> QED  BY <2>1, <2>2 DEF SaidInOrder
<1>4. CASE OnActorExit
  <2>1. worker = "dead" /\ worker' = "off" /\ rows' = NoRows /\ UNCHANGED <<said, open, over, file, reads>>  BY <1>4 DEF OnActorExit
  <2> QED  BY <2>1 DEF SaidInOrder
<1>5. CASE SupervisorEnds
  <2>1. /\ worker' = "off" /\ open' = 0 /\ over' = FALSE /\ rows' = NoRows /\ UNCHANGED <<said, file>>
        /\ reads' = [k \in Slots |-> NoRead]
    BY <1>5 DEF SupervisorEnds
  <2>2. \A k \in Slots : reads'[k].phase # "read" /\ reads'[k].page = {}  BY <2>1 DEF NoRead
  <2> QED  BY <2>1, <2>2 DEF SaidInOrder
<1>6. ASSUME NEW k \in Slots, ReadTranscript(k) PROVE SaidInOrder'
  <2>1. /\ \A j \in Slots : reads[j].phase # "read"
        /\ reads' = [reads EXCEPT ![k].phase = "read", ![k].page = file]
        /\ UNCHANGED <<worker, said, open, over, file, rows>>
    BY <1>6 DEF ReadTranscript, InTurn, Other, workerVars, serverVars
  <2>2. reads'[k].page = file /\ \A j \in Slots : j # k => reads'[j] = reads[j]
    <3>1. reads[k] \in ReadRecords  BY <1>1
    <3> QED  BY <1>1, <2>1, <3>1 DEF ReadRecords
  <2> QED  BY <2>1, <2>2 DEF SaidInOrder
<1>7. ASSUME NEW k \in Slots, AnswerRead(k) PROVE SaidInOrder'
  <2>1. /\ rows' = Reconciled(reads[k].page) /\ reads' = [reads EXCEPT ![k] = NoRead]
        /\ UNCHANGED <<worker, said, open, over, file>>
    BY <1>7 DEF AnswerRead, Other, workerVars
  <2>2. worker = "off" => rows' = NoRows
    <3>1. rows = NoRows => \A m \in Messages : rows[m] = NoRow  BY DEF NoRows
    <3>2. rows = NoRows => rows' = [m \in Messages |-> NoRow]  BY <2>1, <3>1 DEF Reconciled
    <3> QED  BY <3>2 DEF NoRows, SaidInOrder
  <2>3. reads'[k] = NoRead /\ \A j \in Slots : j # k => reads'[j] = reads[j]  BY <1>1, <2>1
  <2> QED  BY <2>1, <2>2, <2>3 DEF SaidInOrder, NoRead
<1> QED  BY <1>2, <1>3, <1>4, <1>5, <1>6, <1>7

\* The order of what is said, and the live rows, through every step.
LEMMA RowsStep ==
  ASSUME FeedTypeOK, TurnIsOfWorker, SaidInOrder, WorkerLives => RowsAreTrue, [FeedNext]_feedVars
  PROVE  SaidInOrder' /\ (WorkerLives' => RowsAreTrue')
<1>1. CASE Speaks \/ WorkerDies \/ LaunchActor
  <2>1. SaidInOrder'  BY <1>1, SpeaksInOrder
  <2>2. CASE AgentStart \/ AgentSettled
    <3>1. WorkerLives  BY <2>2 DEF AgentStart, AgentSettled, WorkerLives
    <3> QED  BY <2>1, <2>2, <3>1, SilentKeepsRows
  <2>3. ASSUME NEW m \in Messages, Say(m) PROVE RowsAreTrue'
    <3>1. WorkerLives  BY <2>3 DEF Say, WorkerLives
    <3> QED  BY <2>3, <3>1, SayKeepsRows
  <2>4. CASE TextEnd \/ Commit
    <3>1. WorkerLives  BY <2>4 DEF TextEnd, Commit, WorkerLives
    <3> QED  BY <2>1, <2>4, <3>1, EndKeepsRows
  <2>5. CASE WorkerDies  BY <2>1, <2>5 DEF WorkerDies, WorkerLives
  <2>6. CASE LaunchActor
    <3>1. rows = NoRows /\ pipe = <<>> /\ open = 0 /\ \A k \in Slots : reads[k].phase # "read"
      BY <2>6 DEF LaunchActor, SaidInOrder, TurnIsOfWorker
    <3>2. RowsAreTrue  BY <3>1, NoRowsAreTrue
    <3>3. UNCHANGED <<said, open, over, file, pipe, rows, reads>>  BY <2>6 DEF LaunchActor, serverVars
    <3>4. ReadsStay  BY <3>3 DEF ReadsStay
    <3> QED  BY <2>1, <3>2, <3>3, <3>4, RowsStay
  <2> QED  BY <1>1, <2>1, <2>2, <2>3, <2>4, <2>5, <2>6 DEF Speaks
<1>2. CASE OnActorEvent
  <2>1. SaidInOrder'  BY <1>2, OthersInOrder
  <2>2. WorkerLives' <=> WorkerLives  BY <1>2 DEF OnActorEvent, workerVars, WorkerLives
  <2> QED  BY <1>2, <2>1, <2>2, EventKeepsRows
<1>3. CASE OnActorExit \/ SupervisorEnds
  <2>1. SaidInOrder'  BY <1>3, OthersInOrder
  <2> QED  BY <1>3, <2>1 DEF OnActorExit, SupervisorEnds, WorkerLives
<1>4. CASE Apart
  <2>1. SaidInOrder'  BY <1>4, OthersInOrder
  <2>2. (WorkerLives' <=> WorkerLives) /\ ReadsStay /\ UNCHANGED <<said, open, over, file, pipe, rows>>
    BY <1>4 DEF Apart, WorkerLives
  <2> QED  BY <2>1, <2>2, RowsStay
<1>5. ASSUME NEW k \in Slots, ReadTranscript(k) \/ AnswerRead(k) PROVE SaidInOrder' /\ (WorkerLives' => RowsAreTrue')
  <2>1. SaidInOrder'  BY <1>5, OthersInOrder
  <2>2. WorkerLives' <=> WorkerLives  BY <1>5 DEF ReadTranscript, AnswerRead, Other, workerVars, WorkerLives
  <2> QED  BY <1>5, <2>1, <2>2, ReadKeepsRows, AnswerKeepsRows
<1>6. CASE \/ SupervisorStarts \/ HandleRegister \/ HandleSubscribe \/ HandleWatch
           \/ \E k \in Slots : HandleRead(k) \/ OtherAsks(k)
           \/ Dial \/ Connect \/ OnClose \/ RequestTimesOut \/ Refused \/ StopClient
           \/ OnRegistered \/ OnSubscribed \/ OnWatching \/ OnMessages \/ OnRootOutput \/ OnActorFrame \/ Refresh
           \/ UNCHANGED feedVars
  BY <1>4, <1>6, ApartSteps
<1> QED  BY <1>1, <1>2, <1>3, <1>5, <1>6 DEF FeedNext

-----------------------------------------------------------------------------
(* The requests and answers of one connection. *)

\* What FeedInv says of a user who shows the messages.
ViewKnown ==
  /\ FeedTypeOK /\ wants = "view" /\ ~conn.feed
  /\ conn.open => up
  /\ ~conn.open => conn = NoConn
  /\ client \notin Online => wire = <<>> /\ conn = NoConn /\ asked = "none"
  /\ asked # "subscribe" /\ client # "subscribing"
  /\ \A i \in DOMAIN wire : wire[i] \in ViewFrames
  /\ \A i \in DOMAIN wire : wire[i].kind \in {"registered", "watching", "messages", "actor_event"}

LEMMA ViewIsKnown ==
  ASSUME FeedInv, wants = "view"
  PROVE  ViewKnown
<1>1. FeedTypeOK  BY DEF FeedInv
<1>2. PICK H \in Seq(Payloads) : FeedFits(H)  BY DEF FeedInv
<1>3. ViewUser  BY <1>2 DEF FeedFits
<1>4. ASSUME NEW i \in DOMAIN wire
      PROVE  wire[i] \in ViewFrames /\ wire[i].kind \in {"registered", "watching", "messages", "actor_event"}
  <2>1. wire[i] \in Frames
    <3>1. wire \in Seq(Frames)  BY <1>1 DEF FeedTypeOK
    <3> QED  BY <3>1
  <2>2. wire[i] \in ViewFrames  BY <1>3, <2>1 DEF ViewUser, Frames, Subscriptions, RootOutputs
  <2> QED  BY <2>2 DEF ViewFrames
<1> QED  BY <1>1, <1>2, <1>3, <1>4 DEF FeedFits, ViewUser, ViewKnown

LEMMA TalkFacts ==
  ASSUME ViewKnown, Talk
  PROVE  /\ conn.open => client \in {"registering", "attaching", "reading", "live"}
         /\ wire \in Seq(Frames) /\ Len(wire) \in Nat /\ DOMAIN wire = 1..Len(wire)
         /\ ~NoConn.open /\ ~NoConn.watching /\ reads \in [Slots -> ReadRecords] /\ ~NoRead.mine
         /\ \A k \in Slots : conn.open /\ reads[k].mine => client = "reading"
         /\ conn.open /\ asked = "register" => client = "registering"
         /\ conn.open /\ asked = "watch" => client = "attaching"
         /\ conn.open /\ asked = "read" => client = "reading"
<1>1. ~NoConn.open /\ ~NoConn.watching /\ ~NoRead.mine  BY DEF NoConn, NoRead
<1>2. conn.open => client \in {"registering", "attaching", "reading", "live"}  BY <1>1 DEF ViewKnown, Online
<1>3. wire \in Seq(Frames) /\ reads \in [Slots -> ReadRecords]  BY DEF ViewKnown, FeedTypeOK
<1>4. Len(wire) \in Nat /\ DOMAIN wire = 1..Len(wire)  BY <1>3
<1> QED  BY <1>1, <1>2, <1>3, <1>4 DEF Talk, Conversation, NoneMine

LEMMA EventsGrow ==
  ASSUME NEW S, NEW s \in Seq(S), NEW f \in S, NEW p \in Nat
  PROVE  /\ AllEvents(s, p) /\ f.kind = "actor_event" => AllEvents(Append(s, f), p)
         /\ p >= Len(s) => AllEvents(s, p)
<1>1. Len(s) \in Nat /\ Len(Append(s, f)) = Len(s) + 1
      /\ (\A i \in 1..Len(s) : Append(s, f)[i] = s[i]) /\ Append(s, f)[Len(s) + 1] = f
  BY AppendedEvent
<1>2. ASSUME AllEvents(s, p), f.kind = "actor_event", NEW i \in p+1..Len(s)+1 PROVE Append(s, f)[i].kind = "actor_event"
  <2>1. CASE i \in 1..Len(s)
    <3>1. i \in p+1..Len(s)  BY <1>1, <2>1
    <3> QED  BY <1>1, <1>2, <2>1, <3>1 DEF AllEvents
  <2>2. CASE i = Len(s) + 1  BY <1>1, <1>2, <2>2
  <2> QED  BY <1>1, <2>1, <2>2
<1>3. p >= Len(s) => \A i \in p+1..Len(s) : FALSE  BY <1>1
<1> QED  BY <1>1, <1>2, <1>3 DEF AllEvents

LEMMA EventsShift ==
  ASSUME NEW S, NEW s \in Seq(S), s # <<>>, NEW p \in Nat
  PROVE  AllEvents(s, p + 1) => AllEvents(Tail(s), p)
<1>1. Len(s) \in Nat \ {0}  OBVIOUS
<1>2. Len(Tail(s)) = Len(s) - 1 /\ \A i \in 1..Len(Tail(s)) : Tail(s)[i] = s[i + 1]  BY HeadTailProperties
<1>3. ASSUME AllEvents(s, p + 1), NEW i \in p+1..Len(Tail(s)) PROVE Tail(s)[i].kind = "actor_event"
  <2>1. i \in 1..Len(Tail(s)) /\ i + 1 \in p+1+1..Len(s)  BY <1>1, <1>2
  <2> QED  BY <1>2, <1>3, <2>1 DEF AllEvents
<1> QED  BY <1>3 DEF AllEvents

\* What the supervisor writes to such a user is whole, or the connection is gone.
LEMMA ViewWritten ==
  ASSUME ViewKnown, NEW f \in Frames, Writes(<<f>>)
  PROVE  ~conn'.open \/ (conn' = conn /\ wire' = Append(wire, f))
<1>1. wire \in Seq(Frames)  BY DEF ViewKnown, FeedTypeOK
<1>2. wire \o <<f>> = Append(wire, f)  BY <1>1
<1> QED  BY <1>2 DEF Writes, NoConn

LEMMA NothingWritten ==
  ASSUME ViewKnown, Writes(<<>>)
  PROVE  ~conn'.open \/ (conn' = conn /\ wire' = wire)
<1>1. wire \in Seq(Frames)  BY DEF ViewKnown, FeedTypeOK
<1>2. wire \o <<>> = wire  BY <1>1, ConcatEmptySeq
<1> QED  BY <1>2 DEF Writes, NoConn

LEMMA EventWritten ==
  ASSUME ViewKnown, OnActorEvent
  PROVE  /\ ActorFrame(pipe[1]) \in Frames /\ ActorFrame(pipe[1]).kind = "actor_event"
         /\ ActorFrame(pipe[1]).message = pipe[1].message /\ ActorFrame(pipe[1]).type = pipe[1].type
         /\ pipe[1].message \in Messages => ActorFrame(pipe[1]).text = said[pipe[1].message]
         /\ UNCHANGED <<client, asked, reads, view, gen>>
         /\ \/ ~conn'.open
            \/ conn' = conn /\ conn.watching /\ wire' = Append(wire, ActorFrame(pipe[1]))
            \/ conn' = conn /\ ~conn.watching /\ wire' = wire
<1>1. FeedTypeOK  BY DEF ViewKnown
<1>2. PICK e \in Events : e = pipe[1] /\ e = Head(pipe)  BY <1>1, TakenFacts
<1>3. ActorFrame(e) \in Frames
  <2>1. (IF e.message = 0 THEN 0 ELSE said[e.message]) \in Nat
    <3>1. e.message = 0 \/ e.message \in Messages  BY DEF Events
    <3> QED  BY <1>1, <3>1 DEF FeedTypeOK
  <2>2. gen \in Nat /\ e.message \in {0} \cup Messages
        /\ e.type \in {"agent_start", "agent_settled", "text_delta", "text_end", "message_end"}
    BY <1>1 DEF FeedTypeOK, Events
  <2>3. ActorFrame(e) \in ViewFrames  BY <2>1, <2>2 DEF ActorFrame, ViewFrames
  <2> QED  BY <2>3 DEF Frames
<1>4. /\ ActorFrame(e).kind = "actor_event" /\ ActorFrame(e).message = e.message /\ ActorFrame(e).type = e.type
      /\ e.message \in Messages => ActorFrame(e).text = said[e.message]
  <2>1. e.message \in Messages => e.message # 0  BY <1>1, EventFacts
  <2> QED  BY <2>1 DEF ActorFrame
<1>5. PICK F : Writes(RootFrames(F) \o ActorFrames(e))  BY <1>2 DEF OnActorEvent
<1>6. RootFrames(F) = <<>>  BY DEF RootFrames, ViewKnown
<1>7. ActorFrames(e) \in Seq(Frames)  BY <1>1, ActorFramesTyped
<1>8. Writes(ActorFrames(e))
  <2>1. <<>> \o ActorFrames(e) = ActorFrames(e)  BY <1>7, ConcatEmptySeq
  <2> QED  BY <1>5, <1>6, <2>1
<1>9. CASE conn.watching
  <2>1. ActorFrames(e) = <<ActorFrame(e)>>  BY <1>9 DEF ActorFrames
  <2>2. PICK f \in Frames : f = ActorFrame(e)  BY <1>3
  <2>3. Writes(<<f>>)  BY <1>8, <2>1, <2>2
  <2>4. ~conn'.open \/ (conn' = conn /\ wire' = Append(wire, f))  BY <2>3, ViewWritten
  <2> QED  BY <1>9, <2>2, <2>4, <1>2, <1>3, <1>4, <1>1, TakenFacts DEF workerVars, clientVars
<1>10. CASE ~conn.watching
  <2>1. ActorFrames(e) = <<>>  BY <1>10 DEF ActorFrames
  <2>2. Writes(<<>>)  BY <1>8, <2>1
  <2>3. ~conn'.open \/ (conn' = conn /\ wire' = wire)  BY <2>2, NothingWritten
  <2> QED  BY <1>10, <2>3, <1>2, <1>3, <1>4, <1>1, TakenFacts DEF workerVars, clientVars
<1> QED  BY <1>9, <1>10

LEMMA TalkStays ==
  ASSUME Talk, UNCHANGED <<client, conn, asked, wire>>, \A k \in Slots : reads'[k].mine => reads[k].mine
  PROVE  Talk'
<1>1. NoneMine => NoneMine'  BY DEF NoneMine
<1>2. \A n : AllEvents(wire', n) <=> AllEvents(wire, n)  BY DEF AllEvents
<1>3. Conversation => Conversation'
  <2> SUFFICES ASSUME Conversation PROVE Conversation'  OBVIOUS
  <2>1. CASE client = "registering"  BY <1>1, <2>1 DEF Conversation
  <2>2. CASE client = "attaching"  BY <1>1, <1>2, <2>2 DEF Conversation
  <2>3. CASE client = "reading"
    <3>1. conn.watching /\ asked \in {"read", "none"}  BY <2>3 DEF Conversation
    <3>2. asked = "read" => NoneMine' /\ AllEvents(wire', 0)  BY <1>1, <1>2, <2>3 DEF Conversation
    <3>3. ~NoneMine' => AllEvents(wire', 0)  BY <1>1, <1>2, <2>3 DEF Conversation
    <3>4. \A j, k \in Slots : reads'[j].mine /\ reads'[k].mine => j = k  BY <2>3 DEF Conversation
    <3>5. \A i \in DOMAIN wire : wire[i].kind = "actor_event" \/ (wire[i].kind = "messages" /\ AllEvents(wire', i))
      BY <1>2, <2>3 DEF Conversation
    <3> QED  BY <2>3, <3>1, <3>2, <3>3, <3>4, <3>5 DEF Conversation
  <2>4. CASE client = "live"  BY <1>1, <1>2, <2>4 DEF Conversation
  <2>5. CASE client \notin {"registering", "attaching", "reading", "live"}  BY <2>5 DEF Conversation
  <2> QED  BY <2>1, <2>2, <2>3, <2>4, <2>5
<1> QED  BY <1>1, <1>3 DEF Talk

\* The worker's events go to those who watch.
LEMMA EventTalk ==
  ASSUME ViewKnown, Talk, OnActorEvent
  PROVE  Talk'
<1>1. PICK f \in Frames : f = ActorFrame(pipe[1]) /\ f.kind = "actor_event"  BY EventWritten
<1>2. /\ UNCHANGED <<client, asked, reads>>
      /\ \/ ~conn'.open
         \/ conn' = conn /\ conn.watching /\ wire' = Append(wire, f)
         \/ conn' = conn /\ ~conn.watching /\ wire' = wire
  BY <1>1, EventWritten
<1>3. NoneMine' <=> NoneMine  BY <1>2 DEF NoneMine
<1>4. CASE ~conn'.open  BY <1>2, <1>3, <1>4 DEF Talk
<1>5. CASE conn' = conn /\ wire' = wire  BY <1>2, <1>5, TalkStays
<1>6. CASE conn' = conn /\ conn.watching /\ wire' = Append(wire, f) /\ conn.open
  <2>1. Conversation /\ client \in {"registering", "attaching", "reading", "live"}  BY <1>6, TalkFacts DEF Talk
  <2>2. wire \in Seq(Frames) /\ Len(wire) \in Nat /\ DOMAIN wire = 1..Len(wire)  BY TalkFacts
  <2>3. /\ DOMAIN wire' = 1..Len(wire) + 1 /\ wire' # <<>>
        /\ (\A i \in 1..Len(wire) : wire'[i] = wire[i]) /\ wire'[Len(wire) + 1] = f
    BY <1>6, <2>2, AppendedEvent
  <2>4. \A n \in Nat : AllEvents(wire, n) => AllEvents(wire', n)  BY <1>1, <1>6, <2>2, EventsGrow
  <2>5. client # "registering"  BY <1>6, <2>1 DEF Conversation
  <2>6. CASE client = "attaching"
    <3>1. NoneMine /\ asked = "none" /\ wire # <<>> /\ wire[1].kind = "watching" /\ AllEvents(wire, 1)
      BY <1>6, <2>1, <2>6 DEF Conversation
    <3>2. 1 \in 1..Len(wire)  BY <2>2, <3>1
    <3>3. wire'[1].kind = "watching" /\ AllEvents(wire', 1)  BY <2>3, <2>4, <3>1, <3>2
    <3> QED  BY <1>2, <1>3, <1>6, <2>3, <2>6, <3>1, <3>3 DEF Talk, Conversation
  <2>7. CASE client = "reading"
    <3>1. /\ asked \in {"read", "none"}
          /\ asked = "read" => NoneMine' /\ AllEvents(wire', 0)
          /\ ~NoneMine' => AllEvents(wire', 0)
          /\ \A j, k \in Slots : reads'[j].mine /\ reads'[k].mine => j = k
      BY <1>2, <1>3, <2>1, <2>4, <2>7 DEF Conversation
    <3>2. ASSUME NEW i \in DOMAIN wire'
          PROVE  wire'[i].kind = "actor_event" \/ (wire'[i].kind = "messages" /\ AllEvents(wire', i))
      <4>1. CASE i \in 1..Len(wire)
        <5>1. i \in Nat /\ wire'[i] = wire[i]  BY <2>3, <4>1
        <5>2. wire[i].kind = "actor_event" \/ (wire[i].kind = "messages" /\ AllEvents(wire, i))
          BY <2>1, <2>2, <2>7, <4>1 DEF Conversation
        <5> QED  BY <2>4, <5>1, <5>2
      <4>2. CASE i = Len(wire) + 1  BY <1>1, <2>3, <4>2
      <4> QED  BY <2>2, <2>3, <4>1, <4>2
    <3> QED  BY <1>2, <1>6, <2>7, <3>1, <3>2 DEF Talk, Conversation, Online
  <2>8. CASE client = "live"
    <3>1. asked = "none" /\ NoneMine /\ AllEvents(wire', 0)  BY <2>1, <2>4, <2>8 DEF Conversation
    <3> QED  BY <1>2, <1>3, <1>6, <2>8, <3>1 DEF Talk, Conversation
  <2> QED  BY <2>1, <2>5, <2>6, <2>7, <2>8
<1> QED  BY <1>2, <1>4, <1>5, <1>6

\* The answer to a read, to the user who asked.
LEMMA AnswerWritten ==
  ASSUME ViewKnown, Talk, NEW k \in Slots, AnswerRead(k), conn'.open
  PROVE  /\ conn' = conn /\ UNCHANGED <<client, asked, view, gen>> /\ reads' = [reads EXCEPT ![k] = NoRead]
         /\ \/ ~reads[k].mine /\ wire' = wire
            \/ /\ reads[k].mine /\ client = "reading" /\ AllEvents(wire, 0)
               /\ \E f \in Frames : /\ f = [kind |-> "messages", gen |-> gen, rows |-> Visible(reads[k].page)]
                                    /\ wire' = Append(wire, f)
<1>1. UNCHANGED <<client, asked, view, gen>> /\ reads' = [reads EXCEPT ![k] = NoRead]
  BY DEF AnswerRead, Other, workerVars
<1>2. CASE ~(reads[k].mine /\ conn.open)  BY <1>1, <1>2 DEF AnswerRead
<1>3. CASE reads[k].mine /\ conn.open
  <2>1. client = "reading" /\ AllEvents(wire, 0)
    <3>1. client = "reading" /\ ~NoneMine  BY <1>3, TalkFacts DEF NoneMine
    <3> QED  BY <1>3, <3>1 DEF Talk, Conversation
  <2>2. [kind |-> "messages", gen |-> gen, rows |-> Visible(reads[k].page)] \in Frames
    <3>1. gen \in Nat /\ rows \in LiveRows /\ said \in [Messages -> Nat]  BY DEF ViewKnown, FeedTypeOK
    <3>2. \A m \in Messages : [text |-> said[m], done |-> TRUE] \in RowRecords /\ rows[m] \in RowRecords
      BY <3>1 DEF RowRecords, LiveRows
    <3>3. Visible(reads[k].page) \in LiveRows  BY <3>2 DEF Visible, LiveRows
    <3> QED  BY <3>1, <3>3 DEF Frames, ViewFrames
  <2>3. PICK f \in Frames : f = [kind |-> "messages", gen |-> gen, rows |-> Visible(reads[k].page)]  BY <2>2
  <2>4. Writes(<<f>>)  BY <1>3, <2>3 DEF AnswerRead
  <2>5. conn' = conn /\ wire' = Append(wire, f)  BY <2>4, ViewWritten
  <2> QED  BY <1>1, <1>3, <2>1, <2>3, <2>5
<1> QED  BY <1>2, <1>3

LEMMA AnswerTalk ==
  ASSUME ViewKnown, Talk, NEW k \in Slots, AnswerRead(k)
  PROVE  Talk'
<1>1. UNCHANGED client /\ reads' = [reads EXCEPT ![k] = NoRead] /\ asked' = asked
  BY DEF AnswerRead, Other
<1>2. reads \in [Slots -> ReadRecords] /\ ~NoRead.mine  BY TalkFacts
<1>3. \A j \in Slots : reads'[j].mine => reads[j].mine /\ j # k  BY <1>1, <1>2
<1>4. NoneMine => NoneMine'  BY <1>3 DEF NoneMine
<1>5. CASE ~conn'.open  BY <1>1, <1>4, <1>5 DEF Talk
<1>6. CASE conn'.open /\ ~reads[k].mine
  <2>1. conn' = conn /\ wire' = wire  BY <1>6, AnswerWritten
  <2> QED  BY <1>1, <1>3, <2>1, TalkStays
<1>7. CASE conn'.open /\ reads[k].mine
  <2>1. /\ conn' = conn /\ client = "reading" /\ AllEvents(wire, 0)
        /\ \E f \in Frames : /\ f = [kind |-> "messages", gen |-> gen, rows |-> Visible(reads[k].page)]
                             /\ wire' = Append(wire, f)
    BY <1>7, AnswerWritten
  <2>2. PICK f \in Frames : f.kind = "messages" /\ wire' = Append(wire, f)  BY <2>1
  <2>3. wire \in Seq(Frames) /\ Len(wire) \in Nat /\ DOMAIN wire = 1..Len(wire)  BY TalkFacts
  <2>4. /\ DOMAIN wire' = 1..Len(wire) + 1 /\ wire' \in Seq(Frames) /\ Len(wire') = Len(wire) + 1
        /\ (\A i \in 1..Len(wire) : wire'[i] = wire[i]) /\ wire'[Len(wire) + 1] = f
    BY <2>2, <2>3, AppendedEvent
  <2>5. Conversation /\ ~NoneMine  BY <1>7, <2>1 DEF Talk, NoneMine
  <2>6. conn.watching /\ asked = "none"  BY <2>1, <2>5 DEF Conversation
  <2>7. NoneMine'  BY <1>3, <1>7, <2>1, <2>5 DEF Conversation, NoneMine
  <2>8. ASSUME NEW i \in DOMAIN wire'
        PROVE  wire'[i].kind = "actor_event" \/ (wire'[i].kind = "messages" /\ AllEvents(wire', i))
    <3>1. CASE i \in 1..Len(wire)
      <4>1. i \in 0+1..Len(wire)  BY <2>3, <3>1
      <4> QED  BY <2>1, <2>4, <3>1, <4>1 DEF AllEvents
    <3>2. CASE i = Len(wire) + 1
      <4>1. \A j \in i+1..Len(wire') : FALSE  BY <2>3, <2>4, <3>2
      <4> QED  BY <2>2, <2>4, <3>2, <4>1 DEF AllEvents
    <3> QED  BY <2>3, <2>4, <3>1, <3>2
  <2>9. \A j, n \in Slots : reads'[j].mine /\ reads'[n].mine => j = n  BY <2>7 DEF NoneMine
  <2>10. Conversation'  BY <1>1, <2>1, <2>6, <2>7, <2>8, <2>9 DEF Conversation
  <2> QED  BY <1>1, <2>7, <2>10 DEF Talk
<1> QED  BY <1>5, <1>6, <1>7

\* Requests.
LEMMA RequestTalk ==
  ASSUME ViewKnown, Talk, HandleRegister \/ HandleWatch \/ (\E k \in Slots : HandleRead(k)) \/ Refresh \/ Connect
  PROVE  Talk'
<1>1. wire \in Seq(Frames) /\ Len(wire) \in Nat /\ DOMAIN wire = 1..Len(wire) /\ reads \in [Slots -> ReadRecords]
  BY TalkFacts
<1>2. CASE HandleRegister
  <2>1. /\ asked = "register" /\ asked' = "none" /\ conn.open /\ UNCHANGED <<client, reads>>
        /\ wire' = Append(wire, [kind |-> "registered"]) /\ conn' = [conn EXCEPT !.client = TRUE]
    BY <1>2 DEF HandleRegister, Handles
  <2>2. client = "registering" /\ Conversation  BY <2>1, TalkFacts DEF Talk
  <2>3. NoneMine' /\ wire = <<>> /\ ~conn.watching  BY <2>1, <2>2 DEF Conversation, NoneMine
  <2>4. wire' = <<[kind |-> "registered"]>>  BY <2>1, <2>3
  <2>5. Len(wire') <= 1 /\ \A i \in DOMAIN wire' : wire'[i].kind = "registered"  BY <2>4
  <2>6. ~conn'.watching
    <3>1. conn \in Connections  BY DEF ViewKnown, FeedTypeOK
    <3> QED  BY <2>1, <2>3, <3>1 DEF Connections
  <2> QED  BY <2>1, <2>2, <2>3, <2>5, <2>6 DEF Talk, Conversation
<1>3. CASE HandleWatch
  <2>1. /\ asked = "watch" /\ asked' = "none" /\ conn.open /\ UNCHANGED <<client, reads>>
        /\ wire' = Append(wire, [kind |-> "watching"]) /\ conn' = [conn EXCEPT !.watching = TRUE]
    BY <1>3 DEF HandleWatch, Handles
  <2>2. client = "attaching" /\ Conversation  BY <2>1, TalkFacts DEF Talk
  <2>3. NoneMine' /\ wire = <<>>  BY <2>1, <2>2 DEF Conversation, NoneMine
  <2>4. wire' = <<[kind |-> "watching"]>>  BY <2>1, <2>3
  <2>5. wire' # <<>> /\ wire'[1].kind = "watching" /\ AllEvents(wire', 1)
    <3>1. Len(wire') = 1 /\ wire'[1].kind = "watching" /\ wire' # <<>>  BY <2>4
    <3>2. \A i \in 1+1..Len(wire') : FALSE  BY <3>1
    <3> QED  BY <3>1, <3>2 DEF AllEvents
  <2>6. conn'.watching
    <3>1. conn \in Connections  BY DEF ViewKnown, FeedTypeOK
    <3> QED  BY <2>1, <3>1 DEF Connections
  <2> QED  BY <2>1, <2>2, <2>3, <2>5, <2>6 DEF Talk, Conversation
<1>4. ASSUME NEW k \in Slots, HandleRead(k) PROVE Talk'
  <2>1. /\ asked = "read" /\ asked' = "none" /\ conn.open /\ UNCHANGED <<client, wire, conn>>
        /\ reads' = [reads EXCEPT ![k] = [phase |-> "waiting", page |-> {}, mine |-> TRUE]]
    BY <1>4 DEF HandleRead, Handles
  <2>2. client = "reading" /\ Conversation  BY <2>1, TalkFacts DEF Talk
  <2>3. NoneMine /\ conn.watching /\ AllEvents(wire, 0)  BY <2>1, <2>2 DEF Conversation
  <2>4. \A j \in Slots : reads'[j].mine => j = k  BY <1>1, <2>1, <2>3 DEF NoneMine
  <2>5. \A i \in DOMAIN wire : wire[i].kind = "actor_event"
    <3>1. \A i \in DOMAIN wire : i \in 0+1..Len(wire)  BY <1>1
    <3> QED  BY <2>3, <3>1 DEF AllEvents
  <2>6. AllEvents(wire', 0)  BY <2>1, <2>3 DEF AllEvents
  <2> QED  BY <2>1, <2>2, <2>3, <2>4, <2>5, <2>6 DEF Talk, Conversation, Online
<1>5. CASE Refresh
  <2>1. client = "live" /\ conn.open /\ client' = "reading" /\ asked' = "read" /\ UNCHANGED <<wire, conn, reads>>
    BY <1>5 DEF Refresh, Asks, UserOnly
  <2>2. conn.watching /\ NoneMine /\ AllEvents(wire, 0)  BY <2>1 DEF Talk, Conversation
  <2>3. NoneMine' /\ AllEvents(wire', 0)  BY <2>1, <2>2 DEF NoneMine, AllEvents
  <2>4. \A i \in DOMAIN wire : wire[i].kind = "actor_event"
    <3>1. \A i \in DOMAIN wire : i \in 0+1..Len(wire)  BY <1>1
    <3> QED  BY <2>2, <3>1 DEF AllEvents
  <2>5. \A j, k \in Slots : reads'[j].mine /\ reads'[k].mine => j = k  BY <2>3 DEF NoneMine
  <2> QED  BY <2>1, <2>2, <2>3, <2>4, <2>5 DEF Talk, Conversation, Online
<1>6. CASE Connect
  <2>1. client = "connecting" /\ UNCHANGED <<wire, reads>>  BY <1>6 DEF Connect
  <2>2. client \notin Online /\ wire = <<>> /\ conn = NoConn  BY <2>1 DEF Online, ViewKnown
  <2>3. NoneMine'  BY <2>1, <2>2 DEF Talk, NoneMine
  <2>4. CASE up
    <3>1. client' = "registering" /\ conn' = [NoConn EXCEPT !.open = TRUE] /\ asked' = "register"  BY <1>6, <2>4 DEF Connect
    <3>2. ~conn'.watching  BY <3>1 DEF NoConn
    <3>3. Len(wire) = 0 /\ \A i \in DOMAIN wire' : FALSE  BY <2>1, <2>2
    <3>4. Conversation'  BY <2>1, <2>2, <2>3, <3>1, <3>2, <3>3 DEF Conversation
    <3> QED  BY <2>3, <3>4 DEF Talk
  <2>5. CASE ~up
    <3>1. conn' = conn /\ ~conn.open  BY <1>6, <2>2, <2>5, TalkFacts DEF Connect
    <3> QED  BY <2>3, <3>1 DEF Talk
  <2> QED  BY <2>4, <2>5
<1> QED  BY <1>2, <1>3, <1>4, <1>5, <1>6

\* What the client takes.
LEMMA TakenTalk ==
  ASSUME FeedInv, ViewKnown, Talk, OnRegistered \/ OnWatching \/ OnMessages \/ OnActorFrame
  PROVE  Talk' /\ conn' = conn /\ UNCHANGED reads
<1>1. UNCHANGED <<reads, conn>> /\ conn' = conn
  BY DEF OnRegistered, OnWatching, OnMessages, OnActorFrame, UserOnly
<1>2. PICK kind \in {"registered", "watching", "messages", "actor_event"} :
        /\ Takes(kind) /\ (kind = "registered" => OnRegistered) /\ (kind = "watching" => OnWatching)
        /\ (kind = "messages" => OnMessages) /\ (kind = "actor_event" => OnActorFrame)
  <2>1. CASE OnRegistered /\ Takes("registered")  BY <2>1
  <2>2. CASE OnWatching /\ Takes("watching")  BY <2>2
  <2>3. CASE OnMessages /\ Takes("messages")  BY <2>3
  <2>4. CASE OnActorFrame /\ Takes("actor_event")  BY <2>4
  <2> QED  BY <2>1, <2>2, <2>3, <2>4 DEF OnRegistered, OnWatching, OnMessages, OnActorFrame
<1>3. /\ client \in Online /\ wire # <<>> /\ wire \in Seq(Frames) /\ Len(wire) \in Nat \ {0} /\ 1 \in DOMAIN wire
      /\ wire[1].kind = kind /\ wire' = Tail(wire) /\ Len(wire') = Len(wire) - 1 /\ DOMAIN wire' = 1..(Len(wire) - 1)
      /\ \A i \in DOMAIN wire' : i + 1 \in DOMAIN wire /\ wire'[i] = wire[i + 1]
  BY <1>2, TakesFrame
<1>4. NoneMine' <=> NoneMine  BY <1>1 DEF NoneMine
<1>5. client' \in Online /\ UNCHANGED <<reads, conn>>
  BY <1>1, <1>2, <1>3 DEF OnRegistered, OnWatching, OnMessages, OnActorFrame, Asks, Online
<1>6. SUFFICES ASSUME conn.open PROVE Conversation'
  BY <1>1, <1>5 DEF Talk
<1>7. Conversation /\ client \in {"registering", "attaching", "reading", "live"}  BY <1>6, TalkFacts DEF Talk
<1>8. \A n \in Nat : AllEvents(wire, n + 1) => AllEvents(wire', n)  BY <1>3, EventsShift
<1>9. \A n \in Nat : AllEvents(wire, n) => AllEvents(wire, n + 1)
  <2>1. \A n \in Nat : \A i \in n + 1 + 1..Len(wire) : i \in n+1..Len(wire)  BY <1>3
  <2> QED  BY <2>1 DEF AllEvents
<1>10. AllEvents(wire, 0) => wire[1].kind = "actor_event"
  <2>1. 1 \in 0+1..Len(wire)  BY <1>3
  <2> QED  BY <2>1 DEF AllEvents
<1>11. CASE client = "registering"
  <2>1. /\ kind = "registered" /\ Len(wire) = 1 /\ NoneMine /\ ~conn.watching /\ asked = "none"
    <3>1. Len(wire) <= 1 /\ wire[1].kind = "registered" /\ NoneMine /\ ~conn.watching /\ asked \in {"register", "none"}
          /\ (asked = "register" => wire = <<>>)
      BY <1>3, <1>7, <1>11 DEF Conversation
    <3> QED  BY <1>3, <3>1
  <2>2. OnRegistered /\ wants = "view"  BY <1>2, <2>1 DEF ViewKnown
  <2>3. client' = "attaching" /\ asked' = "watch"  BY <2>2 DEF OnRegistered, Asks
  <2>4. wire' = <<>>  BY <1>3, <2>1
  <2> QED  BY <1>1, <1>4, <2>1, <2>3, <2>4 DEF Conversation
<1>12. CASE client = "attaching"
  <2>1. /\ kind = "watching" /\ NoneMine /\ conn.watching /\ AllEvents(wire, 1)
    BY <1>3, <1>7, <1>12 DEF Conversation
  <2>2. client' = "reading" /\ asked' = "read"  BY <1>2, <2>1 DEF OnWatching, Asks
  <2>3. AllEvents(wire', 0)
    <3>1. 0 + 1 = 1 /\ 0 \in Nat  OBVIOUS
    <3> QED  BY <1>8, <2>1, <3>1
  <2>4. \A i \in DOMAIN wire' : wire'[i].kind = "actor_event"
    <3>1. \A i \in DOMAIN wire' : i \in 0+1..Len(wire')  BY <1>3
    <3> QED  BY <2>3, <3>1 DEF AllEvents
  <2>5. \A j, k \in Slots : reads'[j].mine /\ reads'[k].mine => j = k  BY <1>4, <2>1 DEF NoneMine
  <2> QED  BY <1>1, <1>4, <2>1, <2>2, <2>3, <2>4, <2>5 DEF Conversation
<1>13. CASE client \in {"reading", "live"} /\ kind = "actor_event"
  <2>1. client' = client /\ asked' = asked  BY <1>2, <1>13 DEF OnActorFrame
  <2>2. AllEvents(wire, 0) => AllEvents(wire', 0)
    <3>1. 0 \in Nat  OBVIOUS
    <3> QED  BY <1>8, <1>9, <3>1
  <2>3. CASE client = "live"
    <3>1. conn.watching /\ asked = "none" /\ NoneMine /\ AllEvents(wire, 0)  BY <1>7, <2>3 DEF Conversation
    <3> QED  BY <1>1, <1>4, <2>1, <2>2, <2>3, <3>1 DEF Conversation
  <2>4. CASE client = "reading"
    <3>1. /\ conn.watching /\ asked \in {"read", "none"}
          /\ asked = "read" => NoneMine /\ AllEvents(wire, 0)
          /\ ~NoneMine => AllEvents(wire, 0)
          /\ \A j, k \in Slots : reads[j].mine /\ reads[k].mine => j = k
          /\ \A i \in DOMAIN wire : wire[i].kind = "actor_event" \/ (wire[i].kind = "messages" /\ AllEvents(wire, i))
      BY <1>7, <2>4 DEF Conversation
    <3>2. ASSUME NEW i \in DOMAIN wire'
          PROVE  wire'[i].kind = "actor_event" \/ (wire'[i].kind = "messages" /\ AllEvents(wire', i))
      <4>1. i \in Nat /\ i + 1 \in DOMAIN wire /\ wire'[i] = wire[i + 1]  BY <1>3
      <4> QED  BY <1>8, <3>1, <4>1
    <3>3. \A j, k \in Slots : reads'[j].mine /\ reads'[k].mine => j = k  BY <1>1, <3>1
    <3> QED  BY <1>1, <1>4, <2>1, <2>2, <2>4, <3>1, <3>2, <3>3 DEF Conversation
  <2> QED  BY <1>13, <2>3, <2>4
<1>14. CASE client \in {"reading", "live"} /\ kind = "messages"
  <2>1. client' = "live" /\ asked' = asked  BY <1>2, <1>14 DEF OnMessages
  <2>2. ~AllEvents(wire, 0)  BY <1>3, <1>10, <1>14
  <2>3. client = "reading"  BY <1>7, <1>14, <2>2 DEF Conversation
  <2>4. NoneMine /\ conn.watching /\ asked = "none" /\ AllEvents(wire, 1)  BY <1>3, <1>7, <1>14, <2>2, <2>3 DEF Conversation
  <2>5. AllEvents(wire', 0)
    <3>1. 0 + 1 = 1 /\ 0 \in Nat  OBVIOUS
    <3> QED  BY <1>8, <2>4, <3>1
  <2> QED  BY <1>1, <1>4, <2>1, <2>4, <2>5 DEF Conversation
<1>15. CASE client \in {"reading", "live"} /\ kind \in {"registered", "watching"}
  <2>1. wire[1].kind \notin {"actor_event", "messages"}  BY <1>3, <1>15
  <2>2. client = "reading" => wire[1].kind \in {"actor_event", "messages"}  BY <1>3, <1>7 DEF Conversation
  <2>3. client = "live" => wire[1].kind = "actor_event"  BY <1>7, <1>10 DEF Conversation
  <2> QED  BY <1>15, <2>1, <2>2, <2>3
<1> QED  BY <1>2, <1>7, <1>11, <1>12, <1>13, <1>14, <1>15

LEMMA TalkStep ==
  ASSUME FeedInv, ViewKnown, Talk, [FeedNext]_feedVars
  PROVE  Talk'
<1>1. reads \in [Slots -> ReadRecords] /\ ~NoConn.open  BY TalkFacts
<1>2. CASE Speaks \/ WorkerDies \/ LaunchActor \/ SupervisorStarts
  <2> USE DEF WorkerOnly, clientVars
  <2>1. UNCHANGED <<client, conn, asked, wire, reads>>
    <3>1. CASE AgentStart  BY <3>1 DEF AgentStart
    <3>2. ASSUME NEW m \in Messages, Say(m) PROVE UNCHANGED <<client, conn, asked, wire, reads>>  BY <3>2 DEF Say
    <3>3. CASE TextEnd  BY <3>3 DEF TextEnd
    <3>4. CASE Commit  BY <3>4 DEF Commit
    <3>5. CASE AgentSettled  BY <3>5 DEF AgentSettled
    <3>6. CASE WorkerDies  BY <3>6 DEF WorkerDies
    <3>7. CASE LaunchActor  BY <3>7 DEF LaunchActor
    <3>8. CASE SupervisorStarts  BY <3>8 DEF SupervisorStarts
    <3> QED  BY <1>2, <3>1, <3>2, <3>3, <3>4, <3>5, <3>6, <3>7, <3>8 DEF Speaks
  <2> QED  BY <2>1, TalkStays
<1>3. CASE OnActorEvent  BY <1>3, EventTalk
<1>4. CASE OnActorExit
  <2>1. PICK F : Writes(RootFrames(F))  BY <1>4 DEF OnActorExit
  <2>2. RootFrames(F) = <<>>  BY DEF RootFrames, ViewKnown
  <2>3. ~conn'.open \/ (conn' = conn /\ wire' = wire)  BY <2>1, <2>2, NothingWritten
  <2>4. UNCHANGED <<client, asked, reads>>  BY <1>4 DEF OnActorExit, clientVars
  <2>5. CASE ~conn'.open  BY <2>4, <2>5 DEF Talk, NoneMine
  <2>6. CASE conn' = conn /\ wire' = wire  BY <2>4, <2>6, TalkStays
  <2> QED  BY <2>3, <2>5, <2>6
<1>5. CASE SupervisorEnds
  <2>1. conn' = NoConn /\ reads' = [k \in Slots |-> NoRead]  BY <1>5 DEF SupervisorEnds
  <2>2. NoneMine'  BY <2>1 DEF NoneMine, NoRead
  <2> QED  BY <1>1, <2>1, <2>2 DEF Talk
<1>6. CASE HandleRegister \/ HandleWatch \/ (\E k \in Slots : HandleRead(k)) \/ Refresh \/ Connect  BY <1>6, RequestTalk
<1>7. ASSUME NEW k \in Slots, OtherAsks(k) \/ ReadTranscript(k) PROVE Talk'
  <2>1. UNCHANGED <<client, conn, asked, wire>>  BY <1>7 DEF OtherAsks, ReadTranscript
  <2>2. \A j \in Slots : reads'[j].mine => reads[j].mine
    <3>1. reads[k] \in ReadRecords  BY <1>1
    <3>2. CASE OtherAsks(k)  BY <1>1, <3>1, <3>2 DEF OtherAsks, ReadRecords
    <3>3. CASE ReadTranscript(k)  BY <1>1, <3>1, <3>3 DEF ReadTranscript, ReadRecords
    <3> QED  BY <1>7, <3>2, <3>3
  <2> QED  BY <2>1, <2>2, TalkStays
<1>8. ASSUME NEW k \in Slots, AnswerRead(k) PROVE Talk'  BY <1>8, AnswerTalk
<1>9. CASE Dial
  <2>1. client = "offline" /\ UNCHANGED <<reads, conn>>  BY <1>9 DEF Dial
  <2>2. client \notin Online  BY <2>1 DEF Online
  <2>3. NoneMine' /\ conn' = NoConn  BY <2>1, <2>2 DEF Talk, NoneMine, ViewKnown
  <2> QED  BY <1>1, <2>3 DEF Talk
<1>10. CASE OnClose \/ RequestTimesOut \/ Refused \/ StopClient
  <2>1. conn' = NoConn /\ reads' = Disowned  BY <1>10 DEF OnClose, RequestTimesOut, Refused, StopClient, Hangs
  <2>2. NoneMine'
    <3>1. \A k \in Slots : ~reads'[k].mine
      <4> TAKE k \in Slots
      <4>1. reads[k] \in ReadRecords  BY <1>1
      <4> QED  BY <2>1, <4>1 DEF Disowned, ReadRecords
    <3> QED  BY <3>1 DEF NoneMine
  <2> QED  BY <1>1, <2>1, <2>2 DEF Talk
<1>11. CASE OnRegistered \/ OnWatching \/ OnMessages \/ OnActorFrame  BY <1>11, TakenTalk
<1>12. CASE HandleSubscribe \/ OnSubscribed \/ OnRootOutput
  <2>1. ~HandleSubscribe  BY DEF HandleSubscribe, Handles, ViewKnown
  <2>2. ASSUME NEW kind \in {"subscribed", "root_output"}, Takes(kind) PROVE FALSE
    <3>1. 1 \in DOMAIN wire /\ wire[1].kind = kind  BY <2>2, TakesFrame
    <3> QED  BY <2>2, <3>1 DEF ViewKnown
  <2> QED  BY <1>12, <2>1, <2>2 DEF OnSubscribed, OnRootOutput
<1>13. CASE UNCHANGED feedVars
  <2>1. UNCHANGED <<client, conn, asked, wire, reads>>  BY <1>13 DEF feedVars, clientVars
  <2> QED  BY <2>1, TalkStays
<1> QED  BY <1>2, <1>3, <1>4, <1>5, <1>6, <1>7, <1>8, <1>9, <1>10, <1>11, <1>12, <1>13 DEF FeedNext


-----------------------------------------------------------------------------
(* From the user's rows to the live rows. *)

\* What is written, whole or not, is of frames that were there or are written.
LEMMA WrittenOld ==
  ASSUME FeedAssumption, FeedTypeOK, NEW S, wire \in Seq(S), NEW X \in Seq(Frames), X \in Seq(S), Writes(X)
  PROVE  wire' \in Seq(S)
<1>1. FeedFacts  BY DEF FeedTypeOK, FeedFacts
<1>2. \/ wire' = wire \o X
      \/ wire' = SubSeq(wire \o X, 1, MaxQueue) /\ MaxQueue < Len(wire \o X)
  BY <1>1, WritesWhole
<1>3. wire \o X \in Seq(S) /\ Len(wire \o X) \in Nat /\ MaxQueue \in Nat
  <2>1. wire \o X \in Seq(S)  BY ConcatProperties
  <2>2. Len(wire \o X) \in Nat  BY <2>1
  <2> QED  BY <2>1, <2>2 DEF FeedAssumption
<1>4. CASE wire' = SubSeq(wire \o X, 1, MaxQueue) /\ MaxQueue < Len(wire \o X)
  <2>1. \A i \in 1..MaxQueue : i \in 1..Len(wire \o X)  BY <1>3, <1>4
  <2>2. \A i \in 1..MaxQueue : (wire \o X)[i] \in S  BY <1>3, <2>1, ElementOfSeq
  <2>3. 1 \in Int /\ MaxQueue \in Int  BY <1>3
  <2> QED  BY <1>4, <2>2, <2>3, SubSeqProperties
<1> QED  BY <1>2, <1>3, <1>4

OldFrames(g) == {f \in Frames : f.kind = "messages" => f.gen <= g}

LEMMA OldInFrames ==
  ASSUME FeedTypeOK
  PROVE  /\ (\A i \in DOMAIN wire : wire[i].kind = "messages" => wire[i].gen <= gen) => wire \in Seq(OldFrames(gen))
         /\ wire \in Seq(OldFrames(gen)) => \A i \in DOMAIN wire : wire[i].kind = "messages" => wire[i].gen <= gen
<1>1. wire \in Seq(Frames)  BY DEF FeedTypeOK
<1>2. Len(wire) \in Nat /\ DOMAIN wire = 1..Len(wire) /\ wire = [i \in 1..Len(wire) |-> wire[i]]
      /\ \A i \in 1..Len(wire) : wire[i] \in Frames
  BY <1>1
<1>3. ASSUME \A i \in DOMAIN wire : wire[i].kind = "messages" => wire[i].gen <= gen PROVE wire \in Seq(OldFrames(gen))
  <2>1. \A i \in 1..Len(wire) : wire[i] \in OldFrames(gen)  BY <1>2, <1>3 DEF OldFrames
  <2> QED  BY <1>2, <2>1, IsASeq
<1>4. ASSUME wire \in Seq(OldFrames(gen)) PROVE \A i \in DOMAIN wire : wire[i].kind = "messages" => wire[i].gen <= gen
  <2>1. \A i \in 1..Len(wire) : wire[i] \in OldFrames(gen)  BY <1>4, ElementOfSeq
  <2> QED  BY <1>2, <2>1 DEF OldFrames
<1> QED  BY <1>3, <1>4

\* No snapshot is of a worker that is still to come.
LEMMA OldStep ==
  ASSUME FeedAssumption, FeedInv, ViewKnown, OldOrPresent, [FeedNext]_feedVars
  PROVE  OldOrPresent'
<1>1. FeedTypeOK /\ gen \in Nat /\ wire \in Seq(Frames)  BY DEF ViewKnown, FeedTypeOK
<1>2. wire \in Seq(OldFrames(gen)) /\ view.gen <= gen /\ view.gen \in Nat /\ view \in [rows : LiveRows, gen : Nat]
  BY <1>1, OldInFrames DEF OldOrPresent, FeedTypeOK
<1>3. ASSUME gen' = gen, view' = view, wire' \in Seq(OldFrames(gen)) PROVE OldOrPresent'
  <2>1. Len(wire') \in Nat /\ DOMAIN wire' = 1..Len(wire') /\ \A i \in 1..Len(wire') : wire'[i] \in OldFrames(gen)
    BY <1>3, ElementOfSeq
  <2> QED  BY <1>2, <1>3, <2>1 DEF OldOrPresent, OldFrames
<1>4. CASE LaunchActor
  <2>1. gen' = gen + 1 /\ UNCHANGED <<wire, view>>  BY <1>4 DEF LaunchActor, clientVars
  <2>2. ASSUME NEW i \in DOMAIN wire, wire[i].kind = "messages" PROVE wire[i].gen <= gen + 1
    <3>1. wire[i] \in ViewFrames /\ wire[i].gen <= gen  BY <2>2 DEF ViewKnown, OldOrPresent
    <3>2. wire[i].gen \in Nat  BY <2>2, <3>1 DEF ViewFrames
    <3> QED  BY <1>1, <3>1, <3>2
  <2> QED  BY <1>1, <1>2, <2>1, <2>2 DEF OldOrPresent
<1>5. CASE Speaks \/ WorkerDies \/ SupervisorStarts \/ SupervisorEnds
  <2> USE DEF WorkerOnly, clientVars, workerVars
  <2>1. UNCHANGED <<gen, view, wire>>
    <3>1. CASE AgentStart  BY <3>1 DEF AgentStart
    <3>2. ASSUME NEW m \in Messages, Say(m) PROVE UNCHANGED <<gen, view, wire>>  BY <3>2 DEF Say
    <3>3. CASE TextEnd  BY <3>3 DEF TextEnd
    <3>4. CASE Commit  BY <3>4 DEF Commit
    <3>5. CASE AgentSettled  BY <3>5 DEF AgentSettled
    <3>6. CASE WorkerDies  BY <3>6 DEF WorkerDies
    <3>7. CASE SupervisorEnds  BY <3>7 DEF SupervisorEnds
    <3>8. CASE SupervisorStarts  BY <3>8 DEF SupervisorStarts
    <3> QED  BY <1>5, <3>1, <3>2, <3>3, <3>4, <3>5, <3>6, <3>7, <3>8 DEF Speaks
  <2> QED  BY <1>2, <1>3, <2>1
<1>6. ~conn.feed  BY DEF ViewKnown
<1>7. CASE OnActorEvent
  <2>1. pipe[1] \in Events /\ pipe[1] = Head(pipe)  BY <1>1, <1>7, TakenFacts
  <2>2. PICK e \in Events : e = Head(pipe)  BY <2>1
  <2>3. PICK F : Writes(RootFrames(F) \o ActorFrames(e))  BY <1>7, <2>2 DEF OnActorEvent
  <2>4. RootFrames(F) = <<>>  BY <1>6 DEF RootFrames
  <2>5. ActorFrames(e) \in Seq(Frames) /\ \A i \in DOMAIN ActorFrames(e) : ActorFrames(e)[i].kind = "actor_event"
    BY <1>1, ActorFramesTyped
  <2>6. PICK X \in Seq(Frames) : X = ActorFrames(e)  BY <2>5
  <2>7. <<>> \o X = X  BY ConcatEmptySeq
  <2>8. X \in Seq(OldFrames(gen))
    <3>1. Len(X) \in Nat /\ X = [i \in 1..Len(X) |-> X[i]] /\ DOMAIN X = 1..Len(X) /\ \A i \in 1..Len(X) : X[i] \in Frames
      OBVIOUS
    <3>2. \A i \in 1..Len(X) : X[i] \in OldFrames(gen)  BY <2>5, <2>6, <3>1 DEF OldFrames
    <3> QED  BY <3>1, <3>2, IsASeq
  <2>9. Writes(X)  BY <2>3, <2>4, <2>6, <2>7
  <2>10. wire' \in Seq(OldFrames(gen))  BY <1>1, <1>2, <2>8, <2>9, WrittenOld
  <2>11. UNCHANGED <<gen, view>>  BY <1>7 DEF OnActorEvent, workerVars, clientVars
  <2> QED  BY <1>3, <2>10, <2>11
<1>8. CASE OnActorExit
  <2>1. PICK F : Writes(RootFrames(F))  BY <1>8 DEF OnActorExit
  <2>2. RootFrames(F) = <<>>  BY <1>6 DEF RootFrames
  <2>3. <<>> \in Seq(Frames) /\ <<>> \in Seq(OldFrames(gen))  OBVIOUS
  <2>4. wire' \in Seq(OldFrames(gen))  BY <1>1, <1>2, <2>1, <2>2, <2>3, WrittenOld
  <2>5. UNCHANGED <<gen, view>>  BY <1>8 DEF OnActorExit, clientVars
  <2> QED  BY <1>3, <2>4, <2>5
<1>9. CASE HandleRegister \/ HandleWatch
  <2>1. UNCHANGED <<gen, view>>  BY <1>9 DEF HandleRegister, HandleWatch, Other, workerVars
  <2>2. PICK kind \in {"registered", "watching"} : wire' = Append(wire, [kind |-> kind])
    BY <1>9 DEF HandleRegister, HandleWatch
  <2>3. [kind |-> kind] \in OldFrames(gen)  BY <2>2 DEF OldFrames, Frames, ViewFrames
  <2>4. wire' \in Seq(OldFrames(gen))  BY <1>2, <2>2, <2>3, AppendedEvent
  <2> QED  BY <1>3, <2>1, <2>4
<1>10. CASE HandleSubscribe  BY <1>10 DEF HandleSubscribe, Handles, ViewKnown
<1>11. ASSUME NEW k \in Slots, HandleRead(k) \/ OtherAsks(k) \/ ReadTranscript(k) PROVE OldOrPresent'
  <2>1. UNCHANGED <<gen, view, wire>>  BY <1>11 DEF HandleRead, OtherAsks, ReadTranscript, Other, workerVars
  <2> QED  BY <1>2, <1>3, <2>1
<1>12. ASSUME NEW k \in Slots, AnswerRead(k) PROVE OldOrPresent'
  <2>1. UNCHANGED <<gen, view>>  BY <1>12 DEF AnswerRead, Other, workerVars
  <2> DEFINE f == [kind |-> "messages", gen |-> gen, rows |-> Visible(reads[k].page)]
  <2>2. f \in Frames
    <3>1. gen \in Nat /\ rows \in LiveRows /\ said \in [Messages -> Nat]  BY <1>1 DEF FeedTypeOK
    <3>2. \A m \in Messages : [text |-> said[m], done |-> TRUE] \in RowRecords /\ rows[m] \in RowRecords
      BY <3>1 DEF RowRecords, LiveRows
    <3>3. Visible(reads[k].page) \in LiveRows  BY <3>2 DEF Visible, LiveRows
    <3> QED  BY <3>1, <3>3 DEF Frames, ViewFrames
  <2>3. f \in OldFrames(gen)  BY <1>1, <2>2 DEF OldFrames
  <2>4. (Writes(<<f>>) \/ UNCHANGED wire)  BY <1>12 DEF AnswerRead
  <2> HIDE DEF f
  <2>5. PICK g \in Frames : g = f  BY <2>2
  <2>6. <<g>> \in Seq(Frames) /\ <<g>> \in Seq(OldFrames(gen))  BY <2>3, <2>5
  <2>7. wire' \in Seq(OldFrames(gen))
    <3>1. CASE UNCHANGED wire  BY <1>2, <3>1
    <3>2. CASE Writes(<<f>>)
      <4>1. Writes(<<g>>)  BY <2>5, <3>2
      <4> QED  BY <1>1, <1>2, <2>6, <4>1, WrittenOld
    <3> QED  BY <2>4, <3>1, <3>2
  <2> QED  BY <1>3, <2>1, <2>7
<1>13. CASE Dial \/ Connect \/ Refresh \/ UNCHANGED feedVars
  <2>1. UNCHANGED <<gen, view, wire>>
    BY <1>13 DEF Dial, Connect, Refresh, UserOnly, ServerKeeps, workerVars, clientVars, feedVars
  <2> QED  BY <1>2, <1>3, <2>1
<1>14. CASE OnClose \/ RequestTimesOut \/ Refused \/ StopClient
  <2>1. UNCHANGED <<gen, view>> /\ wire' = <<>>
    BY <1>14 DEF OnClose, RequestTimesOut, Refused, StopClient, Hangs, ServerKeeps, workerVars
  <2>2. wire' \in Seq(OldFrames(gen))  BY <2>1
  <2> QED  BY <1>3, <2>1, <2>2
<1>15. CASE OnRegistered \/ OnWatching \/ OnMessages \/ OnActorFrame
  <2>1. PICK kind : Takes(kind)
    BY <1>15 DEF OnRegistered, OnWatching, OnMessages, OnActorFrame
  <2>2. /\ DOMAIN wire' = 1..(Len(wire) - 1) /\ wire' \in Seq(Frames) /\ 1 \in DOMAIN wire
        /\ Head(wire) = wire[1] /\ wire[1].kind = kind
        /\ \A i \in DOMAIN wire' : i + 1 \in DOMAIN wire /\ wire'[i] = wire[i + 1]
    BY <2>1, TakesFrame
  <2>3. gen' = gen  BY <1>15 DEF OnRegistered, OnWatching, OnMessages, OnActorFrame, UserOnly, ServerKeeps, workerVars
  <2>4. view'.gen <= gen
    <3>1. CASE OnRegistered \/ OnWatching  BY <1>2, <3>1 DEF OnRegistered, OnWatching
    <3>2. CASE OnMessages
      <4>1. view' = [rows |-> wire[1].rows, gen |-> wire[1].gen] /\ wire[1].kind = "messages"
        BY <2>2, <3>2 DEF OnMessages, Takes
      <4> QED  BY <2>2, <4>1 DEF OldOrPresent
    <3>3. CASE OnActorFrame
      <4>1. view' = [view EXCEPT !.rows = Show(@, Head(wire))]  BY <3>3 DEF OnActorFrame
      <4>2. view'.gen = view.gen  BY <1>2, <4>1
      <4> QED  BY <1>2, <4>2
    <3> QED  BY <1>15, <3>1, <3>2, <3>3
  <2>5. \A i \in DOMAIN wire' : wire'[i].kind = "messages" => wire'[i].gen <= gen  BY <2>2 DEF OldOrPresent
  <2> QED  BY <2>3, <2>4, <2>5 DEF OldOrPresent
<1>16. CASE OnSubscribed \/ OnRootOutput
  <2>1. ASSUME NEW kind \in {"subscribed", "root_output"}, Takes(kind) PROVE FALSE
    <3>1. 1 \in DOMAIN wire /\ wire[1].kind = kind  BY <2>1, TakesFrame
    <3> QED  BY <2>1, <3>1 DEF ViewKnown
  <2> QED  BY <1>16, <2>1 DEF OnSubscribed, OnRootOutput
<1> QED  BY <1>4, <1>5, <1>7, <1>8, <1>9, <1>10, <1>11, <1>12, <1>13, <1>14, <1>15, <1>16 DEF FeedNext

\* What is behind a snapshot: a lemma for each way in which the wire, the pipe and the rows go on.
\* Here nothing of m does.
LEMMA ShownStays ==
  ASSUME NEW p, NEW m, NEW q, ShownFollows(p, m, q), UNCHANGED <<said, open, over, file, pipe, wire>>,
         Saying(m) => rows'[m] = rows[m]
  PROVE  ShownFollows(p, m, q)'
<1>1. (Ended(m)' <=> Ended(m)) /\ (Saying(m)' <=> Saying(m))  BY DEF Ended, Saying
<1>2. Saying(m) => LastAre(wire, p, m, rows'[m].text - q.text)  BY DEF ShownFollows
<1> QED  BY <1>1, <1>2 DEF ShownFollows

\* The worker ends m, or says something that is not of m.
LEMMA ShownBeside ==
  ASSUME FeedTypeOK, NEW p, NEW m \in Messages, NEW q, ShownFollows(p, m, q), NEW e \in Events, pipe' = Append(pipe, e),
         UNCHANGED <<wire, rows>>, said'[m] = said[m], ~Saying(m)', Ended(m) => Ended(m)',
         \/ e.message = m /\ e.type \in Ends
         \/ ~Saying(m) /\ e.message # m /\ (m \notin file \cup {open} => m \notin file' \cup {open'})
  PROVE  ShownFollows(p, m, q)'
<1>1. pipe \in Seq(Events) /\ 0 \in 0..Len(pipe)
  <2>1. pipe \in Seq(Events)  BY DEF FeedTypeOK
  <2> QED  BY <2>1
<1>2. /\ Mentioned(pipe', 0, m) <=> Mentioned(pipe, 0, m) \/ e.message = m
      /\ EndComes(pipe', 0, m) <=> EndComes(pipe, 0, m) \/ (e.message = m /\ e.type \in Ends)
  BY <1>1, AppendComes
<1>3. /\ q.done => Ended(m)' /\ q.text = said'[m]
      /\ \A i \in p+1..Len(wire) : wire[i].message = m /\ wire[i].type \in Ends => Ended(m)' /\ wire[i].text = said'[m]
  BY DEF ShownFollows
<1>4. CASE e.message = m /\ e.type \in Ends  BY <1>2, <1>3, <1>4 DEF ShownFollows
<1>5. CASE ~Saying(m) /\ e.message # m /\ (m \notin file \cup {open} => m \notin file' \cup {open'})
  BY <1>2, <1>3, <1>5 DEF ShownFollows
<1> QED  BY <1>4, <1>5

\* The worker says a delta of m.
LEMMA ShownSaid ==
  ASSUME FeedTypeOK, SaidInOrder, RowsAreTrue, NEW p \in 0..Len(wire), NEW m \in Messages, NEW q \in RowRecords,
         ShownFollows(p, m, q), Say(m)
  PROVE  ShownFollows(p, m, q)'
<1>1. /\ ~Ended(m) /\ ~rows[m].done
      /\ ~Saying(m) => open = 0 /\ rows[m] = NoRow /\ said[m] = 0
  BY BeforeDelta
<1>2. open' = m /\ ~over /\ over' = over /\ UNCHANGED <<wire, rows, file>>  BY DEF Say, WorkerOnly, serverVars
<1>3. Saying(m)'  BY <1>2 DEF Saying
<1>4. ~q.done /\ \A i \in p+1..Len(wire) : ~(wire[i].message = m /\ wire[i].type \in Ends)  BY <1>1 DEF ShownFollows
<1>5. LastAre(wire, p, m, rows[m].text - q.text)
  <2>1. CASE Saying(m)  BY <2>1 DEF ShownFollows
  <2>2. CASE ~Saying(m)
    <3>1. ~EndComes(pipe, 0, m)  BY <1>1, NotEnded
    <3>2. ~EndComes(wire, p, m)  BY <1>4 DEF EndComes
    <3>3. q = NoRow /\ ~Mentioned(wire, p, m)  BY <1>4, <2>2, <3>1, <3>2 DEF ShownFollows
    <3>4. rows[m].text - q.text = 0  BY <1>1, <2>2, <3>3, EventFacts
    <3>5. Len(wire) \in Nat
      <4>1. wire \in Seq(Frames)  BY DEF FeedTypeOK
      <4> QED  BY <4>1
    <3>6. LastAre(wire, p, m, 0)
      <4>1. p + 0 <= Len(wire) /\ \A i \in p+1..Len(wire) : ~(i > Len(wire) - 0)  BY <3>5
      <4> QED  BY <3>3, <4>1 DEF LastAre, Mentioned
    <3> QED  BY <3>4, <3>6
  <2> QED  BY <2>1, <2>2
<1> QED  BY <1>2, <1>3, <1>4, <1>5 DEF ShownFollows

\* An event is taken, and goes to the user.
LEMMA ShownTaken ==
  ASSUME FeedTypeOK, SaidInOrder, RowsAreTrue, OnActorEvent, NEW p \in 0..Len(wire), NEW m \in Messages, NEW q \in RowRecords,
         ShownFollows(p, m, q), NEW f \in Frames, wire' = Append(wire, f),
         f.message = pipe[1].message, f.type = pipe[1].type, f.message = m => f.text = said[m]
  PROVE  ShownFollows(p, m, q)'
<1>1. /\ pipe \in Seq(Events) /\ pipe # <<>> /\ pipe' = Tail(pipe) /\ Len(pipe) \in Nat \ {0} /\ 0 \in 0..Len(pipe) - 1
      /\ UNCHANGED <<said, open, over, file>>
  BY TakenFacts DEF workerVars
<1>2. /\ pipe[1].message # m => rows'[m] = rows[m]
      /\ pipe[1].message = m => pipe[1].type \in {"text_delta", "text_end", "message_end"}
      /\ pipe[1].message = m /\ pipe[1].type = "text_delta" => rows'[m].text = rows[m].text + 1
      /\ pipe[1].message = m /\ pipe[1].type \in Ends => Ended(m)
      /\ pipe[1].message # m /\ Saying(m) => rows[m].text = 0
  BY TakenRow
<1>3. (Ended(m)' <=> Ended(m)) /\ (Saying(m)' <=> Saying(m)) /\ ~(Ended(m) /\ Saying(m))
  <2>1. m # 0  BY EventFacts
  <2> QED  BY <1>1, <2>1 DEF Ended, Saying, SaidInOrder
<1>4. wire \in Seq(Frames) /\ Len(wire) \in Nat
  <2>1. wire \in Seq(Frames)  BY DEF FeedTypeOK
  <2> QED  BY <2>1
<1>5. Len(wire') = Len(wire) + 1 /\ (\A i \in 1..Len(wire) : wire'[i] = wire[i]) /\ wire'[Len(wire) + 1] = f
  BY <1>4, AppendedEvent
<1>6. /\ Mentioned(wire', p, m) <=> Mentioned(wire, p, m) \/ f.message = m
      /\ EndComes(wire', p, m) <=> EndComes(wire, p, m) \/ (f.message = m /\ f.type \in Ends)
  BY <1>4, AppendComes
<1>7. /\ Mentioned(pipe, 0, m) <=> pipe[1].message = m \/ Mentioned(pipe', 0, m)
      /\ EndComes(pipe, 0, m) <=> (pipe[1].message = m /\ pipe[1].type \in Ends) \/ EndComes(pipe', 0, m)
  <2>1. /\ Mentioned(pipe', 0, m) <=> Mentioned(pipe, 0 + 1, m)
        /\ EndComes(pipe', 0, m) <=> EndComes(pipe, 0 + 1, m)
    BY <1>1, TailComes
  <2>2. 0 + 1 = 1  OBVIOUS
  <2> QED  BY <1>1, <2>1, <2>2, FirstComes
<1>8. ASSUME NEW i \in p+1..Len(wire'), wire'[i].message = m, wire'[i].type \in Ends
      PROVE  Ended(m) /\ wire'[i].text = said[m]
  <2>1. CASE i = Len(wire) + 1  BY <1>2, <1>5, <1>8, <2>1
  <2>2. CASE i \in 1..Len(wire)
    <3>1. i \in p+1..Len(wire) /\ wire'[i] = wire[i]  BY <1>4, <1>5, <1>8, <2>2
    <3> QED  BY <1>8, <3>1 DEF ShownFollows
  <2> QED  BY <1>4, <1>5, <2>1, <2>2
<1>9. q.done => Ended(m) /\ q.text = said[m]  BY DEF ShownFollows
<1>10. CASE Saying(m)
  <2>1. LastAre(wire, p, m, rows[m].text - q.text)  BY <1>10 DEF ShownFollows
  <2>2. rows[m].text \in Nat /\ q.text \in Nat  BY EventFacts DEF RowRecords
  <2>3. LastAre(wire', p, m, rows'[m].text - q.text)
    <3>1. CASE f.message = m
      <4>1. f.type = "text_delta" /\ rows'[m].text = rows[m].text + 1  BY <1>2, <1>3, <1>10, <3>1 DEF Ends
      <4>2. LastAre(wire', p, m, rows[m].text - q.text + 1)  BY <1>4, <2>1, <3>1, <4>1, AppendLast
      <4>3. rows[m].text - q.text + 1 = rows'[m].text - q.text  BY <2>2, <4>1
      <4> QED  BY <4>2, <4>3
    <3>2. CASE f.message # m
      <4>1. rows[m].text = 0 /\ rows'[m] = rows[m]  BY <1>2, <1>10, <3>2
      <4>2. rows[m].text - q.text \in Nat  BY <2>1 DEF LastAre
      <4>3. rows[m].text - q.text = 0  BY <2>2, <4>1, <4>2
      <4>4. LastAre(wire', p, m, rows[m].text - q.text)  BY <1>4, <2>1, <3>2, <4>3, AppendLast
      <4> QED  BY <4>1, <4>4
    <3> QED  BY <3>1, <3>2
  <2> QED  BY <1>1, <1>3, <1>8, <1>9, <1>10, <2>3 DEF ShownFollows
<1>11. CASE ~Saying(m)
  <2>1. \/ q.done
        \/ EndComes(wire', p, m) \/ EndComes(pipe', 0, m)
        \/ q = NoRow /\ m \notin file \cup {open} /\ ~Mentioned(wire', p, m) /\ ~Mentioned(pipe', 0, m)
    BY <1>6, <1>7, <1>11 DEF ShownFollows
  <2> QED  BY <1>1, <1>3, <1>8, <1>9, <1>11, <2>1 DEF ShownFollows
<1> QED  BY <1>10, <1>11

\* The client takes a frame, and what was behind a later one still is.
LEMMA ShownShift ==
  ASSUME NEW p \in Nat, NEW m, NEW q, wire # <<>>, wire \in Seq(Frames), p + 1 <= Len(wire), wire' = Tail(wire),
         UNCHANGED <<said, open, over, file, pipe, rows>>, ShownFollows(p + 1, m, q)
  PROVE  ShownFollows(p, m, q)'
<1>1. (Ended(m)' <=> Ended(m)) /\ (Saying(m)' <=> Saying(m))  BY DEF Ended, Saying
<1>2. Len(wire) \in Nat \ {0} /\ p \in 0..Len(wire) - 1  OBVIOUS
<1>3. Len(wire') = Len(wire) - 1 /\ \A i \in 1..Len(wire') : wire'[i] = wire[i + 1]  BY HeadTailProperties
<1>4. \A i \in p+1..Len(wire') : i + 1 \in p+1+1..Len(wire) /\ wire'[i] = wire[i + 1]  BY <1>2, <1>3
<1>5. /\ Mentioned(wire', p, m) <=> Mentioned(wire, p + 1, m)
      /\ EndComes(wire', p, m) <=> EndComes(wire, p + 1, m)
      /\ \A n : LastAre(wire', p, m, n) <=> LastAre(wire, p + 1, m, n)
  BY <1>2, TailComes
<1>6. \A i \in p+1..Len(wire') : wire'[i].message = m /\ wire'[i].type \in Ends => Ended(m) /\ wire'[i].text = said[m]
  BY <1>4 DEF ShownFollows
<1> QED  BY <1>1, <1>5, <1>6 DEF ShownFollows

\* The user takes an event.
LEMMA ShownNext ==
  ASSUME FeedTypeOK, SaidInOrder, NEW m \in Messages, wire # <<>>, NEW f \in ViewFrames, f = wire[1], f.kind = "actor_event",
         NEW shown \in LiveRows, ShownFollows(0, m, shown[m])
  PROVE  ShownFollows(1, m, Show(shown, f)[m])
<1>1. wire \in Seq(Frames) /\ Len(wire) \in Nat \ {0}
  <2>1. wire \in Seq(Frames)  BY DEF FeedTypeOK
  <2> QED  BY <2>1
<1>2. ~(Ended(m) /\ Saying(m))
  <2>1. m # 0  BY EventFacts
  <2> QED  BY <2>1 DEF Ended, Saying, SaidInOrder
<1>3. f.type \in {"agent_start", "agent_settled", "text_delta", "text_end", "message_end"}  BY DEF ViewFrames
<1>4. /\ Mentioned(wire, 0, m) <=> f.message = m \/ Mentioned(wire, 1, m)
      /\ EndComes(wire, 0, m) <=> (f.message = m /\ f.type \in Ends) \/ EndComes(wire, 1, m)
      /\ \A n : LastAre(wire, 0, m, n) =>
           IF f.message = m THEN f.type = "text_delta" /\ LastAre(wire, 1, m, n - 1) ELSE LastAre(wire, 1, m, n)
  BY <1>1, FirstComes
<1>5. 1 \in 0+1..Len(wire) /\ \A i \in 1+1..Len(wire) : i \in 0+1..Len(wire)  BY <1>1
<1>6. \A i \in 1+1..Len(wire) : wire[i].message = m /\ wire[i].type \in Ends => Ended(m) /\ wire[i].text = said[m]
  BY <1>5 DEF ShownFollows
<1>7. f.message = m /\ f.type \in Ends => Ended(m) /\ f.text = said[m]  BY <1>5 DEF ShownFollows
<1> DEFINE q == shown[m]
           r == Show(shown, f)[m]
<1>8. q \in RowRecords /\ q = [text |-> q.text, done |-> q.done] /\ q.text \in Nat /\ q.done \in BOOLEAN  BY DEF LiveRows, RowRecords
<1>9. /\ q.done => Ended(m) /\ q.text = said[m]
      /\ Saying(m) => LastAre(wire, 0, m, rows[m].text - q.text)
      /\ ~Saying(m) => \/ q.done
                       \/ EndComes(wire, 0, m) \/ EndComes(pipe, 0, m)
                       \/ q = NoRow /\ m \notin file \cup {open} /\ ~Mentioned(wire, 0, m) /\ ~Mentioned(pipe, 0, m)
  BY DEF ShownFollows
<1>10. shown \in [Messages -> RowRecords]  BY DEF LiveRows
<1>11. CASE f.message = m /\ f.type \in Ends
  <2>1. f.type # "text_delta"  BY <1>11 DEF Ends
  <2>2. r = [text |-> f.text, done |-> TRUE]  BY <1>10, <1>11, <2>1 DEF Show, Ends
  <2>3. r.done /\ r.text = said[m] /\ ~Saying(m)  BY <1>2, <1>7, <1>11, <2>2
  <2> QED  BY <1>6, <1>7, <1>11, <2>3 DEF ShownFollows
<1>12. CASE f.message = m /\ f.type = "text_delta" /\ ~q.done
  <2>1. r = [q EXCEPT !.text = @ + 1]  BY <1>10, <1>12 DEF Show
  <2>2. r.text = q.text + 1 /\ ~r.done /\ f.type \notin Ends  BY <1>8, <1>12, <2>1 DEF Ends
  <2>3. CASE Saying(m)
    <3>1. LastAre(wire, 1, m, rows[m].text - q.text - 1)  BY <1>4, <1>9, <1>12, <2>3
    <3>2. rows[m].text \in Nat  BY EventFacts
    <3>3. rows[m].text - q.text - 1 = rows[m].text - r.text  BY <1>8, <2>2, <3>2
    <3>4. LastAre(wire, 1, m, rows[m].text - r.text)  BY <3>1, <3>3
    <3> QED  BY <1>6, <2>2, <2>3, <3>4 DEF ShownFollows
  <2>4. CASE ~Saying(m)
    <3>1. EndComes(wire, 1, m) \/ EndComes(pipe, 0, m)  BY <1>4, <1>9, <1>12, <2>2, <2>4
    <3> QED  BY <1>6, <2>2, <2>4, <3>1 DEF ShownFollows
  <2> QED  BY <2>3, <2>4
<1>13. CASE \/ f.message # m \/ (f.type \notin Ends /\ f.type # "text_delta") \/ (f.type = "text_delta" /\ q.done)
  <2>1. r = q
    <3>1. CASE f.type = "text_delta" /\ ~shown[f.message].done
      <4>1. f.message # m  BY <1>13, <3>1 DEF Ends
      <4>2. Show(shown, f) = [shown EXCEPT ![f.message].text = @ + 1]  BY <3>1 DEF Show
      <4> QED  BY <1>10, <4>1, <4>2
    <3>2. CASE f.type \in {"text_end", "message_end"}
      <4>1. f.message # m  BY <1>13, <3>2 DEF Ends
      <4>2. Show(shown, f) = [shown EXCEPT ![f.message] = [text |-> f.text, done |-> TRUE]]  BY <3>2 DEF Show
      <4> QED  BY <1>10, <4>1, <4>2
    <3>3. CASE ~(f.type = "text_delta" /\ ~shown[f.message].done) /\ f.type \notin {"text_end", "message_end"}
      <4>1. Show(shown, f) = shown  BY <3>3 DEF Show
      <4> QED  BY <4>1
    <3> QED  BY <3>1, <3>2, <3>3
  <2>2. CASE Saying(m)
    <3>1. LastAre(wire, 0, m, rows[m].text - q.text)  BY <1>9, <2>2
    <3>2. f.message # m  BY <1>2, <1>4, <1>9, <1>13, <2>2, <3>1 DEF Ends
    <3>3. LastAre(wire, 1, m, rows[m].text - q.text)  BY <1>4, <3>1, <3>2
    <3>4. LastAre(wire, 1, m, rows[m].text - r.text)  BY <2>1, <3>3
    <3>5. r.done => Ended(m) /\ r.text = said[m]  BY <1>9, <2>1
    <3> QED  BY <1>6, <2>2, <3>4, <3>5 DEF ShownFollows
  <2>3. CASE ~Saying(m)
    <3>1. \/ r.done
          \/ EndComes(wire, 1, m) \/ EndComes(pipe, 0, m)
          \/ r = NoRow /\ m \notin file \cup {open} /\ ~Mentioned(wire, 1, m) /\ ~Mentioned(pipe, 0, m)
      BY <1>4, <1>9, <1>13, <2>1, <2>3
    <3>2. r.done => Ended(m) /\ r.text = said[m]  BY <1>9, <2>1
    <3> QED  BY <1>6, <2>3, <3>1, <3>2 DEF ShownFollows
  <2> QED  BY <2>2, <2>3
<1> QED  BY <1>3, <1>11, <1>12, <1>13

\* A snapshot is the transcript and the live rows that it does not have.
LEMMA ShownRead ==
  ASSUME FeedTypeOK, SaidInOrder, RowsAreTrue, NEW k \in Slots, AnswerRead(k), NEW m \in Messages, NEW f,
         wire' = Append(wire, f), NEW q, q = Visible(reads[k].page)[m], NEW n, n = Len(wire) + 1
  PROVE  ShownFollows(n, m, q)'
<1>1. /\ reads[k].phase = "read" /\ rows' = Reconciled(reads[k].page) /\ UNCHANGED <<said, open, over, file, pipe>>
  BY DEF AnswerRead, Other, workerVars
<1>2. wire \in Seq(Frames)  BY DEF FeedTypeOK
<1>3. Len(wire) \in Nat /\ Len(wire') = Len(wire) + 1  BY <1>2
<1>4. n \in Nat /\ n = Len(wire')  BY <1>3
<1>5. \A i \in n+1..Len(wire') : FALSE  BY <1>4
<1>6. (Ended(m)' <=> Ended(m)) /\ (Saying(m)' <=> Saying(m)) /\ ~(Ended(m) /\ Saying(m)) /\ (m \in file => ~Saying(m))
  <2>1. m # 0  BY EventFacts
  <2> QED  BY <1>1, <2>1 DEF Ended, Saying, SaidInOrder
<1>7. RowIsTrue(m) /\ reads[k].page \subseteq file  BY DEF RowsAreTrue, SaidInOrder
<1>8. CASE m \in reads[k].page
  <2>1. q = [text |-> said[m], done |-> TRUE]  BY <1>8 DEF Visible
  <2>2. Ended(m) /\ ~Saying(m)  BY <1>6, <1>7, <1>8 DEF Ended
  <2> QED  BY <1>1, <1>5, <1>6, <2>1, <2>2 DEF ShownFollows
<1>9. CASE m \notin reads[k].page
  <2>1. q = rows[m] /\ rows'[m] = rows[m]  BY <1>1, <1>9 DEF Visible, Reconciled
  <2>2. q.done => Ended(m) /\ q.text = said[m]  BY <1>7, <2>1 DEF RowIsTrue
  <2>3. CASE Saying(m)
    <3>1. rows[m].text - q.text = 0  BY <2>1, EventFacts
    <3>2. LastAre(wire', n, m, 0)
      <4>1. n + 0 <= Len(wire')  BY <1>4
      <4> QED  BY <1>5, <4>1 DEF LastAre
    <3> QED  BY <1>1, <1>5, <1>6, <2>1, <2>2, <2>3, <3>1, <3>2 DEF ShownFollows
  <2>4. CASE ~Saying(m)
    <3>1. \/ q.done \/ EndComes(pipe, 0, m)
          \/ q = NoRow /\ m \notin file \cup {open} /\ ~Mentioned(pipe, 0, m)
      BY <1>1, <1>7, <1>9, <2>1, <2>4 DEF RowIsTrue, RowFollows
    <3>2. ~Mentioned(wire', n, m)  BY <1>5 DEF Mentioned
    <3> QED  BY <1>1, <1>5, <1>6, <2>2, <2>4, <3>1, <3>2 DEF ShownFollows
  <2> QED  BY <2>3, <2>4
<1> QED  BY <1>8, <1>9

\* A client that has asked and has no answer shows nothing that its frames lead from.
LEMMA NoBase ==
  ASSUME FeedTypeOK', Conversation',
         client' \in {"registering", "attaching"} \/ (client' = "reading" /\ asked' = "read"),
         NEW p, p \in 0..Len(wire')
  PROVE  ~IsBase(p)'
<1>1. wire' \in Seq(Frames)  BY DEF FeedTypeOK
<1>2. Len(wire') \in Nat /\ DOMAIN wire' = 1..Len(wire')  BY <1>1
<1>3. ~(p = 0 /\ client' = "live")  OBVIOUS
<1>4. ASSUME p # 0 PROVE wire'[p].kind # "messages"
  <2>1. p \in DOMAIN wire'  BY <1>2, <1>4
  <2>2. CASE client' = "registering"  BY <2>1, <2>2 DEF Conversation
  <2>3. CASE client' = "attaching"
    <3>1. asked' # "watch" /\ wire'[1].kind = "watching" /\ AllEvents(wire', 1)
      BY <1>2, <2>1, <2>3 DEF Conversation
    <3>2. p = 1 \/ p \in 1+1..Len(wire')  BY <1>2, <2>1
    <3> QED  BY <3>1, <3>2 DEF AllEvents
  <2>4. CASE client' = "reading" /\ asked' = "read"
    <3>1. AllEvents(wire', 0)  BY <2>4 DEF Conversation
    <3>2. p \in 0+1..Len(wire')  BY <1>2, <2>1
    <3> QED  BY <3>1, <3>2 DEF AllEvents
  <2> QED  BY <2>2, <2>3, <2>4
<1> QED  BY <1>3, <1>4 DEF IsBase

\* The rows at a base, and those that it has afterwards.
LEMMA BaseFacts ==
  ASSUME ViewKnown, NEW p, p \in 0..Len(wire), IsBase(p)
  PROVE  Base(p).rows \in LiveRows /\ Base(p).gen \in Nat
<1>1. CASE p = 0  BY <1>1 DEF Base, ViewKnown, FeedTypeOK
<1>2. CASE p # 0
  <2>1. wire \in Seq(Frames)  BY DEF ViewKnown, FeedTypeOK
  <2>2. p \in DOMAIN wire  BY <1>2, <2>1
  <2>3. wire[p] \in ViewFrames /\ wire[p].kind = "messages"  BY <1>2, <2>2 DEF ViewKnown, IsBase
  <2>4. wire[p].rows \in LiveRows /\ wire[p].gen \in Nat  BY <2>3 DEF ViewFrames
  <2> QED  BY <1>2, <2>4 DEF Base
<1> QED  BY <1>1, <1>2

\* The bases are the same.
LEMMA BasesStay ==
  ASSUME ViewKnown, ViewFollows, UNCHANGED <<client, view, gen>>, Len(wire) <= Len(wire'), Len(wire') \in Nat,
         \A i \in 1..Len(wire) : wire'[i] = wire[i],
         \A i \in Len(wire)+1..Len(wire') : wire'[i].kind # "messages",
         \A p \in 0..Len(wire), m \in Messages, q \in RowRecords : ShownFollows(p, m, q) => ShownFollows(p, m, q)'
  PROVE  ViewFollows'
<1>1. wire \in Seq(Frames)  BY DEF ViewKnown, FeedTypeOK
<1>2. Len(wire) \in Nat  BY <1>1
<1>3. ASSUME NEW p, p \in 0..Len(wire'), IsBase(p)', Base(p)'.gen = gen', NEW m, m \in Messages
      PROVE  ShownFollows(p, m, Base(p).rows[m])'
  <2>1. p \in 0..Len(wire)  BY <1>2, <1>3 DEF IsBase
  <2>2. IsBase(p) /\ Base(p)' = Base(p)
    <3>1. CASE p = 0  BY <1>3, <3>1 DEF IsBase, Base
    <3>2. CASE p # 0
      <4>1. p \in 1..Len(wire)  BY <1>2, <2>1, <3>2
      <4> QED  BY <1>3, <3>2, <4>1 DEF IsBase, Base
    <3> QED  BY <3>1, <3>2
  <2>3. Base(p).rows \in LiveRows  BY <2>1, <2>2, BaseFacts
  <2>4. PICK q \in RowRecords : q = Base(p).rows[m]  BY <1>3, <2>3 DEF LiveRows
  <2>5. Base(p).gen = gen  BY <1>3, <2>2
  <2>6. ShownFollows(p, m, q)  BY <1>3, <2>1, <2>2, <2>4, <2>5 DEF ViewFollows
  <2>7. ShownFollows(p, m, q)'  BY <1>3, <2>1, <2>6
  <2>8. q = (Base(p).rows[m])'  BY <2>2, <2>4
  <2> QED  BY <2>7, <2>8
<1> QED  BY <1>3 DEF ViewFollows

\* What the user takes leads on to the live rows.
LEMMA TakenFollows ==
  ASSUME FeedInv, ViewKnown, FeedTypeOK', SaidInOrder, ViewFollows, OnMessages \/ OnActorFrame
  PROVE  ViewFollows'
<1>1. PICK kind \in {"messages", "actor_event"} : Takes(kind) /\ (kind = "messages" => OnMessages) /\ (kind = "actor_event" => OnActorFrame)
  BY DEF OnMessages, OnActorFrame
<1>2. /\ wire # <<>> /\ wire \in Seq(Frames) /\ Len(wire) \in Nat \ {0} /\ 1 \in DOMAIN wire /\ Head(wire) = wire[1]
      /\ wire[1].kind = kind /\ wire' = Tail(wire) /\ Len(wire') = Len(wire) - 1 /\ DOMAIN wire' = 1..(Len(wire) - 1)
      /\ \A i \in DOMAIN wire' : i + 1 \in DOMAIN wire /\ wire'[i] = wire[i + 1]
  BY <1>1, TakesFrame
<1>3. UNCHANGED <<said, open, over, file, pipe, rows, gen>>
  BY <1>1 DEF OnMessages, OnActorFrame, UserOnly, ServerKeeps, workerVars, serverVars
<1>4. FeedTypeOK /\ wire[1] \in ViewFrames  BY <1>2 DEF ViewKnown
<1>5. SUFFICES ASSUME NEW p, p \in 0..Len(wire'), IsBase(p)', Base(p)'.gen = gen', NEW m, m \in Messages
               PROVE  ShownFollows(p, m, Base(p).rows[m])'
  BY DEF ViewFollows
<1>6. p \in Nat /\ p + 1 <= Len(wire) /\ p + 1 \in 0..Len(wire)  BY <1>2, <1>5
<1>7. SUFFICES ASSUME NEW q, q = Base(p)'.rows[m] PROVE ShownFollows(p + 1, m, q)
  <2>1. PICK q : q = Base(p)'.rows[m]  OBVIOUS
  <2>2. ShownFollows(p + 1, m, q)  BY <2>1, <1>7
  <2>3. ShownFollows(p, m, q)'  BY <1>2, <1>3, <1>6, <2>2, ShownShift
  <2> QED  BY <2>1, <2>3
<1>8. CASE p # 0
  <2>1. p \in DOMAIN wire'  BY <1>2, <1>5, <1>8
  <2>2. wire'[p].kind = "messages" /\ wire'[p].gen = gen /\ q = wire'[p].rows[m]  BY <1>3, <1>5, <1>7, <1>8 DEF IsBase, Base
  <2>3. wire'[p] = wire[p + 1] /\ p + 1 # 0  BY <1>2, <1>6, <2>1
  <2>4. IsBase(p + 1) /\ Base(p + 1).gen = gen /\ Base(p + 1).rows[m] = q  BY <2>2, <2>3 DEF IsBase, Base
  <2> QED  BY <1>5, <1>6, <2>4 DEF ViewFollows
<1>9. CASE p = 0 /\ kind = "messages"
  <2>1. view' = [rows |-> wire[1].rows, gen |-> wire[1].gen]  BY <1>1, <1>2, <1>9 DEF OnMessages
  <2>2. 1 # 0 /\ p + 1 = 1 /\ 1 \in 0..Len(wire)  BY <1>6, <1>9
  <2>3. IsBase(1) /\ Base(1).gen = gen /\ Base(1).rows[m] = q  BY <1>2, <1>3, <1>5, <1>7, <1>9, <2>1, <2>2 DEF IsBase, Base
  <2>4. ShownFollows(1, m, q)  BY <1>5, <2>2, <2>3 DEF ViewFollows
  <2> QED  BY <2>2, <2>4
<1>10. CASE p = 0 /\ kind = "actor_event"
  <2>1. view' = [view EXCEPT !.rows = Show(@, wire[1])] /\ client' = client  BY <1>1, <1>2, <1>10 DEF OnActorFrame
  <2>2. view \in [rows : LiveRows, gen : Nat]  BY <1>4 DEF FeedTypeOK
  <2>3. view'.rows = Show(view.rows, wire[1]) /\ view'.gen = view.gen  BY <2>1, <2>2
  <2>4. IsBase(0) /\ Base(0) = view /\ view.gen = gen /\ q = Show(view.rows, wire[1])[m]
    BY <1>3, <1>5, <1>7, <1>10, <2>1, <2>3 DEF IsBase, Base
  <2>5. 0 \in 0..Len(wire)  BY <1>2
  <2>6. PICK shown \in LiveRows : shown = view.rows  BY <2>2
  <2>7. ShownFollows(0, m, shown[m])  BY <1>5, <2>4, <2>5, <2>6 DEF ViewFollows
  <2>8. PICK f \in ViewFrames : f = wire[1] /\ f.kind = "actor_event"  BY <1>2, <1>4, <1>10
  <2>9. ShownFollows(1, m, Show(shown, f)[m])  BY <1>2, <1>4, <1>5, <2>7, <2>8, ShownNext
  <2>10. Show(shown, f)[m] = q /\ p + 1 = 1  BY <1>10, <2>4, <2>6, <2>8
  <2> QED  BY <2>9, <2>10
<1> QED  BY <1>1, <1>8, <1>9, <1>10

\* The answer to its read leads to the live rows; the answer to another's drops only rows that are complete.
LEMMA AnswerFollows ==
  ASSUME ViewKnown, Talk, FeedTypeOK', SaidInOrder, RowsAreTrue, ViewFollows, NEW k \in Slots, AnswerRead(k), conn'.open
  PROVE  ViewFollows'
<1>1. /\ reads[k].phase = "read" /\ rows' = Reconciled(reads[k].page) /\ UNCHANGED <<said, open, over, file, pipe>>
      /\ UNCHANGED <<client, view, gen>>
  BY AnswerWritten DEF AnswerRead, Other, workerVars
<1>2. FeedTypeOK /\ wire \in Seq(Frames)  BY DEF ViewKnown, FeedTypeOK
<1>3. Len(wire) \in Nat /\ DOMAIN wire = 1..Len(wire)  BY <1>2
<1>4. CASE wire' = wire
  <2>1. ASSUME NEW p \in 0..Len(wire), NEW m \in Messages, NEW q \in RowRecords, ShownFollows(p, m, q)
        PROVE  ShownFollows(p, m, q)'
    <3>1. Saying(m) => ~rows[m].done
      <4>1. m # 0 /\ RowIsTrue(m)  BY <1>2, EventFacts DEF RowsAreTrue
      <4> QED  BY <4>1 DEF RowIsTrue, Ended, Saying, SaidInOrder
    <3>2. Saying(m) => rows'[m] = rows[m]  BY <1>1, <3>1 DEF Reconciled
    <3> QED  BY <1>1, <1>4, <2>1, <3>2, ShownStays
  <2>2. /\ Len(wire) <= Len(wire') /\ Len(wire') \in Nat /\ \A i \in 1..Len(wire) : wire'[i] = wire[i]
        /\ \A i \in Len(wire)+1..Len(wire') : FALSE
    BY <1>3, <1>4
  <2> QED  BY <1>1, <2>1, <2>2, BasesStay
<1>5. CASE wire' # wire
  <2>1. client = "reading" /\ AllEvents(wire, 0)  BY <1>5, AnswerWritten
  <2>2. PICK f \in Frames : f = [kind |-> "messages", gen |-> gen, rows |-> Visible(reads[k].page)] /\ wire' = Append(wire, f)
    BY <1>5, AnswerWritten
  <2>3. Len(wire') = Len(wire) + 1 /\ (\A i \in 1..Len(wire) : wire'[i] = wire[i]) /\ wire'[Len(wire) + 1] = f
    BY <1>2, <2>2, AppendedEvent
  <2>4. SUFFICES ASSUME NEW p, p \in 0..Len(wire'), IsBase(p)', NEW m, m \in Messages
                 PROVE  ShownFollows(p, m, Base(p).rows[m])'
    BY DEF ViewFollows
  <2>5. p = Len(wire) + 1
    <3>1. p # 0  BY <1>1, <2>1, <2>4 DEF IsBase
    <3>2. ASSUME p \in 1..Len(wire) PROVE FALSE
      <4>1. p \in 0+1..Len(wire)  BY <1>3, <3>2
      <4>2. wire'[p].kind = "actor_event"  BY <2>1, <2>3, <3>2, <4>1 DEF AllEvents
      <4> QED  BY <2>4, <3>1, <4>2 DEF IsBase
    <3> QED  BY <1>3, <2>3, <2>4, <3>1, <3>2
  <2>6. PICK q : q = Visible(reads[k].page)[m]  OBVIOUS
  <2>7. ShownFollows(p, m, q)'  BY <1>2, <2>2, <2>4, <2>5, <2>6, ShownRead
  <2>8. (Base(p).rows[m])' = q
    <3>1. p # 0  BY <1>3, <2>5
    <3>2. Base(p)' = f  BY <2>3, <2>5, <3>1 DEF Base
    <3> QED  BY <2>2, <2>6, <3>2
  <2> QED  BY <2>7, <2>8
<1> QED  BY <1>4, <1>5

\* What the worker says leads on, too, and what the supervisor passes on of it.
LEMMA SaidFollows ==
  ASSUME ViewKnown, SaidInOrder, RowsAreTrue, ViewFollows, Speaks
  PROVE  ViewFollows'
<1>1. FeedTypeOK /\ wire \in Seq(Frames)  BY DEF ViewKnown, FeedTypeOK
<1>2. Len(wire) \in Nat  BY <1>1
<1>3. UNCHANGED <<client, view, gen, wire, rows>>
  <2> USE DEF WorkerOnly, clientVars, serverVars
  <2>1. CASE AgentStart  BY <2>1 DEF AgentStart
  <2>2. ASSUME NEW m \in Messages, Say(m) PROVE UNCHANGED <<client, view, gen, wire, rows>>  BY <2>2 DEF Say
  <2>3. CASE TextEnd  BY <2>3 DEF TextEnd
  <2>4. CASE Commit  BY <2>4 DEF Commit
  <2>5. CASE AgentSettled  BY <2>5 DEF AgentSettled
  <2> QED  BY <2>1, <2>2, <2>3, <2>4, <2>5 DEF Speaks
<1>4. SUFFICES ASSUME NEW p \in 0..Len(wire), NEW m \in Messages, NEW q \in RowRecords, ShownFollows(p, m, q)
               PROVE  ShownFollows(p, m, q)'
  <2>1. /\ Len(wire) <= Len(wire') /\ Len(wire') \in Nat /\ \A i \in 1..Len(wire) : wire'[i] = wire[i]
        /\ \A i \in Len(wire)+1..Len(wire') : FALSE
    BY <1>2, <1>3
  <2> QED  BY <1>3, <1>4, <2>1, BasesStay
<1>5. m # 0 /\ said \in [Messages -> Nat] /\ open \in {0} \cup Messages /\ file \subseteq Messages
  BY <1>1, EventFacts DEF FeedTypeOK
<1>6. CASE AgentStart \/ AgentSettled
  <2>1. PICK e \in Events : e.message = 0 /\ pipe' = Append(pipe, e)
    <3>1. CASE AgentStart  BY <3>1 DEF AgentStart, Emit, Event, Events
    <3>2. CASE AgentSettled  BY <3>2 DEF AgentSettled, Emit, Event, Events
    <3> QED  BY <1>6, <3>1, <3>2
  <2>2. open = 0 /\ UNCHANGED <<said, open, over, file>>  BY <1>6 DEF AgentStart, AgentSettled, SaidInOrder
  <2>3. ~Saying(m) /\ ~Saying(m)' /\ (Ended(m) => Ended(m)')  BY <1>5, <2>2 DEF Saying, Ended
  <2>4. e.message # m  BY <1>5, <2>1
  <2>5. said'[m] = said[m] /\ (m \notin file \cup {open} => m \notin file' \cup {open'})  BY <2>2
  <2> QED  BY <1>1, <1>3, <1>4, <2>1, <2>3, <2>4, <2>5, ShownBeside
<1>7. ASSUME NEW n \in Messages, Say(n) PROVE ShownFollows(p, m, q)'
  <2>1. CASE n = m  BY <1>1, <1>4, <1>7, <2>1, ShownSaid
  <2>2. CASE n # m
    <3>1. /\ ~over /\ over' = over /\ open \in {0, n} /\ open' = n /\ file' = file /\ said' = [said EXCEPT ![n] = @ + 1]
          /\ pipe' = Append(pipe, Event("text_delta", n))
      BY <1>7 DEF Say, Emit
    <3>2. PICK e \in Events : e.message = n /\ pipe' = Append(pipe, e)  BY <3>1 DEF Event, Events
    <3>3. ~Saying(m) /\ ~Saying(m)' /\ (Ended(m) => Ended(m)')  BY <1>5, <2>2, <3>1 DEF Saying, Ended
    <3>4. said'[m] = said[m] /\ (m \notin file \cup {open} => m \notin file' \cup {open'})  BY <1>5, <2>2, <3>1
    <3>5. e.message # m  BY <2>2, <3>2
    <3> QED  BY <1>1, <1>3, <1>4, <3>2, <3>3, <3>4, <3>5, ShownBeside
  <2> QED  BY <2>1, <2>2
<1>8. CASE TextEnd \/ Commit
  <2>1. PICK e \in Events : e.message = open /\ e.type \in Ends /\ pipe' = Append(pipe, e)
    <3>1. open \in Messages  BY <1>5, <1>8 DEF TextEnd, Commit
    <3>2. CASE TextEnd  BY <3>1, <3>2 DEF TextEnd, Emit, Event, Events, Ends
    <3>3. CASE Commit  BY <3>1, <3>3 DEF Commit, Emit, Event, Events, Ends
    <3> QED  BY <1>8, <3>2, <3>3
  <2>2. said' = said /\ (TextEnd => over' /\ UNCHANGED <<open, file>>)
        /\ (Commit => file' = file \cup {open} /\ open' = 0 /\ ~over')
    BY <1>8 DEF TextEnd, Commit
  <2>3. ~Saying(m)' /\ (Ended(m) => Ended(m)')  BY <1>5, <1>8, <2>2 DEF Saying, Ended, SaidInOrder
  <2>4. CASE m = open
    <3>1. e.message = m  BY <2>1, <2>4
    <3> QED  BY <1>1, <1>3, <1>4, <2>1, <2>2, <2>3, <3>1, ShownBeside
  <2>5. CASE m # open
    <3>1. e.message # m /\ ~Saying(m) /\ said'[m] = said[m] /\ (m \notin file \cup {open} => m \notin file' \cup {open'})
      BY <1>5, <1>8, <2>1, <2>2, <2>5 DEF Saying
    <3> QED  BY <1>1, <1>3, <1>4, <2>1, <2>3, <3>1, ShownBeside
  <2> QED  BY <2>4, <2>5
<1> QED  BY <1>6, <1>7, <1>8 DEF Speaks

LEMMA EventFollows ==
  ASSUME ViewKnown, Talk, Talk', FeedTypeOK', SaidInOrder, RowsAreTrue, ViewFollows, OnActorEvent, conn'.open
  PROVE  ViewFollows'
<1>1. FeedTypeOK /\ wire \in Seq(Frames)  BY DEF ViewKnown, FeedTypeOK
<1>2. Len(wire) \in Nat  BY <1>1
<1>3. /\ ActorFrame(pipe[1]) \in Frames /\ ActorFrame(pipe[1]).kind = "actor_event"
      /\ ActorFrame(pipe[1]).message = pipe[1].message /\ ActorFrame(pipe[1]).type = pipe[1].type
      /\ pipe[1].message \in Messages => ActorFrame(pipe[1]).text = said[pipe[1].message]
      /\ UNCHANGED <<client, asked, reads, view, gen>>
      /\ \/ conn' = conn /\ conn.watching /\ wire' = Append(wire, ActorFrame(pipe[1]))
         \/ conn' = conn /\ ~conn.watching /\ wire' = wire
  BY EventWritten
<1>4. CASE conn.watching
  <2>1. PICK f \in Frames : /\ f.kind = "actor_event" /\ f.message = pipe[1].message /\ f.type = pipe[1].type
                            /\ pipe[1].message \in Messages => f.text = said[pipe[1].message]
                            /\ wire' = Append(wire, f)
    BY <1>3, <1>4
  <2>2. Len(wire') = Len(wire) + 1 /\ (\A i \in 1..Len(wire) : wire'[i] = wire[i]) /\ wire'[Len(wire) + 1] = f
    BY <1>1, <2>1, AppendedEvent
  <2>3. /\ Len(wire) <= Len(wire') /\ Len(wire') \in Nat
        /\ \A i \in Len(wire)+1..Len(wire') : wire'[i].kind # "messages"
    <3>1. \A i \in Len(wire)+1..Len(wire') : i = Len(wire) + 1  BY <1>2, <2>2
    <3>2. Len(wire) <= Len(wire') /\ Len(wire') \in Nat  BY <1>2, <2>2
    <3> QED  BY <2>1, <2>2, <3>1, <3>2
  <2>4. ASSUME NEW p \in 0..Len(wire), NEW m \in Messages, NEW q \in RowRecords, ShownFollows(p, m, q)
        PROVE  ShownFollows(p, m, q)'
    <3>1. f.message = m => f.text = said[m]  BY <2>1
    <3> QED  BY <1>1, <2>1, <2>4, <3>1, ShownTaken
  <2> QED  BY <1>3, <2>2, <2>3, <2>4, BasesStay
<1>5. CASE ~conn.watching
  <2>1. conn' = conn /\ conn.open  BY <1>3
  <2>2. Conversation /\ client \in {"registering", "attaching", "reading", "live"}  BY <2>1, TalkFacts DEF Talk
  <2>3. client \in {"registering", "attaching"}  BY <1>5, <2>2 DEF Conversation
  <2>4. client' \in {"registering", "attaching"} /\ Conversation'  BY <1>3, <2>3 DEF Talk
  <2> QED  BY <2>4, NoBase DEF ViewFollows
<1> QED  BY <1>4, <1>5

LEMMA FollowsStep ==
  ASSUME FeedAssumption, FeedInv, FeedInv', ViewKnown, Talk, Talk', OldOrPresent, SaidInOrder, WorkerLives => RowsAreTrue,
         conn.open /\ WorkerLives => ViewFollows, [FeedNext]_feedVars, conn'.open, WorkerLives'
  PROVE  ViewFollows'
<1>1. FeedTypeOK /\ FeedTypeOK' /\ Conversation'  BY DEF FeedInv, Talk
<1>2. ~NoConn.open  BY TalkFacts
<1>3. ASSUME UNCHANGED <<worker, gen>> PROVE WorkerLives /\ RowsAreTrue /\ (conn.open => ViewFollows)
  BY <1>3 DEF WorkerLives
<1>4. ASSUME client' \in {"registering", "attaching"} \/ (client' = "reading" /\ asked' = "read") PROVE ViewFollows'
  BY <1>1, <1>4, NoBase DEF ViewFollows
<1>5. CASE Speaks
  <2>1. WorkerLives /\ conn' = conn
    <3> USE DEF WorkerOnly, WorkerLives
    <3>1. CASE AgentStart  BY <3>1 DEF AgentStart
    <3>2. ASSUME NEW m \in Messages, Say(m) PROVE WorkerLives /\ conn' = conn  BY <3>2 DEF Say
    <3>3. CASE TextEnd  BY <3>3 DEF TextEnd
    <3>4. CASE Commit  BY <3>4 DEF Commit
    <3>5. CASE AgentSettled  BY <3>5 DEF AgentSettled
    <3> QED  BY <1>5, <3>1, <3>2, <3>3, <3>4, <3>5 DEF Speaks
  <2>2. conn.open  BY <2>1
  <2> QED  BY <1>5, <2>1, <2>2, SaidFollows
<1>6. CASE WorkerDies \/ OnActorExit \/ SupervisorEnds
  BY <1>6 DEF WorkerDies, OnActorExit, SupervisorEnds, WorkerLives
<1>7. CASE LaunchActor
  <2>1. gen' = gen + 1 /\ UNCHANGED <<wire, view>>  BY <1>7 DEF LaunchActor, clientVars
  <2>2. wire \in Seq(Frames) /\ gen \in Nat /\ view \in [rows : LiveRows, gen : Nat]  BY <1>1 DEF FeedTypeOK
  <2>3. ASSUME NEW p, p \in 0..Len(wire'), IsBase(p)', Base(p)'.gen = gen' PROVE FALSE
    <3>1. CASE p = 0
      <4>1. Base(p)' = view  BY <2>1, <3>1 DEF Base
      <4>2. view.gen <= gen /\ view.gen \in Nat /\ view.gen = gen + 1  BY <2>1, <2>2, <2>3, <4>1 DEF OldOrPresent
      <4> QED  BY <2>2, <4>2
    <3>2. CASE p # 0
      <4>1. p \in DOMAIN wire  BY <2>1, <2>2, <2>3, <3>2
      <4>2. wire[p].kind = "messages" /\ wire[p].gen = gen + 1  BY <2>1, <2>3, <3>2 DEF IsBase, Base
      <4>3. wire[p].gen <= gen  BY <4>1, <4>2 DEF OldOrPresent
      <4> QED  BY <2>2, <4>2, <4>3
    <3> QED  BY <3>1, <3>2
  <2> QED  BY <2>3 DEF ViewFollows
<1>8. CASE OnActorEvent
  <2>1. UNCHANGED <<worker, gen>>  BY <1>8 DEF OnActorEvent, workerVars
  <2>2. conn.open  BY <1>8, EventWritten
  <2> QED  BY <1>1, <1>3, <1>8, <2>1, <2>2, EventFollows
<1>9. CASE SupervisorStarts \/ Dial \/ OnClose \/ RequestTimesOut \/ Refused \/ StopClient
  <2>1. CASE SupervisorStarts
    <3>1. ~up /\ conn' = conn  BY <2>1 DEF SupervisorStarts
    <3> QED  BY <3>1 DEF ViewKnown
  <2>2. CASE Dial
    <3>1. client = "offline" /\ conn' = conn  BY <2>2 DEF Dial
    <3>2. client \notin Online  BY <3>1 DEF Online
    <3> QED  BY <1>2, <3>1, <3>2 DEF ViewKnown
  <2>3. CASE OnClose \/ RequestTimesOut \/ Refused \/ StopClient
    BY <1>2, <2>3 DEF OnClose, RequestTimesOut, Refused, StopClient, Hangs
  <2> QED  BY <1>9, <2>1, <2>2, <2>3
<1>10. CASE HandleRegister \/ HandleWatch
  <2>1. client' = client /\ conn.open /\ asked \in {"register", "watch"}
    BY <1>10 DEF HandleRegister, HandleWatch, Handles
  <2>2. client \in {"registering", "attaching"}  BY <2>1, TalkFacts
  <2> QED  BY <1>4, <2>1, <2>2
<1>11. CASE HandleSubscribe  BY <1>11 DEF HandleSubscribe, Handles, ViewKnown
<1>12. CASE (\E k \in Slots : HandleRead(k) \/ OtherAsks(k) \/ ReadTranscript(k)) \/ UNCHANGED feedVars
  <2>1. UNCHANGED <<worker, gen, said, open, over, file, pipe, rows, wire, client, view, conn>>
    <3>1. CASE UNCHANGED feedVars  BY <3>1 DEF feedVars, workerVars, serverVars, clientVars
    <3>2. ASSUME NEW k \in Slots, HandleRead(k) \/ OtherAsks(k) \/ ReadTranscript(k)
          PROVE  UNCHANGED <<worker, gen, said, open, over, file, pipe, rows, wire, client, view, conn>>
      BY <3>2 DEF HandleRead, OtherAsks, ReadTranscript, Other, workerVars, serverVars
    <3> QED  BY <1>12, <3>1, <3>2
  <2>2. ViewFollows  BY <1>3, <2>1
  <2>3. wire \in Seq(Frames)  BY <1>1 DEF FeedTypeOK
  <2>4. /\ Len(wire) <= Len(wire') /\ Len(wire') \in Nat /\ \A i \in 1..Len(wire) : wire'[i] = wire[i]
        /\ \A i \in Len(wire)+1..Len(wire') : FALSE
    BY <2>1, <2>3
  <2>5. ASSUME NEW p \in 0..Len(wire), NEW m \in Messages, NEW q \in RowRecords, ShownFollows(p, m, q)
        PROVE  ShownFollows(p, m, q)'
    BY <2>1, <2>5, ShownStays
  <2> QED  BY <2>1, <2>2, <2>4, <2>5, BasesStay
<1>13. ASSUME NEW k \in Slots, AnswerRead(k) PROVE ViewFollows'
  <2>1. UNCHANGED <<worker, gen>>  BY <1>13 DEF AnswerRead, Other, workerVars
  <2>2. conn.open  BY <1>13, AnswerWritten
  <2> QED  BY <1>1, <1>3, <1>13, <2>1, <2>2, AnswerFollows
<1>14. CASE Connect
  <2>1. CASE up  BY <1>4, <1>14, <2>1 DEF Connect
  <2>2. CASE ~up
    <3>1. conn' = conn  BY <1>14, <2>2 DEF Connect
    <3> QED  BY <2>2, <3>1 DEF ViewKnown
  <2> QED  BY <2>1, <2>2
<1>15. CASE OnRegistered \/ OnWatching \/ Refresh
  BY <1>4, <1>15 DEF OnRegistered, OnWatching, Refresh, Asks, ViewKnown
<1>16. CASE OnMessages \/ OnActorFrame
  <2>1. UNCHANGED <<worker, gen, conn>>  BY <1>16 DEF OnMessages, OnActorFrame, UserOnly, ServerKeeps, workerVars
  <2>2. ViewFollows  BY <1>3, <2>1
  <2> QED  BY <1>1, <1>16, <2>2, TakenFollows
<1>17. CASE OnSubscribed \/ OnRootOutput
  <2>1. ASSUME NEW kind \in {"subscribed", "root_output"}, Takes(kind) PROVE FALSE
    <3>1. 1 \in DOMAIN wire /\ wire[1].kind = kind  BY <2>1, TakesFrame
    <3> QED  BY <2>1, <3>1 DEF ViewKnown
  <2> QED  BY <1>17, <2>1 DEF OnSubscribed, OnRootOutput
<1> QED  BY <1>5, <1>6, <1>7, <1>8, <1>9, <1>10, <1>11, <1>12, <1>13, <1>14, <1>15, <1>16, <1>17 DEF FeedNext

\* What the user is after does not change.
LEMMA WantsStay ==
  ASSUME [FeedNext]_feedVars
  PROVE  wants' = wants
<1> USE DEF clientVars, WorkerOnly, Other, ServerKeeps, UserOnly
<1>1. CASE Speaks
  <2>1. ASSUME NEW m \in Messages, Say(m) PROVE wants' = wants  BY <2>1 DEF Say
  <2> QED  BY <1>1, <2>1 DEF Speaks, AgentStart, TextEnd, Commit, AgentSettled
<1>2. CASE WorkerDies \/ LaunchActor \/ OnActorEvent \/ OnActorExit \/ SupervisorEnds \/ SupervisorStarts
  BY <1>2 DEF WorkerDies, LaunchActor, OnActorEvent, OnActorExit, SupervisorEnds, SupervisorStarts
<1>3. CASE HandleRegister \/ HandleSubscribe \/ HandleWatch
  BY <1>3 DEF HandleRegister, HandleSubscribe, HandleWatch
<1>4. ASSUME NEW k \in Slots, HandleRead(k) \/ OtherAsks(k) \/ ReadTranscript(k) \/ AnswerRead(k) PROVE wants' = wants
  BY <1>4 DEF HandleRead, OtherAsks, ReadTranscript, AnswerRead
<1>5. CASE Dial \/ Connect \/ OnClose \/ RequestTimesOut \/ Refused \/ StopClient
  BY <1>5 DEF Dial, Connect, OnClose, RequestTimesOut, Refused, StopClient
<1>6. CASE OnRegistered \/ OnSubscribed \/ OnWatching \/ OnMessages \/ OnRootOutput \/ OnActorFrame \/ Refresh
  BY <1>6 DEF OnRegistered, OnSubscribed, OnWatching, OnMessages, OnRootOutput, OnActorFrame, Refresh
<1>7. CASE UNCHANGED feedVars  BY <1>7 DEF feedVars
<1> QED  BY <1>1, <1>2, <1>3, <1>4, <1>5, <1>6, <1>7 DEF FeedNext

LEMMA ViewBegins ==
  ASSUME FeedInv, FeedInit
  PROVE  ViewInv
<1>1. FeedTypeOK  BY DEF FeedInv
<1>2. /\ worker = "idle" /\ gen = 1 /\ open = 0 /\ ~over /\ file = {} /\ pipe = <<>> /\ rows = NoRows
      /\ reads = [k \in Slots |-> NoRead] /\ conn = NoConn /\ wire = <<>> /\ client \notin Online /\ view.gen = 0
  BY DEF FeedInit, Online
<1>3. ~NoConn.open  BY DEF NoConn
<1>4. \A k \in Slots : reads[k].phase = "none" /\ reads[k].page = {} /\ ~reads[k].mine  BY <1>2 DEF NoRead
<1>5. SaidInOrder  BY <1>2, <1>4 DEF SaidInOrder
<1>6. RowsAreTrue  BY <1>1, <1>2, <1>4, NoRowsAreTrue
<1>7. Talk  BY <1>2, <1>3, <1>4 DEF Talk, NoneMine
<1>8. OldOrPresent
  <2>1. \A i \in DOMAIN wire : FALSE  BY <1>2
  <2> QED  BY <1>2, <2>1 DEF OldOrPresent
<1> QED  BY <1>2, <1>3, <1>5, <1>6, <1>7, <1>8 DEF ViewInv

LEMMA ViewStep ==
  ASSUME FeedAssumption, FeedInv, FeedInv', ViewInv, [FeedNext]_feedVars
  PROVE  ViewInv'
<1>1. FeedTypeOK /\ TurnIsOfWorker  BY DEF FeedInv
<1>2. SaidInOrder' /\ (WorkerLives' => RowsAreTrue')  BY <1>1, RowsStep DEF ViewInv
<1>3. ASSUME wants' = "view" PROVE Talk' /\ OldOrPresent' /\ (conn'.open /\ WorkerLives' => ViewFollows')
  <2>1. wants = "view"  BY <1>3, WantsStay
  <2>2. ViewKnown  BY <2>1, ViewIsKnown
  <2>3. Talk /\ OldOrPresent /\ (conn.open /\ WorkerLives => ViewFollows)  BY <2>1 DEF ViewInv
  <2>4. Talk'  BY <2>2, <2>3, TalkStep
  <2>5. OldOrPresent'  BY <2>2, <2>3, OldStep
  <2>6. ASSUME conn'.open, WorkerLives' PROVE ViewFollows'  BY <2>2, <2>3, <2>4, <2>6, FollowsStep DEF ViewInv
  <2> QED  BY <2>4, <2>5, <2>6
<1> QED  BY <1>2, <1>3 DEF ViewInv

\* The rows of a user lead, over the frames on the wire, to the live rows, and these over the
\* events in the pipe to what the worker has said and the transcript has.
THEOREM ViewInvariant == FeedSpec => []ViewInv
<1>1. FeedInv /\ FeedInit => ViewInv  BY ViewBegins
<1>2. FeedInv /\ FeedInv' /\ ViewInv /\ [FeedNext]_feedVars => ViewInv'  BY FeedAssumption, ViewStep
<1> QED  BY <1>1, <1>2, FeedInvariant, PTL DEF FeedSpec

LEMMA ViewImplies ==
  ASSUME FeedInv, ViewInv
  PROVE  ViewIsExact
<1> SUFFICES ASSUME client = "live", wants = "view", conn.open, wire = <<>>, pipe = <<>>, worker \in {"idle", "busy"}, view.gen = gen
             PROVE  view.rows = [m \in Messages |-> Said(m)]
  BY DEF ViewIsExact
<1>1. FeedTypeOK  BY DEF FeedInv
<1>2. WorkerLives /\ RowsAreTrue /\ SaidInOrder /\ ViewFollows  BY DEF ViewInv, WorkerLives
<1>3. view.rows \in [Messages -> RowRecords]  BY <1>1 DEF FeedTypeOK, LiveRows
<1>4. Len(wire) = 0 /\ Len(pipe) = 0 /\ 0 \in 0..Len(wire)  OBVIOUS
<1>5. ASSUME NEW m \in Messages PROVE view.rows[m] = Said(m)
  <2>1. PICK q \in RowRecords : q = view.rows[m]  BY <1>3
  <2>2. ShownFollows(0, m, q)
    <3>1. IsBase(0) /\ Base(0) = view  BY DEF IsBase, Base
    <3> QED  BY <1>2, <1>4, <2>1, <3>1 DEF ViewFollows
  <2>3. q = [text |-> q.text, done |-> q.done] /\ q.text \in Nat /\ q.done \in BOOLEAN  BY DEF RowRecords
  <2>4. m # 0 /\ said[m] \in Nat /\ rows[m].text \in Nat  BY <1>1, EventFacts
  <2>5. q.done => Ended(m) /\ q.text = said[m]  BY <2>2 DEF ShownFollows
  <2>6. CASE Saying(m)
    <3>1. LastAre(wire, 0, m, rows[m].text - q.text)  BY <2>2, <2>6 DEF ShownFollows
    <3>2. LastAre(pipe, 0, m, said[m] - rows[m].text)  BY <1>2, <2>6 DEF RowsAreTrue, RowIsTrue, RowFollows
    <3>3. rows[m].text - q.text \in Nat /\ rows[m].text - q.text <= 0 /\ said[m] - rows[m].text \in Nat /\ said[m] - rows[m].text <= 0
      BY <1>4, <3>1, <3>2 DEF LastAre
    <3>4. q.text = said[m]  BY <2>3, <2>4, <3>3
    <3>5. ~Ended(m) /\ m = open /\ m \notin file /\ ~over  BY <1>2, <2>4, <2>6 DEF Saying, Ended, SaidInOrder
    <3>6. q.done = FALSE  BY <2>3, <2>5, <3>5
    <3>7. Said(m) = [text |-> said[m], done |-> over] /\ over = FALSE  BY <1>1, <3>5 DEF Said, FeedTypeOK
    <3> QED  BY <2>1, <2>3, <3>4, <3>6, <3>7
  <2>7. CASE ~Saying(m)
    <3>1. ~EndComes(wire, 0, m) /\ ~EndComes(pipe, 0, m)  BY <1>4 DEF EndComes
    <3>2. CASE q.done
      <4>1. q = [text |-> said[m], done |-> TRUE]  BY <2>3, <2>5, <3>2
      <4>2. m \in file \/ (m = open /\ m \notin file /\ over = TRUE)  BY <1>1, <2>5, <3>2 DEF Ended, FeedTypeOK
      <4>3. Said(m) = [text |-> said[m], done |-> TRUE]  BY <4>2 DEF Said
      <4> QED  BY <2>1, <4>1, <4>3
    <3>3. CASE ~q.done
      <4>1. q = NoRow /\ m \notin file \cup {open}  BY <2>2, <2>7, <3>1, <3>3 DEF ShownFollows
      <4>2. Said(m) = NoRow  BY <4>1 DEF Said
      <4> QED  BY <2>1, <4>1, <4>2
    <3> QED  BY <3>2, <3>3
  <2> QED  BY <2>6, <2>7
<1> QED  BY <1>3, <1>5

\* A user who has every event shows each message as the worker has it and no other, however the
\* reads of the transcript, the commits and the events of the live rows interleave, and over
\* however many connections, workers and supervisors (live-conversation.mjs, getVisibleMessages).
THEOREM ViewAlwaysExact == FeedSpec => []ViewIsExact
<1>1. FeedInv /\ ViewInv => ViewIsExact  BY ViewImplies
<1> QED  BY <1>1, FeedInvariant, ViewInvariant, PTL
=============================================================================
