------------------------------- MODULE Backups -------------------------------
(***************************************************************************)
(* Backups of the state database and of the apps' volumes to S3, their     *)
(* catalog and retention, the daily schedule, manual runs, and disaster    *)
(* recovery, as concurrent tasks serialised by BACKUP_LOCK.                *)
(*                                                                         *)
(* An app's data is the set of blob files in its volume and the set of     *)
(* blobs its database refers to; an app writes a blob before it refers to  *)
(* it and never changes it (the consumer contract of the blob design).     *)
(* The snapshot and restore containers are processes of their own: they    *)
(* run on when the request that started them is gone.                      *)
(***************************************************************************)
EXTENDS Naturals, FiniteSets

CONSTANTS
    Apps,       \* names of deployed apps (row with an image)
    Blobs,      \* blob files, by relative path
    State,      \* the prefix of the state database's snapshots
    Sched,      \* the scheduler's task
    Requests,   \* slots for backup and restore requests
    Retention,  \* RETENTION_COUNT: 14 in the code
    MaxDay,     \* bound on the UTC days of a behaviour
    Events,     \* what may happen, see EventKinds
    MaxFaults,  \* bound on the faults of a behaviour
    None        \* no object, no lock holder, no prefix

\* Faults.  s3, docker, db: a call fails.  wait: the stream of wait_container
\* breaks.  copy: the snapshot's copy of the blobs fails.  crash: the server
\* dies.  cancel: a client goes away and its request's future is dropped.
\* disaster: the node is lost, S3 is not.
\* operator is no fault: apps are stopped and started meanwhile.
FaultKinds == {"s3", "docker", "db", "wait", "copy", "crash", "cancel", "disaster"}
EventKinds == FaultKinds \cup {"operator"}

ASSUME EventsAssumption == Events \subseteq EventKinds
ASSUME BoundsAssumption == {Retention, MaxDay} \subseteq Nat \ {0} /\ MaxFaults \in Nat
ASSUME NamesAssumption ==
    /\ State \notin Apps /\ Sched \notin Requests
    /\ None \notin Apps \cup Requests \cup {State, Sched}
    /\ \A S \in (SUBSET Apps) \cup (SUBSET Blobs) : S # None

Days == 1..MaxDay
Prefixes == Apps \cup {State}
Tasks == Requests \cup {Sched}

VARIABLES
    day,        \* today in UTC
    rows,       \* the app table
    catalog,    \* the backup table: pairs of prefix and day
    marker,     \* last_backup_date, 0 when never set
    configured, \* the S3 credentials are in the database
    states,     \* S3: the rows in each day's state snapshot, or None
    tars,       \* S3: the references in each app's tarball of each day, or None
    blobStore,  \* S3: the blobs of each app
    vol,        \* the volume of each app
    up,         \* the container of each app
    snap,       \* the phase of each app's snapshot container
    rest,       \* the phase of each app's restore container, and what it applies
    stage,      \* the staging directory of each app's snapshot
    lock,       \* the holder of BACKUP_LOCK
    run,        \* the tasks
    faults      \* the faults so far

s3 == <<states, tars, blobStore>>
db == <<rows, catalog, marker, configured>>
host == <<vol, up, snap, rest, stage>>
vars == <<day, db, s3, host, lock, run, faults>>

Data == [refs : SUBSET Blobs, blobs : SUBSET Blobs]
Empty == [refs |-> {}, blobs |-> {}]
Phases == {"none", "dbs", "blobs", "done", "failed"}
\* The container is at work on the volume.
Mounted(phase) == phase \in {"dbs", "blobs"}
NoRestore == [phase |-> "none", data |-> Empty]

\* seen is a history field: what each app referred to when the run began.
NoRun == [pc |-> "idle", kind |-> "none", today |-> 0, date |-> 0, todo |-> {},
          cur |-> None, failed |-> FALSE, doomed |-> {}, data |-> Empty,
          seen |-> [a \in Apps |-> {}]]

\* A server in use, before its first backup.
Init ==
    /\ day = 1 /\ rows = Apps /\ catalog = {} /\ marker = 0 /\ configured = TRUE
    /\ states = [d \in Days |-> None]
    /\ tars = [a \in Apps |-> [d \in Days |-> None]]
    /\ blobStore = [a \in Apps |-> {}]
    /\ vol = [a \in Apps |-> Empty]
    /\ up = [a \in Apps |-> "up"]
    /\ snap = [a \in Apps |-> "none"]
    /\ rest = [a \in Apps |-> NoRestore]
    /\ stage = [a \in Apps |-> Empty]
    /\ lock = None /\ faults = 0
    /\ run = [p \in Tasks |-> NoRun]

-----------------------------------------------------------------------------

At(p, pc) == run[p].pc = pc
Cur(p) == run[p].cur
Restoring(p) == run[p].kind = "restore"
Goto(p, pc) == run' = [run EXCEPT ![p].pc = pc]

Keys(x) == IF x = State THEN {d \in Days : states[d] # None}
                        ELSE {d \in Days : tars[x][d] # None}

\* newest_key
Newest(x) == CHOOSE d \in Keys(x) : \A e \in Keys(x) : e <= d

\* Mutated form of KeysToPrune: the sort is the other way round.
KeysToPruneNewest(keys) == {d \in keys : Cardinality({e \in keys : e < d}) >= Retention}

\* keys_to_prune: all but the newest Retention.
KeysToPrune(keys) == {d \in keys : Cardinality({e \in keys : e > d}) >= Retention}

Ok == UNCHANGED faults
Fault(kind) == kind \in Events /\ faults < MaxFaults /\ faults' = faults + 1

\* The task's function returns, or its future is dropped.
Return(p) ==
    /\ run' = [run EXCEPT ![p] = NoRun]
    /\ lock' = IF lock = p THEN None ELSE lock

\* The current prefix is over: an app's failure does not end the run.
Over(p, ok) ==
    run' = [run EXCEPT ![p].pc = IF Cur(p) = State THEN "list" ELSE "next",
                       ![p].cur = None, ![p].doomed = {}, ![p].data = Empty,
                       ![p].failed = @ \/ ~ok]

-----------------------------------------------------------------------------
(* The scheduler, run_backup_now and run_restore *)

\* The hourly tick, which also fires at boot.  An error reading the marker
\* counts as no marker.
Tick ==
    /\ At(Sched, "idle")
    /\ (marker # day /\ Ok) \/ Fault("db")
    /\ run' = [run EXCEPT ![Sched] = [NoRun EXCEPT !.pc = "lock", !.kind = "scheduled",
                                                   !.today = day]]
    /\ UNCHANGED <<day, db, s3, host, lock>>

Request(p) ==
    /\ At(p, "idle")
    /\ \E kind \in {"manual", "restore"} :
        run' = [run EXCEPT ![p] = [NoRun EXCEPT !.pc = "lock", !.kind = kind]]
    /\ Ok /\ UNCHANGED <<day, db, s3, host, lock>>

\* Mutated form of TakeLock: restore_all does not take the lock.
TakeLockBackupsOnly(p) ==
    /\ At(p, "lock")
    /\ lock = None \/ Restoring(p)
    /\ configured
    /\ lock' = IF Restoring(p) THEN lock ELSE p
    /\ run' = [run EXCEPT ![p].pc = IF Restoring(p) THEN "merge" ELSE "state",
                          ![p].date = IF Restoring(p) THEN 0 ELSE day]
    /\ Ok /\ UNCHANGED <<day, db, s3, host>>

\* Mutated form of TakeLock: a tick that finds the lock taken is let go.
TakeLockTried(p) ==
    /\ At(p, "lock")
    /\ \/ /\ lock = None /\ configured /\ Ok
          /\ lock' = p
          /\ run' = [run EXCEPT ![p].pc = IF Restoring(p) THEN "merge" ELSE "state",
                                ![p].date = IF Restoring(p) THEN 0 ELSE day]
       \/ lock = None /\ ~configured /\ Ok /\ Return(p)
       \/ lock # None /\ p = Sched /\ Ok /\ Return(p)
    /\ UNCHANGED <<day, db, s3, host>>

\* BACKUP_LOCK, then the S3 configuration and today().
TakeLock(p) ==
    /\ At(p, "lock")
    /\ lock = None
    /\ \/ /\ configured /\ Ok
          /\ lock' = p
          /\ run' = [run EXCEPT ![p].pc = IF Restoring(p) THEN "merge" ELSE "state",
                                ![p].date = IF Restoring(p) THEN 0 ELSE day,
                                ![p].seen = [a \in Apps |-> IF Restoring(p) THEN {}
                                                            ELSE vol[a].refs]]
       \/ ~configured /\ Ok /\ Return(p)
       \/ Fault("db") /\ Return(p)
    /\ UNCHANGED <<day, db, s3, host>>

-----------------------------------------------------------------------------
(* run_backup *)

\* backup_state_db: VACUUM INTO, then the upload.  The rows change only under
\* the lock, so the two are one step.
BackupState(p) ==
    /\ At(p, "state")
    /\ \/ /\ states' = [states EXCEPT ![run[p].date] = rows]
          /\ run' = [run EXCEPT ![p].pc = "record", ![p].cur = State]
          /\ Ok
       \/ /\ run' = [run EXCEPT ![p].pc = "list", ![p].failed = TRUE]
          /\ Fault("s3") \/ Fault("db")
          /\ UNCHANGED states
    /\ UNCHANGED <<day, db, tars, blobStore, host, lock>>

\* Mutated form of RecordUpload: the catalog is written after the pruning.
RecordUploadLate(p) ==
    /\ At(p, "record")
    /\ \/ Goto(p, "prune") /\ Ok /\ catalog' = catalog \cup {<<Cur(p), run[p].date>>}
       \/ Over(p, FALSE) /\ Fault("s3") /\ UNCHANGED catalog
    /\ UNCHANGED <<day, rows, marker, configured, s3, host, lock>>

\* record_upload: an error is only warned about.
RecordUpload(p) ==
    /\ At(p, "record")
    /\ \/ catalog' = catalog \cup {<<Cur(p), run[p].date>>} /\ Ok
       \/ Fault("db") /\ UNCHANGED catalog
    /\ Goto(p, "prune")
    /\ UNCHANGED <<day, rows, marker, configured, s3, host, lock>>

\* prune_old_backups: list the prefix.
PruneList(p) ==
    /\ At(p, "prune")
    /\ LET doomed == KeysToPrune(Keys(Cur(p))) IN
       \/ doomed = {} /\ Over(p, TRUE) /\ Ok
       \/ /\ doomed # {} /\ Ok
          /\ run' = [run EXCEPT ![p].pc = "pruneS3", ![p].doomed = doomed]
       \/ Fault("s3") /\ Over(p, FALSE)
    /\ UNCHANGED <<day, db, s3, host, lock>>

\* delete_keys: one request per object, oldest first.
PruneObject(p) ==
    /\ At(p, "pruneS3")
    /\ \/ \E d \in run[p].doomed \cap Keys(Cur(p)) :
            /\ \A e \in run[p].doomed \cap Keys(Cur(p)) : d <= e
            /\ IF Cur(p) = State
               THEN states' = [states EXCEPT ![d] = None] /\ UNCHANGED tars
               ELSE tars' = [tars EXCEPT ![Cur(p)][d] = None] /\ UNCHANGED states
            /\ Ok /\ UNCHANGED run
       \/ /\ run[p].doomed \cap Keys(Cur(p)) = {}
          /\ Goto(p, "pruneRows") /\ Ok /\ UNCHANGED <<states, tars>>
       \/ Fault("s3") /\ Over(p, FALSE) /\ UNCHANGED <<states, tars>>
    /\ UNCHANGED <<day, db, blobStore, host, lock>>

\* delete_by_keys: an error on the way is only warned about.
PruneRows(p) ==
    /\ At(p, "pruneRows")
    /\ \/ catalog' = catalog \ ({Cur(p)} \X run[p].doomed) /\ Ok
       \/ /\ Fault("db")
          /\ \E some \in SUBSET run[p].doomed : catalog' = catalog \ ({Cur(p)} \X some)
    /\ Over(p, TRUE)
    /\ UNCHANGED <<day, rows, marker, configured, s3, host, lock>>

\* get_all, in run_backup and in restore_all: an error ends the run.
ListApps(p) ==
    /\ At(p, "list")
    /\ \/ /\ run' = [run EXCEPT ![p].pc = "next", ![p].todo = rows]
          /\ Ok /\ UNCHANGED lock
       \/ Fault("db") /\ Return(p)
    /\ UNCHANGED <<day, db, s3, host>>

NextApp(p) ==
    /\ At(p, "next")
    /\ \E a \in run[p].todo :
        run' = [run EXCEPT ![p].pc = IF Restoring(p) THEN "stage" ELSE "snap",
                           ![p].cur = a, ![p].todo = @ \ {a}]
    /\ Ok /\ UNCHANGED <<day, db, s3, host, lock>>

\* The report is returned and the lock dropped; a clean run is then marked.
EndRun(p) ==
    /\ At(p, "next") /\ run[p].todo = {}
    /\ IF Restoring(p) \/ run[p].failed
       THEN Return(p)
       ELSE lock' = None /\ Goto(p, "mark")
    /\ Ok /\ UNCHANGED <<day, db, s3, host>>

\* The scheduler marks the day of its tick, run_backup_now the day it is now.
MarkDay(p) ==
    /\ At(p, "mark")
    /\ \/ marker' = (IF p = Sched THEN run[p].today ELSE day) /\ Ok
       \/ Fault("db") /\ UNCHANGED marker
    /\ Return(p)
    /\ UNCHANGED <<day, rows, catalog, configured, s3, host>>

-----------------------------------------------------------------------------
(* backup_app *)

\* run_snapshot_container: a leftover of an earlier run is removed first, if
\* Docker does as it is told.
StartSnapshot(p) ==
    /\ At(p, "snap")
    /\ \/ snap' = [snap EXCEPT ![Cur(p)] = "dbs"] /\ Goto(p, "snapWait") /\ Ok
       \/ /\ snap' \in {snap, [snap EXCEPT ![Cur(p)] = "none"]}
          /\ Over(p, FALSE) /\ Fault("docker")
    /\ UNCHANGED <<day, db, s3, vol, up, rest, stage, lock>>

\* Mutated form of Snapshot: the script copies the blobs before the databases.
SnapshotBlobsFirst(a) ==
    /\ \/ /\ snap[a] = "dbs"
          /\ stage' = [stage EXCEPT ![a] = [refs |-> {}, blobs |-> vol[a].blobs]]
          /\ snap' = [snap EXCEPT ![a] = "blobs"] /\ Ok
       \/ /\ snap[a] = "blobs"
          /\ stage' = [stage EXCEPT ![a].refs = vol[a].refs]
          /\ snap' = [snap EXCEPT ![a] = "done"] /\ Ok
    /\ UNCHANGED <<day, db, s3, vol, up, rest, lock, run>>

\* snapshot_script in its container: the databases, then the blobs, whose
\* copy may fail unnoticed (`|| true`).
Snapshot(a) ==
    /\ \/ /\ snap[a] = "dbs"
          /\ stage' = [stage EXCEPT ![a] = [refs |-> vol[a].refs, blobs |-> {}]]
          /\ snap' = [snap EXCEPT ![a] = "blobs"] /\ Ok
       \/ /\ snap[a] = "blobs"
          /\ stage' = [stage EXCEPT ![a].blobs = vol[a].blobs]
          /\ snap' = [snap EXCEPT ![a] = "done"] /\ Ok
       \/ /\ snap[a] = "blobs" /\ Fault("copy")
          /\ \E some \in SUBSET vol[a].blobs : stage' = [stage EXCEPT ![a].blobs = some]
          /\ snap' = [snap EXCEPT ![a] = "done"]
       \/ /\ Mounted(snap[a])
          /\ snap' = [snap EXCEPT ![a] = "failed"] /\ Fault("docker") /\ UNCHANGED stage
    /\ UNCHANGED <<day, db, s3, vol, up, rest, lock, run>>

\* When the wait breaks off the container is inspected: while it runs its
\* exit code is 0, and the forced removal ends it.  When the inspection or the
\* removal fails too the app is over and the container runs on.
AwaitSnapshot(p) ==
    /\ At(p, "snapWait")
    /\ \/ /\ snap' = [snap EXCEPT ![Cur(p)] = "none"]
          /\ \/ snap[Cur(p)] = "done" /\ Ok /\ Goto(p, "blobs")
             \/ snap[Cur(p)] = "failed" /\ Ok /\ Over(p, FALSE)
             \/ Mounted(snap[Cur(p)]) /\ Fault("wait") /\ Goto(p, "blobs")
       \/ /\ Over(p, FALSE) /\ UNCHANGED snap
          /\ \/ Mounted(snap[Cur(p)]) /\ Fault("wait")
             \/ snap[Cur(p)] = "done" /\ Fault("docker")
    /\ UNCHANGED <<day, db, s3, vol, up, rest, stage, lock>>

BlobsMissing(a) == stage[a].blobs \ blobStore[a]

\* backup_blobs: the missing ones, one by one; then they leave the stage.
UploadBlobs(p) ==
    /\ At(p, "blobs")
    /\ \/ \E b \in BlobsMissing(Cur(p)) :
            /\ blobStore' = [blobStore EXCEPT ![Cur(p)] = @ \cup {b}]
            /\ Ok /\ UNCHANGED <<run, stage>>
       \/ /\ BlobsMissing(Cur(p)) = {} /\ Ok /\ Goto(p, "tar")
          /\ stage' = [stage EXCEPT ![Cur(p)].blobs = {}] /\ UNCHANGED blobStore
       \/ /\ Fault("s3") /\ Over(p, FALSE)
          /\ stage' = [stage EXCEPT ![Cur(p)].blobs = {}] /\ UNCHANGED blobStore
    /\ UNCHANGED <<day, db, states, tars, vol, up, snap, rest, lock>>

\* Mutated form of UploadTar: the upload's error is dropped with the staging.
UploadTarUnchecked(p) ==
    /\ At(p, "tar")
    /\ \/ tars' = [tars EXCEPT ![Cur(p)][run[p].date] = stage[Cur(p)].refs] /\ Ok
       \/ Fault("s3") /\ UNCHANGED tars
    /\ Goto(p, "record")
    /\ stage' = [stage EXCEPT ![Cur(p)] = Empty]
    /\ UNCHANGED <<day, db, states, blobStore, vol, up, snap, rest, lock>>

UploadTar(p) ==
    /\ At(p, "tar")
    /\ \/ /\ tars' = [tars EXCEPT ![Cur(p)][run[p].date] = stage[Cur(p)].refs]
          /\ Goto(p, "record") /\ Ok
       \/ Fault("s3") /\ Over(p, FALSE) /\ UNCHANGED tars
    /\ stage' = [stage EXCEPT ![Cur(p)] = Empty]
    /\ UNCHANGED <<day, db, states, blobStore, vol, up, snap, rest, lock>>

-----------------------------------------------------------------------------
(* restore_all and restore_app *)

\* copy_apps_from_snapshot: INSERT OR IGNORE, a row at a time.
Merged(snapshot) == rows \cup snapshot

\* The rows of the newest state snapshot.
MergeState(p) ==
    /\ At(p, "merge")
    /\ \/ /\ Keys(State) # {} /\ Ok
          /\ rows' = Merged(states[Newest(State)])
          /\ Goto(p, "list") /\ UNCHANGED lock
       \/ /\ Keys(State) # {} /\ Fault("db")
          /\ \E some \in SUBSET states[Newest(State)] : rows' = Merged(some)
          /\ Return(p)
       \/ /\ (Keys(State) = {} /\ Ok) \/ Fault("s3")
          /\ Return(p) /\ UNCHANGED rows
    /\ UNCHANGED <<day, catalog, marker, configured, s3, host>>

\* restore_blobs: all of the prefix, whatever the tarball refers to.
RestoredBlobs(a) == blobStore[a]

\* Everything fallible over the network, before the container is touched; an
\* app without a backup is skipped.
StageRestore(p) ==
    /\ At(p, "stage")
    /\ \/ /\ Keys(Cur(p)) # {} /\ Ok
          /\ run' = [run EXCEPT ![p].pc = "replace",
                        ![p].data = [refs |-> tars[Cur(p)][Newest(Cur(p))],
                                     blobs |-> RestoredBlobs(Cur(p))]]
       \/ Keys(Cur(p)) = {} /\ Ok /\ Over(p, TRUE)
       \/ Fault("s3") /\ Over(p, FALSE)
    /\ UNCHANGED <<day, db, s3, host, lock>>

Halted(a) == [up EXCEPT ![a] = IF @ = "up" THEN "down" ELSE @]

\* stop_and_remove_container, which may fail after the stop.
StopForRestore(p) ==
    /\ At(p, "replace")
    /\ \/ up' = Halted(Cur(p)) /\ Goto(p, "apply") /\ Ok
       \/ up' \in {up, Halted(Cur(p))} /\ Over(p, FALSE) /\ Fault("docker")
    /\ UNCHANGED <<day, db, s3, vol, snap, rest, stage, lock>>

Removed(a) == [rest EXCEPT ![a] = NoRestore]

\* run_restore_container, which removes a leftover of an earlier run first.
StartRestore(p) ==
    /\ At(p, "apply")
    /\ \/ /\ rest' = [rest EXCEPT ![Cur(p)] = [phase |-> "dbs", data |-> run[p].data]]
          /\ Goto(p, "restWait") /\ Ok
       \/ /\ rest' \in {rest, Removed(Cur(p))}
          /\ Over(p, FALSE) /\ Fault("docker")
    /\ UNCHANGED <<day, db, s3, vol, up, snap, stage, lock>>

\* The restore script: the files and databases, then the blobs.
Apply(a) ==
    /\ \/ /\ rest[a].phase = "dbs"
          /\ vol' = [vol EXCEPT ![a].refs = rest[a].data.refs]
          /\ rest' = [rest EXCEPT ![a].phase = "blobs"] /\ Ok
       \/ /\ rest[a].phase = "blobs"
          /\ vol' = [vol EXCEPT ![a].blobs = @ \cup rest[a].data.blobs]
          /\ rest' = [rest EXCEPT ![a].phase = "done"] /\ Ok
       \/ /\ Mounted(rest[a].phase)
          /\ rest' = [rest EXCEPT ![a].phase = "failed"] /\ Fault("docker") /\ UNCHANGED vol
    /\ UNCHANGED <<day, db, s3, up, snap, stage, lock, run>>

\* Mutated form of AwaitRestore: the exit code of the container is not read.
AwaitRestoreUnchecked(p) ==
    /\ At(p, "restWait")
    /\ rest[Cur(p)].phase \in {"done", "failed"} /\ Ok /\ Goto(p, "boot")
    /\ rest' = [rest EXCEPT ![Cur(p)] = NoRestore]
    /\ UNCHANGED <<day, db, s3, vol, up, snap, stage, lock>>

\* As AwaitSnapshot, but for the removal, whose error is dropped.
AwaitRestore(p) ==
    /\ At(p, "restWait")
    /\ \/ rest[Cur(p)].phase = "done" /\ Ok /\ Goto(p, "boot") /\ rest' = Removed(Cur(p))
       \/ rest[Cur(p)].phase = "failed" /\ Ok /\ Over(p, FALSE) /\ rest' = Removed(Cur(p))
       \/ /\ Mounted(rest[Cur(p)].phase) /\ Fault("wait")
          /\ \/ Goto(p, "boot") /\ rest' \in {rest, Removed(Cur(p))}
             \/ Over(p, FALSE) /\ UNCHANGED rest
    /\ UNCHANGED <<day, db, s3, vol, up, snap, stage, lock>>

\* verify_volume_single_writer: no running container writes the volume.
Unwritten(a) == up[a] # "up" /\ ~Mounted(rest[a].phase)

\* start_container
BootRestored(p) ==
    /\ At(p, "boot")
    /\ \/ /\ Unwritten(Cur(p)) /\ Ok
          /\ up' = [up EXCEPT ![Cur(p)] = "up"] /\ Over(p, TRUE)
       \/ ~Unwritten(Cur(p)) /\ Over(p, FALSE) /\ Ok /\ UNCHANGED up
       \/ Fault("docker") /\ Over(p, FALSE) /\ UNCHANGED up
    /\ UNCHANGED <<day, db, s3, vol, snap, rest, stage, lock>>

-----------------------------------------------------------------------------
(* The apps, their operator, and what goes wrong outside a task *)

\* An app writes a blob, then refers to it.
AppWrites(a) ==
    /\ up[a] = "up"
    /\ \E b \in Blobs :
        \/ b \notin vol[a].blobs /\ vol' = [vol EXCEPT ![a].blobs = @ \cup {b}]
        \/ b \in vol[a].blobs \ vol[a].refs /\ vol' = [vol EXCEPT ![a].refs = @ \cup {b}]
    /\ Ok /\ UNCHANGED <<day, db, s3, up, snap, rest, stage, lock, run>>

\* A stop, or the two ends of a start: the single-writer check, the boot.
Operate(a) ==
    /\ "operator" \in Events /\ a \in rows
    /\ \/ up[a] = "up" /\ up' = [up EXCEPT ![a] = "down"]
       \/ up[a] = "down" /\ Unwritten(a) /\ up' = [up EXCEPT ![a] = "starting"]
       \/ up[a] = "starting" /\ up' = [up EXCEPT ![a] = "up"]
    /\ Ok /\ UNCHANGED <<day, db, s3, vol, snap, rest, stage, lock, run>>

NextDay ==
    /\ day < MaxDay /\ day' = day + 1
    /\ Ok /\ UNCHANGED <<db, s3, host, lock, run>>

Cancel(p) ==
    /\ ~At(p, "idle") /\ Fault("cancel") /\ Return(p)
    /\ UNCHANGED <<day, db, s3, host>>

\* The server dies and comes back; the containers run on.
Crash ==
    /\ Fault("crash")
    /\ run' = [p \in Tasks |-> NoRun] /\ lock' = None
    /\ UNCHANGED <<day, db, s3, host>>

\* A fresh node: an empty database, no volumes, no containers.
Disaster ==
    /\ Fault("disaster")
    /\ run' = [p \in Tasks |-> NoRun] /\ lock' = None
    /\ rows' = {} /\ catalog' = {} /\ marker' = 0 /\ configured' = FALSE
    /\ vol' = [a \in Apps |-> Empty] /\ up' = [a \in Apps |-> "down"]
    /\ snap' = [a \in Apps |-> "none"] /\ rest' = [a \in Apps |-> NoRestore]
    /\ stage' = [a \in Apps |-> Empty]
    /\ UNCHANGED <<day, s3>>

\* The installer, or an operator, sets the S3 credentials.
Configure ==
    /\ ~configured /\ configured' = TRUE
    /\ Ok /\ UNCHANGED <<day, rows, catalog, marker, s3, host, lock, run>>

-----------------------------------------------------------------------------

Step(p) ==
    \/ BackupState(p) \/ RecordUpload(p) \/ PruneList(p) \/ PruneObject(p) \/ PruneRows(p)
    \/ ListApps(p) \/ NextApp(p) \/ EndRun(p) \/ MarkDay(p)
    \/ StartSnapshot(p) \/ AwaitSnapshot(p) \/ UploadBlobs(p) \/ UploadTar(p)
    \/ MergeState(p) \/ StageRestore(p) \/ StopForRestore(p) \/ StartRestore(p)
    \/ AwaitRestore(p) \/ BootRestored(p)

Next ==
    \/ Tick \/ NextDay \/ Crash \/ Disaster \/ Configure
    \/ \E p \in Requests : Request(p) \/ Cancel(p)
    \/ \E p \in Tasks : TakeLock(p) \/ Step(p)
    \/ \E a \in Apps : Snapshot(a) \/ Apply(a) \/ AppWrites(a) \/ Operate(a)

Spec == Init /\ [][Next]_vars

\* The hourly timer, tokio's fair mutex, and calls and containers that end.
Fairness ==
    /\ WF_vars(Tick)
    /\ \A p \in Tasks : SF_vars(TakeLock(p)) /\ WF_vars(Step(p))
    /\ \A a \in Apps : WF_vars(Snapshot(a)) /\ WF_vars(Apply(a))

FairSpec == Spec /\ Fairness

-----------------------------------------------------------------------------
(* Properties *)

\* The newest backup of an app and of the state database never goes away, nor
\* is it replaced by an older one, whatever fails or crashes while pruning.
NewestSurvives ==
    [][\A x \in Prefixes : Keys(x) # {} =>
        Keys(x)' # {} /\ \E d \in Keys(x)' : \A e \in Keys(x) : e <= d]_s3

\* Every tarball in S3 can be restored: the blobs its databases refer to were
\* uploaded before it (snapshot_script, backup_app).
TarballsRestorable ==
    \A a \in Apps : \A d \in Keys(a) : tars[a][d] \subseteq blobStore[a]

\* A run reported without failures, the only kind that is marked, captured
\* all that every app had when the run began, and kept within the retention.
CleanRunCaptured ==
    \A p \in Tasks : At(p, "mark") =>
        /\ run[p].date \in Keys(State) \/ \E d \in Keys(State) : d > run[p].date
        /\ \A a \in rows : \E d \in Keys(a) :
            d >= run[p].date /\ run[p].seen[a] \subseteq tars[a][d]

\* A restore that skips no app leaves each of them with all of its newest
\* backup and no reference to a missing blob.
RestoreIsWhole ==
    \A p \in Tasks : At(p, "next") /\ Restoring(p) /\ run[p].todo = {} /\ ~run[p].failed =>
        \A a \in rows : Keys(a) # {} =>
            /\ tars[a][Newest(a)] \subseteq vol[a].refs
            /\ vol[a].refs \subseteq vol[a].blobs

\* BACKUP_LOCK: no snapshot container runs beside a restore container or
\* beside another snapshot.
OneVolumeOperation ==
    \A a, b \in Apps :
        /\ ~(Mounted(snap[a]) /\ Mounted(rest[b].phase))
        /\ a # b => ~(Mounted(snap[a]) /\ Mounted(snap[b]))

\* Between runs the catalog lists every backup in S3, although the pruning
\* that follows an upload may fail.
CatalogComplete ==
    lock = None => \A x \in Prefixes : \A d \in Keys(x) : <<x, d>> \in catalog

\* Once failures stop, the last day is marked as backed up and stays so.
LastDayBackedUp == <>[](day = MaxDay => marker = MaxDay)

-----------------------------------------------------------------------------
(* What the documentation says and the code does not do *)

\* README.md and VISION.md, disaster recovery: install, then `lh restore`
\* brings every app back.
BackedUpAppsRecoverable ==
    \A a \in Apps : Keys(a) # {} /\ Keys(State) # {} =>
        a \in rows \cup states[Newest(State)]

\* docs/landing/messaging.md: `lh backup status --json` tells the last good
\* date, a day on which every app was backed up.
MarkedDayHasBackup ==
    marker # 0 => \E d \in Keys(State) : d >= marker

=============================================================================
