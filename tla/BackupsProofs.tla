---------------------------- MODULE BackupsProofs ----------------------------
(***************************************************************************)
(* Proofs about Backups, for every number of apps, blobs, requests and     *)
(* days, and every retention.                                              *)
(***************************************************************************)
EXTENDS Backups, FiniteSetTheorems, WellFoundedInduction, TLAPS

-----------------------------------------------------------------------------
(* Types *)

BackupPcs == {"state", "record", "snap", "snapWait", "blobs", "tar"}
PrunePcs == {"record", "prune", "pruneS3", "pruneRows"}
AppPcs == {"snap", "snapWait", "blobs", "tar", "stage", "replace", "apply", "restWait", "boot"}
Holding == BackupPcs \cup PrunePcs \cup AppPcs \cup {"merge", "list", "next"}
Pcs == Holding \cup {"idle", "lock", "mark"}

Runs == [pc : Pcs, kind : {"none", "scheduled", "manual", "restore"},
         today : 0..MaxDay, date : 0..MaxDay, todo : SUBSET Apps,
         cur : Prefixes \cup {None}, failed : BOOLEAN, doomed : SUBSET Days, data : Data,
         seen : [Apps -> SUBSET Blobs]]

\* A backup has its date and an app's step has its app.
RunOK(r) ==
    /\ r.pc \in BackupPcs => r.kind # "restore"
    /\ r.pc \notin {"idle", "lock"} /\ r.kind # "restore" => r.date \in Days
    /\ r.pc \in PrunePcs => r.cur \in Prefixes
    /\ r.pc \in AppPcs => r.cur \in Apps

GoodRuns == {r \in Runs : RunOK(r)}

DbOK ==
    /\ rows \in SUBSET Apps /\ catalog \in SUBSET (Prefixes \X Days)
    /\ marker \in 0..MaxDay /\ configured \in BOOLEAN

S3OK ==
    /\ states \in [Days -> (SUBSET Apps) \cup {None}]
    /\ tars \in [Apps -> [Days -> (SUBSET Blobs) \cup {None}]]
    /\ blobStore \in [Apps -> SUBSET Blobs]

HostOK ==
    /\ vol \in [Apps -> Data] /\ stage \in [Apps -> Data]
    /\ up \in [Apps -> {"up", "down", "starting"}]
    /\ snap \in [Apps -> Phases]
    /\ rest \in [Apps -> [phase : Phases, data : Data]]

TypeOK ==
    /\ DbOK /\ S3OK /\ HostOK
    /\ day \in Days /\ faults \in Nat
    /\ lock \in Tasks \cup {None}
    /\ run \in [Tasks -> GoodRuns]

-----------------------------------------------------------------------------
(* The invariants *)

\* BACKUP_LOCK is held from the configuration to the end of the run.
HoldersLock == \A p \in Tasks : run[p].pc \in Holding => lock = p

\* What is referred to is in the volume or was uploaded; from the blobs on the
\* staging directory is the task's alone.
Covered(a, refs) == refs \subseteq vol[a].blobs \cup blobStore[a]
Staged(a) == stage[a].refs \subseteq stage[a].blobs \cup blobStore[a]

VolumeOK(a) ==
    /\ Covered(a, vol[a].refs)
    /\ \A d \in Days : tars[a][d] # None => tars[a][d] \subseteq blobStore[a]
    /\ rest[a].data.refs \subseteq blobStore[a]
    /\ snap[a] = "blobs" => Covered(a, stage[a].refs)
    /\ snap[a] = "done" => Staged(a)

WorkOK(p) ==
    /\ At(p, "replace") \/ At(p, "apply") => run[p].data.refs \subseteq blobStore[Cur(p)]
    /\ At(p, "blobs") \/ At(p, "tar") => snap[Cur(p)] = "none" /\ Staged(Cur(p))
    /\ At(p, "tar") => stage[Cur(p)].refs \subseteq blobStore[Cur(p)]

BlobsInv == (\A a \in Apps : VolumeOK(a)) /\ (\A p \in Tasks : WorkOK(p))

\* The keys to delete are older than one that stays; then they are gone.
PruneInv ==
    \A p \in Tasks :
        /\ At(p, "pruneS3") => \A d \in run[p].doomed :
             \E e \in Keys(Cur(p)) : e \notin run[p].doomed /\ d < e
        /\ At(p, "pruneRows") => run[p].doomed \cap Keys(Cur(p)) = {}

\* What S3 has the catalog has, but for an upload that is being recorded.
Cataloged(x, d) == <<x, d>> \in catalog
RecordedBy(p, x, d) == run[p].pc = "record" /\ run[p].cur = x /\ run[p].date = d

CatalogInv ==
    \A x \in Prefixes : \A d \in Keys(x) : Cataloged(x, d) \/ \E p \in Tasks : RecordedBy(p, x, d)

\* A container that mounts a volume has its task waiting for it.
MountInv ==
    \A a \in Apps :
        /\ Mounted(snap[a]) => \E p \in Tasks : At(p, "snapWait") /\ Cur(p) = a
        /\ Mounted(rest[a].phase) => \E p \in Tasks : At(p, "restWait") /\ Cur(p) = a

-----------------------------------------------------------------------------
(* A task's record, and the table of them *)

LEMMA NoRunType == NoRun \in GoodRuns
BY BoundsAssumption DEF NoRun, GoodRuns, Runs, RunOK, Pcs, Holding, BackupPcs, PrunePcs, AppPcs,
   Data, Empty

LEMMA EmptyType == Empty \in Data
BY DEF Empty, Data

\* A table with one record replaced.
LEMMA OneRun == ASSUME TypeOK, NEW p \in Tasks, NEW r \in GoodRuns, run' = [run EXCEPT ![p] = r]
                PROVE  /\ run' \in [Tasks -> GoodRuns]
                       /\ run'[p] = r
                       /\ \A q \in Tasks : q # p => run'[q] = run[q]
BY DEF TypeOK

LEMMA GotoType ==
    ASSUME TypeOK, NEW p \in Tasks, NEW pc \in Pcs, Goto(p, pc),
           pc \in BackupPcs => run[p].kind # "restore",
           pc \notin {"idle", "lock"} /\ run[p].kind # "restore" => run[p].date \in Days,
           pc \in PrunePcs => run[p].cur \in Prefixes,
           pc \in AppPcs => run[p].cur \in Apps
    PROVE  /\ run' \in [Tasks -> GoodRuns]
           /\ run'[p] = [run[p] EXCEPT !.pc = pc]
           /\ \A q \in Tasks : q # p => run'[q] = run[q]
<1> DEFINE r == [run[p] EXCEPT !.pc = pc]
<1>1. run[p] \in GoodRuns
  BY DEF TypeOK
<1>2. r \in Runs
  BY <1>1 DEF GoodRuns, Runs
<1>3. RunOK(r)
  BY <1>1 DEF GoodRuns, Runs, RunOK
<1>4. r \in GoodRuns
  BY <1>2, <1>3 DEF GoodRuns
<1>5. run' = [run EXCEPT ![p] = r]
  BY DEF Goto, TypeOK
<1> HIDE DEF r
<1>6. run'[p] = r
  BY <1>4, <1>5, OneRun
<1>7. QED
  BY <1>4, <1>5, <1>6, OneRun DEF r

LEMMA ReturnType ==
    ASSUME TypeOK, NEW p \in Tasks, Return(p)
    PROVE  /\ run' \in [Tasks -> GoodRuns]
           /\ run'[p] = NoRun
           /\ \A q \in Tasks : q # p => run'[q] = run[q]
           /\ lock' \in Tasks \cup {None}
BY OneRun, NoRunType DEF Return, TypeOK

\* Where a task is when a prefix is over.
OverPc(r) == IF r.cur = State THEN "list" ELSE "next"

LEMMA OverType ==
    ASSUME TypeOK, NEW p \in Tasks, NEW ok \in BOOLEAN, Over(p, ok),
           run[p].pc \notin {"idle", "lock"}
    PROVE  /\ run' \in [Tasks -> GoodRuns]
           /\ run'[p].pc \in {"list", "next"}
           /\ run'[p].doomed = {}
           /\ \A q \in Tasks : q # p => run'[q] = run[q]
<1> DEFINE f == run[p].failed \/ ~ok
           r == [run[p] EXCEPT !.pc = OverPc(run[p]), !.cur = None, !.doomed = {},
                               !.data = Empty, !.failed = f]
<1>1. run[p] \in GoodRuns
  BY DEF TypeOK
<1>2. f \in BOOLEAN
  OBVIOUS
<1>3. run' = [run EXCEPT ![p] = r]
  BY DEF Over, OverPc, Cur
<1> HIDE DEF f
<1>4. r \in Runs
  BY <1>1, <1>2, EmptyType DEF GoodRuns, Runs, OverPc, Pcs, Holding
<1>5. RunOK(r)
  BY <1>1 DEF GoodRuns, Runs, RunOK, OverPc, BackupPcs, PrunePcs, AppPcs
<1>6. r \in GoodRuns /\ r.pc \in {"list", "next"} /\ r.doomed = {}
  BY <1>1, <1>4, <1>5 DEF GoodRuns, Runs, OverPc
<1> HIDE DEF r
<1>7. QED
  BY <1>3, <1>6, OneRun

-----------------------------------------------------------------------------
(* The newest key *)

\* A non-empty set of days has a latest one.
LEMMA LatestDay == ASSUME NEW K, K \subseteq Days, K # {} PROVE \E d \in K : \A e \in K : e <= d
<1> DEFINE R == OpToRel(<, Nat)
           T == {MaxDay - d : d \in K}
<1>1. MaxDay \in Nat /\ \A d \in K : d \in Nat /\ MaxDay - d \in Nat
  BY BoundsAssumption DEF Days
<1>2. T \subseteq Nat /\ T # {}
  BY <1>1
<1>3. IsWellFoundedOn(R, Nat)
  BY NatLessThanWellFounded
<1>4. PICK x \in T : \A y \in T : ~(<<y, x>> \in R)
  <2> HIDE DEF R, T
  <2>1. QED
    BY <1>2, <1>3, WFMin
<1>5. \A y \in T : ~(y < x)
  BY <1>2, <1>4 DEF OpToRel
<1>6. PICK d \in K : x = MaxDay - d
  BY <1>4
<1>7. \A e \in K : ~(MaxDay - e < MaxDay - d)
  BY <1>5, <1>6
<1>8. QED
  BY <1>1, <1>7

LEMMA NewestTar == ASSUME TypeOK, NEW a \in Apps, Keys(a) # {}
                   PROVE  /\ Newest(a) \in Keys(a)
                          /\ tars[a][Newest(a)] \in SUBSET Blobs
                          /\ blobStore[a] \in SUBSET Blobs
<1>1. Keys(a) = {d \in Days : tars[a][d] # None}
  BY NamesAssumption DEF Keys
<1>2. Newest(a) \in Keys(a)
  BY <1>1, LatestDay DEF Newest
<1>3. QED
  BY <1>1, <1>2 DEF TypeOK, S3OK

-----------------------------------------------------------------------------
(* A step of a task changes that task's record only, and keeps it well-formed. *)

OwnRun(p) ==
    /\ run' \in [Tasks -> GoodRuns]
    /\ \A q \in Tasks : q # p => run'[q] = run[q]

TaskStep(p) ==
    (p = Sched /\ Tick) \/ (p \in Requests /\ (Request(p) \/ Cancel(p))) \/ TakeLock(p) \/ Step(p)

LEMMA TaskRuns == ASSUME TypeOK, NEW p \in Tasks, TaskStep(p) PROVE OwnRun(p)
<1> USE DEF OwnRun
<1>0. /\ run[p] \in GoodRuns /\ run[p] \in Runs /\ RunOK(run[p])
      /\ run[p].cur \in Prefixes \cup {None} /\ run[p].doomed \in SUBSET Days
      /\ day \in Days /\ rows \in SUBSET Apps /\ vol \in [Apps -> Data]
      /\ 0 \in 0..MaxDay /\ Days \subseteq 0..MaxDay
      /\ run[p].kind \in {"none", "scheduled", "manual", "restore"}
  BY BoundsAssumption DEF TypeOK, GoodRuns, DbOK, HostOK, Runs, Days
<1>1. CASE p = Sched /\ Tick
  <2> DEFINE r == [NoRun EXCEPT !.pc = "lock", !.kind = "scheduled", !.today = day]
  <2>1. r \in GoodRuns
    BY <1>0, NoRunType DEF GoodRuns, Runs, RunOK, NoRun, Pcs, BackupPcs, PrunePcs, AppPcs
  <2>2. run' = [run EXCEPT ![p] = r]
    BY <1>1 DEF Tick
  <2> HIDE DEF r
  <2>3. QED
    BY <2>1, <2>2, OneRun
<1>2. CASE Request(p)
  <2>1. PICK kind \in {"manual", "restore"} :
           run' = [run EXCEPT ![p] = [NoRun EXCEPT !.pc = "lock", !.kind = kind]]
    BY <1>2 DEF Request
  <2> DEFINE r == [NoRun EXCEPT !.pc = "lock", !.kind = kind]
  <2>2. r \in GoodRuns
    BY NoRunType DEF GoodRuns, Runs, RunOK, NoRun, Pcs, BackupPcs, PrunePcs, AppPcs
  <2>3. run' = [run EXCEPT ![p] = r]
    BY <2>1
  <2> HIDE DEF r
  <2>4. QED
    BY <2>2, <2>3, OneRun
<1>3. CASE Cancel(p)
  BY <1>3, ReturnType DEF Cancel
<1>4. CASE TakeLock(p)
  <2>1. CASE Return(p)
    BY <2>1, ReturnType
  <2>2. CASE ~Return(p)
    <3> DEFINE sn == [a \in Apps |-> IF Restoring(p) THEN {} ELSE vol[a].refs]
               dt == IF Restoring(p) THEN 0 ELSE day
               pc == IF Restoring(p) THEN "merge" ELSE "state"
               r == [run[p] EXCEPT !.pc = pc, !.date = dt, !.seen = sn]
    <3>1. run' = [run EXCEPT ![p] = r]
      BY <1>4, <2>2 DEF TakeLock
    <3>2. sn \in [Apps -> SUBSET Blobs]
      BY <1>0 DEF Data
    <3>3. dt \in 0..MaxDay /\ pc \in {"merge", "state"}
      BY <1>0
    <3>4. pc = "state" => run[p].kind # "restore" /\ dt \in Days
      BY <1>0 DEF Restoring
    <3>5. pc = "merge" => run[p].kind = "restore"
      BY DEF Restoring
    <3> HIDE DEF sn, dt, pc
    <3>6. r \in Runs
      BY <1>0, <3>2, <3>3 DEF Runs, Pcs, Holding, BackupPcs
    <3>7. RunOK(r)
      BY <1>0, <3>3, <3>4, <3>5 DEF Runs, RunOK, BackupPcs, PrunePcs, AppPcs
    <3>8. r \in GoodRuns
      BY <3>6, <3>7 DEF GoodRuns
    <3> HIDE DEF r
    <3>9. QED
      BY <3>1, <3>8, OneRun
  <2>3. QED
    BY <2>1, <2>2
<1>5. CASE BackupState(p)
  <2>1. run[p].kind # "restore" /\ run[p].date \in Days
    BY <1>0, <1>5 DEF BackupState, At, RunOK, BackupPcs
  <2>2. CASE run' = [run EXCEPT ![p].pc = "record", ![p].cur = State]
    <3> DEFINE r == [run[p] EXCEPT !.pc = "record", !.cur = State]
    <3>1. r \in GoodRuns
      BY <1>0, <2>1 DEF GoodRuns, Runs, RunOK, Pcs, Holding, BackupPcs, PrunePcs, AppPcs, Prefixes
    <3>2. run' = [run EXCEPT ![p] = r]
      BY <2>2
    <3> HIDE DEF r
    <3>3. QED
      BY <3>1, <3>2, OneRun
  <2>3. CASE run' = [run EXCEPT ![p].pc = "list", ![p].failed = TRUE]
    <3> DEFINE r == [run[p] EXCEPT !.pc = "list", !.failed = TRUE]
    <3>1. r \in GoodRuns
      BY <1>0, <2>1 DEF GoodRuns, Runs, RunOK, Pcs, Holding, BackupPcs, PrunePcs, AppPcs
    <3>2. run' = [run EXCEPT ![p] = r]
      BY <2>3
    <3> HIDE DEF r
    <3>3. QED
      BY <3>1, <3>2, OneRun
  <2>4. QED
    BY <1>5, <2>2, <2>3 DEF BackupState
<1>6. CASE RecordUpload(p)
  BY <1>0, <1>6, GotoType
  DEF RecordUpload, At, RunOK, Pcs, Holding, BackupPcs, PrunePcs, AppPcs
<1>7. CASE PruneList(p)
  <2>1. CASE \E ok \in BOOLEAN : Over(p, ok)
    BY <1>7, <2>1, OverType DEF PruneList, At
  <2>2. CASE run' = [run EXCEPT ![p].pc = "pruneS3", ![p].doomed = KeysToPrune(Keys(Cur(p)))]
    <3> DEFINE d == KeysToPrune(Keys(Cur(p)))
               r == [run[p] EXCEPT !.pc = "pruneS3", !.doomed = d]
    <3>1. d \in SUBSET Days
      BY DEF KeysToPrune, Keys
    <3>2. run' = [run EXCEPT ![p] = r]
      BY <2>2
    <3> HIDE DEF d
    <3>3. r \in GoodRuns
      BY <1>0, <1>7, <3>1 DEF PruneList, At, GoodRuns, Runs, RunOK, Pcs, Holding, BackupPcs,
         PrunePcs, AppPcs
    <3> HIDE DEF r
    <3>4. QED
      BY <3>2, <3>3, OneRun
  <2>3. QED
    BY <1>7, <2>1, <2>2 DEF PruneList
<1>8. CASE PruneObject(p)
  <2>1. CASE \E ok \in BOOLEAN : Over(p, ok)
    BY <1>8, <2>1, OverType DEF PruneObject, At
  <2>2. CASE Goto(p, "pruneRows")
    BY <1>0, <1>8, <2>2, GotoType
    DEF PruneObject, At, RunOK, Pcs, Holding, BackupPcs, PrunePcs, AppPcs
  <2>3. CASE UNCHANGED run
    BY <2>3 DEF TypeOK
  <2>4. QED
    BY <1>8, <2>1, <2>2, <2>3 DEF PruneObject
<1>9. CASE PruneRows(p)
  BY <1>9, OverType DEF PruneRows, At
<1>10. CASE ListApps(p)
  <2>1. CASE Return(p)
    BY <2>1, ReturnType
  <2>2. CASE run' = [run EXCEPT ![p].pc = "next", ![p].todo = rows]
    <3> DEFINE r == [run[p] EXCEPT !.pc = "next", !.todo = rows]
    <3>1. r \in GoodRuns
      BY <1>0, <1>10 DEF ListApps, At, GoodRuns, Runs, RunOK, Pcs, Holding, BackupPcs, PrunePcs,
         AppPcs
    <3>2. run' = [run EXCEPT ![p] = r]
      BY <2>2
    <3> HIDE DEF r
    <3>3. QED
      BY <3>1, <3>2, OneRun
  <2>3. QED
    BY <1>10, <2>1, <2>2 DEF ListApps
<1>11. CASE NextApp(p)
  <2>1. PICK a \in run[p].todo :
           run' = [run EXCEPT ![p].pc = IF Restoring(p) THEN "stage" ELSE "snap",
                              ![p].cur = a, ![p].todo = @ \ {a}]
    BY <1>11 DEF NextApp
  <2> DEFINE pc == IF Restoring(p) THEN "stage" ELSE "snap"
             r == [run[p] EXCEPT !.pc = pc, !.cur = a, !.todo = @ \ {a}]
  <2>2. run' = [run EXCEPT ![p] = r]
    BY <2>1
  <2>3. /\ pc \in {"stage", "snap"} /\ a \in Apps
        /\ pc = "snap" => run[p].kind # "restore"
        /\ run[p].kind # "restore" => run[p].date \in Days
    BY <1>0, <1>11, <2>1 DEF Restoring, Runs, NextApp, At, RunOK
  <2> HIDE DEF pc
  <2>4. r \in Runs
    BY <1>0, <2>3 DEF Runs, Pcs, Holding, AppPcs, Prefixes
  <2>5. RunOK(r)
    BY <1>0, <2>3 DEF Runs, RunOK, BackupPcs, PrunePcs, AppPcs
  <2>6. r \in GoodRuns
    BY <2>4, <2>5 DEF GoodRuns
  <2> HIDE DEF r
  <2>7. QED
    BY <2>2, <2>6, OneRun
<1>12. CASE EndRun(p)
  <2>1. CASE Return(p)
    BY <2>1, ReturnType
  <2>2. CASE ~Return(p)
    BY <1>0, <1>12, <2>2, GotoType
    DEF EndRun, At, Restoring, RunOK, Pcs, BackupPcs, PrunePcs, AppPcs
  <2>3. QED
    BY <2>1, <2>2
<1>13. CASE MarkDay(p)
  BY <1>13, ReturnType DEF MarkDay
<1>14. CASE StartSnapshot(p)
  <2>1. CASE \E ok \in BOOLEAN : Over(p, ok)
    BY <1>14, <2>1, OverType DEF StartSnapshot, At
  <2>2. CASE Goto(p, "snapWait")
    BY <1>0, <1>14, <2>2, GotoType
    DEF StartSnapshot, At, RunOK, Pcs, Holding, BackupPcs, PrunePcs, AppPcs
  <2>3. QED
    BY <1>14, <2>1, <2>2 DEF StartSnapshot
<1>15. CASE AwaitSnapshot(p)
  <2>1. CASE \E ok \in BOOLEAN : Over(p, ok)
    BY <1>15, <2>1, OverType DEF AwaitSnapshot, At
  <2>2. CASE Goto(p, "blobs")
    BY <1>0, <1>15, <2>2, GotoType
    DEF AwaitSnapshot, At, RunOK, Pcs, Holding, BackupPcs, PrunePcs, AppPcs
  <2>3. QED
    BY <1>15, <2>1, <2>2 DEF AwaitSnapshot
<1>16. CASE UploadBlobs(p)
  <2>1. CASE \E ok \in BOOLEAN : Over(p, ok)
    BY <1>16, <2>1, OverType DEF UploadBlobs, At
  <2>2. CASE Goto(p, "tar")
    BY <1>0, <1>16, <2>2, GotoType
    DEF UploadBlobs, At, RunOK, Pcs, Holding, BackupPcs, PrunePcs, AppPcs
  <2>3. CASE UNCHANGED run
    BY <2>3 DEF TypeOK
  <2>4. QED
    BY <1>16, <2>1, <2>2, <2>3 DEF UploadBlobs
<1>17. CASE UploadTar(p)
  <2>1. CASE \E ok \in BOOLEAN : Over(p, ok)
    BY <1>17, <2>1, OverType DEF UploadTar, At
  <2>2. CASE Goto(p, "record")
    BY <1>0, <1>17, <2>2, GotoType
    DEF UploadTar, At, RunOK, Pcs, Holding, BackupPcs, PrunePcs, AppPcs, Prefixes
  <2>3. QED
    BY <1>17, <2>1, <2>2 DEF UploadTar
<1>18. CASE MergeState(p)
  <2>1. CASE Return(p)
    BY <2>1, ReturnType
  <2>2. CASE Goto(p, "list")
    BY <1>0, <1>18, <2>2, GotoType
    DEF MergeState, At, RunOK, Pcs, Holding, BackupPcs, PrunePcs, AppPcs
  <2>3. QED
    BY <1>18, <2>1, <2>2 DEF MergeState
<1>20. CASE StopForRestore(p)
  <2>1. CASE \E ok \in BOOLEAN : Over(p, ok)
    BY <1>20, <2>1, OverType DEF StopForRestore, At
  <2>2. CASE Goto(p, "apply")
    BY <1>0, <1>20, <2>2, GotoType
    DEF StopForRestore, At, RunOK, Pcs, Holding, BackupPcs, PrunePcs, AppPcs
  <2>3. QED
    BY <1>20, <2>1, <2>2 DEF StopForRestore
<1>21. CASE StartRestore(p)
  <2>1. CASE \E ok \in BOOLEAN : Over(p, ok)
    BY <1>21, <2>1, OverType DEF StartRestore, At
  <2>2. CASE Goto(p, "restWait")
    BY <1>0, <1>21, <2>2, GotoType
    DEF StartRestore, At, RunOK, Pcs, Holding, BackupPcs, PrunePcs, AppPcs
  <2>3. QED
    BY <1>21, <2>1, <2>2 DEF StartRestore
<1>22. CASE AwaitRestore(p)
  <2>1. CASE \E ok \in BOOLEAN : Over(p, ok)
    BY <1>22, <2>1, OverType DEF AwaitRestore, At
  <2>2. CASE Goto(p, "boot")
    BY <1>0, <1>22, <2>2, GotoType
    DEF AwaitRestore, At, RunOK, Pcs, Holding, BackupPcs, PrunePcs, AppPcs
  <2>3. QED
    BY <1>22, <2>1, <2>2 DEF AwaitRestore
<1>23. CASE BootRestored(p)
  BY <1>23, OverType DEF BootRestored, At
<1>24. CASE StageRestore(p)
  <2>1. CASE \E ok \in BOOLEAN : Over(p, ok)
    BY <1>24, <2>1, OverType DEF StageRestore, At
  <2>2. CASE ~\E ok \in BOOLEAN : Over(p, ok)
    <3> DEFINE dt == [refs |-> tars[Cur(p)][Newest(Cur(p))], blobs |-> RestoredBlobs(Cur(p))]
               r == [run[p] EXCEPT !.pc = "replace", !.data = dt]
    <3>1. run' = [run EXCEPT ![p] = r] /\ Keys(Cur(p)) # {}
      BY <1>24, <2>2 DEF StageRestore
    <3>2. dt \in Data
      BY <1>0, <1>24, <3>1, NewestTar DEF StageRestore, At, Data, RestoredBlobs, RunOK, AppPcs, Cur
    <3> HIDE DEF dt
    <3>3. r \in GoodRuns
      BY <1>0, <1>24, <3>2 DEF StageRestore, At, GoodRuns, Runs, RunOK, Pcs, Holding, BackupPcs,
         PrunePcs, AppPcs
    <3> HIDE DEF r
    <3>4. QED
      BY <3>1, <3>3, OneRun
  <2>3. QED
    BY <2>1, <2>2
<1>25. QED
  BY <1>1, <1>2, <1>3, <1>4, <1>5, <1>6, <1>7, <1>8, <1>9, <1>10, <1>11, <1>12, <1>13, <1>14,
     <1>15, <1>16, <1>17, <1>18, <1>20, <1>21, <1>22, <1>23, <1>24
  DEF TaskStep, Step

-----------------------------------------------------------------------------
(* What a task leaves alone *)

ChangesDb(p) == MergeState(p) \/ RecordUpload(p) \/ PruneRows(p) \/ MarkDay(p)
ChangesS3(p) == BackupState(p) \/ PruneObject(p) \/ UploadBlobs(p) \/ UploadTar(p)
ChangesHost(p) ==
    \/ StartSnapshot(p) \/ AwaitSnapshot(p) \/ UploadBlobs(p) \/ UploadTar(p)
    \/ StopForRestore(p) \/ StartRestore(p) \/ AwaitRestore(p) \/ BootRestored(p)

LEMMA Frame == ASSUME NEW p \in Tasks, TaskStep(p)
               PROVE  /\ UNCHANGED day
                      /\ UNCHANGED db \/ ChangesDb(p)
                      /\ UNCHANGED s3 \/ ChangesS3(p)
                      /\ UNCHANGED host \/ ChangesHost(p)
<1> USE DEF ChangesDb, ChangesS3, ChangesHost, db, s3, host
<1>1. CASE p = Sched /\ Tick
  BY <1>1 DEF Tick
<1>2. CASE Request(p) \/ Cancel(p)
  BY <1>2 DEF Request, Cancel
<1>3. CASE TakeLock(p) \/ PruneList(p) \/ ListApps(p) \/ NextApp(p) \/ EndRun(p) \/ StageRestore(p)
  BY <1>3 DEF TakeLock, PruneList, ListApps, NextApp, EndRun, StageRestore
<1>4. CASE ChangesDb(p)
  BY <1>4 DEF MergeState, RecordUpload, PruneRows, MarkDay
<1>5. CASE BackupState(p) \/ PruneObject(p)
  BY <1>5 DEF BackupState, PruneObject
<1>6. CASE ChangesHost(p)
  BY <1>6 DEF StartSnapshot, AwaitSnapshot, UploadBlobs, UploadTar, StopForRestore, StartRestore,
     AwaitRestore, BootRestored
<1>7. QED
  BY <1>1, <1>2, <1>3, <1>4, <1>5, <1>6 DEF TaskStep, Step

LEMMA Counts == ASSUME faults \in Nat, Ok \/ \E kind \in FaultKinds : Fault(kind)
                PROVE  faults' \in Nat
BY DEF Ok, Fault

LEMMA FaultsType == ASSUME TypeOK, NEW p \in Tasks, TaskStep(p) PROVE faults' \in Nat
<1> USE DEF FaultKinds
<1>1. faults \in Nat
  BY DEF TypeOK
<1>2. CASE (p = Sched /\ Tick) \/ Request(p) \/ Cancel(p) \/ TakeLock(p)
  BY <1>1, <1>2, Counts DEF Tick, Request, Cancel, TakeLock
<1>3. CASE PruneList(p) \/ ListApps(p) \/ NextApp(p) \/ EndRun(p) \/ StageRestore(p)
  BY <1>1, <1>3, Counts DEF PruneList, ListApps, NextApp, EndRun, StageRestore
<1>4. CASE ChangesDb(p)
  BY <1>1, <1>4, Counts DEF ChangesDb, MergeState, RecordUpload, PruneRows, MarkDay
<1>5. CASE BackupState(p) \/ PruneObject(p)
  BY <1>1, <1>5, Counts DEF BackupState, PruneObject
<1>6. CASE StartSnapshot(p) \/ AwaitSnapshot(p) \/ UploadBlobs(p) \/ UploadTar(p)
  BY <1>1, <1>6, Counts DEF StartSnapshot, AwaitSnapshot, UploadBlobs, UploadTar
<1>7. CASE StopForRestore(p) \/ StartRestore(p) \/ AwaitRestore(p) \/ BootRestored(p)
  BY <1>1, <1>7, Counts DEF StopForRestore, StartRestore, AwaitRestore, BootRestored
<1>8. QED
  BY <1>2, <1>3, <1>4, <1>5, <1>6, <1>7 DEF TaskStep, Step, ChangesDb

\* The lock goes to a free-standing task, from its holder to nobody, or stays.
LEMMA LockMoves ==
    ASSUME TypeOK, NEW p \in Tasks, TaskStep(p)
    PROVE  \/ lock' = p /\ lock = None /\ TakeLock(p)
           \/ lock' = None /\ run'[p].pc \notin Holding /\ (lock = p \/ EndRun(p))
           \/ lock' = lock /\ (run'[p].pc \in Holding => run[p].pc \in Holding)
<1>0. NoRun.pc \notin Holding /\ run \in [Tasks -> GoodRuns] /\ run[p].pc \in Pcs
  BY DEF NoRun, Holding, BackupPcs, PrunePcs, AppPcs, TypeOK, GoodRuns, Runs
<1>1. CASE Return(p)
  BY <1>0, <1>1 DEF Return
<1>2. CASE UNCHANGED lock /\ run[p].pc \in Holding
  BY <1>2
<1>3. CASE (p = Sched /\ Tick) \/ Request(p)
  <2>1. run'[p].pc = "lock" /\ lock' = lock
    BY <1>0, <1>3 DEF Tick, Request, NoRun, host, db, s3
  <2>2. QED
    BY <2>1 DEF Holding, BackupPcs, PrunePcs, AppPcs
<1>4. CASE Cancel(p) \/ MarkDay(p)
  BY <1>1, <1>4 DEF Cancel, MarkDay
<1>5. CASE TakeLock(p)
  BY <1>1, <1>5 DEF TakeLock
<1>6. CASE EndRun(p)
  <2>1. CASE ~Return(p)
    <3>1. lock' = None /\ Goto(p, "mark")
      BY <1>6, <2>1 DEF EndRun
    <3>2. run'[p].pc = "mark"
      BY <1>0, <3>1 DEF Goto, GoodRuns, Runs
    <3>3. QED
      BY <1>6, <3>1, <3>2 DEF Holding, BackupPcs, PrunePcs, AppPcs
  <2>2. QED
    BY <1>1, <2>1
<1>7. CASE ListApps(p) \/ MergeState(p)
  BY <1>1, <1>2, <1>7 DEF ListApps, MergeState, At, Holding
<1>8. CASE BackupState(p) \/ RecordUpload(p) \/ PruneList(p) \/ PruneObject(p) \/ PruneRows(p)
           \/ NextApp(p) \/ StageRestore(p)
  BY <1>2, <1>8 DEF BackupState, RecordUpload, PruneList, PruneObject, PruneRows, NextApp,
     StageRestore, At, Holding, BackupPcs, PrunePcs, AppPcs
<1>9. CASE ChangesHost(p)
  BY <1>2, <1>9 DEF ChangesHost, StartSnapshot, AwaitSnapshot, UploadBlobs, UploadTar,
     StopForRestore, StartRestore, AwaitRestore, BootRestored, At, Holding, BackupPcs, AppPcs
<1>10. QED
  BY <1>3, <1>4, <1>5, <1>6, <1>7, <1>8, <1>9 DEF TaskStep, Step, ChangesHost

-----------------------------------------------------------------------------
(* Types and the lock are kept *)

LEMMA DataWith ==
    ASSUME NEW f, f \in [Apps -> Data], NEW g, NEW a \in Apps, NEW S \in SUBSET Blobs,
           g = [f EXCEPT ![a].refs = S] \/ g = [f EXCEPT ![a].blobs = S]
    PROVE  g \in [Apps -> Data]
<1>1. [f[a] EXCEPT !.refs = S] \in Data /\ [f[a] EXCEPT !.blobs = S] \in Data
  BY DEF Data
<1>2. QED
  BY <1>1

LEMMA DataParts == ASSUME NEW f \in [Apps -> Data], NEW a \in Apps
                   PROVE  f[a] \in Data /\ f[a].refs \in SUBSET Blobs /\ f[a].blobs \in SUBSET Blobs
BY DEF Data

LEMMA InitType == Init => TypeOK
<1> SUFFICES ASSUME Init PROVE TypeOK
  OBVIOUS
<1>1. DbOK /\ S3OK
  BY BoundsAssumption DEF Init, DbOK, S3OK
<1>2. HostOK
  <2>1. NoRestore \in [phase : Phases, data : Data]
    BY EmptyType DEF NoRestore, Phases
  <2>2. QED
    BY <2>1, EmptyType DEF Init, HostOK, Phases
<1>3. day \in Days /\ faults \in Nat /\ lock \in Tasks \cup {None}
  BY BoundsAssumption DEF Init, Days
<1>4. run \in [Tasks -> GoodRuns]
  BY NoRunType DEF Init
<1>5. QED
  BY <1>1, <1>2, <1>3, <1>4 DEF TypeOK

LEMMA DbType == ASSUME TypeOK, NEW p \in Tasks, TaskStep(p) PROVE DbOK'
<1>0. run[p] \in GoodRuns /\ day \in Days
  BY DEF TypeOK
<1>1. CASE UNCHANGED db
  BY <1>1 DEF TypeOK, DbOK, db
<1>2. CASE MergeState(p)
  <2>1. \A some : some \in SUBSET states[Newest(State)] /\ Keys(State) # {}
                    => Merged(some) \in SUBSET Apps
    <3> SUFFICES ASSUME NEW some \in SUBSET states[Newest(State)], Keys(State) # {}
                 PROVE  Merged(some) \in SUBSET Apps
      OBVIOUS
    <3>1. Keys(State) = {d \in Days : states[d] # None}
      BY DEF Keys
    <3>2. Newest(State) \in Keys(State)
      BY <3>1, LatestDay DEF Newest
    <3>3. states[Newest(State)] \in SUBSET Apps
      BY <3>1, <3>2 DEF TypeOK, S3OK
    <3>4. QED
      BY <3>3 DEF Merged, TypeOK, DbOK
  <2>2. rows' \in SUBSET Apps
    BY <1>2, <2>1 DEF MergeState, TypeOK, DbOK
  <2>3. QED
    BY <1>2, <2>2 DEF MergeState, TypeOK, DbOK
<1>3. CASE RecordUpload(p)
  <2>1. run[p].cur \in Prefixes /\ run[p].date \in Days
    BY <1>0, <1>3 DEF RecordUpload, At, GoodRuns, RunOK, BackupPcs, PrunePcs
  <2>2. QED
    BY <1>3, <2>1 DEF RecordUpload, TypeOK, DbOK, Cur
<1>4. CASE PruneRows(p)
  BY <1>4 DEF PruneRows, TypeOK, DbOK
<1>5. CASE MarkDay(p)
  <2>1. run[p].today \in 0..MaxDay /\ day \in 0..MaxDay
    BY <1>0, BoundsAssumption DEF GoodRuns, Runs, Days
  <2>2. QED
    BY <1>5, <2>1 DEF MarkDay, TypeOK, DbOK
<1>6. QED
  BY <1>1, <1>2, <1>3, <1>4, <1>5, Frame DEF ChangesDb

LEMMA S3Type == ASSUME TypeOK, NEW p \in Tasks, TaskStep(p) PROVE S3OK'
<1>0. run[p] \in GoodRuns /\ run[p] \in Runs
  BY DEF TypeOK, GoodRuns
<1>1. CASE UNCHANGED s3
  BY <1>1 DEF TypeOK, S3OK, s3
<1>2. CASE BackupState(p)
  BY <1>2 DEF BackupState, TypeOK, S3OK, DbOK
<1>3. CASE PruneObject(p)
  <2>1. states' \in [Days -> (SUBSET Apps) \cup {None}]
    BY <1>3 DEF PruneObject, TypeOK, S3OK
  <2>2. tars' \in [Apps -> [Days -> (SUBSET Blobs) \cup {None}]]
    <3>1. \A a \in Apps, d \in Days : [tars EXCEPT ![a][d] = None] \in
                                   [Apps -> [Days -> (SUBSET Blobs) \cup {None}]]
      BY DEF TypeOK, S3OK
    <3>2. CASE UNCHANGED tars
      BY <3>2 DEF TypeOK, S3OK
    <3>3. CASE tars' # tars
      <4>1. PICK d \in run[p].doomed : tars' = [tars EXCEPT ![Cur(p)][d] = None] /\ Cur(p) # State
        BY <1>3, <3>3 DEF PruneObject
      <4>2. d \in Days /\ Cur(p) \in Apps
        BY <1>0, <1>3, <4>1 DEF Runs, GoodRuns, RunOK, PruneObject, At, PrunePcs, Prefixes, Cur
      <4>3. QED
        BY <3>1, <4>1, <4>2
    <3>4. QED
      BY <3>2, <3>3
  <2>3. QED
    BY <1>3, <2>1, <2>2 DEF PruneObject, TypeOK, S3OK
<1>4. CASE UploadBlobs(p)
  <2>1. BlobsMissing(Cur(p)) \subseteq Blobs
    <3>1. Cur(p) \in Apps
      BY <1>0, <1>4 DEF GoodRuns, RunOK, UploadBlobs, At, AppPcs, Cur
    <3>2. QED
      BY <3>1, DataParts DEF BlobsMissing, TypeOK, HostOK
  <2>2. blobStore' \in [Apps -> SUBSET Blobs]
    BY <1>4, <2>1 DEF UploadBlobs, TypeOK, S3OK
  <2>3. QED
    BY <1>4, <2>2 DEF UploadBlobs, TypeOK, S3OK
<1>5. CASE UploadTar(p)
  <2>1. Cur(p) \in Apps /\ run[p].date \in Days /\ stage[Cur(p)].refs \in SUBSET Blobs
    BY <1>0, <1>5 DEF GoodRuns, RunOK, UploadTar, At, AppPcs, BackupPcs, Cur, TypeOK, HostOK, Data
  <2>2. tars' \in [Apps -> [Days -> (SUBSET Blobs) \cup {None}]]
    <3>1. CASE UNCHANGED tars
      BY <3>1 DEF TypeOK, S3OK
    <3>2. CASE tars' = [tars EXCEPT ![Cur(p)][run[p].date] = stage[Cur(p)].refs]
      <4> DEFINE row == [tars[Cur(p)] EXCEPT ![run[p].date] = stage[Cur(p)].refs]
      <4>1. row \in [Days -> (SUBSET Blobs) \cup {None}]
        BY <2>1 DEF TypeOK, S3OK
      <4>2. tars' = [tars EXCEPT ![Cur(p)] = row]
        BY <3>2
      <4> HIDE DEF row
      <4>3. QED
        BY <2>1, <4>1, <4>2 DEF TypeOK, S3OK
    <3>3. QED
      BY <1>5, <3>1, <3>2 DEF UploadTar
  <2>3. QED
    BY <1>5, <2>2 DEF UploadTar, TypeOK, S3OK
<1>6. QED
  BY <1>1, <1>2, <1>3, <1>4, <1>5, Frame DEF ChangesS3

LEMMA HostType == ASSUME TypeOK, NEW p \in Tasks, TaskStep(p) PROVE HostOK'
<1>0. run[p] \in GoodRuns /\ run[p] \in Runs /\ NoRestore \in [phase : Phases, data : Data]
  BY EmptyType DEF TypeOK, GoodRuns, NoRestore, Phases
<1> USE DEF TypeOK, HostOK
<1>1. CASE UNCHANGED host
  BY <1>1 DEF host
<1>2. CASE StartSnapshot(p)
  BY <1>2 DEF StartSnapshot, Phases
<1>3. CASE AwaitSnapshot(p)
  BY <1>3 DEF AwaitSnapshot, Phases
<1>4. CASE UploadBlobs(p)
  <2>1. stage' = stage \/ stage' = [stage EXCEPT ![Cur(p)].blobs = {}]
    BY <1>4 DEF UploadBlobs
  <2>2. Cur(p) \in Apps
    BY <1>0, <1>4 DEF GoodRuns, RunOK, UploadBlobs, At, AppPcs, Cur
  <2>3. stage' \in [Apps -> Data]
    <3>1. CASE stage' = stage
      BY <3>1
    <3>2. CASE stage' = [stage EXCEPT ![Cur(p)].blobs = {}]
      <4>1. {} \in SUBSET Blobs /\ stage \in [Apps -> Data]
        OBVIOUS
      <4>2. QED
        BY <2>2, <3>2, <4>1, DataWith
    <3>3. QED
      BY <2>1, <3>1, <3>2
  <2>4. QED
    BY <1>4, <2>3 DEF UploadBlobs
<1>5. CASE UploadTar(p)
  BY <1>5, EmptyType DEF UploadTar
<1>6. CASE StopForRestore(p)
  BY <1>6 DEF StopForRestore, Halted
<1>7. CASE StartRestore(p)
  <2>1. [phase |-> "dbs", data |-> run[p].data] \in [phase : Phases, data : Data]
    BY <1>0 DEF Runs, Phases
  <2>2. rest' \in [Apps -> [phase : Phases, data : Data]]
    BY <1>0, <1>7, <2>1 DEF StartRestore, Removed
  <2>3. QED
    BY <1>7, <2>2 DEF StartRestore
<1>8. CASE AwaitRestore(p)
  BY <1>0, <1>8 DEF AwaitRestore, Removed
<1>9. CASE BootRestored(p)
  BY <1>9 DEF BootRestored
<1>10. QED
  BY <1>1, <1>2, <1>3, <1>4, <1>5, <1>6, <1>7, <1>8, <1>9, Frame DEF ChangesHost

\* The steps outside of the tasks.
AppStep(a) == Snapshot(a) \/ Apply(a) \/ AppWrites(a) \/ Operate(a)

LEMMA NextSplits ==
    ASSUME [Next]_vars
    PROVE  \/ Crash \/ Disaster \/ NextDay \/ Configure \/ UNCHANGED vars
           \/ \E p \in Tasks : TaskStep(p)
           \/ \E a \in Apps : AppStep(a)
BY DEF Next, TaskStep, AppStep, Tasks

LEMMA AppType == ASSUME TypeOK, NEW a \in Apps, AppStep(a) PROVE TypeOK'
<1> USE DEF TypeOK, HostOK
<1>0. faults' \in Nat /\ HostOK' => TypeOK'
  BY DEF AppStep, Snapshot, Apply, AppWrites, Operate, DbOK, S3OK, db, s3
<1>1. faults' \in Nat
  BY Counts DEF AppStep, Snapshot, Apply, AppWrites, Operate, FaultKinds
<1>2. CASE Snapshot(a)
  <2>1. snap' \in [Apps -> Phases]
    BY <1>2 DEF Snapshot, Phases
  <2>2. stage' \in [Apps -> Data]
    <3>1. CASE \E S \in SUBSET Blobs : stage' = [stage EXCEPT ![a].blobs = S]
      BY <3>1, DataWith
    <3>2. CASE stage' = [stage EXCEPT ![a] = [refs |-> vol[a].refs, blobs |-> {}]]
      <4>1. [refs |-> vol[a].refs, blobs |-> {}] \in Data
        BY DataParts DEF Data
      <4>2. QED
        BY <3>2, <4>1
    <3>3. vol[a].blobs \in SUBSET Blobs
      BY DataParts
    <3>4. QED
      BY <1>2, <3>1, <3>2, <3>3 DEF Snapshot
  <2>3. QED
    BY <1>0, <1>1, <1>2, <2>1, <2>2 DEF Snapshot
<1>3. CASE Apply(a)
  <2>1. vol' \in [Apps -> Data]
    <3>1. rest[a].data.refs \in SUBSET Blobs /\ rest[a].data.blobs \in SUBSET Blobs
      BY DEF Data
    <3>2. vol[a].blobs \in SUBSET Blobs
      BY DataParts
    <3>3. vol' = vol \/ vol' = [vol EXCEPT ![a].refs = rest[a].data.refs]
          \/ vol' = [vol EXCEPT ![a].blobs = vol[a].blobs \cup rest[a].data.blobs]
      BY <1>3 DEF Apply
    <3>4. vol[a].blobs \cup rest[a].data.blobs \in SUBSET Blobs
      BY <3>1, <3>2
    <3>5. CASE vol' = [vol EXCEPT ![a].refs = rest[a].data.refs]
      BY <3>1, <3>5, DataWith
    <3>6. CASE vol' = [vol EXCEPT ![a].blobs = vol[a].blobs \cup rest[a].data.blobs]
      BY <3>4, <3>6, DataWith
    <3>7. QED
      BY <3>3, <3>5, <3>6
  <2>2. rest' \in [Apps -> [phase : Phases, data : Data]]
    BY <1>3 DEF Apply, Phases
  <2>3. QED
    BY <1>0, <1>1, <1>3, <2>1, <2>2 DEF Apply
<1>4. CASE AppWrites(a)
  <2>1. vol' \in [Apps -> Data]
    <3>1. vol[a].refs \in SUBSET Blobs /\ vol[a].blobs \in SUBSET Blobs
      BY DataParts
    <3>2. PICK b \in Blobs : \/ vol' = [vol EXCEPT ![a].blobs = vol[a].blobs \cup {b}]
                             \/ vol' = [vol EXCEPT ![a].refs = vol[a].refs \cup {b}]
      BY <1>4 DEF AppWrites
    <3>3. vol[a].blobs \cup {b} \in SUBSET Blobs /\ vol[a].refs \cup {b} \in SUBSET Blobs
      BY <3>1
    <3>4. CASE vol' = [vol EXCEPT ![a].blobs = vol[a].blobs \cup {b}]
      BY <3>3, <3>4, DataWith
    <3>5. CASE vol' = [vol EXCEPT ![a].refs = vol[a].refs \cup {b}]
      BY <3>3, <3>5, DataWith
    <3>6. QED
      BY <3>2, <3>4, <3>5
  <2>2. QED
    BY <1>0, <1>1, <1>4, <2>1 DEF AppWrites
<1>5. CASE Operate(a)
  <2>1. up' \in [Apps -> {"up", "down", "starting"}]
    BY <1>5 DEF Operate
  <2>2. QED
    BY <1>0, <1>1, <1>5, <2>1 DEF Operate
<1>6. QED
  BY <1>2, <1>3, <1>4, <1>5 DEF AppStep

LEMMA StepType == TypeOK /\ [Next]_vars => TypeOK'
<1> SUFFICES ASSUME TypeOK, [Next]_vars PROVE TypeOK'
  OBVIOUS
<1>1. CASE Crash
  <2>1. run' \in [Tasks -> GoodRuns] /\ lock' = None
    BY <1>1, NoRunType DEF Crash
  <2>2. faults' \in Nat
    BY <1>1 DEF Crash, Fault, TypeOK
  <2>3. QED
    BY <1>1, <2>1, <2>2 DEF Crash, TypeOK, DbOK, S3OK, HostOK, db, s3, host
<1>2. CASE Disaster
  <2>1. run' \in [Tasks -> GoodRuns] /\ lock' = None
    BY <1>2, NoRunType DEF Disaster
  <2>2. faults' \in Nat
    BY <1>2 DEF Disaster, Fault, TypeOK
  <2>3. DbOK'
    <3>1. 0 \in 0..MaxDay /\ {} \in SUBSET (Prefixes \X Days) /\ {} \in SUBSET Apps
      BY BoundsAssumption
    <3>2. rows' = {} /\ catalog' = {} /\ marker' = 0 /\ configured' = FALSE
      BY <1>2 DEF Disaster
    <3>3. QED
      BY <3>1, <3>2 DEF DbOK
  <2>4. HostOK'
    <3>1. NoRestore \in [phase : Phases, data : Data]
      BY EmptyType DEF NoRestore, Phases
    <3>2. QED
      BY <1>2, <3>1, EmptyType DEF Disaster, HostOK, Phases
  <2>5. QED
    BY <1>2, <2>1, <2>2, <2>3, <2>4 DEF Disaster, TypeOK, S3OK, s3
<1>3. CASE NextDay
  <2>1. day' \in Days
    BY <1>3, BoundsAssumption DEF NextDay, TypeOK, Days
  <2>2. QED
    BY <1>3, <2>1 DEF NextDay, Ok, TypeOK, DbOK, S3OK, HostOK, db, s3, host
<1>4. CASE Configure
  BY <1>4 DEF Configure, Ok, TypeOK, DbOK, S3OK, HostOK, s3, host
<1>5. CASE UNCHANGED vars
  BY <1>5 DEF vars, TypeOK, DbOK, S3OK, HostOK, db, s3, host
<1>6. ASSUME NEW p \in Tasks, TaskStep(p) PROVE TypeOK'
  <2>1. DbOK' /\ S3OK' /\ HostOK' /\ faults' \in Nat /\ day' \in Days
    BY <1>6, DbType, S3Type, HostType, FaultsType, Frame DEF TypeOK
  <2>2. lock' \in Tasks \cup {None} /\ run' \in [Tasks -> GoodRuns]
    BY <1>6, LockMoves, TaskRuns DEF TypeOK, OwnRun
  <2>3. QED
    BY <2>1, <2>2 DEF TypeOK
<1>7. QED
  BY <1>1, <1>2, <1>3, <1>4, <1>5, <1>6, AppType, NextSplits

\* Every value is of its type and every task's record fits the step it is at.
THEOREM TypeCorrect == Spec => []TypeOK
BY InitType, StepType, PTL DEF Spec

LEMMA NoRunIdle == NoRun.pc = "idle" /\ "idle" \notin Holding /\ NoRun.pc \notin Holding
BY DEF NoRun, Holding, BackupPcs, PrunePcs, AppPcs

LEMMA InitLock == Init => HoldersLock
BY NoRunIdle DEF Init, HoldersLock

LEMMA StepLock == TypeOK /\ HoldersLock /\ [Next]_vars => HoldersLock'
<1> SUFFICES ASSUME TypeOK, HoldersLock, [Next]_vars PROVE HoldersLock'
  OBVIOUS
<1>1. CASE Crash \/ Disaster
  BY <1>1, NoRunIdle DEF Crash, Disaster, HoldersLock
<1>2. CASE UNCHANGED <<run, lock>>
  BY <1>2 DEF HoldersLock
<1>3. ASSUME NEW p \in Tasks, TaskStep(p) PROVE HoldersLock'
  <2>1. \A q \in Tasks : q # p => run'[q] = run[q]
    BY <1>3, TaskRuns DEF OwnRun
  <2>2. None \notin Tasks
    BY NamesAssumption DEF Tasks
  <2>3. EndRun(p) => run[p].pc \in Holding
    BY DEF EndRun, At, Holding
  <2>4. QED
    BY <1>3, <2>1, <2>2, <2>3, LockMoves DEF HoldersLock
<1>4. QED
  BY <1>1, <1>2, <1>3, NextSplits
  DEF NextDay, Configure, AppStep, Snapshot, Apply, AppWrites, Operate, vars

-----------------------------------------------------------------------------
(* Where a task goes *)

LEMMA Records == ASSUME TypeOK
                 PROVE  /\ run \in [Tasks -> Runs]
                        /\ \A p \in Tasks : RunOK(run[p]) /\ run[p].doomed \in SUBSET Days
BY DEF TypeOK, GoodRuns, Runs

LEMMA Where ==
    ASSUME TypeOK, NEW p \in Tasks
    PROVE  /\ \A pc : Goto(p, pc) => /\ run'[p].pc = pc /\ run'[p].cur = run[p].cur
                                     /\ run'[p].doomed = run[p].doomed
                                     /\ run'[p].date = run[p].date
                                     /\ run'[p].data = run[p].data
           /\ \A ok : Over(p, ok) => run'[p].pc \in {"list", "next"}
           /\ Return(p) => run'[p].pc = "idle"
<1>0. run \in [Tasks -> Runs]
  BY Records
<1>1. ASSUME NEW pc, Goto(p, pc)
      PROVE  /\ run'[p].pc = pc /\ run'[p].cur = run[p].cur /\ run'[p].doomed = run[p].doomed
             /\ run'[p].date = run[p].date /\ run'[p].data = run[p].data
  BY <1>0, <1>1 DEF Goto, Runs
<1>2. ASSUME NEW ok, Over(p, ok) PROVE run'[p].pc \in {"list", "next"}
  <2> DEFINE pc == IF Cur(p) = State THEN "list" ELSE "next"
             r == [run[p] EXCEPT !.pc = pc, !.cur = None, !.doomed = {}, !.data = Empty,
                                 !.failed = @ \/ ~ok]
  <2>1. run' = [run EXCEPT ![p] = r]
    BY <1>2 DEF Over
  <2>2. run'[p] = r
    BY <1>0, <2>1
  <2>3. r.pc = pc
    BY <1>0 DEF Runs
  <2>4. pc \in {"list", "next"}
    OBVIOUS
  <2>5. QED
    BY <2>2, <2>3, <2>4
<1>3. ASSUME Return(p) PROVE run'[p].pc = "idle"
  BY <1>0, <1>3 DEF Return, NoRun
<1>4. QED
  BY <1>1, <1>2, <1>3

LEMMA Arrives ==
    ASSUME TypeOK, NEW p \in Tasks, TaskStep(p)
    PROVE  /\ run'[p].pc = "record" => BackupState(p) \/ UploadTar(p)
           /\ run'[p].pc = "pruneS3" => PruneList(p) \/ (PruneObject(p) /\ UNCHANGED run)
           /\ run'[p].pc = "pruneRows" => PruneObject(p)
           /\ run'[p].pc = "snapWait" => StartSnapshot(p)
           /\ run'[p].pc = "blobs" => AwaitSnapshot(p) \/ (UploadBlobs(p) /\ UNCHANGED run)
           /\ run'[p].pc = "tar" => UploadBlobs(p)
           /\ run'[p].pc = "replace" => StageRestore(p)
           /\ run'[p].pc = "apply" => StopForRestore(p)
           /\ run'[p].pc = "restWait" => StartRestore(p)
<1>0. run \in [Tasks -> Runs] /\ run[p].pc \in Pcs
  BY Records DEF Runs
<1>1. CASE (p = Sched /\ Tick) \/ Request(p)
  <2>1. run'[p].pc = "lock"
    BY <1>0, <1>1 DEF Tick, Request, NoRun
  <2>2. QED
    BY <2>1
<1>2. CASE Return(p) \/ \E ok : Over(p, ok)
  <2>1. run'[p].pc \in {"idle", "list", "next"}
    BY <1>2, Where
  <2>2. QED
    BY <2>1
<1>3. CASE Cancel(p) \/ MarkDay(p) \/ PruneRows(p) \/ BootRestored(p)
  BY <1>2, <1>3 DEF Cancel, MarkDay, PruneRows, BootRestored
<1>4. CASE TakeLock(p)
  <2>1. CASE ~Return(p)
    <3>1. run'[p].pc \in {"merge", "state"}
      <4> DEFINE pc == IF Restoring(p) THEN "merge" ELSE "state"
                 sn == [a \in Apps |-> IF Restoring(p) THEN {} ELSE vol[a].refs]
                 r == [run[p] EXCEPT !.pc = pc, !.date = IF Restoring(p) THEN 0 ELSE day,
                                     !.seen = sn]
      <4>1. run' = [run EXCEPT ![p] = r]
        BY <1>4, <2>1 DEF TakeLock
      <4>2. run'[p] = r
        BY <1>0, <4>1
      <4> HIDE DEF sn
      <4>3. r.pc = pc
        BY <1>0 DEF Runs
      <4>4. QED
        BY <4>2, <4>3
    <3>2. QED
      BY <3>1
  <2>2. QED
    BY <1>2, <2>1
<1>5. CASE BackupState(p)
  <2>1. run'[p].pc \in {"record", "list"}
    BY <1>0, <1>5 DEF BackupState, Runs
  <2>2. QED
    BY <1>5, <2>1
<1>6. CASE RecordUpload(p)
  <2>1. run'[p].pc = "prune"
    BY <1>6, Where DEF RecordUpload
  <2>2. QED
    BY <2>1
<1>7. CASE PruneList(p)
  <2>1. (\E ok : Over(p, ok)) \/ run'[p].pc = "pruneS3"
    <3>1. CASE \E d : run' = [run EXCEPT ![p].pc = "pruneS3", ![p].doomed = d]
      BY <1>0, <3>1 DEF Runs
    <3>2. QED
      BY <1>7, <3>1 DEF PruneList
  <2>2. QED
    BY <1>2, <1>7, <2>1
<1>8. CASE PruneObject(p)
  <2>1. (\E ok : Over(p, ok)) \/ UNCHANGED run \/ run'[p].pc = "pruneRows"
    BY <1>8, Where DEF PruneObject
  <2>2. run[p].pc = "pruneS3"
    BY <1>8 DEF PruneObject, At
  <2>3. QED
    BY <1>2, <1>8, <2>1, <2>2
<1>9. CASE ListApps(p)
  <2>1. Return(p) \/ run'[p].pc = "next"
    BY <1>0, <1>9 DEF ListApps, Runs
  <2>2. QED
    BY <1>2, <2>1
<1>10. CASE NextApp(p)
  <2>1. run'[p].pc \in {"stage", "snap"}
    <3>1. PICK a \in run[p].todo :
           run' = [run EXCEPT ![p].pc = IF Restoring(p) THEN "stage" ELSE "snap",
                              ![p].cur = a, ![p].todo = @ \ {a}]
      BY <1>10 DEF NextApp
    <3> DEFINE pc == IF Restoring(p) THEN "stage" ELSE "snap"
               r == [run[p] EXCEPT !.pc = pc, !.cur = a, !.todo = @ \ {a}]
    <3>2. run'[p] = r
      BY <1>0, <3>1
    <3>3. r.pc = pc
      BY <1>0 DEF Runs
    <3>4. QED
      BY <3>2, <3>3
  <2>2. QED
    BY <2>1
<1>11. CASE EndRun(p)
  <2>1. Return(p) \/ run'[p].pc = "mark"
    BY <1>11, Where DEF EndRun
  <2>2. QED
    BY <1>2, <2>1
<1>12. CASE StartSnapshot(p)
  <2>1. (\E ok : Over(p, ok)) \/ run'[p].pc = "snapWait"
    BY <1>12, Where DEF StartSnapshot
  <2>2. QED
    BY <1>2, <1>12, <2>1
<1>13. CASE AwaitSnapshot(p)
  <2>1. (\E ok : Over(p, ok)) \/ run'[p].pc = "blobs"
    BY <1>13, Where DEF AwaitSnapshot
  <2>2. QED
    BY <1>2, <1>13, <2>1
<1>14. CASE UploadBlobs(p)
  <2>1. (\E ok : Over(p, ok)) \/ UNCHANGED run \/ run'[p].pc = "tar"
    BY <1>14, Where DEF UploadBlobs
  <2>2. run[p].pc = "blobs"
    BY <1>14 DEF UploadBlobs, At
  <2>3. QED
    BY <1>2, <1>14, <2>1, <2>2
<1>15. CASE UploadTar(p)
  <2>1. (\E ok : Over(p, ok)) \/ run'[p].pc = "record"
    BY <1>15, Where DEF UploadTar
  <2>2. QED
    BY <1>2, <1>15, <2>1
<1>16. CASE MergeState(p)
  <2>1. Return(p) \/ run'[p].pc = "list"
    BY <1>16, Where DEF MergeState
  <2>2. QED
    BY <1>2, <2>1
<1>17. CASE StageRestore(p)
  <2>1. (\E ok : Over(p, ok)) \/ run'[p].pc = "replace"
    <3>1. CASE \E d : run' = [run EXCEPT ![p].pc = "replace", ![p].data = d]
      BY <1>0, <3>1 DEF Runs
    <3>2. QED
      BY <1>17, <3>1 DEF StageRestore
  <2>2. QED
    BY <1>2, <1>17, <2>1
<1>18. CASE StopForRestore(p)
  <2>1. (\E ok : Over(p, ok)) \/ run'[p].pc = "apply"
    BY <1>18, Where DEF StopForRestore
  <2>2. QED
    BY <1>2, <1>18, <2>1
<1>19. CASE StartRestore(p)
  <2>1. (\E ok : Over(p, ok)) \/ run'[p].pc = "restWait"
    BY <1>19, Where DEF StartRestore
  <2>2. QED
    BY <1>2, <1>19, <2>1
<1>20. CASE AwaitRestore(p)
  <2>1. (\E ok : Over(p, ok)) \/ run'[p].pc = "boot"
    BY <1>20, Where DEF AwaitRestore
  <2>2. QED
    BY <1>2, <2>1
<1>21. QED
  BY <1>1, <1>3, <1>4, <1>5, <1>6, <1>7, <1>8, <1>9, <1>10, <1>11, <1>12, <1>13, <1>14, <1>15,
     <1>16, <1>17, <1>18, <1>19, <1>20
  DEF TaskStep, Step

\* Who can act on a watched step.
LEMMA Leaves ==
    ASSUME NEW p \in Tasks, TaskStep(p)
    PROVE  /\ run[p].pc = "record" => RecordUpload(p) \/ Cancel(p)
           /\ run[p].pc = "snapWait" => AwaitSnapshot(p) \/ Cancel(p)
           /\ run[p].pc = "restWait" => AwaitRestore(p) \/ Cancel(p)
BY DEF TaskStep, Step, At, Tick, Request, TakeLock, BackupState, RecordUpload, PruneList,
   PruneObject, PruneRows, ListApps, NextApp, EndRun, MarkDay, StartSnapshot, AwaitSnapshot,
   UploadBlobs, UploadTar, MergeState, StageRestore, StopForRestore, StartRestore, AwaitRestore,
   BootRestored

LEMMA Workers ==
    ASSUME NEW p \in Tasks, ChangesS3(p) \/ ChangesHost(p) \/ RecordUpload(p) \/ PruneRows(p)
    PROVE  run[p].pc \in Holding
BY DEF ChangesS3, ChangesHost, At, BackupState, RecordUpload, PruneObject, PruneRows,
   StartSnapshot, AwaitSnapshot, UploadBlobs, UploadTar, StopForRestore, StartRestore,
   AwaitRestore, BootRestored, Holding, BackupPcs, PrunePcs, AppPcs

\* While a task works under the lock no other one changes what it works on.
LEMMA Undisturbed ==
    ASSUME TypeOK, HoldersLock, NEW p \in Tasks, TaskStep(p), NEW q \in Tasks, q # p,
           run'[q].pc \in Holding
    PROVE  run'[q] = run[q] /\ UNCHANGED s3 /\ UNCHANGED host /\ UNCHANGED catalog
<1>1. run'[q] = run[q]
  BY TaskRuns DEF OwnRun
<1>2. lock = q
  BY <1>1 DEF HoldersLock
<1>3. run[p].pc \notin Holding
  BY <1>2 DEF HoldersLock
<1>4. UNCHANGED s3 /\ UNCHANGED host /\ (UNCHANGED db \/ MergeState(p) \/ MarkDay(p))
  BY <1>3, Workers, Frame DEF ChangesDb
<1>5. UNCHANGED catalog
  BY <1>4 DEF db, MergeState, MarkDay
<1>6. QED
  BY <1>1, <1>4, <1>5

\* At the start and after a crash nobody is at a watched step.
LEMMA Stopped == ASSUME NEW p \in Tasks, run = [q \in Tasks |-> NoRun]
                 PROVE  At(p, "idle")
BY DEF At, NoRun

-----------------------------------------------------------------------------
(* The newest backup survives *)

LEMMA KeysAre ==
    /\ Keys(State) = {d \in Days : states[d] # None}
    /\ \A a \in Apps : Keys(a) = {d \in Days : tars[a][d] # None}
    /\ \A x : Keys(x) \subseteq Days
BY NamesAssumption DEF Keys

LEMMA SameKeys == ASSUME UNCHANGED s3 PROVE \A x : Keys(x)' = Keys(x)
BY DEF s3, Keys

\* The key that is newest is not to be pruned, so all to be pruned are older.
LEMMA DoomedAreOlder ==
    ASSUME NEW K, K \subseteq Days
    PROVE  \A d \in KeysToPrune(K) : \E e \in K : e \notin KeysToPrune(K) /\ d < e
<1> SUFFICES ASSUME NEW d \in KeysToPrune(K)
             PROVE  \E e \in K : e \notin KeysToPrune(K) /\ d < e
  OBVIOUS
<1>1. d \in K
  BY DEF KeysToPrune
<1>2. PICK m \in K : \A e \in K : e <= m
  BY <1>1, LatestDay
<1>3. {e \in K : e > m} = {}
  <2>1. ASSUME NEW e \in K PROVE ~(e > m)
    <3>1. e \in Int /\ m \in Int /\ e <= m
      BY <1>2 DEF Days
    <3>2. QED
      BY <3>1
  <2>2. QED
    BY <2>1
<1>4. Cardinality({e \in K : e > m}) = 0
  BY <1>3, FS_EmptySet
<1>5. m \notin KeysToPrune(K)
  BY <1>4, BoundsAssumption DEF KeysToPrune
<1>6. d < m
  BY <1>1, <1>2, <1>5 DEF Days
<1>7. QED
  BY <1>5, <1>6

LEMMA InitPrune == Init => PruneInv
BY Stopped DEF Init, PruneInv, At

LEMMA StepPrune == TypeOK /\ HoldersLock /\ PruneInv /\ [Next]_vars => PruneInv'
<1> SUFFICES ASSUME TypeOK, HoldersLock, PruneInv, [Next]_vars PROVE PruneInv'
  OBVIOUS
<1>1. CASE Crash \/ Disaster
  <2>1. \A p \in Tasks : run'[p].pc = "idle"
    BY <1>1 DEF Crash, Disaster, NoRun
  <2>2. QED
    BY <2>1 DEF PruneInv, At
<1>2. CASE UNCHANGED <<run, s3>>
  BY <1>2, SameKeys DEF PruneInv, At, Cur
<1>3. ASSUME NEW p \in Tasks, TaskStep(p) PROVE PruneInv'
  <2> SUFFICES ASSUME NEW q \in Tasks
               PROVE  /\ run'[q].pc = "pruneS3" => \A d \in run'[q].doomed :
                           \E e \in Keys(run[q].cur)' : e \notin run'[q].doomed /\ d < e
                      /\ run'[q].pc = "pruneRows" => run'[q].doomed \cap Keys(run[q].cur)' = {}
                      /\ run'[q].pc \in {"pruneS3", "pruneRows"} => run'[q].cur = run[q].cur
    BY DEF PruneInv, At, Cur
  <2>1. CASE q # p
    BY <1>3, <2>1, Undisturbed, SameKeys DEF PruneInv, At, Cur, Holding, PrunePcs
  <2>2. CASE q = p /\ run'[p].pc = "pruneS3" /\ PruneList(p)
    <3> DEFINE K == Keys(Cur(p))
    <3>1. ~\E ok : Over(p, ok)
      BY <2>2, Where
    <3>2. run' = [run EXCEPT ![p].pc = "pruneS3", ![p].doomed = KeysToPrune(K)]
      BY <2>2, <3>1 DEF PruneList
    <3>3. run'[p].doomed = KeysToPrune(K) /\ run'[p].cur = run[p].cur
      BY <3>2, Records DEF Runs
    <3>4. Keys(run[p].cur)' = K
      BY <2>2, <3>3, SameKeys DEF PruneList, Cur
    <3>5. QED
      BY <2>2, <3>3, <3>4, DoomedAreOlder, KeysAre
  <2>3. CASE q = p /\ PruneObject(p)
    <3>0. run[p].pc = "pruneS3" /\ run[p].cur \in Prefixes
      BY <2>3, Records DEF PruneObject, At, RunOK, PrunePcs
    <3>1. CASE UNCHANGED run
      <4>1. \A e \in Keys(Cur(p)) : e \notin run[p].doomed => e \in Keys(Cur(p))'
        <5>1. CASE UNCHANGED s3
          BY <5>1, SameKeys, <3>1 DEF Cur
        <5>2. CASE ~UNCHANGED s3
          <6>1. PICK d \in run[p].doomed :
                  IF Cur(p) = State
                  THEN states' = [states EXCEPT ![d] = None] /\ UNCHANGED tars
                  ELSE tars' = [tars EXCEPT ![Cur(p)][d] = None] /\ UNCHANGED states
            BY <2>3, <5>2 DEF PruneObject, s3
          <6>2. QED
            BY <3>0, <3>1, <6>1, KeysAre DEF Cur, Prefixes, TypeOK, S3OK, Keys
        <5>3. QED
          BY <5>1, <5>2
      <4>2. QED
        BY <2>3, <3>0, <3>1, <4>1 DEF PruneInv, At, Cur
    <3>2. CASE ~UNCHANGED run /\ run'[p].pc = "pruneRows"
      <4>1. ~\E ok : Over(p, ok)
        BY <3>2, Where
      <4>2. run[p].doomed \cap Keys(Cur(p)) = {} /\ Goto(p, "pruneRows") /\ UNCHANGED s3
        BY <2>3, <3>2, <4>1 DEF PruneObject, s3
      <4>3. run'[p].doomed = run[p].doomed /\ run'[p].cur = run[p].cur
        BY <4>2, Where
      <4>4. QED
        BY <2>3, <3>2, <4>2, <4>3, SameKeys DEF Cur
    <3>3. CASE ~UNCHANGED run /\ run'[p].pc # "pruneRows"
      <4>1. \E ok : Over(p, ok)
        BY <2>3, <3>3, Where DEF PruneObject
      <4>2. run'[p].pc \in {"list", "next"}
        BY <4>1, Where
      <4>3. QED
        BY <2>3, <4>2
    <3>4. QED
      BY <3>1, <3>2, <3>3
  <2>4. QED
    BY <1>3, <2>1, <2>2, <2>3, Arrives
<1>4. QED
  BY <1>1, <1>2, <1>3, NextSplits
  DEF NextDay, Configure, AppStep, Snapshot, Apply, AppWrites, Operate, vars, s3

Survives(x) ==
    Keys(x) # {} => Keys(x)' # {} /\ \E d \in Keys(x)' : \A e \in Keys(x) : e <= d

LEMMA MoreKeysSurvive == ASSUME NEW x, Keys(x) \subseteq Keys(x)' PROVE Survives(x)
<1> SUFFICES ASSUME Keys(x) # {}
             PROVE  \E d \in Keys(x)' : \A e \in Keys(x) : e <= d
  BY DEF Survives
<1>1. PICK d \in Keys(x) : \A e \in Keys(x) : e <= d
  BY KeysAre, LatestDay
<1>2. QED
  BY <1>1

LEMMA StepSurvives ==
    ASSUME TypeOK, PruneInv, [Next]_vars PROVE \A x \in Prefixes : Survives(x)
<1>1. CASE UNCHANGED s3
  BY <1>1, SameKeys, MoreKeysSurvive
<1>2. ASSUME NEW p \in Tasks, ChangesS3(p), NEW x \in Prefixes PROVE Survives(x)
  <2>0. RunOK(run[p]) /\ run[p].doomed \in SUBSET Days
    BY Records
  <2>1. CASE BackupState(p)
    <3>1. rows # None /\ UNCHANGED tars
      BY <2>1, NamesAssumption DEF TypeOK, DbOK, BackupState
    <3>2. \A d \in Days : states[d] # None => states'[d] # None
      BY <2>1, <3>1 DEF BackupState, TypeOK, S3OK
    <3>3. Keys(x) \subseteq Keys(x)'
      BY <3>1, <3>2 DEF Keys
    <3>4. QED
      BY <3>3, MoreKeysSurvive
  <2>2. CASE UploadBlobs(p)
    <3>1. Keys(x)' = Keys(x)
      BY <2>2 DEF UploadBlobs, Keys
    <3>2. QED
      BY <3>1, MoreKeysSurvive
  <2>3. CASE UploadTar(p)
    <3>1. Cur(p) \in Apps
      BY <2>0, <2>3 DEF RunOK, UploadTar, At, AppPcs, Cur
    <3>2. stage[Cur(p)].refs # None
      BY <3>1, DataParts, NamesAssumption DEF TypeOK, HostOK
    <3>3. \A a \in Apps, d \in Days : tars[a][d] # None => tars'[a][d] # None
      <4>1. CASE UNCHANGED tars
        BY <4>1
      <4>2. CASE tars' = [tars EXCEPT ![Cur(p)][run[p].date] = stage[Cur(p)].refs]
        BY <3>1, <3>2, <4>2 DEF TypeOK, S3OK
      <4>3. QED
        BY <2>3, <4>1, <4>2 DEF UploadTar
    <3>4. UNCHANGED states
      BY <2>3 DEF UploadTar
    <3>5. Keys(x) \subseteq Keys(x)'
      BY <3>3, <3>4 DEF Keys, Prefixes
    <3>6. QED
      BY <3>5, MoreKeysSurvive
  <2>4. CASE PruneObject(p)
    <3>1. CASE UNCHANGED s3
      BY <3>1, SameKeys, MoreKeysSurvive
    <3>2. CASE ~UNCHANGED s3
      <4>0. run[p].pc = "pruneS3" /\ Cur(p) \in Prefixes
        BY <2>0, <2>4 DEF PruneObject, At, RunOK, PrunePcs, Cur
      <4>1. PICK d \in run[p].doomed :
              IF Cur(p) = State
              THEN states' = [states EXCEPT ![d] = None] /\ UNCHANGED tars
              ELSE tars' = [tars EXCEPT ![Cur(p)][d] = None] /\ UNCHANGED states
        BY <2>4, <3>2 DEF PruneObject, s3
      <4>2. CASE x # Cur(p)
        <5>1. Keys(x)' = Keys(x)
          BY <4>0, <4>1, <4>2, KeysAre DEF Prefixes, TypeOK, S3OK, Keys
        <5>2. QED
          BY <5>1, MoreKeysSurvive
      <4>3. CASE x = Cur(p)
        <5>1. \A e \in Keys(x) : e # d => e \in Keys(x)'
          BY <4>0, <4>1, <4>3, KeysAre DEF Prefixes, TypeOK, S3OK, Keys
        <5>2. ASSUME Keys(x) # {}
              PROVE  \E m \in Keys(x)' : \A e \in Keys(x) : e <= m
          <6>1. PICK m \in Keys(x) : \A e \in Keys(x) : e <= m
            BY <5>2, KeysAre, LatestDay
          <6>2. m # d
            <7>1. PICK e \in Keys(x) : d < e
              BY <4>0, <4>1, <4>3 DEF PruneInv, At
            <7>2. e <= m /\ d \in Days /\ e \in Days /\ m \in Days
              BY <2>0, <6>1, KeysAre
            <7>3. QED
              BY <7>1, <7>2 DEF Days
          <6>3. QED
            BY <5>1, <6>1, <6>2
        <5>3. QED
          BY <5>2 DEF Survives
      <4>4. QED
        BY <4>2, <4>3
    <3>3. QED
      BY <3>1, <3>2
  <2>5. QED
    BY <1>2, <2>1, <2>2, <2>3, <2>4 DEF ChangesS3
<1>3. QED
  <2>1. UNCHANGED s3 \/ \E p \in Tasks : ChangesS3(p)
    BY NextSplits, Frame
    DEF NextDay, Configure, Crash, Disaster, AppStep, Snapshot, Apply, AppWrites, Operate, vars, s3
  <2>2. QED
    BY <1>1, <1>2, <2>1

(* The newest backup of an app and of the state database never goes away and   *)
(* is never replaced by an older one: with any retention, number of apps and   *)
(* requests, and whatever fails, is dropped or crashes, the loss of the node   *)
(* included.                                                                   *)
THEOREM NewestBackupSurvives == Spec => NewestSurvives
<1>1. TypeOK /\ PruneInv /\ [Next]_vars => [\A x \in Prefixes : Survives(x)]_s3
  BY StepSurvives
<1>2. QED
  BY <1>1, InitType, StepType, InitLock, StepLock, InitPrune, StepPrune, PTL
  DEF Spec, NewestSurvives, Survives

-----------------------------------------------------------------------------
(* One operation on the volumes at a time *)

LEMMA InitMount == Init => MountInv
BY DEF Init, MountInv, Mounted, NoRestore

\* A volume is mounted for the task that waits, or it was mounted for another one.
LEMMA MountMoves ==
    ASSUME MountInv, NEW p \in Tasks, \A q \in Tasks : q # p => run'[q] = run[q],
           \A b \in Apps : Mounted(snap'[b]) =>
               \/ run'[p].pc = "snapWait" /\ run'[p].cur = b
               \/ Mounted(snap[b]) /\ ~(run[p].pc = "snapWait" /\ run[p].cur = b),
           \A b \in Apps : Mounted(rest'[b].phase) =>
               \/ run'[p].pc = "restWait" /\ run'[p].cur = b
               \/ Mounted(rest[b].phase) /\ ~(run[p].pc = "restWait" /\ run[p].cur = b)
    PROVE  MountInv'
BY DEF MountInv, At, Cur

LEMMA StepMount ==
    ASSUME {"wait", "crash", "cancel"} \cap Events = {}, TypeOK, HoldersLock, MountInv, [Next]_vars
    PROVE  MountInv'
<1> USE DEF Mounted
<1>1. ~Crash /\ ~Fault("wait") /\ \A p \in Tasks : ~Cancel(p)
  BY DEF Crash, Cancel, Fault
<1>2. CASE Disaster
  BY <1>2 DEF Disaster, MountInv, NoRestore
<1>3. CASE UNCHANGED <<run, snap, rest>>
  BY <1>3 DEF MountInv, At, Cur
<1>4. ASSUME NEW a \in Apps, AppStep(a) PROVE MountInv'
  <2>1. /\ UNCHANGED run
        /\ \A b \in Apps : Mounted(snap'[b]) => Mounted(snap[b])
        /\ \A b \in Apps : Mounted(rest'[b].phase) => Mounted(rest[b].phase)
    BY <1>4 DEF AppStep, Snapshot, Apply, AppWrites, Operate, TypeOK, HostOK, Mounted
  <2>2. QED
    BY <2>1 DEF MountInv, At, Cur
<1>5. ASSUME NEW p \in Tasks, TaskStep(p) PROVE MountInv'
  <2>0. /\ RunOK(run[p]) /\ \A q \in Tasks : q # p => run'[q] = run[q]
        /\ ~Cancel(p)
    BY <1>1, <1>5, Records, TaskRuns DEF OwnRun
  <2>1. CASE run[p].pc \notin {"snapWait", "restWait"} /\ UNCHANGED <<snap, rest>>
    BY <2>0, <2>1 DEF MountInv, At, Cur
  <2>2. CASE StartSnapshot(p)
    <3>1. Cur(p) \in Apps /\ run[p].pc = "snap" /\ UNCHANGED rest
      BY <2>0, <2>2 DEF StartSnapshot, At, RunOK, AppPcs, Cur
    <3>2. CASE snap' \in {snap, [snap EXCEPT ![Cur(p)] = "none"]}
      BY <2>0, <3>1, <3>2, MountMoves DEF Cur, TypeOK, HostOK
    <3>3. CASE snap' = [snap EXCEPT ![Cur(p)] = "dbs"] /\ Goto(p, "snapWait")
      <4>1. run'[p].pc = "snapWait" /\ run'[p].cur = Cur(p)
        BY <3>3, Where DEF Cur
      <4>2. QED
        BY <2>0, <3>1, <3>3, <4>1, MountMoves DEF Cur, TypeOK, HostOK
    <3>4. QED
      BY <2>2, <3>2, <3>3 DEF StartSnapshot
  <2>3. CASE StartRestore(p)
    <3>1. Cur(p) \in Apps /\ run[p].pc = "apply" /\ UNCHANGED snap
      BY <2>0, <2>3 DEF StartRestore, At, RunOK, AppPcs, Cur
    <3>2. CASE rest' \in {rest, Removed(Cur(p))}
      <4>1. \A b \in Apps : Mounted(rest'[b].phase) => Mounted(rest[b].phase)
        BY <3>2 DEF TypeOK, HostOK, NoRestore, Removed
      <4>2. QED
        BY <2>0, <3>1, <4>1, MountMoves DEF Cur
    <3>3. CASE Goto(p, "restWait")
                 /\ rest' = [rest EXCEPT ![Cur(p)] = [phase |-> "dbs", data |-> run[p].data]]
      <4>1. run'[p].pc = "restWait" /\ run'[p].cur = Cur(p)
        BY <3>3, Where DEF Cur
      <4>2. QED
        BY <2>0, <3>1, <3>3, <4>1, MountMoves DEF Cur, TypeOK, HostOK
    <3>4. QED
      BY <2>3, <3>2, <3>3 DEF StartRestore
  <2>4. CASE AwaitSnapshot(p)
    <3>1. Cur(p) \in Apps /\ run[p].pc = "snapWait" /\ UNCHANGED rest /\ ~Fault("wait")
      BY <1>1, <2>0, <2>4 DEF AwaitSnapshot, At, RunOK, AppPcs, Cur
    <3>2. snap' = [snap EXCEPT ![Cur(p)] = "none"] \/ (snap[Cur(p)] = "done" /\ UNCHANGED snap)
      BY <2>4, <3>1 DEF AwaitSnapshot
    <3>3. ~Mounted(snap'[Cur(p)]) /\ \A a \in Apps \ {Cur(p)} : snap'[a] = snap[a]
      BY <3>1, <3>2 DEF TypeOK, HostOK, Mounted
    <3>4. QED
      BY <2>0, <3>1, <3>3, MountMoves DEF Cur
  <2>5. CASE AwaitRestore(p)
    <3>1. Cur(p) \in Apps /\ run[p].pc = "restWait" /\ UNCHANGED snap /\ ~Fault("wait")
      BY <1>1, <2>0, <2>5 DEF AwaitRestore, At, RunOK, AppPcs, Cur
    <3>2. rest' = [rest EXCEPT ![Cur(p)] = NoRestore]
      BY <2>5, <3>1 DEF AwaitRestore, Removed
    <3>3. QED
      BY <2>0, <3>1, <3>2, MountMoves DEF Cur, TypeOK, HostOK, NoRestore
  <2>6. UNCHANGED <<snap, rest>> \/ StartSnapshot(p) \/ StartRestore(p)
          \/ AwaitSnapshot(p) \/ AwaitRestore(p)
    BY <1>5, Frame DEF ChangesHost, host, UploadBlobs, UploadTar, StopForRestore, BootRestored
  <2>7. QED
    BY <1>5, <2>0, <2>1, <2>2, <2>3, <2>4, <2>5, <2>6, Leaves
<1>6. QED
  BY <1>1, <1>2, <1>3, <1>4, <1>5, NextSplits DEF NextDay, Configure, vars, host

LEMMA MountExcludes ==
    ASSUME HoldersLock, MountInv PROVE OneVolumeOperation
<1>1. \A p, q \in Tasks : run[p].pc \in Holding /\ run[q].pc \in Holding => p = q
  BY DEF HoldersLock
<1>2. {"snapWait", "restWait"} \subseteq Holding
  BY DEF Holding, BackupPcs, AppPcs
<1>3. QED
  BY <1>1, <1>2 DEF MountInv, OneVolumeOperation, At, Cur

(* No snapshot runs beside a restore or another snapshot, for any number of    *)
(* requests and apps, as long as no task is dropped, the server stays up and   *)
(* no wait breaks off: a container outlives its task, and a task whose wait    *)
(* and inspection both fail returns and leaves its container at work.          *)
THEOREM VolumesAreExclusive ==
    ASSUME {"wait", "crash", "cancel"} \cap Events = {} PROVE Spec => []OneVolumeOperation
<1>1. Init => HoldersLock /\ MountInv
  BY InitLock, InitMount
<1>2. TypeOK /\ HoldersLock /\ MountInv /\ [Next]_vars => HoldersLock' /\ MountInv'
  BY StepLock, StepMount
<1>3. HoldersLock /\ MountInv => OneVolumeOperation
  BY MountExcludes
<1>4. QED
  BY <1>1, <1>2, <1>3, InitType, StepType, PTL DEF Spec

-----------------------------------------------------------------------------
(* The catalog *)

LEMMA InitCatalog == Init => CatalogInv
BY KeysAre DEF Init, CatalogInv, Prefixes

\* A key is in the catalog, is being recorded by p, or nothing changed for it.
LEMMA CatalogMoves ==
    ASSUME CatalogInv, NEW p \in Tasks, \A q \in Tasks : q # p => run'[q] = run[q],
           \A x \in Prefixes : \A d \in Keys(x)' :
               \/ Cataloged(x, d)' \/ RecordedBy(p, x, d)'
               \/ /\ d \in Keys(x) /\ (Cataloged(x, d) => Cataloged(x, d)')
                  /\ ~RecordedBy(p, x, d)
    PROVE  CatalogInv'
<1> SUFFICES ASSUME NEW x \in Prefixes, NEW d \in Keys(x)',
                    ~Cataloged(x, d)', ~RecordedBy(p, x, d)'
             PROVE  \E q \in Tasks : RecordedBy(q, x, d)'
  BY DEF CatalogInv
<1>1. d \in Keys(x) /\ ~Cataloged(x, d) /\ ~RecordedBy(p, x, d)
  OBVIOUS
<1>2. PICK q \in Tasks : RecordedBy(q, x, d)
  BY <1>1 DEF CatalogInv
<1>3. RecordedBy(q, x, d)'
  BY <1>1, <1>2 DEF RecordedBy
<1>4. QED
  BY <1>3

LEMMA SameCatalog == ASSUME UNCHANGED catalog PROVE \A x, d : Cataloged(x, d)' = Cataloged(x, d)
BY DEF Cataloged

LEMMA StepCatalog ==
    ASSUME {"db", "crash", "cancel", "disaster"} \cap Events = {},
           TypeOK, PruneInv, CatalogInv, [Next]_vars
    PROVE  CatalogInv'
<1>1. ~Crash /\ ~Disaster /\ (\A p \in Tasks : ~Cancel(p)) /\ ~Fault("db")
  BY DEF Crash, Disaster, Cancel, Fault
<1>2. CASE UNCHANGED <<run, catalog, s3>>
  <2>1. \A x, d : Cataloged(x, d)' = Cataloged(x, d)
    BY <1>2, SameCatalog
  <2>2. \A q, x, d : RecordedBy(q, x, d)' = RecordedBy(q, x, d)
    BY <1>2 DEF RecordedBy
  <2>3. QED
    BY <1>2, <2>1, <2>2, SameKeys DEF CatalogInv
<1>3. ASSUME NEW p \in Tasks, TaskStep(p) PROVE CatalogInv'
  <2>0. /\ RunOK(run[p]) /\ \A q \in Tasks : q # p => run'[q] = run[q]
        /\ run \in [Tasks -> Runs]
    BY <1>3, Records, TaskRuns DEF OwnRun
  <2>1. CASE UNCHANGED s3 /\ UNCHANGED catalog /\ run[p].pc # "record"
    BY <2>0, <2>1, SameKeys, SameCatalog, CatalogMoves DEF RecordedBy
  <2>2. CASE RecordUpload(p)
    <3>1. catalog' = catalog \cup {<<run[p].cur, run[p].date>>}
      BY <1>1, <2>2 DEF RecordUpload, Cur
    <3>2. \A x : Keys(x)' = Keys(x)
      BY <2>2, SameKeys DEF RecordUpload
    <3>3. \A x, d : Cataloged(x, d) \/ RecordedBy(p, x, d) => Cataloged(x, d)'
      BY <3>1 DEF Cataloged, RecordedBy
    <3>4. QED
      BY <2>0, <3>2, <3>3, CatalogMoves
  <2>3. CASE BackupState(p)
    <3>1. run[p].pc = "state" /\ UNCHANGED catalog
      BY <2>3 DEF BackupState, At, db
    <3>2. CASE UNCHANGED s3
      BY <2>1, <3>1, <3>2
    <3>3. CASE ~UNCHANGED s3
      <4>1. /\ states' = [states EXCEPT ![run[p].date] = rows] /\ UNCHANGED tars
            /\ run' = [run EXCEPT ![p].pc = "record", ![p].cur = State]
        BY <2>3, <3>3 DEF BackupState, s3
      <4>2. run'[p].pc = "record" /\ run'[p].cur = State /\ run'[p].date = run[p].date
        BY <2>0, <4>1 DEF Runs
      <4>3. \A x \in Prefixes : \A d \in Keys(x)' : d \in Keys(x) \/ (x = State /\ d = run[p].date)
        BY <4>1 DEF Keys, TypeOK, S3OK
      <4>4. QED
        BY <2>0, <3>1, <4>2, <4>3, SameCatalog, CatalogMoves DEF RecordedBy
    <3>4. QED
      BY <3>2, <3>3
  <2>4. CASE UploadTar(p)
    <3>1. run[p].pc = "tar" /\ UNCHANGED catalog /\ UNCHANGED states /\ UNCHANGED blobStore
      BY <2>4 DEF UploadTar, At, db
    <3>2. CASE UNCHANGED tars
      <4>1. UNCHANGED s3
        BY <3>1, <3>2 DEF s3
      <4>2. QED
        BY <2>1, <3>1, <4>1
    <3>3. CASE ~UNCHANGED tars
      <4>1. /\ tars' = [tars EXCEPT ![Cur(p)][run[p].date] = stage[Cur(p)].refs]
            /\ Goto(p, "record")
        BY <2>4, <3>3 DEF UploadTar
      <4>2. run'[p].pc = "record" /\ run'[p].cur = Cur(p) /\ run'[p].date = run[p].date
        BY <4>1, Where DEF Cur
      <4>3. \A x \in Apps, d \in Days :
              tars'[x][d] # tars[x][d] => x = Cur(p) /\ d = run[p].date
        BY <4>1 DEF TypeOK, S3OK
      <4>4. \A x \in Prefixes : \A d \in Keys(x)' : d \in Keys(x) \/ (x = Cur(p) /\ d = run[p].date)
        BY <3>1, <4>3 DEF Keys, Prefixes
      <4>5. QED
        BY <2>0, <3>1, <4>2, <4>4, SameCatalog, CatalogMoves DEF RecordedBy
    <3>4. QED
      BY <3>2, <3>3
  <2>5. CASE UploadBlobs(p)
    <3>1. run[p].pc = "blobs" /\ UNCHANGED catalog /\ UNCHANGED states /\ UNCHANGED tars
      BY <2>5 DEF UploadBlobs, At, db
    <3>2. \A x : Keys(x)' = Keys(x)
      BY <3>1 DEF Keys
    <3>3. QED
      BY <2>0, <3>1, <3>2, SameCatalog, CatalogMoves DEF RecordedBy
  <2>6. CASE PruneObject(p)
    <3>1. run[p].pc = "pruneS3" /\ UNCHANGED catalog
      BY <2>6 DEF PruneObject, At, db
    <3>2. \A x \in Prefixes : Keys(x)' \subseteq Keys(x)
      <4>1. \A d \in Days : states'[d] = states[d] \/ states'[d] = None
        BY <2>6 DEF PruneObject, TypeOK, S3OK
      <4>2. \A x \in Apps, d \in Days : tars'[x][d] = tars[x][d] \/ tars'[x][d] = None
        <5>1. CASE UNCHANGED tars
          BY <5>1
        <5>2. CASE \E d : tars' = [tars EXCEPT ![Cur(p)][d] = None]
          BY <5>2 DEF TypeOK, S3OK
        <5>3. QED
          BY <2>6, <5>1, <5>2 DEF PruneObject
      <4>3. QED
        BY <4>1, <4>2 DEF Keys, Prefixes
    <3>3. QED
      BY <2>0, <3>1, <3>2, SameCatalog, CatalogMoves DEF RecordedBy
  <2>7. CASE PruneRows(p)
    <3>1. run[p].pc = "pruneRows" /\ catalog' = catalog \ ({run[p].cur} \X run[p].doomed)
      BY <1>1, <2>7 DEF PruneRows, At, Cur
    <3>2. \A x : Keys(x)' = Keys(x)
      BY <2>7, SameKeys DEF PruneRows
    <3>3. run[p].doomed \cap Keys(run[p].cur) = {}
      BY <3>1 DEF PruneInv, At, Cur
    <3>4. \A x : \A d \in Keys(x) : Cataloged(x, d) => Cataloged(x, d)'
      BY <3>1, <3>3 DEF Cataloged
    <3>5. \A x, d : ~RecordedBy(p, x, d)
      BY <3>1 DEF RecordedBy
    <3>6. QED
      BY <2>0, <3>2, <3>4, <3>5, CatalogMoves
  <2>8. CASE MergeState(p) \/ MarkDay(p)
    <3>1. UNCHANGED s3 /\ UNCHANGED catalog /\ run[p].pc # "record"
      BY <2>8 DEF MergeState, MarkDay, At
    <3>2. QED
      BY <2>1, <3>1
  <2>9. CASE UNCHANGED s3 /\ UNCHANGED db
    <3>1. run[p].pc = "record" => RecordUpload(p)
      BY <1>1, <1>3, Leaves
    <3>2. QED
      BY <2>1, <2>2, <2>9, <3>1 DEF db
  <2>10. CASE UNCHANGED s3 /\ ChangesDb(p)
    BY <2>2, <2>7, <2>8, <2>10 DEF ChangesDb
  <2>11. QED
    BY <1>3, <2>3, <2>4, <2>5, <2>6, <2>9, <2>10, Frame DEF ChangesS3
<1>4. QED
  BY <1>1, <1>2, <1>3, NextSplits
  DEF NextDay, Configure, AppStep, Snapshot, Apply, AppWrites, Operate, vars, s3, db

(* Between runs the catalog lists all that S3 has, whatever of S3 and of       *)
(* Docker fails, as long as the database's calls do not and no run breaks off. *)
THEOREM CatalogListsAll ==
    ASSUME {"db", "crash", "cancel", "disaster"} \cap Events = {}
    PROVE  Spec => []CatalogComplete
<1>1. Init => HoldersLock /\ PruneInv /\ CatalogInv
  BY InitLock, InitPrune, InitCatalog
<1>2. TypeOK /\ HoldersLock /\ PruneInv /\ CatalogInv /\ [Next]_vars
      => HoldersLock' /\ PruneInv' /\ CatalogInv'
  BY StepLock, StepPrune, StepCatalog
<1>3. HoldersLock /\ CatalogInv => CatalogComplete
  <2> SUFFICES ASSUME HoldersLock, CatalogInv, lock = None,
                      NEW x \in Prefixes, NEW d \in Keys(x)
               PROVE  <<x, d>> \in catalog
    BY DEF CatalogComplete
  <2>1. \A p \in Tasks : run[p].pc # "record"
    BY NamesAssumption DEF HoldersLock, Holding, BackupPcs, PrunePcs, Tasks
  <2>2. Cataloged(x, d)
    BY <2>1 DEF CatalogInv, RecordedBy
  <2>3. QED
    BY <2>2 DEF Cataloged
<1>4. QED
  BY <1>1, <1>2, <1>3, InitType, StepType, PTL DEF Spec

-----------------------------------------------------------------------------
(* Every tarball can be restored *)

LEMMA InitBlobs == Init => BlobsInv
<1> SUFFICES ASSUME Init PROVE BlobsInv
  OBVIOUS
<1>1. ASSUME NEW a \in Apps PROVE VolumeOK(a)
  BY <1>1 DEF Init, VolumeOK, Covered, Staged, Empty, NoRestore
<1>2. ASSUME NEW p \in Tasks PROVE WorkOK(p)
  BY <1>2 DEF Init, WorkOK, At, NoRun
<1>3. QED
  BY <1>1, <1>2 DEF BlobsInv

\* The app steps touch one app only, and neither S3 nor the tasks.
LEMMA AppBlobs ==
    ASSUME {"copy", "wait"} \cap Events = {}, TypeOK, BlobsInv, NEW a \in Apps, AppStep(a)
    PROVE  BlobsInv'
<1>0. /\ UNCHANGED run /\ UNCHANGED tars /\ UNCHANGED blobStore /\ ~Fault("copy")
      /\ vol[a] \in Data /\ stage[a] \in Data /\ rest[a].data \in Data
  BY DEF AppStep, Snapshot, Apply, AppWrites, Operate, s3, Fault, TypeOK, HostOK
<1>1. \A b \in Apps : b # a => UNCHANGED <<vol[b], stage[b], snap[b], rest[b]>>
  BY DEF AppStep, Snapshot, Apply, AppWrites, Operate, TypeOK, HostOK
<1>2. ASSUME NEW b \in Apps, b # a PROVE VolumeOK(b)'
  BY <1>0, <1>1, <1>2 DEF BlobsInv, VolumeOK, Covered, Staged
<1>3. VolumeOK(a)'
  <2>0. VolumeOK(a)
    BY DEF BlobsInv
  <2>1. CASE Snapshot(a)
    <3>1. UNCHANGED vol /\ UNCHANGED rest
      BY <2>1 DEF Snapshot
    <3>2. CASE stage' = [stage EXCEPT ![a] = [refs |-> vol[a].refs, blobs |-> {}]]
                 /\ snap' = [snap EXCEPT ![a] = "blobs"]
      <4>1. stage'[a].refs = vol[a].refs /\ snap'[a] = "blobs"
        BY <3>2 DEF TypeOK, HostOK
      <4>2. QED
        BY <1>0, <2>0, <3>1, <4>1 DEF VolumeOK, Covered
    <3>3. CASE snap[a] = "blobs" /\ stage' = [stage EXCEPT ![a].blobs = vol[a].blobs]
                 /\ snap' = [snap EXCEPT ![a] = "done"]
      <4>1. stage'[a].refs = stage[a].refs /\ stage'[a].blobs = vol[a].blobs /\ snap'[a] = "done"
        BY <1>0, <3>3 DEF TypeOK, HostOK, Data
      <4>2. QED
        BY <1>0, <2>0, <3>1, <3>3, <4>1 DEF VolumeOK, Covered, Staged
    <3>4. CASE snap' = [snap EXCEPT ![a] = "failed"] /\ UNCHANGED stage
      <4>1. snap'[a] = "failed"
        BY <3>4 DEF TypeOK, HostOK
      <4>2. QED
        BY <1>0, <2>0, <3>1, <3>4, <4>1 DEF VolumeOK, Covered
    <3>5. QED
      BY <1>0, <2>1, <3>2, <3>3, <3>4 DEF Snapshot
  <2>2. CASE Apply(a)
    <3>1. /\ UNCHANGED stage /\ UNCHANGED snap
          /\ rest'[a].data = rest[a].data
      BY <2>2 DEF Apply, TypeOK, HostOK
    <3>2. /\ vol[a].blobs \subseteq vol'[a].blobs
          /\ vol'[a].refs = vol[a].refs \/ vol'[a].refs = rest[a].data.refs
      <4>1. CASE vol' = [vol EXCEPT ![a].refs = rest[a].data.refs]
        BY <1>0, <4>1 DEF TypeOK, HostOK, Data
      <4>2. CASE vol' = [vol EXCEPT ![a].blobs = @ \cup rest[a].data.blobs]
        BY <1>0, <4>2 DEF TypeOK, HostOK, Data
      <4>3. CASE UNCHANGED vol
        BY <4>3
      <4>4. QED
        BY <2>2, <4>1, <4>2, <4>3 DEF Apply
    <3>3. QED
      BY <1>0, <2>0, <3>1, <3>2 DEF VolumeOK, Covered, Staged
  <2>3. CASE AppWrites(a)
    <3>1. UNCHANGED stage /\ UNCHANGED snap /\ UNCHANGED rest
      BY <2>3 DEF AppWrites
    <3>2. PICK b \in Blobs :
            \/ vol' = [vol EXCEPT ![a].blobs = @ \cup {b}]
            \/ b \in vol[a].blobs /\ vol' = [vol EXCEPT ![a].refs = @ \cup {b}]
      BY <2>3 DEF AppWrites
    <3>3. /\ vol[a].blobs \subseteq vol'[a].blobs
          /\ vol'[a].refs \subseteq vol[a].refs \cup vol[a].blobs
      BY <1>0, <3>2 DEF TypeOK, HostOK, Data
    <3>4. QED
      BY <1>0, <2>0, <3>1, <3>3 DEF VolumeOK, Covered, Staged
  <2>4. CASE Operate(a)
    BY <1>0, <2>0, <2>4 DEF Operate, VolumeOK, Covered, Staged
  <2>5. QED
    BY <2>1, <2>2, <2>3, <2>4 DEF AppStep
<1>4. ASSUME NEW p \in Tasks PROVE WorkOK(p)'
  <2>0. WorkOK(p) /\ RunOK(run[p])
    BY Records DEF BlobsInv
  <2>1. snap[a] = "none" => UNCHANGED <<stage[a], snap[a]>>
    BY DEF AppStep, Snapshot, Apply, AppWrites, Operate, Mounted
  <2>2. At(p, "blobs") \/ At(p, "tar") => UNCHANGED <<stage[Cur(p)], snap[Cur(p)]>>
    BY <1>0, <1>1, <2>0, <2>1 DEF WorkOK, RunOK, At, AppPcs, Cur
  <2>3. QED
    BY <1>0, <2>0, <2>2 DEF WorkOK, Staged, At, Cur
<1>5. QED
  BY <1>2, <1>3, <1>4 DEF BlobsInv

\* What a task does to the volumes and their uploads.
LEMMA TaskVolumes ==
    ASSUME TypeOK, BlobsInv, NEW p \in Tasks, TaskStep(p), NEW a \in Apps
    PROVE  VolumeOK(a)'
<1>0. /\ VolumeOK(a) /\ WorkOK(p) /\ RunOK(run[p]) /\ run[p] \in Runs
      /\ UNCHANGED vol
  BY Records, Frame DEF BlobsInv, host, ChangesHost, StartSnapshot, AwaitSnapshot, UploadBlobs,
     UploadTar, StopForRestore, StartRestore, AwaitRestore, BootRestored
<1>1. blobStore[a] \subseteq blobStore'[a]
  <2>1. UNCHANGED blobStore \/ UploadBlobs(p)
    BY Frame DEF s3, ChangesS3, BackupState, PruneObject, UploadTar
  <2>2. CASE UploadBlobs(p)
    BY <2>2 DEF UploadBlobs, TypeOK, S3OK
  <2>3. QED
    BY <2>1, <2>2
<1>2. \A d \in Days : tars'[a][d] # None => tars'[a][d] \subseteq blobStore'[a]
  <2>1. CASE UNCHANGED tars
    BY <1>0, <1>1, <2>1 DEF VolumeOK
  <2>2. CASE UploadTar(p) /\ ~UNCHANGED tars
    <3>1. tars' = [tars EXCEPT ![Cur(p)][run[p].date] = stage[Cur(p)].refs]
      BY <2>2 DEF UploadTar
    <3>2. stage[Cur(p)].refs \subseteq blobStore[Cur(p)]
      BY <1>0, <2>2 DEF UploadTar, WorkOK
    <3>3. \A d \in Days : tars'[a][d] = tars[a][d]
                          \/ (a = Cur(p) /\ tars'[a][d] = stage[Cur(p)].refs)
      BY <3>1 DEF TypeOK, S3OK
    <3>4. QED
      BY <1>0, <1>1, <3>2, <3>3 DEF VolumeOK
  <2>3. CASE PruneObject(p) /\ ~UNCHANGED tars
    <3>1. PICK d \in run[p].doomed : tars' = [tars EXCEPT ![Cur(p)][d] = None]
      BY <2>3 DEF PruneObject
    <3>2. \A e \in Days : tars'[a][e] = tars[a][e] \/ tars'[a][e] = None
      BY <3>1 DEF TypeOK, S3OK
    <3>3. QED
      BY <1>0, <1>1, <3>2 DEF VolumeOK
  <2>4. QED
    BY <2>1, <2>2, <2>3, Frame DEF s3, ChangesS3, BackupState, UploadBlobs
<1>3. rest'[a].data.refs \subseteq blobStore'[a]
  <2>1. CASE rest'[a] = rest[a] \/ rest'[a] = NoRestore
    BY <1>0, <1>1, <2>1 DEF VolumeOK, NoRestore, Empty
  <2>2. CASE StartRestore(p) /\ ~(rest'[a] = rest[a] \/ rest'[a] = NoRestore)
    <3>1. rest'[a] = [phase |-> "dbs", data |-> run[p].data] /\ a = Cur(p) /\ At(p, "apply")
      BY <2>2 DEF StartRestore, Removed, TypeOK, HostOK
    <3>2. QED
      BY <1>0, <1>1, <3>1 DEF WorkOK
  <2>3. UNCHANGED rest \/ StartRestore(p) \/ AwaitRestore(p)
    BY Frame DEF host, ChangesHost, StartSnapshot, AwaitSnapshot, UploadBlobs, UploadTar,
       StopForRestore, BootRestored
  <2>4. AwaitRestore(p) => rest'[a] = rest[a] \/ rest'[a] = NoRestore
    BY DEF AwaitRestore, Removed, TypeOK, HostOK
  <2>5. QED
    BY <2>1, <2>2, <2>3, <2>4
<1>4. snap'[a] \in {"blobs", "done"} => snap'[a] = snap[a] /\ stage'[a] = stage[a]
  <2>1. CASE UNCHANGED snap /\ UNCHANGED stage
    BY <2>1
  <2>2. CASE StartSnapshot(p) \/ AwaitSnapshot(p)
    BY <2>2 DEF StartSnapshot, AwaitSnapshot, TypeOK, HostOK
  <2>3. CASE UploadBlobs(p) \/ UploadTar(p)
    <3>1. snap[Cur(p)] = "none" /\ UNCHANGED snap
      BY <1>0, <2>3 DEF UploadBlobs, UploadTar, WorkOK
    <3>2. a # Cur(p) => stage'[a] = stage[a]
      BY <2>3 DEF UploadBlobs, UploadTar, TypeOK, HostOK
    <3>3. QED
      BY <3>1, <3>2
  <2>4. QED
    BY <2>1, <2>2, <2>3, Frame
    DEF host, ChangesHost, StopForRestore, StartRestore, AwaitRestore, BootRestored
<1>5. QED
  BY <1>0, <1>1, <1>2, <1>3, <1>4 DEF VolumeOK, Covered, Staged

LEMMA TaskWork ==
    ASSUME {"copy", "wait"} \cap Events = {}, TypeOK, HoldersLock, BlobsInv,
           NEW p \in Tasks, TaskStep(p), NEW q \in Tasks
    PROVE  WorkOK(q)'
<1>0. WorkOK(q) /\ RunOK(run[p]) /\ run[p] \in Runs /\ run \in [Tasks -> Runs] /\ ~Fault("wait")
  BY Records DEF BlobsInv, Fault
<1>1. CASE q # p
  <2>1. CASE run'[q].pc \in {"replace", "apply", "blobs", "tar"}
    <3>1. run'[q] = run[q] /\ UNCHANGED s3 /\ UNCHANGED host
      BY <1>1, <2>1, Undisturbed DEF Holding, BackupPcs, AppPcs
    <3>2. QED
      BY <1>0, <3>1 DEF WorkOK, At, Cur, Staged, s3, host
  <2>2. QED
    BY <2>1 DEF WorkOK, At
<1>2. CASE q = p
  <2>1. CASE run'[p].pc = "replace" /\ StageRestore(p)
    <3>1. ~\E ok : Over(p, ok)
      BY <2>1, Where
    <3>2. /\ Keys(Cur(p)) # {} /\ UNCHANGED blobStore
          /\ run' = [run EXCEPT ![p].pc = "replace",
                        ![p].data = [refs |-> tars[Cur(p)][Newest(Cur(p))],
                                     blobs |-> RestoredBlobs(Cur(p))]]
      BY <2>1, <3>1 DEF StageRestore, s3
    <3>3. Cur(p) \in Apps
      BY <1>0, <2>1 DEF StageRestore, At, RunOK, AppPcs, Cur
    <3>4. run'[p].data.refs = tars[Cur(p)][Newest(Cur(p))] /\ run'[p].cur = Cur(p)
      BY <1>0, <3>2 DEF Runs, Cur
    <3>5. Newest(Cur(p)) \in Days /\ tars[Cur(p)][Newest(Cur(p))] # None
      BY <3>2, <3>3, NewestTar, KeysAre
    <3>6. run'[p].data.refs \subseteq blobStore[Cur(p)]
      BY <3>3, <3>4, <3>5 DEF BlobsInv, VolumeOK
    <3>7. QED
      BY <1>2, <2>1, <3>2, <3>4, <3>6 DEF WorkOK, At, Cur
  <2>2. CASE run'[p].pc = "apply" /\ StopForRestore(p)
    <3>1. At(p, "replace") /\ UNCHANGED blobStore /\ Goto(p, "apply")
      BY <2>2, Where DEF StopForRestore, s3
    <3>2. run'[p].cur = run[p].cur /\ run'[p].data = run[p].data
      BY <3>1, Where
    <3>3. QED
      BY <1>0, <1>2, <2>2, <3>1, <3>2 DEF WorkOK, At, Cur
  <2>3. CASE run'[p].pc = "blobs" /\ AwaitSnapshot(p)
    <3>1. Cur(p) \in Apps /\ snap[Cur(p)] = "done" /\ Goto(p, "blobs")
      <4>1. ~\E ok \in BOOLEAN : Over(p, ok)
        BY <2>3, Where
      <4>2. QED
        BY <1>0, <2>3, <4>1 DEF AwaitSnapshot, At, RunOK, AppPcs, Cur
    <3>2. run'[p].cur = Cur(p)
      BY <3>1, Where DEF Cur
    <3>3. Staged(Cur(p))
      BY <3>1 DEF BlobsInv, VolumeOK
    <3>4. snap'[Cur(p)] = "none" /\ UNCHANGED stage /\ UNCHANGED blobStore
      <4>1. ~\E ok \in BOOLEAN : Over(p, ok)
        BY <2>3, Where
      <4>2. QED
        BY <2>3, <3>1, <4>1 DEF AwaitSnapshot, s3, TypeOK, HostOK
    <3>5. QED
      BY <1>2, <2>3, <3>2, <3>3, <3>4 DEF WorkOK, At, Cur, Staged
  <2>4. CASE UploadBlobs(p)
    <3>1. /\ Cur(p) \in Apps /\ At(p, "blobs") /\ UNCHANGED snap /\ stage[Cur(p)] \in Data
      BY <1>0, <2>4 DEF UploadBlobs, At, RunOK, AppPcs, Cur, TypeOK, HostOK
    <3>2. snap[Cur(p)] = "none" /\ Staged(Cur(p))
      BY <1>0, <1>2, <3>1 DEF WorkOK
    <3>3. CASE UNCHANGED run /\ UNCHANGED stage
      <4>1. blobStore[Cur(p)] \subseteq blobStore'[Cur(p)]
        BY <2>4, <3>1 DEF UploadBlobs, TypeOK, S3OK
      <4>2. QED
        BY <1>2, <3>1, <3>2, <3>3, <4>1 DEF WorkOK, At, Cur, Staged
    <3>4. CASE /\ BlobsMissing(Cur(p)) = {} /\ Goto(p, "tar") /\ UNCHANGED blobStore
               /\ stage' = [stage EXCEPT ![Cur(p)].blobs = {}]
      <4>1. stage'[Cur(p)].refs = stage[Cur(p)].refs /\ stage'[Cur(p)].blobs = {}
        BY <3>1, <3>4 DEF TypeOK, HostOK, Data
      <4>2. stage[Cur(p)].refs \subseteq blobStore[Cur(p)]
        BY <3>2, <3>4 DEF BlobsMissing, Staged
      <4>3. run'[p].pc = "tar" /\ run'[p].cur = Cur(p)
        BY <3>4, Where DEF Cur
      <4>4. QED
        BY <1>2, <3>1, <3>2, <3>4, <4>1, <4>2, <4>3 DEF WorkOK, At, Cur, Staged
    <3>5. CASE \E ok : Over(p, ok)
      <4>1. run'[p].pc \in {"list", "next"}
        BY <3>5, Where
      <4>2. QED
        BY <1>2, <4>1 DEF WorkOK, At
    <3>6. QED
      BY <2>4, <3>3, <3>4, <3>5 DEF UploadBlobs
  <2>5. CASE run'[p].pc \notin {"replace", "apply", "blobs", "tar"}
    BY <1>2, <2>5 DEF WorkOK, At
  <2>6. QED
    BY <2>1, <2>2, <2>3, <2>4, <2>5, Arrives
<1>3. QED
  BY <1>1, <1>2

LEMMA StepBlobs ==
    ASSUME {"copy", "wait"} \cap Events = {}, TypeOK, HoldersLock, BlobsInv, [Next]_vars
    PROVE  BlobsInv'
<1>1. CASE Crash
  <2>1. /\ UNCHANGED <<vol, stage, snap, rest, tars, blobStore>>
        /\ \A p \in Tasks : run'[p].pc = "idle"
    BY <1>1 DEF Crash, host, s3, NoRun
  <2>2. QED
    BY <2>1 DEF BlobsInv, VolumeOK, WorkOK, Covered, Staged, At
<1>2. CASE Disaster
  <2>1. UNCHANGED <<tars, blobStore>> /\ \A p \in Tasks : run'[p].pc = "idle"
    BY <1>2 DEF Disaster, s3, NoRun
  <2>2. \A a \in Apps : vol'[a].refs = {} /\ rest'[a].data.refs = {} /\ snap'[a] = "none"
    BY <1>2 DEF Disaster, Empty, NoRestore
  <2>3. QED
    BY <2>1, <2>2 DEF BlobsInv, VolumeOK, WorkOK, Covered, At
<1>3. CASE UNCHANGED <<vol, stage, snap, rest, tars, blobStore, run>>
  BY <1>3 DEF BlobsInv, VolumeOK, WorkOK, Covered, Staged, At, Cur
<1>4. ASSUME NEW p \in Tasks, TaskStep(p) PROVE BlobsInv'
  BY <1>4, TaskVolumes, TaskWork DEF BlobsInv
<1>5. QED
  BY <1>1, <1>2, <1>3, <1>4, AppBlobs, NextSplits DEF NextDay, Configure, vars, host, s3

(* Every tarball in S3 can be restored: the blobs it refers to were uploaded   *)
(* before it. The copy of the blobs must not fail unnoticed, nor the wait for  *)
(* the container break; whatever else fails, crashes, is dropped or lost.      *)
THEOREM EveryTarballRestores ==
    ASSUME {"copy", "wait"} \cap Events = {} PROVE Spec => []TarballsRestorable
<1>1. Init => HoldersLock /\ BlobsInv
  BY InitLock, InitBlobs
<1>2. TypeOK /\ HoldersLock /\ BlobsInv /\ [Next]_vars => HoldersLock' /\ BlobsInv'
  BY StepLock, StepBlobs
<1>3. BlobsInv => TarballsRestorable
  BY KeysAre DEF BlobsInv, VolumeOK, TarballsRestorable
<1>4. QED
  BY <1>1, <1>2, <1>3, InitType, StepType, PTL DEF Spec
-----------------------------------------------------------------------------
(* What a run saw, what it has captured and what a restore has put back *)

RestorePcs == {"merge", "stage", "replace", "apply", "restWait", "boot"}

\* A record says of what kind its step is, and the apps it has to do have rows.
TaskOK(p) ==
    /\ run[p].pc \in RestorePcs => run[p].kind = "restore"
    /\ run[p].pc \in PrunePcs => run[p].kind # "restore"
    /\ run[p].pc \in {"lock", "state", "merge", "list", "next", "mark"} => run[p].cur = None
    /\ run[p].pc \in {"lock", "state", "merge", "list"} \/ run[p].cur = State => run[p].todo = {}
    /\ run[p].pc = "mark" => run[p].kind # "restore" /\ ~run[p].failed /\ run[p].todo = {}
    /\ run[p].todo \subseteq rows /\ (run[p].cur \in Apps => run[p].cur \in rows)
TasksInv == \A p \in Tasks : TaskOK(p)

\* A restore that has failed for no app so far: the apps behind it are whole,
\* and what it has of the one it is at is that app's newest backup.
Whole(a) == tars[a][Newest(a)] \subseteq vol[a].refs /\ vol[a].refs \subseteq vol[a].blobs
NewestData(a) == [refs |-> tars[a][Newest(a)], blobs |-> blobStore[a]]
PutBack(a) == Keys(a) # {} => ~Mounted(rest[a].phase) /\ Whole(a)

RestoreOK(r) ==
    /\ ~r.failed => \A a \in rows \ (r.todo \cup {r.cur}) : PutBack(a)
    /\ r.pc \in {"replace", "apply"} => Keys(r.cur) # {} /\ r.data = NewestData(r.cur)
    /\ r.pc = "restWait" =>
            /\ Keys(r.cur) # {}
            /\ Mounted(rest[r.cur].phase) => rest[r.cur].data = NewestData(r.cur)
            /\ rest[r.cur].phase = "blobs" => tars[r.cur][Newest(r.cur)] \subseteq vol[r.cur].refs
            /\ rest[r.cur].phase = "done" => Whole(r.cur)
    /\ r.pc = "boot" => ~Mounted(rest[r.cur].phase) /\ Whole(r.cur)

PuttingBack(r) == r.kind = "restore" /\ r.pc \in {"next"} \cup (RestorePcs \ {"merge"})
RestoreInv == \A p \in Tasks : \A r \in {run[p]} : PuttingBack(r) => RestoreOK(r)

\* A backup under way, or done and not yet marked.
Backing(r) == r.kind # "restore" /\ r.pc \in Holding \cup {"mark"}

\* No backup in S3 is from a later day than the one under way.
DatesInv ==
    /\ \A x \in Prefixes : \A d \in Keys(x) : d <= day
    /\ \A p \in Tasks : Backing(run[p]) => run[p].date <= day
    /\ \A p \in Tasks : Backing(run[p]) /\ run[p].pc # "mark" =>
            \A x \in Prefixes : \A d \in Keys(x) : d <= run[p].date

\* The references in R are in app a's volume and in all that may replace them.
FloorAt(a, R, r) ==
    r.cur = a =>
        /\ (r.pc = "snapWait" /\ snap[a] \in {"blobs", "done"}) \/ r.pc \in {"blobs", "tar"}
                => R \subseteq stage[a].refs
        /\ r.pc \in {"replace", "apply"} => R \subseteq r.data.refs
        /\ r.pc = "restWait" /\ rest[a].phase = "dbs" => R \subseteq rest[a].data.refs
Floor(a, R) == R \subseteq vol[a].refs /\ \A q \in Tasks : FloorAt(a, R, run[q])
SeenInv ==
    \A p \in Tasks : \A r \in {run[p]} : Backing(r) => \A a \in Apps : Floor(a, r.seen[a])

\* The latest of the days K is n or later, and is one of the days in G.
Latest(K, G, n) == \E d \in K \cap G : d >= n /\ \A e \in K : e <= d

\* The newest backup has what it should: the references R, the rows there are.
With(a, R) == {d \in Days : R \subseteq tars[a][d]}
Kept(a, R, n) == Latest(Keys(a), With(a, R), n)
WithRows == {d \in Days : states[d] \subseteq rows}
KeptState(n) == Latest(Keys(State), WithRows, n)

\* The app is behind the run.
Behind(r, a) ==
    /\ a \in rows \ r.todo
    /\ \/ r.pc \in {"next", "snap", "snapWait", "blobs", "tar", "mark"} /\ a # r.cur
       \/ r.pc \in PrunePcs /\ r.cur \in Apps
CapturedOK(r) ==
    /\ r.pc # "state" => KeptState(r.date)
    /\ \A a \in Apps : Behind(r, a) => Kept(a, r.seen[a], r.date)
CapturedInv ==
    \A p \in Tasks : \A r \in {run[p]} : Backing(r) /\ ~r.failed => CapturedOK(r)

-----------------------------------------------------------------------------
(* What a step leaves in the task's record *)

LEMMA GotoFields ==
    ASSUME TypeOK, NEW p \in Tasks, NEW pc, Goto(p, pc)
    PROVE  /\ run'[p].pc = pc /\ run'[p].kind = run[p].kind /\ run'[p].cur = run[p].cur
           /\ run'[p].date = run[p].date /\ run'[p].todo = run[p].todo
           /\ run'[p].failed = run[p].failed /\ run'[p].data = run[p].data
           /\ run'[p].seen = run[p].seen
BY Records DEF Goto, Runs

LEMMA OverFields ==
    ASSUME TypeOK, NEW p \in Tasks, NEW ok \in BOOLEAN, Over(p, ok)
    PROVE  /\ run'[p].pc = OverPc(run[p]) /\ run'[p].kind = run[p].kind /\ run'[p].cur = None
           /\ run'[p].date = run[p].date /\ run'[p].todo = run[p].todo
           /\ run'[p].failed = (run[p].failed \/ ~ok)
           /\ run'[p].seen = run[p].seen
<1> DEFINE pc == OverPc(run[p])
           f == run[p].failed \/ ~ok
           r == [run[p] EXCEPT !.pc = pc, !.cur = None, !.doomed = {}, !.data = Empty,
                               !.failed = f]
<1>1. run' = [run EXCEPT ![p] = r]
  BY DEF Over, OverPc, Cur
<1>2. run'[p] = r
  BY <1>1, Records
<1> HIDE DEF pc, f
<1>3. /\ r.pc = pc /\ r.kind = run[p].kind /\ r.cur = None /\ r.date = run[p].date
      /\ r.todo = run[p].todo /\ r.failed = f /\ r.seen = run[p].seen
  BY Records DEF Runs
<1>4. QED
  BY <1>2, <1>3 DEF pc, f

LEMMA ReturnFields == ASSUME TypeOK, NEW p \in Tasks, Return(p)
                      PROVE  run'[p].pc = "idle" /\ run'[p].todo = {} /\ run'[p].cur = None
                             /\ run'[p].kind = "none"
BY Records DEF Return, NoRun

LEMMA StartFields ==
    ASSUME TypeOK, NEW p \in Tasks, (p = Sched /\ Tick) \/ Request(p)
    PROVE  run'[p].pc = "lock" /\ run'[p].todo = {} /\ run'[p].cur = None
BY Records DEF Tick, Request, NoRun

LEMMA TakeLockFields ==
    ASSUME TypeOK, NEW p \in Tasks, TakeLock(p), ~Return(p)
    PROVE  /\ run'[p].pc = (IF Restoring(p) THEN "merge" ELSE "state")
           /\ run'[p].kind = run[p].kind
           /\ run'[p].cur = run[p].cur /\ run'[p].todo = run[p].todo
           /\ run'[p].failed = run[p].failed
           /\ ~Restoring(p) => /\ run'[p].date = day
                               /\ \A a \in Apps : run'[p].seen[a] = vol[a].refs
<1> DEFINE pc == IF Restoring(p) THEN "merge" ELSE "state"
           sn == [a \in Apps |-> IF Restoring(p) THEN {} ELSE vol[a].refs]
           dt == IF Restoring(p) THEN 0 ELSE day
           r == [run[p] EXCEPT !.pc = pc, !.date = dt, !.seen = sn]
<1>1. run' = [run EXCEPT ![p] = r]
  BY DEF TakeLock
<1>2. run'[p] = r
  BY <1>1, Records
<1> HIDE DEF pc, sn, dt
<1>3. /\ r.pc = pc /\ r.kind = run[p].kind /\ r.cur = run[p].cur /\ r.date = dt
      /\ r.todo = run[p].todo /\ r.failed = run[p].failed /\ r.seen = sn
  BY Records DEF Runs
<1>4. ~Restoring(p) => dt = day /\ \A a \in Apps : sn[a] = vol[a].refs
  BY DEF dt, sn
<1>5. QED
  BY <1>2, <1>3, <1>4 DEF pc

LEMMA StateFields ==
    ASSUME TypeOK, NEW p \in Tasks, BackupState(p)
    PROVE  /\ run'[p].kind = run[p].kind /\ run'[p].todo = run[p].todo
           /\ run'[p].date = run[p].date /\ run'[p].seen = run[p].seen
           /\ \/ /\ run'[p].pc = "record" /\ run'[p].cur = State
                 /\ run'[p].failed = run[p].failed
                 /\ states' = [states EXCEPT ![run[p].date] = rows]
              \/ /\ run'[p].pc = "list" /\ run'[p].cur = run[p].cur /\ run'[p].failed
                 /\ UNCHANGED states
<1>1. CASE run' = [run EXCEPT ![p].pc = "record", ![p].cur = State]
           /\ states' = [states EXCEPT ![run[p].date] = rows]
  BY <1>1, Records DEF Runs
<1>2. CASE run' = [run EXCEPT ![p].pc = "list", ![p].failed = TRUE] /\ UNCHANGED states
  BY <1>2, Records DEF Runs
<1>3. QED
  BY <1>1, <1>2 DEF BackupState

LEMMA PruneListFields ==
    ASSUME TypeOK, NEW p \in Tasks, PruneList(p), ~\E ok \in BOOLEAN : Over(p, ok)
    PROVE  /\ run'[p].pc = "pruneS3" /\ run'[p].kind = run[p].kind /\ run'[p].cur = run[p].cur
           /\ run'[p].date = run[p].date /\ run'[p].todo = run[p].todo
           /\ run'[p].failed = run[p].failed /\ run'[p].seen = run[p].seen
<1>1. PICK d : run' = [run EXCEPT ![p].pc = "pruneS3", ![p].doomed = d]
  BY DEF PruneList
<1>2. QED
  BY <1>1, Records DEF Runs

LEMMA ListFields ==
    ASSUME TypeOK, NEW p \in Tasks, ListApps(p), ~Return(p)
    PROVE  /\ run'[p].pc = "next" /\ run'[p].kind = run[p].kind /\ run'[p].cur = run[p].cur
           /\ run'[p].date = run[p].date /\ run'[p].todo = rows
           /\ run'[p].failed = run[p].failed /\ run'[p].seen = run[p].seen
<1>1. run' = [run EXCEPT ![p].pc = "next", ![p].todo = rows]
  BY DEF ListApps
<1>2. QED
  BY <1>1, Records DEF Runs

LEMMA NextFields ==
    ASSUME TypeOK, NEW p \in Tasks, NextApp(p)
    PROVE  /\ run'[p].pc = (IF Restoring(p) THEN "stage" ELSE "snap")
           /\ run'[p].kind = run[p].kind /\ run'[p].date = run[p].date
           /\ run'[p].failed = run[p].failed /\ run'[p].seen = run[p].seen
           /\ run'[p].cur \in run[p].todo /\ run'[p].todo = run[p].todo \ {run'[p].cur}
<1>1. PICK a \in run[p].todo :
         run' = [run EXCEPT ![p].pc = IF Restoring(p) THEN "stage" ELSE "snap",
                            ![p].cur = a, ![p].todo = @ \ {a}]
  BY DEF NextApp
<1> DEFINE pc == IF Restoring(p) THEN "stage" ELSE "snap"
           td == run[p].todo \ {a}
           r == [run[p] EXCEPT !.pc = pc, !.cur = a, !.todo = td]
<1>2. run'[p] = r
  BY <1>1, Records
<1> HIDE DEF pc, td
<1>3. /\ r.pc = pc /\ r.kind = run[p].kind /\ r.cur = a /\ r.date = run[p].date
      /\ r.todo = td /\ r.failed = run[p].failed /\ r.seen = run[p].seen
  BY Records DEF Runs
<1>4. QED
  BY <1>2, <1>3 DEF pc, td

LEMMA StageFields ==
    ASSUME TypeOK, NEW p \in Tasks, StageRestore(p), ~\E ok \in BOOLEAN : Over(p, ok)
    PROVE  /\ run'[p].pc = "replace" /\ run'[p].kind = run[p].kind /\ run'[p].cur = run[p].cur
           /\ run'[p].todo = run[p].todo /\ run'[p].failed = run[p].failed
           /\ run'[p].date = run[p].date /\ run'[p].seen = run[p].seen
           /\ run'[p].data = NewestData(run[p].cur) /\ Keys(run[p].cur) # {}
<1> DEFINE dt == NewestData(run[p].cur)
<1>1. run' = [run EXCEPT ![p].pc = "replace", ![p].data = dt] /\ Keys(run[p].cur) # {}
  BY DEF StageRestore, NewestData, RestoredBlobs, Cur
<1> HIDE DEF dt
<1>2. QED
  BY <1>1, Records DEF Runs, dt

-----------------------------------------------------------------------------
(* The kinds of the steps, and the rows of the apps to do *)

LEMMA NewestStates == ASSUME TypeOK, Keys(State) # {}
                      PROVE  /\ Newest(State) \in Keys(State)
                             /\ \A e \in Keys(State) : e <= Newest(State)
                             /\ states[Newest(State)] \in SUBSET Apps
<1>1. Newest(State) \in Keys(State) /\ \A e \in Keys(State) : e <= Newest(State)
  BY KeysAre, LatestDay DEF Newest
<1>2. QED
  BY <1>1, KeysAre DEF TypeOK, S3OK

\* A task adds rows at most, and only a restore does.
LEMMA RowsGrow == ASSUME NEW p \in Tasks, TaskStep(p)
                  PROVE  UNCHANGED rows \/ (MergeState(p) /\ rows \subseteq rows')
<1>1. MergeState(p) => rows \subseteq rows'
  BY DEF MergeState, Merged
<1>2. UNCHANGED db \/ RecordUpload(p) \/ PruneRows(p) \/ MarkDay(p) => UNCHANGED rows
  BY DEF db, RecordUpload, PruneRows, MarkDay
<1>3. QED
  BY <1>1, <1>2, Frame DEF ChangesDb

LEMMA TaskStays ==
    ASSUME TypeOK, TasksInv, NEW p \in Tasks, TaskStep(p)
    PROVE  TaskOK(p)'
<1>0. /\ TaskOK(p) /\ RunOK(run[p]) /\ run[p] \in Runs /\ rows \subseteq rows'
      /\ None \notin Apps /\ State \notin Apps /\ State # None /\ rows \subseteq Apps
  BY Records, RowsGrow, NamesAssumption DEF TasksInv, TypeOK, DbOK
<1> USE DEF RestorePcs, PrunePcs
<1>1. CASE (p = Sched /\ Tick) \/ Request(p)
  BY <1>0, <1>1, StartFields DEF TaskOK
<1>2. CASE Return(p)
  BY <1>0, <1>2, ReturnFields DEF TaskOK
<1>3. CASE TakeLock(p) /\ ~Return(p)
  BY <1>0, <1>3, TakeLockFields DEF TaskOK, TakeLock, At, Restoring
<1>4. CASE BackupState(p)
  BY <1>0, <1>4, StateFields DEF TaskOK, BackupState, At, RunOK, BackupPcs
<1>5. ASSUME NEW ok \in BOOLEAN, Over(p, ok), run[p].pc \in PrunePcs \cup AppPcs PROVE TaskOK(p)'
  BY <1>0, <1>5, OverFields DEF TaskOK, OverPc, Prefixes
<1>6. CASE RecordUpload(p)
  <2>1. Goto(p, "prune") /\ run[p].pc = "record"
    BY <1>6 DEF RecordUpload, At
  <2>2. QED
    BY <1>0, <2>1, GotoFields DEF TaskOK
<1>7. CASE PruneList(p) /\ ~\E ok \in BOOLEAN : Over(p, ok)
  BY <1>0, <1>7, PruneListFields DEF TaskOK, PruneList, At
<1>8. CASE PruneObject(p)
  <2>1. run[p].pc = "pruneS3"
    BY <1>8 DEF PruneObject, At
  <2>2. CASE Goto(p, "pruneRows")
    BY <1>0, <2>1, <2>2, GotoFields DEF TaskOK
  <2>3. CASE UNCHANGED run
    BY <1>0, <2>3 DEF TaskOK
  <2>4. QED
    BY <1>5, <1>8, <2>1, <2>2, <2>3 DEF PruneObject
<1>9. CASE ListApps(p) /\ ~Return(p)
  BY <1>0, <1>9, ListFields DEF TaskOK, ListApps, At
<1>10. CASE NextApp(p)
  BY <1>0, <1>10, NextFields DEF TaskOK, NextApp, At, Restoring, Runs
<1>11. CASE EndRun(p) /\ ~Return(p)
  <2>1. Goto(p, "mark") /\ run[p].pc = "next" /\ ~Restoring(p) /\ ~run[p].failed
        /\ run[p].todo = {}
    BY <1>11 DEF EndRun, At
  <2>2. QED
    BY <1>0, <2>1, GotoFields DEF TaskOK, Restoring
<1>12. CASE MergeState(p) /\ ~Return(p)
  <2>1. Goto(p, "list") /\ run[p].pc = "merge"
    BY <1>12 DEF MergeState, At
  <2>2. QED
    BY <1>0, <2>1, GotoFields DEF TaskOK
<1>13. ASSUME NEW pc \in {"snapWait", "blobs", "tar", "record"}, Goto(p, pc),
              run[p].pc \in {"snap", "snapWait", "blobs", "tar"}
       PROVE  TaskOK(p)'
  BY <1>0, <1>13, GotoFields DEF TaskOK, RunOK, BackupPcs, AppPcs
<1>14. ASSUME NEW pc \in {"apply", "restWait", "boot"}, Goto(p, pc),
              run[p].pc \in {"replace", "apply", "restWait"}
       PROVE  TaskOK(p)'
  BY <1>0, <1>14, GotoFields DEF TaskOK, RunOK, AppPcs
<1>15. CASE UploadBlobs(p) /\ UNCHANGED run
  BY <1>0, <1>15 DEF TaskOK
<1>16. CASE StageRestore(p) /\ ~\E ok \in BOOLEAN : Over(p, ok)
  BY <1>0, <1>16, StageFields DEF TaskOK, StageRestore, At, RunOK, AppPcs
<1>17. (PruneList(p) \/ PruneRows(p)) => run[p].pc \in PrunePcs
  BY DEF PruneList, PruneRows, At
<1>18. (StartSnapshot(p) \/ AwaitSnapshot(p) \/ UploadBlobs(p) \/ UploadTar(p)) =>
         run[p].pc \in {"snap", "snapWait", "blobs", "tar"}
  BY DEF StartSnapshot, AwaitSnapshot, UploadBlobs, UploadTar, At
<1>19. (StopForRestore(p) \/ StartRestore(p) \/ AwaitRestore(p)) =>
         run[p].pc \in {"replace", "apply", "restWait"}
  BY DEF StopForRestore, StartRestore, AwaitRestore, At
<1>20. (StageRestore(p) \/ BootRestored(p)) => run[p].pc \in AppPcs
  BY DEF StageRestore, BootRestored, At, AppPcs
<1>21. {"snap", "snapWait", "blobs", "tar", "replace", "apply", "restWait"} \subseteq AppPcs
  BY DEF AppPcs
<1>22. CASE Cancel(p) \/ MarkDay(p)
  BY <1>2, <1>22 DEF Cancel, MarkDay
<1>23. CASE PruneList(p) \/ PruneRows(p)
  BY <1>5, <1>7, <1>17, <1>23 DEF PruneRows
<1>24. CASE StartSnapshot(p) \/ AwaitSnapshot(p) \/ UploadBlobs(p) \/ UploadTar(p)
  <2>1. (\E ok \in BOOLEAN : Over(p, ok)) \/ (UploadBlobs(p) /\ UNCHANGED run)
        \/ \E pc \in {"snapWait", "blobs", "tar", "record"} : Goto(p, pc)
    BY <1>24 DEF StartSnapshot, AwaitSnapshot, UploadBlobs, UploadTar
  <2>2. QED
    BY <1>5, <1>13, <1>15, <1>18, <1>21, <1>24, <2>1
<1>25. CASE StopForRestore(p) \/ StartRestore(p) \/ AwaitRestore(p)
  <2>1. (\E ok \in BOOLEAN : Over(p, ok)) \/ \E pc \in {"apply", "restWait", "boot"} : Goto(p, pc)
    BY <1>25 DEF StopForRestore, StartRestore, AwaitRestore
  <2>2. QED
    BY <1>5, <1>14, <1>19, <1>21, <1>25, <2>1
<1>26. CASE StageRestore(p) \/ BootRestored(p)
  BY <1>5, <1>16, <1>20, <1>26 DEF BootRestored
<1>27. QED
  BY <1>1, <1>2, <1>3, <1>4, <1>6, <1>8, <1>9, <1>10, <1>11, <1>12, <1>22, <1>23, <1>24,
     <1>25, <1>26 DEF TaskStep, Step

LEMMA InitTasks == Init => TasksInv
BY NamesAssumption
DEF Init, TasksInv, TaskOK, NoRun, RestorePcs, PrunePcs

LEMMA StepTasks == TypeOK /\ TasksInv /\ [Next]_vars => TasksInv'
<1> SUFFICES ASSUME TypeOK, TasksInv, [Next]_vars PROVE TasksInv'
  OBVIOUS
<1>1. CASE Crash \/ Disaster
  BY <1>1, NamesAssumption DEF Crash, Disaster, TasksInv, TaskOK, NoRun, RestorePcs, PrunePcs
<1>2. CASE UNCHANGED <<run, rows>>
  BY <1>2 DEF TasksInv, TaskOK
<1>3. ASSUME NEW p \in Tasks, TaskStep(p) PROVE TasksInv'
  <2>1. ASSUME NEW q \in Tasks, q # p PROVE TaskOK(q)'
    <3>1. run'[q] = run[q] /\ rows \subseteq rows'
      BY <1>3, <2>1, TaskRuns, RowsGrow DEF OwnRun
    <3>2. QED
      BY <3>1 DEF TasksInv, TaskOK
  <2>2. QED
    BY <1>3, <2>1, TaskStays DEF TasksInv
<1>4. QED
  BY <1>1, <1>2, <1>3, NextSplits
  DEF NextDay, Configure, AppStep, Snapshot, Apply, AppWrites, Operate, vars, db

\* While a task works under the lock, the others leave it and the rows alone.
LEMMA Alone ==
    ASSUME TypeOK, HoldersLock, NEW p \in Tasks, TaskStep(p), NEW q \in Tasks, q # p,
           run'[q].pc \in Holding
    PROVE  run'[q] = run[q] /\ UNCHANGED s3 /\ UNCHANGED host /\ UNCHANGED rows
<1>1. run'[q] = run[q] /\ UNCHANGED s3 /\ UNCHANGED host
  BY Undisturbed
<1>2. run[p].pc \notin Holding
  BY <1>1 DEF HoldersLock
<1>3. ~MergeState(p)
  BY <1>2 DEF MergeState, At, Holding
<1>4. QED
  BY <1>1, <1>3, RowsGrow

-----------------------------------------------------------------------------
(* A restore that skips nothing is whole *)

LEMMA SameNewest == ASSUME UNCHANGED s3 PROVE \A x : Newest(x)' = Newest(x)
BY SameKeys DEF Newest

LEMMA SameRestore ==
    ASSUME NEW r, UNCHANGED s3, UNCHANGED <<rows, vol, rest>>
    PROVE  RestoreOK(r) => RestoreOK(r)'
<1>0. /\ \A x : Keys(x)' = Keys(x) /\ Newest(x)' = Newest(x)
      /\ UNCHANGED <<tars, blobStore>>
  BY SameKeys, SameNewest DEF s3
<1>1. \A a : NewestData(a)' = NewestData(a) /\ Whole(a)' = Whole(a)
  BY <1>0 DEF NewestData, Whole
<1>2. \A a : PutBack(a)' = PutBack(a)
  BY <1>0, <1>1 DEF PutBack, Mounted
<1>3. QED
  BY <1>0, <1>1, <1>2 DEF RestoreOK, Mounted

LEMMA AppVolume ==
    ASSUME TypeOK, NEW a \in Apps, AppStep(a)
    PROVE  /\ UNCHANGED s3 /\ UNCHANGED rows /\ UNCHANGED run
           /\ \A b \in Apps : b # a => vol'[b] = vol[b] /\ rest'[b] = rest[b]
           /\ rest'[a].data = rest[a].data
           /\ \/ rest'[a].phase = rest[a].phase /\ vol[a].refs \subseteq vol'[a].refs
                 /\ (vol[a].refs \subseteq vol[a].blobs => vol'[a].refs \subseteq vol'[a].blobs)
              \/ rest[a].phase \in {"dbs", "blobs"} /\ rest'[a].phase = "failed"
              \/ /\ rest[a].phase = "dbs" /\ rest'[a].phase = "blobs"
                 /\ vol'[a].refs = rest[a].data.refs
              \/ /\ rest[a].phase = "blobs" /\ rest'[a].phase = "done"
                 /\ vol'[a].refs = vol[a].refs
                 /\ vol'[a].blobs = vol[a].blobs \cup rest[a].data.blobs
<1>0. /\ vol \in [Apps -> Data] /\ rest \in [Apps -> [phase : Phases, data : Data]]
      /\ UNCHANGED s3 /\ UNCHANGED rows /\ UNCHANGED run
  BY DEF TypeOK, HostOK, AppStep, Snapshot, Apply, AppWrites, Operate, db
<1>1. CASE Snapshot(a) \/ Operate(a)
  <2>1. UNCHANGED vol /\ UNCHANGED rest
    BY <1>1 DEF Snapshot, Operate
  <2>2. QED
    BY <1>0, <2>1
<1>2. CASE Apply(a)
  <2>1. \A b \in Apps : b # a => vol'[b] = vol[b] /\ rest'[b] = rest[b]
    BY <1>0, <1>2 DEF Apply
  <2>2. CASE /\ rest[a].phase = "dbs" /\ vol' = [vol EXCEPT ![a].refs = rest[a].data.refs]
             /\ rest' = [rest EXCEPT ![a].phase = "blobs"]
    BY <1>0, <2>1, <2>2 DEF Data
  <2>3. CASE /\ rest[a].phase = "blobs" /\ rest' = [rest EXCEPT ![a].phase = "done"]
             /\ vol' = [vol EXCEPT ![a].blobs = @ \cup rest[a].data.blobs]
    BY <1>0, <2>1, <2>3 DEF Data
  <2>4. CASE rest[a].phase \in {"dbs", "blobs"} /\ rest' = [rest EXCEPT ![a].phase = "failed"]
             /\ UNCHANGED vol
    BY <1>0, <2>1, <2>4
  <2>5. QED
    BY <1>2, <2>2, <2>3, <2>4 DEF Apply, Mounted
<1>3. CASE AppWrites(a)
  <2>1. UNCHANGED rest /\ \A b \in Apps : b # a => vol'[b] = vol[b]
    BY <1>0, <1>3 DEF AppWrites
  <2>2. PICK b \in Blobs :
          \/ vol' = [vol EXCEPT ![a].blobs = @ \cup {b}]
          \/ b \in vol[a].blobs /\ vol' = [vol EXCEPT ![a].refs = @ \cup {b}]
    BY <1>3 DEF AppWrites
  <2>3. CASE vol' = [vol EXCEPT ![a].blobs = @ \cup {b}]
    BY <1>0, <2>1, <2>3 DEF Data
  <2>4. CASE b \in vol[a].blobs /\ vol' = [vol EXCEPT ![a].refs = @ \cup {b}]
    BY <1>0, <2>1, <2>4 DEF Data
  <2>5. QED
    BY <2>2, <2>3, <2>4
<1>4. QED
  BY <1>1, <1>2, <1>3 DEF AppStep

LEMMA AppRestores ==
    ASSUME TypeOK, BlobsInv, NEW a \in Apps, AppStep(a), NEW r \in Runs, RunOK(r),
           PuttingBack(r), RestoreOK(r)
    PROVE  RestoreOK(r)'
<1> USE DEF Mounted
<1>0. /\ UNCHANGED rows /\ UNCHANGED tars /\ UNCHANGED blobStore
      /\ \A x : Keys(x)' = Keys(x) /\ Newest(x)' = Newest(x)
  BY AppVolume, SameKeys, SameNewest DEF s3
<1>1. \A x : NewestData(x)' = NewestData(x)
  BY <1>0 DEF NewestData
<1>2. \A b \in Apps : b # a => /\ Whole(b) => Whole(b)'
                               /\ PutBack(b) => PutBack(b)'
                               /\ vol'[b] = vol[b] /\ rest'[b] = rest[b]
  BY <1>0, AppVolume DEF Whole, PutBack
<1>3. Whole(a) /\ ~Mounted(rest[a].phase) => Whole(a)' /\ ~Mounted(rest'[a].phase)
  <2>1. ASSUME Whole(a), ~Mounted(rest[a].phase)
        PROVE  Whole(a)' /\ ~Mounted(rest'[a].phase)
    <3>1. rest'[a].phase = rest[a].phase /\ vol[a].refs \subseteq vol'[a].refs
          /\ vol'[a].refs \subseteq vol'[a].blobs
      BY <2>1, AppVolume DEF Whole
    <3>2. QED
      BY <1>0, <2>1, <3>1 DEF Whole
  <2>2. QED
    BY <2>1
<1>4. PutBack(a) => PutBack(a)'
  BY <1>0, <1>3 DEF PutBack
<1>5. CASE r.cur # a
  <2>1. r.pc \in {"replace", "apply", "restWait", "boot"} => r.cur \in Apps
    BY DEF RunOK, AppPcs
  <2>2. rows \subseteq Apps
    BY DEF TypeOK, DbOK
  <2>3. ~r.failed => \A b \in rows' \ (r.todo \cup {r.cur}) : PutBack(b)'
    BY <1>0, <1>2, <1>4, <2>2 DEF RestoreOK
  <2>4. QED
    BY <1>0, <1>1, <1>2, <1>5, <2>1, <2>3 DEF RestoreOK
<1>6. CASE r.cur = a
  <2>1. rows \subseteq Apps
    BY DEF TypeOK, DbOK
  <2>2. ~r.failed => \A b \in rows' \ (r.todo \cup {r.cur}) : PutBack(b)'
    BY <1>0, <1>2, <1>4, <2>1 DEF RestoreOK
  <2>3. r.pc = "boot" => ~Mounted(rest'[a].phase) /\ Whole(a)'
    BY <1>3, <1>6 DEF RestoreOK
  <2>4. r.pc = "restWait" =>
            /\ Mounted(rest'[a].phase) => rest'[a].data = NewestData(a)
            /\ rest'[a].phase = "blobs" => tars[a][Newest(a)] \subseteq vol'[a].refs
            /\ rest'[a].phase = "done" => Whole(a)'
    <3> SUFFICES ASSUME r.pc = "restWait"
                 PROVE  /\ Mounted(rest'[a].phase) => rest'[a].data = NewestData(a)
                        /\ rest'[a].phase = "blobs" => tars[a][Newest(a)] \subseteq vol'[a].refs
                        /\ rest'[a].phase = "done" => Whole(a)'
      OBVIOUS
    <3>0. /\ Mounted(rest[a].phase) => rest[a].data = NewestData(a)
          /\ rest[a].phase = "blobs" => tars[a][Newest(a)] \subseteq vol[a].refs
          /\ rest[a].phase = "done" => Whole(a)
      BY <1>6 DEF RestoreOK
    <3>1. CASE rest'[a].phase = "failed"
      BY <3>1
    <3>2. CASE rest[a].phase = "dbs" /\ rest'[a].phase = "blobs"
               /\ vol'[a].refs = rest[a].data.refs
      BY <3>0, <3>2, AppVolume DEF NewestData
    <3>3. CASE /\ rest[a].phase = "blobs" /\ rest'[a].phase = "done"
               /\ vol'[a].refs = vol[a].refs
               /\ vol'[a].blobs = vol[a].blobs \cup rest[a].data.blobs
      <4>1. vol[a].refs \subseteq vol[a].blobs \cup blobStore[a]
        BY DEF BlobsInv, VolumeOK, Covered
      <4>2. rest[a].data.blobs = blobStore[a]
        BY <3>0, <3>3 DEF NewestData
      <4>3. QED
        BY <1>0, <3>0, <3>3, <4>1, <4>2 DEF Whole
    <3>4. CASE rest'[a].phase = rest[a].phase /\ vol[a].refs \subseteq vol'[a].refs
      <4>1. rest[a].phase = "done" => Whole(a)'
        BY <1>3, <3>0
      <4>2. QED
        BY <3>0, <3>4, <4>1, AppVolume
    <3>5. QED
      BY <3>1, <3>2, <3>3, <3>4, AppVolume
  <2>5. QED
    BY <1>0, <1>1, <1>6, <2>2, <2>3, <2>4 DEF RestoreOK
<1>7. QED
  BY <1>5, <1>6

\* Which of its steps take a task into the middle of a restore.
LEMMA RestoreSteps ==
    ASSUME TypeOK, TasksInv, NEW p \in Tasks, TaskStep(p), PuttingBack(run[p])'
    PROVE  ListApps(p) \/ NextApp(p) \/ StageRestore(p) \/ StopForRestore(p)
           \/ StartRestore(p) \/ AwaitRestore(p) \/ BootRestored(p)
<1>0. /\ run'[p].pc \notin {"idle", "lock", "merge", "state", "list", "mark"}
      /\ RunOK(run[p]) /\ TaskOK(p)
      /\ run'[p].kind = "restore"
  BY Records DEF TasksInv, PuttingBack, RestorePcs
<1>1. ~Return(p) /\ ~Cancel(p) /\ ~MarkDay(p) /\ ~MergeState(p)
      /\ ~(p = Sched /\ Tick) /\ ~Request(p) /\ ~TakeLock(p)
  BY <1>0, ReturnFields, StartFields, TakeLockFields, GotoFields
  DEF Cancel, MarkDay, MergeState
<1>2. ~BackupState(p)
  BY <1>0, StateFields DEF BackupState, At, RunOK, BackupPcs
<1>3. ~RecordUpload(p)
  BY <1>0, GotoFields DEF RecordUpload, At, RunOK, BackupPcs
<1>4. ~PruneList(p)
  BY <1>0, PruneListFields, OverFields DEF PruneList, At, TaskOK, PrunePcs
<1>5. ~PruneObject(p)
  BY <1>0, GotoFields, OverFields DEF PruneObject, At, TaskOK, PrunePcs
<1>6. ~PruneRows(p)
  BY <1>0, OverFields DEF PruneRows, At, TaskOK, PrunePcs
<1>7. ~EndRun(p)
  BY <1>0, <1>1, GotoFields DEF EndRun
<1>8. ~StartSnapshot(p) /\ ~AwaitSnapshot(p)
  BY <1>0, GotoFields, OverFields DEF StartSnapshot, AwaitSnapshot, At, RunOK, BackupPcs
<1>9. ~UploadBlobs(p) /\ ~UploadTar(p)
  BY <1>0, GotoFields, OverFields DEF UploadBlobs, UploadTar, At, RunOK, BackupPcs
<1>10. QED
  BY <1>1, <1>2, <1>3, <1>4, <1>5, <1>6, <1>7, <1>8, <1>9 DEF TaskStep, Step

\* The steps of a restore change neither S3 nor the rows nor, by themselves,
\* a volume, and the restore container of its own app only.
LEMMA RestoreFrame ==
    ASSUME TypeOK, NEW p \in Tasks,
           ListApps(p) \/ NextApp(p) \/ StageRestore(p) \/ StopForRestore(p)
           \/ StartRestore(p) \/ AwaitRestore(p) \/ BootRestored(p)
    PROVE  /\ UNCHANGED s3 /\ UNCHANGED rows /\ UNCHANGED vol
           /\ \A b \in Apps : b # run[p].cur => rest'[b] = rest[b]
           /\ UNCHANGED rest \/ StartRestore(p) \/ AwaitRestore(p)
BY DEF ListApps, NextApp, StageRestore, StopForRestore, StartRestore, AwaitRestore, BootRestored,
   Removed, db, host, TypeOK, HostOK, Cur

LEMMA OwnRestore ==
    ASSUME "wait" \notin Events, TypeOK, TasksInv, RestoreInv, NEW p \in Tasks, TaskStep(p),
           NEW c \in {run[p].cur}, NEW r \in {run'[p]}, PuttingBack(r)
    PROVE  RestoreOK(r)'
<1> USE DEF Mounted
<1>0. /\ ListApps(p) \/ NextApp(p) \/ StageRestore(p) \/ StopForRestore(p)
         \/ StartRestore(p) \/ AwaitRestore(p) \/ BootRestored(p)
      /\ RunOK(run[p]) /\ TaskOK(p) /\ run[p] \in Runs /\ r = run'[p]
      /\ r.kind = "restore" /\ r.pc # "idle"
  <2>1. PuttingBack(run[p])'
    BY DEF PuttingBack
  <2>2. QED
    BY <2>1, RestoreSteps, Records DEF TasksInv, PuttingBack, RestorePcs
<1>1. /\ UNCHANGED rows /\ UNCHANGED tars /\ UNCHANGED blobStore /\ UNCHANGED vol
      /\ rows \subseteq Apps /\ None \notin Apps /\ State \notin Apps
      /\ \A x : Keys(x)' = Keys(x) /\ Newest(x)' = Newest(x)
      /\ \A b \in Apps : b # c => rest'[b] = rest[b]
  BY <1>0, RestoreFrame, SameKeys, SameNewest, NamesAssumption DEF s3, TypeOK, DbOK
<1>2. \A b : NewestData(b)' = NewestData(b) /\ Whole(b)' = Whole(b)
  BY <1>1 DEF NewestData, Whole
<1>3. \A b \in Apps : b # c => PutBack(b)' = PutBack(b)
  BY <1>1, <1>2 DEF PutBack
<1>4. UNCHANGED rest => \A b \in Apps : PutBack(b)' = PutBack(b)
  BY <1>1, <1>2 DEF PutBack
<1>5. PuttingBack(run[p]) => RestoreOK(run[p])
  BY DEF RestoreInv
<1>6. CASE ListApps(p)
  <2>1. r.pc = "next" /\ r.todo = rows
    BY <1>0, <1>6, ReturnFields, ListFields
  <2>2. QED
    BY <1>1, <2>1 DEF RestoreOK
<1>7. CASE NextApp(p)
  <2>1. /\ r.pc \in {"stage", "snap"} /\ r.cur \in run[p].todo /\ r.todo = run[p].todo \ {r.cur}
        /\ r.failed = run[p].failed /\ run[p].kind = "restore" /\ run[p].pc = "next"
        /\ run[p].cur = None /\ UNCHANGED rest
    BY <1>0, <1>7, NextFields DEF NextApp, At, TaskOK, host
  <2>2. RestoreOK(run[p])
    BY <1>5, <2>1 DEF PuttingBack
  <2>3. ~r.failed => \A b \in rows \ (r.todo \cup {r.cur}) : PutBack(b)'
    BY <1>1, <1>4, <2>1, <2>2 DEF RestoreOK
  <2>4. QED
    BY <1>1, <2>1, <2>3 DEF RestoreOK
<1>8. ASSUME run[p].pc \in {"stage", "replace", "apply", "restWait", "boot"}
      PROVE  /\ c \in Apps /\ run[p].kind = "restore" /\ RestoreOK(run[p])
             /\ ~run[p].failed => \A b \in rows \ (run[p].todo \cup {c}) : PutBack(b)'
  <2>1. c \in Apps /\ run[p].kind = "restore"
    BY <1>0, <1>8 DEF RunOK, AppPcs, TaskOK, RestorePcs
  <2>2. RestoreOK(run[p])
    BY <1>5, <1>8, <2>1 DEF PuttingBack, RestorePcs
  <2>3. QED
    BY <1>1, <1>3, <2>1, <2>2 DEF RestoreOK
<1>9. ASSUME run[p].pc \in {"stage", "replace", "apply", "restWait", "boot"},
             NEW ok \in BOOLEAN, Over(p, ok), ok => PutBack(c)'
      PROVE  RestoreOK(r)'
  <2>1. /\ r.pc = "next" /\ r.cur = None /\ r.todo = run[p].todo
        /\ r.failed = (run[p].failed \/ ~ok)
    BY <1>0, <1>1, <1>8, <1>9, OverFields DEF OverPc
  <2>2. ~r.failed => \A b \in rows \ (r.todo \cup {r.cur}) : PutBack(b)'
    BY <1>1, <1>8, <1>9, <2>1
  <2>3. QED
    BY <1>1, <2>1, <2>2 DEF RestoreOK
<1>10. ASSUME run[p].pc \in {"stage", "replace", "apply", "restWait", "boot"},
              r.cur = c, r.todo = run[p].todo, r.failed = run[p].failed
       PROVE  ~r.failed => \A b \in rows' \ (r.todo \cup {r.cur}) : PutBack(b)'
  BY <1>1, <1>8, <1>10
<1>11. CASE StageRestore(p)
  <2>0. run[p].pc = "stage" /\ UNCHANGED rest
    BY <1>11 DEF StageRestore, At, host
  <2>1. CASE \E ok \in BOOLEAN : Over(p, ok)
    <3>1. PICK ok \in BOOLEAN : Over(p, ok) /\ (ok => Keys(c) = {})
      <4>1. CASE Over(p, FALSE)
        BY <4>1
      <4>2. CASE ~Over(p, FALSE) /\ Keys(c) = {}
        BY <2>1, <4>2
      <4>3. CASE ~Over(p, FALSE) /\ Keys(c) # {}
        <5>1. run' = [run EXCEPT ![p].pc = "replace",
                        ![p].data = [refs |-> tars[Cur(p)][Newest(Cur(p))],
                                     blobs |-> RestoredBlobs(Cur(p))]]
          BY <1>11, <4>3 DEF StageRestore, Cur
        <5> DEFINE dt == [refs |-> tars[Cur(p)][Newest(Cur(p))],
                          blobs |-> RestoredBlobs(Cur(p))]
        <5> HIDE DEF dt
        <5>2. run'[p].pc = "replace"
          BY <5>1, Records DEF Runs, dt
        <5>3. FALSE
          BY <2>1, <5>2, OverFields DEF OverPc
        <5>4. QED
          BY <5>3
      <4>4. QED
        BY <4>1, <4>2, <4>3
    <3>2. ok => PutBack(c)'
      BY <1>1, <3>1 DEF PutBack
    <3>3. QED
      BY <1>9, <2>0, <3>1, <3>2
  <2>2. CASE ~\E ok \in BOOLEAN : Over(p, ok)
    <3>1. /\ r.pc = "replace" /\ r.cur = c /\ r.todo = run[p].todo
          /\ r.failed = run[p].failed /\ r.data = NewestData(c) /\ Keys(c) # {}
      BY <1>0, <1>11, <2>2, StageFields
    <3>2. QED
      BY <1>1, <1>2, <1>10, <2>0, <3>1 DEF RestoreOK
  <2>3. QED
    BY <2>1, <2>2
<1>12. CASE StopForRestore(p)
  <2>0. run[p].pc = "replace"
    BY <1>12 DEF StopForRestore, At
  <2>1. CASE Over(p, FALSE)
    BY <1>9, <2>0, <2>1
  <2>2. CASE Goto(p, "apply")
    <3>1. /\ r.pc = "apply" /\ r.cur = c /\ r.todo = run[p].todo
          /\ r.failed = run[p].failed /\ r.data = run[p].data
      BY <1>0, <2>2, GotoFields
    <3>2. Keys(c) # {} /\ run[p].data = NewestData(c)
      BY <1>8, <2>0 DEF RestoreOK
    <3>3. QED
      BY <1>1, <1>2, <1>10, <2>0, <3>1, <3>2 DEF RestoreOK
  <2>3. QED
    BY <1>12, <2>1, <2>2 DEF StopForRestore
<1>13. CASE StartRestore(p)
  <2>0. run[p].pc = "apply"
    BY <1>13 DEF StartRestore, At
  <2>1. CASE Over(p, FALSE)
    BY <1>9, <2>0, <2>1
  <2>2. CASE Goto(p, "restWait")
             /\ rest' = [rest EXCEPT ![Cur(p)] = [phase |-> "dbs", data |-> run[p].data]]
    <3>1. /\ r.pc = "restWait" /\ r.cur = c /\ r.todo = run[p].todo /\ r.failed = run[p].failed
      BY <1>0, <2>2, GotoFields
    <3>2. Keys(c) # {} /\ run[p].data = NewestData(c) /\ c \in Apps
      BY <1>8, <2>0 DEF RestoreOK
    <3>3. rest'[c].phase = "dbs" /\ rest'[c].data = NewestData(c)
      BY <2>2, <3>2 DEF TypeOK, HostOK, Cur
    <3>4. QED
      BY <1>1, <1>2, <1>10, <2>0, <3>1, <3>2, <3>3 DEF RestoreOK
  <2>3. QED
    BY <1>13, <2>1, <2>2 DEF StartRestore
<1>14. CASE AwaitRestore(p)
  <2>0. run[p].pc = "restWait" /\ ~Fault("wait")
    BY <1>14 DEF AwaitRestore, At, Fault
  <2>1. CASE Over(p, FALSE)
    BY <1>9, <2>0, <2>1
  <2>2. CASE Goto(p, "boot") /\ rest[c].phase = "done"
    <3>1. /\ r.pc = "boot" /\ r.cur = c /\ r.todo = run[p].todo /\ r.failed = run[p].failed
      BY <1>0, <2>2, GotoFields
    <3>2. Whole(c) /\ c \in Apps
      BY <1>8, <2>0, <2>2 DEF RestoreOK
    <3>3. rest'[c].phase = "none"
      <4>1. rest' = [rest EXCEPT ![c] = NoRestore]
        BY <1>14, <2>0, <2>2 DEF AwaitRestore, Removed, Cur
      <4>2. QED
        BY <3>2, <4>1 DEF TypeOK, HostOK, NoRestore
    <3>4. QED
      BY <1>1, <1>2, <1>10, <2>0, <3>1, <3>2, <3>3 DEF RestoreOK
  <2>3. QED
    BY <1>14, <2>0, <2>1, <2>2 DEF AwaitRestore, Cur
<1>15. CASE BootRestored(p)
  <2>0. run[p].pc = "boot" /\ UNCHANGED rest
    BY <1>15 DEF BootRestored, At
  <2>1. PutBack(c)
    BY <1>8, <2>0 DEF RestoreOK, PutBack
  <2>2. PutBack(c)'
    BY <1>4, <1>8, <2>0, <2>1
  <2>3. \E ok \in BOOLEAN : Over(p, ok)
    BY <1>15 DEF BootRestored
  <2>4. QED
    BY <1>9, <2>0, <2>2, <2>3
<1>16. QED
  BY <1>0, <1>6, <1>7, <1>11, <1>12, <1>13, <1>14, <1>15

LEMMA InitRestore == Init => RestoreInv
BY DEF Init, RestoreInv, PuttingBack, NoRun

LEMMA StepRestore ==
    ASSUME "wait" \notin Events, TypeOK, HoldersLock, BlobsInv, TasksInv, RestoreInv, [Next]_vars
    PROVE  RestoreInv'
<1>1. CASE Crash \/ Disaster
  <2>1. \A p \in Tasks : run'[p].kind = "none"
    BY <1>1 DEF Crash, Disaster, NoRun
  <2>2. QED
    BY <2>1 DEF RestoreInv, PuttingBack
<1>2. CASE UNCHANGED <<run, s3, rows, vol, rest>>
  <2> SUFFICES ASSUME NEW p \in Tasks, NEW r \in {run'[p]}, PuttingBack(r) PROVE RestoreOK(r)'
    BY DEF RestoreInv, PuttingBack
  <2>1. RestoreOK(r)
    BY <1>2 DEF RestoreInv
  <2>2. QED
    BY <1>2, <2>1, SameRestore
<1>3. ASSUME NEW p \in Tasks, TaskStep(p) PROVE RestoreInv'
  <2> SUFFICES ASSUME NEW q \in Tasks, NEW r \in {run'[q]}, PuttingBack(r) PROVE RestoreOK(r)'
    BY DEF RestoreInv, PuttingBack
  <2>1. CASE q # p
    <3>1. run'[q] = run[q] /\ UNCHANGED s3 /\ UNCHANGED host /\ UNCHANGED rows
      BY <1>3, <2>1, Alone DEF PuttingBack, RestorePcs, Holding, AppPcs
    <3>2. RestoreOK(r)
      BY <3>1 DEF RestoreInv
    <3>3. QED
      BY <3>1, <3>2, SameRestore DEF host
  <2>2. CASE q = p
    BY <1>3, <2>2, OwnRestore
  <2>3. QED
    BY <2>1, <2>2
<1>4. ASSUME NEW a \in Apps, AppStep(a) PROVE RestoreInv'
  <2> SUFFICES ASSUME NEW q \in Tasks, NEW r \in {run'[q]}, PuttingBack(r) PROVE RestoreOK(r)'
    BY DEF RestoreInv, PuttingBack
  <2>1. r = run[q] /\ r \in Runs /\ RunOK(r)
    BY <1>4, AppVolume, Records
  <2>2. RestoreOK(r)
    BY <2>1 DEF RestoreInv
  <2>3. QED
    BY <1>4, <2>1, <2>2, AppRestores
<1>5. QED
  BY <1>1, <1>2, <1>3, <1>4, NextSplits DEF NextDay, Configure, vars, db, host

(* A restore that skipped no app has left each app that has a backup with all  *)
(* of its newest one, and with every blob that its volume refers to: crashes,  *)
(* dropped requests, an operator, and the leftovers of earlier restores        *)
(* included, unless the wait for its container or a snapshot's copy breaks.    *)
THEOREM RestoresAreWhole ==
    ASSUME {"copy", "wait"} \cap Events = {} PROVE Spec => []RestoreIsWhole
<1>1. Init => HoldersLock /\ BlobsInv /\ TasksInv /\ RestoreInv
  BY InitLock, InitBlobs, InitTasks, InitRestore
<1>2. TypeOK /\ HoldersLock /\ BlobsInv /\ TasksInv /\ RestoreInv /\ [Next]_vars
      => HoldersLock' /\ BlobsInv' /\ TasksInv' /\ RestoreInv'
  BY StepLock, StepBlobs, StepTasks, StepRestore
<1>3. TypeOK /\ TasksInv /\ RestoreInv => RestoreIsWhole
  <2> SUFFICES ASSUME TypeOK, TasksInv, RestoreInv, NEW p \in Tasks, At(p, "next"), Restoring(p),
                      run[p].todo = {}, ~run[p].failed, NEW a \in rows, Keys(a) # {}
               PROVE  /\ tars[a][Newest(a)] \subseteq vol[a].refs
                      /\ vol[a].refs \subseteq vol[a].blobs
    BY DEF RestoreIsWhole
  <2>1. RestoreOK(run[p]) /\ run[p].cur = None /\ a # None
    BY NamesAssumption
    DEF RestoreInv, PuttingBack, TasksInv, TaskOK, At, Restoring, TypeOK, DbOK
  <2>2. PutBack(a)
    BY <2>1 DEF RestoreOK
  <2>3. QED
    BY <2>2 DEF PutBack, Whole
<1>4. QED
  BY <1>1, <1>2, <1>3, InitType, StepType, PTL DEF Spec

-----------------------------------------------------------------------------
(* What happens to the keys *)

LEMMA LatestSame ==
    ASSUME NEW K, NEW G, NEW G2, NEW n, Latest(K, G, n), K \cap G \subseteq G2
    PROVE  Latest(K, G2, n)
BY DEF Latest

\* The latest day stays latest when an older one goes.
LEMMA LatestDrop ==
    ASSUME NEW K, K \subseteq Days, NEW K2, NEW x \in Days, K2 \subseteq K, K \ {x} \subseteq K2,
           \E e \in K : x < e, NEW G, NEW G2, (K \ {x}) \cap G \subseteq G2,
           NEW n, Latest(K, G, n)
    PROVE  Latest(K2, G2, n)
<1>1. PICK d \in K \cap G : d >= n /\ \A e \in K : e <= d
  BY DEF Latest
<1>2. d # x
  <2>1. PICK e \in K : x < e
    OBVIOUS
  <2>2. e <= d /\ e \in Int /\ d \in Int /\ x \in Int
    BY <1>1, <2>1 DEF Days
  <2>3. QED
    BY <2>1, <2>2
<1>3. d \in K2 \cap G2
  BY <1>1, <1>2
<1>4. QED
  BY <1>1, <1>3 DEF Latest

\* A day that is not before any other becomes the latest.
LEMMA LatestAdd ==
    ASSUME NEW K, K \subseteq Days, NEW m \in Days, \A e \in K : e <= m, NEW G, m \in G,
           NEW n \in Days, n <= m
    PROVE  Latest(K \cup {m}, G, n)
<1>1. m >= n /\ \A e \in K \cup {m} : e <= m
  BY DEF Days
<1>2. QED
  BY <1>1 DEF Latest

\* What a task does to the snapshots of the state database.
LEMMA StateKeys ==
    ASSUME TypeOK, PruneInv, NEW p \in Tasks, TaskStep(p)
    PROVE  \/ UNCHANGED states
           \/ /\ BackupState(p)
              /\ states' = [states EXCEPT ![run[p].date] = rows]
              /\ Keys(State)' = Keys(State) \cup {run[p].date}
           \/ \E x \in Days : /\ states' = [states EXCEPT ![x] = None]
                              /\ Keys(State)' = Keys(State) \ {x}
                              /\ \E e \in Keys(State) : x < e
<1>0. RunOK(run[p]) /\ run[p].doomed \in SUBSET Days
  BY Records
<1>1. CASE BackupState(p) /\ ~UNCHANGED states
  <2>1. states' = [states EXCEPT ![run[p].date] = rows]
    BY <1>1 DEF BackupState
  <2>2. run[p].date \in Days
    BY <1>0, <1>1 DEF BackupState, At, RunOK, BackupPcs
  <2>3. rows # None
    BY NamesAssumption DEF TypeOK, DbOK
  <2>4. Keys(State)' = Keys(State) \cup {run[p].date}
    BY <2>1, <2>2, <2>3 DEF Keys, TypeOK, S3OK
  <2>5. QED
    BY <1>1, <2>1, <2>4
<1>2. CASE PruneObject(p) /\ ~UNCHANGED states
  <2>1. PICK x \in run[p].doomed \cap Keys(State) :
          states' = [states EXCEPT ![x] = None] /\ Cur(p) = State
    BY <1>2 DEF PruneObject
  <2>2. Keys(State)' = Keys(State) \ {x}
    BY <1>0, <2>1 DEF Keys, TypeOK, S3OK
  <2>3. \E e \in Keys(State) : x < e
    BY <1>2, <2>1 DEF PruneObject, PruneInv
  <2>4. QED
    BY <1>0, <2>1, <2>2, <2>3
<1>3. UNCHANGED states \/ BackupState(p) \/ PruneObject(p)
  BY Frame DEF s3, ChangesS3, UploadBlobs, UploadTar
<1>4. QED
  BY <1>1, <1>2, <1>3

\* What a task does to the tarballs of an app.
LEMMA TarKeys ==
    ASSUME TypeOK, PruneInv, NEW p \in Tasks, TaskStep(p), NEW a \in Apps
    PROVE  \/ tars'[a] = tars[a] /\ Keys(a)' = Keys(a)
           \/ /\ UploadTar(p) /\ Goto(p, "record") /\ a = run[p].cur
              /\ tars'[a] = [tars[a] EXCEPT ![run[p].date] = stage[a].refs]
              /\ Keys(a)' = Keys(a) \cup {run[p].date}
           \/ \E x \in Days : /\ tars'[a] = [tars[a] EXCEPT ![x] = None]
                              /\ Keys(a)' = Keys(a) \ {x}
                              /\ \E e \in Keys(a) : x < e
<1>0. /\ RunOK(run[p]) /\ run[p].doomed \in SUBSET Days /\ a # State
      /\ tars[a] \in [Days -> (SUBSET Blobs) \cup {None}]
  BY Records, NamesAssumption DEF TypeOK, S3OK
<1>1. CASE tars'[a] = tars[a]
  <2>1. Keys(a)' = Keys(a)
    BY <1>0, <1>1 DEF Keys
  <2>2. QED
    BY <1>1, <2>1
<1>2. CASE UploadTar(p) /\ tars'[a] # tars[a]
  <2>1. /\ tars' = [tars EXCEPT ![run[p].cur][run[p].date] = stage[run[p].cur].refs]
        /\ Goto(p, "record")
    BY <1>2 DEF UploadTar, Cur
  <2>2. a = run[p].cur /\ run[p].date \in Days
    BY <1>0, <1>2, <2>1 DEF UploadTar, At, RunOK, BackupPcs, TypeOK, S3OK
  <2>3. stage[a].refs # None
    BY DataParts, NamesAssumption DEF TypeOK, HostOK
  <2>4. tars'[a] = [tars[a] EXCEPT ![run[p].date] = stage[a].refs]
    BY <2>1, <2>2 DEF TypeOK, S3OK
  <2>5. Keys(a)' = Keys(a) \cup {run[p].date}
    BY <1>0, <2>2, <2>3, <2>4 DEF Keys
  <2>6. QED
    BY <1>2, <2>1, <2>2, <2>4, <2>5
<1>3. CASE PruneObject(p) /\ tars'[a] # tars[a]
  <2>1. PICK x \in run[p].doomed \cap Keys(run[p].cur) :
          tars' = [tars EXCEPT ![run[p].cur][x] = None]
    BY <1>3 DEF PruneObject, Cur
  <2>2. a = run[p].cur
    BY <1>3, <2>1 DEF TypeOK, S3OK
  <2>3. tars'[a] = [tars[a] EXCEPT ![x] = None]
    BY <2>1, <2>2 DEF TypeOK, S3OK
  <2>4. Keys(a)' = Keys(a) \ {x}
    BY <1>0, <2>1, <2>3 DEF Keys
  <2>5. \E e \in Keys(a) : x < e
    BY <1>3, <2>1, <2>2 DEF PruneObject, PruneInv, Cur
  <2>6. QED
    BY <1>0, <2>1, <2>3, <2>4, <2>5
<1>4. UNCHANGED tars \/ UploadTar(p) \/ PruneObject(p)
  BY Frame DEF s3, ChangesS3, UploadBlobs, BackupState
<1>5. QED
  BY <1>1, <1>2, <1>3, <1>4

-----------------------------------------------------------------------------
(* The dates of the keys *)

\* A backup's date is the day it took the lock.
LEMMA BackingDate ==
    ASSUME TypeOK, NEW p \in Tasks, TaskStep(p), Backing(run[p])'
    PROVE  \/ /\ TakeLock(p) /\ ~Return(p) /\ ~Restoring(p) /\ run'[p].date = day
              /\ run'[p].pc = "state" /\ run'[p].failed = run[p].failed
              /\ \A a \in Apps : run'[p].seen[a] = vol[a].refs
           \/ /\ Backing(run[p]) /\ run[p].pc # "mark" /\ run'[p].date = run[p].date
              /\ run'[p].seen = run[p].seen
              /\ ~run'[p].failed => ~run[p].failed
              /\ run'[p].pc # "state" /\ run[p].pc \notin {"idle", "lock"}
<1>0. run'[p].pc \in Holding \cup {"mark"} /\ run'[p].kind # "restore"
  BY DEF Backing
<1> HIDE DEF Backing
<1>1. run'[p].pc \notin {"idle", "lock"}
  BY <1>0 DEF Holding, BackupPcs, PrunePcs, AppPcs
<1>2. ~Return(p) /\ ~Cancel(p) /\ ~MarkDay(p) /\ ~(p = Sched /\ Tick) /\ ~Request(p)
  BY <1>1, ReturnFields, StartFields DEF Cancel, MarkDay
<1>3. CASE TakeLock(p)
  BY <1>0, <1>2, <1>3, TakeLockFields DEF Restoring, Backing
<1>4. ASSUME run[p].pc \in Holding, run'[p].kind = run[p].kind, run'[p].date = run[p].date,
             run'[p].seen = run[p].seen, ~run'[p].failed => ~run[p].failed, run'[p].pc # "state"
      PROVE  /\ Backing(run[p]) /\ run[p].pc # "mark" /\ run'[p].date = run[p].date
             /\ run'[p].seen = run[p].seen
             /\ ~run'[p].failed => ~run[p].failed
             /\ run'[p].pc # "state" /\ run[p].pc \notin {"idle", "lock"}
  BY <1>0, <1>4 DEF Holding, BackupPcs, PrunePcs, AppPcs, Backing
<1>5. CASE Step(p)
  <2>1. run[p].pc \in Holding
    BY <1>2, <1>5 DEF Step, At, BackupState, RecordUpload, PruneList, PruneObject, PruneRows,
       ListApps, NextApp, EndRun, StartSnapshot, AwaitSnapshot, UploadBlobs, UploadTar,
       MergeState, StageRestore, StopForRestore, StartRestore, AwaitRestore, BootRestored,
       Holding, BackupPcs, PrunePcs, AppPcs
  <2>2. ASSUME NEW ok \in BOOLEAN, Over(p, ok)
        PROVE  /\ run'[p].kind = run[p].kind /\ run'[p].date = run[p].date
               /\ run'[p].seen = run[p].seen /\ (~run'[p].failed => ~run[p].failed)
               /\ run'[p].pc # "state"
    BY <2>2, OverFields DEF OverPc
  <2>3. ASSUME NEW pc, Goto(p, pc), pc # "state"
        PROVE  /\ run'[p].kind = run[p].kind /\ run'[p].date = run[p].date
               /\ run'[p].seen = run[p].seen /\ (~run'[p].failed => ~run[p].failed)
               /\ run'[p].pc # "state"
    BY <2>3, GotoFields
  <2>4. CASE BackupState(p)
    BY <1>4, <2>1, <2>4, StateFields
  <2>5. CASE RecordUpload(p) \/ PruneRows(p) \/ EndRun(p) \/ StartSnapshot(p) \/ AwaitSnapshot(p)
             \/ UploadTar(p) \/ MergeState(p) \/ StopForRestore(p) \/ StartRestore(p)
             \/ AwaitRestore(p) \/ BootRestored(p)
    <3>1. (\E ok \in BOOLEAN : Over(p, ok))
          \/ \E pc \in {"prune", "mark", "snapWait", "blobs", "record", "list", "apply",
                        "restWait", "boot"} : Goto(p, pc)
      BY <1>2, <2>5 DEF RecordUpload, PruneRows, EndRun, StartSnapshot, AwaitSnapshot, UploadTar,
         MergeState, StopForRestore, StartRestore, AwaitRestore, BootRestored
    <3>2. QED
      BY <1>4, <2>1, <2>2, <2>3, <3>1
  <2>6. CASE PruneList(p)
    BY <1>4, <2>1, <2>2, <2>6, PruneListFields
  <2>7. CASE PruneObject(p) \/ UploadBlobs(p)
    <3>1. (\E ok \in BOOLEAN : Over(p, ok)) \/ UNCHANGED run
          \/ \E pc \in {"pruneRows", "tar"} : Goto(p, pc)
      BY <2>7 DEF PruneObject, UploadBlobs
    <3>2. run[p].pc # "state"
      BY <2>7 DEF PruneObject, UploadBlobs, At
    <3>3. QED
      BY <1>4, <2>1, <2>2, <2>3, <3>1, <3>2
  <2>8. CASE ListApps(p)
    BY <1>2, <1>4, <2>1, <2>8, ListFields
  <2>9. CASE NextApp(p)
    BY <1>4, <2>1, <2>9, NextFields
  <2>10. CASE StageRestore(p)
    BY <1>4, <2>1, <2>2, <2>10, StageFields
  <2>11. QED
    BY <1>2, <1>5, <2>4, <2>5, <2>6, <2>7, <2>8, <2>9, <2>10 DEF Step
<1>6. QED
  BY <1>2, <1>3, <1>5 DEF TaskStep

LEMMA InitDates == Init => DatesInv
<1> SUFFICES ASSUME Init PROVE DatesInv
  OBVIOUS
<1>1. \A x \in Prefixes : Keys(x) = {}
  BY KeysAre DEF Init, Prefixes
<1>2. \A p \in Tasks : run[p].pc = "idle"
  BY DEF Init, NoRun
<1>3. QED
  BY <1>1, <1>2 DEF DatesInv, Backing, Holding, BackupPcs, PrunePcs, AppPcs

\* A step of a task adds keys of its own date only.
LEMMA KeysMove ==
    ASSUME TypeOK, PruneInv, NEW p \in Tasks, TaskStep(p), NEW x \in Prefixes
    PROVE  \/ Keys(x)' \subseteq Keys(x)
           \/ /\ Backing(run[p]) /\ run[p].pc # "mark"
              /\ Keys(x)' = Keys(x) \cup {run[p].date}
<1>1. RunOK(run[p])
  BY Records
<1>2. BackupState(p) \/ UploadTar(p) => Backing(run[p]) /\ run[p].pc # "mark"
  BY <1>1 DEF BackupState, UploadTar, At, Backing, RunOK, Holding, BackupPcs
<1>3. CASE x = State
  <2>1. UNCHANGED states => Keys(State)' = Keys(State)
    BY KeysAre DEF Keys
  <2>2. QED
    BY <1>2, <1>3, <2>1, StateKeys
<1>4. CASE x \in Apps
  BY <1>2, <1>4, TarKeys
<1>5. QED
  BY <1>3, <1>4 DEF Prefixes

LEMMA StepDates == TypeOK /\ HoldersLock /\ PruneInv /\ DatesInv /\ [Next]_vars => DatesInv'
<1> SUFFICES ASSUME TypeOK, HoldersLock, PruneInv, DatesInv, [Next]_vars PROVE DatesInv'
  OBVIOUS
<1>0. /\ \A x \in Prefixes : Keys(x) \subseteq Days
      /\ \A q \in Tasks : Backing(run[q]) => run[q].date \in Days
      /\ day \in Days /\ Days \subseteq Nat
  BY KeysAre, Records, NoRunIdle
  DEF TypeOK, Days, Backing, RunOK, Holding, BackupPcs, PrunePcs, AppPcs
<1>1. CASE Crash \/ Disaster
  <2>1. UNCHANGED s3 /\ UNCHANGED day /\ \A p \in Tasks : run'[p].pc = "idle"
    BY <1>1 DEF Crash, Disaster, NoRun
  <2>2. \A p \in Tasks : ~Backing(run[p])'
    BY <2>1 DEF Backing, Holding, BackupPcs, PrunePcs, AppPcs
  <2>3. QED
    BY <2>1, <2>2, SameKeys DEF DatesInv
<1>2. CASE UNCHANGED <<s3, run>> /\ (UNCHANGED day \/ NextDay)
  <2>1. day' \in Nat /\ day <= day' /\ \A x : Keys(x)' = Keys(x)
    BY <1>0, <1>2, SameKeys DEF NextDay
  <2>2. \A p \in Tasks : run'[p] = run[p]
    BY <1>2
  <2>3. \A x \in Prefixes : \A d \in Keys(x)' : d <= day'
    <3>1. ASSUME NEW x \in Prefixes, NEW d \in Keys(x) PROVE d <= day'
      <4>1. d <= day /\ d \in Nat /\ day \in Nat
        BY <1>0, <3>1 DEF DatesInv
      <4>2. QED
        BY <2>1, <4>1
    <3>2. QED
      BY <2>1, <3>1
  <2>4. \A p \in Tasks : Backing(run[p]) => run[p].date <= day'
    <3>1. ASSUME NEW p \in Tasks, Backing(run[p]) PROVE run[p].date <= day'
      <4>1. run[p].date <= day /\ run[p].date \in Nat /\ day \in Nat
        BY <1>0, <3>1 DEF DatesInv
      <4>2. QED
        BY <2>1, <4>1
    <3>2. QED
      BY <3>1
  <2>5. QED
    BY <2>1, <2>2, <2>3, <2>4 DEF DatesInv, Backing
<1>3. ASSUME NEW p \in Tasks, TaskStep(p) PROVE DatesInv'
  <2>0. UNCHANGED day /\ \A q \in Tasks : q # p => run'[q] = run[q]
    BY <1>3, Frame, TaskRuns DEF OwnRun
  <2>1. ASSUME NEW x \in Prefixes, NEW d \in Keys(x)' PROVE d <= day
    <3>1. d \in Keys(x) \/ (Backing(run[p]) /\ d = run[p].date)
      BY <1>3, <2>1, KeysMove
    <3>2. QED
      BY <3>1 DEF DatesInv
  <2>2. ASSUME NEW q \in Tasks, Backing(run[q])' PROVE run'[q].date <= day
    <3>1. CASE q # p
      BY <2>0, <2>2, <3>1 DEF DatesInv, Backing
    <3>2. CASE q = p
      <4>1. run'[p].date = day \/ (Backing(run[p]) /\ run'[p].date = run[p].date)
        BY <1>3, <2>2, <3>2, BackingDate
      <4>2. QED
        BY <1>0, <3>2, <4>1 DEF DatesInv
    <3>3. QED
      BY <3>1, <3>2
  <2>3. ASSUME NEW q \in Tasks, Backing(run[q])', run'[q].pc # "mark",
               NEW x \in Prefixes, NEW d \in Keys(x)'
        PROVE  d <= run'[q].date
    <3>1. CASE q # p
      <4>1. run'[q].pc \in Holding
        BY <2>3 DEF Backing
      <4>2. run'[q] = run[q] /\ Keys(x)' = Keys(x)
        BY <1>3, <3>1, <4>1, Undisturbed, SameKeys
      <4>3. QED
        BY <2>3, <4>2 DEF DatesInv, Backing
    <3>2. CASE q = p
      <4>1. CASE run'[p].date = day
        BY <2>1, <2>3, <3>2, <4>1
      <4>2. CASE Backing(run[p]) /\ run[p].pc # "mark" /\ run'[p].date = run[p].date
        <5>1. d \in Keys(x) \/ d = run[p].date
          BY <1>3, <2>3, KeysMove
        <5>2. run[p].date \in Nat
          BY <1>0, <4>2
        <5>3. QED
          BY <3>2, <4>2, <5>1, <5>2 DEF DatesInv
      <4>3. QED
        BY <1>3, <2>3, <3>2, <4>1, <4>2, BackingDate
    <3>3. QED
      BY <3>1, <3>2
  <2>4. QED
    BY <2>0, <2>1, <2>2, <2>3 DEF DatesInv
<1>4. QED
  BY <1>1, <1>2, <1>3, NextSplits
  DEF NextDay, Configure, AppStep, Snapshot, Apply, AppWrites, Operate, vars

-----------------------------------------------------------------------------
(* What a run saw stays where it can be captured *)

\* A step that is no task's keeps the floor of an app.
LEMMA AppFloor ==
    ASSUME TypeOK, MountInv, NEW b \in Apps, AppStep(b), NEW a \in Apps, NEW R, Floor(a, R)
    PROVE  Floor(a, R)'
<1> USE DEF Mounted
<1>0. /\ vol \in [Apps -> Data] /\ stage \in [Apps -> Data] /\ snap \in [Apps -> Phases]
      /\ rest \in [Apps -> [phase : Phases, data : Data]]
      /\ R \subseteq vol[a].refs /\ \A q \in Tasks : FloorAt(a, R, run[q])
  BY DEF TypeOK, HostOK, Floor
<1>1. UNCHANGED run
  BY DEF AppStep, Snapshot, Apply, AppWrites, Operate
<1>2. ASSUME R \subseteq vol'[a].refs,
             snap'[a] \in {"blobs", "done"} /\ snap[a] \notin {"blobs", "done"}
                => R \subseteq stage'[a].refs,
             R \subseteq stage[a].refs => R \subseteq stage'[a].refs,
             rest'[a].phase = "dbs" => rest[a].phase = "dbs",
             rest'[a].data = rest[a].data
      PROVE  Floor(a, R)'
  <2>1. ASSUME NEW q \in Tasks, NEW r \in {run[q]} PROVE FloorAt(a, R, r)'
    BY <1>0, <1>2 DEF FloorAt
  <2>2. QED
    BY <1>1, <1>2, <2>1 DEF Floor
<1>3. CASE b # a
  <2>1. vol'[a] = vol[a] /\ stage'[a] = stage[a] /\ snap'[a] = snap[a] /\ rest'[a] = rest[a]
    BY <1>0, <1>3 DEF AppStep, Snapshot, Apply, AppWrites, Operate
  <2>2. QED
    BY <1>0, <1>2, <2>1
<1>4. CASE b = a /\ Snapshot(a)
  <2>0. UNCHANGED vol /\ UNCHANGED rest
    BY <1>4 DEF Snapshot
  <2>1. CASE /\ snap[a] = "dbs" /\ snap' = [snap EXCEPT ![a] = "blobs"]
             /\ stage' = [stage EXCEPT ![a] = [refs |-> vol[a].refs, blobs |-> {}]]
    <3>1. stage'[a].refs = vol[a].refs
      BY <1>0, <2>1
    <3>2. QED
      BY <1>0, <1>2, <2>0, <3>1
  <2>2. CASE /\ snap[a] = "blobs" /\ snap' = [snap EXCEPT ![a] = "done"]
             /\ \E some : stage' = [stage EXCEPT ![a].blobs = some]
    <3>1. stage'[a].refs = stage[a].refs
      BY <1>0, <2>2 DEF Data
    <3>2. QED
      BY <1>0, <1>2, <2>0, <2>2, <3>1
  <2>3. CASE snap' = [snap EXCEPT ![a] = "failed"] /\ UNCHANGED stage
    <3>1. snap'[a] = "failed"
      BY <1>0, <2>3
    <3>2. QED
      BY <1>0, <1>2, <2>0, <2>3, <3>1
  <2>4. QED
    BY <1>4, <2>1, <2>2, <2>3 DEF Snapshot
<1>5. CASE b = a /\ Apply(a)
  <2>0. UNCHANGED <<snap, stage>>
    BY <1>5 DEF Apply
  <2>1. CASE /\ rest[a].phase = "dbs" /\ rest' = [rest EXCEPT ![a].phase = "blobs"]
             /\ vol' = [vol EXCEPT ![a].refs = rest[a].data.refs]
    <3>1. PICK q \in Tasks : run[q].pc = "restWait" /\ run[q].cur = a
      BY <2>1 DEF MountInv, At, Cur
    <3>2. R \subseteq rest[a].data.refs
      BY <1>0, <2>1, <3>1 DEF FloorAt
    <3>3. vol'[a].refs = rest[a].data.refs /\ rest'[a].phase = "blobs"
          /\ rest'[a].data = rest[a].data
      BY <1>0, <2>1 DEF Data
    <3>4. QED
      BY <1>2, <2>0, <3>2, <3>3
  <2>2. CASE /\ rest[a].phase = "blobs" /\ rest' = [rest EXCEPT ![a].phase = "done"]
             /\ vol' = [vol EXCEPT ![a].blobs = @ \cup rest[a].data.blobs]
    <3>1. vol'[a].refs = vol[a].refs /\ rest'[a].phase = "done" /\ rest'[a].data = rest[a].data
      BY <1>0, <2>2 DEF Data
    <3>2. QED
      BY <1>0, <1>2, <2>0, <3>1
  <2>3. CASE rest' = [rest EXCEPT ![a].phase = "failed"] /\ UNCHANGED vol
    <3>1. rest'[a].phase = "failed" /\ rest'[a].data = rest[a].data
      BY <1>0, <2>3
    <3>2. QED
      BY <1>0, <1>2, <2>0, <2>3, <3>1
  <2>4. QED
    BY <1>5, <2>1, <2>2, <2>3 DEF Apply
<1>6. CASE b = a /\ (AppWrites(a) \/ Operate(a))
  <2>1. UNCHANGED <<snap, stage, rest>>
    BY <1>6 DEF AppWrites, Operate
  <2>2. vol[a].refs \subseteq vol'[a].refs
    BY <1>0, <1>6 DEF AppWrites, Operate, Data
  <2>3. QED
    BY <1>0, <1>2, <2>1, <2>2
<1>7. QED
  BY <1>3, <1>4, <1>5, <1>6 DEF AppStep

\* So does a task's, when the backup it restores has the references.
LEMMA TaskFloor ==
    ASSUME "wait" \notin Events, TypeOK, HoldersLock, NEW p \in Tasks, TaskStep(p),
           NEW a \in Apps, NEW R, Floor(a, R),
           StageRestore(p) /\ run[p].cur = a /\ Keys(a) # {} => R \subseteq tars[a][Newest(a)]
    PROVE  Floor(a, R)'
<1>0. /\ stage \in [Apps -> Data] /\ snap \in [Apps -> Phases]
      /\ rest \in [Apps -> [phase : Phases, data : Data]]
      /\ R \subseteq vol[a].refs /\ \A q \in Tasks : FloorAt(a, R, run[q])
      /\ run \in [Tasks -> Runs]
  BY Records DEF TypeOK, HostOK, Floor
<1>1. UNCHANGED vol
  BY Frame DEF host, ChangesHost, StartSnapshot, AwaitSnapshot, UploadBlobs, UploadTar,
     StopForRestore, StartRestore, AwaitRestore, BootRestored
<1>2. ASSUME NEW q \in Tasks, q # p, NEW r \in {run'[q]} PROVE FloorAt(a, R, r)'
  <2>1. CASE r.pc \in Holding
    <3>1. r = run[q] /\ UNCHANGED host
      BY <1>2, <2>1, Undisturbed
    <3>2. QED
      BY <1>0, <3>1 DEF FloorAt, host
  <2>2. CASE r.pc \notin Holding
    BY <2>2 DEF FloorAt, Holding, BackupPcs, AppPcs
  <2>3. QED
    BY <2>1, <2>2
<1>3. ASSUME NEW r \in {run'[p]} PROVE FloorAt(a, R, r)'
  <2> SUFFICES ASSUME r.cur = a
               PROVE  /\ (r.pc = "snapWait" /\ snap'[a] \in {"blobs", "done"})
                         \/ r.pc \in {"blobs", "tar"} => R \subseteq stage'[a].refs
                      /\ r.pc \in {"replace", "apply"} => R \subseteq r.data.refs
                      /\ r.pc = "restWait" /\ rest'[a].phase = "dbs"
                         => R \subseteq rest'[a].data.refs
    BY DEF FloorAt
  <2>0. FloorAt(a, R, run[p])
    BY <1>0
  <2>1. ASSUME r.pc = "snapWait" PROVE snap'[a] = "dbs"
    <3>1. StartSnapshot(p)
      BY <1>3, <2>1, Arrives
    <3>2. Goto(p, "snapWait") /\ snap' = [snap EXCEPT ![run[p].cur] = "dbs"]
      BY <1>3, <2>1, <3>1, Where DEF StartSnapshot, Cur
    <3>3. run[p].cur = a
      BY <1>3, <3>2, Where
    <3>4. QED
      BY <1>0, <3>2, <3>3
  <2>2. ASSUME r.pc = "blobs" PROVE R \subseteq stage'[a].refs
    <3>1. CASE AwaitSnapshot(p)
      <4>1. ~Fault("wait")
        BY DEF Fault
      <4>2. Goto(p, "blobs") /\ run[p].pc = "snapWait" /\ snap[run[p].cur] = "done"
            /\ UNCHANGED stage
        BY <1>3, <2>2, <3>1, <4>1, Where DEF AwaitSnapshot, Cur, At
      <4>3. run[p].cur = a
        BY <1>3, <4>2, Where
      <4>4. QED
        BY <2>0, <4>2, <4>3 DEF FloorAt
    <3>2. CASE UploadBlobs(p) /\ UNCHANGED run
      <4>1. run[p].cur = a /\ run[p].pc = "blobs"
        BY <1>3, <2>2, <3>2
      <4>2. stage'[a].refs = stage[a].refs
        <5>1. UNCHANGED stage \/ stage' = [stage EXCEPT ![a].blobs = {}]
          BY <3>2, <4>1 DEF UploadBlobs, Cur
        <5>2. QED
          BY <1>0, <5>1 DEF Data
      <4>3. QED
        BY <2>0, <4>1, <4>2 DEF FloorAt
    <3>3. QED
      BY <1>3, <2>2, <3>1, <3>2, Arrives
  <2>3. ASSUME r.pc = "tar" PROVE R \subseteq stage'[a].refs
    <3>1. UploadBlobs(p)
      BY <1>3, <2>3, Arrives
    <3>2. Goto(p, "tar") /\ run[p].pc = "blobs"
          /\ stage' = [stage EXCEPT ![run[p].cur].blobs = {}]
      BY <1>3, <2>3, <3>1, Where DEF UploadBlobs, At, Cur
    <3>3. run[p].cur = a
      BY <1>3, <3>2, Where
    <3>4. stage'[a].refs = stage[a].refs
      BY <1>0, <3>2, <3>3 DEF Data
    <3>5. QED
      BY <2>0, <3>2, <3>3, <3>4 DEF FloorAt
  <2>4. ASSUME r.pc = "replace" PROVE R \subseteq r.data.refs
    <3>1. StageRestore(p) /\ ~\E ok \in BOOLEAN : Over(p, ok)
      BY <1>3, <2>4, Arrives, Where
    <3>2. run[p].cur = a /\ Keys(a) # {} /\ r.data = NewestData(a)
      BY <1>3, <3>1, StageFields
    <3>3. QED
      BY <3>1, <3>2 DEF NewestData
  <2>5. ASSUME r.pc = "apply" PROVE R \subseteq r.data.refs
    <3>1. StopForRestore(p)
      BY <1>3, <2>5, Arrives
    <3>2. Goto(p, "apply") /\ run[p].pc = "replace"
      BY <1>3, <2>5, <3>1, Where DEF StopForRestore, At
    <3>3. run[p].cur = a /\ r.data = run[p].data
      BY <1>3, <3>2, Where
    <3>4. QED
      BY <2>0, <3>2, <3>3 DEF FloorAt
  <2>6. ASSUME r.pc = "restWait" PROVE R \subseteq rest'[a].data.refs
    <3>1. StartRestore(p)
      BY <1>3, <2>6, Arrives
    <3>2. Goto(p, "restWait") /\ run[p].pc = "apply"
          /\ rest' = [rest EXCEPT ![run[p].cur] = [phase |-> "dbs", data |-> run[p].data]]
      BY <1>3, <2>6, <3>1, Where DEF StartRestore, At, Cur
    <3>3. run[p].cur = a
      BY <1>3, <3>2, Where
    <3>4. rest'[a].data = run[p].data
      BY <1>0, <3>2, <3>3
    <3>5. QED
      BY <2>0, <3>2, <3>3, <3>4 DEF FloorAt
  <2>7. QED
    BY <2>1, <2>2, <2>3, <2>4, <2>5, <2>6
<1>4. QED
  BY <1>0, <1>1, <1>2, <1>3 DEF Floor

\* What a marked-to-be run captured is in the newest backup.
LEMMA KeptIsNewest ==
    ASSUME TypeOK, NEW a \in Apps, NEW R, NEW n, Kept(a, R, n)
    PROVE  R \subseteq tars[a][Newest(a)]
<1>1. PICK d \in Keys(a) \cap With(a, R) : \A e \in Keys(a) : e <= d
  BY DEF Kept, Latest
<1>2. Newest(a) \in Keys(a) /\ \A e \in Keys(a) : e <= Newest(a)
  BY <1>1, KeysAre, LatestDay DEF Newest
<1>3. d \in Nat /\ Newest(a) \in Nat
  BY <1>1, <1>2, KeysAre DEF Days
<1>4. d <= Newest(a) /\ Newest(a) <= d
  BY <1>1, <1>2
<1>5. d = Newest(a)
  BY <1>3, <1>4
<1>6. QED
  BY <1>1, <1>5 DEF With

LEMMA InitSeen == Init => SeenInv
BY DEF Init, SeenInv, Backing, NoRun, Holding, BackupPcs, PrunePcs, AppPcs

LEMMA StepSeen ==
    ASSUME {"wait", "crash", "cancel"} \cap Events = {}, TypeOK, HoldersLock, MountInv, TasksInv,
           SeenInv, CapturedInv, [Next]_vars
    PROVE  SeenInv'
<1> SUFFICES ASSUME NEW p \in Tasks, NEW r \in {run'[p]}, Backing(r), NEW a \in Apps,
                    NEW R \in {r.seen[a]}
             PROVE  Floor(a, R)'
  BY DEF SeenInv, Backing
<1>1. ~Crash /\ ~Disaster
  <2>1. r.pc # "idle"
    BY DEF Backing, Holding, BackupPcs, PrunePcs, AppPcs
  <2>2. QED
    BY <2>1 DEF Crash, Disaster, NoRun
<1>2. CASE UNCHANGED <<run, host>>
  <2>1. Floor(a, R)
    BY <1>2 DEF SeenInv
  <2>2. \A q \in Tasks : \A s \in {run[q]} : FloorAt(a, R, s)'
    BY <1>2, <2>1 DEF Floor, FloorAt, host
  <2>3. QED
    BY <1>2, <2>1, <2>2 DEF Floor, host
<1>3. ASSUME NEW b \in Apps, AppStep(b) PROVE Floor(a, R)'
  <2>1. UNCHANGED run
    BY <1>3 DEF AppStep, Snapshot, Apply, AppWrites, Operate
  <2>2. Floor(a, R)
    BY <2>1 DEF SeenInv
  <2>3. QED
    BY <1>3, <2>2, AppFloor
<1>4. ASSUME NEW q \in Tasks, TaskStep(q) PROVE Floor(a, R)'
  <2>1. CASE Backing(run[p]) /\ r.seen = run[p].seen
    <3>1. Floor(a, R)
      BY <2>1 DEF SeenInv
    <3>2. ASSUME StageRestore(q), run[q].cur = a PROVE R \subseteq tars[a][Newest(a)]
      <4>1. run[q].pc = "stage" /\ lock = q /\ TaskOK(q)
        BY <3>2 DEF StageRestore, At, HoldersLock, Holding, AppPcs, TasksInv
      <4>2. p # q
        BY <2>1, <4>1 DEF TaskOK, RestorePcs, Backing
      <4>3. run[p].pc = "mark"
        BY <2>1, <4>1, <4>2 DEF Backing, HoldersLock
      <4>4. /\ run[p].todo = {} /\ run[p].cur = None /\ ~run[p].failed /\ a \in rows /\ a # None
        BY <3>2, <4>1, <4>3, NamesAssumption DEF TasksInv, TaskOK
      <4>5. CapturedOK(run[p])
        BY <2>1, <4>4 DEF CapturedInv
      <4>6. Kept(a, R, run[p].date)
        BY <2>1, <4>3, <4>4, <4>5 DEF CapturedOK, Behind
      <4>7. QED
        BY <4>6, KeptIsNewest
    <3>3. QED
      BY <1>4, <3>1, <3>2, TaskFloor
  <2>2. CASE q = p /\ TakeLock(p) /\ ~Return(p) /\ r.pc = "state" /\ r.seen[a] = vol[a].refs
    <3>1. lock = None /\ UNCHANGED host
      BY <2>2 DEF TakeLock
    <3>2. \A t \in Tasks : run[t].pc \notin Holding
      BY <3>1, NamesAssumption DEF HoldersLock, Tasks
    <3>3. \A t \in Tasks : run'[t].pc \notin {"snapWait", "blobs", "tar", "replace", "apply",
                                              "restWait"}
      <4>1. \A t \in Tasks : t # p => run'[t] = run[t]
        BY <1>4, <2>2, TaskRuns DEF OwnRun
      <4>2. QED
        BY <2>2, <3>2, <4>1 DEF Holding, AppPcs
    <3>4. \A t \in Tasks : \A s \in {run'[t]} : FloorAt(a, R, s)'
      BY <3>3 DEF FloorAt
    <3>5. QED
      BY <2>2, <3>1, <3>4 DEF Floor, host
  <2>3. CASE q # p
    <3>1. r = run[p]
      BY <1>4, <2>3, TaskRuns DEF OwnRun
    <3>2. QED
      BY <2>1, <3>1
  <2>4. CASE q = p
    <3>1. Backing(run[p])'
      BY DEF Backing
    <3>2. QED
      BY <1>4, <2>1, <2>2, <2>4, <3>1, BackingDate
  <2>5. QED
    BY <2>3, <2>4
<1>5. QED
  BY <1>1, <1>2, <1>3, <1>4, NextSplits DEF NextDay, Configure, vars

-----------------------------------------------------------------------------
(* A run that is marked has captured all *)

\* An upload that is not before any other becomes the newest backup.
LEMMA KeptAdded ==
    ASSUME TypeOK, NEW p \in Tasks, UploadTar(p), NEW c \in {run[p].cur}, NEW m \in {run[p].date},
           tars' = [tars EXCEPT ![c][m] = stage[c].refs], \A e \in Keys(c) : e <= m,
           NEW R, R \subseteq stage[c].refs, NEW n \in Days, n <= m
    PROVE  Kept(c, R, n)'
<1>1. /\ c \in Apps /\ m \in Days /\ c # State
      /\ tars \in [Apps -> [Days -> (SUBSET Blobs) \cup {None}]]
  BY Records, NamesAssumption DEF UploadTar, At, RunOK, BackupPcs, AppPcs, TypeOK, S3OK
<1>2. stage[c].refs # None
  BY <1>1, DataParts, NamesAssumption DEF TypeOK, HostOK
<1>3. tars'[c] = [tars[c] EXCEPT ![m] = stage[c].refs]
  BY <1>1
<1>4. Keys(c)' = Keys(c) \cup {m}
  BY <1>1, <1>2, <1>3 DEF Keys
<1>5. m \in With(c, R)'
  BY <1>1, <1>3 DEF With
<1> DEFINE G == With(c, R)'
<1>6. Latest(Keys(c) \cup {m}, G, n)
  <2>1. m \in G
    BY <1>5
  <2> HIDE DEF G
  <2>2. QED
    BY <1>1, <2>1, KeysAre, LatestAdd
<1>7. QED
  BY <1>4, <1>6 DEF Kept, Latest

\* A task keeps an app's newest backup whole, or replaces it by a whole one.
LEMMA KeptStays ==
    ASSUME TypeOK, PruneInv, DatesInv, NEW p \in Tasks, TaskStep(p), NEW a \in Apps, NEW R,
           NEW n \in Days, Kept(a, R, n),
           UploadTar(p) /\ a = run[p].cur => R \subseteq stage[a].refs
    PROVE  Kept(a, R, n)'
<1> DEFINE K == Keys(a)'
           G == With(a, R)'
<1>0. Keys(a) \subseteq Days /\ tars[a] \in [Days -> (SUBSET Blobs) \cup {None}]
  BY KeysAre DEF TypeOK, S3OK
<1>1. Latest(K, G, n) => Kept(a, R, n)'
  BY DEF Kept, Latest
<1>2. CASE tars'[a] = tars[a] /\ Keys(a)' = Keys(a)
  BY <1>2 DEF Kept, Latest, With
<1>3. CASE UploadTar(p) /\ Goto(p, "record") /\ a = run[p].cur
  <2>1. /\ tars' = [tars EXCEPT ![run[p].cur][run[p].date] = stage[run[p].cur].refs]
        /\ Backing(run[p]) /\ run[p].pc = "tar"
    <3>1. ~Over(p, FALSE)
      <4>1. run'[p].pc = "record"
        BY <1>3, GotoFields
      <4>2. QED
        BY <4>1, Where
    <3>2. QED
      BY <1>3, <3>1, Records
      DEF UploadTar, Cur, At, Backing, RunOK, Holding, BackupPcs
  <2>2. run[p].date \in Days
    BY <2>1, Records DEF RunOK, BackupPcs, Backing
  <2>3. \A e \in Keys(a) : e <= run[p].date
    BY <2>1 DEF DatesInv, Prefixes
  <2>4. n <= run[p].date
    <3>1. PICK d \in Keys(a) : d >= n
      BY DEF Kept, Latest
    <3>2. d <= run[p].date /\ d \in Nat /\ n \in Nat /\ run[p].date \in Nat
      BY <1>0, <2>2, <2>3 DEF Days
    <3>3. QED
      BY <3>1, <3>2
  <2>5. QED
    BY <1>3, <2>1, <2>3, <2>4, KeptAdded
<1>4. ASSUME NEW x \in Days, tars'[a] = [tars[a] EXCEPT ![x] = None],
             Keys(a)' = Keys(a) \ {x}, \E e \in Keys(a) : x < e
      PROVE  Kept(a, R, n)'
  <2>1. (Keys(a) \ {x}) \cap With(a, R) \subseteq G
    BY <1>0, <1>4 DEF With
  <2>2. K \subseteq Keys(a) /\ Keys(a) \ {x} \subseteq K
    BY <1>4
  <2>3. Latest(Keys(a), With(a, R), n)
    BY DEF Kept
  <2> HIDE DEF K, G
  <2>4. Latest(K, G, n)
    BY <1>0, <1>4, <2>1, <2>2, <2>3, LatestDrop
  <2>5. QED
    BY <1>1, <2>4
<1>5. QED
  BY <1>2, <1>3, <1>4, TarKeys

\* The same of the snapshots of the state database.
LEMMA StateAdded ==
    ASSUME TypeOK, DatesInv, NEW p \in Tasks, BackupState(p), NEW m \in {run[p].date},
           states' = [states EXCEPT ![m] = rows], NEW n \in Days, n <= m
    PROVE  KeptState(n)'
<1>1. /\ m \in Days /\ rows # None /\ UNCHANGED rows
      /\ states \in [Days -> (SUBSET Apps) \cup {None}]
  BY Records, NamesAssumption DEF BackupState, At, RunOK, BackupPcs, TypeOK, S3OK, DbOK, db
<1>2. \A e \in Keys(State) : e <= m
  <2>1. Backing(run[p]) /\ run[p].pc # "mark"
    BY Records DEF BackupState, At, RunOK, BackupPcs, Backing, Holding
  <2>2. QED
    BY <2>1 DEF DatesInv, Prefixes
<1>3. states'[m] = rows
  BY <1>1
<1>4. Keys(State)' = Keys(State) \cup {m}
  BY <1>1, <1>3 DEF Keys
<1> DEFINE G == WithRows'
<1>5. m \in G
  BY <1>1, <1>3 DEF WithRows
<1> HIDE DEF G
<1>6. Latest(Keys(State) \cup {m}, G, n)
  BY <1>1, <1>2, <1>5, KeysAre, LatestAdd
<1>7. QED
  BY <1>4, <1>6 DEF KeptState, Latest, G

LEMMA KeptStateStays ==
    ASSUME TypeOK, PruneInv, DatesInv, NEW p \in Tasks, TaskStep(p), NEW n \in Days, KeptState(n)
    PROVE  KeptState(n)'
<1> DEFINE K == Keys(State)'
           G == WithRows'
<1>0. /\ Keys(State) \subseteq Days /\ states \in [Days -> (SUBSET Apps) \cup {None}]
      /\ rows \subseteq rows'
  BY KeysAre, RowsGrow DEF TypeOK, S3OK
<1>1. Latest(K, G, n) => KeptState(n)'
  BY DEF KeptState, Latest
<1>2. CASE UNCHANGED states
  <2>1. K = Keys(State)
    BY <1>2 DEF Keys
  <2>2. Keys(State) \cap WithRows \subseteq G
    BY <1>0, <1>2 DEF WithRows
  <2>3. Latest(Keys(State), WithRows, n)
    BY DEF KeptState
  <2> HIDE DEF K, G
  <2>4. QED
    BY <1>1, <2>1, <2>2, <2>3, LatestSame
<1>3. CASE BackupState(p) /\ states' = [states EXCEPT ![run[p].date] = rows]
  <2>1. Backing(run[p]) /\ run[p].pc # "mark" /\ run[p].date \in Days
    BY <1>3, Records DEF BackupState, At, RunOK, BackupPcs, Backing, Holding
  <2>2. n <= run[p].date
    <3>1. PICK d \in Keys(State) : d >= n
      BY DEF KeptState, Latest
    <3>2. d <= run[p].date /\ d \in Nat /\ n \in Nat /\ run[p].date \in Nat
      BY <1>0, <2>1 DEF Days, DatesInv, Prefixes
    <3>3. QED
      BY <3>1, <3>2
  <2>3. QED
    BY <1>3, <2>2, StateAdded
<1>4. ASSUME NEW x \in Days, states' = [states EXCEPT ![x] = None],
             Keys(State)' = Keys(State) \ {x}, \E e \in Keys(State) : x < e
      PROVE  KeptState(n)'
  <2>1. (Keys(State) \ {x}) \cap WithRows \subseteq G
    BY <1>0, <1>4 DEF WithRows
  <2>2. K \subseteq Keys(State) /\ Keys(State) \ {x} \subseteq K
    BY <1>4
  <2>3. Latest(Keys(State), WithRows, n)
    BY DEF KeptState
  <2> HIDE DEF K, G
  <2>4. Latest(K, G, n)
    BY <1>0, <1>4, <2>1, <2>2, <2>3, LatestDrop
  <2>5. QED
    BY <1>1, <2>4
<1>5. QED
  BY <1>2, <1>3, <1>4, StateKeys

\* While the newest snapshot has no row that the table has not, a restore
\* merges nothing.
LEMMA MergeAddsNothing ==
    ASSUME TypeOK, NEW n, KeptState(n), NEW p \in Tasks, TaskStep(p)
    PROVE  UNCHANGED rows
<1>1. PICK d \in Keys(State) \cap WithRows : \A e \in Keys(State) : e <= d
  BY DEF KeptState, Latest
<1>2. Newest(State) \in Keys(State) /\ \A e \in Keys(State) : e <= Newest(State)
  BY <1>1, NewestStates
<1>3. d \in Nat /\ Newest(State) \in Nat
  BY <1>1, <1>2, KeysAre DEF Days
<1>4. d <= Newest(State) /\ Newest(State) <= d
  BY <1>1, <1>2
<1>5. d = Newest(State)
  BY <1>3, <1>4
<1>6. states[Newest(State)] \subseteq rows
  BY <1>1, <1>5 DEF WithRows
<1>7. MergeState(p) => UNCHANGED rows
  BY <1>6 DEF MergeState, Merged
<1>8. QED
  BY <1>7, RowsGrow

\* A run that backs up puts behind it the app it has uploaded, and no other.
LEMMA BehindMoves ==
    ASSUME "cancel" \notin Events, TypeOK, TasksInv, NEW p \in Tasks, TaskStep(p),
           Backing(run[p]), run[p].pc # "mark", NEW c \in {run[p].cur}, NEW r \in {run'[p]},
           Backing(r), ~r.failed, NEW a \in Apps, UNCHANGED rows, Behind(r, a)
    PROVE  Behind(run[p], a) \/ (UploadTar(p) /\ Goto(p, "record") /\ a = c)
<1> USE DEF PrunePcs
<1>0. /\ RunOK(run[p]) /\ TaskOK(p) /\ run[p].kind # "restore" /\ None \notin Apps
      /\ State \notin Apps /\ run[p].pc \in Holding /\ r.pc \in Holding \cup {"mark"}
      /\ State # None /\ a # None /\ a # State
  BY Records, NamesAssumption DEF TasksInv, Backing
<1>1. /\ r.pc \notin {"idle", "lock"} /\ run[p].pc \notin {"idle", "lock"}
      /\ run[p].pc \notin RestorePcs
  BY <1>0 DEF Holding, BackupPcs, AppPcs, TaskOK
<1>2. ~Return(p) /\ ~Cancel(p) /\ ~MarkDay(p) /\ ~(p = Sched /\ Tick) /\ ~Request(p) /\ ~TakeLock(p)
  BY <1>1, ReturnFields, StartFields DEF Cancel, Fault, MarkDay, TakeLock, At
<1>3. ~MergeState(p) /\ ~StageRestore(p) /\ ~StopForRestore(p) /\ ~StartRestore(p)
      /\ ~AwaitRestore(p) /\ ~BootRestored(p)
  BY <1>1 DEF MergeState, StageRestore, StopForRestore, StartRestore, AwaitRestore, BootRestored,
     At, RestorePcs
<1>4. ASSUME NEW pc, Goto(p, pc)
      PROVE  r.pc = pc /\ r.cur = run[p].cur /\ r.todo = run[p].todo
  BY <1>4, GotoFields
<1>5. ~Over(p, FALSE)
  BY OverFields
<1>6. CASE BackupState(p)
  BY <1>0, <1>6, StateFields DEF Behind
<1>7. CASE RecordUpload(p)
  <2>1. r.pc = "prune" /\ r.cur = run[p].cur /\ r.todo = run[p].todo /\ run[p].pc = "record"
    BY <1>4, <1>7 DEF RecordUpload, At
  <2>2. QED
    BY <2>1 DEF Behind
<1>8. ASSUME Over(p, TRUE), run[p].pc \in PrunePcs PROVE Behind(run[p], a)
  <2>1. r.pc = OverPc(run[p]) /\ r.cur = None /\ r.todo = run[p].todo
    BY <1>8, OverFields
  <2>2. run[p].cur \in Apps /\ a \in rows \ run[p].todo
    BY <1>0, <1>8, <2>1 DEF Behind, OverPc, RunOK, Prefixes
  <2>3. QED
    BY <1>8, <2>2 DEF Behind
<1>9. CASE PruneList(p) \/ PruneRows(p)
  <2>1. run[p].pc \in PrunePcs
    BY <1>9 DEF PruneList, PruneRows, At
  <2>2. CASE PruneList(p) /\ ~\E ok \in BOOLEAN : Over(p, ok)
    <3>1. r.pc = "pruneS3" /\ r.cur = run[p].cur /\ r.todo = run[p].todo
      BY <2>2, PruneListFields
    <3>2. QED
      BY <2>1, <3>1 DEF Behind
  <2>3. CASE \E ok \in BOOLEAN : Over(p, ok)
    BY <1>5, <1>8, <2>1, <2>3
  <2>4. QED
    BY <1>9, <2>2, <2>3 DEF PruneRows
<1>10. CASE PruneObject(p)
  <2>1. run[p].pc = "pruneS3" /\ (UNCHANGED run \/ Goto(p, "pruneRows"))
    BY <1>5, <1>10 DEF PruneObject, At
  <2>2. r.pc \in PrunePcs /\ r.cur = run[p].cur /\ r.todo = run[p].todo
    BY <1>4, <2>1
  <2>3. QED
    BY <2>1, <2>2 DEF Behind
<1>11. CASE ListApps(p)
  BY <1>2, <1>11, ListFields DEF Behind
<1>12. CASE NextApp(p)
  <2>1. /\ r.pc = "snap" /\ r.todo = run[p].todo \ {r.cur} /\ run[p].pc = "next"
        /\ run[p].cur = None
    BY <1>0, <1>12, NextFields DEF NextApp, At, TaskOK, Restoring
  <2>2. QED
    BY <1>0, <2>1 DEF Behind
<1>13. CASE EndRun(p)
  <2>1. r.pc = "mark" /\ r.cur = run[p].cur /\ r.todo = run[p].todo /\ run[p].pc = "next"
    BY <1>2, <1>4, <1>13 DEF EndRun, At
  <2>2. QED
    BY <2>1 DEF Behind
<1>14. CASE StartSnapshot(p) \/ AwaitSnapshot(p) \/ UploadBlobs(p)
  <2>1. /\ run[p].pc \in {"snap", "snapWait", "blobs"}
        /\ UNCHANGED run \/ \E pc \in {"snapWait", "blobs", "tar"} : Goto(p, pc)
    BY <1>5, <1>14 DEF StartSnapshot, AwaitSnapshot, UploadBlobs, At
  <2>2. r.pc \in {"snap", "snapWait", "blobs", "tar"} /\ r.cur = run[p].cur /\ r.todo = run[p].todo
    BY <1>4, <2>1
  <2>3. QED
    BY <2>1, <2>2 DEF Behind
<1>15. CASE UploadTar(p)
  <2>1. Goto(p, "record") /\ run[p].pc = "tar"
    BY <1>5, <1>15 DEF UploadTar, At
  <2>2. r.todo = run[p].todo
    BY <1>4, <2>1
  <2>3. QED
    BY <1>15, <2>1, <2>2 DEF Behind
<1>16. QED
  BY <1>2, <1>3, <1>6, <1>7, <1>9, <1>10, <1>11, <1>12, <1>13, <1>14, <1>15 DEF TaskStep, Step

LEMMA InitCaptured == Init => CapturedInv
BY DEF Init, CapturedInv, Backing, NoRun, Holding, BackupPcs, PrunePcs, AppPcs

\* What others do leaves a run that waits to be marked, or that works, captured.
LEMMA OthersCapture ==
    ASSUME TypeOK, HoldersLock, PruneInv, DatesInv, SeenInv, TasksInv, CapturedInv,
           NEW p \in Tasks, NEW q \in Tasks, q # p, TaskStep(q),
           NEW r \in {run'[p]}, Backing(r), ~r.failed
    PROVE  CapturedOK(r)'
<1>0. r = run[p]
  BY TaskRuns DEF OwnRun
<1>1. CapturedOK(r)
  BY <1>0 DEF CapturedInv
<1>2. CASE r.pc \in Holding
  <2>1. UNCHANGED s3 /\ UNCHANGED rows
    BY <1>2, Alone
  <2>2. UNCHANGED <<states, tars>> /\ \A x : Keys(x)' = Keys(x)
    BY <2>1, SameKeys DEF s3
  <2>3. QED
    BY <1>1, <2>1, <2>2 DEF CapturedOK, KeptState, Kept, Latest, With, WithRows, Behind
<1>3. CASE r.pc = "mark"
  <2>0. r.date \in Days
    BY <1>0, <1>3, Records DEF RunOK, Backing
  <2>1. KeptState(r.date)
    BY <1>1, <1>3 DEF CapturedOK
  <2>2. KeptState(r.date)' /\ UNCHANGED rows
    BY <2>0, <2>1, KeptStateStays, MergeAddsNothing
  <2>3. ASSUME NEW a \in Apps, NEW R \in {r.seen[a]}, Behind(r, a) PROVE Kept(a, R, r.date)'
    <3>1. Kept(a, R, r.date)
      BY <1>1, <2>3 DEF CapturedOK
    <3>2. FloorAt(a, R, run[q])
      BY <1>0 DEF SeenInv, Floor
    <3>3. UploadTar(q) /\ a = run[q].cur => R \subseteq stage[a].refs
      BY <3>2 DEF FloorAt, UploadTar, At
    <3>4. QED
      BY <2>0, <3>1, <3>3, KeptStays
  <2>4. \A a \in Apps : Behind(r, a)' => Behind(r, a)
    BY <2>2 DEF Behind
  <2>5. QED
    BY <2>2, <2>3, <2>4 DEF CapturedOK
<1>4. QED
  BY <1>2, <1>3 DEF Backing

LEMMA OwnCapture ==
    ASSUME "cancel" \notin Events, TypeOK, PruneInv, DatesInv, SeenInv, TasksInv, CapturedInv,
           NEW p \in Tasks, TaskStep(p), NEW c \in {run[p].cur}, NEW r \in {run'[p]},
           Backing(r), ~r.failed
    PROVE  CapturedOK(r)'
<1>0. Backing(run[p])'
  BY DEF Backing
<1>1. CASE r.pc = "state"
  <2>1. \A a \in Apps : ~Behind(r, a)'
    BY <1>1 DEF Behind, PrunePcs
  <2>2. QED
    BY <1>1, <2>1 DEF CapturedOK
<1>2. CASE r.pc # "state"
  <2>0. /\ Backing(run[p]) /\ run[p].pc # "mark" /\ r.date = run[p].date
        /\ r.seen = run[p].seen /\ ~run[p].failed /\ RunOK(run[p]) /\ TaskOK(p)
        /\ run[p].pc \notin {"idle", "lock"}
    BY <1>0, <1>2, BackingDate, Records DEF TasksInv
  <2>1. r.date \in Days /\ CapturedOK(run[p])
    BY <2>0 DEF RunOK, Backing, CapturedInv
  <2>2. ~MergeState(p)
    BY <2>0 DEF MergeState, At, TaskOK, RestorePcs, Backing
  <2>3. UNCHANGED rows
    BY <2>2, RowsGrow
  <2>4. KeptState(r.date)'
    <3>1. CASE run[p].pc # "state"
      <4>1. KeptState(r.date)
        BY <2>0, <2>1, <3>1 DEF CapturedOK
      <4>2. QED
        BY <2>1, <4>1, KeptStateStays
    <3>2. CASE run[p].pc = "state"
      <4>1. BackupState(p)
        BY <3>2 DEF TaskStep, Step, At, Cancel, Fault, Tick, Request, TakeLock, RecordUpload,
           PruneList, PruneObject, PruneRows, ListApps, NextApp, EndRun, MarkDay, StartSnapshot,
           AwaitSnapshot, UploadBlobs, UploadTar, MergeState, StageRestore, StopForRestore,
           StartRestore, AwaitRestore, BootRestored
      <4>2. states' = [states EXCEPT ![run[p].date] = rows]
        BY <4>1, StateFields
      <4>3. r.date <= r.date
        BY <2>1 DEF Days
      <4>4. QED
        BY <2>0, <2>1, <4>1, <4>2, <4>3, StateAdded
    <3>3. QED
      BY <3>1, <3>2
  <2>5. ASSUME NEW a \in Apps, NEW R \in {r.seen[a]}, Behind(r, a) PROVE Kept(a, R, r.date)'
    <3>1. FloorAt(a, R, run[p])
      BY <2>0 DEF SeenInv, Floor
    <3>2. UploadTar(p) /\ a = run[p].cur => R \subseteq stage[a].refs
      BY <3>1 DEF FloorAt, UploadTar, At
    <3>3. CASE Behind(run[p], a)
      <4>1. Kept(a, R, r.date)
        BY <2>0, <2>1, <3>3 DEF CapturedOK
      <4>2. QED
        BY <2>1, <3>2, <4>1, KeptStays
    <3>4. CASE UploadTar(p) /\ Goto(p, "record") /\ a = c
      <4>1. tars' = [tars EXCEPT ![run[p].cur][run[p].date] = stage[run[p].cur].refs]
        <5>1. run'[p].pc = "record"
          BY <3>4, GotoFields
        <5>2. ~Over(p, FALSE)
          BY <5>1, Where
        <5>3. QED
          BY <3>4, <5>2 DEF UploadTar, Cur
      <4>2. \A e \in Keys(a) : e <= r.date
        BY <2>0 DEF DatesInv, Prefixes
      <4>3. r.date <= r.date
        BY <2>1 DEF Days
      <4>4. QED
        BY <2>0, <2>1, <3>2, <3>4, <4>1, <4>2, <4>3, KeptAdded
    <3>5. QED
      BY <2>0, <2>3, <2>5, <3>3, <3>4, BehindMoves
  <2>6. \A a \in Apps : Behind(r, a)' => Behind(r, a)
    BY <2>3 DEF Behind
  <2>7. QED
    BY <2>4, <2>5, <2>6 DEF CapturedOK
<1>3. QED
  BY <1>1, <1>2

LEMMA StepCaptured ==
    ASSUME "cancel" \notin Events, TypeOK, HoldersLock, PruneInv, DatesInv, SeenInv, TasksInv,
           CapturedInv, [Next]_vars
    PROVE  CapturedInv'
<1>1. CASE Crash \/ Disaster
  <2>1. \A p \in Tasks : run'[p].pc = "idle"
    BY <1>1 DEF Crash, Disaster, NoRun
  <2>2. QED
    BY <2>1 DEF CapturedInv, Backing, Holding, BackupPcs, PrunePcs, AppPcs
<1>2. CASE UNCHANGED <<run, s3, rows>>
  <2>1. UNCHANGED <<states, tars>> /\ \A x : Keys(x)' = Keys(x)
    BY <1>2, SameKeys DEF s3
  <2>2. ASSUME NEW p \in Tasks, NEW r \in {run[p]}, Backing(r), ~r.failed PROVE CapturedOK(r)'
    <3>1. CapturedOK(r)
      BY <2>2 DEF CapturedInv
    <3>2. QED
      BY <1>2, <2>1, <3>1 DEF CapturedOK, KeptState, Kept, Latest, With, WithRows, Behind
  <2>3. QED
    BY <1>2, <2>2 DEF CapturedInv, Backing
<1>3. ASSUME NEW q \in Tasks, TaskStep(q) PROVE CapturedInv'
  <2> SUFFICES ASSUME NEW p \in Tasks, NEW r \in {run'[p]}, Backing(r), ~r.failed
               PROVE  CapturedOK(r)'
    BY DEF CapturedInv, Backing
  <2>1. CASE q # p
    BY <1>3, <2>1, OthersCapture
  <2>2. CASE q = p
    BY <1>3, <2>2, OwnCapture
  <2>3. QED
    BY <2>1, <2>2
<1>4. QED
  BY <1>1, <1>2, <1>3, NextSplits
  DEF NextDay, Configure, AppStep, Snapshot, Apply, AppWrites, Operate, vars, db

(* A run that is about to be marked has in S3 a snapshot of the state of its   *)
(* day or later and, of each app that has a row, a tarball of that day or      *)
(* later with all that the app referred to when the run began, whatever fails  *)
(* meanwhile; while no wait for a container breaks, no request is dropped and  *)
(* the server stays up, and although other backups and restores go on before   *)
(* the mark, which the code writes outside the lock.                           *)
THEOREM CleanRunsCapture ==
    ASSUME {"wait", "crash", "cancel"} \cap Events = {} PROVE Spec => []CleanRunCaptured
<1> DEFINE IInv == /\ HoldersLock /\ MountInv /\ PruneInv /\ TasksInv /\ DatesInv /\ SeenInv
                   /\ CapturedInv
<1>1. Init => IInv
  BY InitLock, InitMount, InitPrune, InitTasks, InitDates, InitSeen, InitCaptured
<1>2. TypeOK /\ IInv /\ [Next]_vars => IInv'
  BY StepLock, StepMount, StepPrune, StepTasks, StepDates, StepSeen, StepCaptured
<1>3. TypeOK /\ IInv => CleanRunCaptured
  <2> SUFFICES ASSUME TypeOK, TasksInv, CapturedInv, NEW p \in Tasks, At(p, "mark")
               PROVE  /\ run[p].date \in Keys(State) \/ \E d \in Keys(State) : d > run[p].date
                      /\ \A a \in rows : \E d \in Keys(a) :
                           d >= run[p].date /\ run[p].seen[a] \subseteq tars[a][d]
    BY DEF CleanRunCaptured
  <2>1. /\ run[p].kind # "restore" /\ ~run[p].failed /\ run[p].todo = {} /\ run[p].cur = None
        /\ run[p].pc = "mark" /\ rows \subseteq Apps /\ None \notin Apps /\ RunOK(run[p])
    BY Records, NamesAssumption DEF At, TasksInv, TaskOK, TypeOK, DbOK
  <2>2. CapturedOK(run[p])
    BY <2>1 DEF CapturedInv, Backing
  <2>3. PICK d \in Keys(State) : d >= run[p].date
    BY <2>1, <2>2 DEF CapturedOK, KeptState, Latest
  <2>4. d \in Nat /\ run[p].date \in Nat
    BY <2>1, KeysAre DEF RunOK, Days
  <2>5. ASSUME NEW a \in rows
        PROVE  \E e \in Keys(a) : e >= run[p].date /\ run[p].seen[a] \subseteq tars[a][e]
    <3>1. Kept(a, run[p].seen[a], run[p].date)
      BY <2>1, <2>2 DEF CapturedOK, Behind
    <3>2. QED
      BY <3>1 DEF Kept, Latest, With
  <2>6. QED
    BY <2>3, <2>4, <2>5
<1>4. QED
  <2> HIDE DEF IInv
  <2>1. QED
    BY <1>1, <1>2, <1>3, InitType, StepType, PTL DEF Spec

=============================================================================
