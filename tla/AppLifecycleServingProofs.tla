----------------------- MODULE AppLifecycleServingProofs -----------------------
(***************************************************************************)
(* Proofs about AppLifecycle that relate the app row, the container, the   *)
(* init container and the deploy records of an app: what holds of them     *)
(* between operations, and at each step of the one that holds the lock.    *)
(***************************************************************************)
EXTENDS AppLifecycleProofs, SequenceTheorems

\* What the properties need of the requests that arrive and of what goes wrong.
Unedited == "edit" \notin Kinds
Undeleted == "delete" \notin Kinds
LockedOnly == Unedited /\ Undeleted
Undropped == "cancel" \notin Faults
DaemonStays == "daemon" \notin Faults
RowWritten == "row" \notin Faults
OwnNames == \A a, b \in Apps : <<a, b>> \in Substring => a = b
\* Only the request at work under an app's lock stops the app's container.
Spared == OwnNames /\ Undeleted

\* The request at work under an app's lock.
Work(a) == IF lock[a] = None THEN NoRequest ELSE req[lock[a]]

BeforeCreate == {"initCreate", "initStart", "initWait", "verify", "create"}
Restarting == {"start", "restart", "nightly"}
WithSnap == StartSteps \cup {"stopCtr", "saveStopped", "save"}

\* A start, stop or restart holds the row it has read, and will save it.
HasSnap(r) == r.kind \in {"start", "stop", "restart"} /\ r.pc \in WithSnap

\* The row of an app; once delete has removed it, the row that the request at
\* work will bring back, if any.
Seen(a) == IF row[a] = None /\ HasSnap(Work(a)) THEN Work(a).snap ELSE row[a]

\* With the row w, the container c and the init container h of an app, and the
\* request r at work on it:
Down(c) == c = None \/ c.st # "running"
Has(c, i) == c # None /\ c.st # "created" /\ c.image = i
Up(c, i) == Has(c, i) /\ (Spared => c.st = "running")

\* A start, stop or restart works with the row as it is.
SnapIsRow(w, r) == HasSnap(r) => r.snap = w

\* A deploy removes the container, makes its own, and reports it.
DeployOwns(w, c, r) ==
    /\ r.kind = "deploy" /\ r.pc \in BeforeCreate => c = None
    /\ r.pc = "boot" => c = [st |-> "created", image |-> r.image]
    /\ r.pc = "setDeployed" => Up(c, r.image)
    /\ r.kind = "deploy" /\ r.pc \in {"sync", "syncHung", "settleOk", "settleLate"} =>
        Up(c, r.image) /\ (w # None => w.image = r.image /\ w.state = "running")

\* The container is of the row's image, but while the row is to be written.
ImageOK(w, c, r) ==
    /\ w # None /\ r.pc \notin {"setDeployed", "save"} =>
        c = None \/ c.st = "created" \/ c.image = w.image
    /\ r.pc = "save" => Has(c, r.image)

\* A stopped row has no running container, and the init container none beside it.
DownOK(w, c, h, r) ==
    /\ r.pc \in BeforeCreate \cup {"remove", "saveStopped"} => Down(c)
    /\ w # None /\ r.pc \notin {"setDeployed", "save"} => w.state = "running" \/ Down(c)
    /\ w # None /\ r.kind = "nightly" /\ r.pc \in WithSnap => w.state = "running"
    /\ h = "running" => Down(c)

HelperGone(h, r) == r.pc \in {"verify", "create", "boot"} => h = "none"

\* A running row has a running container, but while one replaces it, and no
\* init container outlives its request.
UpOK(w, c, h, r) ==
    /\ r.pc \notin StartSteps \cup {"remove", "saveStopped"} =>
        w.state = "stopped" \/ (c # None /\ c.st = "running")
    /\ r.pc \in {"save", "setDeployed"} => c # None /\ c.st = "running"
    /\ h = "none" \/ r.pc \in {"initStart", "initWait"}
    /\ r.kind \in {"start", "restart"} /\ r.pc \in StartSteps => w.state = "stopped"

\* Under which requests and faults each of these holds.
ImageHolds == Undropped /\ RowWritten /\ (DaemonStays \/ "nightly" \notin Kinds)
RowHolds == Undropped /\ RowWritten /\ DaemonStays
UpHolds == Faults \subseteq {"daemon", "row", "log", "hang"} /\ Spared

ServingOK(w, c, h, r) ==
    /\ w \in Row \cup {None}
    /\ SnapIsRow(w, r)
    /\ HelperGone(h, r)
    /\ DeployOwns(w, c, r)
    /\ ImageHolds => ImageOK(w, c, r)
    /\ RowHolds => DownOK(w, c, h, r)
    /\ UpHolds => UpOK(w, c, h, r)

Serving(a) ==
    /\ Undeleted => row[a] # None
    /\ ServingOK(Seen(a), ctr[a], helper[a], Work(a))

\* A nightly restart and a start go on with the image of the row they read.
ImageRead(r) ==
    \/ r.kind = "nightly" /\ r.pc \in {"live", "tryLock", "recheck", "stopCtr"}
    \/ r.kind \in Restarting /\ r.pc \in StartSteps \cup {"save"}
    => r.image = r.snap.image

ReadsOK(r) == (r.pc # "idle" => r.kind \in Kinds) /\ ImageRead(r)

ServingInv ==
    /\ \A a \in Apps : Serving(a)
    /\ \A p \in Procs : ReadsOK(req[p])

-----------------------------------------------------------------------------
(* What requests have read *)

LEMMA NoRequestReads == ReadsOK(NoRequest)
BY NoneAssumption DEF NoRequest, ReadsOK, ImageRead, Restarting, StartSteps

(* One request changes, the others keep what they have read. *)
LEMMA ReadsUpdate ==
    ASSUME TInv, \A q \in Procs : ReadsOK(req[q]), NEW p \in Procs, ReadsOK(req'[p]),
           \A q \in Procs \ {p} : req'[q] = req[q]
    PROVE  \A q \in Procs : ReadsOK(req'[q])
<1>1. ASSUME NEW q \in Procs, q # p PROVE ReadsOK(req'[q])
  BY <1>1
<1>2. QED  BY <1>1

LEMMA FinishReads ==
    ASSUME TInv, \A q \in Procs : ReadsOK(req[q]), NEW p \in Procs, Finish(p)
    PROVE  \A q \in Procs : ReadsOK(req'[q])
<1>1. req'[p] = NoRequest /\ \A q \in Procs \ {p} : req'[q] = req[q]
  BY DEF Finish, TInv, TypeOK
<1>2. QED  BY <1>1, NoRequestReads, ReadsUpdate

LEMMA EdgeReads ==
    ASSUME TInv, \A q \in Procs : ReadsOK(req[q]), NEW p \in Procs, NEW step,
           Edge(req[p], step) \/ (req[p].pc \in StartSteps /\ step \in {"save", "setDeployed"})
                              \/ step = "settleFailed",
           step \in Steps, req[p].pc # "idle", Goto(p, step)
    PROVE  \A q \in Procs : ReadsOK(req'[q])
<1>1. req[p] \in Request /\ RequestOK(req[p]) /\ ReadsOK(req[p])
  BY DEF TInv, TypeOK, RequestsOK
<1>2. /\ req'[p].pc = step /\ req'[p].kind = req[p].kind
      /\ req'[p].image = req[p].image /\ req'[p].snap = req[p].snap
      /\ \A q \in Procs \ {p} : req'[q] = req[q]
  BY <1>1 DEF Goto, TInv, TypeOK, Request
<1>3. ImageRead(req'[p])
  BY <1>1, <1>2 DEF ImageRead, ReadsOK, RequestOK, Edge, StartSteps, Restarting, DeploySteps
<1>4. QED  BY <1>1, <1>2, <1>3, ReadsUpdate DEF ReadsOK

-----------------------------------------------------------------------------
(* The request at work under a lock *)

\* A request p that works on the app a.
WorksOn(p, a) ==
    /\ req[p].pc \notin Outside /\ App(p) = a /\ lock[a] = p /\ Work(a) = req[p]
    /\ req[p] \in Request /\ RequestOK(req[p]) /\ ImageRead(req[p])
    /\ req[p].kind \in LockedKinds \cap Kinds
    /\ {row[a], Seen(a)} \subseteq Row \cup {None} /\ ctr[a] \in Container \cup {None}
    /\ Undeleted => row[a] # None

\* After a step at which p goes on with what it has read, at another step.
GoesOn(p, a, step) ==
    /\ (Work(a).pc)' = step
    /\ (Work(a).kind)' = req[p].kind
    /\ (Work(a).image)' = req[p].image
    /\ (Work(a).snap)' = req[p].snap

\* After the last step of a request.
IsOver(a) == Work(a)' = NoRequest

LEMMA NoneIsNoKind == None \notin RequestKinds /\ \A q \in Procs : q # None
BY NoneAssumption

LEMMA AtWork ==
    ASSUME TInv, LockInv, ServingInv, NEW p \in Procs, InSection(p)
    PROVE  \E a \in Apps : WorksOn(p, a)
<1>1. req[p] \in Request /\ RequestOK(req[p]) /\ ReadsOK(req[p])
  BY DEF TInv, TypeOK, RequestsOK, ServingInv
<1>2. req[p].pc \notin Outside /\ req[p].app \in Apps /\ req[p].kind \in LockedKinds \cap Kinds
  BY <1>1 DEF RequestOK, ReadsOK, Outside, InSection
<1>3. lock[App(p)] = p
  BY <1>2 DEF LockInv, App
<1>4. Work(App(p)) = req[p]
  BY <1>3, NoneIsNoKind DEF Work
<1>5. /\ row[App(p)] \in Row \cup {None} /\ ctr[App(p)] \in Container \cup {None}
      /\ Seen(App(p)) \in Row \cup {None}
      /\ Undeleted => row[App(p)] # None
  BY <1>2 DEF ServingInv, Serving, ServingOK, App, TInv, TypeOK
<1>6. QED  BY <1>1, <1>2, <1>3, <1>4, <1>5 DEF WorksOn, App, ReadsOK

(* A request inside the section, by its step.                               *)
LEMMA Inside ==
    ASSUME TInv, NEW p \in Procs, req[p].pc \notin Outside, req[p].kind \notin {"edit", "delete"}
    PROVE  InSection(p)
BY DEF TInv, TypeOK, RequestsOK, RequestOK, InSection, Outside, RequestKinds, LockedKinds

LEMMA ContinueWork ==
    ASSUME TInv, NEW p \in Procs, NEW a \in Apps, WorksOn(p, a), NEW step, Continue(p, step)
    PROVE  GoesOn(p, a, step)
<1>1. lock'[a] = p /\ p # None
  BY NoneIsNoKind DEF Continue, WorksOn
<1>2. Work(a)' = req'[p]
  BY <1>1 DEF Work
<1>3. req'[p] = [req[p] EXCEPT !.pc = step] /\ req[p] \in Request
  BY DEF Continue, Goto, TInv, TypeOK
<1>4. QED  BY <1>2, <1>3 DEF GoesOn, Request

LEMMA FinishWork ==
    ASSUME TInv, NEW p \in Procs, NEW a \in Apps, WorksOn(p, a), Finish(p)
    PROVE  IsOver(a)
BY DEF Finish, WorksOn, Work, IsOver, TInv, TypeOK

LEMMA FailWork ==
    ASSUME TInv, NEW p \in Procs, NEW a \in Apps, WorksOn(p, a), Fail(p)
    PROVE  \/ req[p].kind = "deploy" /\ GoesOn(p, a, "settleFailed")
           \/ req[p].kind # "deploy" /\ IsOver(a)
BY ContinueWork, FinishWork DEF Fail, Is

LEMMA StartedWork ==
    ASSUME TInv, NEW p \in Procs, NEW a \in Apps, WorksOn(p, a), Started(p)
    PROVE  \/ req[p].kind = "deploy" /\ GoesOn(p, a, "setDeployed")
           \/ req[p].kind # "deploy" /\ GoesOn(p, a, "save")
<1>1. CASE req[p].kind = "deploy"
  BY <1>1, ContinueWork DEF Started, Is
<1>2. CASE req[p].kind # "deploy"
  BY <1>2, ContinueWork DEF Started, Is
<1>3. QED  BY <1>1, <1>2

(* A request that goes on at one step does not go on at another. *)
LEMMA FailsElsewhere ==
    ASSUME TInv, NEW p \in Procs, NEW a \in Apps, WorksOn(p, a), GoesOn(p, a, "sync")
    PROVE  ~Fail(p)
BY FailWork DEF GoesOn, IsOver, NoRequest

(* What a step leaves alone. *)
\* The row seen stays, or delete has removed it and the request at work is over.
SeenKept(a) == Seen(a)' = Seen(a) \/ (IsOver(a) /\ Seen(a)' = None /\ ~Undeleted)

LEMMA SeenKeeps ==
    ASSUME NEW p \in Procs, NEW a \in Apps, WorksOn(p, a), row'[a] = row[a],
           \/ IsOver(a)
           \/ (Work(a).kind)' = req[p].kind /\ req[p].kind \in {"deploy", "nightly"}
           \/ \E step : GoesOn(p, a, step) /\ (step \in WithSnap <=> req[p].pc \in WithSnap)
    PROVE  SeenKept(a)
<1>1. Work(a) = req[p] /\ (Undeleted => row[a] # None) /\ row[a] \in Row \cup {None}
  BY DEF WorksOn
<1>2. CASE IsOver(a)
  <2>1. ~HasSnap(Work(a)')
    BY <1>2, NoneIsNoKind DEF IsOver, NoRequest, HasSnap, RequestKinds, LockedKinds
  <2>2. QED  BY <1>1, <1>2, <2>1 DEF SeenKept, Seen
<1>3. CASE (Work(a).kind)' = req[p].kind /\ req[p].kind \in {"deploy", "nightly"}
  BY <1>1, <1>3 DEF SeenKept, Seen, HasSnap
<1>4. ASSUME NEW step, GoesOn(p, a, step), step \in WithSnap <=> req[p].pc \in WithSnap
      PROVE  SeenKept(a)
  BY <1>1, <1>4 DEF SeenKept, Seen, HasSnap, GoesOn
<1>5. QED  BY <1>2, <1>3, <1>4

\* A step that leaves row and init container of an app, and at most stops its container.
AtMostStopped(b) ==
    /\ row'[b] = row[b] /\ helper'[b] = helper[b]
    /\ \/ ctr'[b] = ctr[b]
       \/ ~Spared /\ Running(b) /\ ctr'[b] = [ctr[b] EXCEPT !.st = "exited"]

LEMMA StoppedServing ==
    ASSUME TInv, ServingInv, NEW b \in Apps, AtMostStopped(b), Work(b)' = Work(b)
    PROVE  Serving(b)'
<1>1. Serving(b) /\ ctr[b] \in Container \cup {None} /\ Seen(b)' = Seen(b)
  BY DEF ServingInv, TInv, TypeOK, AtMostStopped, Seen
<1>2. CASE ctr'[b] = ctr[b]
  BY <1>1, <1>2 DEF AtMostStopped, Serving
<1>3. CASE ctr'[b] # ctr[b]
  <2>1. /\ ~Spared /\ Running(b) /\ ctr[b] \in Container
        /\ ctr'[b].st = "exited" /\ ctr'[b].image = ctr[b].image /\ ctr'[b] \in Container
    BY <1>1, <1>3 DEF AtMostStopped, Container, Running
  <2>2. QED
    BY <1>1, <2>1, AbsenceAssumption DEF AtMostStopped, Serving, ServingOK, HelperGone, DeployOwns, ImageOK, DownOK,
                      UpHolds, Running, Down, Up, Has, Container
<1>4. QED  BY <1>2, <1>3

-----------------------------------------------------------------------------
(* The steps of an operation, seen from its app *)

LEMMA DeployServes ==
    ASSUME TInv, NEW p \in Procs, NEW a \in Apps, WorksOn(p, a), Serving(a),
           \/ DeployFind(p) \/ DeployInsert(p) \/ DeployPull(p) \/ DeployHalt(p)
           \/ DeploySucceeds(p) \/ DeployFails(p)
    PROVE  Serving(a)'
<1> USE DEF At, Serving, ServingOK, SnapIsRow, HelperGone, DeployOwns, ImageOK, DownOK, UpOK,
            UpHolds, Up, Has, Down, BeforeCreate, HasSnap, WithSnap, StartSteps, Restarting
<1>1. req[p].kind = "deploy" /\ App(p) = a /\ Work(a) = req[p]
  BY DEF WorksOn, DeployFind, DeployInsert, DeployPull, DeployHalt, DeploySucceeds,
         DeployFails, DeploySettle, RequestOK, DeploySteps
<1>2. IsOver(a) => (Work(a).pc)' = "idle" /\ (Work(a).kind)' = None
  BY DEF IsOver, NoRequest
<1>3. None \notin {"start", "stop", "restart", "nightly", "deploy"}
  BY NoneIsNoKind DEF RequestKinds, LockedKinds
<1>4. CASE DeployFind(p)
  <2>1. IsOver(a) \/ GoesOn(p, a, "insert")
    BY <1>4, FinishWork, ContinueWork DEF DeployFind
  <2>2. SeenKept(a)
    BY <1>1, <1>4, <2>1, SeenKeeps DEF DeployFind, GoesOn
  <2>3. QED  BY <1>1, <1>2, <1>3, <1>4, <2>1, <2>2 DEF DeployFind, GoesOn, SeenKept, Spared
<1>5. CASE DeployInsert(p)
  <2>1. CASE row[App(p)] = None
    <3>1. IsOver(a)
      BY <1>5, <2>1, FinishWork DEF DeployInsert
    <3>2. SeenKept(a)
      BY <1>5, <3>1, SeenKeeps DEF DeployInsert
    <3>3. QED  BY <1>1, <1>2, <1>3, <1>5, <3>1, <3>2 DEF DeployInsert, SeenKept, Spared
  <2>2. CASE row[App(p)] # None
    <3>1. req' = [req EXCEPT ![p].pc = "pull", ![p].rec = Len(deploys) + 1] /\ UNCHANGED lock
      BY <1>5, <2>2 DEF DeployInsert
    <3>2. Work(a)' = req'[p]
      BY <3>1, NoneIsNoKind DEF Work, WorksOn
    <3>3. req[p] \in Request /\ req'[p] = [req[p] EXCEPT !.pc = "pull", !.rec = Len(deploys) + 1]
      BY <3>1 DEF TInv, TypeOK
    <3>4. (Work(a).pc)' = "pull" /\ (Work(a).kind)' = "deploy"
      BY <1>1, <3>2, <3>3 DEF Request
    <3>5. SeenKept(a)
      BY <1>1, <1>5, <3>4, SeenKeeps DEF DeployInsert
    <3>6. QED  BY <1>1, <1>3, <1>5, <3>4, <3>5 DEF DeployInsert, SeenKept, IsOver, NoRequest
  <2>3. QED  BY <2>1, <2>2
<1>6. CASE DeployPull(p)
  <2>1. GoesOn(p, a, "halt") \/ GoesOn(p, a, "settleFailed")
    BY <1>1, <1>6, FailWork, ContinueWork DEF DeployPull
  <2>2. SeenKept(a)
    BY <1>1, <1>6, <2>1, SeenKeeps DEF DeployPull, GoesOn
  <2>3. QED  BY <1>1, <1>3, <1>6, <2>1, <2>2 DEF DeployPull, GoesOn, SeenKept, IsOver, NoRequest
<1>7. CASE DeployHalt(p)
  <2>1. CASE StopMatching({App(p)}) /\ Continue(p, "remove")
    <3>1. GoesOn(p, a, "remove")
      BY <2>1, ContinueWork
    <3>2. /\ ctr'[a] = IF Running(a) THEN [ctr[a] EXCEPT !.st = "exited"] ELSE ctr[a]
          /\ ctr[a] \in Container \cup {None}
      BY <1>1, <2>1 DEF StopMatching, WorksOn
    <3>3. /\ ctr[a] = None => ctr'[a] = None
          /\ ctr[a] # None => ctr'[a] \in Container /\ ctr'[a].image = ctr[a].image
          /\ Down(ctr'[a])
          /\ ctr[a] # None /\ ctr[a].st = "created" => ctr'[a] = ctr[a]
      BY <3>2 DEF Running, Container
    <3>4. SeenKept(a)
      BY <1>1, <1>7, <3>1, SeenKeeps DEF DeployHalt, GoesOn
    <3>5. QED
      BY <1>1, <1>3, <1>7, <3>1, <3>3, <3>4 DEF DeployHalt, GoesOn, SeenKept, IsOver, NoRequest
  <2>2. CASE "docker" \in Faults /\ Fail(p) /\ UNCHANGED ctr
    <3>1. GoesOn(p, a, "settleFailed")
      BY <1>1, <2>2, FailWork
    <3>2. SeenKept(a)
      BY <1>1, <1>7, <3>1, SeenKeeps DEF DeployHalt, GoesOn
    <3>3. QED
      BY <1>1, <1>3, <1>7, <2>2, <3>1, <3>2 DEF DeployHalt, GoesOn, SeenKept, IsOver, NoRequest
  <2>3. QED  BY <1>7, <2>1, <2>2 DEF DeployHalt
<1>8. CASE DeploySucceeds(p) \/ DeployFails(p)
  <2>1. IsOver(a)
    BY <1>8, FinishWork DEF DeploySucceeds, DeployFails, DeploySettle
  <2>2. SeenKept(a)
    BY <1>8, <2>1, SeenKeeps DEF DeploySucceeds, DeployFails, DeploySettle
  <2>3. QED
    BY <1>1, <1>2, <1>3, <1>8, <2>1, <2>2 DEF DeploySucceeds, DeployFails, DeploySettle, SeenKept, Spared
<1>9. QED  BY <1>4, <1>5, <1>6, <1>7, <1>8

LEMMA SwapServes ==
    ASSUME TInv, NEW p \in Procs, NEW a \in Apps, WorksOn(p, a), Serving(a),
           DeployRemove(p) \/ SetDeployed(p)
    PROVE  Serving(a)'
<1> USE DEF At, Serving, ServingOK, SnapIsRow, HelperGone, DeployOwns, ImageOK, DownOK, UpOK,
            UpHolds, Up, Has, Down, BeforeCreate, HasSnap, WithSnap, StartSteps, Restarting
<1>1. req[p].kind = "deploy" /\ App(p) = a /\ Work(a) = req[p] /\ req[p].image \in Images
  BY DEF WorksOn, DeployRemove, SetDeployed, RequestOK, DeploySteps
<1>2. CASE DeployRemove(p)
  <2>1. CASE ~Running(a) /\ ctr' = [ctr EXCEPT ![a] = None] /\ Continue(p, "initCreate")
    <3>1. GoesOn(p, a, "initCreate")
      BY <2>1, ContinueWork
    <3>2. ctr'[a] = None
      BY <2>1 DEF TInv, TypeOK
    <3>3. SeenKept(a)
      BY <1>1, <1>2, <3>1, SeenKeeps DEF DeployRemove, GoesOn
    <3>4. QED
      BY <1>1, <1>2, <3>1, <3>2, <3>3 DEF DeployRemove, GoesOn, SeenKept, IsOver, NoRequest
  <2>2. CASE (Running(a) \/ "docker" \in Faults) /\ Fail(p) /\ UNCHANGED ctr
    <3>1. GoesOn(p, a, "settleFailed")
      BY <1>1, <2>2, FailWork
    <3>2. SeenKept(a)
      BY <1>1, <1>2, <3>1, SeenKeeps DEF DeployRemove, GoesOn
    <3>3. QED
      BY <1>1, <1>2, <2>2, <3>1, <3>2
         DEF DeployRemove, GoesOn, Running, SeenKept, IsOver, NoRequest
  <2>3. QED  BY <1>1, <1>2, <2>1, <2>2 DEF DeployRemove
<1>3. CASE SetDeployed(p)
  <2>1. CASE Continue(p, "sync") /\ row[a] # None
    <3>1. GoesOn(p, a, "sync")
      BY <2>1, ContinueWork
    <3>2. row' = [row EXCEPT ![a].state = "running", ![a].image = req[p].image]
      BY <1>1, <1>3, <2>1, <3>1, FailsElsewhere DEF SetDeployed
    <3>3. /\ row'[a].state = "running" /\ row'[a].image = req[p].image /\ row'[a] \in Row
          /\ UNCHANGED <<ctr, helper>>
      BY <1>1, <1>3, <2>1, <3>2 DEF SetDeployed, Row, TInv, TypeOK, WorksOn
    <3>4. Seen(a)' = row'[a] /\ row'[a] # None
      BY <3>3, AbsenceAssumption DEF Seen
    <3>5. QED  BY <1>1, <1>3, <3>1, <3>3, <3>4 DEF SetDeployed, GoesOn
  <2>2. CASE Continue(p, "sync") /\ row[a] = None
    <3>1. GoesOn(p, a, "sync")
      BY <2>2, ContinueWork
    <3>2. UNCHANGED <<row, ctr, helper>> /\ ~Undeleted
      BY <1>1, <1>3, <2>2 DEF SetDeployed, WorksOn
    <3>3. Seen(a) = None /\ Seen(a)' = None
      BY <1>1, <1>3, <2>2, <3>1, <3>2 DEF SetDeployed, GoesOn, Seen, HasSnap, WorksOn
    <3>4. QED
      BY <1>1, <1>3, <3>1, <3>2, <3>3 DEF SetDeployed, GoesOn, Spared
  <2>3. CASE "row" \in Faults /\ Fail(p) /\ UNCHANGED row
    <3>1. GoesOn(p, a, "settleFailed")
      BY <1>1, <2>3, FailWork
    <3>2. SeenKept(a) /\ ~RowWritten
      BY <1>1, <2>3, <3>1, SeenKeeps DEF GoesOn, RowWritten
    <3>3. QED
      BY <1>1, <1>3, <2>3, <3>1, <3>2
         DEF SetDeployed, GoesOn, SeenKept, IsOver, NoRequest, ImageHolds, RowHolds
  <2>4. QED  BY <1>3, <2>1, <2>2, <2>3 DEF SetDeployed
<1>4. QED  BY <1>2, <1>3

LEMMA HelperServes ==
    ASSUME TInv, NEW p \in Procs, NEW a \in Apps, WorksOn(p, a), Serving(a),
           InitCreate(p) \/ InitStart(p) \/ InitWait(p)
    PROVE  Serving(a)'
<1> USE DEF At, Serving, ServingOK, SnapIsRow, HelperGone, DeployOwns, ImageOK, DownOK, UpOK,
            UpHolds, Up, Has, Down, BeforeCreate, HasSnap, WithSnap, StartSteps, Restarting
<1>1. /\ App(p) = a /\ Work(a) = req[p]
      /\ req[p].kind \in {"deploy", "start", "restart", "nightly"}
      /\ helper[a] \in {"none", "created", "running"}
  BY DEF WorksOn, InitCreate, InitStart, InitWait, RequestOK, TInv, TypeOK
<1>2. IsOver(a) => (Work(a).pc)' = "idle" /\ (Work(a).kind)' = None
  BY DEF IsOver, NoRequest
<1>3. None \notin {"start", "stop", "restart", "nightly", "deploy"}
  BY NoneIsNoKind DEF RequestKinds, LockedKinds
<1>4. CASE InitCreate(p)
  <2>1. CASE helper' = [helper EXCEPT ![a] = "created"] /\ Continue(p, "initStart")
    <3>1. GoesOn(p, a, "initStart") /\ helper'[a] = "created"
      BY <2>1, ContinueWork DEF TInv, TypeOK
    <3>2. SeenKept(a)
      BY <1>1, <1>4, <3>1, SeenKeeps DEF InitCreate, GoesOn
    <3>3. QED
      BY <1>1, <1>4, <3>1, <3>2 DEF InitCreate, GoesOn, SeenKept, IsOver, NoRequest
  <2>2. CASE (helper[a] # "none" \/ "docker" \in Faults) /\ Fail(p) /\ UNCHANGED helper
    <3>1. (GoesOn(p, a, "settleFailed") /\ req[p].kind = "deploy") \/ IsOver(a)
      BY <2>2, FailWork
    <3>2. SeenKept(a)
      BY <1>1, <1>4, <3>1, SeenKeeps DEF InitCreate, GoesOn
    <3>3. QED
      BY <1>1, <1>2, <1>3, <1>4, <2>2, <3>1, <3>2 DEF InitCreate, GoesOn, SeenKept, IsOver, NoRequest
  <2>3. QED  BY <1>1, <1>4, <2>1, <2>2 DEF InitCreate
<1>5. CASE InitStart(p)
  <2>1. CASE helper' = [helper EXCEPT ![a] = "running"] /\ Continue(p, "initWait")
    <3>1. GoesOn(p, a, "initWait") /\ helper'[a] = "running"
      BY <2>1, ContinueWork DEF TInv, TypeOK
    <3>2. SeenKept(a)
      BY <1>1, <1>5, <3>1, SeenKeeps DEF InitStart, GoesOn
    <3>3. QED
      BY <1>1, <1>5, <3>1, <3>2 DEF InitStart, GoesOn, SeenKept, IsOver, NoRequest
  <2>2. CASE "docker" \in Faults /\ Fail(p) /\ UNCHANGED helper
    <3>1. (GoesOn(p, a, "settleFailed") /\ req[p].kind = "deploy") \/ IsOver(a)
      BY <2>2, FailWork
    <3>2. SeenKept(a)
      BY <1>1, <1>5, <3>1, SeenKeeps DEF InitStart, GoesOn
    <3>3. QED
      BY <1>1, <1>2, <1>3, <1>5, <2>2, <3>1, <3>2 DEF InitStart, GoesOn, SeenKept, IsOver, NoRequest
  <2>3. QED  BY <1>1, <1>5, <2>1, <2>2 DEF InitStart
<1>6. CASE InitWait(p)
  <2>1. CASE helper[a] = "none" /\ Continue(p, "verify")
    <3>1. GoesOn(p, a, "verify")
      BY <2>1, ContinueWork
    <3>2. SeenKept(a)
      BY <1>1, <1>6, <3>1, SeenKeeps DEF InitWait, GoesOn
    <3>3. QED
      BY <1>1, <1>6, <2>1, <3>1, <3>2 DEF InitWait, GoesOn, SeenKept, IsOver, NoRequest
  <2>2. CASE Faults \cap {"timeout", "reap", "docker"} # {} /\ Fail(p)
    <3>1. (GoesOn(p, a, "settleFailed") /\ req[p].kind = "deploy") \/ IsOver(a)
      BY <2>2, FailWork
    <3>2. SeenKept(a)
      BY <1>1, <1>6, <3>1, SeenKeeps DEF InitWait, GoesOn
    <3>3. QED
      BY <1>1, <1>2, <1>3, <1>6, <2>2, <3>1, <3>2 DEF InitWait, GoesOn, SeenKept, IsOver, NoRequest
  <2>3. QED  BY <1>1, <1>6, <2>1, <2>2 DEF InitWait
<1>7. QED  BY <1>4, <1>5, <1>6

LEMMA RunServes ==
    ASSUME TInv, NEW p \in Procs, NEW a \in Apps, WorksOn(p, a), Serving(a),
           VerifySingleWriter(p) \/ RunCreate(p) \/ RunBoot(p)
    PROVE  Serving(a)'
<1> USE DEF At, Serving, ServingOK, SnapIsRow, HelperGone, DeployOwns, ImageOK, DownOK, UpOK,
            UpHolds, Up, Has, Down, BeforeCreate, HasSnap, WithSnap, StartSteps, Restarting
<1>1. /\ App(p) = a /\ Work(a) = req[p]
      /\ req[p].kind \in {"deploy", "start", "restart", "nightly"} \cap Kinds
      /\ req[p].image \in Images
      /\ req[p].kind # "deploy" => req[p].image = req[p].snap.image
      /\ ctr[a] \in Container \cup {None}
  BY DEF WorksOn, VerifySingleWriter, RunCreate, RunBoot, RequestOK, ImageRead
<1>2. IsOver(a) => (Work(a).pc)' = "idle" /\ (Work(a).kind)' = None
  BY DEF IsOver, NoRequest
<1>3. None \notin {"start", "stop", "restart", "nightly", "deploy"}
  BY NoneIsNoKind DEF RequestKinds, LockedKinds
<1>4. CASE VerifySingleWriter(p)
  <2>1. CASE GoesOn(p, a, "create")
    <3>1. SeenKept(a)
      BY <1>1, <1>4, <2>1, SeenKeeps DEF VerifySingleWriter
    <3>2. QED  BY <1>1, <1>4, <2>1, <3>1 DEF VerifySingleWriter, GoesOn, SeenKept, IsOver, NoRequest
  <2>2. CASE ~GoesOn(p, a, "create")
    <3>1. Fail(p) /\ (Running(a) \/ helper[a] = "running" \/ "docker" \in Faults)
      BY <1>1, <1>4, <2>2, ContinueWork DEF VerifySingleWriter
    <3>2. (GoesOn(p, a, "settleFailed") /\ req[p].kind = "deploy") \/ IsOver(a)
      BY <3>1, FailWork
    <3>3. SeenKept(a)
      BY <1>4, <3>2, SeenKeeps DEF VerifySingleWriter, GoesOn
    <3>4. QED
      BY <1>1, <1>2, <1>3, <1>4, <3>1, <3>2, <3>3
         DEF VerifySingleWriter, GoesOn, Running, SeenKept, IsOver, NoRequest
  <2>3. QED  BY <2>1, <2>2
<1>5. CASE RunCreate(p)
  <2>1. CASE Running(a) /\ Started(p) /\ UNCHANGED ctr
    <3>1. req[p].kind # "deploy" /\ GoesOn(p, a, "save")
      BY <1>1, <1>5, <2>1, StartedWork DEF RunCreate, Running
    <3>2. ctr[a] # None /\ ctr[a].st = "running" /\ helper[a] = "none"
      BY <1>1, <1>5, <2>1 DEF RunCreate, Running
    <3>3. ImageHolds => ctr[a].image = req[p].image
      <4>1. ImageHolds => Seen(a) = None \/ ctr[a].image = Seen(a).image
        BY <1>1, <1>5, <3>2 DEF RunCreate
      <4>2. ImageHolds => req[p].kind # "nightly"
        BY <1>1, <1>5, <3>2 DEF RunCreate, ImageHolds, RowHolds, DaemonStays
      <4>3. ImageHolds => Seen(a) = req[p].snap /\ req[p].snap \in Row
        BY <1>1, <1>5, <3>1, <4>2 DEF RunCreate, WorksOn, RequestOK
      <4>4. QED  BY <1>1, <1>5, <3>1, <4>1, <4>3, AbsenceAssumption DEF RunCreate
    <3>4. SeenKept(a)
      BY <1>1, <1>5, <3>1, SeenKeeps DEF RunCreate
    <3>5. QED
      BY <1>1, <1>5, <2>1, <3>1, <3>2, <3>3, <3>4 DEF RunCreate, GoesOn, SeenKept, IsOver, NoRequest
  <2>2. CASE /\ ctr' = [ctr EXCEPT ![a] = [st |-> "created", image |-> req[p].image]]
             /\ Continue(p, "boot")
    <3>1. GoesOn(p, a, "boot") /\ ctr'[a] = [st |-> "created", image |-> req[p].image]
      BY <2>2, ContinueWork DEF TInv, TypeOK
    <3>2. SeenKept(a)
      BY <1>1, <1>5, <3>1, SeenKeeps DEF RunCreate
    <3>3. QED  BY <1>1, <1>5, <3>1, <3>2 DEF RunCreate, GoesOn, SeenKept, IsOver, NoRequest
  <2>3. CASE /\ ~Running(a) /\ "docker" \in Faults /\ Fail(p)
             /\ ctr' = [ctr EXCEPT ![a] = None] \/ UNCHANGED ctr
    <3>1. (GoesOn(p, a, "settleFailed") /\ req[p].kind = "deploy") \/ IsOver(a)
      BY <2>3, FailWork
    <3>2. ctr'[a] = None \/ ctr'[a] = ctr[a]
      BY <2>3 DEF TInv, TypeOK
    <3>3. SeenKept(a)
      BY <1>5, <3>1, SeenKeeps DEF RunCreate, GoesOn
    <3>4. QED
      BY <1>1, <1>2, <1>3, <1>5, <2>3, <3>1, <3>2, <3>3 DEF RunCreate, GoesOn, SeenKept
  <2>4. QED  BY <1>1, <1>5, <2>1, <2>2, <2>3 DEF RunCreate
<1>6. CASE RunBoot(p)
  <2>1. CASE /\ ctr' = [ctr EXCEPT ![a] = [st |-> "running", image |-> req[p].image]]
             /\ Started(p)
    <3>1. \/ req[p].kind = "deploy" /\ GoesOn(p, a, "setDeployed")
          \/ req[p].kind # "deploy" /\ GoesOn(p, a, "save")
      BY <2>1, StartedWork
    <3>2. /\ ctr'[a] \in Container /\ ctr'[a] # None
          /\ ctr'[a].st = "running" /\ ctr'[a].image = req[p].image
      BY <1>1, <2>1, AbsenceAssumption DEF TInv, TypeOK, Container
    <3>3. SeenKept(a)
      BY <1>1, <1>6, <3>1, SeenKeeps DEF RunBoot, GoesOn
    <3>4. QED
      BY <1>1, <1>6, <3>1, <3>2, <3>3 DEF RunBoot, GoesOn, SeenKept, IsOver, NoRequest
  <2>2. CASE "docker" \in Faults /\ Fail(p) /\ UNCHANGED ctr
    <3>1. (GoesOn(p, a, "settleFailed") /\ req[p].kind = "deploy") \/ IsOver(a)
      BY <2>2, FailWork
    <3>2. SeenKept(a)
      BY <1>6, <3>1, SeenKeeps DEF RunBoot, GoesOn
    <3>3. QED
      BY <1>1, <1>2, <1>3, <1>6, <2>2, <3>1, <3>2 DEF RunBoot, GoesOn, SeenKept
  <2>3. QED  BY <1>1, <1>6, <2>1, <2>2 DEF RunBoot
<1>7. QED  BY <1>4, <1>5, <1>6

LEMMA StartServes ==
    ASSUME TInv, NEW p \in Procs, NEW a \in Apps, WorksOn(p, a), Serving(a),
           StartFind(p) \/ SaveRunning(p) \/ NightlyRecheck(p)
    PROVE  Serving(a)'
<1> USE DEF At, Serving, ServingOK, SnapIsRow, HelperGone, DeployOwns, ImageOK, DownOK, UpOK,
            UpHolds, Up, Has, Down, BeforeCreate, HasSnap, WithSnap, StartSteps, Restarting
<1>1. App(p) = a /\ Work(a) = req[p] /\ row[a] \in Row \cup {None}
  BY DEF WorksOn
<1>2. IsOver(a) => (Work(a).pc)' = "idle" /\ (Work(a).kind)' = None
  BY DEF IsOver, NoRequest
<1>3. None \notin {"start", "stop", "restart", "nightly", "deploy"}
  BY NoneIsNoKind DEF RequestKinds, LockedKinds
<1>4. CASE StartFind(p)
  <2> DEFINE w == row[a]
  <2>1. CASE Startable(w)
    <3>1. /\ req' = [req EXCEPT ![p].pc = "initCreate", ![p].image = w.image, ![p].snap = w]
          /\ UNCHANGED lock
      BY <1>1, <1>4, <2>1 DEF StartFind
    <3>2. Work(a)' = req'[p]
      BY <3>1, NoneIsNoKind DEF Work, WorksOn
    <3>3. /\ req[p] \in Request /\ req[p].kind \in {"start", "restart"}
          /\ req'[p] = [req[p] EXCEPT !.pc = "initCreate", !.image = w.image, !.snap = w]
      BY <1>4, <3>1 DEF StartFind, WorksOn, RequestOK, TInv, TypeOK
    <3> HIDE DEF w
    <3>4. /\ (Work(a).pc)' = "initCreate" /\ (Work(a).kind)' = req[p].kind
          /\ (Work(a).snap)' = w
      BY <3>2, <3>3 DEF Request
    <3>5. w.state = "stopped"
      BY <1>1, <2>1 DEF Startable, Row, w
    <3>6. w # None /\ Seen(a) = w /\ Seen(a)' = w
      BY <1>4, <2>1 DEF Startable, StartFind, Seen, w
    <3>7. QED  BY <1>1, <1>4, <3>3, <3>4, <3>5, <3>6 DEF StartFind, w
  <2>2. CASE ~Startable(w)
    <3>1. IsOver(a)
      BY <1>1, <1>4, <2>2, FinishWork DEF StartFind
    <3>2. SeenKept(a)
      BY <1>4, <3>1, SeenKeeps DEF StartFind
    <3>3. QED  BY <1>1, <1>2, <1>3, <1>4, <3>1, <3>2 DEF StartFind, SeenKept, Spared
  <2>3. QED  BY <2>1, <2>2
<1>5. CASE SaveRunning(p)
  <2>1. /\ req[p].kind \in Restarting /\ req[p].snap \in Row
        /\ req[p].image = req[p].snap.image
        /\ IsOver(a) \/ GoesOn(p, a, "sync")
    BY <1>5, FinishWork, ContinueWork DEF SaveRunning, WorksOn, RequestOK, ImageRead
  <2>2. row'[a] = [req[p].snap EXCEPT !.state = "running"] /\ UNCHANGED <<ctr, helper>>
    BY <1>1, <1>5 DEF SaveRunning, SaveRow, TInv, TypeOK
  <2>3. row'[a] \in Row /\ row'[a].state = "running" /\ row'[a].image = req[p].image
    BY <2>1, <2>2 DEF Row
  <2>4. Seen(a)' = row'[a] /\ row'[a] # None
    BY <2>3, AbsenceAssumption DEF Seen
  <2>5. QED  BY <1>1, <1>2, <1>3, <1>5, <2>1, <2>2, <2>3, <2>4 DEF SaveRunning, GoesOn
<1>6. CASE NightlyRecheck(p)
  <2>1. req[p].kind = "nightly"
    BY <1>6 DEF NightlyRecheck, WorksOn, RequestOK
  <2>2. CASE Running(a) /\ Continue(p, "stopCtr")
    <3>1. GoesOn(p, a, "stopCtr")
      BY <2>2, ContinueWork
    <3>2. SeenKept(a)
      BY <1>6, <2>1, <3>1, SeenKeeps DEF NightlyRecheck, GoesOn
    <3>3. QED
      BY <1>1, <1>6, <2>1, <2>2, <3>1, <3>2
         DEF NightlyRecheck, GoesOn, Running, SeenKept, IsOver, NoRequest
  <2>3. CASE Finish(p)
    <3>1. IsOver(a)
      BY <2>3, FinishWork
    <3>2. SeenKept(a)
      BY <1>6, <3>1, SeenKeeps DEF NightlyRecheck
    <3>3. QED  BY <1>1, <1>2, <1>3, <1>6, <3>1, <3>2 DEF NightlyRecheck, SeenKept, Spared
  <2>4. QED  BY <1>1, <1>6, <2>2, <2>3 DEF NightlyRecheck
<1>7. QED  BY <1>4, <1>5, <1>6

LEMMA StopServes ==
    ASSUME TInv, NEW p \in Procs, NEW a \in Apps, WorksOn(p, a), Serving(a),
           StopFind(p) \/ StopContainers(p) \/ SaveStopped(p)
    PROVE  Serving(a)'
<1> USE DEF At, Serving, ServingOK, SnapIsRow, HelperGone, DeployOwns, ImageOK, DownOK, UpOK,
            UpHolds, Up, Has, Down, BeforeCreate, HasSnap, WithSnap, StartSteps, Restarting
<1>1. /\ App(p) = a /\ Work(a) = req[p] /\ row[a] \in Row \cup {None} /\ ctr[a] \in Container \cup {None}
      /\ req[p].kind \in {"stop", "restart", "nightly"}
  BY DEF WorksOn, StopFind, StopContainers, SaveStopped, RequestOK, LockedKinds
<1>2. IsOver(a) => (Work(a).pc)' = "idle" /\ (Work(a).kind)' = None
  BY DEF IsOver, NoRequest
<1>3. None \notin {"start", "stop", "restart", "nightly", "deploy"}
  BY NoneIsNoKind DEF RequestKinds, LockedKinds
<1>4. CASE StopFind(p)
  <2> DEFINE w == row[a]
  <2>1. CASE w = None
    <3>1. IsOver(a)
      BY <1>1, <1>4, <2>1, FinishWork DEF StopFind
    <3>2. SeenKept(a)
      BY <1>4, <3>1, SeenKeeps DEF StopFind
    <3>3. QED  BY <1>1, <1>2, <1>3, <1>4, <3>1, <3>2 DEF StopFind, SeenKept, Spared
  <2>2. CASE w # None
    <3>1. req' = [req EXCEPT ![p].pc = "stopCtr", ![p].snap = w] /\ UNCHANGED lock
      BY <1>1, <1>4, <2>2 DEF StopFind
    <3>2. Work(a)' = req'[p]
      BY <3>1, NoneIsNoKind DEF Work, WorksOn
    <3>3. /\ req[p] \in Request /\ req[p].kind \in {"stop", "restart"}
          /\ req'[p] = [req[p] EXCEPT !.pc = "stopCtr", !.snap = w]
      BY <1>4, <3>1 DEF StopFind, WorksOn, RequestOK, TInv, TypeOK
    <3> HIDE DEF w
    <3>4. /\ (Work(a).pc)' = "stopCtr" /\ (Work(a).kind)' = req[p].kind
          /\ (Work(a).snap)' = w
      BY <3>2, <3>3 DEF Request
    <3>5. Seen(a) = w /\ Seen(a)' = w /\ w # None
      BY <1>4, <2>2 DEF StopFind, Seen, w
    <3>6. QED  BY <1>1, <1>4, <3>3, <3>4, <3>5 DEF StopFind, w
  <2>3. QED  BY <2>1, <2>2
<1>5. CASE StopContainers(p)
  <2>1. ASSUME NEW stopped \in SUBSET Apps, StopMatching(stopped)
        PROVE  /\ ctr[a] = None => ctr'[a] = None
               /\ ctr[a] # None => ctr'[a] \in Container /\ ctr'[a].image = ctr[a].image
               /\ ctr[a] # None /\ ctr[a].st = "created" => ctr'[a] = ctr[a]
               /\ Down(ctr[a]) \/ a \in stopped => Down(ctr'[a])
    <3>1. ctr'[a] = IF a \in stopped /\ Running(a) THEN [ctr[a] EXCEPT !.st = "exited"] ELSE ctr[a]
      BY <2>1 DEF StopMatching
    <3>2. QED  BY <1>1, <3>1 DEF Running, Container
  <2>2. a \in Matching(a) /\ Matching(a) \in SUBSET Apps
    BY SubstringAssumption DEF Matching
  <2>3. CASE StopMatching(Matching(a)) /\ UNCHANGED <<row, deploys, helper>>
             /\ Continue(p, CASE Is(p, "nightly") -> "initCreate"
                              [] Is(p, "delete") -> "deleteRecords"
                              [] OTHER -> "saveStopped")
    <3>1. \/ req[p].kind = "nightly" /\ GoesOn(p, a, "initCreate")
          \/ req[p].kind # "nightly" /\ GoesOn(p, a, "saveStopped")
      <4>1. CASE req[p].kind = "nightly"
        BY <2>3, <4>1, ContinueWork DEF Is
      <4>2. CASE req[p].kind # "nightly"
        BY <1>1, <2>3, <4>2, ContinueWork DEF Is
      <4>3. QED  BY <4>1, <4>2
    <3>2. Down(ctr'[a])
      BY <2>1, <2>2, <2>3
    <3>3. SeenKept(a)
      BY <1>1, <1>5, <2>3, <3>1, SeenKeeps DEF StopContainers
    <3>4. QED
      BY <1>1, <1>5, <2>1, <2>2, <2>3, <3>1, <3>2, <3>3
         DEF StopContainers, GoesOn, SeenKept, IsOver, NoRequest
  <2>4. ASSUME "docker" \in Faults, NEW stopped \in SUBSET Matching(a), StopMatching(stopped),
               Finish(p), UNCHANGED <<row, deploys, helper>>
        PROVE  Serving(a)'
    <3>1. IsOver(a)
      BY <2>4, FinishWork
    <3>2. SeenKept(a)
      BY <2>4, <3>1, SeenKeeps
    <3>3. QED
      BY <1>1, <1>2, <1>3, <1>5, <2>1, <2>2, <2>4, <3>1, <3>2 DEF StopContainers, SeenKept
  <2>5. QED  BY <1>1, <1>5, <2>3, <2>4 DEF StopContainers, Is
<1>6. CASE SaveStopped(p)
  <2>1. /\ req[p].kind \in {"stop", "restart"} /\ req[p].snap = Seen(a) /\ Seen(a) \in Row
        /\ GoesOn(p, a, "sync")
    BY <1>1, <1>6, ContinueWork DEF SaveStopped, WorksOn, RequestOK
  <2>2. row'[a] = [Seen(a) EXCEPT !.state = "stopped"] /\ UNCHANGED <<ctr, helper>>
    BY <1>1, <1>6, <2>1 DEF SaveStopped, SaveRow, TInv, TypeOK
  <2>3. row'[a] \in Row /\ row'[a].state = "stopped" /\ row'[a].image = Seen(a).image
    BY <2>1, <2>2 DEF Row
  <2>4. Seen(a)' = row'[a] /\ row'[a] # None /\ Seen(a) # None
    BY <2>1, <2>3, AbsenceAssumption DEF Seen
  <2>5. QED  BY <1>1, <1>2, <1>3, <1>6, <2>1, <2>2, <2>3, <2>4 DEF SaveStopped, GoesOn
<1>7. QED  BY <1>4, <1>5, <1>6

(* The sync of Caddy, and a call whose peer never answers. *)
LEMMA SyncServes ==
    ASSUME TInv, NEW p \in Procs, NEW a \in Apps, WorksOn(p, a), Serving(a),
           Sync(p) \/ Hang(p)
    PROVE  Serving(a)'
<1> USE DEF At, Serving, ServingOK, SnapIsRow, HelperGone, DeployOwns, ImageOK, DownOK, UpOK,
            UpHolds, Up, Has, Down, BeforeCreate, HasSnap, WithSnap, StartSteps, Restarting
<1>1. App(p) = a /\ Work(a) = req[p] /\ UNCHANGED <<row, ctr, helper>>
  BY DEF WorksOn, Sync, Hang
<1>2. IsOver(a) => (Work(a).pc)' = "idle" /\ (Work(a).kind)' = None
  BY DEF IsOver, NoRequest
<1>3. None \notin {"start", "stop", "restart", "nightly", "deploy"}
  BY NoneIsNoKind DEF RequestKinds, LockedKinds
<1>4. CASE Sync(p)
  <2>1. \/ req[p].kind = "deploy" /\ (GoesOn(p, a, "settleOk") \/ GoesOn(p, a, "settleLate"))
        \/ req[p].kind = "restart" /\ GoesOn(p, a, "startFind")
        \/ IsOver(a)
    BY <1>4, FinishWork, ContinueWork DEF Sync, Is
  <2>2. SeenKept(a)
    BY <1>1, <1>4, <2>1, SeenKeeps DEF Sync, GoesOn
  <2>3. CASE IsOver(a)
    BY <1>1, <1>2, <1>3, <1>4, <2>2, <2>3 DEF Sync, SeenKept, Spared
  <2>4. CASE ~IsOver(a)
    BY <1>1, <1>3, <1>4, <2>1, <2>2, <2>4 DEF Sync, GoesOn, SeenKept
  <2>5. QED  BY <2>3, <2>4
<1>5. CASE Hang(p)
  <2>1. \/ req[p].pc = "pull" /\ req[p].kind = "deploy" /\ GoesOn(p, a, "hung")
        \/ req[p].pc = "initCreate" /\ GoesOn(p, a, "hung")
        \/ req[p].pc = "sync" /\ GoesOn(p, a, "syncHung")
    BY <1>5, ContinueWork DEF Hang, WorksOn, RequestOK, DeploySteps
  <2>2. SeenKept(a)
    BY <1>1, <2>1, SeenKeeps DEF GoesOn
  <2>3. CASE req[p].pc = "sync"
    BY <1>1, <1>3, <2>1, <2>2, <2>3 DEF GoesOn, SeenKept, IsOver, NoRequest
  <2>4. CASE req[p].pc # "sync"
    BY <1>1, <1>3, <2>1, <2>2, <2>4 DEF GoesOn, SeenKept, IsOver, NoRequest
  <2>5. QED  BY <2>3, <2>4
<1>6. QED  BY <1>4, <1>5

-----------------------------------------------------------------------------
(* The other apps, and the requests that do not work under the lock *)

LEMMA WorkElsewhere ==
    ASSUME TInv, LockInv, NEW p \in Procs, NEW b \in Apps,
           \/ (Finish(p) \/ Quiet(p)) /\ (~InSection(p) \/ b # App(p))
           \/ Enters(p) /\ b # App(p)
    PROVE  Work(b)' = Work(b)
<1>1. req[p] \in Request /\ lock[b] \in Procs \cup {None} /\ lock \in [Apps -> Procs \cup {None}]
  BY DEF TInv, TypeOK
<1>2. lock[b] # p
  BY DEF LockInv, InSection, Enters, UnlockedSteps
<1>3. lock'[b] = lock[b]
  BY <1>1, <1>2 DEF Finish, Quiet, Enters
<1>4. lock[b] # None => req'[lock[b]] = req[lock[b]]
  BY <1>1, <1>2 DEF Finish, Quiet, Enters, TInv, TypeOK
<1>5. QED  BY <1>3, <1>4 DEF Work

LEMMA FinishServes ==
    ASSUME TInv, LockInv, ServingInv, NEW p \in Procs, Finish(p),
           UNCHANGED <<row, ctr, helper>>,
           ~InSection(p) \/ ~Undropped
    PROVE  \A b \in Apps : Serving(b)'
<1> SUFFICES ASSUME NEW b \in Apps PROVE Serving(b)'
  OBVIOUS
<1>1. CASE Work(b)' = Work(b)
  BY <1>1, StoppedServing DEF AtMostStopped
<1>2. CASE Work(b)' # Work(b)
  <2>1. lock[b] = p /\ ~Undropped
    <3>1. InSection(p) /\ b = App(p)
      BY <1>2, WorkElsewhere
    <3>2. QED  BY <3>1 DEF LockInv
  <2>2. Work(b)' = NoRequest
    BY <2>1 DEF Finish, Work, TInv, TypeOK
  <2>3. (Work(b).pc)' = "idle" /\ (Work(b).kind)' = None /\ None \notin {"start", "stop", "restart", "deploy"}
    BY <2>2, NoneIsNoKind DEF NoRequest, RequestKinds, LockedKinds
  <2>4. ~ImageHolds /\ ~RowHolds /\ ~UpHolds
    BY <2>1 DEF ImageHolds, RowHolds, UpHolds, Undropped
  <2>5. Seen(b)' = row[b] /\ row[b] \in Row \cup {None}
    BY <2>3 DEF Seen, HasSnap, TInv, TypeOK
  <2>6. QED
    BY <2>3, <2>4, <2>5 DEF ServingInv, Serving, ServingOK, SnapIsRow, HasSnap, HelperGone, DeployOwns,
                       BeforeCreate
<1>3. QED  BY <1>1, <1>2

LEMMA QuietServes ==
    ASSUME TInv, LockInv, ServingInv, NEW p \in Procs, Quiet(p),
           UNCHANGED <<row, ctr, helper>>, ~InSection(p)
    PROVE  \A b \in Apps : Serving(b)'
BY WorkElsewhere, StoppedServing DEF AtMostStopped

LEMMA EntersServes ==
    ASSUME TInv, LockInv, ServingInv, NEW p \in Procs, LockApp(p) \/ TryLockApp(p),
           Enters(p)
    PROVE  \A b \in Apps : Serving(b)'
<1> SUFFICES ASSUME NEW b \in Apps PROVE Serving(b)'
  OBVIOUS
<1>1. UNCHANGED <<row, ctr, helper>>
  BY DEF LockApp, TryLockApp
<1>2. CASE b # App(p)
  BY <1>1, <1>2, WorkElsewhere, StoppedServing DEF AtMostStopped
<1>3. CASE b = App(p)
  <2>1. Work(b) = NoRequest /\ Work(b)' = req'[p]
    BY <1>3, NoneIsNoKind DEF Enters, Work, TInv, TypeOK
  <2>2. /\ req'[p].kind = req[p].kind /\ req'[p].pc \notin Outside
        /\ req'[p].pc \in Outside \cup {"find", "startFind", "stopFind", "recheck"}
    BY DEF LockApp, TryLockApp, Goto, Enters, Finish, NoRequest, Outside, TInv, TypeOK, Request
  <2>3. Work(b).pc = "idle" /\ Work(b).kind = None /\ None \notin {"start", "stop", "restart", "deploy"}
    BY <2>1, NoneIsNoKind DEF NoRequest, RequestKinds, LockedKinds
  <2>4. Serving(b)
    BY DEF ServingInv
  <2>5. Seen(b) = row[b] /\ Seen(b)' = row[b]
    BY <1>1, <2>1, <2>2, <2>3 DEF Seen, HasSnap, WithSnap, StartSteps, Outside
  <2>6. QED
    BY <1>1, <2>1, <2>2, <2>3, <2>4, <2>5
       DEF Serving, ServingOK, SnapIsRow, HasSnap, HelperGone, DeployOwns,
        ImageOK, DownOK, UpOK, BeforeCreate, WithSnap, StartSteps, Outside
<1>4. QED  BY <1>2, <1>3

LEMMA ArriveServes ==
    ASSUME TInv, LockInv, ServingInv, NEW p \in Procs, Arrive(p)
    PROVE  ServingInv'
<1>1. PICK kind \in Kinds, a \in Apps, i \in Images :
        req' = [req EXCEPT ![p] =
                 [NoRequest EXCEPT !.pc = FirstStep(kind), !.kind = kind, !.app = a,
                                   !.image = IF kind = "deploy" THEN i ELSE None]]
  BY DEF Arrive
<1>2. /\ req'[p].pc = FirstStep(kind) /\ req'[p].kind = kind
      /\ \A q \in Procs \ {p} : req'[q] = req[q]
  BY <1>1 DEF NoRequest, TInv, TypeOK
<1>3. /\ req'[p].pc \in {"exists", "list", "editRead", "deleteFind", "acquire"}
      /\ req'[p].kind \in Kinds
  BY <1>2 DEF FirstStep
<1>4. \A q \in Procs : ReadsOK(req'[q])
  <2>1. ReadsOK(req'[p])
    BY <1>3 DEF ReadsOK, ImageRead, StartSteps
  <2>2. QED  BY <1>2, <2>1, ReadsUpdate DEF ServingInv
<1>5. ASSUME NEW b \in Apps PROVE Serving(b)'
  <2>1. lock[b] # p
    BY DEF LockInv, InSection, Arrive, At
  <2>2. Work(b)' = Work(b)
    BY <1>2, <2>1 DEF Arrive, Work, TInv, TypeOK
  <2>3. QED  BY <2>2, StoppedServing DEF AtMostStopped, Arrive
<1>6. QED  BY <1>4, <1>5 DEF ServingInv

LEMMA EnvironmentServes ==
    ASSUME TInv, LockInv, ServingInv,
           DaemonRestart \/ (\E a \in Apps : HelperExits(a)) \/ UNCHANGED vars
    PROVE  ServingInv'
<1>1. UNCHANGED <<row, lock, req>>
  BY DEF DaemonRestart, HelperExits, vars
<1>2. \A b \in Apps : Work(b)' = Work(b)
  BY <1>1 DEF Work
<1>3. \A q \in Procs : ReadsOK(req'[q])
  BY <1>1 DEF ServingInv
<1>4. ASSUME NEW b \in Apps PROVE Serving(b)'
  <2>1. /\ Serving(b) /\ ctr[b] \in Container \cup {None}
        /\ helper[b] \in {"none", "created", "running"} /\ Seen(b)' = Seen(b)
    BY <1>1, <1>2 DEF ServingInv, TInv, TypeOK, Seen
  <2>2. CASE DaemonRestart
    <3>1. /\ ctr[b] = None => ctr'[b] = None
          /\ ctr[b] # None => /\ ctr'[b] \in Container /\ ctr'[b].image = ctr[b].image
                              /\ ctr[b].st = "running" => ctr'[b].st = "running"
                              /\ ctr[b].st = "created" => ctr'[b] = ctr[b]
                              /\ ctr'[b].st = "created" => ctr[b].st = "created"
      BY <2>1, <2>2 DEF DaemonRestart, Container
    <3>2. helper'[b] = IF helper[b] = "running" THEN "none" ELSE helper[b]
      BY <2>2 DEF DaemonRestart
    <3>3. ~RowHolds
      BY <2>2 DEF DaemonRestart, RowHolds, DaemonStays
    <3>4. ctr[b] # None => ctr'[b] # None
      BY <3>1, AbsenceAssumption
    <3>5. QED
      BY <1>1, <1>2, <2>1, <3>1, <3>2, <3>3, <3>4
         DEF Serving, ServingOK, HelperGone, DeployOwns, ImageOK, UpOK, Up, Has
  <2>3. CASE \E a \in Apps : HelperExits(a)
    <3>1. PICK a \in Apps : HelperExits(a)
      BY <2>3
    <3>2. UNCHANGED ctr /\ (helper'[b] = helper[b] \/ (helper'[b] = "none" /\ helper[b] = "running"))
      <4>1. helper[a] = "running" /\ helper' = [helper EXCEPT ![a] = "none"] /\ UNCHANGED ctr
        BY <3>1 DEF HelperExits
      <4>2. helper \in [Apps -> {"none", "created", "running"}]
        BY DEF TInv, TypeOK
      <4>3. QED  BY <4>1, <4>2
    <3>3. QED
      BY <1>1, <1>2, <2>1, <3>2 DEF Serving, ServingOK, HelperGone, DownOK, UpOK
  <2>4. CASE UNCHANGED vars
    BY <1>2, <2>1, <2>4 DEF vars, Serving
  <2>5. QED  BY <2>2, <2>3, <2>4
<1>5. QED  BY <1>3, <1>4 DEF ServingInv

-----------------------------------------------------------------------------
(* Every step *)

\* The sync of a request that takes no lock, answered or not.
SyncsUnlocked(p) == (Sync(p) \/ Hang(p)) /\ ~InSection(p)

\* The steps outside the section of the lock.
Unlocked(p) ==
    \/ DeployExists(p) \/ NightlyList(p) \/ NightlyLive(p) \/ TryLockApp(p) \/ LockApp(p)
    \/ SyncsUnlocked(p)

\* The steps of a deletion.
Deletes(p) ==
    \/ DeleteFind(p) \/ DeleteRecords(p) \/ DeleteRow(p)
    \/ StopContainers(p) /\ Is(p, "delete")

\* The steps of the requests that take no lock at all.
Lockless(p) ==
    \/ EditRead(p) \/ EditSave(p) \/ Deletes(p)

\* The steps inside the section.
Locked(p) ==
    \/ DeployFind(p) \/ DeployInsert(p) \/ DeployPull(p)
    \/ DeployHalt(p) \/ DeployRemove(p) \/ SetDeployed(p)
    \/ DeploySucceeds(p) \/ DeployFails(p)
    \/ InitCreate(p) \/ InitStart(p) \/ InitWait(p) \/ VerifySingleWriter(p)
    \/ RunCreate(p) \/ RunBoot(p)
    \/ StartFind(p) \/ SaveRunning(p)
    \/ StopFind(p) \/ (StopContainers(p) /\ ~Is(p, "delete")) \/ SaveStopped(p)
    \/ NightlyRecheck(p)
    \/ (Sync(p) \/ Hang(p)) /\ InSection(p)

LEMMA StepsAre ==
    ASSUME NEW p \in Procs, Step(p) \/ Hang(p)
    PROVE  Unlocked(p) \/ Lockless(p) \/ Locked(p)
BY DEF Step, Unlocked, SyncsUnlocked, Lockless, Deletes, Locked

LEMMA LocklessKinds ==
    ASSUME TInv, ServingInv, NEW p \in Procs, Lockless(p)
    PROVE  /\ Deletes(p) => req[p].kind = "delete" /\ ~Undeleted
           /\ ~Deletes(p) => ~Unedited
           /\ ~InSection(p)
<1>1. /\ req[p].kind = (IF Deletes(p) THEN "delete" ELSE "edit")
      /\ req[p].pc # "idle"
  BY DEF Lockless, Deletes, EditRead, EditSave, DeleteFind, DeleteRecords, DeleteRow,
         StopContainers, Is, At, TInv, RequestsOK, RequestOK
<1>2. QED  BY <1>1 DEF ServingInv, ReadsOK, Undeleted, Unedited, InSection, LockedKinds

LEMMA LocklessNever ==
    ASSUME LockedOnly, TInv, ServingInv, NEW p \in Procs, Lockless(p)
    PROVE  FALSE
BY LocklessKinds DEF LockedOnly

LEMMA LockedSection ==
    ASSUME TInv, NEW p \in Procs, Locked(p)
    PROVE  InSection(p)
<1> SUFFICES ASSUME ~InSection(p) PROVE InSection(p)
  OBVIOUS
<1>1. req[p].pc \notin Outside
  BY DEF Locked, DeployFind, DeployInsert, DeployPull, DeployHalt, DeployRemove, SetDeployed,
       DeploySucceeds, DeployFails, DeploySettle, InitCreate, InitStart, InitWait,
       VerifySingleWriter, RunCreate, RunBoot, StartFind, SaveRunning, StopFind,
       StopContainers, SaveStopped, NightlyRecheck, At, Outside, UnlockedSteps
<1>2. req[p].pc \notin {"editRead", "editSave", "deleteFind", "deleteRecords", "deleteRow",
                       "sync", "syncHung"}
  BY DEF Locked, DeployFind, DeployInsert, DeployPull, DeployHalt, DeployRemove, SetDeployed,
       DeploySucceeds, DeployFails, DeploySettle, InitCreate, InitStart, InitWait,
       VerifySingleWriter, RunCreate, RunBoot, StartFind, SaveRunning, StopFind,
       StopContainers, SaveStopped, NightlyRecheck, At
<1>3. req[p].pc = "stopCtr" => req[p].kind # "delete"
  BY DEF Locked, DeployFind, DeployInsert, DeployPull, DeployHalt, DeployRemove, SetDeployed,
       DeploySucceeds, DeployFails, DeploySettle, InitCreate, InitStart, InitWait,
       VerifySingleWriter, RunCreate, RunBoot, StartFind, SaveRunning, StopFind,
       StopContainers, SaveStopped, NightlyRecheck, At, Is
<1>4. req[p] \in Request /\ RequestOK(req[p])
  BY DEF TInv, TypeOK, RequestsOK
<1>5. req[p].kind \notin {"edit", "delete"}
  BY <1>1, <1>2, <1>3, <1>4 DEF RequestOK, Request, Steps, DeploySteps, StartSteps, Outside, UnlockedSteps
<1>6. QED  BY <1>1, <1>5, Inside

LEMMA LockedElsewhere ==
    ASSUME TInv, LockInv, NEW p \in Procs, Locked(p), NEW b \in Apps, b # App(p)
    PROVE  AtMostStopped(b)
<1> USE DEF AtMostStopped
<1>1. CASE DeployFind(p) \/ DeployInsert(p) \/ DeployPull(p) \/ DeploySucceeds(p) \/ DeployFails(p)
           \/ InitWait(p) \/ VerifySingleWriter(p) \/ StartFind(p) \/ StopFind(p) \/ NightlyRecheck(p)
           \/ Sync(p) \/ Hang(p)
  BY <1>1 DEF Sync, Hang, DeployFind, DeployInsert, DeployPull, DeploySucceeds, DeployFails, DeploySettle,
              InitWait, VerifySingleWriter, StartFind, StopFind, NightlyRecheck
<1>2. CASE DeployHalt(p) \/ StopContainers(p)
  <2>1. App(p) \in Apps
    BY LockedSection DEF TInv, RequestsOK, RequestOK, App, InSection
  <2>2. PICK stopped \in SUBSET Apps : \/ StopMatching(stopped)
                                       \/ UNCHANGED ctr
    BY <1>2, <2>1 DEF DeployHalt, StopContainers, Matching
  <2>3. CASE OwnNames
    <3>1. Matching(App(p)) \subseteq {App(p)}
      BY <2>1, <2>3 DEF OwnNames, Matching
    <3>2. ctr'[b] = ctr[b]
      BY <1>2, <3>1 DEF DeployHalt, StopContainers, StopMatching, TInv, TypeOK
    <3>3. QED  BY <1>2, <3>2 DEF DeployHalt, StopContainers
  <2>4. CASE ~OwnNames
    BY <1>2, <2>2, <2>4 DEF Spared, DeployHalt, StopContainers, StopMatching
  <2>5. QED  BY <2>3, <2>4
<1>3. CASE DeployRemove(p) \/ RunCreate(p) \/ RunBoot(p)
  BY <1>3 DEF DeployRemove, RunCreate, RunBoot, TInv, TypeOK
<1>4. CASE InitCreate(p) \/ InitStart(p)
  BY <1>4 DEF InitCreate, InitStart, TInv, TypeOK
<1>5. CASE SaveRunning(p) \/ SaveStopped(p)
  BY <1>5 DEF SaveRunning, SaveStopped, SaveRow, TInv, TypeOK
<1>6. CASE SetDeployed(p)
  <2>1. row'[b] = row[b]
    BY <1>6 DEF SetDeployed, TInv, TypeOK
  <2>2. QED  BY <1>6, <2>1 DEF SetDeployed
<1>7. QED  BY <1>1, <1>2, <1>3, <1>4, <1>5, <1>6 DEF Locked

LEMMA LockedShape ==
    ASSUME TInv, NEW p \in Procs, Locked(p)
    PROVE  Finish(p) \/ Quiet(p)
BY DeployShape, StartContainerShape, StartStopShape, UnlockedShape DEF Locked

LEMMA LockedServes ==
    ASSUME TInv, LockInv, ServingInv, NEW p \in Procs, Locked(p)
    PROVE  \A b \in Apps : Serving(b)'
<1> SUFFICES ASSUME NEW b \in Apps PROVE Serving(b)'
  OBVIOUS
<1>1. CASE b # App(p)
  BY <1>1, LockedElsewhere, LockedShape, WorkElsewhere, StoppedServing
<1>2. CASE b = App(p)
  <2>1. WorksOn(p, b) /\ Serving(b)
    BY <1>2, LockedSection, AtWork DEF WorksOn, ServingInv
  <2>2. QED
    BY <2>1, DeployServes, SwapServes, HelperServes, RunServes, StartServes, StopServes, SyncServes
       DEF Locked
<1>3. QED  BY <1>1, <1>2

(* A deletion stops containers and removes a row that a request may be at   *)
(* work on.                                                                 *)
LEMMA DeletesServe ==
    ASSUME TInv, LockInv, ServingInv, NEW p \in Procs, Deletes(p)
    PROVE  \A b \in Apps : Serving(b)'
<1> SUFFICES ASSUME NEW b \in Apps PROVE Serving(b)'
  OBVIOUS
<1>1. ~Undeleted /\ ~InSection(p) /\ ~Spared
  BY LocklessKinds DEF Lockless, Spared
<1>2. Work(b)' = Work(b)
  <2>1. Finish(p) \/ Quiet(p)
    BY UnlockedShape, StartStopShape DEF Deletes
  <2>2. QED  BY <1>1, <2>1, WorkElsewhere
<1>3. CASE DeleteFind(p) \/ DeleteRecords(p) \/ StopContainers(p)
  <2>1. AtMostStopped(b)
    BY <1>1, <1>3 DEF DeleteFind, DeleteRecords, StopContainers, StopMatching, AtMostStopped
  <2>2. QED  BY <1>2, <2>1, StoppedServing
<1>4. CASE DeleteRow(p)
  <2>1. Serving(b) /\ row'[b] \in {row[b], None} /\ UNCHANGED <<ctr, helper>>
    BY <1>4 DEF DeleteRow, ServingInv, TInv, TypeOK
  <2>2. Seen(b)' = Seen(b) \/ (Seen(b)' = None /\ ~HasSnap(Work(b)))
    BY <1>2, <2>1 DEF Seen, Serving, ServingOK, SnapIsRow
  <2>3. QED
    BY <1>1, <1>2, <2>1, <2>2 DEF Serving, ServingOK, SnapIsRow, DeployOwns, ImageOK, DownOK, UpHolds
<1>5. QED  BY <1>3, <1>4 DEF Deletes

LEMMA UnlockedServes ==
    ASSUME TInv, LockInv, ServingInv, NEW p \in Procs, Unlocked(p)
    PROVE  \A b \in Apps : Serving(b)'
<1>1. ~InSection(p) /\ UNCHANGED <<row, ctr, helper>>
  BY DEF Unlocked, SyncsUnlocked, Sync, Hang, DeployExists, NightlyList, NightlyLive, TryLockApp, LockApp, At,
         InSection, UnlockedSteps
<1>2. Finish(p) \/ Quiet(p) \/ ((LockApp(p) \/ TryLockApp(p)) /\ Enters(p))
  BY DeployShape, UnlockedShape, EntersShape DEF Unlocked, SyncsUnlocked
<1>3. QED  BY <1>1, <1>2, FinishServes, QuietServes, EntersServes

\* A request moves on with what it has read and its record.
Moves(p) ==
    \E step \in Steps :
        /\ Goto(p, step) /\ req[p].pc # "idle"
        /\ \/ Edge(req[p], step)
           \/ req[p].pc \in StartSteps /\ step \in {"save", "setDeployed"}
           \/ step = "settleFailed"

LEMMA StepForms ==
    ASSUME TInv, NEW p \in Procs, Step(p) \/ LockApp(p) \/ Hang(p)
    PROVE  \/ Finish(p)
           \/ StartFind(p) /\ Startable(row[App(p)])
           \/ StopFind(p) \/ NightlyList(p) \/ EditRead(p) \/ DeployInsert(p)
           \/ Moves(p)
<1> SUFFICES ASSUME ~Finish(p)
             PROVE  \/ StartFind(p) /\ Startable(row[App(p)])
                    \/ StopFind(p) \/ NightlyList(p) \/ EditRead(p) \/ DeployInsert(p)
                    \/ Moves(p)
  OBVIOUS
<1> USE DEF At, Continue, Moves
<1>1. CASE LockApp(p) \/ TryLockApp(p) \/ NightlyLive(p) \/ NightlyRecheck(p) \/ DeployExists(p)
  BY <1>1 DEF LockApp, TryLockApp, NightlyLive, NightlyRecheck, DeployExists, Edge, Is, Steps,
              UnlockedSteps
<1>2. CASE DeployFind(p) \/ DeployPull(p) \/ DeployHalt(p) \/ DeployRemove(p) \/ SetDeployed(p)
  BY <1>2 DEF DeployFind, DeployPull, DeployHalt, DeployRemove, SetDeployed, Fail, Edge,
              Steps, StartSteps
<1>3. CASE InitCreate(p) \/ InitStart(p) \/ InitWait(p) \/ VerifySingleWriter(p)
  BY <1>3 DEF InitCreate, InitStart, InitWait, VerifySingleWriter, Fail, Edge, Steps, StartSteps
<1>4. CASE RunCreate(p) \/ RunBoot(p)
  BY <1>4 DEF RunCreate, RunBoot, Fail, Started, Edge, Steps, StartSteps
<1>5. CASE StopContainers(p) \/ SaveStopped(p)
  BY <1>5 DEF StopContainers, SaveStopped, Edge, Steps, StartSteps, Is
<1>6. CASE DeleteFind(p) \/ DeleteRecords(p)
  BY <1>6 DEF DeleteFind, DeleteRecords, Edge, Steps
<1>7. CASE DeploySucceeds(p) \/ DeployFails(p) \/ SaveRunning(p) \/ EditSave(p) \/ DeleteRow(p)
           \/ Sync(p) \/ Hang(p)
  BY <1>7 DEF DeploySucceeds, DeployFails, DeploySettle, SaveRunning, EditSave, DeleteRow,
              Sync, Hang, Is, Edge, Steps, StartSteps
<1>8. CASE StartFind(p)
  BY <1>8 DEF StartFind
<1>9. QED
  BY <1>1, <1>2, <1>3, <1>4, <1>5, <1>6, <1>7, <1>8 DEF Step

(* What a request reads is consistent: see ImageRead. *)
LEMMA StepReads ==
    ASSUME Unedited, TInv, ServingInv, NEW p \in Procs, Step(p) \/ LockApp(p) \/ Hang(p)
    PROVE  \A q \in Procs : ReadsOK(req'[q])
<1>1. /\ \A q \in Procs : ReadsOK(req[q])
      /\ req[p] \in Request /\ RequestOK(req[p])
  BY DEF ServingInv, TInv, TypeOK, RequestsOK
<1>2. CASE Finish(p)
  BY <1>1, <1>2, FinishReads
<1>3. ~EditRead(p)
  <2>1. req[p].kind = "edit" /\ req[p].pc # "idle" => ~Unedited
    BY <1>1 DEF ReadsOK, Unedited
  <2>2. QED  BY <1>1, <2>1 DEF EditRead, At, RequestOK
<1>4. ASSUME NEW step \in Steps, Goto(p, step), req[p].pc # "idle",
             \/ Edge(req[p], step)
             \/ req[p].pc \in StartSteps /\ step \in {"save", "setDeployed"}
             \/ step = "settleFailed"
      PROVE  \A q \in Procs : ReadsOK(req'[q])
  BY <1>1, <1>4, EdgeReads
<1>5. ASSUME NEW w, NEW step \in {"initCreate", "live"}, req[p].pc # "idle",
             req' = [req EXCEPT ![p].pc = step, ![p].image = w.image, ![p].snap = w]
      PROVE  \A q \in Procs : ReadsOK(req'[q])
  <2>1. /\ req'[p] = [req[p] EXCEPT !.pc = step, !.image = w.image, !.snap = w]
        /\ \A q \in Procs \ {p} : req'[q] = req[q]
    BY <1>5 DEF TInv, TypeOK
  <2>2. req'[p].kind = req[p].kind /\ req'[p].image = w.image /\ req'[p].snap = w
    BY <1>1, <2>1 DEF Request
  <2>3. ReadsOK(req'[p])
    BY <1>1, <1>5, <2>2 DEF ReadsOK, ImageRead
  <2>4. QED  BY <1>1, <2>1, <2>3, ReadsUpdate
<1>6. CASE StartFind(p) /\ Startable(row[App(p)])
  BY <1>5, <1>6 DEF StartFind, At
<1>7. CASE NightlyList(p) /\ ~Finish(p)
  <2>1. /\ req' = [req EXCEPT ![p].pc = "live", ![p].snap = row[App(p)], ![p].image = row[App(p)].image]
        /\ req[p].pc # "idle"
    BY <1>7 DEF NightlyList, At
  <2>2. req' = [req EXCEPT ![p].pc = "live", ![p].image = row[App(p)].image, ![p].snap = row[App(p)]]
    <3> DEFINE w == row[App(p)]
    <3>1. req' = [req EXCEPT ![p].pc = "live", ![p].snap = w, ![p].image = w.image]
      BY <2>1
    <3> HIDE DEF w
    <3>2. [req[p] EXCEPT !.pc = "live", !.snap = w, !.image = w.image]
            = [req[p] EXCEPT !.pc = "live", !.image = w.image, !.snap = w]
      BY <1>1 DEF Request
    <3>3. req' = [req EXCEPT ![p] = [req[p] EXCEPT !.pc = "live", !.snap = w, !.image = w.image]]
      BY <3>1 DEF TInv, TypeOK
    <3>4. [req EXCEPT ![p].pc = "live", ![p].image = w.image, ![p].snap = w]
            = [req EXCEPT ![p] = [req[p] EXCEPT !.pc = "live", !.image = w.image, !.snap = w]]
      BY DEF TInv, TypeOK
    <3>5. QED  BY <3>2, <3>3, <3>4 DEF w
  <2>3. QED  BY <1>5, <2>1, <2>2
<1>8. CASE StopFind(p) /\ ~Finish(p)
  <2>1. /\ req'[p] = [req[p] EXCEPT !.pc = "stopCtr", !.snap = row[App(p)]]
        /\ \A q \in Procs \ {p} : req'[q] = req[q]
        /\ req[p].kind \in {"stop", "restart"} /\ req[p].pc # "idle"
    BY <1>1, <1>8 DEF StopFind, At, RequestOK, TInv, TypeOK
  <2>2. req'[p].kind = req[p].kind /\ req'[p].pc = "stopCtr"
    BY <1>1, <2>1 DEF Request
  <2>3. ReadsOK(req'[p])
    BY <1>1, <2>1, <2>2 DEF ReadsOK, ImageRead, StartSteps
  <2>4. QED  BY <1>1, <2>1, <2>3, ReadsUpdate
<1>9. CASE DeployInsert(p) /\ ~Finish(p)
  <2>1. /\ req'[p] = [req[p] EXCEPT !.pc = "pull", !.rec = Len(deploys) + 1]
        /\ \A q \in Procs \ {p} : req'[q] = req[q]
        /\ req[p].pc # "idle"
    BY <1>1, <1>9 DEF DeployInsert, At, TInv, TypeOK
  <2>2. req'[p].kind = req[p].kind /\ req'[p].pc = "pull"
    BY <1>1, <2>1 DEF Request
  <2>3. ReadsOK(req'[p])
    BY <1>1, <2>1, <2>2 DEF ReadsOK, ImageRead, StartSteps
  <2>4. QED  BY <1>1, <2>1, <2>3, ReadsUpdate
<1>10. CASE Moves(p)
  BY <1>4, <1>10 DEF Moves
<1>11. QED  BY <1>2, <1>3, <1>6, <1>7, <1>8, <1>9, <1>10, StepForms

LEMMA InitServes == Init => ServingInv
<1> SUFFICES ASSUME Init PROVE ServingInv
  OBVIOUS
<1>1. \A q \in Procs : ReadsOK(req[q])
  BY NoRequestReads DEF Init
<1>2. ASSUME NEW a \in Apps PROVE Serving(a)
  <2>1. Work(a) = NoRequest /\ NoRequest.pc = "idle" /\ NoRequest.kind = None
    BY <1>2 DEF Init, Work, NoRequest
  <2>2. row[a] \in Row /\ row[a].state = "stopped" /\ ctr[a] = None /\ helper[a] = "none"
    BY DEF Init, Row
  <2>3. None \notin {"start", "stop", "restart", "nightly", "deploy"}
    BY NoneIsNoKind DEF RequestKinds, LockedKinds
  <2>4. Seen(a) = row[a] /\ row[a] # None
    BY <2>1, <2>2, AbsenceAssumption DEF Seen, HasSnap, WithSnap, StartSteps
  <2>5. QED
    BY <2>1, <2>2, <2>3, <2>4 DEF Serving, ServingOK, SnapIsRow, HasSnap, HelperGone, DeployOwns, ImageOK,
        DownOK, UpOK, Down, BeforeCreate, StartSteps
<1>3. QED  BY <1>1, <1>2 DEF ServingInv

LEMMA NextServes == Unedited /\ TInv /\ LockInv /\ ServingInv /\ [Next]_vars => ServingInv'
<1> SUFFICES ASSUME Unedited, TInv, LockInv, ServingInv, [Next]_vars PROVE ServingInv'
  OBVIOUS
<1>1. ASSUME NEW p \in Procs, Step(p) \/ LockApp(p) \/ Hang(p) PROVE ServingInv'
  <2>1. \A a \in Apps : Serving(a)'
    BY <1>1, StepsAre, LocklessKinds, DeletesServe, LockedServes, UnlockedServes DEF Unlocked
  <2>2. QED  BY <1>1, <2>1, StepReads DEF ServingInv
<1>2. ASSUME NEW p \in Procs, Cancel(p) PROVE ServingInv'
  BY <1>2, FinishServes, FinishReads DEF Cancel, Undropped, ServingInv
<1>3. QED
  BY <1>1, <1>2, ArriveServes, EnvironmentServes DEF Next

LEMMA ServingInvariant == ASSUME Unedited PROVE Spec => [](TInv /\ LockInv /\ ServingInv)
BY InitTInv, NextTInv, InitLock, NextLock, InitServes, NextServes, PTL DEF Spec

-----------------------------------------------------------------------------
(* What an operation leaves behind *)

LEMMA FreeIsIdle ==
    ASSUME NEW a \in Apps, Free(a)
    PROVE  Work(a).pc = "idle" /\ Work(a).kind = None /\ Seen(a) = row[a]
BY DEF Free, Work, NoRequest, Seen, HasSnap, WithSnap, StartSteps

LEMMA LockedMeans == LockedOnly => Unedited /\ Undeleted
BY DEF LockedOnly

(* Without edits and deletions every request that works, works on a row     *)
(* that is there.                                                           *)
LEMMA RowSeen ==
    ASSUME LockedOnly, ServingInv, NEW a \in Apps
    PROVE  row[a] # None /\ Seen(a) = row[a] /\ row[a] \in Row
BY LockedMeans DEF ServingInv, Serving, ServingOK, Seen

LEMMA AtWorkOnRow ==
    ASSUME LockedOnly, TInv, LockInv, ServingInv, NEW p \in Procs, req[p].pc \notin Outside
    PROVE  \E a \in Apps : /\ WorksOn(p, a)
                          /\ row[a] # None /\ row[a] \in Row
                          /\ ServingOK(row[a], ctr[a], helper[a], req[p])
<1>1. req[p].kind \in Kinds
  BY DEF ServingInv, ReadsOK, Outside
<1>2. InSection(p)
  BY <1>1, LockedMeans, Inside DEF Unedited, Undeleted
<1>3. PICK a \in Apps : WorksOn(p, a)
  BY <1>2, AtWork
<1>4. QED  BY <1>3, RowSeen DEF WorksOn, ServingInv, Serving

(* Between operations a running container runs the image of its row: after  *)
(* failed deploys, starts and nightly restarts too, unless a request is     *)
(* dropped, the row of a new container cannot be written, or both a daemon  *)
(* restart and the nightly pass can happen (which keeps a container that    *)
(* came back and saves the row it read long before).                        *)
THEOREM RowsNameContainers ==
    ASSUME Unedited, Undropped, RowWritten, DaemonStays \/ "nightly" \notin Kinds
    PROVE  Spec => []RowMatchesContainer
<1>1. ServingInv => RowMatchesContainer
  BY FreeIsIdle DEF ServingInv, Serving, ServingOK, ImageOK, ImageHolds, RowMatchesContainer, Running
<1>2. QED  BY <1>1, ServingInvariant, PTL

(* Between operations no container of a stopped row runs, whatever Docker   *)
(* call failed, unless a request is dropped, the row of a new container     *)
(* cannot be written, or the daemon restarts.                               *)
THEOREM StoppedRowsAreDown ==
    ASSUME Unedited, Undropped, RowWritten, DaemonStays
    PROVE  Spec => []StoppedRowIsDown
<1>1. ServingInv => StoppedRowIsDown
  BY FreeIsIdle DEF ServingInv, Serving, ServingOK, DownOK, Down, RowHolds, StoppedRowIsDown, Running
<1>2. QED  BY <1>1, ServingInvariant, PTL

(* The init container never runs beside the app's container, also when an   *)
(* earlier one outlived its time limit or is reaped late.                   *)
THEOREM InitContainerRunsAlone ==
    ASSUME Unedited, Undropped, RowWritten, DaemonStays
    PROVE  Spec => []HelperRunsAlone
<1>1. ServingInv => HelperRunsAlone
  BY DEF ServingInv, Serving, ServingOK, DownOK, Down, RowHolds, HelperRunsAlone, Running
<1>2. QED  BY <1>1, ServingInvariant, PTL

(* The nightly pass restarts an app only while its row says running, though *)
(* the row it works with is the one it read before it had the lock.         *)
THEOREM NightlyRevivesNothing ==
    ASSUME Unedited, Undropped, RowWritten, DaemonStays
    PROVE  Spec => []NightlyNeverRevives
<1>1. TInv /\ LockInv /\ ServingInv => NightlyNeverRevives
  <2> SUFFICES ASSUME TInv, LockInv, ServingInv, NEW p \in Procs,
                      Is(p, "nightly"), InSection(p), ~At(p, "recheck"), row[App(p)] # None
               PROVE  row[App(p)].state = "running"
    BY DEF NightlyNeverRevives
  <2>1. PICK a \in Apps : WorksOn(p, a)
    BY AtWork
  <2>2. req[p].pc \in WithSnap
    BY <2>1 DEF WorksOn, RequestOK, Request, Steps, DeploySteps, StartSteps, WithSnap, Outside,
                UnlockedSteps, Is, At
  <2>3. Seen(a) = row[a] /\ row[a] # None
    BY <2>1 DEF Seen, WorksOn
  <2>4. QED
    BY <2>1, <2>2, <2>3 DEF WorksOn, ServingInv, Serving, ServingOK, DownOK, RowHolds, Is
<1>2. QED  BY <1>1, ServingInvariant, PTL

(* A deploy is reported as succeeded while its container runs and the row   *)
(* names its image, whatever fails, is dropped, or restarts, as long as no  *)
(* container name contains another's.                                       *)
THEOREM SucceededDeploysServe ==
    ASSUME LockedOnly, OwnNames
    PROVE  Spec => []SucceededServes
<1>1. TInv /\ LockInv /\ ServingInv => SucceededServes
  <2> SUFFICES ASSUME TInv, LockInv, ServingInv, NEW p \in Procs, At(p, "settleOk")
               PROVE  LET a == App(p) IN
                      /\ Running(a)
                      /\ ctr[a].image = req[p].image
                      /\ row[a].image = req[p].image /\ row[a].state = "running"
    BY DEF SucceededServes
  <2>1. PICK a \in Apps : /\ WorksOn(p, a)
                          /\ ServingOK(row[a], ctr[a], helper[a], req[p])
    BY AtWorkOnRow DEF At, Outside, UnlockedSteps
  <2>2. QED
    BY <2>1, LockedMeans
       DEF WorksOn, RequestOK, DeploySteps, ServingOK, DeployOwns, Up, Has, Spared, Running, At
<1>2. QED  BY <1>1, LockedMeans, ServingInvariant, PTL

(* When every Docker call succeeds and no request is dropped, an app marked *)
(* running is running; a restart of the daemon, a pull or a Caddy that never *)
(* answers, and writes that fail after the new container runs do not change *)
(* that.                                                                    *)
THEOREM RunningRowsAreUp ==
    ASSUME LockedOnly, OwnNames, Faults \subseteq {"daemon", "row", "log", "hang"}
    PROVE  Spec => []RunningRowIsUp
<1>1. ServingInv => RunningRowIsUp
  BY FreeIsIdle, LockedMeans
     DEF ServingInv, Serving, ServingOK, UpOK, UpHolds, Spared, RunningRowIsUp, Running, StartSteps
<1>2. QED  BY <1>1, LockedMeans, ServingInvariant, PTL

-----------------------------------------------------------------------------
(* The deploy records and the requests that work on them *)

\* No later record of the app a.
Newest(n, a) == \A e \in DOMAIN deploys : deploys[e].app = a => e <= n

\* A deploy at work has the newest record of its app, and its image; and an
\* open record has its deploy at work.
OwnersInv ==
    /\ \A p \in Procs : Recording(p) =>
        /\ deploys[req[p].rec].app = App(p)
        /\ deploys[req[p].rec].image = req[p].image
        /\ Newest(req[p].rec, App(p))
    /\ Undropped => \A d \in DOMAIN deploys : deploys[d].status = "in_progress" =>
        \E p \in Procs : Recording(p) /\ req[p].rec = d
    /\ LockedOnly => \A d \in DOMAIN deploys : deploys[d].status # "deleted"

\* A deploy goes on with its image and its record.
KeepsAtIt(p) ==
    /\ Recording(p)' /\ Recording(p)
    /\ req'[p].rec = req[p].rec /\ req'[p].image = req[p].image /\ req'[p].app = req[p].app
    /\ UNCHANGED deploys

LEMMA RecordingSection ==
    ASSUME TInv, NEW p \in Procs, Recording(p)
    PROVE  InSection(p) /\ App(p) \in Apps /\ req[p].rec \in DOMAIN deploys
BY DEF TInv, TypeOK, RequestsOK, RequestOK, RecordOK, Recording, Is, App, InSection, RecordedSteps,
       StartSteps, UnlockedSteps, LockedKinds

LEMMA ContinueRecording ==
    ASSUME TInv, NEW p \in Procs, Recording(p), NEW step \in RecordedSteps, Continue(p, step),
           UNCHANGED deploys
    PROVE  KeepsAtIt(p)
<1>1. req'[p] = [req[p] EXCEPT !.pc = step] /\ req[p] \in Request
  BY DEF Continue, Goto, TInv, TypeOK
<1>2. QED  BY <1>1 DEF KeepsAtIt, Recording, Is, Request

(* A deploy at work goes on with its record until it settles it.            *)
LEMMA RecordingGoesOn ==
    ASSUME TInv, NEW p \in Procs, Recording(p), Step(p) \/ LockApp(p) \/ Hang(p)
    PROVE  KeepsAtIt(p) \/ DeploySucceeds(p) \/ DeployFails(p)
<1> USE DEF At
<1>1. Is(p, "deploy") /\ req[p].pc \in RecordedSteps
  BY DEF Recording
<1>2. Fail(p) => Continue(p, "settleFailed")
  BY <1>1 DEF Fail
<1>3. Started(p) => Continue(p, "setDeployed")
  BY <1>1 DEF Started
<1>4. CASE DeployPull(p) \/ DeployHalt(p) \/ DeployRemove(p) \/ SetDeployed(p)
  BY <1>2, <1>4, ContinueRecording
     DEF DeployPull, DeployHalt, DeployRemove, SetDeployed, RecordedSteps, StartSteps
<1>5. CASE InitCreate(p) \/ InitStart(p) \/ InitWait(p) \/ VerifySingleWriter(p)
  BY <1>2, <1>5, ContinueRecording
     DEF InitCreate, InitStart, InitWait, VerifySingleWriter, RecordedSteps, StartSteps
<1>6. CASE RunCreate(p) \/ RunBoot(p)
  BY <1>2, <1>3, <1>6, ContinueRecording DEF RunCreate, RunBoot, RecordedSteps, StartSteps
<1>7. CASE Sync(p) \/ Hang(p)
  <2>1. Sync(p) => /\ Continue(p, "settleOk") \/ Continue(p, "settleLate")
                   /\ UNCHANGED deploys
    BY <1>1 DEF Sync, Is
  <2>2. Hang(p) => /\ Continue(p, "hung") \/ Continue(p, "syncHung")
                   /\ UNCHANGED deploys
    BY DEF Hang
  <2>3. {"settleOk", "settleLate", "hung", "syncHung"} \subseteq RecordedSteps
    BY DEF RecordedSteps, StartSteps
  <2>4. QED  BY <1>7, <2>1, <2>2, <2>3, ContinueRecording
<1>8. CASE ~(\/ DeployPull(p) \/ DeployHalt(p) \/ DeployRemove(p) \/ SetDeployed(p)
             \/ InitCreate(p) \/ InitStart(p) \/ InitWait(p) \/ VerifySingleWriter(p)
             \/ RunCreate(p) \/ RunBoot(p) \/ Sync(p) \/ Hang(p))
  BY <1>1, <1>8 DEF Step, LockApp, DeployExists, DeployFind, DeployInsert,
       StartFind, SaveRunning, StopFind, StopContainers, SaveStopped, NightlyList, NightlyLive,
       TryLockApp, NightlyRecheck, EditRead, EditSave, DeleteFind, DeleteRecords, DeleteRow,
       RecordedSteps, StartSteps
<1>9. QED  BY <1>4, <1>5, <1>6, <1>7, <1>8

(* A request that records nothing starts to do so only by an insert.        *)
LEMMA OthersRecordNothing ==
    ASSUME TInv, NEW p \in Procs, ~Recording(p), Recording(p)', Step(p) \/ LockApp(p) \/ Hang(p)
    PROVE  DeployInsert(p)
<1>1. CASE DeployInsert(p)
  BY <1>1
<1>2. CASE ~DeployInsert(p)
  <2>1. CASE DeployExists(p) \/ DeployFind(p) \/ DeployPull(p)
             \/ DeployHalt(p) \/ DeployRemove(p) \/ SetDeployed(p) \/ Sync(p) \/ Hang(p)
    BY <2>1, DeployRecording DEF SameRecording
  <2>2. CASE \/ InitCreate(p) \/ InitStart(p) \/ InitWait(p)
             \/ VerifySingleWriter(p) \/ RunCreate(p) \/ RunBoot(p)
    BY <2>2, StartContainerRecording DEF SameRecording
  <2>3. CASE \/ StartFind(p) \/ SaveRunning(p)
             \/ StopFind(p) \/ StopContainers(p) \/ SaveStopped(p)
             \/ NightlyList(p) \/ NightlyLive(p) \/ NightlyRecheck(p) \/ TryLockApp(p)
             \/ EditRead(p) \/ EditSave(p)
             \/ DeleteFind(p) \/ DeleteRecords(p) \/ DeleteRow(p)
    BY <2>3, OtherRecording DEF SameRecording
  <2>4. CASE LockApp(p)
    BY <2>4, LockAppRecording DEF SameRecording
  <2>5. CASE DeploySucceeds(p) \/ DeployFails(p)
    BY <2>5, FinishRecording DEF DeploySucceeds, DeployFails, DeploySettle, SameRecording
  <2>6. QED  BY <1>2, <2>1, <2>2, <2>3, <2>4, <2>5 DEF Step
<1>3. QED  BY <1>1, <1>2

LEMMA OthersKeep ==
    ASSUME TInv, NEW p \in Procs, Step(p) \/ LockApp(p) \/ Hang(p) \/ Arrive(p) \/ Cancel(p)
    PROVE  \A q \in Procs \ {p} : req'[q] = req[q]
<1>1. CASE Step(p) \/ LockApp(p) \/ Hang(p)
  BY <1>1, StepShape, DeployShape, EntersShape DEF Finish, Quiet, Enters, TInv, TypeOK
<1>2. CASE Arrive(p) \/ Cancel(p)
  BY <1>2 DEF Arrive, Cancel, Finish, TInv, TypeOK
<1>3. QED  BY <1>1, <1>2

\* Records are neither added nor settled; at most they are removed with their app.
NoneSettled ==
    /\ DOMAIN deploys' = DOMAIN deploys
    /\ \A d \in DOMAIN deploys : /\ deploys'[d].app = deploys[d].app
                                 /\ deploys'[d].image = deploys[d].image
                                 /\ deploys'[d].status \in {deploys[d].status, "deleted"}
    /\ LockedOnly => UNCHANGED deploys

LEMMA OwnersFrame ==
    ASSUME TInv, OwnersInv, NEW p \in Procs, \A q \in Procs \ {p} : req'[q] = req[q],
           NoneSettled,
           \/ KeepsAtIt(p)
           \/ ~(Recording(p)') /\ (Recording(p) => ~Undropped)
    PROVE  OwnersInv'
<1>1. \A q \in Procs : Recording(q)' => /\ Recording(q) /\ req'[q].rec = req[q].rec
                                        /\ req'[q].image = req[q].image /\ req'[q].app = req[q].app
  BY DEF KeepsAtIt, Recording, Is
<1>2. \A q \in Procs : Recording(q) /\ Undropped => Recording(q)' /\ req'[q].rec = req[q].rec
  BY DEF KeepsAtIt, Recording, Is
<1>3. ASSUME NEW q \in Procs, Recording(q)'
      PROVE  /\ deploys'[req'[q].rec].app = App(q)'
             /\ deploys'[req'[q].rec].image = req'[q].image
             /\ Newest(req[q].rec, App(q))'
  <2>1. Recording(q) /\ req[q].rec \in DOMAIN deploys
    BY <1>1, <1>3, RecordingSection
  <2>2. deploys[req[q].rec].app = App(q) /\ deploys[req[q].rec].image = req[q].image
    BY <2>1 DEF OwnersInv
  <2>3. \A e \in DOMAIN deploys : deploys[e].app = App(q) => e <= req[q].rec
    BY <2>1 DEF OwnersInv, Newest
  <2>4. req'[q].rec = req[q].rec /\ App(q)' = App(q) /\ req'[q].image = req[q].image
    BY <1>1, <1>3 DEF App
  <2>5. QED  BY <2>1, <2>2, <2>3, <2>4 DEF NoneSettled, Newest
<1>4. ASSUME Undropped, NEW d \in DOMAIN deploys', deploys'[d].status = "in_progress"
      PROVE  \E q \in Procs : Recording(q)' /\ req'[q].rec = d
  <2>1. d \in DOMAIN deploys /\ deploys[d].status = "in_progress"
    BY <1>4 DEF NoneSettled
  <2>2. PICK q \in Procs : Recording(q) /\ req[q].rec = d
    BY <1>4, <2>1 DEF OwnersInv
  <2>3. QED  BY <1>2, <1>4, <2>2
<1>5. LockedOnly => \A d \in DOMAIN deploys' : deploys'[d].status # "deleted"
  BY DEF OwnersInv, NoneSettled
<1>6. QED  BY <1>3, <1>4, <1>5 DEF OwnersInv

\* The record a deploy inserts.
NewRecord(p) == [app |-> App(p), image |-> req[p].image, status |-> "in_progress"]

LEMMA InsertIs ==
    ASSUME TInv, NEW p \in Procs, DeployInsert(p), ~(Finish(p) /\ UNCHANGED deploys)
    PROVE  /\ deploys' = Append(deploys, NewRecord(p))
           /\ DOMAIN deploys = 1..Len(deploys) /\ Len(deploys) \in Nat
           /\ DOMAIN deploys' = 1..(Len(deploys) + 1)
           /\ \A d \in DOMAIN deploys : deploys'[d] = deploys[d]
           /\ deploys'[Len(deploys) + 1] = NewRecord(p)
           /\ req'[p].rec = Len(deploys) + 1 /\ req'[p].image = req[p].image
           /\ req'[p].app = req[p].app /\ req'[p].kind = "deploy" /\ req'[p].pc = "pull"
           /\ \A q \in Procs \ {p} : req'[q] = req[q]
<1>1. /\ deploys' = Append(deploys, NewRecord(p))
      /\ req' = [req EXCEPT ![p].pc = "pull", ![p].rec = Len(deploys) + 1]
  BY DEF DeployInsert, NewRecord
<1>2. deploys \in Seq(Deploy) /\ req[p] \in Request /\ req \in [Procs -> Request] /\ req[p].kind = "deploy"
  BY DEF TInv, TypeOK, RequestsOK, RequestOK, DeployInsert, At, DeploySteps
<1>3. /\ DOMAIN deploys = 1..Len(deploys) /\ Len(deploys) \in Nat
      /\ DOMAIN deploys' = 1..(Len(deploys) + 1)
      /\ \A d \in DOMAIN deploys : deploys'[d] = deploys[d]
      /\ deploys'[Len(deploys) + 1] = NewRecord(p)
  <2> DEFINE r == NewRecord(p)
  <2>1. deploys' = Append(deploys, r)
    BY <1>1
  <2> HIDE DEF r
  <2>2. /\ DOMAIN deploys = 1..Len(deploys) /\ Len(deploys) \in Nat
        /\ DOMAIN deploys' = 1..(Len(deploys) + 1)
        /\ \A d \in DOMAIN deploys : deploys'[d] = deploys[d]
        /\ deploys'[Len(deploys) + 1] = r
    BY <1>2, <2>1
  <2>3. QED  BY <2>2 DEF r
<1>4. /\ req'[p] = [req[p] EXCEPT !.pc = "pull", !.rec = Len(deploys) + 1]
      /\ \A q \in Procs \ {p} : req'[q] = req[q]
  BY <1>1, <1>2
<1>5. QED  BY <1>1, <1>2, <1>3, <1>4 DEF Request

LEMMA InsertOwners ==
    ASSUME TInv, LockInv, OwnersInv, NEW p \in Procs, DeployInsert(p)
    PROVE  OwnersInv'
<1>1. req[p].kind = "deploy" /\ req[p].pc = "insert" /\ ~Recording(p) /\ App(p) \in Apps /\ InSection(p)
  BY DEF DeployInsert, At, Recording, RecordedSteps, StartSteps, TInv, RequestsOK, RequestOK,
         DeploySteps, InSection, LockedKinds, UnlockedSteps, App
<1>2. CASE Finish(p) /\ UNCHANGED deploys
  <2>1. ~(Recording(p)')
    BY <1>1, <1>2, FinishRecording DEF SameRecording
  <2>2. NoneSettled
    BY <1>2 DEF NoneSettled
  <2>3. \A q \in Procs \ {p} : req'[q] = req[q]
    BY <1>2 DEF Finish, TInv, TypeOK
  <2>4. QED  BY <1>1, <2>1, <2>2, <2>3, OwnersFrame
<1>3. CASE ~(Finish(p) /\ UNCHANGED deploys)
  <2> DEFINE n == Len(deploys) + 1
  <2>1. /\ DOMAIN deploys = 1..Len(deploys) /\ Len(deploys) \in Nat /\ DOMAIN deploys' = 1..n
        /\ \A d \in DOMAIN deploys : deploys'[d] = deploys[d]
        /\ deploys'[n] = NewRecord(p)
        /\ req'[p].rec = n /\ req'[p].image = req[p].image
        /\ App(p)' = App(p) /\ Recording(p)'
        /\ \A q \in Procs \ {p} : req'[q] = req[q]
    BY <1>3, InsertIs DEF App, Recording, Is, RecordedSteps
  <2>2. NewRecord(p).app = App(p) /\ NewRecord(p).image = req[p].image
        /\ NewRecord(p).status = "in_progress"
    BY DEF NewRecord
  <2>3. \A q \in Procs \ {p} : Recording(q)' = Recording(q) /\ App(q)' = App(q)
    BY <2>1 DEF Recording, Is, App
  <2>4. ASSUME NEW q \in Procs \ {p}, Recording(q) PROVE App(q) # App(p)
    BY <1>1, <2>4, RecordingSection DEF LockInv
  <2>5. ASSUME NEW q \in Procs, Recording(q)'
        PROVE  /\ deploys'[req'[q].rec].app = App(q)'
               /\ deploys'[req'[q].rec].image = req'[q].image
               /\ \A e \in DOMAIN deploys' : deploys'[e].app = App(q)' => e <= req'[q].rec
    <3>1. CASE q = p
      BY <2>1, <2>2, <3>1
    <3>2. CASE q # p
      <4>1. Recording(q) /\ req'[q] = req[q] /\ App(q)' = App(q) /\ App(q) # App(p)
        BY <2>1, <2>3, <2>4, <2>5, <3>2
      <4>2. /\ req[q].rec \in DOMAIN deploys
            /\ deploys[req[q].rec].app = App(q)
            /\ deploys[req[q].rec].image = req[q].image
            /\ \A e \in DOMAIN deploys : deploys[e].app = App(q) => e <= req[q].rec
        BY <4>1, RecordingSection DEF OwnersInv, Newest
      <4>3. QED  BY <2>1, <2>2, <4>1, <4>2
    <3>3. QED  BY <3>1, <3>2
  <2>6. ASSUME Undropped, NEW d \in DOMAIN deploys', deploys'[d].status = "in_progress"
        PROVE  \E q \in Procs : Recording(q)' /\ req'[q].rec = d
    <3>1. CASE d = n
      BY <2>1, <3>1
    <3>2. CASE d # n
      <4>1. d \in DOMAIN deploys /\ deploys[d].status = "in_progress"
        BY <2>1, <2>6, <3>2
      <4>2. PICK q \in Procs : Recording(q) /\ req[q].rec = d
        BY <2>6, <4>1 DEF OwnersInv
      <4>3. q # p
        BY <1>1, <4>2
      <4>4. QED  BY <2>1, <2>3, <4>2, <4>3
    <3>3. QED  BY <3>1, <3>2
  <2>7. LockedOnly => \A d \in DOMAIN deploys' : deploys'[d].status # "deleted"
    BY <2>1, <2>2 DEF OwnersInv
  <2>8. QED
    <3> HIDE DEF n
    <3> QED  BY <2>5, <2>6, <2>7 DEF OwnersInv, Newest
<1>4. QED  BY <1>2, <1>3

(* What settling a record does.                                             *)
LEMMA SettleIs ==
    ASSUME TInv, RecordInv, NEW p \in Procs, NEW step, NEW status \in {"succeeded", "failed"},
           step \in {"settleOk", "settleFailed", "settleLate"}, DeploySettle(p, step, status)
    PROVE  /\ Recording(p) /\ req[p].rec \in DOMAIN deploys
           /\ DOMAIN deploys' = DOMAIN deploys
           /\ \A d \in DOMAIN deploys : d # req[p].rec => deploys'[d] = deploys[d]
           /\ deploys'[req[p].rec] =
                IF deploys[req[p].rec].status = "deleted" THEN deploys[req[p].rec]
                ELSE [app |-> deploys[req[p].rec].app, image |-> deploys[req[p].rec].image,
                      status |-> status]
           /\ deploys[req[p].rec].status \in {"in_progress", "deleted"}
           /\ \A q \in Procs \ {p} : req'[q] = req[q]
           /\ ~(Recording(p)')
<1> DEFINE n == req[p].rec
<1>1. Recording(p)
  BY DEF DeploySettle, At, Recording, Is, RecordedSteps, TInv, RequestsOK, RequestOK, DeploySteps
<1>2. /\ deploys \in Seq(Deploy) /\ n \in DOMAIN deploys
      /\ deploys[n].status \in {"in_progress", "deleted"} /\ deploys[n] \in Deploy
  BY <1>1 DEF RecordInv, TInv, TypeOK, RequestsOK, RecordOK, Recording, Is
<1>3. deploys' = IF deploys[n].status = "deleted" THEN deploys
                 ELSE [deploys EXCEPT ![n] = [deploys[n] EXCEPT !.status = status]]
  BY <1>2 DEF DeploySettle
<1>4. [deploys[n] EXCEPT !.status = status]
        = [app |-> deploys[n].app, image |-> deploys[n].image, status |-> status]
  BY <1>2 DEF Deploy
<1>5. Finish(p)
  BY DEF DeploySettle
<1>6. ~(Recording(p)') /\ \A q \in Procs \ {p} : req'[q] = req[q]
  <2>1. NoRequest.kind # "deploy"
    BY NoRequestOK, NoneIsNoKind DEF RequestKinds, LockedKinds
  <2>2. QED  BY <1>5, <2>1 DEF Finish, Recording, Is, TInv, TypeOK
<1> HIDE DEF n
<1>7. /\ DOMAIN deploys' = DOMAIN deploys
      /\ \A d \in DOMAIN deploys : d # n => deploys'[d] = deploys[d]
      /\ deploys'[n] = IF deploys[n].status = "deleted" THEN deploys[n]
                       ELSE [app |-> deploys[n].app, image |-> deploys[n].image, status |-> status]
  BY <1>2, <1>3, <1>4
<1>8. QED  BY <1>1, <1>2, <1>6, <1>7 DEF n

LEMMA SettleOwners ==
    ASSUME TInv, RecordInv, OwnersInv, NEW p \in Procs, DeploySucceeds(p) \/ DeployFails(p)
    PROVE  OwnersInv'
<1> DEFINE n == req[p].rec
<1>1. PICK status \in {"succeeded", "failed"} :
        /\ Recording(p) /\ n \in DOMAIN deploys
        /\ DOMAIN deploys' = DOMAIN deploys
        /\ \A d \in DOMAIN deploys : d # n => deploys'[d] = deploys[d]
        /\ deploys'[n] = IF deploys[n].status = "deleted" THEN deploys[n]
                         ELSE [app |-> deploys[n].app, image |-> deploys[n].image, status |-> status]
        /\ \A q \in Procs \ {p} : req'[q] = req[q]
        /\ ~(Recording(p)')
  BY SettleIs DEF DeploySucceeds, DeployFails
<1> HIDE DEF n
<1>2. /\ \A d \in DOMAIN deploys : /\ deploys'[d].app = deploys[d].app
                                   /\ deploys'[d].image = deploys[d].image
      /\ deploys'[n].status # "in_progress"
      /\ deploys'[n].status = "deleted" => deploys[n].status = "deleted"
  BY <1>1
<1>3. \A q \in Procs : Recording(q)' => q # p /\ Recording(q) /\ req'[q] = req[q]
  BY <1>1 DEF Recording, Is
<1>4. ASSUME NEW q \in Procs, Recording(q)'
      PROVE  /\ deploys'[req'[q].rec].app = App(q)'
             /\ deploys'[req'[q].rec].image = req'[q].image
             /\ \A e \in DOMAIN deploys' : deploys'[e].app = App(q)' => e <= req'[q].rec
  <2>1. Recording(q) /\ req'[q] = req[q] /\ App(q)' = App(q)
    BY <1>3, <1>4 DEF App
  <2>2. /\ req[q].rec \in DOMAIN deploys
        /\ deploys[req[q].rec].app = App(q)
        /\ deploys[req[q].rec].image = req[q].image
        /\ \A e \in DOMAIN deploys : deploys[e].app = App(q) => e <= req[q].rec
    BY <2>1, RecordingSection DEF OwnersInv, Newest
  <2>3. QED  BY <1>1, <1>2, <2>1, <2>2
<1>5. ASSUME Undropped, NEW d \in DOMAIN deploys', deploys'[d].status = "in_progress"
      PROVE  \E q \in Procs : Recording(q)' /\ req'[q].rec = d
  <2>1. d # n /\ d \in DOMAIN deploys /\ deploys[d].status = "in_progress"
    BY <1>1, <1>2, <1>5
  <2>2. PICK q \in Procs : Recording(q) /\ req[q].rec = d
    BY <1>5, <2>1 DEF OwnersInv
  <2>3. q # p
    BY <2>1, <2>2 DEF n
  <2>4. QED  BY <1>1, <2>2, <2>3 DEF Recording, Is
<1>6. LockedOnly => \A d \in DOMAIN deploys' : deploys'[d].status # "deleted"
  BY <1>1, <1>2 DEF OwnersInv
<1>7. QED  BY <1>4, <1>5, <1>6 DEF OwnersInv, Newest

LEMMA RecordsChange ==
    ASSUME NEW p \in Procs, Step(p) \/ LockApp(p) \/ Hang(p)
    PROVE  \/ UNCHANGED deploys
           \/ DeployInsert(p) \/ DeploySucceeds(p) \/ DeployFails(p) \/ DeleteRecords(p)
BY DEF Step, LockApp, Sync, Hang,
       DeployExists, DeployFind, DeployPull, DeployHalt, DeployRemove, SetDeployed,
       InitCreate, InitStart, InitWait, VerifySingleWriter, RunCreate, RunBoot,
       StartFind, SaveRunning, StopFind, StopContainers, SaveStopped, NightlyList, NightlyLive,
       TryLockApp, NightlyRecheck, EditRead, EditSave, DeleteFind, DeleteRow

LEMMA RemovedRecords ==
    ASSUME TInv, LockedOnly => ServingInv, NEW p \in Procs, DeleteRecords(p)
    PROVE  NoneSettled
<1>1. deploys \in Seq(Deploy)
  BY DEF TInv, TypeOK
<1>2. ~LockedOnly
  BY LocklessNever DEF Lockless, Deletes
<1>3. ASSUME NEW d \in DOMAIN deploys
      PROVE  /\ deploys'[d].app = deploys[d].app
             /\ deploys'[d].image = deploys[d].image
             /\ deploys'[d].status \in {deploys[d].status, "deleted"}
  <2>1. deploys[d] \in Deploy
    BY <1>1
  <2>2. QED  BY <2>1 DEF DeleteRecords, Deploy
<1>4. DOMAIN deploys' = DOMAIN deploys
  BY DEF DeleteRecords
<1>5. QED  BY <1>2, <1>3, <1>4 DEF NoneSettled

LEMMA StepOwners ==
    ASSUME TInv, LockInv, RecordInv, OwnersInv, LockedOnly => ServingInv,
           NEW p \in Procs, Step(p) \/ LockApp(p) \/ Hang(p)
    PROVE  OwnersInv'
<1>1. CASE DeployInsert(p) \/ DeploySucceeds(p) \/ DeployFails(p)
  BY <1>1, InsertOwners, SettleOwners
<1>2. CASE ~(DeployInsert(p) \/ DeploySucceeds(p) \/ DeployFails(p))
  <2>1. NoneSettled
    BY <1>2, RecordsChange, RemovedRecords DEF NoneSettled
  <2>2. CASE Recording(p)
    BY <1>2, <2>1, <2>2, RecordingGoesOn, OthersKeep, OwnersFrame
  <2>3. CASE ~Recording(p)
    BY <1>2, <2>1, <2>3, OthersRecordNothing, OthersKeep, OwnersFrame
  <2>4. QED  BY <2>2, <2>3
<1>3. QED  BY <1>1, <1>2

LEMMA InitOwners == Init => OwnersInv
<1> SUFFICES ASSUME Init PROVE OwnersInv
  OBVIOUS
<1>1. NoRequest.kind # "deploy"
  BY NoRequestOK, NoneIsNoKind DEF RequestKinds, LockedKinds
<1>2. DOMAIN deploys = {} /\ \A p \in Procs : ~Recording(p)
  BY <1>1 DEF Init, Recording, Is
<1>3. QED  BY <1>2 DEF OwnersInv

LEMMA NextOwners ==
    TInv /\ LockInv /\ RecordInv /\ (LockedOnly => ServingInv) /\ OwnersInv /\ [Next]_vars
        => OwnersInv'
<1> SUFFICES ASSUME TInv, LockInv, RecordInv, LockedOnly => ServingInv, OwnersInv, [Next]_vars
             PROVE  OwnersInv'
  OBVIOUS
<1>1. ASSUME NEW p \in Procs, Arrive(p) PROVE OwnersInv'
  <2>1. ~Recording(p) /\ ~(Recording(p)') /\ UNCHANGED deploys
    BY <1>1, ArriveRecording DEF Arrive, At, Recording, RecordedSteps, StartSteps, SameRecording
  <2>2. NoneSettled
    BY <2>1 DEF NoneSettled
  <2>3. QED  BY <1>1, <2>1, <2>2, OthersKeep, OwnersFrame
<1>2. ASSUME NEW p \in Procs, Cancel(p) PROVE OwnersInv'
  <2>1. NoRequest.kind # "deploy" /\ req'[p] = NoRequest
    BY <1>2, NoRequestOK, NoneIsNoKind DEF Cancel, Finish, TInv, TypeOK, RequestKinds, LockedKinds
  <2>2. ~(Recording(p)') /\ UNCHANGED deploys /\ ~Undropped
    BY <1>2, <2>1 DEF Cancel, Undropped, Recording, Is
  <2>3. NoneSettled
    BY <2>2 DEF NoneSettled
  <2>4. QED  BY <1>2, <2>2, <2>3, OthersKeep, OwnersFrame
<1>3. ASSUME UNCHANGED <<deploys, req>> PROVE OwnersInv'
  BY <1>3 DEF OwnersInv, Recording, Is, Newest, App
<1>4. QED
  BY <1>1, <1>2, <1>3, StepOwners DEF Next, vars, HelperExits, DaemonRestart

LEMMA InitRecords == Init => RecordInv
<1>1. NoRequest.kind # "deploy"
  BY NoRequestOK, NoneIsNoKind DEF RequestKinds, LockedKinds
<1>2. QED  BY <1>1 DEF Init, RecordInv, Recording, Is

LEMMA OwnersInvariant == Spec => [](TInv /\ LockInv /\ OwnersInv)
<1>1. TInv /\ LockInv /\ (LockedOnly => ServingInv) /\ [Next]_vars => (LockedOnly => ServingInv)'
  BY LockedMeans, NextServes DEF LockedOnly
<1>2. Init => (LockedOnly => ServingInv)
  BY InitServes
<1>3. QED
  BY <1>1, <1>2, InitTInv, NextTInv, InitLock, NextLock, InitRecords, NextRecord, InitOwners,
     NextOwners, PTL DEF Spec

(* A deploy record says in_progress only while a deploy under its app's     *)
(* lock works on it, with any number of deletes, edits, failed Docker calls *)
(* and daemon restarts: only a dropped request leaves a record open.        *)
THEOREM OpenRecordsAreOwned ==
    ASSUME Undropped
    PROVE  Spec => []InProgressOwned
<1>1. TInv /\ LockInv /\ OwnersInv => InProgressOwned
  <2> SUFFICES ASSUME TInv, LockInv, OwnersInv,
                      NEW d \in DOMAIN deploys, deploys[d].status = "in_progress"
               PROVE  \E p \in Procs : /\ Is(p, "deploy") /\ InSection(p) /\ req[p].rec = d
                                       /\ lock[deploys[d].app] = p
    BY DEF InProgressOwned
  <2>1. PICK p \in Procs : Recording(p) /\ req[p].rec = d
    BY DEF OwnersInv
  <2>2. InSection(p) /\ App(p) \in Apps /\ deploys[d].app = App(p)
    BY <2>1, RecordingSection DEF OwnersInv
  <2>3. QED  BY <2>1, <2>2 DEF LockInv, Recording
<1>2. QED  BY <1>1, OwnersInvariant, PTL

-----------------------------------------------------------------------------
(* The image of the row and the deploys that set it *)

\* No request saves a row it has not read under its app's lock.
ReadUnderLock == Unedited /\ "nightly" \notin Kinds

\* A deploy has written the row and is about to report it.
Switching(p) == Recording(p) /\ req[p].pc \in SwitchedSteps

\* A deploy writes the row; one that has done so fails.
Switches(p) == SetDeployed(p) /\ req'[p].pc = "sync"
LateFails(p) == DeploySettle(p, "settleLate", "failed")

ImagesKept == \A a \in Apps : row'[a].image = row[a].image

\* A row comes or goes, or keeps its image.
RowsKept == \A a \in Apps : None \in {row[a], row'[a]} \/ row'[a].image = row[a].image

\* The records that are left are of apps whose rows are left, and with a record
\* all earlier ones of its app are removed.
RemovedInv ==
    /\ \A d \in DOMAIN deploys : deploys[d].status # "deleted" => row[deploys[d].app] # None
    /\ \A d, e \in DOMAIN deploys :
         e <= d /\ deploys[e].app = deploys[d].app /\ deploys[d].status = "deleted"
            => deploys[e].status = "deleted"

\* A deploy that has written the row fails only where its log cannot be written.
LateInv == \A p \in Procs : At(p, "settleLate") => "log" \in Faults

\* What the records and rows of all apps have in common at every state.
LedgerInv == TInv /\ LockInv /\ ServingInv /\ RecordInv /\ OwnersInv /\ RemovedInv /\ LateInv

\* No record is added, and none comes back.
NoneAdded ==
    /\ DOMAIN deploys' = DOMAIN deploys
    /\ \A d \in DOMAIN deploys : /\ deploys'[d].app = deploys[d].app
                                 /\ deploys'[d].status = "deleted" <=> deploys[d].status = "deleted"

LEMMA RecordsHaveApps ==
    ASSUME TInv, NEW d \in DOMAIN deploys
    PROVE  deploys[d].app \in Apps
<1>1. deploys[d] \in Deploy
  BY DEF TInv, TypeOK
<1>2. QED  BY <1>1 DEF Deploy

LEMMA RemovedFrame ==
    ASSUME TInv, RemovedInv, NoneAdded, \A a \in Apps : row'[a] = None => row[a] = None
    PROVE  RemovedInv'
BY RecordsHaveApps DEF RemovedInv, NoneAdded

LEMMA SettleAdds ==
    ASSUME TInv, NEW p \in Procs, DeploySucceeds(p) \/ DeployFails(p)
    PROVE  NoneAdded
<1>1. PICK status \in {"succeeded", "failed"}, step \in Steps : DeploySettle(p, step, status)
  BY DEF DeploySucceeds, DeployFails, Steps
<1> DEFINE n == req[p].rec
<1>2. \/ UNCHANGED deploys
      \/ deploys[n].status # "deleted" /\ deploys' = [deploys EXCEPT ![n].status = status]
  BY <1>1 DEF DeploySettle
<1>3. \A d \in DOMAIN deploys : deploys[d] \in Deploy
  BY DEF TInv, TypeOK
<1> HIDE DEF n
<1>4. CASE deploys[n].status # "deleted" /\ deploys' = [deploys EXCEPT ![n].status = status]
  BY <1>3, <1>4 DEF NoneAdded, Deploy
<1>5. QED  BY <1>2, <1>4 DEF NoneAdded

LEMMA InsertRemoved ==
    ASSUME TInv, RemovedInv, NEW p \in Procs, DeployInsert(p), ~(Finish(p) /\ UNCHANGED deploys)
    PROVE  RemovedInv'
<1> DEFINE n == Len(deploys) + 1
<1>1. /\ DOMAIN deploys = 1..Len(deploys) /\ Len(deploys) \in Nat /\ DOMAIN deploys' = 1..n
      /\ \A d \in DOMAIN deploys : deploys'[d] = deploys[d]
      /\ deploys'[n] = NewRecord(p)
  BY InsertIs
<1>2. /\ NewRecord(p).app = App(p) /\ NewRecord(p).status = "in_progress"
      /\ row[App(p)] # None /\ UNCHANGED row
  BY DEF DeployInsert, NewRecord
<1>3. \A d, e \in DOMAIN deploys' : d = n \/ (d \in DOMAIN deploys /\ (e <= d => e \in DOMAIN deploys))
  BY <1>1
<1> HIDE DEF n
<1>4. QED  BY <1>1, <1>2, <1>3 DEF RemovedInv

LEMMA StepRemoved ==
    ASSUME TInv, RemovedInv, NEW p \in Procs, Step(p) \/ LockApp(p) \/ Hang(p)
    PROVE  RemovedInv'
<1>1. CASE DeployInsert(p) /\ ~(Finish(p) /\ UNCHANGED deploys)
  BY <1>1, InsertRemoved
<1>2. CASE DeleteRecords(p)
  <2>1. \A d \in DOMAIN deploys : deploys[d] \in Deploy
    BY DEF TInv, TypeOK
  <2>2. /\ DOMAIN deploys' = DOMAIN deploys /\ UNCHANGED row
        /\ \A d \in DOMAIN deploys :
             /\ deploys'[d].app = deploys[d].app
             /\ deploys'[d].status = IF deploys[d].app = App(p) THEN "deleted" ELSE deploys[d].status
    BY <1>2, <2>1 DEF DeleteRecords, Live, Deploy
  <2>3. QED  BY <2>2 DEF RemovedInv
<1>3. CASE DeleteRow(p)
  <2>1. UNCHANGED deploys
    BY <1>3 DEF DeleteRow
  <2>2. ASSUME NEW d \in DOMAIN deploys, deploys[d].status # "deleted"
        PROVE  row'[deploys[d].app] # None
    <3>1. deploys[d].app \in Apps /\ row[deploys[d].app] # None
      BY <2>2, RecordsHaveApps DEF RemovedInv
    <3>2. deploys[d].app = App(p) => UNCHANGED row
      BY <1>3, <2>2 DEF DeleteRow, Live
    <3>3. QED  BY <1>3, <3>1, <3>2 DEF DeleteRow, TInv, TypeOK
  <2>3. QED  BY <2>1, <2>2 DEF RemovedInv
<1>4. CASE ~DeleteRecords(p) /\ ~DeleteRow(p) /\ (DeployInsert(p) => Finish(p) /\ UNCHANGED deploys)
  <2>1. NoneAdded
    BY <1>4, RecordsChange, SettleAdds DEF NoneAdded
  <2>2. \A a \in Apps : row'[a] = None => row[a] = None
    <3>1. CASE SetDeployed(p)
      BY <3>1, AbsenceAssumption DEF SetDeployed, TInv, TypeOK, Row
    <3>2. CASE SaveRunning(p) \/ SaveStopped(p) \/ EditSave(p)
      <4>1. PICK w \in Row : SaveRow(p, w)
        BY <3>2 DEF SaveRunning, SaveStopped, EditSave, At, Row, TInv, RequestsOK, RequestOK
      <4>2. QED  BY <4>1, AbsenceAssumption DEF SaveRow, TInv, TypeOK
    <3>3. CASE UNCHANGED row
      BY <3>3
    <3>4. QED
      BY <1>4, <3>1, <3>2, <3>3
         DEF Step, LockApp, Sync, Hang, DeployExists, DeployFind, DeployInsert, DeployPull,
             DeployHalt, DeployRemove, DeploySucceeds, DeployFails, DeploySettle,
             InitCreate, InitStart, InitWait, VerifySingleWriter, RunCreate, RunBoot,
             StartFind, StopFind, StopContainers, NightlyList, NightlyLive, TryLockApp,
             NightlyRecheck, EditRead, DeleteFind
  <2>3. QED  BY <2>1, <2>2, RemovedFrame
<1>5. QED  BY <1>1, <1>2, <1>3, <1>4

LEMMA NextRemoved == TInv /\ RemovedInv /\ [Next]_vars => RemovedInv'
<1> SUFFICES ASSUME TInv, RemovedInv, [Next]_vars PROVE RemovedInv'
  OBVIOUS
<1>1. CASE UNCHANGED <<row, deploys>>
  BY <1>1 DEF RemovedInv
<1>2. QED
  BY <1>1, StepRemoved DEF Next, vars, Arrive, Cancel, HelperExits, DaemonRestart

LEMMA SettlersAreSwitching ==
    ASSUME TInv, NEW p \in Procs, At(p, "settleOk") \/ At(p, "settleLate")
    PROVE  Switching(p)
BY DEF At, Switching, SwitchedSteps, Recording, RecordedSteps, Is, TInv, RequestsOK, RequestOK,
       DeploySteps

LEMMA NoSwitchNoRow ==
    ASSUME TInv, NEW p \in Procs, SetDeployed(p), ~Switches(p)
    PROVE  UNCHANGED row /\ Continue(p, "settleFailed")
<1>1. ~Continue(p, "sync")
  BY DEF Switches, Continue, Goto, TInv, TypeOK, Request
<1>2. Is(p, "deploy")
  BY DEF SetDeployed, At, Is, TInv, RequestsOK, RequestOK, DeploySteps
<1>3. QED  BY <1>1, <1>2 DEF SetDeployed, Fail

LEMMA RowsSaved ==
    ASSUME ReadUnderLock, TInv, LockInv, ServingInv, NEW p \in Procs,
           Step(p) \/ LockApp(p) \/ Hang(p), ~Switches(p)
    PROVE  RowsKept
<1>1. CASE SaveRunning(p) \/ SaveStopped(p)
  <2>1. /\ req[p].pc \in {"save", "saveStopped"} /\ req[p].pc \notin Outside
        /\ req[p].kind \in Kinds /\ req[p].kind \in {"start", "stop", "restart"}
    BY <1>1 DEF SaveRunning, SaveStopped, At, Outside, UnlockedSteps, ServingInv, ReadsOK,
                ReadUnderLock, TInv, RequestsOK, RequestOK
  <2>2. PICK a \in Apps : WorksOn(p, a)
    BY <2>1, Inside, AtWork
  <2>3. App(p) = a /\ row[a] \in Row \cup {None} /\ (row[a] # None => req[p].snap = row[a])
    BY <2>1, <2>2 DEF WorksOn, ServingInv, Serving, ServingOK, SnapIsRow, HasSnap, WithSnap, Seen
  <2>4. /\ row[a] # None => row'[a].image = row[a].image
        /\ \A b \in Apps \ {a} : row'[b] = row[b]
    BY <1>1, <2>3 DEF SaveRunning, SaveStopped, SaveRow, TInv, TypeOK, Row
  <2>5. QED  BY <2>4 DEF RowsKept
<1>2. CASE DeleteRow(p)
  <2>1. \A b \in Apps : row'[b] \in {row[b], None}
    BY <1>2 DEF DeleteRow, TInv, TypeOK
  <2>2. QED  BY <2>1 DEF RowsKept
<1>3. CASE ~(SaveRunning(p) \/ SaveStopped(p) \/ DeleteRow(p))
  <2>1. ~EditSave(p)
    BY LocklessKinds DEF Lockless, Deletes, DeleteFind, DeleteRecords, DeleteRow, StopContainers,
                         EditSave, At, ReadUnderLock
  <2>2. UNCHANGED row
    BY <1>3, <2>1, NoSwitchNoRow DEF Step, LockApp, Sync, Hang, DeployExists, DeployFind, DeployInsert, DeployPull,
       DeployHalt, DeployRemove, DeploySucceeds, DeployFails, DeploySettle,
       InitCreate, InitStart, InitWait, VerifySingleWriter, RunCreate, RunBoot,
       StartFind, StopFind, StopContainers, NightlyList, NightlyLive, TryLockApp, NightlyRecheck,
       EditRead, DeleteFind, DeleteRecords
  <2>3. QED  BY <2>2 DEF RowsKept
<1>4. QED  BY <1>1, <1>2, <1>3

(* Without deletions every row is there, before the step and after it.      *)
LEMMA KeptImages ==
    ASSUME Undeleted, ServingInv, ServingInv', RowsKept
    PROVE  ImagesKept
BY DEF ServingInv, Serving, RowsKept, ImagesKept

(* The steps after the switch, and the step before it. *)
LEMMA AfterSwitch ==
    ASSUME NEW p \in Procs, Step(p) \/ LockApp(p) \/ Hang(p), ~DeploySucceeds(p), ~LateFails(p)
    PROVE  /\ req[p].pc \in SwitchedSteps => req[p].pc = "sync" /\ (Sync(p) \/ Hang(p))
           /\ req[p].pc = "setDeployed" => SetDeployed(p)
           /\ req[p].pc = "settleFailed" => DeployFails(p)
BY DEF Step, LockApp, Hang, DeployExists, DeployFind, DeployInsert, DeployPull, DeployHalt, DeployRemove,
       SetDeployed, Sync, DeploySucceeds, DeployFails, LateFails, DeploySettle, InitCreate, InitStart,
       InitWait, VerifySingleWriter, RunCreate, RunBoot, StartFind, SaveRunning, StopFind,
       StopContainers, SaveStopped, NightlyList, NightlyLive, TryLockApp, NightlyRecheck, EditRead,
       EditSave, DeleteFind, DeleteRecords, DeleteRow, At, SwitchedSteps

\* The deploys that switch stay the same, with their records.
SwitchesKept ==
    \A q \in Procs : /\ Switching(q)' <=> Switching(q)
                     /\ Switching(q) => req'[q].rec = req[q].rec /\ App(q)' = App(q)

LEMMA SwitchingStays ==
    ASSUME TInv, NEW p \in Procs, Step(p) \/ LockApp(p) \/ Hang(p),
           ~Switches(p), ~DeploySucceeds(p), ~LateFails(p)
    PROVE  SwitchesKept
<1>1. /\ req[p].pc \in SwitchedSteps => req[p].pc = "sync" /\ (Sync(p) \/ Hang(p))
      /\ req[p].pc = "setDeployed" => SetDeployed(p)
  BY AfterSwitch
<1>2. \A q \in Procs \ {p} : req'[q] = req[q]
  BY OthersKeep
<1>3. CASE KeepsAtIt(p)
  <2>1. /\ Recording(p) /\ Recording(p)' /\ req[p].kind = "deploy"
        /\ req'[p].rec = req[p].rec /\ req'[p].app = req[p].app
    BY <1>3 DEF KeepsAtIt, Recording, Is
  <2>2. req'[p].pc \in SwitchedSteps <=> req[p].pc \in SwitchedSteps
    <3>1. CASE req[p].pc \in SwitchedSteps
      <4>1. \/ \E step \in {"settleOk", "settleLate", "syncHung"} : Continue(p, step)
        BY <1>1, <2>1, <3>1 DEF Sync, Hang, At, Is
      <4>2. QED  BY <3>1, <4>1 DEF Continue, Goto, SwitchedSteps, TInv, TypeOK, Request
    <3>2. CASE req[p].pc = "setDeployed"
      BY <1>1, <3>2, NoSwitchNoRow DEF Continue, Goto, SwitchedSteps, TInv, TypeOK, Request
    <3>3. CASE req[p].pc \notin SwitchedSteps /\ req[p].pc # "setDeployed"
      <4>1. CASE Finish(p)
        BY <3>3, <4>1 DEF Finish, NoRequest, SwitchedSteps, TInv, TypeOK
      <4>2. CASE StartFind(p) \/ StopFind(p) \/ NightlyList(p) \/ EditRead(p) \/ DeployInsert(p)
        BY <2>1, <4>2 DEF StartFind, StopFind, NightlyList, EditRead, DeployInsert, At, Recording,
                          RecordedSteps, StartSteps
      <4>3. CASE Moves(p)
        <5>1. PICK step \in Steps :
                /\ Goto(p, step)
                /\ \/ Edge(req[p], step)
                   \/ req[p].pc \in StartSteps /\ step \in {"save", "setDeployed"}
                   \/ step = "settleFailed"
          BY <4>3 DEF Moves
        <5>2. req'[p].pc = step
          BY <5>1 DEF Goto, TInv, TypeOK, Request
        <5>3. RequestOK(req[p])
          BY DEF TInv, RequestsOK
        <5>4. QED
          BY <2>1, <3>3, <5>1, <5>2, <5>3 DEF Edge, RequestOK, SwitchedSteps
      <4>4. QED  BY <4>1, <4>2, <4>3, StepForms
    <3>4. QED  BY <3>1, <3>2, <3>3
  <2>3. QED  BY <1>2, <2>1, <2>2 DEF SwitchesKept, Switching, Recording, Is, App
<1>4. CASE ~KeepsAtIt(p)
  <2>1. ~Switching(p)
    <3>1. Recording(p) => DeployFails(p)
      BY <1>4, RecordingGoesOn
    <3>2. DeployFails(p) => At(p, "settleFailed")
      BY DEF DeployFails, DeploySettle, LateFails
    <3>3. QED  BY <3>1, <3>2 DEF Switching, At, SwitchedSteps
  <2>2. ~(Switching(p)')
    <3>1. CASE Recording(p)
      <4>1. DeployFails(p)
        BY <1>4, <3>1, RecordingGoesOn
      <4>2. Finish(p)
        BY <4>1 DEF DeployFails, DeploySettle
      <4>3. QED  BY <4>2 DEF Finish, NoRequest, Switching, SwitchedSteps, TInv, TypeOK
    <3>2. CASE ~Recording(p) /\ Recording(p)'
      <4>1. DeployInsert(p)
        BY <3>2, OthersRecordNothing
      <4>2. CASE Finish(p)
        BY <4>2 DEF Finish, NoRequest, Switching, SwitchedSteps, TInv, TypeOK
      <4>3. CASE ~Finish(p)
        BY <4>1, <4>3, InsertIs DEF Switching, SwitchedSteps
      <4>4. QED  BY <4>2, <4>3
    <3>3. CASE ~(Recording(p)')
      BY <3>3 DEF Switching
    <3>4. QED  BY <3>1, <3>2, <3>3
  <2>3. QED  BY <1>2, <2>1, <2>2 DEF SwitchesKept, Switching, Recording, Is, App
<1>5. QED  BY <1>3, <1>4

LEMMA NextLate == TInv /\ LateInv /\ [Next]_vars => LateInv'
<1> SUFFICES ASSUME TInv, LateInv, [Next]_vars PROVE LateInv'
  OBVIOUS
<1>1. ASSUME NEW p \in Procs, Step(p) \/ LockApp(p) \/ Hang(p), ~Finish(p) PROVE LateInv'
  <2>1. \A q \in Procs \ {p} : req'[q] = req[q]
    BY <1>1, OthersKeep
  <2>2. ASSUME req'[p].pc = "settleLate" PROVE "log" \in Faults
    <3>1. CASE Sync(p)
      <4>1. \/ Continue(p, "settleOk") \/ Continue(p, "startFind") \/ "log" \in Faults
        BY <1>1, <3>1 DEF Sync
      <4>2. QED  BY <2>2, <4>1 DEF Continue, Goto, TInv, TypeOK, Request
    <3>2. CASE Hang(p)
      BY <2>2, <3>2 DEF Hang, Continue, Goto, TInv, TypeOK, Request
    <3>3. CASE ~Sync(p) /\ ~Hang(p)
      <4>1. req[p].pc # "sync"
        BY <1>1, <3>3
           DEF Step, LockApp, DeployExists, DeployFind, DeployInsert, DeployPull, DeployHalt,
               DeployRemove, SetDeployed, DeploySucceeds, DeployFails, DeploySettle, InitCreate,
               InitStart, InitWait, VerifySingleWriter, RunCreate, RunBoot, StartFind, SaveRunning,
               StopFind, StopContainers, SaveStopped, NightlyList, NightlyLive, TryLockApp,
               NightlyRecheck, EditRead, EditSave, DeleteFind, DeleteRecords, DeleteRow, At
      <4>2. CASE StartFind(p) /\ Startable(row[App(p)])
        BY <2>2, <4>2 DEF StartFind, TInv, TypeOK, Request
      <4>3. CASE StopFind(p) \/ NightlyList(p) \/ EditRead(p)
        BY <1>1, <2>2, <4>3 DEF StopFind, NightlyList, EditRead, TInv, TypeOK, Request
      <4>4. CASE DeployInsert(p)
        BY <1>1, <2>2, <4>4, InsertIs
      <4>5. CASE Moves(p)
        <5>1. PICK step \in Steps :
                /\ Goto(p, step)
                /\ \/ Edge(req[p], step)
                   \/ req[p].pc \in StartSteps /\ step \in {"save", "setDeployed"}
                   \/ step = "settleFailed"
          BY <4>5 DEF Moves
        <5>2. req'[p].pc = step
          BY <5>1 DEF Goto, TInv, TypeOK, Request
        <5>3. QED  BY <2>2, <4>1, <5>1, <5>2 DEF Edge
      <4>6. QED  BY <1>1, <4>2, <4>3, <4>4, <4>5, StepForms
    <3>4. QED  BY <3>1, <3>2, <3>3
  <2>3. QED  BY <2>1, <2>2 DEF LateInv, At
<1>2. ASSUME NEW p \in Procs, Finish(p) PROVE LateInv'
  BY <1>2 DEF LateInv, At, Finish, NoRequest, TInv, TypeOK
<1>3. ASSUME NEW p \in Procs, Arrive(p) PROVE LateInv'
  <2>1. /\ \A q \in Procs \ {p} : req'[q] = req[q]
        /\ req'[p].pc \in {"exists", "list", "editRead", "deleteFind", "acquire"}
    BY <1>3 DEF Arrive, FirstStep, NoRequest, TInv, TypeOK
  <2>2. QED  BY <2>1 DEF LateInv, At
<1>4. CASE UNCHANGED req
  BY <1>4 DEF LateInv, At
<1>5. QED
  BY <1>1, <1>2, <1>3, <1>4 DEF Next, vars, Cancel, HelperExits, DaemonRestart

\* The image of the row is that of the record d, or of a later one that failed late.
ImageSince(a, d) == \E e \in {d} \cup FailedLate(a) : d <= e /\ row[a].image = deploys[e].image

\* The inductive form of LatestDeployWins: a deploy that has written the row has
\* yet to be reported.
LatestInv ==
    \A a \in Apps : \A d \in Succeeded(a) :
        /\ \A e \in Succeeded(a) : e <= d
        /\ \A p \in Procs : Switching(p) => App(p) # a
        => ImageSince(a, d)

\* The succeeded and failed records of an app stay, and so do their images, or
\* all that succeeded go.
SuccessesKept ==
    \A a \in Apps :
        \/ Succeeded(a)' = {}
        \/ /\ Succeeded(a)' = Succeeded(a) /\ FailedLate(a) \subseteq FailedLate(a)'
           /\ \A d \in Succeeded(a) \cup FailedLate(a) : deploys'[d].image = deploys[d].image

LEMMA LatestFrame ==
    ASSUME LatestInv, SuccessesKept, RemovedInv, RemovedInv',
           \A a \in Apps : \/ row'[a].image = row[a].image
                           \/ None \in {row[a], row'[a]}
                           \/ \E q \in Procs : Switching(q)' /\ App(q)' = a,
           \A q \in Procs : Switching(q) => \/ Switching(q)' /\ App(q)' = App(q)
                                           \/ \A a \in Apps : a = App(q) => Succeeded(a)' = {}
    PROVE  LatestInv'
<1> SUFFICES ASSUME NEW a \in Apps, NEW d \in Succeeded(a)',
                    \A e \in Succeeded(a)' : e <= d,
                    \A p \in Procs : Switching(p)' => App(p)' # a
             PROVE  ImageSince(a, d)'
  BY DEF LatestInv
<1>1. /\ d \in Succeeded(a) /\ Succeeded(a)' = Succeeded(a) /\ FailedLate(a) \subseteq FailedLate(a)'
      /\ \A e \in {d} \cup FailedLate(a) : deploys'[e].image = deploys[e].image
  BY DEF SuccessesKept
<1>2. \A p \in Procs : Switching(p) => App(p) # a
  BY <1>1
<1>3. row[a] # None /\ row'[a] # None
  BY <1>1 DEF RemovedInv, Succeeded
<1>4. row'[a].image = row[a].image
  BY <1>3
<1>5. PICK e \in {d} \cup FailedLate(a) : d <= e /\ row[a].image = deploys[e].image
  BY <1>1, <1>2 DEF LatestInv, ImageSince
<1>6. QED  BY <1>1, <1>4, <1>5 DEF ImageSince

LEMMA SettledImage ==
    ASSUME LedgerInv, NEW p \in Procs, DeploySucceeds(p) \/ LateFails(p),
           deploys[req[p].rec].status # "deleted"
    PROVE  /\ App(p) \in Apps /\ req[p].rec \in DOMAIN deploys
           /\ deploys[req[p].rec].app = App(p)
           /\ deploys[req[p].rec].image = row[App(p)].image
           /\ deploys[req[p].rec].status = "in_progress"
<1>1. Switching(p)
  BY SettlersAreSwitching DEF DeploySucceeds, LateFails, DeploySettle, LedgerInv
<1>2. /\ App(p) \in Apps /\ req[p].rec \in DOMAIN deploys /\ InSection(p)
      /\ deploys[req[p].rec].app = App(p) /\ deploys[req[p].rec].image = req[p].image
      /\ deploys[req[p].rec].status = "in_progress"
  BY <1>1, RecordingSection DEF LedgerInv, OwnersInv, RecordInv, Switching
<1>3. PICK a \in Apps : WorksOn(p, a)
  BY <1>2, AtWork DEF LedgerInv
<1>4. App(p) = a /\ row[a] # None
  BY <1>2, <1>3 DEF WorksOn, LedgerInv, RemovedInv
<1>5. row[a].image = req[p].image
  BY <1>1, <1>3, <1>4
     DEF WorksOn, LedgerInv, ServingInv, Serving, ServingOK, DeployOwns, Seen, Switching,
         SwitchedSteps, Recording, Is
<1>6. QED  BY <1>2, <1>4, <1>5

(* The record of a deploy that has switched is the newest of its app: if    *)
(* delete has removed it, none is left.                                     *)
LEMMA SettlesLatest ==
    ASSUME LedgerInv, LedgerInv', LatestInv, NEW p \in Procs, DeploySucceeds(p) \/ LateFails(p)
    PROVE  LatestInv'
<1> DEFINE n == req[p].rec
<1>1. PICK status \in {"succeeded", "failed"} :
      /\ status = "failed" => "log" \in Faults
      /\ App(p) \in Apps /\ n \in DOMAIN deploys /\ Recording(p) /\ deploys[n].app = App(p)
      /\ \A q \in Procs \ {p} : req'[q] = req[q]
      /\ DOMAIN deploys' = DOMAIN deploys
      /\ \A d \in DOMAIN deploys : d # n => deploys'[d] = deploys[d]
      /\ deploys'[n] = IF deploys[n].status = "deleted" THEN deploys[n]
                       ELSE [app |-> deploys[n].app, image |-> deploys[n].image,
                             status |-> status]
      /\ deploys[n].status \in {"in_progress", "deleted"}
      /\ UNCHANGED row
  <2>1. PICK step \in {"settleOk", "settleLate"}, status \in {"succeeded", "failed"} :
          DeploySettle(p, step, status) /\ (status = "failed" => step = "settleLate")
    BY DEF DeploySucceeds, LateFails
  <2>2. status = "failed" => "log" \in Faults
    BY <2>1 DEF LedgerInv, LateInv, DeploySettle
  <2>3. QED
    BY <2>1, <2>2, SettleIs, RecordingSection DEF LedgerInv, OwnersInv, DeploySettle
<1>2. \A e \in DOMAIN deploys : e \in Nat /\ (deploys[e].app = App(p) => e <= n)
  BY <1>1 DEF LedgerInv, OwnersInv, Newest, TInv, TypeOK
<1>3. Switching(p)
  BY SettlersAreSwitching DEF DeploySucceeds, LateFails, DeploySettle, LedgerInv
<1> HIDE DEF n
<1>4. \A q \in Procs \ {p} : (Switching(q)' <=> Switching(q)) /\ App(q)' = App(q)
  BY <1>1 DEF Switching, Recording, Is, At, App
<1>5. CASE deploys[n].status = "deleted"
  <2>1. \A e \in DOMAIN deploys : deploys'[e] = deploys[e]
    BY <1>1, <1>5
  <2>2. \A a \in Apps : a = App(p) => Succeeded(a)' = {}
    BY <1>1, <1>2, <1>5, <2>1 DEF LedgerInv, RemovedInv, Succeeded
  <2>3. \A a \in Apps : Succeeded(a)' = Succeeded(a) /\ FailedLate(a)' = FailedLate(a)
    BY <1>1, <2>1 DEF Succeeded, FailedLate
  <2>4. SuccessesKept
    BY <2>1, <2>3 DEF SuccessesKept, Succeeded, FailedLate
  <2>5. QED  BY <1>1, <1>4, <2>2, <2>4, LatestFrame DEF LedgerInv
<1>6. CASE deploys[n].status # "deleted"
  <2>1. /\ deploys[n].image = row[App(p)].image
        /\ deploys'[n] = [app |-> deploys[n].app, image |-> deploys[n].image, status |-> status]
    BY <1>1, <1>6, SettledImage DEF n
  <2>2. /\ deploys'[n].app = App(p) /\ deploys'[n].image = row[App(p)].image
        /\ deploys'[n].status = status
    BY <1>1, <2>1
  <2>3. ASSUME NEW a \in Apps, NEW d \in Succeeded(a)',
               \A e \in Succeeded(a)' : e <= d,
               \A q \in Procs : Switching(q)' => App(q)' # a
        PROVE  ImageSince(a, d)'
    <3>1. CASE a = App(p)
      <4>1. d \in DOMAIN deploys' /\ deploys'[d].app = a
        BY <2>3 DEF Succeeded
      <4>2. d \in DOMAIN deploys /\ deploys[d].app = a /\ d <= n /\ n \in Nat
        BY <1>1, <1>2, <3>1, <4>1
      <4>3. n \in {d} \cup FailedLate(a)'
        <5>1. CASE status = "succeeded"
          <6>1. n \in Succeeded(a)'
            BY <1>1, <2>2, <3>1, <5>1 DEF Succeeded
          <6>2. n <= d /\ d \in Nat
            BY <1>2, <2>3, <4>2, <6>1
          <6>3. QED  BY <4>2, <6>2
        <5>2. CASE status = "failed"
          BY <1>1, <2>2, <3>1, <5>2 DEF FailedLate
        <5>3. QED  BY <5>1, <5>2
      <4>4. QED  BY <1>1, <2>2, <3>1, <4>2, <4>3 DEF ImageSince
    <3>2. CASE a # App(p)
      <4>1. /\ Succeeded(a)' = Succeeded(a) /\ n \notin Succeeded(a)
            /\ FailedLate(a)' = FailedLate(a) /\ n \notin FailedLate(a)
        BY <1>1, <2>2, <3>2 DEF Succeeded, FailedLate
      <4>2. d \in Succeeded(a) /\ \A e \in {d} \cup FailedLate(a) : deploys'[e] = deploys[e]
        BY <1>1, <2>3, <4>1 DEF Succeeded, FailedLate
      <4>3. \A q \in Procs : Switching(q) => App(q) # a
        BY <1>4, <2>3, <3>2
      <4>4. ImageSince(a, d)
        BY <2>3, <4>1, <4>2, <4>3 DEF LatestInv
      <4>5. QED  BY <1>1, <4>1, <4>2, <4>4 DEF ImageSince
    <3>3. QED  BY <3>1, <3>2
  <2>4. QED  BY <2>3 DEF LatestInv
<1>7. QED  BY <1>5, <1>6

LEMMA SwitchMoves ==
    ASSUME TInv, NEW p \in Procs, Switches(p)
    PROVE  /\ App(p) \in Apps /\ App(p)' = App(p)
           /\ \A b \in Apps \ {App(p)} : row'[b] = row[b]
           /\ Recording(p) /\ ~Switching(p) /\ Switching(p)' /\ req'[p].rec = req[p].rec
           /\ \A q \in Procs \ {p} : req'[q] = req[q]
           /\ UNCHANGED deploys
<1>1. Recording(p) /\ ~Switching(p) /\ UNCHANGED deploys
  BY DEF Switches, SetDeployed, At, Recording, Is, RecordedSteps, TInv, RequestsOK, RequestOK,
         DeploySteps, Switching, SwitchedSteps
<1>2. Continue(p, "sync")
  BY <1>1 DEF Switches, SetDeployed, Fail, Continue, Goto, Recording, TInv, TypeOK, Request
<1>3. KeepsAtIt(p)
  BY <1>1, <1>2, ContinueRecording DEF RecordedSteps
<1>4. \A b \in Apps \ {App(p)} : row'[b] = row[b]
  BY DEF Switches, SetDeployed, TInv, TypeOK
<1>5. QED
  BY <1>1, <1>3, <1>4, RecordingSection, OthersKeep
     DEF Step, Switches, KeepsAtIt, Switching, SwitchedSteps, App

LEMMA SwitchIs ==
    ASSUME LockedOnly, LedgerInv, NEW p \in Procs, Switches(p)
    PROVE  /\ req[p].rec \in DOMAIN deploys
           /\ deploys[req[p].rec].app = App(p)
           /\ deploys[req[p].rec].status = "in_progress"
           /\ row'[App(p)].image = deploys[req[p].rec].image
<1>1. Recording(p) /\ App(p) \in Apps
  BY SwitchMoves DEF LedgerInv
<1>2. /\ req[p].rec \in DOMAIN deploys
      /\ deploys[req[p].rec].app = App(p) /\ deploys[req[p].rec].image = req[p].image
      /\ deploys[req[p].rec].status = "in_progress"
  BY <1>1, RecordingSection DEF LedgerInv, OwnersInv, RecordInv
<1>3. row[App(p)] \in Row /\ row[App(p)] # None
  BY <1>1, RowSeen DEF LedgerInv
<1>4. row'[App(p)].image = req[p].image
  <2>1. ~Fail(p)
    BY <1>1 DEF Switches, Fail, Recording, Continue, Goto, LedgerInv, TInv, TypeOK, Request
  <2>2. QED  BY <1>1, <1>3, <2>1 DEF Switches, SetDeployed, LedgerInv, TInv, TypeOK, Row
<1>5. QED  BY <1>2, <1>4

(* Apart from the three steps that settle or switch, a step keeps images    *)
(* and successes.                                                           *)
LEMMA SuccessesStay ==
    ASSUME LedgerInv, NEW p \in Procs, Step(p) \/ LockApp(p) \/ Hang(p), ~DeploySucceeds(p)
    PROVE  SuccessesKept
<1>1. CASE UNCHANGED deploys
  BY <1>1 DEF SuccessesKept, Succeeded, FailedLate
<1>2. CASE DeployInsert(p) /\ ~UNCHANGED deploys
  <2>1. /\ DOMAIN deploys = 1..Len(deploys) /\ Len(deploys) \in Nat
        /\ DOMAIN deploys' = 1..(Len(deploys) + 1)
        /\ \A d \in DOMAIN deploys : deploys'[d] = deploys[d]
        /\ deploys'[Len(deploys) + 1].status = "in_progress"
    <3>1. deploys'[Len(deploys) + 1] = NewRecord(p)
      BY <1>2, InsertIs DEF LedgerInv
    <3>2. NewRecord(p).status = "in_progress"
      BY DEF NewRecord
    <3>3. QED  BY <1>2, <3>1, <3>2, InsertIs DEF LedgerInv
  <2>2. ASSUME NEW a \in Apps, NEW d
        PROVE  /\ d \in Succeeded(a)' <=> d \in Succeeded(a)
               /\ d \in FailedLate(a) => d \in FailedLate(a)'
    BY <2>1 DEF Succeeded, FailedLate
  <2>3. ASSUME NEW a \in Apps, NEW d \in Succeeded(a) \cup FailedLate(a)
        PROVE  deploys'[d].image = deploys[d].image
    BY <2>1 DEF Succeeded, FailedLate
  <2>4. QED  BY <2>2, <2>3 DEF SuccessesKept
<1>3. CASE DeployFails(p)
  <2>1. /\ req[p].rec \in DOMAIN deploys /\ DOMAIN deploys' = DOMAIN deploys
        /\ \A d \in DOMAIN deploys : d # req[p].rec => deploys'[d] = deploys[d]
        /\ deploys'[req[p].rec].status # "succeeded" /\ deploys[req[p].rec].status # "succeeded"
        /\ deploys[req[p].rec].status # "failed"
    <3>1. /\ req[p].rec \in DOMAIN deploys /\ DOMAIN deploys' = DOMAIN deploys
          /\ \A d \in DOMAIN deploys : d # req[p].rec => deploys'[d] = deploys[d]
          /\ deploys'[req[p].rec] =
                IF deploys[req[p].rec].status = "deleted" THEN deploys[req[p].rec]
                ELSE [app |-> deploys[req[p].rec].app, image |-> deploys[req[p].rec].image,
                      status |-> "failed"]
          /\ deploys[req[p].rec].status \in {"in_progress", "deleted"}
      BY <1>3, SettleIs DEF DeployFails, LedgerInv
    <3>2. QED  BY <3>1
  <2>2. ASSUME NEW a \in Apps, NEW d
        PROVE  /\ d \in Succeeded(a)' <=> d \in Succeeded(a)
               /\ d \in FailedLate(a) => d \in FailedLate(a)'
    BY <2>1 DEF Succeeded, FailedLate
  <2>3. ASSUME NEW a \in Apps, NEW d \in Succeeded(a) \cup FailedLate(a)
        PROVE  deploys'[d].image = deploys[d].image
    BY <2>1 DEF Succeeded, FailedLate
  <2>4. QED  BY <2>2, <2>3 DEF SuccessesKept
<1>4. CASE DeleteRecords(p)
  <2>1. \A d \in DOMAIN deploys : deploys[d] \in Deploy
    BY DEF LedgerInv, TInv, TypeOK
  <2>2. /\ DOMAIN deploys' = DOMAIN deploys
        /\ \A d \in DOMAIN deploys :
             /\ deploys'[d].app = deploys[d].app /\ deploys'[d].image = deploys[d].image
             /\ deploys'[d].status = IF deploys[d].app = App(p) THEN "deleted" ELSE deploys[d].status
    BY <1>4, <2>1 DEF DeleteRecords, Live, Deploy
  <2>3. \A a \in Apps : a = App(p) => Succeeded(a)' = {}
    BY <2>2 DEF Succeeded
  <2>4. \A a \in Apps : a # App(p) =>
          Succeeded(a)' = Succeeded(a) /\ FailedLate(a)' = FailedLate(a)
    BY <2>2 DEF Succeeded, FailedLate
  <2>5. \A a \in Apps : \A d \in Succeeded(a) \cup FailedLate(a) :
          deploys'[d].image = deploys[d].image
    BY <2>2 DEF Succeeded, FailedLate
  <2>6. QED  BY <2>3, <2>4, <2>5 DEF SuccessesKept
<1>5. QED  BY <1>1, <1>2, <1>3, <1>4, RecordsChange

LEMMA StepLatest ==
    ASSUME ReadUnderLock, LedgerInv, LedgerInv', LatestInv, NEW p \in Procs,
           Step(p) \/ LockApp(p) \/ Hang(p)
    PROVE  LatestInv'
<1>1. CASE DeploySucceeds(p) \/ LateFails(p)
  BY <1>1, SettlesLatest
<1>2. CASE Switches(p)
  <2>1. /\ App(p)' = App(p) /\ Switching(p)' /\ ~Switching(p)
        /\ \A b \in Apps \ {App(p)} : row'[b] = row[b]
        /\ \A q \in Procs \ {p} : req'[q] = req[q]
        /\ UNCHANGED deploys
    BY <1>2, SwitchMoves DEF LedgerInv
  <2>2. SuccessesKept
    BY <2>1 DEF SuccessesKept, Succeeded, FailedLate
  <2>3. \A q \in Procs : Switching(q) => Switching(q)' /\ App(q)' = App(q)
    BY <2>1 DEF Switching, Recording, Is, App
  <2>4. QED  BY <2>1, <2>2, <2>3, LatestFrame DEF LedgerInv
<1>3. CASE ~DeploySucceeds(p) /\ ~LateFails(p) /\ ~Switches(p)
  <2>1. RowsKept
    BY <1>3, RowsSaved DEF LedgerInv
  <2>2. SwitchesKept
    BY <1>3, SwitchingStays DEF LedgerInv
  <2>3. QED
    BY <1>3, <2>1, <2>2, SuccessesStay, LatestFrame DEF RowsKept, SwitchesKept, LedgerInv
<1>4. QED  BY <1>1, <1>2, <1>3

LEMMA ArriveSwitching ==
    ASSUME TInv, NEW p \in Procs, Arrive(p)
    PROVE  SwitchesKept
<1>1. /\ \A q \in Procs \ {p} : req'[q] = req[q]
      /\ req'[p].pc \in {"exists", "list", "editRead", "deleteFind", "acquire"}
      /\ req[p].pc = "idle"
  BY DEF Arrive, FirstStep, NoRequest, TInv, TypeOK, At
<1>2. QED  BY <1>1 DEF SwitchesKept, Switching, SwitchedSteps, Recording, Is, App

LEMMA NextLatest ==
    ReadUnderLock /\ Undropped /\ LedgerInv /\ LedgerInv' /\ LatestInv /\ [Next]_vars => LatestInv'
<1> SUFFICES ASSUME ReadUnderLock, Undropped, LedgerInv, LedgerInv', LatestInv, [Next]_vars
             PROVE  LatestInv'
  OBVIOUS
<1>1. ASSUME NEW p \in Procs, Arrive(p) PROVE LatestInv'
  <2>1. UNCHANGED <<row, deploys>> /\ SuccessesKept
    BY <1>1 DEF Arrive, SuccessesKept, Succeeded, FailedLate
  <2>2. SwitchesKept
    BY <1>1, ArriveSwitching DEF LedgerInv
  <2>3. QED  BY <2>1, <2>2, LatestFrame DEF SwitchesKept, LedgerInv
<1>2. ASSUME UNCHANGED <<row, deploys, req>> PROVE LatestInv'
  BY <1>2 DEF LatestInv, ImageSince, Succeeded, FailedLate, Switching, Recording, Is, App
<1>3. QED
  BY <1>1, <1>2, StepLatest DEF Next, vars, HelperExits, DaemonRestart, Cancel, Undropped

LEMMA InitLedger == Init => LedgerInv
<1>1. Init => RemovedInv
  BY DEF Init, RemovedInv
<1>2. Init => LateInv
  BY DEF Init, LateInv, At, NoRequest
<1>3. QED  BY <1>1, <1>2, InitTInv, InitLock, InitServes, InitRecords, InitOwners DEF LedgerInv

LEMMA NextLedger == Unedited /\ LedgerInv /\ [Next]_vars => LedgerInv'
BY NextTInv, NextLock, NextServes, NextRecord, NextOwners, NextRemoved, NextLate DEF LedgerInv

(* The image of the row is that of the last deploy that succeeded, or of a  *)
(* later one that failed only because its log could not be written, for any *)
(* number of deploys, starts, stops, restarts and deletions, whatever       *)
(* Docker call or write to the log or to the row of a new container fails,  *)
(* with pulls and a Caddy that never answer and with restarts of the        *)
(* daemon.  It takes that no request is dropped between its two writes, and *)
(* that every writer of the row reads it under the lock: edits and the      *)
(* nightly pass do not.                                                     *)
THEOREM LastDeployIsRecorded ==
    ASSUME Unedited, Undropped, "nightly" \notin Kinds
    PROVE  Spec => []LatestDeployWins
<1>1. Init => LatestInv
  BY DEF Init, LatestInv, Succeeded
<1>2. LedgerInv /\ LatestInv => LatestDeployWins
  <2> SUFFICES ASSUME LedgerInv, LatestInv, NEW a \in Apps, NEW d \in Succeeded(a), Free(a),
                      \A e \in Succeeded(a) : e <= d
               PROVE  ImageSince(a, d)
    BY DEF LatestDeployWins, ImageSince
  <2>1. \A p \in Procs : Switching(p) => App(p) # a
    BY RecordingSection, NoneIsNoKind DEF Switching, LedgerInv, LockInv, Free
  <2>2. QED  BY <2>1 DEF LatestInv
<1>3. QED
  BY <1>1, <1>2, InitLedger, NextLedger, NextLatest, PTL DEF Spec, ReadUnderLock

-----------------------------------------------------------------------------
(* The lifecycle implements the deploy ledger *)

\* What DeployLedger sees: the image of each row, and of each record its stage.
ImageSeen == [a \in Apps |-> row[a].image]
EntrySeen(d) == [deploys[d] EXCEPT !.status = IF Switched(d) THEN "switched" ELSE @]
LedgerSeen == [d \in DOMAIN deploys |-> EntrySeen(d)]

Stage(d) == IF Switched(d) THEN "switched" ELSE deploys[d].status
Entry == [app : Apps, image : Images, status : Ledger!Stages \cup {"deleted"}]

SwitchedAre == \A d : Switched(d) <=> \E p \in Procs : Switching(p) /\ req[p].rec = d

LEMMA SwitchedIs == SwitchedAre
BY DEF SwitchedAre, Switched, Switching, SwitchedSteps, Recording, RecordedSteps

EntriesAre ==
    \A d \in DOMAIN deploys :
        /\ EntrySeen(d) = [app |-> deploys[d].app, image |-> deploys[d].image, status |-> Stage(d)]
        /\ EntrySeen(d) \in Entry

LEMMA EntryIs == TInv => EntriesAre
<1> SUFFICES ASSUME TInv, NEW d \in DOMAIN deploys
             PROVE  /\ EntrySeen(d) = [app |-> deploys[d].app, image |-> deploys[d].image, status |-> Stage(d)]
                    /\ EntrySeen(d) \in Entry
  BY DEF EntriesAre
<1>1. deploys[d] \in Deploy
  BY DEF TInv, TypeOK
<1>2. EntrySeen(d) = [app |-> deploys[d].app, image |-> deploys[d].image, status |-> Stage(d)]
  BY <1>1 DEF EntrySeen, Stage, Deploy
<1>3. Stage(d) \in {"in_progress", "switched", "succeeded", "failed", "deleted"}
  BY <1>1 DEF Stage, Deploy
<1>4. QED  BY <1>1, <1>2, <1>3 DEF Entry, Deploy, Ledger!Stages

LEMMA LedgerSeenIs == TInv => LedgerSeen \in Seq(Entry) /\ Len(LedgerSeen) = Len(deploys)
<1> SUFFICES ASSUME TInv PROVE LedgerSeen \in Seq(Entry) /\ Len(LedgerSeen) = Len(deploys)
  OBVIOUS
<1>1. deploys \in Seq(Deploy)
  BY DEF TInv, TypeOK
<1>2. DOMAIN deploys = 1..Len(deploys) /\ Len(deploys) \in Nat
  BY <1>1
<1>3. \A d \in DOMAIN deploys : EntrySeen(d) \in Entry
  BY EntryIs DEF EntriesAre
<1>4. LedgerSeen \in [1..Len(deploys) -> Entry]
  BY <1>2, <1>3 DEF LedgerSeen
<1>5. QED  BY <1>2, <1>4 DEF LedgerSeen

\* The images seen stay as long as those of all rows do, ...
LEMMA ImageSeenStays == ASSUME ImagesKept PROVE UNCHANGED ImageSeen
BY DEF ImagesKept, ImageSeen

\* ... and so does the ledger, with the records and the deploys that switch.
LEMMA LedgerSeenStays ==
    ASSUME TInv, TInv', UNCHANGED deploys, SwitchesKept
    PROVE  UNCHANGED LedgerSeen
<1>0. SwitchedAre /\ SwitchedAre'
  BY SwitchedIs, PTL
<1>1. ASSUME NEW d \in DOMAIN deploys PROVE EntrySeen(d)' = EntrySeen(d)
  <2>1. Switched(d)' <=> Switched(d)
    BY <1>0 DEF SwitchedAre, SwitchesKept
  <2>2. QED  BY <2>1 DEF EntrySeen
<1>2. QED  BY <1>1 DEF LedgerSeen

\* One entry moves on to another stage.
LEMMA EntryMoves ==
    ASSUME TInv, TInv', NEW n \in DOMAIN deploys, NEW stage,
           DOMAIN deploys' = DOMAIN deploys,
           \A d \in DOMAIN deploys : /\ deploys'[d].app = deploys[d].app
                                     /\ deploys'[d].image = deploys[d].image
                                     /\ Stage(d)' = IF d = n THEN stage ELSE Stage(d)
    PROVE  LedgerSeen' = [LedgerSeen EXCEPT ![n].status = stage]
<1>0. EntriesAre /\ EntriesAre'
  BY EntryIs, PTL
<1>1. ASSUME NEW d \in DOMAIN deploys, d # n PROVE LedgerSeen'[d] = LedgerSeen[d]
  <2>1. EntrySeen(d)' = [app |-> deploys[d].app, image |-> deploys[d].image, status |-> Stage(d)]
    BY <1>0, <1>1 DEF EntriesAre
  <2>2. QED  BY <1>0, <1>1, <2>1 DEF EntriesAre, LedgerSeen
<1>2. LedgerSeen'[n] = [LedgerSeen[n] EXCEPT !.status = stage]
  <2>1. EntrySeen(n)' = [app |-> deploys[n].app, image |-> deploys[n].image, status |-> stage]
    BY <1>0 DEF EntriesAre
  <2>2. LedgerSeen[n] = [app |-> deploys[n].app, image |-> deploys[n].image, status |-> Stage(n)]
    BY <1>0 DEF EntriesAre, LedgerSeen
  <2>3. LedgerSeen'[n] = EntrySeen(n)'
    BY DEF LedgerSeen
  <2>4. QED  BY <2>1, <2>2, <2>3
<1>3. /\ DOMAIN LedgerSeen = DOMAIN deploys /\ DOMAIN LedgerSeen' = DOMAIN deploys
      /\ LedgerSeen = [d \in DOMAIN deploys |-> LedgerSeen[d]]
      /\ LedgerSeen' = [d \in DOMAIN deploys |-> LedgerSeen'[d]]
  BY DEF LedgerSeen
<1>4. QED  BY <1>1, <1>2, <1>3

LEMMA OneSwitches ==
    ASSUME TInv, TInv', RecordInv, NEW p \in Procs, Recording(p),
           \A q \in Procs \ {p} : req'[q] = req[q],
           Recording(p)' => req'[p].rec = req[p].rec
    PROVE  /\ \A d : d # req[p].rec => (Switched(d)' <=> Switched(d))
           /\ Switched(req[p].rec) <=> Switching(p)
           /\ \A d : d = req[p].rec => (Switched(d)' <=> Switching(p)')
<1>1. SwitchedAre /\ SwitchedAre'
  BY SwitchedIs, PTL
<1>2. \A q \in Procs \ {p} : /\ Switching(q)' <=> Switching(q)
                             /\ Switching(q) => req[q].rec # req[p].rec
  BY DEF Switching, Recording, Is, At, RecordInv
<1>3. Switching(p)' => req'[p].rec = req[p].rec
  BY DEF Switching
<1>4. QED  BY <1>1, <1>2, <1>3 DEF SwitchedAre

LEMMA NoneActive ==
    ASSUME LedgerInv, Undropped, NEW p \in Procs, InSection(p), ~Recording(p), App(p) \in Apps,
           NEW d \in DOMAIN deploys, deploys[d].app = App(p)
    PROVE  Stage(d) \notin {"in_progress", "switched"}
<1>1. ASSUME NEW q \in Procs, Recording(q), req[q].rec = d PROVE FALSE
  <2>1. InSection(q) /\ App(q) = App(p)
    BY <1>1, RecordingSection DEF LedgerInv, OwnersInv
  <2>2. QED  BY <1>1, <2>1 DEF LedgerInv, LockInv
<1>2. ~Switched(d)
  BY <1>1, SwitchedIs DEF SwitchedAre, Switching, LedgerInv
<1>3. deploys[d].status # "in_progress" /\ deploys[d].status # "switched"
  <2>1. deploys[d] \in Deploy
    BY DEF LedgerInv, TInv, TypeOK
  <2>2. deploys[d].status # "switched"
    BY <2>1 DEF Deploy
  <2>3. QED  BY <1>1, <2>2 DEF LedgerInv, OwnersInv
<1>4. QED  BY <1>2, <1>3 DEF Stage

LEMMA BeginStep ==
    ASSUME ReadUnderLock, Undropped, LedgerInv, LedgerInv', NEW p \in Procs, DeployInsert(p),
           ~(Finish(p) /\ UNCHANGED deploys)
    PROVE  \E a \in Apps, i \in Images :
             /\ {d \in DOMAIN LedgerSeen : /\ LedgerSeen[d].app = a
                                           /\ LedgerSeen[d].status \in {"in_progress", "switched"}} = {}
             /\ LedgerSeen' = Append(LedgerSeen, [app |-> a, image |-> i, status |-> "in_progress"])
             /\ UNCHANGED ImageSeen
<1> DEFINE n == Len(deploys) + 1
           w == [app |-> App(p), image |-> req[p].image, status |-> "in_progress"]
<1>1. TInv /\ TInv' /\ EntriesAre /\ EntriesAre'
  BY EntryIs, PTL DEF LedgerInv
<1>2. /\ req[p].kind = "deploy" /\ req[p].pc = "insert" /\ ~Recording(p) /\ App(p) \in Apps
      /\ req[p].image \in Images /\ InSection(p)
  BY <1>1 DEF DeployInsert, At, Recording, RecordedSteps, StartSteps, TInv, RequestsOK, RequestOK,
         DeploySteps, InSection, LockedKinds, UnlockedSteps, App
<1>3. \A d \in DOMAIN LedgerSeen : LedgerSeen[d].app = App(p) =>
        LedgerSeen[d].status \notin {"in_progress", "switched"}
  <2>1. ASSUME NEW d \in DOMAIN deploys
        PROVE LedgerSeen[d].app = deploys[d].app /\ LedgerSeen[d].status = Stage(d)
    BY <1>1 DEF EntriesAre, LedgerSeen
  <2>2. DOMAIN LedgerSeen = DOMAIN deploys
    BY DEF LedgerSeen
  <2>3. QED  BY <1>2, <2>1, <2>2, NoneActive
<1>4. /\ DOMAIN deploys = 1..Len(deploys) /\ Len(deploys) \in Nat
      /\ DOMAIN deploys' = 1..n
      /\ \A d \in DOMAIN deploys : deploys'[d] = deploys[d]
      /\ deploys'[n] = w
      /\ req'[p].rec = n /\ req'[p].pc = "pull"
      /\ \A q \in Procs \ {p} : req'[q] = req[q]
  BY <1>1, InsertIs DEF NewRecord
<1>5. \A q \in Procs : /\ Switching(q)' <=> Switching(q)
                       /\ Switching(q) => req'[q] = req[q] /\ req[q].rec # n
  <2>1. \A q \in Procs : Switching(q) => req[q].rec \in DOMAIN deploys
    BY <1>1, RecordingSection DEF Switching
  <2>2. \A q \in Procs : Switching(q) => req[q].rec # n
    BY <1>4, <2>1
  <2>3. ~Switching(p) /\ ~Switching(p)'
    BY <1>2, <1>4 DEF Switching, SwitchedSteps, Recording, Is, At
  <2>4. ASSUME NEW q \in Procs, q # p
        PROVE  req'[q] = req[q] /\ (Switching(q)' <=> Switching(q))
    <3>1. req'[q] = req[q]
      BY <1>4, <2>4
    <3>2. QED  BY <3>1 DEF Switching, Recording, Is, At
  <2>5. QED  BY <2>2, <2>3, <2>4
<1>6. \A d \in DOMAIN deploys : Switched(d)' <=> Switched(d)
  <2>1. SwitchedAre /\ SwitchedAre'
    BY <1>1, SwitchedIs, PTL
  <2>2. QED  BY <1>5, <2>1 DEF SwitchedAre
<1>7. \A d : d = n => ~(Switched(d)')
  <2>1. SwitchedAre'
    BY <1>1, SwitchedIs, PTL
  <2>2. QED  BY <1>4, <1>5, <2>1 DEF SwitchedAre
<1>8. PICK a \in Apps, i \in Images : a = App(p) /\ i = req[p].image
  BY <1>2
<1>9. LedgerSeen' = Append(LedgerSeen, [app |-> a, image |-> i, status |-> "in_progress"])
  <2> DEFINE v == [app |-> a, image |-> i, status |-> "in_progress"]
  <2>1. v = w
    BY <1>8
  <2>2. \A d \in DOMAIN deploys : LedgerSeen'[d] = LedgerSeen[d]
    BY <1>4, <1>6 DEF LedgerSeen, EntrySeen
  <2>3. \A d \in DOMAIN deploys' : d = n => LedgerSeen'[d] = v
    <3>1. ASSUME NEW d \in DOMAIN deploys', d = n PROVE LedgerSeen'[d] = v
      <4>1. ~(Switched(d)') /\ deploys'[d] = v
        BY <1>4, <1>7, <2>1, <3>1
      <4>2. LedgerSeen'[d] = [v EXCEPT !.status = v.status]
        <5> HIDE DEF v, w
        <5> QED  BY <4>1 DEF LedgerSeen, EntrySeen
      <4>3. QED  BY <4>2
    <3>2. QED  BY <3>1
  <2>4. v \in Entry
    BY DEF Entry, Ledger!Stages
  <2> HIDE DEF v, w
  <2>5. /\ LedgerSeen \in Seq(Entry) /\ Len(LedgerSeen) = Len(deploys)
        /\ (LedgerSeen \in Seq(Entry) /\ Len(LedgerSeen) = Len(deploys))'
    BY <1>1, LedgerSeenIs, PTL
  <2>6. Len(deploys') = n
    BY <1>1, <1>4 DEF TInv, TypeOK
  <2>7. /\ Append(LedgerSeen, v) \in Seq(Entry) /\ Len(Append(LedgerSeen, v)) = n
        /\ \A d \in 1..Len(deploys) : Append(LedgerSeen, v)[d] = LedgerSeen[d]
        /\ Append(LedgerSeen, v)[n] = v
    BY <2>4, <2>5, AppendProperties
  <2>8. \A d \in 1..n : LedgerSeen'[d] = Append(LedgerSeen, v)[d]
    BY <1>4, <2>2, <2>3, <2>7
  <2>9. LedgerSeen' = Append(LedgerSeen, v)
    <3>1. LedgerSeen' \in Seq(Entry)
      BY <2>5 DEF Entry, Ledger!Stages
    <3>2. QED  BY <2>5, <2>6, <2>7, <2>8, <3>1, SeqEqual
  <2>10. QED  BY <2>9 DEF v
<1>10. UNCHANGED ImageSeen
  BY DEF DeployInsert, ImageSeen
<1>11. QED  BY <1>3, <1>8, <1>9, <1>10

\* What DeployLedger's actions say of a record that moves on.
Moved(d, from, to) ==
    /\ d \in DOMAIN LedgerSeen
    /\ LedgerSeen[d].status = from
    /\ LedgerSeen' = [LedgerSeen EXCEPT ![d].status = to]

LEMMA SwitchStep ==
    ASSUME LockedOnly, LedgerInv, LedgerInv', NEW p \in Procs, Switches(p)
    PROVE  \E d : /\ Moved(d, "in_progress", "switched")
                  /\ ImageSeen' = [ImageSeen EXCEPT ![LedgerSeen[d].app] = LedgerSeen[d].image]
<1>1. TInv /\ TInv' /\ RecordInv /\ EntriesAre
  BY EntryIs DEF LedgerInv
<1>2. PICK a \in Apps, n \in DOMAIN deploys :
        /\ n = req[p].rec
        /\ deploys[n].app = a /\ deploys[n].status = "in_progress"
        /\ row'[a].image = deploys[n].image
        /\ \A b \in Apps \ {a} : row'[b] = row[b]
        /\ Recording(p) /\ ~Switching(p) /\ Switching(p)' /\ req'[p].rec = n
        /\ \A q \in Procs \ {p} : req'[q] = req[q]
        /\ UNCHANGED deploys
  BY SwitchIs, SwitchMoves DEF LedgerInv
<1>3. /\ \A d : d # n => (Switched(d)' <=> Switched(d))
      /\ ~Switched(n) /\ \A d : d = n => Switched(d)'
  BY <1>1, <1>2, OneSwitches
<1>4. \A d \in DOMAIN deploys : Stage(d)' = IF d = n THEN "switched" ELSE Stage(d)
  BY <1>2, <1>3 DEF Stage
<1>5. LedgerSeen' = [LedgerSeen EXCEPT ![n].status = "switched"]
  BY <1>1, <1>2, <1>4, EntryMoves
<1>6. /\ n \in DOMAIN LedgerSeen
      /\ LedgerSeen[n].status = "in_progress"
      /\ LedgerSeen[n].app = a /\ LedgerSeen[n].image = deploys[n].image
  BY <1>1, <1>2, <1>3 DEF LedgerSeen, EntriesAre, Stage
<1>7. ImageSeen' = [ImageSeen EXCEPT ![a] = deploys[n].image]
  <2>1. \A b \in Apps : row'[b].image = IF b = a THEN deploys[n].image ELSE row[b].image
    BY <1>2
  <2>2. QED  BY <2>1 DEF ImageSeen
<1>8. QED  BY <1>5, <1>6, <1>7 DEF Moved

LEMMA SettleStep ==
    ASSUME LockedOnly, LedgerInv, LedgerInv', NEW p \in Procs, DeploySucceeds(p) \/ DeployFails(p)
    PROVE  /\ \E d : \/ Moved(d, "switched", "succeeded")
                     \/ Moved(d, "in_progress", "failed")
                     \/ "log" \in Faults /\ Moved(d, "switched", "failed")
           /\ UNCHANGED ImageSeen
<1>1. TInv /\ TInv' /\ RecordInv /\ EntriesAre
  BY EntryIs DEF LedgerInv
<1>2. PICK status \in {"succeeded", "failed"}, step \in {"settleOk", "settleFailed", "settleLate"} :
        /\ DeploySettle(p, step, status)
        /\ step = "settleOk" <=> status = "succeeded"
  BY DEF DeploySucceeds, DeployFails
<1>3. PICK n \in DOMAIN deploys :
        /\ n = req[p].rec
        /\ DOMAIN deploys' = DOMAIN deploys
        /\ \A d \in DOMAIN deploys : d # n => deploys'[d] = deploys[d]
        /\ deploys'[n] = IF deploys[n].status = "deleted" THEN deploys[n]
                         ELSE [app |-> deploys[n].app, image |-> deploys[n].image, status |-> status]
        /\ deploys[n].status \in {"in_progress", "deleted"}
        /\ Recording(p) /\ ~(Recording(p)')
        /\ \A q \in Procs \ {p} : req'[q] = req[q]
  <2> DEFINE m == req[p].rec
  <2>1. /\ m \in DOMAIN deploys /\ DOMAIN deploys' = DOMAIN deploys
        /\ \A d \in DOMAIN deploys : d # m => deploys'[d] = deploys[d]
        /\ deploys'[m] = IF deploys[m].status = "deleted" THEN deploys[m]
                         ELSE [app |-> deploys[m].app, image |-> deploys[m].image, status |-> status]
        /\ deploys[m].status \in {"in_progress", "deleted"}
        /\ Recording(p) /\ ~(Recording(p)')
        /\ \A q \in Procs \ {p} : req'[q] = req[q]
    BY <1>1, <1>2, SettleIs
  <2>2. m = req[p].rec
    OBVIOUS
  <2> HIDE DEF m
  <2>3. QED  BY <2>1, <2>2
<1>4. deploys[n].status = "in_progress"
  BY <1>3 DEF LedgerInv, OwnersInv
<1>5. /\ \A d : d # n => (Switched(d)' <=> Switched(d))
      /\ Switched(n) <=> Switching(p)
      /\ \A d : d = n => ~(Switched(d)')
  BY <1>1, <1>3, OneSwitches DEF Switching
<1>6. /\ Switching(p) <=> step # "settleFailed"
      /\ step = "settleLate" => "log" \in Faults
  BY <1>2, <1>3 DEF DeploySettle, At, Switching, SwitchedSteps, LedgerInv, LateInv
<1>7. /\ deploys'[n].app = deploys[n].app /\ deploys'[n].image = deploys[n].image
      /\ deploys'[n].status = status
  BY <1>3, <1>4
<1>8. \A d \in DOMAIN deploys : Stage(d)' = IF d = n THEN status ELSE Stage(d)
  BY <1>3, <1>5, <1>7 DEF Stage
<1>9. LedgerSeen' = [LedgerSeen EXCEPT ![n].status = status]
  BY <1>1, <1>3, <1>7, <1>8, EntryMoves
<1>10. /\ n \in DOMAIN LedgerSeen
       /\ LedgerSeen[n].status = IF step = "settleFailed" THEN "in_progress" ELSE "switched"
  BY <1>1, <1>4, <1>5, <1>6 DEF LedgerSeen, EntriesAre, Stage
<1>11. UNCHANGED ImageSeen
  BY <1>2 DEF DeploySettle, ImageSeen
<1>12. QED  BY <1>2, <1>6, <1>9, <1>10, <1>11 DEF Moved

LEMMA StillStep ==
    ASSUME LedgerInv, LedgerInv', ImagesKept, UNCHANGED deploys, SwitchesKept
    PROVE  UNCHANGED <<ImageSeen, LedgerSeen>>
BY ImageSeenStays, LedgerSeenStays DEF LedgerInv

\* What a step is to the ledger.
LedgerStep ==
    \/ UNCHANGED <<ImageSeen, LedgerSeen>>
    \/ \E a \in Apps, i \in Images :
         /\ {d \in DOMAIN LedgerSeen : /\ LedgerSeen[d].app = a
                                       /\ LedgerSeen[d].status \in {"in_progress", "switched"}} = {}
         /\ LedgerSeen' = Append(LedgerSeen, [app |-> a, image |-> i, status |-> "in_progress"])
         /\ UNCHANGED ImageSeen
    \/ \E d : /\ Moved(d, "in_progress", "switched")
              /\ ImageSeen' = [ImageSeen EXCEPT ![LedgerSeen[d].app] = LedgerSeen[d].image]
    \/ /\ \E d : \/ Moved(d, "switched", "succeeded") \/ Moved(d, "in_progress", "failed")
                 \/ "log" \in Faults /\ Moved(d, "switched", "failed")
       /\ UNCHANGED ImageSeen

LEMMA StepToLedger ==
    ASSUME ReadUnderLock, Undeleted, Undropped, LedgerInv, LedgerInv',
           NEW p \in Procs, Step(p) \/ LockApp(p) \/ Hang(p)
    PROVE  LedgerStep
<1>1. CASE Switches(p)
  BY <1>1, SwitchStep DEF LedgerStep, ReadUnderLock, LockedOnly
<1>2. CASE DeploySucceeds(p) \/ DeployFails(p)
  BY <1>2, SettleStep DEF LedgerStep, ReadUnderLock, LockedOnly
<1>3. CASE DeployInsert(p) /\ ~(Finish(p) /\ UNCHANGED deploys)
  BY <1>3, BeginStep DEF LedgerStep
<1>4. CASE /\ ~Switches(p) /\ ~DeploySucceeds(p) /\ ~DeployFails(p) /\ ~LateFails(p)
           /\ DeployInsert(p) => UNCHANGED deploys
  <2>1. ~DeleteRecords(p)
    BY LocklessNever DEF Lockless, Deletes, LockedOnly, ReadUnderLock, LedgerInv
  <2>2. UNCHANGED deploys
    BY <1>4, <2>1, RecordsChange
  <2>3. ImagesKept
    BY <1>4, RowsSaved, KeptImages DEF LedgerInv
  <2>4. QED
    BY <1>4, <2>2, <2>3, SwitchingStays, StillStep DEF LedgerStep, LedgerInv
<1>5. QED  BY <1>1, <1>2, <1>3, <1>4 DEF LateFails, DeployFails

LEMMA NextToLedger ==
    ReadUnderLock /\ Undeleted /\ Undropped /\ LedgerInv /\ LedgerInv' /\ [Next]_vars => LedgerStep
<1> SUFFICES ASSUME ReadUnderLock, Undeleted, Undropped, LedgerInv, LedgerInv', [Next]_vars
             PROVE  LedgerStep
  OBVIOUS
<1>1. ASSUME NEW p \in Procs, Arrive(p) PROVE LedgerStep
  <2>1. ImagesKept /\ UNCHANGED deploys
    BY <1>1 DEF Arrive, ImagesKept
  <2>2. QED  BY <1>1, <2>1, ArriveSwitching, StillStep DEF LedgerStep, LedgerInv
<1>2. ASSUME UNCHANGED <<row, deploys, req>> PROVE LedgerStep
  <2>1. ImagesKept
    BY <1>2 DEF ImagesKept
  <2>2. SwitchesKept
    BY <1>2 DEF SwitchesKept, Switching, Recording, Is, App
  <2>3. QED  BY <1>2, <2>1, <2>2, StillStep DEF LedgerStep
<1>3. QED
  BY <1>1, <1>2, StepToLedger DEF Next, vars, HelperExits, DaemonRestart, Cancel, Undropped

(* Deploys, starts, stops and restarts, each in several steps beside the    *)
(* others, do to images and history what DeployLedger's one-step deploys    *)
(* do: one deploy of an app at a time, the image changed by deploys only,   *)
(* and every deploy settled by what it did; one that changed the image      *)
(* fails only where its log cannot be written.  The hypotheses are those of *)
(* LastDeployIsRecorded, and that the rows stay: the ledger has an image    *)
(* for every app.                                                           *)
THEOREM LifecycleImplementsLedger ==
    ASSUME LockedOnly, Undropped, "nightly" \notin Kinds
    PROVE  Spec => ImplementsLedger
<1>1. Init => Ledger!Init
  <2> SUFFICES ASSUME Init PROVE Ledger!Init
    OBVIOUS
  <2>1. ImageSeen = [a \in Apps |-> None]
    BY DEF Init, ImageSeen
  <2>2. LedgerSeen = << >>
    BY DEF Init, LedgerSeen
  <2>3. QED  BY <2>1, <2>2 DEF Ledger!Init, ImageSeen, LedgerSeen, EntrySeen
<1>2. LedgerStep => [Ledger!Next]_(Ledger!lvars)
  <2> USE DEF Ledger!Next, Ledger!lvars, ImageSeen, LedgerSeen, EntrySeen
  <2>1. CASE UNCHANGED <<ImageSeen, LedgerSeen>>
    BY <2>1
  <2>2. ASSUME NEW a \in Apps, NEW i \in Images,
               {d \in DOMAIN LedgerSeen : /\ LedgerSeen[d].app = a
                                          /\ LedgerSeen[d].status \in {"in_progress", "switched"}} = {},
               LedgerSeen' = Append(LedgerSeen, [app |-> a, image |-> i, status |-> "in_progress"]),
               UNCHANGED ImageSeen
        PROVE  Ledger!Next
    BY <2>2 DEF Ledger!Begin, Ledger!Active
  <2>3. ASSUME NEW d, Moved(d, "in_progress", "switched"),
               ImageSeen' = [ImageSeen EXCEPT ![LedgerSeen[d].app] = LedgerSeen[d].image]
        PROVE  Ledger!Next
    BY <2>3 DEF Ledger!Switch, Ledger!Move, Moved
  <2>4. ASSUME NEW d, \/ Moved(d, "switched", "succeeded") \/ Moved(d, "in_progress", "failed")
                      \/ "log" \in Faults /\ Moved(d, "switched", "failed"),
               UNCHANGED ImageSeen
        PROVE  Ledger!Next
    BY <2>4 DEF Ledger!Succeed, Ledger!FailDeploy, Ledger!Move, Moved
  <2>5. QED  BY <2>1, <2>2, <2>3, <2>4 DEF LedgerStep
<1>3. QED
  BY <1>1, <1>2, InitLedger, NextLedger, NextToLedger, PTL
     DEF Spec, ReadUnderLock, LockedOnly, ImplementsLedger, Ledger!Spec

=============================================================================
