------------------------- MODULE AppLifecycleProofs -------------------------
(***************************************************************************)
(* Proofs about AppLifecycle, for every set of apps, images, request       *)
(* slots, request kinds and faults.                                        *)
(***************************************************************************)
EXTENDS AppLifecycle, TLAPS

DeploySteps == {"exists", "find", "insert", "pull", "halt", "remove",
                "setDeployed", "settleOk", "settleFailed", "settleLate"}
RecordedSteps == StartSteps \cup
    {"pull", "halt", "remove", "setDeployed", "sync", "syncHung", "settleOk", "settleFailed",
     "settleLate"}

\* What a request in flight has read and computed by the step it is at.
RequestOK(r) ==
    /\ r.pc = "idle" => r.rec = 0
    /\ r.pc # "idle" => r.app \in Apps /\ r.kind \in RequestKinds
    /\ r.kind = "deploy" => r.image \in Images
    /\ r.pc \in DeploySteps => r.kind = "deploy"
    /\ r.pc \in StartSteps => /\ r.image \in Images
                              /\ r.kind \in {"deploy", "start", "restart", "nightly"}
                              /\ r.kind # "deploy" => r.snap \in Row
    /\ r.pc = "save" => r.kind \in {"start", "restart", "nightly"} /\ r.snap \in Row
    /\ r.pc = "acquire" => r.kind \in {"deploy", "start", "stop", "restart"}
    /\ r.pc = "startFind" => r.kind \in {"start", "restart"}
    /\ r.pc = "stopFind" => r.kind \in {"stop", "restart"}
    /\ r.pc = "saveStopped" => r.kind \in {"stop", "restart"} /\ r.snap \in Row
    /\ r.pc = "stopCtr" => /\ r.kind \in {"stop", "restart", "nightly", "delete"}
                           /\ r.kind # "delete" => r.snap \in Row
                           /\ r.kind = "nightly" => r.image \in Images
    /\ r.pc \in {"list", "live", "tryLock", "recheck"} => r.kind = "nightly"
    /\ r.pc \in {"live", "tryLock", "recheck"} => r.snap \in Row
    /\ r.pc \in {"editRead", "editSave"} => r.kind = "edit"
    /\ r.pc = "editSave" => r.snap \in Row
    /\ r.pc \in {"deleteFind", "deleteRecords", "deleteRow"} => r.kind = "delete"
    /\ r.pc \in {"sync", "syncHung"} => r.kind \in RequestKinds \ {"nightly"}

RecordOK(r) == r.kind = "deploy" /\ r.pc \in RecordedSteps => r.rec \in 1..Len(deploys)

RequestsOK == \A p \in Procs : RequestOK(req[p]) /\ RecordOK(req[p])

TInv == TypeOK /\ RequestsOK

\* The deploy table keeps its length or grows.
DeploysGrow == deploys' \in Seq(Deploy) /\ Len(deploys') >= Len(deploys)

\* The part of TInv' that a step of a request has to establish.
ReqInv == /\ lock \in [Apps -> Procs \cup {None}]
          /\ req \in [Procs -> Request]
          /\ RequestsOK

LEMMA NoRequestOK == NoRequest \in Request /\ RequestOK(NoRequest) /\ NoRequest.kind = None
<1>1. NoRequest \in Request
  BY DEF NoRequest, Request, Steps
<1>2. None \notin {"deploy", "nightly"}
  BY NoneAssumption DEF RequestKinds, LockedKinds
<1>3. RequestOK(NoRequest)
  BY <1>2 DEF NoRequest, RequestOK, DeploySteps, StartSteps
<1>4. QED  BY <1>1, <1>3 DEF NoRequest

LEMMA InitTInv == Init => TInv
<1> SUFFICES ASSUME Init PROVE TInv
  OBVIOUS
<1>1. TypeOK
  BY NoRequestOK DEF Init, TypeOK, Row
<1>2. RequestsOK
  BY NoRequestOK DEF Init, RequestsOK, RecordOK, NoRequest, RecordedSteps, StartSteps
<1>3. QED  BY <1>1, <1>2 DEF TInv

(* One request changes, the others keep theirs. *)
LEMMA ReqUpdate ==
    ASSUME TInv, NEW p \in Procs, NEW r \in Request, DeploysGrow,
           req' = [req EXCEPT ![p] = r], RequestOK(r),
           r.kind = "deploy" /\ r.pc \in RecordedSteps => r.rec \in 1..Len(deploys')
    PROVE  req' \in [Procs -> Request] /\ RequestsOK'
<1>1. req' \in [Procs -> Request]
  BY DEF TInv, TypeOK
<1>2. ASSUME NEW q \in Procs PROVE (RequestOK(req[q]) /\ RecordOK(req[q]))'
  <2>1. CASE q = p
    BY <2>1 DEF TInv, TypeOK, RequestOK, RecordOK
  <2>2. CASE q # p
    <3>1. req'[q] = req[q] /\ RequestOK(req[q]) /\ RecordOK(req[q])
      BY <2>2 DEF TInv, TypeOK, RequestsOK
    <3>2. Len(deploys) \in Nat /\ Len(deploys') \in Nat
      BY DEF TInv, TypeOK, DeploysGrow
    <3>3. QED  BY <3>1, <3>2 DEF RequestOK, RecordOK, DeploysGrow, TInv, TypeOK
  <2>3. QED  BY <2>1, <2>2
<1>3. QED  BY <1>1, <1>2 DEF RequestsOK

LEMMA FinishReq ==
    ASSUME TInv, NEW p \in Procs, Finish(p), DeploysGrow
    PROVE  ReqInv'
<1>1. lock' \in [Apps -> Procs \cup {None}]
  BY DEF Finish, TInv, TypeOK
<1>2. NoRequest.kind # "deploy"
  BY NoneAssumption, NoRequestOK DEF RequestKinds, LockedKinds
<1>3. req' = [req EXCEPT ![p] = NoRequest]
  BY DEF Finish
<1>4. QED  BY <1>1, <1>2, <1>3, NoRequestOK, ReqUpdate DEF ReqInv

LEMMA ContinueReq ==
    ASSUME TInv, NEW p \in Procs, NEW step \in Steps, Continue(p, step), DeploysGrow,
           RequestOK([req[p] EXCEPT !.pc = step]), req[p].kind = "deploy" /\ step \in RecordedSteps => req[p].pc \in RecordedSteps
    PROVE  ReqInv'
<1> DEFINE r == [req[p] EXCEPT !.pc = step]
<1>1. lock' \in [Apps -> Procs \cup {None}]
  BY DEF Continue, TInv, TypeOK
<1>2. req[p] \in Request /\ RecordOK(req[p])
  BY DEF TInv, TypeOK, RequestsOK
<1>3. r \in Request /\ r.kind = req[p].kind /\ r.pc = step /\ r.rec = req[p].rec
  BY <1>2 DEF Request
<1>4. req' = [req EXCEPT ![p] = r]
  BY DEF Continue, Goto, TInv, TypeOK
<1>5. r.kind = "deploy" /\ r.pc \in RecordedSteps => r.rec \in 1..Len(deploys')
  BY <1>2, <1>3 DEF RecordOK, DeploysGrow, TInv, TypeOK
<1>6. QED
  <2> HIDE DEF r
  <2> QED  BY <1>1, <1>3, <1>4, <1>5, ReqUpdate DEF ReqInv, r

LEMMA FailReq ==
    ASSUME TInv, NEW p \in Procs, Fail(p), DeploysGrow,
           req[p].kind = "deploy" => req[p].pc \in RecordedSteps
    PROVE  ReqInv'
<1>1. CASE req[p].kind # "deploy"
  BY <1>1, FinishReq DEF Fail, Is
<1>2. CASE req[p].kind = "deploy"
  <2>1. req[p] \in Request /\ RequestOK(req[p]) /\ "settleFailed" \in Steps
    BY DEF TInv, TypeOK, RequestsOK, Steps
  <2>2. RequestOK([req[p] EXCEPT !.pc = "settleFailed"])
    BY <1>2, <2>1 DEF RequestOK, Request, StartSteps, DeploySteps, RecordedSteps
  <2>3. QED  BY <1>2, <2>1, <2>2, ContinueReq DEF Fail, Is
<1>3. QED  BY <1>1, <1>2

LEMMA StartedReq ==
    ASSUME TInv, NEW p \in Procs, Started(p), DeploysGrow, req[p].pc \in StartSteps
    PROVE  ReqInv'
<1> DEFINE step == IF Is(p, "deploy") THEN "setDeployed" ELSE "save"
<1>1. req[p] \in Request /\ RequestOK(req[p]) /\ step \in Steps
  BY DEF TInv, TypeOK, RequestsOK, Steps
<1>2. RequestOK([req[p] EXCEPT !.pc = step])
  BY <1>1 DEF RequestOK, Request, StartSteps, DeploySteps, Is
<1>3. req[p].pc \in RecordedSteps /\ Continue(p, step)
  BY DEF RecordedSteps, Started
<1>4. QED
  <2> HIDE DEF step
  <2> QED  BY <1>1, <1>2, <1>3, ContinueReq

LEMMA KeepDeploys == ASSUME TInv, UNCHANGED deploys PROVE DeploysGrow
BY DEF TInv, TypeOK, DeploysGrow

\* The moves of a request from one step to another that keep the rest of it.
Edge(r, step) ==
    \/ <<r.pc, step>> \in {<<"exists", "acquire">>, <<"find", "insert">>, <<"pull", "halt">>,
          <<"halt", "remove">>, <<"remove", "initCreate">>, <<"initCreate", "initStart">>,
          <<"initStart", "initWait">>, <<"initWait", "verify">>, <<"verify", "create">>,
          <<"create", "boot">>, <<"setDeployed", "sync">>, <<"live", "tryLock">>,
          <<"tryLock", "recheck">>, <<"deleteFind", "stopCtr">>,
          <<"deleteRecords", "deleteRow">>, <<"saveStopped", "sync">>, <<"editSave", "sync">>,
          <<"deleteRow", "sync">>, <<"sync", "syncHung">>, <<"pull", "hung">>,
          <<"initCreate", "hung">>}
    \/ r.pc = "recheck" /\ step = "stopCtr" /\ r.image # None
    \/ r.pc = "save" /\ step = "sync" /\ r.kind # "nightly"
    \/ r.pc = "sync" /\ step \in {"settleOk", "settleLate"} /\ r.kind = "deploy"
    \/ r.pc = "sync" /\ step = "startFind" /\ r.kind = "restart"
    \/ /\ r.pc = "stopCtr"
       /\ step = CASE r.kind = "nightly" -> "initCreate"
                   [] r.kind = "delete" -> "deleteRecords"
                   [] OTHER -> "saveStopped"
    \/ /\ r.pc = "acquire"
       /\ step = CASE r.kind = "deploy" -> "find"
                   [] r.kind = "start" -> "startFind"
                   [] OTHER -> "stopFind"

LEMMA EdgeOK ==
    ASSUME NEW r \in Request, RequestOK(r), NEW step, Edge(r, step)
    PROVE  /\ step \in Steps
           /\ RequestOK([r EXCEPT !.pc = step])
           /\ r.kind = "deploy" /\ step \in RecordedSteps => r.pc \in RecordedSteps
<1>1. step \in Steps
  BY DEF Edge, Steps, StartSteps, UnlockedSteps
<1>2. RequestOK([r EXCEPT !.pc = step])
  BY DEF Edge, RequestOK, Request, StartSteps, DeploySteps, RequestKinds, LockedKinds
<1>3. r.kind = "deploy" /\ step \in RecordedSteps => r.pc \in RecordedSteps
  BY DEF Edge, RequestOK, StartSteps, RecordedSteps
<1>4. QED  BY <1>1, <1>2, <1>3

LEMMA EdgeReq ==
    ASSUME TInv, NEW p \in Procs, NEW step, Edge(req[p], step), DeploysGrow, Continue(p, step)
    PROVE  ReqInv'
<1>1. req[p] \in Request /\ RequestOK(req[p])
  BY DEF TInv, TypeOK, RequestsOK
<1>2. QED  BY <1>1, EdgeOK, ContinueReq

(* A request takes the lock of its app on the way to its next step. *)
LEMMA EnterReq ==
    ASSUME TInv, NEW p \in Procs, NEW step, Edge(req[p], step), DeploysGrow,
           Goto(p, step), lock' = [lock EXCEPT ![App(p)] = p]
    PROVE  ReqInv'
<1> DEFINE r == [req[p] EXCEPT !.pc = step]
<1>1. req[p] \in Request /\ RequestOK(req[p]) /\ RecordOK(req[p])
  BY DEF TInv, TypeOK, RequestsOK
<1>2. lock' \in [Apps -> Procs \cup {None}]
  BY DEF TInv, TypeOK
<1>3. /\ step \in Steps /\ RequestOK(r)
      /\ req[p].kind = "deploy" /\ step \in RecordedSteps => req[p].pc \in RecordedSteps
  BY <1>1, EdgeOK
<1>4. r \in Request /\ r.kind = req[p].kind /\ r.pc = step /\ r.rec = req[p].rec
  BY <1>1, <1>3 DEF Request
<1>5. req' = [req EXCEPT ![p] = r]
  BY DEF Goto, TInv, TypeOK
<1>6. r.kind = "deploy" /\ r.pc \in RecordedSteps => r.rec \in 1..Len(deploys')
  BY <1>1, <1>3, <1>4 DEF RecordOK, DeploysGrow, TInv, TypeOK
<1>7. QED
  <2> HIDE DEF r
  <2> QED  BY <1>2, <1>3, <1>4, <1>5, <1>6, ReqUpdate DEF ReqInv

LEMMA DeployInv ==
    ASSUME TInv, NEW p \in Procs,
           \/ DeployExists(p) \/ DeployFind(p) \/ DeployInsert(p) \/ DeployPull(p)
           \/ DeployHalt(p) \/ DeployRemove(p) \/ SetDeployed(p)
           \/ Sync(p) \/ DeploySucceeds(p) \/ DeployFails(p) \/ Hang(p)
    PROVE  TInv'
<1> USE DEF At, App
<1>1. req[p] \in Request /\ RequestOK(req[p]) /\ RecordOK(req[p]) /\ deploys \in Seq(Deploy)
  BY DEF TInv, TypeOK, RequestsOK
<1>2. CASE DeployExists(p)
  <2>1. ReqInv'
    BY <1>2, FinishReq, EdgeReq, KeepDeploys DEF DeployExists, Edge
  <2>2. QED  BY <1>2, <2>1 DEF DeployExists, TInv, TypeOK, ReqInv
<1>3. CASE DeployFind(p)
  <2>1. ReqInv'
    BY <1>3, FinishReq, EdgeReq, KeepDeploys DEF DeployFind, Edge
  <2>2. QED  BY <1>3, <2>1 DEF DeployFind, TInv, TypeOK, ReqInv
<1>4. CASE DeployInsert(p)
  <2>1. CASE row[App(p)] = None
    <3>1. ReqInv' /\ UNCHANGED deploys
      BY <1>4, <2>1, FinishReq, KeepDeploys DEF DeployInsert
    <3>2. QED  BY <1>4, <3>1 DEF DeployInsert, TInv, TypeOK, ReqInv
  <2>2. CASE row[App(p)] # None
    <3> DEFINE r == [req[p] EXCEPT !.pc = "pull", !.rec = Len(deploys) + 1]
               d == [app |-> App(p), image |-> req[p].image, status |-> "in_progress"]
    <3>1. d \in Deploy
      BY <1>1, <1>4 DEF DeployInsert, Deploy, RequestOK, DeploySteps
    <3>2. deploys' = Append(deploys, d)
      BY <1>4, <2>2 DEF DeployInsert
    <3>3. deploys' \in Seq(Deploy) /\ Len(deploys') = Len(deploys) + 1 /\ Len(deploys) \in Nat
      <4> HIDE DEF d
      <4> QED  BY <1>1, <3>1, <3>2
    <3>4. r \in Request /\ r.pc = "pull" /\ r.kind = "deploy" /\ r.rec = Len(deploys) + 1
      <4> HIDE DEF d
      <4>1. Len(deploys) + 1 \in Nat
        BY <3>3
      <4>2. req[p].kind = "deploy" /\ "pull" \in Steps
        BY <1>1, <1>4 DEF DeployInsert, RequestOK, DeploySteps, Steps
      <4>3. QED  BY <1>1, <4>1, <4>2 DEF Request
    <3>5. RequestOK(r)
      BY <1>1, <1>4, <3>4 DEF DeployInsert, RequestOK, DeploySteps, StartSteps, Request
    <3>6. req' = [req EXCEPT ![p] = r]
      BY <1>1, <1>4, <2>2 DEF DeployInsert, Request, TInv, TypeOK
    <3>7. req' \in [Procs -> Request] /\ RequestsOK'
      <4> HIDE DEF r, d
      <4>1. DeploysGrow /\ r.rec \in 1..Len(deploys')
        BY <3>3, <3>4 DEF DeploysGrow
      <4>2. QED  BY <4>1, <3>4, <3>5, <3>6, ReqUpdate
    <3>8. QED  BY <1>4, <2>2, <3>3, <3>7 DEF DeployInsert, TInv, TypeOK
  <2>3. QED  BY <2>1, <2>2
<1>5. CASE DeployPull(p)
  <2>1. ReqInv'
    BY <1>5, FailReq, EdgeReq, KeepDeploys DEF DeployPull, Edge, RecordedSteps
  <2>2. QED  BY <1>5, <2>1 DEF DeployPull, TInv, TypeOK, ReqInv
<1>6. CASE DeployHalt(p)
  <2>1. ReqInv'
    BY <1>6, FailReq, EdgeReq, KeepDeploys DEF DeployHalt, Edge, RecordedSteps
  <2>2. QED  BY <1>6, <2>1 DEF DeployHalt, StopMatching, Running, Container, TInv, TypeOK, ReqInv
<1>7. CASE DeployRemove(p)
  <2>1. ReqInv'
    BY <1>7, FailReq, EdgeReq, KeepDeploys DEF DeployRemove, Edge, RecordedSteps
  <2>2. QED  BY <1>7, <2>1 DEF DeployRemove, TInv, TypeOK, ReqInv
<1>8. CASE SetDeployed(p)
  <2>1. ReqInv'
    BY <1>8, FailReq, EdgeReq, KeepDeploys DEF SetDeployed, Edge, RecordedSteps
  <2>2. req[p].image \in Images
    BY <1>1, <1>8 DEF SetDeployed, RequestOK, DeploySteps
  <2>3. row' \in [Apps -> Row \cup {None}]
    <3>1. CASE row[App(p)] = None \/ UNCHANGED row
      BY <1>8, <3>1 DEF SetDeployed, TInv, TypeOK
    <3>2. CASE row[App(p)] # None /\ ~UNCHANGED row
      <4> DEFINE r == [row[App(p)] EXCEPT !.state = "running", !.image = req[p].image]
      <4>1. row[App(p)] \in Row
        BY <1>1, <1>8, <3>2 DEF SetDeployed, RequestOK, TInv, TypeOK
      <4>2. r \in Row
        BY <2>2, <4>1 DEF Row
      <4>3. row' = [row EXCEPT ![App(p)] = r]
        BY <1>1, <1>8, <3>2, <4>1 DEF SetDeployed, TInv, TypeOK, Row, RequestOK
      <4>4. QED
        <5> HIDE DEF r
        <5> QED  BY <4>2, <4>3 DEF TInv, TypeOK
    <3>3. QED  BY <3>1, <3>2
  <2>4. QED  BY <1>8, <2>1, <2>3 DEF SetDeployed, TInv, TypeOK, ReqInv
<1>9. ASSUME NEW step \in {"settleOk", "settleFailed", "settleLate"}, NEW status \in {"succeeded", "failed"},
             DeploySettle(p, step, status)
      PROVE  TInv'
  <2>1. req[p].rec \in 1..Len(deploys)
    BY <1>1, <1>9 DEF DeploySettle, RequestOK, RecordOK, DeploySteps, RecordedSteps
  <2>2. deploys[req[p].rec] \in Deploy
    BY <1>1, <2>1
  <2>3. [deploys[req[p].rec] EXCEPT !.status = status] \in Deploy
    BY <2>2 DEF Deploy
  <2>4. DeploysGrow
    BY <1>1, <1>9, <2>1, <2>3 DEF DeploySettle, DeploysGrow
  <2>5. ReqInv'
    BY <1>9, <2>4, FinishReq DEF DeploySettle
  <2>6. QED  BY <1>9, <2>4, <2>5 DEF DeploySettle, DeploysGrow, TInv, TypeOK, ReqInv
<1>10. CASE Sync(p)
  <2>1. ReqInv'
    BY <1>10, FinishReq, EdgeReq, KeepDeploys DEF Sync, Edge, Is
  <2>2. QED  BY <1>10, <2>1 DEF Sync, TInv, TypeOK, ReqInv
<1>11. CASE Hang(p)
  <2>1. ReqInv'
    BY <1>11, EdgeReq, KeepDeploys DEF Hang, Edge
  <2>2. QED  BY <1>11, <2>1 DEF Hang, TInv, TypeOK, ReqInv
<1>12. QED
  BY <1>2, <1>3, <1>4, <1>5, <1>6, <1>7, <1>8, <1>9, <1>10, <1>11 DEF DeploySucceeds, DeployFails

LEMMA StartContainerInv ==
    ASSUME TInv, NEW p \in Procs,
           \/ InitCreate(p) \/ InitStart(p) \/ InitWait(p)
           \/ VerifySingleWriter(p) \/ RunCreate(p) \/ RunBoot(p)
    PROVE  TInv'
<1> USE DEF At, App
<1>1. req[p] \in Request /\ RequestOK(req[p]) /\ DeploysGrow
  BY KeepDeploys DEF TInv, TypeOK, RequestsOK, InitCreate, InitStart, InitWait,
                     VerifySingleWriter, RunCreate, RunBoot
<1>2. /\ req[p].pc \in StartSteps
      /\ req[p].pc \in RecordedSteps
      /\ req[p].image \in Images /\ req[p].app \in Apps
  BY <1>1 DEF StartSteps, RecordedSteps, RequestOK, InitCreate, InitStart, InitWait,
              VerifySingleWriter, RunCreate, RunBoot
<1>3. CASE InitCreate(p)
  <2>1. ReqInv'
    BY <1>1, <1>2, <1>3, FailReq, EdgeReq DEF InitCreate, Edge
  <2>2. QED  BY <1>3, <2>1 DEF InitCreate, TInv, TypeOK, ReqInv
<1>4. CASE InitStart(p)
  <2>1. ReqInv'
    BY <1>1, <1>2, <1>4, FailReq, EdgeReq DEF InitStart, Edge
  <2>2. QED  BY <1>4, <2>1 DEF InitStart, TInv, TypeOK, ReqInv
<1>5. CASE InitWait(p)
  <2>1. ReqInv'
    BY <1>1, <1>2, <1>5, FailReq, EdgeReq DEF InitWait, Edge
  <2>2. QED  BY <1>5, <2>1 DEF InitWait, TInv, TypeOK, ReqInv
<1>6. CASE VerifySingleWriter(p)
  <2>1. ReqInv'
    BY <1>1, <1>2, <1>6, FailReq, EdgeReq DEF VerifySingleWriter, Edge
  <2>2. QED  BY <1>6, <2>1 DEF VerifySingleWriter, TInv, TypeOK, ReqInv
<1>7. CASE RunCreate(p)
  <2>1. ReqInv'
    BY <1>1, <1>2, <1>7, FailReq, StartedReq, EdgeReq DEF RunCreate, Edge
  <2>2. ctr' \in [Apps -> Container \cup {None}]
    BY <1>2, <1>7 DEF RunCreate, TInv, TypeOK, Container
  <2>3. QED  BY <1>7, <2>1, <2>2 DEF RunCreate, TInv, TypeOK, ReqInv
<1>8. CASE RunBoot(p)
  <2>1. ReqInv'
    BY <1>1, <1>2, <1>8, FailReq, StartedReq DEF RunBoot
  <2>2. ctr' \in [Apps -> Container \cup {None}]
    BY <1>2, <1>8 DEF RunBoot, TInv, TypeOK, Container
  <2>3. QED  BY <1>8, <2>1, <2>2 DEF RunBoot, TInv, TypeOK, ReqInv
<1>9. QED  BY <1>3, <1>4, <1>5, <1>6, <1>7, <1>8

(* A request goes on with a row it has just read. *)
LEMMA ReadReq ==
    ASSUME TInv, NEW p \in Procs, NEW r \in Request, UNCHANGED <<deploys, lock>>,
           req' = [req EXCEPT ![p] = r], RequestOK(r), r.kind # "deploy"
    PROVE  ReqInv'
<1>1. lock' \in [Apps -> Procs \cup {None}]
  BY DEF TInv, TypeOK
<1>2. QED  BY <1>1, KeepDeploys, ReqUpdate DEF ReqInv

LEMMA SaveRowOK ==
    ASSUME TInv, NEW p \in Procs, NEW r \in Row, SaveRow(p, r)
    PROVE  row' \in [Apps -> Row \cup {None}]
BY DEF SaveRow, TInv, TypeOK

LEMMA StartInv ==
    ASSUME TInv, NEW p \in Procs, StartFind(p) \/ SaveRunning(p)
    PROVE  TInv'
<1> USE DEF At, App
<1>1. req[p] \in Request /\ RequestOK(req[p])
  BY DEF TInv, TypeOK, RequestsOK
<1>2. CASE StartFind(p) /\ Startable(row[App(p)])
  <2> DEFINE w == row[App(p)]
             r == [req[p] EXCEPT !.pc = "initCreate", !.image = w.image, !.snap = w]
  <2>1. w \in Row /\ w.image \in Images
    BY <1>1, <1>2 DEF StartFind, Startable, RequestOK, Row, TInv, TypeOK
  <2>2. req[p].kind \in {"start", "restart"} /\ req[p].app \in Apps
    BY <1>1, <1>2 DEF StartFind, RequestOK
  <2>3. /\ r \in Request /\ r.pc = "initCreate" /\ r.kind = req[p].kind /\ r.rec = req[p].rec
        /\ r.image = w.image /\ r.snap = w /\ r.app = req[p].app
    <3> HIDE DEF w
    <3> QED  BY <1>1, <2>1 DEF Request, Steps, StartSteps
  <2>4. RequestOK(r)
    <3> HIDE DEF r, w
    <3> QED  BY <2>1, <2>2, <2>3 DEF RequestOK, DeploySteps, StartSteps, RequestKinds, LockedKinds
  <2>5. req' = [req EXCEPT ![p] = r] /\ UNCHANGED <<row, deploys, ctr, helper, lock>>
    BY <1>1, <1>2 DEF StartFind, TInv, TypeOK, Request
  <2>6. ReqInv'
    <3> HIDE DEF r, w
    <3> QED  BY <2>2, <2>3, <2>4, <2>5, ReadReq
  <2>7. QED  BY <2>5, <2>6 DEF TInv, TypeOK, ReqInv
<1>3. CASE StartFind(p) /\ ~Startable(row[App(p)])
  <2>1. Finish(p) /\ UNCHANGED <<row, deploys, ctr, helper>>
    BY <1>3 DEF StartFind
  <2>2. ReqInv'
    BY <2>1, FinishReq, KeepDeploys
  <2>3. QED  BY <2>1, <2>2 DEF TInv, TypeOK, ReqInv
<1>4. CASE SaveRunning(p)
  <2>1. [req[p].snap EXCEPT !.state = "running"] \in Row
    BY <1>1, <1>4 DEF SaveRunning, RequestOK, Row
  <2>2. row' \in [Apps -> Row \cup {None}]
    BY <1>4, <2>1, SaveRowOK DEF SaveRunning
  <2>3. ReqInv'
    BY <1>4, FinishReq, EdgeReq, KeepDeploys DEF SaveRunning, Edge, Is
  <2>4. QED  BY <1>4, <2>2, <2>3 DEF SaveRunning, TInv, TypeOK, ReqInv
<1>5. QED  BY <1>2, <1>3, <1>4

LEMMA StopInv ==
    ASSUME TInv, NEW p \in Procs, StopFind(p) \/ StopContainers(p) \/ SaveStopped(p)
    PROVE  TInv'
<1> USE DEF At, App
<1>1. req[p] \in Request /\ RequestOK(req[p])
  BY DEF TInv, TypeOK, RequestsOK
<1>2. CASE StopFind(p) /\ row[App(p)] = None
  <2>1. Finish(p) /\ UNCHANGED <<row, deploys, ctr, helper>>
    BY <1>2 DEF StopFind
  <2>2. ReqInv'
    BY <2>1, FinishReq, KeepDeploys
  <2>3. QED  BY <2>1, <2>2 DEF TInv, TypeOK, ReqInv
<1>3. CASE StopFind(p) /\ row[App(p)] # None
  <2> DEFINE w == row[App(p)]
             r == [req[p] EXCEPT !.pc = "stopCtr", !.snap = w]
  <2>1. w \in Row
    BY <1>1, <1>3 DEF StopFind, RequestOK, TInv, TypeOK
  <2>2. req[p].kind \in {"stop", "restart"} /\ req[p].app \in Apps
    BY <1>1, <1>3 DEF StopFind, RequestOK
  <2>3. /\ r \in Request /\ r.pc = "stopCtr" /\ r.kind = req[p].kind
        /\ r.snap = w /\ r.app = req[p].app
    <3> HIDE DEF w
    <3> QED  BY <1>1, <2>1 DEF Request, Steps
  <2>4. RequestOK(r)
    <3> HIDE DEF r, w
    <3> QED  BY <2>1, <2>2, <2>3 DEF RequestOK, DeploySteps, StartSteps, RequestKinds, LockedKinds
  <2>5. req' = [req EXCEPT ![p] = r] /\ UNCHANGED <<row, deploys, ctr, helper, lock>>
    BY <1>1, <1>3 DEF StopFind, TInv, TypeOK, Request
  <2>6. ReqInv'
    <3> HIDE DEF r, w
    <3> QED  BY <2>2, <2>3, <2>4, <2>5, ReadReq
  <2>7. QED  BY <2>5, <2>6 DEF TInv, TypeOK, ReqInv
<1>4. CASE StopContainers(p)
  <2>1. ReqInv'
    BY <1>4, FinishReq, EdgeReq, KeepDeploys DEF StopContainers, Edge, Is
  <2>2. ctr' \in [Apps -> Container \cup {None}]
    BY <1>4 DEF StopContainers, StopMatching, Running, Container, TInv, TypeOK
  <2>3. QED  BY <1>4, <2>1, <2>2 DEF StopContainers, TInv, TypeOK, ReqInv
<1>5. CASE SaveStopped(p)
  <2>1. [req[p].snap EXCEPT !.state = "stopped"] \in Row
    BY <1>1, <1>5 DEF SaveStopped, RequestOK, Row
  <2>2. row' \in [Apps -> Row \cup {None}]
    BY <1>5, <2>1, SaveRowOK DEF SaveStopped
  <2>3. ReqInv'
    BY <1>5, EdgeReq, KeepDeploys DEF SaveStopped, Edge
  <2>4. QED  BY <1>5, <2>2, <2>3 DEF SaveStopped, TInv, TypeOK, ReqInv
<1>6. QED  BY <1>2, <1>3, <1>4, <1>5

LEMMA NightlyInv ==
    ASSUME TInv, NEW p \in Procs,
           NightlyList(p) \/ NightlyLive(p) \/ TryLockApp(p) \/ NightlyRecheck(p)
    PROVE  TInv'
<1> USE DEF At, App
<1>1. req[p] \in Request /\ RequestOK(req[p])
  BY DEF TInv, TypeOK, RequestsOK
<1>2. CASE NightlyList(p) /\ row[App(p)] = None
  <2>1. Finish(p) /\ UNCHANGED <<row, deploys, ctr, helper>>
    BY <1>2 DEF NightlyList
  <2>2. ReqInv'
    BY <2>1, FinishReq, KeepDeploys
  <2>3. QED  BY <2>1, <2>2 DEF TInv, TypeOK, ReqInv
<1>3. CASE NightlyList(p) /\ row[App(p)] # None
  <2> DEFINE w == row[App(p)]
             r == [req[p] EXCEPT !.pc = "live", !.snap = w, !.image = w.image]
  <2>1. w \in Row /\ w.image \in Images \cup {None}
    BY <1>1, <1>3 DEF NightlyList, RequestOK, Row, TInv, TypeOK
  <2>2. req[p].kind = "nightly" /\ req[p].app \in Apps
    BY <1>1, <1>3 DEF NightlyList, RequestOK
  <2>3. /\ r \in Request /\ r.pc = "live" /\ r.kind = "nightly"
        /\ r.snap = w /\ r.app = req[p].app
    <3> HIDE DEF w
    <3> QED  BY <1>1, <2>1, <2>2 DEF Request, Steps, UnlockedSteps
  <2>4. RequestOK(r)
    <3> HIDE DEF r, w
    <3> QED  BY <2>1, <2>2, <2>3 DEF RequestOK, DeploySteps, StartSteps, RequestKinds, LockedKinds
  <2>5. req' = [req EXCEPT ![p] = r] /\ UNCHANGED <<row, deploys, ctr, helper, lock>>
    BY <1>1, <1>3 DEF NightlyList, TInv, TypeOK, Request
  <2>6. ReqInv'
    <3> HIDE DEF r, w
    <3> QED  BY <2>2, <2>3, <2>4, <2>5, ReadReq
  <2>7. QED  BY <2>5, <2>6 DEF TInv, TypeOK, ReqInv
<1>4. CASE NightlyLive(p)
  <2>1. ReqInv'
    BY <1>4, FinishReq, EdgeReq, KeepDeploys DEF NightlyLive, Edge
  <2>2. QED  BY <1>4, <2>1 DEF NightlyLive, TInv, TypeOK, ReqInv
<1>5. CASE TryLockApp(p)
  <2>1. CASE Finish(p)
    <3>1. ReqInv'
      BY <1>5, <2>1, FinishReq, KeepDeploys DEF TryLockApp
    <3>2. QED  BY <1>5, <3>1 DEF TryLockApp, TInv, TypeOK, ReqInv
  <2>2. CASE lock' = [lock EXCEPT ![App(p)] = p] /\ Goto(p, "recheck")
    <3>1. req[p].pc = "tryLock" /\ DeploysGrow
      BY <1>5, KeepDeploys DEF TryLockApp
    <3>2. QED  BY <1>1, <1>5, <2>2, <3>1, EnterReq DEF TryLockApp, Edge, TInv, TypeOK, ReqInv
  <2>3. QED  BY <1>5, <2>1, <2>2 DEF TryLockApp
<1>6. CASE NightlyRecheck(p)
  <2>1. ReqInv'
    BY <1>6, FinishReq, EdgeReq, KeepDeploys DEF NightlyRecheck, Edge
  <2>2. QED  BY <1>6, <2>1 DEF NightlyRecheck, TInv, TypeOK, ReqInv
<1>7. QED  BY <1>2, <1>3, <1>4, <1>5, <1>6

LEMMA EditInv ==
    ASSUME TInv, NEW p \in Procs, EditRead(p) \/ EditSave(p)
    PROVE  TInv'
<1> USE DEF At, App
<1>1. req[p] \in Request /\ RequestOK(req[p])
  BY DEF TInv, TypeOK, RequestsOK
<1>2. CASE EditRead(p) /\ Finish(p)
  <2>1. ReqInv'
    BY <1>2, FinishReq, KeepDeploys DEF EditRead
  <2>2. QED  BY <1>2, <2>1 DEF EditRead, TInv, TypeOK, ReqInv
<1>3. CASE EditRead(p) /\ ~Finish(p)
  <2> DEFINE w == row[App(p)]
             r == [req[p] EXCEPT !.pc = "editSave", !.snap = w]
  <2>1. w \in Row
    BY <1>1, <1>3 DEF EditRead, RequestOK, TInv, TypeOK
  <2>2. req[p].kind = "edit" /\ req[p].app \in Apps
    BY <1>1, <1>3 DEF EditRead, RequestOK
  <2>3. /\ r \in Request /\ r.pc = "editSave" /\ r.kind = "edit"
        /\ r.snap = w /\ r.app = req[p].app
    <3> HIDE DEF w
    <3> QED  BY <1>1, <2>1, <2>2 DEF Request, Steps
  <2>4. RequestOK(r)
    <3> HIDE DEF r, w
    <3> QED  BY <2>1, <2>2, <2>3 DEF RequestOK, DeploySteps, StartSteps, RequestKinds, LockedKinds
  <2>5. req' = [req EXCEPT ![p] = r] /\ UNCHANGED <<row, deploys, ctr, helper, lock>>
    BY <1>1, <1>3 DEF EditRead, TInv, TypeOK, Request
  <2>6. ReqInv'
    <3> HIDE DEF r, w
    <3> QED  BY <2>2, <2>3, <2>4, <2>5, ReadReq
  <2>7. QED  BY <2>5, <2>6 DEF TInv, TypeOK, ReqInv
<1>4. CASE EditSave(p)
  <2>1. \A s \in Settings : [req[p].snap EXCEPT !.cfg = s] \in Row
    BY <1>1, <1>4 DEF EditSave, RequestOK, Row
  <2>2. row' \in [Apps -> Row \cup {None}]
    BY <1>4, <2>1, SaveRowOK DEF EditSave
  <2>3. ReqInv'
    BY <1>4, EdgeReq, KeepDeploys DEF EditSave, Edge
  <2>4. QED  BY <1>4, <2>2, <2>3 DEF EditSave, TInv, TypeOK, ReqInv
<1>5. QED  BY <1>2, <1>3, <1>4

LEMMA DeleteInv ==
    ASSUME TInv, NEW p \in Procs, DeleteFind(p) \/ DeleteRecords(p) \/ DeleteRow(p)
    PROVE  TInv'
<1> USE DEF At, App
<1>1. CASE DeleteFind(p)
  <2>1. ReqInv'
    BY <1>1, FinishReq, EdgeReq, KeepDeploys DEF DeleteFind, Edge
  <2>2. QED  BY <1>1, <2>1 DEF DeleteFind, TInv, TypeOK, ReqInv
<1>2. CASE DeleteRecords(p)
  <2>1. deploys \in Seq(Deploy) /\ Len(deploys) \in Nat /\ DOMAIN deploys = 1..Len(deploys)
    BY DEF TInv, TypeOK
  <2>2. ASSUME NEW d \in DOMAIN deploys
        PROVE  [deploys[d] EXCEPT !.status = "deleted"] \in Deploy
    <3>1. deploys[d] \in Deploy
      BY <2>1
    <3>2. QED  BY <3>1 DEF Deploy
  <2>3. deploys' \in [1..Len(deploys) -> Deploy]
    BY <1>2, <2>1, <2>2 DEF DeleteRecords
  <2>4. deploys' \in Seq(Deploy) /\ Len(deploys') = Len(deploys)
    BY <2>1, <2>3
  <2>5. DeploysGrow
    BY <2>1, <2>4 DEF DeploysGrow
  <2>6. ReqInv'
    BY <1>2, <2>5, EdgeReq DEF DeleteRecords, Edge
  <2>7. QED  BY <1>2, <2>4, <2>6 DEF DeleteRecords, TInv, TypeOK, ReqInv
<1>3. CASE DeleteRow(p)
  <2>1. ReqInv'
    BY <1>3, FinishReq, EdgeReq, KeepDeploys DEF DeleteRow, Edge
  <2>2. row' \in [Apps -> Row \cup {None}]
    BY <1>3 DEF DeleteRow, TInv, TypeOK
  <2>3. QED  BY <1>3, <2>1, <2>2 DEF DeleteRow, TInv, TypeOK, ReqInv
<1>4. QED  BY <1>1, <1>2, <1>3

(* A new request: its fields are the ones its first step needs. *)
LEMMA ArriveInv ==
    ASSUME TInv, NEW p \in Procs, Arrive(p)
    PROVE  TInv'
<1>1. PICK kind \in Kinds, a \in Apps, i \in Images :
        req' = [req EXCEPT ![p] =
                  [NoRequest EXCEPT !.pc = FirstStep(kind), !.kind = kind, !.app = a,
                                    !.image = IF kind = "deploy" THEN i ELSE None]]
  BY DEF Arrive
<1> DEFINE r == [NoRequest EXCEPT !.pc = FirstStep(kind), !.kind = kind, !.app = a,
                                  !.image = IF kind = "deploy" THEN i ELSE None]
<1>2. kind \in RequestKinds
  BY KindsAssumption
<1>3. /\ r \in Request /\ r.pc = FirstStep(kind) /\ r.kind = kind /\ r.app = a
      /\ kind = "deploy" => r.image = i
  BY <1>2 DEF NoRequest, Request, Steps, UnlockedSteps, FirstStep
<1>4. /\ RequestOK(r)
      /\ r.pc \notin RecordedSteps
  <2> HIDE DEF r
  <2>1. FirstStep(kind) \in {"exists", "list", "editRead", "deleteFind", "acquire"}
    BY DEF FirstStep
  <2>2. /\ kind = "deploy" <=> FirstStep(kind) = "exists"
        /\ kind = "nightly" <=> FirstStep(kind) = "list"
        /\ kind = "edit" <=> FirstStep(kind) = "editRead"
        /\ kind = "delete" <=> FirstStep(kind) = "deleteFind"
    BY DEF FirstStep
  <2>3. RequestOK(r)
    BY <1>2, <1>3, <2>1, <2>2
       DEF RequestOK, DeploySteps, StartSteps, RequestKinds, LockedKinds
  <2>4. QED  BY <1>3, <2>1, <2>3 DEF RecordedSteps, StartSteps
<1>5. ReqInv'
  <2>1. req' = [req EXCEPT ![p] = r] /\ UNCHANGED <<deploys, lock>>
    BY <1>1 DEF Arrive
  <2> HIDE DEF r
  <2>2. lock' \in [Apps -> Procs \cup {None}]
    BY <2>1 DEF TInv, TypeOK
  <2>3. QED  BY <1>3, <1>4, <2>1, <2>2, KeepDeploys, ReqUpdate DEF ReqInv
<1>6. QED  BY <1>5 DEF Arrive, TInv, TypeOK, ReqInv

LEMMA LockAppInv ==
    ASSUME TInv, NEW p \in Procs, LockApp(p)
    PROVE  TInv'
<1> DEFINE step == CASE Is(p, "deploy") -> "find"
                     [] Is(p, "start") -> "startFind"
                     [] OTHER -> "stopFind"
<1>1. req[p].pc = "acquire" /\ Goto(p, step) /\ lock' = [lock EXCEPT ![App(p)] = p]
  BY DEF LockApp, At
<1>2. Edge(req[p], step)
  BY <1>1 DEF Edge, Is
<1>3. ReqInv'
  <2> HIDE DEF step
  <2>1. DeploysGrow
    BY KeepDeploys DEF LockApp
  <2>2. QED  BY <1>1, <1>2, <2>1, EnterReq
<1>4. QED  BY <1>3 DEF LockApp, TInv, TypeOK, ReqInv

LEMMA CancelInv ==
    ASSUME TInv, NEW p \in Procs, Cancel(p)
    PROVE  TInv'
<1>1. ReqInv'
  BY FinishReq, KeepDeploys DEF Cancel
<1>2. QED  BY <1>1 DEF Cancel, TInv, TypeOK, ReqInv

LEMMA EnvironmentInv ==
    ASSUME TInv, DaemonRestart \/ (\E a \in Apps : HelperExits(a)) \/ UNCHANGED vars
    PROVE  TInv'
<1>1. RequestsOK'
  BY DEF TInv, RequestsOK, RequestOK, RecordOK, DaemonRestart, HelperExits, vars
<1>2. CASE DaemonRestart
  BY <1>1, <1>2 DEF DaemonRestart, Container, TInv, TypeOK
<1>3. CASE \E a \in Apps : HelperExits(a)
  BY <1>1, <1>3 DEF HelperExits, TInv, TypeOK
<1>4. CASE UNCHANGED vars
  BY <1>1, <1>4 DEF vars, TInv, TypeOK
<1>5. QED  BY <1>2, <1>3, <1>4

LEMMA StepInv == ASSUME TInv, NEW p \in Procs, Step(p) PROVE TInv'
BY DeployInv, StartContainerInv, StartInv, StopInv, NightlyInv, EditInv, DeleteInv DEF Step

LEMMA NextTInv == TInv /\ [Next]_vars => TInv'
BY ArriveInv, LockAppInv, DeployInv, CancelInv, EnvironmentInv, StepInv DEF Next

(* Every variable keeps its type, and with it every request in flight has   *)
(* read by each of its steps what that step uses: no step of the handlers   *)
(* works with a row, an image or a deploy record it does not have.          *)
THEOREM TypeCorrect == Spec => []TypeOK
<1>1. Spec => []TInv
  BY InitTInv, NextTInv, PTL DEF Spec
<1>2. TInv => TypeOK
  BY DEF TInv
<1>3. QED  BY <1>1, <1>2, PTL

-----------------------------------------------------------------------------
(* The per-app lock *)

Outside == UnlockedSteps \cup {"idle"}

\* The lock of an app is held by exactly the request in the app's section:
\* the inductive form of OneOperationPerApp and LockFollowsHolder.
LockInv ==
    \A p \in Procs : \A a \in Apps : lock[a] = p <=> InSection(p) /\ App(p) = a

\* A step of p that takes no lock, releases none and stays inside or outside.
Quiet(p) ==
    /\ UNCHANGED lock
    /\ \A q \in Procs \ {p} : req'[q] = req[q]
    /\ req'[p].kind = req[p].kind /\ req'[p].app = req[p].app
    /\ req'[p].pc \in Outside <=> req[p].pc \in Outside

\* A step of p that enters the section of an app whose lock is free.
Enters(p) ==
    /\ lock[App(p)] = None
    /\ lock' = [lock EXCEPT ![App(p)] = p]
    /\ \A q \in Procs \ {p} : req'[q] = req[q]
    /\ req'[p].kind = req[p].kind /\ req'[p].app = req[p].app
    /\ req[p].kind \in LockedKinds
    /\ req[p].pc \in {"acquire", "tryLock"} /\ req'[p].pc \notin Outside

LEMMA ContinueQuiet ==
    ASSUME TInv, NEW p \in Procs, NEW step, Continue(p, step),
           step \in Outside <=> req[p].pc \in Outside
    PROVE  Quiet(p)
BY DEF Continue, Goto, Quiet, TInv, TypeOK, Request

LEMMA FailQuiet ==
    ASSUME TInv, NEW p \in Procs, Fail(p), req[p].pc \notin Outside
    PROVE  Finish(p) \/ Quiet(p)
BY ContinueQuiet DEF Fail, Outside, UnlockedSteps

LEMMA StartedQuiet ==
    ASSUME TInv, NEW p \in Procs, Started(p), req[p].pc \notin Outside
    PROVE  Quiet(p)
<1>1. (IF Is(p, "deploy") THEN "setDeployed" ELSE "save") \notin Outside
  BY DEF Outside, UnlockedSteps
<1>2. QED  BY <1>1, ContinueQuiet DEF Started

LEMMA DeployShape ==
    ASSUME TInv, NEW p \in Procs,
           \/ DeployExists(p) \/ DeployFind(p) \/ DeployInsert(p) \/ DeployPull(p)
           \/ DeployHalt(p) \/ DeployRemove(p) \/ SetDeployed(p)
           \/ Sync(p) \/ DeploySucceeds(p) \/ DeployFails(p) \/ Hang(p)
    PROVE  Finish(p) \/ Quiet(p)
<1> USE DEF At, Outside, UnlockedSteps
<1>1. CASE DeployExists(p)
  BY <1>1, ContinueQuiet DEF DeployExists
<1>2. CASE DeployFind(p)
  BY <1>2, ContinueQuiet DEF DeployFind
<1>3. CASE DeployInsert(p)
  <2>1. CASE req' = [req EXCEPT ![p].pc = "pull", ![p].rec = Len(deploys) + 1]
    BY <1>3, <2>1 DEF DeployInsert, Quiet, Finish, TInv, TypeOK, Request
  <2>2. QED  BY <1>3, <2>1 DEF DeployInsert
<1>4. CASE DeployPull(p)
  BY <1>4, ContinueQuiet, FailQuiet DEF DeployPull
<1>5. CASE DeployHalt(p)
  BY <1>5, ContinueQuiet, FailQuiet DEF DeployHalt
<1>6. CASE DeployRemove(p)
  BY <1>6, ContinueQuiet, FailQuiet DEF DeployRemove
<1>7. CASE SetDeployed(p)
  BY <1>7, ContinueQuiet, FailQuiet DEF SetDeployed
<1>8. CASE DeploySucceeds(p) \/ DeployFails(p)
  BY <1>8 DEF DeploySucceeds, DeployFails, DeploySettle
<1>9. CASE Sync(p)
  BY <1>9, ContinueQuiet DEF Sync
<1>10. CASE Hang(p)
  BY <1>10, ContinueQuiet DEF Hang
<1>11. QED  BY <1>1, <1>2, <1>3, <1>4, <1>5, <1>6, <1>7, <1>8, <1>9, <1>10

LEMMA StartContainerShape ==
    ASSUME TInv, NEW p \in Procs,
           \/ InitCreate(p) \/ InitStart(p) \/ InitWait(p)
           \/ VerifySingleWriter(p) \/ RunCreate(p) \/ RunBoot(p)
    PROVE  Finish(p) \/ Quiet(p)
<1> USE DEF At, Outside, UnlockedSteps
<1>1. CASE InitCreate(p)
  BY <1>1, ContinueQuiet, FailQuiet DEF InitCreate
<1>2. CASE InitStart(p)
  BY <1>2, ContinueQuiet, FailQuiet DEF InitStart
<1>3. CASE InitWait(p)
  BY <1>3, ContinueQuiet, FailQuiet DEF InitWait
<1>4. CASE VerifySingleWriter(p)
  BY <1>4, ContinueQuiet, FailQuiet DEF VerifySingleWriter
<1>5. CASE RunCreate(p)
  BY <1>5, ContinueQuiet, FailQuiet, StartedQuiet DEF RunCreate
<1>6. CASE RunBoot(p)
  BY <1>6, FailQuiet, StartedQuiet DEF RunBoot
<1>7. QED  BY <1>1, <1>2, <1>3, <1>4, <1>5, <1>6

LEMMA StartStopShape ==
    ASSUME TInv, NEW p \in Procs,
           \/ StartFind(p) \/ SaveRunning(p)
           \/ StopFind(p) \/ StopContainers(p) \/ SaveStopped(p)
    PROVE  Finish(p) \/ Quiet(p)
<1> USE DEF At, Outside, UnlockedSteps
<1>1. CASE StartFind(p)
  <2> DEFINE r == row[App(p)]
  <2>1. CASE Startable(r)
    <3>1. /\ req' = [req EXCEPT ![p].pc = "initCreate", ![p].image = r.image, ![p].snap = r]
          /\ UNCHANGED lock /\ req[p].pc = "startFind"
      BY <1>1, <2>1 DEF StartFind
    <3> HIDE DEF r
    <3>2. QED  BY <3>1 DEF Quiet, TInv, TypeOK, Request
  <2>2. QED  BY <1>1, <2>1 DEF StartFind
<1>2. CASE StopFind(p)
  BY <1>2 DEF StopFind, Quiet, TInv, TypeOK, Request
<1>3. CASE StopContainers(p)
  BY <1>3, ContinueQuiet DEF StopContainers
<1>4. CASE SaveStopped(p)
  BY <1>4, ContinueQuiet DEF SaveStopped
<1>5. CASE SaveRunning(p)
  BY <1>5, ContinueQuiet DEF SaveRunning
<1>6. QED  BY <1>1, <1>2, <1>3, <1>4, <1>5

LEMMA UnlockedShape ==
    ASSUME TInv, NEW p \in Procs,
           \/ NightlyList(p) \/ NightlyLive(p) \/ NightlyRecheck(p)
           \/ EditRead(p) \/ EditSave(p)
           \/ DeleteFind(p) \/ DeleteRecords(p) \/ DeleteRow(p)
    PROVE  Finish(p) \/ Quiet(p)
<1> USE DEF At, Outside, UnlockedSteps
<1>1. CASE NightlyList(p)
  <2> DEFINE r == row[App(p)]
  <2>1. CASE r # None
    <3>1. /\ req' = [req EXCEPT ![p].pc = "live", ![p].snap = r, ![p].image = r.image]
          /\ UNCHANGED lock /\ req[p].pc = "list"
      BY <1>1, <2>1 DEF NightlyList
    <3> HIDE DEF r
    <3>2. QED  BY <3>1 DEF Quiet, TInv, TypeOK, Request
  <2>2. QED  BY <1>1, <2>1 DEF NightlyList
<1>2. CASE NightlyLive(p)
  BY <1>2, ContinueQuiet DEF NightlyLive
<1>3. CASE NightlyRecheck(p)
  BY <1>3, ContinueQuiet DEF NightlyRecheck
<1>4. CASE EditRead(p)
  BY <1>4 DEF EditRead, Quiet, TInv, TypeOK, Request
<1>5. CASE DeleteFind(p)
  BY <1>5, ContinueQuiet DEF DeleteFind
<1>6. CASE DeleteRecords(p)
  BY <1>6, ContinueQuiet DEF DeleteRecords
<1>7. CASE EditSave(p) \/ DeleteRow(p)
  BY <1>7, ContinueQuiet DEF EditSave, DeleteRow
<1>8. QED  BY <1>1, <1>2, <1>3, <1>4, <1>5, <1>6, <1>7

LEMMA EntersShape ==
    ASSUME TInv, NEW p \in Procs, LockApp(p) \/ TryLockApp(p)
    PROVE  Finish(p) \/ Enters(p)
<1> USE DEF At, Outside, UnlockedSteps
<1>1. req[p] \in Request /\ RequestOK(req[p])
  BY DEF TInv, TypeOK, RequestsOK
<1>2. CASE LockApp(p)
  <2>1. req[p].kind \in LockedKinds
    BY <1>1, <1>2 DEF LockApp, RequestOK, LockedKinds
  <2>2. QED  BY <1>2, <2>1 DEF LockApp, Goto, Enters, TInv, TypeOK, Request
<1>3. CASE TryLockApp(p)
  <2>1. req[p].kind \in LockedKinds
    BY <1>1, <1>3 DEF TryLockApp, RequestOK, LockedKinds
  <2>2. QED  BY <1>3, <2>1 DEF TryLockApp, Goto, Enters, TInv, TypeOK, Request
<1>4. QED  BY <1>2, <1>3

LEMMA StepShape ==
    ASSUME TInv, NEW p \in Procs, Step(p)
    PROVE  Finish(p) \/ Quiet(p) \/ Enters(p)
BY DeployShape, StartContainerShape, StartStopShape, UnlockedShape, EntersShape DEF Step

LEMMA FinishLock ==
    ASSUME TInv, LockInv, NEW p \in Procs, Finish(p)
    PROVE  LockInv'
<1>1. NoRequest.kind \notin LockedKinds
  BY NoRequestOK, NoneAssumption DEF RequestKinds
<1>2. NoRequest.pc = "idle"
  BY DEF NoRequest
<1>3. \A q \in Procs : q # None
  BY NoneAssumption
<1>4. ASSUME NEW q \in Procs, NEW a \in Apps
      PROVE  (lock[a] = q <=> InSection(q) /\ App(q) = a)'
  <2>1. CASE q = p
    BY <1>1, <1>3, <2>1 DEF Finish, InSection, App, TInv, TypeOK
  <2>2. CASE q # p
    <3>1. req'[q] = req[q]
      BY <2>2 DEF Finish, TInv, TypeOK
    <3>2. lock'[a] = q <=> lock[a] = q
      BY <1>3, <2>2 DEF Finish
    <3>3. QED  BY <3>1, <3>2 DEF LockInv, InSection, App
  <2>3. QED  BY <2>1, <2>2
<1>5. QED  BY <1>4 DEF LockInv

LEMMA QuietLock ==
    ASSUME TInv, LockInv, NEW p \in Procs, Quiet(p)
    PROVE  LockInv'
<1>1. ASSUME NEW q \in Procs
      PROVE  /\ InSection(q)' <=> InSection(q)
             /\ App(q)' = App(q)
  BY DEF Quiet, InSection, App, Outside
<1>2. QED  BY <1>1 DEF LockInv, Quiet

LEMMA EntersLock ==
    ASSUME TInv, LockInv, NEW p \in Procs, Enters(p)
    PROVE  LockInv'
<1>1. App(p) \in Apps /\ req[p] \in Request
  BY DEF Enters, App, RequestOK, TInv, TypeOK, RequestsOK
<1>2. ASSUME NEW q \in Procs, NEW a \in Apps
      PROVE  (lock[a] = q <=> InSection(q) /\ App(q) = a)'
  <2>1. CASE q = p
    <3>1. ~InSection(p) /\ InSection(p)' /\ App(p)' = App(p)
      BY DEF Enters, InSection, App, Outside, UnlockedSteps
    <3>2. lock[a] # p
      BY <3>1 DEF LockInv
    <3>3. QED  BY <1>1, <2>1, <3>1, <3>2 DEF Enters, TInv, TypeOK
  <2>2. CASE q # p
    <3>1. InSection(q)' <=> InSection(q)
      BY <2>2 DEF Enters, InSection
    <3>2. App(q)' = App(q)
      BY <2>2 DEF Enters, App
    <3>3. lock'[a] = q <=> lock[a] = q
      BY <1>1, <2>2, NoneAssumption DEF Enters, TInv, TypeOK
    <3>4. QED  BY <3>1, <3>2, <3>3 DEF LockInv
  <2>3. QED  BY <2>1, <2>2
<1>3. QED  BY <1>2 DEF LockInv

LEMMA ArriveLock ==
    ASSUME TInv, LockInv, NEW p \in Procs, Arrive(p)
    PROVE  LockInv'
<1>1. PICK kind \in Kinds : req'[p].pc = FirstStep(kind) /\ \A q \in Procs \ {p} : req'[q] = req[q]
  BY DEF Arrive, TInv, TypeOK, NoRequest
<1>2. ~InSection(p) /\ (req'[p].kind \in LockedKinds => req'[p].pc \in Outside)
  BY DEF Arrive, At, InSection, Outside, UnlockedSteps, FirstStep, TInv, TypeOK, NoRequest, LockedKinds
<1>3. ASSUME NEW q \in Procs, NEW a \in Apps
      PROVE  (lock[a] = q <=> InSection(q) /\ App(q) = a)'
  <2>1. CASE q = p
    BY <1>2, <2>1 DEF Arrive, LockInv, InSection, Outside
  <2>2. CASE q # p
    BY <1>1, <2>2 DEF Arrive, LockInv, InSection, App
  <2>3. QED  BY <2>1, <2>2
<1>4. QED  BY <1>3 DEF LockInv

LEMMA InitLock == Init => LockInv
<1> SUFFICES ASSUME Init, NEW p \in Procs, NEW a \in Apps
             PROVE  lock[a] = p <=> InSection(p) /\ App(p) = a
  BY DEF LockInv
<1>1. lock[a] # p /\ req[p].pc = "idle"
  BY NoneAssumption DEF Init, NoRequest
<1>2. QED  BY <1>1 DEF InSection

LEMMA NextLock == TInv /\ LockInv /\ [Next]_vars => LockInv'
<1> SUFFICES ASSUME TInv, LockInv, [Next]_vars PROVE LockInv'
  OBVIOUS
<1>1. ASSUME NEW p \in Procs, Step(p) \/ LockApp(p) \/ Hang(p)
      PROVE  LockInv'
  BY <1>1, StepShape, DeployShape, EntersShape, FinishLock, QuietLock, EntersLock
<1>2. ASSUME NEW p \in Procs, Cancel(p) PROVE LockInv'
  BY <1>2, FinishLock DEF Cancel
<1>3. ASSUME UNCHANGED <<lock, req>> PROVE LockInv'
  BY <1>3 DEF LockInv, InSection, App
<1>4. QED
  BY <1>1, <1>2, <1>3, ArriveLock DEF Next, vars, HelperExits, DaemonRestart

LEMMA LockInvariant == Spec => [](TInv /\ LockInv)
BY InitTInv, NextTInv, InitLock, NextLock, PTL DEF Spec

(* Mutual exclusion of deploy, start, stop, restart and the nightly restart *)
(* of one app, for any number of requests and apps, with errors, dropped    *)
(* requests and restarts of the daemon.                                     *)
THEOREM MutualExclusion == Spec => []OneOperationPerApp
<1>1. TInv /\ LockInv => OneOperationPerApp
  <2> SUFFICES ASSUME TInv, LockInv, NEW p \in Procs, NEW q \in Procs,
                      InSection(p), InSection(q), App(p) = App(q)
               PROVE  p = q
    BY DEF OneOperationPerApp
  <2>1. App(p) \in Apps
    BY DEF TInv, TypeOK, RequestsOK, RequestOK, InSection, App, Outside
  <2>2. QED  BY <2>1 DEF LockInv
<1>2. QED  BY <1>1, LockInvariant, PTL

(* No lock outlives its operation: whatever ended the request, the lock is  *)
(* free or belongs to a request that is still working under it.             *)
THEOREM NoLockLeftBehind == Spec => []LockFollowsHolder
<1>1. TInv /\ LockInv => LockFollowsHolder
  BY DEF TInv, TypeOK, LockInv, LockFollowsHolder, Free
<1>2. QED  BY <1>1, LockInvariant, PTL

-----------------------------------------------------------------------------
(* The deploy records *)

Recording(p) == Is(p, "deploy") /\ req[p].pc \in RecordedSteps

\* The record of a deploy at work is open or deleted, and no other deploy has it.
RecordInv ==
    /\ \A p \in Procs : Recording(p) => deploys[req[p].rec].status \in {"in_progress", "deleted"}
    /\ \A p, q \in Procs : Recording(p) /\ Recording(q) /\ p # q => req[p].rec # req[q].rec

\* The record d changes only by being settled from in_progress or deleted.
RecordKept(d) ==
    /\ d \in DOMAIN deploys'
    /\ deploys'[d].status \in {deploys[d].status, "deleted"}

\* A step after which p records what it recorded before, or nothing.
SameRecording ==
    \A p \in Procs : Recording(p)' => Recording(p) /\ req'[p].rec = req[p].rec

LEMMA SameRecordingInv ==
    ASSUME TInv, RecordInv, SameRecording, \A d \in DOMAIN deploys : RecordKept(d)
    PROVE  RecordInv'
<1>1. \A p \in Procs : Recording(p) => req[p].rec \in DOMAIN deploys
  BY DEF TInv, TypeOK, RequestsOK, RecordOK, Recording, Is
<1>2. ASSUME NEW p \in Procs, Recording(p)'
      PROVE  deploys'[req'[p].rec].status \in {"in_progress", "deleted"}
  BY <1>1, <1>2 DEF SameRecording, RecordInv, RecordKept
<1>3. ASSUME NEW p \in Procs, NEW q \in Procs, Recording(p)', Recording(q)', p # q
      PROVE  req'[p].rec # req'[q].rec
  BY <1>3 DEF SameRecording, RecordInv
<1>4. QED  BY <1>2, <1>3 DEF RecordInv

LEMMA FinishRecording ==
    ASSUME TInv, NEW p \in Procs, Finish(p) PROVE SameRecording
<1>1. NoRequest.kind # "deploy"
  BY NoRequestOK, NoneAssumption DEF RequestKinds, LockedKinds
<1>2. QED  BY <1>1 DEF Finish, SameRecording, Recording, Is, TInv, TypeOK

LEMMA MoveRecording ==
    ASSUME TInv, NEW p \in Procs, NEW r \in Request, req' = [req EXCEPT ![p] = r],
           \/ r.kind # "deploy"
           \/ r.pc \notin RecordedSteps
           \/ Recording(p) /\ r.rec = req[p].rec
    PROVE  SameRecording
BY DEF SameRecording, Recording, Is, TInv, TypeOK

LEMMA EdgeRecording ==
    ASSUME TInv, NEW p \in Procs, NEW step, Edge(req[p], step),
           Continue(p, step) \/ Goto(p, step)
    PROVE  SameRecording
<1> DEFINE r == [req[p] EXCEPT !.pc = step]
<1>1. req[p] \in Request /\ RequestOK(req[p])
  BY DEF TInv, TypeOK, RequestsOK
<1>2. /\ step \in Steps
      /\ req[p].kind = "deploy" /\ step \in RecordedSteps => req[p].pc \in RecordedSteps
  BY <1>1, EdgeOK
<1>3. r \in Request /\ r.kind = req[p].kind /\ r.pc = step /\ r.rec = req[p].rec
  BY <1>1, <1>2 DEF Request
<1>4. req' = [req EXCEPT ![p] = r]
  BY DEF Continue, Goto, TInv, TypeOK
<1>5. QED
  <2> HIDE DEF r
  <2> QED  BY <1>2, <1>3, <1>4, MoveRecording DEF Recording, Is

LEMMA FailRecording ==
    ASSUME TInv, NEW p \in Procs, Fail(p), req[p].pc \in RecordedSteps \cup {"stopCtr"}
    PROVE  SameRecording
<1>1. CASE ~Is(p, "deploy")
  BY <1>1, FinishRecording DEF Fail
<1>2. CASE Is(p, "deploy")
  <2> DEFINE r == [req[p] EXCEPT !.pc = "settleFailed"]
  <2>1. req[p] \in Request /\ RequestOK(req[p]) /\ "settleFailed" \in Steps
    BY DEF TInv, TypeOK, RequestsOK, Steps
  <2>2. Recording(p)
    BY <1>2, <2>1 DEF Recording, RequestOK, Is
  <2>3. r \in Request /\ r.rec = req[p].rec
    BY <2>1 DEF Request
  <2>4. req' = [req EXCEPT ![p] = r]
    BY <1>2 DEF Fail, Continue, Goto, TInv, TypeOK
  <2>5. QED
    <3> HIDE DEF r
    <3> QED  BY <2>2, <2>3, <2>4, MoveRecording
<1>3. QED  BY <1>1, <1>2

LEMMA StartedRecording ==
    ASSUME TInv, NEW p \in Procs, Started(p), req[p].pc \in StartSteps
    PROVE  SameRecording
<1> DEFINE step == IF Is(p, "deploy") THEN "setDeployed" ELSE "save"
           r == [req[p] EXCEPT !.pc = step]
<1>1. req[p] \in Request /\ step \in Steps
  BY DEF TInv, TypeOK, Steps
<1>2. r \in Request /\ r.rec = req[p].rec /\ r.kind = req[p].kind
  BY <1>1 DEF Request
<1>3. req' = [req EXCEPT ![p] = r]
  BY DEF Started, Continue, Goto, TInv, TypeOK
<1>4. r.kind # "deploy" \/ Recording(p)
  BY <1>2 DEF Recording, Is, RecordedSteps
<1>5. QED
  <2> HIDE DEF r, step
  <2> QED  BY <1>2, <1>3, <1>4, MoveRecording

LEMMA DeployRecording ==
    ASSUME TInv, NEW p \in Procs,
           \/ DeployExists(p) \/ DeployFind(p) \/ DeployPull(p)
           \/ DeployHalt(p) \/ DeployRemove(p) \/ SetDeployed(p) \/ Sync(p) \/ Hang(p)
    PROVE  SameRecording
<1> USE DEF At, Edge, RecordedSteps
<1>1. CASE DeployExists(p)
  BY <1>1, EdgeRecording, FinishRecording DEF DeployExists
<1>2. CASE DeployFind(p)
  BY <1>2, EdgeRecording, FinishRecording DEF DeployFind
<1>3. CASE DeployPull(p)
  BY <1>3, EdgeRecording, FailRecording DEF DeployPull
<1>4. CASE DeployHalt(p)
  BY <1>4, EdgeRecording, FailRecording DEF DeployHalt
<1>5. CASE DeployRemove(p)
  BY <1>5, EdgeRecording, FailRecording DEF DeployRemove
<1>6. CASE SetDeployed(p)
  BY <1>6, EdgeRecording, FailRecording DEF SetDeployed
<1>7. CASE Sync(p)
  BY <1>7, EdgeRecording, FinishRecording DEF Sync, Is
<1>8. CASE Hang(p)
  BY <1>8, EdgeRecording DEF Hang
<1>9. QED  BY <1>1, <1>2, <1>3, <1>4, <1>5, <1>6, <1>7, <1>8

LEMMA StartContainerRecording ==
    ASSUME TInv, NEW p \in Procs,
           \/ InitCreate(p) \/ InitStart(p) \/ InitWait(p)
           \/ VerifySingleWriter(p) \/ RunCreate(p) \/ RunBoot(p)
    PROVE  SameRecording
<1> USE DEF At, Edge, RecordedSteps, StartSteps
<1>1. CASE InitCreate(p)
  BY <1>1, EdgeRecording, FailRecording DEF InitCreate
<1>2. CASE InitStart(p)
  BY <1>2, EdgeRecording, FailRecording DEF InitStart
<1>3. CASE InitWait(p)
  BY <1>3, EdgeRecording, FailRecording DEF InitWait
<1>4. CASE VerifySingleWriter(p)
  BY <1>4, EdgeRecording, FailRecording DEF VerifySingleWriter
<1>5. CASE RunCreate(p)
  BY <1>5, EdgeRecording, FailRecording, StartedRecording DEF RunCreate
<1>6. CASE RunBoot(p)
  BY <1>6, FailRecording, StartedRecording DEF RunBoot
<1>7. QED  BY <1>1, <1>2, <1>3, <1>4, <1>5, <1>6

(* A step that does not belong to a deploy records nothing. *)
LEMMA NotRecording ==
    ASSUME TInv, NEW p \in Procs, ~Is(p, "deploy"),
           \A q \in Procs \ {p} : req'[q] = req[q],
           req'[p].kind = req[p].kind
    PROVE  SameRecording
BY DEF SameRecording, Recording, Is, TInv, TypeOK

LEMMA OtherRecording ==
    ASSUME TInv, NEW p \in Procs,
           \/ StartFind(p) \/ SaveRunning(p)
           \/ StopFind(p) \/ StopContainers(p) \/ SaveStopped(p)
           \/ NightlyList(p) \/ NightlyLive(p) \/ NightlyRecheck(p) \/ TryLockApp(p)
           \/ EditRead(p) \/ EditSave(p)
           \/ DeleteFind(p) \/ DeleteRecords(p) \/ DeleteRow(p)
    PROVE  SameRecording
<1>1. ~Is(p, "deploy")
  <2>1. RequestOK(req[p])
    BY DEF TInv, RequestsOK
  <2>2. QED
    BY <2>1 DEF RequestOK, Is, At, StartFind, SaveRunning, StopFind, StopContainers, SaveStopped,
                NightlyList, NightlyLive, NightlyRecheck, TryLockApp, EditRead, EditSave,
                DeleteFind, DeleteRecords, DeleteRow
<1>2. CASE Finish(p)
  BY <1>2, FinishRecording
<1>3. CASE Quiet(p)
  BY <1>1, <1>3, NotRecording DEF Quiet
<1>4. CASE Enters(p)
  BY <1>1, <1>4, NotRecording DEF Enters
<1>5. QED  BY <1>2, <1>3, <1>4, StartStopShape, UnlockedShape, EntersShape

LEMMA KeepRecords ==
    ASSUME TInv, UNCHANGED deploys PROVE \A d \in DOMAIN deploys : RecordKept(d)
BY DEF RecordKept

LEMMA InsertRecord ==
    ASSUME TInv, RecordInv, NEW p \in Procs, DeployInsert(p)
    PROVE  RecordInv' /\ \A d \in DOMAIN deploys : RecordKept(d)
<1>1. CASE Finish(p) /\ UNCHANGED deploys
  BY <1>1, FinishRecording, KeepRecords, SameRecordingInv
<1>2. CASE ~(Finish(p) /\ UNCHANGED deploys)
  <2> DEFINE d == [app |-> App(p), image |-> req[p].image, status |-> "in_progress"]
  <2>1. /\ deploys' = Append(deploys, d)
        /\ req' = [req EXCEPT ![p].pc = "pull", ![p].rec = Len(deploys) + 1]
    BY <1>2 DEF DeployInsert
  <2>2. deploys \in Seq(Deploy) /\ Len(deploys) \in Nat /\ req \in [Procs -> Request]
    BY DEF TInv, TypeOK
  <2>3. /\ \A e \in DOMAIN deploys : e \in DOMAIN deploys' /\ deploys'[e] = deploys[e]
        /\ deploys'[Len(deploys) + 1].status = "in_progress"
    BY <2>1, <2>2
  <2> HIDE DEF d
  <2>4. /\ \A q \in Procs \ {p} : req'[q] = req[q]
        /\ req'[p].rec = Len(deploys) + 1
    BY <2>1, <2>2 DEF Request
  <2>5. \A q \in Procs : Recording(q) => req[q].rec \in DOMAIN deploys /\ req[q].rec # Len(deploys) + 1
    BY <2>2 DEF TInv, RequestsOK, RecordOK, Recording, Is
  <2>6. \A q \in Procs \ {p} : Recording(q)' <=> Recording(q)
    BY <2>4 DEF Recording, Is
  <2>7. RecordInv'
    BY <2>3, <2>4, <2>5, <2>6 DEF RecordInv
  <2>8. QED  BY <2>3, <2>7 DEF RecordKept
<1>3. QED  BY <1>1, <1>2

\* What SettledIsFinal says of one step.
SettledKept ==
    \A d \in DOMAIN deploys :
        deploys[d].status \in {"succeeded", "failed"} =>
            deploys'[d].status \in {deploys[d].status, "deleted"}

LEMMA SettleRecord ==
    ASSUME TInv, RecordInv, NEW p \in Procs, DeploySucceeds(p) \/ DeployFails(p)
    PROVE  RecordInv' /\ SettledKept
<1> DEFINE n == req[p].rec
<1>1. Recording(p)
  BY DEF DeploySucceeds, DeployFails, DeploySettle, At, Recording, Is, RecordedSteps,
         TInv, RequestsOK, RequestOK, DeploySteps
<1>2. /\ deploys \in Seq(Deploy) /\ n \in DOMAIN deploys
      /\ deploys[n].status \in {"in_progress", "deleted"}
  BY <1>1 DEF RecordInv, TInv, TypeOK, RequestsOK, RecordOK, Recording, Is
<1>3. \A e \in DOMAIN deploys : e \in DOMAIN deploys' /\ (e # n => deploys'[e] = deploys[e])
  BY <1>2 DEF DeploySucceeds, DeployFails, DeploySettle
<1>4. Finish(p)
  BY DEF DeploySucceeds, DeployFails, DeploySettle
<1>5. \A q \in Procs : Recording(q)' => q # p /\ Recording(q) /\ req'[q] = req[q]
  <2>1. NoRequest.kind # "deploy"
    BY NoRequestOK, NoneAssumption DEF RequestKinds, LockedKinds
  <2>2. QED  BY <1>4, <2>1 DEF Finish, Recording, Is, TInv, TypeOK
<1>6. \A q \in Procs : Recording(q)' => req[q].rec # n /\ req[q].rec \in DOMAIN deploys
  BY <1>1, <1>5 DEF RecordInv, TInv, TypeOK, RequestsOK, RecordOK, Recording, Is
<1> HIDE DEF n
<1>7. RecordInv'
  BY <1>3, <1>5, <1>6 DEF RecordInv
<1>8. SettledKept
  BY <1>2, <1>3 DEF SettledKept
<1>9. QED  BY <1>7, <1>8

LEMMA DeleteKeepsRecords ==
    ASSUME TInv, NEW p \in Procs, DeleteRecords(p)
    PROVE  \A d \in DOMAIN deploys : RecordKept(d)
<1>1. deploys \in Seq(Deploy)
  BY DEF TInv, TypeOK
<1>2. ASSUME NEW d \in DOMAIN deploys PROVE RecordKept(d)
  <2>1. deploys[d] \in Deploy
    BY <1>1
  <2>2. QED  BY <2>1 DEF DeleteRecords, RecordKept, Deploy
<1>3. QED  BY <1>2

LEMMA ArriveRecording ==
    ASSUME TInv, NEW p \in Procs, Arrive(p) PROVE SameRecording
<1>1. /\ \A q \in Procs \ {p} : req'[q] = req[q]
      /\ req'[p].pc \in {"exists", "list", "editRead", "deleteFind", "acquire"}
  BY DEF Arrive, FirstStep, NoRequest, TInv, TypeOK
<1>2. QED  BY <1>1 DEF SameRecording, Recording, Is, RecordedSteps, StartSteps

LEMMA LockAppRecording ==
    ASSUME TInv, NEW p \in Procs, LockApp(p) PROVE SameRecording
<1> DEFINE step == CASE Is(p, "deploy") -> "find"
                     [] Is(p, "start") -> "startFind"
                     [] OTHER -> "stopFind"
<1>1. Edge(req[p], step) /\ Goto(p, step)
  BY DEF LockApp, At, Edge, Is
<1>2. QED
  <2> HIDE DEF step
  <2> QED  BY <1>1, EdgeRecording

LEMMA NextRecord == TInv /\ RecordInv /\ [Next]_vars => RecordInv' /\ SettledKept
<1> SUFFICES ASSUME TInv, RecordInv, [Next]_vars PROVE RecordInv' /\ SettledKept
  OBVIOUS
<1>1. ASSUME SameRecording, \A d \in DOMAIN deploys : RecordKept(d)
      PROVE  RecordInv' /\ SettledKept
  BY <1>1, SameRecordingInv DEF RecordKept, SettledKept
<1>2. ASSUME NEW p \in Procs, Step(p) PROVE RecordInv' /\ SettledKept
  <2>1. CASE DeployInsert(p)
    BY <2>1, InsertRecord DEF RecordKept, SettledKept
  <2>2. CASE DeploySucceeds(p) \/ DeployFails(p)
    BY <2>2, SettleRecord
  <2>3. CASE DeleteRecords(p)
    BY <1>1, <2>3, DeleteKeepsRecords, OtherRecording
  <2>4. CASE DeployExists(p) \/ DeployFind(p) \/ DeployPull(p)
             \/ DeployHalt(p) \/ DeployRemove(p) \/ SetDeployed(p) \/ Sync(p)
    BY <1>1, <2>4, DeployRecording, KeepRecords
       DEF DeployExists, DeployFind, DeployPull, DeployHalt, DeployRemove, SetDeployed, Sync
  <2>5. CASE InitCreate(p) \/ InitStart(p) \/ InitWait(p)
             \/ VerifySingleWriter(p) \/ RunCreate(p) \/ RunBoot(p)
    BY <1>1, <2>5, StartContainerRecording, KeepRecords
       DEF InitCreate, InitStart, InitWait, VerifySingleWriter, RunCreate, RunBoot
  <2>6. CASE \/ StartFind(p) \/ SaveRunning(p)
             \/ StopFind(p) \/ StopContainers(p) \/ SaveStopped(p)
             \/ NightlyList(p) \/ NightlyLive(p) \/ NightlyRecheck(p) \/ TryLockApp(p)
             \/ EditRead(p) \/ EditSave(p) \/ DeleteFind(p) \/ DeleteRow(p)
    BY <1>1, <2>6, OtherRecording, KeepRecords
       DEF StartFind, SaveRunning, StopFind, StopContainers, SaveStopped, NightlyList,
           NightlyLive, NightlyRecheck, TryLockApp, EditRead, EditSave, DeleteFind, DeleteRow
  <2>7. QED  BY <1>2, <2>1, <2>2, <2>3, <2>4, <2>5, <2>6 DEF Step
<1>3. ASSUME NEW p \in Procs, Arrive(p) \/ LockApp(p) \/ Hang(p) \/ Cancel(p)
      PROVE  RecordInv' /\ SettledKept
  BY <1>1, <1>3, ArriveRecording, LockAppRecording, DeployRecording, FinishRecording, KeepRecords
     DEF Arrive, LockApp, Hang, Cancel
<1>4. ASSUME UNCHANGED <<deploys, req>> PROVE RecordInv' /\ SettledKept
  BY <1>1, <1>4, KeepRecords DEF SameRecording, Recording, Is
<1>5. QED
  BY <1>2, <1>3, <1>4 DEF Next, vars, HelperExits, DaemonRestart

(* A deploy that was reported as succeeded or failed never changes its      *)
(* report, with any number of deploys, deletes and dropped requests.        *)
THEOREM SettledDeploysStay == Spec => SettledIsFinal
<1>1. Init => RecordInv
  <2>1. NoRequest.kind # "deploy"
    BY NoRequestOK, NoneAssumption DEF RequestKinds, LockedKinds
  <2>2. QED  BY <2>1 DEF Init, RecordInv, Recording, Is
<1>2. TInv /\ RecordInv /\ [Next]_vars => [SettledKept]_deploys
  BY NextRecord
<1>3. QED
  BY <1>1, <1>2, InitTInv, NextTInv, NextRecord, PTL DEF Spec, SettledIsFinal, SettledKept

=============================================================================
