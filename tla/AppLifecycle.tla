---------------------------- MODULE AppLifecycle ----------------------------
(***************************************************************************)
(* The container lifecycle of an app: deploy, start, stop, restart, the    *)
(* nightly restart, settings edits and delete, as concurrent requests over *)
(* the `app` and `deploy` tables, the Docker containers and the per-app    *)
(* lock of commands/server.rs.                                             *)
(*                                                                         *)
(* A request runs as one async task; every `.await` on the database or on  *)
(* Docker ends an action, so other requests may run between any two of     *)
(* its steps.  The Caddy sync that ends most operations writes nothing this *)
(* module has and its failure fails none; it is here as a step that may    *)
(* hang with the lock held, and whose log may make a deploy fail.          *)
(***************************************************************************)
EXTENDS Naturals, Sequences, FiniteSets

CONSTANTS
    Apps,        \* app names; the app ids are not told apart from them
    Images,      \* image tags
    Settings,    \* values of the operator's columns: custom_domains, health_check_path
    Procs,       \* slots for requests in flight
    Kinds,       \* the request kinds that may arrive
    Faults,      \* what may go wrong, see FaultKinds
    Substring,   \* <<a, b>> \in Substring: "{a}-container" occurs in b's container name
    MaxDeploys,  \* bound on the deploy requests of a behaviour
    None         \* an absent row, container, image or lock holder

LockedKinds == {"deploy", "start", "stop", "restart", "nightly"}
RequestKinds == LockedKinds \cup {"edit", "delete"}

\* docker: a call before the new container runs returns an error: Docker, the
\*         registry, or the database in do_deploy.
\* timeout: the init container outlives the 30 s limit.
\* reap: auto_remove deletes the init container before a poll sees it exited.
\* row: set_deployed cannot write the row of the container that runs.
\* log: append_log cannot write what do_deploy does after set_deployed.
\* hang: an image pull or Caddy's admin API never answers; nothing bounds either.
\* cancel: the request's future is dropped (client gone, server crash), or a
\*         database error outside do_deploy ends it; a crash cancels every request.
\* daemon: dockerd restarts.
FaultKinds == {"docker", "timeout", "reap", "row", "log", "hang", "cancel", "daemon"}

ASSUME KindsAssumption == Kinds \subseteq RequestKinds
ASSUME FaultsAssumption == Faults \subseteq FaultKinds
ASSUME SubstringAssumption ==
    /\ Substring \subseteq Apps \X Apps
    /\ \A a \in Apps : <<a, a>> \in Substring
ASSUME NoneAssumption == None \notin Apps \cup Images \cup Procs \cup RequestKinds

VARIABLES
    row,      \* the app table: the row of each app, or None
    deploys,  \* the deploy table, oldest first
    ctr,      \* the container "{app}-container", or None
    helper,   \* the container "litehouse-init-{app_id}"
    lock,     \* the holder of each app's lock, or None
    req       \* the requests in flight

vars == <<row, deploys, ctr, helper, lock, req>>

Row == [state : {"running", "stopped"}, image : Images \cup {None}, cfg : Settings]
Container == [st : {"created", "running", "exited"}, image : Images]
Deploy == [app : Apps, image : Images,
           status : {"in_progress", "succeeded", "failed", "deleted"}]

\* An absent row or container is none of the rows and containers there can be.
ASSUME AbsenceAssumption == None \notin Row \cup Container

StartSteps == {"initCreate", "initStart", "initWait", "verify", "create", "boot", "hung"}
UnlockedSteps == {"exists", "acquire", "list", "live", "tryLock"}
Steps == StartSteps \cup UnlockedSteps \cup
    {"idle", "find", "insert", "pull", "halt", "remove", "setDeployed", "sync", "syncHung",
     "settleOk", "settleFailed", "settleLate", "startFind", "save", "stopFind", "stopCtr",
     "saveStopped", "recheck", "editRead", "editSave", "deleteFind",
     "deleteRecords", "deleteRow"}

\* A request: its next step, the image it handles, the row it has read and
\* the number of its deploy record.
Request == [pc : Steps, kind : RequestKinds \cup {None}, app : Apps \cup {None},
            image : Images \cup {None}, snap : Row \cup {None}, rec : Nat]

NoRequest == [pc |-> "idle", kind |-> None, app |-> None, image |-> None,
              snap |-> None, rec |-> 0]

\* Apps have been created and never deployed (create::execute's row).
Init ==
    /\ row \in [Apps -> [state : {"stopped"}, image : {None}, cfg : Settings]]
    /\ deploys = << >>
    /\ ctr = [a \in Apps |-> None]
    /\ helper = [a \in Apps |-> "none"]
    /\ lock = [a \in Apps |-> None]
    /\ req = [p \in Procs |-> NoRequest]

-----------------------------------------------------------------------------
(* Steps of a request *)

At(p, step) == req[p].pc = step
App(p) == req[p].app
Is(p, kind) == req[p].kind = kind
Running(a) == ctr[a] # None /\ ctr[a].st = "running"
Live(d, a) == deploys[d].app = a /\ deploys[d].status # "deleted"

Goto(p, step) == req' = [req EXCEPT ![p].pc = step]

\* Mutated form of Finish: the guard outlives the request.
FinishKeepingLock(p) == req' = [req EXCEPT ![p] = NoRequest] /\ UNCHANGED lock

\* The handler returns, or its future is dropped: the lock guard goes with it.
Finish(p) ==
    /\ req' = [req EXCEPT ![p] = NoRequest]
    /\ lock' = [a \in Apps |-> IF lock[a] = p THEN None ELSE lock[a]]

Continue(p, step) == Goto(p, step) /\ UNCHANGED lock

\* Mutated form of Fail: `?` returns before the deploy's status is set.
FailUnrecorded(p) == Finish(p)

\* An error inside start_container or before it: deploy_app records it, the
\* other callers return it.
Fail(p) == IF Is(p, "deploy") THEN Continue(p, "settleFailed") ELSE Finish(p)

\* start_container returned: its caller writes the app row.
Started(p) == Continue(p, IF Is(p, "deploy") THEN "setDeployed" ELSE "save")

StopMatching(stopped) ==
    ctr' = [b \in Apps |-> IF b \in stopped /\ Running(b)
                           THEN [ctr[b] EXCEPT !.st = "exited"] ELSE ctr[b]]

Matching(a) == {b \in Apps : <<a, b>> \in Substring}

-----------------------------------------------------------------------------
(* Requests arrive and take the lock *)

FirstStep(kind) ==
    CASE kind = "deploy" -> "exists"
      [] kind = "nightly" -> "list"
      [] kind = "edit" -> "editRead"
      [] kind = "delete" -> "deleteFind"
      [] OTHER -> "acquire"

PendingDeploys == {p \in Procs : Is(p, "deploy") /\ req[p].rec = 0}

Arrive(p) ==
    /\ At(p, "idle")
    /\ \E kind \in Kinds, a \in Apps, i \in Images :
        /\ kind = "deploy" => Len(deploys) + Cardinality(PendingDeploys) < MaxDeploys
        /\ req' = [req EXCEPT ![p] =
                    [NoRequest EXCEPT !.pc = FirstStep(kind), !.kind = kind, !.app = a,
                                      !.image = IF kind = "deploy" THEN i ELSE None]]
    /\ UNCHANGED <<row, deploys, ctr, helper, lock>>

\* The existence check of deploy_app and hook_deploy, before the lock.
DeployExists(p) ==
    /\ At(p, "exists")
    /\ IF row[App(p)] = None THEN Finish(p) ELSE Continue(p, "acquire")
    /\ UNCHANGED <<row, deploys, ctr, helper>>

\* Mutated form of LockApp: the handlers do not wait for each other.
LockAppShared(p) ==
    /\ At(p, "acquire")
    /\ lock' = [lock EXCEPT ![App(p)] = p]
    /\ Goto(p, CASE Is(p, "deploy") -> "find"
                 [] Is(p, "start") -> "startFind"
                 [] OTHER -> "stopFind")
    /\ UNCHANGED <<row, deploys, ctr, helper>>

\* lock_app grants the lock; tokio queues the waiters first come first served.
LockApp(p) ==
    /\ At(p, "acquire")
    /\ lock[App(p)] = None
    /\ lock' = [lock EXCEPT ![App(p)] = p]
    /\ Goto(p, CASE Is(p, "deploy") -> "find"
                 [] Is(p, "start") -> "startFind"
                 [] OTHER -> "stopFind")
    /\ UNCHANGED <<row, deploys, ctr, helper>>

-----------------------------------------------------------------------------
(* deploy::deploy_app and do_deploy *)

DeployFind(p) ==
    /\ At(p, "find")
    /\ IF row[App(p)] = None THEN Finish(p) ELSE Continue(p, "insert")
    /\ UNCHANGED <<row, deploys, ctr, helper>>

\* deploy.app_id references app(id): the insert fails when the row is gone.
DeployInsert(p) ==
    /\ At(p, "insert")
    /\ \/ /\ row[App(p)] = None
          /\ Finish(p)
          /\ UNCHANGED deploys
       \/ /\ row[App(p)] # None
          /\ deploys' = Append(deploys, [app |-> App(p), image |-> req[p].image,
                                         status |-> "in_progress"])
          /\ req' = [req EXCEPT ![p].pc = "pull", ![p].rec = Len(deploys) + 1]
          /\ UNCHANGED lock
    /\ UNCHANGED <<row, ctr, helper>>

\* Mutated form of DeployPull: the old container is not removed first.
DeployPullInPlace(p) ==
    /\ At(p, "pull")
    /\ Continue(p, "initCreate")
    /\ UNCHANGED <<row, deploys, ctr, helper>>

\* Pull, check the platform and read the exposed port.
DeployPull(p) ==
    /\ At(p, "pull")
    /\ \/ Continue(p, "halt")
       \/ "docker" \in Faults /\ Fail(p)
    /\ UNCHANGED <<row, deploys, ctr, helper>>

\* stop_and_remove_container, the stop: a stopped or absent container is fine.
DeployHalt(p) ==
    /\ At(p, "halt")
    /\ \/ StopMatching({App(p)}) /\ Continue(p, "remove")
       \/ "docker" \in Faults /\ Fail(p) /\ UNCHANGED ctr
    /\ UNCHANGED <<row, deploys, helper>>

\* Mutated form of DeployRemove: the row is written before the new container is up.
DeployRemoveSwitches(p) ==
    /\ At(p, "remove")
    /\ \/ /\ ~Running(App(p))
          /\ ctr' = [ctr EXCEPT ![App(p)] = None]
          /\ row' = [row EXCEPT ![App(p)].image = req[p].image]
          /\ Continue(p, "initCreate")
       \/ Running(App(p)) /\ Fail(p) /\ UNCHANGED <<row, ctr>>
    /\ UNCHANGED <<deploys, helper>>

\* stop_and_remove_container, the removal: Docker refuses a running container.
DeployRemove(p) ==
    /\ At(p, "remove")
    /\ \/ /\ ~Running(App(p))
          /\ ctr' = [ctr EXCEPT ![App(p)] = None]
          /\ Continue(p, "initCreate")
       \/ /\ Running(App(p)) \/ "docker" \in Faults
          /\ Fail(p)
          /\ UNCHANGED ctr
    /\ UNCHANGED <<row, deploys, helper>>

\* Mutated form of SetDeployed: the image column is forgotten.
SetDeployedStateOnly(p) ==
    /\ At(p, "setDeployed")
    /\ row' = IF row[App(p)] = None THEN row ELSE [row EXCEPT ![App(p)].state = "running"]
    /\ Continue(p, "sync")
    /\ UNCHANGED <<deploys, ctr, helper>>

\* set_deployed updates its columns only; no row, no update.
SetDeployed(p) ==
    /\ At(p, "setDeployed")
    /\ \/ /\ row' = IF row[App(p)] = None THEN row
                    ELSE [row EXCEPT ![App(p)].state = "running", ![App(p)].image = req[p].image]
          /\ Continue(p, "sync")
       \/ "row" \in Faults /\ Fail(p) /\ UNCHANGED row
    /\ UNCHANGED <<deploys, ctr, helper>>

\* Mutated form of DeploySettle: WHERE app_id = ? in place of WHERE id = ?.
DeploySettleAll(p, step, status) ==
    /\ At(p, step)
    /\ deploys' = [d \in DOMAIN deploys |->
                    IF Live(d, App(p)) THEN [deploys[d] EXCEPT !.status = status]
                                       ELSE deploys[d]]
    /\ Finish(p)
    /\ UNCHANGED <<row, ctr, helper>>

\* set_status; a record that delete has removed stays removed.
DeploySettle(p, step, status) ==
    /\ At(p, step)
    /\ deploys' = IF deploys[req[p].rec].status = "deleted" THEN deploys
                  ELSE [deploys EXCEPT ![req[p].rec].status = status]
    /\ Finish(p)
    /\ UNCHANGED <<row, ctr, helper>>

DeploySucceeds(p) == DeploySettle(p, "settleOk", "succeeded")
DeployFails(p) == \E step \in {"settleFailed", "settleLate"} : DeploySettle(p, step, "failed")

\* caddy::sync_configuration, whose own error is only warned about, and then
\* what is left of the request: a restart has only stopped the app so far.
Sync(p) ==
    /\ At(p, "sync")
    /\ CASE Is(p, "deploy") -> \/ Continue(p, "settleOk")
                               \/ "log" \in Faults /\ Continue(p, "settleLate")
         [] Is(p, "restart") /\ req[p].image = None -> Continue(p, "startFind")
         [] OTHER -> Finish(p)
    /\ UNCHANGED <<row, deploys, ctr, helper>>

-----------------------------------------------------------------------------
(* commands::start::start_container *)

\* The volume, the image's user, then the init container: its name is taken
\* (409) while an earlier one of this app exists.
InitCreate(p) ==
    /\ At(p, "initCreate")
    /\ \/ /\ helper[App(p)] = "none"
          /\ helper' = [helper EXCEPT ![App(p)] = "created"]
          /\ Continue(p, "initStart")
       \/ /\ helper[App(p)] # "none" \/ "docker" \in Faults
          /\ Fail(p)
          /\ UNCHANGED helper
    /\ UNCHANGED <<row, deploys, ctr>>

InitStart(p) ==
    /\ At(p, "initStart")
    /\ \/ /\ helper' = [helper EXCEPT ![App(p)] = "running"]
          /\ Continue(p, "initWait")
       \/ "docker" \in Faults /\ Fail(p) /\ UNCHANGED helper
    /\ UNCHANGED <<row, deploys, ctr>>

\* The poll of init_app_volume: exited with 0, failed, gone, or out of time.
InitWait(p) ==
    /\ At(p, "initWait")
    /\ \/ helper[App(p)] = "none" /\ Continue(p, "verify")
       \/ helper[App(p)] = "none" /\ Faults \cap {"reap", "docker"} # {} /\ Fail(p)
       \/ helper[App(p)] = "running" /\ Faults \cap {"timeout", "docker"} # {} /\ Fail(p)
    /\ UNCHANGED <<row, deploys, ctr, helper>>

\* verify_volume_single_writer: no running container has the volume.
VerifySingleWriter(p) ==
    /\ At(p, "verify")
    /\ IF Running(App(p)) \/ helper[App(p)] = "running"
       THEN Fail(p)
       ELSE Continue(p, "create") \/ ("docker" \in Faults /\ Fail(p))
    /\ UNCHANGED <<row, deploys, ctr, helper>>

\* docker::run: keep a running container, else remove the old one and create.
RunCreate(p) ==
    /\ At(p, "create")
    /\ \/ Running(App(p)) /\ Started(p) /\ UNCHANGED ctr
       \/ /\ ~Running(App(p))
          /\ ctr' = [ctr EXCEPT ![App(p)] = [st |-> "created", image |-> req[p].image]]
          /\ Continue(p, "boot")
       \/ /\ ~Running(App(p)) /\ "docker" \in Faults
          /\ \/ ctr' = [ctr EXCEPT ![App(p)] = None]
             \/ UNCHANGED ctr
          /\ Fail(p)
    /\ UNCHANGED <<row, deploys, helper>>

\* Mutated form of RunBoot: the error of start_container is only logged.
RunBootUnchecked(p) ==
    /\ At(p, "boot")
    /\ Started(p)
    /\ \/ ctr' = [ctr EXCEPT ![App(p)] = [st |-> "running", image |-> req[p].image]]
       \/ "docker" \in Faults /\ UNCHANGED ctr
    /\ UNCHANGED <<row, deploys, helper>>

RunBoot(p) ==
    /\ At(p, "boot")
    /\ \/ /\ ctr' = [ctr EXCEPT ![App(p)] = [st |-> "running", image |-> req[p].image]]
          /\ Started(p)
       \/ "docker" \in Faults /\ Fail(p) /\ UNCHANGED ctr
    /\ UNCHANGED <<row, deploys, helper>>

-----------------------------------------------------------------------------
(* commands::start::execute, commands::stop::execute *)

\* Mutated form of Startable: an app that was never deployed is not refused.
StartableUndeployed(r) == r # None /\ r.state # "running"

Startable(r) == r # None /\ r.state # "running" /\ r.image # None

\* A row already marked running ends the start without a look at Docker.
StartFind(p) ==
    /\ At(p, "startFind")
    /\ LET r == row[App(p)] IN
       IF Startable(r)
       THEN /\ req' = [req EXCEPT ![p].pc = "initCreate", ![p].image = r.image,
                                  ![p].snap = r]
            /\ UNCHANGED lock
       ELSE Finish(p)
    /\ UNCHANGED <<row, deploys, ctr, helper>>

\* db::app::save of the row read earlier: every column is written, and a row
\* deleted in between is inserted again.
SaveRow(p, r) == row' = [row EXCEPT ![App(p)] = r]

SaveRunning(p) ==
    /\ At(p, "save")
    /\ SaveRow(p, [req[p].snap EXCEPT !.state = "running"])
    /\ IF Is(p, "nightly") THEN Finish(p) ELSE Continue(p, "sync")
    /\ UNCHANGED <<deploys, ctr, helper>>

StopFind(p) ==
    /\ At(p, "stopFind")
    /\ \/ row[App(p)] = None /\ Finish(p)
       \/ /\ row[App(p)] # None
          /\ req' = [req EXCEPT ![p].pc = "stopCtr", ![p].snap = row[App(p)]]
          /\ UNCHANGED lock
    /\ UNCHANGED <<row, deploys, ctr, helper>>

\* Mutated form of StopContainers: a failed stop is only warned about.
StopContainersWarn(p) ==
    /\ At(p, "stopCtr")
    /\ \/ StopMatching(Matching(App(p)))
       \/ "docker" \in Faults /\ UNCHANGED ctr
    /\ Continue(p, CASE Is(p, "nightly") -> "initCreate"
                     [] Is(p, "delete") -> "deleteRecords"
                     [] OTHER -> "saveStopped")
    /\ UNCHANGED <<row, deploys, helper>>

\* Mutated form of StopContainers: stop returns without saving the state.
StopContainersUnsaved(p) ==
    /\ At(p, "stopCtr")
    /\ StopMatching(Matching(App(p)))
    /\ Finish(p)
    /\ UNCHANGED <<row, deploys, helper>>

\* docker::stop matches container names by substring.  On an error it leaves
\* some of them stopped; delete only warns and goes on.
StopContainers(p) ==
    /\ At(p, "stopCtr")
    /\ \/ /\ StopMatching(Matching(App(p)))
          /\ Continue(p, CASE Is(p, "nightly") -> "initCreate"
                           [] Is(p, "delete") -> "deleteRecords"
                           [] OTHER -> "saveStopped")
       \/ /\ "docker" \in Faults
          /\ \E stopped \in SUBSET Matching(App(p)) : StopMatching(stopped)
          /\ IF Is(p, "delete") THEN Continue(p, "deleteRecords") ELSE Finish(p)
    /\ UNCHANGED <<row, deploys, helper>>

\* Both stop_app and restart_app sync; the latter goes on to start::execute
\* under the same lock.
SaveStopped(p) ==
    /\ At(p, "saveStopped")
    /\ SaveRow(p, [req[p].snap EXCEPT !.state = "stopped"])
    /\ Continue(p, "sync")
    /\ UNCHANGED <<deploys, ctr, helper>>

-----------------------------------------------------------------------------
(* restart::restart_running_apps, one request per app of the pass *)

\* get_all at the start of the pass: the only read of the row.
NightlyList(p) ==
    /\ At(p, "list")
    /\ \/ row[App(p)] = None /\ Finish(p)
       \/ /\ row[App(p)] # None
          /\ req' = [req EXCEPT ![p].pc = "live", ![p].snap = row[App(p)],
                                ![p].image = row[App(p)].image]
          /\ UNCHANGED lock
    /\ UNCHANGED <<row, deploys, ctr, helper>>

\* The opt-out variable, then the live state.
NightlyLive(p) ==
    /\ At(p, "live")
    /\ IF Running(App(p)) THEN Continue(p, "tryLock") \/ Finish(p) ELSE Finish(p)
    /\ UNCHANGED <<row, deploys, ctr, helper>>

\* Mutated form of TryLockApp: the pass takes the lock from its holder.
TryLockAppAlways(p) ==
    /\ At(p, "tryLock")
    /\ lock' = [lock EXCEPT ![App(p)] = p]
    /\ Goto(p, "recheck")
    /\ UNCHANGED <<row, deploys, ctr, helper>>

\* try_lock_app: a released lock goes to the first waiter, not to a try_lock.
TryLockApp(p) ==
    /\ At(p, "tryLock")
    /\ LET free == lock[App(p)] = None /\ \A q \in Procs : At(q, "acquire") => App(q) # App(p)
       IN \/ /\ free
             /\ lock' = [lock EXCEPT ![App(p)] = p]
             /\ Goto(p, "recheck")
          \/ ~free /\ Finish(p)
    /\ UNCHANGED <<row, deploys, ctr, helper>>

\* Mutated form of NightlyRecheck: the first look at the live state counts.
NightlyNoRecheck(p) ==
    /\ At(p, "recheck")
    /\ IF req[p].image # None THEN Continue(p, "stopCtr") ELSE Finish(p)
    /\ UNCHANGED <<row, deploys, ctr, helper>>

\* The live state again, now under the lock; the row is not read again.
NightlyRecheck(p) ==
    /\ At(p, "recheck")
    /\ \/ Running(App(p)) /\ req[p].image # None /\ Continue(p, "stopCtr")
       \/ /\ ~Running(App(p)) \/ req[p].image = None \/ "docker" \in Faults
          /\ Finish(p)
    /\ UNCHANGED <<row, deploys, ctr, helper>>

-----------------------------------------------------------------------------
(* The handlers that take no lock *)

\* domain::add and remove, health_check::set and unset: read the row unless
\* the input is refused, ...
EditRead(p) ==
    /\ At(p, "editRead")
    /\ \/ Finish(p)
       \/ /\ row[App(p)] # None
          /\ req' = [req EXCEPT ![p].pc = "editSave", ![p].snap = row[App(p)]]
          /\ UNCHANGED lock
    /\ UNCHANGED <<row, deploys, ctr, helper>>

\* ... change one column and save the whole row.
EditSave(p) ==
    /\ At(p, "editSave")
    /\ \E s \in Settings : SaveRow(p, [req[p].snap EXCEPT !.cfg = s])
    /\ Continue(p, "sync")
    /\ UNCHANGED <<deploys, ctr, helper>>

\* delete::execute refuses a row marked running.
DeleteFind(p) ==
    /\ At(p, "deleteFind")
    /\ IF row[App(p)] = None \/ row[App(p)].state = "running"
       THEN Finish(p) ELSE Continue(p, "stopCtr")
    /\ UNCHANGED <<row, deploys, ctr, helper>>

DeleteRecords(p) ==
    /\ At(p, "deleteRecords")
    /\ deploys' = [d \in DOMAIN deploys |->
                    IF Live(d, App(p)) THEN [deploys[d] EXCEPT !.status = "deleted"]
                                       ELSE deploys[d]]
    /\ Continue(p, "deleteRow")
    /\ UNCHANGED <<row, ctr, helper>>

\* The foreign key of a deploy inserted meanwhile refuses the row's deletion.
DeleteRow(p) ==
    /\ At(p, "deleteRow")
    /\ IF \E d \in DOMAIN deploys : Live(d, App(p))
       THEN Finish(p) /\ UNCHANGED row
       ELSE row' = [row EXCEPT ![App(p)] = None] /\ Continue(p, "sync")
    /\ UNCHANGED <<deploys, ctr, helper>>

-----------------------------------------------------------------------------
(* The environment *)

\* The init container runs to its end and Docker removes it.
HelperExits(a) ==
    /\ helper[a] = "running"
    /\ helper' = [helper EXCEPT ![a] = "none"]
    /\ UNCHANGED <<row, deploys, ctr, lock, req>>

\* docker::pull, of the deploy's image or of the init container's, and the POST
\* of sync_configuration wait for their peer without a limit.
Hang(p) ==
    /\ "hang" \in Faults
    /\ \/ (At(p, "pull") \/ At(p, "initCreate")) /\ Continue(p, "hung")
       \/ At(p, "sync") /\ Continue(p, "syncHung")
    /\ UNCHANGED <<row, deploys, ctr, helper>>

Cancel(p) ==
    /\ "cancel" \in Faults
    /\ ~At(p, "idle")
    /\ Finish(p)
    /\ UNCHANGED <<row, deploys, ctr, helper>>

\* dockerd restarts: restart policy ALWAYS brings back stopped containers too.
DaemonRestart ==
    /\ "daemon" \in Faults
    /\ ctr' = [a \in Apps |-> IF ctr[a] # None /\ ctr[a].st = "exited"
                              THEN [ctr[a] EXCEPT !.st = "running"] ELSE ctr[a]]
    /\ helper' = [a \in Apps |-> IF helper[a] = "running" THEN "none" ELSE helper[a]]
    /\ UNCHANGED <<row, deploys, lock, req>>

-----------------------------------------------------------------------------

\* The steps a request takes once the peer it calls, if any, has answered.
Step(p) ==
    \/ DeployExists(p) \/ DeployFind(p) \/ DeployInsert(p) \/ DeployPull(p)
    \/ DeployHalt(p) \/ DeployRemove(p) \/ SetDeployed(p) \/ Sync(p)
    \/ DeploySucceeds(p) \/ DeployFails(p)
    \/ InitCreate(p) \/ InitStart(p) \/ InitWait(p) \/ VerifySingleWriter(p)
    \/ RunCreate(p) \/ RunBoot(p)
    \/ StartFind(p) \/ SaveRunning(p)
    \/ StopFind(p) \/ StopContainers(p) \/ SaveStopped(p)
    \/ NightlyList(p) \/ NightlyLive(p) \/ TryLockApp(p) \/ NightlyRecheck(p)
    \/ EditRead(p) \/ EditSave(p)
    \/ DeleteFind(p) \/ DeleteRecords(p) \/ DeleteRow(p)

Next ==
    \/ \E p \in Procs : Arrive(p) \/ LockApp(p) \/ Step(p) \/ Hang(p) \/ Cancel(p)
    \/ \E a \in Apps : HelperExits(a)
    \/ DaemonRestart

Spec == Init /\ [][Next]_vars

\* A request goes on unless its peer never answers (Hang): Docker calls but the
\* pull time out after 120 s, the pull and Caddy's API answer at some time or
\* never.  The init container ends, and tokio's mutex is fair: a waiter gets a
\* lock that is released again and again.
Fairness ==
    /\ \A p \in Procs : WF_vars(Step(p)) /\ SF_vars(LockApp(p))
    /\ \A a \in Apps : WF_vars(HelperExits(a))

FairSpec == Spec /\ Fairness

-----------------------------------------------------------------------------
(* Properties *)

\* p is inside the section that an app's lock protects.
InSection(p) ==
    /\ req[p].kind \in LockedKinds
    /\ req[p].pc \notin UnlockedSteps \cup {"idle"}

Free(a) == lock[a] = None

TypeOK ==
    /\ row \in [Apps -> Row \cup {None}]
    /\ deploys \in Seq(Deploy)
    /\ ctr \in [Apps -> Container \cup {None}]
    /\ helper \in [Apps -> {"none", "created", "running"}]
    /\ lock \in [Apps -> Procs \cup {None}]
    /\ req \in [Procs -> Request]

\* Deploys, starts, stops, restarts and nightly restarts of one app never
\* overlap (lock_app, commands/server.rs:33-44), whatever is cancelled.
OneOperationPerApp ==
    \A p, q \in Procs :
        InSection(p) /\ InSection(q) /\ App(p) = App(q) => p = q

\* A lock that is held is held by a request inside its section: an error, a
\* dropped future or a crash leaves no lock behind.
LockFollowsHolder ==
    \A a \in Apps : ~Free(a) => InSection(lock[a]) /\ App(lock[a]) = a

\* A deploy record says in_progress only while a request that holds the
\* app's lock works on it: no record is left behind (deploy_app).
InProgressOwned ==
    \A d \in DOMAIN deploys : deploys[d].status = "in_progress" =>
        \E p \in Procs : /\ Is(p, "deploy") /\ InSection(p) /\ req[p].rec = d
                          /\ lock[deploys[d].app] = p

\* Between operations a running container runs the image the app row names:
\* neither a failed deploy nor a start leaves the two apart.
RowMatchesContainer ==
    \A a \in Apps : Free(a) /\ Running(a) /\ row[a] # None => row[a].image = ctr[a].image

\* Between operations an app row marked stopped has no running container.
StoppedRowIsDown ==
    \A a \in Apps : Free(a) /\ row[a] # None /\ row[a].state = "stopped" => ~Running(a)

\* When every Docker call succeeds, an app marked running is running.
RunningRowIsUp ==
    \A a \in Apps : Free(a) /\ row[a].state = "running" => Running(a)

Succeeded(a) == {d \in DOMAIN deploys : deploys[d].app = a
                                        /\ deploys[d].status = "succeeded"}

\* The deploys that may have failed by what they could not log, after the switch.
FailedLate(a) == {d \in DOMAIN deploys : /\ "log" \in Faults
                                         /\ deploys[d].app = a /\ deploys[d].status = "failed"}

\* The image of the row is that of the last deploy that succeeded, or of a later
\* one whose log could not be written: no save of an older row takes a deploy back.
LatestDeployWins ==
    \A a \in Apps : \A d \in Succeeded(a) :
        Free(a) /\ (\A e \in Succeeded(a) : e <= d) =>
            \E e \in {d} \cup FailedLate(a) : d <= e /\ row[a].image = deploys[e].image

\* A deploy is reported as succeeded while its container runs and its image
\* and state are in the row.
SucceededServes ==
    \A p \in Procs : At(p, "settleOk") =>
        LET a == App(p) IN
        /\ Running(a)
        /\ ctr[a].image = req[p].image
        /\ row[a].image = req[p].image /\ row[a].state = "running"

\* The init container, which changes owner and mode of the data directory,
\* never runs beside the app's container on the same volume.
HelperRunsAlone ==
    \A a \in Apps : helper[a] = "running" => ~Running(a)

\* A settled deploy record never changes again; it can only be deleted.
SettledIsFinal ==
    [][\A d \in DOMAIN deploys :
        deploys[d].status \in {"succeeded", "failed"} =>
            deploys'[d].status \in {deploys[d].status, "deleted"}]_deploys

\* The nightly pass restarts an app only while its row says it is running: an
\* app stopped by hand before the pass got the lock stays stopped.
NightlyNeverRevives ==
    \A p \in Procs :
        Is(p, "nightly") /\ InSection(p) /\ ~At(p, "recheck") /\ row[App(p)] # None =>
            row[App(p)].state = "running"

Hung(p) == At(p, "hung") \/ At(p, "syncHung")

\* Every request ends, the ones that wait for a lock included, unless it, or
\* the holder of its app's lock, waits for a pull or a Caddy that never answers.
RequestsComplete ==
    \A p \in Procs : ~At(p, "idle") ~>
        At(p, "idle") \/ Hung(p) \/ \E q \in Procs : Hung(q) /\ lock[App(p)] = q

\* DeployLedger's view: a deploy has switched once its image is in the row.
SwitchedSteps == {"sync", "syncHung", "settleOk", "settleLate"}
Switched(d) == \E p \in Procs : Is(p, "deploy") /\ req[p].pc \in SwitchedSteps /\ req[p].rec = d

Ledger == INSTANCE DeployLedger WITH
    FailsLate <- "log" \in Faults,
    image <- [a \in Apps |-> row[a].image],
    ledger <- [d \in DOMAIN deploys |->
                [deploys[d] EXCEPT !.status = IF Switched(d) THEN "switched" ELSE @]]

\* The lifecycle implements the ledger as long as every handler that writes
\* the row takes the lock and reads the row under it; a deploy that switched
\* fails only when its log cannot be written.
ImplementsLedger == Ledger!Spec

-----------------------------------------------------------------------------
(* What the documentation says and the code does not do *)

\* docs/superpowers/specs/2026-07-15-nightly-app-restart-design.md: the
\* nightly restart uses "the currently-deployed image".
NightlyRestartsDeployedImage ==
    \A p \in Procs :
        Is(p, "nightly") /\ InSection(p) => req[p].image = row[App(p)].image

\* docs/superpowers/specs/2026-07-03-litehouse-v2-design.md: "Failed deploys
\* keep the previous container running".
FailedDeployKeepsContainer ==
    \A p \in Procs :
        At(p, "settleFailed") /\ row[App(p)].state = "running" => Running(App(p))

\* api.rs, delete_app: an app that is running has to be stopped first.
DeleteSparesRunning ==
    [][\A a \in Apps : row[a] # None /\ row'[a] = None => row[a].state # "running"]_row

\* health_check.rs and domain.rs: the edit is in the database and a later
\* sync will pick it up, so nothing but another edit changes it.
EditSurvives ==
    [][\A a \in Apps :
        row[a] # None /\ row'[a] # None /\ row[a].cfg # row'[a].cfg =>
            \E p \in Procs : At(p, "editSave") /\ req'[p].pc = "sync"]_<<row, req>>

=============================================================================
