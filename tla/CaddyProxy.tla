----------------------------- MODULE CaddyProxy -----------------------------
(***************************************************************************)
(* The reverse proxy: the server's boot, which brings the Caddy container  *)
(* up call by Docker call, and the synchronisation of Caddy's routes with  *)
(* the app table by every handler that changes a row.                      *)
(*                                                                         *)
(* A sync reads all rows in one query and posts the routes it built in a   *)
(* second step; nothing orders two syncs.  Caddy keeps the last routes it  *)
(* was given in its config volume and resumes with them.  An app's derived *)
(* host is represented by the app's name.                                  *)
(***************************************************************************)
EXTENDS Naturals, Sequences, FiniteSets

CONSTANTS
    ByName,     \* the app names, in the order get_all returns their rows
    Domains,    \* custom domains that may be added to an app
    AdminHost,  \* {admin_label}.{domain}
    Server,     \* litehouse-server:3030
    Ports,      \* configured pairs of HTTP and HTTPS host ports
    Requests,   \* slots for requests and for the nightly pass
    Boot,       \* the server's boot
    MaxPolls,   \* polls for a restarting container: 30 in the code
    MaxEvents,  \* bound on requests, failing calls, dropped requests, server
                \* crashes and disturbances of the container, together
    NoRow

Apps == {ByName[i] : i \in 1..Len(ByName)}

ASSUME CaddyOrder == ByName \in Seq(Apps)
ASSUME CaddyBounds == {MaxPolls, MaxEvents} \subseteq Nat \ {0}
ASSUME CaddyNames == Boot \notin Requests /\ {NoRow, Server} \cap Apps = {} /\ NoRow # Server

VARIABLES
    rows,       \* the app table
    named,      \* the server's domain is configured, or this is local dev
    want,       \* the ports of the server's configuration
    found,      \* which of Caddy's network, volumes and image exist
    caddy,      \* the Caddy container
    table,      \* the routes in Caddy's config volume
    boot,       \* where the boot is
    req,        \* the requests and the boot's own sync
    overtaken,  \* history: the syncs under way whose read a later one was posted before
    owed,       \* history: why the routes may lag behind the rows
    events      \* the events so far

proxy == <<found, caddy>>
vars == <<rows, named, want, proxy, table, boot, req, overtaken, owed, events>>

\* One id more than requests can still hold of rows that are gone.
Ids == 0..Cardinality(Requests)
Row == [id : Ids, deployed : BOOLEAN, domains : SUBSET Domains, checked : BOOLEAN]

\* A list of routes: an app that has none leaves its place empty.
Places == 0..Len(ByName)
NoRoute == [hosts |-> {}, to |-> NoRow, checked |-> FALSE]
NoRoutes == [i \in Places |-> NoRoute]

Things == {"network", "volumes", "image"}
States == {"none", "created", "running", "paused", "restarting", "exited", "dead"}
Edits == {"add", "remove", "check", "uncheck"}
Kinds == Edits \cup {"start", "deploy", "delete", "restore", "create", "nightly", "rotate"}
BootPcs == {"down", "ensure", "look", "health", "ports", "stop", "rm", "create", "start",
            "verify", "restart", "unpause", "poll", "sync", "up"}

\* ok and seen are history fields: the outcome of the last boot, and the state
\* it found Caddy in, or "disturbed" once a call has failed or something has
\* happened to the container since the boot began.
NoBoot == [pc |-> "down", polls |-> 0, seen |-> "none", ok |-> FALSE]
Quiet == boot.seen # "disturbed"

\* older is a history field: the syncs still to post that had read before.
NoReq == [pc |-> "idle", kind |-> "none", app |-> NoRow, row |-> NoRow, built |-> NoRoutes,
          older |-> {}]

Init ==
    /\ rows = [a \in Apps |-> NoRow] /\ named \in BOOLEAN /\ want \in Ports
    /\ found = {} /\ caddy = [state |-> "none", ports |-> want]
    /\ table = NoRoutes /\ boot = NoBoot
    /\ req = [p \in Requests \cup {Boot} |-> NoReq]
    /\ overtaken = {} /\ owed = {}
    /\ events = 0

-----------------------------------------------------------------------------
(* build_caddy_config *)

AdminRoute == IF named THEN [hosts |-> {AdminHost}, to |-> Server, checked |-> FALSE]
                       ELSE NoRoute

Routed(a) == rows[a] # NoRow /\ rows[a].deployed

AppRoute(a) == IF Routed(a)
               THEN [hosts |-> {a} \cup rows[a].domains, to |-> a, checked |-> rows[a].checked]
               ELSE NoRoute

\* Mutated form of Routes: the admin route is pushed after the apps' routes.
RoutesAdminLast ==
    [i \in Places |-> IF i = Len(ByName) THEN AdminRoute ELSE AppRoute(ByName[i + 1])]

\* The admin route, then the apps in the order of their rows.
Routes == [i \in Places |-> IF i = 0 THEN AdminRoute ELSE AppRoute(ByName[i])]

\* No domain, and an app to route to: the whole configuration is refused.
CannotBuild == ~named /\ \E a \in Apps : Routed(a)

\* Caddy takes the first route that matches a host.
Serves(t, host) ==
    LET matching == {i \in Places : host \in t[i].hosts}
    IN IF matching = {} THEN NoRow
       ELSE t[CHOOSE i \in matching : \A j \in matching : i <= j].to

-----------------------------------------------------------------------------
(* Handlers that change rows *)

At(p, pc) == req[p].pc = pc
Up == boot.pc = "up"
Pending == {p \in Requests \cup {Boot} : req[p].pc \in {"sync", "post"}}

\* The request is over, and no sync is older or newer than it.
Gone(p) == req' = [q \in DOMAIN req |-> IF q = p THEN NoReq
                                        ELSE [req[q] EXCEPT !.older = @ \ {p}]]

Event == events < MaxEvents /\ events' = events + 1

\* The handler has read its row: get_by_name, or the nightly pass's get_all.
Begin(p, kind, a) ==
    /\ Up /\ At(p, "idle") /\ kind \notin {"create", "restore"}
    /\ rows[a] # NoRow
    /\ req' = [req EXCEPT ![p] = [NoReq EXCEPT !.pc = "change", !.kind = kind,
                                               !.app = a, !.row = rows[a]]]
    /\ Event
    /\ UNCHANGED <<rows, named, want, proxy, table, boot, overtaken, owed>>

\* A fresh uuid: no row and no handler has it.
NewId == CHOOSE i \in Ids : \A p \in Requests : req[p].row # NoRow => req[p].row.id # i

\* commands::create inserts a row without an image; restore merges a
\* snapshot's row unless the name is taken.
Insert(p, kind, a) ==
    /\ Up /\ At(p, "idle") /\ kind \in {"create", "restore"}
    /\ rows[a] = NoRow
    /\ \E row \in Row :
        /\ row.id = NewId
        /\ kind = "create" => row = [id |-> NewId, deployed |-> FALSE, domains |-> {},
                                     checked |-> FALSE]
        /\ rows' = [rows EXCEPT ![a] = row]
    /\ req' = IF kind = "restore"
              THEN [req EXCEPT ![p] = [NoReq EXCEPT !.pc = "sync", !.kind = kind]]
              ELSE req
    /\ Event
    /\ UNCHANGED <<named, want, proxy, table, boot, overtaken, owed>>

\* db::app::save writes every column of the row read before, and inserts a row
\* that is gone; it fails when the name is another id's by now.
CanSave(p) == LET cur == rows[req[p].app] IN cur # NoRow => cur.id = req[p].row.id
Save(p, row) == rows' = [rows EXCEPT ![req[p].app] = row]

\* Mutated form of SyncNext: removing a domain does not sync.
SyncNextUnlessRemove(p) ==
    req' = [req EXCEPT ![p] = IF req[p].kind = "remove" THEN NoReq
                              ELSE [NoReq EXCEPT !.pc = "sync", !.kind = req[p].kind]]

\* The change is in the table; sync_configuration is called next.
SyncNext(p) == req' = [req EXCEPT ![p] = [NoReq EXCEPT !.pc = "sync", !.kind = req[p].kind]]

\* domain::add and remove, health_check::set and unset.
Edited(row, kind, d) ==
    CASE kind = "add"     -> [row EXCEPT !.domains = @ \cup {d}]
      [] kind = "remove"  -> [row EXCEPT !.domains = @ \ {d}]
      [] kind = "check"   -> [row EXCEPT !.checked = TRUE]
      [] kind = "uncheck" -> [row EXCEPT !.checked = FALSE]

EditRow(p) ==
    /\ At(p, "change") /\ req[p].kind \in Edits /\ CanSave(p)
    /\ \E d \in Domains :
        /\ req[p].kind = "remove" => d \in req[p].row.domains
        /\ Save(p, Edited(req[p].row, req[p].kind, d))
    /\ SyncNext(p)
    /\ UNCHANGED <<named, want, proxy, table, boot, overtaken, owed, events>>

\* start and stop: only the state changes, but the whole row is written.
ResaveRow(p) ==
    /\ At(p, "change") /\ req[p].kind = "start" /\ CanSave(p)
    /\ Save(p, req[p].row)
    /\ SyncNext(p)
    /\ UNCHANGED <<named, want, proxy, table, boot, overtaken, owed, events>>

\* The nightly pass and a token rotation write the whole row too, and do not
\* sync: what they undo stays routed.
ResaveQuietly(p) ==
    /\ At(p, "change") /\ req[p].kind \in {"nightly", "rotate"} /\ CanSave(p)
    /\ Save(p, req[p].row)
    /\ req' = [req EXCEPT ![p] = NoReq]
    /\ owed' = IF rows' = rows THEN owed ELSE owed \cup {"unsynced"}
    /\ UNCHANGED <<named, want, proxy, table, boot, overtaken, events>>

\* set_deployed updates two columns by id; delete removes by id.
UpdateRow(p) ==
    /\ At(p, "change") /\ req[p].kind \in {"deploy", "delete"}
    /\ LET a == req[p].app
           hit == rows[a] # NoRow /\ rows[a].id = req[p].row.id
           new == IF req[p].kind = "delete" THEN NoRow ELSE [rows[a] EXCEPT !.deployed = TRUE]
       IN rows' = IF hit THEN [rows EXCEPT ![a] = new] ELSE rows
    /\ SyncNext(p)
    /\ UNCHANGED <<named, want, proxy, table, boot, overtaken, owed, events>>

\* The save is refused, as the name is another id's: no sync either.
SaveRefused(p) ==
    /\ At(p, "change") /\ req[p].kind \notin {"deploy", "delete"} /\ ~CanSave(p)
    /\ req' = [req EXCEPT ![p] = NoReq]
    /\ UNCHANGED <<rows, named, want, proxy, table, boot, overtaken, owed, events>>

\* A Docker or database call of the handler fails, or its client goes away.
Drop(p) ==
    /\ Up /\ ~At(p, "idle") /\ Gone(p)
    /\ owed' = IF At(p, "change") THEN owed ELSE owed \cup {"failed"}
    /\ overtaken' = overtaken \ {p} /\ Event
    /\ UNCHANGED <<rows, named, want, proxy, table, boot>>

-----------------------------------------------------------------------------
(* sync_configuration; a failure is only warned about *)

SyncEnds(p, ok) ==
    /\ Gone(p)
    /\ boot' = IF p = Boot THEN [boot EXCEPT !.pc = "up", !.ok = ok] ELSE boot

Posting == {q \in Requests \cup {Boot} : At(q, "post")}

\* get_all and build_caddy_config.
ReadRows(p) ==
    /\ At(p, "sync")
    /\ IF CannotBuild
       THEN SyncEnds(p, FALSE) /\ owed' = owed \cup {"failed"}
       ELSE /\ req' = [req EXCEPT ![p].pc = "post", ![p].built = Routes, ![p].older = Posting]
            /\ UNCHANGED <<boot, owed>>
    /\ UNCHANGED <<rows, named, want, proxy, table, overtaken, events>>

\* It is about to post other routes than those of the rows.
Stale(q) == At(q, "post") /\ req[q].built # Routes

\* update_caddy_config: POST /load.  A running Caddy takes the routes, if it
\* ever answers; a paused one accepts the connection and is waited for, without
\* a limit; to any other the connection fails.  What was owed is paid when no
\* route that is about to be posted is stale.
Post(p) ==
    /\ At(p, "post") /\ caddy.state # "paused"
    /\ IF caddy.state = "running"
       THEN /\ table' = req[p].built
            /\ owed' = IF \A q \in Posting : ~Stale(q) THEN {}
                       ELSE owed \cup (IF Stale(p) /\ p \in overtaken THEN {"overtaken"} ELSE {})
            /\ overtaken' = (overtaken \cup req[p].older) \ {p}
            /\ SyncEnds(p, TRUE)
       ELSE /\ owed' = owed \cup {"failed"}
            /\ overtaken' = overtaken \ {p}
            /\ SyncEnds(p, FALSE)
            /\ UNCHANGED table
    /\ UNCHANGED <<rows, named, want, proxy, events>>

-----------------------------------------------------------------------------
(* caddy::start, during the boot; the API answers only after it *)

rest == <<rows, named, want, table, overtaken>>
AtBoot(pc) == boot.pc = pc
Goto(pc) == boot' = [boot EXCEPT !.pc = pc] /\ UNCHANGED <<req, owed, events, rest>>
In(state) == caddy' = [caddy EXCEPT !.state = state]

\* start returns Ok, and sync_on_boot goes on to the sync.
Started ==
    /\ boot' = [boot EXCEPT !.pc = "sync", !.polls = 0]
    /\ req' = [req EXCEPT ![Boot] = [NoReq EXCEPT !.pc = "sync"]]
    /\ UNCHANGED <<owed, events, rest>>

\* start returns Err: it is logged, and the admin API starts all the same.
StartFails ==
    /\ boot' = [boot EXCEPT !.pc = "up", !.ok = FALSE, !.polls = 0]
    /\ owed' = owed \cup {"failed"}
    /\ UNCHANGED <<req, rest>>

PowerOn ==
    /\ AtBoot("down")
    /\ boot' = [NoBoot EXCEPT !.pc = "ensure"]
    /\ UNCHANGED <<req, owed, events, rest, proxy>>

\* ensure_network_exists, ensure_volumes_exist, ensure_image_exists.
Ensure ==
    /\ AtBoot("ensure")
    /\ LET missing == SelectSeq(<<"network", "volumes", "image">>, LAMBDA x : x \notin found)
       IN IF missing = <<>> THEN Goto("look") /\ UNCHANGED found
                            ELSE Goto("ensure") /\ found' = found \cup {Head(missing)}
    /\ UNCHANGED caddy

\* get_container_state, and the branch it chooses.
Look ==
    /\ AtBoot("look")
    /\ boot' = [boot EXCEPT !.seen = IF Quiet THEN caddy.state ELSE @,
                    !.pc = CASE caddy.state = "none" -> "create"
                             [] caddy.state = "running" -> "health"
                             [] caddy.state = "created" -> "start"
                             [] caddy.state = "paused" -> "unpause"
                             [] caddy.state = "restarting" -> "poll"
                             [] caddy.state \in {"exited", "dead"} -> "stop"]
    /\ UNCHANGED <<req, owed, events, rest, proxy>>

\* verify_container_health.  Docker also calls a paused container running, and
\* may call a restarting one so.
MayBeHealthy == caddy.state \in {"running", "paused", "restarting"}
MayBeUnhealthy == caddy.state \notin {"running", "paused"}

\* Mutated form of CheckHealth: no health status means unhealthy.
CheckHealthStrict ==
    AtBoot("health") /\ Goto("restart") /\ UNCHANGED proxy

CheckHealth ==
    /\ AtBoot("health")
    /\ \/ MayBeHealthy /\ Goto("ports")
       \/ MayBeUnhealthy /\ Goto("restart")
    /\ UNCHANGED proxy

\* Mutated form of CheckPorts: any binding will do.
CheckPortsLoose ==
    AtBoot("ports") /\ Started /\ UNCHANGED proxy

\* verify_container_ports: only a running or paused container has bindings.
CheckPorts ==
    /\ AtBoot("ports")
    /\ IF caddy.state \in {"running", "paused"} /\ caddy.ports = want THEN Started ELSE Goto("stop")
    /\ UNCHANGED proxy

\* remove_container: a failing stop is ignored.
StopOld ==
    /\ AtBoot("stop")
    /\ In(IF caddy.state \in {"running", "paused", "restarting"} THEN "exited" ELSE caddy.state)
    /\ Goto("rm") /\ UNCHANGED found

RemoveOld ==
    /\ AtBoot("rm")
    /\ IF caddy.state \in {"created", "exited", "dead"}
       THEN In("none") /\ Goto("create")
       ELSE StartFails /\ UNCHANGED <<caddy, events>>
    /\ UNCHANGED found

\* create_and_start_container: the ports are bound for good here.
Create ==
    /\ AtBoot("create")
    /\ IF caddy.state = "none"
       THEN caddy' = [state |-> "created", ports |-> want] /\ Goto("start")
       ELSE StartFails /\ UNCHANGED <<caddy, events>>
    /\ UNCHANGED found

\* start_existing_container; starting a running container is no error.
Start ==
    /\ AtBoot("start")
    /\ IF caddy.state \in {"created", "exited", "running", "restarting"}
       THEN In("running") /\ Goto("verify")
       ELSE StartFails /\ UNCHANGED <<caddy, events>>
    /\ UNCHANGED found

\* Two seconds after a start, three after a restart.
Verify ==
    /\ AtBoot("verify")
    /\ \/ MayBeHealthy /\ Started
       \/ MayBeUnhealthy /\ StartFails /\ UNCHANGED events
    /\ UNCHANGED proxy

Restart ==
    /\ AtBoot("restart")
    /\ IF caddy.state \in {"created", "exited", "running", "paused", "restarting"}
       THEN In("running") /\ Goto("verify")
       ELSE StartFails /\ UNCHANGED <<caddy, events>>
    /\ UNCHANGED found

Unpause ==
    /\ AtBoot("unpause")
    /\ IF caddy.state = "paused"
       THEN In("running") /\ Goto("start")
       ELSE StartFails /\ UNCHANGED <<caddy, events>>
    /\ UNCHANGED found

\* Mutated form of Poll: a poll is not counted.
PollForever ==
    /\ AtBoot("poll")
    /\ \/ MayBeHealthy /\ Started
       \/ MayBeUnhealthy /\ Goto("poll")
    /\ UNCHANGED proxy

\* wait_for_container_stable.
Poll ==
    /\ AtBoot("poll")
    /\ \/ MayBeHealthy /\ Started
       \/ /\ MayBeUnhealthy /\ boot.polls + 1 < MaxPolls
          /\ boot' = [boot EXCEPT !.polls = @ + 1]
          /\ UNCHANGED <<req, owed, events, rest>>
       \/ /\ MayBeUnhealthy /\ boot.polls + 1 >= MaxPolls
          /\ StartFails /\ UNCHANGED events
    /\ UNCHANGED proxy

\* A Docker call fails.  A failing inspection counts as unhealthy, or as the
\* wrong ports: Caddy is restarted, removed and created again, or given up.
CallFails ==
    /\ Event
    /\ \/ /\ \/ boot.pc \in {"ensure", "look", "rm", "create", "start", "verify",
                             "restart", "unpause"}
             \/ AtBoot("poll") /\ boot.polls + 1 >= MaxPolls
          /\ boot' = [boot EXCEPT !.pc = "up", !.ok = FALSE, !.polls = 0, !.seen = "disturbed"]
          /\ owed' = owed \cup {"failed"}
       \/ /\ AtBoot("poll") /\ boot.polls + 1 < MaxPolls
          /\ boot' = [boot EXCEPT !.polls = @ + 1, !.seen = "disturbed"]
          /\ UNCHANGED owed
       \/ /\ boot.pc \in {"health", "ports", "stop"}
          /\ boot' = [boot EXCEPT !.seen = "disturbed",
                          !.pc = CASE AtBoot("health") -> "restart"
                                   [] AtBoot("ports") -> "stop"
                                   [] AtBoot("stop") -> "rm"]
          /\ UNCHANGED owed
    /\ UNCHANGED <<req, rest, proxy>>

-----------------------------------------------------------------------------
(* The server's death, and what happens to the container *)

Die ==
    /\ boot.pc # "down" /\ Event
    /\ boot' = NoBoot
    /\ req' = [p \in Requests \cup {Boot} |-> NoReq]
    /\ owed' = IF Pending = {} THEN owed ELSE owed \cup {"failed"}
    /\ overtaken' = {}
    /\ UNCHANGED <<rows, named, want, table, proxy>>

\* The operator installs again with other ports, or with or without a domain.
Reconfigure ==
    /\ AtBoot("down") /\ Event
    /\ want' \in Ports /\ named' \in BOOLEAN
    /\ UNCHANGED <<rows, table, proxy, boot, req, overtaken, owed>>

\* Caddy dies and Docker will restart it; it is stopped, paused or half removed.
Disturb ==
    /\ Event /\ caddy.state = "running"
    /\ \E s \in {"restarting", "exited", "paused", "dead"} : In(s)
    /\ boot' = [boot EXCEPT !.seen = "disturbed"]
    /\ UNCHANGED <<rows, named, want, found, table, req, overtaken, owed>>

\* UNLESS_STOPPED.
Recover ==
    /\ caddy.state = "restarting" /\ In("running")
    /\ UNCHANGED <<rows, named, want, found, table, boot, req, overtaken, owed, events>>

-----------------------------------------------------------------------------

Handler(p) ==
    \/ \E a \in Apps, kind \in Kinds : Begin(p, kind, a) \/ Insert(p, kind, a)
    \/ EditRow(p) \/ ResaveRow(p) \/ ResaveQuietly(p) \/ UpdateRow(p)
    \/ SaveRefused(p) \/ Drop(p)

Sync(p) == ReadRows(p) \/ Post(p)

BootStep ==
    \/ Ensure \/ Look \/ CheckHealth \/ CheckPorts \/ StopOld \/ RemoveOld \/ Create
    \/ Start \/ Verify \/ Restart \/ Unpause \/ Poll

Next ==
    \/ PowerOn \/ BootStep \/ CallFails \/ Die \/ Reconfigure \/ Disturb \/ Recover
    \/ \E p \in Requests : Handler(p)
    \/ \E p \in Requests \cup {Boot} : Sync(p)

\* Two waits of the boot have no limit: for the pull of Caddy's image, and for
\* the answer of a Caddy that accepts the connection.
Pulling == AtBoot("ensure") /\ found = Things \ {"image"}
AwaitsCaddy == At(Boot, "post") /\ caddy.state \in {"running", "paused"}

\* Otherwise the boot is straight-line code, whose Docker calls answer or time
\* out after 120 s; requests and Docker are not assumed to make progress.
Spec ==
    /\ Init /\ [][Next]_vars
    /\ WF_vars(BootStep /\ ~Pulling)
    /\ WF_vars(Sync(Boot) /\ ~AwaitsCaddy)

-----------------------------------------------------------------------------
(* Properties *)

\* While the server is up, the routes differ from the app table only when a
\* sync is still to come, when one failed or was dropped, when one posted rows
\* read before another's post, or when a save that never syncs undid a change:
\* every other handler that changes a row syncs after its write.
RoutesCatchUp == Up /\ table # Routes => Pending # {} \/ owed # {}

\* No custom domain takes the admin host away from the server
\* (build_caddy_config puts the admin route first).
AdminReachable ==
    \A i \in Places :
        table[i].to = Server => Serves(table, AdminHost) = Server

\* A boot during which no call fails and nothing happens to the container
\* leaves Caddy running, whatever state it was in, unless it was restarting;
\* unless it had been left created or paused, it is on the configured ports.
QuietBootServes ==
    Up /\ boot.seen \notin {"disturbed", "restarting"} =>
        /\ caddy.state = "running"
        /\ named => boot.ok
        /\ boot.seen \notin {"created", "paused"} => caddy.ports = want

\* Such a boot never stops or restarts a Caddy that runs on the configured ports.
QuietBootKeepsCaddy ==
    [][boot.pc \notin {"down", "up"} /\ Quiet'
       /\ caddy = [state |-> "running", ports |-> want]
       => caddy' = caddy /\ boot'.pc # "restart"]_vars

\* Whatever Docker answers, the boot comes to an end and the admin API starts,
\* unless the pull or Caddy's admin API never answers.
BootEnds ==
    boot.pc \notin {"up", "down"} ~> boot.pc \in {"up", "down"} \/ Pulling \/ AwaitsCaddy

\* caddy.rs says of start_existing_container that the container will use the
\* ports of the ServerConfig.
StartedOnConfiguredPorts == Up /\ boot.ok /\ Quiet => caddy.ports = want
=============================================================================
