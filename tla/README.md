# Litehouse: models, checks and proofs

TLA+ modules of litehouse (`src/`, Rust), a self-hosted platform that deploys
one container per app on a single node: an axum server on tokio, a SQLite
database, the Docker daemon, a Caddy proxy and S3 backups. Every definition is
translated from the source; `PROJECT.json` maps each one to its lines.

## 1. Inventory

| Component | State it keeps | Operations | What is hard about it | What makes it correct |
|---|---|---|---|---|
| App lifecycle (`deploy.rs`, `commands/start.rs`, `stop.rs`, `docker.rs`) | `app` row (state, image), `deploy` rows, the container | deploy, hook deploy, start, stop, restart | dozens of awaits per request; errors at each; two requests for one app | operations of an app never overlap; row and container agree when none runs; a deploy record is settled once, by its own deploy |
| Per-app lock (`commands/server.rs` 30-64) | map of name to `tokio::Mutex` | `lock_app`, `try_lock_app` | dropped futures, fairness | exclusion, no lock left behind, every waiter served |
| Volume manager (`volume.rs`) | Docker volume, init container | `init_app_volume`, `verify_volume_single_writer`, create, delete | 30 s wait, 404 race with auto-remove, 409 on the name | the init container never runs beside the app |
| Nightly restart (`restart.rs`) | `last_nightly_restart_date` | hourly tick, pass over all running apps | reads rows and live state before the lock | never restarts what was stopped, once per night |
| Delete and settings edits (`commands/delete.rs`, `domain.rs`, `health_check.rs`) | `app` and `deploy` rows | delete, domain add/remove, health check set/unset | take no lock, read then write whole rows | no lost edit, no running app deleted |
| Backups (`backup.rs`, `db/backup.rs`) | S3 objects, `backup` catalog, staging directory | `run_backup`, prune | failures between steps, containers that outlive the request | whatever is in S3 can be restored; the newest survives; the catalog misses no object |
| Backup schedule (`commands/server.rs` 117-172, `api.rs` 1733) | `last_backup_date`, report | hourly tick, manual run | midnight, partial failure, crash | a day is marked only when everything is backed up; every day gets there |
| Restore (`backup.rs` 762-1183) | rows, volumes, containers | `restore_all` | races with the lifecycle, partial failure, fresh nodes | restored volumes are whole; live rows are not overwritten; every app comes back |
| Caddy proxy (`caddy.rs`) | the routes and the container of Caddy | boot (`start`), `sync_configuration` after each change of a row | concurrent syncs post out of order; nine container states; failing calls at boot | routes catch up with the rows; a quiet boot ends with Caddy serving; the admin API is never shadowed |
| App registry (`api.rs`, `commands/create.rs`, `db/env_var.rs`) | `app` rows, token hashes, env vars | create, rotate token, set and unset env vars, delete | partial failure of create, whole rows saved late, two statements without a transaction | an app is complete or its creation failed; the token returned last deploys |
| Object storage (`storage.rs`) | one secret, files per app | mint and verify tokens; put, get, delete, list | two first requests create the secret | every token handed out verifies |
| Deploy path (`provision.rs`, `github/`, `workflow.rs`, `deploy_wait.rs`) | the app's hash, the repo's secret and workflow, deploy records | link, push, run, hook, `lh deploys --wait` | the commit of the workflow is itself a push; polling two systems | the first run is let in; a reported failure is one |
| Metrics (`metrics.rs`, `db/metrics.rs`) | samples, hourly roll-ups | sample, roll up, prune | hour boundaries, restarts, late ticks | an hour is rolled up once it is over, and stays so |
| Nightly schedule (`restart.rs`, `commands/server.rs`) | date marker | hourly tick | crash before the marker; boot at an unlucky minute | one pass a night, and none missed |
| Installer (`install/`, `commands/install.rs`) | files, volumes and containers of the host | 13 phases, some parallel | partial failure and a second run | a success is whole; the server's token is the operator's |
| Self-upgrade (`commands/upgrade.rs`) | the installed binary, the server container | download, pull, restart, swap, check | a crash or full disk at any copy | a program that runs is always in place |
| System configuration (`db/system_config.rs`) | one row per setting | DELETE and INSERT, upsert | a reader between the two | in the modules that use each row |
| Auth, doctor, CLI, MCP, UI, logs, status, row types | none shared between requests | | I/O, text, read-only | see section 12 |

Requests run as independent tokio tasks. They meet in the database (one row
read, later a whole row written), in Docker (containers and volumes by name),
in the per-app lock, in `BACKUP_LOCK` and in Caddy. A request's future is
dropped when its client goes away. The three loops of `server::execute`
(backup, nightly restart, metrics) run beside them.

## 2. Plan

| Module | Composes | State |
|---|---|---|
| **AppLifecycle**, with the abstract **DeployLedger** | requests, lock, Docker, database | built; types, all safety properties and the refinement proved |
| **Backups** | schedule, lock, S3, containers, disaster | built; types and all six safety properties proved |
| **CaddyProxy** | boot, container, syncs, row changes | built; all safety properties proved |
| **Registry** | create, tokens, env vars, delete, secret | built; types and all safety properties proved |
| **ServerLoops** | nightly loop, sampler, clock, crashes | built; all safety properties proved |
| **DeployPath** | client, GitHub, hook, deploys, wait | built; types and all safety properties proved |
| **Installer** | install, upgrade, rotation, releases | built; three invariants proved |

What is left: the composition of a restore with the lifecycle of its app, and the
hazards that no property covers (each is listed in PROJECT.json with the reason).

Every module is `X`, its instance for TLC `MCX`, its proofs `XProofs`. Modules
that carry theorems declare no recursive operator. Each run asks one question.
Operators named as a variant of an action and marked "Mutated form" are bugs that
the property they belong to catches; no specification uses them.

## 3. AppLifecycle

| Variable | Code |
|---|---|
| `row[a]` | the `app` row: `state`, `image`, and `cfg` for the operator's columns (domains, health check) |
| `deploys` | the `deploy` table in insertion order; `deleted` marks rows that delete removed |
| `ctr[a]` | the container `{app}-container`: created, running or exited, and its image |
| `helper[a]` | the container `litehouse-init-{app_id}` of `init_app_volume` |
| `lock[a]` | the holder of the app's mutex |
| `req[p]` | one request in flight: its next step, kind, app, image, the row it has read, its deploy record |

A request is one task and each action is what it does between two awaits, in
the order of the code: `DeployExists .. DeploySucceeds/DeployFails` are
`hook_deploy`, `deploy_app` and `do_deploy`; `InitCreate .. RunBoot` are
`start_container`, shared by deploy, start, restart and the nightly pass;
`StartFind`/`SaveRunning`, `StopFind`/`StopContainers`/`SaveStopped` are
`start::execute` and `stop::execute`; `NightlyList .. NightlyRecheck` are
`restart_one_app` with the row that `restart_running_apps` read; `EditRead`,
`EditSave`, `DeleteFind .. DeleteRow` are the handlers without a lock. Each
Docker call can fail where `docker` is among the `Faults`. An error that
`do_deploy` returns through `?` reaches `deploy_app`, which marks the record
failed: before the new container runs (`docker`, calls of the database
included), at `set_deployed` (`row`: the new container runs and the row is the
old one), and after it (`log`: row and container are switched and the deploy is
reported as failed). `Sync` is the Caddy sync with the lock held; `Hang` is a
pull or a sync whose peer never answers. `Cancel` drops a request at any await:
the client went away, the server died (then every request is dropped) or a
database call of another handler returned an error through `?`.

Simplifications: an app's id and name are one value; apps exist already; one
nightly request stands for one app of the pass; what a Caddy sync posts is in
CaddyProxy, creation, tokens and delete's clean-up in Registry; of the deploy
log only the entries after `set_deployed` are there, since a failure of the
ones before is the same as a failing call beside them. A row or container that is absent is `None`, and `AbsenceAssumption`
says that `None` is no row and no container.

**DeployLedger** is what a user may rely on: a deploy is in progress, then
switches the app's image and succeeds, or fails and switches nothing; nothing
else changes an image. Where the log may fail (`FailsLate`) a deploy that has
switched may also be recorded as failed, which is what the code does. `ImplementsLedger` maps `ledger` to `deploys` (a record
whose request has written the row counts as switched) and `image` to the rows.

### Properties

- `OneOperationPerApp`, `LockFollowsHolder`: exclusion, and locks that are
  always held by a live request inside its section.
- `InProgressOwned`: an `in_progress` record always has its deploy at work.
- `RowMatchesContainer`, `StoppedRowIsDown`, `RunningRowIsUp`: row and Docker
  agree whenever no operation holds the lock.
- `LatestDeployWins`, `SucceededServes`, `SettledIsFinal`: what a succeeded
  deploy means. A failed record says less: the app may have been switched
  (`log`), or started by a start that was reported as failed (`reap`).
- `HelperRunsAlone`: the init container.
- `NightlyNeverRevives`: an app stopped before the pass got the lock stays down.
- `RequestsComplete`: under `Fairness` every request ends, or it, or the holder
  of its app's lock, waits for a pull or a Caddy that never answers.

None of those that relate a row, its container and its records holds of every
set of requests and faults, and the theorems (section 11) say which they need:

- `Unedited`: no edit. An edit saves the row without the lock, and brings back the
  state an operation has just changed.
- `LockedOnly`: no delete either, for `RunningRowIsUp` and `SucceededServes`:
  delete stops the container and removes the row without the lock, in the middle
  of a start or deploy. What holds of a stopped row, of images and of the init
  container holds beside deletions too: the row that a late save brings back is
  the one its operation has worked with. The runs leave deletions to `everything`;
  that these properties survive them is what the theorems add.
- `Undropped`: nothing drops a request. A dropped deploy leaves its record open
  and its container behind; a dropped stop leaves a row that says running.
- `RowWritten`: the row of a new container can be written. When `set_deployed`
  fails the new container runs beside the old row.
- `DaemonStays`: dockerd does not restart. On a restart the policy `ALWAYS` brings the
  containers of stopped apps back, while an operation is between two calls too.
- `OwnNames`: no app's container name contains another's, since `docker::stop`
  finds containers by substring.
- no `nightly`, for `LatestDeployWins` and the ledger: the pass saves the row it
  read at its start, and so undoes a deploy that has finished since
  (section 10, and the hazard at `restart.rs:106`).

### Runs

| Run | Question | Bounds |
|---|---|---|
| `locked` | what the lock guarantees when Docker calls fail, init times out, auto-remove wins the race or the log cannot be written | 1 app, 3 requests, 2 images, 3 deploys; deploy, start, stop, restart |
| `clean` | the same with the nightly restart, no fault | 1 app, 3 requests, 2 images, 3 deploys |
| `everything` | what survives every fault, with the requests that take no lock, and does every request end | 1 app, 2 request slots, 1 image, 2 deploys; deploy, nightly, edit, delete; failing calls and writes, timeouts, hung peers, dropped requests, a daemon restart |

One app is enough: apps share nothing but the substring match of
`docker::stop` (constant `Substring`); the proofs cover any number. Two
requests show every pairwise race, the third one a waiter behind a holder and
a handover. Two images tell a deploy from the one before. Three deploys allow a
failed one between two that succeed. The safety runs declare requests and images
interchangeable (`SYMMETRY`): both are model values, and no definition names one of
them or chooses among them. `everything`, which checks liveness, does without.

Fairness: weak for every step of a request, since bollard's calls time out
after 120 s, database calls are local and the wait for the init container ends
after 30 s; strong for `LockApp`, since `tokio::sync::Mutex` queues waiters
first come first served; weak for the init container's own end. Two waits have
no limit, and both are made with the app's lock held: for an image pull
(`docker.rs:513`, a stream that may stop) and for Caddy's answer to the POST
(`caddy.rs:808`, a client without a time-out). `Hang` takes them out of the
fairness: a step that hangs has none, and `RequestsComplete` names it. Arrivals,
faults and cancellations have no fairness.

What these runs leave to others: `locked` and `clean` have no delete and no
edit; `locked` does not say that the app of a start reported as failed is down
(`reap`), nor anything of an app whose container is gone.

## 4. Backups

| Variable | Code |
|---|---|
| `day` | the UTC date of `today()` |
| `rows`, `catalog`, `marker`, `configured` | `app`, `backup`, `last_backup_date`, the S3 credentials |
| `states`, `tars`, `blobStore` | S3: `litehouse/{date}.db`, `apps/{app}/{date}.tar.gz`, `blobs/{app}/` |
| `vol`, `up` | an app's data and container; `starting` is a start past its single-writer check |
| `snap`, `rest` | the one-shot snapshot and restore containers |
| `stage` | `{backups}/{app}` |
| `lock`, `run` | `BACKUP_LOCK` and the tasks: the scheduler, and request slots |

The data of an app is abstracted to what backups can get wrong: the blob files
present, and the blobs its database refers to. An app writes a blob, then
refers to it, and never changes a blob (the consumer contract in
`docs/superpowers/specs/2026-07-14-blob-backup-design.md`). A tarball is the
set of references in it. `Tick .. MarkDay` are the loop of `server.rs`,
`run_backup_now` and `run_backup`; `StartSnapshot .. UploadTar` are
`backup_app`; `RecordUpload .. PruneRows` are shared by the state database and
the apps, as in the code; `MergeState .. BootRestored` are `restore_all` and
`restore_app`. The two scripts run as processes of their own (`Snapshot`,
`Apply`), so a dropped request or a crash leaves them running. `Disaster`
replaces the node: empty database, no volumes, S3 unharmed.

Simplifications: apps are deployed and neither created nor deleted; the
stored report, env vars, image pulls and the Caddy sync are left out; of the
lifecycle only stop and start (`Operate`) run beside a restore. A restore that
fails after it has stopped the app leaves it down.

### Properties

- `NewestSurvives`: no pruning, failing or crashing anywhere, takes the newest
  backup of a prefix away.
- `TarballsRestorable`: every blob a tarball refers to is in S3. It rests on
  the order of the snapshot script (databases, then blobs) and of `backup_app`
  (blobs, then tarball).
- `CleanRunCaptured`: a run without failures has captured what every app had
  when it began.
- `RestoreIsWhole`: a restore that skips nothing leaves volumes with all of
  the newest backup and no dangling reference, even after a crashed restore.
- `OneVolumeOperation`: what `BACKUP_LOCK` is for.
- `CatalogComplete`: the catalog misses no backup, although pruning may fail. It
  may list one that is gone: a pruning cut short deletes objects, not rows.
- `LastDayBackedUp`: once failures stop, the last day is marked for good.

### Runs

| Run | Question | Bounds |
|---|---|---|
| `backups_faults` | safety under failing S3, Docker and database calls, dropped requests, crashes, and the loss of the node | 1 app, 1 blob, scheduler and 1 request, 2 days, retention 1, 2 faults |
| `backups_schedule` | a working server: clean runs, exclusion, catalog, liveness | the same with starts, stops and 1 failing call |
| `backups_recoverable` | violation: a fresh node backs up its empty database before the restore | 1 disaster |

Two days and a retention of one make every second day prune. One blob is
enough for a reference without its file. Two faults allow the loss of the node
and a failure in the restore after it. `MaxFaults` also says that failures
stop, which liveness needs: the loop retries every hour for ever. Fairness:
the interval timer, tokio's fair mutex (strong, `TakeLock`), and calls and
scripts that end. The last is an assumption, not a time-out of the code: S3
requests, the pull of a restore and the wait for a backup container are made
with `BACKUP_LOCK` held, and one that never ends would keep the daily loop
waiting. `LastDayBackedUp` says that the loop, the lock and the marker do their
part.

The faults `wait` and `copy` (`cp -a blobs ... || true`) are modelled and in no
run: with either of them `TarballsRestorable` is false of the code. When the wait
stream breaks, the container is inspected: a running one has exit code 0 and is
removed as if it had ended (a restore's removal may fail unnoticed); if the
inspection fails too, `backup.rs:435` and 937 return before the removal, and the
container works on with the lock free, so that `OneVolumeOperation` is false too.

## 5. CaddyProxy

| Variable | Code |
|---|---|
| `rows`, `named`, `want` | the `app` table by name; whether a domain is configured; the configured ports |
| `found`, `caddy` | Docker: network, volumes and image of Caddy; its container's state and ports |
| `table` | the routes Caddy has, kept in its config volume (`--resume`) |
| `boot` | where `start` and the boot's sync are |
| `req` | handlers in flight, the nightly pass among them, and the boot's own sync, each with the row it has read and the routes it has built |

`Routes` is `build_caddy_config`: the admin route first, then one route for
each app that is deployed, in the order of `get_all`. A sync is two steps,
`ReadRows` and `Post`, and nothing orders two of them. `EditRow`, `ResaveRow`,
`ResaveQuietly` and `UpdateRow` are the writes of domain and health-check edits,
start and stop, the nightly pass (which does not sync), deploy and delete.
`BootStep` is `start` call by Docker call: `Ensure`, `Look`, the branch for each
of the container's states, health, ports, and the poll. `CallFails`, `Drop`,
`Die` and `Disturb` are a failing call, a client that goes away, a crash of the
server and somebody else's hand on the container. `Reconfigure` is another
install's domain and ports.

`table`, like the routes a sync has built, has a place for the admin and one for
each app in the order of `get_all` (`Places`): an app without a route leaves its
place empty. Two pieces of history say who has read before whom: `older`, of a
sync, are the syncs still to post that had read before it; `overtaken` are the
syncs of which one that read later has posted.

- `RoutesCatchUp`: routes and rows differ only while a sync is to come, or for
  a reason that `owed` names: a sync failed or was dropped, posted older rows
  over newer ones, or a save without a sync undid a change.
- `AdminReachable`: no custom domain, the admin's host included, takes the
  admin API away.
- `QuietBootServes`, `QuietBootKeepsCaddy`: a boot in which nothing fails ends
  with Caddy running on the configured ports, and does not touch one that does.
- `BootEnds`: a boot ends whatever Docker answers, unless it waits for one of two
  things without a limit: the pull of Caddy's image (`Pulling`) or the answer of a
  Caddy that accepts the connection (`AwaitsCaddy`). Fairness: `BootStep` and the
  boot's sync are the server's own task, whose Docker calls return or time out
  after 120 s; neither of the two waits has any.

Run `caddy_routes`: 1 app whose only custom domain is the admin host, 2 pairs of
ports, 2 request slots, 2 polls, 4 events. Two slots and the boot give three
syncs at once; the domain makes the order of the routes matter; two polls tell a
container that becomes healthy from one that never does.

## 6. Registry

| Variable | Code |
|---|---|
| `row` | the `app` row of one name: id, repo given, token hash, running |
| `env`, `deploys` | the rows of `env_var` and `deploy`; `by` tells two rows of one key apart; the default env vars are one key, `Default`, that operators may set and unset like any other |
| `vols`, `held` | volumes by app id, and those that a container left behind still mounts |
| `secret`, `tokens` | `app_storage_secret`, and the storage tokens in containers |
| `req` | requests: the step, and what each has read |

Every action is one statement or one Docker call. `Create .. SetHash` are
`create_app` with its second look for the name, default env vars, volume, the
re-read and the save of the repo, or `rotate_token`; `EnvDelete`, `EnvInsert`
are `env_var::save`, called by `set_env` and by `init_default_env_vars`; `Visit`
are the storage requests and the starts of other apps, which read or create the
one storage secret under no lock of this app; `Operate .. SaveState` are start, stop, deploy and edits as
far as they touch these records; `DeleteDocker .. DeleteRow` are
`delete::execute`. Foreign keys refuse an env var or deploy of an app that is
gone; `save` is an upsert and brings back a row that is gone (`hollow`). `Fail`
ends a request at any statement.

- `LastMintWins`: the token returned last is the one the hook accepts, since
  the repo is saved before the hash is set.
- `EnvAsLastSet`: every key, the default ones included, under concurrent sets,
  unsets, deletion and creation again.
- `LiveAppIsWhole`: only an operator takes an app's default env vars away.
- `MintedTokensVerify`: the race for the storage secret, of requests that are at
  any of its statements at once.

What the code does not guard against is excused by a history variable that says
exactly which interleaving happened (`raced`, `doubled`, `hollow`), or that an
operator wrote the default keys (`touched`: `set_env` has no reserved keys), so
that the properties hold in all others. A key leaves `doubled` when a save deletes its
rows and no other save of it is between its two statements; the delete of a save
for an app that is gone clears nothing.

Run `registry`: 2 requests, 1 key beside the default one, 2 values, 5 events: a creation, a deletion, a
creation again and two operations that race with them.

## 7. ServerLoops

| Variable | Code |
|---|---|
| `now` | the clock; an interval of the sampler and an hour are some of its units, so that both may end while a tick is at work |
| `steady`, `booted` | history: no call failed and no tick began late since the boot, and when that was |
| `apps` | the rows, and what Docker says of their containers |
| `night`, `meter` | the two loops of `server::execute`: step, missed ticks, what a pass has still to do |
| `marker` | `last_nightly_restart_date` |
| `samples`, `hourly` | `metric_sample`, `metric_hourly`, as pairs of time and scope |

An interval fires at once at boot and bursts after missed ticks (`due`).
`NightTick .. NightMark` are the nightly loop, `MeterTick .. MeterPrune`
`run_tick` and `rollup_and_prune`. Time passes at any step (`Pass`): a tick that
takes long is no event, one that begins late is. `MeterRoll` reads the clock
itself, after the calls of the tick, as `metrics.rs:275` does. `Crash` forgets
loops and counters; the tables stay. Eastern and UTC time are one clock; the time
zone's shifts and the clock's jumps are left out.

- `OnePassUnlessUnmarked`, `NightNotMissed`: the nightly pass.
- `SteadyRollsAll`: a server without failures or late ticks rolls up every hour
  before it is pruned, unless it was booted in the last interval of an hour
  (`TicksWellInside`): there one roll-up may read its clock before the hour is
  over and the next one after the next hour is, and the hour between is lost.
- `RolledIsFinal`: no sample is written to an hour after its roll-up, although
  a tick stamps its samples before slow calls and ticks may come late.

Run `server_loops`: an interval of 2 units, 2 ticks an hour, 2 hours a day, 13
units, 1 app and the server, 2 events; hourly rows are kept for 3 hours. Two units
let an hour end inside a tick and let a server boot between two boundaries, two
ticks tell the start of an hour from its middle, and 13 units hold three hours
that were sampled and rolled up, over two nights.

## 8. DeployPath

| Variable | Code |
|---|---|
| `hash`, `deploys`, `lock` | the server: token hash, deploy records, the app lock |
| `secret`, `file`, `head` | GitHub: `LITEHOUSE_DEPLOY_TOKEN`, the committed workflow, the commits |
| `tokens` | where a GitHub token can be found, and whether it may commit workflows |
| `runs` | workflow runs, from the push to the hook's answer, and deploys by hand |
| `client` | `lh create` and `lh deploys --wait` |

`Provision .. PutFile` are `provision_app`: `create_app`, the platform, a token
from the environment, the config or the device flow, the secret, and the commit
of the workflow with the sha read before. A push starts a run (external: modelled
from the template), which builds, calls `Hook` and waits for the app lock.
`Wait .. Late` are `run_deploys` and `wait`, whose interval and deadline count
polls.

- `RefusedOnlyWhileRelinking`: the very first run already has its secret. A
  rotation by the API alone, a deletion, and the old hash that a late save puts
  back (`raced` in Registry) make the hook refuse too; they are not in this module.
- `BuildFailedStands`: `BuildFailed` is never the answer for a commit whose
  deploy then succeeds. The comment on `Outcome::BuildFailed` says more, that no
  deploy is registered at all: a run whose deploy fails is a failed run, and a wait
  that asks between the two answers `BuildFailed` where it could answer `Failed`.
- `BuildFailureNoticed`: a failed build is reported within `CheckEvery` polls.

Of the runs of a commit only one is modelled, from the push to the linked branch;
the workflow also starts on the other one of `main` and `master`. `NewestRun` looks
among all runs where the code looks among the last 30. An image for the wrong
platform never becomes a succeeded deploy: `ensure_image_matches_host` refuses it,
or, where Docker does not tell its platform, it is taken not to start.

Run `deploy_path`: 2 clients, 3 commits of which two share a prefix, one short
and one full sha to wait for, 3 polls, 3 events: a link, a push and a rerun, a
fault or a second link.

## 9. Installer

| Variable | Code |
|---|---|
| `done` | what the phases have set up on the host |
| `hostHash`, `volHash` | the admin token's hash in the host's file and in the volume |
| `server`, `images`, `published` | the server container's version, local images by tag, the registry |
| `binary` | `lh`, `lh.new` and `lh.backup` in `/usr/local/bin` |
| `op` | the command at work: its phase, the parallel parts to do, what it fetched |

`InstallStep` and `ServerStep` are the phases of `lh install` in the order of
`commands/install.rs`, each script modelled by what it leaves; the parts of
phases 3 and 4 and of 6a to 8 run in parallel and are joined. `UpgradeStep`
are the phases of `lh upgrade`; `Backup .. CheckBinary` are `install_binary`.
Any phase may fail, the terminal may be lost at any step, and any command may
be given again.

- `SetupComplete`: a reported success is whole, also when parts failed beside
  it in an earlier command.
- `RotatedTokenKept`: the seed of the volume never undoes a rotation.
- `HostBinaryWorks`: the host has an lh that runs, but for two faults in a row.
- `PrintedTokenWorks` is the violation run `installer_token`.

Run `installer`: 2 releases, 6 events: a failed command, a second one, a
rotation, a release and two faults. `installer_token`: 1 release, 4 events.

## 10. False of the code

Properties that are stated in the modules, that a reader of the documentation
would expect, and that TLC refutes. Two have a run (`backups_recoverable`,
`installer_token`; `PROJECT.json` quotes the documentation); the others can be
checked by adding their name to a configuration.

| Property | Shortest story |
|---|---|
| `BackedUpAppsRecoverable` (Backups) | node lost; the fresh one's own daily backup uploads an empty state; the restore reads the newest |
| `PrintedTokenWorks` (Installer) | install fails after the server's start; a second install prints another token than the volume's |
| `NightlyRestartsDeployedImage` (AppLifecycle) | the pass reads the row; a deploy finishes; the pass restarts and saves the old image |
| `FailedDeployKeepsContainer` (AppLifecycle) | a deploy removes the old container and then fails: nothing runs, the row says running |
| `DeleteSparesRunning` (AppLifecycle) | delete sees a stopped app; a deploy starts it; delete removes its records |
| `EditSurvives` (AppLifecycle) | stop reads the row; a domain is added; stop saves every column |
| `MarkedDayHasBackup` (Backups) | a manual backup begins before midnight and marks the day after it |
| `OneVolumeOperation` with the event `cancel` or `wait` (Backups) | the client of a restore goes away, or the wait for its container and the inspection both fail: the lock is free, the container works on |
| `LatestDeployWins` with `edit` or `nightly` among the kinds (AppLifecycle) | an edit, or the pass, reads the row; a deploy finishes; the save takes it back |
| `SteadyRollsAll` without `TicksWellInside` (ServerLoops) | booted in the last minute of an hour, one roll-up reads the clock before the hour ends and the next one an hour and a moment later |
| `BootEnds` without `AwaitsCaddy` (CaddyProxy) | a hung Caddy keeps the boot's sync waiting and the admin API down, against `server.rs:94-96` |
| `StartedOnConfiguredPorts` (CaddyProxy) | a created container is started on the ports it was made with |

Stated by no property, and true of the models: two syncs may leave the older
routes (`owed`); concurrent sets of one env var leave two rows (`doubled`); a
late save brings a deleted row back (`hollow`); the init container of a database
that timed out is still mounted and keeps its volume (`held`); a deploy that a
crash interrupted stays in progress; one whose last log entry cannot be written
is reported as failed although it serves; pruning cut short leaves rows in the
catalog whose objects are gone; containers are matched by substring
(`Substring`), so that stopping `shop` stops `my-shop`. Phase 9a posts Caddy's
configuration to a port that is not published on the host, which is no error;
the server's sync on boot does it. When the platform cannot be asked for, the
workflow is rendered for amd64 (`Platform`).

## 11. Proofs

Checked by TLAPS (SMT and Zenon; PTL for the last steps), for every value of the
constants that the named assumptions of each module allow; TLC evaluates the
assumptions in every run. Some theorems also exclude kinds of request or fault.
The hypotheses say for which part of the system's behaviour the code keeps its
promise, and no run allows more: TLC finds the property violated once a kind or
fault that is excluded happens. The one exception is delete in
`LifecycleImplementsLedger`: the ledger has an image for every app.
The other assumptions are on names and bounds: `None`
is no row, container, app or commit, apps are put in order by name, all shas
have the same number of digits, limits are positive.

The pattern is the same everywhere: the property says what holds when nobody is
at work, and is not inductive; the invariant adds what holds at each step of
whoever is at work, and that what is read before an await is still true, or is
accounted for, when it is used.

| Module | Theorem | States | Inductive invariant |
|---|---|---|---|
| `AppLifecycleProofs` | `TypeCorrect` | `Spec => []TypeOK` | `TInv`: `TypeOK` and `RequestsOK`, what a request has read by each step (a request that saves a row has read one, a deploy past its insert has a record number within the table) |
| | `MutualExclusion` | `Spec => []OneOperationPerApp` | `LockInv`: `lock[a] = p` exactly when `p` is in its section for `a`. Exclusion alone is not inductive: it must be known that a request in its section holds the lock |
| | `NoLockLeftBehind` | `Spec => []LockFollowsHolder` | `LockInv` |
| | `SettledDeploysStay` | `Spec => SettledIsFinal` | `RecordInv`: a deploy at work has a record of its own, shared with no other request, that is in progress or deleted |
| `AppLifecycleServingProofs` | `RowsNameContainers` | `Unedited`, `Undropped`, `RowWritten`, and `DaemonStays` or no nightly: `Spec => []RowMatchesContainer` | `ServingInv`: what is true of row, container, init container and the request at work, by its step (`SnapIsRow`, `DeployOwns`, `ImageOK`; `Work(a)` is no request when the lock is free). Once delete has removed the row it speaks of the row that the request at work has read and will save (`Seen`), and `ReadsOK` for requests that read before they lock |
| | `StoppedRowsAreDown`, `InitContainerRunsAlone`, `NightlyRevivesNothing` | `Unedited`, `Undropped`, `RowWritten`, `DaemonStays`: `Spec => []StoppedRowIsDown`, `[]HelperRunsAlone`, `[]NightlyNeverRevives` | `ServingInv` with `DownOK`: where nothing runs, and where a stopped row is no longer acted on; `HelperGone`, from which step on no init container is left |
| | `SucceededDeploysServe` | `LockedOnly`, `OwnNames`: `Spec => []SucceededServes` | `ServingInv`; dropped requests and a restart of dockerd are allowed |
| | `RunningRowsAreUp` | `LockedOnly`, `OwnNames`, no fault but `daemon`, `row`, `log` and `hang`: `Spec => []RunningRowIsUp` | `ServingInv` with `UpOK`: at which steps the container of a running row may be down |
| | `OpenRecordsAreOwned` | `Undropped`: `Spec => []InProgressOwned` | `OwnersInv`: an open record has its deploy at work, and a deploy at work has the newest record of its app and that record's image |
| | `LastDeployIsRecorded` | `Unedited`, `Undropped`, no nightly: `Spec => []LatestDeployWins` | `LatestInv` on `LedgerInv`: the row has the image of the last record that succeeded, of a later one that failed late, or of the deploy at work once it has saved. `RemovedInv`: records that are left have their row left, by the foreign key, and with a record all earlier ones of its app are removed |
| | `LifecycleImplementsLedger` | `LockedOnly`, `Undropped`, no nightly: `Spec => ImplementsLedger` | `LedgerInv`; one lemma for each kind of step: it maps to an action of DeployLedger (a late failure to that of a ledger with `FailsLate`) or to a stutter |
| `BackupsProofs` | `TypeCorrect` | `Spec => []TypeOK` | itself: `GoodRuns` says that a task at a step on an app has an app, and a backup a date |
| | `NewestBackupSurvives` | `Spec => NewestSurvives`, under every fault | `HoldersLock` (a task between the configuration and the end of its run holds `BACKUP_LOCK`) and `PruneInv` (each key to delete is older than one that stays, until they are gone). That the newest of a set of days exists (`LatestDay`) is by well-foundedness of `<` |
| | `EveryTarballRestores` | without the faults `copy` and `wait`, `Spec => []TarballsRestorable` | `BlobsInv`: what a volume, a staging directory or a restore refers to is in the volume or was uploaded, by each step, and from the blobs on no snapshot container of the app is there. The volume's clause is why a snapshot of a half-restored app is sound |
| | `VolumesAreExclusive` | without `wait`, `crash` and `cancel`, `Spec => []OneVolumeOperation` | `MountInv`: a container that mounts a volume has a task that waits for it |
| | `CatalogListsAll` | without `db`, `crash`, `cancel` and `disaster`, `Spec => []CatalogComplete` | `CatalogInv` with `PruneInv`: all keys are catalogued but the one being recorded |
| | `RestoresAreWhole` | without `copy` and `wait`, `Spec => []RestoreIsWhole` | `RestoreInv`, what of the newest backup is in the volume at each step of a restore, on `BlobsInv` and `TasksInv` |
| | `CleanRunsCapture` | without `wait`, `crash` and `cancel`, `Spec => []CleanRunCaptured` | `DatesInv`: no backup is later than the one under way. `SeenInv`: what a run has seen in a volume stays in it, and in all that may replace it. `CapturedInv`: of each app the run has passed, the newest backup has what the run saw. They hold together only, since the day is marked after the lock is released |
| `InstallerProofs` | `TypeCorrect` | `Spec => []TypeOK` | itself |
| | `InstalledIsComplete` | `Spec => []SetupComplete` | `SetupOK` with `CommandOK`: what is set up by each phase; at the two joins, that every part of `Fetched`, or of phases 3 and 4, is done, still to do, or has failed. A finished phase may be undone (`CaddyRemoved`), so the invariant says at which phases Caddy counts |
| | `BinaryAlwaysWorks` | `Spec => []HostBinaryWorks` | `BinaryOK` with `CommandOK`: unless `spoiled`, the backup runs while the new file is staged, renamed and tried; what is renamed is there |
| | `RotatedTokenStays` | `Spec => []RotatedTokenKept` | itself: a rotated token is in the volume, and only an empty volume is seeded |
| `RegistryProofs` | `TypeCorrect` | `Spec => []TypeOK` | `TypeOK` with `RequestOK`: a request that operates on the app or saves its repo has read its row |
| | `TokensVerify` | `Spec => []MintedTokensVerify` | `SecretOK`: once a request, of this app or another, has the secret or a container a token, the secret is set, and it is theirs |
| | `NewestTokenAccepted` | `Spec => []LastMintWins` | `MintInv`: the row has the token returned last, unless a request is about to set another; over `Known` (ids are given in order, and none that a request, a row or an env var has is newer than the last one given) |
| | `SetsAreKept` | `Spec => []EnvAsLastSet` | `EnvInv`, over `Known`: a key outside `doubled` has one row, of the last set, or none while one save is between its two statements (`ValueOK`), as long as no deletion of the app is |
| | `AppsAreWhole` | `Spec => []LiveAppIsWhole` | `LiveInv`, over `Known`: an app that no creation or deletion works on, and that is neither `hollow` nor `touched`, has its default env vars |
| `ServerLoopsProofs` | `RolledHoursAreFinal` | `Spec => RolledIsFinal` | `RolledIsOver`: what is rolled up is over, and was over at the time stamp of the tick under way, although the clock has moved on since |
| | `OnePassANight` | `Spec => []OnePassUnlessUnmarked` | `NightInv` with `PassInv`: the marker and the date of the pass are not in the future, and every app the pass may still restart, or a pass yet to begin may restart, has a restart to come (`PassLeft`) |
| | `SteadyHoursAreRolled`, `NightsAreNotMissed` | `Spec => []SteadyRollsAll`, `[]NightNotMissed` | `AllInv`: a steady loop owes at most one tick (`NightOnTime`; `MeterOnTime`, of a loop that is `TicksWellInside` its hour), and a sampled hour is rolled up, or is not due and still has its sample (`SampleOK`). The arithmetic of hours and days is in lemmas of its own |
| `CaddyProxyProofs` | `RoutesFollowRows` | `Spec => []RoutesCatchUp` | `ProxyInv`: `OrderOK`, the posting syncs are totally ordered by when they read; `RoutesInv`, the last to read carries the routes of the rows, or has posted them |
| | `AdminHostIsTheServers` | `Spec => []AdminReachable` | `AdminInv`: in all routes built or posted, the admin's is the first |
| | `QuietBootsServe`, `QuietBootsKeepCaddy` | `Spec => []QuietBootServes`, `Spec => QuietBootKeepsCaddy` | `BootInv`: `QuietOK`, what Docker holds at each step of a boot in which nothing failed |
| `DeployPathProofs` | `TypeCorrect` | `Spec => []TypeOK` | itself |
| | `HookKnowsTheToken` | `Spec => []RefusedOnlyWhileRelinking` | `LinkInv`: unless links were torn, at most one client is linking, its token is the one the server knows, and between links so is the secret; a run that no link has shaken has it too |
| | `FailedBuildsAreNoticed` | `Spec => []BuildFailureNoticed` | `WaitInv`: polls since the failure are bounded by polls to the next look at the runs |
| | `FailureStands` | `Spec => []BuildFailedStands` | `RunsInv` (one workflow run for a commit), `WatchInv` and `FailedInv`: a client told of a failed build waits for a sha of which a run has failed, or was started again; a sha that is unambiguous names one commit (`FS_Singleton`) |

Two proofs failed because history variables of the model were wrong beyond the
bounds of the runs: Registry's `doubled` was cleared by the save of an app that
is gone (eight events; the run has five), and CaddyProxy's notion of a sync that
posted older rows over newer ones did not cover three request slots and six
events (the run has two and four). Both are now as sections 5 and 6 describe, and
proved for every bound.

## 12. Model-checked only, and not modelled

Only model-checked: liveness (`RequestsComplete`, `LastDayBackedUp`, `BootEnds`),
since fairness and `ENABLED` are out of the prover's reach, and the properties of
section 10, which are false. Every invariant and every action property of a
passing run is proved, under the hypotheses above.

Not modelled: the numbers in metrics, logs, the text of workflows and
configurations, hashing and sessions, the file operations of object storage,
doctor, DNS checks, MCP server and UI, which are I/O, text or read-only. GHCR and
GitHub tokens are rows that one request writes. Restore composed with the full
lifecycle, and with apps deleted and created again, multiplies two state spaces
that are each near what TLC can finish; Backups has the part of the lifecycle
that touches a volume. The executor's time-out of a script (`executor.rs`) kills
the shell only and then waits for its children: the phase fails late, which
`PhaseFails` covers.
