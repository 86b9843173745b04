------------------------------- MODULE Installer -------------------------------
(***************************************************************************)
(* `lh install` and `lh upgrade` on one host: the phases of                *)
(* install/phases.rs in the order of commands/install.rs and               *)
(* commands/upgrade.rs, each of which may fail or be cut short, and the    *)
(* command may be given again. The scripts of install/templates.rs are     *)
(* modelled by what they leave on the host.                                *)
(*                                                                         *)
(* One operator works on the host: a command starts when none is running.  *)
(***************************************************************************)
EXTENDS Integers, FiniteSets

CONSTANTS
    Newest,    \* the newest release: versions are 1..Newest
    MaxEvents  \* bound on commands, faults, publications and rotations

ASSUME InstallerBounds == Newest \in Nat \ {0} /\ MaxEvents \in Nat

Versions == 1..Newest

VARIABLES
    done,      \* what the phases have set up on the host, and still is there
    hostHash,  \* number of the token whose hash is in the host's server-config.toml, 0: none
    volHash,   \* the same in the volume litehouse_config: what the server accepts
    server,    \* version that the container litehouse-server runs, 0: no container
    published, \* newest version whose image is in the registry
    images,    \* version of each local image, by tag; tag 0 is `latest`
    keys,      \* the server has the GHCR and S3 settings of the flags
    binary,    \* files lh, lh.new and lh.backup of /usr/local/bin
    op,        \* the command that runs, or the end of the last one
    printed,   \* the token that the last install has printed
    rotated,   \* history: the token of the last rotation
    spoiled,   \* history: lh.backup was not written, or a crash hit the renamed file
    events

config == <<hostHash, volHash, rotated>>
docker == <<server, published, images>>
vars == <<done, config, docker, keys, binary, op, printed, spoiled, events>>

\* A file of /usr/local/bin: absent, a runnable version, or no program.
Absent == 0
Broken == Newest + 1

Fetched == {"image", "helpers", "config", "logs"}
Steps == {"packages", "firewall", "user", "docker", "helpers", "logs", "caddy", "timers"}

Idle == [pc |-> "idle", kind |-> "none", todo |-> {}, failed |-> FALSE, tok |-> 0, tag |-> 0,
         bin |-> Absent, keys |-> FALSE, skip |-> FALSE, out |-> "none"]

Init ==
    /\ done = {} /\ hostHash = 0 /\ volHash = 0
    /\ server = 0 /\ published = 1 /\ images = [t \in 0..Newest |-> 0] /\ keys = FALSE
    /\ binary = [lh |-> 1, new |-> Absent, backup |-> Absent]
    /\ op = Idle /\ printed = 0 /\ rotated = 0 /\ spoiled = FALSE /\ events = 0

Event == events < MaxEvents /\ events' = events + 1
Ok == UNCHANGED events
At(pc) == op.pc = pc
Go(pc) == op' = [op EXCEPT !.pc = pc]
End(out) == op' = [Idle EXCEPT !.kind = op.kind, !.out = out]
Adds(step) == done' = done \cup {step}

-----------------------------------------------------------------------------
(* lh install *)

Install ==
    /\ At("idle") /\ binary.lh \in Versions /\ Event
    /\ \E k, s \in BOOLEAN :
        op' = [Idle EXCEPT !.pc = "packages", !.kind = "install", !.keys = k, !.skip = s]
    /\ UNCHANGED <<done, config, docker, keys, binary, printed, spoiled>>

\* phase1_validation, phase2_system_preparation.
Packages ==
    /\ At("packages") /\ Ok /\ Adds("packages")
    /\ op' = [op EXCEPT !.pc = "join", !.todo = {"firewall", "user"}]
    /\ UNCHANGED <<config, docker, keys, binary, printed, spoiled>>

\* pull_litehouse_image_script: the image of the version, or `latest`.
Pull(version, tag) ==
    /\ tag \in {0, version}
    /\ tag # 0 => tag <= published
    /\ images' = [images EXCEPT ![tag] = IF tag = 0 THEN published ELSE tag]
    /\ UNCHANGED <<server, published>>

\* The parts of phases 3 and 4, and of 6a, 6b, 7 and 8, run in parallel.
PullImage ==
    /\ At("join") /\ "image" \in op.todo /\ Ok
    /\ \E tag \in 0..Newest :
        Pull(binary.lh, tag) /\ op' = [op EXCEPT !.todo = @ \ {"image"}, !.tag = tag]
    /\ UNCHANGED <<done, config, keys, binary, printed, spoiled>>

\* phase7_server_configuration: a new token, of which the hash is written.
WriteConfig ==
    /\ At("join") /\ "config" \in op.todo /\ Ok
    /\ hostHash' = events
    /\ op' = [op EXCEPT !.todo = @ \ {"config"}, !.tok = events]
    /\ UNCHANGED <<done, volHash, rotated, docker, keys, binary, printed, spoiled>>

SetUp(p) ==
    /\ At("join") /\ p \in op.todo \ {"image", "config"} /\ Ok
    /\ Adds(p) /\ op' = [op EXCEPT !.todo = @ \ {p}]
    /\ UNCHANGED <<config, docker, keys, binary, printed, spoiled>>

\* One part fails and the others go on; the file of phase 7 may be written.
PartFails(p) ==
    /\ At("join") /\ p \in op.todo /\ Event
    /\ op' = [op EXCEPT !.todo = @ \ {p}, !.failed = TRUE]
    /\ hostHash' \in {hostHash} \cup IF p = "config" THEN {events} ELSE {}
    /\ UNCHANGED <<done, volHash, rotated, docker, keys, binary, printed, spoiled>>

\* Mutated form of Join: only the result of phase 7 is looked at.
JoinLoose ==
    /\ At("join") /\ op.todo = {} /\ Ok
    /\ IF op.failed /\ op.tok = 0 THEN End("failed") ELSE Go(IF op.tok = 0 THEN "docker" ELSE "caddy")
    /\ UNCHANGED <<done, config, docker, keys, binary, printed, spoiled>>

\* All the tasks have been awaited; then the first error ends the command.
Join ==
    /\ At("join") /\ op.todo = {} /\ Ok
    /\ IF op.failed THEN End("failed") ELSE Go(IF op.tok = 0 THEN "docker" ELSE "caddy")
    /\ UNCHANGED <<done, config, docker, keys, binary, printed, spoiled>>

\* phase5_docker_configuration, then the parts of phases 6a to 8.
Docker ==
    /\ At("docker") /\ Ok /\ Adds("docker")
    /\ op' = [op EXCEPT !.pc = "join", !.todo = Fetched]
    /\ UNCHANGED <<config, docker, keys, binary, printed, spoiled>>

\* phase9a: the container is removed ...
CaddyRemoved ==
    /\ At("caddy") /\ Go("caddy run")
    /\ (Ok /\ done' = done \ {"caddy"}) \/ (Event /\ UNCHANGED done)
    /\ UNCHANGED <<config, docker, keys, binary, printed, spoiled>>

\* ... and made again; its routes are in the volume caddy_config (--resume). The
\* admin API is not published on the host, so that no configuration is loaded
\* here, which is no error: the server's sync on boot does it.
CaddyRuns ==
    /\ At("caddy run") /\ "caddy" \notin done /\ Ok /\ Adds("caddy") /\ Go("stop")
    /\ UNCHANGED <<config, docker, keys, binary, printed, spoiled>>

-----------------------------------------------------------------------------
(* phase9b_start_litehouse_container, also part of lh upgrade *)

\* An error of `docker rm` is ignored.
ServerRemoved ==
    /\ At("stop") /\ Go("seed")
    /\ (Ok /\ server' = 0) \/ (Event /\ UNCHANGED server)
    /\ UNCHANGED <<done, config, published, images, keys, binary, printed, spoiled>>

\* Mutated form of Seed: the host's file is copied whenever there is one.
SeedAlways ==
    /\ At("seed") /\ Ok /\ Go("run")
    /\ volHash' = IF hostHash # 0 THEN hostHash ELSE volHash
    /\ UNCHANGED <<done, hostHash, rotated, docker, keys, binary, printed, spoiled>>

\* The host's file is copied to the volume on the first boot only.
Seed ==
    /\ At("seed") /\ Ok /\ Go("run")
    /\ volHash' = IF volHash = 0 THEN hostHash ELSE volHash
    /\ UNCHANGED <<done, hostHash, rotated, docker, keys, binary, printed, spoiled>>

\* The name must be free.
ServerRuns ==
    /\ At("run") /\ server = 0 /\ Ok /\ Go("up")
    /\ server' = images[op.tag]
    /\ UNCHANGED <<done, config, published, images, keys, binary, printed, spoiled>>

ServerUp ==
    /\ At("up") /\ Ok /\ Go(IF op.kind = "install" THEN "keys" ELSE "timers")
    /\ UNCHANGED <<done, config, docker, keys, binary, printed, spoiled>>

-----------------------------------------------------------------------------
(* The rest of lh install *)

\* configure_ghcr_token and configure_s3 call the server's API with the new
\* token; an error is a warning.
Keys ==
    /\ At("keys") /\ Ok /\ Go("timers")
    /\ keys' = (keys \/ (op.keys /\ volHash = op.tok))
    /\ UNCHANGED <<done, config, docker, binary, printed, spoiled>>

\* phase10, phase12 and phase13.
Timers ==
    /\ At("timers") /\ Ok /\ Adds("timers")
    /\ Go(IF op.kind = "install" THEN "verify" ELSE "backup")
    /\ UNCHANGED <<config, docker, keys, binary, printed, spoiled>>

\* phase11_verification, which looks at DNS and at the login page.
Verify ==
    /\ At("verify") /\ Ok
    /\ End("installed") /\ printed' = op.tok
    /\ UNCHANGED <<done, config, docker, keys, binary, spoiled>>

\* A phase fails: nothing is undone. Scripts run with `set -e`.
PhaseFails ==
    /\ op.pc \in {"packages", "docker", "caddy run", "seed", "run", "up", "timers", "get", "pull"}
                 \cup IF op.skip THEN {} ELSE {"verify"}
    /\ Event /\ End("failed")
    /\ UNCHANGED <<done, config, docker, keys, binary, printed, spoiled>>

-----------------------------------------------------------------------------
(* lh upgrade *)

Upgrade ==
    /\ At("idle") /\ binary.lh \in Versions /\ Event
    /\ op' = [Idle EXCEPT !.pc = "get", !.kind = "upgrade"]
    /\ UNCHANGED <<done, config, docker, keys, binary, printed, spoiled>>

\* download_binary, or --from-path; a file that is for another host does not run.
GetBinary ==
    /\ At("get") /\ Ok
    /\ \E b \in Versions \cup {Broken} : op' = [op EXCEPT !.pc = "pull", !.bin = b]
    /\ UNCHANGED <<done, config, docker, keys, binary, printed, spoiled>>

\* get_litehouse_uid; parse_version makes `latest` of what is no version.
PullForUpgrade ==
    /\ At("pull") /\ "user" \in done /\ Ok
    /\ \E tag \in 0..Newest :
        /\ Pull(IF op.bin = Broken THEN 0 ELSE op.bin, tag)
        /\ op' = [op EXCEPT !.pc = "stop", !.tag = tag]
    /\ UNCHANGED <<done, config, keys, binary, printed, spoiled>>

\* install_binary: `cp lh lh.backup || true`, ...
Backup ==
    /\ At("backup") /\ Go("stage")
    /\ \/ Ok /\ binary' = [binary EXCEPT !.backup = binary.lh] /\ UNCHANGED spoiled
       \/ /\ Event /\ spoiled' = TRUE
          /\ \E left \in {binary.backup, Broken} : binary' = [binary EXCEPT !.backup = left]
    /\ UNCHANGED <<done, config, docker, keys, printed>>

\* Mutated form of Stage: the copy goes to the installed file.
StageInPlace ==
    /\ At("stage")
    /\ \/ Ok /\ binary' = [binary EXCEPT !.lh = op.bin] /\ Go("check")
       \/ Event /\ binary' = [binary EXCEPT !.lh = Broken] /\ End("warned")
    /\ UNCHANGED <<done, config, docker, keys, printed, spoiled>>

\* ... the copy to lh.new, removed when it fails, ...
Stage ==
    /\ At("stage")
    /\ \/ Ok /\ binary' = [binary EXCEPT !.new = op.bin] /\ Go("rename")
       \/ Event /\ binary' = [binary EXCEPT !.new = Absent] /\ End("warned")
    /\ UNCHANGED <<done, config, docker, keys, printed, spoiled>>

\* ... the rename, ...
Rename ==
    /\ At("rename")
    /\ \/ Ok /\ binary' = [binary EXCEPT !.lh = binary.new, !.new = Absent] /\ Go("check")
       \/ Event /\ binary' = [binary EXCEPT !.new = Absent] /\ End("warned")
    /\ UNCHANGED <<done, config, docker, keys, printed, spoiled>>

\* ... and a run of the new file: lh.backup is removed, or put back.
CheckBinary ==
    /\ At("check") /\ Ok
    /\ LET lh == CASE binary.lh # Broken -> binary.lh
                   [] binary.lh = Broken /\ binary.backup # Absent -> binary.backup
                   [] binary.lh = Broken /\ binary.backup = Absent -> Broken
       IN binary' = [binary EXCEPT !.lh = lh, !.backup = Absent]
    /\ End(IF binary.lh = Broken THEN "warned" ELSE "upgraded")
    /\ UNCHANGED <<done, config, docker, keys, printed, spoiled>>

-----------------------------------------------------------------------------
(* Around the commands *)

\* The terminal is lost or the host goes down; a copy is left unfinished.
Crash ==
    /\ op.pc # "idle" /\ Event /\ End("crashed")
    /\ binary' = CASE At("stage") -> [binary EXCEPT !.new = Broken]
                   [] At("backup") -> [binary EXCEPT !.backup = Broken]
                   [] op.pc \notin {"stage", "backup"} -> binary
    /\ spoiled' = (spoiled \/ At("check"))
    /\ UNCHANGED <<done, config, docker, keys, printed>>

\* regen-admin-token.sh replaces the hash in the volume and restarts the server.
RotateAdminToken ==
    /\ server # 0 /\ volHash # 0 /\ Event
    /\ volHash' = -events' /\ rotated' = -events'
    /\ UNCHANGED <<done, hostHash, docker, keys, binary, op, printed, spoiled>>

PublishImage ==
    /\ published < Newest /\ Event /\ published' = published + 1
    /\ UNCHANGED <<done, config, server, images, keys, binary, op, printed, spoiled>>

-----------------------------------------------------------------------------

InstallStep ==
    \/ Packages \/ Join \/ Docker \/ CaddyRemoved \/ CaddyRuns \/ Keys \/ Verify
    \/ PullImage \/ WriteConfig \/ \E p \in op.todo : SetUp(p) \/ PartFails(p)

UpgradeStep == GetBinary \/ PullForUpgrade \/ Backup \/ Stage \/ Rename \/ CheckBinary

ServerStep == ServerRemoved \/ Seed \/ ServerRuns \/ ServerUp \/ Timers

Next ==
    \/ Install \/ InstallStep \/ ServerStep \/ Upgrade \/ UpgradeStep \/ PhaseFails
    \/ Crash \/ RotateAdminToken \/ PublishImage

Spec == Init /\ [][Next]_vars

-----------------------------------------------------------------------------
(* Properties *)

\* An install that reports success has done all of its phases, those that ran
\* beside one that failed included (commands/install.rs joins the parallel
\* tasks), and has left a server running.
SetupComplete == op.out = "installed" => done = Steps /\ server # 0 /\ hostHash # 0

\* A rotated admin token is never undone by what follows, an upgrade or another
\* install, failed and crashed ones included (the seeding comment of templates.rs).
RotatedTokenKept == rotated # 0 => volHash = rotated

\* Whatever fails, the lh of the host is a program that runs, except while a new
\* one is being tried; two faults in a row can break it: a backup that was not
\* written or a crash at that point, and a new file that does not run
\* (stage_and_rename_commands and install_binary).
HostBinaryWorks == binary.lh \in Versions \/ At("check") \/ spoiled

\* The token printed by an install that succeeds is the one the server accepts,
\* until it is rotated (phase7_server_configuration: the caller prints it
\* exactly once at the end of install).
PrintedTokenWorks == op.out = "installed" /\ rotated = 0 /\ server # 0 => volHash = printed
=============================================================================
