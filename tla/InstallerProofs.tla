--------------------------- MODULE InstallerProofs ---------------------------
(***************************************************************************)
(* Proofs about Installer, for every number of releases and of events.     *)
(***************************************************************************)
EXTENDS Installer, TLAPS

-----------------------------------------------------------------------------
(* Types *)

Files == 0..(Newest + 1)
Parts == Fetched \cup {"firewall", "user"}
Pcs == {"idle", "packages", "join", "docker", "caddy", "caddy run", "stop", "seed", "run", "up",
        "keys", "timers", "verify", "get", "pull", "backup", "stage", "rename", "check"}
Kinds == {"none", "install", "upgrade"}
Outs == {"none", "failed", "warned", "crashed", "installed", "upgraded"}
Op == [pc : Pcs, kind : Kinds, todo : SUBSET Parts, failed : BOOLEAN, tok : Int,
       tag : 0..Newest, bin : Files, keys : BOOLEAN, skip : BOOLEAN, out : Outs]
Binary == [lh : Files, new : Files, backup : Files]

HostOK ==
    /\ done \in SUBSET Steps
    /\ hostHash \in Int /\ volHash \in Int /\ rotated \in Int /\ printed \in Int
    /\ server \in 0..Newest /\ published \in Versions /\ images \in [0..Newest -> 0..Newest]
    /\ keys \in BOOLEAN /\ spoiled \in BOOLEAN /\ events \in Nat

TypeOK == HostOK /\ binary \in Binary /\ op \in Op

LEMMA IdleType == Idle \in Op
BY InstallerBounds DEF Idle, Op, Pcs, Parts, Files, Absent, Kinds, Outs

LEMMA InitType == Init => TypeOK
<1> SUFFICES ASSUME Init PROVE TypeOK
  OBVIOUS
<1>1. images \in [0..Newest -> 0..Newest]
  BY InstallerBounds DEF Init
<1>2. server \in 0..Newest /\ published \in Versions /\ events \in Nat /\ done \in SUBSET Steps
  BY InstallerBounds DEF Init, Versions
<1>3. hostHash \in Int /\ volHash \in Int /\ rotated \in Int /\ printed \in Int
  BY DEF Init
<1>4. keys \in BOOLEAN /\ spoiled \in BOOLEAN
  BY DEF Init
<1>5. binary \in Binary
  BY InstallerBounds DEF Init, Binary, Files, Absent
<1>6. QED
  BY <1>1, <1>2, <1>3, <1>4, <1>5, IdleType DEF Init, TypeOK, HostOK

(* What a command's record becomes. *)
LEMMA OpWith == ASSUME NEW o \in Op, NEW pc \in Pcs PROVE [o EXCEPT !.pc = pc] \in Op
BY DEF Op

LEMMA OpEnd == ASSUME NEW o \in Op, NEW k \in Kinds, NEW r \in Outs
               PROVE  [o EXCEPT !.kind = k, !.out = r] \in Op
BY DEF Op

LEMMA OpStart == ASSUME NEW o \in Op, NEW pc \in Pcs, NEW k \in Kinds
                 PROVE  [o EXCEPT !.pc = pc, !.kind = k] \in Op
BY DEF Op

LEMMA OpInstall == ASSUME NEW o \in Op, NEW pc \in Pcs, NEW k \in Kinds,
                          NEW b \in BOOLEAN, NEW s \in BOOLEAN
                   PROVE  [o EXCEPT !.pc = pc, !.kind = k, !.keys = b, !.skip = s] \in Op
BY DEF Op

LEMMA Goes == ASSUME TypeOK, NEW pc \in Pcs, Go(pc) PROVE op' \in Op
BY OpWith DEF Go, TypeOK

LEMMA Ends == ASSUME TypeOK, NEW r \in Outs, End(r) PROVE op' \in Op
<1>1. op.kind \in Kinds
  BY DEF TypeOK, Op
<1>2. QED
  BY <1>1, OpEnd, IdleType DEF End

LEMMA Counts == ASSUME TypeOK, Ok \/ Event PROVE events' \in Nat
BY DEF TypeOK, HostOK, Ok, Event

LEMMA StepType == TypeOK /\ [Next]_vars => TypeOK'
<1> SUFFICES ASSUME TypeOK, [Next]_vars PROVE TypeOK'
  OBVIOUS
<1> USE DEF config, docker
<1>1. CASE Install
  <2>1. op' \in Op
    <3>1. PICK b \in BOOLEAN, s \in BOOLEAN :
             op' = [Idle EXCEPT !.pc = "packages", !.kind = "install", !.keys = b, !.skip = s]
      BY <1>1 DEF Install
    <3>2. QED
      BY <1>1, <3>1, OpInstall, IdleType DEF Pcs, Kinds
  <2>2. events' \in Nat
    BY <1>1, Counts DEF Install
  <2>3. QED
    BY <1>1, <2>1, <2>2 DEF Install, TypeOK, HostOK
<1>2. CASE Packages
  <2>1. op' \in Op
    BY <1>2 DEF Packages, TypeOK, Op, Pcs, Parts, Fetched
  <2>2. events' \in Nat
    BY <1>2, Counts DEF Packages
  <2>3. done' \in SUBSET Steps
    BY <1>2 DEF Packages, TypeOK, HostOK, Adds, Steps
  <2>4. QED
    BY <1>2, <2>1, <2>2, <2>3 DEF Packages, TypeOK, HostOK
<1>3. CASE Join
  <2>1. op' \in Op
    BY <1>3, Goes, Ends DEF Join, Pcs, Outs
  <2>2. events' \in Nat
    BY <1>3, Counts DEF Join
  <2>3. QED
    BY <1>3, <2>1, <2>2 DEF Join, TypeOK, HostOK
<1>4. CASE Docker
  <2>1. op' \in Op
    BY <1>4 DEF Docker, TypeOK, Op, Pcs, Parts, Fetched
  <2>2. events' \in Nat
    BY <1>4, Counts DEF Docker
  <2>3. done' \in SUBSET Steps
    BY <1>4 DEF Docker, TypeOK, HostOK, Adds, Steps
  <2>4. QED
    BY <1>4, <2>1, <2>2, <2>3 DEF Docker, TypeOK, HostOK
<1>5. CASE CaddyRemoved
  <2>1. op' \in Op
    BY <1>5, Goes DEF CaddyRemoved, Pcs
  <2>2. events' \in Nat
    BY <1>5, Counts DEF CaddyRemoved
  <2>3. done' \in SUBSET Steps
    <3>1. done' = done \ {"caddy"} \/ done' = done
      BY <1>5 DEF CaddyRemoved
    <3>2. QED
      BY <1>5, <3>1 DEF TypeOK, HostOK
  <2>4. QED
    BY <1>5, <2>1, <2>2, <2>3 DEF CaddyRemoved, TypeOK, HostOK
<1>6. CASE CaddyRuns
  <2>1. op' \in Op
    BY <1>6, Goes DEF CaddyRuns, Pcs
  <2>2. events' \in Nat
    BY <1>6, Counts DEF CaddyRuns
  <2>3. done' \in SUBSET Steps
    BY <1>6 DEF CaddyRuns, TypeOK, HostOK, Adds, Steps
  <2>4. QED
    BY <1>6, <2>1, <2>2, <2>3 DEF CaddyRuns, TypeOK, HostOK
<1>7. CASE Keys
  <2>1. op' \in Op
    BY <1>7, Goes DEF Keys, Pcs
  <2>2. events' \in Nat
    BY <1>7, Counts DEF Keys
  <2>3. keys' \in BOOLEAN
    BY <1>7 DEF Keys, TypeOK, HostOK
  <2>4. QED
    BY <1>7, <2>1, <2>2, <2>3 DEF Keys, TypeOK, HostOK
<1>8. CASE Verify
  <2>1. op' \in Op
    BY <1>8, Ends DEF Verify, Outs
  <2>2. events' \in Nat
    BY <1>8, Counts DEF Verify
  <2>3. printed' \in Int
    BY <1>8 DEF Verify, TypeOK, HostOK, Op
  <2>4. QED
    BY <1>8, <2>1, <2>2, <2>3 DEF Verify, TypeOK, HostOK
<1>9. CASE PullImage
  <2>1. op' \in Op
    <3>1. PICK tag \in 0..Newest : op' = [op EXCEPT !.todo = @ \ {"image"}, !.tag = tag]
      BY <1>9 DEF PullImage
    <3>2. QED
      BY <1>9, <3>1 DEF TypeOK, Op
  <2>2. events' \in Nat
    BY <1>9, Counts DEF PullImage
  <2>3. images' \in [0..Newest -> 0..Newest]
    BY <1>9, InstallerBounds DEF PullImage, Pull, TypeOK, HostOK, Versions
  <2>4. QED
    BY <1>9, <2>1, <2>2, <2>3 DEF PullImage, TypeOK, HostOK, Pull
<1>10. CASE WriteConfig
  <2>1. op' \in Op
    <3>1. events \in Int
      BY <1>10 DEF TypeOK, HostOK
    <3>2. QED
      BY <1>10, <3>1 DEF WriteConfig, TypeOK, Op, Pcs, Parts, Fetched
  <2>2. events' \in Nat
    BY <1>10, Counts DEF WriteConfig
  <2>3. hostHash' \in Int
    BY <1>10 DEF WriteConfig, TypeOK, HostOK
  <2>4. QED
    BY <1>10, <2>1, <2>2, <2>3 DEF WriteConfig, TypeOK, HostOK
<1>11. ASSUME NEW p \in op.todo, SetUp(p) PROVE TypeOK'
  <2>1. op' \in Op
    BY <1>11 DEF SetUp, TypeOK, Op, Pcs, Parts, Fetched
  <2>2. events' \in Nat
    BY <1>11, Counts DEF SetUp
  <2>3. done' \in SUBSET Steps
    BY <1>11 DEF SetUp, TypeOK, HostOK, Adds, Steps, Op, Parts, Fetched
  <2>4. QED
    BY <1>11, <2>1, <2>2, <2>3 DEF SetUp, TypeOK, HostOK
<1>12. ASSUME NEW p \in op.todo, PartFails(p) PROVE TypeOK'
  <2>1. op' \in Op
    BY <1>12 DEF PartFails, TypeOK, Op, Pcs, Parts, Fetched
  <2>2. events' \in Nat
    BY <1>12, Counts DEF PartFails
  <2>3. hostHash' \in Int
    BY <1>12 DEF PartFails, TypeOK, HostOK
  <2>4. QED
    BY <1>12, <2>1, <2>2, <2>3 DEF PartFails, TypeOK, HostOK
<1>13. CASE ServerRemoved
  <2>1. op' \in Op
    BY <1>13, Goes DEF ServerRemoved, Pcs
  <2>2. events' \in Nat
    BY <1>13, Counts DEF ServerRemoved
  <2>3. server' \in 0..Newest
    BY <1>13, InstallerBounds DEF ServerRemoved, TypeOK, HostOK
  <2>4. QED
    BY <1>13, <2>1, <2>2, <2>3 DEF ServerRemoved, TypeOK, HostOK
<1>14. CASE Seed
  <2>1. op' \in Op
    BY <1>14, Goes DEF Seed, Pcs
  <2>2. events' \in Nat
    BY <1>14, Counts DEF Seed
  <2>3. volHash' \in Int
    BY <1>14 DEF Seed, TypeOK, HostOK
  <2>4. QED
    BY <1>14, <2>1, <2>2, <2>3 DEF Seed, TypeOK, HostOK
<1>15. CASE ServerRuns
  <2>1. op' \in Op
    BY <1>15, Goes DEF ServerRuns, Pcs
  <2>2. events' \in Nat
    BY <1>15, Counts DEF ServerRuns
  <2>3. server' \in 0..Newest
    BY <1>15 DEF ServerRuns, TypeOK, HostOK, Op
  <2>4. QED
    BY <1>15, <2>1, <2>2, <2>3 DEF ServerRuns, TypeOK, HostOK
<1>16. CASE ServerUp
  <2>1. op' \in Op
    BY <1>16, Goes DEF ServerUp, Pcs
  <2>2. events' \in Nat
    BY <1>16, Counts DEF ServerUp
  <2>3. QED
    BY <1>16, <2>1, <2>2 DEF ServerUp, TypeOK, HostOK
<1>17. CASE Timers
  <2>1. op' \in Op
    BY <1>17, Goes DEF Timers, Pcs
  <2>2. events' \in Nat
    BY <1>17, Counts DEF Timers
  <2>3. done' \in SUBSET Steps
    BY <1>17 DEF Timers, TypeOK, HostOK, Adds, Steps
  <2>4. QED
    BY <1>17, <2>1, <2>2, <2>3 DEF Timers, TypeOK, HostOK
<1>18. CASE Upgrade
  <2>1. op' \in Op
    BY <1>18, OpStart, IdleType DEF Upgrade, Pcs, Kinds
  <2>2. events' \in Nat
    BY <1>18, Counts DEF Upgrade
  <2>3. QED
    BY <1>18, <2>1, <2>2 DEF Upgrade, TypeOK, HostOK
<1>19. CASE GetBinary
  <2>1. op' \in Op
    <3>1. PICK b \in Versions \cup {Broken} : op' = [op EXCEPT !.pc = "pull", !.bin = b]
      BY <1>19 DEF GetBinary
    <3>2. b \in Files
      BY <1>19, InstallerBounds DEF Files, Broken, Versions
    <3>3. QED
      BY <1>19, <3>1, <3>2 DEF TypeOK, Op, Pcs
  <2>2. events' \in Nat
    BY <1>19, Counts DEF GetBinary
  <2>3. QED
    BY <1>19, <2>1, <2>2 DEF GetBinary, TypeOK, HostOK
<1>20. CASE PullForUpgrade
  <2>1. op' \in Op
    BY <1>20 DEF PullForUpgrade, TypeOK, Op, Pcs, Parts, Fetched
  <2>2. events' \in Nat
    BY <1>20, Counts DEF PullForUpgrade
  <2>3. images' \in [0..Newest -> 0..Newest]
    BY <1>20, InstallerBounds DEF PullForUpgrade, Pull, TypeOK, HostOK, Versions
  <2>4. QED
    BY <1>20, <2>1, <2>2, <2>3 DEF PullForUpgrade, TypeOK, HostOK, Pull
<1>21. CASE Backup
  <2>1. op' \in Op
    BY <1>21, Goes DEF Backup, Pcs
  <2>2. events' \in Nat
    BY <1>21, Counts DEF Backup
  <2>3. spoiled' \in BOOLEAN
    BY <1>21 DEF Backup, TypeOK, HostOK
  <2>4. binary' \in Binary
    <3>1. op.bin \in Files /\ Absent \in Files /\ Broken \in Files
      BY <1>21, InstallerBounds DEF TypeOK, Op, Files, Absent, Broken
    <3>2. QED
      BY <1>21, <3>1 DEF Backup, TypeOK, Binary
  <2>5. QED
    BY <1>21, <2>1, <2>2, <2>3, <2>4 DEF Backup, TypeOK, HostOK
<1>22. CASE Stage
  <2>1. op' \in Op
    BY <1>22, Goes, Ends DEF Stage, Pcs, Outs
  <2>2. events' \in Nat
    BY <1>22, Counts DEF Stage
  <2>3. binary' \in Binary
    <3>1. op.bin \in Files /\ Absent \in Files /\ Broken \in Files
      BY <1>22, InstallerBounds DEF TypeOK, Op, Files, Absent, Broken
    <3>2. QED
      BY <1>22, <3>1 DEF Stage, TypeOK, Binary
  <2>4. QED
    BY <1>22, <2>1, <2>2, <2>3 DEF Stage, TypeOK, HostOK
<1>23. CASE Rename
  <2>1. op' \in Op
    BY <1>23, Goes, Ends DEF Rename, Pcs, Outs
  <2>2. events' \in Nat
    BY <1>23, Counts DEF Rename
  <2>3. binary' \in Binary
    <3>1. op.bin \in Files /\ Absent \in Files /\ Broken \in Files
      BY <1>23, InstallerBounds DEF TypeOK, Op, Files, Absent, Broken
    <3>2. QED
      BY <1>23, <3>1 DEF Rename, TypeOK, Binary
  <2>4. QED
    BY <1>23, <2>1, <2>2, <2>3 DEF Rename, TypeOK, HostOK
<1>24. CASE CheckBinary
  <2>1. op' \in Op
    BY <1>24, Goes, Ends DEF CheckBinary, Pcs, Outs
  <2>2. events' \in Nat
    BY <1>24, Counts DEF CheckBinary
  <2>3. binary' \in Binary
    <3>1. op.bin \in Files /\ Absent \in Files /\ Broken \in Files
      BY <1>24, InstallerBounds DEF TypeOK, Op, Files, Absent, Broken
    <3>2. QED
      BY <1>24, <3>1 DEF CheckBinary, TypeOK, Binary
  <2>4. QED
    BY <1>24, <2>1, <2>2, <2>3 DEF CheckBinary, TypeOK, HostOK
<1>25. CASE PhaseFails
  <2>1. op' \in Op
    BY <1>25, Ends DEF PhaseFails, Outs
  <2>2. events' \in Nat
    BY <1>25, Counts DEF PhaseFails
  <2>3. QED
    BY <1>25, <2>1, <2>2 DEF PhaseFails, TypeOK, HostOK
<1>26. CASE Crash
  <2>1. op' \in Op
    BY <1>26, Ends DEF Crash, Outs
  <2>2. events' \in Nat
    BY <1>26, Counts DEF Crash
  <2>3. spoiled' \in BOOLEAN
    BY <1>26 DEF Crash, TypeOK, HostOK
  <2>4. binary' \in Binary
    <3>1. Broken \in Files
      BY <1>26, InstallerBounds DEF Files, Broken
    <3>2. CASE At("stage")
      BY <1>26, <3>1, <3>2 DEF Crash, At, TypeOK, Binary
    <3>3. CASE At("backup")
      BY <1>26, <3>1, <3>3 DEF Crash, At, TypeOK, Binary
    <3>4. CASE op.pc \notin {"stage", "backup"}
      BY <1>26, <3>4 DEF Crash, At, TypeOK
    <3>5. QED
      BY <1>26, <3>2, <3>3, <3>4 DEF At
  <2>5. QED
    BY <1>26, <2>1, <2>2, <2>3, <2>4 DEF Crash, TypeOK, HostOK
<1>27. CASE RotateAdminToken
  <2>1. op' \in Op
    BY <1>27 DEF RotateAdminToken, TypeOK
  <2>2. events' \in Nat
    BY <1>27, Counts DEF RotateAdminToken
  <2>3. volHash' \in Int /\ rotated' \in Int
    BY <1>27, <2>2 DEF RotateAdminToken
  <2>4. QED
    BY <1>27, <2>1, <2>2, <2>3 DEF RotateAdminToken, TypeOK, HostOK
<1>28. CASE PublishImage
  <2>1. op' \in Op
    BY <1>28 DEF PublishImage, TypeOK
  <2>2. events' \in Nat
    BY <1>28, Counts DEF PublishImage
  <2>3. published' \in Versions
    BY <1>28, InstallerBounds DEF PublishImage, TypeOK, HostOK, Versions
  <2>4. QED
    BY <1>28, <2>1, <2>2, <2>3 DEF PublishImage, TypeOK, HostOK
<1>29. CASE UNCHANGED vars
  BY <1>29 DEF vars, TypeOK, HostOK
<1>30. QED
  BY <1>1, <1>2, <1>3, <1>4, <1>5, <1>6, <1>7, <1>8, <1>9, <1>10, <1>11, <1>12, <1>13,
     <1>14, <1>15, <1>16, <1>17, <1>18, <1>19, <1>20, <1>21, <1>22, <1>23, <1>24, <1>25,
     <1>26, <1>27, <1>28, <1>29
     DEF Next, InstallStep, ServerStep, UpgradeStep

(* Every variable keeps its type, for every number of releases and events. *)
THEOREM TypeCorrect == Spec => []TypeOK
BY InitType, StepType, PTL DEF Spec

-----------------------------------------------------------------------------
(* Commands *)

InstallPcs == {"packages", "join", "docker", "caddy", "caddy run", "keys", "verify"}
UpgradePcs == {"get", "pull", "backup", "stage", "rename", "check"}

\* Which command is at which step.
CommandOK ==
    /\ op.pc # "idle" => op.kind # "none" /\ op.out = "none" /\ events # 0
    /\ op.pc \in InstallPcs => op.kind = "install"
    /\ op.pc \in UpgradePcs => op.kind = "upgrade"

\* What an upgrade has made of the files of /usr/local/bin by each step.
BinaryOK ==
    /\ op.kind = "upgrade" /\ op.pc \notin {"idle", "get"} => op.bin # Absent
    /\ op.pc = "rename" => binary.new # Absent
    /\ op.pc = "check" => binary.lh # Absent
    /\ op.pc \in {"stage", "rename", "check"} /\ ~spoiled => binary.backup \in Versions
    /\ HostBinaryWorks

Ready == {"packages", "firewall", "user"}
Base == Steps \ {"caddy", "timers"}

FirstJoin ==
    /\ op.todo \subseteq {"firewall", "user"} /\ op.tok = 0 /\ "packages" \in done
    /\ op.failed \/ {"firewall", "user"} \subseteq done \cup op.todo

SecondJoin ==
    /\ op.todo \subseteq Fetched /\ Ready \cup {"docker"} \subseteq done
    /\ \/ op.failed
       \/ /\ {"helpers", "logs"} \subseteq done \cup op.todo
          /\ "config" \in op.todo \/ (op.tok # 0 /\ hostHash # 0)
          /\ "image" \in op.todo \/ images[op.tag] # 0

\* What an install has set up by each step.
SetupOK ==
    /\ op.pc = "packages" => op.tok = 0
    /\ op.pc = "join" => FirstJoin \/ SecondJoin
    /\ op.pc = "docker" => Ready \subseteq done /\ op.tok = 0
    /\ op.pc \in {"caddy", "caddy run"} =>
           Base \subseteq done /\ images[op.tag] # 0 /\ hostHash # 0
    /\ op.kind = "install" /\ op.pc \in {"stop", "seed", "run"} =>
           Base \cup {"caddy"} \subseteq done /\ images[op.tag] # 0 /\ hostHash # 0
    /\ op.kind = "install" /\ op.pc \in {"up", "keys", "timers"} =>
           Base \cup {"caddy"} \subseteq done /\ server # 0 /\ hostHash # 0
    /\ op.pc = "verify" => Steps \subseteq done /\ server # 0 /\ hostHash # 0
    /\ SetupComplete

(* What Go and End leave in the command's record. *)
LEMMA GoFields ==
    ASSUME TypeOK, NEW pc \in Pcs, Go(pc)
    PROVE  /\ op'.pc = pc /\ op'.kind = op.kind /\ op'.out = op.out /\ op'.todo = op.todo
           /\ op'.tok = op.tok /\ op'.tag = op.tag /\ op'.bin = op.bin /\ op'.failed = op.failed
BY DEF TypeOK, Op, Go

LEMMA EndFields ==
    ASSUME TypeOK, NEW r \in Outs, End(r)
    PROVE  op'.pc = "idle" /\ op'.kind = op.kind /\ op'.out = r
BY DEF End, Idle

LEMMA Counted ==
    ASSUME TypeOK PROVE (Event => events' # 0) /\ (Ok => events' = events)
BY DEF TypeOK, HostOK, Event, Ok


LEMMA InitCommand == Init => CommandOK
BY DEF Init, CommandOK, Idle, InstallPcs, UpgradePcs

LEMMA StepCommand == TypeOK /\ CommandOK /\ [Next]_vars => CommandOK'
<1> SUFFICES ASSUME TypeOK, CommandOK, [Next]_vars PROVE CommandOK'
  OBVIOUS
<1> USE DEF config, docker, At, CommandOK, InstallPcs, UpgradePcs
<1>1. CASE Install
  BY <1>1, Counted DEF Install, TypeOK, Op, Idle
<1>2. CASE Packages
  BY <1>2, Counted DEF Packages, TypeOK, Op, Idle
<1>3. CASE Join
  BY <1>3, Counted, GoFields, EndFields DEF Join, Pcs, Outs
<1>4. CASE Docker
  BY <1>4, Counted DEF Docker, TypeOK, Op, Idle
<1>5. CASE CaddyRemoved
  BY <1>5, Counted, GoFields DEF CaddyRemoved, Pcs
<1>6. CASE CaddyRuns
  BY <1>6, Counted, GoFields DEF CaddyRuns, Pcs
<1>7. CASE Keys
  BY <1>7, Counted, GoFields DEF Keys, Pcs
<1>8. CASE Verify
  BY <1>8, Counted, EndFields DEF Verify, Outs
<1>9. CASE PullImage
  BY <1>9, Counted DEF PullImage, TypeOK, Op, Idle
<1>10. CASE WriteConfig
  BY <1>10, Counted DEF WriteConfig, TypeOK, Op, Idle
<1>11. ASSUME NEW p \in op.todo, SetUp(p) PROVE CommandOK'
  BY <1>11, Counted DEF SetUp, TypeOK, Op, Idle
<1>12. ASSUME NEW p \in op.todo, PartFails(p) PROVE CommandOK'
  BY <1>12, Counted DEF PartFails, TypeOK, Op, Idle
<1>13. CASE ServerRemoved
  BY <1>13, Counted, GoFields DEF ServerRemoved, Pcs
<1>14. CASE Seed
  BY <1>14, Counted, GoFields DEF Seed, Pcs
<1>15. CASE ServerRuns
  BY <1>15, Counted, GoFields DEF ServerRuns, Pcs
<1>16. CASE ServerUp
  BY <1>16, Counted, GoFields DEF ServerUp, Pcs
<1>17. CASE Timers
  <2>1. op.kind \in Kinds
    BY <1>17 DEF TypeOK, Op
  <2>2. QED
    BY <1>17, <2>1, Counted, GoFields DEF Timers, Pcs, Kinds
<1>18. CASE Upgrade
  BY <1>18, Counted DEF Upgrade, TypeOK, Op, Idle
<1>19. CASE GetBinary
  BY <1>19, Counted DEF GetBinary, TypeOK, Op, Idle
<1>20. CASE PullForUpgrade
  BY <1>20, Counted DEF PullForUpgrade, TypeOK, Op, Idle
<1>21. CASE Backup
  BY <1>21, Counted, GoFields DEF Backup, Pcs
<1>22. CASE Stage
  BY <1>22, Counted, GoFields, EndFields DEF Stage, Pcs, Outs
<1>23. CASE Rename
  BY <1>23, Counted, GoFields, EndFields DEF Rename, Pcs, Outs
<1>24. CASE CheckBinary
  BY <1>24, Counted, GoFields, EndFields DEF CheckBinary, Pcs, Outs
<1>25. CASE PhaseFails
  BY <1>25, Counted, EndFields DEF PhaseFails, Outs
<1>26. CASE Crash
  BY <1>26, Counted, EndFields DEF Crash, Outs
<1>27. CASE RotateAdminToken
  BY <1>27, Counted DEF RotateAdminToken
<1>28. CASE PublishImage
  BY <1>28, Counted DEF PublishImage
<1>29. CASE UNCHANGED vars
  BY <1>29 DEF vars
<1>30. QED
  BY <1>1, <1>2, <1>3, <1>4, <1>5, <1>6, <1>7, <1>8, <1>9, <1>10, <1>11, <1>12, <1>13,
     <1>14, <1>15, <1>16, <1>17, <1>18, <1>19, <1>20, <1>21, <1>22, <1>23, <1>24, <1>25,
     <1>26, <1>27, <1>28, <1>29
     DEF Next, InstallStep, ServerStep, UpgradeStep

-----------------------------------------------------------------------------
(* The files of /usr/local/bin *)

LEMMA FileKinds ==
    /\ Absent # Broken /\ Absent \notin Versions /\ Broken \notin Versions
    /\ \A f \in Files : f # Absent /\ f # Broken => f \in Versions
BY InstallerBounds DEF Absent, Broken, Versions, Files

LEMMA InitBinary == Init => BinaryOK
BY InstallerBounds DEF Init, BinaryOK, HostBinaryWorks, Idle, Versions

LEMMA StepBinary == TypeOK /\ CommandOK /\ BinaryOK /\ [Next]_vars => BinaryOK'
<1> SUFFICES ASSUME TypeOK, CommandOK, BinaryOK, [Next]_vars PROVE BinaryOK'
  OBVIOUS
<1> USE DEF config, docker, At, CommandOK, InstallPcs, UpgradePcs,
           BinaryOK, HostBinaryWorks
<1>1. CASE Install
  BY <1>1 DEF Install, TypeOK, Op, Idle
<1>2. CASE Packages
  BY <1>2 DEF Packages, TypeOK, Op, Idle
<1>3. CASE Join
  BY <1>3, GoFields, EndFields DEF Join, Pcs, Outs
<1>4. CASE Docker
  BY <1>4 DEF Docker, TypeOK, Op, Idle
<1>5. CASE CaddyRemoved
  BY <1>5, GoFields DEF CaddyRemoved, Pcs
<1>6. CASE CaddyRuns
  BY <1>6, GoFields DEF CaddyRuns, Pcs
<1>7. CASE Keys
  BY <1>7, GoFields DEF Keys, Pcs
<1>8. CASE Verify
  BY <1>8, EndFields DEF Verify, Outs
<1>9. CASE PullImage
  BY <1>9 DEF PullImage, TypeOK, Op, Idle
<1>10. CASE WriteConfig
  BY <1>10 DEF WriteConfig, TypeOK, Op, Idle
<1>11. ASSUME NEW p \in op.todo, SetUp(p) PROVE BinaryOK'
  BY <1>11 DEF SetUp, TypeOK, Op, Idle
<1>12. ASSUME NEW p \in op.todo, PartFails(p) PROVE BinaryOK'
  BY <1>12 DEF PartFails, TypeOK, Op, Idle
<1>13. CASE ServerRemoved
  BY <1>13, GoFields DEF ServerRemoved, Pcs
<1>14. CASE Seed
  BY <1>14, GoFields DEF Seed, Pcs
<1>15. CASE ServerRuns
  BY <1>15, GoFields DEF ServerRuns, Pcs
<1>16. CASE ServerUp
  BY <1>16, GoFields DEF ServerUp, Pcs
<1>17. CASE Timers
  BY <1>17, GoFields DEF Timers, Pcs
<1>18. CASE Upgrade
  BY <1>18, FileKinds DEF Upgrade, TypeOK, Op, Idle
<1>19. CASE GetBinary
  BY <1>19, FileKinds DEF GetBinary, TypeOK, Op, Idle
<1>20. CASE PullForUpgrade
  BY <1>20 DEF PullForUpgrade, TypeOK, Op, Idle
<1>21. CASE Backup
  <2>1. binary'.lh = binary.lh
    BY <1>21 DEF Backup, TypeOK, Binary
  <2>2. spoiled' \/ (~spoiled /\ binary'.backup = binary.lh)
    BY <1>21 DEF Backup, TypeOK, Binary, HostOK
  <2>3. op'.pc = "stage" /\ op'.kind = op.kind /\ op'.bin = op.bin /\ op.kind = "upgrade"
    BY <1>21, GoFields DEF Backup, Pcs
  <2>4. spoiled => spoiled'
    BY <1>21 DEF Backup
  <2>5. QED
    BY <1>21, <2>1, <2>2, <2>3, <2>4 DEF Backup
<1>22. CASE Stage
  BY <1>22, FileKinds, GoFields, EndFields DEF Stage, TypeOK, Binary, Op, Pcs, Outs
<1>23. CASE Rename
  BY <1>23, FileKinds, GoFields, EndFields DEF Rename, TypeOK, Binary, Op, Pcs, Outs
<1>24. CASE CheckBinary
  BY <1>24, FileKinds, GoFields, EndFields DEF CheckBinary, TypeOK, Binary, Op, Pcs, Outs
<1>25. CASE PhaseFails
  BY <1>25, EndFields DEF PhaseFails, Outs
<1>26. CASE Crash
  BY <1>26, FileKinds, EndFields DEF Crash, TypeOK, Binary, Op, Outs
<1>27. CASE RotateAdminToken
  BY <1>27 DEF RotateAdminToken
<1>28. CASE PublishImage
  BY <1>28 DEF PublishImage
<1>29. CASE UNCHANGED vars
  BY <1>29 DEF vars
<1>30. QED
  BY <1>1, <1>2, <1>3, <1>4, <1>5, <1>6, <1>7, <1>8, <1>9, <1>10, <1>11, <1>12, <1>13,
     <1>14, <1>15, <1>16, <1>17, <1>18, <1>19, <1>20, <1>21, <1>22, <1>23, <1>24, <1>25,
     <1>26, <1>27, <1>28, <1>29
     DEF Next, InstallStep, ServerStep, UpgradeStep

-----------------------------------------------------------------------------
(* The parts of an install *)

LEMMA InitSetup == Init => SetupOK
BY DEF Init, SetupOK, SetupComplete, Idle

LEMMA Pulled ==
    ASSUME TypeOK, NEW v, NEW tag \in 0..Newest, Pull(v, tag)
    PROVE  images'[tag] # 0
BY InstallerBounds DEF Pull, TypeOK, HostOK, Versions

LEMMA StepSetup == TypeOK /\ CommandOK /\ SetupOK /\ [Next]_vars => SetupOK'
<1> SUFFICES ASSUME TypeOK, CommandOK, SetupOK, [Next]_vars PROVE SetupOK'
  OBVIOUS
<1> USE DEF config, docker, At, CommandOK, InstallPcs, UpgradePcs,
           SetupOK, SetupComplete, FirstJoin, SecondJoin, Base, Ready, Steps
<1>1. CASE Install
  BY <1>1 DEF Install, TypeOK, Op, Idle
<1>2. CASE Packages
  BY <1>2 DEF Packages, TypeOK, Op, Idle, Adds
<1>3. CASE Join
  BY <1>3, GoFields, EndFields DEF Join, Pcs, Outs
<1>4. CASE Docker
  BY <1>4 DEF Docker, TypeOK, Op, Idle, Adds, Fetched
<1>5. CASE CaddyRemoved
  BY <1>5, GoFields DEF CaddyRemoved, Pcs
<1>6. CASE CaddyRuns
  BY <1>6, GoFields DEF CaddyRuns, Pcs, Adds
<1>7. CASE Keys
  BY <1>7, GoFields DEF Keys, Pcs
<1>8. CASE Verify
  BY <1>8, EndFields DEF TypeOK, HostOK, Verify, Outs
<1>9. CASE PullImage
  <2>1. PICK tag \in 0..Newest : /\ Pull(binary.lh, tag)
           /\ op' = [op EXCEPT !.todo = @ \ {"image"}, !.tag = tag]
    BY <1>9 DEF PullImage
  <2>2. /\ op'.pc = "join" /\ op'.todo = op.todo \ {"image"} /\ op'.tag = tag
        /\ op'.tok = op.tok /\ op'.failed = op.failed /\ op'.out = op.out
    BY <1>9, <2>1 DEF PullImage, TypeOK, Op
  <2>3. images'[op'.tag] # 0
    <3>1. images'[tag] # 0
      BY ONLY <2>1, TypeOK, Pulled
    <3>2. QED
      BY <1>9, <2>2, <3>1
  <2>4. SecondJoin
    BY <1>9 DEF PullImage
  <2>5. SecondJoin'
    BY <1>9, <2>2, <2>3, <2>4 DEF PullImage, Fetched
  <2>6. op.out = "none"
    BY <1>9 DEF PullImage
  <2>7. QED
    BY <1>9, <2>2, <2>5, <2>6
<1>10. CASE WriteConfig
  BY <1>10 DEF WriteConfig, TypeOK, Op, Idle, Fetched
<1>11. ASSUME NEW p \in op.todo, SetUp(p) PROVE SetupOK'
  BY <1>11 DEF SetUp, TypeOK, Op, Idle, Adds, Fetched
<1>12. ASSUME NEW p \in op.todo, PartFails(p) PROVE SetupOK'
  BY <1>12 DEF PartFails, TypeOK, Op, Idle, Fetched
<1>13. CASE ServerRemoved
  BY <1>13, GoFields DEF ServerRemoved, Pcs
<1>14. CASE Seed
  BY <1>14, GoFields DEF Seed, Pcs
<1>15. CASE ServerRuns
  BY <1>15, GoFields DEF ServerRuns, Pcs
<1>16. CASE ServerUp
  BY <1>16, GoFields DEF ServerUp, Pcs
<1>17. CASE Timers
  BY <1>17, GoFields DEF Timers, Pcs, Adds
<1>18. CASE Upgrade
  BY <1>18 DEF Upgrade, TypeOK, Op, Idle
<1>19. CASE GetBinary
  BY <1>19 DEF GetBinary, TypeOK, Op, Idle
<1>20. CASE PullForUpgrade
  BY <1>20 DEF PullForUpgrade, TypeOK, Op, Idle, Fetched
<1>21. CASE Backup
  BY <1>21, GoFields DEF Backup, Pcs
<1>22. CASE Stage
  BY <1>22, GoFields, EndFields DEF Stage, Pcs, Outs
<1>23. CASE Rename
  BY <1>23, GoFields, EndFields DEF Rename, Pcs, Outs
<1>24. CASE CheckBinary
  BY <1>24, GoFields, EndFields DEF CheckBinary, Pcs, Outs
<1>25. CASE PhaseFails
  BY <1>25, EndFields DEF PhaseFails, Outs
<1>26. CASE Crash
  BY <1>26, EndFields DEF Crash, Outs
<1>27. CASE RotateAdminToken
  BY <1>27 DEF RotateAdminToken
<1>28. CASE PublishImage
  BY <1>28 DEF PublishImage
<1>29. CASE UNCHANGED vars
  BY <1>29 DEF vars
<1>30. QED
  BY <1>1, <1>2, <1>3, <1>4, <1>5, <1>6, <1>7, <1>8, <1>9, <1>10, <1>11, <1>12, <1>13,
     <1>14, <1>15, <1>16, <1>17, <1>18, <1>19, <1>20, <1>21, <1>22, <1>23, <1>24, <1>25,
     <1>26, <1>27, <1>28, <1>29
     DEF Next, InstallStep, ServerStep, UpgradeStep

-----------------------------------------------------------------------------

(* An install that reports success has done every phase and left a server,     *)
(* whatever failed beside it or before it.                                     *)
THEOREM InstalledIsComplete == Spec => []SetupComplete
<1>1. SetupOK => SetupComplete
  BY DEF SetupOK
<1>2. QED
  BY <1>1, InitType, StepType, InitCommand, StepCommand, InitSetup, StepSetup, PTL DEF Spec

(* The lh of the host is a program that runs, except while a new one is tried  *)
(* or after two faults in a row.                                               *)
THEOREM BinaryAlwaysWorks == Spec => []HostBinaryWorks
<1>1. BinaryOK => HostBinaryWorks
  BY DEF BinaryOK
<1>2. QED
  BY <1>1, InitType, StepType, InitCommand, StepCommand, InitBinary, StepBinary, PTL DEF Spec

(* A rotated admin token stays: the seed of a later boot never replaces it. *)
THEOREM RotatedTokenStays == Spec => []RotatedTokenKept
<1>1. Init => RotatedTokenKept
  BY DEF Init, RotatedTokenKept
<1>2. TypeOK /\ RotatedTokenKept /\ [Next]_vars => RotatedTokenKept'
  <2> SUFFICES ASSUME TypeOK, RotatedTokenKept, [Next]_vars PROVE RotatedTokenKept'
    OBVIOUS
  <2>1. CASE Seed
    BY <2>1 DEF Seed, RotatedTokenKept
  <2>2. CASE RotateAdminToken
    BY <2>2 DEF RotateAdminToken, RotatedTokenKept
  <2>3. UNCHANGED <<volHash, rotated>> \/ Seed \/ RotateAdminToken
    <3> USE DEF config, docker
    <3>1. InstallStep => UNCHANGED <<volHash, rotated>>
      BY DEF InstallStep, Packages, Join, Docker, CaddyRemoved, CaddyRuns, Keys, Verify,
             PullImage, WriteConfig, SetUp, PartFails
    <3>2. ServerStep => UNCHANGED <<volHash, rotated>> \/ Seed
      BY DEF ServerStep, ServerRemoved, ServerRuns, ServerUp, Timers
    <3>3. UpgradeStep => UNCHANGED <<volHash, rotated>>
      BY DEF UpgradeStep, GetBinary, PullForUpgrade, Backup, Stage, Rename, CheckBinary
    <3>4. QED
      BY <3>1, <3>2, <3>3 DEF Next, Install, Upgrade, PhaseFails, Crash, PublishImage, vars
  <2>4. QED
    BY <2>1, <2>2, <2>3 DEF RotatedTokenKept
<1>3. QED
  BY <1>1, <1>2, InitType, StepType, PTL DEF Spec

=============================================================================
