---------------------------- MODULE DeployPathProofs ----------------------------
(***************************************************************************)
(* Proofs about DeployPath, for every number of clients, commits and       *)
(* events, any abbreviation of a sha and any time-out.                     *)
(***************************************************************************)
EXTENDS DeployPath, FiniteSetTheorems, WellFoundedInduction, TLAPS

ShaSet == {Shas[i] : i \in DOMAIN Shas} \cup Wants \cup {None}

Pcs == {"idle", "create", "platform", "token", "device", "secret", "read", "put",
        "list", "check", "late", "done"}
RunPcs == {"queued", "build", "hook", "waits", "deploys", "success", "failure"}
Statuses == {"in_progress", "failed", "succeeded"}
Outs == {"none", "exists", "error", "linked", "build_failed", "timed_out"} \cup Statuses
ClientRec ==
    [pc : Pcs, rotate : BOOLEAN, ask : BOOLEAN, tok : Nat, right : BOOLEAN, scope : BOOLEAN,
     base : Nat, sha : Wants \cup {None}, limit : Nat, watch : BOOLEAN, elapsed : Nat,
     last : Nat \cup {None}, cur : Nat, bad : Nat, out : Outs]
RunRec ==
    [commit : Nat, ci : BOOLEAN, sha : ShaSet, tok : Nat, rec : Nat, pc : RunPcs,
     refused : BOOLEAN, shaken : BOOLEAN, again : BOOLEAN]
DeployRec == [sha : ShaSet, status : Statuses]

TypeOK ==
    /\ hash \in Nat /\ secret \in Nat /\ file \in [ver : Nat, right : BOOLEAN]
    /\ tokens \in [{"env", "stored"} -> {"none", "repo", "workflow"}]
    /\ head \in 0..Len(Shas) /\ runs \in Seq(RunRec) /\ deploys \in Seq(DeployRec)
    /\ client \in [Clients -> ClientRec] /\ torn \in BOOLEAN /\ events \in Nat

\* The steps of a linking after the server has a new token.
After == {"platform", "token", "device", "secret", "read", "put"}

LinkInv ==
    /\ \A c \in Clients : client[c].pc = "create" => events > 0
    /\ \A c \in Clients : client[c].pc \in After => hash # 0
    /\ file.ver # 0 \/ runs # <<>> => hash # 0
    /\ ~torn => \A c, d \in Linking : c = d /\ client[c].tok = hash
    /\ ~torn /\ Linking = {} /\ hash # 0 => secret = hash
    /\ \A r \in DOMAIN runs : ~runs[r].shaken =>
        /\ runs[r].pc = "queued" => ~torn /\ Linking = {}
        /\ runs[r].pc \in {"build", "hook"} => runs[r].tok = hash
        /\ ~runs[r].refused

\* A wait has looked at GitHub at its first poll, and looks again in time.
WaitOK(w) ==
    /\ w.bad # 0 => w.pc \in {"list", "check", "late"}
    /\ w.last = None => w.bad = 0
    /\ w.last # None => w.last <= w.elapsed /\ w.last + w.bad <= w.elapsed
    /\ w.bad <= CheckEvery
    /\ w.pc = "late" /\ w.cur = 0 /\ w.watch => w.last # None /\ w.elapsed < w.last + CheckEvery
WaitInv == \A c \in Clients : WaitOK(client[c])

\* One workflow run for each commit; a deploy record is that of a run, which a
\* deploy that succeeded has made succeed.
RunsInv ==
    /\ \A r \in DOMAIN runs : runs[r].ci =>
        runs[r].commit \in 1..head /\ runs[r].sha = Shas[runs[r].commit]
    /\ \A r, s \in DOMAIN runs : runs[r].ci /\ runs[s].ci /\ runs[r].commit = runs[s].commit => r = s
    /\ \A r \in DOMAIN runs : runs[r].pc = "deploys" =>
        runs[r].rec \in DOMAIN deploys /\ deploys[runs[r].rec].sha = runs[r].sha
    /\ \A d \in DOMAIN deploys : \E r \in DOMAIN runs :
        /\ runs[r].sha = deploys[d].sha
        /\ deploys[d].status = "succeeded" => runs[r].again \/ runs[r].pc = "success"

\* A wait that looks at GitHub looks for a commit, and the answer that the build
\* failed was given of a run that did.
WatchOK(w) == w.watch \/ w.pc = "check" \/ w.out = "build_failed" => w.sha # None
WatchInv == \A c \in Clients : WatchOK(client[c])
FailedInv ==
    \A c \in Clients : client[c].out = "build_failed" =>
        \E r \in DOMAIN runs :
            /\ runs[r].ci /\ IsPrefix(client[c].sha, Shas[runs[r].commit])
            /\ runs[r].pc = "failure" \/ runs[r].again

-----------------------------------------------------------------------------
(* Records, and sequences of them. *)

LEMMA SetField ==
    ASSUME NEW s \in ClientRec
    PROVE  /\ \A v \in Pcs : [s EXCEPT !.pc = v] \in ClientRec
           /\ \A v \in BOOLEAN : /\ [s EXCEPT !.rotate = v] \in ClientRec
                                 /\ [s EXCEPT !.ask = v] \in ClientRec
                                 /\ [s EXCEPT !.right = v] \in ClientRec
                                 /\ [s EXCEPT !.scope = v] \in ClientRec
                                 /\ [s EXCEPT !.watch = v] \in ClientRec
           /\ \A v \in Nat : /\ [s EXCEPT !.tok = v] \in ClientRec
                             /\ [s EXCEPT !.base = v] \in ClientRec
                             /\ [s EXCEPT !.limit = v] \in ClientRec
                             /\ [s EXCEPT !.elapsed = v] \in ClientRec
                             /\ [s EXCEPT !.last = v] \in ClientRec
                             /\ [s EXCEPT !.cur = v] \in ClientRec
                             /\ [s EXCEPT !.bad = v] \in ClientRec
           /\ \A v \in Wants \cup {None} : [s EXCEPT !.sha = v] \in ClientRec
           /\ \A v \in Outs : [s EXCEPT !.out = v] \in ClientRec
<1>1. \A v \in Pcs : [s EXCEPT !.pc = v] \in ClientRec
  BY DEF ClientRec
<1>2. \A v \in BOOLEAN : [s EXCEPT !.rotate = v] \in ClientRec
  BY DEF ClientRec
<1>3. \A v \in BOOLEAN : [s EXCEPT !.ask = v] \in ClientRec
  BY DEF ClientRec
<1>4. \A v \in BOOLEAN : [s EXCEPT !.right = v] \in ClientRec
  BY DEF ClientRec
<1>5. \A v \in BOOLEAN : [s EXCEPT !.scope = v] \in ClientRec
  BY DEF ClientRec
<1>6. \A v \in BOOLEAN : [s EXCEPT !.watch = v] \in ClientRec
  BY DEF ClientRec
<1>7. \A v \in Nat : [s EXCEPT !.tok = v] \in ClientRec
  BY DEF ClientRec
<1>8. \A v \in Nat : [s EXCEPT !.base = v] \in ClientRec
  BY DEF ClientRec
<1>9. \A v \in Nat : [s EXCEPT !.limit = v] \in ClientRec
  BY DEF ClientRec
<1>10. \A v \in Nat : [s EXCEPT !.elapsed = v] \in ClientRec
  BY DEF ClientRec
<1>11. \A v \in Nat : [s EXCEPT !.last = v] \in ClientRec
  BY DEF ClientRec
<1>12. \A v \in Nat : [s EXCEPT !.cur = v] \in ClientRec
  BY DEF ClientRec
<1>13. \A v \in Nat : [s EXCEPT !.bad = v] \in ClientRec
  BY DEF ClientRec
<1>14. \A v \in Wants \cup {None} : [s EXCEPT !.sha = v] \in ClientRec
  BY DEF ClientRec
<1>15. \A v \in Outs : [s EXCEPT !.out = v] \in ClientRec
  BY DEF ClientRec
<1>16. QED
  BY <1>1, <1>2, <1>3, <1>4, <1>5, <1>6, <1>7, <1>8, <1>9, <1>10, <1>11, <1>12, <1>13, <1>14, <1>15

LEMMA IdleType == Idle \in ClientRec
BY PathNames DEF Idle, ClientRec, Pcs, Outs

LEMMA RunField ==
    ASSUME NEW s \in RunRec
    PROVE  /\ \A v \in RunPcs : [s EXCEPT !.pc = v] \in RunRec
           /\ \A v \in Nat : [s EXCEPT !.tok = v] \in RunRec /\ [s EXCEPT !.rec = v] \in RunRec
           /\ \A v \in BOOLEAN : /\ [s EXCEPT !.refused = v] \in RunRec
                                 /\ [s EXCEPT !.shaken = v] \in RunRec
                                 /\ [s EXCEPT !.again = v] \in RunRec
<1>1. \A v \in RunPcs : [s EXCEPT !.pc = v] \in RunRec
  BY DEF RunRec
<1>2. \A v \in Nat : [s EXCEPT !.tok = v] \in RunRec
  BY DEF RunRec
<1>3. \A v \in Nat : [s EXCEPT !.rec = v] \in RunRec
  BY DEF RunRec
<1>4. \A v \in BOOLEAN : [s EXCEPT !.refused = v] \in RunRec
  BY DEF RunRec
<1>5. \A v \in BOOLEAN : [s EXCEPT !.shaken = v] \in RunRec
  BY DEF RunRec
<1>6. \A v \in BOOLEAN : [s EXCEPT !.again = v] \in RunRec
  BY DEF RunRec
<1>7. QED
  BY <1>1, <1>2, <1>3, <1>4, <1>5, <1>6

\* The newest of some of the first n is one of them.
LEMMA NewestIn == ASSUME NEW n \in Nat, NEW S, S \subseteq 1..n, S # {} PROVE Newest(S) \in S
<1> DEFINE R == OpToRel(<, Nat)
           T == {n - i : i \in S}
<1>1. \A i \in S : i \in Nat /\ n - i \in Nat
  OBVIOUS
<1>2. T \subseteq Nat /\ T # {}
  BY <1>1
<1>3. IsWellFoundedOn(R, Nat)
  BY NatLessThanWellFounded
<1>4. PICK x \in T : \A y \in T : ~(<<y, x>> \in R)
  <2> HIDE DEF R, T
  <2>1. QED
    BY <1>2, <1>3, WFMin
<1>5. \A y \in T : ~(y < x)
  BY <1>2, <1>4 DEF OpToRel
<1>6. PICK i \in S : x = n - i
  BY <1>4
<1>7. \A j \in S : ~(n - j < n - i)
  BY <1>5, <1>6
<1>8. \A j \in S : j <= i
  BY <1>1, <1>7
<1>9. QED
  BY <1>8 DEF Newest

-----------------------------------------------------------------------------
(* Types *)

\* A step of client c, whose new record is w.
Moves(c, w) == w \in ClientRec /\ client' = [client EXCEPT ![c] = w]

LEMMA Moved ==
    ASSUME client \in [Clients -> ClientRec], NEW c \in Clients, NEW w, Moves(c, w)
    PROVE  /\ client' \in [Clients -> ClientRec]
           /\ client'[c] = w
           /\ \A d \in Clients : d # c => client'[d] = client[d]
BY DEF Moves

LEMMA EndType ==
    ASSUME NEW out \in Outs, NEW sha \in Wants \cup {None}
    PROVE  [Idle EXCEPT !.pc = "done", !.out = out, !.sha = sha] \in ClientRec
<1> DEFINE s == [Idle EXCEPT !.pc = "done"]
           t == [s EXCEPT !.out = out]
           u == [t EXCEPT !.sha = sha]
<1>1. s \in ClientRec
  BY IdleType, SetField DEF Pcs
<1>2. [Idle EXCEPT !.pc = "done", !.out = out, !.sha = sha] = u
  OBVIOUS
<1> HIDE DEF s
<1>3. t \in ClientRec
  BY <1>1, SetField
<1> HIDE DEF t
<1>4. u \in ClientRec
  BY <1>3, SetField
<1>5. QED
  BY <1>2, <1>4

\* The records that the steps of a linking and of a wait begin, and those they go on with.
LEMMA StartType ==
    ASSUME NEW x \in BOOLEAN, NEW y \in BOOLEAN, NEW sha \in Wants \cup {None}, NEW n \in Nat
    PROVE  /\ [Idle EXCEPT !.pc = "create", !.rotate = x, !.ask = y] \in ClientRec
           /\ [Idle EXCEPT !.pc = "list", !.sha = sha, !.limit = n, !.watch = x] \in ClientRec
<1> DEFINE s == [Idle EXCEPT !.pc = "create"]
           t == [s EXCEPT !.rotate = x]
           u == [t EXCEPT !.ask = y]
           f == [Idle EXCEPT !.pc = "list"]
           g == [f EXCEPT !.sha = sha]
           h == [g EXCEPT !.limit = n]
           i == [h EXCEPT !.watch = x]
<1>1. s \in ClientRec /\ f \in ClientRec
  BY IdleType, SetField DEF Pcs
<1>2. /\ [Idle EXCEPT !.pc = "create", !.rotate = x, !.ask = y] = u
      /\ [Idle EXCEPT !.pc = "list", !.sha = sha, !.limit = n, !.watch = x] = i
  OBVIOUS
<1> HIDE DEF s, f
<1>3. t \in ClientRec /\ g \in ClientRec
  BY <1>1, SetField
<1> HIDE DEF t, g
<1>4. u \in ClientRec /\ h \in ClientRec
  BY <1>3, SetField
<1> HIDE DEF h
<1>5. i \in ClientRec
  BY <1>4, SetField
<1>6. QED
  BY <1>2, <1>4, <1>5

LEMMA GoType ==
    ASSUME NEW w \in ClientRec, NEW pc \in Pcs, NEW n \in Nat, NEW m \in Nat, NEW b \in BOOLEAN
    PROVE  /\ [w EXCEPT !.pc = pc] \in ClientRec
           /\ [w EXCEPT !.elapsed = n] \in ClientRec
           /\ [w EXCEPT !.pc = pc, !.tok = n] \in ClientRec
           /\ [w EXCEPT !.pc = pc, !.right = b] \in ClientRec
           /\ [w EXCEPT !.pc = pc, !.scope = b] \in ClientRec
           /\ [w EXCEPT !.pc = pc, !.base = n] \in ClientRec
           /\ [w EXCEPT !.pc = pc, !.last = n, !.bad = m] \in ClientRec
           /\ [w EXCEPT !.pc = pc, !.elapsed = n, !.bad = m] \in ClientRec
           /\ [w EXCEPT !.cur = n, !.pc = pc, !.bad = m] \in ClientRec
<1> DEFINE s == [w EXCEPT !.pc = pc]
           t == [s EXCEPT !.last = n]
           u == [s EXCEPT !.elapsed = n]
           v == [w EXCEPT !.cur = n]
           x == [v EXCEPT !.pc = pc]
<1>1. s \in ClientRec /\ v \in ClientRec /\ [w EXCEPT !.elapsed = n] \in ClientRec
  BY SetField
<1>2. /\ [w EXCEPT !.pc = pc, !.tok = n] = [s EXCEPT !.tok = n]
      /\ [w EXCEPT !.pc = pc, !.right = b] = [s EXCEPT !.right = b]
      /\ [w EXCEPT !.pc = pc, !.scope = b] = [s EXCEPT !.scope = b]
      /\ [w EXCEPT !.pc = pc, !.base = n] = [s EXCEPT !.base = n]
      /\ [w EXCEPT !.pc = pc, !.last = n, !.bad = m] = [t EXCEPT !.bad = m]
      /\ [w EXCEPT !.pc = pc, !.elapsed = n, !.bad = m] = [u EXCEPT !.bad = m]
      /\ [w EXCEPT !.cur = n, !.pc = pc, !.bad = m] = [x EXCEPT !.bad = m]
  OBVIOUS
<1> HIDE DEF s, v
<1>3. /\ t \in ClientRec /\ u \in ClientRec /\ x \in ClientRec /\ [s EXCEPT !.tok = n] \in ClientRec
      /\ [s EXCEPT !.right = b] \in ClientRec /\ [s EXCEPT !.scope = b] \in ClientRec
      /\ [s EXCEPT !.base = n] \in ClientRec
  BY <1>1, SetField
<1> HIDE DEF t, u, x
<1>4. /\ [t EXCEPT !.bad = m] \in ClientRec /\ [u EXCEPT !.bad = m] \in ClientRec
      /\ [x EXCEPT !.bad = m] \in ClientRec
  BY <1>3, SetField
<1>5. QED
  BY <1>1, <1>2, <1>3, <1>4 DEF s

LEMMA TargetIn ==
    ASSUME deploys \in Seq(DeployRec), NEW want, NEW limit, Target(want, limit) # 0
    PROVE  /\ Target(want, limit) \in DOMAIN deploys
           /\ want # None => Matches(deploys[Target(want, limit)].sha, want)
<1> DEFINE S == {d \in Listed(limit) : want # None => Matches(deploys[d].sha, want)}
<1>1. S # {} /\ S \subseteq 1..Len(deploys) /\ Len(deploys) \in Nat
  BY DEF Target, Newest, Listed
<1>2. Newest(S) \in S
  BY <1>1, NewestIn
<1>3. QED
  BY <1>1, <1>2 DEF Target

LEMMA NewestRunIn ==
    ASSUME runs \in Seq(RunRec), NEW want, NewestRun(want) # 0
    PROVE  /\ NewestRun(want) \in DOMAIN runs
           /\ runs[NewestRun(want)].ci /\ IsPrefix(want, Shas[runs[NewestRun(want)].commit])
<1> DEFINE S == {r \in DOMAIN runs : runs[r].ci /\ IsPrefix(want, Shas[runs[r].commit])}
<1>1. S # {} /\ S \subseteq 1..Len(runs) /\ Len(runs) \in Nat
  BY DEF NewestRun, Newest
<1>2. Newest(S) \in S
  BY <1>1, NewestIn
<1>3. QED
  BY <1>1, <1>2 DEF NewestRun

ClientAct(c) == Provision(c) \/ Wait(c) \/ ClientStep(c) \/ ClientFails(c) \/ Leave(c)

LEMMA ClientMoves == ASSUME TypeOK, NEW c \in Clients, ClientAct(c) PROVE \E w : Moves(c, w)
<1>0. /\ client[c] \in ClientRec /\ client \in [Clients -> ClientRec] /\ deploys \in Seq(DeployRec)
      /\ events \in Nat /\ file.ver \in Nat /\ client[c].sha \in Wants \cup {None}
      /\ client[c].elapsed \in Nat /\ client[c].bad \in Nat
  BY DEF TypeOK, ClientRec
<1>1. ASSUME NEW out \in Outs, End(c, out) PROVE \E w : Moves(c, w)
  BY <1>0, <1>1, EndType DEF End, Set, Moves
<1>2. ASSUME NEW pc \in Pcs, Go(c, pc) PROVE \E w : Moves(c, w)
  BY <1>0, <1>2, GoType DEF Go, Set, Moves
<1>3. CASE Provision(c)
  <2>1. PICK rotate, ask \in BOOLEAN :
            Set(c, [Idle EXCEPT !.pc = "create", !.rotate = rotate, !.ask = ask])
    BY <1>3 DEF Provision
  <2>2. QED
    BY <2>1, StartType, PathNames DEF Set, Moves
<1>4. CASE Wait(c)
  <2>1. PICK sha \in Wants \cup {None}, limit \in Limits, watch \in BOOLEAN :
            Set(c, [Idle EXCEPT !.pc = "list", !.sha = sha, !.limit = limit, !.watch = watch])
    BY <1>4 DEF Wait
  <2>2. QED
    BY <2>1, StartType, PathBounds DEF Set, Moves
<1>5. CASE CreateApp(c)
  <2>1. CASE End(c, "exists")
    BY <1>1, <2>1 DEF Outs
  <2>2. CASE Set(c, [client[c] EXCEPT !.pc = "platform", !.tok = events])
    BY <1>0, <2>2, GoType DEF Set, Moves, Pcs
  <2>3. QED
    BY <1>5, <2>1, <2>2 DEF CreateApp
<1>6. CASE Platform(c)
  <2>1. CASE Go(c, "token")
    BY <1>2, <2>1 DEF Pcs
  <2>2. CASE Set(c, [client[c] EXCEPT !.pc = "token", !.right = FALSE])
    BY <1>0, <2>2, GoType DEF Set, Moves, Pcs
  <2>3. QED
    BY <1>6, <2>1, <2>2 DEF Platform
<1>7. CASE Token(c)
  <2>1. CASE \E scope \in BOOLEAN : Set(c, [client[c] EXCEPT !.pc = "secret", !.scope = scope])
    BY <1>0, <2>1, GoType DEF Set, Moves, Pcs
  <2>2. CASE Set(c, [client[c] EXCEPT !.pc = "device"])
    BY <1>0, <2>2, GoType DEF Set, Moves, Pcs
  <2>3. CASE End(c, "failed")
    BY <1>1, <2>3 DEF Outs, Statuses
  <2>4. QED
    BY <1>7, <2>1, <2>2, <2>3 DEF Token
<1>8. CASE Device(c)
  <2>1. CASE End(c, "failed")
    BY <1>1, <2>1 DEF Outs, Statuses
  <2>2. CASE \E dt \in 1..2 : Set(c, [client[c] EXCEPT !.elapsed = @ + dt])
    <3>1. PICK dt \in 1..2 : Set(c, [client[c] EXCEPT !.elapsed = client[c].elapsed + dt])
      BY <2>2
    <3>2. client[c].elapsed + dt \in Nat
      BY <1>0
    <3>3. [client[c] EXCEPT !.elapsed = client[c].elapsed + dt] \in ClientRec
      BY <1>0, <3>2, SetField
    <3>4. QED
      BY <3>1, <3>3 DEF Set, Moves
  <2>3. CASE Set(c, [client[c] EXCEPT !.pc = "secret", !.scope = FALSE])
    BY <1>0, <2>3, GoType DEF Set, Moves, Pcs
  <2>4. QED
    BY <1>8, <2>1, <2>2, <2>3 DEF Device
<1>9. CASE PutSecret(c)
  BY <1>2, <1>9 DEF PutSecret, Pcs
<1>10. CASE ReadFile(c)
  BY <1>0, <1>10, GoType DEF ReadFile, Set, Moves, Pcs
<1>11. CASE PutFile(c)
  BY <1>1, <1>11 DEF PutFile, Outs, Statuses
<1>12. CASE List(c)
  <2> DEFINE d == Target(client[c].sha, client[c].limit)
             bad == IF d = 0 THEN client[c].bad ELSE 0
  <2>1. d \in Nat /\ (d # 0 => deploys[d].status \in Statuses)
    <3>1. d # 0 => d \in 1..Len(deploys) /\ Len(deploys) \in Nat
      BY <1>0, TargetIn
    <3> HIDE DEF d
    <3>2. d # 0 => deploys[d] \in DeployRec
      BY <1>0, <3>1
    <3>3. QED
      BY <3>1, <3>2 DEF DeployRec
  <2>2. CASE d # 0 /\ End(c, deploys[d].status)
    BY <1>1, <2>1, <2>2 DEF Outs
  <2>3. CASE \E pc \in {"check", "late"} :
                Set(c, [client[c] EXCEPT !.cur = d, !.pc = pc, !.bad = bad])
    <3>1. bad \in Nat
      BY <1>0
    <3> HIDE DEF bad, d
    <3>2. QED
      BY <1>0, <2>1, <2>3, <3>1, GoType DEF Set, Moves, Pcs
  <2>4. QED
    BY <1>12, <2>2, <2>3 DEF List
<1>13. CASE Check(c)
  <2>1. CASE End(c, "build_failed")
    BY <1>1, <2>1 DEF Outs
  <2>2. CASE Set(c, [client[c] EXCEPT !.pc = "late", !.last = client[c].elapsed, !.bad = 0])
    BY <1>0, <2>2, GoType DEF Set, Moves, Pcs
  <2>3. QED
    BY <1>13, <2>1, <2>2 DEF Check
<1>14. CASE Late(c)
  <2>1. CASE End(c, "timed_out")
    BY <1>1, <2>1 DEF Outs
  <2>2. CASE \E m \in Nat :
            Set(c, [client[c] EXCEPT !.pc = "list", !.elapsed = client[c].elapsed + 1, !.bad = m])
    <3>1. PICK m \in Nat : Set(c, [client[c] EXCEPT !.pc = "list",
                                      !.elapsed = client[c].elapsed + 1, !.bad = m])
      BY <2>2
    <3>2. client[c].elapsed + 1 \in Nat
      BY <1>0
    <3>3. QED
      BY <1>0, <3>1, <3>2, GoType DEF Set, Moves, Pcs
  <2>3. CASE client[c].elapsed < Timeout
    <3> DEFINE failed == client[c].watch /\ client[c].cur = 0
                            /\ RunFailed(NewestRun(client[c].sha))
    <3>1. Set(c, [client[c] EXCEPT !.pc = "list", !.elapsed = @ + 1,
                                  !.bad = IF failed THEN @ + 1 ELSE 0])
      BY <1>0, <1>14, <2>3, PathBounds DEF Late
    <3> HIDE DEF failed
    <3>2. (IF failed THEN client[c].bad + 1 ELSE 0) \in Nat
      BY <1>0
    <3>3. QED
      BY <2>2, <3>1, <3>2
  <2>4. QED
    BY <1>0, <1>14, <2>1, <2>3, PathBounds DEF Late
<1>15. CASE ClientFails(c)
  BY <1>1, <1>15 DEF ClientFails, Outs
<1>16. CASE Leave(c)
  BY <1>16, IdleType DEF Leave, Set, Moves
<1>17. QED
  BY <1>3, <1>4, <1>5, <1>6, <1>7, <1>8, <1>9, <1>10, <1>11, <1>12, <1>13, <1>14, <1>15, <1>16
     DEF ClientAct, ClientStep

\* A step of run r, whose new record is x.
RunMoves(r, x) ==
    /\ x \in RunRec /\ runs' = [runs EXCEPT ![r] = x]
    /\ x.commit = runs[r].commit /\ x.ci = runs[r].ci /\ x.sha = runs[r].sha

RunAct(r) ==
    StartRun(r) \/ Build(r) \/ Rerun(r) \/ Hook(r) \/ DeployStarts(r) \/ DeploySettles(r) \/ Lose(r)

LEMMA RunMoved ==
    ASSUME runs \in Seq(RunRec), NEW r \in DOMAIN runs, NEW x, RunMoves(r, x)
    PROVE  /\ runs' \in Seq(RunRec) /\ DOMAIN runs' = DOMAIN runs
           /\ runs'[r] = x
           /\ \A s \in DOMAIN runs : s # r => runs'[s] = runs[s]
BY DEF RunMoves

LEMMA RunTypes ==
    ASSUME NEW s \in RunRec, NEW pc \in RunPcs, NEW n \in Nat, NEW b \in BOOLEAN
    PROVE  /\ [s EXCEPT !.pc = pc] \in RunRec
           /\ [s EXCEPT !.pc = pc, !.tok = n] \in RunRec
           /\ [s EXCEPT !.pc = pc, !.rec = n] \in RunRec
           /\ [s EXCEPT !.pc = pc, !.refused = TRUE] \in RunRec
           /\ [s EXCEPT !.pc = pc, !.again = TRUE] \in RunRec
           /\ [s EXCEPT !.pc = pc, !.again = TRUE, !.rec = 0, !.shaken = b] \in RunRec
<1> DEFINE t == [s EXCEPT !.pc = pc]
           u == [t EXCEPT !.again = TRUE]
           v == [u EXCEPT !.rec = 0]
<1>1. t \in RunRec
  BY RunField
<1>2. /\ [s EXCEPT !.pc = pc, !.tok = n] = [t EXCEPT !.tok = n]
      /\ [s EXCEPT !.pc = pc, !.rec = n] = [t EXCEPT !.rec = n]
      /\ [s EXCEPT !.pc = pc, !.refused = TRUE] = [t EXCEPT !.refused = TRUE]
      /\ [s EXCEPT !.pc = pc, !.again = TRUE] = u
      /\ [s EXCEPT !.pc = pc, !.again = TRUE, !.rec = 0, !.shaken = b] = [v EXCEPT !.shaken = b]
  OBVIOUS
<1> HIDE DEF t
<1>3. u \in RunRec /\ [t EXCEPT !.tok = n] \in RunRec /\ [t EXCEPT !.rec = n] \in RunRec
      /\ [t EXCEPT !.refused = TRUE] \in RunRec
  BY <1>1, RunField
<1> HIDE DEF u
<1>4. v \in RunRec
  BY <1>3, RunField
<1> HIDE DEF v
<1>5. [v EXCEPT !.shaken = b] \in RunRec
  BY <1>4, RunField
<1>6. QED
  BY <1>1, <1>2, <1>3, <1>5 DEF t

LEMMA RunSteps == ASSUME TypeOK, NEW r \in DOMAIN runs, RunAct(r) PROVE \E x : RunMoves(r, x)
<1>0. /\ runs \in Seq(RunRec) /\ runs[r] \in RunRec /\ secret \in Nat /\ torn \in BOOLEAN
      /\ deploys \in Seq(DeployRec)
  BY DEF TypeOK
<1>1. ASSUME NEW x \in RunRec, runs' = [runs EXCEPT ![r] = x],
             x.commit = runs[r].commit, x.ci = runs[r].ci, x.sha = runs[r].sha
      PROVE  \E y : RunMoves(r, y)
  BY <1>1 DEF RunMoves
<1>2. ASSUME NEW pc \in RunPcs, GoRun(r, pc) PROVE \E x : RunMoves(r, x)
  <2> DEFINE x == [runs[r] EXCEPT !.pc = pc]
  <2>1. x \in RunRec /\ runs' = [runs EXCEPT ![r] = x]
    BY <1>0, <1>2, RunTypes DEF GoRun
  <2>2. x.commit = runs[r].commit /\ x.ci = runs[r].ci /\ x.sha = runs[r].sha
    BY <1>0 DEF RunRec
  <2> HIDE DEF x
  <2>3. QED
    BY <2>1, <2>2, <1>1
<1>3. CASE StartRun(r)
  <2> DEFINE x == [runs[r] EXCEPT !.pc = "build", !.tok = secret]
  <2>1. runs' = [runs EXCEPT ![r] = x]
    BY <1>0, <1>3 DEF StartRun
  <2>2. x \in RunRec
    BY <1>0, RunTypes DEF RunPcs
  <2>3. x.commit = runs[r].commit /\ x.ci = runs[r].ci /\ x.sha = runs[r].sha
    BY <1>0 DEF RunRec
  <2> HIDE DEF x
  <2>4. QED
    BY <2>1, <2>2, <2>3, <1>1
<1>4. CASE Build(r)
  BY <1>2, <1>4 DEF Build, RunPcs
<1>5. CASE Rerun(r)
  <2> DEFINE b == runs[r].shaken \/ torn \/ Linking # {}
             x == [runs[r] EXCEPT !.pc = "queued", !.again = TRUE, !.rec = 0, !.shaken = b]
  <2>1. runs' = [runs EXCEPT ![r] = x]
    BY <1>0, <1>5 DEF Rerun
  <2>2. b \in BOOLEAN
    OBVIOUS
  <2> HIDE DEF b
  <2>3. x \in RunRec
    BY <1>0, <2>2, RunTypes DEF RunPcs
  <2>4. x.commit = runs[r].commit /\ x.ci = runs[r].ci /\ x.sha = runs[r].sha
    BY <1>0 DEF RunRec
  <2> HIDE DEF x
  <2>5. QED
    BY <2>1, <2>3, <2>4, <1>1
<1>6. CASE Hook(r)
  <2>1. CASE GoRun(r, "waits")
    BY <1>2, <2>1 DEF RunPcs
  <2>2. CASE runs' = [runs EXCEPT ![r].pc = "failure", ![r].refused = TRUE]
    <3> DEFINE x == [runs[r] EXCEPT !.pc = "failure", !.refused = TRUE]
    <3>1. runs' = [runs EXCEPT ![r] = x]
      BY <1>0, <2>2
    <3>2. x \in RunRec
      BY <1>0, RunTypes DEF RunPcs
    <3>3. x.commit = runs[r].commit /\ x.ci = runs[r].ci /\ x.sha = runs[r].sha
      BY <1>0 DEF RunRec
    <3> HIDE DEF x
    <3>4. QED
      BY <3>1, <3>2, <3>3, <1>1
  <2>3. QED
    BY <1>6, <2>1, <2>2 DEF Hook
<1>7. CASE DeployStarts(r)
  <2> DEFINE n == Len(deploys) + 1
             x == [runs[r] EXCEPT !.pc = "deploys", !.rec = n]
  <2>0. n \in Nat
    BY <1>0
  <2>1. runs' = [runs EXCEPT ![r] = x]
    BY <1>0, <1>7 DEF DeployStarts
  <2> HIDE DEF n
  <2>2. x \in RunRec
    BY <1>0, <2>0, RunTypes DEF RunPcs
  <2>3. x.commit = runs[r].commit /\ x.ci = runs[r].ci /\ x.sha = runs[r].sha
    BY <1>0 DEF RunRec
  <2> HIDE DEF x
  <2>4. QED
    BY <2>1, <2>2, <2>3, <1>1
<1>8. CASE DeploySettles(r)
  BY <1>2, <1>8 DEF DeploySettles, RunPcs
<1>9. CASE Lose(r)
  <2> DEFINE x == [runs[r] EXCEPT !.pc = "failure", !.again = TRUE]
  <2>1. runs' = [runs EXCEPT ![r] = x]
    BY <1>0, <1>9 DEF Lose
  <2>2. x \in RunRec
    BY <1>0, RunTypes DEF RunPcs
  <2>3. x.commit = runs[r].commit /\ x.ci = runs[r].ci /\ x.sha = runs[r].sha
    BY <1>0 DEF RunRec
  <2> HIDE DEF x
  <2>4. QED
    BY <2>1, <2>2, <2>3, <1>1
<1>10. QED
  BY <1>3, <1>4, <1>5, <1>6, <1>7, <1>8, <1>9 DEF RunAct

LEMMA RunAdded ==
    ASSUME runs \in Seq(RunRec), NEW commit \in Nat, NEW ci \in BOOLEAN, NEW sha \in ShaSet,
           NEW shaken \in BOOLEAN, runs' = NewRun(commit, ci, sha, shaken)
    PROVE  /\ runs' \in Seq(RunRec) /\ DOMAIN runs' = DOMAIN runs \cup {Len(runs) + 1}
           /\ Len(runs) + 1 \notin DOMAIN runs
           /\ \A s \in DOMAIN runs : runs'[s] = runs[s]
           /\ runs'[Len(runs) + 1] =
                [commit |-> commit, ci |-> ci, sha |-> sha, tok |-> 0, rec |-> 0,
                 pc |-> IF ci THEN "queued" ELSE "waits", refused |-> FALSE,
                 shaken |-> shaken, again |-> FALSE]
<1> DEFINE x == [commit |-> commit, ci |-> ci, sha |-> sha, tok |-> 0, rec |-> 0,
                 pc |-> IF ci THEN "queued" ELSE "waits", refused |-> FALSE,
                 shaken |-> shaken, again |-> FALSE]
<1>1. x \in RunRec
  BY DEF RunRec, RunPcs
<1>2. runs' = Append(runs, x)
  BY DEF NewRun
<1> HIDE DEF x
<1>3. /\ runs' \in Seq(RunRec) /\ DOMAIN runs' = DOMAIN runs \cup {Len(runs) + 1}
      /\ Len(runs) + 1 \notin DOMAIN runs
      /\ \A s \in DOMAIN runs : runs'[s] = runs[s]
      /\ runs'[Len(runs) + 1] = x
  BY <1>1, <1>2
<1>4. QED
  BY <1>3 DEF x

LEMMA InitType == Init => TypeOK
<1> SUFFICES ASSUME Init PROVE TypeOK
  OBVIOUS
<1>1. client \in [Clients -> ClientRec]
  BY IdleType DEF Init
<1>2. tokens \in [{"env", "stored"} -> {"none", "repo", "workflow"}]
  BY PathNames DEF Init
<1>3. /\ hash \in Nat /\ secret \in Nat /\ file \in [ver : Nat, right : BOOLEAN]
      /\ torn \in BOOLEAN /\ events \in Nat
  BY DEF Init
<1>6. runs \in Seq(RunRec) /\ deploys \in Seq(DeployRec)
  <2>1. runs = <<>> /\ deploys = <<>>
    BY DEF Init
  <2>2. QED
    BY <2>1
<1>4. head \in 0..Len(Shas)
  BY PathShas DEF Init
<1>5. QED
  BY <1>1, <1>2, <1>3, <1>4, <1>6 DEF TypeOK

\* What a step of a client and one of a run leave alone.
LEMMA NextCases ==
    ASSUME Next
    PROVE  \/ \E c \in Clients : ClientAct(c)
           \/ Push
           \/ ManualDeploy
           \/ \E r \in DOMAIN runs : RunAct(r)
BY DEF Next, ClientAct, RunAct

LEMMA ShaAt == ASSUME TypeOK, head < Len(Shas)
               PROVE  /\ head \in Nat /\ head + 1 \in DOMAIN Shas /\ head + 1 \in 0..Len(Shas)
                      /\ Shas[head + 1] \in ShaSet
BY PathShas DEF TypeOK, ShaSet

LEMMA StepType == TypeOK /\ [Next]_vars => TypeOK'
<1> SUFFICES ASSUME TypeOK, [Next]_vars PROVE TypeOK'
  OBVIOUS
<1>0. /\ runs \in Seq(RunRec) /\ \A r \in DOMAIN runs : runs[r] \in RunRec
      /\ deploys \in Seq(DeployRec) /\ \A d \in DOMAIN deploys : deploys[d] \in DeployRec
      /\ hash \in Nat /\ secret \in Nat /\ file \in [ver : Nat, right : BOOLEAN]
      /\ tokens \in [{"env", "stored"} -> {"none", "repo", "workflow"}]
      /\ head \in 0..Len(Shas) /\ torn \in BOOLEAN /\ events \in Nat
      /\ client \in [Clients -> ClientRec]
      /\ (Linking # {}) \in BOOLEAN
  BY DEF TypeOK
<1>1. ASSUME NEW c \in Clients, ClientAct(c) PROVE TypeOK'
  <2>0. /\ client[c] \in ClientRec /\ client[c].tok \in Nat /\ client[c].right \in BOOLEAN
        /\ events + 1 \in Nat
    BY <1>0 DEF ClientRec
  <2>1. client' \in [Clients -> ClientRec]
    BY <1>0, <1>1, ClientMoves, Moved
  <2>2. hash' \in Nat /\ events' \in Nat /\ secret' \in Nat
    BY <1>0, <1>1, <2>0 DEF ClientAct, ClientStep, Provision, Wait, CreateApp, Platform, Token, Device,
       PutSecret, ReadFile, PutFile, List, Check, Late, ClientFails, Leave, Event, Ok, github, server
  <2>3. tokens' \in [{"env", "stored"} -> {"none", "repo", "workflow"}] /\ torn' \in BOOLEAN
    BY <1>0, <1>1, <2>0 DEF ClientAct, ClientStep, Provision, Wait, CreateApp, Platform, Token, Device,
       PutSecret, ReadFile, PutFile, List, Check, Late, ClientFails, Leave, github, server
  <2>4. deploys' = deploys
    BY <1>0, <1>1, <2>0 DEF ClientAct, ClientStep, Provision, Wait, CreateApp, Platform, Token, Device,
       PutSecret, ReadFile, PutFile, List, Check, Late, ClientFails, Leave, github, server
  <2>5. runs' \in Seq(RunRec) /\ file' \in [ver : Nat, right : BOOLEAN] /\ head' \in 0..Len(Shas)
    <3>1. CASE CreateApp(c)
      <4>1. CASE UNCHANGED runs
        BY <1>0, <3>1, <4>1 DEF CreateApp, github
      <4>2. CASE runs' = [r \in DOMAIN runs |-> [runs[r] EXCEPT !.shaken = TRUE]]
        <5>1. \A r \in DOMAIN runs : [runs[r] EXCEPT !.shaken = TRUE] \in RunRec
          BY <1>0, RunField
        <5>2. DOMAIN runs = 1..Len(runs) /\ Len(runs) \in Nat
          BY <1>0
        <5>3. runs' \in Seq(RunRec)
          BY <4>2, <5>1, <5>2
        <5>4. QED
          BY <1>0, <3>1, <5>3 DEF CreateApp, github
      <4>3. QED
        BY <3>1, <4>1, <4>2 DEF CreateApp
    <3>2. CASE PutFile(c)
      <4>1. CASE UNCHANGED <<file, head, runs>>
        BY <1>0, <4>1
      <4>2. CASE /\ head < Len(Shas) /\ head' = head + 1
                 /\ file' = [ver |-> file.ver + 1, right |-> client[c].right]
                 /\ runs' = NewRun(head + 1, TRUE, Shas[head + 1], torn \/ Linking \ {c} # {})
        <5>1. runs' \in Seq(RunRec)
          <6>1. /\ (torn \/ Linking \ {c} # {}) \in BOOLEAN /\ head + 1 \in Nat
                /\ Shas[head + 1] \in ShaSet
            BY <1>0, <4>2, ShaAt
          <6>2. QED
            BY <1>0, <4>2, <6>1, RunAdded
        <5>2. file' \in [ver : Nat, right : BOOLEAN]
          BY <1>0, <2>0, <4>2
        <5>3. QED
          BY <1>0, <4>2, <5>1, <5>2, ShaAt
      <4>3. QED
        BY <3>2, <4>1, <4>2 DEF PutFile
    <3>3. CASE ~CreateApp(c) /\ ~PutFile(c)
      BY <1>0, <1>1, <3>3 DEF ClientAct, ClientStep, Provision, Wait, Platform, Token, Device,
         PutSecret, ReadFile, List, Check, Late, ClientFails, Leave, github, server
    <3>4. QED
      BY <3>1, <3>2, <3>3
  <2>6. QED
    BY <1>0, <2>1, <2>2, <2>3, <2>4, <2>5 DEF TypeOK
<1>2. CASE Push
  <2>1. runs' \in Seq(RunRec)
    <3>1. CASE UNCHANGED runs
      BY <1>0, <3>1
    <3>2. CASE runs' = NewRun(head + 1, TRUE, Shas[head + 1], torn \/ Linking # {})
      <4>1. /\ head < Len(Shas) /\ (torn \/ Linking # {}) \in BOOLEAN /\ head + 1 \in Nat
            /\ Shas[head + 1] \in ShaSet
        BY <1>0, <1>2, ShaAt DEF Push
      <4>2. QED
        BY <1>0, <3>2, <4>1, RunAdded
    <3>3. QED
      BY <1>2, <3>1, <3>2 DEF Push
  <2>2. head' \in 0..Len(Shas)
    BY <1>2, ShaAt DEF Push
  <2>3. UNCHANGED <<secret, file, hash, deploys, tokens, client, torn>> /\ events' \in Nat
    BY <1>0, <1>2 DEF Push, Event, server
  <2>4. QED
    BY <1>0, <2>1, <2>2, <2>3 DEF TypeOK
<1>3. CASE ManualDeploy
  <2>1. runs' \in Seq(RunRec)
    <3>1. PICK sha \in Wants \cup {None} : runs' = NewRun(0, FALSE, sha, FALSE)
      BY <1>3 DEF ManualDeploy
    <3>2. QED
      BY <1>0, <3>1, RunAdded DEF ShaSet
  <2>2. UNCHANGED <<secret, file, head, hash, deploys, tokens, client, torn>> /\ events' \in Nat
    BY <1>0, <1>3 DEF ManualDeploy, Event, server, github
  <2>3. QED
    BY <1>0, <2>1, <2>2 DEF TypeOK
<1>4. ASSUME NEW r \in DOMAIN runs, RunAct(r) PROVE TypeOK'
  <2>1. runs' \in Seq(RunRec)
    BY <1>0, <1>4, RunSteps, RunMoved
  <2>2. deploys' \in Seq(DeployRec)
    <3>1. CASE DeployStarts(r)
      <4>1. runs[r].sha \in ShaSet
        BY <1>0 DEF RunRec
      <4>2. [sha |-> runs[r].sha, status |-> "in_progress"] \in DeployRec
        BY <4>1 DEF DeployRec, Statuses
      <4>3. QED
        BY <1>0, <3>1, <4>2 DEF DeployStarts
    <3>2. CASE DeploySettles(r)
      <4>1. PICK st \in Statuses : deploys' = [deploys EXCEPT ![runs[r].rec].status = st]
        BY <3>2 DEF DeploySettles, Statuses
      <4>2. \A d \in DOMAIN deploys : [deploys[d] EXCEPT !.status = st] \in DeployRec
        BY <1>0 DEF DeployRec
      <4>3. QED
        <5>1. /\ \A d \in DOMAIN deploys : deploys'[d] \in DeployRec
              /\ DOMAIN deploys' = DOMAIN deploys
          BY <1>0, <4>1, <4>2
        <5>2. DOMAIN deploys = 1..Len(deploys) /\ Len(deploys) \in Nat
          BY <1>0
        <5>3. deploys' = [d \in DOMAIN deploys |-> deploys'[d]]
          BY <1>0, <4>1
        <5>4. QED
          BY <5>1, <5>2, <5>3
    <3>3. CASE UNCHANGED deploys
      BY <1>0, <3>3
    <3>4. QED
      BY <1>4, <3>1, <3>2, <3>3
         DEF RunAct, StartRun, Build, Rerun, Hook, Lose, server
  <2>3. QED
    BY <1>0, <1>4, <2>1, <2>2 DEF RunAct, StartRun, Build, Rerun, Hook, DeployStarts,
       DeploySettles, Lose, Event, Ok, server, github, TypeOK
<1>5. CASE UNCHANGED vars
  BY <1>0, <1>5 DEF vars, server, github, TypeOK
<1>6. QED
  BY <1>1, <1>2, <1>3, <1>4, <1>5, NextCases

\* The state is well-typed in every behaviour.
THEOREM TypeCorrect == Spec => []TypeOK
<1>1. QED
  BY InitType, StepType, PTL DEF Spec

-----------------------------------------------------------------------------
(* A failed build is noticed. *)

LEMMA WaitEnds ==
    ASSUME TypeOK, NEW c \in Clients, NEW out, End(c, out) \/ Set(c, Idle) PROVE WaitOK(client'[c])
<1>1. WaitOK(Idle) /\ WaitOK([Idle EXCEPT !.pc = "done", !.out = out, !.sha = client[c].sha])
  BY PathBounds DEF WaitOK, Idle
<1>2. QED
  BY <1>1 DEF End, Set, TypeOK

LEMMA TokenCases ==
    ASSUME NEW c \in Clients, Token(c)
    PROVE  /\ At(c, "token")
           /\ \/ /\ \E scope \in BOOLEAN : Set(c, [client[c] EXCEPT !.pc = "secret", !.scope = scope])
                 /\ UNCHANGED torn
              \/ Set(c, [client[c] EXCEPT !.pc = "device"]) /\ UNCHANGED torn
              \/ End(c, "failed") /\ torn' = TRUE
BY DEF Token

LEMMA WaitStep == ASSUME TypeOK, WaitInv, NEW c \in Clients, ClientAct(c) PROVE WaitOK(client'[c])
<1> DEFINE w == client[c]
           v == client'[c]
<1>0. /\ client[c] \in ClientRec /\ client \in [Clients -> ClientRec] /\ WaitOK(w)
      /\ w.elapsed \in Nat /\ w.bad \in Nat /\ w.last \in Nat \cup {None} /\ w.pc \in Pcs
      /\ CheckEvery \in Nat /\ CheckEvery > 0 /\ None \notin Nat
  <2>1. client[c] \in ClientRec /\ client \in [Clients -> ClientRec] /\ WaitOK(w)
    BY DEF TypeOK, WaitInv
  <2>2. CheckEvery \in Nat /\ CheckEvery > 0 /\ None \notin Nat
    BY PathBounds, PathNames
  <2>3. QED
    BY <2>1, <2>2 DEF ClientRec
<1>1. ASSUME w.pc \notin {"list", "check", "late"}, v.pc \notin {"list", "check", "late"},
             v.last = w.last, v.bad = w.bad, v.elapsed \in Nat, v.elapsed >= w.elapsed
      PROVE  WaitOK(v)
  BY <1>0, <1>1 DEF WaitOK
<1> USE DEF Set, Go, At
<1>2. CASE Provision(c)
  <2>1. v.pc = "create" /\ v.bad = 0 /\ v.last = None
    BY <1>0, <1>2 DEF Provision, Idle
  <2>2. QED
    BY <1>0, <2>1 DEF WaitOK
<1>3. CASE Wait(c)
  <2>1. v.pc = "list" /\ v.bad = 0 /\ v.last = None
    BY <1>0, <1>3 DEF Wait, Idle
  <2>2. QED
    BY <1>0, <2>1 DEF WaitOK
<1>4. ASSUME NEW out, End(c, out) PROVE WaitOK(v)
  BY <1>4, WaitEnds
<1>5. CASE Leave(c)
  BY <1>5, WaitEnds DEF Leave
<1>6. CASE ClientFails(c)
  BY <1>4, <1>6 DEF ClientFails
<1>7. CASE CreateApp(c) \/ Platform(c) \/ Token(c) \/ PutSecret(c) \/ ReadFile(c) \/ PutFile(c)
  <2>1. CASE \E out : End(c, out)
    BY <1>4, <2>1
  <2>2. CASE ~\E out : End(c, out)
    <3>1. /\ w.pc \notin {"list", "check", "late"} /\ v.pc \notin {"list", "check", "late"}
          /\ v.last = w.last /\ v.bad = w.bad /\ v.elapsed = w.elapsed
      <4>1. CASE CreateApp(c)
        BY <1>0, <2>2, <4>1 DEF CreateApp, ClientRec
      <4>2. CASE Platform(c)
        <5>1. CASE Go(c, "token")
          BY <1>0, <4>2, <5>1 DEF Platform, ClientRec
        <5>2. CASE Set(c, [client[c] EXCEPT !.pc = "token", !.right = FALSE])
          BY <1>0, <4>2, <5>2 DEF Platform, ClientRec
        <5>3. QED
          BY <4>2, <5>1, <5>2 DEF Platform
      <4>3. CASE Token(c)
        <5>1. CASE \E b \in BOOLEAN : Set(c, [client[c] EXCEPT !.pc = "secret", !.scope = b])
          <6>1. PICK b \in BOOLEAN : v = [w EXCEPT !.pc = "secret", !.scope = b]
            BY <1>0, <5>1
          <6>2. w.pc = "token"
            BY <4>3 DEF Token
          <6>3. v.pc = "secret" /\ v.last = w.last /\ v.bad = w.bad /\ v.elapsed = w.elapsed
            BY <1>0, <6>1 DEF ClientRec
          <6>4. QED
            BY <6>2, <6>3
        <5>2. CASE Set(c, [client[c] EXCEPT !.pc = "device"])
          BY <1>0, <4>3, <5>2, TokenCases DEF ClientRec
        <5>3. QED
          BY <2>2, <4>3, <5>1, <5>2, TokenCases
      <4>4. CASE PutSecret(c)
        BY <1>0, <2>2, <4>4 DEF PutSecret, ClientRec
      <4>5. CASE ReadFile(c)
        BY <1>0, <2>2, <4>5 DEF ReadFile, ClientRec
      <4>6. CASE PutFile(c)
        BY <1>0, <2>2, <4>6 DEF PutFile, ClientRec
      <4>7. QED
        BY <1>7, <4>1, <4>2, <4>3, <4>4, <4>5, <4>6
    <3>2. QED
      BY <1>0, <1>1, <3>1
  <2>3. QED
    BY <2>1, <2>2
<1>8. CASE Device(c)
  <2>1. CASE End(c, "failed")
    BY <1>4, <2>1
  <2>2. CASE \E dt \in 1..2 : Set(c, [client[c] EXCEPT !.elapsed = @ + dt])
    <3>1. PICK dt \in 1..2 : v = [w EXCEPT !.elapsed = w.elapsed + dt]
      BY <1>0, <2>2
    <3>2. v.pc = w.pc /\ v.last = w.last /\ v.bad = w.bad /\ v.elapsed = w.elapsed + dt
      BY <1>0, <3>1 DEF ClientRec
    <3>3. w.pc = "device"
      BY <1>8 DEF Device
    <3>4. QED
      BY <1>0, <1>1, <3>2, <3>3
  <2>3. CASE Set(c, [client[c] EXCEPT !.pc = "secret", !.scope = FALSE])
    <3>1. v.pc = "secret" /\ v.last = w.last /\ v.bad = w.bad /\ v.elapsed = w.elapsed
      BY <1>0, <2>3 DEF ClientRec
    <3>2. w.pc = "device"
      BY <1>8 DEF Device
    <3>3. QED
      BY <1>0, <1>1, <3>1, <3>2
  <2>4. QED
    BY <1>8, <2>1, <2>2, <2>3 DEF Device
<1>9. CASE List(c)
  <2> DEFINE d == Target(client[c].sha, client[c].limit)
             look == d = 0 /\ client[c].watch /\ Due(c)
  <2>1. CASE \E out : End(c, out)
    BY <1>4, <2>1
  <2>2. CASE Set(c, [client[c] EXCEPT !.cur = d, !.pc = IF look THEN "check" ELSE "late",
                                      !.bad = IF d = 0 THEN @ ELSE 0])
    <3> HIDE DEF d
    <3>1. /\ v.cur = d /\ v.pc = (IF look THEN "check" ELSE "late")
          /\ v.bad = (IF d = 0 THEN w.bad ELSE 0)
          /\ v.last = w.last /\ v.elapsed = w.elapsed /\ v.watch = w.watch
      BY <1>0, <2>2 DEF ClientRec
    <3>2. v.pc = "late" /\ v.cur = 0 /\ v.watch => w.last # None /\ w.elapsed < w.last + CheckEvery
      BY <1>0, <3>1 DEF Due
    <3>3. v.pc \in {"check", "late"} /\ v.bad \in {0, w.bad}
      BY <3>1
    <3>4. QED
      BY <1>0, <3>1, <3>2, <3>3 DEF WaitOK
  <2>3. QED
    BY <1>9, <2>1, <2>2 DEF List
<1>10. CASE Check(c)
  <2>1. CASE \E out : End(c, out)
    BY <1>4, <2>1
  <2>2. CASE Set(c, [client[c] EXCEPT !.pc = "late", !.last = client[c].elapsed, !.bad = 0])
    <3>1. v.pc = "late" /\ v.last = w.elapsed /\ v.elapsed = w.elapsed /\ v.bad = 0
      BY <1>0, <2>2 DEF ClientRec
    <3>2. QED
      BY <1>0, <3>1 DEF WaitOK
  <2>3. QED
    BY <1>10, <2>1, <2>2 DEF Check
<1>11. CASE Late(c)
  <2> DEFINE failed == w.watch /\ w.cur = 0 /\ RunFailed(NewestRun(w.sha))
  <2>1. CASE \E out : End(c, out)
    BY <1>4, <2>1
  <2>2. CASE Set(c, [client[c] EXCEPT !.pc = "list", !.elapsed = @ + 1,
                                      !.bad = IF failed THEN @ + 1 ELSE 0])
    <3>0. failed => w.watch /\ w.cur = 0
      OBVIOUS
    <3> HIDE DEF failed
    <3>1. /\ v.pc = "list" /\ v.elapsed = w.elapsed + 1 /\ v.last = w.last
          /\ v.bad = (IF failed THEN w.bad + 1 ELSE 0)
      BY <1>0, <2>2 DEF ClientRec
    <3>2. w.pc = "late"
      BY <1>11 DEF Late
    <3>3. failed => w.last # None /\ w.elapsed < w.last + CheckEvery /\ w.last + w.bad <= w.elapsed
      BY <1>0, <3>0, <3>2 DEF WaitOK
    <3>4. QED
      BY <1>0, <3>1, <3>3 DEF WaitOK
  <2>3. QED
    BY <1>11, <2>1, <2>2 DEF Late
<1>12. QED
  BY <1>2, <1>3, <1>5, <1>6, <1>7, <1>8, <1>9, <1>10, <1>11 DEF ClientAct, ClientStep

LEMMA WaitStays == TypeOK /\ WaitInv /\ [Next]_vars => WaitInv'
<1> SUFFICES ASSUME TypeOK, WaitInv, [Next]_vars PROVE WaitInv'
  OBVIOUS
<1>1. ASSUME NEW c \in Clients, ClientAct(c) PROVE WaitInv'
  <2>1. \A d \in Clients : d # c => client'[d] = client[d]
    BY <1>1, ClientMoves, Moved DEF TypeOK
  <2>2. WaitOK(client'[c])
    BY <1>1, WaitStep
  <2>3. ASSUME NEW d \in Clients PROVE WaitOK(client'[d])
    BY <2>1, <2>2 DEF WaitInv
  <2>4. QED
    BY <2>3 DEF WaitInv
<1>2. ASSUME UNCHANGED client PROVE WaitInv'
  BY <1>2 DEF WaitInv
<1>3. ASSUME NEW r \in DOMAIN runs, RunAct(r) PROVE UNCHANGED client
  BY <1>3 DEF RunAct, StartRun, Build, Rerun, Hook, DeployStarts, DeploySettles, Lose
<1>4. QED
  BY <1>1, <1>2, <1>3, NextCases DEF Push, ManualDeploy, vars

\* A failed build is reported at the next look at GitHub, an interval later at
\* most and not by the time-out: at each poll that finds no deploy, the last
\* look is less than an interval old.
THEOREM FailedBuildsAreNoticed == Spec => []BuildFailureNoticed
<1>1. Init => WaitInv
  BY PathBounds DEF Init, WaitInv, WaitOK, Idle
<1>2. TypeOK /\ WaitInv => BuildFailureNoticed
  BY DEF WaitInv, WaitOK, BuildFailureNoticed
<1>3. QED
  BY <1>1, <1>2, TypeCorrect, WaitStays, PTL DEF Spec

-----------------------------------------------------------------------------
(* Who is linking, and with what token. *)

LinkPcs == {"platform", "token", "device", "secret"}

\* The kinds of steps of client c: it is outside of a linking, goes on with it,
\* breaks it off, sets the secret, or begins it with a new token.
Outside(c) ==
    /\ client[c].pc \notin LinkPcs /\ client'[c].pc \notin LinkPcs
    /\ client'[c].pc \in After => client[c].pc \in After
    /\ client'[c].pc = "create" => events' > 0
    /\ UNCHANGED <<hash, secret, torn>>
    /\ UNCHANGED <<file, runs>> \/ PutFile(c)
GoesOn(c) ==
    /\ client[c].pc \in LinkPcs /\ client'[c].pc \in LinkPcs /\ client'[c].tok = client[c].tok
    /\ UNCHANGED <<hash, secret, torn, file, runs>>
BreaksOff(c) ==
    /\ client[c].pc \in LinkPcs /\ client'[c].pc = "done" /\ torn' = TRUE
    /\ UNCHANGED <<hash, secret, file, runs>>
SetsSecret(c) ==
    /\ client[c].pc = "secret" /\ client'[c].pc = "read" /\ secret' = client[c].tok
    /\ UNCHANGED <<hash, torn, file, runs>>
Begins(c) ==
    /\ client[c].pc = "create" /\ client'[c].pc = "platform" /\ client'[c].tok = hash'
    /\ hash' = events /\ torn' = (Linking # {}) /\ UNCHANGED <<secret, file>>
    /\ runs' = [r \in DOMAIN runs |-> [runs[r] EXCEPT !.shaken = TRUE]]

LEMMA LinkCases ==
    ASSUME TypeOK, NEW c \in Clients, ClientAct(c)
    PROVE  Outside(c) \/ GoesOn(c) \/ BreaksOff(c) \/ SetsSecret(c) \/ Begins(c)
<1> DEFINE w == client[c]
           v == client'[c]
<1>0. client[c] \in ClientRec /\ client \in [Clients -> ClientRec] /\ events \in Nat
  BY DEF TypeOK
<1> USE DEF Set, Go, At, LinkPcs, After
<1>1. ASSUME NEW out, End(c, out) PROVE v.pc = "done"
  BY <1>0, <1>1 DEF End, Idle
<1>2. CASE Provision(c)
  <2>1. v.pc = "create"
    BY <1>0, <1>2 DEF Provision, Idle
  <2>2. QED
    BY <1>0, <1>2, <2>1 DEF Provision, Outside, Event, github, server
<1>3. CASE Wait(c)
  <2>1. v.pc = "list"
    BY <1>0, <1>3 DEF Wait, Idle
  <2>2. QED
    BY <1>0, <1>3, <2>1 DEF Wait, Outside, Event, github, server
<1>4. CASE CreateApp(c)
  <2>1. CASE End(c, "exists") /\ UNCHANGED <<hash, torn, runs>>
    <3>1. v.pc = "done"
      BY <1>1, <2>1
    <3>2. QED
      BY <1>4, <2>1, <3>1 DEF CreateApp, Outside, github
  <2>2. CASE /\ hash' = events
             /\ Set(c, [client[c] EXCEPT !.pc = "platform", !.tok = events])
             /\ torn' = (Linking # {})
             /\ runs' = [r \in DOMAIN runs |-> [runs[r] EXCEPT !.shaken = TRUE]]
    <3>1. v.pc = "platform" /\ v.tok = events
      BY <1>0, <2>2 DEF ClientRec
    <3>2. QED
      BY <1>4, <2>2, <3>1 DEF CreateApp, Begins, github
  <2>3. QED
    BY <1>4, <2>1, <2>2 DEF CreateApp
<1>5. CASE Platform(c)
  <2>1. v.pc = "token" /\ v.tok = w.tok
    <3>1. CASE Go(c, "token")
      BY <1>0, <3>1 DEF ClientRec
    <3>2. CASE Set(c, [client[c] EXCEPT !.pc = "token", !.right = FALSE])
      BY <1>0, <3>2 DEF ClientRec
    <3>3. QED
      BY <1>5, <3>1, <3>2 DEF Platform
  <2>2. QED
    BY <1>5, <2>1 DEF Platform, GoesOn, github, server
<1>6. CASE Token(c)
  <2>1. CASE End(c, "failed") /\ torn' = TRUE
    BY <1>1, <1>6, <2>1 DEF Token, BreaksOff, github, server
  <2>2. CASE /\ \E scope \in BOOLEAN : Set(c, [client[c] EXCEPT !.pc = "secret", !.scope = scope])
             /\ UNCHANGED torn
    <3>1. PICK b \in BOOLEAN : v = [w EXCEPT !.pc = "secret", !.scope = b]
      BY <1>0, <2>2
    <3>2. v.pc = "secret" /\ v.tok = w.tok
      BY <1>0, <3>1 DEF ClientRec
    <3>3. QED
      BY <1>6, <2>2, <3>2 DEF Token, GoesOn, github, server
  <2>3. CASE Set(c, [client[c] EXCEPT !.pc = "device"]) /\ UNCHANGED torn
    <3>1. v.pc = "device" /\ v.tok = w.tok
      BY <1>0, <2>3 DEF ClientRec
    <3>2. QED
      BY <1>6, <2>3, <3>1 DEF Token, GoesOn, github, server
  <2>4. QED
    BY <1>6, <2>1, <2>2, <2>3, TokenCases
<1>7. CASE Device(c)
  <2>1. CASE End(c, "failed") /\ torn' = TRUE
    BY <1>1, <1>7, <2>1 DEF Device, BreaksOff, github, server
  <2>2. CASE (\E dt \in 1..2 : Set(c, [client[c] EXCEPT !.elapsed = @ + dt])) /\ UNCHANGED torn
    <3>1. PICK dt \in 1..2 : v = [w EXCEPT !.elapsed = w.elapsed + dt]
      BY <1>0, <2>2
    <3>2. v.pc = w.pc /\ v.tok = w.tok
      BY <1>0, <3>1 DEF ClientRec
    <3>3. QED
      BY <1>7, <2>2, <3>2 DEF Device, GoesOn, github, server
  <2>3. CASE Set(c, [client[c] EXCEPT !.pc = "secret", !.scope = FALSE]) /\ UNCHANGED torn
    <3>1. v.pc = "secret" /\ v.tok = w.tok
      BY <1>0, <2>3 DEF ClientRec
    <3>2. QED
      BY <1>7, <2>3, <3>1 DEF Device, GoesOn, github, server
  <2>4. QED
    BY <1>7, <2>1, <2>2, <2>3 DEF Device
<1>8. CASE PutSecret(c)
  <2>1. v.pc = "read"
    BY <1>0, <1>8 DEF PutSecret, ClientRec
  <2>2. QED
    BY <1>8, <2>1 DEF PutSecret, SetsSecret, server
<1>9. CASE ReadFile(c)
  <2>1. v.pc = "put"
    BY <1>0, <1>9 DEF ReadFile, ClientRec
  <2>2. QED
    BY <1>9, <2>1 DEF ReadFile, Outside, github, server
<1>10. CASE PutFile(c)
  <2>1. v.pc = "done"
    BY <1>1, <1>10 DEF PutFile
  <2>2. QED
    BY <1>10, <2>1 DEF PutFile, Outside, server
<1>11. CASE List(c) \/ Check(c) \/ Late(c)
  <2>1. v.pc \in {"list", "check", "late", "done"}
    <3>1. CASE \E out : End(c, out)
      BY <1>1, <3>1
    <3>2. CASE ~\E out : End(c, out)
      BY <1>0, <1>11, <3>2 DEF List, Check, Late, ClientRec
    <3>3. QED
      BY <3>1, <3>2
  <2>2. QED
    BY <1>11, <2>1 DEF List, Check, Late, Outside, github, server
<1>12. CASE ClientFails(c)
  <2>1. v.pc = "done"
    BY <1>1, <1>12 DEF ClientFails
  <2>2. CASE c \in Linking
    BY <1>12, <2>1, <2>2 DEF ClientFails, Linking, BreaksOff, github, server
  <2>3. CASE c \notin Linking
    BY <1>0, <1>12, <2>1, <2>3 DEF ClientFails, Linking, Outside, github, server, TypeOK
  <2>4. QED
    BY <2>2, <2>3
<1>13. CASE Leave(c)
  <2>1. v.pc = "idle"
    BY <1>0, <1>13 DEF Leave, Idle
  <2>2. QED
    BY <1>13, <2>1 DEF Leave, Outside, github, server
<1>14. QED
  BY <1>2, <1>3, <1>4, <1>5, <1>6, <1>7, <1>8, <1>9, <1>10, <1>11, <1>12, <1>13
     DEF ClientAct, ClientStep

LEMMA EventsGrow == ASSUME TypeOK, Next PROVE events' \in {events, events + 1} /\ events \in Nat
<1>1. events \in Nat
  BY DEF TypeOK
<1>2. ASSUME NEW c \in Clients, ClientAct(c) PROVE events' \in {events, events + 1}
  BY <1>2 DEF ClientAct, ClientStep, Provision, Wait, CreateApp, Platform, Token, Device, PutSecret,
     ReadFile, PutFile, List, Check, Late, ClientFails, Leave, Event, Ok
<1>3. ASSUME NEW r \in DOMAIN runs, RunAct(r) PROVE events' \in {events, events + 1}
  BY <1>3 DEF RunAct, StartRun, Build, Rerun, Hook, DeployStarts, DeploySettles, Lose, Event, Ok
<1>4. QED
  BY <1>1, <1>2, <1>3, NextCases DEF Push, ManualDeploy, Event

LEMMA LinkStepsOfClients ==
    ASSUME TypeOK, LinkInv, Next, NEW c \in Clients, ClientAct(c)
    PROVE  LinkInv'
<1> DEFINE w == client[c]
           v == client'[c]
<1>0. /\ \A d \in Clients : d # c => client'[d] = client[d]
      /\ Linking = {d \in Clients : client[d].pc \in LinkPcs}
      /\ Linking' = {d \in Clients : client'[d].pc \in LinkPcs}
      /\ LinkPcs \subseteq After /\ "create" \notin After /\ "done" \notin After
      /\ "put" \in After \ LinkPcs /\ "read" \in After \ LinkPcs
      /\ "secret" \in LinkPcs /\ "platform" \in LinkPcs
      /\ runs \in Seq(RunRec) /\ \A r \in DOMAIN runs : runs[r] \in RunRec
  <2>1. \A d \in Clients : d # c => client'[d] = client[d]
    BY ClientMoves, Moved DEF TypeOK
  <2>2. runs \in Seq(RunRec) /\ \A r \in DOMAIN runs : runs[r] \in RunRec
    BY DEF TypeOK
  <2>3. QED
    BY <2>1, <2>2 DEF Linking, LinkPcs, After
<1>1. \A d \in Clients : client'[d].pc = "create" => events' > 0
  <2>1. v.pc = "create" => events' > 0
    BY <1>0, LinkCases DEF Outside, GoesOn, BreaksOff, SetsSecret, Begins
  <2>2. QED
    BY <1>0, <2>1, EventsGrow DEF LinkInv
<1> USE <1>0
<1>2. CASE Begins(c)
  <2>1. hash' # 0
    BY <1>2, EventsGrow DEF Begins, LinkInv
  <2>2. \A r \in DOMAIN runs' : runs'[r].shaken
    BY <1>2 DEF Begins, RunRec
  <2>3. ~torn' => Linking' = {c}
    BY <1>2 DEF Begins
  <2>4. c \in Linking' /\ v.tok = hash'
    BY <1>2 DEF Begins
  <2>5. QED
    BY <1>1, <2>1, <2>2, <2>3, <2>4 DEF LinkInv
<1>3. CASE GoesOn(c)
  <2>1. Linking' = Linking /\ \A d \in Clients : client'[d].tok = client[d].tok
    BY <1>3 DEF GoesOn
  <2>2. \A d \in Clients : client'[d].pc \in After => hash' # 0
    BY <1>3 DEF GoesOn, LinkInv
  <2>3. QED
    BY <1>1, <1>3, <2>1, <2>2 DEF GoesOn, LinkInv
<1>4. CASE BreaksOff(c)
  <2>1. \A d \in Clients : client'[d].pc \in After => hash' # 0
    BY <1>4 DEF BreaksOff, LinkInv
  <2>2. \A r \in DOMAIN runs : ~runs[r].shaken => runs[r].pc # "queued"
    BY <1>4 DEF BreaksOff, LinkInv
  <2>3. QED
    BY <1>1, <1>4, <2>1, <2>2 DEF BreaksOff, LinkInv
<1>5. CASE SetsSecret(c)
  <2>1. \A d \in Clients : client'[d].pc \in After => hash' # 0
    BY <1>5 DEF SetsSecret, LinkInv
  <2>2. \A r \in DOMAIN runs : ~runs[r].shaken => runs[r].pc # "queued"
    BY <1>5 DEF SetsSecret, LinkInv
  <2>3. ~torn => Linking = {c} /\ secret' = hash
    BY <1>5 DEF SetsSecret, LinkInv
  <2>4. Linking' = Linking \ {c}
    BY <1>5 DEF SetsSecret
  <2>5. QED
    BY <1>1, <1>5, <2>1, <2>2, <2>3, <2>4 DEF SetsSecret, LinkInv
<1>6. CASE Outside(c)
  <2>1. Linking' = Linking /\ c \notin Linking
    BY <1>6 DEF Outside
  <2>2. \A d \in Clients : client'[d].pc \in After => hash' # 0
    BY <1>6 DEF Outside, LinkInv
  <2>3. UNCHANGED <<hash, secret, torn>> /\ \A d \in Linking : client'[d] = client[d]
    BY <1>6, <2>1 DEF Outside
  <2>4. CASE UNCHANGED <<file, runs>>
    BY <1>1, <2>1, <2>2, <2>3, <2>4 DEF LinkInv
  <2>5. CASE PutFile(c)
    <3>1. hash # 0
      BY <2>5 DEF PutFile, At, LinkInv
    <3>2. CASE UNCHANGED <<file, runs>>
      BY <2>4, <3>2
    <3>3. CASE /\ head < Len(Shas)
               /\ runs' = NewRun(head + 1, TRUE, Shas[head + 1], torn \/ Linking \ {c} # {})
      <4> DEFINE b == torn \/ Linking \ {c} # {}
      <4>1. head + 1 \in Nat /\ Shas[head + 1] \in ShaSet /\ b \in BOOLEAN
        BY <3>3, ShaAt DEF TypeOK
      <4>2. ~b => ~torn /\ Linking = {}
        BY <2>1
      <4>6. runs' = NewRun(head + 1, TRUE, Shas[head + 1], b)
        BY <3>3
      <4> HIDE DEF b
      <4>7. /\ DOMAIN runs' = DOMAIN runs \cup {Len(runs) + 1}
            /\ \A s \in DOMAIN runs : runs'[s] = runs[s]
            /\ runs'[Len(runs) + 1] =
                 [commit |-> head + 1, ci |-> TRUE, sha |-> Shas[head + 1], tok |-> 0, rec |-> 0,
                  pc |-> IF TRUE THEN "queued" ELSE "waits", refused |-> FALSE,
                  shaken |-> b, again |-> FALSE]
        BY <4>1, <4>6, RunAdded
      <4>3. /\ DOMAIN runs' = DOMAIN runs \cup {Len(runs) + 1}
            /\ \A s \in DOMAIN runs : runs'[s] = runs[s]
            /\ runs'[Len(runs) + 1].shaken = b
            /\ runs'[Len(runs) + 1].pc = "queued" /\ ~runs'[Len(runs) + 1].refused
        BY <4>7
      <4>4. \A r \in DOMAIN runs' : ~runs'[r].shaken =>
                /\ runs'[r].pc = "queued" => ~torn /\ Linking = {}
                /\ runs'[r].pc \in {"build", "hook"} => runs'[r].tok = hash
                /\ ~runs'[r].refused
        BY <4>2, <4>3 DEF LinkInv
      <4>5. QED
        BY <1>1, <2>1, <2>2, <2>3, <3>1, <4>4 DEF LinkInv
    <3>4. QED
      BY <2>5, <3>2, <3>3 DEF PutFile
  <2>6. QED
    BY <1>6, <2>4, <2>5 DEF Outside
<1>7. QED
  BY <1>2, <1>3, <1>4, <1>5, <1>6, LinkCases

LEMMA LinkStepsOfRuns ==
    ASSUME TypeOK, LinkInv, Next, NEW r \in DOMAIN runs, RunAct(r)
    PROVE  LinkInv'
<1> DEFINE x == runs'[r]
           OK(y) == ~y.shaken => /\ y.pc = "queued" => ~torn /\ Linking = {}
                                 /\ y.pc \in {"build", "hook"} => y.tok = hash
                                 /\ ~y.refused
<1>0. /\ runs \in Seq(RunRec) /\ runs[r] \in RunRec
      /\ DOMAIN runs' = DOMAIN runs /\ \A s \in DOMAIN runs : s # r => runs'[s] = runs[s]
  BY RunSteps, RunMoved DEF TypeOK
<1>1. UNCHANGED <<hash, secret, file, client, torn>> /\ Linking' = Linking
  BY DEF RunAct, StartRun, Build, Rerun, Hook, DeployStarts, DeploySettles, Lose, server, github,
     Linking
<1>2. hash # 0 /\ OK(runs[r])
  BY DEF LinkInv
<1>3. ASSUME NEW pc \in RunPcs \ {"queued", "build", "hook"}, GoRun(r, pc) PROVE OK(x)
  BY <1>0, <1>2, <1>3 DEF GoRun, RunRec
<1>4. OK(x)
  <2>1. CASE StartRun(r)
    <3>1. /\ runs[r].pc = "queued" /\ x.pc = "build" /\ x.tok = secret
          /\ x.shaken = runs[r].shaken /\ x.refused = runs[r].refused
      BY <1>0, <2>1 DEF StartRun, Run, RunRec
    <3>2. ~runs[r].shaken => secret = hash
      BY <1>2, <3>1 DEF LinkInv
    <3>3. QED
      BY <1>2, <3>1, <3>2
  <2>2. CASE Build(r)
    <3>1. /\ runs[r].pc = "build" /\ x.pc \in {"hook", "failure"} /\ x.tok = runs[r].tok
          /\ x.shaken = runs[r].shaken /\ x.refused = runs[r].refused
      <4>1. PICK pc \in {"hook", "failure"} : runs' = [runs EXCEPT ![r].pc = pc]
        BY <2>2 DEF Build, GoRun
      <4>2. runs[r].pc = "build"
        BY <2>2 DEF Build, Run
      <4>3. QED
        BY <1>0, <4>1, <4>2 DEF RunRec
    <3>2. QED
      BY <1>2, <3>1
  <2>3. CASE Rerun(r)
    <3>1. /\ x.pc = "queued" /\ x.shaken = (runs[r].shaken \/ torn \/ Linking # {})
          /\ x.refused = runs[r].refused
      BY <1>0, <2>3 DEF Rerun, RunRec
    <3>2. QED
      BY <1>2, <3>1
  <2>4. CASE Hook(r)
    <3>1. runs[r].pc = "hook"
      BY <2>4 DEF Hook, Run
    <3>2. CASE GoRun(r, "waits")
      BY <1>3, <3>2 DEF RunPcs
    <3>3. CASE runs[r].tok # hash /\ runs' = [runs EXCEPT ![r].pc = "failure", ![r].refused = TRUE]
      <4>1. x.shaken = runs[r].shaken
        BY <1>0, <3>3 DEF RunRec
      <4>2. QED
        BY <1>2, <3>1, <3>3, <4>1
    <3>4. QED
      BY <1>2, <2>4, <3>2, <3>3 DEF Hook
  <2>5. CASE DeployStarts(r)
    <3>1. x.pc = "deploys" /\ x.shaken = runs[r].shaken /\ x.refused = runs[r].refused
      BY <1>0, <2>5 DEF DeployStarts, RunRec
    <3>2. QED
      BY <1>2, <3>1
  <2>6. CASE DeploySettles(r)
    BY <1>3, <2>6 DEF DeploySettles, RunPcs
  <2>7. CASE Lose(r)
    <3>1. x.pc = "failure" /\ x.shaken = runs[r].shaken /\ x.refused = runs[r].refused
      BY <1>0, <2>7 DEF Lose, RunRec
    <3>2. QED
      BY <1>2, <3>1
  <2>8. QED
    BY <2>1, <2>2, <2>3, <2>4, <2>5, <2>6, <2>7 DEF RunAct
<1>5. \A s \in DOMAIN runs' : OK(runs'[s])
  <2>1. \A s \in DOMAIN runs : OK(runs[s])
    BY DEF LinkInv
  <2> HIDE DEF OK
  <2>2. QED
    BY <1>0, <1>4, <2>1
<1>6. QED
  BY <1>1, <1>2, <1>5, EventsGrow DEF LinkInv

LEMMA LinkStays == TypeOK /\ LinkInv /\ [Next]_vars => LinkInv'
<1> SUFFICES ASSUME TypeOK, LinkInv, [Next]_vars PROVE LinkInv'
  OBVIOUS
<1>1. ASSUME NEW commit \in Nat, NEW ci \in BOOLEAN, NEW sha \in ShaSet, NEW b \in BOOLEAN,
             runs' = NewRun(commit, ci, sha, b), ~ci \/ (~b => ~torn /\ Linking = {}),
             hash # 0, Next, UNCHANGED <<hash, secret, file, client, torn>>
      PROVE  LinkInv'
  <2>1. /\ DOMAIN runs' = DOMAIN runs \cup {Len(runs) + 1}
        /\ \A s \in DOMAIN runs : runs'[s] = runs[s]
        /\ runs'[Len(runs) + 1] =
             [commit |-> commit, ci |-> ci, sha |-> sha, tok |-> 0, rec |-> 0,
              pc |-> IF ci THEN "queued" ELSE "waits", refused |-> FALSE,
              shaken |-> b, again |-> FALSE]
    <3>1. runs \in Seq(RunRec)
      BY DEF TypeOK
    <3>2. QED
      BY <1>1, <3>1, RunAdded
  <2>2. /\ runs'[Len(runs) + 1].shaken = b /\ ~runs'[Len(runs) + 1].refused
        /\ runs'[Len(runs) + 1].pc \in {"queued", "waits"}
        /\ runs'[Len(runs) + 1].pc = "queued" => ci
    BY <2>1
  <2>3. Linking' = Linking
    BY <1>1 DEF Linking
  <2>4. \A r \in DOMAIN runs' : ~runs'[r].shaken =>
            /\ runs'[r].pc = "queued" => ~torn /\ Linking = {}
            /\ runs'[r].pc \in {"build", "hook"} => runs'[r].tok = hash
            /\ ~runs'[r].refused
    BY <1>1, <2>1, <2>2 DEF LinkInv
  <2>5. QED
    BY <1>1, <2>3, <2>4, EventsGrow DEF LinkInv
<1>2. CASE Push
  <2>1. CASE file.ver = 0
    BY <1>2, <2>1, EventsGrow DEF Push, server, LinkInv, Linking, Next
  <2>2. CASE file.ver # 0
    <3> DEFINE b == torn \/ Linking # {}
    <3>1. head + 1 \in Nat /\ Shas[head + 1] \in ShaSet /\ b \in BOOLEAN /\ hash # 0
      BY <1>2, <2>2, ShaAt DEF TypeOK, Push, LinkInv
    <3>2. runs' = NewRun(head + 1, TRUE, Shas[head + 1], b)
      BY <1>2, <2>2 DEF Push
    <3>3. UNCHANGED <<hash, secret, file, client, torn>> /\ Next
      BY <1>2 DEF Push, server, Next
    <3>4. ~b => ~torn /\ Linking = {}
      OBVIOUS
    <3> HIDE DEF b
    <3>5. QED
      BY <1>1, <3>1, <3>2, <3>3, <3>4
  <2>3. QED
    BY <2>1, <2>2
<1>3. CASE ManualDeploy
  <2>1. PICK sha \in Wants \cup {None} : runs' = NewRun(0, FALSE, sha, FALSE)
    BY <1>3 DEF ManualDeploy
  <2>2. UNCHANGED <<hash, secret, file, client, torn>> /\ Next /\ hash # 0
    BY <1>3 DEF ManualDeploy, server, github, Next
  <2>3. QED
    BY <1>1, <2>1, <2>2 DEF ShaSet
<1>4. CASE UNCHANGED vars
  BY <1>4 DEF vars, server, github, LinkInv, Linking
<1>5. QED
  BY <1>2, <1>3, <1>4, LinkStepsOfClients, LinkStepsOfRuns, NextCases

\* A run is refused by the hook only while the app is linked again: with one
\* linking at a time that gets to its end, a run is queued only when the secret
\* is the token that the server accepts, and the token stays that one until the
\* next linking.
THEOREM HookKnowsTheToken == Spec => []RefusedOnlyWhileRelinking
<1>1. Init => LinkInv
  BY DEF Init, LinkInv, Linking, Idle, After
<1>2. LinkInv => RefusedOnlyWhileRelinking
  BY DEF LinkInv, RefusedOnlyWhileRelinking
<1>3. QED
  BY <1>1, <1>2, TypeCorrect, LinkStays, PTL DEF Spec

-----------------------------------------------------------------------------
(* The run of a commit, and its deploy records. *)

\* What a step of run r does to its record and to the deploy records.
LEMMA RunFacts ==
    ASSUME TypeOK, NEW r \in DOMAIN runs, RunAct(r)
    PROVE  /\ runs[r].pc # "success"
           /\ runs[r].again => runs'[r].again
           /\ runs[r].pc = "failure" => runs'[r].again
           /\ \/ UNCHANGED deploys /\ runs'[r].pc # "deploys"
              \/ /\ deploys' = Append(deploys, [sha |-> runs[r].sha, status |-> "in_progress"])
                 /\ runs'[r].rec = Len(deploys) + 1
              \/ /\ runs[r].pc = "deploys" /\ runs'[r].pc # "deploys"
                 /\ \E st \in Statuses :
                        /\ deploys' = [deploys EXCEPT ![runs[r].rec].status = st]
                        /\ st = "succeeded" => runs'[r].pc = "success"
           /\ UNCHANGED <<head, client>>
<1> DEFINE x == runs'[r]
<1>0. runs \in Seq(RunRec) /\ runs[r] \in RunRec
  BY DEF TypeOK
<1>1. ASSUME NEW pc, GoRun(r, pc) PROVE x.pc = pc /\ x.again = runs[r].again
  BY <1>0, <1>1 DEF GoRun, RunRec
<1> USE DEF Run
<1>2. CASE StartRun(r)
  <2>1. x.pc = "build" /\ x.again = runs[r].again
    BY <1>0, <1>2 DEF StartRun, RunRec
  <2>2. QED
    BY <1>2, <2>1 DEF StartRun, github, server
<1>3. CASE Build(r)
  BY <1>1, <1>3 DEF Build, github, server
<1>4. CASE Rerun(r)
  <2>1. x.pc = "queued" /\ x.again
    BY <1>0, <1>4 DEF Rerun, RunRec
  <2>2. QED
    BY <1>4, <2>1 DEF Rerun, github, server
<1>5. CASE Hook(r)
  <2>1. x.pc \in {"waits", "failure"} /\ x.again = runs[r].again
    <3>1. CASE GoRun(r, "waits")
      BY <1>1, <3>1
    <3>2. CASE runs' = [runs EXCEPT ![r].pc = "failure", ![r].refused = TRUE]
      BY <1>0, <3>2 DEF RunRec
    <3>3. QED
      BY <1>5, <3>1, <3>2 DEF Hook
  <2>2. QED
    BY <1>5, <2>1 DEF Hook, github, server
<1>6. CASE DeployStarts(r)
  <2>1. x.pc = "deploys" /\ x.again = runs[r].again /\ x.rec = Len(deploys) + 1
    BY <1>0, <1>6 DEF DeployStarts, RunRec
  <2>2. QED
    BY <1>6, <2>1 DEF DeployStarts, github
<1>7. CASE DeploySettles(r)
  <2>1. PICK st \in Statuses : /\ deploys' = [deploys EXCEPT ![runs[r].rec].status = st]
                               /\ GoRun(r, IF st = "succeeded" THEN "success" ELSE "failure")
    BY <1>7 DEF DeploySettles, Statuses
  <2>2. x.pc = (IF st = "succeeded" THEN "success" ELSE "failure") /\ x.again = runs[r].again
    BY <1>1, <2>1
  <2>3. QED
    BY <1>7, <2>1, <2>2 DEF DeploySettles, github
<1>8. CASE Lose(r)
  <2>1. x.pc = "failure" /\ x.again
    BY <1>0, <1>8 DEF Lose, RunRec
  <2>2. QED
    BY <1>8, <2>1 DEF Lose, github
<1>9. QED
  BY <1>2, <1>3, <1>4, <1>5, <1>6, <1>7, <1>8 DEF RunAct

LEMMA RunsInvOfRuns == ASSUME TypeOK, RunsInv, NEW r \in DOMAIN runs, RunAct(r) PROVE RunsInv'
<1> DEFINE x == runs'[r]
<1>0. /\ runs \in Seq(RunRec) /\ deploys \in Seq(DeployRec)
      /\ DOMAIN runs' = DOMAIN runs /\ \A s \in DOMAIN runs : s # r => runs'[s] = runs[s]
      /\ x.commit = runs[r].commit /\ x.ci = runs[r].ci /\ x.sha = runs[r].sha
      /\ \A d \in DOMAIN deploys : deploys[d] \in DeployRec
  <2>1. PICK y : RunMoves(r, y)
    BY RunSteps
  <2>2. runs \in Seq(RunRec) /\ deploys \in Seq(DeployRec)
    BY DEF TypeOK
  <2>3. QED
    BY <2>1, <2>2, RunMoved DEF RunMoves
<1>1. \A s \in DOMAIN runs : /\ runs'[s].commit = runs[s].commit /\ runs'[s].ci = runs[s].ci
                             /\ runs'[s].sha = runs[s].sha
  BY <1>0
<1>2. /\ \A s \in DOMAIN runs : runs'[s].ci =>
            runs'[s].commit \in 1..head' /\ runs'[s].sha = Shas[runs'[s].commit]
      /\ \A s, t \in DOMAIN runs :
            runs'[s].ci /\ runs'[t].ci /\ runs'[s].commit = runs'[t].commit => s = t
  <2>1. head' = head
    BY RunFacts
  <2>2. QED
    BY <1>1, <2>1 DEF RunsInv
\* A record that is there already keeps its commit, and the run that made it succeed.
<1>3. ASSUME NEW d \in DOMAIN deploys, d \in DOMAIN deploys', deploys'[d].sha = deploys[d].sha,
             deploys'[d].status = "succeeded" => deploys[d].status = "succeeded"
      PROVE  \E s \in DOMAIN runs :
                /\ runs'[s].sha = deploys'[d].sha
                /\ deploys'[d].status = "succeeded" => runs'[s].again \/ runs'[s].pc = "success"
  <2>1. PICK s \in DOMAIN runs :
            /\ runs[s].sha = deploys[d].sha
            /\ deploys[d].status = "succeeded" => runs[s].again \/ runs[s].pc = "success"
    BY DEF RunsInv
  <2>2. QED
    <3>1. runs[r].pc # "success" /\ (runs[r].again => runs'[r].again)
      BY RunFacts
    <3>2. runs[s].again \/ runs[s].pc = "success" => runs'[s].again \/ runs'[s].pc = "success"
      BY <1>0, <3>1
    <3>3. QED
      BY <1>1, <1>3, <2>1, <3>2
<1>4. ASSUME NEW s \in DOMAIN runs, s # r, runs'[s].pc = "deploys", DOMAIN deploys \subseteq DOMAIN deploys',
             \A d \in DOMAIN deploys : deploys'[d].sha = deploys[d].sha
      PROVE  runs'[s].rec \in DOMAIN deploys' /\ deploys'[runs'[s].rec].sha = runs'[s].sha
  BY <1>0, <1>4 DEF RunsInv
<1>5. CASE UNCHANGED deploys /\ runs'[r].pc # "deploys"
  <2>1. \A d \in DOMAIN deploys' : \E s \in DOMAIN runs :
            /\ runs'[s].sha = deploys'[d].sha
            /\ deploys'[d].status = "succeeded" => runs'[s].again \/ runs'[s].pc = "success"
    BY <1>3, <1>5
  <2>2. \A s \in DOMAIN runs : runs'[s].pc = "deploys" =>
            runs'[s].rec \in DOMAIN deploys' /\ deploys'[runs'[s].rec].sha = runs'[s].sha
    BY <1>4, <1>5
  <2>3. QED
    BY <1>0, <1>2, <2>1, <2>2 DEF RunsInv
<1>6. CASE /\ deploys' = Append(deploys, [sha |-> runs[r].sha, status |-> "in_progress"])
           /\ runs'[r].rec = Len(deploys) + 1
  <2> DEFINE n == Len(deploys) + 1
  <2>1. /\ DOMAIN deploys' = DOMAIN deploys \cup {n}
        /\ \A d \in DOMAIN deploys : deploys'[d] = deploys[d]
        /\ deploys'[n] = [sha |-> runs[r].sha, status |-> "in_progress"]
    BY <1>0, <1>6
  <2>2. deploys'[n].sha = x.sha /\ deploys'[n].status # "succeeded"
    BY <1>0, <2>1
  <2>3. \A d \in DOMAIN deploys' : \E s \in DOMAIN runs :
            /\ runs'[s].sha = deploys'[d].sha
            /\ deploys'[d].status = "succeeded" => runs'[s].again \/ runs'[s].pc = "success"
    BY <1>3, <2>1, <2>2
  <2>4. \A s \in DOMAIN runs : runs'[s].pc = "deploys" =>
            runs'[s].rec \in DOMAIN deploys' /\ deploys'[runs'[s].rec].sha = runs'[s].sha
    BY <1>4, <1>6, <2>1, <2>2
  <2>5. QED
    BY <1>0, <1>2, <2>3, <2>4 DEF RunsInv
<1>7. CASE /\ runs[r].pc = "deploys" /\ runs'[r].pc # "deploys"
           /\ \E st \in Statuses : /\ deploys' = [deploys EXCEPT ![runs[r].rec].status = st]
                                   /\ st = "succeeded" => runs'[r].pc = "success"
  <2>1. PICK st \in Statuses : /\ deploys' = [deploys EXCEPT ![runs[r].rec].status = st]
                               /\ st = "succeeded" => runs'[r].pc = "success"
    BY <1>7
  <2> DEFINE k == runs[r].rec
  <2>2. k \in DOMAIN deploys /\ deploys[k].sha = x.sha
    BY <1>0, <1>7 DEF RunsInv
  <2> HIDE DEF k
  <2>3. /\ DOMAIN deploys' = DOMAIN deploys
        /\ \A d \in DOMAIN deploys : d # k => deploys'[d] = deploys[d]
        /\ deploys'[k].sha = deploys[k].sha /\ deploys'[k].status = st
    BY <1>0, <2>1, <2>2 DEF DeployRec, k
  <2>4. \A d \in DOMAIN deploys' : \E s \in DOMAIN runs :
            /\ runs'[s].sha = deploys'[d].sha
            /\ deploys'[d].status = "succeeded" => runs'[s].again \/ runs'[s].pc = "success"
    <3>1. ASSUME NEW d \in DOMAIN deploys, d # k
          PROVE  \E s \in DOMAIN runs :
                    /\ runs'[s].sha = deploys'[d].sha
                    /\ deploys'[d].status = "succeeded" => runs'[s].again \/ runs'[s].pc = "success"
      BY <1>3, <2>3, <3>1
    <3>2. /\ runs'[r].sha = deploys'[k].sha
          /\ deploys'[k].status = "succeeded" => runs'[r].again \/ runs'[r].pc = "success"
      BY <2>1, <2>2, <2>3
    <3>3. QED
      BY <2>3, <3>1, <3>2
  <2>5. \A s \in DOMAIN runs : runs'[s].pc = "deploys" =>
            runs'[s].rec \in DOMAIN deploys' /\ deploys'[runs'[s].rec].sha = runs'[s].sha
    BY <1>4, <1>7, <2>3
  <2>6. QED
    BY <1>0, <1>2, <2>4, <2>5 DEF RunsInv
<1>8. QED
  BY <1>5, <1>6, <1>7, RunFacts

LEMMA RunsInvAdds ==
    ASSUME TypeOK, RunsInv, NEW commit \in Nat, NEW ci \in BOOLEAN, NEW sha \in ShaSet,
           NEW b \in BOOLEAN, runs' = NewRun(commit, ci, sha, b), UNCHANGED deploys,
           head' \in {head, head + 1},
           ci => commit \in 1..head' /\ commit \notin 1..head /\ sha = Shas[commit]
    PROVE  RunsInv' /\ \A s \in DOMAIN runs : s \in DOMAIN runs' /\ runs'[s] = runs[s]
<1> DEFINE n == Len(runs) + 1
<1>0. runs \in Seq(RunRec) /\ head \in Nat
  BY PathShas DEF TypeOK
<1>1. /\ DOMAIN runs' = DOMAIN runs \cup {n} /\ n \notin DOMAIN runs
      /\ \A s \in DOMAIN runs : runs'[s] = runs[s]
      /\ runs'[n] = [commit |-> commit, ci |-> ci, sha |-> sha, tok |-> 0, rec |-> 0,
                     pc |-> IF ci THEN "queued" ELSE "waits", refused |-> FALSE,
                     shaken |-> b, again |-> FALSE]
  BY <1>0, RunAdded
<1>2. /\ runs'[n].commit = commit /\ runs'[n].ci = ci /\ runs'[n].sha = sha
      /\ runs'[n].pc # "deploys"
  BY <1>1
<1> HIDE DEF n
<1>3. \A s \in DOMAIN runs' : runs'[s].ci =>
            runs'[s].commit \in 1..head' /\ runs'[s].sha = Shas[runs'[s].commit]
  <2>1. 1..head \subseteq 1..head'
    BY <1>0
  <2>2. QED
    BY <1>1, <1>2, <2>1 DEF RunsInv
<1>4. \A s, t \in DOMAIN runs' :
            runs'[s].ci /\ runs'[t].ci /\ runs'[s].commit = runs'[t].commit => s = t
  BY <1>1, <1>2 DEF RunsInv
<1>5. \A s \in DOMAIN runs' : runs'[s].pc = "deploys" =>
            runs'[s].rec \in DOMAIN deploys' /\ deploys'[runs'[s].rec].sha = runs'[s].sha
  BY <1>1, <1>2 DEF RunsInv
<1>6. ASSUME NEW d \in DOMAIN deploys'
      PROVE  \E s \in DOMAIN runs' :
                /\ runs'[s].sha = deploys'[d].sha
                /\ deploys'[d].status = "succeeded" => runs'[s].again \/ runs'[s].pc = "success"
  BY <1>1 DEF RunsInv
<1>7. QED
  BY <1>1, <1>3, <1>4, <1>5, <1>6 DEF RunsInv

\* A new run of the next commit, of a push or of the commit of the workflow.
Pushes == /\ head < Len(Shas) /\ head' = head + 1
          /\ \E b \in BOOLEAN : runs' = NewRun(head + 1, TRUE, Shas[head + 1], b)
Shakes == runs' = [r \in DOMAIN runs |-> [runs[r] EXCEPT !.shaken = TRUE]]

LEMMA PushAdds == ASSUME TypeOK, RunsInv, Pushes, UNCHANGED deploys
                  PROVE  RunsInv' /\ \A s \in DOMAIN runs : s \in DOMAIN runs' /\ runs'[s] = runs[s]
<1>1. PICK b \in BOOLEAN : runs' = NewRun(head + 1, TRUE, Shas[head + 1], b)
  BY DEF Pushes
<1>2. /\ head + 1 \in Nat /\ Shas[head + 1] \in ShaSet /\ head \in Nat
      /\ head' \in {head, head + 1} /\ head + 1 \in 1..head' /\ head + 1 \notin 1..head
  BY ShaAt DEF Pushes
<1>3. QED
  BY <1>1, <1>2, RunsInvAdds

LEMMA RunsOfClients ==
    ASSUME TypeOK, NEW c \in Clients, ClientAct(c)
    PROVE  /\ UNCHANGED deploys
           /\ UNCHANGED <<head, runs>> \/ (UNCHANGED head /\ Shakes) \/ Pushes
<1>1. UNCHANGED deploys
  BY DEF ClientAct, ClientStep, Provision, Wait, CreateApp, Platform, Token, Device, PutSecret,
     ReadFile, PutFile, List, Check, Late, ClientFails, Leave, github, server
<1>2. CASE PutFile(c)
  <2> DEFINE b == torn \/ Linking \ {c} # {}
  <2>1. b \in BOOLEAN
    BY DEF TypeOK
  <2>2. \/ UNCHANGED <<head, runs>>
        \/ head < Len(Shas) /\ head' = head + 1 /\ runs' = NewRun(head + 1, TRUE, Shas[head + 1], b)
    BY <1>2 DEF PutFile
  <2> HIDE DEF b
  <2>3. QED
    BY <1>1, <2>1, <2>2 DEF Pushes
<1>3. CASE ~PutFile(c)
  BY <1>1, <1>3 DEF ClientAct, ClientStep, Provision, Wait, CreateApp, Platform, Token, Device,
     PutSecret, ReadFile, List, Check, Late, ClientFails, Leave, github, server, Shakes
<1>4. QED
  BY <1>2, <1>3

LEMMA RunsInvShaken ==
    ASSUME TypeOK, RunsInv, Shakes, UNCHANGED <<head, deploys>>
    PROVE  /\ RunsInv' /\ DOMAIN runs' = DOMAIN runs
           /\ \A s \in DOMAIN runs : /\ runs'[s].commit = runs[s].commit /\ runs'[s].ci = runs[s].ci
                                     /\ runs'[s].pc = runs[s].pc /\ runs'[s].again = runs[s].again
<1>1. \A s \in DOMAIN runs : runs[s] \in RunRec
  BY DEF TypeOK
<1>2. /\ DOMAIN runs' = DOMAIN runs
      /\ \A s \in DOMAIN runs : /\ runs'[s].commit = runs[s].commit /\ runs'[s].ci = runs[s].ci
                                /\ runs'[s].pc = runs[s].pc /\ runs'[s].again = runs[s].again
                                /\ runs'[s].sha = runs[s].sha /\ runs'[s].rec = runs[s].rec
  BY <1>1 DEF Shakes, RunRec
<1>3. RunsInv'
  BY <1>2 DEF RunsInv
<1>4. QED
  BY <1>2, <1>3

LEMMA RunsStay == TypeOK /\ RunsInv /\ [Next]_vars => RunsInv'
<1> SUFFICES ASSUME TypeOK, RunsInv, [Next]_vars PROVE RunsInv'
  OBVIOUS
<1>1. ASSUME UNCHANGED <<head, runs, deploys>> PROVE RunsInv'
  BY <1>1 DEF RunsInv
<1>2. ASSUME NEW c \in Clients, ClientAct(c) PROVE RunsInv'
  BY <1>1, <1>2, RunsOfClients, RunsInvShaken, PushAdds
<1>3. CASE Push
  <2>1. UNCHANGED deploys /\ (torn \/ Linking # {}) \in BOOLEAN
    BY <1>3 DEF Push, server, TypeOK
  <2>2. CASE file.ver = 0
    <3>1. runs' = runs /\ head' = head + 1 /\ head \in Nat
      BY <1>3, <2>2, PathShas DEF Push, TypeOK
    <3>2. 1..head \subseteq 1..head'
      BY <3>1
    <3>3. QED
      BY <2>1, <3>1, <3>2 DEF RunsInv
  <2>3. CASE file.ver # 0
    <3>1. Pushes
      BY <1>3, <2>1, <2>3 DEF Push, Pushes
    <3>2. QED
      BY <2>1, <3>1, PushAdds
  <2>4. QED
    BY <2>2, <2>3
<1>4. CASE ManualDeploy
  <2>1. PICK sha \in Wants \cup {None} : runs' = NewRun(0, FALSE, sha, FALSE)
    BY <1>4 DEF ManualDeploy
  <2>2. UNCHANGED <<head, deploys>> /\ sha \in ShaSet /\ 0 \in Nat
    BY <1>4 DEF ManualDeploy, server, github, ShaSet
  <2>3. QED
    BY <2>1, <2>2, RunsInvAdds
<1>5. ASSUME NEW r \in DOMAIN runs, RunAct(r) PROVE RunsInv'
  BY <1>5, RunsInvOfRuns
<1>6. QED
  BY <1>1, <1>2, <1>3, <1>4, <1>5, NextCases DEF vars, github, server

-----------------------------------------------------------------------------
(* The answer that the build failed. *)

\* A step of client c goes on, begins a command, gives another answer or this one.
Keeps(c) ==
    /\ client'[c].sha = client[c].sha /\ client'[c].out = client[c].out
    /\ client'[c].watch = client[c].watch
    /\ client'[c].pc = "check" => client[c].watch
Starts(c) ==
    /\ client'[c].out = "none" /\ client'[c].pc # "check"
    /\ client'[c].watch => client'[c].sha # None
Answers(c) ==
    /\ client'[c].out # "build_failed" /\ client'[c].pc # "check" /\ ~client'[c].watch
SaysFailed(c) ==
    /\ client[c].pc = "check" /\ client'[c].sha = client[c].sha
    /\ RunFailed(NewestRun(client[c].sha)) /\ UNCHANGED runs

LEMMA AnswerCases ==
    ASSUME TypeOK, NEW c \in Clients, ClientAct(c)
    PROVE  Keeps(c) \/ Starts(c) \/ Answers(c) \/ SaysFailed(c)
<1> DEFINE w == client[c]
           v == client'[c]
<1>0. client[c] \in ClientRec /\ client \in [Clients -> ClientRec] /\ deploys \in Seq(DeployRec)
  BY DEF TypeOK
<1> USE DEF Set, Go, At
<1>1. ASSUME NEW out, out # "build_failed", End(c, out) PROVE Answers(c)
  BY <1>0, <1>1 DEF End, Idle, Answers
<1>2. CASE Provision(c)
  BY <1>0, <1>2 DEF Provision, Idle, Starts
<1>3. CASE Wait(c)
  <2>1. PICK sha \in Wants \cup {None}, limit \in Limits, watch \in BOOLEAN :
           /\ watch => sha # None
           /\ v = [Idle EXCEPT !.pc = "list", !.sha = sha, !.limit = limit, !.watch = watch]
    BY <1>0, <1>3 DEF Wait
  <2>2. v.out = "none" /\ v.pc = "list" /\ v.watch = watch /\ v.sha = sha
    BY <2>1 DEF Idle
  <2>3. QED
    BY <2>1, <2>2 DEF Starts
<1>4. CASE Leave(c)
  BY <1>0, <1>4 DEF Leave, Idle, Starts
<1>5. CASE ClientFails(c)
  BY <1>1, <1>5 DEF ClientFails
<1>6. CASE CreateApp(c) \/ PutSecret(c) \/ ReadFile(c) \/ PutFile(c)
  <2>1. CASE \E out \in {"exists", "linked", "failed"} : End(c, out)
    BY <1>1, <2>1
  <2>2. CASE ~\E out \in {"exists", "linked", "failed"} : End(c, out)
    <3>1. CASE Set(c, [client[c] EXCEPT !.pc = "platform", !.tok = events])
      BY <1>0, <3>1 DEF Keeps, ClientRec
    <3>2. CASE Go(c, "read")
      BY <1>0, <3>2 DEF Keeps, ClientRec
    <3>3. CASE Set(c, [client[c] EXCEPT !.pc = "put", !.base = file.ver])
      BY <1>0, <3>3 DEF Keeps, ClientRec
    <3>4. QED
      BY <1>6, <2>2, <3>1, <3>2, <3>3 DEF CreateApp, PutSecret, ReadFile, PutFile
  <2>3. QED
    BY <2>1, <2>2
<1>7. CASE Platform(c)
  <2>1. CASE Go(c, "token")
    BY <1>0, <2>1 DEF Keeps, ClientRec
  <2>2. CASE Set(c, [client[c] EXCEPT !.pc = "token", !.right = FALSE])
    BY <1>0, <2>2 DEF Keeps, ClientRec
  <2>3. QED
    BY <1>7, <2>1, <2>2 DEF Platform
<1>8. CASE Token(c)
  <2>1. CASE \E b \in BOOLEAN : Set(c, [client[c] EXCEPT !.pc = "secret", !.scope = b])
    <3>1. PICK b \in BOOLEAN : v = [w EXCEPT !.pc = "secret", !.scope = b]
      BY <1>0, <2>1
    <3>2. QED
      BY <1>0, <3>1 DEF Keeps, ClientRec
  <2>2. CASE Set(c, [client[c] EXCEPT !.pc = "device"])
    BY <1>0, <2>2 DEF Keeps, ClientRec
  <2>3. QED
    BY <1>1, <1>8, <2>1, <2>2, TokenCases
<1>9. CASE Device(c)
  <2>1. CASE \E dt \in 1..2 : Set(c, [client[c] EXCEPT !.elapsed = @ + dt])
    <3>1. PICK dt \in 1..2 : v = [w EXCEPT !.elapsed = w.elapsed + dt]
      BY <1>0, <2>1
    <3>2. w.pc = "device"
      BY <1>9 DEF Device
    <3>3. QED
      BY <1>0, <3>1, <3>2 DEF Keeps, ClientRec
  <2>2. CASE Set(c, [client[c] EXCEPT !.pc = "secret", !.scope = FALSE])
    BY <1>0, <2>2 DEF Keeps, ClientRec
  <2>3. QED
    BY <1>1, <1>9, <2>1, <2>2 DEF Device
<1>10. CASE List(c)
  <2> DEFINE d == Target(client[c].sha, client[c].limit)
             look == d = 0 /\ client[c].watch /\ Due(c)
  <2>1. CASE d # 0 /\ End(c, deploys[d].status)
    <3>1. d \in DOMAIN deploys
      BY <1>0, <2>1, TargetIn
    <3> HIDE DEF d
    <3>2. deploys[d].status \in Statuses
      <4>1. deploys[d] \in DeployRec
        BY <1>0, <3>1
      <4>2. QED
        BY <4>1 DEF DeployRec
    <3>3. QED
      BY <1>1, <2>1, <3>2 DEF Statuses
  <2>2. CASE Set(c, [client[c] EXCEPT !.cur = d, !.pc = IF look THEN "check" ELSE "late",
                                      !.bad = IF d = 0 THEN @ ELSE 0])
    <3>1. look => w.watch
      OBVIOUS
    <3> HIDE DEF d, look
    <3>2. QED
      BY <1>0, <2>2, <3>1 DEF Keeps, ClientRec
  <2>3. QED
    BY <1>10, <2>1, <2>2 DEF List
<1>11. CASE Check(c)
  <2>1. CASE Set(c, [client[c] EXCEPT !.pc = "late", !.last = client[c].elapsed, !.bad = 0])
    BY <1>0, <2>1 DEF Keeps, ClientRec
  <2>2. CASE RunFailed(NewestRun(client[c].sha)) /\ End(c, "build_failed")
    <3>1. v.sha = w.sha
      BY <1>0, <2>2 DEF End, Idle
    <3>2. QED
      BY <1>11, <2>2, <3>1 DEF Check, SaysFailed
  <2>3. QED
    BY <1>11, <2>1, <2>2 DEF Check
<1>12. CASE Late(c)
  <2> DEFINE m == IF client[c].watch /\ client[c].cur = 0 /\ RunFailed(NewestRun(client[c].sha))
                  THEN client[c].bad + 1 ELSE 0
  <2>1. CASE End(c, "timed_out")
    BY <1>1, <2>1
  <2>2. CASE Set(c, [client[c] EXCEPT !.pc = "list", !.elapsed = client[c].elapsed + 1, !.bad = m])
    <3> HIDE DEF m
    <3>1. QED
      BY <1>0, <2>2 DEF Keeps, ClientRec
  <2>3. QED
    BY <1>0, <1>12, <2>1, <2>2 DEF Late
<1>13. QED
  BY <1>2, <1>3, <1>4, <1>5, <1>6, <1>7, <1>8, <1>9, <1>10, <1>11, <1>12 DEF ClientAct, ClientStep

LEMMA AnswersStay ==
    TypeOK /\ RunsInv /\ WatchInv /\ FailedInv /\ [Next]_vars => (WatchInv /\ FailedInv)'
<1> SUFFICES ASSUME TypeOK, RunsInv, WatchInv, FailedInv, [Next]_vars PROVE (WatchInv /\ FailedInv)'
  OBVIOUS
\* The run of an answer stays one that failed or was run again.
<1>1. ASSUME DOMAIN runs \subseteq DOMAIN runs',
             \A s \in DOMAIN runs :
                /\ runs'[s].commit = runs[s].commit /\ runs'[s].ci = runs[s].ci
                /\ runs[s].pc = "failure" \/ runs[s].again => runs'[s].pc = "failure" \/ runs'[s].again,
             NEW c \in Clients, client[c].out = "build_failed", client'[c].sha = client[c].sha
      PROVE  \E s \in DOMAIN runs' :
                /\ runs'[s].ci /\ IsPrefix(client'[c].sha, Shas[runs'[s].commit])
                /\ runs'[s].pc = "failure" \/ runs'[s].again
  BY <1>1 DEF FailedInv
<1>2. ASSUME UNCHANGED client, DOMAIN runs \subseteq DOMAIN runs',
             \A s \in DOMAIN runs :
                /\ runs'[s].commit = runs[s].commit /\ runs'[s].ci = runs[s].ci
                /\ runs[s].pc = "failure" \/ runs[s].again => runs'[s].pc = "failure" \/ runs'[s].again
      PROVE  (WatchInv /\ FailedInv)'
  BY <1>1, <1>2 DEF WatchInv, FailedInv
<1>3. ASSUME NEW c \in Clients, ClientAct(c) PROVE (WatchInv /\ FailedInv)'
  <2>1. \A d \in Clients : d # c => client'[d] = client[d]
    BY <1>3, ClientMoves, Moved DEF TypeOK
  <2>2. /\ DOMAIN runs \subseteq DOMAIN runs'
        /\ \A s \in DOMAIN runs :
            /\ runs'[s].commit = runs[s].commit /\ runs'[s].ci = runs[s].ci
            /\ runs[s].pc = "failure" \/ runs[s].again => runs'[s].pc = "failure" \/ runs'[s].again
    <3>1. CASE UNCHANGED runs
      BY <3>1
    <3>2. CASE Shakes /\ UNCHANGED head
      BY <1>3, <3>2, RunsOfClients, RunsInvShaken
    <3>3. CASE Pushes
      BY <1>3, <3>3, RunsOfClients, PushAdds
    <3>4. QED
      BY <1>3, <3>1, <3>2, <3>3, RunsOfClients
  <2>3. WatchOK(client[c])
    BY DEF WatchInv
  <2>4. WatchOK(client'[c])
    BY <1>3, <2>3, AnswerCases DEF Keeps, Starts, Answers, SaysFailed, WatchOK
  <2>5. WatchInv'
    <3>1. ASSUME NEW d \in Clients PROVE WatchOK(client'[d])
      BY <2>1, <2>4 DEF WatchInv
    <3>2. QED
      BY <3>1 DEF WatchInv
  <2>6. ASSUME NEW d \in Clients, client'[d].out = "build_failed"
        PROVE  \E s \in DOMAIN runs' :
                  /\ runs'[s].ci /\ IsPrefix(client'[d].sha, Shas[runs'[s].commit])
                  /\ runs'[s].pc = "failure" \/ runs'[s].again
    <3>1. CASE client[d].out = "build_failed" /\ client'[d].sha = client[d].sha
      BY <1>1, <2>2, <3>1
    <3>2. CASE d = c /\ SaysFailed(c)
      <4> DEFINE s == NewestRun(client[c].sha)
      <4>1. /\ s \in DOMAIN runs /\ runs[s].ci /\ IsPrefix(client[c].sha, Shas[runs[s].commit])
            /\ runs[s].pc = "failure"
        BY <3>2, NewestRunIn DEF SaysFailed, RunFailed, TypeOK
      <4> HIDE DEF s
      <4>2. QED
        BY <3>2, <4>1 DEF SaysFailed
    <3>3. QED
      BY <1>3, <2>1, <2>6, <3>1, <3>2, AnswerCases DEF Keeps, Starts, Answers
  <2>7. QED
    BY <2>5, <2>6 DEF FailedInv
<1>4. CASE Push
  <2>1. UNCHANGED <<client, deploys>> /\ (torn \/ Linking # {}) \in BOOLEAN
    BY <1>4 DEF Push, server, TypeOK
  <2>2. CASE UNCHANGED runs
    BY <1>2, <2>1, <2>2
  <2>3. CASE file.ver # 0
    <3>1. Pushes
      BY <1>4, <2>1, <2>3 DEF Push, Pushes
    <3>2. QED
      BY <1>2, <2>1, <3>1, PushAdds
  <2>4. QED
    BY <1>4, <2>2, <2>3 DEF Push
<1>5. CASE ManualDeploy
  <2>1. PICK sha \in Wants \cup {None} : runs' = NewRun(0, FALSE, sha, FALSE)
    BY <1>5 DEF ManualDeploy
  <2>2. UNCHANGED <<client, head, deploys>> /\ sha \in ShaSet /\ 0 \in Nat
    BY <1>5 DEF ManualDeploy, server, github, ShaSet
  <2>3. \A s \in DOMAIN runs : s \in DOMAIN runs' /\ runs'[s] = runs[s]
    BY <2>1, <2>2, RunsInvAdds
  <2>4. QED
    BY <1>2, <2>2, <2>3
<1>6. ASSUME NEW r \in DOMAIN runs, RunAct(r) PROVE (WatchInv /\ FailedInv)'
  <2>1. PICK y : RunMoves(r, y)
    BY <1>6, RunSteps
  <2>2. /\ DOMAIN runs' = DOMAIN runs /\ \A s \in DOMAIN runs : s # r => runs'[s] = runs[s]
        /\ runs'[r].commit = runs[r].commit /\ runs'[r].ci = runs[r].ci
    BY <2>1, RunMoved DEF RunMoves, TypeOK
  <2>3. (runs[r].pc = "failure" \/ runs[r].again => runs'[r].again) /\ UNCHANGED client
    BY <1>6, RunFacts
  <2>4. QED
    BY <1>2, <2>2, <2>3
<1>7. CASE UNCHANGED vars
  BY <1>2, <1>7 DEF vars
<1>8. QED
  BY <1>3, <1>4, <1>5, <1>6, <1>7, NextCases

\* Two commits have shas of the same length, so a sha that is a prefix of what was
\* asked for has it as its prefix too.
LEMMA MatchIsPrefix ==
    ASSUME NEW i \in DOMAIN Shas, NEW j \in DOMAIN Shas, NEW want \in Wants,
           IsPrefix(want, Shas[i]), Matches(Shas[j], want)
    PROVE  IsPrefix(want, Shas[j])
<1>1. /\ want \in Seq(Nat) /\ Shas[i] \in Seq(Nat) /\ Shas[j] \in Seq(Nat)
      /\ Len(Shas[i]) = Len(Shas[j])
  BY PathShas
<1>2. CASE IsPrefix(Shas[j], want)
  <2>1. /\ Len(want) <= Len(Shas[j]) /\ Len(Shas[j]) <= Len(want)
        /\ SubSeq(Shas[j], 1, Len(Shas[j])) = SubSeq(want, 1, Len(Shas[j]))
    BY <1>1, <1>2 DEF IsPrefix
  <2>2. Len(want) = Len(Shas[j])
    BY <1>1, <2>1
  <2>3. QED
    BY <1>1, <2>1, <2>2 DEF IsPrefix
<1>3. QED
  BY <1>2 DEF Matches

LEMMA OneCommit ==
    ASSUME NEW want, Unambiguous(want), NEW i \in DOMAIN Shas, NEW j \in DOMAIN Shas,
           IsPrefix(want, Shas[i]), IsPrefix(want, Shas[j])
    PROVE  i = j
<1> DEFINE S == {k \in DOMAIN Shas : IsPrefix(want, Shas[k])}
<1>1. IsFiniteSet(1..Len(Shas)) /\ DOMAIN Shas = 1..Len(Shas)
  BY PathShas, FS_Interval
<1>2. IsFiniteSet(S)
  BY <1>1, FS_Subset
<1>3. PICK k : S = {k}
  BY <1>2, FS_Singleton DEF Unambiguous
<1>4. QED
  BY <1>3

\* The answer that the build failed stands: no deploy of that commit succeeds,
\* then or later, unless its run is run again or the commit is deployed by hand.
\* Each commit has one run, a deploy record that succeeded is that of a run that
\* did, and the answer is given of a run that failed.
THEOREM FailureStands == Spec => []BuildFailedStands
<1>1. Init => RunsInv /\ WatchInv /\ FailedInv
  BY DEF Init, RunsInv, WatchInv, WatchOK, FailedInv, Idle
<1>2. TypeOK /\ RunsInv /\ WatchInv /\ FailedInv => BuildFailedStands
  <2> SUFFICES ASSUME TypeOK, RunsInv, WatchInv, FailedInv, NEW c \in Clients, NEW want,
                      want = client[c].sha,
                      client[c].out = "build_failed", Unambiguous(want),
                      \A r \in DOMAIN runs :
                          Matches(runs[r].sha, want) => runs[r].ci /\ ~runs[r].again,
                      NEW d \in DOMAIN deploys, Matches(deploys[d].sha, want),
                      deploys[d].status = "succeeded"
               PROVE  FALSE
    BY DEF BuildFailedStands
  <2>1. want \in Wants
    BY DEF WatchInv, WatchOK, TypeOK, ClientRec
  <2>2. PICK f \in DOMAIN runs : /\ runs[f].ci /\ IsPrefix(want, Shas[runs[f].commit])
                                 /\ runs[f].pc = "failure" \/ runs[f].again
    BY DEF FailedInv
  <2>3. PICK r \in DOMAIN runs : /\ runs[r].sha = deploys[d].sha
                                 /\ runs[r].again \/ runs[r].pc = "success"
    BY DEF RunsInv
  <2>4. Matches(runs[r].sha, want) /\ runs[r].ci /\ runs[r].pc = "success"
    BY <2>3
  <2>5. /\ runs[f].commit \in DOMAIN Shas /\ runs[r].commit \in DOMAIN Shas
        /\ runs[r].sha = Shas[runs[r].commit] /\ runs[f].sha = Shas[runs[f].commit]
    <3>1. 1..head \subseteq DOMAIN Shas
      BY PathShas DEF TypeOK
    <3>2. QED
      BY <2>2, <2>4, <3>1 DEF RunsInv
  <2>6. IsPrefix(want, Shas[runs[r].commit])
    BY <2>1, <2>2, <2>4, <2>5, MatchIsPrefix
  <2>7. runs[r].commit = runs[f].commit
    BY <2>2, <2>5, <2>6, OneCommit
  <2>8. r = f
    BY <2>2, <2>4, <2>7 DEF RunsInv
  <2>9. QED
    BY <2>2, <2>4, <2>8
<1>3. QED
  BY <1>1, <1>2, TypeCorrect, RunsStay, AnswersStay, PTL DEF Spec

=============================================================================
