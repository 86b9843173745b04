---------------------------- MODULE RegistryProofs ----------------------------
(***************************************************************************)
(* Proofs of the invariants of Registry, for every set of requests, keys   *)
(* and values and any number of events: the storage secret, the deploy     *)
(* token, the env vars and the default env vars.                           *)
(***************************************************************************)
EXTENDS Registry, FiniteSetTheorems, TLAPS

Row == [id : Nat, repo : BOOLEAN, hash : Nat, running : BOOLEAN]
OperatePcs == {"record", "secret", "newsecret", "token", "save"}
Pcs == OperatePcs \cup
    {"idle", "insert", "volume", "reread", "repo", "hash", "envdel", "envins",
     "unset", "clean", "env", "rows", "app"}
Visits == {"storage", "other"}
Ops == Locked \cup Visits \cup {"create", "rotate", "env", "edit", "delete", None}
Secrets == Requests \cup {None}
Req == [pc : Pcs, op : Ops, row : Row \cup {None}, id : Nat, key : AllKeys \cup {None},
        val : Vals \cup {Default, None}, sec : Secrets]

\* A request that operates on the app, or is to save its repo, has read its row.
RequestOK(r) ==
    r.pc \in OperatePcs \cup {"repo"} =>
        r.row \in Row \/ (r.op \in Visits /\ r.pc \in {"secret", "newsecret", "token"})

TypeOK ==
    /\ row \in Row \cup {None} /\ ids \in Nat /\ events \in Nat /\ secret \in Secrets
    /\ req \in [Requests -> Req] /\ \A p \in Requests : RequestOK(req[p])

\* Once a request has the secret or a container has a token, the secret stays.
SecretOK ==
    /\ \A p \in Requests : req[p].pc = "token" => req[p].sec = secret /\ secret # None
    /\ \A t \in tokens : t[2] = secret /\ secret # None

Inv == TypeOK /\ SecretOK

LEMMA AbsentRow == None \notin Row
BY RegistryAbsence DEF Row

LEMMA NoReqType == NoReq \in Req /\ RequestOK(NoReq) /\ NoReq.pc = "idle"
BY DEF NoReq, Req, Pcs, Ops, Secrets, RequestOK, OperatePcs

LEMMA InitInv == Init => Inv
BY NoReqType DEF Init, Inv, TypeOK, SecretOK, Secrets

LEMMA Counts ==
    ASSUME TypeOK
    PROVE  (Event => events' \in Nat) /\ (UNCHANGED events => events' \in Nat)
BY DEF TypeOK, Event

(* One request changes, the others keep theirs. *)
LEMMA ReqUpdate ==
    ASSUME TypeOK, NEW p \in Requests, NEW r \in Req, RequestOK(r),
           req' = [req EXCEPT ![p] = r]
    PROVE  /\ req' \in [Requests -> Req] /\ req'[p] = r
           /\ \A q \in Requests : RequestOK(req'[q])
           /\ \A q \in Requests \ {p} : req'[q] = req[q]
<1>1. req' \in [Requests -> Req] /\ req'[p] = r
  BY DEF TypeOK
<1>2. \A q \in Requests \ {p} : req'[q] = req[q]
  BY DEF TypeOK
<1>3. QED
  BY <1>1, <1>2 DEF TypeOK

(* A step that neither touches the secret nor takes it. *)
LEMMA QuietStep ==
    ASSUME Inv, NEW p \in Requests, NEW r \in Req, RequestOK(r), r.pc # "token",
           req' = [req EXCEPT ![p] = r], UNCHANGED <<secret, tokens>>,
           row' \in Row \cup {None}, ids' \in Nat, events' \in Nat
    PROVE  Inv'
<1>1. TypeOK'
  BY ReqUpdate DEF Inv, TypeOK
<1>2. SecretOK'
  BY ReqUpdate DEF Inv, SecretOK
<1>3. QED
  BY <1>1, <1>2 DEF Inv

(* The step of a request, or its end. *)
LEMMA QuietGo ==
    ASSUME Inv, NEW p \in Requests, NEW pc \in Pcs, Go(p, pc), pc # "token",
           pc \in OperatePcs \cup {"repo"} => req[p].row \in Row,
           UNCHANGED <<secret, tokens>>,
           row' \in Row \cup {None}, ids' \in Nat, events' \in Nat
    PROVE  Inv'
<1> DEFINE r == [req[p] EXCEPT !.pc = pc]
<1>1. r \in Req /\ r.pc = pc /\ r.row = req[p].row
  BY DEF Inv, TypeOK, Req
<1>2. RequestOK(r)
  BY <1>1 DEF RequestOK
<1>3. req' = [req EXCEPT ![p] = r]
  BY DEF Go
<1> HIDE DEF r
<1>4. QED
  BY <1>1, <1>2, <1>3, QuietStep

LEMMA QuietDone ==
    ASSUME Inv, NEW p \in Requests, Done(p), UNCHANGED <<secret, tokens>>,
           row' \in Row \cup {None}, ids' \in Nat, events' \in Nat
    PROVE  Inv'
BY NoReqType, QuietStep DEF Done

LEMMA ReqFields ==
    ASSUME Inv, NEW p \in Requests
    PROVE  /\ req[p] \in Req /\ req[p].id \in Nat /\ req[p].row \in Row \cup {None}
           /\ req[p].pc \in {"record", "save", "repo"} => req[p].row \in Row
           /\ req[p].pc = "token" => req[p].row \in Row \/ req[p].op \in Visits
           /\ row # None => row \in Row /\ row.id \in Nat
           /\ ids \in Nat /\ events \in Nat /\ secret \in Secrets /\ row \in Row \cup {None}
BY DEF Inv, TypeOK, Req, RequestOK, OperatePcs, Row

(* The rows that are saved. *)
LEMMA RowSet ==
    ASSUME NEW o \in Row, NEW b \in BOOLEAN, NEW n \in Nat
    PROVE  /\ [o EXCEPT !.repo = b] \in Row /\ [o EXCEPT !.running = b] \in Row
           /\ [o EXCEPT !.hash = n] \in Row
BY DEF Row

LEMMA StepInv == ASSUME Inv, NEW p \in Requests, Step(p) PROVE Inv'
<1> USE DEF tables, docker, history, At
<1> USE ReqFields
<1>1. CASE CreateRow(p)
  <2>1. CASE row = None
    <3> DEFINE r == [req[p] EXCEPT !.pc = "envdel", !.id = ids + 1,
                                   !.key = Default, !.val = Default]
    <3>1. r \in Req /\ r.pc = "envdel"
      <4>1. req[p] \in Req /\ ids + 1 \in Nat
        BY DEF Inv, TypeOK
      <4>2. QED
        BY ONLY <4>1 DEF Req, Pcs, AllKeys
    <3>2. RequestOK(r)
      BY <3>1 DEF RequestOK, OperatePcs
    <3>3. req' = [req EXCEPT ![p] = r]
      BY <1>1, <2>1 DEF CreateRow
    <3>4. row' \in Row
      <4>1. /\ row' = [id |-> ids + 1, repo |-> FALSE, hash |-> 0, running |-> FALSE]
            /\ ids + 1 \in Nat
        BY <1>1, <2>1 DEF CreateRow, Inv, TypeOK
      <4>2. QED
        BY ONLY <4>1 DEF Row
    <3>5. ids' \in Nat /\ events' \in Nat /\ UNCHANGED <<secret, tokens>>
      BY <1>1, <2>1 DEF CreateRow
    <3> HIDE DEF r
    <3>6. QED
      BY <3>1, <3>2, <3>3, <3>4, <3>5, QuietStep
  <2>2. CASE row # None
    BY <1>1, <2>2, QuietDone DEF CreateRow
  <2>3. QED
    BY <2>1, <2>2
<1>2. CASE EndVisit(p)
  <2>1. TypeOK'
    BY <1>2, ReqUpdate, NoReqType DEF EndVisit, Done, Inv, TypeOK
  <2>2. \A t \in tokens' : t[2] = secret /\ secret # None
    BY <1>2 DEF EndVisit, Inv, SecretOK
  <2>3. SecretOK'
    BY <1>2, <2>2, ReqUpdate, NoReqType DEF EndVisit, Done, Inv, SecretOK
  <2>4. QED
    BY <2>1, <2>3 DEF Inv
<1>3. CASE CreateVolume(p)
  <2>1. events' \in Nat
    BY <1>3, Counts DEF CreateVolume, Inv
  <2>2. QED
    BY <1>3, <2>1, QuietGo, QuietDone DEF CreateVolume, Pcs, OperatePcs
<1>4. CASE CreateReread(p)
  <2>1. CASE row = None
    BY <1>4, <2>1, QuietDone DEF CreateReread
  <2>2. CASE row # None
    <3>1. PICK pc \in {"repo", "hash"} :
             req' = [req EXCEPT ![p].pc = pc, ![p].row = row, ![p].id = row.id]
      BY <1>4, <2>2 DEF CreateReread
    <3> DEFINE r == [req[p] EXCEPT !.pc = pc, !.row = row, !.id = row.id]
    <3>2. r \in Req /\ r.pc = pc /\ r.row = row
      BY <2>2 DEF Req, Pcs
    <3>3. RequestOK(r)
      BY <3>2, <2>2 DEF RequestOK
    <3>4. req' = [req EXCEPT ![p] = r]
      BY <3>1
    <3> HIDE DEF r
    <3>5. QED
      BY <1>4, <2>2, <3>2, <3>3, <3>4, QuietStep DEF CreateReread
  <2>3. QED
    BY <2>1, <2>2
<1>5. CASE SaveRepo(p)
  <2>1. SaveOk(p) => row' \in Row
    BY <1>5, RowSet DEF SaveRepo, Save
  <2>2. QED
    BY <1>5, <2>1, QuietGo, QuietDone DEF SaveRepo, Pcs, OperatePcs
<1>6. CASE SetHash(p)
  <2>1. row' \in Row \cup {None}
    BY <1>6, RowSet DEF SetHash, Alive
  <2>2. QED
    BY <1>6, <2>1, QuietDone DEF SetHash
<1>7. CASE EnvDelete(p)
  BY <1>7, QuietGo, QuietDone DEF EnvDelete, Pcs, OperatePcs
<1>8. CASE EnvInsert(p)
  BY <1>8, QuietGo, QuietDone DEF EnvInsert, Pcs, OperatePcs
<1>9. CASE EnvUnset(p)
  BY <1>9, QuietGo, QuietDone DEF EnvUnset, Pcs, OperatePcs
<1>10. CASE DeployRecord(p)
  BY <1>10, QuietGo, QuietDone DEF DeployRecord, Pcs, OperatePcs
<1>11. CASE ReadSecret(p)
  <2> DEFINE r == [req[p] EXCEPT !.pc = IF secret = None THEN "newsecret" ELSE "token",
                                 !.sec = secret]
  <2>1. /\ r \in Req /\ r.row = req[p].row /\ r.op = req[p].op /\ r.sec = secret
        /\ r.pc = IF secret = None THEN "newsecret" ELSE "token"
    BY DEF Req, Pcs, OperatePcs
  <2>2. RequestOK(r)
    BY <1>11, <2>1 DEF ReadSecret, RequestOK, OperatePcs, Inv, TypeOK
  <2>3. req' = [req EXCEPT ![p] = r]
    BY <1>11 DEF ReadSecret
  <2> HIDE DEF r
  <2>4. TypeOK'
    BY <1>11, <2>1, <2>2, <2>3, ReqUpdate DEF ReadSecret, Inv, TypeOK
  <2>5. SecretOK'
    BY <1>11, <2>1, <2>2, <2>3, ReqUpdate DEF ReadSecret, Inv, SecretOK
  <2>6. QED
    BY <2>4, <2>5 DEF Inv
<1>12. CASE NewSecret(p)
  <2> DEFINE r == [req[p] EXCEPT !.pc = "secret"]
  <2>1. r \in Req /\ r.row = req[p].row /\ r.op = req[p].op /\ r.pc = "secret"
    BY DEF Req, Pcs, OperatePcs
  <2>2. RequestOK(r)
    BY <1>12, <2>1 DEF NewSecret, RequestOK, OperatePcs, Inv, TypeOK
  <2>3. req' = [req EXCEPT ![p] = r]
    BY <1>12 DEF NewSecret, Go
  <2> HIDE DEF r
  <2>4. TypeOK'
    BY <1>12, <2>1, <2>2, <2>3, ReqUpdate DEF NewSecret, Inv, TypeOK, Secrets
  <2>5. SecretOK'
    BY <1>12, <2>1, <2>2, <2>3, ReqUpdate DEF NewSecret, Inv, SecretOK
  <2>6. QED
    BY <2>4, <2>5 DEF Inv
<1>13. CASE StartContainer(p)
  <2> DEFINE r == [req[p] EXCEPT !.pc = "save"]
  <2>1. r \in Req /\ r.row = req[p].row /\ r.pc = "save"
    BY DEF Req, Pcs, OperatePcs
  <2>2. RequestOK(r)
    BY <1>13, <2>1 DEF StartContainer, RequestOK, OperatePcs, Locked, Visits, Op
  <2>3. req' = [req EXCEPT ![p] = r]
    BY <1>13 DEF StartContainer, Go
  <2> HIDE DEF r
  <2>4. TypeOK'
    BY <1>13, <2>1, <2>2, <2>3, ReqUpdate DEF StartContainer, Inv, TypeOK
  <2>5. \A t \in tokens' : t[2] = secret /\ secret # None
    BY <1>13 DEF StartContainer, Inv, SecretOK
  <2>6. SecretOK'
    BY <1>13, <2>1, <2>2, <2>3, <2>5, ReqUpdate DEF StartContainer, Inv, SecretOK
  <2>7. QED
    BY <2>4, <2>6 DEF Inv
<1>14. CASE SaveState(p)
  <2>1. row' \in Row \cup {None}
    <3>1. CASE Op(p) = "deploy"
      BY <1>14, <3>1, RowSet DEF SaveState, Alive
    <3>2. CASE Op(p) # "deploy" /\ SaveOk(p)
      <4>1. req[p].row \in Row /\ req[p].row.running \in BOOLEAN
        BY <1>14 DEF SaveState, Row, OperatePcs
      <4>2. row' = [req[p].row EXCEPT !.running =
                       IF Op(p) = "edit" THEN @ ELSE Op(p) = "start"]
        BY <1>14, <3>2 DEF SaveState, Save
      <4>3. QED
        BY <4>1, <4>2, RowSet
    <3>3. CASE Op(p) # "deploy" /\ ~SaveOk(p)
      BY <1>14, <3>3 DEF SaveState
    <3>4. QED
      BY <3>1, <3>2, <3>3
  <2>2. QED
    BY <1>14, <2>1, QuietDone DEF SaveState
<1>15. CASE DeleteDocker(p)
  BY <1>15, QuietGo, QuietDone DEF DeleteDocker, Pcs, OperatePcs
<1>16. CASE DeleteEnv(p)
  BY <1>16, QuietGo, QuietDone DEF DeleteEnv, Pcs, OperatePcs
<1>17. CASE DeleteDeploys(p)
  BY <1>17, QuietGo, QuietDone DEF DeleteDeploys, Pcs, OperatePcs
<1>18. CASE DeleteRow(p)
  BY <1>18, QuietGo, QuietDone DEF DeleteRow, Pcs, OperatePcs
<1>19. QED
  BY <1>1, <1>2, <1>3, <1>4, <1>5, <1>6, <1>7, <1>8, <1>9, <1>10, <1>11, <1>12, <1>13,
     <1>14, <1>15, <1>16, <1>17, <1>18 DEF Step

LEMMA RequestInv ==
    ASSUME Inv, NEW p \in Requests, NEW r \in Req, RequestOK(r), r.pc # "token",
           req' = [req EXCEPT ![p] = r], Event, UNCHANGED <<tables, docker, ids>>
    PROVE  Inv'
BY QuietStep, Counts DEF Inv, TypeOK, tables, docker

LEMMA NextInv == Inv /\ [Next]_vars => Inv'
<1> SUFFICES ASSUME Inv, [Next]_vars PROVE Inv'
  OBVIOUS
<1> USE DEF history, At
<1>1. ASSUME NEW p \in Requests, Create(p) PROVE Inv'
  <2>1. \E r \in Req : RequestOK(r) /\ r.pc # "token" /\ req' = [req EXCEPT ![p] = r]
    <3>1. CASE row = None
      <4> DEFINE r == [NoReq EXCEPT !.pc = "insert", !.op = "create"]
      <4>1. r \in Req /\ r.pc = "insert"
        BY DEF NoReq, Req, Pcs, Ops, Secrets, AllKeys
      <4>2. QED
        BY <1>1, <3>1, <4>1 DEF Create, RequestOK, OperatePcs
    <3>2. CASE row # None
      <4>1. PICK pc \in {"idle", "repo", "hash"} :
                req' = [req EXCEPT ![p] = IF pc = "idle" THEN NoReq
                                          ELSE [NoReq EXCEPT !.pc = pc, !.op = "rotate",
                                                             !.row = row, !.id = row.id]]
        BY <1>1, <3>2 DEF Create
      <4>2. row \in Row /\ row.id \in Nat
        BY <3>2, ReqFields, <1>1
      <4> DEFINE r == [NoReq EXCEPT !.pc = pc, !.op = "rotate", !.row = row, !.id = row.id]
      <4>3. r \in Req /\ r.pc = pc /\ r.row = row
        BY <4>2 DEF NoReq, Req, Pcs, Ops, Secrets
      <4>4. RequestOK(r)
        BY <4>2, <4>3 DEF RequestOK
      <4>5. QED
        BY <4>1, <4>3, <4>4, NoReqType
    <3>3. QED
      BY <3>1, <3>2
  <2>2. QED
    BY <1>1, <2>1, RequestInv DEF Create
<1>2. ASSUME NEW p \in Requests, SetEnv(p) PROVE Inv'
  <2>1. PICK k \in AllKeys, v \in Vals, pc \in {"envdel", "unset"} :
            req' = [req EXCEPT ![p] = [NoReq EXCEPT !.pc = pc, !.op = "env", !.id = row.id,
                                                    !.key = k, !.val = v]]
    BY <1>2 DEF SetEnv
  <2> DEFINE r == [NoReq EXCEPT !.pc = pc, !.op = "env", !.id = row.id, !.key = k, !.val = v]
  <2>2. row.id \in Nat
    BY <1>2, ReqFields DEF SetEnv
  <2>3. r \in Req /\ r.pc = pc
    BY <2>2 DEF NoReq, Req, Pcs, Ops, Secrets
  <2>4. RequestOK(r)
    BY <2>3 DEF RequestOK, OperatePcs
  <2> HIDE DEF r
  <2>5. req' = [req EXCEPT ![p] = r]
    BY <2>1 DEF r
  <2>6. QED
    BY <1>2, <2>3, <2>4, <2>5, RequestInv DEF SetEnv
<1>3. ASSUME NEW p \in Requests, Delete(p) PROVE Inv'
  <2> DEFINE r == [NoReq EXCEPT !.pc = "clean", !.op = "delete", !.id = row.id]
  <2>1. row.id \in Nat
    BY <1>3, ReqFields DEF Delete
  <2>2. r \in Req /\ r.pc = "clean"
    BY <2>1 DEF NoReq, Req, Pcs, Ops, Secrets
  <2>3. RequestOK(r)
    BY <2>2 DEF RequestOK, OperatePcs
  <2>4. req' = [req EXCEPT ![p] = r]
    BY <1>3 DEF Delete
  <2> HIDE DEF r
  <2>5. QED
    BY <1>3, <2>2, <2>3, <2>4, RequestInv DEF Delete
<1>4. ASSUME NEW p \in Requests, NEW op \in Locked \cup {"edit"}, Operate(p, op) PROVE Inv'
  <2> DEFINE pc == CASE op = "deploy" -> "record" [] op = "start" -> "secret"
                     [] op \in {"stop", "edit"} -> "save"
             r == [NoReq EXCEPT !.op = op, !.row = row, !.id = row.id, !.pc = pc]
  <2>1. row \in Row /\ row.id \in Nat
    BY <1>4, ReqFields DEF Operate
  <2>2. pc \in {"record", "secret", "save"}
    BY DEF Locked
  <2> HIDE DEF pc
  <2>3. r \in Req /\ r.pc = pc /\ r.row = row
    BY <2>1, <2>2 DEF NoReq, Req, Pcs, OperatePcs, Ops, Secrets
  <2>4. RequestOK(r)
    BY <2>1, <2>3 DEF RequestOK
  <2>5. req' = [req EXCEPT ![p] = r]
    BY <1>4 DEF Operate, pc
  <2> HIDE DEF r
  <2>6. QED
    BY <1>4, <2>2, <2>3, <2>4, <2>5, RequestInv DEF Operate
<1>5. ASSUME NEW p \in Requests, Fail(p) PROVE Inv'
  BY <1>5, NoReqType, RequestInv DEF Fail, Done
<1>6. CASE UNCHANGED vars
  BY <1>6 DEF vars, tables, docker, Inv, TypeOK, SecretOK
<1>7. ASSUME NEW p \in Requests, Visit(p) PROVE Inv'
  <2>1. PICK op \in Visits :
            req' = [req EXCEPT ![p] = [NoReq EXCEPT !.pc = "secret", !.op = op]]
    BY <1>7 DEF Visit, Visits
  <2> DEFINE r == [NoReq EXCEPT !.pc = "secret", !.op = op]
  <2>2. r \in Req /\ r.pc = "secret" /\ r.op = op
    BY DEF NoReq, Req, Pcs, OperatePcs, Ops, Visits, Secrets
  <2>3. RequestOK(r)
    BY <2>2 DEF RequestOK
  <2> HIDE DEF r
  <2>4. req' = [req EXCEPT ![p] = r]
    BY <2>1 DEF r
  <2>5. QED
    BY <1>7, <2>2, <2>3, <2>4, RequestInv DEF Visit
<1>8. QED
  BY <1>1, <1>2, <1>3, <1>4, <1>5, <1>6, <1>7, StepInv DEF Next

(* Every row, request and secret keeps its type. *)
THEOREM TypeCorrect == Spec => []TypeOK
<1>1. Inv => TypeOK
  BY DEF Inv
<1>2. QED
  BY <1>1, InitInv, NextInv, PTL DEF Spec

(* Whoever wins the race of the first starts and storage requests, of any      *)
(* number of apps, for the storage secret, every token in a container verifies *)
(* with the stored one and with the one that any request under way has got.    *)
THEOREM TokensVerify == Spec => []MintedTokensVerify
<1>1. Inv => MintedTokensVerify
  BY DEF Inv, SecretOK, MintedTokensVerify, Verifies, At
<1>2. QED
  BY <1>1, InitInv, NextInv, PTL DEF Spec

-----------------------------------------------------------------------------
(* What requests, rows and env vars refer to *)

EnvPcs == {"envdel", "envins", "unset"}
DeletePcs == {"clean", "env", "rows", "app"}

\* Who is at which step, and what a step that saves the repo has read.
OpOK(r) ==
    /\ r.pc = "insert" => r.op = "create"
    /\ r.pc \in DeletePcs => r.op = "delete"
    /\ r.pc \in EnvPcs =>
        /\ r.key \in AllKeys /\ r.val \in Vals \cup {Default}
        /\ \/ r.op = "env"
           \/ r.op = "create" /\ r.pc # "unset" /\ r.key = Default /\ r.val = Default
    /\ r.pc = "repo" => r.row.id = r.id

\* Nothing refers to an id that has not been given yet.
RowKnown(w) == w # None => w.id <= ids
RequestKnown(r) == r.id <= ids /\ RowKnown(r.row)
EnvVar == [id : Nat, key : AllKeys, val : Vals \cup {Default}, by : Requests]

Known ==
    /\ \A p \in Requests : OpOK(req[p]) /\ RequestKnown(req[p])
    /\ RowKnown(row)
    /\ env \subseteq EnvVar /\ \A e \in env : e.id <= ids
    /\ minted \in [id : Nat, n : Nat] /\ minted.id <= ids
    /\ envLast \in [AllKeys -> Vals \cup {Default, None}]

\* The row of the id accepts the token returned last, unless a request is
\* about to set another: the inductive form of LastMintWins.
MintInv ==
    /\ ~raced /\ Alive(minted.id) /\ minted.id \notin hollow
    /\ \A p \in Requests : ~(At(p, "hash") /\ req[p].id = minted.id)
    => row.hash = minted.n

\* No deletion of the id is between its first and its last statement.
Unbroken(id) ==
    /\ id \notin hollow
    /\ \A p \in Requests : req[p].id = id => req[p].pc \notin {"rows", "app"}

Inserts(p, id, k) == At(p, "envins") /\ req[p].id = id /\ req[p].key = k

\* A key has the value it was set to last, or none while one request is between
\* its two statements: the inductive form of EnvAsLastSet.
ValueOK(id, k) ==
    \/ /\ \E p \in Requests : Inserts(p, id, k) /\ \A q \in Requests : Inserts(q, id, k) => q = p
       /\ EnvOf(id, k) = {}
    \/ /\ \A p \in Requests : ~Inserts(p, id, k)
       /\ \/ EnvOf(id, k) = {} /\ envLast[k] = None
          \/ \E e : EnvOf(id, k) = {e} /\ e.val = envLast[k] /\ e.val # None

EnvInv == \A id : Alive(id) /\ Unbroken(id) => \A k \in AllKeys \ doubled : ValueOK(id, k)

\* What every step of a request p has in common: the others keep theirs, ids
\* are given in order, and what refers to one refers to a given one.
Others(p) == \A q \in Requests \ {p} : req'[q] = req[q]
RowsOK == RowKnown(row)' /\ ids' \in Nat /\ ids' >= ids
HistoryOK == /\ minted' \in [id : Nat, n : Nat] /\ minted'.id <= ids'
             /\ envLast' \in [AllKeys -> Vals \cup {Default, None}]
EnvOK == env' \subseteq EnvVar /\ \A e \in env' : e.id <= ids'
MovesOK(p) == Others(p) /\ OpOK(req'[p]) /\ RequestKnown(req[p])'

LEMMA KnownStep ==
    ASSUME Inv, Known, NEW p \in Requests, RowsOK, HistoryOK, EnvOK, MovesOK(p)
    PROVE  Known'
<1>1. ASSUME NEW q \in Requests PROVE OpOK(req'[q]) /\ RequestKnown(req[q])'
  <2>1. CASE q = p
    BY <2>1 DEF MovesOK
  <2>2. CASE q # p
    <3>1. req'[q] = req[q] /\ OpOK(req[q]) /\ RequestKnown(req[q])
      BY <2>2 DEF MovesOK, Others, Known
    <3>2. req[q] \in Req /\ ids \in Nat /\ ids' \in Nat /\ ids' >= ids
      BY DEF Inv, TypeOK, RowsOK
    <3>3. req[q].id \in Nat /\ (req[q].row # None => req[q].row.id \in Nat)
      BY <3>2 DEF Req, Row
    <3>4. RequestKnown(req[q])'
      BY <3>1, <3>2, <3>3 DEF RequestKnown, RowKnown
    <3>5. QED  BY <3>1, <3>4
  <2>3. QED  BY <2>1, <2>2
<1>2. QED  BY <1>1 DEF Known, RowsOK, HistoryOK, EnvOK

LEMMA GoIs ==
    ASSUME Inv, NEW p \in Requests, NEW pc, Go(p, pc)
    PROVE  /\ Others(p) /\ req'[p].pc = pc
           /\ req'[p].op = req[p].op /\ req'[p].row = req[p].row /\ req'[p].id = req[p].id
           /\ req'[p].key = req[p].key /\ req'[p].val = req[p].val
BY DEF Go, Others, Inv, TypeOK, Req

LEMMA DoneIs ==
    ASSUME Inv, NEW p \in Requests, Done(p)
    PROVE  /\ Others(p) /\ req'[p] = NoReq
           /\ req'[p].pc = "idle" /\ req'[p].row = None /\ req'[p].id = 0
BY DEF Done, Others, Inv, TypeOK, NoReq

LEMMA GoMoves ==
    ASSUME Inv, Known, NEW p \in Requests, NEW pc, Go(p, pc), ids' = ids,
           \/ pc \notin {"insert", "repo"} \cup DeletePcs \cup EnvPcs
           \/ pc \in DeletePcs /\ req[p].pc \in DeletePcs
           \/ pc = "envins" /\ req[p].pc = "envdel"
    PROVE  MovesOK(p)
BY GoIs DEF MovesOK, Known, OpOK, RequestKnown, RowKnown, DeletePcs, EnvPcs

LEMMA DoneMoves ==
    ASSUME Inv, Known, NEW p \in Requests, Done(p), ids' = ids
    PROVE  MovesOK(p)
BY DoneIs DEF MovesOK, OpOK, RequestKnown, RowKnown, DeletePcs, EnvPcs, Inv, TypeOK

LEMMA StepMoves ==
    ASSUME Inv, Known, NEW p \in Requests, Step(p)
    PROVE  MovesOK(p)
<1> USE DEF At, tables, docker, history, DeletePcs, EnvPcs
<1>1. CASE CreateRow(p)
  <2>1. CASE row = None
    <3> DEFINE r == [req[p] EXCEPT !.pc = "envdel", !.id = ids + 1,
                                   !.key = Default, !.val = Default]
    <3>1. req' = [req EXCEPT ![p] = r] /\ ids' = ids + 1
      BY <1>1, <2>1 DEF CreateRow
    <3>2. /\ req'[p].pc = "envdel" /\ req'[p].id = ids + 1
          /\ req'[p].key = Default /\ req'[p].val = Default
          /\ req'[p].op = req[p].op /\ req'[p].row = req[p].row
          /\ Others(p)
      BY <3>1 DEF Inv, TypeOK, Req, Others
    <3>3. ids \in Nat /\ req[p].op = "create" /\ RowKnown(req[p].row)
          /\ (req[p].row # None => req[p].row.id \in Nat)
      BY <1>1 DEF CreateRow, Known, OpOK, RequestKnown, Inv, TypeOK, Req, Row
    <3>4. QED  BY <3>1, <3>2, <3>3 DEF MovesOK, OpOK, RequestKnown, RowKnown, AllKeys
  <2>2. CASE row # None
    BY <1>1, <2>2, DoneMoves DEF CreateRow
  <2>3. QED  BY <2>1, <2>2
<1>2. CASE EndVisit(p) \/ CreateVolume(p) \/ SaveRepo(p) \/ SetHash(p)
  BY <1>2, GoMoves, DoneMoves DEF EndVisit, CreateVolume, SaveRepo, SetHash
<1>3. CASE CreateReread(p)
  <2>1. CASE row = None
    BY <1>3, <2>1, DoneMoves DEF CreateReread
  <2>2. CASE row # None
    <3>1. PICK pc \in {"repo", "hash"} :
             req' = [req EXCEPT ![p].pc = pc, ![p].row = row, ![p].id = row.id]
      BY <1>3, <2>2 DEF CreateReread
    <3>2. /\ req'[p].pc = pc /\ req'[p].id = row.id /\ req'[p].row = row /\ Others(p)
          /\ ids' = ids
      BY <1>3, <3>1 DEF CreateReread, Inv, TypeOK, Req, Others
    <3>3. QED  BY <2>2, <3>2 DEF MovesOK, OpOK, RequestKnown, RowKnown, Known
  <2>3. QED  BY <2>1, <2>2
<1>4. CASE EnvDelete(p) \/ EnvInsert(p) \/ EnvUnset(p)
  BY <1>4, GoMoves, DoneMoves DEF EnvDelete, EnvInsert, EnvUnset
<1>5. CASE DeployRecord(p) \/ NewSecret(p) \/ StartContainer(p) \/ SaveState(p)
  BY <1>5, GoMoves, DoneMoves DEF DeployRecord, NewSecret, StartContainer, SaveState
<1>6. CASE ReadSecret(p)
  <2>1. req' = [req EXCEPT ![p].pc = IF secret = None THEN "newsecret" ELSE "token", ![p].sec = secret]
        /\ ids' = ids
    BY <1>6 DEF ReadSecret
  <2>2. /\ req'[p].pc \in {"newsecret", "token"} /\ req'[p].id = req[p].id
        /\ req'[p].row = req[p].row /\ Others(p)
    BY <2>1 DEF Inv, TypeOK, Req, Others
  <2>3. QED  BY <2>1, <2>2 DEF MovesOK, OpOK, RequestKnown, RowKnown, Known
<1>7. CASE DeleteDocker(p) \/ DeleteEnv(p) \/ DeleteDeploys(p) \/ DeleteRow(p)
  BY <1>7, GoMoves, DoneMoves DEF DeleteDocker, DeleteEnv, DeleteDeploys, DeleteRow
<1>8. QED  BY <1>1, <1>2, <1>3, <1>4, <1>5, <1>6, <1>7 DEF Step

\* A request arrives with what it has read of the row.
LEMMA ArrivalMoves ==
    ASSUME Inv, Known, NEW p \in Requests,
           Create(p) \/ SetEnv(p) \/ Delete(p) \/ Visit(p) \/ (\E op \in Locked \cup {"edit"} : Operate(p, op))
    PROVE  MovesOK(p)
<1> USE DEF DeletePcs, EnvPcs, MovesOK, OpOK, RequestKnown, RowKnown
<1>1. ids' = ids /\ ids \in Nat /\ (row # None => row.id <= ids /\ row.id \in Nat)
  BY DEF Create, SetEnv, Delete, Visit, Operate, Known, Inv, TypeOK, Row
<1>2. CASE Create(p) /\ row = None
  <2>1. req'[p] = [NoReq EXCEPT !.pc = "insert", !.op = "create"] /\ Others(p)
    BY <1>2 DEF Create, Inv, TypeOK, Others
  <2>2. QED  BY <1>1, <2>1 DEF NoReq
<1>3. CASE Create(p) /\ row # None
  <2>1. PICK pc \in {"idle", "repo", "hash"} :
           /\ req'[p] = IF pc = "idle" THEN NoReq
                        ELSE [NoReq EXCEPT !.pc = pc, !.op = "rotate", !.row = row, !.id = row.id]
           /\ Others(p)
    BY <1>3 DEF Create, Inv, TypeOK, Others
  <2>2. QED  BY <1>1, <1>3, <2>1 DEF NoReq
<1>4. CASE SetEnv(p)
  <2>1. PICK k \in AllKeys, v \in Vals, pc \in {"envdel", "unset"} :
           /\ req'[p] = [NoReq EXCEPT !.pc = pc, !.op = "env", !.id = row.id, !.key = k, !.val = v]
           /\ Others(p)
    BY <1>4 DEF SetEnv, Inv, TypeOK, Others
  <2>2. QED  BY <1>1, <1>4, <2>1 DEF NoReq, SetEnv
<1>5. CASE Delete(p)
  <2>1. /\ req'[p] = [NoReq EXCEPT !.pc = "clean", !.op = "delete", !.id = row.id]
        /\ Others(p)
    BY <1>5 DEF Delete, Inv, TypeOK, Others
  <2>2. req'[p].pc = "clean" /\ req'[p].op = "delete" /\ req'[p].id = row.id /\ req'[p].row = None
    BY ONLY <2>1 DEF NoReq
  <2>3. row # None
    BY <1>5 DEF Delete
  <2>4. QED  BY <1>1, <2>1, <2>2, <2>3
<1>6. ASSUME NEW op \in Locked \cup {"edit"}, Operate(p, op) PROVE MovesOK(p)
  <2>1. PICK pc \in {"record", "secret", "save"} :
           /\ req'[p] = [NoReq EXCEPT !.op = op, !.row = row, !.id = row.id, !.pc = pc]
           /\ Others(p)
    <3> DEFINE pc == CASE op = "deploy" -> "record" [] op = "start" -> "secret"
                       [] op \in {"stop", "edit"} -> "save"
    <3>1. pc \in {"record", "secret", "save"}
      BY DEF Locked
    <3>2. req' = [req EXCEPT ![p] = [NoReq EXCEPT !.op = op, !.row = row, !.id = row.id, !.pc = pc]]
      BY <1>6 DEF Operate
    <3> HIDE DEF pc
    <3>3. QED  BY <3>1, <3>2 DEF Inv, TypeOK, Others
  <2>2. req'[p].pc = pc /\ req'[p].id = row.id /\ req'[p].row = row
    BY ONLY <2>1 DEF NoReq
  <2>3. row # None
    BY <1>6 DEF Operate
  <2>4. QED  BY <1>1, <2>1, <2>2, <2>3
<1>7. CASE Visit(p)
  <2>1. PICK op \in Visits : /\ req'[p] = [NoReq EXCEPT !.pc = "secret", !.op = op]
                             /\ Others(p)
    BY <1>7 DEF Visit, Visits, Inv, TypeOK, Others
  <2>2. req'[p].pc = "secret" /\ req'[p].id = 0 /\ req'[p].row = None
    BY ONLY <2>1 DEF NoReq
  <2>3. QED  BY <1>1, <2>1, <2>2
<1>8. QED  BY <1>2, <1>3, <1>4, <1>5, <1>6, <1>7

LEMMA StepRows ==
    ASSUME Inv, Known, NEW p \in Requests, Step(p)
    PROVE  RowsOK
<1> USE DEF At, tables, docker, history, RowsOK, RowKnown
<1>1. /\ ids \in Nat /\ (row # None => row \in Row /\ row.id \in Nat /\ row.id <= ids)
      /\ (req[p].row # None => req[p].row.id \in Nat /\ req[p].row.id <= ids)
      /\ (req[p].pc \in {"repo", "save"} => req[p].row \in Row /\ req[p].row.id <= ids)
  <2>1. req[p].row \in Row \cup {None} /\ RowKnown(req[p].row) /\ RowKnown(row)
    BY ReqFields DEF Known, RequestKnown
  <2>2. \A w \in Row : w.id \in Nat
    BY DEF Row
  <2>3. req[p].row \in Row => req[p].row.id <= ids
    BY <2>1, AbsentRow
  <2>4. QED  BY <2>1, <2>2, <2>3, ReqFields DEF OperatePcs
<1>2. CASE CreateRow(p)
  <2>1. row = None => ids' = ids + 1 /\ row'.id = ids + 1
    BY <1>2 DEF CreateRow
  <2>2. row # None => ids' = ids /\ row' = row
    BY <1>2 DEF CreateRow
  <2>3. QED  BY <1>1, <2>1, <2>2
<1>3. CASE SaveRepo(p)
  <2>1. ids' = ids /\ (row' = row \/ row' = [req[p].row EXCEPT !.repo = TRUE])
    BY <1>3 DEF SaveRepo, Save
  <2>2. req[p].row \in Row => [req[p].row EXCEPT !.repo = TRUE].id = req[p].row.id
    BY DEF Row
  <2>3. req[p].row \in Row /\ req[p].row.id <= ids
    BY <1>1, <1>3 DEF SaveRepo
  <2>4. row' # None => row'.id <= ids
    BY <1>1, <2>1, <2>2, <2>3
  <2>5. QED  BY ONLY <1>1, <2>1, <2>4
<1>4. CASE SetHash(p)
  <2>1. ids' = ids /\ (row' = row \/ (row # None /\ row' = [row EXCEPT !.hash = events]))
    BY <1>4 DEF SetHash, Alive
  <2>2. row \in Row => [row EXCEPT !.hash = events].id = row.id
    BY DEF Row
  <2>3. row' # None => row'.id <= ids
    BY ONLY <1>1, <2>1, <2>2
  <2>4. QED  BY ONLY <1>1, <2>1, <2>3
<1>5. CASE SaveState(p)
  <2>1. ids' = ids
    BY <1>5 DEF SaveState
  <2>2. \/ row' = row
        \/ row # None /\ row' = [row EXCEPT !.running = TRUE]
        \/ \E b : row' = [req[p].row EXCEPT !.running = b]
    BY <1>5 DEF SaveState, Save, Alive
  <2>3. row \in Row => [row EXCEPT !.running = TRUE].id = row.id
    BY DEF Row
  <2>4. \A b : req[p].row \in Row => [req[p].row EXCEPT !.running = b].id = req[p].row.id
    BY DEF Row
  <2>5. req[p].row \in Row /\ req[p].row.id <= ids
    BY <1>1, <1>5 DEF SaveState
  <2>6. row' # None => row'.id <= ids
    BY ONLY <1>1, <2>2, <2>3, <2>4, <2>5
  <2>7. QED  BY ONLY <1>1, <2>1, <2>6
<1>6. CASE DeleteRow(p)
  BY <1>1, <1>6 DEF DeleteRow
<1>7. CASE ~(CreateRow(p) \/ SaveRepo(p) \/ SetHash(p) \/ SaveState(p) \/ DeleteRow(p))
  <2>1. ids' = ids /\ row' = row
    BY <1>7 DEF Step, EndVisit, CreateVolume, CreateReread, EnvDelete, EnvInsert, EnvUnset,
            DeployRecord, ReadSecret, NewSecret, StartContainer, DeleteDocker, DeleteEnv,
            DeleteDeploys
  <2>2. QED  BY <1>1, <2>1
<1>8. QED  BY <1>2, <1>3, <1>4, <1>5, <1>6, <1>7

LEMMA StepHistory ==
    ASSUME Inv, Known, NEW p \in Requests, Step(p)
    PROVE  HistoryOK
<1> USE DEF At, tables, docker, history
<1>1. ids' \in Nat /\ ids' >= ids /\ ids \in Nat /\ events \in Nat
  BY StepRows DEF RowsOK, Inv, TypeOK
<1>2. minted' \in [id : Nat, n : Nat] /\ minted'.id <= ids'
  <2>1. minted \in [id : Nat, n : Nat] /\ minted.id <= ids /\ minted.id \in Nat
    BY DEF Known
  <2>2. CASE SetHash(p)
    <3>1. minted' = [id |-> req[p].id, n |-> events] /\ req[p].id \in Nat /\ req[p].id <= ids
      BY <2>2, ReqFields DEF SetHash, Known, RequestKnown
    <3>2. QED  BY <1>1, <3>1
  <2>3. CASE ~SetHash(p)
    <3>1. minted' = minted
      BY <2>3 DEF Step, CreateRow, EndVisit, CreateVolume, CreateReread, SaveRepo, EnvDelete,
            EnvInsert, EnvUnset, DeployRecord, ReadSecret, NewSecret, StartContainer, SaveState,
            DeleteDocker, DeleteEnv, DeleteDeploys, DeleteRow
    <3>2. QED  BY <1>1, <2>1, <3>1
  <2>4. QED  BY <2>2, <2>3
<1>3. envLast' \in [AllKeys -> Vals \cup {Default, None}]
  <2>1. envLast \in [AllKeys -> Vals \cup {Default, None}] /\ OpOK(req[p])
    BY DEF Known
  <2>2. CASE CreateRow(p)
    BY <2>1, <2>2 DEF CreateRow
  <2>3. CASE EnvInsert(p)
    BY <2>1, <2>3 DEF EnvInsert, OpOK, EnvPcs
  <2>4. CASE EnvUnset(p)
    BY <2>1, <2>4 DEF EnvUnset
  <2>5. CASE ~(CreateRow(p) \/ EnvInsert(p) \/ EnvUnset(p))
    <3>1. envLast' = envLast
      BY <2>5 DEF Step, EndVisit, CreateVolume, CreateReread, SaveRepo, SetHash, EnvDelete,
            DeployRecord, ReadSecret, NewSecret, StartContainer, SaveState,
            DeleteDocker, DeleteEnv, DeleteDeploys, DeleteRow
    <3>2. QED  BY <2>1, <3>1
  <2>6. QED  BY <2>2, <2>3, <2>4, <2>5
<1>4. QED  BY <1>2, <1>3 DEF HistoryOK

LEMMA StepEnv ==
    ASSUME Inv, Known, NEW p \in Requests, Step(p)
    PROVE  EnvOK
<1> USE DEF At, tables, docker, history
<1>1. ids' \in Nat /\ ids' >= ids /\ ids \in Nat
  BY StepRows DEF RowsOK, Inv, TypeOK
<1>2. env \subseteq EnvVar /\ \A e \in env : e.id <= ids /\ e.id \in Nat
  BY DEF Known, EnvVar
<1>3. req[p].id \in Nat /\ req[p].id <= ids
  BY ReqFields DEF Known, RequestKnown
<1>5. CASE EnvInsert(p)
  <2> DEFINE new == [id |-> req[p].id, key |-> req[p].key, val |-> req[p].val, by |-> p]
  <2>0. req[p].key \in AllKeys /\ req[p].val \in Vals \cup {Default}
    BY <1>5 DEF EnvInsert, Known, OpOK, EnvPcs
  <2>1. new \in EnvVar /\ new.id <= ids
    BY <1>3, <2>0 DEF EnvVar
  <2>2. env' \subseteq env \cup {new}
    BY <1>5 DEF EnvInsert
  <2> HIDE DEF new
  <2>3. QED  BY <1>1, <1>2, <2>1, <2>2 DEF EnvOK, EnvVar
<1>6. CASE ~EnvInsert(p)
  <2>1. env' \subseteq env
    BY <1>6 DEF Step, CreateRow, EndVisit, CreateVolume, CreateReread, SaveRepo, SetHash,
            EnvDelete, EnvUnset,
            DeployRecord, ReadSecret, NewSecret, StartContainer, SaveState,
            DeleteDocker, DeleteEnv, DeleteDeploys, DeleteRow
  <2>2. QED  BY <1>1, <1>2, <2>1 DEF EnvOK
<1>7. QED  BY <1>5, <1>6

LEMMA InitKnown == Init => Known
<1> SUFFICES ASSUME Init PROVE Known
  OBVIOUS
<1>1. OpOK(NoReq) /\ RequestKnown(NoReq)
  BY DEF Init, OpOK, RequestKnown, RowKnown, NoReq, DeletePcs, EnvPcs
<1>2. \A p \in Requests : req[p] = NoReq
  BY DEF Init
<1>3. minted \in [id : Nat, n : Nat] /\ minted.id <= ids /\ envLast \in [AllKeys -> Vals \cup {Default, None}]
  BY DEF Init
<1>4. QED  BY <1>1, <1>2, <1>3 DEF Init, Known, RowKnown

Arrival(p) ==
    Create(p) \/ SetEnv(p) \/ Delete(p) \/ Visit(p) \/ \E op \in Locked \cup {"edit"} : Operate(p, op)

LEMMA NextKnown == Inv /\ Known /\ [Next]_vars => Known'
<1> SUFFICES ASSUME Inv, Known, [Next]_vars PROVE Known'
  OBVIOUS
<1>1. ASSUME NEW p \in Requests, Step(p) PROVE Known'
  BY <1>1, StepMoves, StepRows, StepHistory, StepEnv, KnownStep
<1>2. ASSUME NEW p \in Requests, MovesOK(p), UNCHANGED <<tables, ids, minted, envLast>>
      PROVE  Known'
  <2>1. RowsOK /\ HistoryOK /\ EnvOK
    BY <1>2 DEF tables, RowsOK, HistoryOK, EnvOK, Known, RowKnown, Inv, TypeOK
  <2>2. QED  BY <1>2, <2>1, KnownStep
<1>3. ASSUME NEW p \in Requests, Arrival(p) PROVE Known'
  <2>1. MovesOK(p)
    BY <1>3, ArrivalMoves DEF Arrival
  <2>2. UNCHANGED <<tables, ids, minted, envLast>>
    BY <1>3 DEF Arrival, Create, SetEnv, Delete, Visit, Operate, history
  <2>3. QED  BY <1>2, <2>1, <2>2
<1>4. ASSUME NEW p \in Requests, Fail(p) PROVE Known'
  BY <1>2, <1>4, DoneMoves DEF Fail
<1>5. CASE UNCHANGED vars
  BY <1>5 DEF vars, tables, docker, history, Known, OpOK, RequestKnown, RowKnown, Inv
<1>6. QED  BY <1>1, <1>3, <1>4, <1>5 DEF Next, Arrival

-----------------------------------------------------------------------------
(* The deploy token *)

\* The row is the one before, is another app's, or has come back by a late save.
SameToken ==
    row' # None => \/ row # None /\ row'.id = row.id /\ row'.hash = row.hash
                   \/ row'.id # minted.id
                   \/ row'.id \in hollow'

LEMMA MintFrame ==
    ASSUME MintInv, NEW p \in Requests, Others(p), minted' = minted,
           raced => raced', hollow \subseteq hollow', SameToken,
           req[p].pc = "hash" /\ req[p].id = minted.id => raced'
    PROVE  MintInv'
<1> SUFFICES ASSUME ~raced', row' # None, row'.id = minted.id, minted.id \notin hollow',
                    \A q \in Requests : ~(req'[q].pc = "hash" /\ req'[q].id = minted.id)
             PROVE  row'.hash = minted.n
  BY DEF MintInv, At, Alive
<1>1. row # None /\ row'.id = row.id /\ row'.hash = row.hash
  BY DEF SameToken
<1>2. \A q \in Requests : ~(req[q].pc = "hash" /\ req[q].id = minted.id)
  BY DEF Others
<1>3. QED  BY <1>1, <1>2 DEF MintInv, At, Alive

LEMMA RowFields ==
    ASSUME NEW w \in Row
    PROVE  /\ \A b : /\ [w EXCEPT !.repo = b].id = w.id
                     /\ [w EXCEPT !.running = b].id = w.id /\ [w EXCEPT !.running = b].hash = w.hash
           /\ \A n : [w EXCEPT !.hash = n].id = w.id /\ [w EXCEPT !.hash = n].hash = n
BY DEF Row

LEMMA StepMint ==
    ASSUME Inv, Known, MintInv, NEW p \in Requests, Step(p)
    PROVE  MintInv'
<1> USE DEF At, tables, docker, history
<1>1. Others(p) /\ ids \in Nat /\ minted.id \in Nat /\ minted.id <= ids
  BY StepMoves DEF MovesOK, Known, Inv, TypeOK
<1>2. row # None => row \in Row
  BY DEF Inv, TypeOK
<1>3. CASE CreateRow(p)
  <2>1. SameToken
    <3>1. row = None => row' = [id |-> ids + 1, repo |-> FALSE, hash |-> 0, running |-> FALSE]
      BY <1>3 DEF CreateRow
    <3>2. row = None => row'.id = ids + 1
      BY <3>1
    <3>3. row # None => row' = row
      BY <1>3 DEF CreateRow
    <3>4. QED  BY <1>1, <3>2, <3>3 DEF SameToken
  <2>2. req[p].pc = "insert" /\ UNCHANGED <<minted, raced, hollow>>
    BY <1>3 DEF CreateRow
  <2>3. QED  BY <1>1, <2>1, <2>2, MintFrame
<1>4. CASE SaveRepo(p)
  <2>1. CASE SaveOk(p)
    <3>1. req[p].row \in Row /\ req[p].row.id = req[p].id
      BY <1>4, ReqFields DEF SaveRepo, Known, OpOK
    <3>2. row' = [req[p].row EXCEPT !.repo = TRUE] /\ minted' = minted /\ Go(p, "hash")
      BY <1>4, <2>1 DEF SaveRepo, Save
    <3>3. row'.id = req[p].id
      BY <3>1, <3>2, RowFields
    <3>4. req'[p].pc = "hash" /\ req'[p].id = req[p].id
      BY <3>2, GoIs
    <3>5. QED  BY <3>2, <3>3, <3>4 DEF MintInv, Alive
  <2>2. CASE ~SaveOk(p)
    <3>1. /\ UNCHANGED <<row, minted, raced, hollow>> /\ req[p].pc = "repo"
      BY <1>4, <2>2 DEF SaveRepo
    <3>2. QED  BY <1>1, <3>1, MintFrame DEF SameToken
  <2>3. QED  BY <2>1, <2>2
<1>5. CASE SetHash(p)
  <2>1. /\ minted' = [id |-> req[p].id, n |-> events]
        /\ row' = IF Alive(req[p].id) THEN [row EXCEPT !.hash = events] ELSE row
    BY <1>5 DEF SetHash
  <2>2. minted'.id = req[p].id /\ minted'.n = events
    BY <2>1
  <2>3. CASE Alive(req[p].id)
    <3>1. row'.hash = events
      BY <1>2, <2>1, <2>3, RowFields DEF Alive
    <3>2. QED  BY <2>2, <3>1 DEF MintInv
  <2>4. CASE ~Alive(req[p].id)
    BY <2>1, <2>2, <2>4 DEF MintInv, Alive
  <2>5. QED  BY <2>3, <2>4
<1>6. CASE SaveState(p)
  <2>1. minted' = minted /\ req[p].pc = "save"
    BY <1>6 DEF SaveState
  <2>2. (raced => raced') /\ hollow \subseteq hollow'
    BY <1>6 DEF SaveState, Save
  <2>3. SameToken \/ raced'
    <3>1. CASE Op(p) = "deploy"
      <4>1. row' = row \/ (row # None /\ row' = [row EXCEPT !.running = TRUE])
        BY <1>6, <3>1 DEF SaveState, Alive
      <4>2. row # None =>
              /\ [row EXCEPT !.running = TRUE].id = row.id
              /\ [row EXCEPT !.running = TRUE].hash = row.hash
        BY <1>2, RowFields
      <4>3. QED  BY ONLY <4>1, <4>2 DEF SameToken
    <3>2. CASE Op(p) # "deploy" /\ SaveOk(p)
      <4>1. req[p].row \in Row
        BY <2>1, ReqFields DEF OperatePcs
      <4>2. PICK b : Save(p, [req[p].row EXCEPT !.running = b])
        BY <1>6, <3>2 DEF SaveState
      <4>3. /\ [req[p].row EXCEPT !.running = b].id = req[p].row.id
            /\ [req[p].row EXCEPT !.running = b].hash = req[p].row.hash
        BY <4>1, RowFields
      <4>4. row'.id = req[p].row.id /\ row'.hash = req[p].row.hash
        BY <4>2, <4>3 DEF Save
      <4>5. row = None => row'.id \in hollow'
        BY <4>2, <4>3, <4>4 DEF Save
      <4>6. row # None => row.id = req[p].row.id
        BY <3>2 DEF SaveOk
      <4>7. raced' = (raced \/ (row # None /\ row.hash # req[p].row.hash))
        BY <1>6, <3>2 DEF SaveState
      <4>8. QED  BY ONLY <4>4, <4>5, <4>6, <4>7 DEF SameToken
    <3>3. CASE Op(p) # "deploy" /\ ~SaveOk(p)
      <4>1. row' = row
        BY <1>6, <3>3 DEF SaveState
      <4>2. QED  BY <4>1 DEF SameToken
    <3>4. QED  BY <3>1, <3>2, <3>3
  <2>4. CASE raced'
    BY <2>4 DEF MintInv
  <2>5. CASE SameToken
    BY <1>1, <2>1, <2>2, <2>5, MintFrame
  <2>6. QED  BY <2>3, <2>4, <2>5
<1>7. CASE DeleteRow(p)
  <2>1. SameToken /\ UNCHANGED <<minted, raced>> /\ hollow \subseteq hollow' /\ req[p].pc = "app"
    BY <1>7 DEF DeleteRow, SameToken
  <2>2. QED  BY <1>1, <2>1, MintFrame
<1>8. CASE ~(CreateRow(p) \/ SaveRepo(p) \/ SetHash(p) \/ SaveState(p) \/ DeleteRow(p))
  <2>1. UNCHANGED <<row, minted, raced, hollow>> /\ req[p].pc # "hash"
    BY <1>8 DEF Step, EndVisit, CreateVolume, CreateReread, EnvDelete, EnvInsert, EnvUnset,
            DeployRecord, ReadSecret, NewSecret, StartContainer, DeleteDocker, DeleteEnv,
            DeleteDeploys
  <2>2. QED  BY <1>1, <2>1, MintFrame DEF SameToken
<1>9. QED  BY <1>3, <1>4, <1>5, <1>6, <1>7, <1>8

LEMMA NextMint == Inv /\ Known /\ MintInv /\ [Next]_vars => MintInv'
<1> SUFFICES ASSUME Inv, Known, MintInv, [Next]_vars PROVE MintInv'
  OBVIOUS
<1> USE DEF At, tables, docker, history
<1>1. ASSUME NEW p \in Requests, Step(p) PROVE MintInv'
  BY <1>1, StepMint
<1>2. ASSUME NEW p \in Requests, Arrival(p) PROVE MintInv'
  <2>1. Others(p)
    BY <1>2, ArrivalMoves DEF Arrival, MovesOK
  <2>2. UNCHANGED <<row, minted, raced, hollow>> /\ req[p].pc # "hash"
    BY <1>2 DEF Arrival, Create, SetEnv, Delete, Visit, Operate
  <2>3. QED  BY <2>1, <2>2, MintFrame DEF SameToken
<1>3. ASSUME NEW p \in Requests, Fail(p) PROVE MintInv'
  <2>1. Others(p)
    BY <1>3, DoneIs DEF Fail
  <2>2. UNCHANGED <<row, minted>> /\ hollow \subseteq hollow' /\ raced' = (raced \/ req[p].pc = "hash")
    BY <1>3 DEF Fail, Scar
  <2>3. QED  BY <2>1, <2>2, MintFrame DEF SameToken
<1>4. CASE UNCHANGED vars
  BY <1>4 DEF vars, MintInv, Alive
<1>5. QED  BY <1>1, <1>2, <1>3, <1>4 DEF Next, Arrival

LEMMA InitMint == Init => MintInv
BY DEF Init, MintInv, Alive

(* With no request in flight, the app accepts the deploy token returned last,  *)
(* unless a whole-row save or a failed request put an older hash back: the     *)
(* repo is saved before the token is minted, never after.                      *)
THEOREM NewestTokenAccepted == Spec => []LastMintWins
<1>1. MintInv => LastMintWins
  BY DEF MintInv, LastMintWins, At
<1>2. QED
  BY <1>1, InitInv, NextInv, InitKnown, NextKnown, InitMint, NextMint, PTL DEF Spec

-----------------------------------------------------------------------------
(* The env vars *)

Deleting == {"rows", "app"}

\* The row of the id was there before, or has come back by a late save.
Kept(id) == Alive(id)' => Alive(id) \/ id \in hollow'

\* A deletion that ends has removed the row or is counted as broken.
Ends(p, id) ==
    req[p].pc \in Deleting /\ req[p].id = id =>
        \/ req'[p].pc \in Deleting /\ req'[p].id = id
        \/ id \in hollow' \/ ~Alive(id)'

LEMMA HollowGrows ==
    ASSUME NEW p \in Requests, Step(p) \/ Arrival(p) \/ Fail(p)
    PROVE  hollow \subseteq hollow' /\ touched \subseteq touched'
<1> USE DEF history, Touch
<1>1. CASE Fail(p)
  BY <1>1 DEF Fail, Scar
<1>2. CASE Arrival(p)
  BY <1>2 DEF Arrival, Create, SetEnv, Delete, Visit, Operate
<1>3. CASE Step(p)
  BY <1>3 DEF Step, CreateRow, EndVisit, CreateVolume, CreateReread, SaveRepo, SetHash,
        EnvDelete, EnvInsert, EnvUnset, DeployRecord, ReadSecret, NewSecret, StartContainer,
        SaveState, DeleteDocker, DeleteEnv, DeleteDeploys, DeleteRow, Save
<1>4. QED  BY <1>1, <1>2, <1>3

LEMMA StepKeeps ==
    ASSUME Inv, NEW p \in Requests, Step(p), ~CreateRow(p), NEW id
    PROVE  Kept(id)
<1> USE DEF At, Kept, Alive
<1>1. row # None => row \in Row
  BY DEF Inv, TypeOK
<1>2. CASE SaveRepo(p) /\ SaveOk(p)
  <2>1. req[p].row \in Row
    BY <1>2, ReqFields DEF SaveRepo
  <2>2. row' = [req[p].row EXCEPT !.repo = TRUE]
        /\ hollow' = IF row = None THEN hollow \cup {row'.id} ELSE hollow
    BY <1>2 DEF SaveRepo, Save
  <2>3. row'.id = req[p].row.id
    BY <2>1, <2>2, RowFields
  <2>4. QED  BY <1>2, <2>2, <2>3 DEF SaveOk
<1>3. CASE SetHash(p)
  <2>1. row' = row \/ (row # None /\ row' = [row EXCEPT !.hash = events])
    BY <1>3 DEF SetHash
  <2>2. row # None => [row EXCEPT !.hash = events].id = row.id
    BY <1>1, RowFields
  <2>3. QED  BY ONLY <2>1, <2>2 DEF Kept, Alive
<1>4. CASE SaveState(p) /\ Op(p) = "deploy"
  <2>1. row' = row \/ (row # None /\ row' = [row EXCEPT !.running = TRUE])
    BY <1>4 DEF SaveState
  <2>2. row # None => [row EXCEPT !.running = TRUE].id = row.id
    BY <1>1, RowFields
  <2>3. QED  BY ONLY <2>1, <2>2 DEF Kept, Alive
<1>5. CASE SaveState(p) /\ Op(p) # "deploy" /\ SaveOk(p)
  <2>1. req[p].row \in Row
    BY <1>5, ReqFields DEF SaveState, OperatePcs
  <2>2. PICK b : Save(p, [req[p].row EXCEPT !.running = b])
    BY <1>5 DEF SaveState
  <2>3. row' = [req[p].row EXCEPT !.running = b]
        /\ hollow' = IF row = None THEN hollow \cup {row'.id} ELSE hollow
    BY <2>2 DEF Save
  <2>4. row'.id = req[p].row.id
    BY <2>1, <2>3, RowFields
  <2>5. QED  BY <1>5, <2>3, <2>4 DEF SaveOk
<1>6. CASE DeleteRow(p)
  BY <1>6 DEF DeleteRow
<1>7. CASE (SaveRepo(p) /\ ~SaveOk(p)) \/ (SaveState(p) /\ Op(p) # "deploy" /\ ~SaveOk(p))
  BY <1>7 DEF SaveRepo, SaveState
<1>8. CASE ~(SaveRepo(p) \/ SetHash(p) \/ SaveState(p) \/ DeleteRow(p))
  <2>1. row' = row
    BY <1>8 DEF Step, EndVisit, CreateVolume, CreateReread, EnvDelete, EnvInsert, EnvUnset,
            DeployRecord, ReadSecret, NewSecret, StartContainer, DeleteDocker, DeleteEnv,
            DeleteDeploys, tables
  <2>2. QED  BY <2>1
<1>9. QED  BY <1>2, <1>3, <1>4, <1>5, <1>6, <1>7, <1>8

LEMMA StepEnds ==
    ASSUME Inv, NEW p \in Requests, Step(p), NEW id
    PROVE  Ends(p, id)
<1> USE DEF At, Ends, Deleting
<1>1. CASE req[p].pc = "rows"
  <2>1. Go(p, "app")
    BY <1>1 DEF Step, CreateRow, EndVisit, CreateVolume, CreateReread, SaveRepo, SetHash,
        EnvDelete, EnvInsert, EnvUnset, DeployRecord, ReadSecret, NewSecret, StartContainer,
        SaveState, DeleteDocker, DeleteEnv, DeleteDeploys, DeleteRow
  <2>2. QED  BY <2>1, GoIs
<1>2. CASE req[p].pc = "app"
  <2>1. DeleteRow(p)
    BY <1>2 DEF Step, CreateRow, EndVisit, CreateVolume, CreateReread, SaveRepo, SetHash,
        EnvDelete, EnvInsert, EnvUnset, DeployRecord, ReadSecret, NewSecret, StartContainer,
        SaveState, DeleteDocker, DeleteEnv, DeleteDeploys
  <2>2. \/ hollow' = hollow \cup {req[p].id}
        \/ row' = IF Alive(req[p].id) THEN None ELSE row
    BY <2>1 DEF DeleteRow
  <2>3. QED  BY <2>2 DEF Alive
<1>3. QED  BY <1>1, <1>2

LEMMA FailEnds ==
    ASSUME Inv, Known, NEW p \in Requests, Fail(p), NEW id
    PROVE  Ends(p, id)
BY DEF Fail, Scar, HalfWay, Ends, Deleting, At

LEMMA EnvFrame ==
    ASSUME EnvInv, NEW p \in Requests, Others(p), NEW id, Kept(id), Ends(p, id),
           doubled \subseteq doubled', hollow \subseteq hollow', envLast' = envLast,
           \A k \in AllKeys : EnvOf(id, k)' = EnvOf(id, k),
           \A k \in AllKeys \ doubled' : Inserts(p, id, k)' <=> Inserts(p, id, k)
    PROVE  Alive(id)' /\ Unbroken(id)' => \A k \in AllKeys \ doubled' : ValueOK(id, k)'
<1> SUFFICES ASSUME Alive(id)', Unbroken(id)', NEW k \in AllKeys \ doubled'
             PROVE  ValueOK(id, k)'
  OBVIOUS
<1>1. Alive(id)
  BY DEF Kept, Unbroken
<1>2. Unbroken(id)
  <2>1. id \notin hollow
    BY DEF Unbroken
  <2>2. \A q \in Requests \ {p} : req[q].id = id => req[q].pc \notin {"rows", "app"}
    BY DEF Unbroken, Others
  <2>3. req[p].id = id => req[p].pc \notin {"rows", "app"}
    BY DEF Unbroken, Ends, Deleting
  <2>4. QED  BY <2>1, <2>2, <2>3 DEF Unbroken
<1>3. ValueOK(id, k)
  BY <1>1, <1>2 DEF EnvInv
<1>4. \A q \in Requests : Inserts(q, id, k)' <=> Inserts(q, id, k)
  BY DEF Inserts, Others, At
<1>5. EnvOf(id, k)' = EnvOf(id, k) /\ envLast'[k] = envLast[k]
  OBVIOUS
<1>6. QED  BY <1>3, <1>4, <1>5 DEF ValueOK

\* A step that writes no env var and is not between the statements of a set.
LEMMA EnvQuiet ==
    ASSUME EnvInv, NEW p \in Requests, Others(p), NEW id, Kept(id), Ends(p, id),
           hollow \subseteq hollow', UNCHANGED <<env, doubled, envLast>>,
           req[p].pc # "envins", req'[p].pc # "envins"
    PROVE  Alive(id)' /\ Unbroken(id)' => \A k \in AllKeys \ doubled' : ValueOK(id, k)'
<1>1. /\ \A k \in AllKeys : EnvOf(id, k)' = EnvOf(id, k)
      /\ \A k \in AllKeys \ doubled' : Inserts(p, id, k)' <=> Inserts(p, id, k)
  BY DEF EnvOf, Inserts, At
<1>2. QED  BY <1>1, EnvFrame

LEMMA CreateRowEnv ==
    ASSUME Inv, Known, EnvInv, NEW p \in Requests, CreateRow(p), NEW id
    PROVE  Alive(id)' /\ Unbroken(id)' => \A k \in AllKeys \ doubled' : ValueOK(id, k)'
<1> USE DEF At, tables, docker
<1>0. Step(p) /\ Others(p)
  BY StepMoves DEF Step, MovesOK
<1>1. CASE row # None
  <2>1. /\ UNCHANGED <<row, env, doubled, envLast, hollow>> /\ req[p].pc = "insert"
        /\ req'[p].pc = "idle"
    BY <1>1, DoneIs DEF CreateRow
  <2>2. Kept(id) /\ Ends(p, id)
    BY <2>1, <1>0, StepEnds DEF Kept, Alive
  <2>3. QED  BY <1>0, <2>1, <2>2, EnvQuiet
<1>2. CASE row = None
  <2> SUFFICES ASSUME Alive(id)', NEW k \in AllKeys PROVE ValueOK(id, k)'
    OBVIOUS
  <2>1. /\ row' = [id |-> ids + 1, repo |-> FALSE, hash |-> 0, running |-> FALSE]
        /\ req' = [req EXCEPT ![p].pc = "envdel", ![p].id = ids + 1,
                              ![p].key = Default, ![p].val = Default]
        /\ envLast' = [j \in AllKeys |-> None] /\ env' = env
    BY <1>2 DEF CreateRow
  <2>2. id = ids + 1
    BY <2>1 DEF Alive
  <2>3. ids \in Nat /\ (\A e \in env : e.id \in Nat /\ e.id <= ids)
        /\ \A q \in Requests : req[q].id \in Nat /\ req[q].id <= ids
    BY ReqFields DEF Known, RequestKnown, Inv, TypeOK, EnvVar
  <2>4. EnvOf(id, k)' = {}
    BY <2>1, <2>2, <2>3 DEF EnvOf
  <2>5. \A q \in Requests : ~Inserts(q, id, k)'
    <3>1. req'[p].pc = "envdel"
      BY <2>1 DEF Inv, TypeOK, Req
    <3>2. QED  BY <1>0, <2>2, <2>3, <3>1 DEF Inserts, Others
  <2>6. QED  BY <2>1, <2>4, <2>5 DEF ValueOK
<1>3. QED  BY <1>1, <1>2

LEMMA EnvDeleteEnv ==
    ASSUME Inv, Known, EnvInv, NEW p \in Requests, EnvDelete(p), NEW id
    PROVE  Alive(id)' /\ Unbroken(id)' => \A k \in AllKeys \ doubled' : ValueOK(id, k)'
<1> USE DEF At
<1> SUFFICES ASSUME Alive(id)', Unbroken(id)', NEW k \in AllKeys \ doubled' PROVE ValueOK(id, k)'
  OBVIOUS
<1>1. /\ env' = env \ EnvOf(req[p].id, req[p].key) /\ req[p].pc = "envdel"
      /\ UNCHANGED <<row, envLast, hollow>>
      /\ doubled' = IF \E q \in Requests : At(q, "envins") /\ req[q].key = req[p].key
                    THEN doubled \cup {req[p].key}
                    ELSE doubled \ (IF Alive(req[p].id) THEN {req[p].key} ELSE {})
  BY DEF EnvDelete
<1>2. Others(p) /\ req'[p].pc = "envins" /\ req'[p].id = req[p].id /\ req'[p].key = req[p].key
  BY GoIs DEF EnvDelete
<1>3. CASE req[p].id = id /\ req[p].key = k
  <2>1. \A q \in Requests : ~(req[q].pc = "envins" /\ req[q].key = k)
    BY <1>1, <1>3
  <2>2. \A q \in Requests : Inserts(q, id, k)' => q = p
    BY <1>2, <2>1 DEF Inserts, Others
  <2>3. Inserts(p, id, k)'
    BY <1>2, <1>3 DEF Inserts
  <2>4. EnvOf(id, k)' = {}
    BY <1>1, <1>3 DEF EnvOf
  <2>5. QED  BY <2>2, <2>3, <2>4 DEF ValueOK
<1>4. CASE ~(req[p].id = id /\ req[p].key = k)
  <2>1. Alive(id) /\ Unbroken(id)
    BY <1>1, <1>2 DEF Alive, Unbroken, Others
  <2>2. k \notin doubled
    BY <1>1, <1>4, <2>1 DEF Alive
  <2>3. ValueOK(id, k)
    BY <2>1, <2>2 DEF EnvInv
  <2>4. EnvOf(id, k)' = EnvOf(id, k)
    BY <1>1, <1>4 DEF EnvOf
  <2>5. \A q \in Requests : Inserts(q, id, k)' <=> Inserts(q, id, k)
    BY <1>1, <1>2, <1>4 DEF Inserts, Others
  <2>6. QED  BY <1>1, <2>3, <2>4, <2>5 DEF ValueOK
<1>5. QED  BY <1>3, <1>4

LEMMA EnvInsertEnv ==
    ASSUME Inv, Known, EnvInv, NEW p \in Requests, EnvInsert(p), NEW id
    PROVE  Alive(id)' /\ Unbroken(id)' => \A k \in AllKeys \ doubled' : ValueOK(id, k)'
<1> USE DEF At
<1> SUFFICES ASSUME Alive(id)', Unbroken(id)', NEW k \in AllKeys \ doubled' PROVE ValueOK(id, k)'
  OBVIOUS
<1>1. UNCHANGED <<row, doubled, hollow>> /\ req[p].pc = "envins"
  BY DEF EnvInsert
<1>2. Others(p) /\ req'[p].pc \in {"idle", "volume"}
  BY GoIs, DoneIs DEF EnvInsert
<1>3. Alive(id) /\ Unbroken(id) /\ ValueOK(id, k)
  BY <1>1, <1>2 DEF Alive, Unbroken, Others, EnvInv
<1>4. req[p].key \in AllKeys /\ req[p].val \in Vals \cup {Default} /\ envLast \in [AllKeys -> Vals \cup {Default, None}]
  BY <1>1 DEF Known, OpOK, EnvPcs
<1> DEFINE new == [id |-> req[p].id, key |-> req[p].key, val |-> req[p].val, by |-> p]
<1>5. new.id = req[p].id /\ new.key = req[p].key /\ new.val = req[p].val
  OBVIOUS
<1>6. Alive(req[p].id) => env' = env \cup {new} /\ envLast' = [envLast EXCEPT ![req[p].key] = req[p].val]
  BY DEF EnvInsert
<1>7. ~Alive(req[p].id) => UNCHANGED <<env, envLast>>
  BY DEF EnvInsert
<1> HIDE DEF new
<1>8. CASE req[p].id = id /\ req[p].key = k
  <2>1. Inserts(p, id, k)
    BY <1>1, <1>8 DEF Inserts
  <2>2. EnvOf(id, k) = {} /\ \A q \in Requests : Inserts(q, id, k) => q = p
    BY <1>3, <2>1 DEF ValueOK
  <2>3. EnvOf(id, k)' = {new}
    BY <1>3, <1>5, <1>6, <1>8, <2>2 DEF EnvOf
  <2>4. envLast'[k] = new.val /\ new.val # None
    BY <1>3, <1>4, <1>5, <1>6, <1>8, RegistryNames
  <2>5. \A q \in Requests : ~Inserts(q, id, k)'
    BY <1>2, <2>2 DEF Inserts, Others
  <2>6. QED  BY <2>3, <2>4, <2>5 DEF ValueOK
<1>9. CASE ~(req[p].id = id /\ req[p].key = k)
  <2>1. EnvOf(id, k)' = EnvOf(id, k)
    BY <1>5, <1>6, <1>7, <1>9 DEF EnvOf
  <2>2. envLast'[k] = envLast[k]
    BY <1>3, <1>4, <1>6, <1>7, <1>9 DEF Alive
  <2>3. \A q \in Requests : Inserts(q, id, k)' <=> Inserts(q, id, k)
    BY <1>2, <1>9 DEF Inserts, Others
  <2>4. QED  BY <1>3, <2>1, <2>2, <2>3 DEF ValueOK
<1>10. QED  BY <1>8, <1>9

LEMMA EnvUnsetEnv ==
    ASSUME Inv, Known, EnvInv, NEW p \in Requests, EnvUnset(p), NEW id
    PROVE  Alive(id)' /\ Unbroken(id)' => \A k \in AllKeys \ doubled' : ValueOK(id, k)'
<1> USE DEF At
<1> SUFFICES ASSUME Alive(id)', Unbroken(id)', NEW k \in AllKeys \ doubled' PROVE ValueOK(id, k)'
  OBVIOUS
<1>1. UNCHANGED <<row, doubled, hollow>> /\ req[p].pc = "unset"
  BY DEF EnvUnset
<1>2. Others(p) /\ req'[p].pc = "idle"
  BY DoneIs DEF EnvUnset
<1>3. Alive(id) /\ Unbroken(id) /\ ValueOK(id, k)
  BY <1>1, <1>2 DEF Alive, Unbroken, Others, EnvInv
<1>4. /\ env' = env \ EnvOf(req[p].id, req[p].key)
      /\ envLast' = IF Alive(req[p].id) THEN [envLast EXCEPT ![req[p].key] = None] ELSE envLast
  BY DEF EnvUnset
<1>5. \A q \in Requests : Inserts(q, id, k)' <=> Inserts(q, id, k)
  BY <1>1, <1>2 DEF Inserts, Others
<1>6. envLast \in [AllKeys -> Vals \cup {Default, None}]
  BY DEF Known
<1>7. CASE req[p].id = id /\ req[p].key = k
  <2>1. EnvOf(id, k)' = {}
    BY <1>4, <1>7 DEF EnvOf
  <2>2. envLast'[k] = None
    BY <1>3, <1>4, <1>6, <1>7
  <2>3. QED  BY <1>3, <1>5, <2>1, <2>2 DEF ValueOK
<1>8. CASE ~(req[p].id = id /\ req[p].key = k)
  <2>1. EnvOf(id, k)' = EnvOf(id, k)
    BY <1>4, <1>8 DEF EnvOf
  <2>2. envLast'[k] = envLast[k]
    BY <1>3, <1>4, <1>6, <1>8 DEF Alive
  <2>3. QED  BY <1>3, <1>5, <2>1, <2>2 DEF ValueOK
<1>9. QED  BY <1>7, <1>8

\* Statements of a deletion: they touch the env vars of their own id only.
LEMMA DeletionEnv ==
    ASSUME Inv, Known, EnvInv, NEW p \in Requests, DeleteEnv(p) \/ DeleteRow(p), NEW id
    PROVE  Alive(id)' /\ Unbroken(id)' => \A k \in AllKeys \ doubled' : ValueOK(id, k)'
<1> USE DEF At, history
<1>1. Step(p) /\ Others(p) /\ ~CreateRow(p)
  BY StepMoves DEF Step, MovesOK, DeleteEnv, DeleteRow, CreateRow
<1>2. Kept(id) /\ Ends(p, id) /\ hollow \subseteq hollow'
  BY <1>1, StepKeeps, StepEnds, HollowGrows
<1>3. /\ UNCHANGED <<doubled, envLast>> /\ req[p].pc # "envins"
      /\ env' \in {env, {e \in env : e.id # req[p].id}}
  BY DEF DeleteEnv, DeleteRow
<1>4. req'[p].pc # "envins"
  BY GoIs, DoneIs DEF DeleteEnv, DeleteRow
<1>5. CASE req[p].id # id
  <2>1. \A k \in AllKeys : EnvOf(id, k)' = EnvOf(id, k)
    BY <1>3, <1>5 DEF EnvOf
  <2>2. \A k \in AllKeys \ doubled' : Inserts(p, id, k)' <=> Inserts(p, id, k)
    BY <1>3, <1>4 DEF Inserts
  <2>3. QED  BY <1>1, <1>2, <1>3, <2>1, <2>2, EnvFrame
<1>6. CASE req[p].id = id
  <2>1. CASE DeleteEnv(p)
    <3>1. req'[p].pc = "rows" /\ req'[p].id = id
      BY <1>6, <2>1, GoIs DEF DeleteEnv
    <3>2. QED  BY <3>1 DEF Unbroken
  <2>2. CASE DeleteRow(p)
    <3>1. \/ hollow' = hollow \cup {id}
          \/ row' = IF Alive(id) THEN None ELSE row
      BY <1>6, <2>2 DEF DeleteRow
    <3>2. QED  BY <3>1 DEF Unbroken, Alive
  <2>3. QED  BY <2>1, <2>2
<1>7. QED  BY <1>5, <1>6

LEMMA StepEnvInv ==
    ASSUME Inv, Known, EnvInv, NEW p \in Requests, Step(p), NEW id
    PROVE  Alive(id)' /\ Unbroken(id)' => \A k \in AllKeys \ doubled' : ValueOK(id, k)'
<1> USE DEF At, tables, docker, history
<1>1. CASE CreateRow(p) \/ EnvDelete(p) \/ EnvInsert(p) \/ EnvUnset(p)
           \/ DeleteEnv(p) \/ DeleteRow(p)
  BY <1>1, CreateRowEnv, EnvDeleteEnv, EnvInsertEnv, EnvUnsetEnv, DeletionEnv
<1>2. CASE ~(CreateRow(p) \/ EnvDelete(p) \/ EnvInsert(p) \/ EnvUnset(p)
             \/ DeleteEnv(p) \/ DeleteRow(p))
  <2>1. /\ UNCHANGED <<env, doubled, envLast>> /\ req[p].pc \notin {"envdel", "envins"}
    BY <1>2 DEF Step, EndVisit, CreateVolume, CreateReread, SaveRepo, SetHash, DeployRecord,
            ReadSecret, NewSecret, StartContainer, SaveState, DeleteDocker, DeleteDeploys
  <2>2. Others(p) /\ req'[p].pc # "envins"
    <3>1. MovesOK(p)
      BY StepMoves
    <3>2. CASE EndVisit(p) \/ CreateVolume(p) \/ SaveRepo(p) \/ SetHash(p) \/ DeployRecord(p)
               \/ NewSecret(p) \/ StartContainer(p) \/ SaveState(p) \/ DeleteDocker(p)
               \/ DeleteDeploys(p)
      BY <3>2, GoIs, DoneIs DEF EndVisit, CreateVolume, SaveRepo, SetHash, DeployRecord, NewSecret,
            StartContainer, SaveState, DeleteDocker, DeleteDeploys
    <3>3. CASE CreateReread(p)
      <4>1. CASE row = None
        BY <3>3, <4>1, DoneIs DEF CreateReread
      <4>2. CASE row # None
        BY <3>1, <3>3, <4>2 DEF CreateReread, MovesOK, Inv, TypeOK, Req
      <4>3. QED  BY <4>1, <4>2
    <3>4. CASE ReadSecret(p)
      BY <3>1, <3>4 DEF ReadSecret, MovesOK, Inv, TypeOK, Req
    <3>5. QED  BY <1>2, <3>2, <3>3, <3>4 DEF Step
  <2>3. Kept(id) /\ Ends(p, id) /\ hollow \subseteq hollow'
    BY <1>2, StepKeeps, StepEnds, HollowGrows
  <2>4. QED  BY <2>1, <2>2, <2>3, EnvQuiet
<1>3. QED  BY <1>1, <1>2

\* What an arriving request and a failing one do to the tables: nothing.
LEMMA ArrivalQuiet ==
    ASSUME Inv, Known, NEW p \in Requests, Arrival(p)
    PROVE  /\ Others(p) /\ UNCHANGED <<row, env, doubled, envLast, hollow, touched>>
           /\ req[p].pc = "idle" /\ req'[p].pc \notin {"envins", "rows", "app"}
<1>1. MovesOK(p)
  BY ArrivalMoves DEF Arrival
<1>2. UNCHANGED <<row, env, doubled, envLast, hollow, touched>> /\ req[p].pc = "idle"
  BY DEF Arrival, Create, SetEnv, Delete, Visit, Operate, tables, history, At
<1>3. CASE Create(p)
  <2>1. CASE row = None
    <3>1. req'[p] = [NoReq EXCEPT !.pc = "insert", !.op = "create"]
      BY <1>3, <2>1 DEF Create, Inv, TypeOK
    <3>2. QED  BY <1>1, <1>2, <3>1 DEF MovesOK, NoReq
  <2>2. CASE row # None
    <3>1. PICK pc \in {"idle", "repo", "hash"} :
             req'[p] = IF pc = "idle" THEN NoReq
                       ELSE [NoReq EXCEPT !.pc = pc, !.op = "rotate", !.row = row, !.id = row.id]
      BY <1>3, <2>2 DEF Create, Inv, TypeOK
    <3>2. req'[p].pc = pc
      BY ONLY <3>1 DEF NoReq
    <3>3. QED  BY <1>1, <1>2, <3>2 DEF MovesOK
  <2>3. QED  BY <2>1, <2>2
<1>4. CASE SetEnv(p)
  <2>1. PICK k \in AllKeys, v \in Vals, pc \in {"envdel", "unset"} :
           req'[p] = [NoReq EXCEPT !.pc = pc, !.op = "env", !.id = row.id, !.key = k, !.val = v]
    BY <1>4 DEF SetEnv, Inv, TypeOK
  <2>2. req'[p].pc = pc
    BY ONLY <2>1 DEF NoReq
  <2>3. QED  BY <1>1, <1>2, <2>2 DEF MovesOK
<1>5. CASE Delete(p)
  <2>1. req'[p] = [NoReq EXCEPT !.pc = "clean", !.op = "delete", !.id = row.id]
    BY <1>5 DEF Delete, Inv, TypeOK
  <2>2. req'[p].pc = "clean"
    BY ONLY <2>1 DEF NoReq
  <2>3. QED  BY <1>1, <1>2, <2>2 DEF MovesOK
<1>6. ASSUME NEW op \in Locked \cup {"edit"}, Operate(p, op)
      PROVE  req'[p].pc \in {"record", "secret", "save"}
  <2> DEFINE pc == CASE op = "deploy" -> "record" [] op = "start" -> "secret"
                     [] op \in {"stop", "edit"} -> "save"
  <2>1. pc \in {"record", "secret", "save"}
    BY DEF Locked
  <2>2. req' = [req EXCEPT ![p] = [NoReq EXCEPT !.op = op, !.row = row, !.id = row.id, !.pc = pc]]
    BY <1>6 DEF Operate
  <2> HIDE DEF pc
  <2>3. req'[p].pc = pc
    BY <2>2 DEF Inv, TypeOK, NoReq
  <2>4. QED  BY <2>1, <2>3
<1>7. CASE Visit(p)
  <2>1. PICK op \in Visits : req'[p] = [NoReq EXCEPT !.pc = "secret", !.op = op]
    BY <1>7 DEF Visit, Visits, Inv, TypeOK
  <2>2. req'[p].pc = "secret"
    BY ONLY <2>1 DEF NoReq
  <2>3. QED  BY <1>1, <1>2, <2>2 DEF MovesOK
<1>8. QED  BY <1>1, <1>2, <1>3, <1>4, <1>5, <1>6, <1>7 DEF Arrival, MovesOK

LEMMA FailQuiet ==
    ASSUME Inv, NEW p \in Requests, Fail(p)
    PROVE  /\ Others(p) /\ UNCHANGED <<row, env, envLast, touched>> /\ hollow \subseteq hollow'
           /\ doubled' = IF At(p, "envins") THEN doubled \cup {req[p].key} ELSE doubled
           /\ req'[p].pc = "idle"
BY DoneIs, HollowGrows DEF Fail, Scar, tables

LEMMA NextEnv == Inv /\ Known /\ EnvInv /\ [Next]_vars => EnvInv'
<1> SUFFICES ASSUME Inv, Known, EnvInv, [Next]_vars, NEW id
             PROVE  Alive(id)' /\ Unbroken(id)' => \A k \in AllKeys \ doubled' : ValueOK(id, k)'
  BY DEF EnvInv
<1>1. ASSUME NEW p \in Requests, Step(p)
      PROVE  Alive(id)' /\ Unbroken(id)' => \A k \in AllKeys \ doubled' : ValueOK(id, k)'
  BY <1>1, StepEnvInv
<1>2. ASSUME NEW p \in Requests, Arrival(p)
      PROVE  Alive(id)' /\ Unbroken(id)' => \A k \in AllKeys \ doubled' : ValueOK(id, k)'
  <2>1. Kept(id) /\ Ends(p, id)
    BY <1>2, ArrivalQuiet DEF Kept, Alive, Ends, Deleting
  <2>2. QED  BY <1>2, <2>1, ArrivalQuiet, EnvQuiet
<1>3. ASSUME NEW p \in Requests, Fail(p)
      PROVE  Alive(id)' /\ Unbroken(id)' => \A k \in AllKeys \ doubled' : ValueOK(id, k)'
  <2>1. Kept(id) /\ Ends(p, id)
    BY <1>3, FailQuiet, FailEnds DEF Kept, Alive
  <2>2. \A k \in AllKeys : EnvOf(id, k)' = EnvOf(id, k)
    BY <1>3, FailQuiet DEF EnvOf
  <2>3. \A k \in AllKeys \ doubled' : Inserts(p, id, k)' <=> Inserts(p, id, k)
    BY <1>3, FailQuiet DEF Inserts, At
  <2>4. QED  BY <1>3, <2>1, <2>2, <2>3, FailQuiet, EnvFrame
<1>4. CASE UNCHANGED vars
  BY <1>4 DEF vars, tables, docker, history, EnvInv, Alive, Unbroken, ValueOK, Inserts, At, EnvOf
<1>5. QED  BY <1>1, <1>2, <1>3, <1>4 DEF Next, Arrival

LEMMA InitEnv == Init => EnvInv
BY DEF Init, EnvInv, Alive

(* Outside a set, a key has the value it was last set to and no other, unless  *)
(* two sets of it ran at once, one died half-way, or a deletion did.           *)
THEOREM SetsAreKept == Spec => []EnvAsLastSet
<1>1. EnvInv => EnvAsLastSet
  <2> SUFFICES ASSUME EnvInv, row # None, Settled(row.id), NEW k \in AllKeys, k \notin doubled,
                      \A p \in Requests : req[p].key = k => ~At(p, "envins")
               PROVE  /\ {e.val : e \in EnvOf(row.id, k)} = {envLast[k]} \ {None}
                      /\ Cardinality(EnvOf(row.id, k)) <= 1
    BY DEF EnvAsLastSet
  <2>1. ValueOK(row.id, k)
    BY DEF EnvInv, Alive, Unbroken, Settled, HalfWay
  <2>2. \A p \in Requests : ~Inserts(p, row.id, k)
    BY DEF Inserts
  <2>3. CASE EnvOf(row.id, k) = {} /\ envLast[k] = None
    BY <2>3, FS_EmptySet
  <2>4. CASE \E e : EnvOf(row.id, k) = {e} /\ e.val = envLast[k] /\ e.val # None
    BY <2>4, FS_Singleton
  <2>5. QED  BY <2>1, <2>2, <2>3, <2>4 DEF ValueOK
<1>2. QED
  BY <1>1, InitInv, NextInv, InitKnown, NextKnown, InitEnv, NextEnv, PTL DEF Spec

-----------------------------------------------------------------------------
(* The default env vars *)

\* The default env vars of an id that no operator has touched are those its
\* creation has set: the inductive form of LiveAppIsWhole.
WholeOK(id) ==
    /\ \A e \in EnvOf(id, Default) : e.val = Default
    /\ \A p \in Requests : Inserts(p, id, Default) => Op(p) = "create"
    /\ Alive(id) /\ Settled(id) => EnvOf(id, Default) # {}

LiveInv == \A id : id \notin touched => WholeOK(id)

\* A step that leaves the default env vars of the id alone.
LEMMA LiveFrame ==
    ASSUME LiveInv, NEW p \in Requests, Others(p), NEW id, id \notin touched, Kept(id), Ends(p, id),
           hollow \subseteq hollow', EnvOf(id, Default)' = EnvOf(id, Default),
           Inserts(p, id, Default)' => Op(p)' = "create",
           HalfWay(p) /\ req[p].id = id => id \in hollow' \/ ~Alive(id)' \/ (HalfWay(p) /\ req[p].id = id)'
    PROVE  WholeOK(id)'
<1>1. WholeOK(id)
  BY DEF LiveInv
<1>2. \A q \in Requests : Inserts(q, id, Default)' => Op(q)' = "create"
  BY <1>1 DEF WholeOK, Others, Inserts, Op, At
<1>3. ASSUME Alive(id)', Settled(id)' PROVE EnvOf(id, Default) # {}
  <2>1. Alive(id)
    BY <1>3 DEF Kept, Settled
  <2>2. \A q \in Requests \ {p} : req[q].id = id => ~HalfWay(q)
    BY <1>3 DEF Settled, Others, HalfWay, Op, At
  <2>3. req[p].id = id => ~HalfWay(p)
    BY <1>3 DEF Settled
  <2>4. Settled(id)
    BY <1>3, <2>2, <2>3 DEF Settled
  <2>5. QED  BY <1>1, <2>1, <2>4 DEF WholeOK
<1>4. QED  BY <1>1, <1>2, <1>3 DEF WholeOK

\* No step of a creation or deletion but its last leaves it.
LEMMA StepHalfWay ==
    ASSUME Inv, NEW p \in Requests, Step(p), HalfWay(p), ~EnvInsert(p), NEW id, req[p].id = id
    PROVE  id \in hollow' \/ ~Alive(id)' \/ (HalfWay(p) /\ req[p].id = id)'
<1> USE DEF At, Op, HalfWay
<1>1. CASE req[p].pc \in {"rows", "app"}
  BY <1>1, StepEnds DEF Ends, Deleting
<1>2. CASE req[p].op = "create" /\ req[p].pc \in {"envdel", "envins"}
  <2>1. EnvDelete(p)
    BY <1>2 DEF Step, CreateRow, EndVisit, CreateVolume, CreateReread, SaveRepo, SetHash,
        EnvInsert, EnvUnset, DeployRecord, ReadSecret, NewSecret, StartContainer,
        SaveState, DeleteDocker, DeleteEnv, DeleteDeploys, DeleteRow
  <2>2. QED  BY <1>2, <2>1, GoIs DEF EnvDelete
<1>3. QED  BY <1>1, <1>2

LEMMA EnvInsertLive ==
    ASSUME Inv, Known, LiveInv, NEW p \in Requests, EnvInsert(p), NEW id, id \notin touched
    PROVE  WholeOK(id)'
<1> USE DEF At
<1>1. WholeOK(id) /\ OpOK(req[p]) /\ req[p].pc = "envins"
  BY DEF LiveInv, Known, EnvInsert
<1>2. Others(p) /\ req'[p].pc \in {"idle", "volume"} /\ Ends(p, id) /\ Kept(id)
      /\ hollow \subseteq hollow' /\ UNCHANGED <<row, hollow>>
  <2>1. Step(p) /\ ~CreateRow(p)
    BY DEF Step, EnvInsert, CreateRow
  <2>2. Others(p) /\ req'[p].pc \in {"idle", "volume"}
    BY GoIs, DoneIs DEF EnvInsert
  <2>3. QED  BY <2>1, <2>2, StepEnds, StepKeeps DEF EnvInsert
<1> DEFINE new == [id |-> req[p].id, key |-> req[p].key, val |-> req[p].val, by |-> p]
<1>3. new.id = req[p].id /\ new.key = req[p].key /\ new.val = req[p].val
  OBVIOUS
<1>4. env' = IF Alive(req[p].id) THEN env \cup {new} ELSE env
  BY DEF EnvInsert
<1> HIDE DEF new
<1>5. CASE req[p].id = id /\ req[p].key = Default
  <2>1. req[p].op = "create" /\ new.val = Default
    BY <1>1, <1>3, <1>5 DEF WholeOK, Inserts, OpOK, EnvPcs, Op
  <2>2. \A e \in EnvOf(id, Default)' : e.val = Default
    BY <1>1, <1>4, <2>1 DEF WholeOK, EnvOf
  <2>3. Alive(id)' => new \in EnvOf(id, Default)'
    BY <1>2, <1>3, <1>4, <1>5 DEF EnvOf, Alive
  <2>4. \A q \in Requests : Inserts(q, id, Default)' => Op(q)' = "create"
    BY <1>1, <1>2 DEF WholeOK, Others, Inserts, Op
  <2>5. QED  BY <2>2, <2>3, <2>4 DEF WholeOK
<1>6. CASE ~(req[p].id = id /\ req[p].key = Default)
  <2>1. EnvOf(id, Default)' = EnvOf(id, Default)
    BY <1>3, <1>4, <1>6 DEF EnvOf
  <2>2. ~(HalfWay(p) /\ req[p].id = id)
    BY <1>1, <1>6 DEF HalfWay, OpOK, EnvPcs, Op
  <2>3. QED  BY <1>2, <2>1, <2>2, LiveFrame DEF Inserts
<1>7. QED  BY <1>5, <1>6

LEMMA EnvDeleteLive ==
    ASSUME Inv, Known, LiveInv, NEW p \in Requests, EnvDelete(p) \/ EnvUnset(p), NEW id,
           id \notin touched'
    PROVE  WholeOK(id)'
<1> USE DEF At
<1>1. Step(p) /\ ~CreateRow(p) /\ ~EnvInsert(p)
  BY DEF Step, EnvDelete, EnvUnset, CreateRow, EnvInsert
<1>2. Others(p) /\ Ends(p, id) /\ Kept(id) /\ hollow \subseteq hollow' /\ id \notin touched
  BY <1>1, StepEnds, StepKeeps, HollowGrows, StepMoves DEF MovesOK
<1>3. WholeOK(id) /\ OpOK(req[p])
  BY <1>2 DEF LiveInv, Known
<1>4. env' = env \ EnvOf(req[p].id, req[p].key) /\ Touch(p)
  BY DEF EnvDelete, EnvUnset
<1>5. CASE req[p].id = id /\ req[p].key = Default
  <2>1. req[p].op # "env"
    BY <1>4, <1>5 DEF Touch, Op
  <2>2. EnvDelete(p) /\ req[p].pc = "envdel" /\ req[p].op = "create"
    BY <1>3, <2>1 DEF OpOK, EnvPcs, EnvDelete, EnvUnset
  <2>3. /\ req'[p].pc = "envins" /\ req'[p].op = "create" /\ req'[p].id = id
    BY <1>5, <2>2, GoIs DEF EnvDelete
  <2>4. ~Settled(id)'
    BY <2>3 DEF Settled, HalfWay, Op
  <2>5. \A q \in Requests : Inserts(q, id, Default)' => Op(q)' = "create"
    BY <1>2, <1>3, <2>3 DEF WholeOK, Others, Inserts, Op
  <2>6. \A e \in EnvOf(id, Default)' : e.val = Default
    BY <1>3, <1>4 DEF WholeOK, EnvOf
  <2>7. QED  BY <2>4, <2>5, <2>6 DEF WholeOK
<1>6. CASE ~(req[p].id = id /\ req[p].key = Default)
  <2>1. EnvOf(id, Default)' = EnvOf(id, Default)
    BY <1>4, <1>6 DEF EnvOf
  <2>2. ~Inserts(p, id, Default)'
    BY <1>6, GoIs, DoneIs DEF EnvDelete, EnvUnset, Inserts
  <2>3. QED  BY <1>1, <1>2, <2>1, <2>2, StepHalfWay, LiveFrame
<1>7. QED  BY <1>5, <1>6

LEMMA StepLive ==
    ASSUME Inv, Known, LiveInv, NEW p \in Requests, Step(p), NEW id, id \notin touched'
    PROVE  WholeOK(id)'
<1> USE DEF At, tables, docker, history
<1>1. Others(p) /\ Ends(p, id) /\ hollow \subseteq hollow' /\ id \notin touched
  BY StepMoves, StepEnds, HollowGrows DEF MovesOK
<1>2. WholeOK(id)
  BY <1>1 DEF LiveInv
<1>3. CASE CreateRow(p) /\ row = None
  <2>1. /\ row' = [id |-> ids + 1, repo |-> FALSE, hash |-> 0, running |-> FALSE]
        /\ req' = [req EXCEPT ![p].pc = "envdel", ![p].id = ids + 1,
                              ![p].key = Default, ![p].val = Default]
        /\ env' = env
    BY <1>3 DEF CreateRow
  <2>2. /\ req'[p].pc = "envdel" /\ req'[p].id = ids + 1 /\ req'[p].op = "create"
    BY <1>3, <2>1 DEF CreateRow, Known, OpOK, Inv, TypeOK, Req
  <2>3. Alive(id)' => ~Settled(id)'
    BY <2>1, <2>2 DEF Alive, Settled, HalfWay, Op
  <2>4. EnvOf(id, Default)' = EnvOf(id, Default)
    BY <2>1 DEF EnvOf
  <2>5. \A q \in Requests : Inserts(q, id, Default)' => Op(q)' = "create"
    BY <1>1, <1>2, <2>2 DEF WholeOK, Others, Inserts, Op
  <2>6. QED  BY <1>2, <2>3, <2>4, <2>5 DEF WholeOK
<1>4. CASE EnvInsert(p) \/ EnvDelete(p) \/ EnvUnset(p)
  BY <1>1, <1>4, EnvInsertLive, EnvDeleteLive
<1>5. CASE DeleteEnv(p) \/ DeleteRow(p)
  <2>1. /\ req'[p].pc # "envins" /\ Kept(id) /\ ~EnvInsert(p)
        /\ env' \in {env, {e \in env : e.id # req[p].id}}
    <3>1. ~CreateRow(p) /\ ~EnvInsert(p)
      BY <1>5 DEF DeleteEnv, DeleteRow, CreateRow, EnvInsert
    <3>2. req'[p].pc # "envins"
      BY <1>5, GoIs, DoneIs DEF DeleteEnv, DeleteRow
    <3>3. env' \in {env, {e \in env : e.id # req[p].id}}
      BY <1>5 DEF DeleteEnv, DeleteRow
    <3>4. QED  BY <3>1, <3>2, <3>3, StepKeeps
  <2>2. CASE req[p].id # id
    <3>1. EnvOf(id, Default)' = EnvOf(id, Default)
      BY <2>1, <2>2 DEF EnvOf
    <3>2. QED  BY <1>1, <2>1, <2>2, <3>1, LiveFrame DEF Inserts
  <2>3. CASE req[p].id = id
    <3>1. \A e \in EnvOf(id, Default)' : e.val = Default
      BY <1>2, <2>1 DEF WholeOK, EnvOf
    <3>2. \A q \in Requests : Inserts(q, id, Default)' => Op(q)' = "create"
      BY <1>1, <1>2, <2>1 DEF WholeOK, Others, Inserts, Op
    <3>3. ~(Alive(id)' /\ Settled(id)')
      <4>1. CASE DeleteEnv(p)
        <5>1. req'[p].pc = "rows" /\ req'[p].id = id
          BY <2>3, <4>1, GoIs DEF DeleteEnv
        <5>2. QED  BY <5>1 DEF Settled, HalfWay
      <4>2. CASE DeleteRow(p)
        <5>1. \/ hollow' = hollow \cup {id}
              \/ row' = IF Alive(id) THEN None ELSE row
          BY <2>3, <4>2 DEF DeleteRow
        <5>2. QED  BY <5>1 DEF Settled, Alive
      <4>3. QED  BY <1>5, <4>1, <4>2
    <3>4. QED  BY <3>1, <3>2, <3>3 DEF WholeOK
  <2>4. QED  BY <2>2, <2>3
<1>6. CASE (CreateRow(p) /\ row # None)
           \/ ~(CreateRow(p) \/ EnvInsert(p) \/ EnvDelete(p) \/ EnvUnset(p) \/ DeleteEnv(p)
                \/ DeleteRow(p))
  <2>1. Kept(id) /\ ~EnvInsert(p)
    <3>1. CASE CreateRow(p) /\ row # None
      BY <3>1 DEF CreateRow, EnvInsert, Kept, Alive
    <3>2. CASE ~CreateRow(p)
      BY <1>6, <3>2, StepKeeps
    <3>3. QED  BY <1>6, <3>1, <3>2
  <2>2. env' = env /\ req[p].pc # "envdel"
    BY <1>6 DEF Step, CreateRow, EndVisit, CreateVolume, CreateReread, SaveRepo, SetHash,
            DeployRecord, ReadSecret, NewSecret, StartContainer, SaveState, DeleteDocker,
            DeleteDeploys
  <2>3. EnvOf(id, Default)' = EnvOf(id, Default)
    BY <2>2 DEF EnvOf
  <2>4. req'[p].pc # "envins"
    <3>1. CASE CreateRow(p) /\ row # None
      BY <3>1, DoneIs DEF CreateRow
    <3>2. CASE EndVisit(p) \/ CreateVolume(p) \/ SaveRepo(p) \/ SetHash(p) \/ DeployRecord(p)
               \/ NewSecret(p) \/ StartContainer(p) \/ SaveState(p) \/ DeleteDocker(p)
               \/ DeleteDeploys(p)
      BY <3>2, GoIs, DoneIs DEF EndVisit, CreateVolume, SaveRepo, SetHash, DeployRecord, NewSecret,
            StartContainer, SaveState, DeleteDocker, DeleteDeploys
    <3>3. CASE CreateReread(p)
      <4>1. CASE row = None
        BY <3>3, <4>1, DoneIs DEF CreateReread
      <4>2. CASE row # None
        BY <3>3, <4>2 DEF CreateReread, Inv, TypeOK, Req
      <4>3. QED  BY <4>1, <4>2
    <3>4. CASE ReadSecret(p)
      BY <3>4 DEF ReadSecret, Inv, TypeOK, Req
    <3>5. QED  BY <1>6, <3>1, <3>2, <3>3, <3>4 DEF Step
  <2>5. QED  BY <1>1, <2>1, <2>3, <2>4, StepHalfWay, LiveFrame DEF Inserts
<1>7. QED  BY <1>3, <1>4, <1>5, <1>6

LEMMA NextLive == Inv /\ Known /\ LiveInv /\ [Next]_vars => LiveInv'
<1> SUFFICES ASSUME Inv, Known, LiveInv, [Next]_vars, NEW id, id \notin touched'
             PROVE  WholeOK(id)'
  BY DEF LiveInv
<1>1. ASSUME NEW p \in Requests, Step(p) PROVE WholeOK(id)'
  BY <1>1, StepLive
<1>2. ASSUME NEW p \in Requests, Arrival(p) PROVE WholeOK(id)'
  <2>1. Kept(id) /\ Ends(p, id) /\ EnvOf(id, Default)' = EnvOf(id, Default)
        /\ ~HalfWay(p) /\ ~Inserts(p, id, Default)'
    BY <1>2, ArrivalQuiet DEF Kept, Alive, Ends, Deleting, EnvOf, HalfWay, Inserts, At
  <2>2. QED  BY <1>2, <2>1, ArrivalQuiet, LiveFrame
<1>3. ASSUME NEW p \in Requests, Fail(p) PROVE WholeOK(id)'
  <2>1. Kept(id) /\ Ends(p, id) /\ EnvOf(id, Default)' = EnvOf(id, Default)
        /\ ~Inserts(p, id, Default)'
    BY <1>3, FailQuiet, FailEnds DEF Kept, Alive, EnvOf, Inserts, At
  <2>2. HalfWay(p) => req[p].id \in hollow'
    BY <1>3 DEF Fail, Scar
  <2>3. QED  BY <1>3, <2>1, <2>2, FailQuiet, LiveFrame
<1>4. CASE UNCHANGED vars
  BY <1>4 DEF vars, tables, docker, history, LiveInv, WholeOK, Alive, Settled, EnvOf, HalfWay,
              Inserts, At, Op
<1>5. QED  BY <1>1, <1>2, <1>3, <1>4 DEF Next, Arrival

(* From the end of its creation to the start of its deletion an app whose      *)
(* default env vars no operator has set or unset has them all, with their      *)
(* default values, unless one of the two failed half-way or a late save        *)
(* brought the row back.                                                       *)
THEOREM AppsAreWhole == Spec => []LiveAppIsWhole
<1>1. Init => LiveInv
  BY NoReqType DEF Init, LiveInv, WholeOK, Alive, EnvOf, Inserts, At
<1>2. LiveInv => LiveAppIsWhole
  <2> SUFFICES ASSUME LiveInv, row # None, Settled(row.id), row.id \notin touched
               PROVE  {e.val : e \in EnvOf(row.id, Default)} = {Default}
    BY DEF LiveAppIsWhole
  <2>1. WholeOK(row.id) /\ Alive(row.id)
    BY DEF LiveInv, Alive
  <2>2. QED  BY <2>1 DEF WholeOK
<1>3. QED
  BY <1>1, <1>2, InitInv, NextInv, InitKnown, NextKnown, NextLive, PTL DEF Spec

===============================================================================
