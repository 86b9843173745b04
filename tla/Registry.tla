------------------------------- MODULE Registry -------------------------------
(***************************************************************************)
(* The records of one app name: create_app with its token rotation, the    *)
(* env vars, the deploy records, delete's clean-up, and the storage tokens *)
(* of the containers, under concurrent requests, failing calls and         *)
(* crashes.  An app created again under its name is another id.            *)
(*                                                                         *)
(* Every statement is a transaction of its own; requests interleave        *)
(* between them.  Starts, stops and deploys take the app's lock; creates,  *)
(* deletes, edits, storage requests and the starts of other apps do not.   *)
(***************************************************************************)
EXTENDS Naturals, FiniteSets

CONSTANTS
    Keys,       \* env var keys only operators set
    Default,    \* the keys init_default_env_vars sets, as one, and their value
    Vals,       \* their values
    Requests,   \* request slots
    MaxEvents,  \* bound on requests and faults
    None

ASSUME RegistryBounds == MaxEvents \in Nat
ASSUME RegistryNames == None \notin Vals \cup Requests \cup {Default}
ASSUME RegistryAbsence ==
    None \notin [id : Nat, repo : BOOLEAN, hash : Nat, running : BOOLEAN]

VARIABLES
    row,     \* the app row of the name
    env,     \* the env_var table
    deploys, \* the deploy table: app id and request
    vols,    \* ids whose volume exists
    held,    \* ids whose volume a container left behind still mounts
    secret,  \* app_storage_secret: the request that generated it
    tokens,  \* storage tokens in containers: app id and secret
    req,     \* the requests
    ids,     \* ids given so far
    minted,  \* history: the app and number of the last deploy token returned
    envLast, \* history: what each key was last set to, on the row's app
    raced,   \* history: a whole-row save or a failed request put an old hash back
    doubled, \* history: keys that two sets wrote at once, or one lost half-way
    hollow,  \* history: ids a failed create or delete, or a late save, left incomplete
    touched, \* history: ids whose default env vars an operator has set or unset
    events

tables == <<row, env, deploys, secret>>
docker == <<vols, held, tokens>>
history == <<minted, envLast, raced, doubled, hollow, touched>>
vars == <<tables, docker, req, ids, history, events>>

Locked == {"start", "stop", "deploy"}
NoReq == [pc |-> "idle", op |-> None, row |-> None, id |-> 0, key |-> None, val |-> None,
          sec |-> None]
AllKeys == Keys \cup {Default}

Init ==
    /\ row = None /\ env = {} /\ deploys = {} /\ vols = {} /\ held = {}
    /\ secret = None /\ tokens = {}
    /\ req = [p \in Requests |-> NoReq] /\ ids = 0
    /\ minted = [id |-> 0, n |-> 0] /\ envLast = [k \in AllKeys |-> None]
    /\ raced = FALSE /\ doubled = {} /\ hollow = {} /\ touched = {} /\ events = 0

-----------------------------------------------------------------------------

At(p, pc) == req[p].pc = pc
Op(p) == req[p].op
Go(p, pc) == req' = [req EXCEPT ![p].pc = pc]
Done(p) == req' = [req EXCEPT ![p] = NoReq]
Event == events < MaxEvents /\ events' = events + 1
Alive(id) == row # None /\ row.id = id
EnvOf(id, key) == {e \in env : e.id = id /\ e.key = key}

\* A creation before its default env vars are there, a deletion after they have gone.
HalfWay(p) == \/ Op(p) = "create" /\ req[p].pc \in {"envdel", "envins"}
              \/ req[p].pc \in {"rows", "app"}

\* What giving up in the middle leaves behind.
Scar(p) ==
    /\ hollow' = IF HalfWay(p) THEN hollow \cup {req[p].id} ELSE hollow
    /\ doubled' = IF At(p, "envins") THEN doubled \cup {req[p].key} ELSE doubled
    /\ raced' = (raced \/ At(p, "hash"))

\* A call fails, or the client goes away.
Fail(p) ==
    /\ ~At(p, "idle") /\ Event
    /\ Done(p) /\ Scar(p)
    /\ UNCHANGED <<tables, docker, ids, minted, envLast, touched>>

-----------------------------------------------------------------------------
(* create_app *)

\* get_by_name: a new name is created; an existing one is refused with 409,
\* or its token is rotated.  The repo is saved when one is given.
Create(p) ==
    /\ At(p, "idle") /\ Event
    /\ IF row = None
       THEN req' = [req EXCEPT ![p] = [NoReq EXCEPT !.pc = "insert", !.op = "create"]]
       ELSE \E pc \in {"idle", "repo", "hash"} :
                req' = [req EXCEPT ![p] = IF pc = "idle" THEN NoReq
                                          ELSE [NoReq EXCEPT !.pc = pc, !.op = "rotate",
                                                             !.row = row, !.id = row.id]]
    /\ UNCHANGED <<tables, docker, ids, history>>

\* create::execute looks again and saves a new row; a name taken in between is
\* an error either way.  init_default_env_vars then saves the defaults as a set
\* would: EnvDelete and EnvInsert.
CreateRow(p) ==
    /\ At(p, "insert")
    /\ IF row = None
       THEN /\ ids' = ids + 1
            /\ row' = [id |-> ids + 1, repo |-> FALSE, hash |-> 0, running |-> FALSE]
            /\ req' = [req EXCEPT ![p].pc = "envdel", ![p].id = ids + 1,
                                  ![p].key = Default, ![p].val = Default]
            /\ envLast' = [k \in AllKeys |-> None] /\ doubled' = {}
       ELSE Done(p) /\ UNCHANGED <<row, ids, envLast, doubled>>
    /\ UNCHANGED <<env, deploys, secret, docker, minted, raced, hollow, touched, events>>

\* create_app_volume: a volume that exists is kept.
MakeVolume(id) == vols' = vols \cup {id}

\* init_app_database_in_volume: on its time limit the
\* container that initialises the database stays behind.
CreateVolume(p) ==
    /\ At(p, "volume")
    /\ MakeVolume(req[p].id)
    /\ \/ Go(p, "reread") /\ UNCHANGED <<held, events>>
       \/ Event /\ Done(p) /\ held' = held \cup {req[p].id}
    /\ UNCHANGED <<tables, tokens, ids, history>>

\* get_by_name once more, to save the repo.
CreateReread(p) ==
    /\ At(p, "reread")
    /\ IF row = None THEN Done(p)
       ELSE \E pc \in {"repo", "hash"} :
               req' = [req EXCEPT ![p].pc = pc, ![p].row = row, ![p].id = row.id]
    /\ UNCHANGED <<tables, docker, ids, history, events>>

\* db::app::save of the row read before: it puts back a row that is gone and
\* fails on a name that is another id's.
SaveOk(p) == row # None => row.id = req[p].row.id
Save(p, new) ==
    /\ row' = new
    /\ hollow' = IF row = None THEN hollow \cup {new.id} ELSE hollow

SaveRepo(p) ==
    /\ At(p, "repo")
    /\ IF SaveOk(p) THEN Save(p, [req[p].row EXCEPT !.repo = TRUE]) /\ Go(p, "hash")
                    ELSE Done(p) /\ UNCHANGED <<row, hollow>>
    /\ UNCHANGED <<env, deploys, secret, docker, ids, minted, envLast, raced, doubled, touched, events>>

\* Mutated form of SetHash: the repo is saved after the hash is set.
SetHashThenSave(p) ==
    /\ At(p, "hash")
    /\ row' = IF Alive(req[p].id) THEN [req[p].row EXCEPT !.repo = TRUE] ELSE row
    /\ minted' = [id |-> req[p].id, n |-> events] /\ raced' = FALSE
    /\ Done(p)
    /\ UNCHANGED <<env, deploys, secret, docker, ids, envLast, doubled, hollow, touched, events>>

\* set_deploy_token_hash by id, and the response with the token.
SetHash(p) ==
    /\ At(p, "hash")
    /\ row' = IF Alive(req[p].id) THEN [row EXCEPT !.hash = events] ELSE row
    /\ minted' = [id |-> req[p].id, n |-> events] /\ raced' = FALSE
    /\ Done(p)
    /\ UNCHANGED <<env, deploys, secret, docker, ids, envLast, doubled, hollow, touched, events>>

-----------------------------------------------------------------------------
(* set_env, for any key *)

SetEnv(p) ==
    /\ At(p, "idle") /\ Event /\ row # None
    /\ \E k \in AllKeys, v \in Vals, pc \in {"envdel", "unset"} :
        req' = [req EXCEPT ![p] = [NoReq EXCEPT !.pc = pc, !.op = "env", !.id = row.id,
                                                !.key = k, !.val = v]]
    /\ UNCHANGED <<tables, docker, ids, history>>

\* An operator's request writes the default env vars.
Touch(p) == touched' = IF Op(p) = "env" /\ req[p].key = Default
                       THEN touched \cup {req[p].id} ELSE touched

\* Mutated form of EnvDelete: a key is not looked for before it is inserted.
EnvDeleteNot(p) ==
    /\ At(p, "envdel") /\ Go(p, "envins")
    /\ UNCHANGED <<tables, docker, ids, history, events>>

\* env_var::save: the old rows of the key are deleted ...
EnvDelete(p) ==
    /\ At(p, "envdel") /\ Go(p, "envins")
    /\ env' = env \ EnvOf(req[p].id, req[p].key)
    /\ doubled' = IF \E q \in Requests : At(q, "envins") /\ req[q].key = req[p].key
                  THEN doubled \cup {req[p].key}
                  ELSE doubled \ (IF Alive(req[p].id) THEN {req[p].key} ELSE {})
    /\ Touch(p)
    /\ UNCHANGED <<row, deploys, secret, docker, ids, minted, envLast, raced, hollow, events>>

\* ... and the new one is inserted by a second statement, which the foreign key
\* refuses for an app that is gone.
EnvInsert(p) ==
    /\ At(p, "envins")
    /\ IF Op(p) = "create" /\ Alive(req[p].id) THEN Go(p, "volume") ELSE Done(p)
    /\ LET new == [id |-> req[p].id, key |-> req[p].key, val |-> req[p].val, by |-> p]
       IN IF Alive(req[p].id)
          THEN env' = env \cup {new} /\ envLast' = [envLast EXCEPT ![req[p].key] = req[p].val]
          ELSE UNCHANGED <<env, envLast>>
    /\ UNCHANGED <<row, deploys, secret, docker, ids, minted, raced, doubled, hollow, touched, events>>

\* Mutated form of EnvUnset: the key is missing from the WHERE.
EnvUnsetAll(p) ==
    /\ At(p, "unset") /\ Done(p)
    /\ env' = {e \in env : e.id # req[p].id}
    /\ envLast' = IF Alive(req[p].id) THEN [envLast EXCEPT ![req[p].key] = None] ELSE envLast
    /\ Touch(p)
    /\ UNCHANGED <<row, deploys, secret, docker, ids, minted, raced, doubled, hollow, events>>

\* delete_by_key.
EnvUnset(p) ==
    /\ At(p, "unset") /\ Done(p)
    /\ env' = env \ EnvOf(req[p].id, req[p].key)
    /\ envLast' = IF Alive(req[p].id) THEN [envLast EXCEPT ![req[p].key] = None] ELSE envLast
    /\ Touch(p)
    /\ UNCHANGED <<row, deploys, secret, docker, ids, minted, raced, doubled, hollow, events>>

-----------------------------------------------------------------------------
(* Starts, stops, deploys and edits, as far as they touch these records *)

Operate(p, op) ==
    /\ At(p, "idle") /\ Event /\ row # None
    /\ op \in Locked => \A q \in Requests : Op(q) \notin Locked
    /\ op = "start" => ~row.running
    /\ req' = [req EXCEPT ![p] = [NoReq EXCEPT !.op = op, !.row = row, !.id = row.id,
            !.pc = CASE op = "deploy" -> "record" [] op = "start" -> "secret"
                     [] op \in {"stop", "edit"} -> "save"]]
    /\ UNCHANGED <<tables, docker, ids, history>>

\* deploy::insert: the record refers to the app's row.
DeployRecord(p) ==
    /\ At(p, "record")
    /\ IF Alive(req[p].id) THEN Go(p, "secret") /\ deploys' = deploys \cup {<<req[p].id, p>>}
                           ELSE Done(p) /\ UNCHANGED deploys
    /\ UNCHANGED <<row, env, secret, docker, ids, history, events>>

\* What else reads the storage secret, under no lock of this app: a storage
\* request authenticates, and another app starts; as app 0.
Visit(p) ==
    /\ At(p, "idle") /\ Event
    /\ \E op \in {"storage", "other"} :
        req' = [req EXCEPT ![p] = [NoReq EXCEPT !.pc = "secret", !.op = op]]
    /\ UNCHANGED <<tables, docker, ids, history>>

\* get_or_create_secret: read it, ...
ReadSecret(p) ==
    /\ At(p, "secret")
    /\ req' = [req EXCEPT ![p].pc = IF secret = None THEN "newsecret" ELSE "token",
                          ![p].sec = secret]
    /\ UNCHANGED <<tables, docker, ids, history, events>>

\* Mutated form of NewSecret: the caller keeps the secret it generated.
NewSecretOwn(p) ==
    /\ At(p, "newsecret")
    /\ secret' = IF secret = None THEN p ELSE secret
    /\ req' = [req EXCEPT ![p].pc = "token", ![p].sec = p]
    /\ UNCHANGED <<row, env, deploys, docker, ids, history, events>>

\* ... insert one unless another caller has, and read again.
NewSecret(p) ==
    /\ At(p, "newsecret") /\ Go(p, "secret")
    /\ secret' = IF secret = None THEN p ELSE secret
    /\ UNCHANGED <<row, env, deploys, docker, ids, history, events>>

\* verify_token: a token is a MAC of its app's id under a secret.
Verifies(sec, token) == token[2] = sec

\* The storage request answers; the other app's container gets its token.
EndVisit(p) ==
    /\ At(p, "token") /\ Op(p) \in {"storage", "other"} /\ Done(p)
    /\ tokens' = IF Op(p) = "other" THEN tokens \cup {<<0, req[p].sec>>} ELSE tokens
    /\ UNCHANGED <<tables, vols, held, ids, history, events>>

\* The rest of start_container: the volume is created if it is gone, and the
\* container gets its token.
StartContainer(p) ==
    /\ At(p, "token") /\ Op(p) \in Locked
    /\ tokens' = tokens \cup {<<req[p].id, req[p].sec>>}
    /\ MakeVolume(req[p].id) /\ held' = held \cup {req[p].id}
    /\ Go(p, "save")
    /\ UNCHANGED <<tables, ids, history, events>>

\* start, stop, domains and health checks save the whole row they have read;
\* set_deployed updates by id.
SaveState(p) ==
    /\ At(p, "save") /\ Done(p)
    /\ IF Op(p) = "deploy"
       THEN /\ row' = IF Alive(req[p].id) THEN [row EXCEPT !.running = TRUE] ELSE row
            /\ UNCHANGED <<raced, hollow>>
       ELSE IF SaveOk(p)
       THEN /\ Save(p, [req[p].row EXCEPT !.running = IF Op(p) = "edit" THEN @ ELSE Op(p) = "start"])
            /\ raced' = (raced \/ (row # None /\ row.hash # req[p].row.hash))
       ELSE UNCHANGED <<row, raced, hollow>>
    /\ UNCHANGED <<env, deploys, secret, docker, ids, minted, envLast, doubled, touched, events>>

-----------------------------------------------------------------------------
(* delete::execute *)

\* The request is refused while the row says the app runs.
Delete(p) ==
    /\ At(p, "idle") /\ Event /\ row # None /\ ~row.running
    /\ req' = [req EXCEPT ![p] = [NoReq EXCEPT !.pc = "clean", !.op = "delete", !.id = row.id]]
    /\ UNCHANGED <<tables, docker, ids, history>>

\* Container, image and volume: failures are only warned about, and a volume
\* that a container still mounts cannot be removed.
DeleteDocker(p) ==
    /\ At(p, "clean") /\ Go(p, "env")
    /\ vols' \in {vols, IF req[p].id \in held THEN vols ELSE vols \ {req[p].id}}
    /\ UNCHANGED <<tables, held, tokens, ids, history, events>>

DeleteEnv(p) ==
    /\ At(p, "env") /\ Go(p, "rows")
    /\ env' = {e \in env : e.id # req[p].id}
    /\ UNCHANGED <<row, deploys, secret, docker, ids, history, events>>

DeleteDeploys(p) ==
    /\ At(p, "rows") /\ Go(p, "app")
    /\ deploys' = {d \in deploys : d[1] # req[p].id}
    /\ UNCHANGED <<row, env, secret, docker, ids, history, events>>

\* delete_by_app_id: refused when a deploy was recorded meanwhile, which leaves
\* an app without env vars; the env vars set meanwhile go with the row.
DeleteRow(p) ==
    /\ At(p, "app") /\ Done(p)
    /\ IF \E d \in deploys : d[1] = req[p].id
       THEN UNCHANGED <<row, env>> /\ hollow' = hollow \cup {req[p].id}
       ELSE /\ row' = IF Alive(req[p].id) THEN None ELSE row
            /\ env' = {e \in env : e.id # req[p].id}
            /\ UNCHANGED hollow
    /\ UNCHANGED <<deploys, secret, docker, ids, minted, envLast, raced, doubled, touched, events>>

-----------------------------------------------------------------------------

Step(p) ==
    \/ CreateRow(p) \/ CreateVolume(p) \/ CreateReread(p)
    \/ SaveRepo(p) \/ SetHash(p) \/ EnvDelete(p) \/ EnvInsert(p) \/ EnvUnset(p)
    \/ DeployRecord(p) \/ ReadSecret(p) \/ NewSecret(p) \/ EndVisit(p)
    \/ StartContainer(p) \/ SaveState(p)
    \/ DeleteDocker(p) \/ DeleteEnv(p) \/ DeleteDeploys(p) \/ DeleteRow(p)

Next ==
    \E p \in Requests :
        \/ Create(p) \/ SetEnv(p) \/ Delete(p) \/ Visit(p) \/ Step(p) \/ Fail(p)
        \/ \E op \in Locked \cup {"edit"} : Operate(p, op)

Spec == Init /\ [][Next]_vars

-----------------------------------------------------------------------------
(* Properties *)

\* When no request is in flight the app accepts the deploy token that was
\* returned last, unless an edit, a start or a stop saved a row read before, or
\* the request that was to set the next one failed (api.rs: persist the repo
\* BEFORE minting the token hash).
LastMintWins ==
    (\A p \in Requests : At(p, "idle")) /\ ~raced /\ Alive(minted.id) /\ minted.id \notin hollow
        => row.hash = minted.n

\* No creation or deletion of the app is under way, and none failed half-way.
Settled(id) ==
    /\ id \notin hollow
    /\ \A p \in Requests : req[p].id = id => ~HalfWay(p)

\* A key, a default one too, has the value it was last set to, and only that
\* one, unless two requests set it at once, one died between its two
\* statements, or a creation or deletion did half of its work.
EnvAsLastSet ==
    row # None /\ Settled(row.id) => \A k \in AllKeys :
        k \notin doubled /\ (\A p \in Requests : req[p].key = k => ~At(p, "envins")) =>
            {e.val : e \in EnvOf(row.id, k)} = {envLast[k]} \ {None}
            /\ Cardinality(EnvOf(row.id, k)) <= 1

\* An app has its default env vars, with their default values, from the end of
\* its creation to the start of its deletion, unless one of the two failed
\* half-way, a late save brought the row back, or an operator has set or unset
\* them: no other request takes them away, or leaves an app without them.
LiveAppIsWhole ==
    row # None /\ Settled(row.id) /\ row.id \notin touched =>
        {e.val : e \in EnvOf(row.id, Default)} = {Default}

\* Whoever wins the race of first requests, every storage token a container
\* holds verifies with the stored secret, and with the one that any storage
\* request or start under way has got (get_or_create_secret: safe to race).
MintedTokensVerify ==
    \A t \in tokens :
        /\ Verifies(secret, t)
        /\ \A p \in Requests : At(p, "token") => Verifies(req[p].sec, t)
=============================================================================
