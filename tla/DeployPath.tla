------------------------------ MODULE DeployPath ------------------------------
(***************************************************************************)
(* The way of a commit to one app and of the answer back: `lh create`      *)
(* links the app to its GitHub repo (provision.rs, with the device flow),  *)
(* each push starts a workflow run, which builds the image and calls the   *)
(* deploy hook with the app's token, and `lh deploys --wait` follows it.   *)
(*                                                                         *)
(* GitHub is outside of the repository: its runs are modelled from the     *)
(* workflow that workflow.rs renders and from what the code reads of them. *)
(* The deploy itself is in AppLifecycle, the server's records in Registry. *)
(***************************************************************************)
EXTENDS Naturals, Sequences, SequencesExt, FiniteSets

CONSTANTS
    Clients,    \* users of `lh create` and `lh deploys --wait`
    Shas,       \* the sha of each commit of the main branch, as digits
    Wants,      \* what a caller passes as --sha, resolved
    ShortSha,   \* digits from which a deploy's own abbreviated sha counts: 7
    Limits,     \* values of --limit
    Tokens,     \* the GitHub tokens a user may have at first
    Timeout,    \* polls of `--wait`: 600 s of 3 s
    CheckEvery, \* polls between two looks at the Actions run: 15 s of 3 s
    Expires,    \* polls of the device flow
    MaxEvents,  \* bound on commands, pushes, reruns and faults
    None

ASSUME PathBounds ==
    /\ {Timeout, CheckEvery, Expires, ShortSha} \subseteq Nat \ {0} /\ MaxEvents \in Nat
    /\ Limits \subseteq Nat \ {0}
ASSUME PathNames ==
    /\ None \notin Wants /\ None \notin Nat /\ \A i \in DOMAIN Shas : Shas[i] # None
    /\ Tokens \subseteq [{"env", "stored"} -> {"none", "repo", "workflow"}]
\* Every sha has the same number of digits: 40 in git.
ASSUME PathShas ==
    /\ Shas \in Seq(Seq(Nat)) /\ Wants \subseteq Seq(Nat)
    /\ \A i, j \in DOMAIN Shas : Len(Shas[i]) = Len(Shas[j])

VARIABLES
    hash,    \* number of the deploy token the server accepts, 0: no app
    secret,  \* the token in LITEHOUSE_DEPLOY_TOKEN, 0: not set
    file,    \* the committed workflow: version (0: none), for the right platform
    tokens,  \* where a GitHub token can be found, and whether it has workflow scope
    head,    \* commits on the main branch
    runs,    \* workflow runs, and deploys by hand
    deploys, \* the app's deploy records, oldest first
    lock,    \* the run whose deploy holds the app lock, 0: none
    client,
    torn,    \* history: linkings have overlapped, or the last one broke off
    events

github == <<secret, file, head>>
server == <<hash, deploys, lock>>
vars == <<github, server, tokens, runs, client, torn, events>>

\* elapsed, last and bad count polls; bad is a history field: for how long the
\* newest run has been a failed one, while no deploy of the commit was listed.
Idle == [pc |-> "idle", rotate |-> FALSE, ask |-> FALSE, tok |-> 0, right |-> TRUE,
         scope |-> FALSE, base |-> 0, sha |-> None, limit |-> 0, watch |-> FALSE,
         elapsed |-> 0, last |-> None, cur |-> 0, bad |-> 0, out |-> "none"]

Init ==
    /\ hash = 0 /\ secret = 0 /\ file = [ver |-> 0, right |-> TRUE]
    /\ tokens \in Tokens
    /\ head = 0 /\ runs = <<>> /\ deploys = <<>> /\ lock = 0
    /\ client = [c \in Clients |-> Idle] /\ torn = FALSE /\ events = 0

Event == events < MaxEvents /\ events' = events + 1
Ok == UNCHANGED events
At(c, pc) == client[c].pc = pc
Set(c, new) == client' = [client EXCEPT ![c] = new]
Go(c, pc) == Set(c, [client[c] EXCEPT !.pc = pc])
End(c, out) == Set(c, [Idle EXCEPT !.pc = "done", !.out = out, !.sha = client[c].sha])

-----------------------------------------------------------------------------
(* provision_app *)

\* The server has the new token and the repo's secret is still the old one.
Linking == {c \in Clients : client[c].pc \in {"platform", "token", "device", "secret"}}

Provision(c) ==
    /\ At(c, "idle") /\ Event
    /\ \E rotate, ask \in BOOLEAN :
        Set(c, [Idle EXCEPT !.pc = "create", !.rotate = rotate, !.ask = ask])
    /\ UNCHANGED <<github, server, tokens, runs, torn>>

\* create_app, which Registry has in full: an app that exists is an error
\* unless its token is to be rotated.
CreateApp(c) ==
    /\ At(c, "create") /\ Ok
    /\ IF hash # 0 /\ ~client[c].rotate
       THEN End(c, "exists") /\ UNCHANGED <<hash, torn, runs>>
       ELSE /\ hash' = events
            /\ Set(c, [client[c] EXCEPT !.pc = "platform", !.tok = events])
            /\ torn' = (Linking # {})
            /\ runs' = [r \in DOMAIN runs |-> [runs[r] EXCEPT !.shaken = TRUE]]
    /\ UNCHANGED <<github, deploys, lock, tokens>>

\* An error of get_server_platform counts as the default platform.
Platform(c) ==
    /\ At(c, "platform")
    /\ \/ Go(c, "token") /\ Ok
       \/ Set(c, [client[c] EXCEPT !.pc = "token", !.right = FALSE]) /\ Event
    /\ UNCHANGED <<github, server, tokens, runs, torn>>

\* resolve_github_token: the environment or gh, the stored one, the device flow.
Token(c) ==
    /\ At(c, "token") /\ Ok
    /\ LET found == SelectSeq(<<"env", "stored">>, LAMBDA s : tokens[s] # "none")
       IN CASE found # <<>> ->
                 /\ Set(c, [client[c] EXCEPT !.pc = "secret",
                                             !.scope = tokens[Head(found)] = "workflow"])
                 /\ UNCHANGED torn
            [] found = <<>> /\ client[c].ask ->
                 Set(c, [client[c] EXCEPT !.pc = "device"]) /\ UNCHANGED torn
            [] found = <<>> /\ ~client[c].ask -> End(c, "failed") /\ torn' = TRUE
    /\ UNCHANGED <<github, server, tokens, runs>>

\* poll_for_token: pending, slow down (an extra sleep), authorised, or denied;
\* the token of the device flow is stored and has no workflow scope.
Device(c) ==
    /\ At(c, "device") /\ Ok
    /\ IF client[c].elapsed > Expires
       THEN End(c, "failed") /\ torn' = TRUE /\ UNCHANGED tokens
       ELSE \/ /\ \E dt \in 1..2 : Set(c, [client[c] EXCEPT !.elapsed = @ + dt])
               /\ UNCHANGED <<tokens, torn>>
            \/ /\ Set(c, [client[c] EXCEPT !.pc = "secret", !.scope = FALSE])
               /\ tokens' = [tokens EXCEPT !["stored"] = "repo"] /\ UNCHANGED torn
            \/ End(c, "failed") /\ torn' = TRUE /\ UNCHANGED tokens
    /\ UNCHANGED <<github, server, runs>>

\* Mutated form of PutSecret: its error is not looked at.
PutSecretLoose(c) ==
    /\ At(c, "secret") /\ Ok
    /\ secret' \in {secret, client[c].tok} /\ Go(c, "read")
    /\ UNCHANGED <<file, head, server, tokens, runs, torn>>

\* put_actions_secret.
PutSecret(c) ==
    /\ At(c, "secret") /\ Ok
    /\ secret' = client[c].tok /\ Go(c, "read")
    /\ UNCHANGED <<file, head, server, tokens, runs, torn>>

\* put_file: the sha of the file there is, ...
ReadFile(c) ==
    /\ At(c, "read") /\ Ok
    /\ Set(c, [client[c] EXCEPT !.pc = "put", !.base = file.ver])
    /\ UNCHANGED <<github, server, tokens, runs, torn>>

NewRun(commit, ci, sha, shaken) ==
    Append(runs, [commit |-> commit, ci |-> ci, sha |-> sha, tok |-> 0, rec |-> 0,
                  pc |-> IF ci THEN "queued" ELSE "waits", refused |-> FALSE,
                  shaken |-> shaken, again |-> FALSE])

\* ... and the commit on top of it, which is a push as well.
PutFile(c) ==
    /\ At(c, "put") /\ Ok
    /\ IF client[c].scope /\ client[c].base = file.ver /\ head < Len(Shas)
       THEN /\ file' = [ver |-> file.ver + 1, right |-> client[c].right]
            /\ head' = head + 1
            /\ runs' = NewRun(head + 1, TRUE, Shas[head + 1], torn \/ Linking \ {c} # {})
            /\ End(c, "linked")
       ELSE End(c, "failed") /\ UNCHANGED <<file, head, runs>>
    /\ UNCHANGED <<secret, server, tokens, torn>>

\* A call fails, or the user gives up.
ClientFails(c) ==
    /\ client[c].pc \notin {"idle", "done"} /\ Event
    /\ End(c, "error")
    /\ torn' = (torn \/ c \in Linking)
    /\ UNCHANGED <<github, server, tokens, runs>>

Leave(c) ==
    /\ At(c, "done") /\ Ok /\ Set(c, Idle)
    /\ UNCHANGED <<github, server, tokens, runs, torn>>

-----------------------------------------------------------------------------
(* GitHub, and the deploy hook *)

Run(r, pc) == r \in DOMAIN runs /\ runs[r].pc = pc
GoRun(r, pc) == runs' = [runs EXCEPT ![r].pc = pc]

Push ==
    /\ head < Len(Shas) /\ Event /\ head' = head + 1
    /\ runs' = IF file.ver = 0 THEN runs
               ELSE NewRun(head + 1, TRUE, Shas[head + 1], torn \/ Linking # {})
    /\ UNCHANGED <<secret, file, server, tokens, client, torn>>

\* `lh deploy` or a deploy in the web UI, with any sha or none.
ManualDeploy ==
    /\ hash # 0 /\ Event
    /\ \E sha \in Wants \cup {None} : runs' = NewRun(0, FALSE, sha, FALSE)
    /\ UNCHANGED <<github, server, tokens, client, torn>>

\* The runner gets the secret as it is when the job starts.
StartRun(r) ==
    /\ Run(r, "queued") /\ Ok
    /\ runs' = [runs EXCEPT ![r].pc = "build", ![r].tok = secret]
    /\ UNCHANGED <<github, server, tokens, client, torn>>

Build(r) ==
    /\ Run(r, "build") /\ Ok
    /\ \E pc \in {"hook", "failure"} : GoRun(r, pc)
    /\ UNCHANGED <<github, server, tokens, client, torn>>

\* A failed run is run again by hand.
Rerun(r) ==
    /\ Run(r, "failure") /\ runs[r].ci /\ Event
    /\ runs' = [runs EXCEPT ![r].pc = "queued", ![r].again = TRUE, ![r].rec = 0,
                            ![r].shaken = @ \/ torn \/ Linking # {}]
    /\ UNCHANGED <<github, server, tokens, client, torn>>

\* hook_deploy: the token is checked before the lock is taken.
Hook(r) ==
    /\ Run(r, "hook") /\ Ok
    /\ IF hash # 0 /\ runs[r].tok = hash THEN GoRun(r, "waits")
       ELSE runs' = [runs EXCEPT ![r].pc = "failure", ![r].refused = TRUE]
    /\ UNCHANGED <<github, server, tokens, client, torn>>

\* deploy_app: the record is inserted under the lock ...
DeployStarts(r) ==
    /\ Run(r, "waits") /\ lock = 0 /\ Ok
    /\ lock' = r
    /\ deploys' = Append(deploys, [sha |-> runs[r].sha, status |-> "in_progress"])
    /\ runs' = [runs EXCEPT ![r].pc = "deploys", ![r].rec = Len(deploys) + 1]
    /\ UNCHANGED <<github, hash, tokens, client, torn>>

\* ... and settled; an image for another platform is refused (where Docker names its
\* platform) or taken not to start. The answer is 200 or 502, which fails the run.
DeploySettles(r) ==
    /\ Run(r, "deploys") /\ Ok
    /\ \E status \in {"failed"} \cup IF ~runs[r].ci \/ file.right THEN {"succeeded"} ELSE {} :
        /\ deploys' = [deploys EXCEPT ![runs[r].rec].status = status]
        /\ GoRun(r, IF status = "succeeded" THEN "success" ELSE "failure")
    /\ lock' = 0
    /\ UNCHANGED <<github, hash, tokens, client, torn>>

\* The connection breaks or the server restarts: the handler is dropped and its
\* record stays in progress.
Lose(r) ==
    /\ r \in DOMAIN runs /\ runs[r].pc \in {"hook", "waits", "deploys"} /\ Event
    /\ runs' = [runs EXCEPT ![r].pc = "failure", ![r].again = TRUE]
    /\ lock' = IF lock = r THEN 0 ELSE lock
    /\ UNCHANGED <<github, hash, deploys, tokens, client, torn>>

-----------------------------------------------------------------------------
(* deploy_wait::wait *)

\* target's comparison: one is an abbreviation of the other.
Matches(sha, want) ==
    sha # None /\ (IsPrefix(want, sha) \/ (Len(sha) >= ShortSha /\ IsPrefix(sha, want)))

Newest(S) == IF S = {} THEN 0 ELSE CHOOSE i \in S : \A j \in S : j <= i

Listed(limit) == {d \in DOMAIN deploys : d + limit > Len(deploys)}

\* The newest deploy of the commit among those listed, or the newest of all.
Target(want, limit) ==
    Newest({d \in Listed(limit) : want # None => Matches(deploys[d].sha, want)})

\* newest_run_for_sha, which looks among the last 30 runs; here a commit has one run.
NewestRun(want) ==
    Newest({r \in DOMAIN runs : runs[r].ci /\ IsPrefix(want, Shas[runs[r].commit])})

\* Mutated form of RunFailed: whatever is no success.
RunFailedEarly(r) == r # 0 /\ runs[r].pc # "success"

\* WorkflowRun::failed.
RunFailed(r) == r # 0 /\ runs[r].pc = "failure"

\* `lh deploys --wait`; with a sha, and a token and a linked repo to be found,
\* the Actions run is watched too.
Wait(c) ==
    /\ At(c, "idle") /\ Event
    /\ \E sha \in Wants \cup {None}, limit \in Limits, watch \in BOOLEAN :
        /\ watch => sha # None /\ hash # 0 /\ \E s \in DOMAIN tokens : tokens[s] # "none"
        /\ Set(c, [Idle EXCEPT !.pc = "list", !.sha = sha, !.limit = limit, !.watch = watch])
    /\ UNCHANGED <<github, server, tokens, runs, torn>>

\* Mutated form of Due: the run is looked at once.
DueOnce(c) == client[c].last = None

Due(c) == client[c].last = None \/ client[c].elapsed >= client[c].last + CheckEvery

\* The deploys are listed; a settled target ends the wait.
List(c) ==
    /\ At(c, "list") /\ Ok
    /\ LET d == Target(client[c].sha, client[c].limit)
           settled == d # 0 /\ deploys[d].status # "in_progress"
           look == d = 0 /\ client[c].watch /\ Due(c)
       IN IF settled THEN End(c, deploys[d].status)
          ELSE Set(c, [client[c] EXCEPT !.cur = d, !.pc = IF look THEN "check" ELSE "late",
                                        !.bad = IF d = 0 THEN @ ELSE 0])
    /\ UNCHANGED <<github, server, tokens, runs, torn>>

\* deploy_run_for_sha; an error is ignored until the next look.
Check(c) ==
    /\ At(c, "check")
    /\ \/ /\ Ok
          /\ IF RunFailed(NewestRun(client[c].sha)) THEN End(c, "build_failed")
             ELSE Set(c, [client[c] EXCEPT !.pc = "late", !.last = client[c].elapsed, !.bad = 0])
       \/ /\ Event
          /\ Set(c, [client[c] EXCEPT !.pc = "late", !.last = client[c].elapsed, !.bad = 0])
    /\ UNCHANGED <<github, server, tokens, runs, torn>>

\* The deadline, or three seconds of sleep, which stand for the time of the calls too.
Late(c) ==
    /\ At(c, "late") /\ Ok
    /\ IF client[c].elapsed >= Timeout THEN End(c, "timed_out")
       ELSE Set(c, [client[c] EXCEPT !.pc = "list", !.elapsed = @ + 1,
                    !.bad = IF client[c].watch /\ client[c].cur = 0
                               /\ RunFailed(NewestRun(client[c].sha)) THEN @ + 1 ELSE 0])
    /\ UNCHANGED <<github, server, tokens, runs, torn>>

-----------------------------------------------------------------------------

ClientStep(c) ==
    \/ CreateApp(c) \/ Platform(c) \/ Token(c) \/ Device(c) \/ PutSecret(c) \/ ReadFile(c)
    \/ PutFile(c) \/ List(c) \/ Check(c) \/ Late(c)

Next ==
    \/ \E c \in Clients : Provision(c) \/ Wait(c) \/ ClientStep(c) \/ ClientFails(c) \/ Leave(c)
    \/ Push \/ ManualDeploy
    \/ \E r \in DOMAIN runs :
        \/ StartRun(r) \/ Build(r) \/ Rerun(r) \/ Hook(r) \/ DeployStarts(r)
        \/ DeploySettles(r) \/ Lose(r)

Spec == Init /\ [][Next]_vars

-----------------------------------------------------------------------------
(* Properties *)

\* A run is refused by the hook only when the app was being linked again, two
\* linkings overlapped or one broke off half-way: the very first run too, which
\* the commit of the workflow starts, finds its secret in place (provision_app
\* sets the secret before it commits the file).
RefusedOnlyWhileRelinking == \A r \in DOMAIN runs : runs[r].refused => runs[r].shaken

Unambiguous(want) == Cardinality({i \in DOMAIN Shas : IsPrefix(want, Shas[i])}) = 1

\* The answer that the build failed stands: no deploy of that commit succeeds,
\* then or later, unless its run is run again or lost its connection, or the
\* commit is deployed by hand (deploy_wait.rs: Outcome::BuildFailed).
BuildFailedStands ==
    \A c \in Clients :
        LET want == client[c].sha IN
        /\ client[c].out = "build_failed" /\ Unambiguous(want)
        /\ \A r \in DOMAIN runs : Matches(runs[r].sha, want) => runs[r].ci /\ ~runs[r].again
        => \A d \in DOMAIN deploys :
               Matches(deploys[d].sha, want) => deploys[d].status # "succeeded"

\* A failed build is reported at the next look at GitHub, an interval later at
\* most, not by the time-out minutes later (the module comment of
\* deploy_wait.rs).
BuildFailureNoticed == \A c \in Clients : client[c].bad <= CheckEvery
=============================================================================
