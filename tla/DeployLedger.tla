----------------------------- MODULE DeployLedger -----------------------------
(***************************************************************************)
(* What the deploy engine promises of an app's image and of its deploy     *)
(* history (deploy.rs, GET /api/apps/:name/deploys): deploys of an app     *)
(* take effect one at a time, the image the app is recorded to run changes *)
(* by a deploy only, a deploy that changed it ends "succeeded" and every   *)
(* other one ends "failed" without having changed it.  Only where the rest *)
(* of a deploy's log cannot be written may one that changed it fail.       *)
(***************************************************************************)
EXTENDS Naturals, Sequences

CONSTANTS Apps, Images, None,
          FailsLate   \* a Boolean: may a deploy fail after it has changed the image?

VARIABLES
    image,   \* the image each app is recorded to run, or None
    ledger   \* the deploys, oldest first

lvars == <<image, ledger>>

Stages == {"in_progress", "switched", "succeeded", "failed"}

TypeOK ==
    /\ image \in [Apps -> Images \cup {None}]
    /\ ledger \in Seq([app : Apps, image : Images, status : Stages])

Init ==
    /\ image = [a \in Apps |-> None]
    /\ ledger = << >>

Active(a) == {d \in DOMAIN ledger : ledger[d].app = a
                                    /\ ledger[d].status \in {"in_progress", "switched"}}

Begin(a, i) ==
    /\ Active(a) = {}
    /\ ledger' = Append(ledger, [app |-> a, image |-> i, status |-> "in_progress"])
    /\ UNCHANGED image

Move(d, from, to) ==
    /\ ledger[d].status = from
    /\ ledger' = [ledger EXCEPT ![d].status = to]

Switch(d) ==
    /\ Move(d, "in_progress", "switched")
    /\ image' = [image EXCEPT ![ledger[d].app] = ledger[d].image]

Succeed(d) == Move(d, "switched", "succeeded") /\ UNCHANGED image
FailDeploy(d) ==
    /\ Move(d, "in_progress", "failed") \/ (FailsLate /\ Move(d, "switched", "failed"))
    /\ UNCHANGED image

Next ==
    \/ \E a \in Apps, i \in Images : Begin(a, i)
    \/ \E d \in DOMAIN ledger : Switch(d) \/ Succeed(d) \/ FailDeploy(d)

Spec == Init /\ [][Next]_lvars

=============================================================================
