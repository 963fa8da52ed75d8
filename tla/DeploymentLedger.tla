-------------------------- MODULE DeploymentLedger --------------------------
(***************************************************************************)
(* What the deployments table promises its readers (the dashboard, the log *)
(* streams, app health, app rollouts): the life of a row, and that a       *)
(* target has at most one live row at any time.                            *)
(***************************************************************************)
CONSTANTS Deployments, TargetOf

VARIABLES
    row,      \* what each row says
    chosen    \* the rows read as live by the deployment that is to replace them

vars == <<row, chosen>>

Init ==
    /\ row = [d \in Deployments |-> "none"]
    /\ chosen = {}

Live(t) == {d \in Deployments : TargetOf[d] = t /\ row[d] = "live"}

\* Somebody is at work on another deployment of d's target.
BeingReplaced(d) == \E e \in Deployments \ {d} : TargetOf[e] = TargetOf[d] /\ row[e] = "working"

Enqueue(d) ==
    /\ row[d] = "none"
    /\ row' = [row EXCEPT ![d] = "queued"]
    /\ UNCHANGED chosen

Begin(d) ==
    /\ row[d] = "queued"
    /\ row' = [row EXCEPT ![d] = "working"]
    /\ UNCHANGED chosen

\* Only a live row is chosen, and only on behalf of another deployment.
Choose(d) ==
    /\ row[d] = "live"
    /\ BeingReplaced(d)
    /\ chosen' = chosen \cup {d}
    /\ UNCHANGED row

\* What happens to the row, even if it failed since it was chosen.
Replace(d) ==
    /\ row[d] \in {"live", "failed"}
    /\ BeingReplaced(d)
    /\ row' = [row EXCEPT ![d] = "replaced"]

Retire(d) ==
    /\ d \in chosen
    /\ Replace(d)
    /\ chosen' = chosen \ {d}

\* Whoever chose it fails or dies first.
Forget ==
    /\ chosen' \subseteq chosen
    /\ UNCHANGED row

Promote(d) ==
    /\ row[d] = "working"
    /\ Live(TargetOf[d]) = {}
    /\ row' = [row EXCEPT ![d] = "live"]
    /\ UNCHANGED chosen

\* Also of a live or replaced row: a panic after the swap is recorded late.
Fail(d) ==
    /\ row[d] \in {"queued", "working", "live", "replaced"}
    /\ row' = [row EXCEPT ![d] = "failed"]
    /\ UNCHANGED chosen

Next ==
    \/ \E d \in Deployments :
          Enqueue(d) \/ Begin(d) \/ Choose(d) \/ Retire(d) \/ Promote(d) \/ Fail(d)
    \/ Forget

Spec == Init /\ [][Next]_vars
=============================================================================
