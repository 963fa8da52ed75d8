----------------------------- MODULE AppRollout -----------------------------
(***************************************************************************)
(* Coordinated deploys of an app bundle (api/handlers/app_deploy.go and    *)
(* build/app_deploy.go) for one app and environment.  A request takes the  *)
(* in-memory rollout guard and starts a background job, which deploys the  *)
(* members one after another, stops at the first one that does not go      *)
(* live, records a release, and after a failure redeploys the members of   *)
(* the last succeeded release.  Single deployments of the same projects    *)
(* compete for the build slot.                                             *)
(*                                                                         *)
(* The rows are those of DeploymentLedger, which the pipeline implements   *)
(* (DeployPipeline); what the pipeline does inside a deployment is reduced *)
(* to its effect on the row, the recorded commit and the one build slot.   *)
(***************************************************************************)
EXTENDS Naturals, Sequences, FiniteSets

CONSTANTS
    Deployments,     \* ids of the deployments that may be created
    Members,         \* the app's projects, numbered in the order of their names
    TargetOf,        \* the project each deployment is for
    DeployOrder,     \* projects.deploy_order of each member
    DeployOrdered,   \* apps.deploy_ordered
    Jobs,            \* deploy and rollback requests
    Singles,         \* the deployments made for one project, outside any job
    MaxPushes,       \* bound on the pushes to each member's branch
    Faults           \* subset of {"build", "panic", "db", "crash"}

NoDep == 0
NoRelease == 0

ASSUME DeploymentsAssumption ==
    Deployments \subseteq Nat \ {NoDep} /\ IsFiniteSet(Deployments)
ASSUME MembersAssumption ==
    /\ Members \subseteq Nat
    /\ TargetOf \in [Deployments -> Members]
    /\ DeployOrder \in [Members -> Nat]
    /\ DeployOrdered \in BOOLEAN
ASSUME BoundsAssumption ==
    /\ Singles \subseteq Deployments
    /\ MaxPushes \in Nat
    /\ Faults \subseteq {"build", "panic", "db", "crash"}

VARIABLES
    row,        \* status of each deployments row (DeploymentLedger)
    sha,        \* deployments.commit_sha; 0 when empty
    head,       \* HEAD of each member's branch at GitHub, counted from 1
    slot,       \* the build slot: "free", "building", "swapping", "returning"
    running,    \* the deployment that holds it
    over,       \* the deployments whose Pipeline.Deploy call has ended
    inflight,   \* whether inflightRollouts has the app and environment
    job,        \* the background job of each request
    releases    \* app_releases, oldest first; "from" is a history field

Ledger == INSTANCE DeploymentLedger WITH chosen <- {}

vars == <<row, sha, head, slot, running, over, inflight, job, releases>>
pipeline == <<slot, running, over>>

Live(m) == {d \in Deployments : TargetOf[d] = m /\ row[d] = "live"}

\* OrderAppMembers: by deploy_order when the app is ordered, then by name; the
\* batches run one after another and so do the members of a batch.
Before(m, n) ==
    IF DeployOrdered /\ DeployOrder[m] # DeployOrder[n]
    THEN DeployOrder[m] < DeployOrder[n]
    ELSE m < n
IsFirst(m, S) == m \in S /\ \A n \in S \ {m} : Before(m, n)

IdleJob == [pc |-> "idle", kind |-> "none", plan |-> {}, todo |-> {}, done |-> {},
            cur |-> NoDep, target |-> NoRelease, recorded |-> 0]

Init ==
    /\ row = [d \in Deployments |-> "none"]
    /\ sha = [d \in Deployments |-> 0]
    /\ head = [m \in Members |-> 1]
    /\ slot = "free"
    /\ running = NoDep
    /\ over = {}
    /\ inflight = FALSE
    /\ job = [j \in Jobs |-> IdleJob]
    /\ releases = <<>>

Active == {"next", "deploying", "record", "rollback", "end"}

-----------------------------------------------------------------------------
(* The pipeline, as a deployment's owner sees it *)

\* Pushes move the branch that a later clone will check out.
Push(m) ==
    /\ head[m] <= MaxPushes
    /\ head' = [head EXCEPT ![m] = @ + 1]
    /\ UNCHANGED <<row, sha, pipeline, inflight, job, releases>>

\* Ids are handed out in order.
Fresh(d) ==
    /\ row[d] = "none"
    /\ \A e \in Deployments :
          e < d /\ TargetOf[e] = TargetOf[d] /\ (e \in Singles <=> d \in Singles)
          => row[e] # "none"

\* A user or a webhook deploys one project; no job is asked.
SingleDeploy(d) ==
    /\ d \in Singles /\ Fresh(d)
    /\ Ledger!Enqueue(d)
    /\ UNCHANGED <<sha, head, pipeline, inflight, job, releases>>

\* Deploy gets the slot and clones the branch: whatever commit_sha the row had
\* is overwritten with the HEAD of the clone.
Work(d) ==
    /\ slot = "free" /\ d \notin over
    /\ Ledger!Begin(d)
    /\ slot' = "building" /\ running' = d
    /\ sha' = [sha EXCEPT ![d] = head[TargetOf[d]]]
    /\ UNCHANGED <<head, over, inflight, job, releases>>

\* The SELECT and the UPDATE of Step 9 in one: between them only the row of a
\* single deployment that panicked may change, which no rollout reads.
RetirePrior(l) ==
    /\ slot = "building"
    /\ l # running /\ TargetOf[l] = TargetOf[running]
    /\ row[l] = "live" /\ Ledger!Replace(l)
    /\ slot' = "swapping"
    /\ UNCHANGED <<sha, head, running, over, inflight, job, releases>>

GoLive(d) ==
    /\ slot \in {"building", "swapping"} /\ running = d
    /\ Ledger!Promote(d)
    /\ slot' = "returning"
    /\ UNCHANGED <<sha, head, running, over, inflight, job, releases>>

Fail(d) ==
    /\ "build" \in Faults
    /\ slot = "building" /\ running = d
    /\ Ledger!Fail(d)
    /\ slot' = "returning"
    /\ UNCHANGED <<sha, head, running, over, inflight, job, releases>>

Return(d) ==
    /\ slot = "returning" /\ running = d
    /\ slot' = "free" /\ running' = NoDep /\ over' = over \cup {d}
    /\ UNCHANGED <<row, sha, head, inflight, job, releases>>

\* Dispatch recovers the panic of a single deployment and fails its row.
PanicSingle(d) ==
    /\ "panic" \in Faults
    /\ slot # "free" /\ running = d /\ d \in Singles
    /\ Ledger!Fail(d) \/ (row[d] = "failed" /\ UNCHANGED row)
    /\ slot' = "free" /\ running' = NoDep /\ over' = over \cup {d}
    /\ UNCHANGED <<sha, head, inflight, job, releases>>

-----------------------------------------------------------------------------
(* Requests *)

StartJob(j, kind, members, release) ==
    job' = [job EXCEPT ![j] = [IdleJob EXCEPT !.pc = "next", !.kind = kind, !.plan = members,
                                              !.todo = members, !.target = release]]

\* Mutant: the guard is looked at but the answer is not used.
DeployUnguarded(j) ==
    /\ job[j].pc = "idle"
    /\ inflight' = TRUE
    /\ StartJob(j, "deploy", Members, NoRelease)
    /\ UNCHANGED <<row, sha, head, pipeline, releases>>

\* AppHandler.Deploy: 409 while the guard is held.
Deploy(j) ==
    /\ job[j].pc = "idle" /\ Members # {}
    /\ ~inflight /\ inflight' = TRUE
    /\ StartJob(j, "deploy", Members, NoRelease)
    /\ UNCHANGED <<row, sha, head, pipeline, releases>>

\* AppHandler.Rollback: to any recorded release of the app, failed ones too.
Rollback(j) ==
    /\ job[j].pc = "idle"
    /\ ~inflight /\ inflight' = TRUE
    /\ \E r \in DOMAIN releases : StartJob(j, "rollback", releases[r].members, r)
    /\ UNCHANGED <<row, sha, head, pipeline, releases>>

-----------------------------------------------------------------------------
(* The background job *)

\* The commit a rollback writes into the new row: that of the recorded one.
RecordedSha(j, m) ==
    LET recorded == {d \in releases[job[j].target].deps : TargetOf[d] = m} IN
    IF job[j].kind = "deploy" \/ recorded = {} THEN 0 ELSE sha[CHOOSE d \in recorded : TRUE]

\* Mutant: the members of a batch are picked in any order.
StartMemberAny(j) ==
    /\ job[j].pc = "next"
    /\ \E d \in Deployments \ Singles :
          /\ TargetOf[d] \in job[j].todo
          /\ Fresh(d) /\ Ledger!Enqueue(d)
          /\ sha' = [sha EXCEPT ![d] = RecordedSha(j, TargetOf[d])]
          /\ job' = [job EXCEPT ![j].pc = "deploying", ![j].cur = d]
    /\ UNCHANGED <<head, pipeline, inflight, releases>>

\* deployMember / redeployMemberToDeployment, up to the call of Deploy.
StartMember(j) ==
    /\ job[j].pc = "next"
    /\ \E d \in Deployments \ Singles :
          /\ IsFirst(TargetOf[d], job[j].todo)
          /\ Fresh(d) /\ Ledger!Enqueue(d)
          /\ sha' = [sha EXCEPT ![d] = RecordedSha(j, TargetOf[d])]
          /\ job' = [job EXCEPT ![j].pc = "deploying", ![j].cur = d]
    /\ UNCHANGED <<head, pipeline, inflight, releases>>

\* CreateDeployment failed: the member counts as unhealthy without an id.
StartMemberFails(j) ==
    /\ "db" \in Faults
    /\ job[j].pc = "next" /\ job[j].todo # {}
    /\ job' = [job EXCEPT ![j].pc = "record", ![j].cur = NoDep]
    /\ UNCHANGED <<row, sha, head, pipeline, inflight, releases>>

\* Mutant: any ended deployment is healthy.
MemberDoneAnyway(j) ==
    /\ job[j].pc = "deploying" /\ job[j].cur \in over
    /\ job' = [job EXCEPT ![j].pc = "next", ![j].done = @ \cup {job[j].cur},
                          ![j].todo = @ \ {TargetOf[job[j].cur]}]
    /\ UNCHANGED <<row, sha, head, pipeline, inflight, releases>>

\* Deploy returned and RunRollout acts on the status read back from the row.  A
\* rollback adds the deployment to its snapshot whatever became of it.
MemberDone(j) ==
    LET d == job[j].cur IN
    /\ job[j].pc = "deploying" /\ d \in over
    /\ \/ /\ row[d] = "live"
          /\ job' = [job EXCEPT ![j].pc = "next", ![j].done = @ \cup {d},
                                ![j].todo = @ \ {TargetOf[d]}]
       \/ /\ row[d] # "live" \/ "db" \in Faults
          /\ job' = [job EXCEPT ![j].pc = "record",
                        ![j].done = IF job[j].kind # "deploy" THEN @ \cup {d} ELSE @]
    /\ UNCHANGED <<row, sha, head, pipeline, inflight, releases>>

\* Every member of the plan went live.
AllDone(j) ==
    /\ job[j].pc = "next" /\ job[j].todo = {}
    /\ job' = [job EXCEPT ![j].pc = "record"]
    /\ UNCHANGED <<row, sha, head, pipeline, inflight, releases>>

\* The projects of the snapshot: those of its deployments, and in a rollback
\* the one whose deployment could not be created.
SnapshotMembers(j) ==
    {TargetOf[d] : d \in job[j].done}
    \cup (IF job[j].kind # "deploy" /\ job[j].cur = NoDep
          THEN {m \in job[j].todo : IsFirst(m, job[j].todo)} ELSE {})

ReleaseStatus(j) ==
    IF job[j].todo # {} THEN "failed"
    ELSE IF job[j].kind = "deploy" THEN "succeeded" ELSE "rolled_back"

\* CreateAppRelease, in one transaction, its error only logged.  A failed
\* deploy goes on to the rollback.
RecordRelease(j) ==
    LET release == [status |-> ReleaseStatus(j), members |-> SnapshotMembers(j),
                    deps |-> job[j].done, from |-> job[j].target]
        after == IF job[j].todo # {} /\ job[j].kind = "deploy" THEN "rollback" ELSE "end" IN
    /\ job[j].pc = "record"
    /\ \/ /\ releases' = Append(releases, release)
          /\ job' = [job EXCEPT ![j].pc = after, ![j].recorded = @ + 1]
       \/ /\ "db" \in Faults
          /\ job' = [job EXCEPT ![j].pc = after] /\ UNCHANGED releases
    /\ UNCHANGED <<row, sha, head, pipeline, inflight>>

\* Mutant: the newest release, whatever its status.
LastGoodAny == {r \in DOMAIN releases : r = Len(releases)}

\* rollbackToLastGoodRelease: the newest release with status succeeded.
LastGood ==
    {r \in DOMAIN releases :
        /\ releases[r].status = "succeeded"
        /\ \A s \in DOMAIN releases : releases[s].status = "succeeded" => s <= r}

RollbackToLastGood(j) ==
    /\ job[j].pc = "rollback"
    /\ \/ \E r \in LastGood :
             job' = [job EXCEPT ![j] = [@ EXCEPT !.pc = "next", !.kind = "auto",
                        !.plan = releases[r].members, !.todo = releases[r].members,
                        !.done = {}, !.target = r]]
       \/ /\ LastGood = {} \/ "db" \in Faults
          /\ job' = [job EXCEPT ![j].pc = "end"]
    /\ UNCHANGED <<row, sha, head, pipeline, inflight, releases>>

\* A panic inside Deploy: its deferred Release runs, the row stays as it is, and
\* the recover of runAppDeploy or redeployRelease ends the job.
PanicMember(j) ==
    /\ "panic" \in Faults
    /\ job[j].pc = "deploying" /\ running = job[j].cur /\ slot # "free"
    /\ slot' = "free" /\ running' = NoDep /\ over' = over \cup {job[j].cur}
    /\ job' = [job EXCEPT ![j].pc = "end"]
    /\ UNCHANGED <<row, sha, head, inflight, releases>>

\* Mutant: the guard is released on the way out of a job that recorded a release.
EndJobRecorded(j) ==
    /\ job[j].pc = "end"
    /\ inflight' = (job[j].recorded = 0)
    /\ job' = [job EXCEPT ![j].pc = "over"]
    /\ UNCHANGED <<row, sha, head, pipeline, releases>>

\* The deferred releaseRollout.
EndJob(j) ==
    /\ job[j].pc = "end"
    /\ inflight' = FALSE
    /\ job' = [job EXCEPT ![j].pc = "over"]
    /\ UNCHANGED <<row, sha, head, pipeline, releases>>

\* The process dies: guard, jobs and goroutines with it; rows stay.
Crash ==
    /\ "crash" \in Faults
    /\ slot' = "free" /\ running' = NoDep
    /\ over' = {d \in Deployments : row[d] # "none"}
    /\ inflight' = FALSE
    /\ job' = [j \in Jobs |-> IF job[j].pc \in Active
                               THEN [job[j] EXCEPT !.pc = "over"] ELSE job[j]]
    /\ UNCHANGED <<row, sha, head, releases>>

JobStep(j) ==
    \/ StartMember(j) \/ MemberDone(j) \/ AllDone(j) \/ RecordRelease(j)
    \/ RollbackToLastGood(j) \/ EndJob(j)
PipelineStep(d) == GoLive(d) \/ Fail(d) \/ Return(d) \/ RetirePrior(d)

Next ==
    \/ \E m \in Members : Push(m)
    \/ \E d \in Deployments : SingleDeploy(d) \/ Work(d) \/ PipelineStep(d) \/ PanicSingle(d)
    \/ \E j \in Jobs : \/ Deploy(j) \/ Rollback(j) \/ JobStep(j)
                      \/ StartMemberFails(j) \/ PanicMember(j)
    \/ Crash

Spec == Init /\ [][Next]_vars

\* Goroutines run and blocked senders of the semaphore's channel are served.
FairSpec ==
    /\ Spec
    /\ \A j \in Jobs : WF_vars(JobStep(j))
    /\ \A d \in Deployments : WF_vars(PipelineStep(d)) /\ SF_vars(Work(d))

-----------------------------------------------------------------------------
(* Properties *)

JobPcs == Active \cup {"idle", "over"}
ReleaseStatuses == {"succeeded", "failed", "rolled_back"}

TypeOK ==
    /\ row \in [Deployments -> {"none", "queued", "working", "live", "failed", "replaced"}]
    /\ sha \in [Deployments -> Nat]
    /\ head \in [Members -> Nat]
    /\ slot \in {"free", "building", "swapping", "returning"}
    /\ running \in Deployments \cup {NoDep}
    /\ over \subseteq Deployments
    /\ inflight \in BOOLEAN
    /\ job \in [Jobs -> [pc : JobPcs, kind : {"none", "deploy", "rollback", "auto"},
                         plan : SUBSET Members, todo : SUBSET Members, done : SUBSET Deployments,
                         cur : Deployments \cup {NoDep}, target : Nat, recorded : Nat]]
    /\ releases \in Seq([status : ReleaseStatuses, members : SUBSET Members,
                         deps : SUBSET Deployments, from : Nat])

\* The guard serialises the jobs of an app and environment: two of them never
\* deploy members at once, and none works without the guard.
OneRolloutAtATime ==
    \A j, k \in Jobs : job[j].pc \in Active /\ job[k].pc \in Active => j = k /\ inflight

\* The health barrier: while a member is being deployed, every member of the
\* plan that comes before it has been deployed by this job and went live.
HealthBarrier ==
    \A j \in Jobs :
        job[j].pc = "deploying" =>
            \A m \in job[j].plan :
                Before(m, TargetOf[job[j].cur]) =>
                    \E d \in job[j].done : TargetOf[d] = m /\ row[d] \in {"live", "replaced"}

\* A succeeded release names, for each member of the app, exactly one
\* deployment, and each of them was swapped in.
SucceededReleaseIsComplete ==
    \A r \in DOMAIN releases :
        releases[r].status = "succeeded" =>
            /\ {TargetOf[d] : d \in releases[r].deps} = Members
            /\ \A d \in releases[r].deps : row[d] \in {"live", "replaced"}
            /\ \A d, e \in releases[r].deps : TargetOf[d] = TargetOf[e] => d = e

\* A rolled_back release covers the members of the release it went back to.
RolledBackCoversTarget ==
    \A r \in DOMAIN releases :
        releases[r].status = "rolled_back" =>
            /\ releases[r].from \in 1 .. r - 1
            /\ releases[r].members = releases[releases[r].from].members
            /\ \A d \in releases[r].deps : row[d] \in {"live", "replaced"}

\* "On failure it best-effort rolls the whole app back": an automatic rollback
\* that came to its end redeployed every member, not the few that the failed
\* rollout had reached.
AutoRollbackIsWhole ==
    \A j \in Jobs :
        job[j].kind = "auto" /\ job[j].todo = {} => {TargetOf[d] : d \in job[j].done} = Members

\* Between rollouts the newest release, when it is a good one, describes what
\* runs, as long as nobody deploys a member on its own and every job that ended
\* got to record its release.
LatestReleaseIsLive ==
    /\ ~inflight /\ releases # <<>>
    /\ \A d \in Singles : row[d] = "none"
    /\ \A j \in Jobs : job[j].pc = "over" => job[j].recorded > 0
    =>
        LET latest == releases[Len(releases)] IN
        latest.status # "failed" => \A d \in latest.deps : row[d] = "live"

\* The guard is always given back: no app is locked out of deploys for good.
RolloutEnds == inflight ~> ~inflight

\* A rollback redeploys "each member of a release to its recorded commit".
RollbackRestoresCommits ==
    \A r \in DOMAIN releases :
        releases[r].status = "rolled_back" =>
            \A d \in releases[r].deps, e \in releases[releases[r].from].deps :
                TargetOf[d] = TargetOf[e] => sha[d] = sha[e]
=============================================================================
