-------------------------- MODULE AppRolloutProofs --------------------------
(***************************************************************************)
(* Machine-checked proofs about AppRollout, for every set of members,      *)
(* deployments and requests and every fault.  RolloutInv is inductive:     *)
(* PlanInv says how far a job is (what it has done was swapped in, is over *)
(* for good, and with what is left makes up its plan), ReleaseInv what a   *)
(* recorded release keeps saying, RunInv that the pipeline never returns   *)
(* to a deployment that is over.  The one-job guard is inductive on top,   *)
(* and on both LatestInv: what the newest release says of the rows.        *)
(***************************************************************************)
EXTENDS AppRollout, TLAPS, SequenceTheorems

PipelineAction(d) == SingleDeploy(d) \/ Work(d) \/ PipelineStep(d) \/ PanicSingle(d)
JobAction(j) == Deploy(j) \/ Rollback(j) \/ JobStep(j) \/ StartMemberFails(j) \/ PanicMember(j)

LEMMA NextCases ==
    Next <=> \/ \E m \in Members : Push(m)
             \/ \E d \in Deployments : PipelineAction(d)
             \/ \E j \in Jobs : JobAction(j)
             \/ Crash
BY DEF Next, PipelineAction, JobAction

-----------------------------------------------------------------------------
(* Types *)

Release == [status : ReleaseStatuses, members : SUBSET Members, deps : SUBSET Deployments,
            from : Nat]
Job == [pc : JobPcs, kind : {"none", "deploy", "rollback", "auto"},
        plan : SUBSET Members, todo : SUBSET Members, done : SUBSET Deployments,
        cur : Deployments \cup {NoDep}, target : Nat, recorded : Nat]

LEMMA TypeInit == Init => TypeOK
<1> SUFFICES ASSUME Init PROVE TypeOK
  OBVIOUS
<1>1. IdleJob \in Job
  BY DEF IdleJob, Job, JobPcs, Active, NoDep, NoRelease
<1>2. releases \in Seq(Release)  BY DEF Init
<1> QED  BY <1>1, <1>2, MembersAssumption DEF Init, TypeOK, Job, Release

LEMMA TypePipeline ==
    ASSUME TypeOK, NEW d \in Deployments, PipelineAction(d)
    PROVE  TypeOK'
<1>0. TargetOf[d] \in Members  BY MembersAssumption
<1> USE DEF TypeOK, pipeline
<1>1. CASE SingleDeploy(d)  BY <1>1 DEF SingleDeploy, Ledger!Enqueue
<1>2. CASE Work(d)  BY <1>0, <1>2 DEF Work, Ledger!Begin
<1>3. CASE RetirePrior(d)  BY <1>3 DEF RetirePrior, Ledger!Replace
<1>4. CASE GoLive(d)  BY <1>4 DEF GoLive, Ledger!Promote
<1>5. CASE Fail(d)  BY <1>5 DEF Fail, Ledger!Fail
<1>6. CASE Return(d)  BY <1>6 DEF Return
<1>7. CASE PanicSingle(d)  BY <1>7 DEF PanicSingle, Ledger!Fail
<1> QED
  BY <1>1, <1>2, <1>3, <1>4, <1>5, <1>6, <1>7 DEF PipelineAction, PipelineStep

\* What the types rest on: whoever holds the slot is a deployment, and a job
\* that goes back to a release has one.
SlotHeld == slot # "free" => running # NoDep
TargetKnown ==
    \A j \in Jobs :
        IF job[j].pc = "idle" THEN job[j].kind = "none"
        ELSE job[j].kind # "deploy" => job[j].target \in DOMAIN releases

LEMMA TypeJob ==
    ASSUME TypeOK, SlotHeld, TargetKnown, NEW j \in Jobs, JobAction(j)
    PROVE  TypeOK'
<1>0. job[j] \in Job /\ releases \in Seq(Release) /\ job \in [Jobs -> Job]
  BY DEF TypeOK, Job, Release
<1>r. \A r \in DOMAIN releases : releases[r] \in Release /\ r \in Nat
  BY <1>0
<1>j. ASSUME NEW x \in Job, job' = [job EXCEPT ![j] = x]
      PROVE  job' \in [Jobs -> Job]
  BY <1>0, <1>j
<1>s. ASSUME job' \in [Jobs -> Job], UNCHANGED <<row, sha, head, pipeline, releases>>,
             inflight' \in BOOLEAN
      PROVE  TypeOK'
  BY <1>s DEF TypeOK, pipeline, Job
<1>k. ASSUME NEW k \in {"deploy", "rollback"}, NEW M \in SUBSET Members, NEW r \in Nat,
             StartJob(j, k, M, r)
      PROVE  job' \in [Jobs -> Job]
  <2>1. [IdleJob EXCEPT !.pc = "next", !.kind = k, !.plan = M, !.todo = M, !.target = r] \in Job
    BY DEF IdleJob, Job, JobPcs, Active, NoDep, NoRelease
  <2> QED  BY <1>k, <2>1, <1>j DEF StartJob
<1>1. CASE Deploy(j)
  BY <1>1, <1>k, <1>s DEF Deploy, NoRelease
<1>2. CASE Rollback(j)
  <2>1. PICK r \in DOMAIN releases : StartJob(j, "rollback", releases[r].members, r)
    BY <1>2 DEF Rollback
  <2>2. releases[r].members \in SUBSET Members /\ r \in Nat  BY <1>r DEF Release
  <2> QED  BY <1>2, <2>1, <2>2, <1>k, <1>s DEF Rollback
<1>3. CASE StartMember(j)
  <2>1. PICK d \in Deployments : /\ row' = [row EXCEPT ![d] = "queued"]
                /\ sha' = [sha EXCEPT ![d] = RecordedSha(j, TargetOf[d])]
                /\ job' = [job EXCEPT ![j].pc = "deploying", ![j].cur = d]
    BY <1>3 DEF StartMember, Ledger!Enqueue
  <2>2. RecordedSha(j, TargetOf[d]) \in Nat
    <3> DEFINE recorded == {e \in releases[job[j].target].deps : TargetOf[e] = TargetOf[d]}
    <3>1. CASE job[j].kind = "deploy" \/ recorded = {}
      BY <3>1 DEF RecordedSha
    <3>2. CASE ~(job[j].kind = "deploy" \/ recorded = {})
      <4>1. job[j].target \in DOMAIN releases
        BY <1>3, <3>2 DEF StartMember, TargetKnown
      <4>2. recorded \subseteq Deployments  BY <1>r, <4>1 DEF Release
      <4>3. (CHOOSE e \in recorded : TRUE) \in Deployments  BY <3>2, <4>2
      <4> QED  BY <3>2, <4>3 DEF RecordedSha, TypeOK
    <3> QED  BY <3>1, <3>2
  <2>3. [job[j] EXCEPT !.pc = "deploying", !.cur = d] \in Job
    BY <1>0 DEF Job, JobPcs, Active
  <2>4. job' \in [Jobs -> Job]  BY <1>0, <2>1, <2>3
  <2>5. row' \in [Deployments -> {"none", "queued", "working", "live", "failed", "replaced"}]
    BY <2>1 DEF TypeOK
  <2>6. sha' \in [Deployments -> Nat]  BY <2>1, <2>2 DEF TypeOK
  <2>7. UNCHANGED <<head, pipeline, inflight, releases>>  BY <1>3 DEF StartMember
  <2> HIDE DEF Job
  <2> QED  BY <2>4, <2>5, <2>6, <2>7 DEF TypeOK, Job, pipeline
<1>4. CASE StartMemberFails(j)
  <2>1. [job[j] EXCEPT !.pc = "record", !.cur = NoDep] \in Job
    BY <1>0 DEF Job, JobPcs, Active
  <2>2. job' \in [Jobs -> Job]  BY <1>0, <1>4, <2>1 DEF StartMemberFails
  <2> QED  BY <1>4, <2>2, <1>s DEF StartMemberFails, TypeOK
<1>5. CASE MemberDone(j)
  <2>1. job[j].cur \in Deployments  BY <1>5 DEF MemberDone, TypeOK
  <2> DEFINE D == job[j].done \cup {job[j].cur}
             T == job[j].todo \ {TargetOf[job[j].cur]}
  <2>2. D \in SUBSET Deployments /\ T \in SUBSET Members  BY <1>0, <2>1 DEF Job
  <2>3. /\ [job[j] EXCEPT !.pc = "next", !.done = D, !.todo = T] \in Job
        /\ \A S \in {D, job[j].done} : [job[j] EXCEPT !.pc = "record", !.done = S] \in Job
    BY <1>0, <2>2 DEF Job, JobPcs, Active
  <2>4. \/ job' = [job EXCEPT ![j] = [job[j] EXCEPT !.pc = "next", !.done = D, !.todo = T]]
        \/ \E S \in {D, job[j].done} :
              job' = [job EXCEPT ![j] = [job[j] EXCEPT !.pc = "record", !.done = S]]
    <3>1. CASE job' = [job EXCEPT ![j].pc = "next", ![j].done = @ \cup {job[j].cur},
                                  ![j].todo = @ \ {TargetOf[job[j].cur]}]
      BY <1>0, <3>1 DEF Job
    <3>2. CASE job' = [job EXCEPT ![j].pc = "record",
                 ![j].done = IF job[j].kind # "deploy" THEN @ \cup {job[j].cur} ELSE @]
      BY <1>0, <3>2 DEF Job
    <3> QED  BY <1>5, <3>1, <3>2 DEF MemberDone
  <2>5. job' \in [Jobs -> Job]  BY <2>3, <2>4, <1>j
  <2> QED  BY <1>5, <2>5, <1>s DEF MemberDone, TypeOK
<1>6. CASE AllDone(j)
  <2>1. [job[j] EXCEPT !.pc = "record"] \in Job
    BY <1>0 DEF Job, JobPcs, Active
  <2>2. job' \in [Jobs -> Job]  BY <1>0, <1>6, <2>1 DEF AllDone
  <2> QED  BY <1>6, <2>2, <1>s DEF AllDone, TypeOK
<1>7. CASE RecordRelease(j)
  <2> DEFINE release == [status |-> ReleaseStatus(j),
                         members |-> SnapshotMembers(j), deps |-> job[j].done,
                         from |-> job[j].target]
             after == IF job[j].todo # {} /\ job[j].kind = "deploy" THEN "rollback" ELSE "end"
  <2>1. SnapshotMembers(j) \in SUBSET Members
    BY <1>0, MembersAssumption DEF SnapshotMembers, Job
  <2>2. release \in Release
    BY <1>0, <2>1 DEF Job, Release, ReleaseStatus, ReleaseStatuses
  <2>a. after \in JobPcs  BY DEF JobPcs, Active
  <2>3. /\ [job[j] EXCEPT !.pc = after, !.recorded = @ + 1] \in Job
        /\ [job[j] EXCEPT !.pc = after] \in Job
    <3> HIDE DEF release, after, JobPcs
    <3>1. job[j].recorded + 1 \in Nat  BY <1>0 DEF Job
    <3> QED  BY <1>0, <2>a, <3>1 DEF Job
  <2>4. \/ /\ releases' = Append(releases, release)
           /\ job' = [job EXCEPT ![j].pc = after, ![j].recorded = @ + 1]
        \/ /\ job' = [job EXCEPT ![j].pc = after]
           /\ UNCHANGED releases
    BY <1>7 DEF RecordRelease
  <2> HIDE DEF release, after
  <2>5. releases' \in Seq(Release)  BY <1>0, <2>2, <2>4
  <2>6. job' \in [Jobs -> Job]
    <3>1. CASE job' = [job EXCEPT ![j].pc = after, ![j].recorded = @ + 1]
      BY <1>0, <2>3, <3>1
    <3>2. CASE job' = [job EXCEPT ![j].pc = after]
      BY <1>0, <2>3, <3>2
    <3> QED  BY <2>4, <3>1, <3>2
  <2>7. UNCHANGED <<row, sha, head, pipeline, inflight>>  BY <1>7 DEF RecordRelease
  <2> QED  BY <2>5, <2>6, <2>7 DEF TypeOK, Job, Release, pipeline
<1>8. CASE RollbackToLastGood(j)
  <2>1. ASSUME NEW r \in LastGood
        PROVE  [job[j] EXCEPT !.pc = "next", !.kind = "auto", !.plan = releases[r].members,
                              !.todo = releases[r].members, !.done = {}, !.target = r] \in Job
    <3>1. releases[r].members \in SUBSET Members /\ r \in Nat
      BY <1>r DEF LastGood, Release
    <3> QED  BY <1>0, <3>1 DEF Job, JobPcs, Active
  <2>2. [job[j] EXCEPT !.pc = "end"] \in Job  BY <1>0 DEF Job, JobPcs, Active
  <2>3. job' \in [Jobs -> Job]
    <3>1. CASE job' = [job EXCEPT ![j].pc = "end"]  BY <1>0, <2>2, <3>1
    <3> QED  BY <1>8, <2>1, <3>1, <1>j DEF RollbackToLastGood
  <2> QED  BY <1>8, <2>3, <1>s DEF RollbackToLastGood, TypeOK
<1>9. CASE EndJob(j)
  <2>1. [job[j] EXCEPT !.pc = "over"] \in Job
    BY <1>0 DEF Job, JobPcs
  <2>2. job' \in [Jobs -> Job]  BY <1>0, <1>9, <2>1 DEF EndJob
  <2> QED  BY <1>9, <2>2, <1>s DEF EndJob
<1>10. CASE PanicMember(j)
  <2>1. [job[j] EXCEPT !.pc = "end"] \in Job  BY <1>0 DEF Job, JobPcs, Active
  <2>2. job' \in [Jobs -> Job]  BY <1>0, <1>10, <2>1 DEF PanicMember
  <2>3. /\ slot' = "free" /\ running' = NoDep /\ over' = over \cup {job[j].cur}
        /\ UNCHANGED <<row, sha, head, inflight, releases>>
    BY <1>10 DEF PanicMember
  <2>4. over' \subseteq Deployments  BY <1>10, <2>3 DEF PanicMember, TypeOK, SlotHeld
  <2> QED  BY <2>2, <2>3, <2>4 DEF TypeOK, Job
<1> QED
  BY <1>1, <1>2, <1>3, <1>4, <1>5, <1>6, <1>7, <1>8, <1>9, <1>10 DEF JobAction, JobStep

-----------------------------------------------------------------------------
(* The inductive invariant *)

Swapped == {"live", "replaced"}
Targets(D) == {TargetOf[d] : d \in D}

\* The deployment in the slot exists and is not over; over means it existed.
RunInv ==
    /\ slot # "free" => running \in Deployments \ over /\ row[running] # "none"
    /\ \A d \in over : row[d] # "none"

\* How far job j is.  Of its plan, what is not left was swapped in; in a
\* rollout that is still going nothing else was done.
PlanInv(j) ==
    job[j].pc # "idle" =>
        /\ job[j].done \subseteq over \ Singles
        /\ job[j].todo \subseteq job[j].plan
        /\ Targets(job[j].done) \subseteq job[j].plan
        /\ \A m \in job[j].plan \ job[j].todo :
              \E d \in job[j].done : TargetOf[d] = m /\ row[d] \in Swapped
        /\ job[j].pc = "deploying" =>
              /\ job[j].cur \in Deployments \ Singles
              /\ IsFirst(TargetOf[job[j].cur], job[j].todo)
        /\ job[j].pc \in {"next", "deploying"} \/ job[j].todo = {} \/ job[j].kind = "deploy" =>
              \A d \in job[j].done : row[d] \in Swapped /\ TargetOf[d] \notin job[j].todo
        /\ job[j].kind = "deploy" =>
              /\ job[j].plan = Members
              /\ \A d, e \in job[j].done : TargetOf[d] = TargetOf[e] => d = e
        /\ job[j].kind # "deploy" => job[j].plan = releases[job[j].target].members
        /\ job[j].kind = "auto" => releases[job[j].target].status = "succeeded"

\* What a recorded release says stays true, of rows that are over for good.
ReleaseInv(r) ==
    /\ releases[r].status \in {"succeeded", "rolled_back"} =>
          /\ releases[r].deps \subseteq over \ Singles
          /\ releases[r].members = Targets(releases[r].deps)
          /\ \A d \in releases[r].deps : row[d] \in Swapped
    /\ releases[r].status = "succeeded" =>
          /\ releases[r].members = Members
          /\ \A d, e \in releases[r].deps : TargetOf[d] = TargetOf[e] => d = e
    /\ releases[r].status = "rolled_back" =>
          /\ releases[r].from \in 1 .. r - 1
          /\ releases[r].members = releases[releases[r].from].members

RolloutInv ==
    /\ TypeOK /\ SlotHeld /\ TargetKnown
    /\ RunInv
    /\ \A j \in Jobs : PlanInv(j)
    /\ \A r \in DOMAIN releases : ReleaseInv(r)

LEMMA InitInv == Init => RolloutInv
<1> SUFFICES ASSUME Init PROVE RolloutInv
  OBVIOUS
<1>1. \A j \in Jobs : job[j].pc = "idle" /\ job[j].kind = "none"  BY DEF Init, IdleJob
<1>2. slot = "free" /\ over = {} /\ DOMAIN releases = {}  BY DEF Init
<1> QED
  BY <1>1, <1>2, TypeInit DEF RolloutInv, SlotHeld, TargetKnown, RunInv, PlanInv

\* A release once written stays as it was written.
LEMMA ReleasesGrow ==
    ASSUME TypeOK, Next
    PROVE  /\ DOMAIN releases \subseteq DOMAIN releases'
           /\ \A r \in DOMAIN releases : releases'[r] = releases[r]
<1>1. CASE \E j \in Jobs : RecordRelease(j)
  <2>1. PICK j \in Jobs : RecordRelease(j)  BY <1>1
  <2>2. UNCHANGED releases \/ \E x : releases' = Append(releases, x)
    BY <2>1 DEF RecordRelease
  <2>3. ASSUME NEW x, releases' = Append(releases, x)
        PROVE  /\ DOMAIN releases \subseteq DOMAIN releases'
               /\ \A r \in DOMAIN releases : releases'[r] = releases[r]
    <3>1. releases \in Seq(Release)  BY DEF TypeOK, Release
    <3>2. releases \in Seq(Release \cup {x}) /\ x \in Release \cup {x}  BY <3>1
    <3> QED  BY <2>3, <3>2, AppendProperties
  <2> QED  BY <2>2, <2>3
<1>2. CASE ~\E j \in Jobs : RecordRelease(j)
  <2>1. UNCHANGED releases
    BY <1>2 DEF Next, Push, SingleDeploy, Work, PipelineStep, RetirePrior, GoLive, Fail, Return,
                PanicSingle, Deploy, Rollback, JobStep, StartMember, StartMemberFails, MemberDone,
                AllDone, RollbackToLastGood, PanicMember, EndJob, Crash
  <2> QED  BY <2>1
<1> QED  BY <1>1, <1>2

\* Only its own steps and a crash change a job.
LEMMA JobFrame ==
    ASSUME TypeOK, NEW j \in Jobs, JobAction(j), NEW k \in Jobs, k # j
    PROVE  job'[k] = job[k]
BY DEF TypeOK, JobAction, JobStep, Deploy, Rollback, StartJob, StartMember, StartMemberFails,
       MemberDone, AllDone, RecordRelease, RollbackToLastGood, EndJob, PanicMember

\* A deployment outside the slot that is over keeps its place in the world.
LEMMA OverStable ==
    ASSUME TypeOK, RunInv, Next
    PROVE  /\ over \subseteq over'
           /\ \A d \in over \ Singles : row[d] \in Swapped => row'[d] \in Swapped
           /\ RunInv'
<1> DEFINE Goal == /\ over \subseteq over'
                   /\ \A d \in over \ Singles : row[d] \in Swapped => row'[d] \in Swapped
                   /\ RunInv'
<1>t. /\ row \in [Deployments -> {"none", "queued", "working", "live", "failed", "replaced"}]
      /\ over \subseteq Deployments
  BY DEF TypeOK
<1>1. ASSUME UNCHANGED <<row, pipeline>> PROVE Goal
  BY <1>1 DEF RunInv, pipeline
<1>2. ASSUME NEW m \in Members, Push(m) PROVE Goal
  BY <1>1, <1>2 DEF Push
<1>3. ASSUME NEW d \in Deployments, PipelineAction(d) PROVE Goal
  <2> USE <1>t DEF RunInv, Swapped
  <2>1. CASE SingleDeploy(d)  BY <2>1 DEF SingleDeploy, Ledger!Enqueue, pipeline
  <2>2. CASE Work(d)  BY <2>2 DEF Work, Ledger!Begin
  <2>3. CASE RetirePrior(d)  BY <2>3 DEF RetirePrior, Ledger!Replace
  <2>4. CASE GoLive(d)  BY <2>4 DEF GoLive, Ledger!Promote
  <2>5. CASE Fail(d)  BY <2>5 DEF Fail, Ledger!Fail
  <2>6. CASE Return(d)  BY <2>6 DEF Return
  <2>7. CASE PanicSingle(d)  BY <2>7 DEF PanicSingle, Ledger!Fail
  <2> QED
    BY <1>3, <2>1, <2>2, <2>3, <2>4, <2>5, <2>6, <2>7 DEF PipelineAction, PipelineStep
<1>4. ASSUME NEW j \in Jobs, JobAction(j) PROVE Goal
  <2>1. CASE StartMember(j)
    <3>1. PICK d \in Deployments : row[d] = "none" /\ row' = [row EXCEPT ![d] = "queued"]
      BY <2>1 DEF StartMember, Ledger!Enqueue
    <3>2. UNCHANGED pipeline  BY <2>1 DEF StartMember
    <3> QED  BY <1>t, <3>1, <3>2 DEF RunInv, Swapped, pipeline
  <2>2. CASE PanicMember(j)
    BY <1>t, <2>2 DEF PanicMember, RunInv
  <2>3. CASE ~StartMember(j) /\ ~PanicMember(j)
    <3>1. UNCHANGED <<row, pipeline>>
      BY <1>4, <2>3 DEF JobAction, JobStep, Deploy, Rollback, StartMemberFails, MemberDone,
                        AllDone, RecordRelease, RollbackToLastGood, EndJob
    <3> QED  BY <1>1, <3>1
  <2> QED  BY <2>1, <2>2, <2>3
<1>5. CASE Crash
  BY <1>t, <1>5 DEF Crash, RunInv
<1> QED  BY <1>2, <1>3, <1>4, <1>5, NextCases

\* A job that does not move keeps its plan; so does one that only gives up.
LEMMA PlanKept ==
    ASSUME RolloutInv, Next, NEW j \in Jobs,
           \/ job'[j] = job[j]
           \/ \E p \in {"record", "rollback", "end", "over"}, n \in Nat :
                 /\ job[j].pc # "idle"
                 /\ job'[j] = [[job[j] EXCEPT !.pc = p] EXCEPT !.recorded = n]
    PROVE  PlanInv(j)'
<1>1. /\ over \subseteq over'
      /\ \A d \in over \ Singles : row[d] \in Swapped => row'[d] \in Swapped
  BY OverStable DEF RolloutInv
<1>2. \A r \in DOMAIN releases : releases'[r] = releases[r]
  BY ReleasesGrow DEF RolloutInv
<1>3. PlanInv(j)  BY DEF RolloutInv
<1>4. job[j].pc # "idle" /\ job[j].kind # "deploy" => job[j].target \in DOMAIN releases
  BY DEF RolloutInv, TargetKnown
<1>5. job[j] \in Job  BY DEF RolloutInv, TypeOK, Job
<1>6. /\ job'[j].plan = job[j].plan /\ job'[j].todo = job[j].todo /\ job'[j].done = job[j].done
      /\ job'[j].kind = job[j].kind /\ job'[j].target = job[j].target
      /\ job'[j].cur = job[j].cur
      /\ job'[j].pc \in {"next", "deploying"} => job'[j].pc = job[j].pc
      /\ job'[j].pc # "idle" => job[j].pc # "idle"
  BY <1>5 DEF Job
<1>7. CASE job'[j].pc = "idle"  BY <1>7 DEF PlanInv
<1>8. CASE job'[j].pc # "idle"
  <2>1. job[j].done \subseteq over \ Singles  BY <1>3, <1>6, <1>8 DEF PlanInv
  <2>2. \A d \in job[j].done : row[d] \in Swapped => row'[d] \in Swapped  BY <1>1, <2>1
  <2>3. /\ job[j].kind # "deploy" => releases'[job[j].target] = releases[job[j].target]
        /\ job[j].kind = "auto" => releases'[job[j].target] = releases[job[j].target]
    BY <1>2, <1>4, <1>6, <1>8
  <2>4. \A m \in job'[j].plan \ job'[j].todo :
           \E e \in job'[j].done : TargetOf[e] = m /\ row'[e] \in Swapped
    BY <1>3, <1>6, <1>8, <2>2 DEF PlanInv
  <2>5. job'[j].pc = "deploying" =>
           /\ job'[j].cur \in Deployments \ Singles
           /\ IsFirst(TargetOf[job'[j].cur], job'[j].todo)
    BY <1>3, <1>6, <1>8 DEF PlanInv
  <2>6. job'[j].pc \in {"next", "deploying"} \/ job'[j].todo = {} \/ job'[j].kind = "deploy" =>
           \A d \in job'[j].done : row'[d] \in Swapped /\ TargetOf[d] \notin job'[j].todo
    BY <1>3, <1>6, <1>8, <2>2 DEF PlanInv
  <2>7. job'[j].done \subseteq over' \ Singles
    BY <1>1, <1>6, <2>1
  <2>8. /\ job'[j].todo \subseteq job'[j].plan
        /\ Targets(job'[j].done) \subseteq job'[j].plan
    BY <1>3, <1>6, <1>8 DEF PlanInv
  <2>9. job'[j].kind = "deploy" =>
           /\ job'[j].plan = Members
           /\ \A d, e \in job'[j].done : TargetOf[d] = TargetOf[e] => d = e
    <3>1. job[j].kind = "deploy" =>
             /\ job[j].plan = Members
             /\ \A d, e \in job[j].done : TargetOf[d] = TargetOf[e] => d = e
      BY <1>3, <1>6, <1>8 DEF PlanInv
    <3> QED  BY <1>6, <3>1
  <2>10. /\ job'[j].kind # "deploy" => job'[j].plan = releases'[job'[j].target].members
         /\ job'[j].kind = "auto" => releases'[job'[j].target].status = "succeeded"
    BY <1>3, <1>6, <1>8, <2>3 DEF PlanInv
  <2> QED  BY <2>4, <2>5, <2>6, <2>7, <2>8, <2>9, <2>10 DEF PlanInv
<1> QED  BY <1>7, <1>8

\* A job starts with its whole plan ahead of it.
LEMMA PlanStarts ==
    ASSUME RolloutInv, NEW j \in Jobs, Deploy(j) \/ Rollback(j)
    PROVE  PlanInv(j)'
<1>0. job \in [Jobs -> Job]  BY DEF RolloutInv, TypeOK, Job
<1>1. CASE Deploy(j)
  <2>1. StartJob(j, "deploy", Members, NoRelease)  BY <1>1 DEF Deploy
  <2>2. /\ job'[j].pc = "next" /\ job'[j].kind = "deploy" /\ job'[j].plan = Members
        /\ job'[j].todo = Members /\ job'[j].done = {}
    BY <1>0, <2>1 DEF StartJob, IdleJob
  <2> QED  BY <2>2 DEF PlanInv, Targets
<1>2. CASE Rollback(j)
  <2>1. PICK r \in DOMAIN releases : StartJob(j, "rollback", releases[r].members, r)
    BY <1>2 DEF Rollback
  <2> DEFINE M == releases[r].members
  <2>2. /\ job'[j].pc = "next" /\ job'[j].kind = "rollback" /\ job'[j].plan = M
        /\ job'[j].todo = M /\ job'[j].done = {} /\ job'[j].target = r
    BY <1>0, <2>1 DEF StartJob, IdleJob
  <2>3. releases' = releases  BY <1>2 DEF Rollback
  <2> QED  BY <2>2, <2>3 DEF PlanInv, Targets
<1> QED  BY <1>1, <1>2

\* The member that is started is the first of what is left, and outside done.
LEMMA PlanStarted ==
    ASSUME RolloutInv, Next, NEW j \in Jobs, StartMember(j) \/ StartMemberFails(j)
    PROVE  PlanInv(j)'
<1>0. job \in [Jobs -> Job] /\ PlanInv(j) /\ job[j].pc = "next" /\ UNCHANGED releases
  BY DEF RolloutInv, TypeOK, Job, StartMember, StartMemberFails
<1>1. /\ over \subseteq over'
      /\ \A d \in over \ Singles : row[d] \in Swapped => row'[d] \in Swapped
  BY OverStable DEF RolloutInv
<1>2. \A d \in job[j].done : row[d] \in Swapped => row'[d] \in Swapped
  BY <1>0, <1>1 DEF PlanInv
<1>3. CASE StartMember(j)
  <2>1. PICK d \in Deployments \ Singles :
           /\ IsFirst(TargetOf[d], job[j].todo)
           /\ job' = [job EXCEPT ![j].pc = "deploying", ![j].cur = d]
    BY <1>3 DEF StartMember
  <2>2. /\ job'[j].pc = "deploying" /\ job'[j].cur = d /\ job'[j].kind = job[j].kind
        /\ job'[j].plan = job[j].plan /\ job'[j].todo = job[j].todo
        /\ job'[j].done = job[j].done /\ job'[j].target = job[j].target
    BY <1>0, <2>1 DEF Job
  <2> QED  BY <1>0, <1>1, <1>2, <2>1, <2>2 DEF PlanInv
<1>4. CASE StartMemberFails(j)
  <2>1. /\ job'[j].pc = "record" /\ job'[j].kind = job[j].kind
        /\ job'[j].plan = job[j].plan /\ job'[j].todo = job[j].todo
        /\ job'[j].done = job[j].done /\ job'[j].target = job[j].target
    BY <1>0, <1>4 DEF StartMemberFails, Job
  <2> QED  BY <1>0, <1>1, <1>2, <2>1 DEF PlanInv
<1> QED  BY <1>3, <1>4

\* The health barrier itself: a member leaves todo only by going live.
LEMMA PlanAdvances ==
    ASSUME RolloutInv, Next, NEW j \in Jobs, MemberDone(j)
    PROVE  PlanInv(j)'
<1> DEFINE d == job[j].cur
<1>0. /\ job \in [Jobs -> Job] /\ PlanInv(j) /\ job[j].pc = "deploying"
      /\ UNCHANGED <<row, over, releases>> /\ d \in over
  BY DEF RolloutInv, TypeOK, Job, MemberDone, pipeline
<1>1. /\ d \in Deployments \ Singles /\ TargetOf[d] \in job[j].todo
      /\ TargetOf[d] \in job[j].plan
  BY <1>0 DEF PlanInv, IsFirst
<1>2. /\ Targets(job[j].done) \subseteq job[j].plan
      /\ Targets(job[j].done \cup {d}) \subseteq job[j].plan
  BY <1>0, <1>1 DEF PlanInv, Targets
<1>3. CASE /\ row[d] = "live"
           /\ job' = [job EXCEPT ![j].pc = "next", ![j].done = @ \cup {d},
                                 ![j].todo = @ \ {TargetOf[d]}]
  <2>1. /\ job'[j].pc = "next" /\ job'[j].kind = job[j].kind
        /\ job'[j].plan = job[j].plan /\ job'[j].todo = job[j].todo \ {TargetOf[d]}
        /\ job'[j].done = job[j].done \cup {d} /\ job'[j].target = job[j].target
    BY <1>0, <1>3 DEF Job
  <2>2. \A e \in job[j].done : row[e] \in Swapped /\ TargetOf[e] \notin job[j].todo
    BY <1>0 DEF PlanInv
  <2>3. row[d] \in Swapped  BY <1>3 DEF Swapped
  <2>4. \A m \in job'[j].plan \ job'[j].todo :
           \E e \in job'[j].done : TargetOf[e] = m /\ row'[e] \in Swapped
    BY <1>0, <2>1, <2>3 DEF PlanInv
  <2>5. \A e \in job'[j].done : row'[e] \in Swapped /\ TargetOf[e] \notin job'[j].todo
    BY <1>0, <2>1, <2>2, <2>3
  <2>6. job[j].kind = "deploy" =>
           /\ job[j].plan = Members
           /\ \A e, f \in job'[j].done : TargetOf[e] = TargetOf[f] => e = f
    BY <1>0, <1>1, <2>1, <2>2 DEF PlanInv
  <2>7. /\ job'[j].done \subseteq over' \ Singles
        /\ job'[j].todo \subseteq job'[j].plan
        /\ Targets(job'[j].done) \subseteq job'[j].plan
    BY <1>0, <1>1, <1>2, <2>1 DEF PlanInv
  <2>8. /\ job'[j].kind # "deploy" => job'[j].plan = releases'[job'[j].target].members
        /\ job'[j].kind = "auto" => releases'[job'[j].target].status = "succeeded"
    BY <1>0, <2>1 DEF PlanInv
  <2> HIDE DEF d
  <2> QED  BY <2>1, <2>4, <2>5, <2>6, <2>7, <2>8 DEF PlanInv
<1>4. CASE job' = [job EXCEPT ![j].pc = "record",
                     ![j].done = IF job[j].kind # "deploy" THEN @ \cup {d} ELSE @]
  <2>1. /\ job'[j].pc = "record" /\ job'[j].kind = job[j].kind
        /\ job'[j].plan = job[j].plan /\ job'[j].todo = job[j].todo
        /\ job'[j].target = job[j].target
        /\ job[j].kind = "deploy" => job'[j].done = job[j].done
        /\ job[j].kind # "deploy" => job'[j].done = job[j].done \cup {d}
    BY <1>0, <1>4 DEF Job
  <2>2. job'[j].todo # {}  BY <1>1, <2>1
  <2>3. \A m \in job'[j].plan \ job'[j].todo :
           \E e \in job'[j].done : TargetOf[e] = m /\ row'[e] \in Swapped
    BY <1>0, <2>1 DEF PlanInv
  <2>4. /\ job'[j].done \subseteq over' \ Singles
        /\ job'[j].todo \subseteq job'[j].plan
    BY <1>0, <1>1, <2>1 DEF PlanInv
  <2>5. Targets(job'[j].done) \subseteq job'[j].plan
    BY <1>2, <2>1
  <2>6. job'[j].kind = "deploy" =>
           /\ job'[j].plan = Members
           /\ \A e \in job'[j].done : row'[e] \in Swapped /\ TargetOf[e] \notin job'[j].todo
           /\ \A e, f \in job'[j].done : TargetOf[e] = TargetOf[f] => e = f
    BY <1>0, <2>1 DEF PlanInv
  <2>7. /\ job'[j].kind # "deploy" => job'[j].plan = releases'[job'[j].target].members
        /\ job'[j].kind = "auto" => releases'[job'[j].target].status = "succeeded"
    BY <1>0, <2>1 DEF PlanInv
  <2> HIDE DEF d
  <2> QED  BY <2>1, <2>2, <2>3, <2>4, <2>5, <2>6, <2>7 DEF PlanInv
<1> QED  BY <1>3, <1>4 DEF MemberDone

LEMMA PlanGoesOn ==
    ASSUME RolloutInv, Next, NEW j \in Jobs,
           AllDone(j) \/ RecordRelease(j) \/ EndJob(j) \/ PanicMember(j)
    PROVE  PlanInv(j)'
<1>0. job \in [Jobs -> Job] /\ job[j] \in Job  BY DEF RolloutInv, TypeOK, Job
<1> SUFFICES \E p \in {"record", "rollback", "end", "over"}, n \in Nat :
                 /\ job[j].pc # "idle"
                 /\ job'[j] = [[job[j] EXCEPT !.pc = p] EXCEPT !.recorded = n]
  BY PlanKept
<1>1. job[j].recorded \in Nat /\ job[j].recorded + 1 \in Nat  BY <1>0 DEF Job
<1>2. \A p : [job[j] EXCEPT !.pc = p]
             = [[job[j] EXCEPT !.pc = p] EXCEPT !.recorded = job[j].recorded]
  BY <1>0 DEF Job
<1>3. CASE AllDone(j) \/ EndJob(j) \/ PanicMember(j)
  BY <1>0, <1>1, <1>2, <1>3 DEF AllDone, EndJob, PanicMember
<1>4. CASE RecordRelease(j)
  <2>1. PICK p \in {"rollback", "end"} :
           \/ job' = [job EXCEPT ![j].pc = p, ![j].recorded = @ + 1]
           \/ job' = [job EXCEPT ![j].pc = p]
    BY <1>4 DEF RecordRelease
  <2>2. job[j].pc # "idle"  BY <1>4 DEF RecordRelease
  <2>3. CASE job' = [job EXCEPT ![j].pc = p, ![j].recorded = @ + 1]
    <3>1. job'[j] = [[job[j] EXCEPT !.pc = p] EXCEPT !.recorded = job[j].recorded + 1]
      BY <1>0, <2>3 DEF Job
    <3> QED  BY <1>1, <2>2, <3>1
  <2>4. CASE job' = [job EXCEPT ![j].pc = p]
    BY <1>0, <1>1, <1>2, <2>2, <2>4
  <2> QED  BY <2>1, <2>3, <2>4
<1> QED  BY <1>3, <1>4

LEMMA PlanTurnsBack ==
    ASSUME RolloutInv, Next, NEW j \in Jobs, RollbackToLastGood(j)
    PROVE  PlanInv(j)'
<1>0. job \in [Jobs -> Job] /\ job[j] \in Job /\ releases' = releases
  BY DEF RolloutInv, TypeOK, Job, RollbackToLastGood
<1>1. ASSUME NEW r \in LastGood,
             job' = [job EXCEPT ![j] = [@ EXCEPT !.pc = "next", !.kind = "auto",
                        !.plan = releases[r].members, !.todo = releases[r].members,
                        !.done = {}, !.target = r]]
      PROVE  PlanInv(j)'
  <2> DEFINE M == releases[r].members
  <2>1. /\ job'[j].pc = "next" /\ job'[j].kind = "auto" /\ job'[j].plan = M
        /\ job'[j].todo = M /\ job'[j].done = {} /\ job'[j].target = r
    BY <1>0, <1>1 DEF Job
  <2>2. releases[r].status = "succeeded"  BY DEF LastGood
  <2> QED  BY <1>0, <2>1, <2>2 DEF PlanInv, Targets
<1>2. CASE job' = [job EXCEPT ![j].pc = "end"]
  <2>1. /\ job[j].recorded \in Nat /\ job[j].pc # "idle"
        /\ job'[j] = [[job[j] EXCEPT !.pc = "end"] EXCEPT !.recorded = job[j].recorded]
    BY <1>0, <1>2 DEF Job, RollbackToLastGood
  <2> QED  BY <2>1, PlanKept
<1> QED  BY <1>1, <1>2 DEF RollbackToLastGood

LEMMA PlanCrash ==
    ASSUME RolloutInv, Next, Crash
    PROVE  job' \in [Jobs -> Job] /\ \A j \in Jobs : PlanInv(j)'
<1>0. job \in [Jobs -> Job]  BY DEF RolloutInv, TypeOK, Job
<1>1. job' = [k \in Jobs |-> IF job[k].pc \in Active THEN [job[k] EXCEPT !.pc = "over"] ELSE job[k]]
  BY DEF Crash
<1>2. \A k \in Jobs : [job[k] EXCEPT !.pc = "over"] \in Job
  BY <1>0 DEF Job, JobPcs
<1>3. job' \in [Jobs -> Job]  BY <1>0, <1>1, <1>2
<1>4. ASSUME NEW j \in Jobs PROVE PlanInv(j)'
  <2>1. CASE job[j].pc \in Active
    <3>1. job[j] \in Job /\ job[j].pc # "idle" /\ job[j].recorded \in Nat
      BY <1>0, <2>1 DEF Active, Job
    <3>2. job'[j] = [[job[j] EXCEPT !.pc = "over"] EXCEPT !.recorded = job[j].recorded]
      BY <1>1, <2>1, <3>1 DEF Job
    <3> QED  BY <3>1, <3>2, PlanKept
  <2>2. CASE job[j].pc \notin Active
    <3>1. job'[j] = job[j]  BY <1>1, <2>2
    <3> QED  BY <3>1, PlanKept
  <2> QED  BY <2>1, <2>2
<1> QED  BY <1>3, <1>4

\* A release that says succeeded or rolled_back is written by a job with nothing
\* left to do.
LEMMA ReleaseStep ==
    ASSUME RolloutInv, Next, NEW r \in DOMAIN releases'
    PROVE  ReleaseInv(r)'
<1>a. releases \in Seq(Release) /\ job \in [Jobs -> Job]
  BY DEF RolloutInv, TypeOK, Release, Job
<1>0. /\ releases \in Seq(Release) /\ job \in [Jobs -> Job]
      /\ \A s \in DOMAIN releases : releases[s] \in Release /\ ReleaseInv(s)
  BY <1>a DEF RolloutInv
<1>1. /\ over \subseteq over'
      /\ \A d \in over \ Singles : row[d] \in Swapped => row'[d] \in Swapped
  BY OverStable DEF RolloutInv
<1>2. \A s \in DOMAIN releases : releases'[s] = releases[s]
  BY ReleasesGrow DEF RolloutInv
<1>3. CASE r \in DOMAIN releases
  <2>1. ReleaseInv(r) /\ releases'[r] = releases[r] /\ r \in 1 .. Len(releases)
    BY <1>0, <1>2, <1>3
  <2>2. releases[r].status = "rolled_back" => releases[r].from \in DOMAIN releases
    BY <1>0, <2>1 DEF ReleaseInv
  <2>3. releases[r].status = "rolled_back" =>
            releases'[releases[r].from] = releases[releases[r].from]
    BY <1>2, <2>2
  <2>4. releases[r].status \in {"succeeded", "rolled_back"} =>
            /\ releases'[r].deps \subseteq over' \ Singles
            /\ \A d \in releases'[r].deps : row'[d] \in Swapped
    BY <1>1, <2>1 DEF ReleaseInv
  <2> QED  BY <2>1, <2>3, <2>4 DEF ReleaseInv
<1>4. CASE r \notin DOMAIN releases
  <2>1. PICK j \in Jobs : RecordRelease(j)
    <3>1. releases' # releases  BY <1>4
    <3> QED
      BY <3>1 DEF Next, Push, SingleDeploy, Work, PipelineStep, RetirePrior, GoLive, Fail, Return,
                PanicSingle, Deploy, Rollback, JobStep, StartMember, StartMemberFails, MemberDone,
                AllDone, RollbackToLastGood, PanicMember, EndJob, Crash
  <2> DEFINE succeeded == job[j].todo = {}
             release == [status |-> ReleaseStatus(j),
                         members |-> SnapshotMembers(j), deps |-> job[j].done,
                         from |-> job[j].target]
  <2>2. releases' = Append(releases, release) /\ UNCHANGED <<row, over>>
    BY <1>4, <2>1 DEF RecordRelease, pipeline
  <2>3. r = Len(releases) + 1 /\ releases'[r] = release
    <3>1. releases \in Seq(Release \cup {release}) /\ release \in Release \cup {release}  BY <1>0
    <3> HIDE DEF release
    <3> QED  BY <1>4, <2>2, <3>1, AppendProperties, LenProperties
  <2>f. /\ releases'[r].deps = job[j].done /\ releases'[r].from = job[j].target
        /\ releases'[r].members = SnapshotMembers(j)
        /\ succeeded => releases'[r].status = IF job[j].kind = "deploy"
                                              THEN "succeeded" ELSE "rolled_back"
        /\ ~succeeded => releases'[r].status = "failed"
    BY <2>3 DEF ReleaseStatus
  <2>u. UNCHANGED <<row, over>>  BY <2>2
  <2> HIDE DEF release
  <2>4. PlanInv(j) /\ job[j].pc # "idle" /\ job[j] \in Job
    BY <1>0, <2>1 DEF RolloutInv, RecordRelease
  <2>5. CASE succeeded
    <3>1. SnapshotMembers(j) = Targets(job[j].done)
      BY <2>5 DEF SnapshotMembers, Targets
    <3>2. job[j].plan = Targets(job[j].done)
      BY <2>4, <2>5 DEF PlanInv, Targets
    <3>3. /\ job[j].done \subseteq over \ Singles
          /\ \A d \in job[j].done : row[d] \in Swapped
      BY <2>4, <2>5 DEF PlanInv
    <3>4. CASE job[j].kind = "deploy"
      <4>1. releases'[r].status = "succeeded"  BY <2>5, <2>f, <3>4
      <4>2. /\ job[j].plan = Members
            /\ \A d, e \in job[j].done : TargetOf[d] = TargetOf[e] => d = e
        BY <2>4, <3>4 DEF PlanInv
      <4> QED  BY <2>f, <2>u, <3>1, <3>2, <3>3, <4>1, <4>2 DEF ReleaseInv, Targets
    <3>5. CASE job[j].kind # "deploy"
      <4>1. releases'[r].status = "rolled_back"  BY <2>5, <2>f, <3>5
      <4>2. /\ job[j].target \in DOMAIN releases
            /\ job[j].plan = releases[job[j].target].members
        BY <2>4, <3>5 DEF PlanInv, RolloutInv, TargetKnown
      <4>3. /\ releases'[r].from \in 1 .. r - 1
            /\ releases'[job[j].target] = releases[job[j].target]
        BY <1>0, <1>2, <2>3, <2>f, <4>2
      <4> QED  BY <2>f, <2>u, <3>1, <3>2, <3>3, <4>1, <4>2, <4>3 DEF ReleaseInv, Targets
    <3> QED  BY <3>4, <3>5
  <2>6. CASE ~succeeded
    <3>1. releases'[r].status = "failed"  BY <2>f, <2>6
    <3> QED  BY <3>1 DEF ReleaseInv
  <2> QED  BY <2>5, <2>6
<1> QED  BY <1>3, <1>4

LEMMA HeldStep ==
    ASSUME RolloutInv, Next
    PROVE  SlotHeld'
<1>0. SlotHeld /\ (slot # "free" => running # NoDep)  BY DEF RolloutInv, SlotHeld
<1>1. ASSUME NEW d \in Deployments, PipelineAction(d) PROVE SlotHeld'
  <2>1. d # NoDep  BY DeploymentsAssumption
  <2> QED
    BY <1>0, <1>1, <2>1 DEF SlotHeld, PipelineAction, PipelineStep, SingleDeploy, Work,
       RetirePrior, GoLive, Fail, Return, PanicSingle, pipeline
<1>2. ASSUME NEW j \in Jobs, JobAction(j) PROVE SlotHeld'
  BY <1>0, <1>2 DEF SlotHeld, JobAction, JobStep, Deploy, Rollback, StartMember, StartMemberFails,
     MemberDone, AllDone, RecordRelease, RollbackToLastGood, EndJob, PanicMember, pipeline
<1>3. ASSUME NEW m \in Members, Push(m) PROVE SlotHeld'
  BY <1>0, <1>3 DEF SlotHeld, Push, pipeline
<1>4. CASE Crash  BY <1>4 DEF SlotHeld, Crash
<1> QED  BY <1>1, <1>2, <1>3, <1>4, NextCases

LEMMA TargetStep ==
    ASSUME RolloutInv, Next
    PROVE  TargetKnown'
<1> DEFINE Known(j) == IF job'[j].pc = "idle" THEN job'[j].kind = "none"
                       ELSE job'[j].kind # "deploy" => job'[j].target \in DOMAIN releases'
<1>0. job \in [Jobs -> Job] /\ TargetKnown /\ DOMAIN releases \subseteq DOMAIN releases'
  BY ReleasesGrow DEF RolloutInv, TypeOK, Job
<1>k. ASSUME NEW j \in Jobs,
             \/ job'[j] = job[j]
             \/ /\ job[j].pc # "idle" /\ job'[j].pc # "idle"
                /\ job'[j].kind = job[j].kind /\ job'[j].target = job[j].target
      PROVE  Known(j)
  BY <1>0, <1>k DEF TargetKnown
<1>1. ASSUME NEW j \in Jobs, JobAction(j) PROVE TargetKnown'
  <2>1. \A k \in Jobs \ {j} : job'[k] = job[k]  BY <1>1, JobFrame DEF RolloutInv
  <2>2. Known(j)
    <3>1. CASE Deploy(j)
      <4>1. job'[j].pc = "next" /\ job'[j].kind = "deploy"
        BY <1>0, <3>1 DEF Deploy, StartJob, IdleJob
      <4> QED  BY <4>1
    <3>2. CASE Rollback(j)
      <4>1. PICK r \in DOMAIN releases : StartJob(j, "rollback", releases[r].members, r)
        BY <3>2 DEF Rollback
      <4>2. job'[j].pc = "next" /\ job'[j].target = r
        BY <1>0, <4>1 DEF StartJob, IdleJob
      <4> QED  BY <1>0, <4>2
    <3>3. CASE RollbackToLastGood(j)
      <4>1. ASSUME NEW r \in LastGood,
                   job' = [job EXCEPT ![j] = [@ EXCEPT !.pc = "next", !.kind = "auto",
                              !.plan = releases[r].members, !.todo = releases[r].members,
                              !.done = {}, !.target = r]]
            PROVE  Known(j)
        <5>1. job'[j].pc = "next" /\ job'[j].target = r  BY <1>0, <4>1 DEF Job
        <5> QED  BY <1>0, <5>1 DEF LastGood
      <4>2. CASE job' = [job EXCEPT ![j].pc = "end"]
        <5>1. job[j].pc # "idle"  BY <3>3 DEF RollbackToLastGood
        <5>2. /\ job'[j].pc = "end"
              /\ job'[j].kind = job[j].kind /\ job'[j].target = job[j].target
          BY <1>0, <4>2 DEF Job
        <5> QED  BY <1>k, <5>1, <5>2
      <4> QED  BY <3>3, <4>1, <4>2 DEF RollbackToLastGood
    <3>4. CASE \/ StartMember(j) \/ StartMemberFails(j) \/ MemberDone(j) \/ AllDone(j)
               \/ EndJob(j) \/ PanicMember(j)
      <4>1. /\ job[j].pc # "idle" /\ job'[j].pc # "idle"
            /\ job'[j].kind = job[j].kind /\ job'[j].target = job[j].target
        <5>1. CASE StartMember(j)  BY <1>0, <5>1 DEF Job, StartMember
        <5>2. CASE StartMemberFails(j)  BY <1>0, <5>2 DEF Job, StartMemberFails
        <5>3. CASE MemberDone(j)  BY <1>0, <5>3 DEF Job, MemberDone
        <5>4. CASE AllDone(j)  BY <1>0, <5>4 DEF Job, AllDone
        <5>5. CASE EndJob(j)  BY <1>0, <5>5 DEF Job, EndJob
        <5>6. CASE PanicMember(j)  BY <1>0, <5>6 DEF Job, PanicMember
        <5> QED  BY <3>4, <5>1, <5>2, <5>3, <5>4, <5>5, <5>6
      <4> QED  BY <1>k, <4>1
    <3>5. CASE RecordRelease(j)
      <4>1. PICK p \in {"rollback", "end"} :
               \/ job' = [job EXCEPT ![j].pc = p, ![j].recorded = @ + 1]
               \/ job' = [job EXCEPT ![j].pc = p]
        BY <3>5 DEF RecordRelease
      <4>2. /\ job[j].pc # "idle" /\ job'[j].pc # "idle"
            /\ job'[j].kind = job[j].kind /\ job'[j].target = job[j].target
        BY <1>0, <3>5, <4>1 DEF Job, RecordRelease
      <4> QED  BY <1>k, <4>2
    <3> QED  BY <1>1, <3>1, <3>2, <3>3, <3>4, <3>5 DEF JobAction, JobStep
  <2> QED  BY <2>1, <2>2, <1>k DEF TargetKnown
<1>2. CASE Crash
  <2>1. \A j \in Jobs :
           \/ job'[j] = job[j]
           \/ /\ job[j].pc # "idle" /\ job'[j].pc # "idle"
              /\ job'[j].kind = job[j].kind /\ job'[j].target = job[j].target
    BY <1>0, <1>2 DEF Crash, Active, Job
  <2> QED  BY <1>k, <2>1 DEF TargetKnown
<1>3. CASE UNCHANGED job  BY <1>k, <1>3 DEF TargetKnown
<1>4. ASSUME NEW d \in Deployments, PipelineAction(d) PROVE UNCHANGED job
  BY <1>4 DEF PipelineAction, PipelineStep, SingleDeploy, Work, RetirePrior, GoLive, Fail,
     Return, PanicSingle
<1>5. ASSUME NEW m \in Members, Push(m) PROVE UNCHANGED job  BY <1>5 DEF Push
<1> QED  BY <1>1, <1>2, <1>3, <1>4, <1>5, NextCases

LEMMA TypeStep ==
    ASSUME RolloutInv, Next
    PROVE  TypeOK'
<1> USE DEF RolloutInv
<1>1. ASSUME NEW m \in Members, Push(m) PROVE TypeOK'
  BY <1>1 DEF Push, TypeOK, pipeline
<1>2. CASE Crash
  <2>1. job' \in [Jobs -> Job]  BY <1>2, PlanCrash
  <2>2. /\ slot' = "free" /\ running' = NoDep /\ inflight' = FALSE
        /\ over' \subseteq Deployments /\ UNCHANGED <<row, sha, head, releases>>
    BY <1>2 DEF Crash
  <2> QED  BY <2>1, <2>2 DEF TypeOK, Job
<1> QED  BY <1>1, <1>2, TypePipeline, TypeJob, NextCases

LEMMA InvStep == RolloutInv /\ [Next]_vars => RolloutInv'
<1> SUFFICES ASSUME RolloutInv, [Next]_vars PROVE RolloutInv'
  OBVIOUS
<1>1. CASE Next
  <2>1. TypeOK' /\ SlotHeld' /\ TargetKnown'  BY <1>1, TypeStep, HeldStep, TargetStep
  <2>2. RunInv'  BY <1>1, OverStable DEF RolloutInv
  <2>3. ASSUME NEW j \in Jobs PROVE PlanInv(j)'
    <3>1. ASSUME NEW k \in Jobs, JobAction(k) PROVE PlanInv(j)'
      <4>1. CASE k = j
        BY <1>1, <3>1, <4>1, PlanStarts, PlanStarted, PlanAdvances, PlanGoesOn, PlanTurnsBack
           DEF JobAction, JobStep
      <4>2. CASE k # j
        BY <1>1, <3>1, <4>2, JobFrame, PlanKept DEF RolloutInv
      <4> QED  BY <4>1, <4>2
    <3>2. CASE Crash  BY <1>1, <3>2, PlanCrash
    <3>3. ASSUME job' = job PROVE PlanInv(j)'  BY <1>1, <3>3, PlanKept
    <3>4. ASSUME NEW d \in Deployments, PipelineAction(d) PROVE job' = job
      BY <3>4 DEF PipelineAction, PipelineStep, SingleDeploy, Work, RetirePrior, GoLive, Fail,
         Return, PanicSingle
    <3>5. ASSUME NEW m \in Members, Push(m) PROVE job' = job  BY <3>5 DEF Push
    <3> QED  BY <1>1, <3>1, <3>2, <3>3, <3>4, <3>5, NextCases
  <2>4. \A r \in DOMAIN releases' : ReleaseInv(r)'  BY <1>1, ReleaseStep
  <2> QED  BY <2>1, <2>2, <2>3, <2>4 DEF RolloutInv
<1>2. CASE UNCHANGED vars
  BY <1>2 DEF vars, pipeline, RolloutInv, TypeOK, SlotHeld, TargetKnown, RunInv, PlanInv, ReleaseInv
<1> QED  BY <1>1, <1>2

LEMMA Invariant == Spec => []RolloutInv
BY InitInv, InvStep, PTL DEF Spec

-----------------------------------------------------------------------------
(* Theorems *)

\* Every variable of the rollouts has its type.
THEOREM RolloutTypes == Spec => []TypeOK
<1>1. RolloutInv => TypeOK  BY DEF RolloutInv
<1> QED  BY <1>1, Invariant, PTL

\* The in-memory guard serialises the jobs: whoever works holds it, alone.
THEOREM OneRollout == Spec => []OneRolloutAtATime
<1>1. Init => OneRolloutAtATime
  BY DEF Init, IdleJob, Active, OneRolloutAtATime
<1>2. RolloutInv /\ OneRolloutAtATime /\ [Next]_vars => OneRolloutAtATime'
  <2> SUFFICES ASSUME RolloutInv, OneRolloutAtATime, [Next]_vars PROVE OneRolloutAtATime'
    OBVIOUS
  <2>0. job \in [Jobs -> Job]  BY DEF RolloutInv, TypeOK, Job
  <2>s. ASSUME UNCHANGED <<inflight, job>> PROVE OneRolloutAtATime'
    BY <2>s DEF OneRolloutAtATime
  <2>1. ASSUME NEW m \in Members, Push(m) PROVE OneRolloutAtATime'
    BY <2>1, <2>s DEF Push
  <2>2. ASSUME NEW d \in Deployments, PipelineAction(d) PROVE OneRolloutAtATime'
    BY <2>2, <2>s DEF PipelineAction, PipelineStep, SingleDeploy, Work, RetirePrior, GoLive, Fail,
       Return, PanicSingle
  <2>3. ASSUME NEW j \in Jobs, JobAction(j) PROVE OneRolloutAtATime'
    <3>0. \A k \in Jobs \ {j} : job'[k] = job[k]  BY <2>3, JobFrame DEF RolloutInv
    <3>1. CASE Deploy(j) \/ Rollback(j)
      <4>1. ~inflight /\ inflight'  BY <3>1 DEF Deploy, Rollback
      <4> QED  BY <3>0, <4>1 DEF OneRolloutAtATime
    <3>2. CASE ~(Deploy(j) \/ Rollback(j))
      <4>1. job[j].pc \in Active
        BY <2>3, <3>2 DEF JobAction, JobStep, StartMember, StartMemberFails, MemberDone, AllDone,
           RecordRelease, RollbackToLastGood, EndJob, PanicMember, Active
      <4>2. inflight' = inflight \/ job'[j].pc = "over"
        BY <2>0, <2>3, <3>2 DEF JobAction, JobStep, StartMember, StartMemberFails, MemberDone,
           AllDone, RecordRelease, RollbackToLastGood, EndJob, PanicMember, Job
      <4> QED  BY <3>0, <4>1, <4>2 DEF OneRolloutAtATime, Active
    <3> QED  BY <3>1, <3>2
  <2>4. CASE Crash
    <3>1. \A k \in Jobs : job'[k].pc \notin Active
      BY <2>0, <2>4 DEF Crash, Active, Job
    <3> QED  BY <3>1 DEF OneRolloutAtATime
  <2>5. CASE UNCHANGED vars  BY <2>5, <2>s DEF vars
  <2> QED  BY <2>1, <2>2, <2>3, <2>4, <2>5, NextCases
<1> QED  BY <1>1, <1>2, Invariant, PTL DEF Spec

\* A member is deployed only after every member before it in the plan went
\* live under the same job, whatever fails, panics or crashes.
THEOREM BarrierHolds == Spec => []HealthBarrier
<1>1. RolloutInv => HealthBarrier
  <2> SUFFICES ASSUME RolloutInv, NEW j \in Jobs, job[j].pc = "deploying", NEW m \in job[j].plan,
                      Before(m, TargetOf[job[j].cur])
               PROVE  \E d \in job[j].done : TargetOf[d] = m /\ row[d] \in {"live", "replaced"}
    BY DEF HealthBarrier
  <2> DEFINE t == TargetOf[job[j].cur]
  <2>1. PlanInv(j) /\ job[j].cur \in Deployments /\ IsFirst(t, job[j].todo)
    BY DEF RolloutInv, PlanInv
  <2>2. t \in Members /\ m \in Members
    BY <2>1, MembersAssumption DEF RolloutInv, TypeOK
  <2>3. m \notin job[j].todo
    <3>1. m # t /\ ~Before(t, m)
      BY <2>2, MembersAssumption DEF Before
    <3> QED  BY <2>1, <3>1 DEF IsFirst
  <2> QED  BY <2>1, <2>3 DEF PlanInv, Swapped
<1> QED  BY <1>1, Invariant, PTL

\* A succeeded release is whole: one swapped-in deployment for each member.
THEOREM SucceededIsComplete == Spec => []SucceededReleaseIsComplete
<1>1. RolloutInv => SucceededReleaseIsComplete
  BY DEF RolloutInv, ReleaseInv, SucceededReleaseIsComplete, Targets, Swapped
<1> QED  BY <1>1, Invariant, PTL

\* A rolled_back release covers the release it went back to.
THEOREM RolledBackCovers == Spec => []RolledBackCoversTarget
<1>1. RolloutInv => RolledBackCoversTarget
  BY DEF RolloutInv, ReleaseInv, RolledBackCoversTarget, Swapped
<1> QED  BY <1>1, Invariant, PTL

\* An automatic rollback that came to its end redeployed the whole app.
THEOREM AutoRollbackWhole == Spec => []AutoRollbackIsWhole
<1>1. RolloutInv => AutoRollbackIsWhole
  <2> SUFFICES ASSUME RolloutInv, NEW j \in Jobs, job[j].kind = "auto", job[j].todo = {}
               PROVE  {TargetOf[d] : d \in job[j].done} = Members
    BY DEF AutoRollbackIsWhole
  <2>1. job[j].pc # "idle" /\ job[j].target \in DOMAIN releases
    BY DEF RolloutInv, TargetKnown
  <2>2. /\ job[j].plan = releases[job[j].target].members
        /\ releases[job[j].target].status = "succeeded"
        /\ Targets(job[j].done) = job[j].plan
    BY <2>1 DEF RolloutInv, PlanInv, Targets
  <2>3. releases[job[j].target].members = Members  BY <2>1, <2>2 DEF RolloutInv, ReleaseInv
  <2> QED  BY <2>2, <2>3 DEF Targets
<1> QED  BY <1>1, Invariant, PTL

-----------------------------------------------------------------------------
(* The newest release *)

\* Nobody deployed a member on its own.
Sole == \A d \in Singles : row[d] = "none"

\* A member's deployment that is not over is the one its job waits for.
Owned ==
    \A d \in Deployments \ Singles :
        row[d] # "none" /\ d \notin over
        => \E j \in Jobs : job[j].pc = "deploying" /\ job[j].cur = d

\* What a job has deployed stays live until it recorded its release.
DoneLive(j) ==
    \/ job[j].pc \in {"next", "deploying"}
    \/ job[j].pc = "record" /\ job[j].todo = {}
    => \A d \in job[j].done : row[d] = "live"

LatestFailed == releases # <<>> /\ releases[Len(releases)].status = "failed"
LatestLive ==
    releases # <<>> /\ releases[Len(releases)].status # "failed"
    => \A d \in releases[Len(releases)].deps : row[d] = "live"

\* A job that recorded a release and goes on recorded a failed one; one that is
\* about to end leaves behind what its release says.
Said(j) ==
    job[j].pc \in Active /\ job[j].recorded > 0
    => IF job[j].pc = "end" THEN LatestLive ELSE LatestFailed

Told == \A j \in Jobs : job[j].pc = "over" => job[j].recorded > 0
Idle == \A j \in Jobs : job[j].pc \notin Active

LatestInv == Sole => /\ \A j \in Jobs : DoneLive(j) /\ Said(j)
                     /\ Idle /\ Told => LatestLive

LEMMA LatestInit == Init => Owned /\ LatestInv
<1> SUFFICES ASSUME Init PROVE Owned /\ LatestInv
  OBVIOUS
<1>1. \A j \in Jobs : job[j].pc = "idle"  BY DEF Init, IdleJob
<1>2. releases = <<>> /\ \A d \in Deployments : row[d] = "none"  BY DEF Init
<1> QED  BY <1>1, <1>2 DEF Owned, LatestInv, DoneLive, Said, LatestLive, Active

LEMMA OwnedStep ==
    ASSUME RolloutInv, Owned, Next
    PROVE  Owned'
<1>0. /\ row \in [Deployments -> {"none", "queued", "working", "live", "failed", "replaced"}]
      /\ job \in [Jobs -> Job]
  BY DEF RolloutInv, TypeOK, Job
<1>1. CASE Crash  BY <1>1 DEF Crash, Owned
<1>2. ASSUME NEW d \in Deployments, PipelineAction(d) PROVE Owned'
  <2>1. /\ job' = job /\ over \subseteq over'
        /\ \A x \in Deployments \ Singles : row[x] = "none" => row'[x] = "none"
    BY <1>0, <1>2 DEF PipelineAction, PipelineStep, SingleDeploy, Work, RetirePrior, GoLive, Fail,
       Return, PanicSingle, pipeline, Ledger!Enqueue, Ledger!Begin, Ledger!Replace,
       Ledger!Promote, Ledger!Fail
  <2> QED  BY <2>1 DEF Owned
<1>3. ASSUME NEW j \in Jobs, JobAction(j) PROVE Owned'
  <2>1. \A k \in Jobs \ {j} : job'[k] = job[k]  BY <1>3, JobFrame DEF RolloutInv
  <2>2. CASE StartMember(j)
    <3>1. PICK d \in Deployments \ Singles :
             /\ row' = [row EXCEPT ![d] = "queued"]
             /\ job' = [job EXCEPT ![j].pc = "deploying", ![j].cur = d]
      BY <2>2 DEF StartMember, Ledger!Enqueue
    <3>2. job'[j].pc = "deploying" /\ job'[j].cur = d  BY <1>0, <3>1 DEF Job
    <3>3. over' = over /\ job[j].pc = "next"  BY <2>2 DEF StartMember, pipeline
    <3> QED  BY <1>0, <2>1, <3>1, <3>2, <3>3 DEF Owned
  <2>3. CASE ~StartMember(j)
    <3>1. row' = row /\ over \subseteq over'
      BY <1>3, <2>3 DEF JobAction, JobStep, Deploy, Rollback, StartMemberFails, MemberDone,
         AllDone, RecordRelease, RollbackToLastGood, EndJob, PanicMember, pipeline
    <3>2. job[j].pc = "deploying" => job[j].cur \in over'
      BY <1>3, <2>3 DEF JobAction, JobStep, Deploy, Rollback, StartMemberFails, MemberDone,
         AllDone, RecordRelease, RollbackToLastGood, EndJob, PanicMember, pipeline
    <3> QED  BY <2>1, <3>1, <3>2 DEF Owned
  <2> QED  BY <2>2, <2>3
<1>4. ASSUME NEW m \in Members, Push(m) PROVE Owned'  BY <1>4 DEF Push, Owned, pipeline
<1> QED  BY <1>1, <1>2, <1>3, <1>4, NextCases

\* Without single deployments the pipeline only touches rows of the member
\* that a job is deploying.
LEMMA MemberRows ==
    ASSUME RolloutInv, Owned, Sole, Sole', NEW d \in Deployments, PipelineAction(d),
           NEW x \in Deployments, row'[x] # row[x]
    PROVE  \E j \in Jobs : /\ job[j].pc = "deploying"
                           /\ TargetOf[x] = TargetOf[job[j].cur]
<1>0. /\ row \in [Deployments -> {"none", "queued", "working", "live", "failed", "replaced"}]
      /\ slot # "free" => running \in Deployments \ over /\ row[running] # "none"
  BY DEF RolloutInv, TypeOK, RunInv
<1>1. slot # "free" => \E j \in Jobs : job[j].pc = "deploying" /\ job[j].cur = running
  BY <1>0 DEF Owned, Sole
<1>2. CASE SingleDeploy(d)
  BY <1>0, <1>2 DEF SingleDeploy, Ledger!Enqueue, Sole
<1>3. CASE Work(d)
  <2>1. row[d] # "none" /\ d \notin over /\ x = d
    BY <1>0, <1>3 DEF Work, Ledger!Begin
  <2> QED  BY <2>1 DEF Owned, Sole
<1>4. CASE RetirePrior(d)
  <2>1. x = d /\ slot # "free" /\ TargetOf[d] = TargetOf[running]
    BY <1>0, <1>4 DEF RetirePrior, Ledger!Replace
  <2> QED  BY <1>1, <2>1
<1>5. CASE GoLive(d) \/ Fail(d) \/ PanicSingle(d)
  <2>1. x = d /\ slot # "free" /\ running = d
    BY <1>0, <1>5 DEF GoLive, Fail, PanicSingle, Ledger!Promote, Ledger!Fail
  <2> QED  BY <1>1, <2>1
<1>6. CASE Return(d)  BY <1>6 DEF Return
<1> QED  BY <1>2, <1>3, <1>4, <1>5, <1>6 DEF PipelineAction, PipelineStep

\* No row is ever deleted.
LEMMA RowsStay ==
    ASSUME TypeOK, Next, NEW d \in Deployments, row[d] # "none"
    PROVE  row'[d] # "none"
<1>0. row \in [Deployments -> {"none", "queued", "working", "live", "failed", "replaced"}]
  BY DEF TypeOK
<1>1. ASSUME NEW e \in Deployments, PipelineAction(e) PROVE row'[d] # "none"
  BY <1>0, <1>1 DEF PipelineAction, PipelineStep, SingleDeploy, Work, RetirePrior, GoLive, Fail,
     Return, PanicSingle, Ledger!Enqueue, Ledger!Begin, Ledger!Replace, Ledger!Promote,
     Ledger!Fail
<1>2. ASSUME NEW j \in Jobs, JobAction(j) PROVE row'[d] # "none"
  <2>1. CASE StartMember(j)  BY <1>0, <2>1 DEF StartMember, Ledger!Enqueue
  <2>2. CASE ~StartMember(j)
    BY <1>2, <2>2 DEF JobAction, JobStep, Deploy, Rollback, StartMemberFails, MemberDone,
       AllDone, RecordRelease, RollbackToLastGood, EndJob, PanicMember
  <2> QED  BY <2>1, <2>2
<1>3. ASSUME NEW m \in Members, Push(m) PROVE row'[d] # "none"  BY <1>3 DEF Push
<1>4. CASE Crash  BY <1>4 DEF Crash
<1> QED  BY <1>1, <1>2, <1>3, <1>4, NextCases

\* A request starts its job from nothing.
LEMMA StartsAnew ==
    ASSUME job \in [Jobs -> Job], NEW j \in Jobs, Deploy(j) \/ Rollback(j)
    PROVE  job'[j].pc = "next" /\ job'[j].done = {} /\ job'[j].recorded = 0
<1>1. ASSUME NEW k, NEW M, NEW r, StartJob(j, k, M, r)
      PROVE  job'[j].pc = "next" /\ job'[j].done = {} /\ job'[j].recorded = 0
  BY <1>1 DEF StartJob, IdleJob
<1>2. CASE Deploy(j)  BY <1>1, <1>2 DEF Deploy
<1>3. CASE Rollback(j)  BY <1>1, <1>3 DEF Rollback
<1> QED  BY <1>2, <1>3

\* A job that turns back starts over, or gives up.
LEMMA TurnsBack ==
    ASSUME job \in [Jobs -> Job], NEW j \in Jobs, RollbackToLastGood(j)
    PROVE  /\ job'[j].recorded = job[j].recorded
           /\ \/ job'[j].pc = "next" /\ job'[j].done = {}
              \/ job'[j].pc = "end"
<1>1. job[j] \in Job  OBVIOUS
<1>2. ASSUME NEW r \in LastGood,
             job' = [job EXCEPT ![j] = [@ EXCEPT !.pc = "next", !.kind = "auto",
                        !.plan = releases[r].members, !.todo = releases[r].members,
                        !.done = {}, !.target = r]]
      PROVE  /\ job'[j].recorded = job[j].recorded
             /\ job'[j].pc = "next" /\ job'[j].done = {}
  BY <1>1, <1>2 DEF Job
<1>3. ASSUME job' = [job EXCEPT ![j].pc = "end"]
      PROVE  job'[j].recorded = job[j].recorded /\ job'[j].pc = "end"
  BY <1>1, <1>3 DEF Job
<1> QED  BY <1>2, <1>3 DEF RollbackToLastGood

\* What the active job has deployed is not touched while it goes on.
LEMMA DoneLiveStep ==
    ASSUME RolloutInv, OneRolloutAtATime, Owned, Sole, Sole', NEW j \in Jobs, DoneLive(j), Next
    PROVE  DoneLive(j)'
<1>0. /\ row \in [Deployments -> {"none", "queued", "working", "live", "failed", "replaced"}]
      /\ job \in [Jobs -> Job] /\ job[j] \in Job
  BY DEF RolloutInv, TypeOK, Job
<1>d. job[j].done \subseteq Deployments  BY <1>0 DEF Job
<1>1. ASSUME job'[j] = job[j], \A x \in job[j].done : row[x] = "live" => row'[x] = row[x]
      PROVE  DoneLive(j)'
  BY <1>1 DEF DoneLive
<1>2. ASSUME NEW d \in Deployments, PipelineAction(d) PROVE DoneLive(j)'
  <2>1. job' = job
    BY <1>2 DEF PipelineAction, PipelineStep, SingleDeploy, Work, RetirePrior, GoLive, Fail,
       Return, PanicSingle
  <2>2. ASSUME NEW x \in job[j].done, row'[x] # row[x], job[j].pc \in Active
        PROVE  job[j].pc = "deploying" /\ TargetOf[x] \in job[j].todo
    <3>1. PICK k \in Jobs : /\ job[k].pc = "deploying"
                            /\ TargetOf[x] = TargetOf[job[k].cur]
      BY <1>2, <1>d, <2>2, MemberRows
    <3>2. k = j  BY <2>2, <3>1 DEF OneRolloutAtATime, Active
    <3> QED  BY <3>1, <3>2 DEF RolloutInv, PlanInv, IsFirst
  <2>3. ASSUME job[j].pc = "deploying", NEW x \in job[j].done
        PROVE  TargetOf[x] \notin job[j].todo
    BY <2>3 DEF RolloutInv, PlanInv
  <2>4. job[j].pc \in Active => \A x \in job[j].done : row'[x] = row[x]
    BY <2>2, <2>3
  <2> QED  BY <2>1, <2>4 DEF DoneLive, Active
<1>3. ASSUME NEW k \in Jobs, k # j, JobAction(k) PROVE DoneLive(j)'
  <2>1. job'[j] = job[j]  BY <1>3, JobFrame DEF RolloutInv
  <2>2. \A x \in Deployments : row[x] # "none" => row'[x] = row[x]
    <3>1. CASE StartMember(k)  BY <1>0, <3>1 DEF StartMember, Ledger!Enqueue
    <3>2. CASE ~StartMember(k)
      <4>1. row' = row
        BY <1>3, <3>2 DEF JobAction, JobStep, Deploy, Rollback, StartMemberFails, MemberDone,
           AllDone, RecordRelease, RollbackToLastGood, EndJob, PanicMember
      <4> QED  BY <4>1
    <3> QED  BY <3>1, <3>2
  <2> QED  BY <1>1, <1>d, <2>1, <2>2
<1>4. CASE Deploy(j) \/ Rollback(j)
  <2>1. job'[j].done = {}  BY <1>0, <1>4, StartsAnew
  <2> QED  BY <2>1 DEF DoneLive
<1>5. CASE StartMember(j)
  <2>1. PICK d \in Deployments \ Singles :
           /\ row[d] = "none" /\ row' = [row EXCEPT ![d] = "queued"]
           /\ job' = [job EXCEPT ![j].pc = "deploying", ![j].cur = d]
    BY <1>5 DEF StartMember, Ledger!Enqueue
  <2>2. job'[j].done = job[j].done /\ job[j].pc = "next"
    BY <1>0, <1>5, <2>1 DEF Job, StartMember
  <2> QED  BY <1>0, <1>d, <2>1, <2>2 DEF DoneLive
<1>6. CASE StartMemberFails(j)
  <2>1. job'[j].todo # {} /\ job'[j].pc = "record"
    BY <1>0, <1>6 DEF Job, StartMemberFails
  <2> QED  BY <2>1 DEF DoneLive
<1>7. CASE MemberDone(j)
  <2>1. job[j].pc = "deploying" /\ row' = row /\ TargetOf[job[j].cur] \in job[j].todo
    BY <1>7 DEF MemberDone, RolloutInv, PlanInv, IsFirst
  <2>2. \/ /\ row[job[j].cur] = "live" /\ job'[j].done = job[j].done \cup {job[j].cur}
           /\ job'[j].pc = "next"
        \/ job'[j].pc = "record" /\ job'[j].todo = job[j].todo
    <3>1. CASE /\ row[job[j].cur] = "live"
               /\ job' = [job EXCEPT ![j].pc = "next", ![j].done = @ \cup {job[j].cur},
                                     ![j].todo = @ \ {TargetOf[job[j].cur]}]
      BY <1>0, <3>1 DEF Job
    <3>2. CASE job' = [job EXCEPT ![j].pc = "record",
                 ![j].done = IF job[j].kind # "deploy" THEN @ \cup {job[j].cur} ELSE @]
      BY <1>0, <3>2 DEF Job
    <3> QED  BY <1>7, <3>1, <3>2 DEF MemberDone
  <2> QED  BY <2>1, <2>2 DEF DoneLive
<1>8. CASE AllDone(j)
  <2>1. job'[j].done = job[j].done /\ row' = row /\ job[j].pc = "next"
    BY <1>0, <1>8 DEF Job, AllDone
  <2> QED  BY <2>1 DEF DoneLive
<1>9. CASE RollbackToLastGood(j)
  <2>1. job'[j].done = {} \/ job'[j].pc = "end"
    BY <1>0, <1>9, TurnsBack
  <2> QED  BY <2>1 DEF DoneLive
<1>10. CASE RecordRelease(j) \/ EndJob(j) \/ PanicMember(j)
  <2>1. job'[j].pc \in {"rollback", "end", "over"}
    <3>1. CASE RecordRelease(j)
      <4>1. PICK p \in {"rollback", "end"} :
               \/ job' = [job EXCEPT ![j].pc = p, ![j].recorded = @ + 1]
               \/ job' = [job EXCEPT ![j].pc = p]
        BY <3>1 DEF RecordRelease
      <4> QED  BY <1>0, <4>1 DEF Job
    <3>2. CASE EndJob(j) \/ PanicMember(j)
      BY <1>0, <3>2 DEF Job, EndJob, PanicMember
    <3> QED  BY <1>10, <3>1, <3>2
  <2> QED  BY <2>1 DEF DoneLive
<1>11. CASE Crash
  <2>1. job'[j] = job[j] \/ job'[j].pc = "over"
    BY <1>0, <1>11 DEF Crash, Job
  <2> QED  BY <1>11, <2>1 DEF Crash, DoneLive
<1>12. ASSUME NEW m \in Members, Push(m) PROVE DoneLive(j)'
  BY <1>1, <1>12 DEF Push
<1> QED
  BY <1>2, <1>3, <1>4, <1>5, <1>6, <1>7, <1>8, <1>9, <1>10, <1>11, <1>12, NextCases
     DEF JobAction, JobStep

LEMMA LatestDeps ==
    ASSUME releases \in Seq(Release), releases # <<>>
    PROVE  releases[Len(releases)].deps \subseteq Deployments
<1>1. Len(releases) \in 1 .. Len(releases) /\ DOMAIN releases = 1 .. Len(releases)
  BY EmptySeq, LenProperties
<1>2. releases[Len(releases)] \in Release  BY <1>1
<1> QED  BY <1>2 DEF Release

\* A job that starts anew has recorded nothing.
LEMMA SaidStep ==
    ASSUME RolloutInv, OneRolloutAtATime, Owned, Sole, Sole', LatestInv, NEW j \in Jobs, Next
    PROVE  Said(j)'
<1>0. /\ job \in [Jobs -> Job] /\ job[j] \in Job /\ DoneLive(j) /\ Said(j)
      /\ releases \in Seq(Release)
  BY DEF RolloutInv, TypeOK, Job, Release, LatestInv
<1>r. releases # <<>> => releases[Len(releases)].deps \subseteq Deployments
  BY <1>0, LatestDeps
<1>1. ASSUME job'[j] = job[j], UNCHANGED <<row, releases>> PROVE Said(j)'
  BY <1>0, <1>1 DEF Said, LatestLive, LatestFailed
<1>2. ASSUME NEW d \in Deployments, PipelineAction(d) PROVE Said(j)'
  <2>1. UNCHANGED <<job, releases>>
    BY <1>2 DEF PipelineAction, PipelineStep, SingleDeploy, Work, RetirePrior, GoLive, Fail,
       Return, PanicSingle
  <2>2. ASSUME job[j].pc = "end", NEW x \in Deployments PROVE row'[x] = row[x]
    BY <1>2, <2>2, MemberRows DEF OneRolloutAtATime, Active
  <2>3. CASE job[j].pc = "end"
    BY <1>0, <1>r, <2>1, <2>2, <2>3 DEF Said, LatestLive
  <2>4. CASE job[j].pc # "end"
    BY <1>0, <2>1, <2>4 DEF Said, LatestFailed
  <2> QED  BY <2>3, <2>4
<1>3. ASSUME NEW k \in Jobs, k # j, JobAction(k) PROVE Said(j)'
  <2>1. job'[j] = job[j]  BY <1>3, JobFrame DEF RolloutInv
  <2>2. CASE job[j].pc \notin Active  BY <2>1, <2>2 DEF Said
  <2>3. CASE job[j].pc \in Active
    <3>1. inflight /\ job[k].pc \notin Active
      BY <1>3, <2>3 DEF OneRolloutAtATime
    <3>2. ~Deploy(k) /\ ~Rollback(k)  BY <3>1 DEF Deploy, Rollback
    <3>3. ~StartMember(k) /\ ~StartMemberFails(k) /\ ~MemberDone(k) /\ ~AllDone(k)
      BY <3>1 DEF Active, StartMember, StartMemberFails, MemberDone, AllDone
    <3>4. ~RecordRelease(k) /\ ~RollbackToLastGood(k) /\ ~EndJob(k) /\ ~PanicMember(k)
      BY <3>1 DEF Active, RecordRelease, RollbackToLastGood, EndJob, PanicMember
    <3> QED  BY <1>3, <3>2, <3>3, <3>4 DEF JobAction, JobStep
  <2> QED  BY <2>2, <2>3
<1>4. CASE Deploy(j) \/ Rollback(j)
  <2>1. job'[j].recorded = 0  BY <1>0, <1>4, StartsAnew
  <2> QED  BY <2>1 DEF Said
<1>5. CASE \/ StartMember(j) \/ StartMemberFails(j) \/ MemberDone(j) \/ AllDone(j)
           \/ RollbackToLastGood(j) \/ PanicMember(j)
  <2>1. /\ job'[j].recorded = job[j].recorded /\ releases' = releases
        /\ job[j].pc \in Active \ {"end"}
    <3>1. CASE StartMember(j)  BY <1>0, <3>1 DEF Job, StartMember, Active
    <3>2. CASE StartMemberFails(j)  BY <1>0, <3>2 DEF Job, StartMemberFails, Active
    <3>3. CASE MemberDone(j)  BY <1>0, <3>3 DEF Job, MemberDone, Active
    <3>4. CASE AllDone(j)  BY <1>0, <3>4 DEF Job, AllDone, Active
    <3>5. CASE RollbackToLastGood(j)
      BY <1>0, <3>5, TurnsBack DEF RollbackToLastGood, Active
    <3>6. CASE PanicMember(j)  BY <1>0, <3>6 DEF Job, PanicMember, Active
    <3> QED  BY <1>5, <3>1, <3>2, <3>3, <3>4, <3>5, <3>6
  <2> QED  BY <1>0, <2>1 DEF Said, LatestFailed, LatestLive
<1>6. CASE EndJob(j)
  <2>1. job'[j].pc = "over"  BY <1>0, <1>6 DEF Job, EndJob
  <2> QED  BY <2>1 DEF Said, Active
<1>7. CASE Crash
  <2>1. job'[j] = job[j] \/ job'[j].pc = "over"
    BY <1>0, <1>7 DEF Crash, Job
  <2> QED  BY <1>1, <1>7, <2>1 DEF Crash, Said, Active
<1>8. ASSUME NEW m \in Members, Push(m) PROVE Said(j)'
  BY <1>1, <1>8 DEF Push
<1>9. CASE RecordRelease(j)
  <2> DEFINE after == IF job[j].todo # {} /\ job[j].kind = "deploy" THEN "rollback" ELSE "end"
             release == [status |-> ReleaseStatus(j), members |-> SnapshotMembers(j),
                         deps |-> job[j].done, from |-> job[j].target]
  <2>1. job[j].pc = "record" /\ row' = row  BY <1>9 DEF RecordRelease
  <2>2. CASE releases' = releases /\ job' = [job EXCEPT ![j].pc = after]
    <3>1. job'[j].recorded = job[j].recorded  BY <1>0, <2>2 DEF Job
    <3> QED  BY <1>0, <2>1, <2>2, <3>1 DEF Said, Active, LatestFailed, LatestLive
  <2>3. CASE /\ releases' = Append(releases, release)
             /\ job' = [job EXCEPT ![j].pc = after, ![j].recorded = @ + 1]
    <3>1. job'[j].pc = after  BY <1>0, <2>3 DEF Job
    <3>2. releases' # <<>> /\ releases'[Len(releases')] = release
      <4>1. releases \in Seq(Release \cup {release}) /\ release \in Release \cup {release}
        BY <1>0
      <4> HIDE DEF release
      <4> QED  BY <2>3, <4>1, AppendProperties, LenProperties
    <3>3. release.status = ReleaseStatus(j) /\ release.deps = job[j].done
      OBVIOUS
    <3> HIDE DEF release
    <3>4. CASE job[j].todo # {}
      <4>1. LatestFailed'  BY <3>2, <3>3, <3>4 DEF LatestFailed, ReleaseStatus
      <4> QED  BY <4>1 DEF Said, LatestFailed, LatestLive
    <3>5. CASE job[j].todo = {}
      <4>1. \A d \in job[j].done : row[d] = "live"  BY <1>0, <2>1, <3>5 DEF DoneLive
      <4>2. LatestLive'  BY <2>1, <3>2, <3>3, <4>1 DEF LatestLive
      <4> QED  BY <3>1, <3>5, <4>2 DEF Said
    <3> QED  BY <3>4, <3>5
  <2> QED  BY <1>9, <2>2, <2>3 DEF RecordRelease
<1> QED
  BY <1>2, <1>3, <1>4, <1>5, <1>6, <1>7, <1>8, <1>9, NextCases DEF JobAction, JobStep

\* Between jobs no row of a release moves, so that what the last job left
\* behind stays true.
LEMMA IdleStep ==
    ASSUME RolloutInv, OneRolloutAtATime, Owned, Sole, Sole', LatestInv, Next, Idle', Told'
    PROVE  LatestLive'
<1>0. job \in [Jobs -> Job] /\ releases \in Seq(Release)
  BY DEF RolloutInv, TypeOK, Job, Release
<1>1. ASSUME LatestLive, UNCHANGED <<row, releases>> PROVE LatestLive'
  BY <1>1 DEF LatestLive
<1>2. ASSUME NEW j \in Jobs, job[j].pc = "end", job[j].recorded > 0 PROVE LatestLive
  BY <1>2 DEF LatestInv, Said, Active
<1>3. ASSUME NEW d \in Deployments, PipelineAction(d) PROVE LatestLive'
  <2>1. UNCHANGED <<job, releases>>
    BY <1>3 DEF PipelineAction, PipelineStep, SingleDeploy, Work, RetirePrior, GoLive, Fail,
       Return, PanicSingle
  <2>2. Idle /\ Told /\ LatestLive
    BY <2>1 DEF Idle, Told, LatestInv
  <2>3. \A x \in Deployments : row'[x] = row[x]
    BY <1>3, <2>2, MemberRows DEF Idle, Active
  <2>4. releases # <<>> => releases[Len(releases)].deps \subseteq Deployments
    BY <1>0, LatestDeps
  <2> QED  BY <2>1, <2>2, <2>3, <2>4 DEF LatestLive
<1>4. ASSUME NEW j \in Jobs, EndJob(j) PROVE LatestLive'
  <2>1. /\ job'[j].pc = "over" /\ job'[j].recorded = job[j].recorded
        /\ job[j].pc = "end" /\ UNCHANGED <<row, releases>>
    BY <1>0, <1>4 DEF EndJob, Job
  <2> QED  BY <1>1, <1>2, <2>1 DEF Told
<1>5. ASSUME NEW j \in Jobs, JobAction(j), ~EndJob(j) PROVE LatestLive'
  <2>1. job'[j].pc \in Active
    <3>1. CASE Deploy(j) \/ Rollback(j)
      BY <1>0, <3>1, StartsAnew DEF Active
    <3>2. CASE RecordRelease(j)
      <4>1. PICK p \in {"rollback", "end"} :
               \/ job' = [job EXCEPT ![j].pc = p, ![j].recorded = @ + 1]
               \/ job' = [job EXCEPT ![j].pc = p]
        BY <3>2 DEF RecordRelease
      <4> QED  BY <1>0, <4>1 DEF Job, Active
    <3>3. CASE RollbackToLastGood(j)
      BY <1>0, <3>3, TurnsBack DEF Active
    <3>4. CASE StartMember(j) \/ StartMemberFails(j) \/ AllDone(j) \/ PanicMember(j)
      BY <1>0, <3>4 DEF StartMember, StartMemberFails, AllDone, PanicMember, Job, Active
    <3>5. CASE MemberDone(j)
      BY <1>0, <3>5 DEF MemberDone, Job, Active
    <3> QED  BY <1>5, <3>1, <3>2, <3>3, <3>4, <3>5 DEF JobAction, JobStep
  <2> QED  BY <2>1 DEF Idle
<1>6. CASE Crash
  <2>1. UNCHANGED <<row, releases>>  BY <1>6 DEF Crash
  <2>2. \A j \in Jobs : /\ job'[j].pc = "over" <=> job[j].pc \in Active \cup {"over"}
                        /\ job'[j].recorded = job[j].recorded
    BY <1>0, <1>6 DEF Crash, Job, JobPcs, Active
  <2>3. CASE Idle
    <3>1. Told  BY <2>2 DEF Told
    <3> QED  BY <1>1, <2>1, <2>3, <3>1 DEF LatestInv
  <2>4. CASE ~Idle
    <3>1. PICK j \in Jobs : job[j].pc \in Active  BY <2>4 DEF Idle
    <3>2. job[j].recorded > 0  BY <2>2, <3>1 DEF Told
    <3>3. LatestLive
      BY <3>1, <3>2 DEF LatestInv, Said, LatestFailed, LatestLive
    <3> QED  BY <1>1, <2>1, <3>3
  <2> QED  BY <2>3, <2>4
<1>7. ASSUME NEW m \in Members, Push(m) PROVE LatestLive'
  <2>1. UNCHANGED <<job, row, releases>>  BY <1>7 DEF Push
  <2>2. Idle /\ Told  BY <2>1 DEF Idle, Told
  <2> QED  BY <1>1, <2>1, <2>2 DEF LatestInv
<1> QED  BY <1>3, <1>4, <1>5, <1>6, <1>7, NextCases

\* Between rollouts the newest release, unless it is a failed one, names what
\* runs: for every order of requests, failures, panics and crashes, as long as
\* no member was deployed on its own and every ended job recorded a release.
THEOREM LatestIsLive == Spec => []LatestReleaseIsLive
<1>1. RolloutInv /\ OneRolloutAtATime /\ Owned /\ LatestInv /\ [Next]_vars
      => Owned' /\ LatestInv'
  <2> SUFFICES ASSUME RolloutInv, OneRolloutAtATime, Owned, LatestInv, [Next]_vars
               PROVE  Owned' /\ LatestInv'
    OBVIOUS
  <2>1. CASE UNCHANGED vars
    BY <2>1 DEF vars, pipeline, Owned, LatestInv, Sole, DoneLive, Said, Idle, Told, LatestLive,
       LatestFailed
  <2>2. CASE Next
    <3>1. Owned'  BY <2>2, OwnedStep
    <3>2. Sole' => Sole
      <4>1. ASSUME NEW d \in Deployments, row[d] # "none" PROVE row'[d] # "none"
        BY <2>2, <4>1, RowsStay DEF RolloutInv
      <4> QED  BY <4>1, BoundsAssumption DEF Sole
    <3>3. ASSUME Sole', NEW j \in Jobs PROVE DoneLive(j)' /\ Said(j)'
      BY <2>2, <3>2, <3>3, DoneLiveStep, SaidStep DEF LatestInv
    <3>4. ASSUME Sole', Idle', Told' PROVE LatestLive'
      BY <2>2, <3>2, <3>4, IdleStep
    <3> QED  BY <3>1, <3>3, <3>4 DEF LatestInv
  <2> QED  BY <2>1, <2>2
<1>2. OneRolloutAtATime /\ LatestInv => LatestReleaseIsLive
  BY DEF OneRolloutAtATime, LatestInv, LatestReleaseIsLive, Sole, Idle, Told, LatestLive
<1> QED  BY <1>1, <1>2, Invariant, OneRollout, LatestInit, PTL DEF Spec
=============================================================================
