------------------------ MODULE DeployPipelineProofs ------------------------
(***************************************************************************)
(* Machine-checked proofs about DeployPipeline, for every set of           *)
(* deployments and targets.  The argument has layers, each inductive given *)
(* the ones before it:                                                     *)
(*   TypeOK          the shapes of the variables;                          *)
(*   SlotsInv        who holds the semaphore is exactly who is past        *)
(*                   Acquire, which serialises the pipeline;               *)
(*   RowInv          what a row says, given where its goroutine is, and    *)
(*                   that no row of a target is live while another one is  *)
(*                   about to become so;                                   *)
(*   ContainerInv    a container on trial is nobody's old container, and a *)
(*                   target that was ever live keeps one that is not on    *)
(*                   trial;                                                *)
(*   PcStatus, EndInv   which statuses a goroutine can meet at each place, *)
(*                   from which each step maps to a step of the ledger;    *)
(*   SwapInv         whose container has the canonical name and runs, at   *)
(*                   every place of a swap and between swaps;              *)
(*   PortInv         whose host port the proxy may name.                   *)
(***************************************************************************)
EXTENDS DeployPipeline, TLAPS, FiniteSetTheorems

\* What one deployment's goroutine, or its context, may do.
DeploymentStep(d) ==
    CreateDeployment(d) \/ Acquire(d) \/ Prepare(d) \/ Step(d) \/ Panic(d) \/ Timeout(d)

LEMMA NextCases ==
    Next <=> \/ \E d \in Deployments : DeploymentStep(d)
             \/ Shutdown \/ Drained \/ Crash \/ Restart
BY DEF Next, DeploymentStep

-----------------------------------------------------------------------------
(* Type correctness *)

\* Every variable keeps its type in every step, so that the later invariants
\* may use it.
LEMMA TypeInit == Init => TypeOK
BY TargetAssumption, DeploymentsAssumption
   DEF Init, TypeOK, StatusValues, PcValues, NoDep

LEMMA TypeStep ==
    ASSUME TypeOK, NEW d \in Deployments, DeploymentStep(d)
    PROVE  TypeOK'
<1> USE DEF TypeOK, Goto, SetStatus, rows, locals, docker, proxy, PcValues, InFlight, Waiting, Held,
            Building, Trial, Swap, Closing, StatusValues, Terminal
<1>0. TargetOf[d] \in Targets  BY TargetAssumption
<1>1. CASE CreateDeployment(d)  BY <1>1 DEF CreateDeployment
<1>2. CASE Acquire(d)  BY <1>2 DEF Acquire
<1>3. CASE Prepare(d)  BY <1>3 DEF Prepare
<1>4. CASE Dispatch(d)  BY <1>4 DEF Dispatch
<1>5. CASE StartBuild(d)  BY <1>5 DEF StartBuild
<1>6. CASE BuildImage(d)  BY <1>6 DEF BuildImage
<1>7. CASE CaptureOld(d)  BY <1>7 DEF CaptureOld, CanonicalHolders, Of, NoDep
<1>8. CASE RunContainer(d)  BY <1>8 DEF RunContainer, CutShort
<1>9. CASE HealthCheck(d)  BY <1>9 DEF HealthCheck
<1>10. CASE EnsureDomains(d)  BY <1>0, <1>10 DEF EnsureDomains, WriteUpstream
<1>11. CASE AbortNew(d)  BY <1>11 DEF AbortNew, StopContainer, CutShort
<1>12. CASE StopOld(d)  BY <1>12 DEF StopOld, StopContainer, CutShort
<1>13. CASE Rename(d)  BY <1>13 DEF Rename
<1>14. CASE MarkReplaced(d)  BY <1>14 DEF MarkReplaced, NewestLive, LiveRows, Of
<1>15. CASE GoLive(d)  BY <1>15 DEF GoLive
<1>16. CASE Finish(d)  BY <1>16 DEF Finish
<1>17. CASE Fail(d)  BY <1>17 DEF Fail
<1>18. CASE Release(d)  BY <1>18 DEF Release, Unwind, NoDep
<1>19. CASE RecoverPanic(d)  BY <1>19 DEF RecoverPanic
<1>20. CASE Panic(d)  BY <1>20 DEF Panic, Unwind, NoDep
<1>21. CASE Timeout(d)  BY <1>21 DEF Timeout
<1>22. CASE Retire(d)  BY <1>22 DEF Retire
<1> QED
  BY <1>1, <1>2, <1>3, <1>4, <1>5, <1>6, <1>7, <1>8, <1>9, <1>10, <1>11, <1>12, <1>13, <1>14,
     <1>15, <1>16, <1>17, <1>18, <1>19, <1>20, <1>21, <1>22 DEF DeploymentStep, Step

LEMMA TypeServer ==
    ASSUME TypeOK, Shutdown \/ Drained \/ Crash \/ Restart
    PROVE  TypeOK'
<1> USE DEF TypeOK, locals, docker, proxy
<1>1. CASE Shutdown  BY <1>1 DEF Shutdown
<1>2. CASE Exit  BY <1>2 DEF Exit, PcValues, NoDep
<1>3. CASE Restart
  <2>1. PICK active \in SUBSET Targets : Reconcile(active)
    BY <1>3 DEF Restart
  <2>2. \A t \in Targets : Reconcilable(t) # {} =>
          (CHOOSE x \in Reconcilable(t) : TRUE) \in Deployments \cup {NoDep}
    BY DEF Reconcilable, CanonicalHolders, Of
  <2>3. /\ route' \in [Targets -> {"none", "name", "port"}]
        /\ port' \in [Targets -> Deployments \cup {NoDep}]
    BY <2>1, <2>2 DEF Reconcile
  <2> QED  BY <1>3, <2>3 DEF Restart
<1> QED  BY <1>1, <1>2, <1>3 DEF Drained, Crash

\* Type correctness of the pipeline: rows, containers and routes only ever hold
\* the values their readers expect.
THEOREM TypeCorrect == Spec => []TypeOK
<1>1. TypeOK /\ [Next]_vars => TypeOK'
  <2> SUFFICES ASSUME TypeOK, [Next]_vars PROVE TypeOK'
    OBVIOUS
  <2>1. CASE UNCHANGED vars  BY <2>1 DEF vars, TypeOK
  <2>2. CASE Next  BY <2>2, NextCases, TypeStep, TypeServer
  <2> QED  BY <2>1, <2>2
<1> QED  BY TypeInit, <1>1, PTL DEF Spec

-----------------------------------------------------------------------------
(* The semaphore *)

SlotsInv ==
    /\ slots = {d \in Deployments : pc[d] \in Held}
    /\ Cardinality(slots) <= MaxBuilds

LEMMA SlotsInit == Init => SlotsInv
BY ConfigAssumption, FS_EmptySet
   DEF Init, SlotsInv, Held, Building, Trial, Swap, Closing

LEMMA RoomForOneMore ==
    ASSUME NEW S, NEW x, IsFiniteSet(S), NEW n \in Nat, Cardinality(S) < n
    PROVE  Cardinality(S \cup {x}) <= n
<1>1. Cardinality(S) \in Nat  BY FS_CardinalityType
<1>2. Cardinality(S \cup {x}) = IF x \in S THEN Cardinality(S) ELSE Cardinality(S) + 1
  BY FS_AddElement
<1> QED  BY <1>1, <1>2, SMT

LEMMA OneLess ==
    ASSUME NEW S, NEW x, IsFiniteSet(S), NEW n \in Nat, Cardinality(S) <= n
    PROVE  Cardinality(S \ {x}) <= n
<1>1. Cardinality(S) \in Nat  BY FS_CardinalityType
<1>2. Cardinality(S \ {x}) = IF x \in S THEN Cardinality(S) - 1 ELSE Cardinality(S)
  BY FS_RemoveElement
<1> QED  BY <1>1, <1>2, SMT

\* Acquire is the only step that adds a holder, and it waits for room; every
\* step that leaves Held (Release, a panic) frees the slot on its way.
LEMMA SlotsStep ==
    ASSUME TypeOK, SlotsInv, NEW d \in Deployments, DeploymentStep(d)
    PROVE  SlotsInv'
<1> USE DEF TypeOK, SlotsInv, Goto, rows, locals, docker, proxy, Held, Building, Trial, Swap,
            Closing
<1>a. IsFiniteSet(slots)
  BY DeploymentsAssumption, FS_Subset
<1>b. Cardinality(slots \ {d}) <= MaxBuilds
  BY <1>a, OneLess, ConfigAssumption
<1>1. CASE CreateDeployment(d)  BY <1>1 DEF CreateDeployment
<1>2. CASE Acquire(d)
  <2>1. Cardinality(slots) < MaxBuilds /\ slots' = slots \cup {d}  BY <1>2 DEF Acquire
  <2>2. Cardinality(slots') <= MaxBuilds
    BY <1>a, <2>1, RoomForOneMore, ConfigAssumption
  <2>3. slots' = {e \in Deployments : pc'[e] \in Held}
    BY <1>2 DEF Acquire
  <2> QED  BY <2>2, <2>3
<1>3. CASE Prepare(d)  BY <1>3 DEF Prepare
<1>4. CASE Dispatch(d)  BY <1>4 DEF Dispatch
<1>5. CASE StartBuild(d)  BY <1>5 DEF StartBuild
<1>6. CASE BuildImage(d)  BY <1>6 DEF BuildImage
<1>7. CASE CaptureOld(d)  BY <1>7 DEF CaptureOld
<1>8. CASE RunContainer(d)  BY <1>8 DEF RunContainer
<1>9. CASE HealthCheck(d)  BY <1>9 DEF HealthCheck
<1>10. CASE EnsureDomains(d)  BY <1>10 DEF EnsureDomains
<1>11. CASE AbortNew(d)  BY <1>11 DEF AbortNew
<1>12. CASE StopOld(d)  BY <1>12 DEF StopOld
<1>13. CASE Rename(d)  BY <1>13 DEF Rename
<1>14. CASE MarkReplaced(d)  BY <1>14 DEF MarkReplaced
<1>15. CASE GoLive(d)  BY <1>15 DEF GoLive
<1>16. CASE Finish(d)  BY <1>16 DEF Finish
<1>17. CASE Fail(d)  BY <1>17 DEF Fail
<1>18. CASE Release(d)
  <2>1. slots' = {e \in Deployments : pc'[e] \in Held}  BY <1>18 DEF Release, Unwind
  <2> QED  BY <1>b, <1>18, <2>1 DEF Release, Unwind
<1>19. CASE RecoverPanic(d)  BY <1>19 DEF RecoverPanic
<1>20. CASE Panic(d)
  <2>1. slots' = {e \in Deployments : pc'[e] \in Held}  BY <1>20 DEF Panic, Unwind
  <2> QED  BY <1>b, <1>20, <2>1 DEF Panic, Unwind
<1>21. CASE Timeout(d)  BY <1>21 DEF Timeout
<1>22. CASE Retire(d)  BY <1>22 DEF Retire
<1> QED
  BY <1>1, <1>2, <1>3, <1>4, <1>5, <1>6, <1>7, <1>8, <1>9, <1>10, <1>11, <1>12, <1>13, <1>14,
     <1>15, <1>16, <1>17, <1>18, <1>19, <1>20, <1>21, <1>22 DEF DeploymentStep, Step

\* A crash or the end of a drain empties the semaphore with the goroutines.
LEMMA SlotsServer ==
    ASSUME TypeOK, SlotsInv, Shutdown \/ Drained \/ Crash \/ Restart
    PROVE  SlotsInv'
<1> USE DEF TypeOK, SlotsInv, Held, Building, Trial, Swap, Closing
<1>1. CASE Shutdown  BY <1>1 DEF Shutdown
<1>2. CASE Exit
  <2>1. slots' = {d \in Deployments : pc'[d] \in Held}
    BY <1>2 DEF Exit, InFlight
  <2>2. Cardinality(slots') <= MaxBuilds
    BY <1>2, FS_EmptySet, ConfigAssumption DEF Exit
  <2> QED  BY <2>1, <2>2
<1>3. CASE Restart  BY <1>3 DEF Restart
<1> QED  BY <1>1, <1>2, <1>3 DEF Drained, Crash

\* The holders of a slot are exactly the deployments past Acquire.
THEOREM SlotsCorrect == Spec => []SlotsInv
<1>1. TypeOK /\ SlotsInv /\ [Next]_vars => SlotsInv'
  <2> SUFFICES ASSUME TypeOK, SlotsInv, [Next]_vars PROVE SlotsInv'
    OBVIOUS
  <2>1. CASE UNCHANGED vars  BY <2>1 DEF vars, SlotsInv
  <2>2. CASE Next  BY <2>2, NextCases, SlotsStep, SlotsServer
  <2> QED  BY <2>1, <2>2
<1> QED  BY TypeCorrect, SlotsInit, <1>1, PTL DEF Spec

\* No more than MaxBuilds deployments are ever between Acquire and Release.
THEOREM BuildsAreBounded == Spec => []BuildsBounded
<1>1. SlotsInv => BuildsBounded  BY DEF SlotsInv, BuildsBounded
<1> QED  BY SlotsCorrect, <1>1, PTL

-----------------------------------------------------------------------------
(* Rows *)

\* Where the goroutine of a live row may be.
Settled == {"finish", "release", "recover", "done", "dead"}

\* Between the SELECT and the UPDATE: what d read is the only row of the target
\* that can be live, but its own goroutine may have failed it meanwhile.
Chose(d) ==
    LET l == prev[d] IN
    /\ l \in Deployments \ {d} /\ TargetOf[l] = TargetOf[d]
    /\ pc[l] \in Settled /\ status[l] \in {"live", "failed"}
    /\ \A e \in Deployments : TargetOf[e] = TargetOf[d] /\ status[e] = "live" => e = l

RowInv ==
    /\ \A d \in Deployments : status[d] = "live" => pc[d] \in Settled
    /\ AtMostOneLive
    /\ \A d, e \in Deployments :
          pc[d] = "golive" /\ TargetOf[d] = TargetOf[e] => status[e] # "live"
    /\ \A d \in Deployments : pc[d] = "retire" => Chose(d)

LEMMA RowInit == Init => RowInv
BY DEF Init, RowInv, AtMostOneLive

\* With one build slot two deployments are never both past Acquire.
LEMMA OneHolder ==
    ASSUME MaxBuilds = 1, SlotsInv, IsFiniteSet(slots),
           NEW d \in slots, NEW e \in slots
    PROVE  d = e
<1>1. /\ Cardinality(slots) \in Nat
      /\ Cardinality(slots \ {d}) = Cardinality(slots) - 1
  <2>1. Cardinality(slots) \in Nat  BY FS_CardinalityType
  <2>2. Cardinality(slots \ {d}) = IF d \in slots THEN Cardinality(slots) - 1
                                   ELSE Cardinality(slots)
    BY FS_RemoveElement
  <2> QED  BY <2>1, <2>2
<1>2. IsFiniteSet(slots \ {d})  BY FS_RemoveElement
<1>3. Cardinality(slots \ {d}) \in Nat  BY <1>2, FS_CardinalityType
<1>4. Cardinality(slots \ {d}) = 0  BY <1>1, <1>3, SMT DEF SlotsInv
<1>5. slots \ {d} = {}  BY <1>2, <1>4, FS_EmptySet
<1> QED  BY <1>5

\* ... so whoever is past Acquire is alone there.
LEMMA HolderIsAlone ==
    ASSUME MaxBuilds = 1, TypeOK, SlotsInv,
           NEW d \in Deployments, NEW e \in Deployments, pc[d] \in Held, pc[e] \in Held
    PROVE  d = e
<1>1. IsFiniteSet(slots)  BY DeploymentsAssumption, FS_Subset DEF TypeOK
<1>2. d \in slots /\ e \in slots  BY DEF SlotsInv
<1> QED  BY <1>1, <1>2, OneHolder

\* No step but GoLive makes a row live, and it takes the row out of golive.
LEMMA RowStep ==
    ASSUME MaxBuilds = 1, "db" \notin Faults,
           TypeOK, SlotsInv, RowInv, NEW d \in Deployments, DeploymentStep(d)
    PROVE  RowInv'
<1> USE DEF TypeOK, RowInv, AtMostOneLive, Settled, Goto, SetStatus, rows, locals, docker, proxy
<1>1. CASE CreateDeployment(d)  BY <1>1 DEF CreateDeployment, Chose
<1>2. CASE Acquire(d)  BY <1>2 DEF Acquire, Chose
<1>3. CASE Prepare(d)  BY <1>3 DEF Prepare, Chose
<1>4. CASE Dispatch(d)  BY <1>4 DEF Dispatch, Chose
<1>5. CASE StartBuild(d)  BY <1>5 DEF StartBuild, Chose
<1>6. CASE BuildImage(d)  BY <1>6 DEF BuildImage, Chose
<1>7. CASE CaptureOld(d)  BY <1>7 DEF CaptureOld, Chose
<1>8. CASE RunContainer(d)  BY <1>8 DEF RunContainer, Chose
<1>9. CASE HealthCheck(d)  BY <1>9 DEF HealthCheck, Chose
<1>10. CASE EnsureDomains(d)  BY <1>10 DEF EnsureDomains, Chose
<1>11. CASE AbortNew(d)  BY <1>11 DEF AbortNew, Chose
<1>12. CASE StopOld(d)  BY <1>12 DEF StopOld, Chose
<1>13. CASE Rename(d)  BY <1>13 DEF Rename, Chose
<1>14. CASE MarkReplaced(d)
  <2>1. pc[d] = "mark" /\ status[d] # "live" /\ UNCHANGED status
    BY <1>14 DEF MarkReplaced
  <2>2. \A e \in Deployments : pc[e] \in {"golive", "retire"} => e = d
    BY <2>1, HolderIsAlone DEF Held, Swap
  <2>3. ASSUME NEW e \in Deployments, TargetOf[e] = TargetOf[d], status[e] = "live"
        PROVE  NewestLive(TargetOf[d]) = {e} /\ e # d
    <3>1. LiveRows(TargetOf[d]) = {e}  BY <2>3 DEF LiveRows, Of
    <3>2. e <= e  BY DeploymentsAssumption, SMT
    <3> QED  BY <2>1, <2>3, <3>1, <3>2 DEF NewestLive
  <2>4. CASE Goto(d, "golive") /\ UNCHANGED prev /\ NewestLive(TargetOf[d]) \ {d} = {}
    <3>1. \A e \in Deployments : TargetOf[e] = TargetOf[d] => status[e] # "live"
      BY <2>3, <2>4
    <3> QED  BY <2>1, <2>2, <2>4, <3>1
  <2>5. ASSUME NEW l \in NewestLive(TargetOf[d]) \ {d},
               prev' = [prev EXCEPT ![d] = l], Goto(d, "retire")
        PROVE  RowInv'
    <3>1. l \in Deployments \ {d} /\ TargetOf[l] = TargetOf[d] /\ status[l] = "live"
      BY <2>5 DEF NewestLive, LiveRows, Of
    <3>2. \A e \in Deployments : TargetOf[e] = TargetOf[d] /\ status[e] = "live" => e = l
      BY <3>1
    <3>3. Chose(d)'  BY <2>1, <2>5, <3>1, <3>2 DEF Chose
    <3> QED  BY <2>1, <2>2, <2>5, <3>3
  <2> QED  BY <1>14, <2>4, <2>5 DEF MarkReplaced
<1>22. CASE Retire(d)
  <2>1. pc[d] = "retire" /\ Chose(d)  BY <1>22 DEF Retire
  <2>2. \A e \in Deployments : pc[e] \in {"golive", "retire"} => e = d
    BY <2>1, HolderIsAlone DEF Held, Swap
  <2>3. /\ status' = [status EXCEPT ![prev[d]] = "replaced"]
        /\ pc' = [pc EXCEPT ![d] = "golive"]
    BY <1>22 DEF Retire
  <2>4. \A e \in Deployments : /\ status'[e] = "live" => status[e] = "live"
                              /\ TargetOf[e] = TargetOf[d] => status'[e] # "live"
    BY <2>1, <2>3 DEF Chose
  <2>5. pc[d] \notin Settled  BY <2>1
  <2> QED  BY <2>2, <2>3, <2>4, <2>5
<1>15. CASE GoLive(d)
  <2>1. \A e \in Deployments : pc[e] \in {"golive", "retire"} => e = d
    BY <1>15, HolderIsAlone DEF GoLive, Held, Swap
  <2> QED  BY <1>15, <2>1 DEF GoLive
<1>16. CASE Finish(d)  BY <1>16 DEF Finish, Chose
<1>17. CASE Fail(d)  BY <1>17 DEF Fail, Chose
<1>18. CASE Release(d)  BY <1>18 DEF Release, Unwind, Chose
<1>19. CASE RecoverPanic(d)  BY <1>19 DEF RecoverPanic, Chose
<1>20. CASE Panic(d)  BY <1>20 DEF Panic, Unwind, Held, Building, Trial, Swap, Closing, Chose
<1>21. CASE Timeout(d)  BY <1>21 DEF Timeout, Chose
<1> QED
  BY <1>1, <1>2, <1>3, <1>4, <1>5, <1>6, <1>7, <1>8, <1>9, <1>10, <1>11, <1>12, <1>13, <1>14,
     <1>15, <1>16, <1>17, <1>18, <1>19, <1>20, <1>21, <1>22 DEF DeploymentStep, Step

LEMMA RowServer ==
    ASSUME TypeOK, RowInv, Shutdown \/ Drained \/ Crash \/ Restart
    PROVE  RowInv'
<1> USE DEF TypeOK, RowInv, AtMostOneLive, Settled, Chose, locals
<1>1. CASE Shutdown  BY <1>1 DEF Shutdown
<1>2. CASE Exit  BY <1>2 DEF Exit, InFlight, Waiting, Held, Building, Trial, Swap, Closing
<1>3. CASE Restart  BY <1>3 DEF Restart
<1> QED  BY <1>1, <1>2, <1>3 DEF Drained, Crash

\* Rows and goroutines agree, for the semaphore of capacity one and as long as
\* no status UPDATE is lost.
THEOREM RowCorrect ==
    ASSUME MaxBuilds = 1, "db" \notin Faults
    PROVE  Spec => []RowInv
<1>1. TypeOK /\ SlotsInv /\ RowInv /\ [Next]_vars => RowInv'
  <2> SUFFICES ASSUME TypeOK, SlotsInv, RowInv, [Next]_vars PROVE RowInv'
    OBVIOUS
  <2>1. CASE UNCHANGED vars  BY <2>1 DEF vars, RowInv, AtMostOneLive, Chose
  <2>2. CASE Next  BY <2>2, NextCases, RowStep, RowServer
  <2> QED  BY <2>1, <2>2
<1> QED  BY TypeCorrect, SlotsCorrect, RowInit, <1>1, PTL DEF Spec

\* One live row per target, for the semaphore of capacity one that
\* cmd/server/main.go installs and as long as no status UPDATE is lost.
THEOREM OneLiveRow ==
    ASSUME MaxBuilds = 1, "db" \notin Faults
    PROVE  Spec => []AtMostOneLive
<1>1. RowInv => AtMostOneLive  BY DEF RowInv
<1> QED  BY RowCorrect, <1>1, PTL

-----------------------------------------------------------------------------
(* Containers *)

NotYetUp == {"none"} \cup Waiting \cup Building \cup Trial
PastRename == {"mark", "retire", "golive"} \cup Settled

TrialRuns == \A d \in Deployments : pc[d] \in {"health", "domains", "swap"} => run[d]
NamedPastRename == \A d \in Deployments : cname[d] = "canonical" => pc[d] \in PastRename
OldPastRename ==
    \A d \in Deployments : old[d] # NoDep =>
        pc[old[d]] \in PastRename /\ TargetOf[old[d]] = TargetOf[d]

\* The row read as live is one of the target.
PrevOfTarget ==
    \A d \in Deployments : pc[d] = "retire" => prev[d] \in Of(TargetOf[d]) \ {d}

\* The target needs a container, and the containers that are not on trial.
Needy(t) == \E d \in Of(t) : status[d] \in {"live", "replaced"} \/ pc[d] \in Swap
Proven(t) == {d \in Of(t) : run[d] /\ pc[d] \notin NotYetUp}

ContainerInv ==
    /\ TrialRuns
    /\ NamedPastRename
    /\ OldPastRename
    /\ PrevOfTarget
    /\ \A t \in Targets : Needy(t) => Proven(t) # {}

LEMMA ContainerInit == Init => ContainerInv
BY DEF Init, ContainerInv, TrialRuns, NamedPastRename, OldPastRename, PrevOfTarget, Needy, Of,
       Swap, NoDep

\* A step that makes no target needy and stops no proven container keeps the
\* fourth part.
LEMMA KeepsProven ==
    ASSUME ContainerInv,
           \A d \in Deployments :
              /\ status'[d] \in {"live", "replaced"} \/ pc'[d] \in Swap
                 => status[d] \in {"live", "replaced"} \/ pc[d] \in Swap
              /\ run[d] /\ pc[d] \notin NotYetUp => run'[d] /\ pc'[d] \notin NotYetUp
    PROVE  \A t \in Targets : Needy(t)' => Proven(t)' # {}
BY DEF ContainerInv, Needy, Proven, Of

\* A container is stopped either on trial, by its own deployment, or as the old
\* container of a deployment whose own one runs and is past its trial.
LEMMA ContainerStep ==
    ASSUME TypeOK, ContainerInv, NEW d \in Deployments, DeploymentStep(d)
    PROVE  ContainerInv'
<1> USE DEF TypeOK, Goto, SetStatus, rows, locals, docker, proxy, Settled, PastRename,
        NotYetUp, Waiting, Building, Trial, Swap
<1>0. /\ TrialRuns /\ NamedPastRename /\ OldPastRename /\ PrevOfTarget
      /\ NoDep \notin Deployments
  BY DeploymentsAssumption DEF ContainerInv
<1>1. CASE CreateDeployment(d)
  BY <1>0, <1>1, KeepsProven
     DEF CreateDeployment, ContainerInv, TrialRuns, NamedPastRename, OldPastRename, PrevOfTarget, Of
<1>2. CASE Acquire(d)
  BY <1>0, <1>2, KeepsProven
     DEF Acquire, ContainerInv, TrialRuns, NamedPastRename, OldPastRename, PrevOfTarget, Of
<1>3. CASE Prepare(d)
  BY <1>0, <1>3, KeepsProven
     DEF Prepare, ContainerInv, TrialRuns, NamedPastRename, OldPastRename, PrevOfTarget, Of
<1>4. CASE Dispatch(d)
  BY <1>0, <1>4, KeepsProven
     DEF Dispatch, ContainerInv, TrialRuns, NamedPastRename, OldPastRename, PrevOfTarget, Of
<1>5. CASE StartBuild(d)
  BY <1>0, <1>5, KeepsProven
     DEF StartBuild, ContainerInv, TrialRuns, NamedPastRename, OldPastRename, PrevOfTarget, Of
<1>6. CASE BuildImage(d)
  BY <1>0, <1>6, KeepsProven
     DEF BuildImage, ContainerInv, TrialRuns, NamedPastRename, OldPastRename, PrevOfTarget, Of
<1>7. CASE CaptureOld(d)
  <2>1. TrialRuns'  BY <1>0, <1>7 DEF CaptureOld, CanonicalHolders, TrialRuns
  <2>2. NamedPastRename'  BY <1>0, <1>7 DEF CaptureOld, CanonicalHolders, NamedPastRename
  <2>3. OldPastRename'
    BY <1>0, <1>7 DEF CaptureOld, CanonicalHolders, OldPastRename, NamedPastRename, Of
  <2>4. \A t \in Targets : Needy(t)' => Proven(t)' # {}
    BY <1>7, KeepsProven DEF CaptureOld, CanonicalHolders
  <2>5. PrevOfTarget'  BY <1>0, <1>7 DEF CaptureOld, PrevOfTarget, Of
  <2> QED  BY <2>1, <2>2, <2>3, <2>4, <2>5 DEF ContainerInv
<1>8. CASE RunContainer(d)
  <2>1. TrialRuns'  BY <1>0, <1>8 DEF RunContainer, CutShort, TrialRuns
  <2>2. NamedPastRename'  BY <1>0, <1>8 DEF RunContainer, CutShort, NamedPastRename
  <2>3. OldPastRename'  BY <1>0, <1>8 DEF RunContainer, CutShort, OldPastRename
  <2>4. \A t \in Targets : Needy(t)' => Proven(t)' # {}
    BY <1>8, KeepsProven DEF RunContainer, CutShort
  <2>5. PrevOfTarget'  BY <1>0, <1>8 DEF RunContainer, PrevOfTarget, Of
  <2> QED  BY <2>1, <2>2, <2>3, <2>4, <2>5 DEF ContainerInv
<1>9. CASE HealthCheck(d)
  <2>1. TrialRuns'  BY <1>0, <1>9 DEF HealthCheck, TrialRuns
  <2>2. NamedPastRename'  BY <1>0, <1>9 DEF HealthCheck, NamedPastRename
  <2>3. OldPastRename'  BY <1>0, <1>9 DEF HealthCheck, OldPastRename
  <2>4. \A t \in Targets : Needy(t)' => Proven(t)' # {}
    BY <1>9, KeepsProven DEF HealthCheck
  <2>5. PrevOfTarget'  BY <1>0, <1>9 DEF HealthCheck, PrevOfTarget, Of
  <2> QED  BY <2>1, <2>2, <2>3, <2>4, <2>5 DEF ContainerInv
<1>10. CASE EnsureDomains(d)
  <2>1. TrialRuns'  BY <1>0, <1>10 DEF EnsureDomains, TrialRuns
  <2>2. NamedPastRename'  BY <1>0, <1>10 DEF EnsureDomains, NamedPastRename
  <2>3. OldPastRename'  BY <1>0, <1>10 DEF EnsureDomains, OldPastRename
  <2>4. \A t \in Targets : Needy(t)' => Proven(t)' # {}
    <3> SUFFICES ASSUME NEW t \in Targets, Needy(t)' PROVE Proven(t)' # {}
      OBVIOUS
    <3>1. CASE pc'[d] = "swap" /\ TargetOf[d] = t
      BY <1>0, <1>10, <3>1 DEF EnsureDomains, TrialRuns, Proven, Of
    <3>2. CASE ~(pc'[d] = "swap" /\ TargetOf[d] = t)
      <4>1. Needy(t)  BY <1>10, <3>2 DEF EnsureDomains, Needy, Of
      <4> QED  BY <1>10, <4>1 DEF EnsureDomains, Proven, Of, ContainerInv
    <3> QED  BY <3>1, <3>2
  <2>5. PrevOfTarget'  BY <1>0, <1>10 DEF EnsureDomains, PrevOfTarget, Of
  <2> QED  BY <2>1, <2>2, <2>3, <2>4, <2>5 DEF ContainerInv
<1>11. CASE AbortNew(d)
  <2>1. TrialRuns'  BY <1>0, <1>11 DEF AbortNew, StopContainer, CutShort, TrialRuns
  <2>2. NamedPastRename'  BY <1>0, <1>11 DEF AbortNew, StopContainer, CutShort, NamedPastRename
  <2>3. OldPastRename'  BY <1>0, <1>11 DEF AbortNew, StopContainer, CutShort, OldPastRename
  <2>4. \A t \in Targets : Needy(t)' => Proven(t)' # {}
    BY <1>11, KeepsProven DEF AbortNew, StopContainer, CutShort
  <2>5. PrevOfTarget'  BY <1>0, <1>11 DEF AbortNew, PrevOfTarget, Of
  <2> QED  BY <2>1, <2>2, <2>3, <2>4, <2>5 DEF ContainerInv
<1>12. CASE StopOld(d)
  <2>1. TrialRuns'
    BY <1>0, <1>12 DEF StopOld, StopContainer, CutShort, TrialRuns, OldPastRename
  <2>2. NamedPastRename'  BY <1>0, <1>12 DEF StopOld, StopContainer, CutShort, NamedPastRename
  <2>3. OldPastRename'  BY <1>0, <1>12 DEF StopOld, StopContainer, CutShort, OldPastRename
  <2>4. \A t \in Targets : Needy(t)' => Proven(t)' # {}
    <3> SUFFICES ASSUME NEW t \in Targets, Needy(t)' PROVE Proven(t)' # {}
      OBVIOUS
    <3>1. CASE TargetOf[d] = t
      <4>1. old[d] # d  BY <1>0, <1>12 DEF StopOld, OldPastRename
      <4>2. run'[d] /\ pc'[d] = "rename"
        BY <1>0, <1>12, <4>1 DEF StopOld, StopContainer, CutShort, TrialRuns
      <4> QED  BY <3>1, <4>2 DEF Proven, Of
    <3>2. CASE TargetOf[d] # t
      <4>1. Needy(t)  BY <1>12, <3>2 DEF StopOld, Needy, Of
      <4>2. \A e \in Of(t) : run'[e] = run[e] /\ pc'[e] = pc[e]
        BY <1>0, <1>12, <3>2 DEF StopOld, StopContainer, CutShort, OldPastRename, Of
      <4> QED  BY <4>1, <4>2 DEF Proven, Of, ContainerInv
    <3> QED  BY <3>1, <3>2
  <2>5. PrevOfTarget'  BY <1>0, <1>12 DEF StopOld, PrevOfTarget, Of
  <2> QED  BY <2>1, <2>2, <2>3, <2>4, <2>5 DEF ContainerInv
<1>13. CASE Rename(d)
  <2>1. TrialRuns'  BY <1>0, <1>13 DEF Rename, TrialRuns
  <2>2. NamedPastRename'  BY <1>0, <1>13 DEF Rename, NamedPastRename
  <2>3. OldPastRename'  BY <1>0, <1>13 DEF Rename, OldPastRename
  <2>4. \A t \in Targets : Needy(t)' => Proven(t)' # {}
    BY <1>13, KeepsProven DEF Rename
  <2>5. PrevOfTarget'  BY <1>0, <1>13 DEF Rename, PrevOfTarget, Of
  <2> QED  BY <2>1, <2>2, <2>3, <2>4, <2>5 DEF ContainerInv
<1>14. CASE MarkReplaced(d)
  <2>1. TrialRuns' /\ NamedPastRename' /\ OldPastRename'
    BY <1>0, <1>14 DEF MarkReplaced, TrialRuns, NamedPastRename, OldPastRename
  <2>2. PrevOfTarget'
    BY <1>0, <1>14 DEF MarkReplaced, PrevOfTarget, NewestLive, LiveRows, Of
  <2>3. \A t \in Targets : Needy(t)' => Proven(t)' # {}
    BY <1>14, KeepsProven DEF MarkReplaced
  <2> QED  BY <2>1, <2>2, <2>3 DEF ContainerInv
<1>15. CASE GoLive(d)
  BY <1>0, <1>15, KeepsProven
     DEF GoLive, ContainerInv, TrialRuns, NamedPastRename, OldPastRename, PrevOfTarget, Of
<1>16. CASE Finish(d)
  BY <1>0, <1>16, KeepsProven
     DEF Finish, ContainerInv, TrialRuns, NamedPastRename, OldPastRename, PrevOfTarget, Of
<1>17. CASE Fail(d)
  BY <1>0, <1>17, KeepsProven DEF Fail, ContainerInv, TrialRuns, NamedPastRename, OldPastRename,
            PrevOfTarget, Of
<1>18. CASE Release(d)
  BY <1>0, <1>18, KeepsProven
     DEF Release, ContainerInv, TrialRuns, NamedPastRename, OldPastRename, PrevOfTarget, Of, Unwind
<1>19. CASE RecoverPanic(d)
  BY <1>0, <1>19, KeepsProven
     DEF RecoverPanic, ContainerInv, TrialRuns, NamedPastRename, OldPastRename, PrevOfTarget, Of
<1>20. CASE Panic(d)
  BY <1>0, <1>20, KeepsProven
     DEF Panic, ContainerInv, TrialRuns, NamedPastRename, OldPastRename, PrevOfTarget, Of, Unwind,
         Held, Closing
<1>21. CASE Timeout(d)
  BY <1>0, <1>21, KeepsProven
     DEF Timeout, ContainerInv, TrialRuns, NamedPastRename, OldPastRename, PrevOfTarget, Of
<1>22. CASE Retire(d)
  <2>1. TrialRuns' /\ NamedPastRename' /\ OldPastRename'
    BY <1>0, <1>22 DEF Retire, TrialRuns, NamedPastRename, OldPastRename
  <2>2. /\ prev[d] \in Of(TargetOf[d])
        /\ \A e \in Deployments \ {prev[d]} : status'[e] = status[e]
        /\ pc[d] = "retire"
    BY <1>0, <1>22 DEF Retire, PrevOfTarget
  <2>3. \A t \in Targets : Needy(t)' => Needy(t)
    BY <1>22, <2>2 DEF Retire, Needy, Of
  <2>4. \A t \in Targets : Proven(t) \subseteq Proven(t)'
    BY <1>22 DEF Retire, Proven, Of
  <2>5. \A t \in Targets : Needy(t)' => Proven(t)' # {}
    BY <2>3, <2>4 DEF ContainerInv
  <2>6. PrevOfTarget'  BY <1>0, <1>22 DEF Retire, PrevOfTarget, Of
  <2> QED  BY <2>1, <2>5, <2>6 DEF ContainerInv
<1> QED
  BY <1>1, <1>2, <1>3, <1>4, <1>5, <1>6, <1>7, <1>8, <1>9, <1>10, <1>11, <1>12, <1>13, <1>14,
     <1>15, <1>16, <1>17, <1>18, <1>19, <1>20, <1>21, <1>22 DEF DeploymentStep, Step

LEMMA ContainerServer ==
    ASSUME TypeOK, ContainerInv, Shutdown \/ Drained \/ Crash \/ Restart
    PROVE  ContainerInv'
<1> USE DEF TypeOK, ContainerInv, TrialRuns, NamedPastRename, OldPastRename, PrevOfTarget, Needy,
            Proven, locals, docker, NoDep, Of, Settled, PastRename, NotYetUp, Waiting,
            Building, Trial, Swap
<1>1. CASE Shutdown  BY <1>1 DEF Shutdown
<1>2. CASE Exit
  <2>1. TrialRuns' /\ NamedPastRename' /\ OldPastRename' /\ PrevOfTarget'
    BY <1>2 DEF Exit, InFlight, Held, Closing
  <2>2. \A t \in Targets : Needy(t)' => Proven(t)' # {}
    BY <1>2, KeepsProven DEF Exit, InFlight, Held, Closing
  <2> QED  BY <2>1, <2>2
<1>3. CASE Restart  BY <1>3 DEF Restart
<1> QED  BY <1>1, <1>2, <1>3 DEF Drained, Crash

THEOREM ContainersCorrect == Spec => []ContainerInv
<1>1. TypeOK /\ ContainerInv /\ [Next]_vars => ContainerInv'
  <2> SUFFICES ASSUME TypeOK, ContainerInv, [Next]_vars PROVE ContainerInv'
    OBVIOUS
  <2>1. CASE UNCHANGED vars
    BY <2>1 DEF vars, ContainerInv, TrialRuns, NamedPastRename, OldPastRename, PrevOfTarget, Needy,
            Proven, Of
  <2>2. CASE Next  BY <2>2, NextCases, ContainerStep, ContainerServer
  <2> QED  BY <2>1, <2>2
<1> QED  BY TypeCorrect, ContainerInit, <1>1, PTL DEF Spec

\* Start before stop: whatever faults occur, and for any capacity of the
\* semaphore, a target that was ever live keeps a running container.
THEOREM ContainerSurvives == Spec => []SomeContainerSurvives
<1>1. ContainerInv => SomeContainerSurvives
  BY DEF ContainerInv, Needy, Proven, SomeContainerSurvives
<1> QED  BY ContainersCorrect, <1>1, PTL

-----------------------------------------------------------------------------
(* Names *)

\* The daemon gives the canonical name to one container of a target at a time,
\* which is what makes ContainerExists(canonical name) an answer at all.
THEOREM CanonicalNameIsUnique == Spec => []CanonicalNameUnique
<1>1. Init => CanonicalNameUnique  BY DEF Init, CanonicalNameUnique
<1>2. TypeOK /\ CanonicalNameUnique /\ [Next]_vars => CanonicalNameUnique'
  <2> SUFFICES ASSUME TypeOK, CanonicalNameUnique, [Next]_vars PROVE CanonicalNameUnique'
    OBVIOUS
  <2>1. CASE UNCHANGED cname  BY <2>1 DEF CanonicalNameUnique
  <2>2. ASSUME NEW d \in Deployments, RunContainer(d)
        PROVE  CanonicalNameUnique'
    BY <2>2 DEF RunContainer, CanonicalNameUnique, TypeOK, docker
  <2>3. ASSUME NEW d \in Deployments, NEW e \in Deployments \cup {NoDep}, StopContainer(d, e)
        PROVE  CanonicalNameUnique'
    BY <2>3 DEF StopContainer, CanonicalNameUnique, TypeOK, docker
  <2>4. ASSUME NEW d \in Deployments, Rename(d)
        PROVE  CanonicalNameUnique'
    BY <2>4 DEF Rename, CanonicalHolders, Of, CanonicalNameUnique, TypeOK
  <2>5. ASSUME NEW d \in Deployments, DeploymentStep(d)
        PROVE  CanonicalNameUnique'
    <3>1. CASE AbortNew(d)  BY <2>3, <3>1 DEF AbortNew
    <3>2. CASE StopOld(d)
      BY <2>1, <2>3, <3>2 DEF StopOld, docker, TypeOK
    <3>3. CASE RunContainer(d)  BY <2>2, <3>3
    <3>4. CASE Rename(d)  BY <2>4, <3>4
    <3>5. CASE ~(AbortNew(d) \/ StopOld(d) \/ RunContainer(d) \/ Rename(d))
      <4>1. UNCHANGED cname
        BY <2>5, <3>5 DEF DeploymentStep, Step, CreateDeployment, Acquire, Prepare, Dispatch,
           StartBuild, BuildImage, CaptureOld, HealthCheck, EnsureDomains, MarkReplaced, Retire,
           GoLive, Finish, Fail, Release, RecoverPanic, Panic, Timeout, docker
      <4> QED  BY <2>1, <4>1
    <3> QED  BY <3>1, <3>2, <3>3, <3>4, <3>5
  <2>6. CASE Shutdown \/ Drained \/ Crash \/ Restart
    BY <2>1, <2>6 DEF Shutdown, Drained, Crash, Restart, Exit, docker
  <2> QED  BY <2>1, <2>5, <2>6, NextCases DEF vars
<1> QED  BY TypeCorrect, <1>1, <1>2, PTL DEF Spec

-----------------------------------------------------------------------------
(* The pipeline implements the ledger *)

\* What the row of a deployment says, given where its goroutine is.
StatusAt(label) ==
    IF label = "none" THEN {"none"}
    ELSE IF label \in Waiting \cup {"start"} THEN {"queued"}
    ELSE IF label \in {"prepare", "image"} THEN {"building"}
    ELSE IF label \in {"capture", "launch"} \cup Trial \cup Swap THEN {"deploying"}
    ELSE IF label = "fail" THEN {"building", "deploying"}
    ELSE IF label \in {"finish", "recover"} THEN StatusValues \ {"none", "failed"}
    ELSE StatusValues \ {"none"}

PcStatus == \A d \in Deployments : status[d] \in StatusAt(pc[d])

LEMMA PcStatusInit == Init => PcStatus
BY DEF Init, PcStatus, StatusAt

LEMMA PcStatusStep ==
    ASSUME "db" \notin Faults,
           TypeOK, RowInv, PcStatus, NEW d \in Deployments, DeploymentStep(d)
    PROVE  PcStatus'
<1> USE DEF TypeOK, PcStatus, StatusAt, Goto, SetStatus, rows, locals, docker, proxy, PcValues,
        InFlight, Held, Waiting, Building, Trial, Swap, Closing, StatusValues, Terminal
<1>1. CASE CreateDeployment(d)  BY <1>1 DEF CreateDeployment
<1>2. CASE Acquire(d)  BY <1>2 DEF Acquire
<1>3. CASE Prepare(d)  BY <1>3 DEF Prepare
<1>4. CASE Dispatch(d)  BY <1>4 DEF Dispatch
<1>5. CASE StartBuild(d)  BY <1>5 DEF StartBuild
<1>6. CASE BuildImage(d)  BY <1>6 DEF BuildImage
<1>7. CASE CaptureOld(d)  BY <1>7 DEF CaptureOld
<1>8. CASE RunContainer(d)  BY <1>8 DEF RunContainer
<1>9. CASE HealthCheck(d)  BY <1>9 DEF HealthCheck
<1>10. CASE EnsureDomains(d)  BY <1>10 DEF EnsureDomains
<1>11. CASE AbortNew(d)  BY <1>11 DEF AbortNew
<1>12. CASE StopOld(d)  BY <1>12 DEF StopOld
<1>13. CASE Rename(d)  BY <1>13 DEF Rename
<1>14. CASE MarkReplaced(d)  BY <1>14 DEF MarkReplaced
<1>15. CASE GoLive(d)  BY <1>15 DEF GoLive
<1>16. CASE Finish(d)  BY <1>16 DEF Finish
<1>17. CASE Fail(d)  BY <1>17 DEF Fail
<1>18. CASE Release(d)  BY <1>18 DEF Release
<1>19. CASE RecoverPanic(d)  BY <1>19 DEF RecoverPanic
<1>20. CASE Panic(d)  BY <1>20 DEF Panic
<1>21. CASE Timeout(d)  BY <1>21 DEF Timeout
<1>22. CASE Retire(d)  BY <1>22 DEF Retire, RowInv, Chose, Settled
<1> QED
  BY <1>1, <1>2, <1>3, <1>4, <1>5, <1>6, <1>7, <1>8, <1>9, <1>10, <1>11, <1>12, <1>13, <1>14,
     <1>15, <1>16, <1>17, <1>18, <1>19, <1>20, <1>21, <1>22 DEF DeploymentStep, Step

LEMMA PcStatusServer ==
    ASSUME TypeOK, PcStatus, Shutdown \/ Drained \/ Crash \/ Restart
    PROVE  PcStatus'
<1> USE DEF TypeOK, PcStatus, StatusAt, InFlight, Held, Waiting, Building, Trial, Swap, Closing,
            StatusValues, Terminal
<1>1. CASE Shutdown  BY <1>1 DEF Shutdown
<1>2. CASE Exit  BY <1>2 DEF Exit
<1>3. CASE Restart  BY <1>3 DEF Restart
<1> QED  BY <1>1, <1>2, <1>3 DEF Drained, Crash

\* A deployment remembers a live row only between its SELECT and its UPDATE.
PrevAtRetire == \A d \in Deployments : prev[d] # NoDep => pc[d] = "retire"

LEMMA PrevCorrect == Spec => []PrevAtRetire
<1>1. Init => PrevAtRetire  BY DEF Init, PrevAtRetire
<1>2. TypeOK /\ PrevAtRetire /\ [Next]_vars => PrevAtRetire'
  <2> SUFFICES ASSUME TypeOK, PrevAtRetire, [Next]_vars PROVE PrevAtRetire'
    OBVIOUS
  <2> USE DEF TypeOK, PrevAtRetire, locals
  <2>1. CASE UNCHANGED vars  BY <2>1 DEF vars
  <2>2. ASSUME NEW d \in Deployments, DeploymentStep(d) PROVE PrevAtRetire'
    <3>1. PICK l : pc' = [pc EXCEPT ![d] = l]
      BY <2>2 DEF DeploymentStep, Step, CreateDeployment, Acquire, Prepare, Dispatch, StartBuild,
         BuildImage, CaptureOld, RunContainer, HealthCheck, EnsureDomains, AbortNew, StopOld,
         Rename, MarkReplaced, Retire, GoLive, Finish, Fail, Release, RecoverPanic, Panic, Timeout,
         Goto
    <3>2. \A e \in Deployments \ {d} : prev'[e] = prev[e]
      BY <2>2 DEF DeploymentStep, Step, CreateDeployment, Acquire, Prepare, Dispatch, StartBuild,
         BuildImage, CaptureOld, RunContainer, HealthCheck, EnsureDomains, AbortNew, StopOld,
         Rename, MarkReplaced, Retire, GoLive, Finish, Fail, Release, RecoverPanic, Panic, Timeout,
         Unwind
    <3>3. prev'[d] # NoDep => pc'[d] = "retire"
      BY <2>2 DEF DeploymentStep, Step, CreateDeployment, Acquire, Prepare, Dispatch, StartBuild,
         BuildImage, CaptureOld, RunContainer, HealthCheck, EnsureDomains, AbortNew, StopOld,
         Rename, MarkReplaced, Retire, GoLive, Finish, Fail, Release, RecoverPanic, Panic, Timeout,
         Unwind, Goto, Held, Building, Trial, Swap, Closing
    <3> QED  BY <3>1, <3>2, <3>3
  <2>3. CASE Shutdown \/ Drained \/ Crash \/ Restart
    BY <2>3 DEF Shutdown, Drained, Crash, Restart, Exit
  <2> QED  BY <2>1, <2>2, <2>3, NextCases
<1> QED  BY TypeCorrect, <1>1, <1>2, PTL DEF Spec

LEMMA LedgerInit == Init => Ledger!Init
BY DEF Init, Ledger!Init, Row, Chosen

\* Only MarkReplaced puts something into Chosen.
LEMMA ChosenShrinks ==
    ASSUME TypeOK, NEW d \in Deployments, DeploymentStep(d), ~MarkReplaced(d)
    PROVE  Chosen' \subseteq Chosen
<1>1. \/ UNCHANGED prev
      \/ prev' = [prev EXCEPT ![d] = NoDep]
  BY DEF DeploymentStep, Step, CreateDeployment, Acquire, Prepare, Dispatch, StartBuild,
     BuildImage, CaptureOld, RunContainer, HealthCheck, EnsureDomains, AbortNew, StopOld, Rename,
     Retire, GoLive, Finish, Fail, Release, RecoverPanic, Panic, Timeout, Unwind, locals
<1> QED  BY <1>1 DEF Chosen, TypeOK

\* Every step of a deployment is a step of the ledger, or the ledger does not
\* see it.
LEMMA LedgerStep ==
    ASSUME MaxBuilds = 1, "db" \notin Faults,
           TypeOK, SlotsInv, RowInv, PrevAtRetire, PcStatus,
           NEW d \in Deployments, DeploymentStep(d)
    PROVE  Ledger!Next \/ UNCHANGED <<Row, Chosen>>
<1> USE DEF TypeOK, SetStatus, rows, locals
<1>a. status[d] \in StatusAt(pc[d])  BY DEF PcStatus
<1>b. ASSUME UNCHANGED prev PROVE UNCHANGED Chosen
  BY <1>b DEF Chosen
<1>c. ASSUME UNCHANGED status PROVE UNCHANGED Row
  BY <1>c DEF Row
<1>1. CASE CreateDeployment(d)
  <2>1. Ledger!Enqueue(d)
    BY <1>1, <1>a, <1>b DEF CreateDeployment, StatusAt, Ledger!Enqueue, Row
  <2> QED  BY <2>1 DEF Ledger!Next
<1>2. CASE StartBuild(d)
  <2>1. Ledger!Begin(d)
    BY <1>2, <1>a, <1>b DEF StartBuild, StatusAt, Waiting, Ledger!Begin, Row
  <2> QED  BY <2>1 DEF Ledger!Next
<1>3. CASE BuildImage(d)
  BY <1>3, <1>a, <1>b DEF BuildImage, StatusAt, Waiting, Row
<1>4. CASE MarkReplaced(d)
  <2>1. UNCHANGED Row  BY <1>4, <1>c DEF MarkReplaced
  <2>2. CASE UNCHANGED prev  BY <1>b, <2>1, <2>2
  <2>3. ASSUME NEW l \in NewestLive(TargetOf[d]) \ {d}, prev' = [prev EXCEPT ![d] = l]
        PROVE  Ledger!Next
    <3>1. l \in Deployments \ {d} /\ TargetOf[l] = TargetOf[d] /\ status[l] = "live"
      BY <2>3 DEF NewestLive, LiveRows, Of
    <3>2. status[d] = "deploying"
      BY <1>4, <1>a DEF MarkReplaced, StatusAt, Waiting, Trial, Swap
    <3>3. Row[l] = "live" /\ Row[d] = "working"  BY <3>1, <3>2 DEF Row
    <3>4. prev[d] = NoDep  BY <1>4 DEF MarkReplaced, PrevAtRetire
    <3>5. Chosen' = Chosen \cup {l}
      BY <2>3, <3>1, <3>4, DeploymentsAssumption DEF Chosen
    <3>6. Ledger!Choose(l)
      BY <2>1, <3>1, <3>3, <3>5 DEF Ledger!Choose, Ledger!BeingReplaced
    <3> QED  BY <3>1, <3>6 DEF Ledger!Next
  <2> QED  BY <1>4, <2>2, <2>3 DEF MarkReplaced
<1>5. CASE GoLive(d)
  <2>1. status[d] = "deploying"
    BY <1>5, <1>a DEF GoLive, StatusAt, Waiting, Trial, Swap
  <2>2. Ledger!Live(TargetOf[d]) = {}
    BY <1>5 DEF GoLive, RowInv, Ledger!Live, Row
  <2>3. Ledger!Promote(d)
    BY <1>5, <1>b, <2>1, <2>2 DEF GoLive, Ledger!Promote, Row
  <2> QED  BY <2>3 DEF Ledger!Next
<1>6. CASE Fail(d)
  <2>1. Ledger!Fail(d)
    BY <1>6, <1>a, <1>b DEF Fail, StatusAt, Waiting, Trial, Swap, Ledger!Fail, Row
  <2> QED  BY <2>1 DEF Ledger!Next
<1>7. CASE RecoverPanic(d)
  <2>1. Ledger!Fail(d)
    BY <1>7, <1>a, <1>b DEF RecoverPanic, StatusAt, Waiting, Trial, Swap, StatusValues, Terminal,
       Ledger!Fail, Row
  <2> QED  BY <2>1 DEF Ledger!Next
<1>8. CASE Retire(d)
  <2> DEFINE l == prev[d]
  <2>1. /\ pc[d] = "retire"
        /\ l \in Deployments \ {d} /\ TargetOf[l] = TargetOf[d] /\ status[l] \in {"live", "failed"}
    BY <1>8 DEF Retire, RowInv, Chose
  <2>2. status[d] = "deploying"
    BY <1>a, <2>1 DEF StatusAt, Waiting, Trial, Swap
  <2>3. /\ status' = [status EXCEPT ![l] = "replaced"]
        /\ prev' = [prev EXCEPT ![d] = NoDep]
    BY <1>8 DEF Retire
  <2>4. \A e \in Deployments \ {d} : prev[e] = NoDep
    BY <2>1, HolderIsAlone DEF PrevAtRetire, Held, Swap
  <2>5. l # NoDep  BY <2>1, DeploymentsAssumption
  <2>6. Chosen = {l} /\ Chosen' = {}
    BY <2>3, <2>4, <2>5 DEF Chosen
  <2>7. /\ Row[l] \in {"live", "failed"} /\ Row[d] = "working"
        /\ Row' = [Row EXCEPT ![l] = "replaced"]
    BY <2>1, <2>2, <2>3 DEF Row
  <2>8. Ledger!Retire(l)
    BY <2>1, <2>6, <2>7 DEF Ledger!Retire, Ledger!Replace, Ledger!BeingReplaced
  <2> QED  BY <2>1, <2>8 DEF Ledger!Next
<1>9. CASE ~(\/ CreateDeployment(d) \/ StartBuild(d) \/ BuildImage(d) \/ MarkReplaced(d)
             \/ Retire(d) \/ GoLive(d) \/ Fail(d) \/ RecoverPanic(d))
  <2>1. UNCHANGED status
    BY <1>9 DEF DeploymentStep, Step, Acquire, Prepare, Dispatch, CaptureOld, RunContainer,
       HealthCheck, EnsureDomains, AbortNew, StopOld, Rename, Finish, Release, Panic, Timeout
  <2>2. Ledger!Forget  BY <1>9, <1>c, <2>1, ChosenShrinks DEF Ledger!Forget
  <2> QED  BY <2>2 DEF Ledger!Next
<1> QED  BY <1>1, <1>2, <1>3, <1>4, <1>5, <1>6, <1>7, <1>8, <1>9

\* The deployments table keeps what its readers rely on: the life of a row, one
\* live row per target, and no row rewritten after it failed unless it was the
\* live one as the deployment that replaces it looked; for a semaphore of
\* capacity one and as long as no statement of the swap is lost.
THEOREM PipelineImplementsLedger ==
    ASSUME MaxBuilds = 1, "db" \notin Faults
    PROVE  Spec => LedgerSpec
<1>1. TypeOK /\ RowInv /\ PcStatus /\ [Next]_vars => PcStatus'
  <2> SUFFICES ASSUME TypeOK, RowInv, PcStatus, [Next]_vars PROVE PcStatus'
    OBVIOUS
  <2>1. CASE UNCHANGED vars  BY <2>1 DEF vars, PcStatus
  <2>2. CASE Next  BY <2>2, NextCases, PcStatusStep, PcStatusServer
  <2> QED  BY <2>1, <2>2
<1>2. TypeOK /\ SlotsInv /\ RowInv /\ PrevAtRetire /\ PcStatus /\ [Next]_vars
      => [Ledger!Next]_(Ledger!vars)
  <2> SUFFICES ASSUME TypeOK, SlotsInv, RowInv, PrevAtRetire, PcStatus, [Next]_vars
               PROVE  Ledger!Next \/ UNCHANGED <<Row, Chosen>>
    BY DEF Ledger!vars
  <2>1. CASE UNCHANGED <<status, prev>>  BY <2>1 DEF Row, Chosen
  <2>2. ASSUME NEW d \in Deployments, DeploymentStep(d)
        PROVE  Ledger!Next \/ UNCHANGED <<Row, Chosen>>
    BY <2>2, LedgerStep
  <2>3. CASE Exit
    <3>1. UNCHANGED Row /\ Chosen' = {}  BY <2>3 DEF Exit, Row, Chosen
    <3> QED  BY <3>1 DEF Ledger!Next, Ledger!Forget
  <2>4. CASE Shutdown \/ Drained \/ Crash \/ Restart
    BY <2>1, <2>3, <2>4 DEF Shutdown, Drained, Crash, Restart, locals
  <2> QED  BY <2>1, <2>2, <2>4, NextCases DEF vars
<1> QED
  BY TypeCorrect, SlotsCorrect, RowCorrect, PrevCorrect, PcStatusInit, LedgerInit, <1>1, <1>2, PTL
     DEF Spec, LedgerSpec, Ledger!Spec

-----------------------------------------------------------------------------
(* A goroutine that ended settled its row *)

EndInv ==
    \A d \in Deployments :
        \/ pc[d] \in {"finish", "release"}
        \/ pc[d] = "done" /\ d \notin Rollouts
        => status[d] \in Terminal

LEMMA EndStep ==
    ASSUME "db" \notin Faults, TypeOK, EndInv, NEW d \in Deployments, DeploymentStep(d)
    PROVE  EndInv'
<1> USE DEF TypeOK, EndInv, Terminal, Goto, SetStatus, rows, locals, docker, proxy
<1>1. CASE CreateDeployment(d)  BY <1>1 DEF CreateDeployment
<1>2. CASE Acquire(d)  BY <1>2 DEF Acquire
<1>3. CASE Prepare(d)  BY <1>3 DEF Prepare
<1>4. CASE Dispatch(d)  BY <1>4 DEF Dispatch
<1>5. CASE StartBuild(d)  BY <1>5 DEF StartBuild
<1>6. CASE BuildImage(d)  BY <1>6 DEF BuildImage
<1>7. CASE CaptureOld(d)  BY <1>7 DEF CaptureOld
<1>8. CASE RunContainer(d)  BY <1>8 DEF RunContainer
<1>9. CASE HealthCheck(d)  BY <1>9 DEF HealthCheck
<1>10. CASE EnsureDomains(d)  BY <1>10 DEF EnsureDomains
<1>11. CASE AbortNew(d)  BY <1>11 DEF AbortNew
<1>12. CASE StopOld(d)  BY <1>12 DEF StopOld
<1>13. CASE Rename(d)  BY <1>13 DEF Rename
<1>14. CASE MarkReplaced(d)  BY <1>14 DEF MarkReplaced, NewestLive, LiveRows, Of
<1>15. CASE GoLive(d)  BY <1>15 DEF GoLive
<1>16. CASE Finish(d)  BY <1>16 DEF Finish
<1>17. CASE Fail(d)  BY <1>17 DEF Fail
<1>18. CASE Release(d)  BY <1>18 DEF Release
<1>19. CASE RecoverPanic(d)  BY <1>19 DEF RecoverPanic
<1>20. CASE Panic(d)  BY <1>20 DEF Panic
<1>21. CASE Timeout(d)  BY <1>21 DEF Timeout
<1>22. CASE Retire(d)  BY <1>22 DEF Retire
<1> QED
  BY <1>1, <1>2, <1>3, <1>4, <1>5, <1>6, <1>7, <1>8, <1>9, <1>10, <1>11, <1>12, <1>13, <1>14,
     <1>15, <1>16, <1>17, <1>18, <1>19, <1>20, <1>21, <1>22 DEF DeploymentStep, Step

\* Whatever way a dispatched goroutine ends, its row has a final status, as long
\* as no status UPDATE is lost.
THEOREM FinishedRowsAreFinal ==
    ASSUME "db" \notin Faults
    PROVE  Spec => []FinishedIsFinal
<1>1. Init => EndInv  BY DEF Init, EndInv
<1>2. TypeOK /\ EndInv /\ [Next]_vars => EndInv'
  <2> SUFFICES ASSUME TypeOK, EndInv, [Next]_vars PROVE EndInv'
    OBVIOUS
  <2>1. CASE UNCHANGED <<pc, status>>  BY <2>1 DEF EndInv
  <2>2. CASE Exit
    BY <2>2 DEF Exit, EndInv, TypeOK, InFlight, Held, Closing
  <2>3. CASE Shutdown \/ Drained \/ Crash \/ Restart
    BY <2>1, <2>2, <2>3 DEF Shutdown, Drained, Crash, Restart
  <2> QED  BY <2>1, <2>3, NextCases, EndStep DEF vars
<1>3. EndInv => FinishedIsFinal  BY DEF EndInv, FinishedIsFinal
<1> QED  BY TypeCorrect, <1>1, <1>2, <1>3, PTL DEF Spec

-----------------------------------------------------------------------------
(* Start-up *)

\* The reconcile at start-up gives a target's domains back to the one running
\* container with the canonical name, in both modes; the uniqueness of the name
\* is what makes the answer the right one.
THEOREM ReconcileRestores ==
    ASSUME "domain" \notin Faults
    PROVE  Spec => ReconcileRestoresRoute
<1>1. ASSUME TypeOK, CanonicalNameUnique, Restart, NEW d \in Deployments,
             cname[d] = "canonical", run[d], route[TargetOf[d]] # "none"
      PROVE  Serving(TargetOf[d])' = {d}
  <2> DEFINE t == TargetOf[d]
  <2>1. Reconcile(Targets) /\ UNCHANGED <<run, cname>>
    BY <1>1 DEF Restart, docker
  <2>2. t \in Targets  BY TargetAssumption
  <2>3. \A e \in Of(t) : cname[e] = "canonical" => e = d
    BY <1>1 DEF CanonicalNameUnique, Of
  <2>4. d \in Of(t)  BY DEF Of
  <2>5. CASE Mode = "docker"
    <3>1. Reconcilable(t) # {}  BY <2>5 DEF Reconcilable
    <3>2. route'[t] = "name"  BY <1>1, <2>1, <2>2, <2>5, <3>1 DEF Reconcile
    <3> QED  BY <1>1, <2>1, <2>3, <2>4, <2>5, <3>2 DEF Serving, Of
  <2>6. CASE Mode = "host-port"
    <3>1. Reconcilable(t) = {d}
      BY <1>1, <2>3, <2>4, <2>6 DEF Reconcilable, CanonicalHolders
    <3>2. (CHOOSE e \in Reconcilable(t) : TRUE) = d  BY <3>1
    <3>3. route'[t] = "port" /\ port'[t] = d
      BY <1>1, <2>1, <2>2, <2>6, <3>1, <3>2 DEF Reconcile
    <3> QED  BY <1>1, <2>1, <2>4, <2>6, <3>3 DEF Serving, Of
  <2> QED  BY <2>5, <2>6, ConfigAssumption
<1>2. TypeOK /\ CanonicalNameUnique /\ [Next]_vars
      => [Restart => \A d \in Deployments :
            status[d] = "live" /\ cname[d] = "canonical" /\ run[d] /\ route[TargetOf[d]] # "none"
            => Serving(TargetOf[d])' = {d}]_vars
  BY <1>1
<1> QED
  BY TypeCorrect, CanonicalNameIsUnique, <1>2, PTL DEF Spec, ReconcileRestoresRoute

-----------------------------------------------------------------------------
(* The swap *)

\* Where a deployment has no container yet, where it has taken the old one's
\* place but not yet its row, and where it has ended.
Fresh == {"none"} \cup Waiting \cup Building \cup {"fail"}
Replacing == {"rename", "mark", "retire", "golive"}
Ended == {"finish", "release", "done"}

Replaces(t) == \E d \in Of(t) : pc[d] \in Replacing

\* The faults under which every deployment either goes live or fails before its
\* swap: those of the repository and of its domains.
OrderlyFaults == Faults \subseteq {"build", "domain"}

Orderly ==
    /\ server = "up"
    /\ \A d \in Deployments : /\ ctxDone[d] => pc[d] = "done"
                              /\ pc[d] \notin {"dead", "recover"}

\* The container of a deployment, given where its goroutine is.
ContainerByPlace(d) ==
    /\ pc[d] \in Fresh => cname[d] = "none" /\ ~run[d]
    /\ pc[d] \in {"health", "domains", "swap", "rename"} => cname[d] = "temp" /\ run[d]
    /\ pc[d] = "abort" => cname[d] = "temp"
    /\ pc[d] \in {"mark", "retire", "golive"} => cname[d] = "canonical" /\ run[d]

\* The container of a deployment that ended, given its row.
ContainerByRow(d) ==
    /\ pc[d] \in Ended /\ status[d] # "live" => cname[d] = "none" /\ ~run[d]
    /\ status[d] = "live" /\ Replaces(TargetOf[d]) => cname[d] = "none" /\ ~run[d]
    /\ status[d] = "live" /\ ~Replaces(TargetOf[d]) => cname[d] = "canonical" /\ run[d]

\* What Deploy captured is the live deployment's container, as long as it
\* has not been stopped.
OldIsLive(d) ==
    pc[d] \in {"launch", "health", "domains", "abort", "swap"} =>
        /\ \A e \in Of(TargetOf[d]) : status[e] = "live" => old[d] = e
        /\ old[d] # NoDep => old[d] \in Of(TargetOf[d]) /\ status[old[d]] = "live"

SwapInv ==
    /\ Orderly
    /\ \A d \in Deployments : ContainerByPlace(d) /\ ContainerByRow(d) /\ OldIsLive(d)

LEMMA SwapInit == Init => SwapInv
BY DEF Init, SwapInv, Orderly, ContainerByPlace, ContainerByRow, OldIsLive, Fresh, Ended

\* A step of d alone, which neither starts nor ends its taking over.
LEMMA KeepsSwap ==
    ASSUME TypeOK, SwapInv, NEW d \in Deployments, NEW l \in PcValues,
           pc' = [pc EXCEPT ![d] = l], pc[d] \in Replacing <=> l \in Replacing,
           \A e \in Deployments \ {d} : /\ status'[e] = status[e] /\ old'[e] = old[e]
                                        /\ cname'[e] = cname[e] /\ run'[e] = run[e],
           status[d] = "live" <=> status'[d] = "live",
           Orderly', ContainerByPlace(d)', ContainerByRow(d)', OldIsLive(d)'
    PROVE  SwapInv'
<1> USE DEF TypeOK
<1>2. \A t \in Targets : Replaces(t)' <=> Replaces(t)
  BY DEF Replaces, Of
<1>3. \A e \in Deployments : status[e] = "live" <=> status'[e] = "live"
  OBVIOUS
<1>4. ASSUME NEW e \in Deployments, e # d
      PROVE  ContainerByPlace(e)' /\ ContainerByRow(e)' /\ OldIsLive(e)'
  <2>1. /\ pc'[e] = pc[e] /\ status'[e] = status[e] /\ old'[e] = old[e]
        /\ cname'[e] = cname[e] /\ run'[e] = run[e]
    BY <1>4
  <2>2. TargetOf[e] \in Targets  BY TargetAssumption
  <2>3. ContainerByPlace(e)'  BY <2>1 DEF SwapInv, ContainerByPlace
  <2>4. ContainerByRow(e)'  BY <1>2, <2>1, <2>2 DEF SwapInv, ContainerByRow
  <2>5. OldIsLive(e)'  BY <1>3, <2>1 DEF SwapInv, OldIsLive, Of
  <2> QED  BY <2>3, <2>4, <2>5
<1> QED  BY <1>4 DEF SwapInv

\* The steps of a deployment before it captures the old container, while its own
\* is on trial, and after it took over.
LEMMA SwapAlone ==
    ASSUME OrderlyFaults, TypeOK, RowInv, SwapInv, NEW d \in Deployments,
           \/ CreateDeployment(d) \/ Dispatch(d) \/ Acquire(d) \/ Prepare(d) \/ StartBuild(d)
           \/ BuildImage(d) \/ RunContainer(d) \/ HealthCheck(d) \/ EnsureDomains(d)
           \/ AbortNew(d) \/ Finish(d) \/ Fail(d) \/ Release(d)
    PROVE  SwapInv'
<1> USE DEF TypeOK, Goto, SetStatus, rows, locals, docker, proxy, PcValues, InFlight, Held, Waiting,
        Building, Trial, Swap, Closing, OrderlyFaults, Replacing, Fresh, Ended, Settled
<1>0. /\ Orderly /\ ContainerByPlace(d) /\ ContainerByRow(d) /\ OldIsLive(d)
      /\ ~ctxDone[d] \/ pc[d] = "done"
      /\ status[d] = "live" => pc[d] \in Settled
  BY DEF SwapInv, Orderly, RowInv
<1>1. CASE CreateDeployment(d)
  <2>1. PICK l \in {"created"} : pc' = [pc EXCEPT ![d] = l]  BY <1>1 DEF CreateDeployment
  <2>2. ContainerByPlace(d)' /\ ContainerByRow(d)' /\ OldIsLive(d)'
    BY <1>0, <1>1, <2>1
       DEF CreateDeployment, ContainerByPlace, ContainerByRow, OldIsLive, Of, Replaces
  <2>3. Orderly'  BY <1>0, <1>1 DEF CreateDeployment, Orderly
  <2> QED  BY <1>0, <1>1, <2>1, <2>2, <2>3, KeepsSwap DEF CreateDeployment
<1>2. CASE Dispatch(d)
  <2>1. PICK l \in {"waiting"} : pc' = [pc EXCEPT ![d] = l]  BY <1>2 DEF Dispatch
  <2>2. ContainerByPlace(d)' /\ ContainerByRow(d)' /\ OldIsLive(d)'
    BY <1>0, <1>2, <2>1
       DEF Dispatch, ContainerByPlace, ContainerByRow, OldIsLive, Of, Replaces
  <2>3. Orderly'  BY <1>0, <1>2 DEF Dispatch, Orderly
  <2> QED  BY <1>0, <1>2, <2>1, <2>2, <2>3, KeepsSwap DEF Dispatch
<1>3. CASE Acquire(d)
  <2>1. PICK l \in {"start"} : pc' = [pc EXCEPT ![d] = l]  BY <1>3 DEF Acquire
  <2>2. ContainerByPlace(d)' /\ ContainerByRow(d)' /\ OldIsLive(d)'
    BY <1>0, <1>3, <2>1
       DEF Acquire, ContainerByPlace, ContainerByRow, OldIsLive, Of, Replaces
  <2>3. Orderly'  BY <1>0, <1>3 DEF Acquire, Orderly
  <2> QED  BY <1>0, <1>3, <2>1, <2>2, <2>3, KeepsSwap DEF Acquire
<1>4. CASE Prepare(d)
  <2>1. PICK l \in {"image", "fail"} : pc' = [pc EXCEPT ![d] = l]  BY <1>4 DEF Prepare
  <2>2. ContainerByPlace(d)' /\ ContainerByRow(d)' /\ OldIsLive(d)'
    BY <1>0, <1>4, <2>1
       DEF Prepare, ContainerByPlace, ContainerByRow, OldIsLive, Of, Replaces
  <2>3. Orderly'  BY <1>0, <1>4 DEF Prepare, Orderly
  <2> QED  BY <1>0, <1>4, <2>1, <2>2, <2>3, KeepsSwap DEF Prepare
<1>5. CASE StartBuild(d)
  <2>1. PICK l \in {"prepare"} : pc' = [pc EXCEPT ![d] = l]  BY <1>5 DEF StartBuild
  <2>2. ContainerByPlace(d)' /\ ContainerByRow(d)' /\ OldIsLive(d)'
    BY <1>0, <1>5, <2>1
       DEF StartBuild, ContainerByPlace, ContainerByRow, OldIsLive, Of, Replaces
  <2>3. Orderly'  BY <1>0, <1>5 DEF StartBuild, Orderly
  <2> QED  BY <1>0, <1>5, <2>1, <2>2, <2>3, KeepsSwap DEF StartBuild
<1>6. CASE BuildImage(d)
  <2>1. PICK l \in {"capture", "fail"} : pc' = [pc EXCEPT ![d] = l]  BY <1>6 DEF BuildImage
  <2>2. ContainerByPlace(d)' /\ ContainerByRow(d)' /\ OldIsLive(d)'
    BY <1>0, <1>6, <2>1
       DEF BuildImage, ContainerByPlace, ContainerByRow, OldIsLive, Of, Replaces
  <2>3. Orderly'  BY <1>0, <1>6 DEF BuildImage, Orderly
  <2> QED  BY <1>0, <1>6, <2>1, <2>2, <2>3, KeepsSwap DEF BuildImage
<1>7. CASE EnsureDomains(d)
  <2>1. PICK l \in {"swap", "abort"} : pc' = [pc EXCEPT ![d] = l]  BY <1>7 DEF EnsureDomains
  <2>2. ContainerByPlace(d)' /\ ContainerByRow(d)' /\ OldIsLive(d)'
    BY <1>0, <1>7, <2>1
       DEF EnsureDomains, ContainerByPlace, ContainerByRow, OldIsLive, Of, Replaces
  <2>3. Orderly'  BY <1>0, <1>7 DEF EnsureDomains, Orderly
  <2> QED  BY <1>0, <1>7, <2>1, <2>2, <2>3, KeepsSwap DEF EnsureDomains
<1>8. CASE Finish(d)
  <2>1. PICK l \in {"release"} : pc' = [pc EXCEPT ![d] = l]  BY <1>8 DEF Finish
  <2>2. ContainerByPlace(d)' /\ ContainerByRow(d)' /\ OldIsLive(d)'
    BY <1>0, <1>8, <2>1
       DEF Finish, ContainerByPlace, ContainerByRow, OldIsLive, Of, Replaces
  <2>3. Orderly'  BY <1>0, <1>8 DEF Finish, Orderly
  <2> QED  BY <1>0, <1>8, <2>1, <2>2, <2>3, KeepsSwap DEF Finish
<1>9. CASE Fail(d)
  <2>1. PICK l \in {"release"} : pc' = [pc EXCEPT ![d] = l]  BY <1>9 DEF Fail
  <2>2. ContainerByPlace(d)' /\ ContainerByRow(d)' /\ OldIsLive(d)'
    BY <1>0, <1>9, <2>1
       DEF Fail, ContainerByPlace, ContainerByRow, OldIsLive, Of, Replaces
  <2>3. Orderly'  BY <1>0, <1>9 DEF Fail, Orderly
  <2> QED  BY <1>0, <1>9, <2>1, <2>2, <2>3, KeepsSwap DEF Fail
<1>10. CASE RunContainer(d)
  <2>1. PICK l \in {"health", "fail"} : pc' = [pc EXCEPT ![d] = l]  BY <1>10 DEF RunContainer
  <2>2. ContainerByPlace(d)' /\ ContainerByRow(d)' /\ OldIsLive(d)'
    BY <1>0, <1>10, <2>1
       DEF RunContainer, CutShort, ContainerByPlace, ContainerByRow, OldIsLive, Of, Replaces
  <2>3. Orderly'  BY <1>0, <1>10 DEF RunContainer, CutShort, Orderly
  <2> QED  BY <1>0, <1>10, <2>1, <2>2, <2>3, KeepsSwap DEF RunContainer, CutShort
<1>11. CASE HealthCheck(d)
  <2>1. PICK l \in {"domains", "abort"} : pc' = [pc EXCEPT ![d] = l]  BY <1>11 DEF HealthCheck
  <2>2. ContainerByPlace(d)' /\ ContainerByRow(d)' /\ OldIsLive(d)'
    BY <1>0, <1>11, <2>1
       DEF HealthCheck, ContainerByPlace, ContainerByRow, OldIsLive, Of, Replaces
  <2>3. Orderly'  BY <1>0, <1>11 DEF HealthCheck, Orderly
  <2> QED  BY <1>0, <1>11, <2>1, <2>2, <2>3, KeepsSwap DEF HealthCheck
<1>12. CASE AbortNew(d)
  <2>1. PICK l \in {"fail"} : pc' = [pc EXCEPT ![d] = l]  BY <1>12 DEF AbortNew
  <2>2. ContainerByPlace(d)' /\ ContainerByRow(d)' /\ OldIsLive(d)'
    BY <1>0, <1>12, <2>1
       DEF AbortNew, StopContainer, CutShort, ContainerByPlace, ContainerByRow, OldIsLive, Of,
           Replaces
  <2>3. Orderly'  BY <1>0, <1>12 DEF AbortNew, StopContainer, CutShort, Orderly
  <2> QED  BY <1>0, <1>12, <2>1, <2>2, <2>3, KeepsSwap DEF AbortNew, StopContainer, CutShort
<1>13. CASE Release(d)
  <2>1. PICK l \in {"done"} : pc' = [pc EXCEPT ![d] = l]  BY <1>13 DEF Release
  <2>2. ContainerByPlace(d)' /\ ContainerByRow(d)' /\ OldIsLive(d)'
    BY <1>0, <1>13, <2>1
       DEF Release, Unwind, ContainerByPlace, ContainerByRow, OldIsLive, Of, Replaces
  <2>3. Orderly'  BY <1>0, <1>13 DEF Release, Unwind, Orderly
  <2> QED  BY <1>0, <1>13, <2>1, <2>2, <2>3, KeepsSwap DEF Release, Unwind
<1> QED  BY <1>1, <1>2, <1>3, <1>4, <1>5, <1>6, <1>7, <1>8, <1>9, <1>10, <1>11, <1>12, <1>13

\* Deploy captures the container of the live deployment: nobody else is taking
\* over, so the canonical name is the live row's.
LEMMA SwapCapture ==
    ASSUME OrderlyFaults, MaxBuilds = 1, TypeOK, SlotsInv, RowInv, SwapInv,
           NEW d \in Deployments, CaptureOld(d)
    PROVE  SwapInv'
<1> USE DEF TypeOK, Goto, rows, locals, docker, proxy, PcValues, InFlight, Held, Building,
        OrderlyFaults, Replacing, CaptureOld
<1>0. /\ ContainerByPlace(d) /\ ContainerByRow(d)
      /\ ~ctxDone[d]
      /\ status[d] # "live"
  BY DEF SwapInv, Orderly, RowInv, Settled
<1>1. \A e \in Of(TargetOf[d]) : pc[e] \notin Replacing
  BY HolderIsAlone DEF Of, Swap
<1>2. ~Replaces(TargetOf[d])  BY <1>1 DEF Replaces
<1>3. ASSUME NEW e \in Of(TargetOf[d])
      PROVE  cname[e] = "canonical" <=> status[e] = "live"
  <2>1. e \in Deployments /\ TargetOf[e] = TargetOf[d]  BY DEF Of
  <2>2. ContainerByPlace(e) /\ ContainerByRow(e) /\ pc[e] \notin {"dead", "recover"}
    BY <2>1 DEF SwapInv, Orderly
  <2>3. status[e] = "live" => cname[e] = "canonical"
    BY <1>2, <2>1, <2>2 DEF ContainerByRow
  <2>4. status[e] # "live" => cname[e] # "canonical"
    BY <1>1, <2>1, <2>2
       DEF ContainerByRow, ContainerByPlace, Fresh, Ended, Waiting, Trial, Swap, Closing
  <2> QED  BY <2>3, <2>4
<1>4. OldIsLive(d)'
  BY <1>0, <1>3 DEF CanonicalHolders, RowInv, AtMostOneLive, OldIsLive, Of, NoDep
<1>5. ContainerByPlace(d)' /\ ContainerByRow(d)'
  BY <1>0 DEF ContainerByPlace, ContainerByRow, Fresh, Ended, Settled
<1>6. Orderly'  BY DEF SwapInv, Orderly
<1> QED  BY <1>0, <1>4, <1>5, <1>6, KeepsSwap DEF CanonicalHolders

\* Nobody else of the target is taking over while d holds the build slot.
LEMMA OthersDoNotReplace ==
    ASSUME MaxBuilds = 1, TypeOK, SlotsInv, NEW d \in Deployments, pc[d] \in Held
    PROVE  \A e \in Deployments : e # d => pc[e] \notin Held /\ pc[e] \notin Replacing
BY HolderIsAlone DEF Replacing, Held, Swap

\* The old container goes as its deployment starts to be replaced.
LEMMA SwapStopOld ==
    ASSUME OrderlyFaults, MaxBuilds = 1, TypeOK, SlotsInv, RowInv, SwapInv,
           NEW d \in Deployments, StopOld(d)
    PROVE  SwapInv'
<1> USE DEF TypeOK, OrderlyFaults, StopOld
<1>1. /\ pc[d] = "swap" /\ ~ctxDone[d] /\ status[d] # "live"
      /\ ContainerByPlace(d) /\ ContainerByRow(d) /\ OldIsLive(d)
  BY DEF SwapInv, Orderly, RowInv, Settled
<1>2. \A e \in Deployments : e # d => pc[e] \notin Replacing
  BY OthersDoNotReplace DEF Held, Swap
<1>3. old[d] # d /\ NoDep \notin Deployments
  BY <1>1, DeploymentsAssumption DEF OldIsLive, NoDep
<1>4. /\ pc' = [pc EXCEPT ![d] = "rename"]
      /\ UNCHANGED <<status, old, ctxDone, server>>
      /\ \A e \in Deployments :
            IF e = old[d] THEN cname'[e] = "none" /\ ~run'[e]
            ELSE cname'[e] = cname[e] /\ run'[e] = run[e]
  BY <1>1, <1>3 DEF StopContainer, CutShort, docker, locals, Goto
<1>5. Orderly'  BY <1>4 DEF SwapInv, Orderly
<1>6. ContainerByPlace(d)' /\ ContainerByRow(d)' /\ OldIsLive(d)'
  BY <1>1, <1>3, <1>4
     DEF ContainerByPlace, ContainerByRow, OldIsLive, Fresh, Ended, Waiting, Building
<1>7. ASSUME NEW e \in Deployments, e # d
      PROVE  ContainerByPlace(e)' /\ ContainerByRow(e)' /\ OldIsLive(e)'
  <2>1. /\ ContainerByPlace(e) /\ ContainerByRow(e) /\ OldIsLive(e)
        /\ pc'[e] = pc[e] /\ pc[e] \notin Replacing
        /\ status[e] = "live" => pc[e] \in Settled
    BY <1>2, <1>4, <1>7 DEF SwapInv, RowInv
  <2>2. OldIsLive(e)'  BY <1>4, <2>1 DEF OldIsLive, Of
  <2>3. CASE e = old[d]
    <3>1. /\ status[e] = "live" /\ TargetOf[e] = TargetOf[d]
          /\ cname'[e] = "none" /\ ~run'[e]
      BY <1>1, <1>3, <1>4, <2>3 DEF OldIsLive, Of
    <3>2. Replaces(TargetOf[e])'  BY <1>4, <3>1 DEF Replaces, Replacing, Of
    <3> QED
      BY <1>4, <2>1, <2>2, <3>1, <3>2
         DEF ContainerByPlace, ContainerByRow, Settled, Fresh, Waiting, Building
  <2>4. CASE e # old[d]
    <3>1. cname'[e] = cname[e] /\ run'[e] = run[e]  BY <1>4, <2>4
    <3>2. ContainerByPlace(e)'  BY <2>1, <3>1 DEF ContainerByPlace
    <3>3. TargetOf[e] = TargetOf[d] => status[e] # "live"
      BY <1>1, <2>4 DEF OldIsLive, Of
    <3>4. TargetOf[e] # TargetOf[d] => (Replaces(TargetOf[e])' <=> Replaces(TargetOf[e]))
      BY <1>4 DEF Replaces, Of
    <3>5. ContainerByRow(e)'  BY <1>4, <2>1, <3>1, <3>3, <3>4 DEF ContainerByRow
    <3> QED  BY <2>2, <3>2, <3>5
  <2> QED  BY <2>3, <2>4
<1> QED  BY <1>5, <1>6, <1>7 DEF SwapInv

\* The name is free by now, so the rename succeeds.
LEMMA SwapRename ==
    ASSUME OrderlyFaults, MaxBuilds = 1, TypeOK, SlotsInv, RowInv, SwapInv,
           NEW d \in Deployments, Rename(d)
    PROVE  SwapInv'
<1> USE DEF TypeOK, OrderlyFaults, Rename, locals
<1>1. /\ pc[d] = "rename" /\ ~ctxDone[d] /\ status[d] # "live"
      /\ ContainerByPlace(d) /\ ContainerByRow(d)
  BY DEF SwapInv, Orderly, RowInv, Settled
<1>2. \A e \in Deployments : e # d => pc[e] \notin Replacing
  BY OthersDoNotReplace DEF Held, Swap
<1>3. Replaces(TargetOf[d])  BY <1>1 DEF Replaces, Replacing, Of
<1>4. ASSUME NEW e \in Deployments, TargetOf[e] = TargetOf[d]
      PROVE  cname[e] # "canonical"
  <2>1. ContainerByPlace(e) /\ ContainerByRow(e) /\ pc[e] \notin {"dead", "recover"}
    BY DEF SwapInv, Orderly
  <2>2. pc[e] \notin {"mark", "retire", "golive"}  BY <1>1, <1>2 DEF Replacing
  <2>3. status[e] = "live" => cname[e] = "none"  BY <1>3, <1>4, <2>1 DEF ContainerByRow
  <2> QED
    BY <2>1, <2>2, <2>3
       DEF ContainerByPlace, ContainerByRow, Fresh, Ended, PcValues, InFlight, Held, Waiting,
           Building, Trial, Swap, Closing
<1>5. CanonicalHolders(TargetOf[d]) = {}  BY <1>4 DEF CanonicalHolders, Of
<1>6. cname' = [cname EXCEPT ![d] = "canonical"]
  BY <1>1, <1>5 DEF ContainerByPlace
<1>7. ContainerByPlace(d)' /\ ContainerByRow(d)' /\ OldIsLive(d)'
  BY <1>1, <1>6
     DEF ContainerByPlace, ContainerByRow, OldIsLive, Fresh, Ended, Waiting, Building, Goto, rows
<1>8. Orderly'  BY DEF SwapInv, Orderly, Goto, rows
<1> QED
  BY <1>1, <1>6, <1>7, <1>8, KeepsSwap
     DEF Goto, rows, Replacing, PcValues, InFlight, Held, Swap

LEMMA SwapMark ==
    ASSUME OrderlyFaults, MaxBuilds = 1, TypeOK, SlotsInv, RowInv, SwapInv,
           NEW d \in Deployments, MarkReplaced(d)
    PROVE  SwapInv'
<1> USE DEF TypeOK, OrderlyFaults, MarkReplaced, rows, docker
<1>1. /\ pc[d] = "mark" /\ status[d] # "live"
      /\ ContainerByPlace(d) /\ ContainerByRow(d)
  BY DEF SwapInv, RowInv, Settled
<1>2. PICK l \in {"golive", "retire"} : pc' = [pc EXCEPT ![d] = l]
  BY DEF Goto
<1>3. Orderly'  BY <1>2 DEF SwapInv, Orderly
<1>4. ContainerByPlace(d)' /\ ContainerByRow(d)' /\ OldIsLive(d)'
  BY <1>1, <1>2 DEF ContainerByPlace, ContainerByRow, OldIsLive, Fresh, Ended, Waiting, Building
<1> QED
  BY <1>1, <1>2, <1>3, <1>4, KeepsSwap DEF Replacing, PcValues, InFlight, Held, Swap

\* The row that loses its status is the one whose container is gone already.
LEMMA SwapRetire ==
    ASSUME OrderlyFaults, MaxBuilds = 1, TypeOK, SlotsInv, RowInv, SwapInv,
           NEW d \in Deployments, Retire(d)
    PROVE  SwapInv'
<1> USE DEF TypeOK, OrderlyFaults, Retire, docker
<1>1. pc[d] = "retire" /\ status[d] # "live" /\ ContainerByPlace(d) /\ ContainerByRow(d)
  BY DEF SwapInv, RowInv, Settled
<1>2. \A e \in Deployments : e # d => pc[e] \notin Held
  BY OthersDoNotReplace, <1>1 DEF Held, Swap
<1>3. pc' = [pc EXCEPT ![d] = "golive"]  BY DEF Goto
<1>4. \A e \in Deployments :
        status'[e] # status[e]
        => /\ status[e] \in {"live", "failed"} /\ pc[e] \in Settled
           /\ status'[e] = "replaced" /\ TargetOf[e] = TargetOf[d]
  BY <1>1 DEF SetStatus, RowInv, Chose
<1>5. Orderly'  BY <1>3 DEF SwapInv, Orderly
<1>6. \A t : Replaces(t)' <=> Replaces(t)  BY <1>1, <1>3 DEF Replaces, Replacing, Of
<1>7. Replaces(TargetOf[d])  BY <1>1 DEF Replaces, Replacing, Of
<1>8. ASSUME NEW e \in Deployments
      PROVE  ContainerByPlace(e)' /\ ContainerByRow(e)' /\ OldIsLive(e)'
  <2>1. ContainerByPlace(e) /\ ContainerByRow(e)  BY DEF SwapInv
  <2>2. ContainerByPlace(e)'
    BY <1>1, <1>3, <2>1 DEF ContainerByPlace, Fresh, Waiting, Building
  <2>3. CASE status'[e] = status[e]
    <3>1. ContainerByRow(e)'  BY <1>1, <1>3, <1>6, <2>1, <2>3 DEF ContainerByRow, Ended
    <3> QED  BY <1>2, <1>3, <2>2, <3>1 DEF OldIsLive, Held, Building, Trial, Swap
  <2>4. CASE status'[e] # status[e]
    <3>1. pc[e] \in Ended  BY <1>4, <2>4 DEF SwapInv, Orderly, Settled, Ended
    <3>3. cname[e] = "none" /\ ~run[e]  BY <1>4, <1>7, <2>1, <2>4, <3>1 DEF ContainerByRow
    <3>2. ContainerByRow(e)'  BY <1>4, <2>4, <3>3 DEF ContainerByRow
    <3> QED  BY <1>2, <1>3, <2>2, <3>2 DEF OldIsLive, Held, Building, Trial, Swap
  <2> QED  BY <2>3, <2>4
<1> QED  BY <1>5, <1>8 DEF SwapInv

\* The deployment becomes the live one of its target as it stops replacing.
LEMMA SwapGoLive ==
    ASSUME OrderlyFaults, MaxBuilds = 1, TypeOK, SlotsInv, RowInv, SwapInv,
           NEW d \in Deployments, GoLive(d)
    PROVE  SwapInv'
<1> USE DEF TypeOK, OrderlyFaults, GoLive, docker
<1>1. pc[d] = "golive" /\ ContainerByPlace(d)
  BY DEF SwapInv
<1>2. \A e \in Deployments : e # d => pc[e] \notin Held /\ pc[e] \notin Replacing
  BY OthersDoNotReplace, <1>1 DEF Held, Swap
<1>3. /\ pc' = [pc EXCEPT ![d] = "finish"]
      /\ status' = [status EXCEPT ![d] = "live"]
  BY DEF Goto, SetStatus
<1>4. Orderly'  BY <1>3 DEF SwapInv, Orderly
<1>5. ~Replaces(TargetOf[d])'  BY <1>2, <1>3 DEF Replaces, Replacing, Of
<1>6. ContainerByPlace(d)' /\ ContainerByRow(d)' /\ OldIsLive(d)'
  BY <1>1, <1>3, <1>5
     DEF ContainerByPlace, ContainerByRow, OldIsLive, Fresh, Waiting, Building
<1>7. ASSUME NEW e \in Deployments, e # d
      PROVE  ContainerByPlace(e)' /\ ContainerByRow(e)' /\ OldIsLive(e)'
  <2>1. /\ ContainerByPlace(e) /\ ContainerByRow(e)
        /\ pc'[e] = pc[e] /\ status'[e] = status[e]
    BY <1>3, <1>7 DEF SwapInv
  <2>2. TargetOf[e] = TargetOf[d] => status[e] # "live"
    BY <1>1 DEF RowInv
  <2>3. TargetOf[e] # TargetOf[d] => (Replaces(TargetOf[e])' <=> Replaces(TargetOf[e]))
    BY <1>3 DEF Replaces, Of
  <2>4. ContainerByRow(e)'  BY <2>1, <2>2, <2>3 DEF ContainerByRow
  <2>5. OldIsLive(e)'
    BY <1>2, <1>7, <2>1 DEF OldIsLive, Held, Building, Trial, Swap
  <2>6. ContainerByPlace(e)'  BY <2>1 DEF ContainerByPlace
  <2> QED  BY <2>4, <2>5, <2>6
<1> QED  BY <1>4, <1>6, <1>7 DEF SwapInv

\* No other step is possible: nothing panics, and the server stays up.
LEMMA SwapStep ==
    ASSUME OrderlyFaults, MaxBuilds = 1, TypeOK, SlotsInv, RowInv, SwapInv, Next
    PROVE  SwapInv'
<1>1. ASSUME NEW d \in Deployments, DeploymentStep(d) PROVE SwapInv'
  <2>1. ~RecoverPanic(d) /\ ~Panic(d) /\ ~Timeout(d)
    BY DEF OrderlyFaults, SwapInv, Orderly, RecoverPanic, Panic, Timeout
  <2> QED
    BY <1>1, <2>1, SwapAlone, SwapCapture, SwapStopOld, SwapRename, SwapMark, SwapRetire,
       SwapGoLive
       DEF DeploymentStep, Step
<1>2. ~(Shutdown \/ Drained \/ Crash \/ Restart)
  BY DEF OrderlyFaults, SwapInv, Orderly, Shutdown, Drained, Crash, Restart
<1> QED  BY <1>1, <1>2, NextCases

\* Where every deployment's container is during a swap and between swaps, as
\* long as only the repository and its domains may fail.
THEOREM SwapCorrect ==
    ASSUME MaxBuilds = 1, OrderlyFaults
    PROVE  Spec => []SwapInv
<1>1. TypeOK /\ SlotsInv /\ RowInv /\ SwapInv /\ [Next]_vars => SwapInv'
  <2> SUFFICES ASSUME TypeOK, SlotsInv, RowInv, SwapInv, UNCHANGED vars PROVE SwapInv'
    BY SwapStep
  <2>1. \A t : Replaces(t)' <=> Replaces(t)  BY DEF vars, Replaces, Of
  <2> QED
    BY <2>1 DEF vars, SwapInv, Orderly, ContainerByPlace, ContainerByRow, OldIsLive
<1>2. "db" \notin Faults  BY DEF OrderlyFaults
<1> QED  BY <1>1, <1>2, TypeCorrect, SlotsCorrect, RowCorrect, SwapInit, PTL DEF Spec

\* Outside a swap the live row is that of the container with the name, which
\* runs.
THEOREM LiveIsSwapped ==
    ASSUME MaxBuilds = 1, OrderlyFaults
    PROVE  Spec => []LiveMeansSwapped
<1>1. SwapInv => LiveMeansSwapped
  BY DEF SwapInv, LiveMeansSwapped, ContainerByRow, Replaces, Replacing, Swap
<1> QED  BY <1>1, SwapCorrect, PTL

\* A deployment that failed or was replaced left no container behind.
THEOREM NothingStrays ==
    ASSUME MaxBuilds = 1, OrderlyFaults
    PROVE  Spec => []NoStrayContainers
<1>1. ASSUME TypeOK, SwapInv, \A d \in Deployments : pc[d] \notin InFlight,
             NEW d \in Deployments, cname[d] # "none"
      PROVE  status[d] = "live"
  <2>1. ContainerByPlace(d) /\ ContainerByRow(d) /\ pc[d] # "dead" /\ pc[d] \in PcValues
    BY <1>1 DEF SwapInv, Orderly, TypeOK
  <2> QED
    BY <1>1, <2>1 DEF ContainerByPlace, ContainerByRow, Fresh, Ended, PcValues
<1>2. TypeOK /\ SwapInv => NoStrayContainers  BY <1>1 DEF NoStrayContainers
<1> QED  BY <1>2, TypeCorrect, SwapCorrect, PTL

-----------------------------------------------------------------------------
(* A failed deployment and the traffic *)

\* Docker mode never writes a host port into the proxy.
RouteInv == Mode = "docker" => \A t \in Targets : route[t] # "port"

THEOREM RouteCorrect == Spec => []RouteInv
<1>1. Init => RouteInv  BY DEF Init, RouteInv
<1>2. TypeOK /\ RouteInv /\ [Next]_vars => RouteInv'
  <2> SUFFICES ASSUME TypeOK, RouteInv, [Next]_vars PROVE RouteInv'
    OBVIOUS
  <2>1. CASE UNCHANGED route  BY <2>1 DEF RouteInv
  <2>2. ASSUME NEW d \in Deployments, EnsureDomains(d) PROVE RouteInv'
    BY <2>2, TargetAssumption DEF EnsureDomains, WriteUpstream, RouteInv, TypeOK, proxy
  <2>3. CASE Restart
    <3>1. PICK active \in SUBSET Targets : Reconcile(active)  BY <2>3 DEF Restart
    <3> QED  BY <3>1 DEF Reconcile, RouteInv
  <2>4. ASSUME NEW d \in Deployments, DeploymentStep(d), ~EnsureDomains(d) PROVE RouteInv'
    <3>1. UNCHANGED route
      BY <2>4 DEF DeploymentStep, Step, CreateDeployment, Acquire, Prepare, Dispatch,
         StartBuild, BuildImage, CaptureOld, RunContainer, HealthCheck, AbortNew, StopOld, Rename,
         MarkReplaced, Retire, GoLive, Finish, Fail, Release, RecoverPanic, Panic, Timeout, proxy
    <3> QED  BY <2>1, <3>1
  <2>5. CASE Shutdown \/ Drained \/ Crash
    BY <2>1, <2>5 DEF Shutdown, Drained, Crash, Exit, proxy
  <2> QED  BY <2>1, <2>2, <2>3, <2>4, <2>5, NextCases DEF vars
<1> QED  BY TypeCorrect, <1>1, <1>2, PTL DEF Spec

\* In docker mode a deployment that fails, in its build, its trial or its
\* domains, leaves the traffic with the live deployment of its target.
THEOREM FailureKeepsServing ==
    ASSUME MaxBuilds = 1, OrderlyFaults, Mode = "docker"
    PROVE  Spec => FailureKeepsPriorServing
<1> DEFINE Inv == /\ TypeOK /\ SlotsInv /\ CanonicalNameUnique
                  /\ SwapInv /\ RouteInv
<1>1. ASSUME Inv, Next, NEW d \in Deployments, status'[d] = "failed", status[d] # "failed"
      PROVE  Fail(d)
  <2>1. ASSUME NEW x \in Deployments, DeploymentStep(x) PROVE Fail(d)
    <3>1. ~RecoverPanic(x)  BY <1>1 DEF RecoverPanic, SwapInv, Orderly
    <3>2. CASE Fail(x)
      BY <1>1, <3>2 DEF Fail, SetStatus, TypeOK
    <3>3. CASE Retire(x)
      BY <1>1, <3>3 DEF Retire, SetStatus, TypeOK
    <3>4. CASE CreateDeployment(x) \/ StartBuild(x) \/ BuildImage(x) \/ GoLive(x)
      BY <1>1, <3>4 DEF CreateDeployment, StartBuild, BuildImage, GoLive, SetStatus, TypeOK
    <3>5. CASE UNCHANGED status  BY <1>1, <3>5
    <3> QED
      BY <2>1, <3>1, <3>2, <3>3, <3>4, <3>5 DEF DeploymentStep, Step, Acquire, Prepare, Dispatch,
         CaptureOld, RunContainer, HealthCheck, EnsureDomains, AbortNew, StopOld, Rename,
         MarkReplaced, Finish, Release, Panic, Timeout, rows
  <2>2. ~(Shutdown \/ Drained \/ Crash \/ Restart)
    BY <1>1 DEF OrderlyFaults, SwapInv, Orderly, Shutdown, Drained, Crash, Restart
  <2> QED  BY <1>1, <2>1, <2>2, NextCases
<1>2. ASSUME Inv, NEW d \in Deployments, Fail(d), NEW e \in LiveRows(TargetOf[d]),
             route[TargetOf[d]] # "none"
      PROVE  Serving(TargetOf[d]) = {e}
  <2>1. e \in Deployments /\ TargetOf[e] = TargetOf[d] /\ status[e] = "live"
    BY DEF LiveRows, Of
  <2>2. ~Replaces(TargetOf[e])
    BY <1>2, <2>1, OthersDoNotReplace DEF Fail, Replaces, Replacing, Of, Held, Closing
  <2>3. cname[e] = "canonical" /\ run[e]
    BY <1>2, <2>1, <2>2 DEF SwapInv, ContainerByRow
  <2>4. route[TargetOf[d]] = "name"
    BY <1>2, TargetAssumption DEF RouteInv, TypeOK
  <2>5. \A x \in Of(TargetOf[d]) : cname[x] = "canonical" => x = e
    BY <1>2, <2>1, <2>3 DEF CanonicalNameUnique, Of
  <2> QED  BY <2>1, <2>3, <2>4, <2>5 DEF Serving, Of
<1>3. Inv /\ [Next]_vars
      => [\A d \in Deployments :
            status'[d] = "failed" /\ status[d] # "failed"
            => \A e \in LiveRows(TargetOf[d]) :
                  route[TargetOf[d]] # "none" => Serving(TargetOf[d]) = {e}]_vars
  <2> HIDE DEF Inv
  <2> QED  BY <1>1, <1>2
<1> QED
  BY TypeCorrect, SlotsCorrect, CanonicalNameIsUnique, SwapCorrect, RouteCorrect, <1>3, PTL
     DEF Spec, FailureKeepsPriorServing

-----------------------------------------------------------------------------
(* Zero downtime *)

\* The faults under which host-port mode has no downtime: no deadline and no
\* shutdown ends a context during a swap, and Docker and the proxy do as told.
GentleFaults == Faults \subseteq {"build", "panic", "crash", "db"}

\* The new container's port is in the proxy before the old container stops,
\* and the proxy never names a container that may still be taken down.
PortInv ==
    /\ server # "draining"
    /\ \A d \in Deployments :
          /\ ctxDone[d] => pc[d] \in {"done", "recover"}
          /\ pc[d] = "swap" => route[TargetOf[d]] = "port" /\ port[TargetOf[d]] = d
          /\ pc[d] \in NotYetUp => port[TargetOf[d]] # d
          /\ server = "down" => pc[d] \notin InFlight

LEMMA PortInit == Init => PortInv
BY DeploymentsAssumption, TargetAssumption
   DEF Init, PortInv, NoDep, Waiting, Building, Trial, InFlight, Held, Swap, Closing, NotYetUp

\* Only EnsureDomains moves a port, with the build slot held and its own
\* container running.
LEMMA PortStep ==
    ASSUME GentleFaults, Mode = "host-port", MaxBuilds = 1, TypeOK, SlotsInv, ContainerInv, PortInv,
           NEW d \in Deployments, DeploymentStep(d)
    PROVE  PortInv'
<1> USE DEF TypeOK, PortInv, Goto, rows, locals, docker, proxy, GentleFaults, PcValues, InFlight,
        Held, Waiting, Building, Trial, Swap, Closing, NotYetUp
<1>1. CASE CreateDeployment(d)  BY <1>1 DEF CreateDeployment
<1>2. CASE Acquire(d)  BY <1>2 DEF Acquire
<1>3. CASE Prepare(d)  BY <1>3 DEF Prepare
<1>4. CASE Dispatch(d)  BY <1>4 DEF Dispatch
<1>5. CASE StartBuild(d)  BY <1>5 DEF StartBuild
<1>6. CASE BuildImage(d)  BY <1>6 DEF BuildImage
<1>7. CASE CaptureOld(d)  BY <1>7 DEF CaptureOld, CanonicalHolders
<1>8. CASE RunContainer(d)  BY <1>8 DEF RunContainer, CutShort
<1>9. CASE HealthCheck(d)  BY <1>9 DEF HealthCheck
<1>10. CASE EnsureDomains(d)
  <2>1. /\ pc[d] = "domains" /\ pc' = [pc EXCEPT ![d] = "swap"]
        /\ route' = [route EXCEPT ![TargetOf[d]] = "port"]
        /\ port' = [port EXCEPT ![TargetOf[d]] = d]
        /\ UNCHANGED <<server, ctxDone>>
    BY <1>10 DEF EnsureDomains, WriteUpstream
  <2>2. TargetOf[d] \in Targets  BY TargetAssumption
  <2>3. \A e \in Deployments : e # d => pc[e] # "swap"
    BY <2>1, OthersDoNotReplace
  <2> QED  BY <2>1, <2>2, <2>3
<1>11. CASE AbortNew(d)  BY <1>11 DEF AbortNew, StopContainer, CutShort
<1>12. CASE StopOld(d)  BY <1>12 DEF StopOld, StopContainer, CutShort
<1>13. CASE Rename(d)  BY <1>13 DEF Rename
<1>14. CASE MarkReplaced(d)  BY <1>14 DEF MarkReplaced
<1>15. CASE GoLive(d)  BY <1>15 DEF GoLive
<1>16. CASE Finish(d)  BY <1>16 DEF Finish
<1>17. CASE Fail(d)  BY <1>17 DEF Fail
<1>18. CASE Release(d)  BY <1>18 DEF Release, Unwind
<1>19. CASE RecoverPanic(d)  BY <1>19 DEF RecoverPanic
<1>20. CASE Panic(d)  BY <1>20 DEF Panic, Unwind
<1>21. CASE Timeout(d)  BY <1>21 DEF Timeout
<1>22. CASE Retire(d)  BY <1>22 DEF Retire
<1> QED
  BY <1>1, <1>2, <1>3, <1>4, <1>5, <1>6, <1>7, <1>8, <1>9, <1>10, <1>11, <1>12, <1>13, <1>14,
     <1>15, <1>16, <1>17, <1>18, <1>19, <1>20, <1>21, <1>22 DEF DeploymentStep, Step

LEMMA PortServer ==
    ASSUME GentleFaults, Mode = "host-port", TypeOK, ContainerInv, PortInv,
           Shutdown \/ Drained \/ Crash \/ Restart
    PROVE  PortInv'
<1>1. CASE Exit
  BY <1>1 DEF Exit, PortInv, TypeOK, proxy, PcValues, InFlight, Held, Waiting, Building, Trial,
     Swap, Closing, NotYetUp
<1>2. CASE Restart
  <2>1. PICK active \in SUBSET Targets : Reconcile(active)
    BY <1>2 DEF Restart
  <2>2. /\ server = "down" /\ server' = "up" /\ UNCHANGED <<pc, ctxDone>>
        /\ \A d \in Deployments : pc[d] # "swap"
    BY <1>2 DEF Restart, PortInv, InFlight, Held, Swap
  <2>3. ASSUME NEW d \in Deployments, pc[d] \in NotYetUp
        PROVE  port'[TargetOf[d]] # d
    <3> DEFINE t == TargetOf[d]
               c == CHOOSE e \in Reconcilable(t) : TRUE
    <3>1. t \in Targets  BY TargetAssumption
    <3>2. CASE Reconcilable(t) = {}
      BY <2>1, <2>3, <3>1, <3>2 DEF Reconcile, PortInv
    <3>3. CASE Reconcilable(t) # {}
      <4>1. c \in Reconcilable(t)  BY <3>3
      <4>2. c \in Deployments /\ cname[c] = "canonical"
        BY <4>1 DEF Reconcilable, CanonicalHolders, Of
      <4>3. pc[c] \in PastRename  BY <4>2 DEF ContainerInv, NamedPastRename
      <4>4. c # d
        BY <2>3, <4>3 DEF PastRename, Settled, NotYetUp, Waiting, Building, Trial
      <4>5. port'[t] = port[t] \/ port'[t] = c
        BY <2>1, <3>1 DEF Reconcile
      <4>6. port[t] # d  BY <2>3 DEF PortInv
      <4> QED  BY <4>4, <4>5, <4>6
    <3> QED  BY <3>2, <3>3
  <2> QED
    BY <2>2, <2>3 DEF PortInv, InFlight
<1> QED
  BY <1>1, <1>2 DEF GentleFaults, Shutdown, Drained, Crash, PortInv

THEOREM PortCorrect ==
    ASSUME MaxBuilds = 1, Mode = "host-port", GentleFaults
    PROVE  Spec => []PortInv
<1>1. TypeOK /\ SlotsInv /\ ContainerInv /\ PortInv /\ [Next]_vars => PortInv'
  <2> SUFFICES ASSUME TypeOK, SlotsInv, ContainerInv, PortInv, [Next]_vars PROVE PortInv'
    OBVIOUS
  <2>1. CASE UNCHANGED vars  BY <2>1 DEF vars, PortInv
  <2> QED  BY <2>1, NextCases, PortStep, PortServer
<1> QED
  BY <1>1, TypeCorrect, SlotsCorrect, ContainersCorrect, PortInit, PTL DEF Spec

\* A container that is served is stopped only once the proxy names another one
\* that runs.
LEMMA ServedStep ==
    ASSUME Mode = "host-port", TypeOK, ContainerInv, PortInv, GentleFaults,
           NEW d \in Deployments, DeploymentStep(d),
           NEW t \in Targets, Serving(t) # {}
    PROVE  Serving(t)' # {}
<1>1. PICK s \in Of(t) : run[s] /\ route[t] = "port" /\ port[t] = s
  BY DEF Serving
<1>2. s \in Deployments /\ TargetOf[s] = t  BY DEF Of
<1>3. pc[s] \notin NotYetUp  BY <1>1, <1>2 DEF PortInv
<1>4. TargetOf[d] \in Targets  BY TargetAssumption
<1>5. CASE EnsureDomains(d) /\ TargetOf[d] = t
  <2>1. run'[d] /\ route'[t] = "port" /\ port'[t] = d /\ d \in Of(t)
    BY <1>4, <1>5 DEF EnsureDomains, WriteUpstream, docker, PortInv, ContainerInv, TrialRuns,
       TypeOK, GentleFaults, Of
  <2> QED  BY <2>1 DEF Serving, Of
<1>6. CASE StopOld(d) /\ TargetOf[d] = t
  <2>1. old[d] # d
    BY <1>6, DeploymentsAssumption
       DEF StopOld, ContainerInv, OldPastRename, PastRename, Settled, NoDep
  <2>2. route[t] = "port" /\ port[t] = d /\ run[d] /\ d \in Of(t)
    BY <1>6 DEF StopOld, PortInv, ContainerInv, TrialRuns, Of
  <2>3. UNCHANGED proxy /\ run'[d]
    BY <1>6, <2>1, <2>2, DeploymentsAssumption
       DEF StopOld, StopContainer, CutShort, docker, TypeOK, NoDep
  <2> QED  BY <2>2, <2>3 DEF Serving, Of, proxy
<1>7. CASE \/ EnsureDomains(d) /\ TargetOf[d] # t
           \/ StopOld(d) /\ TargetOf[d] # t
           \/ ~EnsureDomains(d) /\ ~StopOld(d)
  <2>1. route'[t] = route[t] /\ port'[t] = port[t]
    BY <1>4, <1>7 DEF DeploymentStep, Step, CreateDeployment, Acquire, Prepare, Dispatch,
       StartBuild, BuildImage, CaptureOld, RunContainer, HealthCheck, EnsureDomains,
       WriteUpstream, AbortNew, StopOld, Rename, MarkReplaced, Retire, GoLive, Finish, Fail,
       Release, RecoverPanic, Panic, Timeout, proxy, TypeOK
  <2>2. s # d \/ ~(RunContainer(d) \/ HealthCheck(d) \/ AbortNew(d))
    BY <1>3 DEF RunContainer, HealthCheck, AbortNew, NotYetUp, Building, Trial
  <2>3. CASE StopOld(d) /\ TargetOf[d] # t
    <3>1. old[d] # s
      BY <1>2, <2>3, DeploymentsAssumption DEF ContainerInv, OldPastRename, NoDep
    <3> QED
      BY <1>1, <1>2, <2>1, <2>3, <3>1
         DEF StopOld, StopContainer, CutShort, docker, TypeOK, Serving, Of
  <2>4. CASE ~StopOld(d)
    <3>1. run'[s] = run[s]
      BY <1>2, <2>2, <2>4 DEF DeploymentStep, Step, CreateDeployment, Acquire, Prepare, Dispatch,
         StartBuild, BuildImage, CaptureOld, RunContainer, HealthCheck, EnsureDomains, AbortNew,
         StopContainer, Rename, MarkReplaced, Retire, GoLive, Finish, Fail, Release, RecoverPanic,
         Panic, Timeout, docker, TypeOK
    <3> QED  BY <1>1, <1>2, <2>1, <3>1 DEF Serving, Of
  <2> QED  BY <1>7, <2>3, <2>4
<1> QED  BY <1>5, <1>6, <1>7

\* A start-up reconcile leaves the upstream alone or gives the target another
\* container that runs.
LEMMA ServedServer ==
    ASSUME Mode = "host-port", TypeOK, Shutdown \/ Drained \/ Crash \/ Restart,
           NEW t \in Targets, Serving(t) # {}
    PROVE  Serving(t)' # {}
<1>1. CASE Shutdown \/ Exit  BY <1>1 DEF Shutdown, Exit, Serving, docker, proxy
<1>2. CASE Restart
  <2>1. PICK active \in SUBSET Targets : Reconcile(active)
    BY <1>2 DEF Restart
  <2>2. UNCHANGED docker  BY <1>2 DEF Restart
  <2>3. CASE route'[t] = route[t] /\ port'[t] = port[t]
    BY <2>2, <2>3 DEF Serving, docker
  <2>4. CASE ~(route'[t] = route[t] /\ port'[t] = port[t])
    <3> DEFINE c == CHOOSE e \in Reconcilable(t) : TRUE
    <3>1. Reconcilable(t) # {} /\ route'[t] = "port" /\ port'[t] = c
      BY <2>1, <2>4 DEF Reconcile
    <3>2. c \in Of(t) /\ run[c]
      BY <3>1 DEF Reconcilable, CanonicalHolders
    <3> QED  BY <2>2, <3>1, <3>2 DEF Serving, docker
  <2> QED  BY <2>3, <2>4
<1> QED  BY <1>1, <1>2 DEF Drained, Crash

\* In host-port mode a target that is served stays served, through every swap,
\* failure and crash, until a deadline, a shutdown, Docker or the proxy
\* interferes.
THEOREM NeverUnservedHostPort ==
    ASSUME MaxBuilds = 1, Mode = "host-port", GentleFaults
    PROVE  Spec => NeverUnserved
<1>1. TypeOK /\ ContainerInv /\ PortInv /\ [Next]_vars
      => [\A t \in Targets : Serving(t) # {} => Serving(t)' # {}]_vars
  BY ServedStep, ServedServer, NextCases
<1> QED
  BY <1>1, TypeCorrect, ContainersCorrect, PortCorrect, PTL DEF Spec, NeverUnserved
=============================================================================
