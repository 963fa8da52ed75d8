--------------------------- MODULE DeployPipeline ---------------------------
(***************************************************************************)
(* The deployment pipeline of internal/build/pipeline.go: every deployment *)
(* row is carried by one goroutine that waits for the build semaphore,     *)
(* builds an image, starts the new container beside the old one under a    *)
(* temporary name, points the proxy at it, swaps the names and finalises   *)
(* the rows.  Three stores are kept in step by hand: the deployments table *)
(* (status), the Docker daemon (cname, run) and the proxy configuration    *)
(* (route, port).  Rows, containers and routes survive a crash of the      *)
(* process; goroutines (pc), contexts and the semaphore do not.            *)
(*                                                                         *)
(* A container is named by the deployment that started it.  Deployment ids *)
(* are ULIDs, so the order of the ids is the order of creation.            *)
(***************************************************************************)
EXTENDS Naturals, FiniteSets

CONSTANTS
    Deployments,   \* ids of the deployments that may be created
    Targets,       \* (project, environment, preview instance) triples
    TargetOf,      \* the target each deployment is for
    Rollouts,      \* the deployments run by an app rollout, not by Dispatch
    MaxBuilds,     \* capacity of the build semaphore (1 in cmd/server/main.go)
    Mode,          \* PROXY_TYPE: "docker" or "host-port"
    Faults         \* what the environment may do to the pipeline

FaultKinds == {"build",     \* the repository fails to clone, build, start or stay up
               "domain",    \* DNS, certbot or the proxy reload fails
               "docker",    \* a Docker API call fails
               "db",        \* a status UPDATE is lost (its error is ignored)
               "panic",     \* the deploy goroutine panics
               "timeout",   \* the deploy's context reaches its deadline
               "shutdown",  \* SIGTERM: graceful shutdown
               "crash"}     \* the process dies

NoDep == 0

ASSUME DeploymentsAssumption ==
    Deployments \subseteq Nat \ {NoDep} /\ IsFiniteSet(Deployments)
ASSUME TargetAssumption == TargetOf \in [Deployments -> Targets]
ASSUME ConfigAssumption ==
    /\ Rollouts \subseteq Deployments
    /\ MaxBuilds \in Nat \ {0}
    /\ Mode \in {"docker", "host-port"}
    /\ Faults \subseteq FaultKinds

VARIABLES
    status,   \* deployments.status of each row ("none": no row yet)
    pc,       \* where the goroutine of each deployment is
    slots,    \* the deployments holding a slot of the build semaphore
    ctxDone,  \* whether the deployment's context is done
    cname,    \* name of the deployment's container: "none", "temp", "canonical"
    run,      \* whether that container is running
    old,      \* oldContainerID as read by Deploy before the new one starts
    prev,     \* liveDeploy as read by Deploy, between the SELECT and the UPDATE
    route,    \* upstream in the proxy configuration: "none", "name" or "port"
    port,     \* whose host port a "port" upstream is
    server    \* "up", "draining" or "down"

vars == <<status, pc, slots, ctxDone, cname, run, old, prev, route, port, server>>
locals == <<old, prev>>
rows == <<status, ctxDone, server>>
docker == <<cname, run>>
proxy == <<route, port>>

Waiting == {"created", "waiting"}
Building == {"start", "prepare", "image", "capture", "launch"}
Trial == {"health", "domains", "abort"}        \* the new container is on trial
Swap == {"swap", "rename", "mark", "retire", "golive"}  \* the new one takes over
Closing == {"finish", "fail", "release"}
Held == Building \cup Trial \cup Swap \cup Closing  \* holds a build slot
InFlight == Waiting \cup Held \cup {"recover"}
PcValues == InFlight \cup {"none", "done", "dead"}

Terminal == {"live", "failed", "replaced"}
StatusValues == Terminal \cup {"none", "queued", "building", "deploying"}

Of(t) == {d \in Deployments : TargetOf[d] = t}
CanonicalHolders(t) == {d \in Of(t) : cname[d] = "canonical"}
LiveRows(t) == {d \in Of(t) : status[d] = "live"}

\* The containers that requests for the target's domains reach.
Serving(t) ==
    {d \in Of(t) : /\ run[d]
                   /\ \/ Mode = "docker" /\ route[t] = "name" /\ cname[d] = "canonical"
                      \/ Mode = "host-port" /\ route[t] = "port" /\ port[t] = d}

Init ==
    /\ status = [d \in Deployments |-> "none"]
    /\ pc = [d \in Deployments |-> "none"]
    /\ slots = {}
    /\ ctxDone = [d \in Deployments |-> FALSE]
    /\ cname = [d \in Deployments |-> "none"]
    /\ run = [d \in Deployments |-> FALSE]
    /\ old = [d \in Deployments |-> NoDep]
    /\ prev = [d \in Deployments |-> NoDep]
    /\ route = [t \in Targets |-> "none"]
    /\ port = [t \in Targets |-> NoDep]
    /\ server = "up"

Goto(d, label) == pc' = [pc EXCEPT ![d] = label]

\* UpdateDeploymentStatus: unconditional, and every caller ignores its error.
SetStatus(d, s) ==
    \/ status' = [status EXCEPT ![d] = s]
    \/ "db" \in Faults /\ status' = status

-----------------------------------------------------------------------------
(* Creation and hand-off *)

\* A handler, or a running app rollout, inserts the row as "queued".
CreateDeployment(d) ==
    /\ pc[d] = "none"
    /\ \A e \in Deployments : e < d => pc[e] # "none"
    /\ server = "up" \/ (server = "draining" /\ d \in Rollouts)
    /\ status' = [status EXCEPT ![d] = "queued"]
    /\ Goto(d, "created")
    /\ UNCHANGED <<slots, ctxDone, locals, docker, proxy, server>>

\* Pipeline.Dispatch (or the direct Deploy call of a rollout member) starts the
\* goroutine; the deadline of its context runs from here.
Dispatch(d) ==
    /\ pc[d] = "created"
    /\ Goto(d, "waiting")
    /\ UNCHANGED <<slots, locals, rows, docker, proxy>>

\* Semaphore.Acquire: a send on a channel of capacity MaxBuilds; it does not
\* look at the context.
Acquire(d) ==
    /\ pc[d] = "waiting"
    /\ Cardinality(slots) < MaxBuilds
    /\ slots' = slots \cup {d}
    /\ Goto(d, "start")
    /\ UNCHANGED <<locals, rows, docker, proxy>>

-----------------------------------------------------------------------------
(* Build *)

StartBuild(d) ==
    /\ pc[d] = "start"
    /\ SetStatus(d, "building")
    /\ Goto(d, "prepare")
    /\ UNCHANGED <<slots, ctxDone, locals, docker, proxy, server>>

\* Preview target, clone, settings, variables, services, Dockerfile, secrets.
Prepare(d) ==
    /\ pc[d] = "prepare"
    /\ \/ Goto(d, "image")
       \/ Faults \cap {"build", "docker", "db"} # {} /\ Goto(d, "fail")
       \/ ctxDone[d] /\ Goto(d, "fail")          \* EnsureServices honours ctx
    /\ UNCHANGED <<slots, locals, rows, docker, proxy>>

\* docker buildx runs under the context: once it is done the build fails.
BuildImage(d) ==
    /\ pc[d] = "image"
    /\ \/ ~ctxDone[d] /\ SetStatus(d, "deploying") /\ Goto(d, "capture")
       \/ /\ ctxDone[d] \/ Faults \cap {"build", "docker"} # {}
          /\ status' = status /\ Goto(d, "fail")
    /\ UNCHANGED <<slots, ctxDone, locals, docker, proxy, server>>

\* Mutant: looks the old container up by the temporary name.
CaptureNothing(d) ==
    /\ pc[d] = "capture"
    /\ old' = [old EXCEPT ![d] = NoDep]
    /\ Goto(d, "launch")
    /\ UNCHANGED <<slots, prev, rows, docker, proxy>>

\* ContainerExists: any inspect error, a done context included, reads as
\* "there is no old container".
CaptureOld(d) ==
    /\ pc[d] = "capture"
    /\ \/ /\ ~ctxDone[d]
          /\ IF CanonicalHolders(TargetOf[d]) = {}
             THEN old' = [old EXCEPT ![d] = NoDep]
             ELSE \E e \in CanonicalHolders(TargetOf[d]) : old' = [old EXCEPT ![d] = e]
       \/ /\ ctxDone[d] \/ "docker" \in Faults
          /\ old' = [old EXCEPT ![d] = NoDep]
    /\ Goto(d, "launch")
    /\ UNCHANGED <<slots, prev, rows, docker, proxy>>

\* The second of two daemon calls fails, or the deadline expires before it.
CutShort(d) ==
    \/ "docker" \in Faults /\ UNCHANGED ctxDone
    \/ "timeout" \in Faults /\ ctxDone' = [ctxDone EXCEPT ![d] = TRUE]

\* RunContainer: create under the temporary name, then start.  When the start
\* fails the container is removed again, under the same context.
RunContainer(d) ==
    /\ pc[d] = "launch"
    /\ \/ /\ ~ctxDone[d]
          /\ cname' = [cname EXCEPT ![d] = "temp"]
          /\ run' = [run EXCEPT ![d] = TRUE]
          /\ Goto(d, "health")
          /\ UNCHANGED ctxDone
       \/ /\ ctxDone[d] \/ Faults \cap {"build", "docker"} # {}
          /\ Goto(d, "fail")
          /\ UNCHANGED <<docker, ctxDone>>
       \/ /\ ~ctxDone[d]
          /\ cname' = [cname EXCEPT ![d] = "temp"]     \* created, not started,
          /\ Goto(d, "fail")                           \* and not removed
          /\ CutShort(d)
          /\ UNCHANGED run
    /\ UNCHANGED <<status, slots, locals, proxy, server>>

-----------------------------------------------------------------------------
(* Trial of the new container *)

\* StopContainer(ctx, e): stop, then force-remove.  With the context done
\* nothing reaches the daemon; a context that expires during the stop, or a
\* failed remove, leaves the container stopped under its name.
StopContainer(d, e) ==
    \/ /\ ~ctxDone[d]
       /\ cname' = [cname EXCEPT ![e] = "none"]
       /\ run' = [run EXCEPT ![e] = FALSE]
       /\ UNCHANGED ctxDone
    \/ /\ ctxDone[d] \/ "docker" \in Faults
       /\ UNCHANGED <<docker, ctxDone>>
    \/ /\ ~ctxDone[d]
       /\ run' = [run EXCEPT ![e] = FALSE]
       /\ CutShort(d)
       /\ UNCHANGED cname

\* Mutant: a container that exited still passes.
HealthCheckLenient(d) ==
    /\ pc[d] = "health"
    /\ run' \in {run} \cup {[run EXCEPT ![d] = FALSE]}
    /\ Goto(d, "domains")
    /\ UNCHANGED <<slots, locals, rows, cname, proxy>>

\* WaitForHealthy: running for five seconds counts as healthy.
HealthCheck(d) ==
    /\ pc[d] = "health"
    /\ \/ ~ctxDone[d] /\ Goto(d, "domains") /\ UNCHANGED run
       \/ /\ ctxDone[d] \/ "docker" \in Faults
          /\ Goto(d, "abort") /\ UNCHANGED run
       \/ /\ "build" \in Faults                 \* the application exited
          /\ run' = [run EXCEPT ![d] = FALSE]
          /\ Goto(d, "abort")
    /\ UNCHANGED <<slots, locals, rows, cname, proxy>>

\* Every provisioned domain of the target gets the new upstream: the canonical
\* name, or the new container's host port, which GetHostPort reads under the
\* context and falls back to the name on error.
WriteUpstream(d) ==
    LET t == TargetOf[d] IN
    \/ Mode = "docker" /\ route' = [route EXCEPT ![t] = "name"] /\ UNCHANGED port
    \/ /\ Mode = "host-port" /\ ~ctxDone[d]
       /\ route' = [route EXCEPT ![t] = "port"]
       /\ port' = [port EXCEPT ![t] = d]
    \/ /\ Mode = "host-port" /\ (ctxDone[d] \/ "docker" \in Faults)
       /\ route' = [route EXCEPT ![t] = "name"] /\ UNCHANGED port

\* Mutant: the proxy is left for a later step.
EnsureDomainsLater(d) ==
    /\ pc[d] = "domains"
    /\ IF route[TargetOf[d]] = "none" THEN WriteUpstream(d) ELSE UNCHANGED proxy
    /\ Goto(d, "swap")
    /\ UNCHANGED <<slots, locals, rows, docker>>

\* ensureEnvironmentDomains: no context is involved.  A failure may come after
\* the proxy was already rewritten and reloaded for an earlier domain.
EnsureDomains(d) ==
    /\ pc[d] = "domains"
    /\ \/ WriteUpstream(d) /\ Goto(d, "swap")
       \/ "domain" \in Faults /\ UNCHANGED proxy /\ Goto(d, "swap")  \* none verified
       \/ "domain" \in Faults /\ (WriteUpstream(d) \/ UNCHANGED proxy) /\ Goto(d, "abort")
    /\ UNCHANGED <<slots, locals, rows, docker>>

\* Mutants: the new container is forgotten; the old one is stopped instead.
AbortForgets(d) ==
    /\ pc[d] = "abort"
    /\ Goto(d, "fail")
    /\ UNCHANGED <<slots, locals, rows, docker, proxy>>

AbortStopsOld(d) ==
    /\ pc[d] = "abort"
    /\ IF old[d] # NoDep THEN StopContainer(d, old[d]) ELSE StopContainer(d, d)
    /\ Goto(d, "fail")
    /\ UNCHANGED <<status, slots, locals, proxy, server>>

\* Failed health check or domains: the new container is stopped.
AbortNew(d) ==
    /\ pc[d] = "abort"
    /\ StopContainer(d, d)
    /\ Goto(d, "fail")
    /\ UNCHANGED <<status, slots, locals, proxy, server>>

-----------------------------------------------------------------------------
(* Blue-green swap *)

StopOld(d) ==
    /\ pc[d] = "swap"
    /\ IF old[d] # NoDep THEN StopContainer(d, old[d]) ELSE UNCHANGED <<docker, ctxDone>>
    /\ Goto(d, "rename")
    /\ UNCHANGED <<status, slots, locals, proxy, server>>

\* Mutant: the rename takes the name from its holder.
RenameForced(d) ==
    /\ pc[d] = "rename"
    /\ cname' = [cname EXCEPT ![d] = IF cname[d] = "temp" THEN "canonical" ELSE cname[d]]
    /\ Goto(d, "mark")
    /\ UNCHANGED <<slots, locals, rows, run, proxy>>

\* ContainerRename to the canonical name, its error ignored: it fails while
\* another container has the name.
Rename(d) ==
    /\ pc[d] = "rename"
    /\ \/ /\ ~ctxDone[d]
          /\ CanonicalHolders(TargetOf[d]) = {}
          /\ cname[d] = "temp"
          /\ cname' = [cname EXCEPT ![d] = "canonical"]
       \/ /\ \/ ctxDone[d] \/ "docker" \in Faults
             \/ CanonicalHolders(TargetOf[d]) # {} \/ cname[d] # "temp"
          /\ UNCHANGED cname
    /\ Goto(d, "mark")
    /\ UNCHANGED <<slots, locals, rows, run, proxy>>

\* GetLiveDeploymentForTarget: the newest live row of the target.
NewestLive(t) ==
    {d \in LiveRows(t) : \A e \in LiveRows(t) : e <= d}

\* Mutant: only when an old container was found.
MarkReplacedIfOld(d) ==
    /\ pc[d] = "mark"
    /\ IF old[d] = NoDep \/ NewestLive(TargetOf[d]) \ {d} = {}
       THEN Goto(d, "golive") /\ UNCHANGED prev
       ELSE Goto(d, "retire") /\ prev' \in {[prev EXCEPT ![d] = l] : l \in NewestLive(TargetOf[d])}
    /\ UNCHANGED <<slots, old, rows, docker, proxy>>

\* Step 9 reads the live row of the target first; an error of the SELECT is
\* ignored and skips the step.
MarkReplaced(d) ==
    /\ pc[d] = "mark"
    /\ \/ /\ NewestLive(TargetOf[d]) \ {d} = {} \/ "db" \in Faults
          /\ Goto(d, "golive")
          /\ UNCHANGED prev
       \/ \E l \in NewestLive(TargetOf[d]) \ {d} :
             /\ prev' = [prev EXCEPT ![d] = l]
             /\ Goto(d, "retire")
    /\ UNCHANGED <<slots, old, rows, docker, proxy>>

\* Mutant: the row of the deployment itself.
RetireSelf(d) ==
    /\ pc[d] = "retire"
    /\ SetStatus(d, "replaced")
    /\ prev' = [prev EXCEPT ![d] = NoDep]
    /\ Goto(d, "golive")
    /\ UNCHANGED <<slots, ctxDone, old, docker, proxy, server>>

\* ... and then writes to the row it read, whatever that says by now: its own
\* goroutine may have panicked after the swap and be marking it failed.
Retire(d) ==
    /\ pc[d] = "retire"
    /\ SetStatus(prev[d], "replaced")
    /\ prev' = [prev EXCEPT ![d] = NoDep]
    /\ Goto(d, "golive")
    /\ UNCHANGED <<slots, ctxDone, old, docker, proxy, server>>

GoLive(d) ==
    /\ pc[d] = "golive"
    /\ SetStatus(d, "live")
    /\ Goto(d, "finish")
    /\ UNCHANGED <<slots, ctxDone, locals, docker, proxy, server>>

\* Notification, image pruning and the screenshot are handed to goroutines.
Finish(d) ==
    /\ pc[d] = "finish"
    /\ Goto(d, "release")
    /\ UNCHANGED <<slots, locals, rows, docker, proxy>>

Fail(d) ==
    /\ pc[d] = "fail"
    /\ SetStatus(d, "failed")
    /\ Goto(d, "release")
    /\ UNCHANGED <<slots, ctxDone, locals, docker, proxy, server>>

\* The deferred calls as Deploy returns or unwinds: Semaphore.Release, then the
\* cancel of the deployment's context.  Its local variables are gone.
Unwind(d) ==
    /\ slots' = slots \ {d}
    /\ ctxDone' = [ctxDone EXCEPT ![d] = TRUE]
    /\ old' = [old EXCEPT ![d] = NoDep]
    /\ prev' = [prev EXCEPT ![d] = NoDep]

\* Mutant: no deferred Release after a failure.
ReleaseIfLive(d) ==
    /\ pc[d] = "release"
    /\ IF status[d] = "live" THEN Unwind(d) ELSE UNCHANGED <<slots, ctxDone, locals>>
    /\ Goto(d, "done")
    /\ UNCHANGED <<status, docker, proxy, server>>

Release(d) ==
    /\ pc[d] = "release"
    /\ Unwind(d)
    /\ Goto(d, "done")
    /\ UNCHANGED <<status, docker, proxy, server>>

-----------------------------------------------------------------------------
(* Panics, deadlines, shutdown and crashes *)

\* A panic unwinds Deploy, whose deferred Release runs first; Dispatch recovers
\* it, a rollout recovers it further out and leaves the row as it is.
Panic(d) ==
    /\ "panic" \in Faults
    /\ pc[d] \in Held \ {"release"}
    /\ Unwind(d)
    /\ Goto(d, IF d \in Rollouts THEN "done" ELSE "recover")
    /\ UNCHANGED <<status, docker, proxy, server>>

\* The recover in Dispatch marks the row failed, whatever it says by then.
RecoverPanic(d) ==
    /\ pc[d] = "recover"
    /\ SetStatus(d, "failed")
    /\ Goto(d, "done")
    /\ UNCHANGED <<slots, ctxDone, locals, docker, proxy, server>>

\* MaxBuildDuration (or appDeployMemberTimeout) expires.
Timeout(d) ==
    /\ "timeout" \in Faults
    /\ pc[d] \in Held \cup {"waiting"}
    /\ ~ctxDone[d]
    /\ ctxDone' = [ctxDone EXCEPT ![d] = TRUE]
    /\ UNCHANGED <<status, pc, slots, locals, docker, proxy, server>>

\* SIGTERM: the HTTP server stops, handlers finish, then cancelPipeline ends
\* the contexts derived from the pipeline's; a rollout derives from Background.
Shutdown ==
    /\ "shutdown" \in Faults
    /\ server = "up"
    /\ \A d \in Deployments \ Rollouts : pc[d] # "created"
    /\ server' = "draining"
    /\ ctxDone' = [d \in Deployments |->
                     ctxDone[d] \/ (d \notin Rollouts /\ pc[d] \in InFlight)]
    /\ UNCHANGED <<status, pc, slots, locals, docker, proxy>>

\* The process is gone: goroutines and semaphore with it.
Exit ==
    /\ server' = "down"
    /\ pc' = [d \in Deployments |-> IF pc[d] \in InFlight THEN "dead" ELSE pc[d]]
    /\ slots' = {}
    /\ ctxDone' = [d \in Deployments |-> FALSE]
    /\ old' = [d \in Deployments |-> NoDep]
    /\ prev' = [d \in Deployments |-> NoDep]
    /\ UNCHANGED <<status, docker, proxy>>

\* pipelineWg.Wait returned: only Dispatch adds to the group.
Drained ==
    /\ server = "draining"
    /\ \A d \in Deployments \ Rollouts : pc[d] \notin InFlight
    /\ Exit

\* Sixty seconds passed first, or the process was killed.
Crash ==
    /\ server = "draining" \/ ("crash" \in Faults /\ server = "up")
    /\ Exit

\* Mutant: any running container of the target.
ReconcilableAny(t) ==
    IF Mode = "docker" THEN {NoDep} ELSE {d \in Of(t) : run[d]}

\* Start-up: no row is touched; ReconcileActiveConfigs rewrites the upstream of
\* the targets whose domains are active.  In host-port mode it takes the port of
\* the container with the canonical name, and skips the target without one.
Reconcilable(t) ==
    IF Mode = "docker" THEN {NoDep} ELSE {d \in CanonicalHolders(t) : run[d]}

Reconcile(active) ==
    LET rewritten == {t \in active : route[t] # "none" /\ Reconcilable(t) # {}} IN
    /\ route' = [t \in Targets |->
                   IF t \notin rewritten THEN route[t]
                   ELSE IF Mode = "docker" THEN "name" ELSE "port"]
    /\ port' = [t \in Targets |->
                  IF t \notin rewritten THEN port[t] ELSE CHOOSE d \in Reconcilable(t) : TRUE]

Restart ==
    /\ server = "down"
    /\ server' = "up"
    /\ \E active \in SUBSET Targets : ("domain" \in Faults \/ active = Targets) /\ Reconcile(active)
    /\ UNCHANGED <<status, pc, slots, ctxDone, locals, docker>>

Step(d) ==
    \/ Dispatch(d) \/ StartBuild(d) \/ BuildImage(d) \/ CaptureOld(d)
    \/ RunContainer(d) \/ HealthCheck(d) \/ EnsureDomains(d) \/ AbortNew(d)
    \/ StopOld(d) \/ Rename(d) \/ MarkReplaced(d) \/ Retire(d) \/ GoLive(d)
    \/ Finish(d) \/ Fail(d) \/ Release(d) \/ RecoverPanic(d)

Next ==
    \/ \E d \in Deployments :
          CreateDeployment(d) \/ Acquire(d) \/ Prepare(d) \/ Step(d) \/ Panic(d) \/ Timeout(d)
    \/ Shutdown \/ Drained \/ Crash \/ Restart

Spec == Init /\ [][Next]_vars

\* Goroutines run, blocked senders of a channel are served in order, and a
\* clone ends (no deadline makes it: clone.go does not take the context).
Fairness ==
    \A d \in Deployments :
        /\ WF_vars(Step(d))
        /\ WF_vars(Prepare(d))
        /\ SF_vars(Acquire(d))

FairSpec == Spec /\ Fairness

-----------------------------------------------------------------------------
(* Properties *)

TypeOK ==
    /\ status \in [Deployments -> StatusValues]
    /\ pc \in [Deployments -> PcValues]
    /\ slots \subseteq Deployments
    /\ ctxDone \in [Deployments -> BOOLEAN]
    /\ cname \in [Deployments -> {"none", "temp", "canonical"}]
    /\ run \in [Deployments -> BOOLEAN]
    /\ old \in [Deployments -> Deployments \cup {NoDep}]
    /\ prev \in [Deployments -> Deployments \cup {NoDep}]
    /\ route \in [Targets -> {"none", "name", "port"}]
    /\ port \in [Targets -> Deployments \cup {NoDep}]
    /\ server \in {"up", "draining", "down"}

\* The semaphore admits MaxBuilds deployments to everything between Acquire and
\* the deferred Release, whatever way they leave; the build caps of docker.go
\* and the swap rely on it.
BuildsBounded == Cardinality({d \in Deployments : pc[d] \in Held}) <= MaxBuilds

\* A target has at most one live row: MarkReplaced finds the only live row, Retire
\* retires it before GoLive adds the new one, and nobody else goes live between.
AtMostOneLive ==
    \A d, e \in Deployments :
        status[d] = "live" /\ status[e] = "live" /\ TargetOf[d] = TargetOf[e] => d = e

\* Start before stop: once a deployment of a target has gone live some
\* container of the target runs, whatever failed, panicked, timed out or
\* crashed since.
SomeContainerSurvives ==
    \A t \in Targets :
        (\E d \in Of(t) : status[d] \in {"live", "replaced"}) => \E d \in Of(t) : run[d]

\* Docker gives a name to one container.
CanonicalNameUnique ==
    \A d, e \in Deployments :
        cname[d] = "canonical" /\ cname[e] = "canonical" /\ TargetOf[d] = TargetOf[e] => d = e

\* Outside a swap the live row of a target is the deployment whose container
\* has the canonical name and runs (README, steps 13 and 14 of a deployment).
LiveMeansSwapped ==
    \A d \in Deployments :
        /\ status[d] = "live"
        /\ \A e \in Of(TargetOf[d]) : pc[e] \notin Swap
        => cname[d] = "canonical" /\ run[d]

\* When no deployment is in flight every container on the host is that of a
\* live row: failed and replaced deployments left nothing behind.
NoStrayContainers ==
    (\A d \in Deployments : pc[d] \notin InFlight)
    => \A d \in Deployments : cname[d] # "none" => status[d] = "live"

\* A goroutine of Dispatch ends only after it gave its row a final status, by
\* whichever of the failure paths or the recovered panic it ended.
FinishedIsFinal ==
    \A d \in Deployments \ Rollouts : pc[d] = "done" => status[d] \in Terminal

\* A deployment that fails before its swap leaves the traffic of the target
\* where it was: with the live deployment, if there is one and it was served.
FailureKeepsPriorServing ==
    [][\A d \in Deployments :
          status'[d] = "failed" /\ status[d] # "failed"
          => \A e \in LiveRows(TargetOf[d]) :
                route[TargetOf[d]] # "none" => Serving(TargetOf[d]) = {e}]_vars

\* Start-up repairs the upstream: a live deployment whose container runs under
\* the canonical name is served again ("startup reconcile re-reads the live
\* port on boot").
ReconcileRestoresRoute ==
    [][Restart => \A d \in Deployments :
          status[d] = "live" /\ cname[d] = "canonical" /\ run[d] /\ route[TargetOf[d]] # "none"
          => Serving(TargetOf[d])' = {d}]_vars

\* Zero downtime: a target whose domains reach a container keeps reaching one.
NeverUnserved ==
    [][\A t \in Targets : Serving(t) # {} => Serving(t)' # {}]_vars

\* Every deployment that was handed to its goroutine gets a final status.
EveryDeploySettles ==
    \A d \in Deployments : pc[d] = "waiting" ~> status[d] \in Terminal

\* The rows as a reader of the deployments table sees them.
Row == [d \in Deployments |->
          IF status[d] \in {"building", "deploying"} THEN "working" ELSE status[d]]
Chosen == {prev[d] : d \in Deployments} \ {NoDep}
Ledger == INSTANCE DeploymentLedger WITH row <- Row, chosen <- Chosen

\* The rows keep the life and the promises of the ledger; a row is rewritten
\* after it failed only by the deployment that had read it as the live one.
LedgerSpec == Ledger!Spec
=============================================================================
