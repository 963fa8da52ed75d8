--------------------------- MODULE WebhookPreviews ---------------------------
(***************************************************************************)
(* GitHub push and delete deliveries (api/handlers/webhooks.go) and the    *)
(* branch previews they create and tear down, for one project whose        *)
(* auto-build matches every branch.  Each HTTP delivery, a redelivery      *)
(* included, is a handler of its own; handlers run side by side with each  *)
(* other and with the deployments they dispatch.  What they share are rows *)
(* of SQLite, read and written one statement at a time, the containers and *)
(* volumes of the Docker daemon and the proxy's vhost files.               *)
(***************************************************************************)
EXTENDS Naturals, Sequences, FiniteSets

CONSTANTS
    Branches,
    Main,            \* project.Branch and ProductionBranch; its preview is the default one
    AutoProduction,  \* config.AutoProductionEnabled
    MaxDeliveries,   \* bound on the pushes and deletions at GitHub
    Handlers,        \* HTTP requests; those of one delivery are its redeliveries
    DeliveryOf,      \* the delivery of each handler
    Deployments,     \* ids of the deployments that may be created
    Faults,          \* subset of {"db", "host", "build", "crash"}
    MaxFailures      \* bound on how often one of them strikes

NoDep == 0
Deliveries == 1 .. MaxDeliveries
Envs == {"preview", "production"}
Targets == Branches \cup {"production"}
Procs == Handlers \cup Deployments

ASSUME BranchAssumption == Main \in Branches /\ "production" \notin Branches
ASSUME IdAssumption ==
    /\ MaxDeliveries \in Nat
    /\ Handlers \cap Deployments = {} /\ NoDep \notin Deployments
    /\ Handlers \subseteq Nat /\ Deployments \subseteq Nat
    /\ DeliveryOf \in [Handlers -> Deliveries]
ASSUME ConfigAssumption ==
    /\ AutoProduction \in BOOLEAN
    /\ Faults \subseteq {"db", "host", "build", "crash"} /\ MaxFailures \in Nat

VARIABLES
    head,       \* newest commit pushed to each branch, counted from 1
    alive,      \* whether the branch exists at GitHub
    sent,       \* deliveries, in the order of what happened at GitHub
    at,         \* where each handler and each deployment is
    todo,       \* environments a handler has not looked at yet
    env,        \* the environment a handler is busy with
    event,      \* webhook_events.status for each delivery and environment
    lost,       \* history: claims with neither a deployment nor "failed" written
    dep,        \* delivery, environment and branch of each deployments row
    sha,        \* the commit each deployment cloned
    inst,       \* preview_instances.status of each branch ("none": no row)
    domain,     \* whether the preview's domains rows exist
    vhost,      \* whether the proxy has a vhost for them
    container,  \* the deployment whose container has the target's name
    stray,      \* deployments whose trial container nobody takes down any more
    volume,     \* whether the preview's data volume exists
    failures,   \* faults so far
    seen,       \* the domains a teardown read before it began
    alone       \* history: nothing else touched the branch since the teardown began

github == <<head, alive, sent>>
handling == <<todo, env, seen, alone>>
tables == <<event, lost, dep, inst, domain>>
calm == <<github, failures>>
host == <<vhost, container, stray, volume>>
vars == <<calm, at, handling, tables, sha, host>>

Ensuring == {"ensure", "reactivate", "insert", "domain", "newdomain"}
Tearing == {"list", "stop", "volume", "proxy", "forget", "delete"}
HandlerBusy == Ensuring \cup Tearing \cup {"skip", "claim", "create", "refuse", "mark", "lookup"}
Slotted == Ensuring \cup {"clone", "run", "provision", "publish", "swap"}
DeployBusy == Slotted \cup {"created", "queued"}
Ends == {"idle", "none", "over", "live", "failed", "dead"}

BranchOf(p) == IF p \in Deployments THEN dep[p].branch ELSE sent[DeliveryOf[p]].branch
TargetOf(x) == IF dep[x].env = "preview" THEN dep[x].branch ELSE "production"
BusyOn(b) == {p \in Procs : at[p] \in HandlerBusy \cup DeployBusy /\ BranchOf(p) = b}

Fault(f) == f \in Faults /\ failures < MaxFailures /\ failures' = failures + 1
NoFault == UNCHANGED failures

Goto(p, label) == at' = [at EXCEPT ![p] = label]

\* The handler takes the next of the targets left, the preview before production.
Advance(h, left, now) ==
    IF left = {}
    THEN at' = [now EXCEPT ![h] = "over"] /\ UNCHANGED <<todo, env>>
    ELSE LET e == IF "preview" \in left THEN "preview" ELSE "production" IN
         /\ todo' = [todo EXCEPT ![h] = left \ {e}] /\ env' = [env EXCEPT ![h] = e]
         /\ at' = [now EXCEPT ![h] = IF e = "preview" THEN "ensure" ELSE "claim"]
NextTarget(h) == Advance(h, todo[h], at)

Init ==
    /\ head = [b \in Branches |-> 0] /\ alive = [b \in Branches |-> FALSE]
    /\ sent = <<>> /\ failures = 0
    /\ at = [p \in Procs |-> IF p \in Handlers THEN "idle" ELSE "none"]
    /\ todo = [h \in Handlers |-> {}] /\ env = [h \in Handlers |-> "preview"]
    /\ event = [d \in Deliveries |-> [e \in Envs |-> "none"]]
    /\ lost = {}
    /\ dep = [x \in Deployments |-> [delivery |-> 0, env |-> "preview", branch |-> Main]]
    /\ sha = [x \in Deployments |-> 0]
    /\ inst = [b \in Branches |-> "none"] /\ domain = [b \in Branches |-> FALSE]
    /\ vhost = [b \in Branches |-> FALSE]
    /\ container = [t \in Targets |-> NoDep]
    /\ stray = {} /\ volume = [b \in Branches |-> FALSE]
    /\ seen = [h \in Handlers |-> FALSE] /\ alone = [h \in Handlers |-> FALSE]

-----------------------------------------------------------------------------
(* GitHub *)

\* "ignored": the build filter ignores every path the push changed.
Push(b) ==
    /\ Len(sent) < MaxDeliveries
    /\ head' = [head EXCEPT ![b] = @ + 1] /\ alive' = [alive EXCEPT ![b] = TRUE]
    /\ \E ignored \in BOOLEAN : sent' = Append(sent,
          [kind |-> "push", branch |-> b, commit |-> head[b] + 1, ignored |-> ignored])
    /\ UNCHANGED <<failures, at, handling, tables, sha, host>>

DeleteBranch(b) ==
    /\ Len(sent) < MaxDeliveries /\ alive[b]
    /\ alive' = [alive EXCEPT ![b] = FALSE]
    /\ sent' = Append(sent, [kind |-> "delete", branch |-> b, commit |-> 0, ignored |-> FALSE])
    /\ UNCHANGED <<head, failures, at, handling, tables, sha, host>>

-----------------------------------------------------------------------------
(* A delivery: HandleGithub *)

\* The branch of a teardown is no longer its own once another process starts on it.
Disturb(b) == alone' = [h \in Handlers |->
    alone[h] /\ (DeliveryOf[h] \notin DOMAIN sent \/ sent[DeliveryOf[h]].branch # b)]

\* webhookTargetEnvironments.
TargetEnvs(b) == {"preview"} \cup {e \in {"production"} : AutoProduction /\ b = Main}

Receive(h) ==
    /\ at[h] = "idle" /\ DeliveryOf[h] \in DOMAIN sent
    /\ LET d == sent[DeliveryOf[h]] IN
          /\ CASE d.kind = "delete" -> Goto(h, "lookup") /\ UNCHANGED <<todo, env>>
               [] d.kind = "push" /\ d.ignored ->
                     Goto(h, "skip") /\ UNCHANGED <<todo, env>>
               [] OTHER -> Advance(h, TargetEnvs(d.branch), at)
          /\ Disturb(d.branch)
    /\ UNCHANGED <<calm, seen, tables, sha, host>>

\* The build filter: an "ignored" event for each target, unless there is one.
SkipFiltered(h) ==
    LET ignore == {e \in TargetEnvs(BranchOf(h)) : event[DeliveryOf[h]][e] = "none"} IN
    /\ at[h] = "skip"
    /\ \E done \in SUBSET ignore :
          /\ event' = [event EXCEPT ![DeliveryOf[h]] =
                          [e \in Envs |-> IF e \in done THEN "ignored" ELSE @[e]]]
          /\ (done = ignore /\ NoFault) \/ (done # ignore /\ Fault("db"))
    /\ Goto(h, "over")
    /\ UNCHANGED <<github, handling, lost, dep, inst, domain, sha, host>>

-----------------------------------------------------------------------------
(* ensurePreviewTarget, by a handler, and ensureDeploymentPreviewTarget, by  *)
(* a deployment: GetOrCreatePreviewInstance, then EnsurePreviewAutoDomains.  *)

Ensured(p) == Goto(p, IF p \in Handlers THEN "claim" ELSE "clone") /\ UNCHANGED <<todo, env>>
\* The handler goes on with its next target, the deployment fails.
NotEnsured(p) ==
    IF p \in Handlers THEN NextTarget(p) ELSE Goto(p, "failed") /\ UNCHANGED <<todo, env>>
Onward(p, label) == Goto(p, label) /\ UNCHANGED <<todo, env>>

\* A statement fails.
EnsureFails(p) == Fault("db") /\ NotEnsured(p)

\* GetPreviewInstanceForBranch.
FindInstance(p) ==
    /\ at[p] = "ensure"
    /\ \/ /\ Onward(p, CASE inst[BranchOf(p)] = "none" -> "insert"
                         [] inst[BranchOf(p)] = "deleted" -> "reactivate"
                         [] OTHER -> "domain")
          /\ NoFault
       \/ EnsureFails(p)
    /\ UNCHANGED <<github, seen, alone, tables, sha, host>>

Reactivate(p) ==
    /\ at[p] = "reactivate"
    /\ \/ /\ inst' = [inst EXCEPT ![BranchOf(p)] = "active"]
          /\ Onward(p, "domain") /\ NoFault
       \/ EnsureFails(p) /\ UNCHANGED inst
    /\ UNCHANGED <<github, seen, alone, event, lost, dep, domain, sha, host>>

\* The row may have come in since the lookup: (project, branch) is unique.
\* What fails is the INSERT or the lookup that follows it.
InsertInstance(p) ==
    LET inserted == [inst EXCEPT ![BranchOf(p)] = "active"] IN
    /\ at[p] = "insert"
    /\ \/ inst[BranchOf(p)] = "none" /\ inst' = inserted /\ Onward(p, "domain") /\ NoFault
       \/ inst[BranchOf(p)] = "none" /\ inst' \in {inst, inserted} /\ EnsureFails(p)
       \/ inst[BranchOf(p)] # "none" /\ NotEnsured(p) /\ NoFault /\ UNCHANGED inst
    /\ UNCHANGED <<github, seen, alone, event, lost, dep, domain, sha, host>>

\* GetDomainByName, then CreateDomain, whose name is unique too.
FindDomain(p) ==
    /\ at[p] = "domain"
    /\ \/ domain[BranchOf(p)] /\ Ensured(p) /\ NoFault
       \/ ~domain[BranchOf(p)] /\ Onward(p, "newdomain") /\ NoFault
       \/ EnsureFails(p)
    /\ UNCHANGED <<github, seen, alone, tables, sha, host>>

CreateDomain(p) ==
    /\ at[p] = "newdomain"
    /\ \/ /\ ~domain[BranchOf(p)]
          /\ domain' = [domain EXCEPT ![BranchOf(p)] = TRUE]
          /\ Ensured(p) /\ NoFault
       \/ domain[BranchOf(p)] /\ NotEnsured(p) /\ NoFault /\ UNCHANGED domain
       \/ EnsureFails(p) /\ UNCHANGED domain
    /\ UNCHANGED <<github, seen, alone, event, lost, dep, inst, sha, host>>

-----------------------------------------------------------------------------
(* Claim and hand-off *)

SetEvent(h, s) == event' = [event EXCEPT ![DeliveryOf[h]][env[h]] = s]
EventOf(h) == event[DeliveryOf[h]][env[h]]

\* Mutant: the unique index does not cover the environment and the delivery.
ClaimAny(h) ==
    /\ at[h] = "claim"
    /\ SetEvent(h, "received") /\ Onward(h, "create")
    /\ UNCHANGED <<calm, seen, alone, lost, dep, inst, domain, sha, host>>

\* claimWebhookEvent: the INSERT succeeds for one handler only.
Claim(h) ==
    /\ at[h] = "claim"
    /\ \/ EventOf(h) = "none" /\ SetEvent(h, "received") /\ Onward(h, "create") /\ NoFault
       \/ /\ (EventOf(h) # "none" /\ NoFault) \/ Fault("db")
          /\ NextTarget(h) /\ UNCHANGED event
    /\ UNCHANGED <<github, seen, alone, lost, dep, inst, domain, sha, host>>

FreshDep(x) == at[x] = "none" /\ \A y \in Deployments : y < x => at[y] # "none"
Insert(h, x) ==
    /\ FreshDep(x)
    /\ dep' = [dep EXCEPT ![x] =
                 [delivery |-> DeliveryOf[h], env |-> env[h], branch |-> BranchOf(h)]]
    /\ at' = [at EXCEPT ![h] = "mark", ![x] = "created"]
    /\ UNCHANGED <<todo, env, event, failures>>

\* Mutant: a failed INSERT leaves the claim as it is.
CreateOrNothing(h) ==
    /\ at[h] = "create"
    /\ \/ \E x \in Deployments : Insert(h, x)
       \/ Fault("db") /\ NextTarget(h) /\ UNCHANGED <<dep, event>>
    /\ UNCHANGED <<github, seen, alone, lost, inst, domain, sha, host>>

CreateDeployment(h) ==
    /\ at[h] = "create"
    /\ \/ \E x \in Deployments : Insert(h, x)
       \/ Fault("db") /\ Onward(h, "refuse") /\ UNCHANGED <<dep, event>>
    /\ UNCHANGED <<github, seen, alone, lost, inst, domain, sha, host>>

\* UpdateWebhookEventStatus after a failed INSERT; its own error is only logged.
\* What failed the INSERT may fail it too: both count as one fault.
MarkFailed(h) ==
    /\ at[h] = "refuse"
    /\ \/ SetEvent(h, "failed") /\ UNCHANGED lost
       \/ lost' = lost \cup {<<DeliveryOf[h], env[h]>>} /\ UNCHANGED event
    /\ NextTarget(h)
    /\ UNCHANGED <<calm, seen, alone, dep, inst, domain, sha, host>>

\* Pipeline.Dispatch of the deployment this handler created.
Dispatched(h) ==
    {x \in Deployments :
        at[x] = "created" /\ dep[x].delivery = DeliveryOf[h] /\ dep[x].env = env[h]}

\* UpdateWebhookEventStatus, whose error is only logged, and Dispatch; the
\* handler goes on with its next target.
MarkProcessed(h) ==
    /\ at[h] = "mark"
    /\ (SetEvent(h, "processed") /\ NoFault) \/ (Fault("db") /\ UNCHANGED event)
    /\ Advance(h, todo[h], [p \in Procs |-> IF p \in Dispatched(h) THEN "queued" ELSE at[p]])
    /\ UNCHANGED <<github, seen, alone, lost, dep, inst, domain, sha, host>>

-----------------------------------------------------------------------------
(* A deployment, as far as it concerns the preview *)

\* The build slot: one deployment at a time.
StartDeploy(x) ==
    /\ at[x] = "queued"
    /\ \A y \in Deployments : at[y] \notin Slotted
    /\ Goto(x, IF dep[x].env = "preview" THEN "ensure" ELSE "clone")
    /\ Disturb(dep[x].branch)
    /\ UNCHANGED <<calm, todo, env, seen, tables, sha, host>>

\* Mutant: the commit of the delivery is checked out.
CloneDelivered(x) ==
    /\ at[x] = "clone" /\ alive[dep[x].branch]
    /\ sha' = [sha EXCEPT ![x] = sent[dep[x].delivery].commit] /\ Goto(x, "run")
    /\ UNCHANGED <<calm, handling, tables, host>>

\* CloneRepo takes whatever the branch points at by now.
Clone(x) ==
    /\ at[x] = "clone"
    /\ IF alive[dep[x].branch]
       THEN sha' = [sha EXCEPT ![x] = head[dep[x].branch]] /\ Goto(x, "run")
       ELSE sha' = sha /\ Goto(x, "failed")
    /\ UNCHANGED <<calm, handling, tables, host>>

\* EnsureVolume and RunContainer, under the temporary name.
Run(x) ==
    /\ at[x] = "run"
    /\ volume' = [b \in Branches |-> volume[b] \/ b = TargetOf(x)]
    /\ Goto(x, IF dep[x].env = "preview" THEN "provision" ELSE "swap")
    /\ UNCHANGED <<calm, handling, tables, sha, vhost, container, stray>>

\* ensureEnvironmentDomains: lists the domains, then provisions what it listed;
\* without domains the deployment goes on.
Provision(x) ==
    /\ at[x] = "provision"
    /\ Goto(x, IF domain[dep[x].branch] THEN "publish" ELSE "swap")
    /\ UNCHANGED <<calm, handling, tables, sha, host>>

Publish(x) ==
    /\ at[x] = "publish"
    /\ vhost' = [vhost EXCEPT ![dep[x].branch] = TRUE]
    /\ Goto(x, "swap")
    /\ UNCHANGED <<calm, handling, tables, sha, container, stray, volume>>

Swapped(x, c) == container' = [container EXCEPT ![TargetOf(x)] = c]

\* The old container is stopped, the new one renamed; where either call fails
\* the new one keeps its temporary name, which nothing looks for later.
SwapIn(x) ==
    /\ at[x] = "swap"
    /\ \/ Swapped(x, x) /\ NoFault /\ UNCHANGED stray
       \/ /\ Fault("host") /\ stray' = stray \cup {x}
          /\ \E c \in {container[TargetOf(x)], NoDep} : Swapped(x, c)
    /\ Goto(x, "live")
    /\ UNCHANGED <<github, handling, tables, sha, vhost, volume>>

DeployFails(x) ==
    /\ Fault("build") /\ at[x] \in {"clone", "run"}
    /\ Goto(x, "failed")
    /\ UNCHANGED <<github, handling, tables, sha, host>>

\* The container does not start, is not healthy or gets no domain.  It is taken
\* down, unless what made it fail is the end of the context that does this.
TrialFails(x) ==
    /\ Fault("build") /\ at[x] \in {"run", "provision", "publish"}
    /\ volume' = [b \in Branches |-> volume[b] \/ b = TargetOf(x)]
    /\ stray' \in {stray, stray \cup {x}}
    /\ Goto(x, "failed")
    /\ UNCHANGED <<github, handling, tables, sha, vhost, container>>

-----------------------------------------------------------------------------
(* A deleted branch: handleRefDeleted and teardownPreviewInstance *)

\* The default preview is never torn down; nor is what is not there.
Lookup(h) ==
    LET b == BranchOf(h) IN
    /\ at[h] = "lookup"
    /\ \/ inst[b] = "active" /\ b # Main /\ Goto(h, "list") /\ NoFault
       \/ ~(inst[b] = "active" /\ b # Main) /\ Goto(h, "over") /\ NoFault
       \/ Fault("db") /\ Goto(h, "over")
    /\ alone' = [alone EXCEPT ![h] = BusyOn(b) = {h}]
    /\ UNCHANGED <<github, todo, env, seen, tables, sha, host>>

ListDomains(h) ==
    /\ at[h] = "list"
    /\ \/ seen' = [seen EXCEPT ![h] = domain[BranchOf(h)]] /\ Goto(h, "stop") /\ NoFault
       \/ Fault("db") /\ Goto(h, "over") /\ UNCHANGED seen
    /\ UNCHANGED <<github, todo, env, alone, tables, sha, host>>

\* An error of the daemon (the request's context ends with its connection) or of
\* a vhost file is logged; "alone" notes that it happened.
HostFails(h) == Fault("host") /\ alone' = [alone EXCEPT ![h] = FALSE] /\ UNCHANGED host

\* Mutant: the names of the wrong environment.
StopProduction(h) ==
    /\ at[h] = "stop"
    /\ container' = [container EXCEPT !["production"] = NoDep]
    /\ Goto(h, "volume")
    /\ UNCHANGED <<calm, handling, stray, volume, tables, sha, vhost>>

StopPreview(h) ==
    /\ at[h] = "stop"
    /\ \/ /\ container' = [container EXCEPT ![BranchOf(h)] = NoDep]
          /\ NoFault /\ UNCHANGED <<stray, volume, vhost, alone>>
       \/ HostFails(h)
    /\ Goto(h, "volume")
    /\ UNCHANGED <<github, todo, env, seen, tables, sha>>

Trying == {"provision", "publish", "swap"}
Strays(b) == {x \in stray : TargetOf(x) = b}

\* Containers that mount the branch's volume: the named one, and the trial
\* container of a deployment, at work or not.
Mounting(b) ==
    {x \in Deployments : container[b] = x \/ (at[x] \in Trying /\ TargetOf(x) = b)}
    \cup Strays(b)

\* RemoveVolume without force: the daemon refuses while it is mounted.
RemoveVolume(h) ==
    LET mounted == Mounting(BranchOf(h)) # {} IN
    /\ at[h] = "volume"
    /\ \/ /\ volume' = [volume EXCEPT ![BranchOf(h)] = @ /\ mounted]
          /\ NoFault /\ UNCHANGED <<stray, container, vhost, alone>>
       \/ HostFails(h)
    /\ Goto(h, "proxy")
    /\ UNCHANGED <<github, todo, env, seen, tables, sha>>

RemoveProxy(h) ==
    /\ at[h] = "proxy"
    /\ \/ /\ vhost' = [vhost EXCEPT ![BranchOf(h)] = @ /\ ~seen[h]]
          /\ NoFault /\ UNCHANGED <<stray, container, volume, alone>>
       \/ seen[h] /\ HostFails(h)
    /\ Goto(h, "forget")
    /\ UNCHANGED <<github, todo, env, seen, tables, sha>>

DeleteDomains(h) ==
    /\ at[h] = "forget"
    /\ \/ domain' = [domain EXCEPT ![BranchOf(h)] = FALSE] /\ Goto(h, "delete") /\ NoFault
       \/ Fault("db") /\ UNCHANGED domain /\ Goto(h, "over")
    /\ UNCHANGED <<github, handling, event, lost, dep, inst, sha, host>>

\* DeletePreviewInstance only sets the status.
DeleteInstance(h) ==
    /\ at[h] = "delete"
    /\ \/ inst' = [inst EXCEPT ![BranchOf(h)] = "deleted"] /\ NoFault
       \/ Fault("db") /\ UNCHANGED inst
    /\ Goto(h, "over")
    /\ UNCHANGED <<github, handling, event, lost, dep, domain, sha, host>>

-----------------------------------------------------------------------------

Die == at' = [p \in Procs |-> IF at[p] \in HandlerBusy \cup DeployBusy THEN "dead" ELSE at[p]]

\* A container under trial outlives the server, and Docker restarts it.
Crash ==
    /\ Fault("crash") /\ Die
    /\ stray' = stray \cup {x \in Deployments : at[x] \in Trying}
    /\ UNCHANGED <<github, handling, tables, sha, vhost, container, volume>>

\* Or after the old container was stopped, or the new one renamed.
CrashInSwap(x) ==
    /\ at[x] = "swap" /\ Fault("crash") /\ Die
    /\ \/ Swapped(x, NoDep) /\ stray' = stray \cup {x}
       \/ Swapped(x, x) /\ UNCHANGED stray
    /\ UNCHANGED <<github, handling, tables, sha, vhost, volume>>

Ensure(p) ==
    FindInstance(p) \/ Reactivate(p) \/ InsertInstance(p) \/ FindDomain(p) \/ CreateDomain(p)
HandlePush(h) ==
    \/ SkipFiltered(h) \/ Ensure(h) \/ Claim(h)
    \/ CreateDeployment(h) \/ MarkFailed(h) \/ MarkProcessed(h)
HandleDelete(h) ==
    \/ Lookup(h) \/ ListDomains(h) \/ StopPreview(h) \/ RemoveVolume(h)
    \/ RemoveProxy(h) \/ DeleteDomains(h) \/ DeleteInstance(h)
Deploy(x) ==
    \/ StartDeploy(x) \/ Ensure(x) \/ Clone(x) \/ Run(x) \/ Provision(x) \/ Publish(x)
    \/ SwapIn(x) \/ DeployFails(x) \/ TrialFails(x)

Next ==
    \/ \E b \in Branches : Push(b) \/ DeleteBranch(b)
    \/ \E h \in Handlers : Receive(h) \/ HandlePush(h) \/ HandleDelete(h)
    \/ \E x \in Deployments : Deploy(x) \/ CrashInSwap(x)
    \/ Crash

Spec == Init /\ [][Next]_vars

-----------------------------------------------------------------------------
(* Properties *)

TypeOK ==
    /\ head \in [Branches -> Nat] /\ alive \in [Branches -> BOOLEAN]
    /\ sent \in Seq([kind : {"push", "delete"}, branch : Branches, commit : Nat,
                     ignored : BOOLEAN])
    /\ at \in [Procs -> HandlerBusy \cup DeployBusy \cup Ends]
    /\ todo \in [Handlers -> SUBSET Envs] /\ env \in [Handlers -> Envs]
    /\ event \in [Deliveries -> [Envs -> {"none", "received", "processed", "failed", "ignored"}]]
    /\ lost \in SUBSET (Deliveries \X Envs)
    /\ dep \in [Deployments -> [delivery : Nat, env : Envs, branch : Branches]]
    /\ sha \in [Deployments -> Nat]
    /\ inst \in [Branches -> {"none", "active", "deleted"}]
    /\ domain \in [Branches -> BOOLEAN] /\ vhost \in [Branches -> BOOLEAN]
    /\ container \in [Targets -> Deployments \cup {NoDep}]
    /\ stray \in SUBSET Deployments /\ volume \in [Branches -> BOOLEAN]
    /\ failures \in 0 .. MaxFailures
    /\ seen \in [Handlers -> BOOLEAN] /\ alone \in [Handlers -> BOOLEAN]

Created == {x \in Deployments : at[x] # "none"}
Made(d, e) == {x \in Created : dep[x].delivery = d /\ dep[x].env = e}

\* Idempotency per delivery and environment: however often and however
\* concurrently GitHub delivers, a push makes one deployment for each target.
OneDeploymentPerDelivery ==
    \A x, y \in Created : dep[x].delivery = dep[y].delivery /\ dep[x].env = dep[y].env => x = y

\* Every claim is accounted for: it led to a deployment, its handler is about to
\* make one or to record that it could not, it is recorded as failed, or the
\* process died in between.  Left out: the INSERT of the deployment failed and so
\* did the statement that records this.
ClaimsAccounted ==
    \A d \in Deliveries, e \in Envs :
        event[d][e] \in {"received", "processed"} /\ Made(d, e) = {} /\ <<d, e>> \notin lost =>
            /\ event[d][e] = "received"
            /\ \E h \in Handlers :
                  DeliveryOf[h] = d /\ env[h] = e /\ at[h] \in {"create", "refuse", "dead"}

\* Nothing is under way: every delivery was handled to its end.
Quiet ==
    /\ \A d \in DOMAIN sent : \E h \in Handlers : DeliveryOf[h] = d /\ at[h] = "over"
    /\ \A p \in Procs : at[p] \in {"idle", "none", "over", "live"}

\* "Every push ships a preview": when all is quiet, a branch that was never
\* deleted runs a build at least as new as each push that was not filtered out,
\* under its own address, though handlers may lose races for its rows.
LatestShips ==
    Quiet /\ failures = 0 =>
        \A d \in DOMAIN sent :
            LET b == sent[d].branch IN
            /\ ~sent[d].ignored
            /\ \A c \in DOMAIN sent : sent[c].branch = b => sent[c].kind = "push"
            => /\ container[b] # NoDep /\ sha[container[b]] >= sent[d].commit
               /\ inst[b] = "active" /\ domain[b] /\ vhost[b]

\* A teardown that nothing disturbed leaves nothing of the preview behind: no
\* container, no volume, no domain, no vhost of the domains it found.  The volume
\* stays if an earlier crash or a failed clean-up left a trial container mounting it.
TeardownLeavesNothing ==
    [][\A h \in Handlers :
          at[h] = "delete" /\ at'[h] = "over" /\ alone[h] =>
             LET b == BranchOf(h) IN
             /\ container[b] = NoDep /\ ~domain[b]
             /\ Strays(b) = {} => ~volume[b]
             /\ seen[h] => ~vhost[b]]_vars

\* "Idempotency is tracked per delivery, project, and environment" and "webhook
\* redelivery is harmless": a delivery that was claimed before brings no preview
\* back.
RedeliveryIsHarmless ==
    [][\A h \in Handlers :
          at[h] = "reactivate" /\ at'[h] = "domain" =>
             event[DeliveryOf[h]]["preview"] = "none"]_vars
=============================================================================
