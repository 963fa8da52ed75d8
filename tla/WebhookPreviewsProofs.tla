------------------------ MODULE WebhookPreviewsProofs ------------------------
(***************************************************************************)
(* Theorems about webhook deliveries and branch previews, for any          *)
(* branches, deliveries, redeliveries and deployments, and any faults.     *)
(* First their idempotency: most steps only move one process on (MovesOn); *)
(* the claim of a target, the row it leads to and the event they are       *)
(* recorded in take three steps of a handler, and ClaimInv says what holds *)
(* between them.  Then the types, and what a step of one process leaves    *)
(* alone (Works); the teardown of a branch nobody else touches (TearInv);  *)
(* the rows that name every vhost while no statement fails (FoundInv); and *)
(* last why every push ships (ShipInv).                                    *)
(***************************************************************************)
EXTENDS WebhookPreviews, TLAPS

Labels == HandlerBusy \cup DeployBusy \cup Ends
Busy == HandlerBusy \cup DeployBusy
Statuses == {"none", "received", "processed", "failed", "ignored"}

\* A handler that holds a claim which has no deployment yet.
Deciding == {"create", "refuse"}
USE DEF Deciding

\* TypeOK, as far as claims and deployments are concerned.
Typed ==
    /\ at \in [Procs -> Labels]
    /\ env \in [Handlers -> Envs] /\ todo \in [Handlers -> SUBSET Envs]
    /\ event \in [Deliveries -> [Envs -> Statuses]]
    /\ DOMAIN dep = Deployments /\ lost \in SUBSET (Deliveries \X Envs)

\* A deployment has its claim; who is about to make one holds the claim alone.
ClaimInv ==
    /\ \A x \in Created :
         /\ dep[x].delivery \in Deliveries /\ dep[x].env \in Envs
         /\ event[dep[x].delivery][dep[x].env] \in {"received", "processed"}
    /\ \A h \in Handlers : at[h] \in Deciding =>
         event[DeliveryOf[h]][env[h]] = "received" /\ Made(DeliveryOf[h], env[h]) = {}
    /\ \A h, g \in Handlers :
         /\ at[h] \in Deciding /\ at[g] \in Deciding
         /\ DeliveryOf[h] = DeliveryOf[g] /\ env[h] = env[g]
         => h = g
    /\ \A h \in Handlers : at[h] = "mark" => Made(DeliveryOf[h], env[h]) # {}

DeliveryInv == Typed /\ ClaimInv /\ OneDeploymentPerDelivery /\ ClaimsAccounted

-----------------------------------------------------------------------------
(* Most steps move one process to another place, and nothing else that     *)
(* matters here.                                                           *)

MovesOn(p) ==
    /\ at[p] \notin {"none", "create", "refuse", "dead"}
    /\ \E label \in Labels \ {"none", "create", "refuse", "mark"} : at' = [at EXCEPT ![p] = label]
    /\ env' \in [Handlers -> Envs] /\ todo' \in [Handlers -> SUBSET Envs]
    /\ \A h \in Handlers : h # p => env'[h] = env[h]
    /\ UNCHANGED <<event, lost, dep>>

LEMMA AdvanceMoves ==
    ASSUME Typed, NEW h \in Handlers, NEW left \in SUBSET Envs, NEW now, Advance(h, left, now)
    PROVE  /\ \E label \in {"over", "ensure", "claim"} : at' = [now EXCEPT ![h] = label]
           /\ env' \in [Handlers -> Envs] /\ todo' \in [Handlers -> SUBSET Envs]
           /\ \A g \in Handlers : g # h => env'[g] = env[g]
<1>1. CASE left = {}
  BY <1>1 DEF Advance, Typed
<1>2. CASE left # {} /\ "preview" \in left
  <2>1. /\ at' = [now EXCEPT ![h] = "ensure"] /\ env' = [env EXCEPT ![h] = "preview"]
        /\ todo' = [todo EXCEPT ![h] = left \ {"preview"}]
    BY <1>2 DEF Advance
  <2>2. QED
    BY <2>1 DEF Typed, Envs
<1>3. CASE left # {} /\ "preview" \notin left
  <2>1. /\ at' = [now EXCEPT ![h] = "claim"] /\ env' = [env EXCEPT ![h] = "production"]
        /\ todo' = [todo EXCEPT ![h] = left \ {"production"}]
    BY <1>3 DEF Advance
  <2>2. QED
    BY <2>1 DEF Typed, Envs
<1>4. QED
  BY <1>1, <1>2, <1>3

LEMMA NextTargetMoves ==
    ASSUME Typed, NEW h \in Handlers, at[h] \notin {"none", "create", "refuse", "dead"},
           NextTarget(h), UNCHANGED <<event, lost, dep>>
    PROVE  MovesOn(h)
<1>1. todo[h] \in SUBSET Envs
  BY DEF Typed
<1>2. \E label \in {"over", "ensure", "claim"} : at' = [at EXCEPT ![h] = label]
  BY <1>1, AdvanceMoves DEF NextTarget
<1>3. /\ env' \in [Handlers -> Envs] /\ todo' \in [Handlers -> SUBSET Envs]
      /\ \A g \in Handlers : g # h => env'[g] = env[g]
  BY <1>1, AdvanceMoves DEF NextTarget
<1>4. {"over", "ensure", "claim"} \subseteq Labels \ {"none", "create", "refuse", "mark"}
  BY DEF Labels, HandlerBusy, Ensuring, Ends
<1>5. QED
  BY <1>2, <1>3, <1>4 DEF MovesOn

LEMMA GotoMoves ==
    ASSUME Typed, NEW p \in Procs, at[p] \notin {"none", "create", "refuse", "dead"},
           NEW label \in Labels \ {"none", "create", "refuse", "mark"}, Goto(p, label),
           UNCHANGED <<todo, env, event, lost, dep>>
    PROVE  MovesOn(p)
BY DEF Goto, MovesOn, Typed

LEMMA MovesKeep ==
    ASSUME DeliveryInv, NEW p \in Procs, MovesOn(p)
    PROVE  DeliveryInv'
<1>1. PICK label \in Labels \ {"none", "create", "refuse", "mark"} : at' = [at EXCEPT ![p] = label]
  BY DEF MovesOn
<1>2. Typed'
  BY <1>1 DEF MovesOn, DeliveryInv, Typed
<1>3. Created' = Created
  <2>1. \A x \in Deployments : at'[x] # "none" <=> at[x] # "none"
    BY <1>1 DEF MovesOn, DeliveryInv, Typed, Procs
  <2>2. QED
    BY <2>1 DEF Created
<1>4. \A d, e : Made(d, e)' = Made(d, e)
  BY <1>3 DEF MovesOn, Made
<1>5. \A h \in Handlers :
        /\ at'[h] \in {"create", "refuse", "mark"} => at[h] = at'[h] /\ env'[h] = env[h]
        /\ at[h] \in Deciding \cup {"dead"} => at'[h] = at[h] /\ env'[h] = env[h]
  BY <1>1 DEF MovesOn, DeliveryInv, Typed, Procs
<1>6. ClaimInv'
  BY <1>3, <1>4, <1>5 DEF MovesOn, DeliveryInv, ClaimInv
<1>7. OneDeploymentPerDelivery'
  BY <1>3 DEF MovesOn, DeliveryInv, OneDeploymentPerDelivery
<1>8. ClaimsAccounted'
  BY <1>4, <1>5 DEF MovesOn, DeliveryInv, ClaimsAccounted
<1>9. QED
  BY <1>2, <1>6, <1>7, <1>8 DEF DeliveryInv

-----------------------------------------------------------------------------
(* The steps that only move a process on.                                  *)

LEMMA EnsureMoves == ASSUME Typed, NEW p \in Procs, Ensure(p) PROVE MovesOn(p)
<1> DEFINE Next3 == {"insert", "reactivate", "domain", "newdomain", "claim", "clone", "failed"}
<1>1. at[p] \in Ensuring /\ UNCHANGED <<event, lost, dep>>
  BY DEF Ensure, FindInstance, Reactivate, InsertInstance, FindDomain, CreateDomain, Ensuring,
     tables
<1>2. at[p] \notin {"none", "create", "refuse", "dead"}
  BY <1>1 DEF Ensuring
<1>3. Next3 \subseteq Labels \ {"none", "create", "refuse", "mark"}
  BY DEF Labels, HandlerBusy, Ensuring, DeployBusy, Slotted, Ends
<1>4. ASSUME NEW label \in Next3, Onward(p, label) PROVE MovesOn(p)
  BY <1>1, <1>2, <1>3, <1>4, GotoMoves DEF Onward
<1>5. ASSUME Ensured(p) PROVE MovesOn(p)
  <2>1. CASE p \in Handlers
    BY <1>1, <1>2, <1>3, <1>5, <2>1, GotoMoves DEF Ensured
  <2>2. CASE p \notin Handlers
    BY <1>1, <1>2, <1>3, <1>5, <2>2, GotoMoves DEF Ensured
  <2>3. QED
    BY <2>1, <2>2
<1>6. ASSUME NotEnsured(p) PROVE MovesOn(p)
  <2>1. CASE p \in Handlers
    BY <1>1, <1>2, <1>6, <2>1, NextTargetMoves DEF NotEnsured
  <2>2. CASE p \notin Handlers
    BY <1>1, <1>2, <1>3, <1>6, <2>2, GotoMoves DEF NotEnsured
  <2>3. QED
    BY <2>1, <2>2
<1>7. CASE FindInstance(p)
  <2>1. CASE NotEnsured(p)
    BY <1>6, <2>1
  <2>2. CASE Onward(p, CASE inst[BranchOf(p)] = "none" -> "insert"
                         [] inst[BranchOf(p)] = "deleted" -> "reactivate"
                         [] OTHER -> "domain")
    BY <1>4, <2>2
  <2>3. QED
    BY <1>7, <2>1, <2>2 DEF FindInstance, EnsureFails
<1>8. CASE Reactivate(p)
  BY <1>4, <1>6, <1>8 DEF Reactivate, EnsureFails
<1>9. CASE InsertInstance(p)
  BY <1>4, <1>6, <1>9 DEF InsertInstance, EnsureFails
<1>10. CASE FindDomain(p)
  BY <1>4, <1>5, <1>6, <1>10 DEF FindDomain, EnsureFails
<1>11. CASE CreateDomain(p)
  BY <1>5, <1>6, <1>11 DEF CreateDomain, EnsureFails
<1>12. QED
  BY <1>7, <1>8, <1>9, <1>10, <1>11 DEF Ensure

LEMMA ReceiveMoves == ASSUME Typed, NEW h \in Handlers, Receive(h) PROVE MovesOn(h)
<1>1. at[h] = "idle" /\ UNCHANGED <<event, lost, dep>>
  BY DEF Receive, tables
<1>2. {"lookup", "skip"} \subseteq Labels \ {"none", "create", "refuse", "mark"}
  BY DEF Labels, HandlerBusy
<1>3. ASSUME NEW label \in {"lookup", "skip"}, Goto(h, label), UNCHANGED <<todo, env>>
      PROVE  MovesOn(h)
  BY <1>1, <1>2, <1>3, GotoMoves DEF Procs
<1>4. ASSUME NEW b, Advance(h, TargetEnvs(b), at) PROVE MovesOn(h)
  <2>1. TargetEnvs(b) \in SUBSET Envs
    BY DEF TargetEnvs, Envs
  <2>2. \E label \in {"over", "ensure", "claim"} : at' = [at EXCEPT ![h] = label]
    BY <1>4, <2>1, AdvanceMoves
  <2>3. /\ env' \in [Handlers -> Envs] /\ todo' \in [Handlers -> SUBSET Envs]
        /\ \A g \in Handlers : g # h => env'[g] = env[g]
    BY <1>4, <2>1, AdvanceMoves
  <2>4. {"over", "ensure", "claim"} \subseteq Labels \ {"none", "create", "refuse", "mark"}
    BY DEF Labels, HandlerBusy, Ensuring, Ends
  <2>5. QED
    BY <1>1, <2>2, <2>3, <2>4 DEF MovesOn
<1>5. QED
  BY <1>3, <1>4 DEF Receive

LEMMA DeleteMoves == ASSUME Typed, NEW h \in Handlers, HandleDelete(h) PROVE MovesOn(h)
<1>1. at[h] \in {"lookup"} \cup Tearing /\ UNCHANGED <<todo, env, event, lost, dep>>
  BY DEF HandleDelete, Lookup, ListDomains, StopPreview, RemoveVolume, RemoveProxy,
     DeleteDomains, DeleteInstance, Tearing, tables, handling
<1>2. PICK label \in {"over"} \cup Tearing : Goto(h, label)
  BY DEF HandleDelete, Lookup, ListDomains, StopPreview, RemoveVolume, RemoveProxy,
     DeleteDomains, DeleteInstance, Tearing
<1>3. label \in Labels \ {"none", "create", "refuse", "mark"}
  BY DEF Labels, HandlerBusy, Tearing, Ends
<1>4. QED
  BY <1>1, <1>2, <1>3, GotoMoves DEF Tearing, Procs

LEMMA DeployMoves == ASSUME Typed, NEW x \in Deployments, Deploy(x) PROVE MovesOn(x)
<1>1. CASE Ensure(x)
  BY <1>1, EnsureMoves DEF Procs
<1>2. CASE \/ StartDeploy(x) \/ Clone(x) \/ Run(x) \/ Provision(x) \/ Publish(x)
           \/ SwapIn(x) \/ DeployFails(x) \/ TrialFails(x)
  <2>1. /\ at[x] \in {"queued", "clone", "run", "provision", "publish", "swap"}
        /\ UNCHANGED <<todo, env, event, lost, dep>>
    BY <1>2 DEF StartDeploy, Clone, Run, Provision, Publish, SwapIn, DeployFails, TrialFails,
       tables, handling
  <2>2. PICK label \in {"ensure", "clone", "run", "failed", "provision", "publish", "swap",
                         "live"} : Goto(x, label)
    BY <1>2 DEF StartDeploy, Clone, Run, Provision, Publish, SwapIn, DeployFails, TrialFails
  <2>3. label \in Labels \ {"none", "create", "refuse", "mark"}
    BY DEF Labels, DeployBusy, Slotted, Ensuring, Ends
  <2>4. QED
    BY <2>1, <2>2, <2>3, GotoMoves DEF Procs
<1>3. QED
  BY <1>1, <1>2 DEF Deploy

-----------------------------------------------------------------------------
(* The steps of a claim.                                                   *)

\* The facts that every step of a handler starts from.
LEMMA Handled ==
    ASSUME DeliveryInv, NEW h \in Handlers
    PROVE  /\ DeliveryOf[h] \in Deliveries /\ env[h] \in Envs /\ h \notin Deployments
           /\ h \in Procs
BY IdAssumption DEF DeliveryInv, Typed, Procs

\* An event that was free of any claim is written; nobody's claim is touched.
LEMMA SkipKeeps == ASSUME DeliveryInv, NEW h \in Handlers, SkipFiltered(h) PROVE DeliveryInv'
<1>1. DeliveryOf[h] \in Deliveries /\ h \notin Deployments /\ h \in Procs
  BY Handled
<1> DEFINE d == DeliveryOf[h]
<1>2. /\ at' = [at EXCEPT ![h] = "over"] /\ at[h] = "skip" /\ UNCHANGED <<todo, env, lost, dep>>
  BY DEF SkipFiltered, Goto, handling
<1>3. PICK done \in SUBSET {e \in TargetEnvs(BranchOf(h)) : event[d][e] = "none"} :
        event' = [event EXCEPT ![d] = [e \in Envs |-> IF e \in done THEN "ignored" ELSE @[e]]]
  BY DEF SkipFiltered
<1>4. /\ event' \in [Deliveries -> [Envs -> Statuses]]
      /\ \A c \in Deliveries, e \in Envs :
           event'[c][e] = event[c][e] \/ (event[c][e] = "none" /\ event'[c][e] = "ignored")
  BY <1>1, <1>3 DEF DeliveryInv, Typed, Statuses
<1>5. Typed'
  BY <1>2, <1>4 DEF DeliveryInv, Typed, Labels, Ends
<1>6. Created' = Created /\ \A c, e : Made(c, e)' = Made(c, e)
  BY <1>1, <1>2 DEF Created, Made, DeliveryInv, Typed
<1>7. \A g \in Handlers : (\/ at'[g] \in {"create", "refuse", "mark", "dead"}
                           \/ at[g] \in Deciding \cup {"dead"}) => at'[g] = at[g]
  BY <1>1, <1>2 DEF DeliveryInv, Typed
<1>8. \A g \in Handlers : DeliveryOf[g] \in Deliveries /\ env[g] \in Envs
  BY Handled
<1>9. ClaimInv'
  <2>1. \A x \in Created :
          event'[dep[x].delivery][dep[x].env] = event[dep[x].delivery][dep[x].env]
    BY <1>4 DEF DeliveryInv, ClaimInv
  <2>2. \A g \in Handlers : at[g] \in Deciding =>
          event'[DeliveryOf[g]][env[g]] = event[DeliveryOf[g]][env[g]]
    BY <1>4, <1>8 DEF DeliveryInv, ClaimInv
  <2>3. QED
    BY <1>2, <1>6, <1>7, <2>1, <2>2 DEF DeliveryInv, ClaimInv
<1>10. OneDeploymentPerDelivery' /\ ClaimsAccounted'
  BY <1>2, <1>4, <1>6, <1>7 DEF DeliveryInv, OneDeploymentPerDelivery, ClaimsAccounted
<1>11. QED
  BY <1>5, <1>9, <1>10 DEF DeliveryInv

\* The claim: no deployment was made for a target whose event is not there.
LEMMA ClaimKeeps == ASSUME DeliveryInv, NEW h \in Handlers, Claim(h) PROVE DeliveryInv'
<1> DEFINE d == DeliveryOf[h]
           e == env[h]
<1>1. d \in Deliveries /\ e \in Envs /\ h \notin Deployments /\ h \in Procs
  BY Handled
<1>2. CASE NextTarget(h) /\ UNCHANGED event
  <2>1. at[h] = "claim" /\ UNCHANGED <<lost, dep>>
    BY DEF Claim
  <2>2. MovesOn(h)
    BY <1>2, <2>1, NextTargetMoves DEF DeliveryInv
  <2>3. QED
    BY <1>1, <2>2, MovesKeep
<1>3. CASE event[d][e] = "none" /\ SetEvent(h, "received") /\ Onward(h, "create")
  <2>1. /\ at' = [at EXCEPT ![h] = "create"] /\ event' = [event EXCEPT ![d][e] = "received"]
        /\ UNCHANGED <<todo, env, lost, dep>>
    BY <1>3 DEF Claim, SetEvent, Onward, Goto
  <2>2. /\ event'[d][e] = "received" /\ event' \in [Deliveries -> [Envs -> Statuses]]
        /\ \A c \in Deliveries, f \in Envs : c # d \/ f # e => event'[c][f] = event[c][f]
    BY <1>1, <2>1 DEF DeliveryInv, Typed, Statuses
  <2>3. Typed'
    BY <2>1, <2>2 DEF DeliveryInv, Typed, Labels, HandlerBusy
  <2>4. Created' = Created /\ \A c, f : Made(c, f)' = Made(c, f)
    BY <1>1, <2>1 DEF Created, Made, DeliveryInv, Typed
  <2>5. at'[h] = "create" /\ \A g \in Handlers : g # h => at'[g] = at[g]
    BY <1>1, <2>1 DEF DeliveryInv, Typed
  <2>6. Made(d, e) = {}
    BY <1>3 DEF DeliveryInv, ClaimInv, Made
  <2>7. \A g \in Handlers : at[g] \in Deciding => DeliveryOf[g] # d \/ env[g] # e
    BY <1>3 DEF DeliveryInv, ClaimInv
  <2>8. \A g \in Handlers : DeliveryOf[g] \in Deliveries /\ env[g] \in Envs
    BY Handled
  <2>9. \A x \in Created : event'[dep[x].delivery][dep[x].env] \in {"received", "processed"}
    BY <2>2 DEF DeliveryInv, ClaimInv
  <2>10. ClaimInv'
    <3>1. ASSUME NEW g \in Handlers, at'[g] \in Deciding
          PROVE  event'[DeliveryOf[g]][env[g]] = "received" /\ Made(DeliveryOf[g], env[g]) = {}
      <4>1. CASE g = h
        BY <2>2, <2>6, <4>1
      <4>2. CASE g # h
        <5>1. at[g] \in Deciding /\ (DeliveryOf[g] # d \/ env[g] # e)
          BY <2>5, <2>7, <3>1, <4>2
        <5>2. event'[DeliveryOf[g]][env[g]] = event[DeliveryOf[g]][env[g]]
          BY <2>2, <2>8, <5>1
        <5>3. QED
          BY <5>1, <5>2 DEF DeliveryInv, ClaimInv
      <4>3. QED
        BY <4>1, <4>2
    <3>2. \A g, i \in Handlers :
            at'[g] \in Deciding /\ at'[i] \in Deciding /\ DeliveryOf[g] = DeliveryOf[i]
            /\ env[g] = env[i] => g = i
      BY <2>5, <2>7 DEF DeliveryInv, ClaimInv
    <3>3. \A g \in Handlers : at'[g] = "mark" => Made(DeliveryOf[g], env[g]) # {}
      BY <2>5 DEF DeliveryInv, ClaimInv
    <3>4. QED
      BY <2>1, <2>4, <2>9, <3>1, <3>2, <3>3 DEF DeliveryInv, ClaimInv
  <2>11. OneDeploymentPerDelivery'
    BY <2>1, <2>4 DEF DeliveryInv, OneDeploymentPerDelivery
  <2>12. ClaimsAccounted'
    <3> SUFFICES ASSUME NEW c \in Deliveries, NEW f \in Envs,
                        event'[c][f] \in {"received", "processed"}, Made(c, f) = {},
               <<c, f>> \notin lost
                 PROVE  /\ event'[c][f] = "received"
                        /\ \E g \in Handlers :
                             DeliveryOf[g] = c /\ env[g] = f /\ at'[g] \in Deciding \cup {"dead"}
      BY <2>1, <2>4 DEF ClaimsAccounted
    <3>1. CASE c = d /\ f = e
      BY <2>2, <2>5, <3>1
    <3>2. CASE c # d \/ f # e
      <4>1. event[c][f] = "received" /\ \E g \in Handlers :
              DeliveryOf[g] = c /\ env[g] = f /\ at[g] \in Deciding \cup {"dead"}
        BY <2>2, <3>2 DEF DeliveryInv, ClaimsAccounted
      <4>2. QED
        BY <2>2, <2>5, <3>2, <4>1
    <3>3. QED
      BY <3>1, <3>2
  <2>13. QED
    BY <2>3, <2>10, <2>11, <2>12 DEF DeliveryInv
<1>4. QED
  BY <1>2, <1>3 DEF Claim, EventOf

\* The row that is inserted is the first of its delivery and environment.
LEMMA InsertKeeps ==
    ASSUME DeliveryInv, NEW h \in Handlers, at[h] = "create",
           NEW x \in Deployments, Insert(h, x), UNCHANGED lost
    PROVE  DeliveryInv'
<1> DEFINE d == DeliveryOf[h]
           e == env[h]
<1>1. d \in Deliveries /\ e \in Envs /\ h \notin Deployments /\ h \in Procs /\ x \in Procs /\ x # h
  BY Handled DEF Procs
<1>2. /\ at' = [at EXCEPT ![h] = "mark", ![x] = "created"] /\ at[x] = "none"
      /\ dep' = [dep EXCEPT ![x] = [delivery |-> d, env |-> e, branch |-> BranchOf(h)]]
      /\ UNCHANGED <<todo, env, event, lost>>
  BY DEF Insert, FreshDep
<1>3. /\ at'[h] = "mark" /\ at'[x] = "created"
      /\ \A p \in Procs : p # h /\ p # x => at'[p] = at[p]
      /\ at' \in [Procs -> Labels]
  BY <1>1, <1>2 DEF DeliveryInv, Typed, Labels, HandlerBusy, DeployBusy
<1>4. /\ dep'[x].delivery = d /\ dep'[x].env = e /\ DOMAIN dep' = Deployments
      /\ \A y \in Deployments : y # x => dep'[y] = dep[y]
  BY <1>2 DEF DeliveryInv, Typed
<1>5. x \notin Created /\ Created' = Created \cup {x}
  BY <1>1, <1>2, <1>3 DEF Created, Procs
<1>6. Made(d, e) = {} /\ event[d][e] = "received"
  BY DEF DeliveryInv, ClaimInv
<1>7. \A c, f : Made(c, f) \subseteq Made(c, f)' /\ (c # d \/ f # e => Made(c, f)' = Made(c, f))
  BY <1>4, <1>5 DEF Made, Created
<1>8. \A g \in Handlers : g # h => at'[g] = at[g]
  BY <1>1, <1>3, IdAssumption DEF Procs
<1>9. ClaimInv'
  <2>1. \A y \in Created' :
          /\ dep'[y].delivery \in Deliveries /\ dep'[y].env \in Envs
          /\ event[dep'[y].delivery][dep'[y].env] \in {"received", "processed"}
    BY <1>1, <1>4, <1>5, <1>6 DEF DeliveryInv, ClaimInv, Created
  <2>2. \A g \in Handlers : at'[g] \in Deciding =>
          event[DeliveryOf[g]][env[g]] = "received" /\ Made(DeliveryOf[g], env[g])' = {}
    <3> SUFFICES ASSUME NEW g \in Handlers, at'[g] \in Deciding
                 PROVE  event[DeliveryOf[g]][env[g]] = "received"
                        /\ Made(DeliveryOf[g], env[g])' = {}
      BY <1>2
    <3>1. g # h /\ at[g] \in Deciding
      BY <1>3, <1>8
    <3>2. DeliveryOf[g] # d \/ env[g] # e
      BY <3>1 DEF DeliveryInv, ClaimInv
    <3>3. QED
      BY <1>2, <1>7, <3>1, <3>2 DEF DeliveryInv, ClaimInv
  <2>3. \A g, i \in Handlers :
          at'[g] \in Deciding /\ at'[i] \in Deciding /\ DeliveryOf[g] = DeliveryOf[i]
          /\ env[g] = env[i] => g = i
    BY <1>3, <1>8 DEF DeliveryInv, ClaimInv
  <2>4. \A g \in Handlers : at'[g] = "mark" => Made(DeliveryOf[g], env[g])' # {}
    <3>1. x \in Made(d, e)'
      BY <1>2, <1>4, <1>5 DEF Made
    <3>2. \A g \in Handlers : g # h /\ at'[g] = "mark" => Made(DeliveryOf[g], env[g])' # {}
      BY <1>2, <1>7, <1>8 DEF DeliveryInv, ClaimInv
    <3>3. QED
      BY <1>2, <3>1, <3>2
  <2>5. QED
    BY <1>2, <2>1, <2>2, <2>3, <2>4 DEF ClaimInv
<1>10. OneDeploymentPerDelivery'
  <2>1. \A y \in Created : dep'[y] = dep[y] /\ (dep[y].delivery # d \/ dep[y].env # e)
    BY <1>4, <1>5, <1>6 DEF Made, Created
  <2>2. QED
    BY <1>4, <1>5, <2>1 DEF DeliveryInv, OneDeploymentPerDelivery
<1>11. ClaimsAccounted'
  <2>1. ASSUME NEW c \in Deliveries, NEW f \in Envs,
               event'[c][f] \in {"received", "processed"}, Made(c, f)' = {}, <<c, f>> \notin lost
        PROVE  /\ event'[c][f] = "received"
               /\ \E g \in Handlers :
                    DeliveryOf[g] = c /\ env'[g] = f /\ at'[g] \in Deciding \cup {"dead"}
    <3>1. c # d \/ f # e
      BY <1>4, <1>5, <2>1 DEF Made
    <3>2. Made(c, f) = {} /\ <<c, f>> \notin lost
      BY <1>4, <1>5, <2>1 DEF Made, Created
    <3>3. event[c][f] = "received" /\ \E g \in Handlers :
            DeliveryOf[g] = c /\ env[g] = f /\ at[g] \in Deciding \cup {"dead"}
      BY <1>2, <2>1, <3>2 DEF DeliveryInv, ClaimsAccounted
    <3>4. QED
      BY <1>2, <1>8, <3>1, <3>3
  <2>2. QED
    BY <2>1 DEF ClaimsAccounted
<1>12. Typed'
  BY <1>2, <1>3, <1>4 DEF DeliveryInv, Typed
<1>13. QED
  BY <1>9, <1>10, <1>11, <1>12 DEF DeliveryInv

\* The claim stays with a handler whose INSERT failed.
LEMMA RefuseKeeps ==
    ASSUME DeliveryInv, NEW h \in Handlers, at[h] = "create", Onward(h, "refuse"),
           UNCHANGED <<event, lost, dep>>
    PROVE  DeliveryInv'
<1>1. h \notin Deployments /\ h \in Procs
  BY Handled
<1>2. at' = [at EXCEPT ![h] = "refuse"] /\ UNCHANGED <<todo, env, event, lost, dep>>
  BY DEF Onward, Goto
<1>3. Typed'
  BY <1>2 DEF DeliveryInv, Typed, Labels, HandlerBusy
<1>4. Created' = Created /\ \A c, f : Made(c, f)' = Made(c, f)
  BY <1>1, <1>2 DEF Created, Made, DeliveryInv, Typed
<1>5. at'[h] = "refuse" /\ \A g \in Handlers : g # h => at'[g] = at[g]
  BY <1>1, <1>2 DEF DeliveryInv, Typed
<1>6. ClaimInv' /\ OneDeploymentPerDelivery'
  BY <1>2, <1>4, <1>5 DEF DeliveryInv, ClaimInv, OneDeploymentPerDelivery
<1>7. ClaimsAccounted'
  BY <1>2, <1>4, <1>5 DEF DeliveryInv, ClaimsAccounted
<1>8. QED
  BY <1>3, <1>6, <1>7 DEF DeliveryInv

\* A claim without a deployment is given up, as failed or as one that is lost.
LEMMA MarkFailedKeeps ==
    ASSUME DeliveryInv, NEW h \in Handlers, MarkFailed(h)
    PROVE  DeliveryInv'
<1> DEFINE d == DeliveryOf[h]
           e == env[h]
<1>1. d \in Deliveries /\ e \in Envs /\ h \notin Deployments /\ h \in Procs
  BY Handled
<1>2. /\ event'[d][e] = "failed" \/ <<d, e>> \in lost'
      /\ event' \in [Deliveries -> [Envs -> Statuses]]
      /\ \A c \in Deliveries, f \in Envs : c # d \/ f # e => event'[c][f] = event[c][f]
      /\ lost' \in SUBSET (Deliveries \X Envs) /\ lost \subseteq lost'
  <2>1. CASE SetEvent(h, "failed") /\ UNCHANGED lost
    BY <1>1, <2>1 DEF SetEvent, DeliveryInv, Typed, Statuses
  <2>2. CASE lost' = lost \cup {<<d, e>>} /\ UNCHANGED event
    BY <1>1, <2>2 DEF DeliveryInv, Typed
  <2>3. QED
    BY <2>1, <2>2 DEF MarkFailed
<1>3. /\ todo[h] \in SUBSET Envs /\ Typed
      /\ at[h] = "refuse" /\ NextTarget(h) /\ UNCHANGED dep
  BY DEF DeliveryInv, Typed, MarkFailed, tables
<1>4. PICK label \in {"over", "ensure", "claim"} : at' = [at EXCEPT ![h] = label]
  BY <1>3, AdvanceMoves DEF NextTarget
<1>5. /\ env' \in [Handlers -> Envs] /\ todo' \in [Handlers -> SUBSET Envs]
      /\ \A g \in Handlers : g # h => env'[g] = env[g]
  BY <1>3, AdvanceMoves DEF NextTarget
<1>6. Typed'
  BY <1>2, <1>3, <1>4, <1>5 DEF Typed, Labels, HandlerBusy, Ensuring, Ends
<1>7. Created' = Created /\ \A c, f : Made(c, f)' = Made(c, f)
  BY <1>1, <1>3, <1>4 DEF Created, Made, Typed
<1>8. /\ at'[h] \notin {"create", "refuse", "mark", "dead"}
      /\ \A g \in Handlers : g # h => at'[g] = at[g]
  BY <1>1, <1>3, <1>4 DEF Typed
<1>9. Made(d, e) = {} /\ event[d][e] = "received"
  BY <1>3 DEF DeliveryInv, ClaimInv
<1>10. \A g \in Handlers : at[g] \in Deciding /\ g # h => DeliveryOf[g] # d \/ env[g] # e
  BY <1>3 DEF DeliveryInv, ClaimInv
<1>11. ClaimInv'
  <2>1. \A x \in Created : event'[dep[x].delivery][dep[x].env] \in {"received", "processed"}
    BY <1>2, <1>9 DEF DeliveryInv, ClaimInv, Made
  <2>2. \A g \in Handlers : at'[g] \in Deciding =>
          event'[DeliveryOf[g]][env'[g]] = "received" /\ Made(DeliveryOf[g], env'[g]) = {}
    <3> SUFFICES ASSUME NEW g \in Handlers, at'[g] \in Deciding
                 PROVE  event'[DeliveryOf[g]][env'[g]] = "received"
                        /\ Made(DeliveryOf[g], env'[g]) = {}
      OBVIOUS
    <3>1. at[g] \in Deciding /\ g # h /\ env'[g] = env[g]
      BY <1>5, <1>8
    <3>2. DeliveryOf[g] \in Deliveries /\ env[g] \in Envs
      BY Handled
    <3>3. event'[DeliveryOf[g]][env[g]] = event[DeliveryOf[g]][env[g]]
      BY <1>2, <1>10, <3>1, <3>2
    <3>4. event[DeliveryOf[g]][env[g]] = "received" /\ Made(DeliveryOf[g], env[g]) = {}
      BY <3>1 DEF DeliveryInv, ClaimInv
    <3>5. QED
      BY <3>1, <3>3, <3>4
  <2>3. \A g, i \in Handlers :
          at'[g] \in Deciding /\ at'[i] \in Deciding /\ DeliveryOf[g] = DeliveryOf[i]
          /\ env'[g] = env'[i] => g = i
    BY <1>5, <1>8 DEF DeliveryInv, ClaimInv
  <2>4. \A g \in Handlers : at'[g] = "mark" => Made(DeliveryOf[g], env'[g]) # {}
    BY <1>5, <1>8 DEF DeliveryInv, ClaimInv
  <2>5. \A x \in Created : dep[x].delivery \in Deliveries /\ dep[x].env \in Envs
    BY DEF DeliveryInv, ClaimInv
  <2>6. QED
    BY <1>3, <1>7, <2>1, <2>2, <2>3, <2>4, <2>5 DEF ClaimInv
<1>12. OneDeploymentPerDelivery'
  BY <1>3, <1>7 DEF DeliveryInv, OneDeploymentPerDelivery
<1>13. ClaimsAccounted'
  <2> SUFFICES ASSUME NEW c \in Deliveries, NEW f \in Envs,
                      event'[c][f] \in {"received", "processed"}, Made(c, f) = {},
               <<c, f>> \notin lost'
               PROVE  /\ event'[c][f] = "received"
                      /\ \E g \in Handlers :
                           DeliveryOf[g] = c /\ env'[g] = f /\ at'[g] \in Deciding \cup {"dead"}
    BY <1>7 DEF ClaimsAccounted
  <2>1. (c # d \/ f # e) /\ event'[c][f] = event[c][f] /\ <<c, f>> \notin lost
    BY <1>2
  <2>2. event[c][f] = "received" /\ \E g \in Handlers :
          DeliveryOf[g] = c /\ env[g] = f /\ at[g] \in Deciding \cup {"dead"}
    BY <2>1 DEF DeliveryInv, ClaimsAccounted
  <2>3. QED
    BY <1>5, <1>8, <2>1, <2>2
<1>14. QED
  BY <1>6, <1>11, <1>12, <1>13 DEF DeliveryInv

LEMMA CreateKeeps ==
    ASSUME DeliveryInv, NEW h \in Handlers, CreateDeployment(h) PROVE DeliveryInv'
BY InsertKeeps, RefuseKeeps DEF CreateDeployment

\* The event is marked after the deployment was made.
LEMMA MarkKeeps == ASSUME DeliveryInv, NEW h \in Handlers, MarkProcessed(h) PROVE DeliveryInv'
<1> DEFINE d == DeliveryOf[h]
           e == env[h]
           now == [p \in Procs |-> IF p \in Dispatched(h) THEN "queued" ELSE at[p]]
<1>1. d \in Deliveries /\ e \in Envs /\ h \notin Deployments /\ h \in Procs
  BY Handled
<1>2. at[h] = "mark" /\ Made(d, e) # {} /\ UNCHANGED <<lost, dep>>
  BY DEF MarkProcessed, DeliveryInv, ClaimInv
<1>3. PICK y \in Created : dep[y].delivery = d /\ dep[y].env = e
  BY <1>2 DEF Made
<1>4. event[d][e] \in {"received", "processed"}
  BY <1>3 DEF DeliveryInv, ClaimInv
<1>5. /\ event' \in [Deliveries -> [Envs -> Statuses]]
      /\ event'[d][e] \in {"received", "processed"}
      /\ \A c \in Deliveries, f \in Envs : c # d \/ f # e => event'[c][f] = event[c][f]
  <2>1. CASE SetEvent(h, "processed")
    BY <1>1, <2>1 DEF SetEvent, DeliveryInv, Typed, Statuses
  <2>2. CASE UNCHANGED event
    BY <1>4, <2>2 DEF DeliveryInv, Typed
  <2>3. QED
    BY <2>1, <2>2 DEF MarkProcessed
<1>6. Typed /\ todo[h] \in SUBSET Envs /\ Advance(h, todo[h], now)
  BY DEF DeliveryInv, Typed, MarkProcessed
<1>7. now \in [Procs -> Labels] /\ \A p \in Procs : p \notin Dispatched(h) => now[p] = at[p]
  BY <1>6 DEF Typed, Labels, DeployBusy
<1>8. \A p \in Dispatched(h) : p \in Deployments /\ p \in Procs /\ at[p] = "created"
                             /\ now[p] = "queued"
  BY DEF Dispatched, Procs
<1> HIDE DEF now
<1>9. PICK label \in {"over", "ensure", "claim"} : at' = [now EXCEPT ![h] = label]
  BY <1>6, AdvanceMoves
<1>10. /\ env' \in [Handlers -> Envs] /\ todo' \in [Handlers -> SUBSET Envs]
       /\ \A g \in Handlers : g # h => env'[g] = env[g]
  BY <1>6, AdvanceMoves
<1>11. Typed'
  BY <1>2, <1>5, <1>6, <1>7, <1>9, <1>10 DEF Typed, Labels, HandlerBusy, Ensuring, Ends
<1>12. /\ at'[h] \notin {"create", "refuse", "mark", "dead"}
       /\ \A g \in Handlers : g # h => at'[g] = at[g]
  BY <1>1, <1>7, <1>8, <1>9, IdAssumption DEF Procs
<1>13. \A x \in Deployments : at'[x] # "none" <=> at[x] # "none"
  BY <1>1, <1>7, <1>8, <1>9 DEF Procs
<1>14. Created' = Created /\ \A c, f : Made(c, f)' = Made(c, f)
  BY <1>2, <1>13 DEF Created, Made
<1>15. ClaimInv'
  <2>1. \A x \in Created : event'[dep[x].delivery][dep[x].env] \in {"received", "processed"}
    BY <1>5 DEF DeliveryInv, ClaimInv
  <2>2. ASSUME NEW g \in Handlers, at'[g] \in Deciding
        PROVE  event'[DeliveryOf[g]][env'[g]] = "received" /\ Made(DeliveryOf[g], env'[g]) = {}
    <3>1. at[g] \in Deciding /\ g # h /\ env'[g] = env[g]
      BY <1>10, <1>12, <2>2
    <3>2. DeliveryOf[g] \in Deliveries /\ env[g] \in Envs
      BY Handled
    <3>3. event[DeliveryOf[g]][env[g]] = "received" /\ Made(DeliveryOf[g], env[g]) = {}
      BY <3>1 DEF DeliveryInv, ClaimInv
    <3>4. DeliveryOf[g] # d \/ env[g] # e
      BY <1>2, <3>3
    <3>5. QED
      BY <1>5, <3>1, <3>2, <3>3, <3>4
  <2>3. \A g, i \in Handlers :
          at'[g] \in Deciding /\ at'[i] \in Deciding /\ DeliveryOf[g] = DeliveryOf[i]
          /\ env'[g] = env'[i] => g = i
    BY <1>10, <1>12 DEF DeliveryInv, ClaimInv
  <2>4. \A g \in Handlers : at'[g] = "mark" => Made(DeliveryOf[g], env'[g]) # {}
    BY <1>10, <1>12 DEF DeliveryInv, ClaimInv
  <2>5. \A x \in Created : dep[x].delivery \in Deliveries /\ dep[x].env \in Envs
    BY DEF DeliveryInv, ClaimInv
  <2>6. QED
    BY <1>2, <1>14, <2>1, <2>2, <2>3, <2>4, <2>5 DEF ClaimInv
<1>16. OneDeploymentPerDelivery'
  BY <1>2, <1>14 DEF DeliveryInv, OneDeploymentPerDelivery
<1>17. ClaimsAccounted'
  <2>1. ASSUME NEW c \in Deliveries, NEW f \in Envs,
               event'[c][f] \in {"received", "processed"}, Made(c, f) = {},
               <<c, f>> \notin lost
        PROVE  /\ event'[c][f] = "received"
               /\ \E g \in Handlers :
                    DeliveryOf[g] = c /\ env'[g] = f /\ at'[g] \in Deciding \cup {"dead"}
    <3>1. (c # d \/ f # e) /\ event'[c][f] = event[c][f]
      BY <1>2, <1>5, <2>1
    <3>2. event[c][f] = "received" /\ \E g \in Handlers :
            DeliveryOf[g] = c /\ env[g] = f /\ at[g] \in Deciding \cup {"dead"}
      BY <2>1, <3>1 DEF DeliveryInv, ClaimsAccounted
    <3>3. QED
      BY <1>10, <1>12, <1>2, <3>1, <3>2
  <2>2. QED
    BY <1>2, <1>14, <2>1 DEF ClaimsAccounted
<1>18. QED
  BY <1>11, <1>15, <1>16, <1>17 DEF DeliveryInv

\* Whoever was about to make a deployment is dead, which accounts for the claim.
LEMMA CrashKeeps ==
    ASSUME DeliveryInv, Crash \/ \E x \in Deployments : CrashInSwap(x)
    PROVE  DeliveryInv'
<1>1. /\ at' = [p \in Procs |-> IF at[p] \in HandlerBusy \cup DeployBusy THEN "dead" ELSE at[p]]
      /\ UNCHANGED <<todo, env, event, lost, dep>>
  BY DEF Crash, CrashInSwap, Die, handling, tables
<1>2. Typed'
  BY <1>1 DEF DeliveryInv, Typed, Labels, Ends
<1>3. \A p \in Procs :
        /\ at'[p] # "none" <=> at[p] # "none"
        /\ at'[p] \notin {"create", "refuse", "mark"}
        /\ at[p] \in Deciding \cup {"dead"} => at'[p] = "dead"
  BY <1>1 DEF HandlerBusy, DeployBusy, Slotted, Ensuring, Tearing
<1>4. Created' = Created /\ \A c, f : Made(c, f)' = Made(c, f)
  <2>1. Deployments \subseteq Procs
    BY DEF Procs
  <2>2. UNCHANGED dep
    BY <1>1
  <2>3. Created' = Created
    BY <1>3, <2>1 DEF Created
  <2>4. QED
    BY <2>2, <2>3 DEF Made
<1>5. \A h \in Handlers : h \in Procs
  BY DEF Procs
<1>6. ClaimInv' /\ OneDeploymentPerDelivery'
  BY <1>1, <1>3, <1>4, <1>5 DEF DeliveryInv, ClaimInv, OneDeploymentPerDelivery
<1>7. ClaimsAccounted'
  <2>1. UNCHANGED <<event, lost, env>>
    BY <1>1
  <2>2. ASSUME NEW c \in Deliveries, NEW f \in Envs,
               event'[c][f] \in {"received", "processed"}, Made(c, f) = {},
               <<c, f>> \notin lost
        PROVE  /\ event'[c][f] = "received"
               /\ \E g \in Handlers :
                    DeliveryOf[g] = c /\ env'[g] = f /\ at'[g] \in Deciding \cup {"dead"}
    BY <1>3, <1>5, <2>1, <2>2 DEF DeliveryInv, ClaimsAccounted
  <2>3. QED
    BY <1>4, <2>1, <2>2 DEF ClaimsAccounted
<1>8. QED
  BY <1>2, <1>6, <1>7 DEF DeliveryInv

-----------------------------------------------------------------------------
(* The theorems.                                                           *)

LEMMA InitialDeliveries == Init => DeliveryInv
<1> SUFFICES ASSUME Init PROVE DeliveryInv
  OBVIOUS
<1>1. Typed
  BY DEF Init, Typed, Labels, Ends, Envs, Statuses
<1>2. Created = {} /\ \A h \in Handlers : at[h] = "idle"
  BY IdAssumption DEF Init, Created, Procs
<1>3. \A d \in Deliveries, e \in Envs : event[d][e] = "none"
  BY DEF Init
<1>4. QED
  BY <1>1, <1>2, <1>3 DEF DeliveryInv, ClaimInv, OneDeploymentPerDelivery, ClaimsAccounted

LEMMA DeliveryInvInductive == DeliveryInv /\ [Next]_vars => DeliveryInv'
<1> SUFFICES ASSUME DeliveryInv, [Next]_vars PROVE DeliveryInv'
  OBVIOUS
<1>1. CASE UNCHANGED <<at, todo, env, event, lost, dep>>
  BY <1>1 DEF DeliveryInv, Typed, ClaimInv, OneDeploymentPerDelivery, ClaimsAccounted, Created,
     Made
<1>2. ASSUME NEW b \in Branches, Push(b) \/ DeleteBranch(b) PROVE DeliveryInv'
  BY <1>1, <1>2 DEF Push, DeleteBranch, handling, tables
<1>3. ASSUME NEW h \in Handlers, Receive(h) PROVE DeliveryInv'
  BY <1>3, ReceiveMoves, MovesKeep DEF DeliveryInv, Procs
<1>4. ASSUME NEW h \in Handlers, HandlePush(h) PROVE DeliveryInv'
  <2>1. CASE Ensure(h)
    BY <2>1, EnsureMoves, MovesKeep DEF DeliveryInv, Procs
  <2>2. QED
    BY <1>4, <2>1, SkipKeeps, ClaimKeeps, CreateKeeps, MarkFailedKeeps, MarkKeeps
       DEF HandlePush
<1>5. ASSUME NEW h \in Handlers, HandleDelete(h) PROVE DeliveryInv'
  BY <1>5, DeleteMoves, MovesKeep DEF DeliveryInv, Procs
<1>6. ASSUME NEW x \in Deployments, Deploy(x) PROVE DeliveryInv'
  BY <1>6, DeployMoves, MovesKeep DEF DeliveryInv, Procs
<1>7. CASE UNCHANGED vars
  BY <1>1, <1>7 DEF vars, handling, tables
<1>8. QED
  BY <1>2, <1>3, <1>4, <1>5, <1>6, <1>7, CrashKeeps DEF Next

LEMMA DeliveryInvHolds == Spec => []DeliveryInv
BY InitialDeliveries, DeliveryInvInductive, PTL DEF Spec

(* However often and however concurrently a push is delivered, and         *)
(* wherever a handler fails, it makes one deployment for each target       *)
(* (claimWebhookEvent and its unique index).                               *)
THEOREM DeliveriesAreIdempotent == Spec => []OneDeploymentPerDelivery
<1>1. DeliveryInv => OneDeploymentPerDelivery
  BY DEF DeliveryInv
<1>2. QED
  BY <1>1, DeliveryInvHolds, PTL

(* No claim is left behind without a deployment and without being marked   *)
(* failed, except by a handler that is about to do either, that died with  *)
(* the process, or whose two statements were both lost (HandleGithub).     *)
THEOREM NoClaimIsForgotten == Spec => []ClaimsAccounted
<1>1. DeliveryInv => ClaimsAccounted
  BY DEF DeliveryInv
<1>2. QED
  BY <1>1, DeliveryInvHolds, PTL

-----------------------------------------------------------------------------
(* Types of what DeliveryInv does not mention.                             *)

Content == [kind : {"push", "delete"}, branch : Branches, commit : Nat, ignored : BOOLEAN]
Row == [delivery : Nat, env : Envs, branch : Branches]

Stored ==
    /\ head \in [Branches -> Nat] /\ alive \in [Branches -> BOOLEAN] /\ sent \in Seq(Content)
    /\ dep \in [Deployments -> Row] /\ sha \in [Deployments -> Nat]
    /\ inst \in [Branches -> {"none", "active", "deleted"}]
    /\ domain \in [Branches -> BOOLEAN] /\ vhost \in [Branches -> BOOLEAN]
    /\ container \in [Targets -> Deployments \cup {NoDep}]
    /\ stray \in SUBSET Deployments
    /\ volume \in [Branches -> BOOLEAN] /\ failures \in 0 .. MaxFailures
    /\ seen \in [Handlers -> BOOLEAN] /\ alone \in [Handlers -> BOOLEAN]

\* Whoever is past its beginning handles a delivery that was sent, and a container
\* left behind is that of a deployment.
Known ==
    /\ \A h \in Handlers : at[h] # "idle" => DeliveryOf[h] \in DOMAIN sent
    /\ \A x \in stray : at[x] # "none"

PlaceInv == Typed /\ Stored /\ Known

LEMMA KnownBranch ==
    ASSUME PlaceInv, NEW p \in Procs, at[p] # "idle" PROVE BranchOf(p) \in Branches
<1>1. CASE p \in Deployments
  BY <1>1 DEF PlaceInv, Stored, Row, BranchOf
<1>2. CASE p \in Handlers /\ p \notin Deployments
  <2>1. DeliveryOf[p] \in DOMAIN sent
    BY <1>2 DEF PlaceInv, Known
  <2>2. sent[DeliveryOf[p]] \in Content
    BY <2>1 DEF PlaceInv, Stored
  <2>3. QED
    BY <1>2, <2>2 DEF BranchOf, Content
<1>3. QED
  BY <1>1, <1>2 DEF Procs

LEMMA FaultCounted == ASSUME Stored, NEW f, Fault(f) PROVE failures' \in 0 .. MaxFailures
BY ConfigAssumption DEF Stored, Fault

LEMMA PushTyped ==
    ASSUME PlaceInv, NEW b \in Branches, Push(b) \/ DeleteBranch(b) PROVE Stored' /\ Known'
<1>1. PICK c : c \in Content /\ sent' = Append(sent, c)
  <2>1. head[b] + 1 \in Nat /\ 0 \in Nat
    BY DEF PlaceInv, Stored
  <2>2. CASE Push(b)
    BY <2>1, <2>2 DEF Push, Content
  <2>3. CASE DeleteBranch(b)
    BY <2>1, <2>3 DEF DeleteBranch, Content
  <2>4. QED
    BY <2>2, <2>3
<1>2. sent \in Seq(Content)
  BY DEF PlaceInv, Stored
<1>3. sent' \in Seq(Content) /\ DOMAIN sent \subseteq DOMAIN sent'
  BY <1>1, <1>2
<1>4. head' \in [Branches -> Nat] /\ alive' \in [Branches -> BOOLEAN]
  <2>1. head \in [Branches -> Nat] /\ alive \in [Branches -> BOOLEAN]
    BY DEF PlaceInv, Stored
  <2>2. CASE Push(b)
    BY <2>1, <2>2 DEF Push
  <2>3. CASE DeleteBranch(b)
    BY <2>1, <2>3 DEF DeleteBranch
  <2>4. QED
    BY <2>2, <2>3
<1>5. UNCHANGED <<failures, at, seen, alone, dep, inst, domain, sha, vhost, container, stray,
                volume>>
  BY DEF Push, DeleteBranch, handling, tables, host
<1>6. Stored'
  BY <1>3, <1>4, <1>5 DEF PlaceInv, Stored
<1>7. Known'
  BY <1>3, <1>5 DEF PlaceInv, Known
<1>8. QED
  BY <1>6, <1>7

\* A step of a process leaves the others where they are, but for the deployments
\* it makes or dispatches, and touches nothing of another branch.
Works(p) ==
    /\ at[p] \in Busy
    /\ UNCHANGED <<head, alive, sent>>
    /\ \A h \in Handlers \ {p} :
         /\ at'[h] = at[h] /\ env'[h] = env[h]
         /\ seen'[h] = seen[h] /\ (alone'[h] => alone[h])
    /\ \A x \in Deployments :
         \/ x = p /\ dep'[x] = dep[x] /\ at'[x] # "none"
         \/ x # p /\ dep'[x] = dep[x] /\ at'[x] = at[x]
         \/ x # p /\ dep'[x] = dep[x] /\ at[x] = "created" /\ at'[x] = "queued"
         \/ /\ p \in Handlers /\ at[p] = "create" /\ at[x] = "none" /\ at'[x] = "created"
            /\ dep'[x] = [delivery |-> DeliveryOf[p], env |-> env[p], branch |-> BranchOf(p)]
    /\ \A x \in Deployments \ {p} : sha'[x] = sha[x]
    /\ \A d \in Deliveries : p \in Deployments \/ d # DeliveryOf[p] => event'[d] = event[d]
    /\ stray \subseteq stray' /\ stray' \subseteq stray \cup ({p} \cap Deployments)
    /\ \A b \in Branches \ {BranchOf(p)} :
         /\ container'[b] = container[b] /\ volume'[b] = volume[b] /\ vhost'[b] = vhost[b]
         /\ domain'[b] = domain[b] /\ inst'[b] = inst[b]

LEMMA WorksKnown ==
    ASSUME PlaceInv, NEW p \in Procs, Works(p) PROVE Known'
<1>1. at[p] # "idle"
  BY DEF Works, HandlerBusy, DeployBusy, Slotted, Ensuring, Tearing, Busy
<1>2. \A h \in Handlers : at'[h] # "idle" => DeliveryOf[h] \in DOMAIN sent'
  BY <1>1 DEF PlaceInv, Known, Works
<1>3. \A x \in Deployments : at[x] # "none" \/ x = p => at'[x] # "none"
  BY DEF Works
<1>4. QED
  BY <1>2, <1>3 DEF PlaceInv, Stored, Known, Works

\* Its container or those left behind are still of the same branch.
LEMMA StraysStay ==
    ASSUME PlaceInv, NEW p \in Procs, Works(p), NEW b PROVE Strays(b) \subseteq Strays(b)'
<1>1. \A x \in stray : x \in Deployments /\ at[x] # "none" /\ x \in stray'
  BY DEF PlaceInv, Stored, Known, Works
<1>2. \A x \in stray : dep'[x] = dep[x]
  BY <1>1 DEF Works
<1>3. QED
  BY <1>1, <1>2 DEF Strays, TargetOf

\* What GetOrCreatePreviewInstance and EnsurePreviewAutoDomains do.
LEMMA EnsureWorks ==
    ASSUME PlaceInv, NEW p \in Procs, Ensure(p)
    PROVE  /\ Works(p) /\ Stored'
           /\ at[p] \in Ensuring /\ UNCHANGED <<vhost, container, stray, volume, alone, seen>>
<1>1. /\ at[p] \in Ensuring
      /\ UNCHANGED <<head, alive, sent, seen, alone, event, dep, sha, vhost, container, stray,
                     volume>>
  BY DEF Ensure, FindInstance, Reactivate, InsertInstance, FindDomain, CreateDomain, Ensuring,
     tables, github, host
<1>2. at[p] # "idle" /\ at[p] \in HandlerBusy \cup DeployBusy /\ at[p] \notin {"none", "create"}
  BY <1>1 DEF HandlerBusy, Ensuring
<1>3. PICK label \in Labels \ {"none", "create", "mark"} : at' = [at EXCEPT ![p] = label]
  BY EnsureMoves DEF MovesOn, PlaceInv
<1>4. BranchOf(p) \in Branches
  BY <1>2, KnownBranch
<1>5. /\ inst' = inst \/ inst' = [inst EXCEPT ![BranchOf(p)] = "active"]
      /\ domain' = domain \/ domain' = [domain EXCEPT ![BranchOf(p)] = TRUE]
  BY DEF Ensure, FindInstance, Reactivate, InsertInstance, FindDomain, CreateDomain, tables
<1>6. failures' \in 0 .. MaxFailures
  BY FaultCounted DEF Ensure, FindInstance, Reactivate, InsertInstance, FindDomain,
     CreateDomain, EnsureFails, NoFault, PlaceInv, Stored
<1>7. Stored'
  BY <1>1, <1>5, <1>6 DEF PlaceInv, Stored
<1>8. at'[p] # "none" /\ \A q \in Procs \ {p} : at'[q] = at[q]
  BY <1>3 DEF PlaceInv, Typed
<1>9. Works(p)
  <2>1. \A h \in Handlers \ {p} :
          /\ at'[h] = at[h] /\ env'[h] = env[h]
          /\ seen'[h] = seen[h] /\ (alone'[h] => alone[h])
    BY <1>1, <1>8, EnsureMoves DEF Procs, MovesOn, PlaceInv
  <2>2. \A x \in Deployments : dep'[x] = dep[x] /\ (x # p => at'[x] = at[x])
    BY <1>1, <1>8 DEF Procs
  <2>3. \A b \in Branches \ {BranchOf(p)} :
          /\ container'[b] = container[b] /\ volume'[b] = volume[b] /\ vhost'[b] = vhost[b]
          /\ domain'[b] = domain[b] /\ inst'[b] = inst[b]
    BY <1>1, <1>5 DEF PlaceInv, Stored
  <2>4. QED
    BY <1>1, <1>2, <1>8, <2>1, <2>2, <2>3 DEF Works, Busy
<1>10. QED
  BY <1>1, <1>7, <1>9

\* A handler that reads, or writes its event only.
LEMMA ReadsWork ==
    ASSUME PlaceInv, NEW h \in Handlers, at[h] \in HandlerBusy,
           NEW label, at' = [at EXCEPT ![h] = label], failures' \in 0 .. MaxFailures,
           \A g \in Handlers \ {h} : env'[g] = env[g],
           \A d \in Deliveries \ {DeliveryOf[h]} : event'[d] = event[d],
           UNCHANGED <<github, seen, alone, dep, inst, domain, sha, host>>
    PROVE  Works(h) /\ Stored'
<1>1. UNCHANGED <<head, alive, sent, vhost, container, stray, volume>>
  BY DEF github, host
<1>2. Stored'
  BY <1>1 DEF PlaceInv, Stored
<1>3. h \in Procs /\ h \notin Deployments /\ \A q \in Procs \ {h} : at'[q] = at[q]
  BY IdAssumption DEF PlaceInv, Typed, Procs
<1>4. \A g \in Handlers \ {h} : at'[g] = at[g]
  BY <1>3 DEF Procs
<1>5. \A x \in Deployments : at'[x] = at[x]
  BY <1>3 DEF Procs
<1>6. QED
  BY <1>1, <1>2, <1>3, <1>4, <1>5 DEF Works, Busy

LEMMA NextTargetAt ==
    ASSUME Typed, NEW h \in Handlers, NextTarget(h)
    PROVE  /\ \E label \in {"over", "ensure", "claim"} : at' = [at EXCEPT ![h] = label]
           /\ \A g \in Handlers \ {h} : env'[g] = env[g]
BY AdvanceMoves DEF NextTarget, Typed

LEMMA SkipWorks ==
    ASSUME PlaceInv, NEW h \in Handlers, SkipFiltered(h) PROVE Works(h) /\ Stored'
<1>1. /\ at[h] \in HandlerBusy /\ at' = [at EXCEPT ![h] = "over"]
      /\ UNCHANGED <<github, seen, alone, dep, inst, domain, sha, host>>
  BY DEF SkipFiltered, Goto, HandlerBusy, handling
<1>2. failures' \in 0 .. MaxFailures
  BY FaultCounted DEF SkipFiltered, NoFault, PlaceInv, Stored
<1>3. UNCHANGED env /\ \A d \in Deliveries \ {DeliveryOf[h]} : event'[d] = event[d]
  BY DEF SkipFiltered, handling, PlaceInv, Typed
<1>4. QED
  BY <1>1, <1>2, <1>3, ReadsWork

LEMMA ClaimWorks ==
    ASSUME PlaceInv, NEW h \in Handlers, Claim(h) PROVE Works(h) /\ Stored'
<1>1. /\ at[h] \in HandlerBusy
      /\ UNCHANGED <<github, seen, alone, dep, inst, domain, sha, host>>
  BY DEF Claim, HandlerBusy
<1>2. failures' \in 0 .. MaxFailures
  BY FaultCounted DEF Claim, NoFault, PlaceInv, Stored
<1>3. /\ \E label : at' = [at EXCEPT ![h] = label]
      /\ \A g \in Handlers \ {h} : env'[g] = env[g]
  BY NextTargetAt DEF Claim, Onward, Goto, PlaceInv
<1>4. \A d \in Deliveries \ {DeliveryOf[h]} : event'[d] = event[d]
  BY DEF Claim, SetEvent, PlaceInv, Typed
<1>5. QED
  BY <1>1, <1>2, <1>3, <1>4, ReadsWork

LEMMA CreateWorks ==
    ASSUME PlaceInv, NEW h \in Handlers, CreateDeployment(h) PROVE Works(h) /\ Stored'
<1>1. /\ at[h] = "create" /\ at[h] \in HandlerBusy
      /\ UNCHANGED <<head, alive, sent, seen, alone, inst, domain, sha, vhost, container, stray,
                     volume>>
      /\ \A d \in Deliveries \ {DeliveryOf[h]} : event'[d] = event[d]
  BY DEF CreateDeployment, HandlerBusy, github, host, Insert, SetEvent, PlaceInv, Typed
<1>2. h \in Procs /\ h \notin Deployments /\ DeliveryOf[h] \in Nat /\ env[h] \in Envs
  BY IdAssumption DEF PlaceInv, Typed, Procs, Deliveries
<1>3. BranchOf(h) \in Branches
  BY <1>1, <1>2, KnownBranch
<1>4. ASSUME NEW x \in Deployments, Insert(h, x) PROVE Works(h) /\ Stored'
  <2> DEFINE row == [delivery |-> DeliveryOf[h], env |-> env[h], branch |-> BranchOf(h)]
  <2>1. row \in Row /\ row.branch = BranchOf(h)
    BY <1>2, <1>3 DEF Row
  <2> HIDE DEF row
  <2>2. /\ dep' = [dep EXCEPT ![x] = row] /\ at' = [at EXCEPT ![h] = "mark", ![x] = "created"]
        /\ UNCHANGED <<failures, env>>
    BY <1>4 DEF Insert, row
  <2>3. at[x] = "none"
    BY <1>4 DEF Insert, FreshDep
  <2>4. dep' \in [Deployments -> Row] /\ dep'[x] = row
        /\ \A y \in Deployments \ {x} : dep'[y] = dep[y]
    BY <2>1, <2>2 DEF PlaceInv, Stored
  <2>5. \A q \in Procs \ {h, x} : at'[q] = at[q]
    BY <2>2 DEF PlaceInv, Typed
  <2>6. Stored'
    BY <1>1, <2>2, <2>4 DEF PlaceInv, Stored
  <2>7. \A g \in Handlers \ {h} : at'[g] = at[g]
    BY <2>5, IdAssumption DEF Procs
  <2>8. \A y \in Deployments \ {x} : at'[y] = at[y]
    BY <1>2, <2>5 DEF Procs
  <2>10. at'[x] = "created" /\ x # h
    BY <1>2, <2>2 DEF PlaceInv, Typed, Procs
  <2>9. QED
    BY <1>1, <1>2, <2>2, <2>3, <2>4, <2>6, <2>7, <2>8, <2>10 DEF Works, Busy, row
<1>5. CASE Fault("db") /\ Onward(h, "refuse") /\ UNCHANGED <<dep, event>>
  <2>1. failures' \in 0 .. MaxFailures
    BY <1>5, FaultCounted DEF PlaceInv
  <2>2. at' = [at EXCEPT ![h] = "refuse"] /\ UNCHANGED env
    BY <1>5 DEF Onward, Goto
  <2>3. QED
    BY <1>1, <1>5, <2>1, <2>2, ReadsWork DEF github, host
<1>6. QED
  BY <1>4, <1>5 DEF CreateDeployment

LEMMA MarkFailedWorks ==
    ASSUME PlaceInv, NEW h \in Handlers, MarkFailed(h) PROVE Works(h) /\ Stored'
<1>1. /\ at[h] \in HandlerBusy
      /\ UNCHANGED <<github, seen, alone, dep, inst, domain, sha, host, failures>>
      /\ \A d \in Deliveries \ {DeliveryOf[h]} : event'[d] = event[d]
  BY DEF MarkFailed, HandlerBusy, calm, SetEvent, PlaceInv, Typed
<1>2. /\ \E label : at' = [at EXCEPT ![h] = label]
      /\ \A g \in Handlers \ {h} : env'[g] = env[g]
  BY NextTargetAt DEF MarkFailed, PlaceInv
<1>3. failures' \in 0 .. MaxFailures
  BY <1>1 DEF PlaceInv, Stored
<1>4. QED
  BY <1>1, <1>2, <1>3, ReadsWork

LEMMA MarkWorks ==
    ASSUME PlaceInv, NEW h \in Handlers, MarkProcessed(h) PROVE Works(h) /\ Stored'
<1> DEFINE now == [p \in Procs |-> IF p \in Dispatched(h) THEN "queued" ELSE at[p]]
<1>1. /\ at[h] \in HandlerBusy
      /\ UNCHANGED <<head, alive, sent, seen, alone, dep, inst, domain, sha, vhost, container,
                     stray, volume>>
      /\ \A d \in Deliveries \ {DeliveryOf[h]} : event'[d] = event[d]
  BY DEF MarkProcessed, HandlerBusy, github, host, SetEvent, PlaceInv, Typed
<1>2. failures' \in 0 .. MaxFailures
  BY FaultCounted DEF MarkProcessed, NoFault, PlaceInv, Stored
<1>3. Stored'
  BY <1>1, <1>2 DEF PlaceInv, Stored
<1>4. \A p \in Dispatched(h) : p \in Deployments /\ at[p] = "created" /\ now[p] = "queued"
  BY DEF Dispatched, Procs
<1>5. \A p \in Procs \ Dispatched(h) : now[p] = at[p]
  OBVIOUS
<1>6. Typed /\ todo[h] \in SUBSET Envs /\ Advance(h, todo[h], now)
  BY DEF PlaceInv, Typed, MarkProcessed
<1>7. DOMAIN now = Procs
  OBVIOUS
<1> HIDE DEF now
<1>8. PICK label \in {"over", "ensure", "claim"} : at' = [now EXCEPT ![h] = label]
  BY <1>6, AdvanceMoves
<1>9. h \notin Deployments /\ h \in Procs
  BY IdAssumption DEF Procs
<1>10. \A g \in Handlers \ {h} : at'[g] = at[g] /\ env'[g] = env[g]
  BY <1>4, <1>5, <1>6, <1>7, <1>8, AdvanceMoves, IdAssumption DEF Procs
<1>11. \A x \in Deployments : at'[x] = at[x] \/ (at[x] = "created" /\ at'[x] = "queued")
  BY <1>4, <1>5, <1>7, <1>8, <1>9 DEF Procs
<1>12. \A x \in Deployments :
         dep'[x] = dep[x] /\ (at'[x] = at[x] \/ (at[x] = "created" /\ at'[x] = "queued"))
  BY <1>1, <1>11
<1>13. QED
  BY <1>1, <1>3, <1>9, <1>10, <1>12 DEF Works, Busy

LEMMA DeployWorks ==
    ASSUME PlaceInv, NEW x \in Deployments, Deploy(x) PROVE Works(x) /\ Stored'
<1>1. CASE Ensure(x)
  BY <1>1, EnsureWorks DEF Procs
<1>2. CASE \/ StartDeploy(x) \/ Clone(x) \/ Run(x) \/ Provision(x) \/ Publish(x)
           \/ SwapIn(x) \/ DeployFails(x) \/ TrialFails(x)
  <2>1. /\ at[x] \in {"queued", "clone", "run", "provision", "publish", "swap"}
        /\ UNCHANGED <<head, alive, sent, seen, env, event, dep, inst, domain>>
    BY <1>2 DEF StartDeploy, Clone, Run, Provision, Publish, SwapIn, DeployFails, TrialFails,
       tables, handling, calm, github
  <2>2. at[x] \in DeployBusy /\ x \in Procs /\ x \notin Handlers
    BY <2>1, IdAssumption DEF DeployBusy, Slotted, Procs
  <2>3. PICK label \in {"ensure", "clone", "run", "failed", "provision", "publish", "swap",
                         "live"} : at' = [at EXCEPT ![x] = label]
    BY <1>2 DEF StartDeploy, Clone, Run, Provision, Publish, SwapIn, DeployFails, TrialFails, Goto
  <2>4. failures' \in 0 .. MaxFailures
    <3>1. failures' = failures \/ \E f : Fault(f)
      BY <1>2 DEF StartDeploy, Clone, Run, Provision, Publish, SwapIn, DeployFails, TrialFails,
         NoFault, calm
    <3>2. QED
      BY <3>1, FaultCounted DEF PlaceInv, Stored
  <2>5. alone' \in [Handlers -> BOOLEAN] /\ \A h \in Handlers : alone'[h] => alone[h]
    BY <1>2 DEF StartDeploy, Clone, Run, Provision, Publish, SwapIn, DeployFails, TrialFails,
       handling, Disturb, PlaceInv, Stored
  <2>6. head[dep[x].branch] \in Nat /\ BranchOf(x) = dep[x].branch
        /\ BranchOf(x) \in Branches /\ TargetOf(x) \in {BranchOf(x), "production"}
    BY DEF PlaceInv, Stored, Row, BranchOf, TargetOf
  <2>7. sha' \in [Deployments -> Nat] /\ \A y \in Deployments \ {x} : sha'[y] = sha[y]
    BY <1>2, <2>6 DEF StartDeploy, Clone, Run, Provision, Publish, SwapIn, DeployFails, TrialFails,
       PlaceInv, Stored
  <2>8. container' \in [Targets -> Deployments \cup {NoDep}]
        /\ \A b \in Branches \ {BranchOf(x)} : container'[b] = container[b]
    <3>1. CASE SwapIn(x)
      <4>1. TargetOf(x) \in Targets /\ container[TargetOf(x)] \in Deployments \cup {NoDep}
        BY <2>6 DEF Targets, PlaceInv, Stored
      <4>2. PICK c \in Deployments \cup {NoDep} :
              container' = [container EXCEPT ![TargetOf(x)] = c]
        BY <3>1, <4>1 DEF SwapIn, Swapped
      <4>3. \A b \in Branches \ {BranchOf(x)} : b # TargetOf(x)
        BY <2>6, BranchAssumption
      <4>4. container \in [Targets -> Deployments \cup {NoDep}] /\ Branches \subseteq Targets
        BY DEF PlaceInv, Stored, Targets
      <4>5. container' \in [Targets -> Deployments \cup {NoDep}]
        BY <4>2, <4>4
      <4>6. \A b \in Branches \ {BranchOf(x)} : container'[b] = container[b]
        BY <4>2, <4>3, <4>4
      <4>7. QED
        BY <4>5, <4>6
    <3>2. CASE UNCHANGED container
      BY <3>2 DEF PlaceInv, Stored
    <3>3. QED
      BY <1>2, <3>1, <3>2 DEF StartDeploy, Clone, Run, Provision, Publish, DeployFails, TrialFails,
            host
  <2>9. volume' \in [Branches -> BOOLEAN]
        /\ \A b \in Branches \ {BranchOf(x)} : volume'[b] = volume[b]
    <3>1. CASE Run(x) \/ TrialFails(x)
      <4>1. volume' = [b \in Branches |-> volume[b] \/ b = TargetOf(x)]
        BY <3>1 DEF Run, TrialFails
      <4>2. \A b \in Branches \ {BranchOf(x)} : b # TargetOf(x)
        BY <2>6, BranchAssumption
      <4>3. \A b \in Branches : volume[b] \in BOOLEAN
        BY DEF PlaceInv, Stored
      <4>4. \A b \in Branches \ {BranchOf(x)} : volume'[b] = volume[b]
        BY <4>1, <4>2, <4>3
      <4>5. volume' \in [Branches -> BOOLEAN]
        BY <4>1, <4>3
      <4>6. QED
        BY <4>4, <4>5
    <3>2. CASE UNCHANGED volume
      BY <3>2 DEF PlaceInv, Stored
    <3>3. QED
      BY <1>2, <3>1, <3>2 DEF StartDeploy, Clone, SwapIn, Provision, Publish, DeployFails, host
  <2>10. vhost' \in [Branches -> BOOLEAN]
         /\ \A b \in Branches \ {BranchOf(x)} : vhost'[b] = vhost[b]
    <3>1. CASE Publish(x)
      BY <2>6, <3>1 DEF Publish, PlaceInv, Stored
    <3>2. CASE UNCHANGED vhost
      BY <3>2 DEF PlaceInv, Stored
    <3>3. QED
      BY <1>2, <3>1, <3>2 DEF StartDeploy, Clone, SwapIn, Provision, Run, DeployFails, TrialFails,
            host
  <2>17. stray \subseteq stray' /\ stray' \subseteq stray \cup {x} /\ stray' \subseteq Deployments
    BY <1>2 DEF StartDeploy, Clone, Run, Provision, Publish, SwapIn, DeployFails, TrialFails, host,
       PlaceInv, Stored
  <2>11. Stored'
    BY <2>17, <2>1, <2>4, <2>5, <2>7, <2>8, <2>9, <2>10 DEF PlaceInv, Stored
  <2>12. at'[x] # "none" /\ \A q \in Procs \ {x} : at'[q] = at[q]
    BY <2>2, <2>3 DEF PlaceInv, Typed
  <2>13. \A h \in Handlers \ {x} :
           /\ at'[h] = at[h] /\ env'[h] = env[h]
           /\ seen'[h] = seen[h] /\ (alone'[h] => alone[h])
    BY <2>1, <2>5, <2>12 DEF Procs
  <2>14. \A y \in Deployments : dep'[y] = dep[y] /\ (y # x => at'[y] = at[y])
    BY <2>1, <2>2, <2>12 DEF Procs, Busy
  <2>15. Works(x)
    BY <2>17, <2>1, <2>2, <2>7, <2>8, <2>9, <2>10, <2>12, <2>13, <2>14 DEF Works, Busy
  <2>16. QED
    BY <2>11, <2>15
<1>3. QED
  BY <1>1, <1>2 DEF Deploy

LEMMA DeleteWorks ==
    ASSUME PlaceInv, NEW h \in Handlers, HandleDelete(h) PROVE Works(h) /\ Stored'
<1>1. /\ at[h] \in {"lookup"} \cup Tearing
      /\ UNCHANGED <<head, alive, sent, env, event, dep, sha, stray>>
  BY DEF HandleDelete, Lookup, ListDomains, StopPreview, RemoveVolume, RemoveProxy,
     DeleteDomains, DeleteInstance, HostFails, Tearing, tables, github, handling, host
<1>2. at[h] \in HandlerBusy /\ at[h] # "idle" /\ h \in Procs /\ h \notin Deployments
  BY <1>1, IdAssumption DEF HandlerBusy, Tearing, Procs
<1>3. PICK label : at' = [at EXCEPT ![h] = label]
  BY DEF HandleDelete, Lookup, ListDomains, StopPreview, RemoveVolume, RemoveProxy,
     DeleteDomains, DeleteInstance, Goto
<1>4. BranchOf(h) \in Branches
  BY <1>2, KnownBranch
<1>5. failures' \in 0 .. MaxFailures
  BY FaultCounted DEF HandleDelete, Lookup, ListDomains, StopPreview, RemoveVolume, RemoveProxy,
     DeleteDomains, DeleteInstance, HostFails, NoFault, PlaceInv, Stored
<1>6. alone' \in [Handlers -> BOOLEAN] /\ \A g \in Handlers \ {h} : alone'[g] = alone[g]
  <2>1. \/ alone' = alone \/ alone' = [alone EXCEPT ![h] = FALSE]
        \/ alone' = [alone EXCEPT ![h] = BusyOn(BranchOf(h)) = {h}]
    BY DEF HandleDelete, Lookup, ListDomains, StopPreview, RemoveVolume, RemoveProxy,
       DeleteDomains, DeleteInstance, HostFails, handling
  <2>2. QED
    BY <2>1 DEF PlaceInv, Stored
<1>7. seen' \in [Handlers -> BOOLEAN] /\ \A g \in Handlers \ {h} : seen'[g] = seen[g]
  <2>1. seen' = seen \/ seen' = [seen EXCEPT ![h] = domain[BranchOf(h)]]
    BY DEF HandleDelete, Lookup, ListDomains, StopPreview, RemoveVolume, RemoveProxy,
       DeleteDomains, DeleteInstance, handling
  <2>2. domain[BranchOf(h)] \in BOOLEAN
    BY <1>4 DEF PlaceInv, Stored
  <2>3. QED
    BY <2>1, <2>2 DEF PlaceInv, Stored
<1>8. inst' \in [Branches -> {"none", "active", "deleted"}]
      /\ domain' \in [Branches -> BOOLEAN]
      /\ \A b \in Branches \ {BranchOf(h)} : domain'[b] = domain[b] /\ inst'[b] = inst[b]
  <2>1. /\ inst' = inst \/ inst' = [inst EXCEPT ![BranchOf(h)] = "deleted"]
        /\ domain' = domain \/ domain' = [domain EXCEPT ![BranchOf(h)] = FALSE]
    BY DEF HandleDelete, Lookup, ListDomains, StopPreview, RemoveVolume, RemoveProxy,
       DeleteDomains, DeleteInstance, tables
  <2>2. QED
    BY <1>4, <2>1 DEF PlaceInv, Stored
<1>9. /\ container' \in [Targets -> Deployments \cup {NoDep}]
      /\ volume' \in [Branches -> BOOLEAN] /\ vhost' \in [Branches -> BOOLEAN]
      /\ \A b \in Branches \ {BranchOf(h)} :
           container'[b] = container[b] /\ volume'[b] = volume[b] /\ vhost'[b] = vhost[b]
  <2>1. /\ container' = container \/ container' = [container EXCEPT ![BranchOf(h)] = NoDep]
        /\ \/ volume' = volume
           \/ volume' = [volume EXCEPT ![BranchOf(h)] = @ /\ Mounting(BranchOf(h)) # {}]
        /\ vhost' = vhost \/ vhost' = [vhost EXCEPT ![BranchOf(h)] = @ /\ ~seen[h]]
    BY DEF HandleDelete, Lookup, ListDomains, StopPreview, RemoveVolume, RemoveProxy,
       DeleteDomains, DeleteInstance, HostFails, host
  <2>2. container' \in [Targets -> Deployments \cup {NoDep}]
        /\ \A b \in Branches \ {BranchOf(h)} : container'[b] = container[b]
    BY <1>4, <2>1 DEF PlaceInv, Stored, Targets
  <2>3. volume' \in [Branches -> BOOLEAN]
        /\ \A b \in Branches \ {BranchOf(h)} : volume'[b] = volume[b]
    BY <1>4, <2>1 DEF PlaceInv, Stored
  <2>4. vhost' \in [Branches -> BOOLEAN]
        /\ \A b \in Branches \ {BranchOf(h)} : vhost'[b] = vhost[b]
    BY <1>4, <2>1 DEF PlaceInv, Stored
  <2>5. QED
    BY <2>2, <2>3, <2>4
<1>10. Stored'
  BY <1>1, <1>5, <1>6, <1>7, <1>8, <1>9 DEF PlaceInv, Stored
<1>11. \A q \in Procs \ {h} : at'[q] = at[q]
  BY <1>3 DEF PlaceInv, Typed
<1>12. \A g \in Handlers \ {h} : at'[g] = at[g]
  BY <1>11 DEF Procs
<1>13. \A x \in Deployments : at'[x] = at[x] /\ dep'[x] = dep[x]
  BY <1>1, <1>2, <1>11 DEF Procs
<1>14. Works(h)
  BY <1>1, <1>2, <1>6, <1>7, <1>8, <1>9, <1>12, <1>13 DEF Works, Busy
<1>15. QED
  BY <1>10, <1>14

\* A delivery begins, which disturbs the teardowns of its branch.
LEMMA ReceiveSets ==
    ASSUME PlaceInv, NEW h \in Handlers, Receive(h)
    PROVE  /\ at[h] = "idle" /\ DeliveryOf[h] \in DOMAIN sent /\ h \notin Deployments
           /\ Disturb(BranchOf(h))
           /\ \E label \in {"lookup", "skip", "over", "ensure", "claim"} :
                at' = [at EXCEPT ![h] = label]
           /\ UNCHANGED <<calm, seen, tables, sha, host>>
           /\ Stored' /\ Known'
<1>1. /\ at[h] = "idle" /\ DeliveryOf[h] \in DOMAIN sent /\ h \notin Deployments
      /\ Disturb(BranchOf(h)) /\ UNCHANGED <<calm, seen, tables, sha, host>>
  BY IdAssumption DEF Receive, BranchOf
<1>2. PICK label \in {"lookup", "skip", "over", "ensure", "claim"} :
        at' = [at EXCEPT ![h] = label]
  <2>1. \A b : TargetEnvs(b) \in SUBSET Envs
    BY DEF TargetEnvs, Envs
  <2>2. \A b : Advance(h, TargetEnvs(b), at) =>
          \E label \in {"over", "ensure", "claim"} : at' = [at EXCEPT ![h] = label]
    BY <2>1, AdvanceMoves DEF PlaceInv
  <2>3. QED
    BY <2>2 DEF Receive, Goto
<1>3. alone' \in [Handlers -> BOOLEAN]
  BY <1>1 DEF Disturb, PlaceInv, Stored
<1>4. Stored'
  BY <1>1, <1>3 DEF calm, github, tables, host, PlaceInv, Stored
<1>5. Known'
  <2>1. UNCHANGED <<sent, stray>>
    BY <1>1 DEF calm, github, host
  <2>2. \A x \in stray : at'[x] = at[x]
    BY <1>1, <1>2 DEF PlaceInv, Stored, Typed, Procs
  <2>3. \A g \in Handlers \ {h} : at'[g] = at[g]
    BY <1>2 DEF PlaceInv, Typed, Procs
  <2>4. QED
    BY <1>1, <2>1, <2>2, <2>3 DEF PlaceInv, Known
<1>6. QED
  BY <1>1, <1>2, <1>4, <1>5

Crashes == Crash \/ \E x \in Deployments : CrashInSwap(x)

\* A crash ends every process; a swap may be cut in half.
LEMMA CrashTyped == ASSUME PlaceInv, Crashes PROVE Stored' /\ Known'
<1>1. failures' \in 0 .. MaxFailures
  BY FaultCounted DEF Crashes, Crash, CrashInSwap, PlaceInv
<1>2. /\ at' = [p \in Procs |-> IF at[p] \in HandlerBusy \cup DeployBusy THEN "dead" ELSE at[p]]
      /\ UNCHANGED <<github, handling, tables, sha, vhost, volume>>
  BY DEF Crashes, Crash, CrashInSwap, Die
<1>3. container' \in [Targets -> Deployments \cup {NoDep}]
  <2>1. UNCHANGED container \/ \E x \in Deployments : Swapped(x, NoDep) \/ Swapped(x, x)
    BY DEF Crashes, Crash, CrashInSwap
  <2>2. QED
    BY <2>1 DEF Swapped, PlaceInv, Stored
<1>4. \A x \in stray' : x \in Deployments /\ (x \in stray \/ at[x] \in {"swap"} \cup Trying)
  BY DEF Crashes, Crash, CrashInSwap, PlaceInv, Stored
<1>5. Stored'
  BY <1>1, <1>2, <1>3, <1>4 DEF github, handling, tables, PlaceInv, Stored
<1>6. \A h \in Handlers : at'[h] # "idle" => at[h] # "idle"
  BY <1>2 DEF Procs, HandlerBusy, Tearing, Ensuring, DeployBusy, Slotted
<1>7. \A x \in stray' : at[x] # "none"
  BY <1>4 DEF Trying, PlaceInv, Known
<1>8. \A x \in stray' : at'[x] # "none"
  BY <1>2, <1>4, <1>7 DEF Procs
<1>9. Known'
  BY <1>2, <1>6, <1>8 DEF github, PlaceInv, Known
<1>10. QED
  BY <1>5, <1>9

LEMMA InitialPlaces == Init => PlaceInv
<1> SUFFICES ASSUME Init PROVE PlaceInv
  OBVIOUS
<1>1. [delivery |-> 0, env |-> "preview", branch |-> Main] \in Row
  BY BranchAssumption DEF Row, Envs
<1>2. sent \in Seq(Content)
  BY DEF Init
<1>3. failures \in 0 .. MaxFailures
  BY ConfigAssumption DEF Init
<1>4. Stored
  BY <1>1, <1>2, <1>3 DEF Init, Stored
<1>5. Known
  BY DEF Init, Known, Procs
<1>6. QED
  BY <1>4, <1>5, InitialDeliveries DEF PlaceInv, DeliveryInv

\* What the type and claim invariants say together, and every step of it.
LEMMA HandlePushWorks ==
    ASSUME PlaceInv, NEW h \in Handlers, HandlePush(h) PROVE Works(h) /\ Stored'
BY EnsureWorks, SkipWorks, ClaimWorks, CreateWorks, MarkFailedWorks, MarkWorks
   DEF HandlePush, Procs

LEMMA PlaceInvInductive == DeliveryInv /\ PlaceInv /\ [Next]_vars => PlaceInv'
<1> SUFFICES ASSUME DeliveryInv, PlaceInv, [Next]_vars PROVE PlaceInv'
  OBVIOUS
<1>1. Typed'
  BY DeliveryInvInductive DEF DeliveryInv
<1>2. CASE UNCHANGED vars
  BY <1>1, <1>2 DEF PlaceInv, Stored, Known, vars, calm, github, handling, tables, host
<1>3. ASSUME NEW p \in Procs, Works(p), Stored' PROVE PlaceInv'
  BY <1>1, <1>3, WorksKnown DEF PlaceInv
<1>4. ASSUME NEW b \in Branches, Push(b) \/ DeleteBranch(b) PROVE PlaceInv'
  BY <1>1, <1>4, PushTyped DEF PlaceInv
<1>5. ASSUME NEW h \in Handlers, Receive(h) PROVE PlaceInv'
  BY <1>1, <1>5, ReceiveSets DEF PlaceInv
<1>6. CASE Crashes
  BY <1>1, <1>6, CrashTyped DEF PlaceInv
<1>7. ASSUME NEW h \in Handlers, HandlePush(h) \/ HandleDelete(h) PROVE PlaceInv'
  BY <1>3, <1>7, HandlePushWorks, DeleteWorks DEF Procs
<1>8. ASSUME NEW x \in Deployments, Deploy(x) PROVE PlaceInv'
  BY <1>3, <1>8, DeployWorks DEF Procs
<1>9. QED
  BY <1>2, <1>4, <1>5, <1>6, <1>7, <1>8 DEF Next, Crashes

LEMMA PlaceInvHolds == Spec => [](DeliveryInv /\ PlaceInv)
BY InitialDeliveries, InitialPlaces, DeliveryInvInductive, PlaceInvInductive, PTL DEF Spec

(* Every variable has its type: the tables, the places of handlers and     *)
(* deployments, and what Docker and the proxy hold.                        *)
THEOREM PreviewTypes == Spec => []TypeOK
<1>1. DeliveryInv /\ PlaceInv => TypeOK
  BY DEF PlaceInv, Typed, Stored, TypeOK, Labels, Statuses, Content, Row
<1>2. QED
  BY <1>1, PlaceInvHolds, PTL

-----------------------------------------------------------------------------
(* A teardown that nothing disturbs.                                       *)

\* While the branch is a teardown's own, nobody else is busy with it, and what
\* the teardown has removed stays removed.
OwnBranch(h) == \A p \in Procs : at[p] \in Busy /\ BranchOf(p) = BranchOf(h) => p = h
Removed(h) ==
    /\ at[h] \in {"volume", "proxy", "forget", "delete"} => container[BranchOf(h)] = NoDep
    /\ at[h] \in {"proxy", "forget", "delete"} /\ volume[BranchOf(h)] => Strays(BranchOf(h)) # {}
    /\ at[h] \in {"forget", "delete"} => (seen[h] => ~vhost[BranchOf(h)])
    /\ at[h] = "delete" => ~domain[BranchOf(h)]
TearInv == \A h \in Handlers : at[h] \in Tearing /\ alone[h] => OwnBranch(h) /\ Removed(h)

\* Nobody who works becomes busy with the branch of another.
LEMMA OwnBranchKept ==
    ASSUME PlaceInv, NEW h \in Handlers, at[h] \in Busy, OwnBranch(h),
           NEW p \in Procs, Works(p), BranchOf(p) # BranchOf(h)
    PROVE  OwnBranch(h)' /\ BranchOf(h)' = BranchOf(h)
<1>1. h \notin Deployments /\ h \in Procs /\ at[p] # "idle"
  BY IdAssumption DEF Procs, Works, Busy, HandlerBusy, Tearing, Ensuring, DeployBusy, Slotted
<1>2. \A g \in Handlers : g \notin Deployments /\ BranchOf(g)' = BranchOf(g)
  BY IdAssumption DEF Works, BranchOf
<1>3. ASSUME NEW q \in Procs, at'[q] \in Busy, BranchOf(q)' = BranchOf(h) PROVE q = h
  <2>1. CASE q \in Handlers
    BY <1>1, <1>2, <1>3, <2>1 DEF Works, OwnBranch
  <2>2. CASE q \in Deployments /\ dep'[q] = dep[q] /\ at[q] \in Busy
    BY <1>1, <1>3, <2>2 DEF BranchOf, OwnBranch
  <2>3. CASE q \in Deployments /\ at[q] = "none" /\ dep'[q].branch = BranchOf(p)
    BY <1>3, <2>3 DEF BranchOf
  <2>4. "created" \in Busy
    BY DEF Busy, DeployBusy
  <2>5. QED
    BY <1>3, <2>1, <2>2, <2>3, <2>4 DEF Works, Procs
<1>4. QED
  BY <1>2, <1>3 DEF OwnBranch

\* A step of somebody else leaves a teardown alone, or disturbs it.
LEMMA OthersKeepTeardown ==
    ASSUME PlaceInv, TearInv, NEW p \in Procs, Works(p), NEW h \in Handlers, h # p,
           at'[h] \in Tearing, alone'[h]
    PROVE  OwnBranch(h)' /\ Removed(h)'
<1>1. at'[h] = at[h] /\ seen'[h] = seen[h] /\ alone[h]
  BY DEF Works
<1>2. OwnBranch(h) /\ Removed(h)
  BY <1>1 DEF TearInv
<1>3. BranchOf(p) # BranchOf(h)
  BY <1>2 DEF OwnBranch, Works
<1>4. at[h] \in Busy /\ at[h] # "idle" /\ h \in Procs
  BY <1>1 DEF Busy, HandlerBusy, Tearing, Procs
<1>5. OwnBranch(h)' /\ BranchOf(h)' = BranchOf(h)
  BY <1>2, <1>3, <1>4, OwnBranchKept
<1>6. BranchOf(h) \in Branches
  BY <1>4, KnownBranch
<1>7. Removed(h)'
  BY <1>1, <1>2, <1>3, <1>5, <1>6, StraysStay DEF Removed, Works
<1>8. QED
  BY <1>5, <1>7

\* A deployment at work whose container mounts the volume is busy with the branch.
LEMMA NothingMounted ==
    ASSUME PlaceInv, NEW h \in Handlers, OwnBranch(h), at[h] = "volume",
           container[BranchOf(h)] = NoDep
    PROVE  Mounting(BranchOf(h)) = Strays(BranchOf(h))
<1> SUFFICES ASSUME NEW x \in Deployments, x \in Mounting(BranchOf(h)),
                    x \notin Strays(BranchOf(h))
             PROVE FALSE
  BY DEF Mounting
<1>1. x # NoDep /\ x # h /\ x \in Procs
  BY IdAssumption DEF Procs
<1>2. BranchOf(h) \in Branches
  BY KnownBranch DEF Procs
<1>3. at[x] \in {"provision", "publish", "swap"} /\ TargetOf(x) = BranchOf(h)
  BY <1>1 DEF Mounting, Trying
<1>4. BranchOf(x) = BranchOf(h)
  BY <1>2, <1>3, BranchAssumption DEF TargetOf, BranchOf
<1>5. at[x] \in Busy
  BY <1>3 DEF Busy, DeployBusy, Slotted
<1>6. QED
  BY <1>1, <1>4, <1>5 DEF OwnBranch

\* The teardown itself.
LEMMA TeardownStep ==
    ASSUME PlaceInv, TearInv, NEW h \in Handlers, HandleDelete(h), at'[h] \in Tearing, alone'[h]
    PROVE  OwnBranch(h)' /\ Removed(h)'
<1>1. /\ at[h] \in {"lookup"} \cup Tearing /\ UNCHANGED <<sent, dep, stray>>
      /\ h \in Procs /\ h \notin Deployments /\ at[h] # "idle"
  BY IdAssumption DEF HandleDelete, Lookup, ListDomains, StopPreview, RemoveVolume, RemoveProxy,
     DeleteDomains, DeleteInstance, HostFails, Tearing, tables, github, host, Procs
<1>2. PICK label : at' = [at EXCEPT ![h] = label]
  BY DEF HandleDelete, Lookup, ListDomains, StopPreview, RemoveVolume, RemoveProxy,
     DeleteDomains, DeleteInstance, Goto
<1>3. /\ at'[h] = label /\ \A q \in Procs \ {h} : at'[q] = at[q]
      /\ \A q \in Procs : BranchOf(q)' = BranchOf(q)
      /\ Strays(BranchOf(h))' = Strays(BranchOf(h))
  BY <1>1, <1>2 DEF PlaceInv, Typed, BranchOf, Strays, TargetOf
<1>4. OwnBranch(h) => OwnBranch(h)'
  BY <1>1, <1>3 DEF OwnBranch, Busy, HandlerBusy, Tearing
<1>5. BranchOf(h) \in Branches /\ BranchOf(h) \in Targets
  BY <1>1, KnownBranch DEF Targets
<1>6. CASE Lookup(h)
  <2>1. /\ at'[h] \in {"list", "over"}
        /\ alone' = [alone EXCEPT ![h] = BusyOn(BranchOf(h)) = {h}]
    BY <1>1, <1>6 DEF Lookup, Goto, PlaceInv, Typed
  <2>2. at'[h] = "list" /\ BusyOn(BranchOf(h)) = {h}
    BY <2>1 DEF Tearing, PlaceInv, Stored
  <2>3. OwnBranch(h)
    BY <2>2 DEF BusyOn, OwnBranch, Busy
  <2>4. QED
    BY <1>4, <2>2, <2>3 DEF Removed
<1>7. CASE ~Lookup(h)
  <2>1. alone[h] /\ UNCHANGED alone
    <3>1. UNCHANGED alone \/ alone' = [alone EXCEPT ![h] = FALSE]
      BY <1>7 DEF HandleDelete, ListDomains, StopPreview, RemoveVolume, RemoveProxy,
         DeleteDomains, DeleteInstance, HostFails, handling
    <3>2. alone' # [alone EXCEPT ![h] = FALSE]
      BY DEF PlaceInv, Stored
    <3>3. QED
      BY <3>1, <3>2
  <2>2. at[h] \in Tearing
    BY <1>7 DEF HandleDelete, ListDomains, StopPreview, RemoveVolume, RemoveProxy,
       DeleteDomains, DeleteInstance, Tearing
  <2>3. OwnBranch(h) /\ Removed(h)
    BY <2>1, <2>2 DEF TearInv
  <2>4. CASE ListDomains(h)
    <3>1. at'[h] = "stop"
      BY <1>1, <2>1, <2>4 DEF ListDomains, Goto, Tearing, PlaceInv, Typed
    <3>2. QED
      BY <1>4, <2>3, <3>1 DEF Removed
  <2>5. CASE StopPreview(h)
    <3>1. at'[h] = "volume" /\ container' = [container EXCEPT ![BranchOf(h)] = NoDep]
      BY <1>1, <2>1, <2>5 DEF StopPreview, HostFails, Goto, PlaceInv, Stored, Typed
    <3>2. container'[BranchOf(h)] = NoDep
      BY <1>5, <3>1 DEF PlaceInv, Stored
    <3>3. QED
      BY <1>1, <1>3, <1>4, <2>3, <3>1, <3>2 DEF Removed
  <2>6. CASE RemoveVolume(h)
    <3>1. /\ at[h] = "volume" /\ at'[h] = "proxy" /\ UNCHANGED container
          /\ volume' = [volume EXCEPT ![BranchOf(h)] = @ /\ Mounting(BranchOf(h)) # {}]
      BY <1>1, <2>6 DEF RemoveVolume, HostFails, Goto, PlaceInv, Stored, Typed
    <3>2. container[BranchOf(h)] = NoDep
      BY <2>3, <3>1 DEF Removed
    <3>3. Mounting(BranchOf(h)) = Strays(BranchOf(h))
      BY <2>3, <3>1, <3>2, NothingMounted
    <3>4. volume'[BranchOf(h)] => Strays(BranchOf(h)) # {}
      BY <1>5, <3>1, <3>3 DEF PlaceInv, Stored
    <3>5. QED
      BY <1>1, <1>3, <1>4, <2>3, <3>1, <3>2, <3>4 DEF Removed
  <2>7. CASE RemoveProxy(h)
    <3>1. /\ at[h] = "proxy" /\ at'[h] = "forget" /\ UNCHANGED <<container, volume, seen>>
          /\ vhost' = [vhost EXCEPT ![BranchOf(h)] = @ /\ ~seen[h]]
      BY <1>1, <2>7 DEF RemoveProxy, HostFails, Goto, PlaceInv, Stored, Typed
    <3>2. seen'[h] => ~vhost'[BranchOf(h)]
      BY <1>5, <3>1 DEF PlaceInv, Stored
    <3>3. QED
      BY <1>1, <1>3, <1>4, <2>3, <3>1, <3>2 DEF Removed
  <2>8. CASE DeleteDomains(h)
    <3>1. /\ at[h] = "forget" /\ at'[h] = "delete" /\ UNCHANGED <<container, volume, vhost, seen>>
          /\ domain' = [domain EXCEPT ![BranchOf(h)] = FALSE]
      BY <1>1, <2>8 DEF DeleteDomains, Goto, PlaceInv, Typed, handling, host, Tearing
    <3>2. ~domain'[BranchOf(h)]
      BY <1>5, <3>1 DEF PlaceInv, Stored
    <3>3. QED
      BY <1>1, <1>3, <1>4, <2>3, <3>1, <3>2 DEF Removed
  <2>9. CASE DeleteInstance(h)
    <3>1. at'[h] = "over"
      BY <1>1, <2>9 DEF DeleteInstance, Goto, PlaceInv, Typed
    <3>2. QED
      BY <3>1 DEF Tearing
  <2>10. QED
    BY <1>7, <2>4, <2>5, <2>6, <2>7, <2>8, <2>9 DEF HandleDelete
<1>8. QED
  BY <1>6, <1>7

\* No other step of a handler begins a teardown.
LEMMA EnsureAt ==
    ASSUME PlaceInv, NEW p \in Procs, Ensure(p)
    PROVE  \E label \in {"insert", "reactivate", "domain", "newdomain", "claim", "clone", "failed",
                         "over", "ensure"} : at' = [at EXCEPT ![p] = label]
<1>1. NotEnsured(p) => \E label \in {"over", "ensure", "claim", "failed"} :
                         at' = [at EXCEPT ![p] = label]
  BY NextTargetAt DEF NotEnsured, Goto, PlaceInv
<1>2. Ensured(p) => \E label \in {"claim", "clone"} : at' = [at EXCEPT ![p] = label]
  BY DEF Ensured, Goto
<1>3. CASE FindInstance(p)
  BY <1>1, <1>3 DEF FindInstance, EnsureFails, Onward, Goto
<1>4. CASE Reactivate(p)
  BY <1>1, <1>4 DEF Reactivate, EnsureFails, Onward, Goto
<1>5. CASE InsertInstance(p)
  BY <1>1, <1>5 DEF InsertInstance, EnsureFails, Onward, Goto
<1>6. CASE FindDomain(p) \/ CreateDomain(p)
  BY <1>1, <1>2, <1>6 DEF FindDomain, CreateDomain, EnsureFails, Onward, Goto
<1>7. QED
  BY <1>3, <1>4, <1>5, <1>6 DEF Ensure

LEMMA PushTearsNothing ==
    ASSUME PlaceInv, NEW h \in Handlers, HandlePush(h) PROVE at'[h] \notin Tearing
<1>1. h \in Procs /\ h \notin Deployments /\ Typed /\ todo[h] \in SUBSET Envs
  BY IdAssumption DEF PlaceInv, Typed, Procs
<1>2. CASE Ensure(h)
  BY <1>1, <1>2, EnsureAt DEF Tearing, Typed
<1>3. CASE SkipFiltered(h)
  BY <1>1, <1>3 DEF SkipFiltered, Goto, Tearing, Typed
<1>4. CASE Claim(h) \/ CreateDeployment(h) \/ MarkFailed(h)
  <2>1. CASE NextTarget(h)
    BY <1>1, <2>1, NextTargetAt DEF Tearing, Typed
  <2>2. CASE Onward(h, "create") \/ Onward(h, "refuse")
    BY <1>1, <2>2 DEF Onward, Goto, Tearing, Typed
  <2>3. ASSUME NEW x \in Deployments, Insert(h, x) PROVE at'[h] \notin Tearing
    BY <1>1, <2>3 DEF Insert, Tearing, Typed
  <2>4. QED
    BY <1>4, <2>1, <2>2, <2>3 DEF Claim, CreateDeployment, MarkFailed
<1>5. CASE MarkProcessed(h)
  <2> DEFINE now == [p \in Procs |-> IF p \in Dispatched(h) THEN "queued" ELSE at[p]]
  <2>1. Advance(h, todo[h], now) /\ DOMAIN now = Procs
    BY <1>5 DEF MarkProcessed
  <2> HIDE DEF now
  <2>2. \E label \in {"over", "ensure", "claim"} : at' = [now EXCEPT ![h] = label]
    BY <1>1, <2>1, AdvanceMoves
  <2>3. QED
    BY <1>1, <2>1, <2>2 DEF Tearing
<1>6. QED
  BY <1>2, <1>3, <1>4, <1>5 DEF HandlePush

\* Deliveries are only appended, so that a handler keeps its branch.
LEMMA AppendKeepsBranch ==
    ASSUME PlaceInv, NEW b \in Branches, Push(b) \/ DeleteBranch(b)
    PROVE  /\ \A p \in Procs : at[p] # "idle" => BranchOf(p)' = BranchOf(p)
           /\ UNCHANGED <<at, seen, alone, dep, container, stray, volume, vhost, domain, inst>>
<1>1. PICK c : sent' = Append(sent, c)
  BY DEF Push, DeleteBranch
<1>2. UNCHANGED <<at, seen, alone, dep, container, stray, volume, vhost, domain, inst>>
  BY DEF Push, DeleteBranch, handling, tables, host
<1>3. \A d \in DOMAIN sent : sent'[d] = sent[d]
  BY <1>1 DEF PlaceInv, Stored
<1>4. QED
  BY <1>2, <1>3 DEF BranchOf, PlaceInv, Known, Procs

LEMMA TearInvInductive == DeliveryInv /\ PlaceInv /\ TearInv /\ [Next]_vars => TearInv'
<1> SUFFICES ASSUME DeliveryInv, PlaceInv, TearInv, [Next]_vars,
                    NEW h \in Handlers, at'[h] \in Tearing, alone'[h]
             PROVE  OwnBranch(h)' /\ Removed(h)'
  BY DEF TearInv
<1>1. h \in Procs /\ h \notin Deployments
  BY IdAssumption DEF Procs
<1>2. ASSUME NEW p \in Procs, Works(p), p # h PROVE OwnBranch(h)' /\ Removed(h)'
  BY <1>2, OthersKeepTeardown
<1>3. ASSUME NEW b \in Branches, Push(b) \/ DeleteBranch(b) PROVE OwnBranch(h)' /\ Removed(h)'
  <2>1. /\ \A p \in Procs : at[p] # "idle" => BranchOf(p)' = BranchOf(p)
        /\ UNCHANGED <<at, seen, alone, dep, container, stray, volume, vhost, domain>>
    BY <1>3, AppendKeepsBranch
  <2>2. OwnBranch(h) /\ Removed(h)
    BY <2>1 DEF TearInv
  <2>3. \A p \in Procs : at[p] \in Busy => at[p] # "idle"
    BY DEF Busy, HandlerBusy, Tearing, Ensuring, DeployBusy, Slotted
  <2>4. BranchOf(h)' = BranchOf(h)
    BY <1>1, <2>1 DEF Tearing
  <2>5. QED
    BY <2>1, <2>2, <2>3, <2>4 DEF OwnBranch, Removed, Strays, TargetOf
<1>4. ASSUME NEW g \in Handlers, Receive(g) PROVE OwnBranch(h)' /\ Removed(h)'
  <2>1. /\ at[g] = "idle" /\ DeliveryOf[g] \in DOMAIN sent /\ g \notin Deployments
        /\ Disturb(BranchOf(g))
        /\ UNCHANGED <<sent, seen, dep, container, stray, volume, vhost, domain>>
    BY <1>4, ReceiveSets DEF calm, github, tables, host
  <2>2. PICK label \in {"lookup", "skip", "over", "ensure", "claim"} :
          at' = [at EXCEPT ![g] = label]
    BY <1>4, ReceiveSets
  <2>3. g # h /\ at[h] = at'[h]
    BY <1>1, <2>2 DEF Tearing, PlaceInv, Typed, Procs
  <2>4. alone[h] /\ BranchOf(g) # BranchOf(h)
    <3>1. DeliveryOf[h] \in DOMAIN sent
      BY <2>3 DEF PlaceInv, Known, Tearing
    <3>2. QED
      BY <1>1, <2>1, <3>1 DEF Disturb, BranchOf
  <2>5. OwnBranch(h) /\ Removed(h)
    BY <2>3, <2>4 DEF TearInv
  <2>6. \A p \in Procs : BranchOf(p)' = BranchOf(p) /\ (p # g => at'[p] = at[p])
    BY <2>1, <2>2 DEF BranchOf, PlaceInv, Typed
  <2>7. QED
    BY <1>1, <2>1, <2>3, <2>4, <2>5, <2>6 DEF OwnBranch, Removed, Strays, TargetOf
<1>5. CASE Crashes
  BY <1>1, <1>5 DEF Crashes, Crash, CrashInSwap, Die, HandlerBusy, Tearing
<1>6. ASSUME NEW g \in Handlers, HandlePush(g) PROVE OwnBranch(h)' /\ Removed(h)'
  BY <1>2, <1>6, HandlePushWorks, PushTearsNothing DEF Procs
<1>7. ASSUME NEW g \in Handlers, HandleDelete(g) PROVE OwnBranch(h)' /\ Removed(h)'
  BY <1>2, <1>7, DeleteWorks, TeardownStep DEF Procs
<1>8. ASSUME NEW x \in Deployments, Deploy(x) PROVE OwnBranch(h)' /\ Removed(h)'
  BY <1>1, <1>2, <1>8, DeployWorks DEF Procs
<1>9. CASE UNCHANGED vars
  BY <1>9 DEF vars, calm, github, handling, tables, host, TearInv, OwnBranch, Removed, BranchOf,
     Strays, TargetOf
<1>10. QED
  BY <1>3, <1>4, <1>5, <1>6, <1>7, <1>8, <1>9 DEF Next, Crashes

LEMMA TearInvHolds == Spec => [](DeliveryInv /\ PlaceInv /\ TearInv)
<1>1. Init => TearInv
  BY DEF Init, TearInv, Procs, Tearing
<1>2. QED
  BY <1>1, PlaceInvHolds, TearInvInductive, PTL DEF Spec

\* The last step of a teardown.
LEMMA TeardownEnds ==
    ASSUME PlaceInv, TearInv, [Next]_vars,
           NEW h \in Handlers, at[h] = "delete", at'[h] = "over", alone[h]
    PROVE  LET b == BranchOf(h) IN
           /\ container[b] = NoDep /\ ~domain[b]
           /\ Strays(b) = {} => ~volume[b]
           /\ seen[h] => ~vhost[b]
BY DEF TearInv, Removed, Tearing

(* A teardown of a deleted branch that nothing else touched removes what   *)
(* it looked up, whatever failed before it and whatever failed in another  *)
(* branch (teardownPreviewInstance); of the volume this holds if no trial  *)
(* container that a crash or a failed clean-up left behind mounts it.      *)
THEOREM TeardownIsClean == Spec => TeardownLeavesNothing
<1>1. PlaceInv /\ TearInv /\ [Next]_vars =>
        [\A h \in Handlers :
           at[h] = "delete" /\ at'[h] = "over" /\ alone[h] =>
              LET b == BranchOf(h) IN
              /\ container[b] = NoDep /\ ~domain[b]
              /\ Strays(b) = {} => ~volume[b]
              /\ seen[h] => ~vhost[b]]_vars
  BY TeardownEnds
<1>2. QED
  BY <1>1, TearInvHolds, PTL DEF Spec, TeardownLeavesNothing

-----------------------------------------------------------------------------
(* A teardown reads the domains of its preview from the table: a vhost     *)
(* whose row is gone is not found.  Rows and vhosts agree at rest as long  *)
(* as no statement fails and the process lives.                            *)

StatementsSucceed == Faults \subseteq {"host", "build"}

\* An active preview has its domain, or somebody is about to make or delete a row.
HasDomain(b) ==
    inst[b] = "active" /\ ~domain[b] =>
       \E p \in Procs : at[p] \in {"domain", "newdomain", "delete"} /\ BranchOf(p) = b
Found(h) ==
    at[h] \in Tearing /\ alone[h] => IF at[h] = "list" THEN domain[BranchOf(h)] ELSE seen[h]
FoundInv == (\A b \in Branches : HasDomain(b)) /\ (\A h \in Handlers : Found(h))

LEMMA NoStatementFails ==
    ASSUME StatementsSucceed PROVE ~Fault("db") /\ ~Fault("crash")
BY DEF StatementsSucceed, Fault

\* A step that leaves the rows of a branch alone, by nobody who owes them one.
LEMMA RowsUntouched ==
    ASSUME PlaceInv, NEW p \in Procs, Works(p), NEW b \in Branches, HasDomain(b),
           inst'[b] = inst[b], domain'[b] = domain[b],
           BranchOf(p) # b \/ at[p] \notin {"domain", "newdomain", "delete"}
    PROVE  HasDomain(b)'
<1> SUFFICES ASSUME inst[b] = "active", ~domain[b]
             PROVE  \E q \in Procs : /\ at'[q] \in {"domain", "newdomain", "delete"}
                                     /\ BranchOf(q)' = b
  BY DEF HasDomain
<1>1. PICK q \in Procs : at[q] \in {"domain", "newdomain", "delete"} /\ BranchOf(q) = b
  BY DEF HasDomain
<1>2. q # p
  BY <1>1
<1>3. CASE q \in Handlers
  <2>1. at'[q] = at[q] /\ BranchOf(q)' = BranchOf(q)
    BY <1>2, <1>3, IdAssumption DEF Works, BranchOf
  <2>2. QED
    BY <1>1, <2>1
<1>4. CASE q \in Deployments
  <2>1. at'[q] = at[q] /\ dep'[q] = dep[q]
    BY <1>1, <1>2, <1>4 DEF Works
  <2>2. BranchOf(q)' = BranchOf(q)
    BY <1>4, <2>1 DEF BranchOf
  <2>3. QED
    BY <1>1, <2>1, <2>2
<1>5. QED
  BY <1>3, <1>4 DEF Procs

LEMMA EnsureKeepsDomains ==
    ASSUME PlaceInv, StatementsSucceed, NEW p \in Procs, Ensure(p),
           NEW b \in Branches, HasDomain(b)
    PROVE  HasDomain(b)'
<1>1. Works(p)
  BY EnsureWorks
<1>2. at[p] # "idle" /\ p \in Procs
  BY <1>1 DEF Works, Busy, HandlerBusy, Tearing, Ensuring, DeployBusy, Slotted
<1>3. BranchOf(p) \in Branches
  BY <1>2, KnownBranch
<1>4. CASE BranchOf(p) # b
  BY <1>1, <1>4, RowsUntouched DEF Works
<1>5. CASE BranchOf(p) = b
  <2>1. ASSUME at'[p] \in {"domain", "newdomain"} PROVE HasDomain(b)'
    <3>1. BranchOf(p)' = BranchOf(p)
      <4>1. CASE p \in Handlers
        BY <1>1, <4>1, IdAssumption DEF Works, BranchOf
      <4>2. CASE p \in Deployments
        <5>1. dep'[p] = dep[p]
          BY <1>1, <4>2 DEF Works
        <5>2. QED
          BY <4>2, <5>1 DEF BranchOf
      <4>3. QED
        BY <4>1, <4>2 DEF Procs
    <3>2. QED
      BY <1>5, <2>1, <3>1 DEF HasDomain
  <2>2. CASE FindInstance(p)
    BY <1>1, <2>2, RowsUntouched DEF FindInstance, tables
  <2>3. CASE Reactivate(p)
    <3>1. at'[p] = "domain"
      BY <1>2, <2>3, NoStatementFails DEF Reactivate, EnsureFails, Onward, Goto, PlaceInv, Typed
    <3>2. QED
      BY <2>1, <3>1
  <2>4. CASE InsertInstance(p)
    <3>1. CASE Onward(p, "domain")
      <4>1. at'[p] = "domain"
        BY <1>2, <3>1 DEF Onward, Goto, PlaceInv, Typed
      <4>2. QED
        BY <2>1, <4>1
    <3>2. CASE UNCHANGED inst
      BY <1>1, <2>4, <3>2, RowsUntouched DEF InsertInstance
    <3>3. QED
      BY <2>4, <3>1, <3>2, NoStatementFails DEF InsertInstance, EnsureFails
  <2>5. CASE FindDomain(p)
    <3>1. CASE domain[b]
      BY <2>5, <3>1 DEF FindDomain, tables, HasDomain
    <3>2. CASE ~domain[b]
      <4>1. at'[p] = "newdomain"
        BY <1>2, <1>5, <2>5, <3>2, NoStatementFails DEF FindDomain, EnsureFails, Onward, Goto,
           PlaceInv, Typed
      <4>2. QED
        BY <2>1, <4>1
    <3>3. QED
      BY <3>1, <3>2
  <2>6. CASE CreateDomain(p)
    <3>1. domain'[b]
      BY <1>5, <2>6, NoStatementFails DEF CreateDomain, EnsureFails, PlaceInv, Stored
    <3>2. QED
      BY <3>1 DEF HasDomain
  <2>7. QED
    BY <2>2, <2>3, <2>4, <2>5, <2>6 DEF Ensure
<1>6. QED
  BY <1>4, <1>5

LEMMA TeardownKeepsDomains ==
    ASSUME PlaceInv, StatementsSucceed, NEW h \in Handlers, HandleDelete(h),
           NEW b \in Branches, HasDomain(b)
    PROVE  HasDomain(b)'
<1>1. Works(h) /\ h \in Procs /\ h \notin Deployments
  BY DeleteWorks, IdAssumption DEF Procs
<1>2. BranchOf(h)' = BranchOf(h)
  BY <1>1 DEF Works, BranchOf
<1>3. CASE BranchOf(h) # b
  BY <1>1, <1>3, RowsUntouched DEF Works
<1>4. CASE Lookup(h) \/ ListDomains(h) \/ StopPreview(h) \/ RemoveVolume(h) \/ RemoveProxy(h)
  <2>1. /\ at[h] \notin {"domain", "newdomain", "delete"}
        /\ UNCHANGED <<inst, domain>>
    BY <1>4 DEF Lookup, ListDomains, StopPreview, RemoveVolume, RemoveProxy, tables
  <2>2. QED
    BY <1>1, <2>1, RowsUntouched
<1>5. CASE BranchOf(h) = b /\ DeleteDomains(h)
  <2>1. at'[h] = "delete"
    BY <1>1, <1>5, NoStatementFails DEF DeleteDomains, Goto, PlaceInv, Typed
  <2>2. QED
    BY <1>1, <1>2, <1>5, <2>1 DEF HasDomain
<1>6. CASE BranchOf(h) = b /\ DeleteInstance(h)
  <2>1. inst'[b] = "deleted"
    BY <1>6, NoStatementFails DEF DeleteInstance, PlaceInv, Stored
  <2>2. QED
    BY <2>1 DEF HasDomain
<1>7. QED
  BY <1>3, <1>4, <1>5, <1>6 DEF HandleDelete

\* Everybody else leaves the rows alone.
LEMMA ReadersKeepDomains ==
    ASSUME PlaceInv, NEW p \in Procs, Works(p), UNCHANGED <<inst, domain>>,
           at[p] \notin {"domain", "newdomain", "delete"}, NEW b \in Branches, HasDomain(b)
    PROVE  HasDomain(b)'
BY RowsUntouched

LEMMA DomainsKept ==
    ASSUME DeliveryInv, PlaceInv, StatementsSucceed, [Next]_vars, NEW b \in Branches, HasDomain(b)
    PROVE  HasDomain(b)'
<1>1. ASSUME NEW c \in Branches, Push(c) \/ DeleteBranch(c) PROVE HasDomain(b)'
  <2>1. /\ \A p \in Procs : at[p] # "idle" => BranchOf(p)' = BranchOf(p)
        /\ UNCHANGED <<at, domain, inst>>
    BY <1>1, AppendKeepsBranch
  <2>2. QED
    BY <2>1 DEF HasDomain
<1>2. ASSUME NEW g \in Handlers, Receive(g) PROVE HasDomain(b)'
  <2>1. at[g] = "idle" /\ UNCHANGED <<sent, dep, domain, inst>>
    BY <1>2, ReceiveSets DEF calm, github, tables
  <2>2. \E label : at' = [at EXCEPT ![g] = label]
    BY <1>2, ReceiveSets
  <2>3. \A p \in Procs : BranchOf(p)' = BranchOf(p) /\ (p # g => at'[p] = at[p])
    BY <2>1, <2>2 DEF BranchOf, PlaceInv, Typed
  <2>4. QED
    BY <2>1, <2>3 DEF HasDomain
<1>3. ~Crashes
  BY NoStatementFails DEF Crashes, Crash, CrashInSwap
<1>4. ASSUME NEW h \in Handlers, HandlePush(h) PROVE HasDomain(b)'
  <2>1. CASE Ensure(h)
    BY <2>1, EnsureKeepsDomains DEF Procs
  <2>2. CASE SkipFiltered(h) \/ Claim(h) \/ CreateDeployment(h) \/ MarkFailed(h) \/ MarkProcessed(h)
    <3>1. at[h] \notin {"domain", "newdomain", "delete"} /\ UNCHANGED <<inst, domain>>
      BY <2>2 DEF SkipFiltered, Claim, CreateDeployment, MarkFailed, MarkProcessed
    <3>2. Works(h) /\ h \in Procs
      BY <1>4, HandlePushWorks DEF Procs
    <3>3. QED
      BY <3>1, <3>2, ReadersKeepDomains
  <2>3. QED
    BY <1>4, <2>1, <2>2 DEF HandlePush
<1>5. ASSUME NEW h \in Handlers, HandleDelete(h) PROVE HasDomain(b)'
  BY <1>5, TeardownKeepsDomains
<1>6. ASSUME NEW x \in Deployments, Deploy(x) PROVE HasDomain(b)'
  <2>1. CASE Ensure(x)
    BY <2>1, EnsureKeepsDomains DEF Procs
  <2>2. CASE \/ StartDeploy(x) \/ Clone(x) \/ Run(x) \/ Provision(x) \/ Publish(x)
             \/ SwapIn(x) \/ DeployFails(x) \/ TrialFails(x)
    <3>1. at[x] \notin {"domain", "newdomain", "delete"} /\ UNCHANGED <<inst, domain>>
      BY <2>2 DEF StartDeploy, Clone, Run, Provision, Publish, SwapIn, DeployFails, TrialFails,
         tables
    <3>2. Works(x) /\ x \in Procs
      BY <1>6, DeployWorks DEF Procs
    <3>3. QED
      BY <3>1, <3>2, ReadersKeepDomains
  <2>3. QED
    BY <1>6, <2>1, <2>2 DEF Deploy
<1>7. CASE UNCHANGED vars
  BY <1>7 DEF vars, calm, github, tables, HasDomain, BranchOf
<1>8. QED
  BY <1>1, <1>2, <1>3, <1>4, <1>5, <1>6, <1>7 DEF Next, Crashes

\* What a teardown of its own branch found stays true to the rows until it forgets them.
LEMMA OthersKeepFound ==
    ASSUME PlaceInv, TearInv, NEW p \in Procs, Works(p), NEW h \in Handlers, h # p, Found(h)
    PROVE  Found(h)'
<1> SUFFICES ASSUME at'[h] \in Tearing, alone'[h]
             PROVE  IF at'[h] = "list" THEN domain'[BranchOf(h)'] ELSE seen'[h]
  BY DEF Found
<1>1. at'[h] = at[h] /\ seen'[h] = seen[h] /\ alone[h]
  BY DEF Works
<1>2. BranchOf(p) # BranchOf(h)
  BY <1>1 DEF OwnBranch, Works, TearInv
<1>3. at[h] # "idle" /\ h \in Procs
  BY <1>1 DEF Tearing, Procs
<1>4. BranchOf(h) \in Branches
  BY <1>3, KnownBranch
<1>5. BranchOf(h)' = BranchOf(h)
  BY IdAssumption DEF Works, BranchOf
<1>6. QED
  BY <1>1, <1>2, <1>4, <1>5 DEF Works, Found

LEMMA TeardownFinds ==
    ASSUME PlaceInv, TearInv, StatementsSucceed, FoundInv, NEW h \in Handlers, HandleDelete(h)
    PROVE  Found(h)'
<1> SUFFICES ASSUME at'[h] \in Tearing, alone'[h]
             PROVE  IF at'[h] = "list" THEN domain'[BranchOf(h)'] ELSE seen'[h]
  BY DEF Found
<1>1. h \in Procs /\ h \notin Deployments
  BY IdAssumption DEF Procs
<1>2. BranchOf(h)' = BranchOf(h) /\ at[h] # "idle"
  BY <1>1, DeleteWorks DEF Works, BranchOf, Busy, HandlerBusy, Tearing, Ensuring, DeployBusy,
     Slotted
<1>3. BranchOf(h) \in Branches
  BY <1>1, <1>2, KnownBranch
<1>4. CASE Lookup(h)
  <2>1. /\ at[h] = "lookup" /\ UNCHANGED domain
        /\ at'[h] = "list" /\ inst[BranchOf(h)] = "active"
    BY <1>1, <1>4, NoStatementFails DEF Lookup, Goto, PlaceInv, Typed, tables, Tearing
  <2>2. BusyOn(BranchOf(h)) = {h}
    BY <1>4 DEF Lookup, PlaceInv, Stored
  <2>3. \A p \in Procs : at[p] \in {"domain", "newdomain", "delete"} => at[p] \in Busy
    BY DEF Busy, HandlerBusy, Ensuring, Tearing
  <2>4. domain[BranchOf(h)]
    BY <1>3, <2>1, <2>2, <2>3 DEF FoundInv, HasDomain, BusyOn, Busy
  <2>5. QED
    BY <1>2, <2>1, <2>4
<1>5. CASE ~Lookup(h)
  <2>1. alone[h] /\ UNCHANGED alone
    <3>1. UNCHANGED alone \/ alone' = [alone EXCEPT ![h] = FALSE]
      BY <1>5 DEF HandleDelete, ListDomains, StopPreview, RemoveVolume, RemoveProxy,
         DeleteDomains, DeleteInstance, HostFails, handling
    <3>2. alone' # [alone EXCEPT ![h] = FALSE]
      BY DEF PlaceInv, Stored
    <3>3. QED
      BY <3>1, <3>2
  <2>2. CASE ListDomains(h)
    <3>1. at[h] = "list" /\ at'[h] = "stop" /\ seen' = [seen EXCEPT ![h] = domain[BranchOf(h)]]
      BY <1>1, <2>2, NoStatementFails DEF ListDomains, Goto, PlaceInv, Typed
    <3>2. domain[BranchOf(h)]
      BY <2>1, <3>1 DEF FoundInv, Found, Tearing
    <3>3. QED
      BY <3>1, <3>2 DEF PlaceInv, Stored
  <2>3. CASE ~ListDomains(h)
    <3>1. /\ at[h] \in Tearing \ {"list"} /\ UNCHANGED seen
          /\ Goto(h, "volume") \/ Goto(h, "proxy") \/ Goto(h, "forget") \/ Goto(h, "delete")
             \/ Goto(h, "over")
      BY <1>5, <2>3 DEF HandleDelete, StopPreview, RemoveVolume, RemoveProxy,
         DeleteDomains, DeleteInstance, handling, Tearing
    <3>2. at'[h] # "list"
      BY <1>1, <3>1 DEF Goto, PlaceInv, Typed
    <3>3. QED
      BY <2>1, <3>1, <3>2 DEF FoundInv, Found
  <2>4. QED
    BY <2>2, <2>3
<1>6. QED
  BY <1>4, <1>5

LEMMA FoundInvInductive ==
    ASSUME StatementsSucceed
    PROVE  DeliveryInv /\ PlaceInv /\ TearInv /\ FoundInv /\ [Next]_vars => FoundInv'
<1> SUFFICES ASSUME DeliveryInv, PlaceInv, TearInv, FoundInv, [Next]_vars PROVE FoundInv'
  OBVIOUS
<1>1. \A b \in Branches : HasDomain(b)'
  BY DomainsKept DEF FoundInv
<1> SUFFICES ASSUME NEW h \in Handlers PROVE Found(h)'
  BY <1>1 DEF FoundInv
<1>2. h \in Procs /\ h \notin Deployments /\ Found(h)
  BY IdAssumption DEF Procs, FoundInv
<1>3. ASSUME NEW b \in Branches, Push(b) \/ DeleteBranch(b) PROVE Found(h)'
  <2>1. /\ \A p \in Procs : at[p] # "idle" => BranchOf(p)' = BranchOf(p)
        /\ UNCHANGED <<at, seen, alone, domain>>
    BY <1>3, AppendKeepsBranch
  <2>2. QED
    BY <1>2, <2>1 DEF Found, Tearing
<1>4. ASSUME NEW g \in Handlers, Receive(g) PROVE Found(h)'
  <2>1. UNCHANGED <<sent, seen, domain>> /\ Disturb(BranchOf(g))
    BY <1>4, ReceiveSets DEF calm, github, tables
  <2>2. PICK label \in {"lookup", "skip", "over", "ensure", "claim"} :
          at' = [at EXCEPT ![g] = label]
    BY <1>4, ReceiveSets
  <2>3. (at'[h] \in Tearing => at'[h] = at[h]) /\ (alone'[h] => alone[h])
    BY <1>2, <2>1, <2>2 DEF Tearing, PlaceInv, Typed, Disturb
  <2>4. BranchOf(h)' = BranchOf(h)
    BY <1>2, <2>1 DEF BranchOf
  <2>5. QED
    BY <1>2, <2>1, <2>3, <2>4 DEF Found
<1>5. ~Crashes
  BY NoStatementFails DEF Crashes, Crash, CrashInSwap
<1>6. ASSUME NEW g \in Handlers, HandlePush(g) PROVE Found(h)'
  <2>1. CASE g = h
    BY <1>6, <2>1, PushTearsNothing DEF Found
  <2>2. CASE g # h
    BY <1>2, <1>6, <2>2, HandlePushWorks, OthersKeepFound DEF Procs
  <2>3. QED
    BY <2>1, <2>2
<1>7. ASSUME NEW g \in Handlers, HandleDelete(g) PROVE Found(h)'
  <2>1. CASE g = h
    BY <1>7, <2>1, TeardownFinds
  <2>2. CASE g # h
    BY <1>2, <1>7, <2>2, DeleteWorks, OthersKeepFound DEF Procs
  <2>3. QED
    BY <2>1, <2>2
<1>8. ASSUME NEW x \in Deployments, Deploy(x) PROVE Found(h)'
  BY <1>2, <1>8, DeployWorks, OthersKeepFound DEF Procs
<1>9. CASE UNCHANGED vars
  BY <1>2, <1>9 DEF vars, calm, github, handling, tables, Found, BranchOf
<1>10. QED
  BY <1>3, <1>4, <1>5, <1>6, <1>7, <1>8, <1>9 DEF Next, Crashes

TeardownLeavesNoVhost ==
    [][\A h \in Handlers :
          at[h] = "delete" /\ at'[h] = "over" /\ alone[h] => ~vhost[BranchOf(h)]]_vars

(* As long as no statement fails and the process lives, an undisturbed     *)
(* teardown leaves no vhost at all: whatever the daemon, the builds and    *)
(* earlier, disturbed teardowns did, the rows it reads name every vhost.   *)
THEOREM TeardownFindsEveryVhost ==
    ASSUME StatementsSucceed PROVE Spec => TeardownLeavesNoVhost
<1>1. Init => FoundInv
  BY DEF Init, FoundInv, HasDomain, Found, Procs, Tearing
<1>2. PlaceInv /\ TearInv /\ FoundInv /\ [Next]_vars =>
        [\A h \in Handlers :
           at[h] = "delete" /\ at'[h] = "over" /\ alone[h] => ~vhost[BranchOf(h)]]_vars
  BY DEF TearInv, Removed, FoundInv, Found, Tearing
<1>3. QED
  BY <1>1, <1>2, TearInvHolds, FoundInvInductive, PTL DEF Spec, TeardownLeavesNoVhost

-----------------------------------------------------------------------------
(* Every push ships a preview, though handlers lose races for its rows.    *)

\* What the tables say of each other, and of the places of handlers.
DeliveryAt(h) == sent[DeliveryOf[h]]
Pushing == Ensuring \cup {"claim", "create", "refuse", "mark"}
TablesAgree ==
    /\ \A x \in Created :
         /\ dep[x].delivery \in DOMAIN sent
         /\ dep[x].branch = sent[dep[x].delivery].branch
    /\ \A d \in DOMAIN sent : sent[d].commit <= head[sent[d].branch]
    /\ \A d \in Deliveries, e \in Envs :
         /\ event[d][e] # "none" => d \in DOMAIN sent
         /\ event[d][e] = "ignored" => sent[d].ignored
PlaceAgrees(h) ==
    /\ at[h] \in Pushing => DeliveryAt(h).kind = "push" /\ ~DeliveryAt(h).ignored
    /\ at[h] = "skip" => DeliveryAt(h).ignored
    /\ at[h] \in {"lookup"} \cup Tearing => DeliveryAt(h).kind = "delete"
    /\ at[h] \in Ensuring => env[h] = "preview"
PlacesAgree == \A h \in Handlers : PlaceAgrees(h)
Unfailed ==
    /\ \A p \in Procs : at[p] \notin {"dead", "refuse"}
    /\ lost = {} /\ \A d \in Deliveries, e \in Envs : event[d][e] # "failed"
NothingFailed == failures = 0 => Unfailed
OneSlot == \A x, y \in Deployments : at[x] \in Slotted /\ at[y] \in Slotted => x = y
\* Only a deployment of a preview looks for rows and publishes a vhost.
DeploysAgree ==
    \A x \in Deployments :
      at[x] \in Ensuring \cup {"provision", "publish"} => dep[x].env = "preview"
Agree == TablesAgree /\ PlacesAgree /\ NothingFailed /\ OneSlot /\ DeploysAgree

\* A branch that was never deleted, without a failure so far.
DeliveredTo(b) == {d \in DOMAIN sent : sent[d].branch = b}
HandledFor(b) == {h \in Handlers : at[h] # "idle" /\ DeliveryOf[h] \in DeliveredTo(b)}
Clean(b) == failures = 0 /\ \A d \in DeliveredTo(b) : sent[d].kind = "push"
Builds(b) == {x \in Created : dep[x].env = "preview" /\ dep[x].branch = b}
Waiting == {"created", "queued", "ensure", "domain", "clone"}
Building == {"run", "provision", "publish", "swap"}
Cloned == Building \cup {"live"}

\* The rows of a preview are there before any claim, and stay.
RowsStay(b) ==
    /\ DeliveredTo(b) # {} => alive[b]
    /\ \A d \in DeliveredTo(b) \cap Deliveries :
         event[d]["preview"] \in {"received", "processed"} => domain[b]
    /\ inst[b] \in {"none", "active"} /\ (domain[b] => inst[b] = "active")
    /\ \A x \in Builds(b) : domain[b] /\ at[x] \in Waiting \cup Cloned
    /\ \A h \in HandledFor(b) :
         /\ at[h] # "reactivate" /\ (at[h] \in {"domain", "newdomain"} => inst[b] = "active")
         /\ at[h] \in {"claim", "create", "mark"} /\ env[h] = "preview" => domain[b]

\* One deployment at a time: what is swapped in is never older than what it replaces.
BuildsImprove(b) ==
    /\ \A x \in Builds(b) : at[x] \in Cloned =>
         sent[dep[x].delivery].commit <= sha[x] /\ sha[x] <= head[b]
    /\ \A x, y \in Builds(b) : at[x] \in Building /\ at[y] = "live" => sha[y] <= sha[x]
    /\ \A x \in Builds(b) : at[x] = "swap" => vhost[b]
    /\ \A x \in Builds(b) : at[x] = "live" =>
         /\ container[b] \in Builds(b) /\ at[container[b]] = "live"
         /\ sha[x] <= sha[container[b]] /\ vhost[b]

\* Where there is a row, somebody builds, or is about to have a build made.
Bringing(h, b) ==
    /\ h \in HandledFor(b) /\ env[h] = "preview"
    /\ \/ at[h] \in {"domain", "newdomain"} /\ ~domain[b]
       \/ at[h] = "claim" /\ EventOf(h) = "none"
       \/ at[h] = "create"
SomebodyBuilds(b) == Builds(b) # {} \/ \E h \in Handlers : Bringing(h, b)

\* Who may yet lose the race for a row began before anything was cloned.
AllHave(b, d) == \A x \in Builds(b) : at[x] \in Cloned => sent[d].commit <= sha[x]
RacersAreEarly(b) ==
    \A h \in HandledFor(b) : at[h] \in {"insert", "newdomain"} => AllHave(b, DeliveryOf[h])

\* The handler is through with the preview: a build has its commit, or will.
Past(h) == at[h] \in {"over", "mark"} \/ (at[h] \in {"claim", "create"} /\ env[h] = "production")
Settled(b, d) ==
    \/ AllHave(b, d) /\ inst[b] = "active"
    \/ \E x \in Builds(b) :
         at[x] \in Waiting \/ (at[x] \in Cloned /\ sent[d].commit <= sha[x])
    \/ \E g \in Handlers : DeliveryOf[g] = d /\ at[g] = "create" /\ env[g] = "preview"
PushesSettled(b) ==
    \A h \in HandledFor(b) : ~DeliveryAt(h).ignored /\ Past(h) => Settled(b, DeliveryOf[h])

Shipping(b) ==
    /\ RowsStay(b) /\ BuildsImprove(b) /\ RacersAreEarly(b) /\ PushesSettled(b)
    /\ inst[b] = "active" => SomebodyBuilds(b)
ShipInv == Agree /\ \A b \in Branches : Clean(b) => Shipping(b)

-----------------------------------------------------------------------------
(* The tables and the places agree.                                        *)

\* Where a handler is when it has gone on to its next target.
LEMMA AdvanceTo ==
    ASSUME Typed, NEW h \in Handlers, NEW left \in SUBSET Envs, NEW now, h \in DOMAIN now,
           Advance(h, left, now)
    PROVE  \/ at'[h] = "over"
           \/ at'[h] = "ensure" /\ env'[h] = "preview" /\ "preview" \in left
           \/ at'[h] = "claim" /\ env'[h] = "production" /\ "preview" \notin left
<1>1. CASE left = {}
  BY <1>1 DEF Advance
<1>2. CASE left # {} /\ "preview" \in left
  BY <1>2 DEF Advance, Typed
<1>3. CASE left # {} /\ "preview" \notin left
  BY <1>3 DEF Advance, Typed
<1>4. QED
  BY <1>1, <1>2, <1>3

LEMMA NextTargetTo ==
    ASSUME Typed, NEW h \in Handlers, NextTarget(h)
    PROVE  \/ at'[h] = "over"
           \/ at'[h] = "ensure" /\ env'[h] = "preview"
           \/ at'[h] = "claim" /\ env'[h] = "production"
<1>1. h \in DOMAIN at /\ todo[h] \in SUBSET Envs
  BY DEF Typed, Procs
<1>2. QED
  BY <1>1, AdvanceTo DEF NextTarget

LEMMA MarkTo ==
    ASSUME Typed, NEW h \in Handlers, MarkProcessed(h)
    PROVE  \/ at'[h] = "over"
           \/ at'[h] = "ensure" /\ env'[h] = "preview"
           \/ at'[h] = "claim" /\ env'[h] = "production"
<1> DEFINE now == [p \in Procs |-> IF p \in Dispatched(h) THEN "queued" ELSE at[p]]
<1>1. h \in DOMAIN now /\ todo[h] \in SUBSET Envs
  BY DEF Typed, Procs
<1>2. Advance(h, todo[h], now)
  BY DEF MarkProcessed
<1> HIDE DEF now
<1>3. QED
  BY <1>1, <1>2, AdvanceTo

\* Where a handler of a push goes.
LEMMA PushPlaces ==
    ASSUME PlaceInv, PlacesAgree, NEW h \in Handlers, HandlePush(h)
    PROVE  /\ at[h] \in Pushing \cup {"skip"} /\ at'[h] \in Pushing \cup {"over"}
           /\ at[h] = "skip" => at'[h] = "over"
           /\ at'[h] \in Ensuring => env'[h] = "preview"
<1>1. h \in Procs /\ Typed
  BY DEF PlaceInv, Procs
<1>2. CASE SkipFiltered(h)
  BY <1>1, <1>2 DEF SkipFiltered, Goto, Typed, Ensuring
<1>3. CASE Ensure(h)
  <2>1. at[h] \in Ensuring /\ env[h] = "preview"
    BY <1>1, <1>3, EnsureWorks DEF PlacesAgree, PlaceAgrees
  <2>2. CASE NotEnsured(h)
    BY <1>1, <2>1, <2>2, NextTargetTo DEF NotEnsured, Pushing, Ensuring
  <2>3. CASE Ensured(h)
    BY <1>1, <2>1, <2>3 DEF Ensured, Goto, Typed, Pushing, Ensuring
  <2>4. ASSUME NEW label \in {"insert", "reactivate", "domain", "newdomain"}, Onward(h, label)
        PROVE  at'[h] \in Ensuring /\ env'[h] = "preview"
    BY <1>1, <2>1, <2>4 DEF Onward, Goto, Typed, Ensuring
  <2>5. CASE FindInstance(h) \/ Reactivate(h) \/ InsertInstance(h)
    BY <2>1, <2>2, <2>4, <2>5 DEF FindInstance, Reactivate, InsertInstance, EnsureFails, Pushing,
       Ensuring
  <2>6. CASE FindDomain(h) \/ CreateDomain(h)
    BY <2>1, <2>2, <2>3, <2>4, <2>6 DEF FindDomain, CreateDomain, EnsureFails, Pushing, Ensuring
  <2>7. QED
    BY <1>3, <2>5, <2>6 DEF Ensure
<1>4. CASE Claim(h) \/ CreateDeployment(h) \/ MarkFailed(h)
  <2>1. at[h] \in {"claim", "create", "refuse"}
    BY <1>4 DEF Claim, CreateDeployment, MarkFailed
  <2>2. CASE NextTarget(h)
    BY <1>1, <2>1, <2>2, NextTargetTo DEF Pushing, Ensuring
  <2>3. CASE Onward(h, "create") \/ Onward(h, "refuse")
    BY <1>1, <2>1, <2>3 DEF Onward, Goto, Typed, Pushing, Ensuring
  <2>4. ASSUME NEW x \in Deployments, Insert(h, x) PROVE at'[h] = "mark"
    BY <1>1, <2>4, IdAssumption DEF Insert, Typed
  <2>5. QED
    BY <1>4, <2>1, <2>2, <2>3, <2>4 DEF Claim, CreateDeployment, MarkFailed, Pushing, Ensuring
<1>5. CASE MarkProcessed(h)
  BY <1>1, <1>5, MarkTo DEF MarkProcessed, Pushing, Ensuring
<1>6. QED
  BY <1>2, <1>3, <1>4, <1>5 DEF HandlePush

\* What it writes into the events.
LEMMA EventsWritten ==
    ASSUME DeliveryInv, PlaceInv, NEW h \in Handlers, HandlePush(h),
           NEW d \in Deliveries, NEW e \in Envs
    PROVE  \/ event'[d][e] = event[d][e]
           \/ d = DeliveryOf[h] /\ at[h] = "skip" /\ event'[d][e] = "ignored"
           \/ d = DeliveryOf[h] /\ e = env[h] /\ at[h] \in {"claim", "refuse", "mark"}
              /\ \/ event'[d][e] \in {"received", "processed"}
                 \/ event'[d][e] = "failed" /\ at[h] = "refuse"
<1>1. DeliveryOf[h] \in Deliveries /\ env[h] \in Envs /\ Typed
  BY Handled DEF PlaceInv
<1>2. ASSUME NEW s, SetEvent(h, s)
      PROVE  event'[d][e] = event[d][e] \/ (d = DeliveryOf[h] /\ e = env[h] /\ event'[d][e] = s)
  BY <1>1, <1>2 DEF SetEvent, Typed
<1>3. CASE SkipFiltered(h)
  BY <1>1, <1>3 DEF SkipFiltered, Typed
<1>4. CASE Ensure(h)
  BY <1>4, EnsureMoves DEF MovesOn, PlaceInv, Procs
<1>5. CASE Claim(h)
  BY <1>2, <1>5 DEF Claim
<1>6. CASE CreateDeployment(h) \/ MarkFailed(h)
  BY <1>2, <1>6 DEF CreateDeployment, Insert, MarkFailed
<1>7. CASE MarkProcessed(h)
  BY <1>2, <1>7 DEF MarkProcessed
<1>8. QED
  BY <1>3, <1>4, <1>5, <1>6, <1>7 DEF HandlePush

\* Failures are counted and never taken back.
LEMMA NoFailureYet ==
    ASSUME PlaceInv, [Next]_vars, failures' = 0
    PROVE  failures = 0 /\ ~Crashes /\ \A f : ~Fault(f)
<1>1. failures \in Nat
  BY ConfigAssumption DEF PlaceInv, Stored
<1>2. \A f : ~Fault(f)
  BY <1>1 DEF Fault
<1>3. ASSUME UNCHANGED failures PROVE failures = 0
  BY <1>3
<1>4. ASSUME NEW p \in Procs, Ensure(p) PROVE UNCHANGED failures
  BY <1>2, <1>4 DEF Ensure, FindInstance, Reactivate, InsertInstance, FindDomain, CreateDomain,
     EnsureFails, NoFault
<1>5. ASSUME NEW h \in Handlers, HandlePush(h) PROVE UNCHANGED failures
  BY <1>2, <1>4, <1>5 DEF HandlePush, SkipFiltered, Claim, CreateDeployment, Insert,
     MarkFailed, MarkProcessed, NoFault, Procs, calm
<1>6. ASSUME NEW h \in Handlers, HandleDelete(h) PROVE UNCHANGED failures
  BY <1>2, <1>6 DEF HandleDelete, Lookup, ListDomains, StopPreview, RemoveVolume, RemoveProxy,
     DeleteDomains, DeleteInstance, HostFails, NoFault
<1>7. ASSUME NEW x \in Deployments, Deploy(x) PROVE UNCHANGED failures
  BY <1>2, <1>4, <1>7 DEF Deploy, StartDeploy, Clone, Run, Provision, Publish, SwapIn,
     DeployFails, TrialFails, NoFault, calm, Procs
<1>8. ASSUME NEW h \in Handlers, Receive(h) PROVE UNCHANGED failures
  BY <1>8 DEF Receive, calm
<1>9. ASSUME NEW b \in Branches, Push(b) \/ DeleteBranch(b) PROVE UNCHANGED failures
  BY <1>9 DEF Push, DeleteBranch
<1>10. UNCHANGED vars => UNCHANGED failures
  BY DEF vars, calm
<1>11. ~Crashes
  BY <1>2 DEF Crashes, Crash, CrashInSwap
<1>12. QED
  BY <1>2, <1>3, <1>5, <1>6, <1>7, <1>8, <1>9, <1>10, <1>11 DEF Next, Crashes

\* A step of a process, as far as deployments are concerned.
LEMMA WorksDeployments ==
    ASSUME PlaceInv, NEW p \in Procs, Works(p), NEW x \in Deployments
    PROVE  \/ x \in Created /\ x \in Created' /\ dep'[x] = dep[x]
              /\ (x = p \/ at'[x] = at[x] \/ (at[x] = "created" /\ at'[x] = "queued"))
           \/ x \notin Created /\ x \notin Created'
           \/ /\ x \notin Created /\ x \in Created' /\ at'[x] = "created"
              /\ p \in Handlers /\ at[p] = "create"
              /\ dep'[x] = [delivery |-> DeliveryOf[p], env |-> env[p], branch |-> BranchOf(p)]
<1>1. at[p] # "none"
  BY DEF Works, Busy, HandlerBusy, DeployBusy, Slotted, Ensuring, Tearing
<1>2. x = p => x \in Created
  BY <1>1 DEF Created
<1>3. CASE x = p /\ dep'[x] = dep[x] /\ at'[x] # "none"
  BY <1>2, <1>3 DEF Created
<1>4. CASE x # p /\ dep'[x] = dep[x] /\ at'[x] = at[x]
  BY <1>4 DEF Created
<1>5. CASE x # p /\ dep'[x] = dep[x] /\ at[x] = "created" /\ at'[x] = "queued"
  BY <1>5 DEF Created
<1>6. CASE /\ p \in Handlers /\ at[p] = "create" /\ at[x] = "none" /\ at'[x] = "created"
           /\ dep'[x] = [delivery |-> DeliveryOf[p], env |-> env[p], branch |-> BranchOf(p)]
  BY <1>6 DEF Created
<1>7. QED
  BY <1>3, <1>4, <1>5, <1>6 DEF Works

LEMMA WorksTables ==
    ASSUME PlaceInv, TablesAgree, NEW p \in Procs, Works(p),
           \A d \in Deliveries, e \in Envs :
             \/ event'[d][e] = event[d][e]
             \/ p \in Handlers /\ d = DeliveryOf[p]
                /\ (event'[d][e] = "ignored" => sent[d].ignored)
    PROVE  TablesAgree'
<1>1. at[p] # "idle" /\ UNCHANGED <<head, sent>>
  BY DEF Works, Busy, HandlerBusy, DeployBusy, Slotted, Ensuring, Tearing
<1>2. ASSUME p \in Handlers
      PROVE  DeliveryOf[p] \in DOMAIN sent /\ BranchOf(p) = sent[DeliveryOf[p]].branch
  BY <1>1, <1>2, IdAssumption DEF PlaceInv, Known, BranchOf
<1>3. ASSUME NEW x \in Created'
      PROVE  /\ dep'[x].delivery \in DOMAIN sent
             /\ dep'[x].branch = sent[dep'[x].delivery].branch
  <2>1. x \in Deployments
    BY DEF Created
  <2>2. CASE x \in Created /\ dep'[x] = dep[x]
    BY <2>2 DEF TablesAgree
  <2>3. CASE p \in Handlers
             /\ dep'[x] = [delivery |-> DeliveryOf[p], env |-> env[p], branch |-> BranchOf(p)]
    BY <1>2, <2>3
  <2>4. QED
    BY <2>1, <2>2, <2>3, WorksDeployments
<1>4. ASSUME NEW d \in Deliveries, NEW e \in Envs
      PROVE  /\ event'[d][e] # "none" => d \in DOMAIN sent
             /\ event'[d][e] = "ignored" => sent[d].ignored
  BY <1>2 DEF TablesAgree
<1>5. QED
  BY <1>1, <1>3, <1>4 DEF TablesAgree

\* Nobody but p moves among the handlers.
LEMMA WorksPlaces ==
    ASSUME PlaceInv, PlacesAgree, NEW p \in Procs, Works(p),
           p \in Handlers => PlaceAgrees(p)'
    PROVE  PlacesAgree'
<1> SUFFICES ASSUME NEW h \in Handlers, h # p PROVE PlaceAgrees(h)'
  BY DEF PlacesAgree
<1>1. at'[h] = at[h] /\ env'[h] = env[h] /\ sent' = sent
  BY DEF Works
<1>2. QED
  BY <1>1 DEF PlacesAgree, PlaceAgrees, DeliveryAt

LEMMA WorksSlot ==
    ASSUME PlaceInv, OneSlot, NEW p \in Procs, Works(p),
           p \in Deployments /\ at[p] \notin Slotted => \A y \in Deployments : at[y] \notin Slotted
    PROVE  OneSlot'
<1>1. \A x \in Deployments \ {p} : at'[x] \in Slotted => at[x] \in Slotted
  BY DEF Works, Slotted, Ensuring
<1>2. QED
  BY <1>1 DEF OneSlot

LEMMA WorksDeploys ==
    ASSUME PlaceInv, DeploysAgree, NEW p \in Procs, Works(p),
           p \in Deployments /\ at'[p] \in Ensuring \cup {"provision", "publish"} =>
             dep[p].env = "preview"
    PROVE  DeploysAgree'
<1> SUFFICES ASSUME NEW x \in Deployments, at'[x] \in Ensuring \cup {"provision", "publish"}
             PROVE  dep'[x].env = "preview"
  BY DEF DeploysAgree
<1>1. at'[x] # "created" /\ at'[x] # "queued"
  BY DEF Ensuring
<1>2. dep'[x] = dep[x] /\ (x = p \/ at'[x] = at[x])
  BY <1>1 DEF Works
<1>3. QED
  BY <1>2 DEF DeploysAgree

LEMMA FailedSays ==
    ASSUME PlaceInv, NothingFailed, [Next]_vars,
           failures = 0 /\ Unfailed /\ (\A f : ~Fault(f)) => Unfailed'
    PROVE  NothingFailed'
BY NoFailureYet DEF NothingFailed

LEMMA PushAgrees ==
    ASSUME DeliveryInv, PlaceInv, Agree, [Next]_vars, NEW h \in Handlers, HandlePush(h)
    PROVE  Agree'
<1>1. Works(h) /\ h \in Procs /\ h \notin Deployments /\ sent' = sent
  BY HandlePushWorks, IdAssumption DEF Procs, Works
<1>2. PlaceAgrees(h)'
  BY <1>1, PushPlaces DEF Agree, PlacesAgree, PlaceAgrees, DeliveryAt, Pushing, Ensuring, Tearing
<1>3. TablesAgree'
  <2>1. at[h] = "skip" => sent[DeliveryOf[h]].ignored
    BY DEF Agree, PlacesAgree, PlaceAgrees, DeliveryAt
  <2>2. \A d \in Deliveries, e \in Envs :
          \/ event'[d][e] = event[d][e]
          \/ d = DeliveryOf[h] /\ (event'[d][e] = "ignored" => sent[d].ignored)
    BY <2>1, EventsWritten
  <2>3. QED
    BY <1>1, <2>2, WorksTables DEF Agree
<1>4. NothingFailed'
  <2> SUFFICES ASSUME failures = 0, Unfailed, \A f : ~Fault(f) PROVE Unfailed'
    BY FailedSays DEF Agree
  <2>1. at[h] # "refuse"
    BY <1>1 DEF Unfailed
  <2>2. ~MarkFailed(h)
    BY <2>1 DEF MarkFailed
  <2>3. at'[h] \notin {"dead", "refuse"}
    <3>1. at'[h] # "dead"
      BY PushPlaces DEF Agree, Pushing, Ensuring
    <3>2. CASE Ensure(h)
      <4>1. \A label : Goto(h, label) => at'[h] = label
        BY <1>1 DEF Goto, PlaceInv, Typed
      <4>2. NotEnsured(h) => at'[h] # "refuse"
        BY NextTargetTo DEF NotEnsured, PlaceInv
      <4>3. CASE FindInstance(h) \/ FindDomain(h)
        BY <4>1, <4>2, <4>3 DEF FindInstance, FindDomain, Ensured, EnsureFails, Onward
      <4>4. CASE Reactivate(h) \/ InsertInstance(h) \/ CreateDomain(h)
        <5>1. Onward(h, "domain") \/ Ensured(h) \/ NotEnsured(h)
          BY <4>4 DEF Reactivate, InsertInstance, CreateDomain, EnsureFails
        <5>2. QED
          BY <3>1, <4>1, <4>2, <5>1 DEF Ensured, Onward
      <4>5. QED
        BY <3>2, <4>3, <4>4 DEF Ensure
    <3>3. CASE SkipFiltered(h)
      BY <1>1, <3>3 DEF SkipFiltered, Goto, PlaceInv, Typed
    <3>4. CASE Claim(h)
      BY <1>1, <3>4, NextTargetTo DEF Claim, Onward, Goto, PlaceInv, Typed
    <3>5. CASE CreateDeployment(h)
      <4>1. PICK x \in Deployments : Insert(h, x)
        BY <3>5 DEF CreateDeployment
      <4>2. at' = [at EXCEPT ![h] = "mark", ![x] = "created"] /\ x # h
        BY <1>1, <4>1 DEF Insert
      <4>3. QED
        BY <1>1, <4>2 DEF PlaceInv, Typed
    <3>6. CASE MarkProcessed(h)
      BY <3>6, MarkTo DEF PlaceInv
    <3>7. QED
      BY <2>2, <3>1, <3>2, <3>3, <3>4, <3>5, <3>6 DEF HandlePush
  <2>4. \A p \in Procs : at'[p] \notin {"dead", "refuse"}
    BY <1>1, <2>3 DEF Works, Unfailed, Procs
  <2>5. \A d \in Deliveries, e \in Envs : event'[d][e] # "failed"
    BY <2>1, EventsWritten DEF Unfailed
  <2>6. lost' = lost
    BY <2>2 DEF HandlePush, SkipFiltered, Ensure, FindInstance, Reactivate, InsertInstance,
       FindDomain, CreateDomain, Claim, CreateDeployment, MarkProcessed, tables
  <2>7. QED
    BY <2>4, <2>5, <2>6 DEF Unfailed
<1>5. QED
  BY <1>1, <1>2, <1>3, <1>4, WorksPlaces, WorksSlot, WorksDeploys DEF Agree

LEMMA DeleteAgrees ==
    ASSUME PlaceInv, Agree, [Next]_vars, NEW h \in Handlers, HandleDelete(h) PROVE Agree'
<1>1. Works(h) /\ h \in Procs /\ h \notin Deployments /\ sent' = sent
  BY DeleteWorks, IdAssumption DEF Procs, Works
<1>2. at[h] \in {"lookup"} \cup Tearing /\ UNCHANGED event
  BY DEF HandleDelete, Lookup, ListDomains, StopPreview, RemoveVolume, RemoveProxy,
     DeleteDomains, DeleteInstance, Tearing, tables
<1>3. at'[h] \in {"over"} \cup Tearing
  BY <1>1 DEF HandleDelete, Lookup, ListDomains, StopPreview, RemoveVolume, RemoveProxy,
     DeleteDomains, DeleteInstance, Tearing, Goto, PlaceInv, Typed
<1>4. PlaceAgrees(h)'
  BY <1>1, <1>2, <1>3 DEF Agree, PlacesAgree, PlaceAgrees, DeliveryAt, Pushing, Ensuring, Tearing
<1>5. NothingFailed'
  <2>1. Unfailed => \A p \in Procs : at'[p] \notin {"dead", "refuse"}
    BY <1>1, <1>3 DEF Works, Tearing, Procs, Unfailed
  <2>2. UNCHANGED lost
    BY DEF HandleDelete, Lookup, ListDomains, StopPreview, RemoveVolume, RemoveProxy,
       DeleteDomains, DeleteInstance, tables
  <2>3. QED
    BY <1>2, <2>1, <2>2, FailedSays DEF Agree, Unfailed
<1>6. TablesAgree'
  BY <1>1, <1>2, WorksTables DEF Agree
<1>7. QED
  BY <1>1, <1>4, <1>5, <1>6, WorksPlaces, WorksSlot, WorksDeploys DEF Agree

LEMMA DeployAgrees ==
    ASSUME PlaceInv, Agree, [Next]_vars, NEW x \in Deployments, Deploy(x) PROVE Agree'
<1>1. Works(x) /\ x \in Procs /\ x \notin Handlers /\ UNCHANGED <<event, lost, sent>>
  <2>1. Works(x)
    BY DeployWorks
  <2>2. UNCHANGED <<event, lost>>
    <3>1. CASE Ensure(x)
      BY <3>1 DEF Ensure, FindInstance, Reactivate, InsertInstance, FindDomain, CreateDomain,
         tables
    <3>2. CASE ~Ensure(x)
      BY <3>2 DEF Deploy, StartDeploy, Clone, Run, Provision, Publish, SwapIn, DeployFails,
         TrialFails, tables
    <3>3. QED
      BY <3>1, <3>2
  <2>3. QED
    BY <2>1, <2>2, IdAssumption DEF Works, Procs
<1>2. at'[x] \notin {"dead", "refuse"}
  <2>1. CASE Ensure(x)
    BY <1>1, <2>1, EnsureAt DEF PlaceInv, Typed
  <2>2. CASE ~Ensure(x)
    BY <1>1, <2>2 DEF Deploy, StartDeploy, Clone, Run, Provision, Publish, SwapIn, DeployFails,
       TrialFails, Goto, PlaceInv, Typed
  <2>3. QED
    BY <2>1, <2>2
<1>3. at[x] \notin Slotted => \A y \in Deployments : at[y] \notin Slotted
  <2>1. Ensure(x) => at[x] \in Ensuring
    BY <1>1, EnsureWorks
  <2>2. QED
    BY <2>1 DEF Deploy, StartDeploy, Clone, Run, Provision, Publish, SwapIn, DeployFails,
       TrialFails, Slotted
<1>4. NothingFailed'
  <2>1. Unfailed => \A p \in Procs : at'[p] \notin {"dead", "refuse"}
    BY <1>1, <1>2 DEF Works, Procs, Unfailed
  <2>2. QED
    BY <1>1, <2>1, FailedSays DEF Agree, Unfailed
<1>5. TablesAgree'
  BY <1>1, WorksTables DEF Agree
<1>6. ASSUME at'[x] \in Ensuring \cup {"provision", "publish"} PROVE dep[x].env = "preview"
  <2>1. CASE Ensure(x)
    BY <1>1, <2>1, EnsureWorks DEF Agree, DeploysAgree
  <2>2. CASE StartDeploy(x) \/ Run(x) \/ Provision(x)
    BY <1>1, <1>6, <2>2 DEF StartDeploy, Run, Provision, Goto, PlaceInv, Typed, Agree, DeploysAgree,
       Ensuring
  <2>3. CASE Clone(x) \/ Publish(x) \/ SwapIn(x) \/ DeployFails(x) \/ TrialFails(x)
    BY <1>1, <1>6, <2>3 DEF Clone, Publish, SwapIn, DeployFails, TrialFails, Goto, PlaceInv, Typed,
       Ensuring
  <2>4. QED
    BY <2>1, <2>2, <2>3 DEF Deploy
<1>7. QED
  BY <1>1, <1>3, <1>4, <1>5, <1>6, WorksPlaces, WorksSlot, WorksDeploys DEF Agree

\* What happens at GitHub.
LEMMA GithubAgrees ==
    ASSUME PlaceInv, Agree, [Next]_vars, NEW b \in Branches, Push(b) \/ DeleteBranch(b)
    PROVE  Agree'
<1>1. PICK c \in Content : /\ sent' = Append(sent, c) /\ c.branch = b
                           /\ c.commit <= head'[b] /\ head[b] <= head'[b]
  <2>1. head[b] \in Nat /\ head[b] + 1 \in Nat
    BY DEF PlaceInv, Stored
  <2>2. CASE Push(b)
    <3>1. PICK i \in BOOLEAN :
            sent' = Append(sent, [kind |-> "push", branch |-> b, commit |-> head[b] + 1,
                                  ignored |-> i])
      BY <2>2 DEF Push
    <3>2. head'[b] = head[b] + 1
      BY <2>2 DEF Push, PlaceInv, Stored
    <3> DEFINE c == [kind |-> "push", branch |-> b, commit |-> head[b] + 1, ignored |-> i]
    <3>3. c \in Content /\ c.branch = b /\ c.commit = head[b] + 1
      BY <2>1 DEF Content
    <3> HIDE DEF c
    <3>4. sent' = Append(sent, c)
      BY <3>1 DEF c
    <3>5. QED
      BY <2>1, <3>2, <3>3, <3>4
  <2>3. CASE DeleteBranch(b)
    <3> DEFINE c == [kind |-> "delete", branch |-> b, commit |-> 0, ignored |-> FALSE]
    <3>1. c \in Content /\ c.branch = b /\ c.commit = 0
      BY DEF Content
    <3>2. sent' = Append(sent, c) /\ UNCHANGED head
      BY <2>3 DEF DeleteBranch
    <3> HIDE DEF c
    <3>3. QED
      BY <2>1, <3>1, <3>2
  <2>4. QED
    BY <2>2, <2>3
<1>2. sent \in Seq(Content) /\ head \in [Branches -> Nat]
  BY DEF PlaceInv, Stored
<1>3. /\ DOMAIN sent' = DOMAIN sent \cup {Len(sent) + 1} /\ sent'[Len(sent) + 1] = c
      /\ \A d \in DOMAIN sent : sent'[d] = sent[d]
  BY <1>1, <1>2
<1>4. \A a \in Branches \ {b} : head'[a] = head[a]
  BY <1>2 DEF Push, DeleteBranch
<1>5. UNCHANGED <<at, env, event, lost, dep, failures>>
  BY DEF Push, DeleteBranch, handling, tables
<1>6. TablesAgree'
  <2>1. \A x \in Created' : dep'[x].delivery \in DOMAIN sent'
                            /\ dep'[x].branch = sent'[dep'[x].delivery].branch
    BY <1>3, <1>5 DEF Agree, TablesAgree, Created
  <2>2. ASSUME NEW d \in DOMAIN sent' PROVE sent'[d].commit <= head'[sent'[d].branch]
    <3>1. CASE d \in DOMAIN sent
      <4>1. sent[d] \in Content /\ sent'[d] = sent[d]
        BY <1>2, <1>3, <3>1
      <4>2. sent[d].branch \in Branches /\ sent[d].commit \in Nat
            /\ sent[d].commit <= head[sent[d].branch]
        BY <3>1, <4>1 DEF Content, Agree, TablesAgree
      <4>3. CASE sent[d].branch = b
        <5>1. head[b] \in Nat /\ head'[b] \in Nat
          BY <1>2, PushTyped DEF Stored
        <5>2. QED
          BY <1>1, <4>1, <4>2, <4>3, <5>1
      <4>4. CASE sent[d].branch # b
        BY <1>4, <4>1, <4>2, <4>4
      <4>5. QED
        BY <4>3, <4>4
    <3>2. CASE d = Len(sent) + 1
      BY <1>1, <1>3, <3>2
    <3>3. QED
      BY <1>3, <3>1, <3>2
  <2>3. \A d \in Deliveries, e \in Envs :
          /\ event'[d][e] # "none" => d \in DOMAIN sent'
          /\ event'[d][e] = "ignored" => sent'[d].ignored
    <3>1. \A d \in Deliveries, e \in Envs : event[d][e] = "ignored" => event[d][e] # "none"
      OBVIOUS
    <3>2. QED
      BY <1>3, <1>5, <3>1 DEF Agree, TablesAgree
  <2>4. QED
    BY <2>1, <2>2, <2>3 DEF TablesAgree
<1>7. PlacesAgree'
  <2>1. \A h \in Handlers : at[h] # "idle" => sent'[DeliveryOf[h]] = sent[DeliveryOf[h]]
    BY <1>3 DEF PlaceInv, Known
  <2>2. \A h \in Handlers : at[h] \in Pushing \cup {"skip", "lookup"} \cup Tearing \cup Ensuring
                            => at[h] # "idle"
    BY DEF Pushing, Tearing, Ensuring
  <2>3. QED
    BY <1>5, <2>1, <2>2 DEF Agree, PlacesAgree, PlaceAgrees, DeliveryAt
<1>8. NothingFailed' /\ OneSlot' /\ DeploysAgree'
  BY <1>5 DEF Agree, NothingFailed, Unfailed, OneSlot, DeploysAgree
<1>9. QED
  BY <1>6, <1>7, <1>8 DEF Agree

\* Where a delivery begins.
LEMMA ReceiveTo ==
    ASSUME PlaceInv, NEW h \in Handlers, Receive(h)
    PROVE  \/ at'[h] = "lookup" /\ DeliveryAt(h).kind = "delete"
           \/ at'[h] = "skip" /\ DeliveryAt(h).kind = "push" /\ DeliveryAt(h).ignored
           \/ at'[h] = "ensure" /\ DeliveryAt(h).kind = "push" /\ ~DeliveryAt(h).ignored
              /\ env'[h] = "preview"
<1> DEFINE d == sent[DeliveryOf[h]]
<1>1. DeliveryOf[h] \in DOMAIN sent /\ h \in Procs /\ Typed /\ h \in DOMAIN at
  BY DEF Receive, Procs, PlaceInv, Typed
<1>2. d \in Content
  BY <1>1 DEF PlaceInv, Stored
<1>3. d.kind \in {"push", "delete"} /\ d.ignored \in BOOLEAN
  BY <1>2 DEF Content
<1> HIDE DEF d
<1>4. CASE d.kind = "delete"
  BY <1>1, <1>4 DEF Receive, Goto, Typed, DeliveryAt, d
<1>5. CASE d.kind = "push" /\ d.ignored
  BY <1>1, <1>5 DEF Receive, Goto, Typed, DeliveryAt, d
<1>6. CASE d.kind = "push" /\ ~d.ignored
  <2>1. Advance(h, TargetEnvs(d.branch), at)
    BY <1>6 DEF Receive, d
  <2>2. TargetEnvs(d.branch) \in SUBSET Envs /\ "preview" \in TargetEnvs(d.branch)
    BY DEF TargetEnvs, Envs
  <2>3. at'[h] = "ensure" /\ env'[h] = "preview"
    BY <1>1, <2>1, <2>2 DEF Advance, Typed
  <2>4. QED
    BY <1>6, <2>3 DEF DeliveryAt, d
<1>7. QED
  BY <1>3, <1>4, <1>5, <1>6

LEMMA ReceiveOthers ==
    ASSUME PlaceInv, NEW h \in Handlers, Receive(h)
    PROVE  /\ at[h] = "idle" /\ DeliveryOf[h] \in DOMAIN sent
           /\ UNCHANGED <<head, alive, sent, failures, event, lost, dep, inst, domain, sha, vhost,
                          container>>
           /\ \A p \in Procs \ {h} : at'[p] = at[p]
           /\ \A g \in Handlers \ {h} : env'[g] = env[g]
<1>1. /\ at[h] = "idle" /\ DeliveryOf[h] \in DOMAIN sent
      /\ UNCHANGED <<head, alive, sent, failures, event, lost, dep, inst, domain, sha, vhost,
                     container>>
  BY ReceiveSets DEF calm, github, tables, host
<1>2. \A p \in Procs \ {h} : at'[p] = at[p]
  BY ReceiveSets DEF PlaceInv, Typed
<1>3. \A g \in Handlers \ {h} : env'[g] = env[g]
  BY ReceiveMoves DEF MovesOn, PlaceInv
<1>4. QED
  BY <1>1, <1>2, <1>3

LEMMA ReceiveAgrees ==
    ASSUME PlaceInv, Agree, [Next]_vars, NEW h \in Handlers, Receive(h) PROVE Agree'
<1>1. /\ UNCHANGED <<head, sent, failures, event, lost, dep>>
      /\ \A p \in Procs \ {h} : at'[p] = at[p]
      /\ \A g \in Handlers \ {h} : env'[g] = env[g]
  BY ReceiveOthers
<1>2. h \notin Deployments
  BY IdAssumption
<1>3. at'[h] \in {"lookup", "skip", "ensure"}
  BY ReceiveTo
<1>4. Created' = Created /\ \A x \in Deployments : at'[x] = at[x]
  BY <1>1, <1>2 DEF Created, Procs
<1>5. TablesAgree' /\ OneSlot' /\ DeploysAgree'
  BY <1>1, <1>4 DEF Agree, TablesAgree, OneSlot, DeploysAgree
<1>6. NothingFailed'
  BY <1>1, <1>3 DEF Agree, NothingFailed, Unfailed
<1>7. PlaceAgrees(h)'
  BY <1>1, ReceiveTo DEF PlaceAgrees, DeliveryAt, Pushing, Ensuring, Tearing
<1>8. \A g \in Handlers \ {h} : PlaceAgrees(g)'
  BY <1>1 DEF Agree, PlacesAgree, PlaceAgrees, DeliveryAt, Procs
<1>9. QED
  BY <1>5, <1>6, <1>7, <1>8 DEF Agree, PlacesAgree

LEMMA CrashAgrees ==
    ASSUME PlaceInv, Agree, [Next]_vars, Crashes PROVE Agree'
<1>1. /\ at' = [p \in Procs |-> IF at[p] \in HandlerBusy \cup DeployBusy THEN "dead" ELSE at[p]]
      /\ UNCHANGED <<head, sent, event, dep, env>>
  BY DEF Crashes, Crash, CrashInSwap, Die, github, tables, handling
<1>2. \A p \in Procs : at'[p] = at[p] \/ (at'[p] = "dead" /\ at[p] # "none")
  BY <1>1 DEF HandlerBusy, DeployBusy, Slotted, Ensuring, Tearing
<1>3. Created' = Created
  BY <1>2 DEF Created, Procs
<1>4. TablesAgree'
  BY <1>1, <1>3 DEF Agree, TablesAgree
<1>5. PlacesAgree'
  BY <1>1, <1>2 DEF Agree, PlacesAgree, PlaceAgrees, DeliveryAt, Procs, Pushing, Ensuring,
     Tearing
<1>6. OneSlot' /\ DeploysAgree'
  BY <1>1, <1>2 DEF Agree, OneSlot, Slotted, Ensuring, Procs, DeploysAgree
<1>7. NothingFailed'
  BY NoFailureYet DEF NothingFailed
<1>8. QED
  BY <1>4, <1>5, <1>6, <1>7 DEF Agree

LEMMA InitialAgree == Init => Agree
<1> SUFFICES ASSUME Init PROVE Agree
  OBVIOUS
<1>1. /\ \A h \in Handlers : at[h] = "idle"
      /\ \A p \in Procs : at[p] \in {"idle", "none"}
      /\ Created = {} /\ sent = <<>>
      /\ lost = {} /\ \A d \in Deliveries, e \in Envs : event[d][e] = "none"
  BY IdAssumption DEF Init, Procs, Created
<1>2. DOMAIN sent = {}
  BY <1>1
<1>3. TablesAgree
  BY <1>1, <1>2 DEF TablesAgree
<1>4. PlacesAgree
  BY <1>1 DEF PlacesAgree, PlaceAgrees, Pushing, Ensuring, Tearing
<1>5. NothingFailed
  BY <1>1 DEF NothingFailed, Unfailed
<1>6. OneSlot /\ DeploysAgree
  BY <1>1 DEF OneSlot, DeploysAgree, Slotted, Ensuring, Procs
<1>7. QED
  BY <1>3, <1>4, <1>5, <1>6 DEF Agree

LEMMA AgreeInductive == DeliveryInv /\ PlaceInv /\ Agree /\ [Next]_vars => Agree'
<1> SUFFICES ASSUME DeliveryInv, PlaceInv, Agree, [Next]_vars PROVE Agree'
  OBVIOUS
<1>1. CASE UNCHANGED vars
  <2>1. UNCHANGED <<head, sent, at, env, event, lost, dep, failures>>
    BY <1>1 DEF vars, calm, github, handling, tables
  <2>2. QED
    BY <2>1 DEF Agree, TablesAgree, PlacesAgree, PlaceAgrees, NothingFailed, Unfailed, OneSlot,
       DeploysAgree, Created, DeliveryAt
<1>2. QED
  BY <1>1, PushAgrees, DeleteAgrees, DeployAgrees, GithubAgrees, ReceiveAgrees, CrashAgrees
  DEF Next, Crashes

-----------------------------------------------------------------------------
(* A step that clones and runs nothing for the branch.                     *)

Steady(b) ==
    /\ \A d \in DOMAIN sent : d \in DOMAIN sent' /\ sent'[d] = sent[d]
    /\ head[b] <= head'[b] /\ vhost'[b] = vhost[b] /\ container'[b] = container[b]
    /\ \A x \in Builds(b) :
         /\ x \in Builds(b)' /\ dep'[x] = dep[x] /\ sha'[x] = sha[x]
         /\ at'[x] = at[x] \/ (at[x] \in Waiting /\ at'[x] \in Waiting)
    /\ \A x \in Builds(b)' : x \in Builds(b) \/ at'[x] = "created"
\* Of the branch's handlers h moves, if any.
OnlyMoves(b, h) ==
    /\ HandledFor(b)' \subseteq HandledFor(b) \cup {h}
    /\ \A g \in HandledFor(b) :
         g \in HandledFor(b)' /\ (g # h => at'[g] = at[g] /\ env'[g] = env[g])
RowsGrow(b) ==
    /\ DeliveredTo(b)' # {} => alive'[b]
    /\ \A d \in DeliveredTo(b)' \cap Deliveries :
         event'[d]["preview"] \in {"received", "processed"} => domain'[b]
    /\ inst'[b] \in {"none", "active"} /\ (domain'[b] => inst'[b] = "active")
    /\ (domain[b] => domain'[b]) /\ (inst[b] = "active" => inst'[b] = "active")
    /\ Builds(b)' # {} => domain'[b]
\* Where h may arrive.
Arrives(b, h) ==
    h \in HandledFor(b)' =>
      /\ at'[h] # "reactivate" /\ (at'[h] \in {"domain", "newdomain"} => inst'[b] = "active")
      /\ at'[h] \in {"claim", "create", "mark"} /\ env'[h] = "preview" => domain'[b]
      /\ at'[h] \in {"insert", "newdomain"} => h \in HandledFor(b) /\ AllHave(b, DeliveryOf[h])
      /\ ~DeliveryAt(h)'.ignored /\ Past(h)' => Settled(b, DeliveryOf[h])'
\* Who is about to create a deployment creates it.
Creates(b, h) ==
    h \in HandledFor(b) /\ at[h] = "create" /\ env[h] = "preview" =>
      \/ at'[h] = "create" /\ env'[h] = "preview"
      \/ \E x \in Builds(b)' : at'[x] \in Waiting

\* What is at work after such a step was at work before.
LEMMA SteadyBuild ==
    ASSUME NEW b \in Branches, Steady(b), NEW x \in Builds(b)', at'[x] \in Cloned
    PROVE  x \in Builds(b) /\ at'[x] = at[x] /\ dep'[x] = dep[x] /\ sha'[x] = sha[x]
BY DEF Steady, Cloned, Building, Waiting

LEMMA SteadyHas ==
    ASSUME NEW b \in Branches, Steady(b), NEW d \in DeliveredTo(b), AllHave(b, d)
    PROVE  AllHave(b, d)'
<1>1. sent'[d] = sent[d]
  BY DEF Steady, DeliveredTo
<1>2. QED
  BY <1>1, SteadyBuild DEF AllHave

LEMMA BuildTypes ==
    ASSUME PlaceInv, TablesAgree, NEW b \in Branches, NEW x \in Builds(b)
    PROVE  /\ x \in Deployments /\ dep[x].delivery \in DeliveredTo(b)
           /\ sent[dep[x].delivery].commit \in Nat /\ sha[x] \in Nat /\ head[b] \in Nat
<1>1. x \in Created /\ x \in Deployments /\ dep[x].branch = b
  BY DEF Builds, Created
<1>2. dep[x].delivery \in DOMAIN sent /\ sent[dep[x].delivery].branch = b
  BY <1>1 DEF TablesAgree
<1>3. sent[dep[x].delivery] \in Content
  BY <1>2 DEF PlaceInv, Stored
<1>4. QED
  BY <1>1, <1>2, <1>3 DEF PlaceInv, Stored, DeliveredTo, Content

LEMMA SteadyImproves ==
    ASSUME PlaceInv, PlaceInv', TablesAgree, NEW b \in Branches, Steady(b), BuildsImprove(b)
    PROVE  BuildsImprove(b)'
<1>1. ASSUME NEW x \in Builds(b)', at'[x] \in Cloned
      PROVE  sent'[dep'[x].delivery].commit <= sha'[x] /\ sha'[x] <= head'[b]
  <2>1. x \in Builds(b) /\ at'[x] = at[x] /\ dep'[x] = dep[x] /\ sha'[x] = sha[x]
    BY <1>1, SteadyBuild
  <2>2. /\ sent[dep[x].delivery].commit <= sha[x] /\ sha[x] <= head[b]
        /\ sha[x] \in Nat /\ head[b] \in Nat /\ dep[x].delivery \in DOMAIN sent
    BY <1>1, <2>1, BuildTypes DEF BuildsImprove, DeliveredTo
  <2>3. head'[b] \in Nat /\ head[b] <= head'[b] /\ sent'[dep[x].delivery] = sent[dep[x].delivery]
    BY <2>2 DEF PlaceInv, Stored, Steady
  <2>4. QED
    BY <2>1, <2>2, <2>3
<1>2. \A x, y \in Builds(b)' : at'[x] \in Building /\ at'[y] = "live" => sha'[y] <= sha'[x]
  BY SteadyBuild DEF BuildsImprove, Cloned
<1>3. \A x \in Builds(b)' : at'[x] = "swap" => vhost'[b]
  BY SteadyBuild DEF BuildsImprove, Cloned, Building, Steady
<1>4. ASSUME NEW x \in Builds(b)', at'[x] = "live"
      PROVE  /\ container'[b] \in Builds(b)' /\ at'[container'[b]] = "live"
             /\ sha'[x] <= sha'[container'[b]] /\ vhost'[b]
  <2>1. x \in Builds(b) /\ at[x] = "live" /\ sha'[x] = sha[x]
    BY <1>4, SteadyBuild DEF Cloned
  <2>2. /\ container[b] \in Builds(b) /\ at[container[b]] = "live"
        /\ sha[x] <= sha[container[b]] /\ vhost[b]
    BY <2>1 DEF BuildsImprove
  <2>3. /\ container[b] \in Builds(b)' /\ at'[container[b]] = "live"
        /\ sha'[container[b]] = sha[container[b]]
    BY <2>2 DEF Steady, Waiting
  <2>4. QED
    BY <2>1, <2>2, <2>3 DEF Steady
<1>5. QED
  BY <1>1, <1>2, <1>3, <1>4 DEF BuildsImprove

\* What is settled stays so.
LEMMA SettledStays ==
    ASSUME PlaceInv, NEW b \in Branches, Steady(b), NEW h, OnlyMoves(b, h), RowsGrow(b),
           Creates(b, h), NEW d \in DeliveredTo(b), Settled(b, d)
    PROVE  Settled(b, d)'
<1>1. sent'[d] = sent[d]
  BY DEF Steady, DeliveredTo
<1>2. CASE AllHave(b, d) /\ inst[b] = "active"
  BY <1>2, SteadyHas DEF RowsGrow, Settled
<1>3. ASSUME NEW x \in Builds(b),
             at[x] \in Waiting \/ (at[x] \in Cloned /\ sent[d].commit <= sha[x])
      PROVE  Settled(b, d)'
  BY <1>1, <1>3 DEF Steady, Settled
<1>4. ASSUME NEW g \in Handlers, DeliveryOf[g] = d, at[g] = "create", env[g] = "preview"
      PROVE  Settled(b, d)'
  <2>1. g \in HandledFor(b)
    BY <1>4 DEF HandledFor
  <2>2. CASE at'[g] = "create" /\ env'[g] = "preview"
    BY <1>4, <2>2 DEF Settled
  <2>3. CASE \E x \in Builds(b)' : at'[x] \in Waiting
    BY <2>3 DEF Settled
  <2>4. QED
    BY <1>4, <2>1, <2>2, <2>3 DEF OnlyMoves, Creates
<1>5. QED
  BY <1>2, <1>3, <1>4 DEF Settled

LEMMA ShippingStays ==
    ASSUME PlaceInv, PlaceInv', TablesAgree, NEW b \in Branches, Shipping(b), Steady(b),
           NEW h, OnlyMoves(b, h), RowsGrow(b), Arrives(b, h), Creates(b, h),
           inst'[b] = "active" => SomebodyBuilds(b)'
    PROVE  Shipping(b)'
<1>1. \A g \in HandledFor(b)' : g = h \/ (g \in HandledFor(b) /\ at'[g] = at[g] /\ env'[g] = env[g])
  BY DEF OnlyMoves
<1>2. RowsStay(b)'
  <2>1. \A x \in Builds(b)' : domain'[b] /\ at'[x] \in Waiting \cup Cloned
    BY DEF Shipping, RowsStay, RowsGrow, Steady, Waiting
  <2>2. ASSUME NEW g \in HandledFor(b)'
        PROVE  /\ at'[g] # "reactivate"
               /\ at'[g] \in {"domain", "newdomain"} => inst'[b] = "active"
               /\ at'[g] \in {"claim", "create", "mark"} /\ env'[g] = "preview" => domain'[b]
    BY <1>1 DEF Arrives, Shipping, RowsStay, RowsGrow
  <2>3. QED
    BY <2>1, <2>2 DEF RowsGrow, RowsStay
<1>3. BuildsImprove(b)'
  BY SteadyImproves DEF Shipping
<1>4. RacersAreEarly(b)'
  <2> SUFFICES ASSUME NEW g \in HandledFor(b)', at'[g] \in {"insert", "newdomain"}
               PROVE  AllHave(b, DeliveryOf[g])'
    BY DEF RacersAreEarly
  <2>1. g \in HandledFor(b) /\ AllHave(b, DeliveryOf[g])
    BY <1>1 DEF Arrives, Shipping, RacersAreEarly
  <2>2. QED
    BY <2>1, SteadyHas DEF HandledFor
<1>5. PushesSettled(b)'
  <2> SUFFICES ASSUME NEW g \in HandledFor(b)', ~DeliveryAt(g)'.ignored, Past(g)'
               PROVE  Settled(b, DeliveryOf[g])'
    BY DEF PushesSettled
  <2>1. CASE g = h
    BY <2>1 DEF Arrives
  <2>2. CASE g \in HandledFor(b) /\ at'[g] = at[g] /\ env'[g] = env[g]
    <3>1. DeliveryOf[g] \in DeliveredTo(b) /\ sent'[DeliveryOf[g]] = sent[DeliveryOf[g]]
      BY <2>2 DEF HandledFor, DeliveredTo, Steady
    <3>2. Past(g) /\ ~DeliveryAt(g).ignored
      BY <2>2, <3>1 DEF Past, DeliveryAt
    <3>3. Settled(b, DeliveryOf[g])
      BY <2>2, <3>2 DEF Shipping, PushesSettled
    <3>4. QED
      BY <3>1, <3>3, SettledStays
  <2>3. QED
    BY <1>1, <2>1, <2>2
<1>6. QED
  BY <1>2, <1>3, <1>4, <1>5 DEF Shipping

\* Who brings a build about goes on doing so, unless it is h.
LEMMA SomebodyStays ==
    ASSUME NEW b \in Branches, Steady(b), NEW h, OnlyMoves(b, h), domain'[b] = domain[b],
           \A g \in HandledFor(b) :
             g # h /\ at[g] = "claim" /\ env[g] = "preview" /\ EventOf(g) = "none"
               => EventOf(g)' = "none",
           Bringing(h, b) => Bringing(h, b)' \/ Builds(b)' # {},
           SomebodyBuilds(b)
    PROVE  SomebodyBuilds(b)'
<1>1. CASE Builds(b) # {}
  BY <1>1 DEF Steady, SomebodyBuilds
<1>2. ASSUME NEW g \in Handlers, Bringing(g, b) PROVE SomebodyBuilds(b)'
  <2>1. CASE g = h
    BY <1>2, <2>1 DEF SomebodyBuilds
  <2>2. CASE g # h
    BY <1>2, <2>2 DEF Bringing, OnlyMoves, SomebodyBuilds
  <2>3. QED
    BY <2>1, <2>2
<1>3. QED
  BY <1>1, <1>2 DEF SomebodyBuilds

\* A step elsewhere.
Elsewhere(b) ==
    /\ Steady(b) /\ Builds(b)' = Builds(b)
    /\ HandledFor(b)' = HandledFor(b)
    /\ \A g \in HandledFor(b) : at'[g] = at[g] /\ env'[g] = env[g]
    /\ inst'[b] = inst[b] /\ domain'[b] = domain[b]
    /\ DeliveredTo(b)' # {} => alive'[b]
    /\ \A d \in DeliveredTo(b)' \cap Deliveries :
         \/ d \in DeliveredTo(b) /\ event'[d]["preview"] = event[d]["preview"]
         \/ event'[d]["preview"] = "none"

LEMMA ElsewhereKeeps ==
    ASSUME PlaceInv, PlaceInv', TablesAgree, NEW b \in Branches, Shipping(b), Elsewhere(b)
    PROVE  Shipping(b)'
<1> DEFINE h == NoDep
<1>1. OnlyMoves(b, h)
  BY DEF Elsewhere, OnlyMoves
<1>2. RowsGrow(b)
  BY DEF Elsewhere, RowsGrow, Shipping, RowsStay
<1>3. Creates(b, h)
  BY DEF Elsewhere, Creates
<1>4. Arrives(b, h)
  <2> SUFFICES ASSUME h \in HandledFor(b), at'[h] = at[h], env'[h] = env[h]
               PROVE  Arrives(b, h)
    BY DEF Elsewhere, Arrives
  <2>1. DeliveryOf[h] \in DeliveredTo(b) /\ DeliveryAt(h)' = DeliveryAt(h) /\ (Past(h)' <=> Past(h))
    BY DEF HandledFor, DeliveredTo, Elsewhere, Steady, DeliveryAt, Past
  <2>2. ~DeliveryAt(h).ignored /\ Past(h) => Settled(b, DeliveryOf[h])'
    BY <1>1, <1>2, <1>3, <2>1, SettledStays DEF Shipping, PushesSettled, Elsewhere
  <2>3. QED
    BY <2>1, <2>2 DEF Arrives, Elsewhere, Shipping, RowsStay, RacersAreEarly
<1>5. inst'[b] = "active" => SomebodyBuilds(b)'
  <2>1. ASSUME NEW g \in HandledFor(b), env[g] = "preview", EventOf(g) = "none"
        PROVE  EventOf(g)' = "none"
    <3>1. DeliveryOf[g] \in DeliveredTo(b)' /\ DeliveryOf[g] \in Deliveries /\ env'[g] = env[g]
      BY IdAssumption DEF Elsewhere, HandledFor
    <3>2. QED
      BY <2>1, <3>1 DEF Elsewhere, EventOf
  <2>2. Bringing(h, b) => Bringing(h, b)'
    BY <2>1 DEF Bringing, Elsewhere
  <2>3. inst[b] = "active" => SomebodyBuilds(b)'
    BY <1>1, <2>1, <2>2, SomebodyStays DEF Elsewhere, Shipping
  <2>4. QED
    BY <2>3 DEF Elsewhere
<1>6. QED
  BY <1>1, <1>2, <1>3, <1>4, <1>5, ShippingStays DEF Elsewhere

\* Which steps are steps elsewhere.
LEMMA HandlersOf ==
    ASSUME PlaceInv, NEW b \in Branches, NEW h \in Handlers, at[h] # "idle"
    PROVE  /\ h \in HandledFor(b) <=> BranchOf(h) = b
           /\ DeliveryOf[h] \in DOMAIN sent /\ BranchOf(h) = sent[DeliveryOf[h]].branch
BY IdAssumption DEF PlaceInv, Known, HandledFor, DeliveredTo, BranchOf

\* What a step of a process leaves of a branch, when it is no build of it.
LEMMA WorksElsewhere ==
    ASSUME PlaceInv, TablesAgree, NEW b \in Branches, NEW p \in Procs, Works(p),
           vhost'[b] = vhost[b], container'[b] = container[b],
           p \in Builds(b) =>
             /\ sha'[p] = sha[p]
             /\ at'[p] = at[p] \/ (at[p] \in Waiting /\ at'[p] \in Waiting)
    PROVE  Steady(b)
<1>1. sent' = sent /\ head' = head /\ head[b] <= head'[b]
  BY DEF Works, PlaceInv, Stored
<1>2. ASSUME NEW x \in Builds(b)
      PROVE  /\ x \in Builds(b)' /\ dep'[x] = dep[x] /\ sha'[x] = sha[x]
             /\ at'[x] = at[x] \/ (at[x] \in Waiting /\ at'[x] \in Waiting)
  <2>1. x \in Created /\ x \in Deployments
    BY DEF Builds, Created
  <2>2. x \in Created' /\ dep'[x] = dep[x]
        /\ (x = p \/ at'[x] = at[x] \/ (at[x] = "created" /\ at'[x] = "queued"))
    BY <2>1, WorksDeployments
  <2>3. sha'[x] = sha[x]
    BY <2>1 DEF Works
  <2>4. QED
    BY <2>2, <2>3 DEF Builds, Waiting
<1>3. \A x \in Builds(b)' : x \in Builds(b) \/ at'[x] = "created"
  <2> SUFFICES ASSUME NEW x \in Builds(b)' PROVE x \in Builds(b) \/ at'[x] = "created"
    OBVIOUS
  <2>1. x \in Created' /\ x \in Deployments /\ dep'[x].env = "preview" /\ dep'[x].branch = b
    BY DEF Builds, Created
  <2>2. QED
    BY <2>1, WorksDeployments DEF Builds
<1>4. QED
  BY <1>1, <1>2, <1>3 DEF Steady

\* Another branch's step, or one that leaves the branch's rows and builds as they are.
LEMMA WorksAway ==
    ASSUME DeliveryInv, PlaceInv, TablesAgree, NEW b \in Branches, Shipping(b),
           NEW p \in Procs, Works(p), Steady(b),
           inst'[b] = inst[b], domain'[b] = domain[b],
           p \in Handlers => BranchOf(p) # b
    PROVE  Elsewhere(b)
<1>1. sent' = sent /\ alive' = alive /\ at[p] # "idle"
  BY DEF Works, Busy, HandlerBusy, DeployBusy, Slotted, Ensuring, Tearing
<1>2. p \in Handlers => p \notin HandledFor(b) /\ DeliveryOf[p] \notin DeliveredTo(b)
  BY <1>1, HandlersOf DEF DeliveredTo
<1>3. HandledFor(b)' = HandledFor(b)
  BY <1>1, <1>2 DEF HandledFor, DeliveredTo, Works
<1>4. \A g \in HandledFor(b) : at'[g] = at[g] /\ env'[g] = env[g]
  BY <1>2, IdAssumption DEF HandledFor, Works
<1>5. Builds(b)' = Builds(b)
  <2>1. ASSUME NEW x \in Builds(b)' PROVE x \in Builds(b)
    <3>1. x \in Created' /\ x \in Deployments /\ dep'[x].env = "preview" /\ dep'[x].branch = b
      BY DEF Builds, Created
    <3>2. ~(p \in Handlers /\ dep'[x] = [delivery |-> DeliveryOf[p], env |-> env[p],
                                         branch |-> BranchOf(p)])
      BY <3>1
    <3>3. QED
      BY <3>1, <3>2, WorksDeployments DEF Builds
  <2>2. QED
    BY <2>1 DEF Steady
<1>6. \A d \in DeliveredTo(b)' \cap Deliveries : d \in DeliveredTo(b) /\ event'[d] = event[d]
  BY <1>1, <1>2, IdAssumption DEF DeliveredTo, Works, Procs
<1>7. DeliveredTo(b)' # {} => alive'[b]
  BY <1>1 DEF DeliveredTo, Shipping, RowsStay
<1>8. QED
  BY <1>3, <1>4, <1>5, <1>6, <1>7 DEF Elsewhere

LEMMA SentElsewhere ==
    ASSUME PlaceInv, TablesAgree, NEW b \in Branches, Shipping(b),
           NEW m \in Content, sent' = Append(sent, m), head[b] <= head'[b],
           IF m.branch = b THEN alive'[b] ELSE alive'[b] = alive[b],
           UNCHANGED <<at, env, event, dep, inst, domain, sha, vhost, container>>
    PROVE  Elsewhere(b)
<1>1. /\ sent \in Seq(Content) /\ Len(sent) \in Nat
      /\ DOMAIN sent' = DOMAIN sent \cup {Len(sent) + 1} /\ Len(sent) + 1 \notin DOMAIN sent
      /\ \A d \in DOMAIN sent : sent'[d] = sent[d]
      /\ sent'[Len(sent) + 1] = m
  BY DEF PlaceInv, Stored
<1>2. \A d \in DeliveredTo(b)' : d \in DeliveredTo(b) \/ (d \notin DOMAIN sent /\ m.branch = b)
  BY <1>1 DEF DeliveredTo
<1>3. DeliveredTo(b) \subseteq DeliveredTo(b)'
  BY <1>1 DEF DeliveredTo
<1>4. HandledFor(b)' = HandledFor(b)
  BY <1>2, <1>3 DEF HandledFor, PlaceInv, Known
<1>5. Builds(b)' = Builds(b)
  BY DEF Builds, Created
<1>6. Steady(b)
  BY <1>1, <1>5 DEF Steady
<1>7. \A d \in DeliveredTo(b)' \cap Deliveries :
        \/ d \in DeliveredTo(b) /\ event'[d]["preview"] = event[d]["preview"]
        \/ event'[d]["preview"] = "none"
  BY <1>2 DEF TablesAgree, Envs
<1>8. DeliveredTo(b)' # {} => alive'[b]
  BY <1>2 DEF Shipping, RowsStay
<1>9. QED
  BY <1>4, <1>5, <1>6, <1>7, <1>8 DEF Elsewhere, HandledFor

LEMMA GithubShips ==
    ASSUME PlaceInv, PlaceInv', TablesAgree, NEW b \in Branches, Shipping(b), Clean(b)',
           NEW c \in Branches, Push(c) \/ DeleteBranch(c)
    PROVE  Shipping(b)'
<1>1. /\ head[c] \in Nat /\ head[c] + 1 \in Nat /\ head[b] \in Nat
      /\ head \in [Branches -> Nat] /\ alive \in [Branches -> BOOLEAN]
      /\ sent \in Seq(Content)
  BY DEF PlaceInv, Stored
<1>2. UNCHANGED <<at, env, event, dep, inst, domain, sha, vhost, container>>
  BY DEF Push, DeleteBranch, handling, tables, host
<1>3. CASE Push(c)
  <2> DEFINE n(i) == [kind |-> "push", branch |-> c, commit |-> head[c] + 1, ignored |-> i]
  <2>1. PICK i \in BOOLEAN : sent' = Append(sent, n(i))
    BY <1>3 DEF Push
  <2>2. n(i) \in Content /\ n(i).branch = c
    BY <1>1 DEF Content
  <2>3. head[b] <= head'[b] /\ (IF c = b THEN alive'[b] ELSE alive'[b] = alive[b])
    <3>1. /\ head' = [head EXCEPT ![c] = @ + 1] /\ alive' = [alive EXCEPT ![c] = TRUE]
      BY <1>3 DEF Push
    <3>2. head[b] <= head'[b]
      BY <1>1, <3>1
    <3>3. c = b => alive'[b]
      BY <1>1, <3>1
    <3>4. c # b => alive'[b] = alive[b]
      BY <1>1, <3>1
    <3>5. QED
      BY <3>2, <3>3, <3>4
  <2> HIDE DEF n
  <2>4. Elsewhere(b)
    BY <1>2, <2>1, <2>2, <2>3, SentElsewhere
  <2>5. QED
    BY <2>4, ElsewhereKeeps
<1>4. CASE DeleteBranch(c)
  <2> DEFINE n == [kind |-> "delete", branch |-> c, commit |-> 0, ignored |-> FALSE]
  <2>1. sent' = Append(sent, n)
    BY <1>4 DEF DeleteBranch
  <2>2. n \in Content /\ n.branch = c /\ n.kind = "delete"
    BY DEF Content
  <2>3. head[b] <= head'[b] /\ (c # b => alive'[b] = alive[b])
    <3>1. head' = head /\ alive' = [alive EXCEPT ![c] = FALSE]
      BY <1>4 DEF DeleteBranch
    <3>2. head[b] <= head'[b]
      BY <1>1, <3>1
    <3>4. c # b => alive'[b] = alive[b]
      BY <1>1, <3>1
    <3>5. QED
      BY <3>2, <3>4
  <2> HIDE DEF n
  <2>4. c # b
    <3>1. Len(sent) + 1 \in DOMAIN sent' /\ sent'[Len(sent) + 1] = n
      BY <1>1, <2>1, <2>2
    <3>2. QED
      BY <2>2, <3>1 DEF Clean, DeliveredTo
  <2>5. Elsewhere(b)
    BY <1>2, <2>1, <2>2, <2>3, <2>4, SentElsewhere
  <2>6. QED
    BY <2>5, ElsewhereKeeps
<1>5. QED
  BY <1>3, <1>4

\* A deployment that builds something else.
LEMMA OtherDeployShips ==
    ASSUME DeliveryInv, PlaceInv, PlaceInv', Agree, NEW b \in Branches, Shipping(b),
           NEW x \in Deployments, Deploy(x), x \notin Builds(b)
    PROVE  Shipping(b)'
<1>1. Works(x) /\ x \in Procs /\ x \notin Handlers
  BY DeployWorks, IdAssumption DEF Procs
<1>2. x \in Created /\ dep[x].env \in Envs
  BY <1>1 DEF Works, Busy, HandlerBusy, DeployBusy, Slotted, Ensuring, Tearing, Created, PlaceInv,
     Stored, Row
<1>3. BranchOf(x) = dep[x].branch /\ (dep[x].branch = b => dep[x].env = "production")
  BY <1>2 DEF BranchOf, Builds, Envs
<1>4. vhost'[b] = vhost[b] /\ container'[b] = container[b] /\ inst'[b] = inst[b]
      /\ domain'[b] = domain[b]
  <2>1. CASE dep[x].branch # b
    BY <1>1, <1>3, <2>1 DEF Works
  <2>2. CASE dep[x].env = "production"
    <3>1. ~Ensure(x) /\ ~Publish(x)
      BY <1>1, <2>2, EnsureWorks DEF Agree, DeploysAgree, Publish
    <3>2. UNCHANGED <<vhost, inst, domain>>
      BY <3>1 DEF Deploy, StartDeploy, Clone, Run, Provision, SwapIn, DeployFails, TrialFails,
         host, tables
    <3>3. container'[b] = container[b]
      <4>1. CASE SwapIn(x)
        <5>1. \E c : container' = [container EXCEPT !["production"] = c]
          BY <2>2, <4>1 DEF SwapIn, Swapped, TargetOf
        <5>2. QED
          BY <5>1, BranchAssumption DEF PlaceInv, Stored, Targets
      <4>2. CASE ~SwapIn(x)
        BY <3>1, <4>2 DEF Deploy, StartDeploy, Clone, Run, Provision, DeployFails, TrialFails, host
      <4>3. QED
        BY <4>1, <4>2
    <3>4. QED
      BY <3>2, <3>3
  <2>3. QED
    BY <1>3, <2>1, <2>2
<1>5. Steady(b)
  BY <1>1, <1>4, WorksElsewhere DEF Agree
<1>6. QED
  BY <1>1, <1>4, <1>5, WorksAway, ElsewhereKeeps DEF Agree

\* A deployment of the preview that waits for its turn and finds its rows.
LEMMA WaitingShips ==
    ASSUME DeliveryInv, PlaceInv, PlaceInv', Agree, [Next]_vars, failures' = 0,
           NEW b \in Branches, Shipping(b), NEW x \in Builds(b), StartDeploy(x) \/ Ensure(x)
    PROVE  Shipping(b)'
<1>1. x \in Deployments /\ x \in Procs /\ x \notin Handlers /\ dep[x].env = "preview"
      /\ BranchOf(x) = b
  BY IdAssumption DEF Builds, Created, Procs, BranchOf
<1>2. Works(x) /\ ~Fault("db")
  BY <1>1, DeployWorks, NoFailureYet DEF Deploy
<1>3. domain[b] /\ inst[b] = "active" /\ at[x] \in Waiting \cup Cloned
  BY DEF Shipping, RowsStay
<1>4. /\ at[x] \in Waiting /\ at'[x] \in Waiting
      /\ UNCHANGED <<vhost, container, inst, domain, sha>>
  <2>1. CASE StartDeploy(x)
    BY <1>1, <2>1 DEF StartDeploy, Goto, PlaceInv, Typed, Waiting, host, tables
  <2>2. CASE FindInstance(x)
    <3>1. at[x] = "ensure" /\ Onward(x, "domain") /\ UNCHANGED <<tables, sha, host>>
      BY <1>1, <1>2, <1>3, <2>2 DEF FindInstance, EnsureFails
    <3>2. QED
      BY <1>1, <3>1 DEF Onward, Goto, PlaceInv, Typed, Waiting, host, tables
  <2>3. CASE FindDomain(x)
    <3>1. at[x] = "domain" /\ Ensured(x) /\ UNCHANGED <<tables, sha, host>>
      BY <1>1, <1>2, <1>3, <2>3 DEF FindDomain, EnsureFails
    <3>2. QED
      BY <1>1, <3>1 DEF Ensured, Goto, PlaceInv, Typed, Waiting, host, tables
  <2>4. CASE Reactivate(x) \/ InsertInstance(x) \/ CreateDomain(x)
    BY <1>3, <2>4 DEF Reactivate, InsertInstance, CreateDomain, Waiting, Cloned, Building
  <2>5. QED
    BY <2>1, <2>2, <2>3, <2>4 DEF Ensure
<1>5. Steady(b)
  BY <1>1, <1>2, <1>4, WorksElsewhere DEF Agree
<1>6. QED
  BY <1>1, <1>2, <1>4, <1>5, WorksAway, ElsewhereKeeps DEF Agree

-----------------------------------------------------------------------------
(* A build of the branch goes on.                                          *)

Turns(b, x) ==
    /\ Builds(b)' = Builds(b) /\ at'[x] \in Cloned
    /\ \A y \in Builds(b) : y # x => at'[y] = at[y] /\ sha'[y] = sha[y]
    /\ \/ at[x] \in Cloned /\ sha'[x] = sha[x]
       \/ at[x] = "clone" /\ sha'[x] = head[b]
    /\ UNCHANGED <<sent, head, alive, inst, domain, event, dep, env>>
    /\ \A h \in Handlers : at'[h] = at[h]

LEMMA TurnsHave ==
    ASSUME PlaceInv, TablesAgree, NEW b \in Branches, NEW x \in Builds(b), Turns(b, x),
           NEW d \in DeliveredTo(b), AllHave(b, d)
    PROVE  AllHave(b, d)'
<1>1. sent[d].commit <= head[b]
  BY DEF TablesAgree, DeliveredTo
<1>2. QED
  BY <1>1 DEF AllHave, Turns

LEMMA TurnsShip ==
    ASSUME PlaceInv, TablesAgree, NEW b \in Branches, NEW x \in Builds(b), Turns(b, x),
           Shipping(b), BuildsImprove(b)'
    PROVE  Shipping(b)'
<1>1. /\ DeliveredTo(b)' = DeliveredTo(b) /\ HandledFor(b)' = HandledFor(b)
      /\ UNCHANGED <<sent, head, alive, inst, domain, event, dep, env>>
  BY DEF DeliveredTo, HandledFor, Turns
<1>2. \A h \in HandledFor(b) : at'[h] = at[h] /\ DeliveryOf[h] \in DeliveredTo(b)
  BY DEF HandledFor, Turns
<1>3. RowsStay(b)'
  BY <1>1, <1>2 DEF RowsStay, Shipping, Turns
<1>4. RacersAreEarly(b)'
  BY <1>1, <1>2, TurnsHave DEF RacersAreEarly, Shipping
<1>5. ASSUME NEW d \in DeliveredTo(b), Settled(b, d) PROVE Settled(b, d)'
  <2>1. sent[d].commit <= head[b]
    BY DEF TablesAgree, DeliveredTo
  <2>2. CASE AllHave(b, d) /\ inst[b] = "active"
    BY <1>1, <2>2, TurnsHave DEF Settled
  <2>3. ASSUME NEW y \in Builds(b),
               at[y] \in Waiting \/ (at[y] \in Cloned /\ sent[d].commit <= sha[y])
        PROVE  Settled(b, d)'
    <3>1. CASE y = x
      <4>1. at'[x] \in Cloned /\ sent[d].commit <= sha'[x]
        BY <2>1, <2>3, <3>1 DEF Turns, Cloned, Building, Waiting
      <4>2. QED
        BY <1>1, <4>1 DEF Settled, Turns
    <3>2. CASE y # x
      BY <1>1, <2>3, <3>2 DEF Settled, Turns
    <3>3. QED
      BY <3>1, <3>2
  <2>4. ASSUME NEW g \in Handlers, DeliveryOf[g] = d, at[g] = "create", env[g] = "preview"
        PROVE  Settled(b, d)'
    BY <1>1, <2>4 DEF Turns, Settled
  <2>5. QED
    BY <1>5, <2>2, <2>3, <2>4 DEF Settled
<1>6. PushesSettled(b)'
  BY <1>1, <1>2, <1>5 DEF PushesSettled, Shipping, Past, DeliveryAt
<1>7. SomebodyBuilds(b)'
  BY DEF SomebodyBuilds, Turns
<1>8. QED
  BY <1>3, <1>4, <1>6, <1>7 DEF Shipping

LEMMA BuildShips ==
    ASSUME DeliveryInv, PlaceInv, PlaceInv', Agree, [Next]_vars, failures' = 0,
           NEW b \in Branches, Shipping(b), NEW x \in Builds(b), Deploy(x)
    PROVE  Shipping(b)'
<1>1. /\ x \in Deployments /\ x \in Procs /\ x \notin Handlers /\ TargetOf(x) = b
      /\ dep[x].env = "preview" /\ dep[x].branch = b /\ Works(x) /\ TablesAgree
  BY DeployWorks, IdAssumption DEF Builds, Created, Procs, TargetOf, Agree
<1>2. CASE StartDeploy(x) \/ Ensure(x)
  BY <1>2, WaitingShips
<1>3. ~DeployFails(x) /\ ~TrialFails(x) /\ ~Fault("host")
  BY NoFailureYet DEF DeployFails, TrialFails
<1>4. CASE Clone(x) \/ Run(x) \/ Provision(x) \/ Publish(x) \/ SwapIn(x)
  <2>1. domain[b] /\ alive[b]
    BY <1>1, BuildTypes DEF Shipping, RowsStay
  <2>2. /\ UNCHANGED <<sent, head, alive, inst, domain, event, dep, env>>
        /\ \A p \in Procs \ {x} : at'[p] = at[p]
    BY <1>4 DEF Clone, Run, Provision, Publish, SwapIn, Goto, calm, github, handling, tables,
       PlaceInv, Typed
  <2>3. /\ at'[x] \in Cloned
        /\ \/ at[x] \in Cloned /\ sha'[x] = sha[x]
           \/ at[x] = "clone" /\ at'[x] = "run" /\ sha'[x] = head[b]
    <3>1. CASE Clone(x)
      BY <1>1, <2>1, <3>1 DEF Clone, Goto, PlaceInv, Typed, Stored, Cloned, Building
    <3>2. CASE Run(x) \/ Provision(x) \/ Publish(x) \/ SwapIn(x)
      BY <1>1, <3>2 DEF Run, Provision, Publish, SwapIn, Goto, PlaceInv, Typed, Cloned, Building
    <3>3. QED
      BY <1>4, <3>1, <3>2
  <2>4. Builds(b)' = Builds(b)
    <3>1. at'[x] # "none" /\ at[x] # "none"
      BY <2>3 DEF Cloned, Building
    <3>2. QED
      BY <2>2, <3>1 DEF Builds, Created, Procs
  <2>5. \A y \in Builds(b) : y # x => at'[y] = at[y] /\ sha'[y] = sha[y] /\ y \in Deployments
    BY <1>1, <2>2 DEF Works, Builds, Created, Procs
  <2>6. Turns(b, x)
    BY <1>1, <2>2, <2>3, <2>4, <2>5, IdAssumption DEF Turns, Procs
  <2>7. ASSUME NEW y \in Builds(b), at'[y] \in Cloned
        PROVE  sent'[dep'[y].delivery].commit <= sha'[y] /\ sha'[y] <= head'[b]
    <3>1. sent[dep[y].delivery].commit <= head[b] /\ head[b] \in Nat
      BY <1>1, BuildTypes DEF TablesAgree, DeliveredTo
    <3>2. QED
      BY <2>2, <2>3, <2>5, <2>7, <3>1 DEF Shipping, BuildsImprove
  <2>8. ASSUME NEW y \in Builds(b), NEW z \in Builds(b), at'[y] \in Building, at'[z] = "live"
        PROVE  sha'[z] <= sha'[y]
    <3>1. CASE y = x /\ z # x
      <4>1. CASE at[x] = "clone"
        BY <2>3, <2>5, <2>8, <3>1, <4>1 DEF Shipping, BuildsImprove, Cloned
      <4>2. CASE at[x] \in Cloned
        <5>1. at[x] # "live"
          BY <1>4 DEF Clone, Run, Provision, Publish, SwapIn
        <5>2. QED
          BY <2>3, <2>5, <2>8, <3>1, <4>2, <5>1 DEF Shipping, BuildsImprove, Cloned
      <4>3. QED
        BY <2>3, <4>1, <4>2
    <3>2. CASE y # x /\ z = x
      <4>1. SwapIn(x)
        BY <1>1, <1>4, <2>1, <2>8, <3>2 DEF Clone, Run, Provision, Publish, Goto, PlaceInv, Typed
      <4>2. at[y] \in Slotted /\ at[x] \in Slotted /\ y \in Deployments
        BY <2>5, <2>8, <3>2, <4>1 DEF SwapIn, Slotted, Building
      <4>3. QED
        BY <1>1, <3>2, <4>2 DEF Agree, OneSlot
    <3>3. CASE y # x /\ z # x
      BY <2>5, <2>8, <3>3 DEF Shipping, BuildsImprove
    <3>4. CASE y = x /\ z = x
      BY <2>8, <3>4 DEF Building
    <3>5. QED
      BY <3>1, <3>2, <3>3, <3>4
  <2>9. vhost[b] => vhost'[b]
    BY <1>1, <1>4 DEF Clone, Run, Provision, Publish, SwapIn, PlaceInv, Stored, host
  <2>10. ASSUME NEW y \in Builds(b), at'[y] = "swap" PROVE vhost'[b]
    <3>1. CASE y = x
      <4>1. Publish(x)
        BY <1>1, <1>4, <2>1, <2>10, <3>1 DEF Clone, Run, Provision, SwapIn, Goto, PlaceInv, Typed
      <4>2. QED
        BY <1>1, <4>1 DEF Publish, PlaceInv, Stored
    <3>2. CASE y # x
      BY <2>5, <2>9, <2>10, <3>2 DEF Shipping, BuildsImprove
    <3>3. QED
      BY <3>1, <3>2
  <2>11. ASSUME NEW y \in Builds(b), at'[y] = "live"
         PROVE  /\ container'[b] \in Builds(b) /\ at'[container'[b]] = "live"
                /\ sha'[y] <= sha'[container'[b]] /\ vhost'[b]
    <3>1. CASE SwapIn(x)
      <4>1. container'[b] = x /\ at'[x] = "live" /\ at[x] = "swap" /\ sha' = sha
        BY <1>1, <1>3, <3>1 DEF SwapIn, Swapped, Goto, PlaceInv, Typed, Stored, Targets
      <4>2. vhost'[b]
        BY <2>9, <4>1 DEF Shipping, BuildsImprove
      <4>3. sha[y] <= sha[x]
        <5>1. sha[x] \in Nat /\ sha[x] <= sha[x]
          BY BuildTypes, <1>1
        <5>2. QED
          BY <2>5, <2>11, <4>1, <5>1 DEF Shipping, BuildsImprove, Building
      <4>4. QED
        BY <4>1, <4>2, <4>3
    <3>2. CASE ~SwapIn(x)
      <4>1. at'[x] # "live" /\ container' = container /\ at[x] # "live"
        BY <1>1, <1>4, <2>1, <3>2 DEF Clone, Run, Provision, Publish, Goto, PlaceInv, Typed, host
      <4>2. y # x /\ at[y] = "live"
        BY <2>5, <2>11, <4>1
      <4>3. /\ container[b] \in Builds(b) /\ at[container[b]] = "live"
            /\ sha[y] <= sha[container[b]] /\ vhost[b]
        BY <4>2 DEF Shipping, BuildsImprove
      <4>4. QED
        BY <2>5, <2>9, <4>1, <4>2, <4>3
    <3>3. QED
      BY <3>1, <3>2
  <2>12. BuildsImprove(b)'
    BY <2>4, <2>7, <2>8, <2>10, <2>11 DEF BuildsImprove
  <2>13. QED
    BY <1>1, <2>6, <2>12, TurnsShip
<1>5. QED
  BY <1>2, <1>3, <1>4 DEF Deploy

-----------------------------------------------------------------------------
(* A handler of a push to the branch.                                      *)

LEMMA PushOnBranch ==
    ASSUME DeliveryInv, PlaceInv, Agree, NEW b \in Branches, Shipping(b),
           NEW h \in HandledFor(b), HandlePush(h)
    PROVE  /\ h \in Handlers /\ h \in Procs /\ h \in HandledFor(b)' /\ BranchOf(h) = b
           /\ DeliveryOf[h] \in DeliveredTo(b) \cap Deliveries /\ env[h] \in Envs
           /\ Steady(b) /\ OnlyMoves(b, h) /\ DeliveredTo(b)' = DeliveredTo(b)
           /\ sent' = sent /\ alive'[b] /\ inst[b] \in {"none", "active"}
           /\ \A d \in Deliveries \ {DeliveryOf[h]} : event'[d] = event[d]
<1>1. h \in Handlers /\ at[h] # "idle" /\ DeliveryOf[h] \in DeliveredTo(b)
  BY DEF HandledFor
<1>2. Works(h) /\ h \in Procs /\ h \notin Deployments /\ DeliveryOf[h] \in Deliveries
      /\ env[h] \in Envs
  BY <1>1, HandlePushWorks, Handled, IdAssumption
<1>3. sent' = sent /\ alive' = alive /\ DeliveredTo(b)' = DeliveredTo(b)
  BY <1>2 DEF Works, DeliveredTo
<1>4. at'[h] # "idle"
  BY <1>1, PushPlaces DEF Agree, Pushing, Ensuring
<1>5. UNCHANGED <<vhost, container>>
  <2>1. CASE Ensure(h)
    BY <1>2, <2>1, EnsureWorks
  <2>2. CASE ~Ensure(h)
    BY <2>2 DEF HandlePush, SkipFiltered, Claim, CreateDeployment, MarkFailed, MarkProcessed, host
  <2>3. QED
    BY <2>1, <2>2
<1>6. h \notin Builds(b)
  BY <1>2 DEF Builds, Created
<1>7. Steady(b)
  BY <1>2, <1>5, <1>6, WorksElsewhere DEF Agree
<1>8. OnlyMoves(b, h)
  BY <1>2, <1>3, <1>4 DEF OnlyMoves, HandledFor, Works
<1>9. h \in HandledFor(b)'
  BY <1>1, <1>3, <1>4 DEF HandledFor
<1>10. QED
  BY <1>1, <1>2, <1>3, <1>7, <1>8, <1>9, HandlersOf DEF Shipping, RowsStay, Works

\* A handler ensures the preview's rows.
LEMMA EnsureShips ==
    ASSUME DeliveryInv, PlaceInv, PlaceInv', Agree, [Next]_vars, failures' = 0,
           NEW b \in Branches, Shipping(b), NEW h \in HandledFor(b), Ensure(h)
    PROVE  Shipping(b)'
<1>1. HandlePush(h)
  BY DEF HandlePush
<1>2. /\ h \in Handlers /\ h \in Procs /\ h \in HandledFor(b)' /\ BranchOf(h) = b
      /\ DeliveryOf[h] \in DeliveredTo(b) \cap Deliveries /\ env[h] = "preview"
      /\ Steady(b) /\ OnlyMoves(b, h) /\ DeliveredTo(b)' = DeliveredTo(b)
      /\ sent' = sent /\ alive'[b] /\ inst[b] \in {"none", "active"}
  BY <1>1, PushOnBranch, EnsureWorks DEF Agree, PlacesAgree, PlaceAgrees
<1>3. /\ at[h] \in Ensuring /\ event' = event /\ ~Fault("db") /\ TablesAgree /\ Typed
      /\ h \notin Deployments
  BY <1>2, EnsureWorks, EnsureMoves, NoFailureYet, IdAssumption
  DEF MovesOn, PlaceInv, Agree
<1>4. Creates(b, h)
  BY <1>3 DEF Creates, Ensuring
<1>5. Builds(b)' \subseteq Builds(b)
  <2>1. \A x \in Builds(b)' : at'[x] # "created" \/ x \in Builds(b)
    <3>1. Works(h) /\ at[h] # "create"
      BY <1>2, <1>3, EnsureWorks DEF Ensuring
    <3>2. ASSUME NEW x \in Deployments, at'[x] = "created" PROVE x \in Created
      <4>1. x \in Created'
        BY <3>2 DEF Created
      <4>2. QED
        BY <1>2, <3>1, <4>1, WorksDeployments
    <3>3. \A x \in Deployments : dep'[x] = dep[x]
      BY <1>3, <3>1 DEF Works
    <3>4. QED
      BY <3>2, <3>3 DEF Builds, Created
  <2>2. QED
    BY <1>2, <2>1 DEF Steady
<1>6. \A d \in DeliveredTo(b) \cap Deliveries :
        event'[d]["preview"] \in {"received", "processed"} => domain[b]
  BY <1>3 DEF Shipping, RowsStay
<1>7. ~Bringing(h, b) /\ domain'[b] = domain[b] /\ SomebodyBuilds(b) => SomebodyBuilds(b)'
  <2>1. \A g \in HandledFor(b) : g # h => EventOf(g)' = EventOf(g)
    BY <1>2, <1>3 DEF OnlyMoves, EventOf
  <2>2. QED
    BY <1>2, <2>1, SomebodyStays
<1>8. inst[b] = "active" => SomebodyBuilds(b)
  BY DEF Shipping
<1>9. ~DeliveryAt(h).ignored /\ DeliveryAt(h)' = DeliveryAt(h)
  BY <1>2, <1>3 DEF Agree, PlacesAgree, PlaceAgrees, Pushing, DeliveryAt
\* The race is lost: the handler goes on to its next target.
<1>10. ASSUME at[h] \in {"insert", "newdomain"}, at[h] = "newdomain" => domain[b],
              NextTarget(h), inst[b] = "active", inst' = inst, domain' = domain
       PROVE  Shipping(b)'
  <2>1. RowsGrow(b)
    BY <1>2, <1>5, <1>6, <1>10 DEF RowsGrow, Shipping, RowsStay
  <2>2. AllHave(b, DeliveryOf[h])
    BY <1>10 DEF Shipping, RacersAreEarly
  <2>3. Settled(b, DeliveryOf[h])'
    BY <1>2, <1>10, <2>2, SteadyHas DEF Settled
  <2>4. Arrives(b, h)
    BY <1>2, <1>3, <1>10, <2>3, NextTargetTo DEF Arrives
  <2>5. ~Bringing(h, b)
    BY <1>10 DEF Bringing
  <2>6. QED
    BY <1>2, <1>3, <1>4, <1>7, <1>8, <1>10, <2>1, <2>4, <2>5, ShippingStays
<1>11. CASE FindInstance(h)
  <2>1. at[h] = "ensure" /\ inst' = inst /\ domain' = domain /\ env' = env
    BY <1>3, <1>11 DEF FindInstance, EnsureFails, Onward, tables
  <2>2. IF inst[b] = "none" THEN at'[h] = "insert" ELSE at'[h] = "domain"
    BY <1>2, <1>3, <1>11 DEF FindInstance, EnsureFails, Onward, Goto, Typed
  <2>3. RowsGrow(b)
    BY <1>2, <1>5, <1>6, <2>1 DEF RowsGrow, Shipping, RowsStay
  <2>4. inst[b] = "none" => AllHave(b, DeliveryOf[h])
    BY DEF Shipping, RowsStay, AllHave
  <2>5. Arrives(b, h)
    BY <1>2, <2>1, <2>2, <2>4 DEF Arrives, Past
  <2>6. ~Bringing(h, b)
    BY <2>1 DEF Bringing
  <2>7. QED
    BY <1>2, <1>3, <1>4, <1>7, <1>8, <2>1, <2>3, <2>5, <2>6, ShippingStays
<1>12. CASE Reactivate(h)
  BY <1>12 DEF Reactivate, Shipping, RowsStay
<1>13. CASE InsertInstance(h)
  <2>1. CASE inst[b] = "none"
    <3>1. /\ inst' = [inst EXCEPT ![b] = "active"] /\ Onward(h, "domain")
          /\ domain' = domain
      BY <1>2, <1>3, <1>13, <2>1 DEF InsertInstance, EnsureFails
    <3>2. inst'[b] = "active" /\ at'[h] = "domain" /\ env' = env /\ ~domain'[b]
      BY <1>2, <1>3, <2>1, <3>1 DEF Onward, Goto, Typed, PlaceInv, Stored, Shipping, RowsStay
    <3>3. RowsGrow(b)
      BY <1>2, <1>5, <1>6, <3>1, <3>2 DEF RowsGrow, Shipping, RowsStay
    <3>4. Arrives(b, h)
      BY <3>2 DEF Arrives, Past
    <3>5. SomebodyBuilds(b)'
      BY <1>2, <3>2 DEF SomebodyBuilds, Bringing
    <3>6. QED
      BY <1>2, <1>3, <1>4, <3>3, <3>4, <3>5, ShippingStays
  <2>2. CASE inst[b] # "none"
    <3>1. at[h] = "insert" /\ NextTarget(h) /\ inst' = inst /\ domain' = domain
      BY <1>2, <1>3, <1>13, <2>2 DEF InsertInstance, EnsureFails, NotEnsured
    <3>2. QED
      BY <1>2, <1>10, <2>2, <3>1
  <2>3. QED
    BY <2>1, <2>2
<1>14. CASE FindDomain(h)
  <2>1. at[h] = "domain" /\ inst' = inst /\ domain' = domain /\ inst[b] = "active"
    BY <1>14 DEF FindDomain, tables, Shipping, RowsStay
  <2>2. RowsGrow(b)
    BY <1>2, <1>5, <1>6, <2>1 DEF RowsGrow, Shipping, RowsStay
  <2>3. /\ env' = env
        /\ IF domain[b] THEN at'[h] = "claim" ELSE at'[h] = "newdomain"
    BY <1>2, <1>3, <1>14 DEF FindDomain, EnsureFails, Ensured, Onward, Goto, Typed
  <2>4. ~domain[b] => AllHave(b, DeliveryOf[h])
    BY DEF Shipping, RowsStay, AllHave
  <2>5. Arrives(b, h)
    BY <1>2, <2>1, <2>3, <2>4 DEF Arrives, Past
  <2>6. SomebodyBuilds(b)'
    <3>1. CASE domain[b]
      <4>1. ~Bringing(h, b)
        BY <2>1, <3>1 DEF Bringing
      <4>2. QED
        BY <1>7, <1>8, <2>1, <4>1
    <3>2. CASE ~domain[b]
      BY <1>2, <2>1, <2>3, <3>2 DEF SomebodyBuilds, Bringing
    <3>3. QED
      BY <3>1, <3>2
  <2>7. QED
    BY <1>2, <1>3, <1>4, <2>2, <2>5, <2>6, ShippingStays
<1>15. CASE CreateDomain(h)
  <2>1. CASE ~domain[b]
    <3>1. /\ domain' = [domain EXCEPT ![b] = TRUE] /\ Ensured(h) /\ inst' = inst
          /\ inst[b] = "active"
      BY <1>2, <1>3, <1>15, <2>1 DEF CreateDomain, EnsureFails, Shipping, RowsStay
    <3>2. domain'[b] /\ at'[h] = "claim" /\ env' = env
      BY <1>2, <1>3, <3>1 DEF Ensured, Goto, Typed, PlaceInv, Stored
    <3>3. event[DeliveryOf[h]]["preview"] = "none"
      <4>1. event[DeliveryOf[h]]["preview"] \in Statuses
        BY <1>2, <1>3 DEF Typed, Envs
      <4>2. event[DeliveryOf[h]]["preview"] \notin {"received", "processed"}
        BY <1>2, <1>3, <1>6, <2>1
      <4>3. event[DeliveryOf[h]]["preview"] # "ignored"
        BY <1>2, <1>3, <1>9 DEF TablesAgree, Envs, DeliveryAt
      <4>4. event[DeliveryOf[h]]["preview"] # "failed"
        BY <1>2, NoFailureYet DEF Agree, NothingFailed, Unfailed, Envs
      <4>5. QED
        BY <4>1, <4>2, <4>3, <4>4 DEF Statuses
    <3>4. RowsGrow(b)
      BY <1>2, <1>5, <1>6, <3>1, <3>2 DEF RowsGrow
    <3>5. Arrives(b, h)
      BY <1>2, <3>2 DEF Arrives, Past
    <3>6. SomebodyBuilds(b)'
      BY <1>2, <1>3, <3>2, <3>3 DEF SomebodyBuilds, Bringing, EventOf
    <3>7. QED
      BY <1>2, <1>3, <1>4, <3>4, <3>5, <3>6, ShippingStays
  <2>2. CASE domain[b]
    <3>1. /\ at[h] = "newdomain" /\ NextTarget(h) /\ inst' = inst /\ domain' = domain
          /\ inst[b] = "active"
      BY <1>2, <1>3, <1>15, <2>2 DEF CreateDomain, EnsureFails, NotEnsured, Shipping, RowsStay
    <3>2. QED
      BY <1>2, <1>10, <2>2, <3>1
  <2>3. QED
    BY <2>1, <2>2
<1>16. QED
  BY <1>11, <1>12, <1>13, <1>14, <1>15 DEF Ensure

\* The other steps of a handler of a push leave the rows as they are.
LEMMA RowsAsTheyAre ==
    ASSUME DeliveryInv, PlaceInv, Agree, [Next]_vars, failures' = 0, NEW b \in Branches,
           Shipping(b), NEW h \in HandledFor(b), HandlePush(h), inst' = inst, domain' = domain,
           domain[b] \/ Builds(b)' \subseteq Builds(b),
           event'[DeliveryOf[h]]["preview"] \in {"received", "processed"} =>
             \/ event'[DeliveryOf[h]]["preview"] = event[DeliveryOf[h]]["preview"]
             \/ domain[b]
    PROVE  RowsGrow(b)
<1>1. /\ sent' = sent /\ alive'[b] /\ inst[b] \in {"none", "active"}
      /\ DeliveredTo(b)' = DeliveredTo(b)
      /\ \A d \in Deliveries \ {DeliveryOf[h]} : event'[d] = event[d]
  BY PushOnBranch
<1>2. \A d \in DeliveredTo(b) \cap Deliveries :
        event'[d]["preview"] \in {"received", "processed"} => domain[b]
  BY <1>1 DEF Shipping, RowsStay
<1>3. QED
  BY <1>1, <1>2 DEF RowsGrow, Shipping, RowsStay

\* A build is made, or somebody else goes on bringing one about.
LEMMA BringersStay ==
    ASSUME DeliveryInv, PlaceInv, Agree, NEW b \in Branches,
           Shipping(b), NEW h \in HandledFor(b), HandlePush(h), domain' = domain, inst' = inst,
           ~Bringing(h, b) \/ Builds(b)' # {},
           \/ event'[DeliveryOf[h]]["preview"] = event[DeliveryOf[h]]["preview"]
           \/ \A g \in HandledFor(b) : DeliveryOf[g] = DeliveryOf[h] => ~(at[g] = "claim"
                /\ env[g] = "preview" /\ EventOf(g) = "none" /\ g # h)
    PROVE  inst'[b] = "active" => SomebodyBuilds(b)'
<1>1. /\ Steady(b) /\ OnlyMoves(b, h)
      /\ \A d \in Deliveries \ {DeliveryOf[h]} : event'[d] = event[d]
  BY PushOnBranch
<1>2. ASSUME NEW g \in HandledFor(b), g # h, at[g] = "claim", env[g] = "preview",
             EventOf(g) = "none"
      PROVE  EventOf(g)' = "none"
  <2>1. env'[g] = env[g] /\ DeliveryOf[g] \in Deliveries
    BY <1>1, <1>2, IdAssumption DEF OnlyMoves, HandledFor
  <2>2. QED
    BY <1>1, <1>2, <2>1 DEF EventOf
<1>3. inst[b] = "active" => SomebodyBuilds(b)
  BY DEF Shipping
<1>4. QED
  BY <1>1, <1>2, <1>3, SomebodyStays

\* The build filter ignores the push.
LEMMA SkipShips ==
    ASSUME DeliveryInv, PlaceInv, PlaceInv', Agree, [Next]_vars, failures' = 0,
           NEW b \in Branches, Shipping(b), NEW h \in HandledFor(b), SkipFiltered(h)
    PROVE  Shipping(b)'
<1>1. HandlePush(h) /\ TablesAgree
  BY DEF HandlePush, Agree
<1>2. /\ h \in Handlers /\ h \in Procs /\ BranchOf(h) = b /\ DeliveryOf[h] \in Deliveries
      /\ Steady(b) /\ OnlyMoves(b, h) /\ sent' = sent
  BY <1>1, PushOnBranch
<1>3. /\ at[h] = "skip" /\ at'[h] = "over" /\ inst' = inst /\ domain' = domain /\ dep' = dep
      /\ h \notin Deployments /\ \A p \in Procs \ {h} : at'[p] = at[p]
  BY <1>2, IdAssumption DEF SkipFiltered, Goto, PlaceInv, Typed
<1>4. sent[DeliveryOf[h]].ignored
  BY <1>2, <1>3 DEF Agree, PlacesAgree, PlaceAgrees, DeliveryAt
<1>5. event'[DeliveryOf[h]]["preview"] = event[DeliveryOf[h]]["preview"]
      \/ event'[DeliveryOf[h]]["preview"] = "ignored"
  BY <1>1, <1>2, <1>3, EventsWritten DEF Envs
<1>6. Builds(b)' \subseteq Builds(b)
  BY <1>3 DEF Builds, Created, Procs
<1>7. RowsGrow(b)
  BY <1>1, <1>3, <1>5, <1>6, RowsAsTheyAre
<1>8. Arrives(b, h)
  BY <1>2, <1>3, <1>4 DEF Arrives, DeliveryAt
<1>9. ~Bringing(h, b) /\ Creates(b, h)
  BY <1>3 DEF Bringing, Creates
<1>10. \A g \in HandledFor(b) : DeliveryOf[g] = DeliveryOf[h] => at[g] # "claim"
  BY <1>4 DEF HandledFor, Agree, PlacesAgree, PlaceAgrees, DeliveryAt, Pushing
<1>11. inst'[b] = "active" => SomebodyBuilds(b)'
  BY <1>1, <1>3, <1>9, <1>10, BringersStay
<1>12. QED
  BY <1>1, <1>2, <1>7, <1>8, <1>9, <1>11, ShippingStays

\* The claim is made, or was made before: then its deployment is there, or comes.
LEMMA ClaimShips ==
    ASSUME DeliveryInv, PlaceInv, PlaceInv', Agree, [Next]_vars, failures' = 0,
           NEW b \in Branches, Shipping(b), NEW h \in HandledFor(b), Claim(h)
    PROVE  Shipping(b)'
<1>1. HandlePush(h) /\ TablesAgree /\ ~Fault("db")
  BY NoFailureYet DEF HandlePush, Agree
<1>2. /\ h \in Handlers /\ h \in Procs /\ BranchOf(h) = b /\ env[h] \in Envs
      /\ DeliveryOf[h] \in DeliveredTo(b) \cap Deliveries
      /\ Steady(b) /\ OnlyMoves(b, h) /\ sent' = sent /\ h \in HandledFor(b)'
  BY <1>1, PushOnBranch
<1>3. at[h] = "claim" /\ inst' = inst /\ domain' = domain /\ dep' = dep /\ h \notin Deployments
  BY <1>2, IdAssumption DEF Claim
<1>4. Typed /\ ~sent[DeliveryOf[h]].ignored /\ (env[h] = "preview" => domain[b])
  BY <1>2, <1>3 DEF PlaceInv, Agree, PlacesAgree, PlaceAgrees, DeliveryAt, Pushing, Shipping,
     RowsStay
<1>5. Creates(b, h)
  BY <1>3 DEF Creates
<1>6. Builds(b)' \subseteq Builds(b)
  <2>1. \A x \in Deployments : at'[x] = at[x]
    <3>1. CASE NextTarget(h)
      BY <1>2, <1>3, <1>4, <3>1, NextTargetAt DEF Typed, Procs
    <3>2. CASE Onward(h, "create")
      BY <1>3, <1>4, <3>2 DEF Onward, Goto, Typed, Procs
    <3>3. QED
      BY <3>1, <3>2 DEF Claim
  <2>2. QED
    BY <1>3, <2>1 DEF Builds, Created
\* What was settled before, for who is through with the preview.
<1>7. ASSUME env[h] = "production" PROVE Settled(b, DeliveryOf[h])
  BY <1>2, <1>3, <1>4, <1>7 DEF Shipping, PushesSettled, Past, DeliveryAt
<1>8. CASE EventOf(h) = "none" /\ SetEvent(h, "received") /\ Onward(h, "create")
  <2>1. at'[h] = "create" /\ env' = env
    BY <1>2, <1>4, <1>8 DEF Onward, Goto, Typed
  <2>2. env[h] = "production" =>
          event'[DeliveryOf[h]]["preview"] = event[DeliveryOf[h]]["preview"]
    BY <1>2, <1>4, <1>8 DEF SetEvent, Typed, Envs
  <2>3. RowsGrow(b)
    BY <1>1, <1>2, <1>3, <1>4, <1>6, <2>2, RowsAsTheyAre DEF Envs
  <2>4. env[h] = "production" => Settled(b, DeliveryOf[h])'
    BY <1>2, <1>5, <1>7, <2>3, SettledStays
  <2>5. Arrives(b, h)
    BY <1>2, <1>3, <1>4, <2>1, <2>4 DEF Arrives, Past
  <2>6. inst'[b] = "active" => SomebodyBuilds(b)'
    <3>1. CASE env[h] = "preview"
      BY <1>2, <2>1, <3>1 DEF SomebodyBuilds, Bringing
    <3>2. CASE env[h] = "production"
      <4>1. ~Bringing(h, b)
        BY <3>2 DEF Bringing
      <4>2. QED
        BY <1>1, <1>3, <2>2, <3>2, <4>1, BringersStay
    <3>3. QED
      BY <1>2, <3>1, <3>2 DEF Envs
  <2>7. QED
    BY <1>1, <1>2, <1>5, <2>3, <2>5, <2>6, ShippingStays
<1>9. CASE EventOf(h) # "none" /\ NextTarget(h) /\ event' = event
  <2>1. RowsGrow(b)
    BY <1>1, <1>3, <1>6, <1>9, RowsAsTheyAre
  <2>2. ASSUME env[h] = "preview" PROVE Settled(b, DeliveryOf[h])
    <3> DEFINE d == DeliveryOf[h]
    <3>1. event[d]["preview"] \in {"received", "processed"}
      <4>1. event[d]["preview"] \in Statuses /\ event[d]["preview"] # "none"
        BY <1>2, <1>4, <1>9, <2>2 DEF Typed, Envs, EventOf
      <4>2. event[d]["preview"] # "ignored"
        BY <1>1, <1>2, <1>4 DEF TablesAgree, Envs
      <4>3. event[d]["preview"] # "failed"
        BY <1>2, NoFailureYet DEF Agree, NothingFailed, Unfailed, Envs
      <4>4. QED
        BY <4>1, <4>2, <4>3 DEF Statuses
    <3>2. CASE Made(d, "preview") = {}
      <4>1. PICK g \in Handlers :
              DeliveryOf[g] = d /\ env[g] = "preview" /\ at[g] \in {"create", "refuse", "dead"}
        BY <1>2, <3>1, <3>2, NoFailureYet
        DEF DeliveryInv, ClaimsAccounted, Envs, Agree, NothingFailed, Unfailed
      <4>2. at[g] \notin {"refuse", "dead"}
        BY NoFailureYet DEF Agree, NothingFailed, Unfailed, Procs
      <4>3. QED
        BY <4>1, <4>2 DEF Settled
    <3>3. ASSUME NEW x \in Made(d, "preview") PROVE Settled(b, d)
      <4>1. x \in Created /\ dep[x].delivery = d /\ dep[x].env = "preview"
        BY <3>3 DEF Made
      <4>2. x \in Builds(b)
        BY <1>1, <1>2, <4>1 DEF TablesAgree, Builds, DeliveredTo
      <4>3. at[x] \in Waiting \cup Cloned
        BY <4>2 DEF Shipping, RowsStay
      <4>4. at[x] \in Cloned => sent[d].commit <= sha[x]
        BY <4>1, <4>2 DEF Shipping, BuildsImprove
      <4>5. QED
        BY <4>2, <4>3, <4>4 DEF Settled
    <3>4. QED
      BY <3>2, <3>3
  <2>3. Settled(b, DeliveryOf[h])'
    BY <1>2, <1>5, <1>7, <2>1, <2>2, SettledStays DEF Envs
  <2>4. Arrives(b, h)
    BY <1>2, <1>4, <1>9, <2>3, NextTargetTo DEF Arrives
  <2>5. ~Bringing(h, b)
    BY <1>3, <1>9 DEF Bringing
  <2>6. inst'[b] = "active" => SomebodyBuilds(b)'
    BY <1>1, <1>3, <1>9, <2>5, BringersStay
  <2>7. QED
    BY <1>1, <1>2, <1>5, <2>1, <2>4, <2>6, ShippingStays
<1>10. QED
  BY <1>1, <1>8, <1>9 DEF Claim

LEMMA CreateShips ==
    ASSUME DeliveryInv, PlaceInv, PlaceInv', Agree, [Next]_vars, failures' = 0,
           NEW b \in Branches, Shipping(b), NEW h \in HandledFor(b), CreateDeployment(h)
    PROVE  Shipping(b)'
<1>1. HandlePush(h) /\ TablesAgree /\ ~Fault("db")
  BY NoFailureYet DEF HandlePush, Agree
<1>2. /\ h \in Handlers /\ h \in Procs /\ BranchOf(h) = b /\ env[h] \in Envs
      /\ DeliveryOf[h] \in DeliveredTo(b) \cap Deliveries
      /\ Steady(b) /\ OnlyMoves(b, h) /\ sent' = sent /\ h \in HandledFor(b)'
  BY <1>1, PushOnBranch
<1>3. at[h] = "create" /\ inst' = inst /\ domain' = domain /\ h \notin Deployments
  BY <1>2, IdAssumption DEF CreateDeployment
<1>4. PICK x \in Deployments : Insert(h, x)
  BY <1>1 DEF CreateDeployment
<1>5. /\ at' = [at EXCEPT ![h] = "mark", ![x] = "created"] /\ env' = env /\ event' = event
      /\ dep' = [dep EXCEPT ![x] = [delivery |-> DeliveryOf[h], env |-> env[h], branch |-> b]]
  BY <1>2, <1>4 DEF Insert
<1>6. /\ at'[h] = "mark" /\ at'[x] = "created"
      /\ dep'[x] = [delivery |-> DeliveryOf[h], env |-> env[h], branch |-> b]
      /\ \A y \in Deployments \ {x} : at'[y] = at[y] /\ dep'[y] = dep[y]
  BY <1>2, <1>3, <1>5 DEF PlaceInv, Typed, Procs
<1>7. env[h] = "preview" => domain[b] /\ x \in Builds(b)' /\ at'[x] \in Waiting
  <2>1. env[h] = "preview" => domain[b]
    BY <1>3 DEF Shipping, RowsStay
  <2>2. env[h] = "preview" => x \in Builds(b)' /\ at'[x] \in Waiting
    BY <1>6 DEF Builds, Created, Waiting
  <2>3. QED
    BY <2>1, <2>2
<1>8. env[h] = "production" => Builds(b)' \subseteq Builds(b)
  BY <1>6 DEF Builds, Created
<1>9. Creates(b, h)
  BY <1>7 DEF Creates
<1>10. RowsGrow(b)
  BY <1>1, <1>2, <1>3, <1>5, <1>7, <1>8, RowsAsTheyAre DEF Envs
<1>11. ~DeliveryAt(h).ignored => Settled(b, DeliveryOf[h])'
  <2>1. CASE env[h] = "preview"
    BY <1>7, <2>1 DEF Settled
  <2>2. CASE env[h] = "production"
    <3>1. ~DeliveryAt(h).ignored => Settled(b, DeliveryOf[h])
      BY <1>3, <2>2 DEF Shipping, PushesSettled, Past
    <3>2. QED
      BY <1>2, <1>9, <1>10, <3>1, SettledStays
  <2>3. QED
    BY <1>2, <2>1, <2>2 DEF Envs
<1>12. Arrives(b, h)
  BY <1>2, <1>3, <1>5, <1>6, <1>7, <1>11 DEF Arrives, DeliveryAt
<1>13. inst'[b] = "active" => SomebodyBuilds(b)'
  BY <1>1, <1>3, <1>5, <1>7, BringersStay DEF Bringing
<1>14. QED
  BY <1>1, <1>2, <1>9, <1>10, <1>12, <1>13, ShippingStays

LEMMA MarkShips ==
    ASSUME DeliveryInv, PlaceInv, PlaceInv', Agree, [Next]_vars, failures' = 0,
           NEW b \in Branches, Shipping(b), NEW h \in HandledFor(b), MarkProcessed(h)
    PROVE  Shipping(b)'
<1>1. HandlePush(h) /\ TablesAgree /\ ~Fault("db")
  BY NoFailureYet DEF HandlePush, Agree
<1>2. /\ h \in Handlers /\ h \in Procs /\ BranchOf(h) = b /\ env[h] \in Envs
      /\ DeliveryOf[h] \in DeliveredTo(b) \cap Deliveries
      /\ Steady(b) /\ OnlyMoves(b, h) /\ sent' = sent /\ h \in HandledFor(b)'
  BY <1>1, PushOnBranch
<1>3. /\ at[h] = "mark" /\ inst' = inst /\ domain' = domain /\ Typed
      /\ SetEvent(h, "processed")
  BY <1>1 DEF MarkProcessed, PlaceInv
<1>4. Creates(b, h) /\ ~Bringing(h, b)
  BY <1>3 DEF Creates, Bringing
<1>5. Builds(b)' \subseteq Builds(b)
  <2>1. Works(h) /\ at[h] # "create"
    BY <1>1, <1>2, <1>3, HandlePushWorks
  <2>2. ASSUME NEW x \in Builds(b)' PROVE x \in Builds(b)
    <3>1. x \in Created' /\ x \in Deployments /\ dep'[x].env = "preview" /\ dep'[x].branch = b
      BY DEF Builds, Created
    <3>2. QED
      BY <1>2, <2>1, <3>1, WorksDeployments DEF Builds
  <2>3. QED
    BY <2>2
\* The claim was there already.
<1>6. env[h] = "preview" => domain[b] /\ event[DeliveryOf[h]]["preview"] # "none"
  <2>1. env[h] = "preview" => domain[b]
    BY <1>3 DEF Shipping, RowsStay
  <2>2. Made(DeliveryOf[h], env[h]) # {}
    BY <1>2, <1>3 DEF DeliveryInv, ClaimInv
  <2>3. event[DeliveryOf[h]][env[h]] # "none"
    BY <2>2 DEF DeliveryInv, ClaimInv, Made
  <2>4. QED
    BY <2>1, <2>3
<1>7. env[h] = "production" =>
        event'[DeliveryOf[h]]["preview"] = event[DeliveryOf[h]]["preview"]
  BY <1>2, <1>3 DEF SetEvent, Typed, Envs
<1>8. RowsGrow(b)
  BY <1>1, <1>2, <1>3, <1>5, <1>6, <1>7, RowsAsTheyAre DEF Envs
<1>9. ~DeliveryAt(h).ignored => Settled(b, DeliveryOf[h])
  BY <1>3 DEF Shipping, PushesSettled, Past
<1>10. ~DeliveryAt(h)'.ignored => Settled(b, DeliveryOf[h])'
  BY <1>2, <1>4, <1>8, <1>9, SettledStays DEF DeliveryAt
<1>11. Arrives(b, h)
  BY <1>2, <1>3, <1>10, MarkTo DEF Arrives
<1>12. inst'[b] = "active" => SomebodyBuilds(b)'
  <2>1. \/ event'[DeliveryOf[h]]["preview"] = event[DeliveryOf[h]]["preview"]
        \/ \A g \in HandledFor(b) : DeliveryOf[g] = DeliveryOf[h] =>
             ~(at[g] = "claim" /\ env[g] = "preview" /\ EventOf(g) = "none" /\ g # h)
    BY <1>2, <1>6, <1>7 DEF Envs, EventOf
  <2>2. QED
    BY <1>1, <1>3, <1>4, <2>1, BringersStay
<1>13. QED
  BY <1>1, <1>2, <1>4, <1>8, <1>11, <1>12, ShippingStays

LEMMA PushShips ==
    ASSUME DeliveryInv, PlaceInv, PlaceInv', Agree, [Next]_vars, failures' = 0,
           NEW b \in Branches, Shipping(b), NEW h \in Handlers, HandlePush(h)
    PROVE  Shipping(b)'
<1>1. h \in Procs /\ h \notin Deployments /\ Works(h) /\ at[h] # "idle" /\ TablesAgree
  BY HandlePushWorks, IdAssumption, PushPlaces DEF Procs, Agree, Pushing, Ensuring
<1>2. CASE h \in HandledFor(b)
  <2>1. at[h] # "refuse"
    BY <1>1, NoFailureYet DEF Agree, NothingFailed, Unfailed
  <2>2. QED
    BY <1>2, <2>1, EnsureShips, SkipShips, ClaimShips, CreateShips, MarkShips
    DEF HandlePush, MarkFailed
<1>3. CASE h \notin HandledFor(b)
  <2>1. BranchOf(h) # b
    BY <1>1, <1>3, HandlersOf
  <2>2. vhost'[b] = vhost[b] /\ container'[b] = container[b] /\ inst'[b] = inst[b]
        /\ domain'[b] = domain[b]
    BY <1>1, <2>1 DEF Works
  <2>3. Steady(b)
    BY <1>1, <2>2, WorksElsewhere DEF Builds, Created
  <2>4. QED
    BY <1>1, <2>1, <2>2, <2>3, WorksAway, ElsewhereKeeps
<1>4. QED
  BY <1>2, <1>3

\* A deletion is of another branch.
LEMMA DeleteShips ==
    ASSUME DeliveryInv, PlaceInv, PlaceInv', Agree, NEW b \in Branches, Shipping(b), Clean(b),
           NEW h \in Handlers, HandleDelete(h)
    PROVE  Shipping(b)'
<1>1. h \in Procs /\ h \notin Deployments /\ Works(h) /\ TablesAgree
  BY DeleteWorks, IdAssumption DEF Procs, Agree
<1>2. at[h] \in {"lookup"} \cup Tearing
  BY DEF HandleDelete, Lookup, ListDomains, StopPreview, RemoveVolume, RemoveProxy,
     DeleteDomains, DeleteInstance, Tearing
<1>3. DeliveryAt(h).kind = "delete" /\ at[h] # "idle"
  BY <1>2 DEF Agree, PlacesAgree, PlaceAgrees, Tearing
<1>4. BranchOf(h) # b
  BY <1>3, HandlersOf DEF Clean, HandledFor, DeliveryAt
<1>5. vhost'[b] = vhost[b] /\ container'[b] = container[b] /\ inst'[b] = inst[b]
      /\ domain'[b] = domain[b]
  BY <1>1, <1>4 DEF Works
<1>6. Steady(b)
  BY <1>1, <1>5, WorksElsewhere DEF Builds, Created
<1>7. QED
  BY <1>1, <1>4, <1>5, <1>6, WorksAway, ElsewhereKeeps

LEMMA ReceiveShips ==
    ASSUME DeliveryInv, PlaceInv, PlaceInv', Agree, NEW b \in Branches, Shipping(b), Clean(b),
           NEW h \in Handlers, Receive(h)
    PROVE  Shipping(b)'
<1>1. /\ at[h] = "idle" /\ DeliveryOf[h] \in DOMAIN sent
      /\ UNCHANGED <<head, alive, sent, failures, event, dep, inst, domain, sha, vhost,
                     container>>
      /\ \A p \in Procs \ {h} : at'[p] = at[p]
      /\ \A g \in Handlers \ {h} : env'[g] = env[g]
      /\ TablesAgree /\ h \notin Deployments
  BY ReceiveOthers, IdAssumption DEF Agree
<1>2. Builds(b)' = Builds(b)
  BY <1>1 DEF Builds, Created, Procs
<1>3. DeliveredTo(b)' = DeliveredTo(b) /\ h \notin HandledFor(b)
  BY <1>1 DEF DeliveredTo, HandledFor
<1>4. Steady(b)
  <2>1. head[b] <= head'[b]
    BY <1>1 DEF PlaceInv, Stored
  <2>2. \A x \in Builds(b) : at'[x] = at[x]
    BY <1>1 DEF Builds, Created, Procs
  <2>3. QED
    BY <1>1, <1>2, <2>1, <2>2 DEF Steady
<1>5. \A g \in HandledFor(b) : g \in HandledFor(b)' /\ at'[g] = at[g] /\ env'[g] = env[g]
  BY <1>1, <1>3 DEF HandledFor, Procs
<1>6. HandledFor(b)' \subseteq HandledFor(b) \cup {h}
  BY <1>1, <1>3 DEF HandledFor, Procs
<1>7. OnlyMoves(b, h) /\ Creates(b, h)
  BY <1>3, <1>5, <1>6 DEF OnlyMoves, Creates
<1>8. RowsGrow(b)
  BY <1>1, <1>2, <1>3 DEF RowsGrow, Shipping, RowsStay
<1>9. Arrives(b, h)
  <2> SUFFICES ASSUME h \in HandledFor(b)'
               PROVE  at'[h] \in {"skip", "ensure"}
    BY DEF Arrives, Past
  <2>1. DeliveryOf[h] \in DeliveredTo(b)
    BY <1>3 DEF HandledFor
  <2>2. DeliveryAt(h).kind = "push"
    BY <2>1 DEF Clean, DeliveryAt
  <2>3. QED
    BY <2>2, ReceiveTo
<1>10. inst'[b] = "active" => SomebodyBuilds(b)'
  <2>1. \A g \in HandledFor(b) : EventOf(g)' = EventOf(g)
    BY <1>1, <1>5 DEF EventOf
  <2>2. ~Bringing(h, b)
    BY <1>3 DEF Bringing
  <2>3. inst[b] = "active" => SomebodyBuilds(b)'
    BY <1>1, <1>4, <1>7, <2>1, <2>2, SomebodyStays DEF Shipping
  <2>4. QED
    BY <1>1, <2>3
<1>11. QED
  BY <1>1, <1>4, <1>7, <1>8, <1>9, <1>10, ShippingStays

\* A branch without failures and deletions had none before.
LEMMA CleanBefore ==
    ASSUME PlaceInv, [Next]_vars, NEW b \in Branches, Clean(b)' PROVE Clean(b)
<1>1. failures = 0
  BY NoFailureYet DEF Clean
<1>2. \A d \in DOMAIN sent : d \in DOMAIN sent' /\ sent'[d] = sent[d]
  <2>1. sent' = sent \/ \E m : sent' = Append(sent, m)
    <3>1. ASSUME NEW p \in Procs, Works(p) PROVE sent' = sent
      BY <3>1 DEF Works
    <3>2. ASSUME NEW h \in Handlers, HandlePush(h) \/ HandleDelete(h) PROVE sent' = sent
      BY <3>1, <3>2, HandlePushWorks, DeleteWorks DEF Procs
    <3>3. ASSUME NEW x \in Deployments, Deploy(x) PROVE sent' = sent
      BY <3>1, <3>3, DeployWorks DEF Procs
    <3>4. ASSUME NEW h \in Handlers, Receive(h) PROVE sent' = sent
      BY <3>4, ReceiveOthers
    <3>5. ASSUME NEW c \in Branches, Push(c) \/ DeleteBranch(c)
          PROVE  \E m : sent' = Append(sent, m)
      BY <3>5 DEF Push, DeleteBranch
    <3>6. Crashes \/ UNCHANGED vars => sent' = sent
      BY DEF Crashes, Crash, CrashInSwap, vars, calm, github
    <3>7. QED
      BY <3>2, <3>3, <3>4, <3>5, <3>6 DEF Next, Crashes
  <2>2. sent \in Seq(Content)
    BY DEF PlaceInv, Stored
  <2>3. ASSUME NEW m, sent' = Append(sent, m)
        PROVE  \A d \in DOMAIN sent : d \in DOMAIN sent' /\ sent'[d] = sent[d]
    BY <2>2, <2>3
  <2>4. QED
    BY <2>1, <2>3
<1>3. QED
  BY <1>1, <1>2 DEF Clean, DeliveredTo

LEMMA ShippingKept ==
    ASSUME DeliveryInv, PlaceInv, PlaceInv', Agree, [Next]_vars,
           NEW b \in Branches, Clean(b)', Clean(b), Shipping(b)
    PROVE  Shipping(b)'
<1>1. failures' = 0 /\ ~Crashes
  BY NoFailureYet DEF Clean
<1>2. ASSUME NEW x \in Deployments, Deploy(x) PROVE Shipping(b)'
  BY <1>1, <1>2, OtherDeployShips, BuildShips
<1>3. CASE UNCHANGED vars
  <2>1. UNCHANGED <<head, alive, sent, at, env, event, dep, sha, inst, domain, vhost, container>>
    BY <1>3 DEF vars, calm, github, handling, tables, host
  <2>2. /\ DeliveredTo(b)' = DeliveredTo(b) /\ HandledFor(b)' = HandledFor(b)
        /\ Builds(b)' = Builds(b)
    BY <2>1 DEF DeliveredTo, HandledFor, Builds, Created
  <2>3. head[b] <= head'[b]
    BY <2>1 DEF PlaceInv, Stored
  <2>4. Elsewhere(b)
    BY <2>1, <2>2, <2>3 DEF Elsewhere, Steady, Shipping, RowsStay
  <2>5. QED
    BY <2>4, ElsewhereKeeps DEF Agree
<1>4. QED
  BY <1>1, <1>2, <1>3, GithubShips, ReceiveShips, PushShips, DeleteShips
  DEF Next, Crashes, Agree

LEMMA InitialShips == Init => \A b \in Branches : Shipping(b)
<1> SUFFICES ASSUME Init, NEW b \in Branches PROVE Shipping(b)
  OBVIOUS
<1>1. /\ \A h \in Handlers : at[h] = "idle"
      /\ \A p \in Procs : at[p] \in {"idle", "none"}
      /\ Created = {} /\ sent = <<>> /\ inst[b] = "none" /\ ~domain[b]
  <2>1. /\ at = [p \in Procs |-> IF p \in Handlers THEN "idle" ELSE "none"]
        /\ sent = <<>> /\ inst = [c \in Branches |-> "none"]
        /\ domain = [c \in Branches |-> FALSE]
    BY DEF Init
  <2>2. QED
    BY <2>1, IdAssumption DEF Procs, Created
<1>2. DeliveredTo(b) = {} /\ HandledFor(b) = {} /\ Builds(b) = {}
  BY <1>1 DEF DeliveredTo, HandledFor, Builds
<1>3. RowsStay(b) /\ BuildsImprove(b) /\ RacersAreEarly(b) /\ PushesSettled(b)
  BY <1>1, <1>2 DEF RowsStay, BuildsImprove, RacersAreEarly, PushesSettled
<1>4. QED
  BY <1>1, <1>3 DEF Shipping

LEMMA ShipInvHolds == Spec => [](DeliveryInv /\ PlaceInv /\ ShipInv)
<1>1. Init => ShipInv
  BY InitialAgree, InitialShips DEF ShipInv
<1>2. DeliveryInv /\ PlaceInv /\ PlaceInv' /\ ShipInv /\ [Next]_vars => ShipInv'
  BY AgreeInductive, CleanBefore, ShippingKept DEF ShipInv
<1>3. QED
  BY <1>1, <1>2, PlaceInvHolds, PTL DEF Spec

\* When all is quiet the newest build of a branch has every push.
LEMMA QuietShips ==
    ASSUME DeliveryInv, PlaceInv, ShipInv, Quiet, failures = 0, NEW d \in DOMAIN sent,
           ~sent[d].ignored,
           \A c \in DOMAIN sent : sent[c].branch = sent[d].branch => sent[c].kind = "push"
    PROVE  LET b == sent[d].branch IN
           /\ container[b] # NoDep /\ sha[container[b]] >= sent[d].commit
           /\ inst[b] = "active" /\ domain[b] /\ vhost[b]
<1> DEFINE b == sent[d].branch
<1>1. sent[d] \in Content /\ b \in Branches /\ sent[d].commit \in Nat
  <2>1. sent[d] \in Content
    BY DEF PlaceInv, Stored
  <2>2. QED
    BY <2>1 DEF Content
<1>2. Shipping(b) /\ TablesAgree
  BY <1>1 DEF ShipInv, Clean, DeliveredTo, Agree
<1>3. PICK h \in Handlers : DeliveryOf[h] = d /\ at[h] = "over"
  BY DEF Quiet
<1>4. h \in HandledFor(b) /\ Past(h)
  BY <1>3 DEF HandledFor, DeliveredTo, Past
<1> HIDE DEF b
<1>5. Settled(b, d)
  BY <1>2, <1>3, <1>4 DEF Shipping, PushesSettled, DeliveryAt
<1>6. \A p \in Procs : at[p] \notin Waiting \cup Building \cup {"newdomain", "claim", "create"}
  BY DEF Quiet, Waiting, Building
<1>7. \A x \in Builds(b) : x \in Deployments /\ at[x] = "live"
  BY <1>2, <1>6 DEF Shipping, RowsStay, Builds, Created, Procs, Cloned
<1>8. \A g \in Handlers : ~Bringing(g, b)
  BY <1>6 DEF Bringing, Procs, Waiting
<1>9. PICK x \in Builds(b) : sent[d].commit <= sha[x]
  <2>1. CASE AllHave(b, d) /\ inst[b] = "active"
    <3>1. PICK x \in Builds(b) : TRUE
      BY <1>2, <1>8, <2>1 DEF Shipping, SomebodyBuilds
    <3>2. QED
      BY <1>7, <2>1, <3>1 DEF AllHave, Cloned
  <2>2. ASSUME NEW x \in Builds(b),
               at[x] \in Waiting \/ (at[x] \in Cloned /\ sent[d].commit <= sha[x])
        PROVE  \E y \in Builds(b) : sent[d].commit <= sha[y]
    BY <1>7, <2>2 DEF Waiting
  <2>3. \A g \in Handlers : at[g] # "create"
    BY <1>6 DEF Procs
  <2>4. QED
    BY <1>5, <2>1, <2>2, <2>3 DEF Settled
<1>10. /\ container[b] \in Builds(b) /\ sha[x] <= sha[container[b]] /\ vhost[b]
  BY <1>2, <1>7 DEF Shipping, BuildsImprove
<1>11. sha[x] \in Nat /\ sha[container[b]] \in Nat /\ container[b] \in Deployments
  BY <1>1, <1>2, <1>7, <1>10 DEF PlaceInv, Stored
<1>12. container[b] # NoDep /\ sha[container[b]] >= sent[d].commit
  BY <1>1, <1>9, <1>10, <1>11, IdAssumption
<1>13. inst[b] = "active" /\ domain[b]
  BY <1>2, <1>10 DEF Shipping, RowsStay
<1>14. QED
  BY <1>10, <1>12, <1>13 DEF b

(* Every push ships: when every delivery was handled to its end and no     *)
(* fault struck, a branch that was never deleted runs a build at least as  *)
(* new as each push to it that the build filter let through, at its own    *)
(* address, though handlers lose races for the preview's rows and for the  *)
(* claim, and deployments take what the branch points at by then           *)
(* (ensurePreviewTarget, claimWebhookEvent, CloneRepo, swapContainers).    *)
THEOREM PushesShip == Spec => []LatestShips
<1>1. DeliveryInv /\ PlaceInv /\ ShipInv => LatestShips
  BY QuietShips DEF LatestShips
<1>2. QED
  BY <1>1, ShipInvHolds, PTL
=============================================================================
