------------------------------ MODULE McpTools ------------------------------
(***************************************************************************)
(* One tool call of the MCP server, from its arguments to its answer       *)
(* (mcp/src): the project is resolved, the safety check may turn the call  *)
(* into a dry run, the request is sent and retried, a deployment or an app *)
(* release is waited for, and the call is audited.  Meanwhile projects are *)
(* renamed, deleted and created, and others deploy the same app.           *)
(*                                                                         *)
(* What differs from tool to tool is a row of Table, see ToolTable.        *)
(***************************************************************************)
EXTENDS Naturals, FiniteSets

CONSTANTS
    Table,        \* the tools: a function to the rows of ToolTable
    Offered,      \* the tools that are called
    Ids, Names,   \* projects (or groups), and what they can be called
    Selectors,    \* how calls name their subject: an id, a name, or nothing
    Built,        \* the projects built from the repository the server runs in
    InRepo,       \* stdio mode: the server runs in a repository
    MaxAttempts,  \* maxAttempts of a retryable request
    MaxChanges,   \* bound: how many projects are renamed, deleted, created
    MaxReleases   \* bound: how many releases are recorded

ASSUME ToolAssumption ==
    /\ Offered \subseteq DOMAIN Table
    /\ Selectors \subseteq Ids \union Names \union {"nothing"} /\ InRepo \in BOOLEAN
    /\ MaxAttempts \in Nat \ {0} /\ Built \subseteq Ids
    /\ \A tool \in Offered : Table[tool].named => Table[tool].subject # "none"

VARIABLES
    call,      \* the call: its arguments, and how far it has come
    projects,  \* projects[i] : its name, "unborn" or "gone"
    binding,   \* the project named by .deployik.json
    effects,   \* how often the server carried out the call's request
    audit,     \* the call's lines in audit.log
    build,     \* the deployment the call follows
    rollout,   \* whose rollout of the app is running
    releases,  \* the app's recorded releases
    changes,   \* how many projects were changed
    bore,      \* history: who bore the confirmed name during the call
    contended  \* history: another's rollout ran after the call's snapshot

callVars == <<call, effects, audit>>
serverVars == <<projects, build, rollout, releases, changes, bore, contended>>
toolVars == <<callVars, serverVars, binding>>

Nothing == "nothing"
Visible == {i \in Ids : projects[i] \in Names}
Bearing(n) == {i \in Visible : projects[i] = n}
RowOf == Table[call.tool]
TierOf == RowOf.tier[call.env]

-----------------------------------------------------------------------------
(* The call.                                                               *)

\* The arguments that matter to a tool; the others have one value.
Arguments(tool) ==
    LET row == Table[tool]
        gated == \E e \in DOMAIN row.tier : row.tier[e] \notin {"read", "mutating"} IN
    [tool : {tool},
     env : IF row.tier["preview"] = row.tier["production"] THEN {"preview"} ELSE DOMAIN row.tier,
     selector : IF row.subject = "none" THEN {Nothing}
                ELSE IF row.subject = "group" THEN Selectors \ {Nothing}
                ELSE Selectors,
     confirm : IF gated THEN BOOLEAN ELSE {FALSE},
     confirm_name : IF row.named THEN Names \union {Nothing} ELSE {Nothing},
     wait : IF row.follow = "deployment" /\ row.method = "POST" THEN BOOLEAN
            ELSE {row.follow # "nothing"}]

Fresh(args) ==
    [args |-> args, tool |-> args.tool, env |-> args.env, pc |-> "resolve", target |-> Nothing,
     expected |-> Nothing, seen |-> {}, attempt |-> 1, outcome |-> "none", reported |-> {},
     unwritten |-> FALSE]

Begin(args) ==
    /\ call.pc = "idle"
    /\ call' = Fresh(args)
    /\ bore' = Bearing(args.confirm_name)
    /\ build' = IF Table[args.tool].follow = "deployment" THEN "building" ELSE "none"
    /\ UNCHANGED <<projects, rollout, releases, changes, contended, effects, audit, binding>>

Failed(c) == [c EXCEPT !.pc = "finish", !.outcome = "error"]

\* A GET on the way fails, or its body does not come.
Broken == {Failed(call), [call EXCEPT !.pc = "stalled"]}
Move(c) == call' = c /\ UNCHANGED <<effects, audit, serverVars>>

\* resolveProject without an id or a name: the projects each rule finds.
BoundProject == IF InRepo THEN Bearing(binding) ELSE {}
RemoteProjects == IF InRepo THEN Built \intersect Visible ELSE {}

(* resolveProject: an id, a name, the binding, the git remote if exactly   *)
(* one project is built from it, the only visible project.                 *)
Candidates ==
    LET s == call.args.selector IN
    IF s \in Ids THEN {s} \intersect Visible
    ELSE IF s \in Names THEN Bearing(s)
    ELSE IF BoundProject # {} THEN BoundProject
    ELSE IF RemoteProjects # {} THEN RemoteProjects
    ELSE Visible

\* The remote's only project is bound for the next calls.
AutoBinds == call.args.selector = Nothing /\ BoundProject = {} /\ Cardinality(RemoteProjects) = 1

Resolve ==
    /\ call.pc = "resolve"
    /\ IF RowOf.subject = "none"
       THEN Move([call EXCEPT !.pc = "gate"]) /\ UNCHANGED binding
       ELSE \/ /\ Cardinality(Candidates) = 1
               /\ \E i \in Candidates :
                    /\ Move([call EXCEPT !.pc = "gate", !.target = i, !.expected = projects[i]])
                    /\ binding' = IF AutoBinds THEN projects[i] ELSE binding
            \/ (\E c \in Broken : Move(c)) /\ UNCHANGED binding  \* also: none, or several

\* Mutant: the name is not compared.
LeavesConfirmed(args, tier, named, expected) ==
    tier \in {"read", "mutating"} \/ args.confirm

\* checkSafety lets the call proceed.
Confirmed(args, tier, named, expected) ==
    \/ tier \in {"read", "mutating"}
    \/ /\ args.confirm
       /\ named \/ tier = "destructive_production" => args.confirm_name = expected

Gate ==
    /\ call.pc = "gate"
    /\ IF Confirmed(call.args, TierOf, RowOf.named, call.expected)
       THEN Move([call EXCEPT !.pc = IF RowOf.follow = "release" THEN "snapshot" ELSE "request"])
       ELSE Move([call EXCEPT !.pc = "finish", !.outcome = "dryrun"])
    /\ UNCHANGED binding

\* deploy_app_and_wait lists the releases there are.
Snapshot ==
    /\ call.pc = "snapshot"
    /\ \/ /\ call' = [call EXCEPT !.pc = "request", !.seen = releases]
          /\ contended' = (rollout = "other")
          /\ UNCHANGED <<projects, build, rollout, releases, changes, bore, effects, audit>>
       \/ \E c \in Broken : Move(c)
    /\ UNCHANGED binding

\* Mutant: every request is retried.
RetryableAlways(row) == TRUE

\* retryableMethod
Retryable(row) ==
    \/ row.method \in {"GET", "PUT", "DELETE"}
    \/ row.method = "POST" /\ row.path \in {"env", "secrets"}

\* The loop of request goes round again after a 5xx.
Retries(row, attempt) == Retryable(row) /\ attempt < MaxAttempts

\* The server can carry the request out.
Acceptable ==
    /\ RowOf.subject # "none" => call.target \in Visible
    /\ RowOf.follow = "release" => rollout = "none"

\* Mutant: a request whose answer is lost ends the call without its last step.
AnsweredUnaudited(reply) ==
    IF reply = "ok" THEN [call EXCEPT !.pc = IF call.args.wait THEN "follow" ELSE "finish",
                                      !.outcome = "ok"]
    ELSE IF reply = "busy" /\ Retries(RowOf, call.attempt)
    THEN [call EXCEPT !.attempt = @ + 1]
    ELSE IF reply = "stalled" THEN [call EXCEPT !.pc = "stalled"]
    ELSE [Failed(call) EXCEPT !.pc = "done"]

(* request and requestOnce: a 5xx is tried again if the request is safe to *)
(* repeat; a timeout or a network error is not; the body is read without a *)
(* timeout.                                                                *)
Answered(reply) ==
    IF reply = "ok" THEN [call EXCEPT !.pc = IF call.args.wait THEN "follow" ELSE "finish",
                                      !.outcome = "ok"]
    ELSE IF reply = "busy" /\ Retries(RowOf, call.attempt)
    THEN [call EXCEPT !.attempt = @ + 1]
    ELSE IF reply = "stalled" THEN [call EXCEPT !.pc = "stalled"]
    ELSE Failed(call)

\* One attempt: the server carries it out or not, and the answer is ok, a 4xx,
\* a 5xx, lost, or headers whose body does not come.
Request ==
    /\ call.pc = "request"
    /\ \E applied \in BOOLEAN, reply \in {"ok", "rejected", "busy", "lost", "stalled"} :
         /\ applied => Acceptable
         /\ reply = "ok" => applied
         /\ reply = "rejected" => ~applied
         /\ call' = Answered(reply)
         /\ effects' = effects + IF applied /\ RowOf.method # "GET" THEN 1 ELSE 0
         /\ projects' = IF applied /\ call.tool = "delete_project"
                        THEN [projects EXCEPT ![call.target] = "gone"] ELSE projects
         /\ build' = IF applied /\ RowOf.follow = "deployment" THEN "building" ELSE build
         /\ rollout' = IF applied /\ RowOf.follow = "release" THEN "mine" ELSE rollout
    /\ UNCHANGED <<audit, releases, changes, bore, contended, binding>>

\* Mutant: the releases there were before are not left out.
NewReleasesUnfiltered == releases

\* The releases the snapshot has not seen.
NewReleases == releases \ call.seen

\* pollUntil: the probe finds what the call waits for, or fails.
Probe ==
    /\ call.pc = "follow"
    /\ \/ RowOf.follow = "deployment" /\ build = "ended" /\ Move([call EXCEPT !.pc = "finish"])
       \/ /\ RowOf.follow = "release"
          /\ \E r \in NewReleases : Move([call EXCEPT !.pc = "finish", !.reported = {r}])
       \/ \E c \in Broken : Move(c)
    /\ UNCHANGED binding

\* Mutant: a release is waited for however long it takes.
TimeOutDeployment ==
    /\ call.pc = "follow" /\ RowOf.follow = "deployment"
    /\ Move([call EXCEPT !.pc = "finish"])
    /\ UNCHANGED binding

\* timeout_ms is over: the last probe is the answer.
TimeOut ==
    /\ call.pc = "follow"
    /\ Move([call EXCEPT !.pc = "finish"])
    /\ UNCHANGED binding

\* registerTool: the answer, an error included, is audited and returned.
\* appendAudit keeps quiet about a line it could not write.
Finish ==
    /\ call.pc = "finish"
    /\ \E written \in IF RowOf.audit THEN BOOLEAN ELSE {FALSE} :
         /\ call' = [call EXCEPT !.pc = "done", !.unwritten = RowOf.audit /\ ~written]
         /\ audit' = audit + IF written THEN 1 ELSE 0
    /\ UNCHANGED <<effects, serverVars, binding>>

\* init_in_repo, before the call.
InitInRepo ==
    /\ InRepo /\ call.pc = "idle"
    /\ \E i \in Visible : binding' = projects[i]
    /\ UNCHANGED <<callVars, serverVars>>

\* What the call does of its own; a probe need not ever find what it waits for.
Onwards == Resolve \/ Gate \/ Snapshot \/ Request \/ TimeOut \/ Finish

-----------------------------------------------------------------------------
(* Everybody else, as far as the call in progress could notice it.         *)

InProgress == call.pc \notin {"idle", "done", "stalled"}

(* A project is created or renamed, or deleted for good: a name is taken   *)
(* by one project at most, and a deleted project gives it up.              *)
Change ==
    /\ changes < MaxChanges /\ InProgress /\ RowOf.subject # "none"
    /\ \E i \in Ids : \E n \in Names \union {"gone"} :
         /\ projects[i] # "gone" /\ (n = "gone" => i \in Visible)
         /\ Bearing(n) = {}
         /\ projects' = [projects EXCEPT ![i] = n]
         /\ bore' = bore \union (IF n = call.args.confirm_name THEN {i} ELSE {})
    /\ changes' = changes + 1
    /\ UNCHANGED <<callVars, build, rollout, releases, contended, binding>>

BuildEnds ==
    /\ build = "building" /\ InProgress
    /\ build' = "ended"
    /\ UNCHANGED <<callVars, projects, rollout, releases, changes, bore, contended, binding>>

OtherRollout ==
    /\ InProgress /\ RowOf.follow = "release"
    /\ rollout = "none" /\ Cardinality(releases) < MaxReleases
    /\ rollout' = "other" /\ contended' = TRUE
    /\ UNCHANGED <<callVars, projects, build, releases, changes, bore, binding>>

\* A rollout ends by recording its release, in a terminal status.
RolloutEnds ==
    /\ rollout # "none" /\ InProgress
    /\ releases' = releases \union {[n |-> Cardinality(releases) + 1, by |-> rollout]}
    /\ rollout' = "none"
    /\ UNCHANGED <<callVars, projects, build, changes, bore, contended, binding>>

Others == Change \/ BuildEnds \/ OtherRollout \/ RolloutEnds \/ InitInRepo

-----------------------------------------------------------------------------
NoArguments == [tool |-> Nothing, env |-> "preview", selector |-> Nothing, confirm |-> FALSE,
                confirm_name |-> Nothing, wait |-> FALSE]

ToolInit ==
    /\ call = [Fresh(NoArguments) EXCEPT !.pc = "idle"]
    /\ projects \in [Ids -> Names \union {"unborn"}]
    /\ \A i, j \in Ids : projects[i] = projects[j] => i = j \/ projects[i] = "unborn"
    /\ binding = Nothing
    /\ effects = 0 /\ audit = 0 /\ build = "none" /\ rollout = "none"
    /\ releases = {} /\ changes = 0 /\ bore = {} /\ contended = FALSE

ToolNext ==
    \/ \E tool \in Offered : \E args \in Arguments(tool) : Begin(args)
    \/ Onwards \/ Probe
    \/ Others

-----------------------------------------------------------------------------
(* Properties.                                                             *)

ToolTypeOK ==
    /\ projects \in [Ids -> Names \union {"unborn", "gone"}]
    /\ binding \in Names \union {Nothing}
    /\ effects \in Nat /\ audit \in {0, 1} /\ changes \in 0..MaxChanges
    /\ build \in {"none", "building", "ended"} /\ rollout \in {"none", "mine", "other"}
    /\ bore \subseteq Ids /\ contended \in BOOLEAN
    /\ releases \subseteq [n : Nat, by : {"mine", "other"}]
    /\ call.tool \in DOMAIN Table \union {Nothing}
    /\ call.pc \in {"idle", "resolve", "gate", "snapshot", "request", "follow", "stalled",
                    "finish", "done"}
    /\ call.pc # "idle" => call.args \in Arguments(call.tool)
    /\ call.target \in Ids \union {Nothing} /\ call.expected \in Names \union {Nothing}
    /\ call.attempt \in 1..MaxAttempts
    /\ call.outcome \in {"none", "ok", "error", "dryrun"} /\ call.unwritten \in BOOLEAN
    /\ call.seen \subseteq releases /\ call.reported \subseteq releases

(* A request that is not idempotent is carried out at most once in a call, *)
(* whatever is lost or answered with an error on the way: a deployment, a  *)
(* new project, a password reset is never repeated behind the caller.      *)
AppliedAtMostOnce ==
    effects > 1 => \/ RowOf.method \in {"PUT", "DELETE"}
                   \/ RowOf.path \in {"env", "secrets"}

(* A destructive request that the server carried out was confirmed, and if *)
(* the tool asks for a name the project it was carried out on bore that    *)
(* name during the call: renames and deletions on the way included.        *)
EffectsWereConfirmed ==
    effects > 0 /\ TierOf \in {"destructive", "destructive_production"} =>
        /\ call.args.confirm
        /\ RowOf.named => call.target \in bore

(* When an audited call is over, what it may have done to the server is in *)
(* the audit log exactly once: also when its answer was lost, and when the *)
(* wait that followed the request failed.  Only a log that cannot be       *)
(* written is passed over.                                                 *)
EffectsAreAudited ==
    call.pc = "done" /\ effects > 0 /\ RowOf.audit => audit = 1 \/ call.unwritten

(* The release deploy_app_and_wait reports is the one its own rollout      *)
(* recorded, as long as nobody else's rollout ran since its snapshot.      *)
OwnReleaseReported ==
    ~contended => \A r \in call.reported : r.by = "mine"

(* A call ends, whoever deletes its project and whatever the rollout does: *)
(* every wait has a timeout, except the one for the body of an answer.     *)
CallEnds == call.pc = "resolve" ~> call.pc \in {"done", "stalled"}
=============================================================================
