--------------------------- MODULE McpToolsProofs ---------------------------
(***************************************************************************)
(* Theorems about a tool call of the MCP server, for any table of tools,   *)
(* any projects and names, and any bounds.  ToolInv is inductive: it says  *)
(* how far a call has come when its request may have been carried out,     *)
(* what the project it means was called, and which releases it may report. *)
(***************************************************************************)
EXTENDS McpPackage, FiniteSetTheorems, TLAPS

Args == {NoArguments} \union UNION {Arguments(tool) : tool \in Offered}
Release == [n : Nat, by : {"mine", "other"}]

Phases == {"idle", "resolve", "gate", "snapshot", "request", "follow", "stalled", "finish", "done"}
Outcomes == {"none", "ok", "error", "dryrun"}

Calls ==
    [args : Args, tool : Offered \union {Nothing}, env : {a.env : a \in Args}, pc : Phases,
     target : Ids \union {Nothing}, expected : Names \union {Nothing},
     seen : SUBSET Release, attempt : Nat, outcome : Outcomes, reported : SUBSET Release,
     unwritten : BOOLEAN]

Typed ==
    /\ call \in Calls /\ effects \in Nat
    /\ call.pc # "idle" => call.tool \in Offered
    /\ DOMAIN projects = Ids
    /\ rollout \in {"none", "mine", "other"}
    /\ releases \subseteq Release /\ IsFiniteSet(releases)

Early == {"idle", "resolve", "gate", "snapshot"}

\* A request that may be sent once more is safe to repeat.
OnceInv ==
    /\ call.pc \in Early => effects = 0
    /\ effects > 0 => RowOf.method # "GET"
    /\ effects > 1 \/ (effects > 0 /\ call.pc = "request") => Retryable(RowOf)

(* While the project is looked for, whoever bears the confirmed name is    *)
(* remembered; later, the project that was found is, if its name was the   *)
(* confirmed one, and what passed the safety check stays confirmed.        *)
ConfirmInv ==
    /\ call.pc = "resolve" =>
         \A i \in Visible : projects[i] = call.args.confirm_name => i \in bore
    /\ call.pc \in {"gate", "snapshot", "request"} \/ effects > 0 =>
         (RowOf.subject # "none" /\ call.expected = call.args.confirm_name => call.target \in bore)
    /\ call.pc \in {"snapshot", "request"} \/ effects > 0 =>
         Confirmed(call.args, TierOf, RowOf.named, call.expected)

AuditInv == (call.pc # "done" => audit = 0) /\ EffectsAreAudited

\* What is recorded after the snapshot is the call's own unless it is contended.
ReleaseInv ==
    /\ call.pc \in Early \union {"request", "follow"} => call.reported = {}
    /\ call.pc \in {"request", "follow"} /\ RowOf.follow = "release" /\ ~contended =>
         rollout # "other" /\ \A r \in NewReleases : r.by = "mine"
    /\ OwnReleaseReported

ToolInv == Typed /\ OnceInv /\ ConfirmInv /\ AuditInv /\ ReleaseInv

-----------------------------------------------------------------------------
(* What the steps of a call leave as it is.                                *)

SameCall(c) ==
    /\ c \in Calls
    /\ c.args = call.args /\ c.tool = call.tool /\ c.env = call.env
    /\ c.target = call.target /\ c.expected = call.expected
    /\ c.seen = call.seen /\ c.reported = call.reported

MovedTo(p) == [call EXCEPT !.pc = p]
EndedAs(p, o) == [call EXCEPT !.pc = p, !.outcome = o]

LEMMA MovedCall ==
    ASSUME call \in Calls, NEW p \in Phases
    PROVE  SameCall(MovedTo(p)) /\ MovedTo(p).pc = p
BY DEF MovedTo, SameCall, Calls

LEMMA EndedCall ==
    ASSUME call \in Calls, NEW p \in Phases, NEW o \in Outcomes
    PROVE  SameCall(EndedAs(p, o)) /\ EndedAs(p, o).pc = p
<1> DEFINE moved == [call EXCEPT !.pc = p]
           c == [moved EXCEPT !.outcome = o]
<1>1. SameCall(moved) /\ moved.pc = p
  BY MovedCall DEF MovedTo
<1> HIDE DEF moved
<1>2. c \in Calls
  BY <1>1 DEF SameCall, Calls
<1>3. /\ c.pc = p /\ c.args = call.args /\ c.tool = call.tool /\ c.env = call.env
      /\ c.target = call.target /\ c.expected = call.expected
      /\ c.seen = call.seen /\ c.reported = call.reported
  BY <1>1 DEF SameCall, Calls
<1>4. QED
  BY <1>2, <1>3 DEF moved, SameCall, EndedAs

LEMMA BrokenCalls ==
    ASSUME call \in Calls, NEW c \in Broken
    PROVE  SameCall(c) /\ c.pc \in {"finish", "stalled"}
<1>1. c = EndedAs("finish", "error") \/ c = MovedTo("stalled")
  BY DEF Broken, Failed, EndedAs, MovedTo
<1>2. QED
  BY <1>1, MovedCall, EndedCall DEF Phases, Outcomes

LEMMA AnsweredCalls ==
    ASSUME call \in Calls, call.pc = "request", NEW reply
    PROVE  LET c == Answered(reply) IN
           /\ SameCall(c) /\ c.pc \in {"request", "follow", "finish", "stalled"}
           /\ c.pc = "request" => Retryable(RowOf)
<1> DEFINE c == Answered(reply)
<1>1. CASE reply = "ok"
  <2>1. PICK p \in {"follow", "finish"} : c = EndedAs(p, "ok")
    <3>1. CASE call.args.wait
      BY <1>1, <3>1 DEF Answered, EndedAs
    <3>2. CASE ~call.args.wait
      BY <1>1, <3>2 DEF Answered, EndedAs
    <3>3. QED
      BY <3>1, <3>2
  <2>2. QED
    BY <2>1, EndedCall DEF Phases, Outcomes
<1>2. CASE reply # "ok" /\ reply = "busy" /\ Retries(RowOf, call.attempt)
  <2>1. c = [call EXCEPT !.attempt = call.attempt + 1]
    BY <1>2 DEF Answered
  <2>2. SameCall(c) /\ c.pc = call.pc
    BY <2>1 DEF SameCall, Calls
  <2>3. QED
    BY <1>2, <2>2 DEF Retries
<1>3. CASE reply = "stalled"
  <2>1. c = MovedTo("stalled")
    BY <1>3 DEF Answered, MovedTo
  <2>2. QED
    BY <2>1, MovedCall DEF Phases, Outcomes
<1>4. CASE reply # "ok" /\ ~(reply = "busy" /\ Retries(RowOf, call.attempt)) /\ reply # "stalled"
  <2>1. c = EndedAs("finish", "error")
    BY <1>4 DEF Answered, Failed, EndedAs
  <2>2. QED
    BY <2>1, EndedCall DEF Phases, Outcomes
<1>5. QED
  BY <1>1, <1>2, <1>3, <1>4

-----------------------------------------------------------------------------
(* The steps of a call, as far as the invariant sees them.                 *)

LEMMA ResolveStep ==
    ASSUME Typed, Resolve
    PROVE  /\ call.pc = "resolve" /\ call'.pc \in {"gate", "finish", "stalled"}
           /\ call' \in Calls
           /\ call'.args = call.args /\ call'.tool = call.tool /\ call'.env = call.env
           /\ call'.seen = call.seen /\ call'.reported = call.reported
           /\ call'.pc = "gate" /\ RowOf.subject # "none" =>
                call'.target \in Visible /\ call'.expected = projects[call'.target]
           /\ UNCHANGED <<effects, audit, serverVars>>
<1> call \in Calls
  BY DEF Typed
<1>1. UNCHANGED <<effects, audit, serverVars>> /\ call.pc = "resolve"
  BY DEF Resolve, Move
<1>2. CASE call' = MovedTo("gate") /\ RowOf.subject = "none"
  BY <1>1, <1>2, MovedCall DEF Phases, SameCall
<1>3. CASE RowOf.subject # "none" /\ \E i \in Candidates :
             call' = [call EXCEPT !.pc = "gate", !.target = i, !.expected = projects[i]]
  <2>1. PICK i \in Candidates :
          call' = [call EXCEPT !.pc = "gate", !.target = i, !.expected = projects[i]]
    BY <1>3
  <2>2. i \in Visible /\ i \in Ids /\ projects[i] \in Names
    BY DEF Candidates, BoundProject, RemoteProjects, Bearing, Visible
  <2> DEFINE moved == MovedTo("gate")
             found == [moved EXCEPT !.target = i]
  <2>3. SameCall(moved) /\ moved.pc = "gate"
    BY MovedCall DEF Phases, Outcomes
  <2> HIDE DEF moved
  <2>4. /\ found \in Calls /\ found.pc = "gate" /\ found.target = i
        /\ found.args = call.args /\ found.tool = call.tool /\ found.env = call.env
        /\ found.seen = call.seen /\ found.reported = call.reported
    BY <2>2, <2>3 DEF SameCall, Calls
  <2>5. call' = [found EXCEPT !.expected = projects[i]]
    BY <2>1 DEF moved, MovedTo
  <2> HIDE DEF found
  <2>6. call' \in Calls
    BY <2>2, <2>4, <2>5 DEF Calls
  <2>7. /\ call'.pc = "gate" /\ call'.target = i /\ call'.expected = projects[i]
        /\ call'.args = call.args /\ call'.tool = call.tool /\ call'.env = call.env
        /\ call'.seen = call.seen /\ call'.reported = call.reported
    BY <2>4, <2>5 DEF Calls
  <2>8. QED
    BY <1>1, <2>2, <2>6, <2>7
<1>4. CASE \E c \in Broken : call' = c
  BY <1>1, <1>4, BrokenCalls DEF Phases, SameCall
<1>5. QED
  BY <1>2, <1>3, <1>4 DEF Resolve, Move, MovedTo

LEMMA GateStep ==
    ASSUME Typed, Gate
    PROVE  /\ call.pc = "gate" /\ SameCall(call')
           /\ call'.pc \in {"snapshot", "request", "finish"}
           /\ call'.pc # "finish" => Confirmed(call.args, TierOf, RowOf.named, call.expected)
           /\ call'.pc = "request" => RowOf.follow # "release"
           /\ UNCHANGED <<effects, audit, serverVars>>
<1> call \in Calls
  BY DEF Typed
<1>0. call.pc = "gate" /\ UNCHANGED <<effects, audit, serverVars>>
  BY DEF Gate, Move
<1>1. CASE Confirmed(call.args, TierOf, RowOf.named, call.expected)
  <2>1. CASE RowOf.follow = "release"
    <3>1. call' = MovedTo("snapshot")
      BY <1>1, <2>1 DEF Gate, Move, MovedTo
    <3>2. QED
      BY <1>1, <1>0, <3>1, MovedCall DEF Phases, Outcomes
  <2>2. CASE RowOf.follow # "release"
    <3>1. call' = MovedTo("request")
      BY <1>1, <2>2 DEF Gate, Move, MovedTo
    <3>2. QED
      BY <1>1, <1>0, <2>2, <3>1, MovedCall DEF Phases, Outcomes
  <2>3. QED
    BY <2>1, <2>2
<1>2. CASE ~Confirmed(call.args, TierOf, RowOf.named, call.expected)
  <2>1. call' = EndedAs("finish", "dryrun")
    BY <1>2 DEF Gate, Move, EndedAs
  <2>2. QED
    BY <1>0, <2>1, EndedCall DEF Phases, Outcomes
<1>4. QED
  BY <1>1, <1>2

LEMMA BeginStep ==
    ASSUME Typed, NEW tool \in Offered, NEW args \in Arguments(tool), Begin(args)
    PROVE  /\ call.pc = "idle" /\ call'.pc = "resolve" /\ call' \in Calls
           /\ call'.tool \in Offered /\ call'.reported = {}
           /\ bore' = Bearing(call'.args.confirm_name)
           /\ UNCHANGED <<projects, rollout, releases, contended, effects, audit>>
<1>1. args \in Args /\ args.tool = tool
  <2>1. args \in Args
    BY DEF Args
  <2>2. args.tool = tool
    BY DEF Arguments
  <2>3. QED
    BY <2>1, <2>2
<1>2. args.env \in {a.env : a \in Args}
  BY <1>1
<1>3. /\ Fresh(args) \in Calls /\ Fresh(args).pc = "resolve" /\ Fresh(args).args = args
      /\ Fresh(args).tool = tool /\ Fresh(args).reported = {}
  BY <1>1, <1>2 DEF Fresh, Calls, Phases, Outcomes
<1>4. QED
  BY <1>3 DEF Begin

LEMMA SnapshotStep ==
    ASSUME Typed, Snapshot
    PROVE  /\ call.pc = "snapshot" /\ call'.pc \in {"request", "finish", "stalled"}
           /\ call' \in Calls
           /\ call'.args = call.args /\ call'.tool = call.tool /\ call'.env = call.env
           /\ call'.target = call.target /\ call'.expected = call.expected
           /\ call'.reported = call.reported
           /\ call'.pc = "request" => call'.seen = releases /\ contended' = (rollout = "other")
           /\ UNCHANGED <<effects, audit, projects, rollout, releases, bore>>
<1>1. CASE /\ call' = [call EXCEPT !.pc = "request", !.seen = releases]
           /\ contended' = (rollout = "other")
           /\ UNCHANGED <<projects, build, rollout, releases, changes, bore, effects, audit>>
  <2> DEFINE moved == MovedTo("request")
  <2>1. SameCall(moved) /\ moved.pc = "request"
    BY MovedCall DEF Typed, Phases
  <2>2. call' = [moved EXCEPT !.seen = releases]
    BY <1>1 DEF MovedTo
  <2> HIDE DEF moved
  <2>3. call' \in Calls
    BY <2>1, <2>2 DEF Typed, SameCall, Calls
  <2>4. /\ call'.pc = "request" /\ call'.seen = releases
        /\ call'.args = call.args /\ call'.tool = call.tool /\ call'.env = call.env
        /\ call'.target = call.target /\ call'.expected = call.expected
        /\ call'.reported = call.reported
    BY <2>1, <2>2 DEF SameCall, Calls
  <2>5. QED
    BY <1>1, <2>3, <2>4 DEF Snapshot
<1>2. CASE \E c \in Broken : Move(c)
  BY <1>2, BrokenCalls DEF Snapshot, Move, SameCall, Typed, serverVars
<1>3. QED
  BY <1>1, <1>2 DEF Snapshot

LEMMA RequestStep ==
    ASSUME Typed, Request
    PROVE  /\ call.pc = "request" /\ SameCall(call')
           /\ call'.pc \in {"request", "follow", "finish", "stalled"}
           /\ call'.pc = "request" => Retryable(RowOf)
           /\ effects' = effects \/ (effects' = effects + 1 /\ RowOf.method # "GET")
           /\ DOMAIN projects' = Ids
           /\ rollout' \in {rollout, "mine"}
           /\ UNCHANGED <<audit, releases, bore, contended>>
<1>1. PICK applied \in BOOLEAN, reply \in {"ok", "rejected", "busy", "lost", "stalled"} :
        /\ call' = Answered(reply)
        /\ effects' = effects + IF applied /\ RowOf.method # "GET" THEN 1 ELSE 0
        /\ projects' = IF applied /\ call.tool = "delete_project"
                       THEN [projects EXCEPT ![call.target] = "gone"] ELSE projects
        /\ rollout' = IF applied /\ RowOf.follow = "release" THEN "mine" ELSE rollout
  BY DEF Request
<1>2. call.pc = "request" /\ UNCHANGED <<audit, releases, bore, contended>>
  BY DEF Request
<1>3. /\ SameCall(call') /\ call'.pc \in {"request", "follow", "finish", "stalled"}
      /\ call'.pc = "request" => Retryable(RowOf)
  BY <1>1, <1>2, AnsweredCalls DEF Typed
<1>4. effects' = effects \/ (effects' = effects + 1 /\ RowOf.method # "GET")
  BY <1>1 DEF Typed
<1>5. DOMAIN projects' = Ids /\ rollout' \in {rollout, "mine"}
  BY <1>1 DEF Typed
<1>6. QED
  BY <1>2, <1>3, <1>4, <1>5

LEMMA FollowStep ==
    ASSUME Typed, Probe \/ TimeOut
    PROVE  /\ call.pc = "follow" /\ call'.pc \in {"finish", "stalled"}
           /\ call' \in Calls
           /\ call'.args = call.args /\ call'.tool = call.tool /\ call'.env = call.env
           /\ call'.target = call.target /\ call'.expected = call.expected
           /\ call'.seen = call.seen
           /\ \/ call'.reported = call.reported
              \/ RowOf.follow = "release" /\ \E r \in NewReleases : call'.reported = {r}
           /\ UNCHANGED <<effects, audit, serverVars>>
<1> call \in Calls
  BY DEF Typed
<1>1. call.pc = "follow" /\ UNCHANGED <<effects, audit, serverVars>>
  BY DEF Probe, TimeOut, Move
<1>2. CASE call' = MovedTo("finish")
  BY <1>1, <1>2, MovedCall DEF Phases, SameCall
<1>3. CASE \E c \in Broken : call' = c
  BY <1>1, <1>3, BrokenCalls DEF SameCall
<1>4. CASE RowOf.follow = "release"
           /\ \E r \in NewReleases : call' = [call EXCEPT !.pc = "finish", !.reported = {r}]
  <2>1. PICK r \in NewReleases : call' = [call EXCEPT !.pc = "finish", !.reported = {r}]
    BY <1>4
  <2>2. {r} \subseteq Release
    BY DEF NewReleases, Typed
  <2> DEFINE moved == MovedTo("finish")
  <2>3. SameCall(moved) /\ moved.pc = "finish"
    BY MovedCall DEF Phases
  <2>4. call' = [moved EXCEPT !.reported = {r}]
    BY <2>1 DEF MovedTo
  <2> HIDE DEF moved
  <2>5. call' \in Calls
    BY <2>2, <2>3, <2>4 DEF SameCall, Calls
  <2>6. /\ call'.pc = "finish" /\ call'.reported = {r} /\ call'.seen = call.seen
        /\ call'.args = call.args /\ call'.tool = call.tool /\ call'.env = call.env
        /\ call'.target = call.target /\ call'.expected = call.expected
    BY <2>3, <2>4 DEF SameCall, Calls
  <2>7. QED
    BY <1>1, <1>4, <2>5, <2>6
<1>5. QED
  BY <1>2, <1>3, <1>4 DEF Probe, TimeOut, Move, MovedTo

LEMMA FinishStep ==
    ASSUME Typed, Finish
    PROVE  /\ call.pc = "finish" /\ call'.pc = "done" /\ SameCall(call')
           /\ RowOf.audit => audit' = audit + 1 \/ call'.unwritten
           /\ UNCHANGED <<effects, serverVars>>
<1>1. PICK written \in IF RowOf.audit THEN BOOLEAN ELSE {FALSE} :
        /\ call' = [call EXCEPT !.pc = "done", !.unwritten = RowOf.audit /\ ~written]
        /\ audit' = audit + IF written THEN 1 ELSE 0
  BY DEF Finish
<1> DEFINE moved == MovedTo("done")
           lost == RowOf.audit /\ ~written
<1>2. SameCall(moved) /\ moved.pc = "done"
  BY MovedCall DEF Typed, Phases
<1>3. call' = [moved EXCEPT !.unwritten = lost]
  BY <1>1 DEF MovedTo
<1>4. lost \in BOOLEAN
  OBVIOUS
<1> HIDE DEF moved
<1>5. call' \in Calls
  BY <1>2, <1>3, <1>4 DEF SameCall, Calls
<1>6. /\ call'.pc = "done" /\ call'.unwritten = lost
      /\ call'.args = call.args /\ call'.tool = call.tool /\ call'.env = call.env
      /\ call'.target = call.target /\ call'.expected = call.expected
      /\ call'.seen = call.seen /\ call'.reported = call.reported
  BY <1>2, <1>3 DEF SameCall, Calls
<1>7. RowOf.audit => written \/ lost
  OBVIOUS
<1>8. QED
  BY <1>1, <1>5, <1>6, <1>7 DEF Finish, SameCall

-----------------------------------------------------------------------------
(* Each part of the invariant is kept by every step.                       *)

LEMMA StepTyped == Typed /\ ToolNext => Typed'
<1> SUFFICES ASSUME Typed, ToolNext PROVE Typed'
  OBVIOUS
<1>1. ASSUME NEW tool \in Offered, NEW args \in Arguments(tool), Begin(args) PROVE Typed'
  BY <1>1, BeginStep DEF Typed
<1>2. CASE Resolve
  BY <1>2, ResolveStep DEF Typed, serverVars
<1>3. CASE Gate
  BY <1>3, GateStep DEF Typed, SameCall, serverVars
<1>4. CASE Snapshot
  BY <1>4, SnapshotStep DEF Typed
<1>5. CASE Request
  BY <1>5, RequestStep DEF Typed, SameCall
<1>6. CASE Probe \/ TimeOut
  BY <1>6, FollowStep DEF Typed, serverVars
<1>7. CASE Finish
  BY <1>7, FinishStep DEF Typed, SameCall, serverVars
<1>8. CASE Change
  BY <1>8 DEF Change, Typed, callVars
<1>9. CASE RolloutEnds
  <2>1. rollout \in {"mine", "other"} /\ releases' = releases \union
          {[n |-> Cardinality(releases) + 1, by |-> rollout]}
    BY <1>9 DEF RolloutEnds, Typed
  <2>2. IsFiniteSet(releases') /\ Cardinality(releases) \in Nat
    BY <2>1, FS_AddElement, FS_CardinalityType DEF Typed
  <2>3. releases' \subseteq Release
    BY <2>1, <2>2 DEF Typed, Release
  <2>4. QED
    BY <1>9, <2>2, <2>3 DEF RolloutEnds, Typed, callVars
<1>10. CASE BuildEnds \/ OtherRollout \/ InitInRepo
  BY <1>10 DEF BuildEnds, OtherRollout, InitInRepo, Typed, callVars, serverVars
<1>11. QED
  BY <1>1, <1>2, <1>3, <1>4, <1>5, <1>6, <1>7, <1>8, <1>9, <1>10 DEF ToolNext, Onwards, Others

LEMMA StepOnce == Typed /\ OnceInv /\ ToolNext => OnceInv'
<1> SUFFICES ASSUME Typed, OnceInv, ToolNext PROVE OnceInv'
  OBVIOUS
<1>1. ASSUME NEW tool \in Offered, NEW args \in Arguments(tool), Begin(args) PROVE OnceInv'
  BY <1>1, BeginStep DEF Typed, OnceInv, Early
<1>2. CASE Resolve
  BY <1>2, ResolveStep DEF Typed, OnceInv, Early
<1>3. CASE Gate
  BY <1>3, GateStep DEF Typed, OnceInv, Early
<1>4. CASE Snapshot
  BY <1>4, SnapshotStep DEF Typed, OnceInv, Early
<1>5. CASE Request
  <2>1. RowOf' = RowOf
    BY <1>5, RequestStep DEF RowOf, SameCall
  <2>2. QED
    BY <1>5, <2>1, RequestStep DEF Typed, OnceInv, Early, Retryable
<1>6. CASE Probe \/ TimeOut
  <2>1. RowOf' = RowOf
    BY <1>6, FollowStep DEF RowOf
  <2>2. call.pc = "follow" /\ call'.pc \in {"finish", "stalled"} /\ effects' = effects
    BY <1>6, FollowStep
  <2>3. QED
    BY <2>1, <2>2 DEF OnceInv, Early, Retryable
<1>7. CASE Finish
  <2>1. RowOf' = RowOf
    BY <1>7, FinishStep DEF RowOf, SameCall
  <2>2. call.pc = "finish" /\ call'.pc = "done" /\ effects' = effects
    BY <1>7, FinishStep
  <2>3. QED
    BY <2>1, <2>2 DEF OnceInv, Early, Retryable
<1>8. CASE Others
  BY <1>8 DEF Others, Change, BuildEnds, OtherRollout, RolloutEnds, InitInRepo, callVars,
     OnceInv, RowOf, Retryable
<1>9. QED
  BY <1>1, <1>2, <1>3, <1>4, <1>5, <1>6, <1>7, <1>8 DEF ToolNext, Onwards

\* Before its request a call has no effects; afterwards its name is settled.
LEMMA StepConfirm == Typed /\ OnceInv /\ ConfirmInv /\ ToolNext => ConfirmInv'
<1> SUFFICES ASSUME Typed, OnceInv, ConfirmInv, ToolNext PROVE ConfirmInv'
  OBVIOUS
<1>1. ASSUME NEW tool \in Offered, NEW args \in Arguments(tool), Begin(args) PROVE ConfirmInv'
  <2>1. call'.pc = "resolve" /\ effects' = 0
    BY <1>1, BeginStep DEF OnceInv, Early
  <2>2. bore' = {i \in Visible : projects[i] = call'.args.confirm_name} /\ projects' = projects
    BY <1>1, BeginStep DEF Bearing
  <2>3. Visible' = Visible
    BY <2>2 DEF Visible
  <2>4. QED
    BY <2>1, <2>2, <2>3 DEF ConfirmInv
<1>2. CASE Resolve
  <2>1. /\ call'.pc \in {"gate", "finish", "stalled"} /\ call.pc = "resolve" /\ effects' = 0
        /\ call'.args = call.args /\ RowOf' = RowOf /\ bore' = bore
    BY <1>2, ResolveStep DEF OnceInv, Early, RowOf, serverVars
  <2>2. ASSUME call'.pc = "gate", RowOf.subject # "none", call'.expected = call.args.confirm_name
        PROVE call'.target \in bore
    BY <1>2, <2>1, <2>2, ResolveStep DEF ConfirmInv
  <2>3. QED
    BY <2>1, <2>2 DEF ConfirmInv
<1>3. CASE Gate
  <2>1. /\ RowOf' = RowOf /\ TierOf' = TierOf /\ effects' = 0 /\ bore' = bore
        /\ call.pc = "gate" /\ call'.args = call.args
        /\ call'.expected = call.expected /\ call'.target = call.target
        /\ call'.pc \in {"snapshot", "request", "finish"}
        /\ call'.pc # "finish" => Confirmed(call.args, TierOf, RowOf.named, call.expected)
    BY <1>3, GateStep DEF OnceInv, Early, RowOf, TierOf, SameCall, serverVars
  <2>2. QED
    BY <2>1 DEF ConfirmInv, Confirmed
<1>4. CASE Snapshot
  <2>1. /\ RowOf' = RowOf /\ TierOf' = TierOf /\ effects' = 0 /\ bore' = bore
        /\ call.pc = "snapshot" /\ call'.args = call.args
        /\ call'.expected = call.expected /\ call'.target = call.target
        /\ call'.pc \in {"request", "finish", "stalled"}
    BY <1>4, SnapshotStep DEF OnceInv, Early, RowOf, TierOf
  <2>2. Confirmed(call.args, TierOf, RowOf.named, call.expected)
        /\ (RowOf.subject # "none" /\ call.expected = call.args.confirm_name =>
             call.target \in bore)
    BY <2>1, <1>4 DEF ConfirmInv, Snapshot
  <2>3. QED
    BY <2>1, <2>2 DEF ConfirmInv, Confirmed
<1>5. CASE Request
  <2>1. /\ RowOf' = RowOf /\ TierOf' = TierOf /\ bore' = bore
        /\ call.pc = "request" /\ call'.args = call.args
        /\ call'.expected = call.expected /\ call'.target = call.target
        /\ call'.pc \in {"request", "follow", "finish", "stalled"}
    BY <1>5, RequestStep DEF RowOf, TierOf, SameCall
  <2>2. Confirmed(call.args, TierOf, RowOf.named, call.expected)
        /\ (RowOf.subject # "none" /\ call.expected = call.args.confirm_name =>
             call.target \in bore)
    BY <2>1 DEF ConfirmInv
  <2>3. QED
    BY <2>1, <2>2 DEF ConfirmInv, Confirmed
<1>6. CASE Probe \/ TimeOut \/ Finish
  <2>1. /\ RowOf' = RowOf /\ TierOf' = TierOf /\ bore' = bore /\ effects' = effects
        /\ call'.args = call.args
        /\ call'.expected = call.expected /\ call'.target = call.target
        /\ call'.pc \in {"finish", "stalled", "done"}
    BY <1>6, FollowStep, FinishStep DEF RowOf, TierOf, SameCall, serverVars
  <2>2. QED
    BY <2>1 DEF ConfirmInv, Confirmed
<1>7. CASE Change
  <2>1. UNCHANGED <<call, effects>>
    BY <1>7 DEF Change, callVars
  <2>2. PICK i \in Ids, n \in Names \union {"gone"} :
          /\ projects' = [projects EXCEPT ![i] = n]
          /\ bore' = bore \union (IF n = call.args.confirm_name THEN {i} ELSE {})
    BY <1>7 DEF Change
  <2>3. ASSUME call.pc = "resolve", NEW j \in Visible', projects'[j] = call.args.confirm_name
        PROVE j \in bore'
    <3>1. CASE j = i
      BY <2>2, <2>3, <3>1 DEF Typed, Visible
    <3>2. CASE j # i
      BY <2>2, <2>3, <3>2 DEF Typed, Visible, ConfirmInv
    <3>3. QED
      BY <3>1, <3>2
  <2>4. bore \subseteq bore' /\ RowOf' = RowOf /\ TierOf' = TierOf
    BY <2>1, <2>2 DEF RowOf, TierOf
  <2>5. QED
    BY <2>1, <2>3, <2>4 DEF ConfirmInv, Confirmed
<1>8. CASE BuildEnds \/ OtherRollout \/ RolloutEnds \/ InitInRepo
  <2>1. UNCHANGED <<call, effects, projects, bore>>
    BY <1>8 DEF BuildEnds, OtherRollout, RolloutEnds, InitInRepo, callVars, serverVars
  <2>2. RowOf' = RowOf /\ TierOf' = TierOf /\ Visible' = Visible
    BY <2>1 DEF RowOf, TierOf, Visible
  <2>3. QED
    BY <2>1, <2>2 DEF ConfirmInv, Confirmed
<1>9. QED
  BY <1>1, <1>2, <1>3, <1>4, <1>5, <1>6, <1>7, <1>8 DEF ToolNext, Onwards, Others

LEMMA StepAudit == Typed /\ AuditInv /\ ToolNext => AuditInv'
<1> SUFFICES ASSUME Typed, AuditInv, ToolNext PROVE AuditInv'
  OBVIOUS
<1>1. CASE call'.pc # "done" /\ call.pc # "done" /\ audit' = audit
  BY <1>1 DEF AuditInv, EffectsAreAudited
<1>2. ASSUME NEW tool \in Offered, NEW args \in Arguments(tool), Begin(args) PROVE AuditInv'
  BY <1>1, <1>2, BeginStep
<1>3. CASE Resolve \/ Gate \/ Snapshot \/ Request \/ Probe \/ TimeOut
  <2>1. call.pc # "done"
    BY <1>3 DEF Resolve, Gate, Snapshot, Request, Probe, TimeOut
  <2>2. call'.pc # "done" /\ audit' = audit
    BY <1>3, ResolveStep, GateStep, SnapshotStep, RequestStep, FollowStep
  <2>3. QED
    BY <1>1, <2>1, <2>2
<1>4. CASE Finish
  <2>1. audit = 0 /\ call'.pc = "done"
    BY <1>4, FinishStep DEF AuditInv
  <2>2. RowOf' = RowOf /\ (RowOf.audit => audit' = audit + 1 \/ call'.unwritten)
    BY <1>4, FinishStep DEF RowOf, SameCall
  <2>3. QED
    BY <2>1, <2>2 DEF AuditInv, EffectsAreAudited
<1>5. CASE Others
  <2>1. UNCHANGED <<call, audit, effects>>
    BY <1>5 DEF Others, Change, BuildEnds, OtherRollout, RolloutEnds, InitInRepo, callVars
  <2>2. QED
    BY <2>1 DEF AuditInv, EffectsAreAudited, RowOf
<1>6. QED
  BY <1>2, <1>3, <1>4, <1>5 DEF ToolNext, Onwards

LEMMA StepRelease == Typed /\ ReleaseInv /\ ToolNext => ReleaseInv'
<1> SUFFICES ASSUME Typed, ReleaseInv, ToolNext PROVE ReleaseInv'
  OBVIOUS
<1>1. ASSUME NEW tool \in Offered, NEW args \in Arguments(tool), Begin(args) PROVE ReleaseInv'
  BY <1>1, BeginStep DEF ReleaseInv, OwnReleaseReported
<1>2. CASE Resolve
  <2>1. /\ call.pc = "resolve" /\ call'.pc \in {"gate", "finish", "stalled"}
        /\ call'.reported = call.reported
    BY <1>2, ResolveStep
  <2>2. QED
    BY <2>1 DEF ReleaseInv, OwnReleaseReported, Early
<1>3. CASE Gate
  <2>1. /\ call.pc = "gate" /\ call'.pc \in {"snapshot", "request", "finish"}
        /\ call'.reported = call.reported /\ RowOf' = RowOf
        /\ call'.pc = "request" => RowOf.follow # "release"
    BY <1>3, GateStep DEF SameCall, RowOf
  <2>2. QED
    BY <2>1 DEF ReleaseInv, OwnReleaseReported, Early
<1>4. CASE Snapshot
  <2>1. /\ call.pc = "snapshot" /\ call'.pc \in {"request", "finish", "stalled"}
        /\ call'.reported = call.reported /\ UNCHANGED <<releases, rollout>>
        /\ call'.pc = "request" => call'.seen = releases /\ contended' = (rollout = "other")
    BY <1>4, SnapshotStep
  <2>2. call'.pc = "request" => NewReleases' = {}
    BY <2>1 DEF NewReleases
  <2>3. QED
    BY <2>1, <2>2 DEF ReleaseInv, OwnReleaseReported, Early
<1>5. CASE Request
  <2>1. /\ call.pc = "request" /\ call'.reported = call.reported
        /\ RowOf' = RowOf /\ NewReleases' = NewReleases
        /\ rollout' \in {rollout, "mine"} /\ contended' = contended
    BY <1>5, RequestStep DEF SameCall, RowOf, NewReleases
  <2>2. QED
    BY <2>1 DEF ReleaseInv, OwnReleaseReported
<1>6. CASE Probe \/ TimeOut
  <2>1. /\ call.pc = "follow" /\ call'.pc \in {"finish", "stalled"} /\ contended' = contended
        /\ \/ call'.reported = call.reported
           \/ RowOf.follow = "release" /\ \E r \in NewReleases : call'.reported = {r}
    BY <1>6, FollowStep DEF serverVars
  <2>2. ~contended /\ RowOf.follow = "release" => \A r \in NewReleases : r.by = "mine"
    BY <2>1 DEF ReleaseInv
  <2>3. OwnReleaseReported'
    BY <2>1, <2>2 DEF ReleaseInv, OwnReleaseReported
  <2>4. QED
    BY <2>1, <2>3 DEF ReleaseInv, Early
<1>7. CASE Finish
  BY <1>7, FinishStep DEF SameCall, serverVars, ReleaseInv, OwnReleaseReported, Early
<1>8. CASE RolloutEnds
  <2>1. UNCHANGED <<call, contended>> /\ rollout' = "none" /\ rollout # "none"
    BY <1>8 DEF RolloutEnds, callVars
  <2>2. \A r \in NewReleases' : r \in NewReleases \/ r.by = rollout
    BY <1>8, <2>1 DEF RolloutEnds, NewReleases
  <2>3. QED
    BY <2>1, <2>2 DEF ReleaseInv, OwnReleaseReported, RowOf, Typed
<1>9. CASE OtherRollout
  BY <1>9 DEF OtherRollout, callVars, ReleaseInv, OwnReleaseReported
<1>10. CASE Change \/ BuildEnds \/ InitInRepo
  <2>1. UNCHANGED <<call, contended, rollout, releases>>
    BY <1>10 DEF Change, BuildEnds, InitInRepo, callVars, serverVars
  <2>2. QED
    BY <2>1 DEF ReleaseInv, OwnReleaseReported, RowOf, NewReleases
<1>11. QED
  BY <1>1, <1>2, <1>3, <1>4, <1>5, <1>6, <1>7, <1>8, <1>9, <1>10 DEF ToolNext, Onwards, Others

-----------------------------------------------------------------------------
(* The theorems.                                                           *)

LEMMA InitialCall == ToolInit => ToolInv
<1> SUFFICES ASSUME ToolInit PROVE ToolInv
  OBVIOUS
<1>1. NoArguments \in Args /\ NoArguments.tool = Nothing
  BY DEF Args, NoArguments
<1>2. NoArguments.env \in {a.env : a \in Args}
  BY <1>1
<1> DEFINE fresh == Fresh(NoArguments)
<1>3. fresh \in Calls /\ fresh.reported = {}
  BY <1>1, <1>2 DEF Fresh, Calls, Phases, Outcomes
<1> HIDE DEF fresh
<1>4. call \in Calls /\ call.pc = "idle" /\ call.reported = {}
  BY <1>3 DEF ToolInit, Calls, Phases, fresh
<1>5. Typed
  BY <1>4, FS_EmptySet DEF ToolInit, Typed
<1>6. OnceInv /\ ConfirmInv /\ AuditInv /\ ReleaseInv
  BY <1>4 DEF ToolInit, OnceInv, Early, ConfirmInv, AuditInv, EffectsAreAudited, ReleaseInv,
     OwnReleaseReported
<1>7. QED
  BY <1>5, <1>6 DEF ToolInv

LEMMA ToolInvInductive == ToolInv /\ [ToolNext]_toolVars => ToolInv'
<1> SUFFICES ASSUME ToolInv, [ToolNext]_toolVars PROVE ToolInv'
  OBVIOUS
<1>1. CASE ToolNext
  BY <1>1, StepTyped, StepOnce, StepConfirm, StepAudit, StepRelease DEF ToolInv
<1>2. CASE UNCHANGED toolVars
  <2>1. UNCHANGED <<call, effects, audit, projects, rollout, releases, bore, contended>>
    BY <1>2 DEF toolVars, callVars, serverVars
  <2>2. RowOf' = RowOf /\ TierOf' = TierOf /\ Visible' = Visible /\ NewReleases' = NewReleases
    BY <2>1 DEF RowOf, TierOf, Visible, NewReleases
  <2>3. Typed' /\ AuditInv' /\ ReleaseInv'
    BY <2>1, <2>2 DEF ToolInv, Typed, AuditInv, EffectsAreAudited, ReleaseInv, OwnReleaseReported
  <2>4. OnceInv' /\ ConfirmInv'
    BY <2>1, <2>2 DEF ToolInv, OnceInv, ConfirmInv, Retryable, Confirmed
  <2>5. QED
    BY <2>3, <2>4 DEF ToolInv
<1>3. QED
  BY <1>1, <1>2

\* What the package does is a step of a call, or leaves the call alone.
LEMMA ToolInvHolds == Spec => []ToolInv
<1>1. Init => ToolInv
  BY InitialCall DEF Init
<1>2. [Next]_vars => [ToolNext]_toolVars
  BY DEF Next, ToolStep, InstallStep, vars
<1>3. QED
  BY <1>1, <1>2, ToolInvInductive, PTL DEF Spec

(* Whatever is lost or fails on the way, a request that is not idempotent  *)
(* is carried out at most once in a call (request, retryableMethod).       *)
THEOREM RequestsAppliedOnce == Spec => []AppliedAtMostOnce
<1>1. ToolInv => AppliedAtMostOnce
  BY DEF ToolInv, Typed, OnceInv, Retryable, AppliedAtMostOnce
<1>2. QED
  BY <1>1, ToolInvHolds, PTL

(* Whoever renames, creates or deletes projects meanwhile, a destructive   *)
(* request was confirmed, by the name of its project (checkSafety).        *)
THEOREM DestructionWasConfirmed == Spec => []EffectsWereConfirmed
<1>1. ToolInv => EffectsWereConfirmed
  <2> SUFFICES ASSUME ToolInv, effects > 0, TierOf \in {"destructive", "destructive_production"}
               PROVE  call.args.confirm /\ (RowOf.named => call.target \in bore)
    BY DEF EffectsWereConfirmed
  <2>1. call.args.confirm /\ (RowOf.named => call.args.confirm_name = call.expected)
    BY DEF ToolInv, ConfirmInv, Confirmed
  <2>2. call.tool \in Offered
    BY DEF ToolInv, Typed, OnceInv, Early
  <2>3. RowOf.named => RowOf.subject # "none"
    BY <2>2, ToolAssumption DEF RowOf
  <2>4. QED
    BY <2>1, <2>3 DEF ToolInv, ConfirmInv
<1>2. QED
  BY <1>1, ToolInvHolds, PTL

(* An audited call that is over has its effects in the audit log once,     *)
(* unless the log could not be written (registerTool, appendAudit).        *)
THEOREM EffectsReachTheAuditLog == Spec => []EffectsAreAudited
<1>1. ToolInv => EffectsAreAudited
  BY DEF ToolInv, AuditInv
<1>2. QED
  BY <1>1, ToolInvHolds, PTL

(* However many releases others record, deploy_app_and_wait reports its    *)
(* own as long as no other rollout ran since its snapshot.                 *)
THEOREM ReportedReleaseIsOwn == Spec => []OwnReleaseReported
<1>1. ToolInv => OwnReleaseReported
  BY DEF ToolInv, ReleaseInv
<1>2. QED
  BY <1>1, ToolInvHolds, PTL
=============================================================================
