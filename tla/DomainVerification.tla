------------------------- MODULE DomainVerification -------------------------
(***************************************************************************)
(* The verification of a custom domain: the server's handlers              *)
(* (handlers/domains.go: Add, Delete, Update, Verify), the events of a     *)
(* verification on the hub's topic of that domain, and the settings page   *)
(* that starts it and follows it (pages/ProjectSettingsDomains.tsx with    *)
(* hooks/useDomainVerification.ts).  One project.                          *)
(*                                                                         *)
(* Verify answers before its goroutine has reset the topic's replay, and   *)
(* the page learns the result from the last event of the stream alone.     *)
(***************************************************************************)
EXTENDS LogHub

CONSTANTS
    Domains,       \* the topics of custom domains
    Visits,        \* open settings pages
    MaxSessions,   \* bound: how many verifications are started
    SocketFaults   \* which of {"refuse", "drop"} happen to the pages' sockets

ASSUME DomainAssumption ==
    Domains \subseteq Topics /\ Visits \subseteq Viewers /\ MaxSessions \in Nat

VARIABLES
    row,        \* row[d] : the domains row
    verifying,  \* the project's entry in DomainHandler.verifying
    run,        \* the goroutine that holds the entry
    sessions,   \* how many verifications were started
    visit       \* visit[p] : a settings page

domainVars == <<row, verifying, run, sessions, visit>>

Nobody == "nobody"
Verdicts == {"success", "error"}
Event == [topic : Topics, n : Nat, text : {"step"} \union Verdicts, session : Nat]

\* isDomainReady
Ready(r) == r.dns /\ r.ssl = "active"
Listed(d) == row[d].state = "listed"

-----------------------------------------------------------------------------
(* The server.                                                             *)

NoRun == [d |-> Nobody, pc |-> "idle", n |-> 0, verdict |-> "error"]

(* A row is written only if it is still there: the goroutine goes on for a *)
(* domain that was deleted under it.                                       *)
Written(d, r) == IF Listed(d) THEN [row EXCEPT ![d] = r] ELSE row

\* Verify: the entry is taken and the answer sent (bound: MaxSessions times).
Accepted(d) ==
    /\ Listed(d) /\ verifying = Nobody /\ sessions < MaxSessions
    /\ verifying' = d
    /\ sessions' = sessions + 1
    /\ run' = [NoRun EXCEPT !.d = d, !.pc = "answered"]
    /\ UNCHANGED row

\* The goroutine drops what an earlier verification left in the replay.
StartSession ==
    /\ run.pc = "answered"
    /\ ResetBuffer(run.d)
    /\ run' = [run EXCEPT !.pc = "dns"]
    /\ UNCHANGED <<row, verifying, sessions, visit>>

Emit(text) ==
    Publish(run.d, [topic |-> run.d, n |-> run.n + 1, text |-> text, session |-> sessions])

\* The hostnames are looked up and reported.
CheckDNS ==
    /\ run.pc = "dns"
    /\ Emit("step")
    /\ \E found \in BOOLEAN :
         run' = [run EXCEPT !.n = @ + 1, !.pc = IF found THEN "found" ELSE "missing"]
    /\ UNCHANGED <<row, verifying, sessions, visit>>

RecordMissing ==
    /\ run.pc = "missing"
    /\ row' = Written(run.d, [row[run.d] EXCEPT !.dns = FALSE, !.ssl = "pending"])
    /\ run' = [run EXCEPT !.pc = "conclude", !.verdict = "error"]
    /\ UNCHANGED <<verifying, sessions, visit, hubVars>>

RecordFound ==
    /\ run.pc = "found"
    /\ row' = Written(run.d, [row[run.d] EXCEPT !.dns = TRUE])
    /\ run' = [run EXCEPT !.pc = "provision"]
    /\ UNCHANGED <<verifying, sessions, visit, hubVars>>

\* ProvisionDomain succeeds or fails, and the row says so.
Provision ==
    /\ run.pc = "provision"
    /\ \E verdict \in Verdicts :
         /\ row' = Written(run.d, [row[run.d] EXCEPT !.ssl =
                       IF verdict = "success" THEN "active" ELSE "error"])
         /\ run' = [run EXCEPT !.pc = "conclude", !.verdict = verdict]
    /\ UNCHANGED <<verifying, sessions, visit, hubVars>>

\* Mutant: nothing is emitted when the provisioning failed.
ConcludeOnSuccessOnly ==
    /\ run.pc = "conclude"
    /\ IF run.verdict = "success" THEN Emit(run.verdict) ELSE UNCHANGED hubVars
    /\ run' = [run EXCEPT !.pc = "release"]
    /\ UNCHANGED <<row, verifying, sessions, visit>>

\* The "done" event.
Conclude ==
    /\ run.pc = "conclude"
    /\ Emit(run.verdict)
    /\ run' = [run EXCEPT !.pc = "release"]
    /\ UNCHANGED <<row, verifying, sessions, visit>>

\* The deferred verifying.Delete, of Verify and of a move.
Release ==
    /\ run.pc \in {"release", "moving"}
    /\ verifying' = Nobody
    /\ run' = NoRun
    /\ UNCHANGED <<row, sessions, visit, hubVars>>

Verification ==
    \/ StartSession \/ CheckDNS \/ RecordMissing \/ RecordFound
    \/ Provision \/ Conclude \/ Release

-----------------------------------------------------------------------------
(* The settings page.  list is the cached domain list; owed says that it   *)
(* was invalidated and not yet read again; asking and reply are the verify *)
(* mutation; state and heard are the hook's.                               *)

ClosedVisit ==
    [open |-> FALSE, list |-> [d \in Domains |-> "unknown"], owed |-> FALSE, attempted |-> {},
     asking |-> Nobody, reply |-> "none", verifying |-> Nobody, state |-> "idle", heard |-> {}]

Entry(d) ==
    IF ~Listed(d) THEN "absent" ELSE IF Ready(row[d]) THEN "ready" ELSE "pending"

\* allVerifyDisabled
VerifyDisabled(v) == v.asking # Nobody \/ v.verifying # Nobody

Asking(v, d) ==
    [v EXCEPT !.asking = d, !.reply = "sent", !.attempted = @ \union {d}]

\* The domains the auto-verify effect would start with after a render.
Due(v) ==
    IF ~v.open \/ VerifyDisabled(v) THEN {}
    ELSE {d \in Domains : v.list[d] = "pending" /\ d \notin v.attempted}

\* A render and its effects: the auto-verify effect fires when it is due.
Rerender(p, v) ==
    \/ Due(v) = {} /\ visit' = [visit EXCEPT ![p] = v]
    \/ \E d \in Due(v) : visit' = [visit EXCEPT ![p] = Asking(v, d)]

\* The hook's effect on a change of verifyingDomainId.
Redial(p, old, new) ==
    /\ new \notin {old, Nobody} => conn[new][p] = "none"
    /\ conn' = [t \in Topics |-> [conn[t] EXCEPT ![p] =
                  IF old # new /\ t = old THEN HungUp(@)
                  ELSE IF old # new /\ t = new THEN "dialling" ELSE @]]
    /\ UNCHANGED <<subscribers, buffer, channel, capacity, hubHistory>>

Elsewhere == UNCHANGED <<row, verifying, run, sessions>>

OpenSettings(p) ==
    /\ ~visit[p].open
    /\ Rerender(p, [visit[p] EXCEPT !.open = TRUE, !.owed = TRUE])
    /\ Elsewhere /\ UNCHANGED hubVars

(* Unmounting: the cached list stays.  A verify request that is still on   *)
(* its way becomes one of VerifyElsewhere.                                 *)
LeaveSettings(p) ==
    /\ visit[p].open
    /\ Redial(p, visit[p].verifying, Nobody)
    /\ visit' = [visit EXCEPT ![p] = [ClosedVisit EXCEPT !.list = visit[p].list]]
    /\ Elsewhere

\* The first fetch, the refetch after an invalidation or a focus.
FetchDomains(p) ==
    /\ visit[p].open
    /\ Rerender(p, [visit[p] EXCEPT !.owed = FALSE, !.list = [d \in Domains |-> Entry(d)]])
    /\ Elsewhere /\ UNCHANGED hubVars

\* The Verify button of a row and the menu's Re-verify.
ClickVerify(p, d) ==
    /\ visit[p].open /\ ~VerifyDisabled(visit[p])
    /\ visit[p].list[d] \in {"pending", "ready"}
    /\ visit' = [visit EXCEPT ![p] = Asking(@, d)]
    /\ Elsewhere /\ UNCHANGED hubVars

\* The verify request reaches the handler.
ServeVerify(p) ==
    /\ visit[p].reply = "sent"
    /\ \/ /\ Accepted(visit[p].asking)
          /\ visit' = [visit EXCEPT ![p].reply = "accepted"]
       \/ /\ ~Listed(visit[p].asking) \/ verifying # Nobody
          /\ visit' = [visit EXCEPT ![p].reply = "refused"]
          /\ Elsewhere
    /\ UNCHANGED hubVars

\* onSuccess or onError of the verify mutation.
ReplyArrives(p) ==
    LET v == visit[p]
        settled == [v EXCEPT !.asking = Nobody, !.reply = "none"] IN
    \/ /\ v.reply = "accepted"
       /\ Redial(p, v.verifying, v.asking)
       /\ Rerender(p, [settled EXCEPT !.verifying = v.asking, !.state = "following",
                                     !.heard = {}])
       /\ Elsewhere
    \/ /\ v.reply = "refused"
       /\ Rerender(p, settled)
       /\ Elsewhere /\ UNCHANGED hubVars

\* Mutant: the list is not invalidated when the verdict arrives.
HearEventNoRefetch(p, d) ==
    LET line == Head(channel[d][p])  done == line.text \in Verdicts IN
    /\ conn[d][p] = "open" /\ channel[d][p] # <<>>
    /\ channel' = [channel EXCEPT ![d][p] = Tail(@)]
    /\ conn' = IF done THEN [conn EXCEPT ![d][p] = HungUp(@)] ELSE conn
    /\ Rerender(p, IF done THEN [visit[p] EXCEPT !.state = line.text, !.heard = {line}]
                  ELSE visit[p])
    /\ Elsewhere /\ UNCHANGED <<subscribers, buffer, capacity, hubHistory>>

(* ws.onmessage: the done event closes the socket, and the page's effect   *)
(* on the new state invalidates the list.                                  *)
HearEvent(p, d) ==
    LET line == Head(channel[d][p])  done == line.text \in Verdicts IN
    /\ conn[d][p] = "open" /\ channel[d][p] # <<>>
    /\ channel' = [channel EXCEPT ![d][p] = Tail(@)]
    /\ conn' = IF done THEN [conn EXCEPT ![d][p] = HungUp(@)] ELSE conn
    /\ Rerender(p, IF done THEN [visit[p] EXCEPT !.state = line.text, !.heard = {line},
                                                !.owed = TRUE]
                  ELSE visit[p])
    /\ Elsewhere /\ UNCHANGED <<subscribers, buffer, capacity, hubHistory>>

(* The handshake fails (ws.onerror), or an open socket is lost: onclose    *)
(* does nothing, and a lost socket may or may not raise an error first.    *)
SocketFails(p, d) ==
    /\ \/ "refuse" \in SocketFaults /\ conn[d][p] = "dialling"
       \/ "drop" \in SocketFaults /\ conn[d][p] = "open"
    /\ conn' = [conn EXCEPT ![d][p] = IF @ = "open" THEN "closing" ELSE "none"]
    /\ \/ Rerender(p, [visit[p] EXCEPT !.state = "error", !.owed = TRUE])
       \/ conn[d][p] = "open" /\ UNCHANGED visit
    /\ Elsewhere /\ UNCHANGED <<subscribers, buffer, channel, capacity, hubHistory>>

\* Two seconds after the verdict the buttons come back.
Minimise(p) ==
    LET v == visit[p] IN
    /\ v.verifying # Nobody /\ v.state \in Verdicts
    /\ Redial(p, v.verifying, Nobody)
    /\ Rerender(p, [v EXCEPT !.verifying = Nobody])
    /\ Elsewhere

\* The add form; the new row is pending, and verified at once.
AddDomain(p, d) ==
    /\ visit[p].open /\ row[d].state = "unclaimed"
    /\ row' = [row EXCEPT ![d].state = "listed"]
    /\ visit' = [visit EXCEPT ![p].owed = TRUE]
    /\ UNCHANGED <<verifying, run, sessions, hubVars>>

\* The delete dialog: not held back by a verification.
DeleteDomain(p, d) ==
    /\ visit[p].open /\ visit[p].list[d] \in {"pending", "ready"} /\ Listed(d)
    /\ row' = [row EXCEPT ![d].state = "deleted"]
    /\ visit' = [visit EXCEPT ![p].owed = TRUE]
    /\ UNCHANGED <<verifying, run, sessions, hubVars>>

(* Move to the other environment: refused during a verification, and a     *)
(* verification is refused while it re-provisions the domain.              *)
MoveDomain(p, d) ==
    /\ visit[p].open /\ visit[p].verifying = Nobody
    /\ visit[p].list[d] \in {"pending", "ready"} /\ Listed(d)
    /\ IF verifying = Nobody
       THEN /\ verifying' = d
            /\ run' = [NoRun EXCEPT !.d = d, !.pc = "moving"]
            /\ visit' = [visit EXCEPT ![p].owed = TRUE]
       ELSE UNCHANGED <<verifying, run, visit>>
    /\ UNCHANGED <<row, sessions, hubVars>>

\* verify_domain of the MCP server, another client, a page that was left.
VerifyElsewhere(d) ==
    /\ Accepted(d)
    /\ UNCHANGED <<visit, hubVars>>

Visiting(p) ==
    \/ OpenSettings(p) \/ LeaveSettings(p) \/ FetchDomains(p) \/ ServeVerify(p)
    \/ ReplyArrives(p) \/ Minimise(p)
    \/ \E d \in Domains : \/ ClickVerify(p, d) \/ HearEvent(p, d) \/ SocketFails(p, d)
                          \/ AddDomain(p, d) \/ DeleteDomain(p, d) \/ MoveDomain(p, d)

-----------------------------------------------------------------------------
\* The handler side of the pages' sockets.
Sockets ==
    \E d \in Domains, p \in Visits :
        \/ Subscribe(d, p) \/ Unsubscribe(d, p)
        \/ conn[d][p] = "abandoned" /\ Refuse(d, p)

DomainInit ==
    /\ row = [d \in Domains |-> [state |-> "unclaimed", dns |-> FALSE, ssl |-> "pending"]]
    /\ verifying = Nobody /\ run = NoRun /\ sessions = 0
    /\ visit = [p \in Visits |-> ClosedVisit]

DomainNext ==
    \/ Verification
    \/ \E p \in Visits : Visiting(p)
    \/ \E d \in Domains : VerifyElsewhere(d)
    \/ Sockets /\ UNCHANGED domainVars

-----------------------------------------------------------------------------
(* Properties.                                                             *)

DomainTypeOK ==
    /\ HubTypeOK(Domains, Event)
    /\ row \in [Domains -> [state : {"unclaimed", "listed", "deleted"}, dns : BOOLEAN,
                            ssl : {"pending", "active", "error"}]]
    /\ verifying \in Domains \union {Nobody} /\ sessions \in 0..MaxSessions
    /\ run \in [d : Domains \union {Nobody}, n : Nat, verdict : Verdicts,
                pc : {"idle", "answered", "dns", "missing", "found", "provision",
                      "conclude", "release", "moving"}]
    /\ (verifying = Nobody) = (run.pc = "idle") /\ verifying = run.d
    /\ visit \in [Visits ->
         [open : BOOLEAN, list : [Domains -> {"unknown", "absent", "pending", "ready"}],
          owed : BOOLEAN, attempted : SUBSET Domains, asking : Domains \union {Nobody},
          reply : {"none", "sent", "accepted", "refused"},
          verifying : Domains \union {Nobody},
          state : {"idle", "following"} \union Verdicts, heard : SUBSET Event]]

(* The list a page has read since it heard the verdict of the session in   *)
(* course shows that verdict: the goroutine writes the row before it emits *)
(* "done", and the page reads the list again after it.                     *)
ListShowsVerdict ==
    \A p \in Visits : ~visit[p].owed =>
        \A line \in visit[p].heard : line \in published[line.topic] =>
            visit[p].list[line.topic] \in
                IF line.text = "success" THEN {"ready", "absent"} ELSE {"pending", "absent"}

\* The page's socket can no longer bring it the verdict.
Deaf(p, d) ==
    /\ visit[p].state = "following"
    /\ \/ conn[d][p] \in {"none", "closing"}
       \/ \E line \in withheld[d][p] \intersect published[d] : line.text \in Verdicts

(* A page that follows a verification stops: the verdict arrives and the   *)
(* buttons come back, unless its socket was lost or the hub withheld the   *)
(* verdict.                                                                *)
FollowingEnds ==
    \A p \in Visits, d \in Domains :
        visit[p].verifying = d ~> visit[p].verifying # d \/ Deaf(p, d)
=============================================================================
