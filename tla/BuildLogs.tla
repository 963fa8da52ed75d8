------------------------------ MODULE BuildLogs ------------------------------
(***************************************************************************)
(* The build log of a deployment, from the pipeline that writes it to the  *)
(* two clients that show it: the deployment page of the dashboard          *)
(* (pages/DeploymentDetail.tsx with hooks/useBuildLogs.ts) and the log     *)
(* tools of the MCP server (mcp/src/tools/workflows.ts).                   *)
(*                                                                         *)
(* The pipeline numbers its lines with one counter.  While the image is    *)
(* built, the scanners of docker's stdout and stderr share that counter    *)
(* without a lock (docker.go, the OnLog callback of pipeline.go), so the   *)
(* increment and the two later reads of it are steps of their own.         *)
(***************************************************************************)
EXTENDS LogHub, FiniteSetsExt

CONSTANTS
    Deployments,  \* the deployments with a log
    First,        \* those one of which is in progress, or None
    Scanners,     \* the scanner goroutines that have something to read
    Main,         \* the goroutine of Deploy itself
    Pages,        \* dashboard tabs
    Tails,        \* MCP tool calls
    ImageLines,   \* bound: ImageLines[d] lines are printed by docker
    PageCap,      \* the hook keeps at most this many lines (5000)
    MaxLines,     \* max_lines of tail_deployment_logs
    LogFaults     \* which of {"refuse", "drop", "history"} happen

ASSUME BuildLogAssumption ==
    /\ Deployments \subseteq Topics
    /\ Pages \union Tails \subseteq Viewers
    /\ Main \notin Scanners /\ ImageLines \in [Deployments -> Nat]
    /\ PageCap \in Nat \ {0} /\ MaxLines \in Nat \ {0}

VARIABLES
    logLineNum,   \* logLineNum[d] : the counter of Deploy
    writer,       \* writer[d][w] : what goroutine w is doing with a line
    emitted,      \* emitted[d] : how many lines were begun
    rows,         \* rows[d] : the build_logs rows
    phase,        \* phase[d] : where Deploy is
    status,       \* status[d] : the deployment's row
    page,         \* page[p] : a tab
    tail          \* tail[c] : a tool call

logVars == <<logLineNum, writer, emitted, rows, phase, status, page, tail>>

Writers == Scanners \union {Main}
None == "none"
Active == {"building"}
Terminal == {"live", "failed"}          \* TERMINAL_STATUSES that a build reaches
Line == [topic : Topics, n : Nat, text : Nat]
Numbers(lines) == {l.n : l \in lines}

-----------------------------------------------------------------------------
(* The pipeline.                                                           *)

Writing(pc, held, text) == [pc |-> pc, held |-> held, text |-> text]
Idle == Writing("idle", 0, 0)

\* Deploy or a scanner takes its next line and reads the counter.
Begin(d, w) == Writing("read", logLineNum[d], emitted[d] + 1)

\* A scanner has a line while the image is built.
ScanLine(d, w) ==
    /\ phase[d] = "image" /\ w \in Scanners
    /\ writer[d][w].pc = "idle" /\ emitted[d] < ImageLines[d]
    /\ writer' = [writer EXCEPT ![d][w] = Begin(d, w)]
    /\ emitted' = [emitted EXCEPT ![d] = @ + 1]
    /\ UNCHANGED <<logLineNum, rows, phase, status, page, tail, hubVars>>

\* The second half of logLineNum++.
Number(d, w) ==
    /\ writer[d][w].pc = "read"
    /\ logLineNum' = [logLineNum EXCEPT ![d] = writer[d][w].held + 1]
    /\ writer' = [writer EXCEPT ![d][w].pc = "numbered"]
    /\ UNCHANGED <<emitted, rows, phase, status, page, tail, hubVars>>

\* InsertBuildLog with the counter's value of that moment.
InsertLine(d, w) ==
    /\ writer[d][w].pc = "numbered"
    /\ rows' = [rows EXCEPT ![d] = @ \union
           {[topic |-> d, n |-> logLineNum[d], text |-> writer[d][w].text]}]
    /\ writer' = [writer EXCEPT ![d][w].pc = "stored"]
    /\ UNCHANGED <<logLineNum, emitted, phase, status, page, tail, hubVars>>

\* Hub.Publish with the counter's value of that moment.
PublishLine(d, w) ==
    /\ writer[d][w].pc = "stored"
    /\ Publish(d, [topic |-> d, n |-> logLineNum[d], text |-> writer[d][w].text])
    /\ writer' = [writer EXCEPT ![d][w] = Idle]
    /\ UNCHANGED <<logLineNum, emitted, rows, phase, status, page, tail>>

Quiet(d) == \A w \in Writers : writer[d][w].pc = "idle"

\* Mutant: the status is written before the error line is emitted.
BuildFailsSilently(d) ==
    /\ phase[d] = "image" /\ Quiet(d)
    /\ phase' = [phase EXCEPT ![d] = "failing"]
    /\ writer' = [writer EXCEPT ![d][Main] = Begin(d, Main)]
    /\ emitted' = [emitted EXCEPT ![d] = @ + 1]
    /\ status' = [status EXCEPT ![d] = "failed"]
    /\ UNCHANGED <<logLineNum, rows, page, tail, hubVars>>

\* fail(): the error line is emitted first, the status is written after it.
BuildFails(d) ==
    /\ phase[d] = "image" /\ Quiet(d)
    /\ phase' = [phase EXCEPT ![d] = "failing"]
    /\ writer' = [writer EXCEPT ![d][Main] = Begin(d, Main)]
    /\ emitted' = [emitted EXCEPT ![d] = @ + 1]
    /\ UNCHANGED <<logLineNum, rows, status, page, tail, hubVars>>

WriteFailed(d) ==
    /\ phase[d] = "failing" /\ Quiet(d)
    /\ phase' = [phase EXCEPT ![d] = "ended"]
    /\ status' = [status EXCEPT ![d] = "failed"]
    /\ UNCHANGED <<logLineNum, writer, emitted, rows, page, tail, hubVars>>

\* The other end of Deploy: "live" is written, then the last line is emitted.
WriteLive(d) ==
    /\ phase[d] = "image" /\ Quiet(d)
    /\ phase' = [phase EXCEPT ![d] = "ended"]
    /\ status' = [status EXCEPT ![d] = "live"]
    /\ writer' = [writer EXCEPT ![d][Main] = Begin(d, Main)]
    /\ emitted' = [emitted EXCEPT ![d] = @ + 1]
    /\ UNCHANGED <<logLineNum, rows, page, tail, hubVars>>

Pipeline(d) ==
    \/ \E w \in Writers : ScanLine(d, w) \/ Number(d, w) \/ InsertLine(d, w) \/ PublishLine(d, w)
    \/ BuildFails(d) \/ WriteFailed(d) \/ WriteLive(d)

-----------------------------------------------------------------------------
(* The deployment page.  cached and history are the tab's query cache,     *)
(* which outlives the page; stream is the hook's state, which lives as     *)
(* long as the page is mounted.                                            *)

Shown(p) == page[p].view
History(p) == page[p].history[Shown(p)]

\* The deployment the hook is connected for: useBuildLogs(isActive ? did : null).
Following(pg) ==
    IF pg.view # None /\ pg.cached[pg.view] \in Active THEN pg.view ELSE None

(* The hook's effect: when its deployment changes, the old WebSocket is    *)
(* closed and a new one is dialled.  The lines collected so far stay.      *)
Render(p, pg) ==
    LET before == Following(page[p])  after == Following(pg) IN
    /\ page' = [page EXCEPT ![p] = pg]
    /\ (after \notin {before, None}) => conn[after][p] = "none"
    /\ conn' = IF before = after THEN conn
               ELSE [t \in Topics |-> [conn[t] EXCEPT ![p] =
                       IF t = before THEN HungUp(@)
                       ELSE IF t = after THEN "dialling" ELSE @]]
    /\ UNCHANGED <<logLineNum, writer, emitted, rows, status, tail,
                   subscribers, buffer, channel, capacity, hubHistory>>

OpenPage(p, d) ==
    /\ Shown(p) = None /\ phase[d] # "untriggered"
    /\ Render(p, [page[p] EXCEPT !.view = d])
    /\ UNCHANGED phase

\* Unmounting: the hook's state is gone with the page.
LeavePage(p) ==
    /\ Shown(p) # None
    /\ Render(p, [page[p] EXCEPT !.view = None, !.stream = <<>>])
    /\ UNCHANGED phase

\* Bound: the second deployment follows the first, in behaviours without tool calls.
Calm ==
    /\ \A e \in Deployments : phase[e] \in {"untriggered", "ended"} /\ Quiet(e)
    /\ \A c \in Tails : tail[c].pc = "idle"

(* The header's deploy button triggers a deployment and navigates to it:   *)
(* the same component renders the new parameter, nothing is unmounted.     *)
DeployAndShow(p, d) ==
    /\ Shown(p) # None /\ phase[d] = "untriggered" /\ Calm
    /\ phase' = [phase EXCEPT ![d] = "image"]
    /\ Render(p, [page[p] EXCEPT !.view = d])

\* The first fetch, and the poll every 3 s while the status is active.
FetchDeployment(p) ==
    /\ Shown(p) # None
    /\ page[p].cached[Shown(p)] \in {"unknown"} \union Active
    /\ Render(p, [page[p] EXCEPT !.cached[Shown(p)] = status[Shown(p)]])
    /\ UNCHANGED phase

\* Fetched once the deployment is known, refetched when the tab is focused.
FetchHistory(p) ==
    /\ Shown(p) # None /\ page[p].cached[Shown(p)] # "unknown"
    /\ Render(p, [page[p] EXCEPT !.history[Shown(p)] = rows[Shown(p)],
                                 !.fetched = @ \union {Shown(p)}])
    /\ UNCHANGED phase

\* ws.onmessage: duplicates by line number are dropped.
Collect(stream, line) ==
    IF line.n \in Numbers(Lines(stream)) THEN stream
    ELSE Newest(Append(stream, line), PageCap)

\* The handler writes the next line of the channel and the page takes it.
PageReceives(p, d) ==
    /\ conn[d][p] = "open" /\ channel[d][p] # <<>>
    /\ channel' = [channel EXCEPT ![d][p] = Tail(@)]
    /\ page' = [page EXCEPT ![p].stream = Collect(@, Head(channel[d][p]))]
    /\ UNCHANGED <<logLineNum, writer, emitted, rows, phase, status, tail,
                   subscribers, buffer, capacity, conn, hubHistory>>

\* allLogs: the history, then what the stream adds to it by line number.
AllLogs(p) ==
    History(p) \union {l \in Lines(page[p].stream) : l.n \notin Numbers(History(p))}

Viewing(p) ==
    \/ \E d \in Deployments : OpenPage(p, d) \/ DeployAndShow(p, d) \/ PageReceives(p, d)
    \/ LeavePage(p) \/ FetchDeployment(p) \/ FetchHistory(p)

-----------------------------------------------------------------------------
(* The MCP log tools.  A call of tail_deployment_logs or                   *)
(* debug_failed_deployment reads the status, then the history; the first   *)
(* one then listens for a while.  tail_latest_logs polls status and log.   *)

TailKinds == {"tail", "debug", "follow"}
NoCall == [kind |-> "tail", pc |-> "idle", d |-> None, status |-> "unknown",
           basis |-> "unknown", answered |-> FALSE, history |-> {}, lines |-> <<>>,
           highest |-> 0, truncated |-> FALSE]

UnchangedByTail == UNCHANGED <<logLineNum, writer, emitted, rows, phase, status, page>>
Ask(c, call) ==
    /\ tail' = [tail EXCEPT ![c] = call]
    /\ UnchangedByTail /\ UNCHANGED hubVars

\* The call is made: the deployment's status is read first.
ReadStatus(c, d, kind) ==
    /\ tail[c].pc = "idle" /\ phase[d] # "untriggered"
    /\ \A e \in Deployments \ {d} : phase[e] = "untriggered"
    /\ Ask(c, [NoCall EXCEPT !.kind = kind, !.pc = "logs", !.d = d, !.status = status[d]])

(* The log is read; a failed request counts as the log known so far.  The  *)
(* live tail goes on to the WebSocket unless the build had ended.          *)
ReadLogs(c) ==
    LET call == tail[c]  d == call.d  ended == call.status \in Terminal IN
    /\ call.pc = "logs"
    /\ \E ok \in BOOLEAN :
         /\ ok \/ "history" \in LogFaults
         /\ LET got == IF ok THEN rows[d] ELSE call.history
                heard == [call EXCEPT !.history = got, !.answered = ok, !.basis = call.status,
                                      !.highest = Max({0} \union Numbers(got))] IN
            IF call.kind = "tail" /\ ~ended
            THEN /\ conn[d][c] = "none"
                 /\ conn' = [conn EXCEPT ![d][c] = "dialling"]
                 /\ tail' = [tail EXCEPT ![c] = [heard EXCEPT !.pc = "live"]]
                 /\ UnchangedByTail
                 /\ UNCHANGED <<subscribers, buffer, channel, capacity, hubHistory>>
            ELSE Ask(c, [heard EXCEPT !.pc =
                           IF call.kind = "follow" /\ ~ended THEN "asleep" ELSE "done"])

\* tail_latest_logs: 2 s later the status is read again, then the log.
PollAgain(c) ==
    /\ tail[c].pc = "asleep"
    /\ Ask(c, [tail[c] EXCEPT !.status = status[tail[c].d], !.pc = "logs"])

\* The call's timeout: the last log is the answer.
GiveUp(c) ==
    /\ tail[c].pc = "asleep"
    /\ Ask(c, [tail[c] EXCEPT !.pc = "done"])

\* finish(): the socket is closed and the promise settled, once.
Finish(c, call) ==
    /\ tail' = [tail EXCEPT ![c] = [call EXCEPT !.pc = "done"]]
    /\ conn' = [conn EXCEPT ![call.d][c] = HungUp(@)]

Listening(c) == tail[c].pc \in {"live", "flush"}

\* The statusPoll interval: a build that has ended leaves 250 ms for the rest.
PollStatus(c) ==
    /\ tail[c].pc = "live" /\ status[tail[c].d] \in Terminal
    /\ Ask(c, [tail[c] EXCEPT !.status = status[tail[c].d], !.pc = "flush"])

\* Lines the history already had are skipped; max_lines ends the call.
TailReceives(c) ==
    LET call == tail[c]  d == call.d  line == Head(channel[d][c]) IN
    /\ Listening(c) /\ conn[d][c] = "open" /\ channel[d][c] # <<>>
    /\ channel' = [channel EXCEPT ![d][c] = Tail(@)]
    /\ IF line.n <= call.highest
       THEN UNCHANGED <<tail, conn>>
       ELSE IF Len(call.lines) >= MaxLines THEN Finish(c, [call EXCEPT !.truncated = TRUE])
       ELSE /\ tail' = [tail EXCEPT ![c].lines = Append(@, line)]
            /\ UNCHANGED conn
    /\ UnchangedByTail
    /\ UNCHANGED <<subscribers, buffer, capacity, hubHistory>>

\* The duration or the 250 ms are over, or the connection has failed.
TailEnds(c) ==
    /\ Listening(c)
    /\ Finish(c, tail[c])
    /\ UnchangedByTail
    /\ UNCHANGED <<subscribers, buffer, channel, capacity, hubHistory>>

\* What the tool returns: the history, then the lines it had not seen.
Merged(c) ==
    tail[c].history \union {l \in Lines(tail[c].lines) : l.n \notin Numbers(tail[c].history)}

Tailing(c) ==
    \/ \E d \in Deployments, kind \in TailKinds : ReadStatus(c, d, kind)
    \/ ReadLogs(c) \/ PollAgain(c) \/ GiveUp(c) \/ PollStatus(c)
    \/ TailReceives(c) \/ TailEnds(c)

-----------------------------------------------------------------------------
(* The handler side of the connections.                                    *)

Unmoved == UNCHANGED logVars

\* The network or a proxy drops an open connection: nobody dials again.
DropConnection(t, v) ==
    /\ "drop" \in LogFaults /\ conn[t][v] = "open"
    /\ conn' = [conn EXCEPT ![t][v] = "closing"]
    /\ UNCHANGED <<subscribers, buffer, channel, capacity, hubHistory>>

Connections ==
    \E t \in Deployments, v \in Pages \union Tails :
        \/ Subscribe(t, v) \/ Unsubscribe(t, v) \/ DropConnection(t, v)
        \/ "refuse" \in LogFaults /\ Refuse(t, v)
        \/ conn[t][v] = "abandoned" /\ Refuse(t, v)

LogInit ==
    /\ HubInit
    /\ logLineNum = [d \in Deployments |-> 0]
    /\ writer = [d \in Deployments |-> [w \in Writers |-> Idle]]
    /\ emitted = [d \in Deployments |-> 0]
    /\ rows = [d \in Deployments |-> {}]
    /\ \E first \in First :
         phase = [d \in Deployments |-> IF d = first THEN "image" ELSE "untriggered"]
    /\ status = [d \in Deployments |-> "building"]
    /\ page = [p \in Pages |-> [view |-> None, stream |-> <<>>, fetched |-> {},
                 cached |-> [d \in Deployments |-> "unknown"],
                 history |-> [d \in Deployments |-> {}]]]
    /\ tail = [c \in Tails |-> NoCall]

LogNext ==
    \/ \E d \in Deployments : Pipeline(d)
    \/ \E p \in Pages : Viewing(p)
    \/ \E c \in Tails : Tailing(c)
    \/ Connections /\ Unmoved

-----------------------------------------------------------------------------
(* Properties.                                                             *)

PageType == [view : Deployments \union {None}, stream : Seq(Line), fetched : SUBSET Deployments,
             cached : [Deployments -> {"unknown"} \union Active \union Terminal],
             history : [Deployments -> SUBSET Line]]
CallType == [kind : TailKinds, pc : {"idle", "logs", "asleep", "live", "flush", "done"},
             d : Deployments \union {None}, status : {"unknown"} \union Active \union Terminal,
             basis : {"unknown"} \union Active \union Terminal, answered : BOOLEAN,
             history : SUBSET Line, lines : Seq(Line), highest : Nat, truncated : BOOLEAN]

LogTypeOK ==
    /\ HubTypeOK(Deployments, Line)
    /\ logLineNum \in [Deployments -> Nat] /\ emitted \in [Deployments -> Nat]
    /\ writer \in [Deployments -> [Writers ->
           [pc : {"idle", "read", "numbered", "stored"}, held : Nat, text : Nat]]]
    /\ rows \in [Deployments -> SUBSET Line]
    /\ phase \in [Deployments -> {"untriggered", "image", "failing", "ended"}]
    /\ status \in [Deployments -> Active \union Terminal]
    /\ page \in [Pages -> PageType] /\ tail \in [Tails -> CallType]

OwnStream(p) == \A l \in Lines(page[p].stream) : l.topic = Shown(p)

(* A connected viewer is owed every line of the session: it shows it, it   *)
(* is on its way, or the hub withheld it (a full channel, a replay that    *)
(* was trimmed or dropped with its last subscriber).  Neither the two      *)
(* merges nor the seeding of a channel loses a line in silence, as long as *)
(* one scanner prints: a tail takes no number below its highest (README).  *)
NoSilentGap ==
    /\ \A p \in Pages : LET d == Shown(p) IN
         d # None /\ OwnStream(p) =>
           (conn[d][p] = "open" =>
             Numbers(published[d]) \subseteq
               Numbers(AllLogs(p) \union Lines(channel[d][p]) \union withheld[d][p]))
    /\ \A c \in Tails : LET d == tail[c].d IN
         Listening(c) => (conn[d][c] = "open" =>
           Numbers(published[d]) \subseteq
             Numbers(Merged(c) \union Lines(channel[d][c]) \union withheld[d][c]))

(* A log tool that reports a failed deployment after reading its log holds *)
(* the whole log, the line that says why it failed included: fail() emits  *)
(* before it writes the status, and the tools read the status first.       *)
FailedLogIsComplete ==
    \A c \in Tails : LET call == tail[c] IN
        call.pc = "done" /\ call.basis = "failed" /\ call.answered =>
          call.history = rows[call.d] /\ Cardinality(call.history) = emitted[call.d]

=============================================================================
