------------------------------ MODULE LiveLogs ------------------------------
(***************************************************************************)
(* The sheet of live container logs (web store/log-tabs.ts,                *)
(* hooks/useContainerLogs.ts, components/apps/live-logs-sheet.tsx;         *)
(* ws/member_logs.go): each log tab streams one container over a WebSocket *)
(* of its own, and is pointed at another environment or branch while that  *)
(* stream goes on.  The light that says whether it is connected is left    *)
(* out: nothing depends on it.                                             *)
(***************************************************************************)
EXTENDS Naturals, Sequences, SequencesExt

CONSTANTS
    LogMembers,    \* the members of the app
    LogBranches,   \* the branches that have a preview
    LogLimit,      \* how many lines a tab keeps, 5000 in the code
    MaxLogTabs,    \* bound: how many log tabs are opened
    MaxStreams,    \* bound: how many connections there are at once
    MaxLines       \* bound: how many lines a tab receives of one connection

ASSUME LogAssumption == MaxLogTabs \in Nat /\ MaxLines \in Nat /\ LogLimit \in Nat \ {0}

VARIABLES
    logTabs,   \* the tabs of the store: [id, target]
    activeTab, \* activeTabId
    opened,    \* how many tabs were opened
    sheet,     \* the page with the sheet is on the screen
    streams,   \* streams[c] : a connection, with the tab whose effect made it
    view       \* view[id] : what tab id shows, and its counter

logVars == <<logTabs, activeTab, opened, sheet, streams, view>>

LogTabs == 1..MaxLogTabs
Streams == 1..MaxStreams
NoBranch == "default branch"
NoTab == 0
Target == [member : LogMembers, environment : {"production"}, branch : {NoBranch}]
    \union [member : LogMembers, environment : {"preview"}, branch : LogBranches \union {NoBranch}]
NoStream == [pc |-> "unused", tab |-> NoTab, target |-> NoTab]
Fresh == [lines |-> <<>>, next |-> 0]

TabIds == {logTabs[i].id : i \in DOMAIN logTabs}
Shown(id) == sheet /\ id \in TabIds

-----------------------------------------------------------------------------
(* The connections: an effect of each tab makes one whenever the target    *)
(* changes, and its cleanup closes the one before.                         *)

Unused == {c \in Streams : streams[c].pc = "unused"}

\* Mutant: the effect has no cleanup.
LeftOpen(ids) == streams

\* ws.close() of the tabs' effects: the close event is still to come.
Disconnected(ids) ==
    [c \in Streams |->
        IF streams[c].tab \in ids /\ streams[c].pc \in {"connecting", "open"}
        THEN [streams[c] EXCEPT !.pc = "closing"] ELSE streams[c]]

Connect(id, target) ==
    LET c == CHOOSE u \in Unused : \A v \in Unused : u <= v IN
    /\ streams' = [Disconnected({id}) EXCEPT
                     ![c] = [pc |-> "connecting", tab |-> id, target |-> target]]
    /\ view' = [view EXCEPT ![id] = Fresh]

StreamOpens(c) ==
    /\ streams[c].pc = "connecting"
    /\ streams' = [streams EXCEPT ![c].pc = "open"]
    /\ UNCHANGED <<logTabs, activeTab, opened, sheet, view>>

(* The server refuses a target without a running container, the container  *)
(* ends, the connection breaks, or the browser is done with close().       *)
StreamEnds(c) ==
    /\ streams[c].pc # "unused"
    /\ streams' = [streams EXCEPT ![c] = NoStream]
    /\ UNCHANGED <<logTabs, activeTab, opened, sheet, view>>

\* onmessage: the line gets the next key, and only the last lines are kept.
LineArrives(c) ==
    LET id == streams[c].tab
        line == [key |-> view[id].next, target |-> streams[c].target]
        lines == Append(view[id].lines, line) IN
    /\ streams[c].pc = "open" /\ Shown(id) /\ view[id].next < MaxLines
    /\ view' = [view EXCEPT ![id].next = @ + 1,
                            ![id].lines = IF Len(lines) > LogLimit THEN Tail(lines) ELSE lines]
    /\ UNCHANGED <<logTabs, activeTab, opened, sheet, streams>>

-----------------------------------------------------------------------------
(* The store of the tabs.                                                  *)

\* What the matrix and the quick links offer.
OpenLogs(target) ==
    LET same == {i \in DOMAIN logTabs : logTabs[i].target = target} IN
    /\ sheet
    /\ IF same # {}
       THEN /\ \E first \in same : /\ \A i \in same : first <= i
                                   /\ activeTab' = logTabs[first].id
            /\ UNCHANGED <<logTabs, opened, streams, view>>
       ELSE /\ opened < MaxLogTabs /\ Unused # {}
            /\ opened' = opened + 1
            /\ logTabs' = Append(logTabs, [id |-> opened + 1, target |-> target])
            /\ activeTab' = opened + 1
            /\ Connect(opened + 1, target)
    /\ UNCHANGED sheet

\* The filter of closeTab drops one tab: no two have the same id.
CloseTab(id) ==
    /\ sheet
    /\ \E i \in DOMAIN logTabs :
         LET left == RemoveAt(logTabs, i) IN
         /\ logTabs[i].id = id
         /\ logTabs' = left
         /\ activeTab' = IF activeTab # id THEN activeTab
                         ELSE IF left = <<>> THEN NoTab ELSE Last(left).id
    /\ streams' = Disconnected({id})
    /\ view' = [view EXCEPT ![id] = Fresh]
    /\ UNCHANGED <<opened, sheet>>

CloseAll ==
    /\ sheet /\ logTabs # <<>>
    /\ logTabs' = <<>> /\ activeTab' = NoTab
    /\ streams' = Disconnected(TabIds)
    /\ view' = [id \in LogTabs |-> Fresh]
    /\ UNCHANGED <<opened, sheet>>

SetActiveTab(id) ==
    /\ Shown(id)
    /\ activeTab' = id
    /\ UNCHANGED <<logTabs, opened, sheet, streams, view>>

\* Production has no branches; another environment keeps the branch it can keep.
Retargeted(target, environment, branch) ==
    [target EXCEPT !.environment = environment,
                   !.branch = IF environment = "production" THEN NoBranch ELSE branch]

\* The switches of the tab that is shown.  Two tabs may get the same target.
Retarget(i, target) ==
    /\ sheet /\ i \in DOMAIN logTabs /\ logTabs[i].id = activeTab
    /\ LET old == logTabs[i].target IN
       \/ \E environment \in {"preview", "production"} :
            target = Retargeted(old, environment, old.branch)
       \/ old.environment = "preview" /\ target.branch # NoBranch
          /\ target = Retargeted(old, "preview", target.branch)
    /\ logTabs' = [logTabs EXCEPT ![i].target = target]
    /\ IF target = logTabs[i].target THEN UNCHANGED <<streams, view>>
       ELSE Unused # {} /\ Connect(logTabs[i].id, target)
    /\ UNCHANGED <<activeTab, opened, sheet>>

Clear(id) ==
    /\ Shown(id)
    /\ view' = [view EXCEPT ![id].lines = <<>>]
    /\ UNCHANGED <<logTabs, activeTab, opened, sheet, streams>>

(* The page is left, and the tabs stay in the store; when it is shown      *)
(* again, each of them connects afresh.                                    *)
LeaveApp ==
    /\ sheet
    /\ sheet' = FALSE
    /\ streams' = Disconnected(TabIds)
    /\ view' = [id \in LogTabs |-> Fresh]
    /\ UNCHANGED <<logTabs, activeTab, opened>>

ReturnToApp ==
    LET free == SetToSortSeq(Unused, <)
        of(c) == CHOOSE i \in DOMAIN logTabs : free[i] = c
        made(tab) == [pc |-> "connecting", tab |-> tab.id, target |-> tab.target] IN
    /\ ~sheet /\ Len(logTabs) <= Len(free)
    /\ sheet' = TRUE
    /\ streams' = [c \in Streams |->
         IF \E i \in DOMAIN logTabs : free[i] = c THEN made(logTabs[of(c)]) ELSE streams[c]]
    /\ UNCHANGED <<logTabs, activeTab, opened, view>>

-----------------------------------------------------------------------------
LogInit ==
    /\ logTabs = <<>> /\ activeTab = NoTab /\ opened = 0 /\ sheet = TRUE
    /\ streams = [c \in Streams |-> NoStream]
    /\ view = [id \in LogTabs |-> Fresh]

LogNext ==
    \/ \E c \in Streams : StreamOpens(c) \/ StreamEnds(c) \/ LineArrives(c)
    \/ \E target \in Target : OpenLogs(target)
    \/ \E id \in LogTabs : CloseTab(id) \/ SetActiveTab(id) \/ Clear(id)
    \/ \E i \in LogTabs, target \in Target : Retarget(i, target)
    \/ CloseAll \/ LeaveApp \/ ReturnToApp

-----------------------------------------------------------------------------
LogTypeOK ==
    /\ logTabs \in Seq([id : LogTabs, target : Target]) /\ IsInjective(logTabs)
    /\ activeTab \in TabIds \union {NoTab} /\ (activeTab = NoTab <=> logTabs = <<>>)
    /\ opened \in 0..MaxLogTabs /\ sheet \in BOOLEAN
    /\ \A c \in Streams :
         /\ streams[c].pc \in {"unused", "connecting", "open", "closing"}
         /\ streams[c].pc # "unused" => streams[c].tab \in LogTabs /\ streams[c].target \in Target
    /\ \A id \in LogTabs :
         /\ view[id].next \in 0..MaxLines /\ Len(view[id].lines) <= LogLimit

(* A log tab shows lines of the container it is pointed at, in the order   *)
(* they came and each one once: when it is pointed at another container,   *)
(* or opened again, no line of the stream before comes in between (the     *)
(* effect of useContainerLogs and its cleanup).                            *)
LinesOfTarget ==
    sheet => \A i \in DOMAIN logTabs :
        LET lines == view[logTabs[i].id].lines IN
        /\ \A k \in DOMAIN lines : lines[k].target = logTabs[i].target
        /\ \A k, l \in DOMAIN lines : k < l => lines[k].key < lines[l].key
=============================================================================
