-------------------------------- MODULE Forms --------------------------------
(***************************************************************************)
(* A form of the dashboard, and the query its page shows (web pages and    *)
(* components): the user types, confirms and submits, moves between        *)
(* projects, and looks at what the last fetch brought, while others save   *)
(* and deploy too.                                                         *)
(*                                                                         *)
(* What differs from form to form is a row of Rows, see FormTable.  The    *)
(* cache is TanStack Query's: a fetch under way is joined, invalidating    *)
(* marks a query stale, and cancels and repeats the fetch of a query that  *)
(* is on the screen.                                                       *)
(***************************************************************************)
EXTENDS Naturals

CONSTANTS
    Rows,         \* the rows of FormTable that are used
    Projects,     \* the projects (groups, apps) there are
    Saves,        \* bound: how many saves are under way
    MaxVersion,   \* bound: how often the projects are changed
    MaxFailures   \* bound: how many fetches fail

ASSUME FormAssumption == MaxVersion \in Nat /\ MaxFailures \in Nat

VARIABLES
    form,        \* the row of the form that is used
    page,        \* the project whose page is shown
    server,      \* server[p] : what the project was changed to last
    cache,       \* cache[p] : what the last fetch of its query brought
    fetch,       \* fetch[p] : a fetch of its query
    stale,       \* stale[p] : the query was invalidated and not fetched since
    draft,       \* what the user typed
    confirming,  \* the dialog that asks whether to go on is open
    saves,       \* the mutations under way
    failures,    \* how many fetches failed
    changes,     \* how often the projects were changed
    owed         \* history: the version the shown page was told it saved

formVars ==
    <<form, page, server, cache, fetch, stale, draft, confirming, saves, failures, changes, owed>>
userVars == <<draft, confirming, saves>>

Away == "away"
Nothing == [version |-> 0, stage |-> "nothing"]
Underway == [version |-> 0, stage |-> "asked"]
Stages == {"none", "starting", "queued", "building", "ended"}
State == [version : 0..MaxVersion, stage : Stages]
NoSave == [pc |-> "idle", project |-> Away, version |-> 0, mine |-> FALSE]

\* Bounds: for a component that does not stay, another project is like no page;
\* a form that is guarded has one save under way, also when it is opened again.
Visited == IF form.stays THEN Projects ELSE {CHOOSE p \in Projects : TRUE}
Free == IF form.guarded THEN {CHOOSE s \in Saves : TRUE} ELSE Saves

\* isPending of the component that is on the screen.
Pending == \E s \in Saves : saves[s].pc # "idle" /\ saves[s].mine

-----------------------------------------------------------------------------
(* The query.                                                              *)

Asked(p) == [fetch EXCEPT ![p] = IF @ = Nothing THEN Underway ELSE @]

(* A page is opened.  Its query is fetched if there is nothing yet, if it  *)
(* was invalidated, or if it is old enough.  Some components stay when     *)
(* only the project changes, with all that was typed.                      *)
Navigate(p) ==
    /\ p # page /\ p \in Visited \union {Away}
    /\ page' = p
    /\ owed' = 0
    /\ IF form.stays /\ page # Away /\ p # Away /\ cache[p] # Nothing
       THEN UNCHANGED userVars
       ELSE /\ draft' = "clean" /\ confirming' = FALSE
            /\ saves' = [s \in Saves |-> [saves[s] EXCEPT !.mine = FALSE]]
    /\ \/ p # Away /\ fetch' = Asked(p)
       \/ (p # Away => cache[p] # Nothing /\ ~stale[p]) /\ UNCHANGED fetch
    /\ UNCHANGED <<form, server, cache, stale, failures, changes>>

\* The window gets the focus back, and what is shown is old enough.
Focus ==
    /\ page # Away /\ fetch[page] = Nothing
    /\ fetch' = Asked(page)
    /\ UNCHANGED <<form, page, server, cache, stale, userVars, failures, changes, owed>>

\* Mutant: "queued" is missing from ACTIVE_DEPLOYMENT_STATUSES.
PollsOnceBuilding(state) == state.stage = "building"

\* refetchInterval: a deployment of the list is in ACTIVE_DEPLOYMENT_STATUSES.
Polls(state) == state.stage \in {"queued", "building"}

Poll ==
    /\ page # Away /\ form.polls # "never" /\ cache[page] # Nothing /\ fetch[page] = Nothing
    /\ Polls(cache[page])
    /\ fetch' = Asked(page)
    /\ UNCHANGED <<form, page, server, cache, stale, userVars, failures, changes, owed>>

ServeRead(p) ==
    /\ fetch[p] = Underway
    /\ fetch' = [fetch EXCEPT ![p] = server[p]]
    /\ UNCHANGED <<form, page, server, cache, stale, userVars, failures, changes, owed>>

\* The effect that fills a form from its query runs again if the data changed.
Reseeded(p) ==
    IF form.draft = "data" /\ page = p /\ fetch[p] # cache[p] THEN "clean" ELSE draft

Arrive(p) ==
    /\ fetch[p] \notin {Nothing, Underway}
    /\ cache' = [cache EXCEPT ![p] = fetch[p]]
    /\ fetch' = [fetch EXCEPT ![p] = Nothing]
    /\ stale' = [stale EXCEPT ![p] = FALSE]
    /\ draft' = Reseeded(p)
    /\ UNCHANGED <<form, page, server, confirming, saves, failures, changes, owed>>

\* The fetch and its retry fail; the page goes on showing what it has, or, if
\* its query catches the error, nothing.
FetchFails(p) ==
    /\ fetch[p] # Nothing /\ failures < MaxFailures
    /\ fetch' = [fetch EXCEPT ![p] = Nothing]
    /\ failures' = failures + 1
    /\ owed' = IF page = p THEN 0 ELSE owed
    /\ IF form.lenient
       THEN cache' = [cache EXCEPT ![p] = Nothing] /\ stale' = [stale EXCEPT ![p] = FALSE]
       ELSE UNCHANGED <<cache, stale>>
    /\ UNCHANGED <<form, page, server, userVars, changes>>

-----------------------------------------------------------------------------
(* The form.                                                               *)

\* The form is on the screen: a page without data shows that it is loading.
Usable == page # Away /\ (form.lenient \/ cache[page] # Nothing)

Type ==
    /\ Usable /\ form.draft # "none" /\ draft = "clean"
    /\ draft' = "typed"
    /\ UNCHANGED <<form, page, server, cache, fetch, stale, confirming, saves>>
    /\ UNCHANGED <<failures, changes, owed>>

\* A dialog is opened, or closed again.
Confirm ==
    /\ Usable /\ form.confirm
    /\ confirming' = ~confirming
    /\ UNCHANGED <<form, page, server, cache, fetch, stale, draft, saves, failures, changes, owed>>

Submittable ==
    /\ Usable /\ form.submits
    /\ form.guarded => ~Pending
    /\ form.dirty => draft = "typed"
    /\ form.confirm => confirming

\* mutate
Submit(s) ==
    /\ Submittable /\ s \in Free /\ saves[s].pc = "idle" /\ changes < MaxVersion
    /\ saves' = [saves EXCEPT
                   ![s] = [pc |-> "sent", project |-> page, version |-> 0, mine |-> TRUE]]
    /\ confirming' = FALSE
    /\ draft' = IF form.clears = "submit" THEN "clean" ELSE draft
    /\ UNCHANGED <<form, page, server, cache, fetch, stale, failures, changes, owed>>

\* What a save, ours or another's, makes of a project.
Changed(state) ==
    [version |-> state.version + 1,
     stage |-> CASE form.polls = "deployment" -> "queued"
                 [] form.polls = "rollout" -> "starting"
                 [] OTHER -> "none"]
Apply(p) ==
    /\ changes < MaxVersion
    /\ server' = [server EXCEPT ![p] = Changed(@)]
    /\ changes' = changes + 1

(* The server carries the request out or not, and its answer is an error   *)
(* or not: also one of several requests of a save may fail.                *)
Carry(s) ==
    LET p == saves[s].project IN
    /\ saves[s].pc = "sent"
    /\ \E applied \in BOOLEAN, reply \in {"ok", "failed"} :
         /\ reply = "ok" => applied
         /\ IF applied THEN Apply(p) ELSE UNCHANGED <<server, changes>>
         /\ saves' = [saves EXCEPT ![s].pc = reply, ![s].version = server'[p].version]
    /\ UNCHANGED <<form, page, cache, fetch, stale, draft, confirming, failures, owed>>

\* Mutant: a fetch under way is joined, as queryClient.fetchQuery would.
InvalidatedJoins(p) ==
    /\ stale' = [stale EXCEPT ![p] = TRUE]
    /\ fetch' = IF page = p THEN Asked(p) ELSE fetch

\* invalidateQueries
Invalidated(p) ==
    /\ stale' = [stale EXCEPT ![p] = TRUE]
    /\ fetch' = IF page = p THEN [fetch EXCEPT ![p] = Underway] ELSE fetch

\* onSuccess and onError see the project that the component shows by now.
Subject(save) == IF save.mine /\ page # Away THEN page ELSE save.project

\* onSuccess, and mutateAsync's caller: the answer is adopted as it is, or the
\* query is fetched again; some pages are left then.
Succeed(s) ==
    LET save == saves[s]
        p == Subject(save)
        leaves == form.leaves /\ save.mine IN
    /\ save.pc = "ok"
    /\ IF form.settles = "adopt"
       THEN /\ cache' = [cache EXCEPT ![p] = [version |-> save.version, stage |-> "none"]]
            /\ stale' = [stale EXCEPT ![p] = FALSE]
            /\ UNCHANGED fetch
       ELSE /\ IF form.settles = "refetch" \/ save.mine THEN Invalidated(p)
               ELSE UNCHANGED <<stale, fetch>>
            /\ UNCHANGED cache
    /\ saves' = [q \in Saves |->
                   IF q = s THEN NoSave ELSE [saves[q] EXCEPT !.mine = @ /\ ~leaves]]
    /\ draft' = IF save.mine /\ (leaves \/ form.clears = "success" \/ form.settles = "adopt")
                THEN "clean" ELSE draft
    /\ page' = IF leaves THEN Away ELSE page
    /\ owed' = IF leaves THEN 0
               ELSE IF save.mine /\ save.project = page /\ save.version > owed
               THEN save.version ELSE owed
    /\ UNCHANGED <<form, server, confirming, failures, changes>>

\* onError: a toast; some forms also fetch again.
GoWrong(s) ==
    /\ saves[s].pc = "failed"
    /\ saves' = [saves EXCEPT ![s] = NoSave]
    /\ IF form.onError = "refetch" THEN Invalidated(Subject(saves[s]))
       ELSE UNCHANGED <<stale, fetch>>
    /\ UNCHANGED <<form, page, server, cache, draft, confirming, failures, changes, owed>>

-----------------------------------------------------------------------------
(* Everybody else.                                                         *)

OtherSaves(p) ==
    /\ p \in Visited /\ Apply(p)
    /\ UNCHANGED <<form, page, cache, fetch, stale, userVars, failures, owed>>

\* A rollout starts its deployments, and a deployment runs and ends.
Progress(p) ==
    /\ server[p].stage \in {"starting", "queued", "building"}
    /\ server' = [server EXCEPT ![p].stage =
            CASE @ = "starting" -> "queued" [] @ = "queued" -> "building" [] OTHER -> "ended"]
    /\ UNCHANGED <<form, page, cache, fetch, stale, userVars, failures, changes, owed>>

-----------------------------------------------------------------------------
FormInit ==
    /\ form \in Rows
    /\ page = Away
    /\ server = [p \in Projects |-> [version |-> 0, stage |-> "none"]]
    /\ cache = [p \in Projects |-> Nothing]
    /\ fetch = [p \in Projects |-> Nothing]
    /\ stale = [p \in Projects |-> FALSE]
    /\ draft = "clean" /\ confirming = FALSE
    /\ saves = [s \in Saves |-> NoSave]
    /\ failures = 0 /\ changes = 0 /\ owed = 0

\* What happens without the user: the server's work, and the page's polling.
Unattended == Poll \/ \E p \in Projects : ServeRead(p) \/ Arrive(p) \/ Progress(p)

FormNext ==
    \/ \E p \in Projects \union {Away} : Navigate(p)
    \/ \E p \in Projects : FetchFails(p) \/ OtherSaves(p)
    \/ Focus \/ Type \/ Confirm
    \/ \E s \in Saves : Submit(s) \/ Carry(s) \/ Succeed(s) \/ GoWrong(s)
    \/ Unattended

-----------------------------------------------------------------------------
FormTypeOK ==
    /\ form \in Rows /\ page \in Projects \union {Away}
    /\ server \in [Projects -> State]
    /\ cache \in [Projects -> State \union {Nothing}]
    /\ fetch \in [Projects -> State \union {Nothing, Underway}]
    /\ stale \in [Projects -> BOOLEAN]
    /\ draft \in {"clean", "typed"} /\ confirming \in BOOLEAN
    /\ saves \in [Saves -> [pc : {"idle", "sent", "ok", "failed"}, project : Projects \union {Away},
                            version : 0..MaxVersion, mine : BOOLEAN]]
    /\ failures \in 0..MaxFailures /\ changes \in 0..MaxVersion /\ owed \in 0..MaxVersion

(* A page that told its user "saved" shows it, or something later, as soon *)
(* as its fetches are over: a fetch that read the state from before the    *)
(* save, however late it arrives, does not win (the onSuccess handlers     *)
(* that invalidate).  Said of the pages that fetch again; one that adopts  *)
(* the answer can be overtaken by an older fetch.                          *)
SaveIsShown ==
    owed > 0 /\ form.settles # "adopt" /\ fetch[page] = Nothing =>
        cache[page].version >= owed

(* Who started a deployment and stays on the page sees it end: from the    *)
(* first fetch that shows it queued, the page polls until no deployment is *)
(* active (refetchInterval).                                               *)
EndIsShown ==
    form.polls = "deployment" /\ owed > 0 ~> owed = 0 \/ cache[page].stage = "ended"
=============================================================================
