--------------------------- MODULE DashboardProofs ---------------------------
(***************************************************************************)
(* Theorems about the forms of the dashboard, the import of a repository   *)
(* and the live logs, for any projects, saves, repositories, tabs and      *)
(* connections.                                                            *)
(***************************************************************************)
EXTENDS SessionsProofs, SequenceTheorems

-----------------------------------------------------------------------------
(* Forms.                                                                  *)

\* FormTypeOK without the bounds, which come below.
Said == [version : Nat, stage : Stages]
Saving == [pc : {"idle", "sent", "ok", "failed"}, project : Projects \union {Away},
           version : Nat, mine : BOOLEAN]
FormTyped ==
    /\ page \in Projects \union {Away}
    /\ server \in [Projects -> Said]
    /\ cache \in [Projects -> Said \union {Nothing}]
    /\ fetch \in [Projects -> Said \union {Nothing, Underway}]
    /\ saves \in [Saves -> Saving]
    /\ owed \in Nat

\* No answer is of a version that the server has not reached.
Answered(s) ==
    saves[s].pc = "ok" =>
        saves[s].project \in Projects /\ saves[s].version <= server[saves[s].project].version

\* The page was told of a version of its project, and whatever its cache, or a
\* fetch that was served, holds by then has that version or a later one.
Promised ==
    owed > 0 =>
        /\ page \in Projects /\ owed <= server[page].version
        /\ fetch[page] = Nothing => cache[page].version >= owed
        /\ fetch[page] \notin {Nothing, Underway} => fetch[page].version >= owed

FormInv ==
    /\ FormTyped
    /\ \A s \in Saves : saves[s].pc # "idle" => saves[s].project \in Projects
    /\ \A s \in Saves : Answered(s)
    /\ form.settles # "adopt" => Promised

LEMMA StagesApart ==
    ASSUME NEW state \in Said
    PROVE  state # Nothing /\ state # Underway
BY DEF Said, Stages, Nothing, Underway

LEMMA InitialForm == FormInit => FormInv
BY DEF FormInit, FormInv, FormTyped, Saving, Said, Stages, Nothing, NoSave, Answered, Promised

\* Fetches, and what is looked at.
LEMMA FetchStep ==
    ASSUME FormInv,
           \/ Focus \/ Poll
           \/ \E p \in Projects : ServeRead(p) \/ Arrive(p) \/ FetchFails(p)
    PROVE  FormInv'
<1>1. ASSUME NEW p \in Projects, ServeRead(p) PROVE FormInv'
  <2>1. FormTyped'  BY <1>1 DEF FormInv, FormTyped, ServeRead, userVars
  <2>2. server[p] # Nothing /\ server[p] # Underway
    BY StagesApart DEF FormInv, FormTyped
  <2> QED
    BY <1>1, <2>1, <2>2 DEF FormInv, FormTyped, ServeRead, userVars, Answered, Promised
<1>2. ASSUME NEW p \in Projects, Arrive(p) PROVE FormInv'
  <2>1. FormTyped'  BY <1>2 DEF FormInv, FormTyped, Arrive
  <2> QED  BY <1>2, <2>1 DEF FormInv, FormTyped, Arrive, Answered, Promised
<1>3. ASSUME NEW p \in Projects, FetchFails(p) PROVE FormInv'
  <2>1. FormTyped'  BY <1>3 DEF FormInv, FormTyped, FetchFails, userVars
  <2> QED  BY <1>3, <2>1 DEF FormInv, FormTyped, FetchFails, userVars, Answered, Promised
<1>4. CASE Focus \/ Poll
  <2>1. page \in Projects /\ fetch' = [fetch EXCEPT ![page] = Underway]
    BY <1>4 DEF FormInv, FormTyped, Focus, Poll, Asked
  <2>2. UNCHANGED <<form, page, server, cache, saves, owed>>
    BY <1>4 DEF Focus, Poll, userVars
  <2>3. FormTyped'  BY <2>1, <2>2 DEF FormInv, FormTyped
  <2> QED  BY <2>1, <2>2, <2>3 DEF FormInv, FormTyped, Answered, Promised, Nothing, Underway
<1> QED  BY <1>1, <1>2, <1>3, <1>4

LEMMA NavigateStep ==
    ASSUME FormInv, NEW p \in Projects \union {Away}, Navigate(p)
    PROVE  FormInv'
<1>1. /\ UNCHANGED <<form, server, cache>> /\ page' = p /\ owed' = 0
      /\ \/ UNCHANGED fetch
         \/ p # Away /\ fetch' = [fetch EXCEPT ![p] = IF @ = Nothing THEN Underway ELSE @]
      /\ \/ UNCHANGED saves
         \/ saves' = [s \in Saves |-> [saves[s] EXCEPT !.mine = FALSE]]
  BY DEF Navigate, Asked, userVars
<1>2. \A s \in Saves : /\ saves'[s].pc = saves[s].pc /\ saves'[s].project = saves[s].project
                       /\ saves'[s].version = saves[s].version
  BY <1>1 DEF FormInv, FormTyped, Saving
<1>3. FormTyped'
  <2>1. fetch' \in [Projects -> Said \union {Nothing, Underway}]
    BY <1>1 DEF FormInv, FormTyped
  <2>2. \A s \in Saves : [saves[s] EXCEPT !.mine = FALSE] \in Saving
    BY DEF FormInv, FormTyped, Saving
  <2>3. saves' \in [Saves -> Saving]  BY <1>1, <2>2 DEF FormInv, FormTyped
  <2> QED  BY <1>1, <2>1, <2>3 DEF FormInv, FormTyped
<1>4. Promised'  BY <1>1 DEF Promised
<1> QED  BY <1>1, <1>2, <1>3, <1>4 DEF FormInv, Answered

\* What the server is told, and what it does.
LEMMA ChangedSaid ==
    ASSUME NEW state \in Said
    PROVE  Changed(state) \in Said /\ Changed(state).version = state.version + 1
BY DEF Changed, Said, Stages

\* Versions only grow.
LEMMA ServerGrows ==
    ASSUME FormInv, server' \in [Projects -> Said],
           \A p \in Projects : server[p].version <= server'[p].version,
           UNCHANGED <<form, page, cache, fetch, owed>>
    PROVE  /\ Promised => Promised'
           /\ \A s \in Saves : saves'[s] = saves[s] => Answered(s)'
<1>1. \A p \in Projects : server[p].version \in Nat /\ server'[p].version \in Nat
  BY DEF FormInv, FormTyped, Said
<1>2. Promised => Promised'  BY <1>1 DEF Promised, FormInv, FormTyped
<1>3. ASSUME NEW s \in Saves, saves'[s] = saves[s] PROVE Answered(s)'
  BY <1>1, <1>3 DEF Answered, FormInv, FormTyped, Saving
<1> QED  BY <1>2, <1>3

LEMMA ServerStep ==
    ASSUME FormInv,
           \/ \E p \in Projects : OtherSaves(p) \/ Progress(p)
           \/ \E s \in Saves : Carry(s)
    PROVE  FormInv'
<1>1. ASSUME NEW p \in Projects, NEW state \in Said, server[p].version <= state.version,
             server' = [server EXCEPT ![p] = state],
             UNCHANGED <<form, page, cache, fetch, owed>>
      PROVE  /\ server' \in [Projects -> Said]
             /\ \A q \in Projects : server[q].version <= server'[q].version
  <2>1. \A q \in Projects : server[q].version \in Nat  BY DEF FormInv, FormTyped, Said
  <2> QED  BY <1>1, <2>1 DEF FormInv, FormTyped
<1>2. ASSUME NEW p \in Projects, OtherSaves(p) \/ Progress(p) PROVE FormInv'
  <2>1. server[p] \in Said  BY DEF FormInv, FormTyped
  <2>2. PICK state \in Said : /\ server[p].version <= state.version
                              /\ server' = [server EXCEPT ![p] = state]
    <3>1. CASE OtherSaves(p)
      <4>1. Changed(server[p]) \in Said /\ server[p].version <= Changed(server[p]).version
        BY <2>1, ChangedSaid DEF Said
      <4>2. server' = [server EXCEPT ![p] = Changed(server[p])]  BY <3>1 DEF OtherSaves, Apply
      <4> QED  BY <4>1, <4>2
    <3>2. CASE Progress(p)
      <4>1. PICK stage \in Stages : server' = [server EXCEPT ![p].stage = stage]
        BY <3>2 DEF Progress, Stages
      <4>2. [server[p] EXCEPT !.stage = stage] \in Said
            /\ server[p].version <= [server[p] EXCEPT !.stage = stage].version
        BY <2>1 DEF Said
      <4>3. server' = [server EXCEPT ![p] = [server[p] EXCEPT !.stage = stage]]
        BY <4>1, <2>1 DEF FormInv, FormTyped
      <4> QED  BY <4>2, <4>3
    <3> QED  BY <1>2, <3>1, <3>2
  <2>3. UNCHANGED <<form, page, cache, fetch, saves, owed>>
    BY <1>2 DEF OtherSaves, Progress, userVars
  <2>4. /\ server' \in [Projects -> Said]
        /\ \A q \in Projects : server[q].version <= server'[q].version
    BY <1>1, <2>2, <2>3
  <2> QED  BY <2>3, <2>4, ServerGrows DEF FormInv, FormTyped
<1>3. ASSUME NEW s \in Saves, Carry(s) PROVE FormInv'
  <2>1. PICK p \in Projects : p = saves[s].project  BY <1>3 DEF FormInv, Carry
  <2>2. UNCHANGED <<form, page, cache, fetch, owed>>  BY <1>3 DEF Carry
  <2>3. server' = server \/ server' = [server EXCEPT ![p] = Changed(server[p])]
    BY <1>3, <2>1 DEF Carry, Apply, FormInv, FormTyped
  <2>4. /\ server' \in [Projects -> Said]
        /\ \A q \in Projects : server[q].version <= server'[q].version
    <3>1. server[p] \in Said /\ \A q \in Projects : server[q].version \in Nat
      BY DEF FormInv, FormTyped, Said
    <3>2. CASE server' = server  BY <3>1, <3>2 DEF FormInv, FormTyped
    <3>3. Changed(server[p]) \in Said /\ server[p].version <= Changed(server[p]).version
      BY <3>1, ChangedSaid
    <3> QED  BY <1>1, <2>2, <2>3, <3>2, <3>3
  <2>5. PICK save \in Saving :
          /\ saves' = [saves EXCEPT ![s] = save]
          /\ save.project = p /\ save.version = server'[p].version
    <3>1. PICK reply \in {"ok", "failed"} :
            saves' = [saves EXCEPT ![s].pc = reply, ![s].version = server'[p].version]
      BY <1>3, <2>1 DEF Carry
    <3>2. server'[p].version \in Nat  BY <2>4 DEF Said
    <3>3. \A n \in Nat : [saves[s] EXCEPT !.pc = reply, !.version = n] \in Saving
      BY DEF FormInv, FormTyped, Saving
    <3>4. saves' = [saves EXCEPT ![s] =
                      [saves[s] EXCEPT !.pc = reply, !.version = server'[p].version]]
      BY <3>1 DEF FormInv, FormTyped, Saving
    <3> QED  BY <2>1, <3>2, <3>3, <3>4 DEF FormInv, FormTyped, Saving
  <2>6. saves' \in [Saves -> Saving] /\ saves'[s] = save
        /\ \A q \in Saves \ {s} : saves'[q] = saves[q]
    BY <2>5 DEF FormInv, FormTyped
  <2>7. FormTyped'  BY <2>2, <2>4, <2>6 DEF FormInv, FormTyped
  <2>8. Answered(s)'
    <3>1. server'[p].version <= server'[p].version  BY <2>4 DEF Said
    <3> QED  BY <2>5, <2>6, <3>1 DEF Answered
  <2>9. \A q \in Saves : Answered(q)'  BY <2>2, <2>4, <2>6, <2>8, ServerGrows
  <2>10. \A q \in Saves : saves'[q].pc # "idle" => saves'[q].project \in Projects
    BY <2>5, <2>6 DEF FormInv
  <2> QED  BY <2>2, <2>4, <2>7, <2>9, <2>10, ServerGrows DEF FormInv
<1> QED  BY <1>2, <1>3

\* What the user does in the form, and the answers.
LEMMA SubmitStep ==
    ASSUME FormInv, \/ Type \/ Confirm
                    \/ \E s \in Saves : Submit(s)
    PROVE  FormInv'
<1>1. CASE Type \/ Confirm
  <2>1. UNCHANGED <<form, page, server, cache, fetch, saves, owed>>
    BY <1>1 DEF Type, Confirm
  <2> QED  BY <2>1 DEF FormInv, FormTyped, Answered, Promised
<1>2. ASSUME NEW s \in Saves, Submit(s) PROVE FormInv'
  <2> DEFINE save == [pc |-> "sent", project |-> page, version |-> 0, mine |-> TRUE]
  <2>1. page \in Projects /\ save \in Saving
    BY <1>2 DEF Submit, Submittable, Usable, FormInv, FormTyped, Saving
  <2>2. saves' = [saves EXCEPT ![s] = save]  BY <1>2 DEF Submit
  <2>3. UNCHANGED <<form, page, server, cache, fetch, owed>>  BY <1>2 DEF Submit
  <2> QED  BY <2>1, <2>2, <2>3 DEF FormInv, FormTyped, Answered, Promised
<1> QED  BY <1>1, <1>2

LEMMA SubjectIsProject ==
    ASSUME FormInv, NEW s \in Saves, saves[s].pc # "idle"
    PROVE  Subject(saves[s]) \in Projects
BY DEF FormInv, FormTyped, Subject

\* After an invalidation of its query a page waits for a fetch that is served
\* from then on.
LEMMA InvalidatedWaits ==
    ASSUME FormInv, NEW p \in Projects, Invalidated(p)
    PROVE  /\ fetch' \in [Projects -> Said \union {Nothing, Underway}]
           /\ page = p => fetch'[p] = Underway
           /\ page # p => fetch' = fetch
           /\ page \in Projects => fetch'[page] \in {fetch[page], Underway}
BY DEF FormInv, FormTyped, Invalidated

LEMMA GoWrongStep ==
    ASSUME FormInv, NEW s \in Saves, GoWrong(s)
    PROVE  FormInv'
<1>1. UNCHANGED <<form, page, server, cache, owed>> /\ saves' = [saves EXCEPT ![s] = NoSave]
  BY DEF GoWrong
<1>2. /\ fetch' \in [Projects -> Said \union {Nothing, Underway}]
      /\ page \in Projects => fetch'[page] \in {fetch[page], Underway}
  <2>1. Subject(saves[s]) \in Projects  BY SubjectIsProject DEF GoWrong
  <2>2. CASE Invalidated(Subject(saves[s]))  BY <2>1, <2>2, InvalidatedWaits
  <2>3. CASE UNCHANGED fetch  BY <2>3 DEF FormInv, FormTyped
  <2> QED  BY <2>2, <2>3 DEF GoWrong
<1>3. NoSave \in Saving /\ NoSave.pc = "idle"  BY DEF NoSave, Saving
<1>4. FormTyped'  BY <1>1, <1>2, <1>3 DEF FormInv, FormTyped
<1>5. Promised => Promised'  BY <1>1, <1>2 DEF Promised, Nothing, Underway
<1> QED  BY <1>1, <1>3, <1>4, <1>5 DEF FormInv, FormTyped, Answered

\* The handler of an answered save fetches again what its page shows before it
\* says "saved".
LEMMA SucceedStep ==
    ASSUME FormInv, NEW s \in Saves, Succeed(s)
    PROVE  FormInv'
<1> DEFINE save == saves[s]
           p == Subject(save)
           leaves == form.leaves /\ save.mine
<1>1. p \in Projects /\ save.project \in Projects /\ save \in Saving
      /\ save.version <= server[save.project].version
  BY SubjectIsProject DEF Succeed, FormInv, FormTyped, Answered
<1>2. UNCHANGED <<form, server>>  BY DEF Succeed
<1>3. IF form.settles = "adopt"
      THEN cache' = [cache EXCEPT ![p] = [version |-> save.version, stage |-> "none"]]
           /\ fetch' = fetch
      ELSE /\ IF form.settles = "refetch" \/ save.mine THEN Invalidated(p) ELSE fetch' = fetch
           /\ cache' = cache
  BY DEF Succeed
<1>4. /\ page' = IF leaves THEN Away ELSE page
      /\ owed' = IF leaves THEN 0
                 ELSE IF save.mine /\ save.project = page /\ save.version > owed
                 THEN save.version ELSE owed
  BY DEF Succeed
<1>5. \A q \in Saves : [saves[q] EXCEPT !.mine = @ /\ ~leaves] \in Saving
  <2>1. \A q \in Saves, b \in BOOLEAN : [saves[q] EXCEPT !.mine = b] \in Saving
    BY DEF FormInv, FormTyped, Saving
  <2> DEFINE shown(q) == saves[q].mine /\ ~leaves
  <2>2. \A q \in Saves : shown(q) \in BOOLEAN  OBVIOUS
  <2>3. \A q \in Saves : [saves[q] EXCEPT !.mine = shown(q)] \in Saving
    <3> HIDE DEF shown
    <3> QED  BY <2>1, <2>2
  <2> QED  BY <2>3 DEF FormInv, FormTyped, Saving
<1>6. saves' = [q \in Saves |->
                  IF q = s THEN NoSave ELSE [saves[q] EXCEPT !.mine = @ /\ ~leaves]]
  BY DEF Succeed
<1> HIDE DEF p, leaves
<1>7. NoSave \in Saving /\ NoSave.pc = "idle"  BY DEF NoSave, Saving
<1>8. saves' \in [Saves -> Saving]  BY <1>5, <1>6, <1>7
<1>9. \A q \in Saves : saves'[q].pc # "idle" =>
          /\ saves'[q].pc = saves[q].pc /\ saves'[q].project = saves[q].project
          /\ saves'[q].version = saves[q].version
  BY <1>6, <1>7 DEF FormInv, FormTyped, Saving
<1>10. FormTyped'
  <2>1. cache' \in [Projects -> Said \union {Nothing}]
    <3>1. [version |-> save.version, stage |-> "none"] \in Said
      BY <1>1 DEF Said, Saving, Stages
    <3> QED  BY <1>1, <1>3, <3>1 DEF FormInv, FormTyped
  <2>2. fetch' \in [Projects -> Said \union {Nothing, Underway}]
    BY <1>1, <1>3, InvalidatedWaits DEF FormInv, FormTyped
  <2>3. owed' \in Nat /\ page' \in Projects \union {Away}
    BY <1>1, <1>4 DEF FormInv, FormTyped, Saving
  <2> QED  BY <1>2, <1>8, <2>1, <2>2, <2>3 DEF FormInv, FormTyped
<1>11. ASSUME form.settles # "adopt" PROVE Promised'
  <2>1. SUFFICES ASSUME owed' > 0 PROVE Promised'  BY DEF Promised
  <2>2. page' = page /\ cache' = cache  BY <1>3, <1>4, <1>11, <2>1
  <2>3. CASE owed' = owed
    <3>1. page \in Projects => fetch'[page] \in {fetch[page], Underway}
      BY <1>1, <1>3, <1>11, InvalidatedWaits
    <3>2. Promised  BY <1>11 DEF FormInv
    <3> QED  BY <1>2, <2>1, <2>2, <2>3, <3>1, <3>2 DEF Promised, Nothing, Underway
  <2>4. CASE owed' # owed
    <3>1. save.mine /\ save.project = page /\ owed' = save.version
      BY <1>4, <2>1, <2>4
    <3>2. page \in Projects /\ p = page
      <4>1. page = Away => p = save.project  BY DEF p, Subject
      <4>2. page # Away => p = page  BY <3>1 DEF p, Subject
      <4> QED  BY <1>1, <3>1, <4>1, <4>2
    <3>3. fetch'[page] = Underway  BY <1>1, <1>3, <1>11, <3>1, <3>2, InvalidatedWaits
    <3> QED  BY <1>1, <1>2, <2>2, <3>1, <3>2, <3>3 DEF Promised, Nothing, Underway
  <2> QED  BY <2>3, <2>4
<1> QED  BY <1>2, <1>9, <1>10, <1>11 DEF FormInv, Answered

LEMMA FormInvInductive == FormInv /\ [FormNext]_formVars => FormInv'
<1>1. SUFFICES ASSUME FormInv, [FormNext]_formVars PROVE FormInv'
  OBVIOUS
<1>2. CASE UNCHANGED formVars
  BY <1>1, <1>2 DEF FormInv, FormTyped, Answered, Promised, formVars
<1>3. CASE FormNext
  BY <1>1, <1>3, NavigateStep, FetchStep, ServerStep, SubmitStep, GoWrongStep, SucceedStep
     DEF FormNext, Unattended
<1> QED  BY <1>1, <1>2, <1>3

(* A page that told its user "saved" shows that version or a later one as  *)
(* soon as its fetches are over, for any number of projects and saves and  *)
(* any forms: the invalidation cancels the fetch that may have read the    *)
(* state from before the save, and joins none (web pages and components,   *)
(* onSuccess).                                                             *)
THEOREM SavesAreShown == Spec => []SaveIsShown
<1>1. Init => FormInv  BY InitialForm DEF Init
<1>2. FormInv /\ [Next]_vars => FormInv'
  <2>1. [Next]_vars => [FormNext]_formVars
    BY DEF Next, vars, FormStep, SessionStep, ImportStep, LogStep
  <2> QED  BY <2>1, FormInvInductive
<1>3. FormInv => SaveIsShown  BY DEF FormInv, Promised, SaveIsShown
<1> QED  BY <1>1, <1>2, <1>3, PTL DEF Spec

-----------------------------------------------------------------------------
(* The types of the forms, with the bounds.                                *)

\* What is not a version.
Marked ==
    /\ form \in Rows /\ stale \in [Projects -> BOOLEAN]
    /\ draft \in {"clean", "typed"} /\ confirming \in BOOLEAN
    /\ failures \in 0..MaxFailures

\* Every version was that of a project once, which has as many as there were
\* changes, or fewer if other projects were changed too.
Numbered ==
    /\ changes \in 0..MaxVersion /\ owed <= MaxVersion
    /\ \A p \in Projects :
         /\ server[p].version <= changes
         /\ cache[p].version <= MaxVersion /\ fetch[p].version <= MaxVersion
    /\ \A s \in Saves : saves[s].version <= MaxVersion

LEMMA StepMarked == Marked /\ FormNext => Marked'
<1> SUFFICES ASSUME Marked, FormNext PROVE Marked'
  OBVIOUS
<1> USE DEF Marked
<1>0. \A p : /\ Invalidated(p) => stale' \in [Projects -> BOOLEAN]
             /\ [stale EXCEPT ![p] = TRUE] \in [Projects -> BOOLEAN]
             /\ [stale EXCEPT ![p] = FALSE] \in [Projects -> BOOLEAN]
  BY DEF Invalidated
<1>1. ASSUME NEW p, Navigate(p) PROVE Marked'
  BY <1>1 DEF Navigate, userVars
<1>2. ASSUME NEW p, OtherSaves(p) \/ Progress(p) \/ ServeRead(p) \/ Arrive(p) PROVE Marked'
  BY <1>0, <1>2 DEF OtherSaves, Progress, ServeRead, Arrive, Reseeded, userVars
<1>3. ASSUME NEW p, FetchFails(p) PROVE Marked'
  <2>1. failures' \in 0..MaxFailures
    BY <1>3, FormAssumption DEF FetchFails
  <2> QED  BY <1>0, <1>3, <2>1 DEF FetchFails, userVars
<1>4. CASE Focus \/ Poll \/ Type \/ Confirm
  BY <1>4 DEF Focus, Poll, Type, Confirm, userVars
<1>5. ASSUME NEW s, Submit(s) \/ Carry(s) PROVE Marked'
  BY <1>5 DEF Submit, Carry
<1>6. ASSUME NEW s, GoWrong(s) PROVE Marked'
  BY <1>0, <1>6 DEF GoWrong
<1>7. ASSUME NEW s, Succeed(s) PROVE Marked'
  <2>1. stale' \in [Projects -> BOOLEAN]  BY <1>0, <1>7 DEF Succeed
  <2>2. UNCHANGED <<form, confirming, failures>> /\ draft' \in {"clean", draft}
    BY <1>7 DEF Succeed
  <2> QED  BY <2>1, <2>2
<1> QED
  BY <1>1, <1>2, <1>3, <1>4, <1>5, <1>6, <1>7 DEF FormNext, Unattended

\* Fetches bring what there is, or was.
LEMMA FetchNumbered ==
    ASSUME FormInv, Numbered,
           \/ Focus \/ Poll \/ Type \/ Confirm
           \/ \E p \in Projects : ServeRead(p) \/ Arrive(p) \/ FetchFails(p)
           \/ \E p \in Projects \union {Away} : Navigate(p)
    PROVE  Numbered'
<1>0. /\ 0 <= MaxVersion /\ Nothing.version <= MaxVersion /\ Underway.version <= MaxVersion
      /\ \A p \in Projects : server[p].version <= MaxVersion
  <2>1. \A p \in Projects : server[p].version \in Nat  BY DEF FormInv, FormTyped, Said
  <2> QED  BY <2>1, FormAssumption DEF Numbered, Nothing, Underway
<1> DEFINE Brought ==
             /\ \A q \in Projects : \/ fetch'[q] \in {fetch[q], Underway, Nothing}
                                    \/ fetch'[q] = server[q]
             /\ \A q \in Projects : cache'[q] \in {cache[q], fetch[q], Nothing}
             /\ UNCHANGED <<server, changes>> /\ owed' \in {owed, 0}
             /\ \A s \in Saves : saves'[s].version = saves[s].version
<1>1. Brought
  <2>1. CASE Focus \/ Poll
    BY <2>1 DEF Focus, Poll, Asked, userVars, FormInv, FormTyped
  <2>2. CASE Type \/ Confirm
    BY <2>2 DEF Type, Confirm
  <2>3. ASSUME NEW p \in Projects, ServeRead(p) \/ Arrive(p) PROVE Brought
    BY <2>3 DEF ServeRead, Arrive, userVars, FormInv, FormTyped
  <2>4. ASSUME NEW p \in Projects, FetchFails(p) PROVE Brought
    BY <2>4 DEF FetchFails, userVars, FormInv, FormTyped
  <2>5. ASSUME NEW p \in Projects \union {Away}, Navigate(p) PROVE Brought
    <3>1. \A s \in Saves : saves'[s].version = saves[s].version
      BY <2>5 DEF Navigate, userVars, FormInv, FormTyped, Saving
    <3>2. UNCHANGED <<server, cache, changes>> /\ owed' = 0
      BY <2>5 DEF Navigate
    <3>3. \A q \in Projects : fetch'[q] \in {fetch[q], Underway}
      BY <2>5 DEF Navigate, Asked, FormInv, FormTyped
    <3> QED  BY <3>1, <3>2, <3>3
  <2> QED  BY <2>1, <2>2, <2>3, <2>4, <2>5
<1> QED  BY <1>0, <1>1 DEF Numbered

LEMMA ApplyNumbered ==
    ASSUME FormInv, Numbered, NEW p \in Projects, Apply(p)
    PROVE  /\ changes' \in 0..MaxVersion
           /\ \A q \in Projects : server'[q].version <= changes'
<1>1. changes' = changes + 1 /\ changes < MaxVersion
      /\ server' = [server EXCEPT ![p] = Changed(server[p])]
  BY DEF Apply
<1>2. \A q \in Projects : server[q] \in Said /\ server[q].version \in Nat
  BY DEF FormInv, FormTyped, Said
<1>3. Changed(server[p]).version = server[p].version + 1  BY <1>2, ChangedSaid
<1>4. \A q \in Projects : server'[q].version \in {server[q].version, server[p].version + 1}
  BY <1>1, <1>3 DEF FormInv, FormTyped
<1>5. \A n \in Nat : n <= changes => n <= changes + 1 /\ n + 1 <= changes + 1
  BY DEF Numbered
<1>6. \A q \in Projects : server'[q].version <= changes + 1
  BY <1>2, <1>4, <1>5 DEF Numbered
<1> QED  BY <1>1, <1>6, FormAssumption DEF Numbered

\* The saves, ours and the others'.
LEMMA SaveNumbered ==
    ASSUME FormInv, Numbered,
           \/ \E p \in Projects : OtherSaves(p) \/ Progress(p)
           \/ \E s \in Saves : Submit(s) \/ Carry(s)
    PROVE  Numbered'
<1>1. ASSUME NEW p \in Projects, OtherSaves(p) PROVE Numbered'
  <2>1. UNCHANGED <<cache, fetch, saves, owed>> /\ Apply(p)
    BY <1>1 DEF OtherSaves, userVars
  <2> QED  BY <2>1, ApplyNumbered DEF Numbered
<1>2. ASSUME NEW p \in Projects, Progress(p) PROVE Numbered'
  <2>1. UNCHANGED <<cache, fetch, saves, owed, changes>>  BY <1>2 DEF Progress, userVars
  <2>2. PICK stage : server' = [server EXCEPT ![p].stage = stage]  BY <1>2 DEF Progress
  <2>3. \A q \in Projects : server'[q].version = server[q].version
    BY <2>2 DEF FormInv, FormTyped, Said
  <2> QED  BY <2>1, <2>3 DEF Numbered
<1>3. ASSUME NEW s \in Saves, Submit(s) PROVE Numbered'
  <2>1. UNCHANGED <<server, cache, fetch, owed, changes>>  BY <1>3 DEF Submit
  <2>2. \A q \in Saves : saves'[q].version \in {saves[q].version, 0}
    BY <1>3 DEF Submit, FormInv, FormTyped
  <2> QED  BY <2>1, <2>2, FormAssumption DEF Numbered
<1>4. ASSUME NEW s \in Saves, Carry(s) PROVE Numbered'
  <2>1. PICK p \in Projects : p = saves[s].project  BY <1>4 DEF FormInv, Carry
  <2>2. UNCHANGED <<cache, fetch, owed>>  BY <1>4 DEF Carry
  <2>3. /\ changes' \in 0..MaxVersion
        /\ \A q \in Projects : server'[q].version <= changes'
    <3>1. CASE Apply(p)  BY <3>1, ApplyNumbered
    <3>2. CASE UNCHANGED <<server, changes>>  BY <3>2 DEF Numbered
    <3> QED  BY <1>4, <2>1, <3>1, <3>2 DEF Carry
  <2>4. PICK reply :
          saves' = [saves EXCEPT ![s].pc = reply, ![s].version = server'[p].version]
    BY <1>4, <2>1 DEF Carry
  <2>5. \A q \in Saves : saves'[q].version \in {saves[q].version, server'[p].version}
    BY <2>4 DEF FormInv, FormTyped, Saving
  <2>6. server'[p].version <= MaxVersion
    <3>1. server'[p].version \in Nat
      <4>1. server' \in [Projects -> Said]
        <5>1. FormInv'  BY <1>4, ServerStep
        <5> QED  BY <5>1 DEF FormInv, FormTyped
      <4> QED  BY <4>1 DEF Said
    <3> QED  BY <2>3, <3>1, FormAssumption
  <2> QED  BY <2>2, <2>3, <2>5, <2>6 DEF Numbered
<1> QED  BY <1>1, <1>2, <1>3, <1>4

\* And their answers.
LEMMA AnswerNumbered ==
    ASSUME FormInv, Numbered, NEW s \in Saves, Succeed(s) \/ GoWrong(s)
    PROVE  Numbered'
<1>1. UNCHANGED <<server, changes>>  BY DEF Succeed, GoWrong
<1>2. 0 <= MaxVersion /\ Underway.version = 0 /\ NoSave.version = 0
  BY FormAssumption DEF Underway, NoSave
<1>3. \A q \in Projects : fetch'[q].version \in {fetch[q].version, 0}
  <2>1. CASE UNCHANGED fetch  BY <2>1
  <2>2. ASSUME NEW p, Invalidated(p)
        PROVE  \A q \in Projects : fetch'[q].version \in {fetch[q].version, 0}
    BY <1>2, <2>2 DEF Invalidated, FormInv, FormTyped
  <2> QED  BY <2>1, <2>2 DEF Succeed, GoWrong
<1>4. \A q \in Saves : saves'[q].version \in {saves[q].version, 0}
  <2>1. CASE Succeed(s)  BY <1>2, <2>1 DEF Succeed, FormInv, FormTyped, Saving
  <2>2. CASE GoWrong(s)  BY <1>2, <2>2 DEF GoWrong, FormInv, FormTyped
  <2> QED  BY <2>1, <2>2
<1>5. \A q \in Projects : cache'[q].version \in {cache[q].version, saves[s].version}
  <2>1. CASE Succeed(s)
    <3>1. PICK p, stage :
            \/ UNCHANGED cache
            \/ cache' = [cache EXCEPT ![p] = [version |-> saves[s].version, stage |-> stage]]
      BY <2>1 DEF Succeed
    <3> QED  BY <3>1 DEF FormInv, FormTyped
  <2>2. CASE GoWrong(s)  BY <2>2 DEF GoWrong
  <2> QED  BY <2>1, <2>2
<1>6. owed' \in {owed, 0, saves[s].version}  BY DEF Succeed, GoWrong
<1> QED  BY <1>1, <1>2, <1>3, <1>4, <1>5, <1>6 DEF Numbered

FormBounded == FormInv /\ Marked /\ Numbered

LEMMA InitialNumbers == FormInit => FormBounded
<1> SUFFICES ASSUME FormInit PROVE FormBounded
  OBVIOUS
<1>1. FormInv  BY InitialForm
<1>2. Marked
  <2>1. failures \in 0..MaxFailures  BY FormAssumption DEF FormInit
  <2>2. stale \in [Projects -> BOOLEAN]  BY DEF FormInit
  <2> QED  BY <2>1, <2>2 DEF FormInit, Marked
<1>3. Numbered  BY FormAssumption DEF FormInit, Numbered, Nothing, NoSave
<1> QED  BY <1>1, <1>2, <1>3 DEF FormBounded

LEMMA FormBoundedInductive == FormBounded /\ [FormNext]_formVars => FormBounded'
<1> SUFFICES ASSUME FormBounded, [FormNext]_formVars PROVE FormBounded'
  OBVIOUS
<1>1. FormInv /\ Marked /\ Numbered  BY DEF FormBounded
<1>2. FormInv'  BY <1>1, FormInvInductive
<1>3. CASE UNCHANGED formVars
  BY <1>1, <1>2, <1>3 DEF FormBounded, Marked, Numbered, formVars
<1>4. CASE FormNext
  <2>1. Numbered'
    BY <1>1, <1>4, FetchNumbered, SaveNumbered, AnswerNumbered DEF FormNext, Unattended
  <2> QED  BY <1>1, <1>2, <1>4, <2>1, StepMarked DEF FormBounded
<1> QED  BY <1>3, <1>4

LEMMA FormTypes == FormBounded => FormTypeOK
<1> SUFFICES ASSUME FormBounded PROVE FormTypeOK
  OBVIOUS
<1>1. FormTyped /\ Marked /\ Numbered  BY DEF FormBounded, FormInv
<1>2. \A n \in Nat : n <= MaxVersion => n \in 0..MaxVersion  BY FormAssumption
<1>3. \A state \in Said : state.version <= MaxVersion => state \in State
  BY <1>2 DEF Said, State
<1>4. server \in [Projects -> State]
  <2>1. \A p \in Projects : server[p] \in Said /\ server[p].version <= MaxVersion
    <3>1. \A p \in Projects : server[p] \in Said /\ server[p].version \in Nat
      BY <1>1 DEF FormTyped, Said
    <3> QED  BY <1>1, <3>1, FormAssumption DEF Numbered
  <2> QED  BY <1>1, <1>3, <2>1 DEF FormTyped
<1>5. /\ cache \in [Projects -> State \union {Nothing}]
      /\ fetch \in [Projects -> State \union {Nothing, Underway}]
  BY <1>1, <1>3 DEF FormTyped, Numbered
<1>6. saves \in [Saves -> [pc : {"idle", "sent", "ok", "failed"},
                           project : Projects \union {Away},
                           version : 0..MaxVersion, mine : BOOLEAN]]
  <2>1. \A s \in Saves : saves[s] \in Saving /\ saves[s].version \in 0..MaxVersion
    BY <1>1, <1>2 DEF FormTyped, Saving, Numbered
  <2> QED  BY <1>1, <2>1 DEF FormTyped, Saving
<1>7. owed \in 0..MaxVersion  BY <1>1, <1>2 DEF FormTyped, Numbered
<1> QED  BY <1>1, <1>4, <1>5, <1>6, <1>7 DEF FormTyped, Marked, Numbered, FormTypeOK

-----------------------------------------------------------------------------
(* The import of a repository.                                             *)

\* The fields that were typed into hold what was typed.  An effect may only fill
\* the form while nothing was picked, so something typed is there only after a
\* pick, while the apps of a monorepo are offered again, or while no repository
\* is selected, which starts afresh.
Protected == picked \/ repo = NoRepo \/ Monorepo

ImportInv ==
    /\ {"framework", "manager"} \union Fields \subseteq DOMAIN settings
    /\ inspection \in [Repos -> [Branches -> {"unknown", "loading", "found", "failed"}]]
    /\ repo \in Repos \union {NoRepo} /\ branch \in Branches
    /\ typed \subseteq Fields
    /\ TypedKept
    /\ typed # {} => Protected

(* What any update leaves as it was, whatever it does to the settings: the *)
(* conditions are those of Rendered's arguments.                           *)
LEMMA RenderKeeps ==
    ASSUME NEW r \in Repos \union {NoRepo}, NEW b \in Branches, NEW done, NEW values,
           NEW queries \in [Repos -> [Branches -> {"unknown", "loading", "found", "failed"}]],
           NEW edited \in SUBSET Fields,
           {"framework", "manager"} \union Fields \subseteq DOMAIN values,
           \A f \in edited : values[f] = Typed,
           edited # {} => \/ done \/ r = NoRepo
                          \/ queries[r][b] = "found" /\ Contents[r][b].monorepo,
           Rendered(r, b, done, values, queries, edited)
    PROVE  ImportInv'
<1> DEFINE c == Contents[r][b]
           app == CHOOSE a \in c.apps : TRUE
           fills == Found(r, b, queries) /\ ~done /\ ~c.monorepo /\ c.apps # {}
           asks == r # NoRepo /\ queries[r][b] = "unknown"
<1>1. /\ repo' = r /\ branch' = b /\ picked' = (done \/ fills) /\ typed' = edited
      /\ settings' = IF fills THEN FromApp(app, c.manager, values) ELSE values
      /\ inspection' = IF asks THEN [queries EXCEPT ![r][b] = "loading"] ELSE queries
  BY DEF Rendered
<1>2. DOMAIN FromApp(app, c.manager, values) = DOMAIN values  BY DEF FromApp
<1>3. edited # {} => ~fills  BY DEF Found
<1> HIDE DEF app, c, fills
<1>4. DOMAIN settings' = DOMAIN values  BY <1>1, <1>2
<1>5. TypedKept'  BY <1>1, <1>3 DEF TypedKept
<1>6. inspection' \in [Repos -> [Branches -> {"unknown", "loading", "found", "failed"}]]
  BY <1>1
<1>7. ASSUME edited # {} PROVE Protected'
  <2>1. CASE done  BY <1>1, <2>1 DEF Protected
  <2>2. CASE r = NoRepo  BY <1>1, <2>2 DEF Protected
  <2>3. CASE r # NoRepo /\ queries[r][b] = "found" /\ Contents[r][b].monorepo
    <3>1. inspection' = queries  BY <1>1, <2>3
    <3> QED  BY <1>1, <2>3, <3>1 DEF Protected, Monorepo, Found, Here
  <2> QED  BY <1>7, <2>1, <2>2, <2>3
<1> QED  BY <1>1, <1>4, <1>5, <1>6, <1>7 DEF ImportInv

LEMMA InitialImport == ImportInit => ImportInv
BY ImportAssumption
   DEF ImportInit, ImportInv, FrameworkDefaults, Fields, TypedKept

\* What a field holds after a preset is chosen.
LEMMA PresetsKeep ==
    ASSUME ImportInv, NEW f \in typed, NEW framework, NEW manager
    PROVE  /\ SyncFramework(settings, framework)[f] = Typed
           /\ SyncManager(settings, manager)[f] = Typed
<1>1. settings[f] = Typed /\ f \in DOMAIN settings /\ f \in Fields
  BY DEF ImportInv, TypedKept
<1>2. FrameworkDefaults(settings.framework, settings.manager)[f] # Typed
  <2> DEFINE old == FrameworkDefaults(settings.framework, settings.manager)
  <2>1. /\ old["root"] = "" /\ old["output"] \in {".next", "dist"}
        /\ old["build"] \in {"pnpm run build", "bun run build"}
        /\ old["start"] \in {"node dist/main.js", ""}
    BY DEF FrameworkDefaults, BuildCommand
  <2> HIDE DEF old
  <2> QED  BY <1>1, <2>1 DEF Fields, Typed, old
<1>3. SyncFramework(settings, framework)[f] = Typed
  BY <1>1, <1>2 DEF SyncFramework, Fields, Typed
<1>4. ~IsKnownBuildDefault(Typed)  BY DEF IsKnownBuildDefault, BuildCommand, Typed
<1>5. SyncManager(settings, manager)[f] = Typed
  BY <1>1, <1>4 DEF SyncManager, Fields, Typed
<1> QED  BY <1>3, <1>5

\* The user edits only what is not being picked.
LEMMA EditKeeps ==
    ASSUME ImportInv, NEW values, NEW edited \in SUBSET Fields,
           {"framework", "manager"} \union Fields \subseteq DOMAIN values,
           \A f \in edited : values[f] = Typed,
           typed = {} => edited = {} \/ picked,
           Edit(values, edited)
    PROVE  ImportInv'
<1>1. Rendered(repo, branch, picked, values, inspection, edited) /\ Configuring
  BY DEF Edit
<1>2. edited # {} => picked
  BY <1>1 DEF Configuring, Picking, ImportInv, Protected
<1> QED  BY <1>1, <1>2, RenderKeeps DEF ImportInv

LEMMA EditStep ==
    ASSUME ImportInv,
           \/ ResetDefaults
           \/ \E f \in Fields : TypeInto(f) \/ ClearField(f)
           \/ \E framework \in Frameworks : ChooseFramework(framework)
           \/ \E manager \in Managers : ChooseManager(manager)
    PROVE  ImportInv'
<1>1. CASE ResetDefaults
  <2> DEFINE values == [FrameworkDefaults(settings.framework, settings.manager)
                          EXCEPT !.root = settings.root]
  <2>1. {"framework", "manager"} \union Fields \subseteq DOMAIN values
    BY DEF FrameworkDefaults, Fields
  <2>2. \A f \in typed \intersect {"root"} : values[f] = Typed
    BY DEF FrameworkDefaults, ImportInv, TypedKept
  <2>3. typed \intersect {"root"} \in SUBSET Fields  BY DEF Fields
  <2>4. Edit(values, typed \intersect {"root"})  BY <1>1 DEF ResetDefaults
  <2> HIDE DEF values
  <2> QED  BY <2>1, <2>2, <2>3, <2>4, EditKeeps
<1>2. ASSUME NEW f \in Fields, TypeInto(f) PROVE ImportInv'
  <2> DEFINE values == [settings EXCEPT ![f] = Typed]
             edited == typed \union (IF picked THEN {f} ELSE {})
  <2>1. {"framework", "manager"} \union Fields \subseteq DOMAIN values
    BY DEF ImportInv
  <2>2. \A g \in edited : values[g] = Typed
    BY DEF ImportInv, TypedKept
  <2>3. edited \in SUBSET Fields /\ (typed = {} => edited = {} \/ picked)
    BY DEF ImportInv
  <2>4. Edit(values, edited)  BY <1>2 DEF TypeInto
  <2> HIDE DEF values, edited
  <2> QED  BY <2>1, <2>2, <2>3, <2>4, EditKeeps
<1>3. ASSUME NEW f \in Fields, ClearField(f) PROVE ImportInv'
  <2> DEFINE values == [settings EXCEPT ![f] = ""]
  <2>1. {"framework", "manager"} \union Fields \subseteq DOMAIN values
    BY DEF ImportInv
  <2>2. \A g \in typed \ {f} : values[g] = Typed
    BY DEF ImportInv, TypedKept
  <2>3. typed \ {f} \in SUBSET Fields  BY DEF ImportInv
  <2>4. Edit(values, typed \ {f})  BY <1>3 DEF ClearField
  <2> HIDE DEF values
  <2> QED  BY <2>1, <2>2, <2>3, <2>4, EditKeeps
<1>4. ASSUME NEW framework, ChooseFramework(framework) PROVE ImportInv'
  <2>1. DOMAIN SyncFramework(settings, framework) = DOMAIN settings  BY DEF SyncFramework
  <2> QED
    BY <1>4, <2>1, PresetsKeep, EditKeeps DEF ChooseFramework, ImportInv
<1>5. ASSUME NEW manager, ChooseManager(manager) PROVE ImportInv'
  <2>1. DOMAIN SyncManager(settings, manager) = DOMAIN settings  BY DEF SyncManager
  <2> QED
    BY <1>5, <2>1, PresetsKeep, EditKeeps DEF ChooseManager, ImportInv
<1> QED  BY <1>1, <1>2, <1>3, <1>4, <1>5

\* The rest of the page.
LEMMA SelectionStep ==
    ASSUME ImportInv,
           \/ \E r \in Repos :
                SelectRepo(r) \/ \E b \in Branches : Inspected(r, b) \/ InspectAgain(r, b)
           \/ \E b \in Branches : ChooseBranch(b)
           \/ GoBack
    PROVE  ImportInv'
<1>1. ASSUME NEW r \in Repos, SelectRepo(r) PROVE ImportInv'
  <2> DEFINE values == FrameworkDefaults("nextjs", "auto")
  <2>1. Rendered(r, DefaultBranch, FALSE, values, inspection, {})  BY <1>1 DEF SelectRepo
  <2>2. {"framework", "manager"} \union Fields \subseteq DOMAIN values
    BY DEF FrameworkDefaults, Fields
  <2>3. {} \in SUBSET Fields /\ \A f \in {} : values[f] = Typed  OBVIOUS
  <2>4. r \in Repos \union {NoRepo} /\ DefaultBranch \in Branches  BY ImportAssumption
  <2>5. inspection \in [Repos -> [Branches -> {"unknown", "loading", "found", "failed"}]]
    BY DEF ImportInv
  <2> HIDE DEF values
  <2> QED  BY <2>1, <2>2, <2>3, <2>4, <2>5, RenderKeeps
<1>2. ASSUME NEW r \in Repos, NEW b \in Branches, Inspected(r, b) PROVE ImportInv'
  <2>1. PICK result \in {"found", "failed"} :
          Rendered(repo, branch, picked, settings, [inspection EXCEPT ![r][b] = result], typed)
    BY <1>2 DEF Inspected
  <2> DEFINE queries == [inspection EXCEPT ![r][b] = result]
  <2>2. queries \in [Repos -> [Branches -> {"unknown", "loading", "found", "failed"}]]
    BY DEF ImportInv
  <2>3. ASSUME typed # {}, ~picked, repo # NoRepo
        PROVE  queries[repo][branch] = "found" /\ Contents[repo][branch].monorepo
    <3>1. inspection[repo][branch] = "found" /\ Contents[repo][branch].monorepo
      BY <2>3 DEF ImportInv, Protected, Monorepo, Found, Here
    <3>2. inspection[r][b] = "loading"  BY <1>2 DEF Inspected
    <3>3. repo \in Repos /\ branch \in Branches  BY <2>3 DEF ImportInv
    <3>4. CASE r = repo  BY <3>1, <3>2, <3>3, <3>4 DEF ImportInv
    <3>5. CASE r # repo  BY <3>1, <3>3, <3>5 DEF ImportInv
    <3> QED  BY <3>1, <3>4, <3>5
  <2> HIDE DEF queries
  <2> QED
    BY <2>1, <2>2, <2>3, RenderKeeps DEF ImportInv, TypedKept, queries
<1>3. ASSUME NEW r \in Repos, NEW b \in Branches, InspectAgain(r, b) PROVE ImportInv'
  <2> DEFINE queries == [inspection EXCEPT ![r][b] = "loading"]
  <2>1. /\ r = repo /\ b = branch /\ inspection[r][b] = "failed"
        /\ Rendered(r, b, picked, settings, queries, typed)
    BY <1>3 DEF InspectAgain
  <2>2. queries \in [Repos -> [Branches -> {"unknown", "loading", "found", "failed"}]]
    BY DEF ImportInv
  <2>3. typed # {} => picked \/ r = NoRepo
    BY <2>1 DEF ImportInv, Protected, Monorepo, Found
  <2> HIDE DEF queries
  <2> QED  BY <2>1, <2>2, <2>3, RenderKeeps DEF ImportInv, TypedKept
<1>4. ASSUME NEW b \in Branches, ChooseBranch(b) PROVE ImportInv'
  <2>1. Rendered(repo, b, picked, settings, inspection, typed) /\ ~Picking
    BY <1>4 DEF ChooseBranch, Configuring
  <2>2. typed # {} => picked \/ repo = NoRepo
    BY <2>1 DEF ImportInv, Protected, Picking
  <2> QED  BY <2>1, <2>2, RenderKeeps DEF ImportInv, TypedKept
<1>5. CASE GoBack
  <2>1. CASE Monorepo /\ Rendered(repo, branch, FALSE, settings, inspection, typed)
    BY <2>1, RenderKeeps DEF ImportInv, TypedKept, Monorepo, Found, Here
  <2>2. CASE Rendered(NoRepo, branch, picked, settings, inspection, typed)
    BY <2>2, RenderKeeps DEF ImportInv, TypedKept
  <2>3. CASE Rendered(NoRepo, branch, FALSE, settings, inspection, typed)
    BY <2>3, RenderKeeps DEF ImportInv, TypedKept
  <2> QED  BY <1>5, <2>1, <2>2, <2>3 DEF GoBack
<1> QED  BY <1>1, <1>2, <1>3, <1>4, <1>5

\* An app keeps the start command, and nothing else that was typed.
LEMMA PickStep ==
    ASSUME ImportInv,
           \/ Picking /\ \E app \in Here.apps : SelectApp(app)
           \/ SetManually
    PROVE  ImportInv'
<1>1. ASSUME Picking, NEW app, SelectApp(app) PROVE ImportInv'
  <2> DEFINE values == FromApp(app, Here.manager, settings)
             edited == typed \intersect {"start"}
  <2>1. Rendered(repo, branch, TRUE, values, inspection, edited)  BY <1>1 DEF SelectApp
  <2>2. {"framework", "manager"} \union Fields \subseteq DOMAIN values
    BY DEF FromApp, ImportInv
  <2>3. edited \in SUBSET Fields  BY DEF Fields
  <2>4. \A f \in edited : values[f] = Typed
    BY DEF FromApp, ImportInv, TypedKept, Fields
  <2> HIDE DEF values, edited
  <2> QED  BY <2>1, <2>2, <2>3, <2>4, RenderKeeps DEF ImportInv
<1>2. CASE SetManually
  <2>1. Rendered(repo, branch, TRUE, settings, inspection, typed)  BY <1>2 DEF SetManually
  <2> QED  BY <2>1, RenderKeeps DEF ImportInv, TypedKept
<1> QED  BY <1>1, <1>2

LEMMA ImportInvInductive == ImportInv /\ [ImportNext]_importVars => ImportInv'
<1>1. SUFFICES ASSUME ImportInv, [ImportNext]_importVars PROVE ImportInv'
  OBVIOUS
<1>2. CASE UNCHANGED <<repo, branch, picked, settings, inspection, typed>>
  BY <1>1, <1>2 DEF ImportInv, TypedKept, Protected, Monorepo, Found, Here
<1>3. CASE ImportNext
  <2>1. CASE Switch \/ Create \/ Created \/ Attach
    BY <1>2, <2>1 DEF Switch, Create, Created, Attach, Unedited
  <2> QED  BY <1>1, <1>3, <2>1, SelectionStep, PickStep, EditStep DEF ImportNext
<1> QED  BY <1>1, <1>2, <1>3 DEF importVars

(* What the user typed after an app was picked is not replaced by a        *)
(* preset, a late inspection or another branch, for any repositories and   *)
(* whatever inspecting them finds (NewProject.tsx, the prefill effect;     *)
(* build-settings.tsx, the sync functions).                                *)
THEOREM WhatWasTypedStays == Spec => []TypedKept
<1>1. Init => ImportInv  BY InitialImport DEF Init
<1>2. ImportInv /\ [Next]_vars => ImportInv'
  <2>1. [Next]_vars => [ImportNext]_importVars
    BY DEF Next, vars, FormStep, SessionStep, ImportStep, LogStep
  <2> QED  BY <2>1, ImportInvInductive
<1>3. ImportInv => TypedKept  BY DEF ImportInv
<1> QED  BY <1>1, <1>2, <1>3, PTL DEF Spec

-----------------------------------------------------------------------------
(* The types of the import, with the bounds.                               *)

\* The page has asked about the branch that it shows.
Rendering ==
    /\ picked \in BOOLEAN
    /\ settings.framework \in Frameworks /\ settings.manager \in Managers
    /\ inspected \in 0..MaxInspections
    /\ repo # NoRepo => inspection[repo][branch] # "unknown"

Switched ==
    /\ edits \in 0..MaxEdits
    /\ options \in [autoBuild : BOOLEAN, autoProduction : BOOLEAN, postgres : BOOLEAN]
    /\ options.autoProduction => options.autoBuild

\* Databases are attached to two environments.
Creating ==
    /\ creation \in [pc : {"idle", "sent", "attaching", "done", "failed"}, attached : 0..2]
    /\ creation.pc = "sent" => creation.attached = 0
    /\ creation.pc = "attaching" => creation.attached < 2

ImportTyped == ImportInv /\ Rendering /\ Switched /\ Creating

Sound(values) ==
    /\ {"framework", "manager"} \union Fields \subseteq DOMAIN values
    /\ values.framework \in Frameworks /\ values.manager \in Managers

LEMMA RenderTypes ==
    ASSUME Rendering, NEW r \in Repos \union {NoRepo}, NEW b \in Branches, NEW done \in BOOLEAN,
           NEW values, Sound(values), NEW edited,
           NEW queries \in [Repos -> [Branches -> {"unknown", "loading", "found", "failed"}]],
           inspected < MaxInspections \/ (r # NoRepo => queries[r][b] # "unknown"),
           Rendered(r, b, done, values, queries, edited)
    PROVE  Rendering'
<1> DEFINE c == Contents[r][b]
           app == CHOOSE a \in c.apps : TRUE
           fills == Found(r, b, queries) /\ ~done /\ ~c.monorepo /\ c.apps # {}
           asks == r # NoRepo /\ queries[r][b] = "unknown"
<1>1. /\ repo' = r /\ branch' = b /\ picked' = (done \/ fills)
      /\ settings' = IF fills THEN FromApp(app, c.manager, values) ELSE values
      /\ inspection' = IF asks THEN [queries EXCEPT ![r][b] = "loading"] ELSE queries
      /\ inspected' = inspected + IF asks THEN 1 ELSE 0
  BY DEF Rendered
<1>2. settings'.framework \in Frameworks /\ settings'.manager \in Managers
  <2>1. CASE fills
    <3>1. r \in Repos /\ app \in c.apps  BY <2>1 DEF Found
    <3>2. app.framework \in Frameworks /\ c.manager \in Managers
      BY <3>1, ImportAssumption
    <3>3. /\ FromApp(app, c.manager, values).framework = app.framework
          /\ FromApp(app, c.manager, values).manager = c.manager
      BY DEF FromApp, Sound
    <3> QED  BY <1>1, <2>1, <3>2, <3>3
  <2>2. CASE ~fills  BY <1>1, <2>2 DEF Sound
  <2> QED  BY <2>1, <2>2
<1> HIDE DEF fills
<1>3. inspected' \in 0..MaxInspections
  BY <1>1, ImportAssumption DEF Rendering
<1>4. repo' # NoRepo => inspection'[repo'][branch'] # "unknown"
  BY <1>1
<1>5. picked' \in BOOLEAN  BY <1>1 DEF fills, Found
<1> QED  BY <1>2, <1>3, <1>4, <1>5 DEF Rendering

LEMMA PresetsSound ==
    ASSUME NEW framework \in Frameworks, NEW manager \in Managers
    PROVE  /\ Sound(FrameworkDefaults(framework, manager))
           /\ \A values : Sound(values) =>
                Sound(SyncFramework(values, framework)) /\ Sound(SyncManager(values, manager))
<1>1. Sound(FrameworkDefaults(framework, manager))
  BY DEF Sound, FrameworkDefaults, Fields
<1>2. ASSUME NEW values, Sound(values)
      PROVE  Sound(SyncFramework(values, framework)) /\ Sound(SyncManager(values, manager))
  <2>1. /\ DOMAIN SyncFramework(values, framework) = DOMAIN values
        /\ DOMAIN SyncManager(values, manager) = DOMAIN values
    BY DEF SyncFramework, SyncManager
  <2>2. /\ SyncFramework(values, framework).framework = framework
        /\ SyncFramework(values, framework).manager = values.manager
    BY <1>2 DEF SyncFramework, Sound
  <2>3. /\ SyncManager(values, manager).framework = values.framework
        /\ SyncManager(values, manager).manager = manager
    BY <1>2 DEF SyncManager, Sound
  <2> QED  BY <1>2, <2>1, <2>2, <2>3 DEF Sound
<1> QED  BY <1>1, <1>2

\* An update of the page leaves its branch asked about.
LEMMA ShownTypes ==
    ASSUME ImportInv, Rendering, NEW done \in BOOLEAN, NEW values, Sound(values), NEW edited,
           Rendered(repo, branch, done, values, inspection, edited)
    PROVE  Rendering'
BY RenderTypes DEF ImportInv, Rendering, Sound

LEMMA SettingsSound == ImportInv /\ Rendering => Sound(settings)
BY DEF ImportInv, Rendering, Sound

LEMMA EditTypes ==
    ASSUME ImportInv, Rendering,
           \/ ResetDefaults
           \/ \E f \in Fields : TypeInto(f) \/ ClearField(f)
           \/ \E framework \in Frameworks : ChooseFramework(framework)
           \/ \E manager \in Managers : ChooseManager(manager)
    PROVE  Rendering' /\ (Switched => Switched') /\ UNCHANGED creation
<1> DEFINE Edited == \E values, edited : Edit(values, edited) /\ Sound(values)
<1>0. Sound(settings)  BY SettingsSound
<1>1. ASSUME ResetDefaults PROVE Edited
  <2> DEFINE values == [FrameworkDefaults(settings.framework, settings.manager)
                          EXCEPT !.root = settings.root]
  <2>1. Sound(values)  BY <1>0 DEF Sound, FrameworkDefaults, Fields
  <2>2. Edit(values, typed \intersect {"root"})  BY <1>1 DEF ResetDefaults
  <2> HIDE DEF values
  <2> QED  BY <2>1, <2>2
<1>2. ASSUME NEW f \in Fields, TypeInto(f) \/ ClearField(f) PROVE Edited
  <2>1. PICK values, edited : /\ Edit(values, edited)
                              /\ \E text : values = [settings EXCEPT ![f] = text]
    BY <1>2 DEF TypeInto, ClearField
  <2>2. Sound(values)  BY <1>0, <2>1 DEF Sound, Fields
  <2> QED  BY <2>1, <2>2
<1>3. ASSUME NEW framework \in Frameworks, ChooseFramework(framework) PROVE Edited
  <2>1. Sound(SyncFramework(settings, framework))
    BY <1>0, PresetsSound DEF Sound
  <2> QED  BY <1>3, <2>1 DEF ChooseFramework
<1>4. ASSUME NEW manager \in Managers, ChooseManager(manager) PROVE Edited
  <2>1. Sound(SyncManager(settings, manager))
    BY <1>0, PresetsSound DEF Sound
  <2> QED  BY <1>4, <2>1 DEF ChooseManager
<1>5. ASSUME NEW values, NEW edited, Edit(values, edited), Sound(values)
      PROVE  Rendering' /\ (Switched => Switched') /\ UNCHANGED creation
  <2>1. /\ edits < MaxEdits /\ edits' = edits + 1 /\ UNCHANGED <<options, creation>>
        /\ Rendered(repo, branch, picked, values, inspection, edited)
    BY <1>5 DEF Edit
  <2>2. Rendering'  BY <1>5, <2>1, ShownTypes DEF Rendering
  <2>3. Switched => Switched'  BY <2>1, ImportAssumption DEF Switched
  <2> QED  BY <2>1, <2>2, <2>3
<1> QED  BY <1>1, <1>2, <1>3, <1>4, <1>5

LEMMA SelectionTypes ==
    ASSUME ImportInv, Rendering,
           \/ \E r \in Repos :
                SelectRepo(r) \/ \E b \in Branches : Inspected(r, b) \/ InspectAgain(r, b)
           \/ \E b \in Branches : ChooseBranch(b)
           \/ GoBack
           \/ Picking /\ \E app \in Here.apps : SelectApp(app)
           \/ SetManually
    PROVE  Rendering' /\ (Switched => Switched') /\ UNCHANGED creation
<1>0. Sound(settings) /\ picked \in BOOLEAN  BY SettingsSound DEF Rendering
<1>1. CASE \E r \in Repos : SelectRepo(r)
  <2>1. PICK r \in Repos : SelectRepo(r)  BY <1>1
  <2> DEFINE values == FrameworkDefaults("nextjs", "auto")
  <2>2. /\ Rendered(r, DefaultBranch, FALSE, values, inspection, {})
        /\ inspected < MaxInspections /\ UNCHANGED <<edits, creation>>
        /\ options' = [autoBuild |-> TRUE, autoProduction |-> FALSE, postgres |-> FALSE]
    BY <2>1 DEF SelectRepo
  <2>3. Sound(values)  BY PresetsSound DEF Frameworks, Managers
  <2>4. r \in Repos \union {NoRepo} /\ DefaultBranch \in Branches  BY ImportAssumption
  <2> HIDE DEF values
  <2>5. Rendering'  BY <2>2, <2>3, <2>4, RenderTypes DEF ImportInv, Sound
  <2>6. Switched => Switched'  BY <2>2 DEF Switched
  <2> QED  BY <2>2, <2>5, <2>6
<1>2. ASSUME NEW r \in Repos, NEW b \in Branches, Inspected(r, b) PROVE Rendering'
  <2>1. PICK result \in {"found", "failed"} :
          Rendered(repo, branch, picked, settings, [inspection EXCEPT ![r][b] = result], typed)
    BY <1>2 DEF Inspected
  <2> DEFINE queries == [inspection EXCEPT ![r][b] = result]
  <2>2. queries \in [Repos -> [Branches -> {"unknown", "loading", "found", "failed"}]]
    BY DEF ImportInv
  <2>3. repo # NoRepo => queries[repo][branch] # "unknown"
    BY DEF ImportInv, Rendering
  <2>4. repo \in Repos \union {NoRepo} /\ branch \in Branches  BY DEF ImportInv
  <2>5. Rendered(repo, branch, picked, settings, queries, typed)  BY <2>1
  <2> HIDE DEF queries
  <2> QED  BY <1>0, <2>2, <2>3, <2>4, <2>5, RenderTypes
<1>3. ASSUME NEW r \in Repos, NEW b \in Branches, InspectAgain(r, b) PROVE Rendering'
  <2> DEFINE queries == [inspection EXCEPT ![r][b] = "loading"]
  <2>1. Rendered(r, b, picked, settings, queries, typed)  BY <1>3 DEF InspectAgain
  <2>2. queries \in [Repos -> [Branches -> {"unknown", "loading", "found", "failed"}]]
        /\ queries[r][b] # "unknown"
    BY DEF ImportInv
  <2> HIDE DEF queries
  <2> QED  BY <1>0, <2>1, <2>2, RenderTypes DEF Sound
<1>4. ASSUME NEW b \in Branches, ChooseBranch(b) PROVE Rendering'
  <2>1. Rendered(repo, b, picked, settings, inspection, typed) /\ inspected < MaxInspections
    BY <1>4 DEF ChooseBranch
  <2> QED  BY <1>0, <2>1, RenderTypes DEF ImportInv, Sound
<1>5. ASSUME GoBack PROVE Rendering'
  <2>1. /\ FALSE \in BOOLEAN /\ NoRepo \in Repos \union {NoRepo} /\ branch \in Branches
        /\ inspection \in [Repos -> [Branches -> {"unknown", "loading", "found", "failed"}]]
    BY DEF ImportInv
  <2>2. CASE Rendered(repo, branch, FALSE, settings, inspection, typed)
    BY <1>0, <2>1, <2>2, ShownTypes
  <2>3. CASE Rendered(NoRepo, branch, picked, settings, inspection, typed)
    BY <1>0, <2>1, <2>3, RenderTypes
  <2>4. CASE Rendered(NoRepo, branch, FALSE, settings, inspection, typed)
    BY <1>0, <2>1, <2>4, RenderTypes
  <2> QED  BY <1>5, <2>2, <2>3, <2>4 DEF GoBack
<1>6. ASSUME Picking, NEW app \in Here.apps, SelectApp(app) PROVE Rendering'
  <2> DEFINE values == FromApp(app, Here.manager, settings)
  <2>1. \E edited : Rendered(repo, branch, TRUE, values, inspection, edited)
    BY <1>6 DEF SelectApp
  <2>2. app.framework \in Frameworks /\ Here.manager \in Managers
    <3>1. repo \in Repos /\ branch \in Branches
      BY <1>6 DEF Picking, Monorepo, Found, ImportInv
    <3> QED  BY <3>1, ImportAssumption DEF Here
  <2>3. Sound(values)  BY <1>0, <2>2 DEF Sound, FromApp
  <2> HIDE DEF values
  <2> QED  BY <2>1, <2>3, ShownTypes
<1>7. ASSUME SetManually PROVE Rendering'
  <2>1. Rendered(repo, branch, TRUE, settings, inspection, typed)  BY <1>7 DEF SetManually
  <2> QED  BY <1>0, <2>1, ShownTypes
<1>8. ~(\E r \in Repos : SelectRepo(r)) => Untouched
  BY DEF Inspected, InspectAgain, ChooseBranch, GoBack, SelectApp, SetManually
<1> QED
  BY <1>1, <1>2, <1>3, <1>4, <1>5, <1>6, <1>7, <1>8 DEF Untouched, Switched

\* The switches, and what creates the project.
LEMMA SwitchTypes ==
    ASSUME Switched, Switch
    PROVE  Switched'
<1>1. edits' \in 0..MaxEdits  BY ImportAssumption DEF Switched, Switch
<1>2. /\ options' \in [autoBuild : BOOLEAN, autoProduction : BOOLEAN, postgres : BOOLEAN]
      /\ options'.autoProduction => options'.autoBuild
  <2> DEFINE Options == [autoBuild : BOOLEAN, autoProduction : BOOLEAN, postgres : BOOLEAN]
  <2>1. options \in Options /\ (options.autoProduction => options.autoBuild)  BY DEF Switched
  <2>2. CASE options' = [options EXCEPT !.autoBuild = TRUE]  BY <2>1, <2>2
  <2>3. CASE options' = [options EXCEPT !.autoBuild = FALSE, !.autoProduction = FALSE]
    BY <2>1, <2>3
  <2>4. CASE options.autoBuild /\ options' = [options EXCEPT !.autoProduction = ~@]
    BY <2>1, <2>4
  <2>5. CASE options' = [options EXCEPT !.postgres = ~@]  BY <2>1, <2>5
  <2> QED  BY <2>2, <2>3, <2>4, <2>5 DEF Switch
<1> QED  BY <1>1, <1>2 DEF Switched

LEMMA CreationTypes ==
    ASSUME Creating, Create \/ Created \/ Attach
    PROVE  Creating'
<1> DEFINE Creation == [pc : {"idle", "sent", "attaching", "done", "failed"}, attached : 0..2]
<1>1. creation \in Creation  BY DEF Creating
<1>2. CASE Create  BY <1>2 DEF Create, Creating
<1>3. CASE Created
  <2>1. PICK pc \in {"attaching", "done", "failed"} :
          creation.pc = "sent" /\ creation' = [creation EXCEPT !.pc = pc]
    BY <1>3 DEF Created
  <2> QED  BY <2>1 DEF Creating
<1>4. CASE Attach
  <2>1. creation.pc = "attaching" /\ creation.attached \in {0, 1}
    BY <1>1, <1>4 DEF Attach, Creating
  <2>2. CASE creation' = [creation EXCEPT !.pc = "done"]  BY <1>1, <2>2 DEF Creating
  <2>3. CASE creation' = [creation EXCEPT !.attached = @ + 1,
                                          !.pc = IF creation.attached = 1 THEN "done" ELSE @]
    <3>1. PICK n \in 1..2, pc \in {"attaching", "done"} :
            /\ n = creation.attached + 1 /\ (n = 2 => pc = "done")
            /\ pc = IF creation.attached = 1 THEN "done" ELSE creation.pc
      BY <2>1
    <3>2. creation' = [creation EXCEPT !.attached = n, !.pc = pc]
      BY <1>1, <2>3, <3>1
    <3>3. /\ [creation EXCEPT !.attached = n, !.pc = pc] \in Creation
          /\ [creation EXCEPT !.attached = n, !.pc = pc].attached = n
          /\ [creation EXCEPT !.attached = n, !.pc = pc].pc = pc
      <4>1. PICK c : c = [creation EXCEPT !.attached = n]  OBVIOUS
      <4>2. c \in Creation /\ c.attached = n
        <5>1. n \in 0..2  BY <3>1
        <5> QED  BY <1>1, <4>1, <5>1
      <4>3. [creation EXCEPT !.attached = n, !.pc = pc] = [c EXCEPT !.pc = pc]
        BY <1>1, <4>1
      <4>4. [c EXCEPT !.pc = pc] \in Creation /\ [c EXCEPT !.pc = pc].attached = c.attached
            /\ [c EXCEPT !.pc = pc].pc = pc
        BY <3>1, <4>2
      <4> QED  BY <4>2, <4>3, <4>4
    <3>4. creation' \in Creation /\ creation'.attached = n /\ creation'.pc = pc
      BY <3>2, <3>3
    <3> QED  BY <3>1, <3>4 DEF Creating
  <2> QED  BY <1>4, <2>2, <2>3 DEF Attach
<1> QED  BY <1>2, <1>3, <1>4

LEMMA InitialImportTypes == ImportInit => ImportTyped
<1> SUFFICES ASSUME ImportInit PROVE ImportTyped
  OBVIOUS
<1>1. ImportInv  BY InitialImport
<1>2. Rendering
  <2>1. settings.framework \in Frameworks /\ settings.manager \in Managers
    BY DEF ImportInit, FrameworkDefaults, Frameworks, Managers
  <2>2. inspected \in 0..MaxInspections  BY ImportAssumption DEF ImportInit
  <2> QED  BY <2>1, <2>2 DEF ImportInit, Rendering
<1>3. Switched /\ Creating  BY ImportAssumption DEF ImportInit, Switched, Creating
<1> QED  BY <1>1, <1>2, <1>3 DEF ImportTyped

LEMMA ImportTypedInductive == ImportTyped /\ [ImportNext]_importVars => ImportTyped'
<1> SUFFICES ASSUME ImportTyped, [ImportNext]_importVars PROVE ImportTyped'
  OBVIOUS
<1>1. ImportInv /\ Rendering /\ Switched /\ Creating  BY DEF ImportTyped
<1>2. ImportInv'  BY <1>1, ImportInvInductive
<1>3. CASE UNCHANGED importVars
  BY <1>1, <1>2, <1>3 DEF importVars, ImportTyped, Rendering, Switched, Creating
<1>4. CASE Switch
  <2>1. UNCHANGED <<picked, settings, inspected, repo, branch, inspection, creation>>
    BY <1>4 DEF Switch
  <2> QED  BY <1>1, <1>2, <1>4, <2>1, SwitchTypes DEF ImportTyped, Rendering, Creating
<1>5. CASE Create \/ Created \/ Attach
  <2>1. Unedited  BY <1>5 DEF Create, Created, Attach
  <2> QED  BY <1>1, <1>2, <1>5, <2>1, CreationTypes DEF ImportTyped, Unedited, Rendering, Switched
<1>6. CASE Rendering' /\ Switched' /\ UNCHANGED creation
  BY <1>1, <1>2, <1>6 DEF ImportTyped, Creating
<1> QED  BY <1>1, <1>3, <1>4, <1>5, <1>6, SelectionTypes, EditTypes DEF ImportNext

LEMMA ImportTypes == ImportTyped => ImportTypeOK
BY DEF ImportTyped, ImportInv, Rendering, Switched, Creating, ImportTypeOK

-----------------------------------------------------------------------------
(* Live container logs.                                                    *)

LogLine == [key : Nat, target : Target]
LogView == [lines : Seq(LogLine), next : Nat]
Connection == [pc : {"unused", "connecting", "open", "closing"},
               tab : LogTabs \union {NoTab}, target : Target \union {NoTab}]

LogTyped ==
    /\ logTabs \in Seq([id : LogTabs, target : Target])
    /\ opened \in 0..MaxLogTabs /\ sheet \in BOOLEAN
    /\ streams \in [Streams -> Connection]
    /\ view \in [LogTabs -> LogView]

\* Tabs are numbered as they are opened, and a number is not used again.
TabsDiffer ==
    /\ \A i \in DOMAIN logTabs : logTabs[i].id <= opened
    /\ \A i, j \in DOMAIN logTabs : logTabs[i].id = logTabs[j].id => i = j

\* A connection that may bring lines is that of a tab on the screen, and it is
\* the one to the container the tab is pointed at.
Follows(c) ==
    streams[c].pc \in {"connecting", "open"} =>
        sheet /\ \E i \in DOMAIN logTabs :
                     logTabs[i].id = streams[c].tab /\ logTabs[i].target = streams[c].target

InOrder(v) ==
    /\ \A k \in DOMAIN v.lines : v.lines[k].key < v.next
    /\ \A k, l \in DOMAIN v.lines : k < l => v.lines[k].key < v.lines[l].key

Shows(v, target) == \A k \in DOMAIN v.lines : v.lines[k].target = target

ViewsOK ==
    /\ \A id \in LogTabs : InOrder(view[id])
    /\ ~sheet => \A id \in LogTabs : view[id] = Fresh
    /\ \A i \in DOMAIN logTabs : Shows(view[logTabs[i].id], logTabs[i].target)

LogInv == LogTyped /\ TabsDiffer /\ ViewsOK /\ \A c \in Streams : Follows(c)

LEMMA FreshView ==
    /\ Fresh \in LogView /\ InOrder(Fresh)
    /\ \A target : Shows(Fresh, target)
BY DEF Fresh, LogView, InOrder, Shows

LEMMA InitialLogs == LogInit => LogInv
<1> SUFFICES ASSUME LogInit PROVE LogInv
  OBVIOUS
<1>1. NoStream \in Connection /\ NoStream.pc = "unused"
  BY DEF NoStream, Connection
<1>2. LogTyped
  <2>1. <<>> \in Seq([id : LogTabs, target : Target])  OBVIOUS
  <2> QED  BY <1>1, <2>1, FreshView, LogAssumption DEF LogInit, LogTyped
<1>3. TabsDiffer  BY DEF LogInit, TabsDiffer
<1>4. ViewsOK  BY FreshView DEF LogInit, ViewsOK
<1> QED  BY <1>1, <1>2, <1>3, <1>4 DEF LogInit, LogInv, Follows

\* A line more, with the next key.
LEMMA OneMoreLine ==
    ASSUME NEW v \in LogView, InOrder(v), NEW target \in Target, Shows(v, target),
           NEW lines,
           lines \in {Append(v.lines, [key |-> v.next, target |-> target]),
                      Tail(Append(v.lines, [key |-> v.next, target |-> target]))}
    PROVE  LET w == [v EXCEPT !.next = @ + 1, !.lines = lines]
           IN  w \in LogView /\ InOrder(w) /\ Shows(w, target)
<1> DEFINE line == [key |-> v.next, target |-> target]
           all == Append(v.lines, line)
           w == [v EXCEPT !.next = @ + 1, !.lines = lines]
<1>1. v.lines \in Seq(LogLine) /\ v.next \in Nat /\ line \in LogLine
  BY DEF LogView, LogLine
<1>2. /\ all \in Seq(LogLine) /\ Len(all) = Len(v.lines) + 1
      /\ \A k \in 1..Len(v.lines) : all[k] = v.lines[k]
      /\ all[Len(v.lines) + 1] = line
  BY <1>1
<1> HIDE DEF all
<1>3. PICK n \in Nat : n = Len(v.lines) /\ DOMAIN v.lines = 1..n /\ DOMAIN all = 1..(n + 1)
  BY <1>1, <1>2
<1>4. \A k \in 1..n : v.lines[k].key \in Nat
  <2>1. \A k \in 1..n : v.lines[k] \in LogLine  BY <1>1, <1>3
  <2> QED  BY <2>1 DEF LogLine
<1>5. \A k \in 1..(n + 1) : \/ k \in 1..n /\ all[k] = v.lines[k]
                            \/ k = n + 1 /\ all[k] = line
  <2>1. all[n + 1] = line /\ \A k \in 1..n : all[k] = v.lines[k]  BY <1>2, <1>3
  <2>2. \A k \in 1..(n + 1) : k \in 1..n \/ k = n + 1  OBVIOUS
  <2> QED  BY <2>1, <2>2
<1>6. \A k \in 1..(n + 1) : all[k].key \in Nat /\ all[k].key < v.next + 1
                            /\ all[k].target = target
  <2>1. \A k \in 1..n : v.lines[k].key < v.next /\ v.lines[k].target = target
    BY <1>3 DEF InOrder, Shows
  <2>2. \A a, b \in Nat : a <= b => a < b + 1  OBVIOUS
  <2>3. \A a, b \in Nat : a < b => a <= b  OBVIOUS
  <2>4. \A k \in 1..n : v.lines[k].key < v.next + 1  BY <1>1, <1>4, <2>1, <2>2, <2>3
  <2>5. line.key = v.next /\ line.target = target /\ v.next < v.next + 1  BY <1>1
  <2> HIDE DEF line
  <2> QED  BY <1>1, <1>4, <1>5, <2>1, <2>4, <2>5
<1>7. \A k, l \in 1..(n + 1) : k < l => all[k].key < all[l].key
  <2>1. ASSUME NEW k \in 1..(n + 1), NEW l \in 1..(n + 1), k < l
        PROVE  all[k].key < all[l].key
    <3>1. k \in 1..n /\ all[k] = v.lines[k] /\ all[k].key < v.next
      BY <1>3, <1>5, <2>1 DEF InOrder
    <3>2. CASE l = n + 1
      <4>1. all[l] = line /\ line.key = v.next  BY <1>3, <1>5, <3>2
      <4> QED  BY <3>1, <4>1
    <3>3. CASE l \in 1..n
      <4>1. all[l] = v.lines[l]  BY <1>3, <1>5, <3>3
      <4> QED  BY <1>3, <2>1, <3>1, <3>3, <4>1 DEF InOrder
    <3> QED  BY <1>5, <3>2, <3>3
  <2> QED  BY <2>1
<1>8. /\ lines \in Seq(LogLine)
      /\ \A k \in DOMAIN lines : lines[k].key < v.next + 1 /\ lines[k].target = target
      /\ \A k, l \in DOMAIN lines : k < l => lines[k].key < lines[l].key
  <2>1. CASE lines = all  BY <1>2, <1>3, <1>6, <1>7, <2>1
  <2>2. CASE lines = Tail(all)
    <3>1. lines \in Seq(LogLine) /\ DOMAIN lines = 1..n
          /\ \A k \in 1..n : lines[k] = all[k + 1]
      BY <1>2, <1>3, <2>2
    <3>2. \A k \in 1..n : k + 1 \in 1..(n + 1)  BY <1>3
    <3>3. \A k, l \in 1..n : k < l => k + 1 < l + 1  BY <1>3
    <3> QED  BY <1>6, <1>7, <3>1, <3>2, <3>3
  <2> QED  BY <2>1, <2>2 DEF all
<1>9. w.lines = lines /\ w.next = v.next + 1
  BY DEF LogView
<1>10. w \in LogView
  <2>1. v.next + 1 \in Nat  BY <1>1
  <2> QED  BY <1>8, <2>1 DEF LogView
<1> HIDE DEF w
<1>11. InOrder(w) /\ Shows(w, target)  BY <1>8, <1>9 DEF InOrder, Shows
<1> QED  BY <1>10, <1>11 DEF w

LEMMA TabTyped ==
    ASSUME LogTyped, NEW i \in DOMAIN logTabs
    PROVE  logTabs[i].id \in LogTabs /\ logTabs[i].target \in Target
<1> DEFINE Tab == [id : LogTabs, target : Target]
<1>1. logTabs \in Seq(Tab)  BY DEF LogTyped
<1> HIDE DEF Tab
<1>2. logTabs[i] \in Tab  BY <1>1
<1> QED  BY <1>2 DEF Tab

\* What is left of the connections after the cleanup of some tabs' effects.
LEMMA OthersStay ==
    ASSUME LogTyped, NEW ids
    PROVE  /\ Disconnected(ids) \in [Streams -> Connection]
           /\ \A c \in Streams : Disconnected(ids)[c].pc \in {"connecting", "open"} =>
                Disconnected(ids)[c] = streams[c] /\ streams[c].tab \notin ids
<1>1. \A c \in Streams : [streams[c] EXCEPT !.pc = "closing"] \in Connection
  BY DEF LogTyped, Connection
<1>2. \A c \in Streams : /\ streams[c] \in Connection
                         /\ [streams[c] EXCEPT !.pc = "closing"].pc = "closing"
  BY DEF LogTyped, Connection
<1> QED  BY <1>1, <1>2 DEF Disconnected

LEMMA OnlyItsOwn ==
    ASSUME LogTyped, NEW id \in LogTabs, NEW target \in Target, Connect(id, target)
    PROVE  /\ streams' \in [Streams -> Connection]
           /\ \A c \in Streams : streams'[c].pc \in {"connecting", "open"} =>
                \/ streams'[c].tab = id /\ streams'[c].target = target
                \/ streams'[c] = streams[c] /\ streams[c].tab # id
           /\ view' = [view EXCEPT ![id] = Fresh]
<1> DEFINE made == [pc |-> "connecting", tab |-> id, target |-> target]
           kept == Disconnected({id})
<1>1. PICK u : streams' = [kept EXCEPT ![u] = made] /\ view' = [view EXCEPT ![id] = Fresh]
  BY DEF Connect
<1>2. made \in Connection  BY DEF Connection
<1>3. kept \in [Streams -> Connection]
      /\ \A c \in Streams : kept[c].pc \in {"connecting", "open"} =>
            kept[c] = streams[c] /\ streams[c].tab # id
  BY OthersStay
<1>4. made.tab = id /\ made.target = target  OBVIOUS
<1> HIDE DEF made, kept
<1>5. \A c \in Streams : streams'[c] = made \/ streams'[c] = kept[c]  BY <1>1, <1>3
<1> QED  BY <1>1, <1>2, <1>3, <1>4, <1>5

\* The connections' own steps.
LEMMA StreamStep ==
    ASSUME LogInv, \E c \in Streams : StreamOpens(c) \/ StreamEnds(c) \/ LineArrives(c)
    PROVE  LogInv'
<1>1. ASSUME NEW c \in Streams, StreamOpens(c) \/ StreamEnds(c) PROVE LogInv'
  <2>1. PICK s \in Connection :
          /\ streams' = [streams EXCEPT ![c] = s]
          /\ s.pc \in {"connecting", "open"} =>
                /\ streams[c].pc \in {"connecting", "open"}
                /\ s.tab = streams[c].tab /\ s.target = streams[c].target
    <3>1. CASE StreamOpens(c)
      <4>1. streams' = [streams EXCEPT ![c] = [streams[c] EXCEPT !.pc = "open"]]
            /\ streams[c].pc = "connecting" /\ streams[c] \in Connection
        BY <3>1 DEF StreamOpens, LogInv, LogTyped
      <4>2. /\ [streams[c] EXCEPT !.pc = "open"] \in Connection
            /\ [streams[c] EXCEPT !.pc = "open"].tab = streams[c].tab
            /\ [streams[c] EXCEPT !.pc = "open"].target = streams[c].target
        BY <4>1 DEF Connection
      <4> QED  BY <4>1, <4>2
    <3>2. CASE StreamEnds(c)
      <4>1. NoStream \in Connection /\ NoStream.pc = "unused"  BY DEF NoStream, Connection
      <4> QED  BY <3>2, <4>1 DEF StreamEnds
    <3> QED  BY <1>1, <3>1, <3>2
  <2>2. UNCHANGED <<logTabs, opened, sheet, view>>  BY <1>1 DEF StreamOpens, StreamEnds
  <2>3. ASSUME NEW d \in Streams PROVE Follows(d)'
    <3>1. streams'[d] = IF d = c THEN s ELSE streams[d]  BY <2>1 DEF LogInv, LogTyped
    <3>2. Follows(d) /\ Follows(c)  BY DEF LogInv
    <3> QED  BY <2>1, <2>2, <3>1, <3>2 DEF Follows
  <2>4. LogTyped'  BY <2>1, <2>2 DEF LogInv, LogTyped
  <2> QED  BY <2>2, <2>3, <2>4 DEF LogInv, TabsDiffer, ViewsOK
<1>2. ASSUME NEW c \in Streams, LineArrives(c) PROVE LogInv'
  <2>1. PICK i \in DOMAIN logTabs :
          sheet /\ logTabs[i].id = streams[c].tab /\ logTabs[i].target = streams[c].target
    BY <1>2 DEF LineArrives, LogInv, Follows
  <2> DEFINE id == logTabs[i].id
             target == logTabs[i].target
             all == Append(view[id].lines, [key |-> view[id].next, target |-> target])
             lines == IF Len(all) > LogLimit THEN Tail(all) ELSE all
             v == [view[id] EXCEPT !.next = @ + 1, !.lines = lines]
  <2>2. id \in LogTabs /\ target \in Target /\ view[id] \in LogView
    BY TabTyped DEF LogInv, LogTyped
  <2>3. InOrder(view[id]) /\ Shows(view[id], target)
    BY <2>2 DEF LogInv, ViewsOK
  <2>4. v \in LogView /\ InOrder(v) /\ Shows(v, target)
    <3>1. lines \in {all, Tail(all)}  OBVIOUS
    <3> HIDE DEF lines
    <3> QED  BY <2>2, <2>3, <3>1, OneMoreLine
  <2>5. view' = [view EXCEPT ![id] = v]
    <3>1. view' = [view EXCEPT ![id].next = @ + 1, ![id].lines = lines]
      BY <1>2, <2>1 DEF LineArrives
    <3> HIDE DEF lines
    <3> QED  BY <2>2, <3>1 DEF LogInv, LogTyped, LogView
  <2>6. UNCHANGED <<logTabs, opened, sheet, streams>>  BY <1>2 DEF LineArrives
  <2>7. PICK n, goal : n = id /\ goal = target  OBVIOUS
  <2>8. PICK w : w = v  OBVIOUS
  <2>9. /\ view' \in [LogTabs -> LogView] /\ view'[n] = w
        /\ \A m \in LogTabs : m # n => view'[m] = view[m]
    BY <2>2, <2>4, <2>5, <2>7, <2>8 DEF LogInv, LogTyped
  <2> HIDE DEF id, target, all, lines, v
  <2>10. ViewsOK'
    <3>1. \A m \in LogTabs : InOrder(view'[m])
      BY <2>4, <2>8, <2>9 DEF LogInv, ViewsOK
    <3>2. ASSUME NEW j \in DOMAIN logTabs PROVE Shows(view'[logTabs[j].id], logTabs[j].target)
      <4>1. logTabs[j].id \in LogTabs  BY TabTyped DEF LogInv
      <4>2. CASE logTabs[j].id = n
        <5>1. j = i  BY <2>7, <4>2 DEF LogInv, TabsDiffer, id
        <5> QED  BY <2>4, <2>8, <2>9, <5>1, <4>2 DEF target
      <4>3. CASE logTabs[j].id # n  BY <2>9, <4>1, <4>3 DEF LogInv, ViewsOK
      <4> QED  BY <4>2, <4>3
    <3> QED  BY <2>1, <2>6, <3>1, <3>2 DEF ViewsOK
  <2> QED  BY <2>6, <2>9, <2>10 DEF LogInv, LogTyped, TabsDiffer, Follows
<1> QED  BY <1>1, <1>2

\* Tabs that are opened.
LEMMA OpenStep ==
    ASSUME LogInv, NEW target \in Target, OpenLogs(target)
    PROVE  LogInv'
<1>1. CASE UNCHANGED <<logTabs, opened, streams, view>>
  BY <1>1 DEF OpenLogs, LogInv, LogTyped, TabsDiffer, ViewsOK, Follows
<1>2. CASE /\ opened < MaxLogTabs /\ opened' = opened + 1 /\ sheet
           /\ logTabs' = Append(logTabs, [id |-> opened + 1, target |-> target])
           /\ Connect(opened + 1, target)
           /\ sheet' = sheet
  <2>1. PICK n \in LogTabs : n = opened + 1
    BY <1>2, LogAssumption DEF LogInv, LogTyped, LogTabs
  <2> DEFINE tab == [id |-> n, target |-> target]
  <2>2. tab \in [id : LogTabs, target : Target] /\ tab.id = n /\ tab.target = target
    OBVIOUS
  <2> HIDE DEF tab
  <2>3. logTabs \in Seq([id : LogTabs, target : Target])  BY DEF LogInv, LogTyped
  <2>4. PICK k \in Nat : k = Len(logTabs) /\ DOMAIN logTabs = 1..k  BY <2>3
  <2>5. /\ logTabs' = Append(logTabs, tab)
        /\ logTabs' \in Seq([id : LogTabs, target : Target]) /\ DOMAIN logTabs' = 1..(k + 1)
        /\ logTabs'[k + 1] = tab /\ \A i \in 1..k : logTabs'[i] = logTabs[i]
    BY <1>2, <2>1, <2>2, <2>3, <2>4 DEF tab
  <2>6. \A i \in 1..(k + 1) : \/ i \in 1..k /\ logTabs'[i] = logTabs[i]
                              \/ i = k + 1 /\ logTabs'[i] = tab
    <3>1. \A i \in 1..(k + 1) : i \in 1..k \/ i = k + 1  BY <2>4
    <3> QED  BY <2>5, <3>1
  <2>7. \A i \in 1..k : logTabs[i].id \in LogTabs /\ logTabs[i].id # n
    <3>1. \A i \in 1..k : logTabs[i].id \in Int /\ logTabs[i].id <= opened
      BY <2>4, TabTyped DEF LogInv, TabsDiffer, LogTabs
    <3> QED  BY <2>1, <2>4, <3>1, TabTyped DEF LogInv, LogTyped
  <2>8. /\ streams' \in [Streams -> Connection]
        /\ \A c \in Streams : streams'[c].pc \in {"connecting", "open"} =>
             \/ streams'[c].tab = n /\ streams'[c].target = target
             \/ streams'[c] = streams[c]
        /\ view' = [view EXCEPT ![n] = Fresh]
    BY <1>2, <2>1, OnlyItsOwn DEF LogInv
  <2>9. /\ view' \in [LogTabs -> LogView] /\ view'[n] = Fresh
        /\ \A m \in LogTabs : m # n => view'[m] = view[m]
    BY <2>8, FreshView DEF LogInv, LogTyped
  <2>10. LogTyped'
    <3>1. opened' \in 0..MaxLogTabs  BY <1>2, LogAssumption DEF LogInv, LogTyped
    <3> QED  BY <1>2, <2>5, <2>8, <2>9, <3>1 DEF LogInv, LogTyped
  <2>11. TabsDiffer'
    <3>1. \A i \in 1..k : logTabs[i].id <= opened /\ logTabs[i].id \in Int /\ opened \in Int
      BY <2>4, <2>7 DEF LogInv, LogTyped, TabsDiffer, LogTabs
    <3>2. \A i \in 1..k : logTabs[i].id <= opened'  BY <1>2, <3>1
    <3>3. n <= opened'  BY <1>2, <2>1 DEF LogTabs
    <3>4. \A i \in 1..(k + 1) : logTabs'[i].id <= opened'  BY <2>2, <2>6, <3>2, <3>3
    <3>5. \A i, j \in 1..(k + 1) : logTabs'[i].id = logTabs'[j].id => i = j
      BY <2>2, <2>4, <2>6, <2>7 DEF LogInv, TabsDiffer
    <3> QED  BY <2>5, <3>4, <3>5 DEF TabsDiffer
  <2>12. ViewsOK'
    <3>1. \A m \in LogTabs : InOrder(view'[m])  BY <2>9, FreshView DEF LogInv, ViewsOK
    <3>2. \A i \in 1..k : Shows(view[logTabs[i].id], logTabs[i].target)
      BY <2>4 DEF LogInv, ViewsOK
    <3>3. \A i \in 1..(k + 1) : Shows(view'[logTabs'[i].id], logTabs'[i].target)
      BY <2>2, <2>6, <2>7, <2>9, <3>2, FreshView
    <3> QED  BY <1>2, <2>5, <3>1, <3>3 DEF ViewsOK
  <2>13. ASSUME NEW c \in Streams PROVE Follows(c)'
    <3>1. SUFFICES ASSUME streams'[c].pc \in {"connecting", "open"} PROVE Follows(c)'
      BY DEF Follows
    <3>2. CASE streams'[c].tab = n /\ streams'[c].target = target
      BY <1>2, <2>2, <2>4, <2>5, <3>2 DEF Follows
    <3>3. CASE streams'[c] = streams[c]
      <4>1. PICK i \in 1..k : /\ logTabs[i].id = streams[c].tab
                              /\ logTabs[i].target = streams[c].target
        BY <2>4, <3>1, <3>3 DEF LogInv, Follows
      <4>2. i \in 1..(k + 1)  BY <2>4
      <4> QED  BY <1>2, <2>5, <3>3, <4>1, <4>2 DEF Follows
    <3> QED  BY <2>8, <3>1, <3>2, <3>3
  <2> QED  BY <2>10, <2>11, <2>12, <2>13 DEF LogInv
<1> QED  BY <1>1, <1>2 DEF OpenLogs

\* A tab's target changes.
LEMMA RetargetStep ==
    ASSUME LogInv, NEW i \in LogTabs, NEW target \in Target, Retarget(i, target)
    PROVE  LogInv'
<1>1. /\ sheet /\ i \in DOMAIN logTabs
      /\ logTabs' = [logTabs EXCEPT ![i].target = target]
      /\ \/ target = logTabs[i].target /\ UNCHANGED <<streams, view>>
         \/ Connect(logTabs[i].id, target)
      /\ UNCHANGED <<opened, sheet>>
  BY DEF Retarget
<1> DEFINE Tab == [id : LogTabs, target : Target]
<1>2. PICK n \in LogTabs : n = logTabs[i].id  BY <1>1, TabTyped DEF LogInv
<1>3. PICK tab \in Tab : tab = [logTabs[i] EXCEPT !.target = target]
                         /\ tab.id = n /\ tab.target = target
  <2>1. logTabs[i] \in Tab
    <3>1. logTabs \in Seq(Tab)  BY DEF LogInv, LogTyped
    <3> HIDE DEF Tab
    <3> QED  BY <1>1, <3>1
  <2>2. [logTabs[i] EXCEPT !.target = target] \in Tab
    BY <2>1
  <2>3. /\ [logTabs[i] EXCEPT !.target = target].id = logTabs[i].id
        /\ [logTabs[i] EXCEPT !.target = target].target = target
    BY <2>1
  <2> HIDE DEF Tab
  <2> QED  BY <1>2, <2>2, <2>3
<1>4. /\ logTabs' \in Seq(Tab) /\ DOMAIN logTabs' = DOMAIN logTabs /\ logTabs'[i] = tab
      /\ \A j \in DOMAIN logTabs : j # i => logTabs'[j] = logTabs[j]
  <2>1. logTabs \in Seq(Tab)  BY DEF LogInv, LogTyped
  <2>2. logTabs' = [logTabs EXCEPT ![i] = tab]  BY <1>1, <1>3
  <2> HIDE DEF Tab
  <2> QED  BY <1>1, <2>1, <2>2
<1>5. \A j \in DOMAIN logTabs : /\ logTabs[j].id \in LogTabs /\ logTabs'[j].id = logTabs[j].id
                                /\ j # i => logTabs[j].id # n
  BY <1>1, <1>2, <1>3, <1>4, TabTyped DEF LogInv, TabsDiffer
<1> HIDE DEF Tab
<1>6. /\ streams' \in [Streams -> Connection]
      /\ \A c \in Streams : streams'[c].pc \in {"connecting", "open"} =>
           \/ streams'[c].tab = n /\ streams'[c].target = target
           \/ streams'[c] = streams[c] /\ (streams[c].tab # n \/ target = logTabs[i].target)
      /\ \/ view' = view /\ target = logTabs[i].target
         \/ view' = [view EXCEPT ![n] = Fresh]
  BY <1>1, <1>2, OnlyItsOwn DEF LogInv, LogTyped
<1>7. LogTyped'
  BY <1>1, <1>4, <1>6, FreshView DEF LogInv, LogTyped, Tab
<1>8. TabsDiffer'  BY <1>1, <1>4, <1>5 DEF LogInv, TabsDiffer
<1>9. ViewsOK'
  <2>1. CASE view' = view /\ target = logTabs[i].target
    BY <1>1, <1>2, <1>3, <1>4, <1>5, <2>1 DEF LogInv, ViewsOK
  <2>2. CASE view' = [view EXCEPT ![n] = Fresh]
    <3>1. view'[n] = Fresh /\ \A m \in LogTabs : m # n => view'[m] = view[m]
      BY <2>2 DEF LogInv, LogTyped
    <3>2. \A m \in LogTabs : InOrder(view'[m])  BY <3>1, FreshView DEF LogInv, ViewsOK
    <3>3. ASSUME NEW j \in DOMAIN logTabs PROVE Shows(view'[logTabs'[j].id], logTabs'[j].target)
      <4>1. CASE j = i  BY <1>2, <1>3, <1>4, <3>1, <4>1, FreshView
      <4>2. CASE j # i  BY <1>4, <1>5, <3>1, <4>2 DEF LogInv, ViewsOK
      <4> QED  BY <4>1, <4>2
    <3> QED  BY <1>1, <1>4, <3>2, <3>3 DEF ViewsOK
  <2> QED  BY <1>6, <2>1, <2>2
<1>10. ASSUME NEW c \in Streams PROVE Follows(c)'
  <2>1. SUFFICES ASSUME streams'[c].pc \in {"connecting", "open"} PROVE Follows(c)'
    BY DEF Follows
  <2>2. CASE streams'[c].tab = n /\ streams'[c].target = target
    BY <1>1, <1>3, <1>4, <2>2 DEF Follows
  <2>3. CASE streams'[c] = streams[c] /\ (streams[c].tab # n \/ target = logTabs[i].target)
    <3>1. PICK j \in DOMAIN logTabs : /\ logTabs[j].id = streams[c].tab
                                      /\ logTabs[j].target = streams[c].target
      BY <2>1, <2>3 DEF LogInv, Follows
    <3>2. logTabs'[j].id = logTabs[j].id /\ logTabs'[j].target = logTabs[j].target
      BY <1>2, <1>3, <1>4, <1>5, <2>3, <3>1
    <3> QED  BY <1>1, <1>4, <2>3, <3>1, <3>2 DEF Follows
  <2> QED  BY <1>6, <2>1, <2>2, <2>3
<1> QED  BY <1>7, <1>8, <1>9, <1>10 DEF LogInv

LEMMA RemoveAtProperties ==
    ASSUME NEW S, NEW s \in Seq(S), NEW i \in 1..Len(s)
    PROVE  /\ RemoveAt(s, i) \in Seq(S) /\ DOMAIN RemoveAt(s, i) = 1..(Len(s) - 1)
           /\ \A j \in 1..(Len(s) - 1) :
                RemoveAt(s, i)[j] = IF j < i THEN s[j] ELSE s[j + 1]
<1>1. PICK n \in Nat : n = Len(s) /\ i \in 1..n /\ i \in Int /\ \A j \in 1..n : s[j] \in S
  OBVIOUS
<1> DEFINE before == SubSeq(s, 1, i - 1)
           after == SubSeq(s, i + 1, n)
<1>2. /\ before \in Seq(S) /\ Len(before) = i - 1
      /\ \A j \in 1..(i - 1) : before[j] = s[j]
  <2>1. \A j \in 1..(i - 1) : s[j] \in S  BY <1>1
  <2>2. /\ before \in Seq(S) /\ Len(before) = IF 1 <= i - 1 THEN (i - 1) - 1 + 1 ELSE 0
        /\ \A j \in 1..((i - 1) - 1 + 1) : before[j] = s[1 + j - 1]
    BY <1>1, <2>1, SubSeqProperties
  <2> HIDE DEF before
  <2> QED  BY <1>1, <2>2
<1>3. /\ after \in Seq(S) /\ Len(after) = n - i
      /\ \A j \in 1..(n - i) : after[j] = s[i + j]
  <2>1. \A j \in (i + 1)..n : s[j] \in S  BY <1>1
  <2>2. /\ after \in Seq(S) /\ Len(after) = IF i + 1 <= n THEN n - (i + 1) + 1 ELSE 0
        /\ \A j \in 1..(n - (i + 1) + 1) : after[j] = s[(i + 1) + j - 1]
    BY <1>1, <2>1, SubSeqProperties
  <2> HIDE DEF after
  <2>3. n - (i + 1) + 1 = n - i /\ (IF i + 1 <= n THEN n - i ELSE 0) = n - i
    BY <1>1
  <2>4. \A j \in 1..(n - i) : (i + 1) + j - 1 = i + j  BY <1>1
  <2> QED  BY <2>2, <2>3, <2>4
<1>4. RemoveAt(s, i) = before \o after  BY <1>1 DEF RemoveAt
<1> HIDE DEF before, after
<1>5. /\ RemoveAt(s, i) \in Seq(S) /\ Len(RemoveAt(s, i)) = (i - 1) + (n - i)
      /\ \A j \in 1..((i - 1) + (n - i)) :
           RemoveAt(s, i)[j] = IF j <= i - 1 THEN before[j] ELSE after[j - (i - 1)]
  <2>1. /\ before \o after \in Seq(S) /\ Len(before \o after) = Len(before) + Len(after)
        /\ \A j \in 1..(Len(before) + Len(after)) : (before \o after)[j] =
             IF j <= Len(before) THEN before[j] ELSE after[j - Len(before)]
    BY <1>2, <1>3, ConcatProperties
  <2> QED  BY <1>2, <1>3, <1>4, <2>1
<1>6. (i - 1) + (n - i) = n - 1  BY <1>1
<1>7. ASSUME NEW j \in 1..(n - 1)
      PROVE  RemoveAt(s, i)[j] = IF j < i THEN s[j] ELSE s[j + 1]
  <2>1. CASE j < i
    <3>1. j \in 1..(i - 1) /\ j <= i - 1  BY <1>1, <2>1
    <3> QED  BY <1>2, <1>5, <1>6, <2>1, <3>1
  <2>2. CASE ~(j < i)
    <3>1. j - (i - 1) \in 1..(n - i) /\ i + (j - (i - 1)) = j + 1 /\ ~(j <= i - 1)
      BY <1>1, <2>2
    <3> QED  BY <1>3, <1>5, <1>6, <2>2, <3>1
  <2> QED  BY <2>1, <2>2
<1>8. DOMAIN RemoveAt(s, i) = 1..(n - 1)  BY <1>5, <1>6
<1> QED  BY <1>1, <1>5, <1>7, <1>8

\* Tabs that are closed.
LEMMA CloseStep ==
    ASSUME LogInv, NEW id \in LogTabs, CloseTab(id)
    PROVE  LogInv'
<1>1. PICK i \in DOMAIN logTabs : logTabs[i].id = id /\ logTabs' = RemoveAt(logTabs, i)
  BY DEF CloseTab
<1>2. /\ sheet /\ UNCHANGED <<opened, sheet>>
      /\ streams' = Disconnected({id}) /\ view' = [view EXCEPT ![id] = Fresh]
  BY DEF CloseTab
<1> DEFINE Tab == [id : LogTabs, target : Target]
<1>3. logTabs \in Seq(Tab)  BY DEF LogInv, LogTyped
<1> HIDE DEF Tab
<1>4. PICK k \in Nat : k = Len(logTabs) /\ DOMAIN logTabs = 1..k /\ i \in 1..k
  BY <1>1, <1>3
<1>5. /\ logTabs' \in Seq(Tab) /\ DOMAIN logTabs' = 1..(k - 1)
      /\ \A j \in 1..(k - 1) : logTabs'[j] = IF j < i THEN logTabs[j] ELSE logTabs[j + 1]
  <2>1. RemoveAt(logTabs, i) = logTabs' /\ i \in 1..Len(logTabs)  BY <1>1, <1>4
  <2> QED  BY <1>3, <1>4, <2>1, RemoveAtProperties
<1>6. \A j \in 1..(k - 1) : \E l \in 1..k :
          l # i /\ logTabs'[j] = logTabs[l] /\ (l = j \/ l = j + 1) /\ (l = j <=> j < i)
  BY <1>4, <1>5
<1>7. \A l \in 1..k : l # i => \E j \in 1..(k - 1) : logTabs'[j] = logTabs[l]
  <2> SUFFICES ASSUME NEW l \in 1..k, l # i PROVE \E j \in 1..(k - 1) : logTabs'[j] = logTabs[l]
    OBVIOUS
  <2>1. CASE l < i  BY <1>4, <1>5, <2>1
  <2>2. CASE l > i
    <3>1. l - 1 \in 1..(k - 1) /\ ~(l - 1 < i) /\ (l - 1) + 1 = l  BY <1>4, <2>2
    <3> QED  BY <1>5, <3>1
  <2> QED  BY <1>4, <2>1, <2>2
<1>8. /\ streams' \in [Streams -> Connection]
      /\ \A c \in Streams : streams'[c].pc \in {"connecting", "open"} =>
            streams'[c] = streams[c] /\ streams[c].tab # id
  BY <1>2, OthersStay DEF LogInv
<1>9. /\ view' \in [LogTabs -> LogView] /\ view'[id] = Fresh
      /\ \A m \in LogTabs : m # id => view'[m] = view[m]
  BY <1>2, FreshView DEF LogInv, LogTyped
<1>10. LogTyped'  BY <1>2, <1>5, <1>8, <1>9 DEF LogInv, LogTyped, Tab
<1>11. \A l \in 1..k : l # i => logTabs[l].id # id /\ logTabs[l].id \in LogTabs
  BY <1>1, <1>4, TabTyped DEF LogInv, TabsDiffer
<1>12. TabsDiffer'
  <2>1. \A j \in 1..(k - 1) : logTabs'[j].id <= opened'
    BY <1>2, <1>4, <1>6 DEF LogInv, TabsDiffer
  <2>2. ASSUME NEW j \in 1..(k - 1), NEW m \in 1..(k - 1), logTabs'[j].id = logTabs'[m].id
        PROVE  j = m
    <3>1. PICK a \in 1..k : /\ logTabs'[j] = logTabs[a] /\ a \in {j, j + 1} /\ (a = j <=> j < i)
      BY <1>6
    <3>2. PICK b \in 1..k : /\ logTabs'[m] = logTabs[b] /\ b \in {m, m + 1} /\ (b = m <=> m < i)
      BY <1>6
    <3>3. a = b  BY <1>4, <2>2, <3>1, <3>2 DEF LogInv, TabsDiffer
    <3> QED  BY <1>4, <3>1, <3>2, <3>3
  <2> QED  BY <1>5, <2>1, <2>2 DEF TabsDiffer
<1>13. ViewsOK'
  <2>1. \A m \in LogTabs : InOrder(view'[m])  BY <1>9, FreshView DEF LogInv, ViewsOK
  <2>2. \A l \in 1..k : l # i => Shows(view'[logTabs[l].id], logTabs[l].target)
    BY <1>4, <1>9, <1>11 DEF LogInv, ViewsOK
  <2>3. \A j \in 1..(k - 1) : Shows(view'[logTabs'[j].id], logTabs'[j].target)
    BY <1>6, <2>2
  <2> QED  BY <1>2, <1>5, <2>1, <2>3 DEF ViewsOK
<1>14. ASSUME NEW c \in Streams PROVE Follows(c)'
  <2>1. SUFFICES ASSUME streams'[c].pc \in {"connecting", "open"} PROVE Follows(c)'
    BY DEF Follows
  <2>2. PICK l \in 1..k : logTabs[l].id = streams[c].tab /\ logTabs[l].target = streams[c].target
    BY <1>4, <1>8, <2>1 DEF LogInv, Follows
  <2>3. l # i  BY <1>1, <1>8, <2>1, <2>2
  <2>4. PICK j \in 1..(k - 1) : logTabs'[j] = logTabs[l]  BY <1>7, <2>3
  <2> QED  BY <1>2, <1>5, <1>8, <2>1, <2>2, <2>4 DEF Follows
<1> QED  BY <1>10, <1>12, <1>13, <1>14 DEF LogInv

\* The page is left, or all its tabs are closed: nothing is shown, and no
\* connection is left that could bring something.
LEMMA LeaveStep ==
    ASSUME LogInv, LeaveApp \/ CloseAll
    PROVE  LogInv'
<1>1. /\ streams' = Disconnected(TabIds) /\ view' = [id \in LogTabs |-> Fresh]
      /\ opened' = opened /\ sheet' \in BOOLEAN
      /\ \/ logTabs' = logTabs
         \/ logTabs' = <<>>
  BY DEF LeaveApp, CloseAll, LogInv, LogTyped
<1>2. streams' \in [Streams -> Connection]  BY <1>1, OthersStay DEF LogInv
<1>3. LogTyped'
  <2>1. logTabs' \in Seq([id : LogTabs, target : Target])
    <3>1. <<>> \in Seq([id : LogTabs, target : Target])  OBVIOUS
    <3> QED  BY <1>1, <3>1 DEF LogInv, LogTyped
  <2> QED  BY <1>1, <1>2, <2>1, FreshView DEF LogInv, LogTyped
<1>4. TabsDiffer'
  <2>1. CASE logTabs' = logTabs  BY <1>1, <2>1 DEF LogInv, TabsDiffer
  <2>2. CASE logTabs' = <<>>  BY <2>2 DEF TabsDiffer
  <2> QED  BY <1>1, <2>1, <2>2
<1>5. ViewsOK'
  <2>1. \A id \in LogTabs : view'[id] = Fresh  BY <1>1
  <2>2. \A i \in DOMAIN logTabs' : logTabs'[i].id \in LogTabs
    BY <1>1, TabTyped DEF LogInv
  <2> QED  BY <2>1, <2>2, FreshView DEF ViewsOK
<1>6. ASSUME NEW c \in Streams PROVE streams'[c].pc \notin {"connecting", "open"}
  <2>1. streams[c].pc \in {"connecting", "open"} => streams[c].tab \in TabIds
    BY DEF LogInv, Follows, TabIds
  <2> QED  BY <1>1, <2>1, OthersStay DEF LogInv
<1> QED  BY <1>3, <1>4, <1>5, <1>6 DEF LogInv, Follows

\* The page is shown again: its tabs connect afresh.
LEMMA ReturnStep ==
    ASSUME LogInv, ReturnToApp
    PROVE  LogInv'
<1>1. ~sheet /\ sheet' = TRUE /\ UNCHANGED <<logTabs, opened, view>>
  BY DEF ReturnToApp
<1>2. ASSUME NEW i \in DOMAIN logTabs
      PROVE  [pc |-> "connecting", tab |-> logTabs[i].id, target |-> logTabs[i].target]
               \in Connection
  BY TabTyped DEF LogInv, Connection
<1>3. streams' \in [Streams -> Connection]
      /\ \A c \in Streams : \/ streams'[c] = streams[c]
                            \/ \E i \in DOMAIN logTabs : /\ streams'[c].tab = logTabs[i].id
                                                         /\ streams'[c].target = logTabs[i].target
  <2> DEFINE free == SetToSortSeq(Unused, <)
             of(c) == CHOOSE i \in DOMAIN logTabs : free[i] = c
             made(i) == [pc |-> "connecting", tab |-> logTabs[i].id,
                         target |-> logTabs[i].target]
  <2>1. streams' = [c \in Streams |->
          IF \E i \in DOMAIN logTabs : free[i] = c THEN made(of(c)) ELSE streams[c]]
    BY DEF ReturnToApp
  <2>2. ASSUME NEW c \in Streams, \E i \in DOMAIN logTabs : free[i] = c
        PROVE  of(c) \in DOMAIN logTabs
    BY <2>2
  <2>3. \A i \in DOMAIN logTabs : made(i) \in Connection
    BY <1>2
  <2>4. \A i : made(i).tab = logTabs[i].id /\ made(i).target = logTabs[i].target
    OBVIOUS
  <2> HIDE DEF free, of, made
  <2> QED  BY <2>1, <2>2, <2>3, <2>4 DEF LogInv, LogTyped
<1>4. ASSUME NEW c \in Streams PROVE Follows(c)'
  BY <1>1, <1>3 DEF LogInv, Follows
<1>5. ViewsOK'  BY <1>1 DEF LogInv, ViewsOK
<1> QED  BY <1>1, <1>3, <1>4, <1>5 DEF LogInv, LogTyped, TabsDiffer

LEMMA ViewStep ==
    ASSUME LogInv, NEW id \in LogTabs, SetActiveTab(id) \/ Clear(id)
    PROVE  LogInv'
<1>1. UNCHANGED <<logTabs, opened, sheet, streams>>  BY DEF SetActiveTab, Clear
<1>2. CASE SetActiveTab(id)
  BY <1>1, <1>2 DEF SetActiveTab, LogInv, LogTyped, TabsDiffer, ViewsOK, Follows
<1>3. CASE Clear(id)
  <2>1. PICK v : v = [view[id] EXCEPT !.lines = <<>>]  OBVIOUS
  <2>2. v \in LogView /\ v.lines = <<>>
    <3>1. view[id] \in LogView /\ <<>> \in Seq(LogLine)  BY DEF LogInv, LogTyped
    <3> QED  BY <2>1, <3>1 DEF LogView
  <2>3. InOrder(v) /\ \A target : Shows(v, target)  BY <2>2 DEF InOrder, Shows
  <2>4. /\ view' \in [LogTabs -> LogView] /\ view'[id] = v
        /\ \A m \in LogTabs : m # id => view'[m] = view[m]
    <3>1. view' = [view EXCEPT ![id] = v]  BY <1>3, <2>1 DEF Clear, LogInv, LogTyped
    <3> QED  BY <2>2, <3>1 DEF LogInv, LogTyped
  <2>5. sheet  BY <1>3 DEF Clear, Shown
  <2>6. \A i \in DOMAIN logTabs : logTabs[i].id \in LogTabs  BY TabTyped DEF LogInv
  <2>7. ViewsOK'  BY <1>1, <2>3, <2>4, <2>5, <2>6 DEF LogInv, ViewsOK
  <2> QED  BY <1>1, <2>4, <2>7 DEF LogInv, LogTyped, TabsDiffer, Follows
<1> QED  BY <1>2, <1>3

LEMMA LogInvInductive == LogInv /\ [LogNext]_logVars => LogInv'
<1>1. SUFFICES ASSUME LogInv, [LogNext]_logVars PROVE LogInv'
  OBVIOUS
<1>2. CASE UNCHANGED logVars
  BY <1>1, <1>2 DEF logVars, LogInv, LogTyped, TabsDiffer, ViewsOK, Follows
<1>3. CASE LogNext
  BY <1>1, <1>3, StreamStep, OpenStep, CloseStep, ViewStep, RetargetStep, LeaveStep, ReturnStep
     DEF LogNext
<1> QED  BY <1>1, <1>2, <1>3

(* A log tab shows lines of the container it is pointed at, each once and  *)
(* in order, for any tabs, targets and connections: the cleanup of the     *)
(* effect closes the connection to the container before, and the view      *)
(* starts afresh (useContainerLogs.ts).                                    *)
THEOREM TabsShowTheirTarget == Spec => []LinesOfTarget
<1>1. Init => LogInv  BY InitialLogs DEF Init
<1>2. LogInv /\ [Next]_vars => LogInv'
  <2>1. [Next]_vars => [LogNext]_logVars
    BY DEF Next, vars, FormStep, SessionStep, ImportStep, LogStep
  <2> QED  BY <2>1, LogInvInductive
<1>3. LogInv => LinesOfTarget
  BY TabTyped DEF LogInv, ViewsOK, InOrder, Shows, LinesOfTarget
<1> QED  BY <1>1, <1>2, <1>3, PTL DEF Spec
-----------------------------------------------------------------------------
(* The types of the logs, with the bounds, and the theorem.                *)

\* There is a tab that is shown, if there is one at all.
Active == IF logTabs = <<>> THEN activeTab = NoTab ELSE activeTab \in TabIds

Named ==
    \A c \in Streams : streams[c].pc # "unused" =>
        streams[c].tab \in LogTabs /\ streams[c].target \in Target

Limited(v) == v.next <= MaxLines /\ Len(v.lines) <= LogLimit

LogBounded == LogInv /\ Active /\ Named /\ \A id \in LogTabs : Limited(view[id])

LEMMA FreshLimited == Limited(Fresh)
BY LogAssumption DEF Limited, Fresh

\* The tab that is shown is among those that are left, or opened.
LEMMA ActiveStep ==
    ASSUME LogInv, Active, LogNext
    PROVE  Active'
<1>0. logTabs \in Seq([id : LogTabs, target : Target])  BY DEF LogInv, LogTyped
<1>1. CASE UNCHANGED <<logTabs, activeTab>>  BY <1>1 DEF Active, TabIds
<1>2. ASSUME NEW target \in Target, OpenLogs(target) PROVE Active'
  <2>1. CASE \E i \in DOMAIN logTabs : activeTab' = logTabs[i].id /\ logTabs' = logTabs
    <3>1. logTabs # <<>>  BY <2>1
    <3> QED  BY <2>1, <3>1 DEF Active, TabIds
  <2>2. CASE /\ logTabs' = Append(logTabs, [id |-> opened + 1, target |-> target])
             /\ activeTab' = opened + 1
    <3> DEFINE tab == [id |-> opened + 1, target |-> target]
    <3>1. PICK n \in Nat : n = Len(logTabs)  BY <1>0
    <3>2. n + 1 \in DOMAIN logTabs' /\ logTabs'[n + 1] = tab /\ logTabs' # <<>>
      <4> HIDE DEF tab
      <4>1. logTabs' = Append(logTabs, tab)  BY <2>2 DEF tab
      <4>2. PICK S : logTabs \in Seq(S)  BY <1>0
      <4>3. logTabs \in Seq(S \union {tab})  BY <4>2
      <4>4. /\ logTabs' # <<>> /\ logTabs' \in Seq(S \union {tab})
            /\ Len(logTabs') = n + 1 /\ logTabs'[n + 1] = tab
        BY <3>1, <4>1, <4>3, AppendProperties
      <4>5. DOMAIN logTabs' = 1..(n + 1)
        <5> DEFINE T == S \union {tab}
        <5>1. logTabs' \in Seq(T) /\ Len(logTabs') = n + 1  BY <4>4
        <5> HIDE DEF T
        <5> QED  BY <5>1
      <4>6. n + 1 \in 1..(n + 1)  BY <3>1
      <4> QED  BY <4>4, <4>5, <4>6
    <3>3. PICK m \in DOMAIN logTabs' : activeTab' = logTabs'[m].id  BY <2>2, <3>2
    <3> QED  BY <3>2, <3>3 DEF Active, TabIds
  <2> QED  BY <1>2, <2>1, <2>2 DEF OpenLogs
<1>3. ASSUME NEW id \in LogTabs, CloseTab(id) PROVE Active'
  <2>1. PICK i \in DOMAIN logTabs :
          /\ logTabs[i].id = id /\ logTabs' = RemoveAt(logTabs, i)
          /\ activeTab' = IF activeTab # id THEN activeTab
                          ELSE IF logTabs' = <<>> THEN NoTab ELSE Last(logTabs').id
    BY <1>3 DEF CloseTab
  <2>2. PICK k \in Nat : k = Len(logTabs) /\ DOMAIN logTabs = 1..k /\ i \in 1..k
    BY <1>0, <2>1
  <2>3. /\ logTabs' \in Seq([id : LogTabs, target : Target]) /\ DOMAIN logTabs' = 1..(k - 1)
        /\ \A j \in 1..(k - 1) : logTabs'[j] = IF j < i THEN logTabs[j] ELSE logTabs[j + 1]
    BY <1>0, <2>1, <2>2, RemoveAtProperties
  <2>4. CASE activeTab # id
    <3>1. PICK l \in 1..k : logTabs[l].id = activeTab
      <4>1. logTabs # <<>>  BY <2>1
      <4> QED  BY <2>2, <4>1 DEF Active, TabIds
    <3>2. PICK j \in 1..(k - 1) : logTabs'[j] = logTabs[l]
      <4>1. CASE l < i  BY <2>2, <2>3, <4>1
      <4>2. CASE l > i
        <5>1. l - 1 \in 1..(k - 1) /\ ~(l - 1 < i) /\ (l - 1) + 1 = l  BY <2>2, <4>2
        <5> QED  BY <2>3, <5>1
      <4>3. l # i  BY <2>1, <2>4, <3>1
      <4> QED  BY <2>2, <4>1, <4>2, <4>3
    <3>3. logTabs' # <<>> /\ j \in DOMAIN logTabs'  BY <2>3
    <3> QED  BY <2>1, <2>4, <3>1, <3>2, <3>3 DEF Active, TabIds
  <2>5. CASE activeTab = id /\ logTabs' # <<>>
    <3>1. Len(logTabs') \in DOMAIN logTabs'  BY <2>3, <2>5
    <3> QED  BY <2>1, <2>5, <3>1 DEF Active, TabIds, Last
  <2>6. CASE activeTab = id /\ logTabs' = <<>>  BY <2>1, <2>6 DEF Active
  <2> QED  BY <2>4, <2>5, <2>6
<1>4. CASE CloseAll  BY <1>4 DEF CloseAll, Active
<1>5. ASSUME NEW id, SetActiveTab(id) PROVE Active'
  <2>1. logTabs' = logTabs /\ activeTab' = id /\ id \in TabIds
    BY <1>5 DEF SetActiveTab, Shown
  <2> QED  BY <2>1 DEF Active, TabIds
<1>6. ASSUME NEW i \in LogTabs, NEW target \in Target, Retarget(i, target) PROVE Active'
  <2>1. /\ i \in DOMAIN logTabs /\ logTabs[i].id = activeTab /\ activeTab' = activeTab
        /\ logTabs' = [logTabs EXCEPT ![i].target = target]
    BY <1>6 DEF Retarget
  <2>2. logTabs[i] \in [id : LogTabs, target : Target]
    <3> DEFINE Tab == [id : LogTabs, target : Target]
    <3>1. logTabs \in Seq(Tab)  BY <1>0
    <3> HIDE DEF Tab
    <3>2. logTabs[i] \in Tab  BY <2>1, <3>1
    <3> QED  BY <3>2 DEF Tab
  <2>3. DOMAIN logTabs' = DOMAIN logTabs /\ logTabs'[i].id = logTabs[i].id
    BY <1>0, <2>1, <2>2
  <2>4. logTabs' # <<>>  BY <2>1, <2>3
  <2> QED  BY <2>1, <2>3, <2>4 DEF Active, TabIds
<1> QED
  BY <1>1, <1>2, <1>3, <1>4, <1>5, <1>6
  DEF LogNext, StreamOpens, StreamEnds, LineArrives, Clear, LeaveApp, ReturnToApp
\* A connection that is there has a tab and a target.
LEMMA NamedStep ==
    ASSUME LogInv, Named, LogNext
    PROVE  Named'
<1>0. streams \in [Streams -> Connection]  BY DEF LogInv, LogTyped
<1>1. ASSUME NEW ids PROVE
        \A c \in Streams : Disconnected(ids)[c].pc # "unused" =>
            Disconnected(ids)[c].tab \in LogTabs /\ Disconnected(ids)[c].target \in Target
  <2>1. ASSUME NEW c \in Streams
        PROVE  /\ Disconnected(ids)[c].pc # "unused" => streams[c].pc # "unused"
               /\ Disconnected(ids)[c].tab = streams[c].tab
               /\ Disconnected(ids)[c].target = streams[c].target
    <3>1. streams[c] \in Connection  BY <1>0
    <3>2. /\ [streams[c] EXCEPT !.pc = "closing"].tab = streams[c].tab
          /\ [streams[c] EXCEPT !.pc = "closing"].target = streams[c].target
      BY <3>1 DEF Connection
    <3> QED  BY <3>2 DEF Disconnected
  <2> QED  BY <2>1 DEF Named
<1>2. ASSUME NEW ids, streams' = Disconnected(ids) PROVE Named'
  BY <1>1, <1>2 DEF Named
<1>3. ASSUME NEW id \in LogTabs, NEW target \in Target, Connect(id, target) PROVE Named'
  <2> DEFINE made == [pc |-> "connecting", tab |-> id, target |-> target]
             kept == Disconnected({id})
  <2>1. PICK u : streams' = [kept EXCEPT ![u] = made]  BY <1>3 DEF Connect
  <2>2. made.tab \in LogTabs /\ made.target \in Target  OBVIOUS
  <2>3. DOMAIN kept = Streams  BY DEF Disconnected
  <2>4. \A c \in Streams : kept[c].pc # "unused" => kept[c].tab \in LogTabs
                                                    /\ kept[c].target \in Target
    BY <1>1
  <2> HIDE DEF made, kept
  <2>5. \A c \in Streams : streams'[c] = made \/ streams'[c] = kept[c]  BY <2>1, <2>3
  <2> QED  BY <2>2, <2>4, <2>5 DEF Named
<1>4. CASE UNCHANGED streams  BY <1>4 DEF Named
<1>5. ASSUME NEW c \in Streams, StreamOpens(c) \/ StreamEnds(c) PROVE Named'
  <2>1. CASE StreamOpens(c)
    <3>1. streams' = [streams EXCEPT ![c].pc = "open"] /\ streams[c].pc = "connecting"
      BY <2>1 DEF StreamOpens
    <3>2. \A d \in Streams : /\ streams'[d].tab = streams[d].tab
                             /\ streams'[d].target = streams[d].target
                             /\ streams'[d].pc # "unused" => streams[d].pc # "unused"
      BY <1>0, <3>1 DEF Connection
    <3> QED  BY <3>2 DEF Named
  <2>2. CASE StreamEnds(c)  BY <1>0, <2>2 DEF StreamEnds, NoStream, Named
  <2> QED  BY <1>5, <2>1, <2>2
<1>6. ASSUME NEW target \in Target, OpenLogs(target) PROVE Named'
  <2>1. CASE opened < MaxLogTabs /\ Connect(opened + 1, target)
    <3>1. opened + 1 \in LogTabs
      BY <2>1, LogAssumption DEF LogInv, LogTyped, LogTabs
    <3> QED  BY <1>3, <2>1, <3>1
  <2> QED  BY <1>4, <1>6, <2>1 DEF OpenLogs
<1>7. ASSUME NEW i \in LogTabs, NEW target \in Target, Retarget(i, target) PROVE Named'
  <2>1. logTabs[i].id \in LogTabs  BY <1>7, TabTyped DEF Retarget, LogInv
  <2> QED  BY <1>3, <1>4, <1>7, <2>1 DEF Retarget
<1>8. CASE ReturnToApp
  <2> DEFINE free == SetToSortSeq(Unused, <)
             of(c) == CHOOSE i \in DOMAIN logTabs : free[i] = c
             made(i) == [pc |-> "connecting", tab |-> logTabs[i].id,
                         target |-> logTabs[i].target]
  <2>1. streams' = [c \in Streams |->
          IF \E i \in DOMAIN logTabs : free[i] = c THEN made(of(c)) ELSE streams[c]]
    BY <1>8 DEF ReturnToApp
  <2>2. \A c \in Streams : (\E i \in DOMAIN logTabs : free[i] = c) => of(c) \in DOMAIN logTabs
    OBVIOUS
  <2>3. \A i \in DOMAIN logTabs : made(i).tab \in LogTabs /\ made(i).target \in Target
    BY TabTyped DEF LogInv
  <2> HIDE DEF free, of, made
  <2> QED  BY <2>1, <2>2, <2>3 DEF Named
<1> QED
  BY <1>2, <1>4, <1>5, <1>6, <1>7, <1>8
  DEF LogNext, LineArrives, CloseTab, CloseAll, SetActiveTab, Clear, LeaveApp

\* A view keeps the last lines of those that came.
LEMMA LimitedStep ==
    ASSUME LogInv, \A id \in LogTabs : Limited(view[id]), LogNext
    PROVE  (\A id \in LogTabs : Limited(view[id]))'
<1>1. CASE UNCHANGED view  BY <1>1
<1>2. ASSUME NEW id, view' = [view EXCEPT ![id] = Fresh]
      PROVE  (\A n \in LogTabs : Limited(view[n]))'
  BY <1>2, FreshLimited DEF LogInv, LogTyped
<1>3. CASE view' = [id \in LogTabs |-> Fresh]  BY <1>3, FreshLimited
<1>4. ASSUME NEW c \in Streams, LineArrives(c)
      PROVE  (\A n \in LogTabs : Limited(view[n]))'
  <2>1. PICK id \in LogTabs : id = streams[c].tab
    BY <1>4, TabTyped DEF LineArrives, Shown, TabIds, LogInv
  <2> DEFINE line == [key |-> view[id].next, target |-> streams[c].target]
             all == Append(view[id].lines, line)
             lines == IF Len(all) > LogLimit THEN Tail(all) ELSE all
  <2>2. view[id].next < MaxLines
        /\ view' = [view EXCEPT ![id].next = @ + 1, ![id].lines = lines]
    BY <1>4, <2>1 DEF LineArrives
  <2>3. view[id].next \in Nat /\ view[id].lines \in Seq(LogLine) /\ Limited(view[id])
    BY DEF LogInv, LogTyped, LogView
  <2>4. Len(lines) <= LogLimit
    <3>1. PICK n \in Nat : n = Len(view[id].lines)  BY <2>3
    <3>2. n <= LogLimit  BY <2>3, <3>1 DEF Limited
    <3>3. Len(all) = n + 1 /\ Len(Tail(all)) = n
      <4> HIDE DEF line
      <4>1. Len(all) = n + 1 /\ all # <<>> /\ all \in Seq(LogLine \cup {line})
        <5>1. view[id].lines \in Seq(LogLine \cup {line})  BY <2>3
        <5> QED  BY <3>1, <5>1, AppendProperties
      <4> HIDE DEF all
      <4> QED  BY <4>1, HeadTailProperties
    <3> HIDE DEF all
    <3> QED  BY <3>2, <3>3, LogAssumption
  <2> HIDE DEF lines
  <2>5. \A m \in LogTabs : \/ view'[m] = view[m]
                           \/ m = id /\ view'[m].next = view[id].next + 1
                              /\ view'[m].lines = lines
    BY <2>2 DEF LogInv, LogTyped, LogView
  <2>6. view[id].next + 1 <= MaxLines  BY <2>2, <2>3, LogAssumption
  <2> QED  BY <2>4, <2>5, <2>6 DEF Limited
<1>5. ASSUME NEW id \in LogTabs, Clear(id)
      PROVE  (\A n \in LogTabs : Limited(view[n]))'
  <2>1. \A m \in LogTabs : /\ view'[m].next = view[m].next
                           /\ view'[m] = view[m] \/ view'[m].lines = <<>>
    BY <1>5 DEF Clear, LogInv, LogTyped, LogView
  <2>2. Len(<<>>) <= LogLimit  BY LogAssumption
  <2> QED  BY <2>1, <2>2 DEF Limited
<1> QED
  BY <1>1, <1>2, <1>3, <1>4, <1>5
  DEF LogNext, StreamOpens, StreamEnds, OpenLogs, CloseTab, CloseAll, SetActiveTab, Retarget,
      LeaveApp, ReturnToApp, Connect

LEMMA LogBoundedInductive == LogBounded /\ [LogNext]_logVars => LogBounded'
<1> SUFFICES ASSUME LogBounded, [LogNext]_logVars PROVE LogBounded'
  OBVIOUS
<1>1. LogInv'  BY LogInvInductive DEF LogBounded
<1>2. CASE UNCHANGED logVars
  BY <1>1, <1>2 DEF logVars, LogBounded, Active, TabIds, Named
<1>3. CASE LogNext
  BY <1>1, <1>3, ActiveStep, NamedStep, LimitedStep DEF LogBounded
<1> QED  BY <1>2, <1>3

LEMMA LogTypes == LogBounded => LogTypeOK
<1> SUFFICES ASSUME LogBounded PROVE LogTypeOK
  OBVIOUS
<1>1. LogTyped /\ TabsDiffer /\ Active /\ Named  BY DEF LogBounded, LogInv
<1>2. IsInjective(logTabs)  BY <1>1 DEF IsInjective, TabsDiffer
<1>3. activeTab \in TabIds \union {NoTab} /\ (activeTab = NoTab <=> logTabs = <<>>)
  <2>1. NoTab \notin TabIds
    BY TabTyped, LogAssumption DEF LogBounded, LogInv, TabIds, NoTab, LogTabs
  <2> QED  BY <1>1, <2>1 DEF Active
<1>4. ASSUME NEW id \in LogTabs
      PROVE  view[id].next \in 0..MaxLines /\ Len(view[id].lines) <= LogLimit
  <2>1. view[id].next \in Nat /\ Limited(view[id])
    BY <1>1 DEF LogBounded, LogTyped, LogView
  <2> QED  BY <2>1, LogAssumption DEF Limited
<1>5. \A c \in Streams : streams[c].pc \in {"unused", "connecting", "open", "closing"}
  BY <1>1 DEF LogTyped, Connection
<1> QED  BY <1>1, <1>2, <1>3, <1>4, <1>5 DEF LogTypeOK, LogTyped, Named

-----------------------------------------------------------------------------
(* Every variable of the dashboard has its type and keeps its bounds, for  *)
(* any tabs, requests, forms, projects, repositories and connections: the  *)
(* server has issued a refresh token for each that a tab holds, no version *)
(* is shown that the server did not reach, every branch that is shown was  *)
(* asked about, the log tabs differ, and one of them is shown unless there *)
(* is none (web pages, components, hooks and store; handlers/auth.go).     *)
THEOREM DashboardTypes == Spec => []TypeOK
<1> DEFINE Bounded == scene \in Scenes /\ FormBounded /\ ImportTyped /\ LogBounded
<1>1. Init => Bounded
  <2> SUFFICES ASSUME Init PROVE Bounded
    OBVIOUS
  <2>1. LogBounded
    <3>1. LogInv  BY InitialLogs DEF Init
    <3>2. Active /\ Named /\ \A id \in LogTabs : Limited(view[id])
      BY FreshLimited DEF Init, LogInit, Active, Named, NoStream
    <3> QED  BY <3>1, <3>2 DEF LogBounded
  <2> QED  BY <2>1, InitialNumbers, InitialImportTypes DEF Init
<1>2. Bounded /\ [Next]_vars => Bounded'
  <2> SUFFICES ASSUME Bounded, [Next]_vars PROVE Bounded'
    OBVIOUS
  <2>1. /\ [FormNext]_formVars /\ [ImportNext]_importVars /\ [LogNext]_logVars
        /\ scene' = scene
    BY DEF Next, vars, FormStep, SessionStep, ImportStep, LogStep
  <2> QED  BY <2>1, FormBoundedInductive, ImportTypedInductive, LogBoundedInductive
<1>3. Bounded /\ SessionTypeOK => TypeOK
  BY FormTypes, ImportTypes, LogTypes DEF TypeOK
<1> HIDE DEF Bounded
<1> QED  BY <1>1, <1>2, <1>3, SessionTypes, PTL DEF Spec
=============================================================================
