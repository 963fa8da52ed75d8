--------------------------- MODULE SessionsProofs ---------------------------
(***************************************************************************)
(* Theorems about the sessions of the dashboard, for any number of tabs    *)
(* and of requests in each.                                                *)
(***************************************************************************)
EXTENDS WebDashboard, FiniteSetTheorems, TLAPS

SessionSpec == SessionInit /\ [][SessionNext]_sessionVars

\* SessionTypeOK without the bounds, which come below.
SessionTyped ==
    /\ jar \in [access : BOOLEAN, token : Nat]
    /\ issued \in Nat /\ logins \in Nat /\ excused \in BOOLEAN
    /\ auth \in [Tabs -> {"unknown", "in", "out"}]
    /\ request \in [Tabs -> [Slots -> [pc : {"idle", "sent", "waiting", "again"},
                                       access : BOOLEAN]]]
    /\ refresh \in [Tabs -> [Slots -> [pc : {"idle", "sent", "found", "granted", "rejected"},
                                       token : Nat]]]
    /\ logout \in [Tabs -> {"idle", "answered"}]

(* The tokens that are not revoked were issued, and every login and every  *)
(* exchange has left one of them at most.                                  *)
Counted ==
    /\ IsFiniteSet(active) /\ active \subseteq 1..issued
    /\ OneSessionPerLogin

(* While nothing has excused a logout, a single refresh is under way at    *)
(* most, it presents the token of the jar, and that token is active until  *)
(* the new one takes its place.                                            *)
Undisturbed ==
    /\ \A t \in Tabs : auth[t] # "out" /\ logout[t] = "idle"
    /\ \A t, u \in Tabs, p, q \in Slots :
         refresh[t][p].pc # "idle" /\ refresh[u][q].pc # "idle" => t = u /\ p = q
    /\ \A t \in Tabs, s \in Slots :
         /\ refresh[t][s].pc # "rejected"
         /\ refresh[t][s].pc \in {"sent", "found"} => refresh[t][s].token = jar.token
         /\ refresh[t][s].pc # "idle" => refresh[t][s].token \in active
    /\ (\A t \in Tabs, s \in Slots : refresh[t][s].pc # "granted") => jar.token \in active

Repeats == \A t \in Tabs, s \in Slots : request[t][s].pc = "again" => request[t][s].access

SessionInv == SessionTyped /\ Counted /\ Repeats /\ (~excused => Undisturbed)

-----------------------------------------------------------------------------
LEMMA InitialSession == SessionInit => SessionInv
<1>1. SUFFICES ASSUME SessionInit PROVE SessionInv
  OBVIOUS
<1>2. SessionTyped
  BY <1>1 DEF SessionInit, SessionTyped, NoRequest, NoRefresh
<1>3. Counted
  <2>1. IsFiniteSet({1}) /\ Cardinality({1}) = 1
    BY FS_Singleton
  <2>2. QED
    BY <1>1, <2>1 DEF SessionInit, Counted, OneSessionPerLogin
<1>4. Repeats /\ Undisturbed
  BY <1>1 DEF SessionInit, Repeats, Undisturbed, NoRequest, NoRefresh
<1>5. QED
  BY <1>2, <1>3, <1>4 DEF SessionInv

-----------------------------------------------------------------------------
(* Each part of the invariant is kept by every action.                     *)

LEMMA StepTyped == SessionTyped /\ SessionNext => SessionTyped'
<1> SUFFICES ASSUME SessionTyped, SessionNext PROVE SessionTyped'
  OBVIOUS
<1> USE DEF SessionTyped
<1>1. ASSUME NEW t \in Tabs, NEW s \in Slots, Answer(t, s) PROVE SessionTyped'
  <2>1. CASE /\ request' = [request EXCEPT ![t][s] = NoRequest]
             /\ auth' = [auth EXCEPT ![t] = Opened(t)]
             /\ UNCHANGED <<refresh, excused>>
    BY <1>1, <2>1 DEF Answer, Opened, NoRequest
  <2>2. CASE /\ request' = [request EXCEPT ![t][s] = [request[t][s] EXCEPT !.pc = "waiting"]]
             /\ RefreshSession(t, s)
             /\ UNCHANGED auth
    <3>1. request' \in [Tabs -> [Slots -> [pc : {"idle", "sent", "waiting", "again"},
                                           access : BOOLEAN]]]
      BY <2>2
    <3>2. refresh' \in [Tabs -> [Slots -> [pc : {"idle", "sent", "found", "granted", "rejected"},
                                           token : Nat]]] /\ excused' \in BOOLEAN
      <4>1. CASE UNCHANGED <<refresh, excused>>
        BY <4>1
      <4>2. CASE /\ refresh' = [refresh EXCEPT ![t][s] = [pc |-> "sent", token |-> jar.token]]
                 /\ excused' = (excused \/ \E u \in Tabs \ {t}, q \in Slots :
                                             refresh[u][q].pc # "idle")
        <5>1. [pc |-> "sent", token |-> jar.token] \in
                [pc : {"idle", "sent", "found", "granted", "rejected"}, token : Nat]
          OBVIOUS
        <5>2. excused' \in BOOLEAN
          BY <4>2
        <5>3. QED
          BY <4>2, <5>1, <5>2
      <4>3. QED
        BY <2>2, <4>1, <4>2 DEF RefreshSession
    <3>3. QED
      BY <1>1, <2>2, <3>1, <3>2 DEF Answer
  <2>3. CASE /\ request' = [request EXCEPT ![t][s] = NoRequest]
             /\ auth' = [auth EXCEPT ![t] = "out"]
             /\ UNCHANGED <<refresh, excused>>
    BY <1>1, <2>3 DEF Answer, NoRequest
  <2>4. QED
    BY <1>1, <2>1, <2>2, <2>3 DEF Answer, RequestOf, Authenticate
<1>2. ASSUME NEW t \in Tabs, NEW s \in Slots, Lookup(t, s) PROVE SessionTyped'
  BY <1>2 DEF Lookup, RefreshOf
<1>3. ASSUME NEW t \in Tabs, NEW s \in Slots, Rotate(t, s) PROVE SessionTyped'
  <2> DEFINE Phase == {"idle", "sent", "found", "granted", "rejected"}
  <2>0. ASSUME NEW r \in [pc : Phase, token : Nat], RefreshOf(t, s, r)
        PROVE refresh' \in [Tabs -> [Slots -> [pc : Phase, token : Nat]]]
    BY <2>0 DEF RefreshOf
  <2>1. CASE refresh[t][s].token \in active
    <3>1. [pc |-> "granted", token |-> issued + 1] \in [pc : Phase, token : Nat]
      OBVIOUS
    <3>2. RefreshOf(t, s, [pc |-> "granted", token |-> issued + 1]) /\ issued' = issued + 1
      BY <1>3, <2>1 DEF Rotate
    <3>3. refresh' \in [Tabs -> [Slots -> [pc : Phase, token : Nat]]]
      BY <2>0, <3>1, <3>2
    <3>4. QED
      BY <1>3, <3>2, <3>3 DEF Rotate
  <2>2. CASE refresh[t][s].token \notin active
    <3>1. [refresh[t][s] EXCEPT !.pc = "rejected"] \in [pc : Phase, token : Nat]
      <4>1. refresh[t][s] \in [pc : Phase, token : Nat]
        OBVIOUS
      <4>2. QED
        BY <4>1, Zenon
    <3>2. /\ RefreshOf(t, s, [refresh[t][s] EXCEPT !.pc = "rejected"])
          /\ issued' = issued
      BY <1>3, <2>2 DEF Rotate
    <3>3. refresh' \in [Tabs -> [Slots -> [pc : Phase, token : Nat]]]
      BY <2>0, <3>1, <3>2
    <3>4. QED
      BY <1>3, <3>2, <3>3 DEF Rotate
  <2>3. QED
    BY <2>1, <2>2
<1>4. ASSUME NEW t \in Tabs, NEW s \in Slots, Granted(t, s) PROVE SessionTyped'
  BY <1>4 DEF Granted, Authenticate, Resume, RefreshOf, NoRefresh
<1>5. ASSUME NEW t \in Tabs, NEW s \in Slots, Rejected(t, s) PROVE SessionTyped'
  BY <1>5 DEF Rejected, Authenticate, Resume, RefreshOf, NoRefresh, NoRequest, NoCookies
<1>6. ASSUME NEW t \in Tabs, NEW s \in Slots, Ask(t, s) PROVE SessionTyped'
  BY <1>6 DEF Ask, RequestOf
<1>7. ASSUME NEW t \in Tabs, NEW s \in Slots, Fail(t, s) PROVE SessionTyped'
  BY <1>7 DEF Fail, RequestOf, Authenticate, NoRequest
<1>8. ASSUME NEW t \in Tabs, NEW s \in Slots, LoseRefresh(t, s) PROVE SessionTyped'
  BY <1>8 DEF LoseRefresh, Authenticate, Resume, RefreshOf, NoRefresh, NoRequest
<1>9. ASSUME NEW t \in Tabs, LogOut(t) PROVE SessionTyped'
  BY <1>9 DEF LogOut
<1>10. ASSUME NEW t \in Tabs, LoggedOut(t) PROVE SessionTyped'
  BY <1>10 DEF LoggedOut, Authenticate, NoRefresh, NoRequest, NoCookies
<1>11. ASSUME NEW t \in Tabs, LogIn(t) PROVE SessionTyped'
  BY <1>11 DEF LogIn, Authenticate
<1>12. ASSUME NEW t \in Tabs, Reload(t) PROVE SessionTyped'
  BY <1>12 DEF Reload, Authenticate
<1>13. CASE AccessExpires
  BY <1>13 DEF AccessExpires
<1>14. QED
  BY <1>1, <1>2, <1>3, <1>4, <1>5, <1>6, <1>7, <1>8, <1>9, <1>10, <1>11, <1>12, <1>13
  DEF SessionNext, Served

(* A token takes the place of the one it was exchanged for, is added by a  *)
(* login, or is revoked by a logout.                                       *)
LEMMA StepCounted == SessionInv /\ SessionNext => Counted'
<1> SUFFICES ASSUME SessionInv, SessionNext PROVE Counted'
  OBVIOUS
<1>0. SessionTyped /\ Counted /\ issued \in Nat /\ logins \in Nat /\ Cardinality(active) \in Nat
  BY FS_CardinalityType DEF SessionInv, SessionTyped, Counted
<1>a. issued + 1 \notin active
  BY <1>0 DEF Counted
<1>1. ASSUME NEW t \in Tabs, NEW s \in Slots, Rotate(t, s) PROVE Counted'
  <2> DEFINE old == refresh[t][s].token
             left == active \ {old}
  <2>1. CASE old \in active
    <3>1. active' = left \union {issued + 1} /\ issued' = issued + 1 /\ logins' = logins
      BY <1>1, <2>1 DEF Rotate
    <3>2. IsFiniteSet(left) /\ Cardinality(left) = Cardinality(active) - 1
      BY <1>0, <2>1, FS_RemoveElement DEF Counted
    <3>3. issued + 1 \notin left
      BY <1>a
    <3>4. IsFiniteSet(left \union {issued + 1})
          /\ Cardinality(left \union {issued + 1}) = Cardinality(left) + 1
      BY <3>2, <3>3, FS_AddElement
    <3>5. active' \subseteq 1..issued'
      <4>1. \A n \in active : n \in 1..(issued + 1)
        BY <1>0 DEF Counted
      <4>2. issued + 1 \in 1..(issued + 1)
        BY <1>0
      <4> HIDE DEF old
      <4>3. QED
        BY <3>1, <4>1, <4>2
    <3>6. QED
      BY <1>0, <3>1, <3>2, <3>4, <3>5 DEF Counted, OneSessionPerLogin
  <2>2. CASE old \notin active
    BY <1>0, <1>1, <2>2 DEF Rotate, Counted, OneSessionPerLogin
  <2>3. QED
    BY <2>1, <2>2
<1>2. ASSUME NEW t \in Tabs, LogOut(t) PROVE Counted'
  <2>1. active' = active \ {jar.token} /\ issued' = issued /\ logins' = logins
    BY <1>2 DEF LogOut
  <2>2. IsFiniteSet(active') /\ Cardinality(active') <= Cardinality(active)
    BY <1>0, <2>1, FS_Subset DEF Counted
  <2>3. Cardinality(active') \in Nat
    BY <2>2, FS_CardinalityType
  <2>4. active' \subseteq 1..issued'
    BY <1>0, <2>1 DEF Counted
  <2>5. Cardinality(active') <= logins'
    BY <1>0, <2>1, <2>2, <2>3 DEF Counted, OneSessionPerLogin
  <2>6. QED
    BY <2>2, <2>4, <2>5 DEF Counted, OneSessionPerLogin
<1>3. ASSUME NEW t \in Tabs, LogIn(t) PROVE Counted'
  <2>1. /\ active' = active \union {issued + 1}
        /\ issued' = issued + 1 /\ logins' = logins + 1
    BY <1>3 DEF LogIn
  <2>2. IsFiniteSet(active') /\ Cardinality(active') = Cardinality(active) + 1
    BY <1>0, <1>a, <2>1, FS_AddElement DEF Counted
  <2>3. active' \subseteq 1..issued'
    <3>1. \A n \in active : n \in 1..(issued + 1)
      BY <1>0 DEF Counted
    <3>2. issued + 1 \in 1..(issued + 1)
      BY <1>0
    <3>3. QED
      BY <2>1, <3>1, <3>2
  <2>4. QED
    BY <1>0, <2>1, <2>2, <2>3 DEF Counted, OneSessionPerLogin
<1>4. CASE UNCHANGED <<active, issued, logins>>
  BY <1>0, <1>4 DEF Counted, OneSessionPerLogin
<1>5. ASSUME NEW t \in Tabs, NEW s \in Slots,
             \/ Answer(t, s) \/ Lookup(t, s) \/ Granted(t, s) \/ Rejected(t, s)
             \/ Ask(t, s) \/ Fail(t, s) \/ LoseRefresh(t, s)
      PROVE UNCHANGED <<active, issued, logins>>
  BY <1>5 DEF Answer, Lookup, Granted, Rejected, Ask, Fail, LoseRefresh
<1>6. ASSUME NEW t \in Tabs, LoggedOut(t) \/ Reload(t)
      PROVE UNCHANGED <<active, issued, logins>>
  BY <1>6 DEF LoggedOut, Reload
<1>7. CASE AccessExpires
  BY <1>4, <1>7 DEF AccessExpires
<1>8. QED
  BY <1>1, <1>2, <1>3, <1>4, <1>5, <1>6, <1>7 DEF SessionNext, Served

(* Only an answer with new cookies makes a request be sent again.          *)
LEMMA StepRepeats == SessionTyped /\ Repeats /\ SessionNext => Repeats'
<1> SUFFICES ASSUME SessionTyped, Repeats, SessionNext PROVE Repeats'
  OBVIOUS
<1>1. ASSUME NEW t \in Tabs, NEW s \in Slots, NEW r,
             r.pc = "again" => r.access, RequestOf(t, s, r)
      PROVE Repeats'
  BY <1>1 DEF SessionTyped, Repeats, RequestOf
<1>2. ASSUME NEW t \in Tabs, NEW s \in Slots, Answer(t, s) PROVE Repeats'
  BY <1>1, <1>2 DEF Answer, NoRequest, SessionTyped
<1>3. ASSUME NEW t \in Tabs, NEW s \in Slots, Ask(t, s) \/ Fail(t, s) PROVE Repeats'
  BY <1>1, <1>3 DEF Ask, Fail, NoRequest
<1>4. ASSUME NEW t \in Tabs, NEW s \in Slots,
             Granted(t, s) \/ Rejected(t, s) \/ LoseRefresh(t, s)
      PROVE Repeats'
  <2>1. ASSUME NEW again \in BOOLEAN, NEW cookies, again => cookies.access,
               Resume(t, again, cookies)
        PROVE Repeats'
    BY <2>1 DEF Resume, NoRequest, SessionTyped, Repeats
  <2>2. CASE Granted(t, s)
    <3>1. Resume(t, TRUE, [access |-> TRUE, token |-> refresh[t][s].token])
      BY <2>2 DEF Granted
    <3>2. QED
      BY <2>1, <3>1
  <2>3. CASE Rejected(t, s) \/ LoseRefresh(t, s)
    BY <2>1, <2>3 DEF Rejected, LoseRefresh
  <2>4. QED
    BY <1>4, <2>2, <2>3
<1>5. ASSUME NEW t \in Tabs, LoggedOut(t) PROVE Repeats'
  BY <1>5 DEF LoggedOut, NoRequest, SessionTyped, Repeats
<1>6. CASE UNCHANGED request
  BY <1>6 DEF Repeats
<1>7. QED
  BY <1>2, <1>3, <1>4, <1>5, <1>6 DEF SessionNext, Served, Lookup, Rotate, LogOut, LogIn,
     Reload, AccessExpires
(* A disturbance excuses what follows it; without one, what answers the    *)
(* tab's only refresh is the new token, and the jar takes it.              *)
LEMMA StepUndisturbed ==
    SessionInv /\ SessionNext => (~excused' => Undisturbed')
<1> SUFFICES ASSUME SessionInv, SessionNext, ~excused' PROVE Undisturbed'
  OBVIOUS
<1>0. SessionTyped /\ Counted /\ Repeats /\ (~excused => Undisturbed)
  BY DEF SessionInv
<1>1. ASSUME NEW t \in Tabs, NEW s \in Slots, Answer(t, s) PROVE Undisturbed'
  <2>1. CASE /\ auth' = [auth EXCEPT ![t] = Opened(t)]
             /\ UNCHANGED <<jar, active, refresh, logout, excused>>
    BY <1>0, <2>1 DEF Undisturbed, Opened, SessionTyped
  <2>2. CASE /\ RefreshSession(t, s)
             /\ UNCHANGED <<jar, active, auth, logout>>
    <3>1. CASE UNCHANGED <<refresh, excused>>
      BY <1>0, <2>2, <3>1 DEF Undisturbed
    <3>2. CASE /\ \A q \in Slots : refresh[t][q].pc = "idle"
               /\ refresh' = [refresh EXCEPT ![t][s] = [pc |-> "sent", token |-> jar.token]]
               /\ excused' = (excused \/ \E u \in Tabs \ {t}, q \in Slots :
                                           refresh[u][q].pc # "idle")
      <4>1. ~excused /\ Undisturbed
        BY <1>0, <3>2
      <4>2. \A u \in Tabs, q \in Slots : refresh[u][q].pc = "idle"
        BY <3>2
      <4>3. jar.token \in active
        BY <4>1, <4>2 DEF Undisturbed
      <4>4. /\ refresh'[t][s] = [pc |-> "sent", token |-> jar.token]
            /\ \A u \in Tabs, q \in Slots : (u # t \/ q # s) => refresh'[u][q].pc = "idle"
        BY <1>0, <3>2, <4>2 DEF SessionTyped
      <4>5. QED
        BY <2>2, <4>1, <4>3, <4>4 DEF Undisturbed
    <3>3. QED
      BY <2>2, <3>1, <3>2 DEF RefreshSession
  <2>3. CASE request[t][s].pc = "again" /\ ~request[t][s].access
    BY <1>0, <2>3 DEF Repeats
  <2>4. QED
    BY <1>1, <2>1, <2>2, <2>3 DEF Answer, Authenticate
<1>2. ASSUME NEW t \in Tabs, NEW s \in Slots, Lookup(t, s) PROVE Undisturbed'
  <2>1. ~excused /\ Undisturbed /\ refresh[t][s].pc = "sent"
    BY <1>0, <1>2 DEF Lookup
  <2>2. refresh[t][s].token \in active
    BY <2>1 DEF Undisturbed
  <2>3. /\ refresh'[t][s].pc = "found" /\ refresh'[t][s].token = refresh[t][s].token
        /\ \A u \in Tabs, q \in Slots : (u # t \/ q # s) => refresh'[u][q] = refresh[u][q]
    BY <1>0, <1>2, <2>2 DEF Lookup, RefreshOf, SessionTyped
  <2>4. QED
    BY <1>2, <2>1, <2>2, <2>3 DEF Undisturbed, Lookup
<1>3. ASSUME NEW t \in Tabs, NEW s \in Slots, Rotate(t, s) PROVE Undisturbed'
  <2>1. ~excused /\ Undisturbed /\ refresh[t][s].pc = "found"
    BY <1>0, <1>3 DEF Rotate
  <2>2. refresh[t][s].token \in active
    BY <2>1 DEF Undisturbed
  <2>3. /\ RefreshOf(t, s, [pc |-> "granted", token |-> issued + 1])
        /\ active' = (active \ {refresh[t][s].token}) \union {issued + 1}
    BY <1>3, <2>2 DEF Rotate
  <2>4. /\ refresh'[t][s] = [pc |-> "granted", token |-> issued + 1]
        /\ \A u \in Tabs, q \in Slots : (u # t \/ q # s) => refresh'[u][q] = refresh[u][q]
    BY <1>0, <2>3 DEF RefreshOf, SessionTyped
  <2>5. \A u \in Tabs, q \in Slots : (u # t \/ q # s) => refresh'[u][q].pc = "idle"
    BY <2>1, <2>4 DEF Undisturbed
  <2>6. issued + 1 \in active'
    BY <2>3
  <2>7. QED
    BY <1>3, <2>1, <2>4, <2>5, <2>6 DEF Undisturbed, Rotate
<1>4. ASSUME NEW t \in Tabs, NEW s \in Slots, Granted(t, s) PROVE Undisturbed'
  <2>1. ~excused /\ Undisturbed /\ refresh[t][s].pc = "granted"
    BY <1>0, <1>4 DEF Granted
  <2>2. refresh[t][s].token \in active
    BY <2>1 DEF Undisturbed
  <2>3. \A u \in Tabs, q \in Slots : refresh'[u][q].pc = "idle"
    BY <1>0, <1>4, <2>1 DEF Granted, RefreshOf, NoRefresh, Undisturbed, SessionTyped
  <2>4. /\ jar'.token = refresh[t][s].token /\ auth' = [auth EXCEPT ![t] = "in"]
        /\ UNCHANGED <<active, logout>>
    BY <1>4 DEF Granted, Authenticate
  <2>5. QED
    BY <1>0, <2>1, <2>2, <2>3, <2>4 DEF Undisturbed, SessionTyped
<1>5. ASSUME NEW t \in Tabs, NEW s \in Slots, Rejected(t, s) PROVE FALSE
  BY <1>0, <1>5 DEF Rejected, Undisturbed
<1>6. ASSUME NEW t \in Tabs, NEW s \in Slots, LoseRefresh(t, s) PROVE FALSE
  BY <1>6 DEF LoseRefresh
<1>7. ASSUME NEW t \in Tabs, NEW s \in Slots, Fail(t, s) PROVE Undisturbed'
  <2>1. ~excused /\ auth[t] # "unknown"
    BY <1>7 DEF Fail
  <2>2. UNCHANGED <<jar, active, refresh, logout>> /\ auth' = [auth EXCEPT ![t] = auth[t]]
    BY <1>7, <2>1 DEF Fail, Authenticate
  <2>3. QED
    BY <1>0, <2>1, <2>2 DEF Undisturbed, SessionTyped
<1>8. ASSUME NEW t \in Tabs, LogOut(t) PROVE FALSE
  BY <1>8 DEF LogOut
<1>9. ASSUME NEW t \in Tabs, LoggedOut(t) PROVE FALSE
  BY <1>0, <1>9 DEF LoggedOut, Undisturbed
<1>10. ASSUME NEW t \in Tabs, LogIn(t) PROVE FALSE
  BY <1>0, <1>10 DEF LogIn, Undisturbed
<1>11. ASSUME NEW t \in Tabs, Reload(t) PROVE Undisturbed'
  BY <1>0, <1>11 DEF Reload, Authenticate, Undisturbed, SessionTyped
<1>12. CASE AccessExpires
  <2>1. jar'.token = jar.token /\ UNCHANGED <<active, auth, refresh, logout, excused>>
    BY <1>0, <1>12 DEF AccessExpires, SessionTyped
  <2>2. QED
    BY <1>0, <2>1 DEF Undisturbed
<1>13. ASSUME NEW t \in Tabs, NEW s \in Slots, Ask(t, s) PROVE Undisturbed'
  BY <1>0, <1>13 DEF Ask, Undisturbed
<1>14. QED
  BY <1>1, <1>2, <1>3, <1>4, <1>5, <1>6, <1>7, <1>8, <1>9, <1>10, <1>11, <1>12, <1>13
  DEF SessionNext, Served

LEMMA SessionInvInductive == SessionInv /\ [SessionNext]_sessionVars => SessionInv'
<1> SUFFICES ASSUME SessionInv, [SessionNext]_sessionVars PROVE SessionInv'
  OBVIOUS
<1>1. CASE SessionNext
  BY <1>1, StepTyped, StepCounted, StepRepeats, StepUndisturbed DEF SessionInv
<1>2. CASE UNCHANGED sessionVars
  BY <1>2 DEF sessionVars, SessionInv, SessionTyped, Counted, OneSessionPerLogin, Repeats,
              Undisturbed
<1>3. QED
  BY <1>1, <1>2

LEMMA SessionInvHolds == SessionSpec => []SessionInv
BY InitialSession, SessionInvInductive, PTL DEF SessionSpec

\* What the dashboard does is a step of its sessions, or leaves them alone.
LEMMA DashboardSessions == Spec => SessionSpec
<1>1. Init => SessionInit
  BY DEF Init
<1>2. [Next]_vars => [SessionNext]_sessionVars
  BY DEF Next, SessionStep, FormStep, ImportStep, LogStep, vars
<1>3. QED
  BY <1>1, <1>2, PTL DEF Spec, SessionSpec

(* However many tabs present a refresh token at once, each login keeps one *)
(* session at most (RotateRefreshSession).                                 *)
THEOREM SessionsAreNotMultiplied == Spec => []OneSessionPerLogin
<1>1. SessionInv => OneSessionPerLogin
  BY DEF SessionInv, Counted
<1>2. QED
  BY <1>1, DashboardSessions, SessionInvHolds, PTL

(* However many of a tab's requests find the token expired together, they  *)
(* do not log it out (refreshSession).                                     *)
THEOREM RefreshesDoNotLogOut == Spec => []NotLoggedOutByItself
<1>1. SessionInv => NotLoggedOutByItself
  BY DEF SessionInv, Undisturbed, NotLoggedOutByItself
<1>2. QED
  BY <1>1, DashboardSessions, SessionInvHolds, PTL

-----------------------------------------------------------------------------
(* Types.                                                                  *)

\* A request for which a token may yet be issued: it was sent, and the refresh
\* it began, if it did, has not been carried out.
Owes(t, s) ==
    /\ request[t][s].pc \in {"sent", "waiting"}
    /\ refresh[t][s].pc \notin {"granted", "rejected"}
Owing == {ts \in Tabs \X Slots : Owes(ts[1], ts[2])}
Busy == {ts \in Tabs \X Slots : request[ts[1]][ts[2]].pc # "idle"}

\* A tab has one refresh at most, of a request that waits for it.
Awaited ==
    /\ \A t \in Tabs, s \in Slots : refresh[t][s].pc # "idle" => request[t][s].pc = "waiting"
    /\ \A t \in Tabs, p, q \in Slots :
         refresh[t][p].pc # "idle" /\ refresh[t][q].pc # "idle" => p = q

Within == issued + Cardinality(Owing) <= MaxTokens

Issued ==
    /\ issued > 0 /\ logins \in 1..issued /\ jar.token <= issued
    /\ \A t \in Tabs, s \in Slots : refresh[t][s].token <= issued

LEMMA RequestsFinite ==
    /\ IsFiniteSet(Owing) /\ Cardinality(Owing) \in Nat
    /\ IsFiniteSet(Busy) /\ Cardinality(Busy) \in Nat
    /\ Cardinality(Owing) <= Cardinality(Busy)
<1>1. IsFiniteSet(Tabs \X Slots)  BY SessionAssumption, FS_Product
<1>2. IsFiniteSet(Busy)  BY <1>1, FS_Subset DEF Busy
<1>3. Owing \subseteq Busy  BY DEF Owing, Busy, Owes
<1> QED  BY <1>2, <1>3, FS_Subset, FS_CardinalityType

\* No request comes to owe a token.
LEMMA NobodyOwesMore ==
    ASSUME SessionTyped, Within, issued' = issued,
           \A t \in Tabs, s \in Slots : Owes(t, s)' => Owes(t, s)
    PROVE  Within'
<1>1. Owing' \subseteq Owing  BY DEF Owing
<1>2. IsFiniteSet(Owing') /\ Cardinality(Owing') <= Cardinality(Owing)
  BY <1>1, RequestsFinite, FS_Subset
<1>3. Cardinality(Owing) \in Nat /\ Cardinality(Owing') \in Nat
  BY <1>2, RequestsFinite, FS_CardinalityType
<1> QED  BY <1>2, <1>3, SessionAssumption DEF Within, SessionTyped

LEMMA StepAwaited == SessionTyped /\ Awaited /\ SessionNext => Awaited'
<1> SUFFICES ASSUME SessionTyped, Awaited, SessionNext PROVE Awaited'
  OBVIOUS
<1>1. ASSUME NEW t \in Tabs, NEW s \in Slots, NEW r,
             refresh[t][s].pc = "idle", RequestOf(t, s, r), UNCHANGED refresh
      PROVE Awaited'
  BY <1>1 DEF SessionTyped, Awaited, RequestOf
<1>2. ASSUME NEW t \in Tabs, NEW s \in Slots, Answer(t, s) PROVE Awaited'
  <2>1. CASE request[t][s].pc \in {"sent", "again"} /\ RequestOf(t, s, NoRequest)
             /\ UNCHANGED refresh
    BY <1>1, <2>1 DEF Awaited
  <2>2. CASE /\ RequestOf(t, s, [request[t][s] EXCEPT !.pc = "waiting"])
             /\ RefreshSession(t, s)
    <3>1. /\ request'[t][s].pc = "waiting"
          /\ \A u \in Tabs, q \in Slots : u # t \/ q # s => request'[u][q] = request[u][q]
      BY <2>2 DEF RequestOf, SessionTyped
    <3>2. CASE UNCHANGED refresh  BY <3>1, <3>2 DEF Awaited
    <3>3. CASE /\ \A q \in Slots : refresh[t][q].pc = "idle"
               /\ refresh' = [refresh EXCEPT ![t][s] = [pc |-> "sent", token |-> jar.token]]
      <4>1. \A u \in Tabs, q \in Slots :
              refresh'[u][q].pc # "idle" => (u = t /\ q = s) \/ refresh'[u][q] = refresh[u][q]
        BY <3>3 DEF SessionTyped
      <4>2. \A q \in Slots : refresh'[t][q].pc # "idle" => q = s
        BY <3>3, <4>1 DEF SessionTyped
      <4>3. \A u \in Tabs \ {t}, q \in Slots : refresh'[u][q] = refresh[u][q]
        BY <3>3 DEF SessionTyped
      <4> QED  BY <3>1, <4>2, <4>3 DEF Awaited
    <3> QED  BY <2>2, <3>2, <3>3 DEF RefreshSession
  <2> QED  BY <1>2, <2>1, <2>2 DEF Answer
<1>3. ASSUME NEW t \in Tabs, NEW s \in Slots, Ask(t, s) \/ Fail(t, s) PROVE Awaited'
  <2>1. refresh[t][s].pc = "idle"  BY <1>3 DEF Ask, Fail, Awaited
  <2> QED  BY <1>1, <1>3, <2>1 DEF Ask, Fail
<1>4. ASSUME NEW t \in Tabs, NEW s \in Slots, Lookup(t, s) \/ Rotate(t, s) PROVE Awaited'
  <2>1. PICK r : refresh' = [refresh EXCEPT ![t][s] = r]
    BY <1>4 DEF Lookup, Rotate, RefreshOf
  <2>2. refresh[t][s].pc # "idle" /\ UNCHANGED request  BY <1>4 DEF Lookup, Rotate
  <2>3. \A u \in Tabs, q \in Slots : u # t \/ q # s => refresh'[u][q] = refresh[u][q]
    BY <2>1 DEF SessionTyped
  <2> QED  BY <2>2, <2>3 DEF Awaited
<1>5. ASSUME NEW t \in Tabs, NEW s \in Slots,
             Granted(t, s) \/ Rejected(t, s) \/ LoseRefresh(t, s)
      PROVE Awaited'
  <2>1. refresh[t][s].pc # "idle" /\ refresh' = [refresh EXCEPT ![t][s] = NoRefresh]
    BY <1>5 DEF Granted, Rejected, LoseRefresh, RefreshOf
  <2>2. \A u \in Tabs \ {t} : request'[u] = request[u] /\ refresh'[u] = refresh[u]
    BY <1>5, <2>1 DEF Granted, Rejected, LoseRefresh, Resume, SessionTyped
  <2>3. \A q \in Slots : refresh'[t][q].pc = "idle"
    BY <2>1 DEF Awaited, SessionTyped, NoRefresh
  <2> QED  BY <2>2, <2>3 DEF Awaited
<1>6. ASSUME NEW t \in Tabs, LoggedOut(t) PROVE Awaited'
  BY <1>6 DEF LoggedOut, NoRefresh, SessionTyped, Awaited
<1>7. CASE UNCHANGED <<request, refresh>>  BY <1>7 DEF Awaited
<1> QED
  BY <1>2, <1>3, <1>4, <1>5, <1>6, <1>7
  DEF SessionNext, Served, LogOut, LogIn, Reload, AccessExpires

LEMMA StepWithin == SessionTyped /\ Awaited /\ Within /\ SessionNext => Within'
<1> SUFFICES ASSUME SessionTyped, Awaited, Within, SessionNext PROVE Within'
  OBVIOUS
<1>0. issued \in Nat /\ MaxTokens \in Nat  BY SessionAssumption DEF SessionTyped
<1>1. ASSUME NEW t \in Tabs, NEW s \in Slots, Ask(t, s) PROVE Within'
  <2>1. /\ issued + Cardinality(Busy) < MaxTokens
        /\ UNCHANGED <<issued, refresh>>
        /\ \A u \in Tabs, q \in Slots : u # t \/ q # s => request'[u][q] = request[u][q]
    BY <1>1 DEF Ask, TokensLeft, Busy, RequestOf, SessionTyped
  <2>2. Owing' \subseteq Owing \cup {<<t, s>>}
    BY <2>1 DEF Owing, Owes
  <2>3. /\ IsFiniteSet(Owing \cup {<<t, s>>})
        /\ Cardinality(Owing \cup {<<t, s>>}) <= Cardinality(Owing) + 1
    <3>1. /\ IsFiniteSet(Owing \cup {<<t, s>>})
          /\ Cardinality(Owing \cup {<<t, s>>}) \in {Cardinality(Owing), Cardinality(Owing) + 1}
      BY RequestsFinite, FS_AddElement
    <3> QED  BY <3>1, RequestsFinite
  <2>4. /\ Cardinality(Owing \cup {<<t, s>>}) \in Nat /\ Cardinality(Owing') \in Nat
        /\ Cardinality(Owing') <= Cardinality(Owing \cup {<<t, s>>})
    BY <2>2, <2>3, FS_Subset, FS_CardinalityType
  <2> QED  BY <1>0, <2>1, <2>3, <2>4, RequestsFinite DEF Within
<1>2. ASSUME NEW t \in Tabs, NEW s \in Slots, Rotate(t, s) PROVE Within'
  <2>1. /\ refresh[t][s].pc = "found" /\ request[t][s].pc = "waiting" /\ UNCHANGED request
        /\ \A u \in Tabs, q \in Slots : u # t \/ q # s => refresh'[u][q] = refresh[u][q]
    BY <1>2 DEF Rotate, RefreshOf, Awaited, SessionTyped
  <2>2. refresh'[t][s].pc \in {"granted", "rejected"} /\ issued' \in {issued, issued + 1}
    BY <1>2 DEF Rotate, RefreshOf, SessionTyped
  <2>3. Owing' \subseteq Owing \ {<<t, s>>} /\ <<t, s>> \in Owing
    BY <2>1, <2>2 DEF Owing, Owes
  <2>4. /\ IsFiniteSet(Owing \ {<<t, s>>})
        /\ Cardinality(Owing \ {<<t, s>>}) = Cardinality(Owing) - 1
    BY <2>3, RequestsFinite, FS_RemoveElement
  <2>5. /\ Cardinality(Owing \ {<<t, s>>}) \in Nat /\ Cardinality(Owing') \in Nat
        /\ Cardinality(Owing') <= Cardinality(Owing \ {<<t, s>>})
    BY <2>3, <2>4, FS_Subset, FS_CardinalityType
  <2> QED  BY <1>0, <2>2, <2>4, <2>5, RequestsFinite DEF Within
<1>3. ASSUME NEW t \in Tabs, LogIn(t) PROVE Within'
  <2>1. /\ issued + Cardinality(Busy) < MaxTokens /\ issued' = issued + 1
        /\ UNCHANGED <<request, refresh>>
    BY <1>3 DEF LogIn, TokensLeft, Busy
  <2>2. Owing' = Owing  BY <2>1 DEF Owing, Owes
  <2> QED  BY <1>0, <2>1, <2>2, RequestsFinite DEF Within
<1>4. ASSUME NEW t \in Tabs, NEW s \in Slots, Answer(t, s) PROVE Within'
  <2>1. issued' = issued /\ request[t][s].pc # "idle"  BY <1>4 DEF Answer
  <2>2. ASSUME NEW u \in Tabs, NEW q \in Slots, Owes(u, q)' PROVE Owes(u, q)
    <3>1. CASE u = t /\ q = s
      <4>1. request[t][s].pc = "sent"
        BY <1>4, <2>2, <3>1 DEF Answer, RequestOf, NoRequest, Owes, SessionTyped
      <4>2. refresh[t][s].pc = "idle"  BY <4>1 DEF Awaited
      <4> QED  BY <3>1, <4>1, <4>2 DEF Owes
    <3>2. CASE u # t \/ q # s
      <4>1. request'[u][q] = request[u][q]
        BY <1>4, <3>2 DEF Answer, RequestOf, SessionTyped
      <4>2. refresh'[u][q] = refresh[u][q]
        BY <1>4, <3>2 DEF Answer, RefreshSession, SessionTyped
      <4> QED  BY <2>2, <4>1, <4>2 DEF Owes
    <3> QED  BY <3>1, <3>2
  <2> QED  BY <2>1, <2>2, NobodyOwesMore
<1>5. ASSUME NEW t \in Tabs, NEW s \in Slots, Lookup(t, s) PROVE Within'
  <2>1. /\ UNCHANGED <<request, issued>> /\ refresh[t][s].pc = "sent"
        /\ \A u \in Tabs, q \in Slots : u # t \/ q # s => refresh'[u][q] = refresh[u][q]
    BY <1>5 DEF Lookup, RefreshOf, SessionTyped
  <2>2. \A u \in Tabs, q \in Slots : Owes(u, q)' => Owes(u, q)  BY <2>1 DEF Owes
  <2> QED  BY <2>1, <2>2, NobodyOwesMore
<1>6. ASSUME NEW t \in Tabs, NEW s \in Slots,
             Granted(t, s) \/ Rejected(t, s) \/ LoseRefresh(t, s)
      PROVE Within'
  <2>1. /\ issued' = issued /\ \A u \in Tabs \ {t} : request'[u] = request[u]
        /\ \A q \in Slots : request'[t][q].pc = "waiting" => FALSE
        /\ \A q \in Slots : request'[t][q].pc = "sent" => request[t][q].pc = "sent"
    <3>1. PICK again, cookies : Resume(t, again, cookies)
      BY <1>6 DEF Granted, Rejected, LoseRefresh
    <3>2. \A q \in Slots : \/ request[t][q].pc # "waiting" /\ request'[t][q] = request[t][q]
                          \/ request'[t][q].pc \in {"again", "idle"}
      BY <3>1 DEF Resume, NoRequest, SessionTyped
    <3>3. \A u \in Tabs \ {t} : request'[u] = request[u]  BY <3>1 DEF Resume, SessionTyped
    <3>4. issued' = issued  BY <1>6 DEF Granted, Rejected, LoseRefresh
    <3> QED  BY <3>2, <3>3, <3>4
  <2>2. refresh' = [refresh EXCEPT ![t][s] = NoRefresh]
    BY <1>6 DEF Granted, Rejected, LoseRefresh, RefreshOf
  <2>3. \A u \in Tabs \ {t} : refresh'[u] = refresh[u]  BY <2>2 DEF SessionTyped
  <2>4. \A u \in Tabs, q \in Slots : Owes(u, q)' => Owes(u, q)
    BY <2>1, <2>3 DEF Owes, Awaited
  <2> QED  BY <2>1, <2>4, NobodyOwesMore
<1>7. ASSUME NEW t \in Tabs, NEW s \in Slots, Fail(t, s) PROVE Within'
  <2>1. /\ UNCHANGED <<issued, refresh>> /\ request'[t][s] = NoRequest
        /\ \A u \in Tabs, q \in Slots : u # t \/ q # s => request'[u][q] = request[u][q]
    BY <1>7 DEF Fail, RequestOf, SessionTyped
  <2>2. \A u \in Tabs, q \in Slots : Owes(u, q)' => Owes(u, q)
    BY <2>1 DEF Owes, NoRequest
  <2> QED  BY <2>1, <2>2, NobodyOwesMore
<1>8. ASSUME NEW t \in Tabs, LoggedOut(t) PROVE Within'
  <2>1. /\ issued' = issued
        /\ \A q \in Slots : request'[t][q] = NoRequest
        /\ \A u \in Tabs \ {t} : request'[u] = request[u] /\ refresh'[u] = refresh[u]
    BY <1>8 DEF LoggedOut, SessionTyped
  <2>2. \A u \in Tabs, q \in Slots : Owes(u, q)' => Owes(u, q)
    BY <2>1 DEF Owes, NoRequest
  <2> QED  BY <2>1, <2>2, NobodyOwesMore
<1>9. CASE UNCHANGED <<issued, request, refresh>>
  <2>1. \A u \in Tabs, q \in Slots : Owes(u, q)' => Owes(u, q)  BY <1>9 DEF Owes
  <2> QED  BY <1>9, <2>1, NobodyOwesMore
<1> QED
  BY <1>1, <1>2, <1>3, <1>4, <1>5, <1>6, <1>7, <1>8, <1>9
  DEF SessionNext, Served, LogOut, Reload, AccessExpires

LEMMA StepIssued == SessionTyped /\ Issued /\ SessionNext => Issued'
<1> SUFFICES ASSUME SessionTyped, Issued, SessionNext PROVE Issued'
  OBVIOUS
<1>0. /\ issued \in Nat /\ logins \in Nat /\ jar.token \in Nat
      /\ \A t \in Tabs, s \in Slots : refresh[t][s].token \in Nat
  BY DEF SessionTyped
\* The tokens that are kept were issued, and so was the one that is put in.
<1>1. ASSUME issued' \in {issued, issued + 1}, logins' \in 1..issued', jar'.token <= issued',
             \A u \in Tabs, q \in Slots :
                refresh'[u][q].token \in {refresh[u][q].token, jar.token, issued', 0}
      PROVE  Issued'
  <2>1. \A u \in Tabs, q \in Slots : refresh'[u][q].token <= issued'
    BY <1>0, <1>1 DEF Issued
  <2> QED  BY <1>0, <1>1, <2>1 DEF Issued
<1>2. logins \in 1..issued /\ jar.token <= issued /\ jar.token <= issued + 1
  BY <1>0 DEF Issued
<1>3. ASSUME NEW t \in Tabs, NEW s \in Slots, Answer(t, s) PROVE Issued'
  <2>1. UNCHANGED <<jar, issued, logins>>  BY <1>3 DEF Answer
  <2>2. \A u \in Tabs, q \in Slots : refresh'[u][q].token \in {refresh[u][q].token, jar.token}
    <3>1. CASE UNCHANGED refresh  BY <3>1
    <3>2. CASE RefreshSession(t, s)
      <4>1. CASE UNCHANGED refresh  BY <4>1
      <4>2. CASE refresh' = [refresh EXCEPT ![t][s] = [pc |-> "sent", token |-> jar.token]]
        BY <4>2 DEF SessionTyped
      <4> QED  BY <3>2, <4>1, <4>2 DEF RefreshSession
    <3> QED  BY <1>3, <3>1, <3>2 DEF Answer
  <2> QED  BY <1>1, <1>2, <2>1, <2>2
<1>4. ASSUME NEW t \in Tabs, NEW s \in Slots, Lookup(t, s) PROVE Issued'
  <2>1. UNCHANGED <<jar, issued, logins>>  BY <1>4 DEF Lookup
  <2>2. \A u \in Tabs, q \in Slots : refresh'[u][q].token = refresh[u][q].token
    BY <1>4 DEF Lookup, RefreshOf, SessionTyped
  <2> QED  BY <1>1, <1>2, <2>1, <2>2
<1>5. ASSUME NEW t \in Tabs, NEW s \in Slots, Rotate(t, s) PROVE Issued'
  <2>1. UNCHANGED <<jar, logins>> /\ issued' \in {issued, issued + 1}  BY <1>5 DEF Rotate
  <2>2. PICK r : r.token \in {refresh[t][s].token, issued'} /\ RefreshOf(t, s, r)
    <3>1. CASE refresh[t][s].token \in active
      <4>1. RefreshOf(t, s, [pc |-> "granted", token |-> issued']) BY <1>5, <3>1 DEF Rotate
      <4> QED  BY <4>1
    <3>2. CASE refresh[t][s].token \notin active
      <4>1. PICK r : r = [refresh[t][s] EXCEPT !.pc = "rejected"]  OBVIOUS
      <4>2. RefreshOf(t, s, r)  BY <1>5, <3>2, <4>1 DEF Rotate
      <4>3. r.token = refresh[t][s].token  BY <4>1 DEF SessionTyped
      <4> QED  BY <4>2, <4>3
    <3> QED  BY <3>1, <3>2
  <2>4. \A u \in Tabs, q \in Slots : refresh'[u][q].token \in {refresh[u][q].token, issued'}
    BY <2>2 DEF RefreshOf, SessionTyped
  <2>3. logins \in 1..issued' /\ jar.token <= issued'  BY <1>0, <1>2, <2>1
  <2> QED  BY <1>1, <2>1, <2>3, <2>4
<1>6. ASSUME NEW t \in Tabs, NEW s \in Slots, Granted(t, s) PROVE Issued'
  <2>1. /\ UNCHANGED <<issued, logins>> /\ jar'.token = refresh[t][s].token
        /\ refresh' = [refresh EXCEPT ![t][s] = NoRefresh]
    BY <1>6 DEF Granted, RefreshOf
  <2>2. \A u \in Tabs, q \in Slots : refresh'[u][q].token \in {refresh[u][q].token, 0}
    BY <2>1 DEF NoRefresh, SessionTyped
  <2>3. jar'.token <= issued'  BY <2>1 DEF Issued
  <2> QED  BY <1>1, <1>2, <2>1, <2>2, <2>3
<1>7. ASSUME NEW t \in Tabs, NEW s \in Slots, Rejected(t, s) \/ LoseRefresh(t, s) PROVE Issued'
  <2>1. /\ UNCHANGED <<issued, logins>> /\ jar' \in {jar, NoCookies}
        /\ refresh' = [refresh EXCEPT ![t][s] = NoRefresh]
    BY <1>7 DEF Rejected, LoseRefresh, RefreshOf
  <2>2. \A u \in Tabs, q \in Slots : refresh'[u][q].token \in {refresh[u][q].token, 0}
    BY <2>1 DEF NoRefresh, SessionTyped
  <2>3. jar'.token <= issued'  BY <1>0, <1>2, <2>1 DEF NoCookies
  <2> QED  BY <1>1, <1>2, <2>1, <2>2, <2>3
<1>8. ASSUME NEW t \in Tabs, LoggedOut(t) PROVE Issued'
  <2>1. /\ UNCHANGED <<issued, logins>> /\ jar' = NoCookies
        /\ refresh' = [refresh EXCEPT ![t] = [s \in Slots |-> NoRefresh]]
    BY <1>8 DEF LoggedOut
  <2>2. \A u \in Tabs, q \in Slots : refresh'[u][q].token \in {refresh[u][q].token, 0}
    BY <2>1 DEF NoRefresh, SessionTyped
  <2>3. jar'.token <= issued'  BY <1>0, <2>1 DEF NoCookies
  <2> QED  BY <1>0, <1>2, <2>1, <2>2, <2>3 DEF Issued
<1>9. ASSUME NEW t \in Tabs, LogIn(t) PROVE Issued'
  <2>1. /\ issued' = issued + 1 /\ logins' = logins + 1 /\ jar'.token = issued'
        /\ refresh' = refresh
    BY <1>9 DEF LogIn
  <2> QED  BY <1>0, <1>2, <2>1 DEF Issued
<1>10. CASE UNCHANGED <<issued, logins, refresh>> /\ jar'.token = jar.token
  BY <1>10 DEF Issued
<1>11. CASE AccessExpires
  <2>1. jar'.token = jar.token  BY <1>11 DEF AccessExpires, SessionTyped
  <2> QED  BY <1>10, <1>11, <2>1 DEF AccessExpires
<1>12. ASSUME NEW t \in Tabs, NEW s \in Slots, Ask(t, s) \/ Fail(t, s) PROVE Issued'
  BY <1>10, <1>12 DEF Ask, Fail
<1>13. ASSUME NEW t \in Tabs, LogOut(t) \/ Reload(t) PROVE Issued'
  BY <1>10, <1>13 DEF LogOut, Reload
<1> QED
  BY <1>3, <1>4, <1>5, <1>6, <1>7, <1>8, <1>9, <1>11, <1>12, <1>13 DEF SessionNext, Served

\* The types of the sessions, with the bound on the tokens.
LEMMA SessionTypes == Spec => []SessionTypeOK
<1>1. SessionInit => SessionTyped /\ Awaited /\ Within /\ Issued
  <2> SUFFICES ASSUME SessionInit PROVE SessionTyped /\ Awaited /\ Within /\ Issued
    OBVIOUS
  <2>1. SessionTyped  BY InitialSession DEF SessionInv
  <2>2. Awaited /\ Issued  BY DEF SessionInit, Awaited, Issued, NoRefresh
  <2>3. Owing = {}  BY DEF SessionInit, Owing, Owes, NoRequest
  <2>4. Within  BY <2>3, SessionAssumption, FS_EmptySet DEF SessionInit, Within
  <2> QED  BY <2>1, <2>2, <2>4
<1>2. SessionTyped /\ Awaited /\ Within /\ Issued /\ [SessionNext]_sessionVars =>
        SessionTyped' /\ (Awaited /\ Within /\ Issued)'
  <2>1. CASE UNCHANGED sessionVars
    BY <2>1 DEF sessionVars, SessionTyped, Awaited, Within, Issued, Owing, Owes
  <2> QED  BY <2>1, StepTyped, StepAwaited, StepWithin, StepIssued
<1>3. SessionInv /\ Within /\ Issued => SessionTypeOK
  <2> SUFFICES ASSUME SessionInv, Within, Issued PROVE SessionTypeOK
    OBVIOUS
  <2>1. issued \in 1..MaxTokens
    BY RequestsFinite, SessionAssumption DEF SessionInv, SessionTyped, Within, Issued
  <2>2. jar \in [access : BOOLEAN, token : 0..issued]
    BY <2>1 DEF SessionInv, SessionTyped, Issued
  <2>3. refresh \in [Tabs -> [Slots -> [pc : {"idle", "sent", "found", "granted", "rejected"},
                                        token : 0..issued]]]
    BY <2>1 DEF SessionInv, SessionTyped, Issued
  <2> QED  BY <2>1, <2>2, <2>3 DEF SessionInv, SessionTyped, Counted, Issued, SessionTypeOK
<1> QED
  BY <1>1, <1>2, <1>3, DashboardSessions, SessionInvHolds, PTL DEF SessionSpec
=============================================================================
