------------------------------ MODULE Sessions ------------------------------
(***************************************************************************)
(* The dashboard's sessions (web lib/api.ts, store/auth.ts, app/app.tsx;   *)
(* handlers/auth.go): the tabs of a browser share one cookie jar, a tab's  *)
(* requests that find the access token expired wait for one refresh, and   *)
(* the server exchanges a refresh token for a new one.                     *)
(***************************************************************************)
EXTENDS Naturals, FiniteSets

CONSTANTS
    Tabs,       \* the browser's tabs
    Slots,      \* bound: how many requests a tab has under way
    MaxTokens   \* bound: how many refresh tokens the server issues

ASSUME SessionAssumption ==
    IsFiniteSet(Tabs) /\ IsFiniteSet(Slots) /\ MaxTokens \in Nat \ {0}

VARIABLES
    jar,      \* the cookies: is there an access token, and which refresh token
    active,   \* refresh_tokens that are not revoked
    issued,   \* how many were issued
    logins,   \* how often somebody logged in
    auth,     \* auth[t] : the status of tab t's auth store
    request,  \* request[t][s] : a request of tab t
    refresh,  \* refresh[t][s] : the POST /auth/refresh that request began
    logout,   \* logout[t] : the POST /auth/logout of tab t
    excused   \* history: there was a reason for a tab to be logged out

sessionVars == <<jar, active, issued, logins, auth, request, refresh, logout, excused>>

NoCookies == [access |-> FALSE, token |-> 0]
NoRequest == [pc |-> "idle", access |-> FALSE]
NoRefresh == [pc |-> "idle", token |-> 0]

RequestOf(t, s, r) == request' = [request EXCEPT ![t][s] = r]
RefreshOf(t, s, r) == refresh' = [refresh EXCEPT ![t][s] = r]
Authenticate(t, status) == auth' = [auth EXCEPT ![t] = status]

\* Bound: every request under way may need a new token.
TokensLeft ==
    issued + Cardinality({ts \in Tabs \X Slots : request[ts[1]][ts[2]].pc # "idle"}) < MaxTokens

\* What a request's end means for the store: getMe, the first one, opens the tab.
Opened(t) == IF auth[t] = "unknown" THEN "in" ELSE auth[t]

-----------------------------------------------------------------------------
(* A tab's requests.                                                       *)

\* hydrateAuthState asks who the user is; after that the pages ask.
Ask(t, s) ==
    /\ request[t][s].pc = "idle" /\ logout[t] = "idle" /\ TokensLeft
    /\ \/ auth[t] = "unknown" /\ \A q \in Slots : request[t][q].pc = "idle"
       \/ auth[t] = "in"
    /\ RequestOf(t, s, [pc |-> "sent", access |-> jar.access])
    /\ UNCHANGED <<jar, active, issued, logins, auth, refresh, logout, excused>>

\* Mutant: each request that finds the token expired refreshes for itself.
StartAlone(t, s) ==
    /\ refresh' = [refresh EXCEPT ![t][s] = [pc |-> "sent", token |-> jar.token]]
    /\ excused' = (excused \/ \E u \in Tabs \ {t}, q \in Slots : refresh[u][q].pc # "idle")

\* refreshSession: the tab's refresh under way is joined, or one is sent.
RefreshSession(t, s) ==
    IF \E q \in Slots : refresh[t][q].pc # "idle"
    THEN UNCHANGED <<refresh, excused>>
    ELSE /\ refresh' = [refresh EXCEPT ![t][s] = [pc |-> "sent", token |-> jar.token]]
         /\ excused' = (excused \/ \E u \in Tabs \ {t}, q \in Slots : refresh[u][q].pc # "idle")

\* request: 200, or a 401 for which the session is refreshed, or a second 401.
Answer(t, s) ==
    LET r == request[t][s] IN
    /\ \/ /\ r.pc \in {"sent", "again"} /\ r.access
          /\ RequestOf(t, s, NoRequest)
          /\ Authenticate(t, Opened(t))
          /\ UNCHANGED <<refresh, excused>>
       \/ /\ r.pc = "sent" /\ ~r.access
          /\ RequestOf(t, s, [r EXCEPT !.pc = "waiting"])
          /\ RefreshSession(t, s)
          /\ UNCHANGED auth
       \/ /\ r.pc = "again" /\ ~r.access
          /\ RequestOf(t, s, NoRequest)
          /\ Authenticate(t, "out")
          /\ UNCHANGED <<refresh, excused>>
    /\ UNCHANGED <<jar, active, issued, logins, logout>>

\* The network fails: a page shows the error, but the first request of all
\* counts as not logged in.
Fail(t, s) ==
    /\ request[t][s].pc \in {"sent", "again"}
    /\ RequestOf(t, s, NoRequest)
    /\ Authenticate(t, IF auth[t] = "unknown" THEN "out" ELSE auth[t])
    /\ excused' = (excused \/ auth[t] = "unknown")
    /\ UNCHANGED <<jar, active, issued, logins, refresh, logout>>

-----------------------------------------------------------------------------
(* The refresh: on the server, and its answer.                             *)

\* RefreshToken looks the cookie's token up.
Lookup(t, s) ==
    LET f == refresh[t][s] IN
    /\ f.pc = "sent"
    /\ RefreshOf(t, s, [f EXCEPT !.pc = IF f.token \in active THEN "found" ELSE "rejected"])
    /\ UNCHANGED <<jar, active, issued, logins, auth, request, logout, excused>>

\* Mutant: the token may have been revoked since it was looked up.
RotateRevoked(t, s) ==
    /\ refresh[t][s].pc = "found"
    /\ active' = (active \ {refresh[t][s].token}) \union {issued + 1}
    /\ issued' = issued + 1
    /\ RefreshOf(t, s, [pc |-> "granted", token |-> issued + 1])
    /\ UNCHANGED <<jar, logins, auth, request, logout, excused>>

\* RotateRefreshSession: unless another request revoked the token meanwhile.
Rotate(t, s) ==
    LET f == refresh[t][s] IN
    /\ f.pc = "found"
    /\ IF f.token \in active
       THEN /\ active' = (active \ {f.token}) \union {issued + 1}
            /\ issued' = issued + 1
            /\ RefreshOf(t, s, [pc |-> "granted", token |-> issued + 1])
       ELSE RefreshOf(t, s, [f EXCEPT !.pc = "rejected"]) /\ UNCHANGED <<active, issued>>
    /\ UNCHANGED <<jar, logins, auth, request, logout, excused>>

\* The requests that wait are sent again with the new cookies, or fail.
Resume(t, again, cookies) ==
    request' = [request EXCEPT ![t] = [q \in Slots |->
        IF request[t][q].pc # "waiting" THEN request[t][q]
        ELSE IF again THEN [pc |-> "again", access |-> cookies.access] ELSE NoRequest]]

Granted(t, s) ==
    LET cookies == [access |-> TRUE, token |-> refresh[t][s].token] IN
    /\ refresh[t][s].pc = "granted"
    /\ jar' = cookies
    /\ Authenticate(t, "in")
    /\ Resume(t, TRUE, cookies)
    /\ RefreshOf(t, s, NoRefresh)
    /\ UNCHANGED <<active, issued, logins, logout, excused>>

\* Mutant: shouldRefresh lets the refresh itself wait for a refresh.
RejectedRefreshes(t, s) ==
    /\ refresh[t][s].pc = "rejected"
    /\ jar' = NoCookies
    /\ RefreshOf(t, s, [pc |-> "stuck", token |-> 0])
    /\ UNCHANGED <<auth, request, active, issued, logins, logout, excused>>

\* The 401 clears the cookies, whichever they are by now.
Rejected(t, s) ==
    /\ refresh[t][s].pc = "rejected"
    /\ jar' = NoCookies
    /\ Authenticate(t, "out")
    /\ Resume(t, FALSE, NoCookies)
    /\ RefreshOf(t, s, NoRefresh)
    /\ UNCHANGED <<active, issued, logins, logout, excused>>

\* The refresh or its answer is lost, or the server fails: the tab is logged
\* out, whether or not the token was exchanged.
LoseRefresh(t, s) ==
    /\ refresh[t][s].pc \in {"sent", "granted", "rejected"}
    /\ Authenticate(t, "out")
    /\ Resume(t, FALSE, NoCookies)
    /\ RefreshOf(t, s, NoRefresh)
    /\ excused' = TRUE
    /\ UNCHANGED <<jar, active, issued, logins, logout>>

-----------------------------------------------------------------------------
(* Logging in and out, and time.                                           *)

\* handleLogout; the handler revokes the token of the cookie it was sent.
LogOut(t) ==
    /\ auth[t] = "in" /\ logout[t] = "idle"
    /\ active' = active \ {jar.token}
    /\ logout' = [logout EXCEPT ![t] = "answered"]
    /\ excused' = TRUE
    /\ UNCHANGED <<jar, issued, logins, auth, request, refresh>>

\* Then the page is loaded afresh.
LoggedOut(t) ==
    /\ logout[t] = "answered"
    /\ jar' = NoCookies
    /\ Authenticate(t, "out")
    /\ request' = [request EXCEPT ![t] = [s \in Slots |-> NoRequest]]
    /\ refresh' = [refresh EXCEPT ![t] = [s \in Slots |-> NoRefresh]]
    /\ logout' = [logout EXCEPT ![t] = "idle"]
    /\ UNCHANGED <<active, issued, logins, excused>>

\* Login, AuthCallback and issueSession; GitHub vouches for the user.
LogIn(t) ==
    /\ auth[t] = "out" /\ TokensLeft
    /\ \A s \in Slots : request[t][s].pc = "idle" /\ refresh[t][s].pc = "idle"
    /\ issued' = issued + 1
    /\ logins' = logins + 1
    /\ active' = active \union {issued + 1}
    /\ jar' = [access |-> TRUE, token |-> issued + 1]
    /\ Authenticate(t, "in")
    /\ UNCHANGED <<request, refresh, logout, excused>>

\* A tab is loaded afresh while it has nothing under way.
Reload(t) ==
    /\ auth[t] # "unknown" /\ logout[t] = "idle"
    /\ \A s \in Slots : request[t][s].pc = "idle" /\ refresh[t][s].pc = "idle"
    /\ Authenticate(t, "unknown")
    /\ UNCHANGED <<jar, active, issued, logins, request, refresh, logout, excused>>

\* The access token's cookie has run out.
AccessExpires ==
    /\ jar.access
    /\ jar' = [jar EXCEPT !.access = FALSE]
    /\ UNCHANGED <<active, issued, logins, auth, request, refresh, logout, excused>>

-----------------------------------------------------------------------------
\* Somebody has logged in, in one of the tabs or before they were opened.
SessionInit ==
    /\ jar = [access |-> TRUE, token |-> 1]
    /\ active = {1} /\ issued = 1 /\ logins = 1
    /\ auth = [t \in Tabs |-> "unknown"]
    /\ request = [t \in Tabs |-> [s \in Slots |-> NoRequest]]
    /\ refresh = [t \in Tabs |-> [s \in Slots |-> NoRefresh]]
    /\ logout = [t \in Tabs |-> "idle"]
    /\ excused = FALSE

\* What needs no user: answers, and the server's handlers.
Served(t, s) == Answer(t, s) \/ Lookup(t, s) \/ Rotate(t, s) \/ Granted(t, s) \/ Rejected(t, s)

SessionNext ==
    \/ \E t \in Tabs, s \in Slots :
         Served(t, s) \/ Ask(t, s) \/ Fail(t, s) \/ LoseRefresh(t, s)
    \/ \E t \in Tabs : LogOut(t) \/ LoggedOut(t) \/ LogIn(t) \/ Reload(t)
    \/ AccessExpires

-----------------------------------------------------------------------------
SessionTypeOK ==
    /\ jar \in [access : BOOLEAN, token : 0..issued]
    /\ active \subseteq 1..issued /\ issued \in 1..MaxTokens /\ logins \in 1..issued
    /\ auth \in [Tabs -> {"unknown", "in", "out"}]
    /\ request \in [Tabs -> [Slots -> [pc : {"idle", "sent", "waiting", "again"},
                                       access : BOOLEAN]]]
    /\ refresh \in [Tabs -> [Slots -> [pc : {"idle", "sent", "found", "granted", "rejected"},
                                       token : 0..issued]]]
    /\ logout \in [Tabs -> {"idle", "answered"}]
    /\ excused \in BOOLEAN

(* A refresh token is good for one exchange, however many tabs present it: *)
(* there are never more sessions than there were logins                    *)
(* (RefreshToken, RotateRefreshSession).                                   *)
OneSessionPerLogin == Cardinality(active) <= logins

(* A tab is logged out only if somebody logged out, an answer it needed    *)
(* was lost, or two tabs refreshed at once: its own requests, however many *)
(* find the token expired together, do not log it out (refreshSession).    *)
NotLoggedOutByItself == (\E t \in Tabs : auth[t] = "out") => excused

(* A request ends: it never waits for a refresh that waits for itself      *)
(* (request, shouldRefresh).  Said of one request: the tabs are alike, and *)
(* so are the requests of a tab.                                           *)
RequestsEnd ==
    LET watched == request[CHOOSE t \in Tabs : TRUE][CHOOSE s \in Slots : TRUE]
    IN  watched.pc = "sent" ~> watched.pc = "idle"
=============================================================================
