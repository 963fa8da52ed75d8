---------------------------- MODULE WebDashboard ----------------------------
(***************************************************************************)
(* The dashboard: its sessions, its forms with the queries they show, the  *)
(* import of a repository, and the live container logs.                    *)
(***************************************************************************)
EXTENDS Sessions, Forms, ProjectImport, LiveLogs

VARIABLE scene  \* bound: a behaviour is about one of them

vars == <<sessionVars, formVars, importVars, logVars, scene>>

Scenes == {"sessions", "form", "import", "logs"}

Init ==
    /\ scene \in Scenes
    /\ SessionInit /\ FormInit /\ ImportInit /\ LogInit
    /\ scene # "form" => form = CHOOSE row \in Rows : TRUE

SessionStep(A) == scene = "sessions" /\ A /\ UNCHANGED <<formVars, importVars, logVars, scene>>
FormStep(A) == scene = "form" /\ A /\ UNCHANGED <<sessionVars, importVars, logVars, scene>>
ImportStep(A) == scene = "import" /\ A /\ UNCHANGED <<sessionVars, formVars, logVars, scene>>
LogStep(A) == scene = "logs" /\ A /\ UNCHANGED <<sessionVars, formVars, importVars, scene>>

Next ==
    \/ SessionStep(SessionNext) \/ FormStep(FormNext) \/ ImportStep(ImportNext)
    \/ LogStep(LogNext)

\* Requests are answered, the server works on, and a page that polls polls.
Fairness ==
    /\ \A t \in Tabs, s \in Slots : WF_vars(SessionStep(Served(t, s)))
    /\ WF_vars(FormStep(Poll))
    /\ \A p \in Projects :
         WF_vars(FormStep(ServeRead(p) \/ Arrive(p))) /\ WF_vars(FormStep(Progress(p)))

Spec == Init /\ [][Next]_vars /\ Fairness

\* Every variable of the sessions, forms, import and logs has its type.
TypeOK ==
    scene \in Scenes /\ SessionTypeOK /\ FormTypeOK /\ ImportTypeOK /\ LogTypeOK
=============================================================================
