----------------------------- MODULE McpPackage -----------------------------
(***************************************************************************)
(* The MCP package: its installers and the tool calls it serves.           *)
(***************************************************************************)
EXTENDS McpTools, McpInstall

vars == <<toolVars, installVars>>

\* Bound: a behaviour installs the package, or calls a tool of it.
NotInstalled == runs = 0 /\ edited = {} /\ \A f \in Files : file[f] = Absent
NoProject == call.pc = "idle" /\ binding = Nothing /\ \A i \in Ids : projects[i] = "unborn"

Init == ToolInit /\ InstallInit /\ (NotInstalled \/ NoProject)

ToolStep(A) == NotInstalled /\ A /\ UNCHANGED installVars
InstallStep == NoProject /\ InstallNext /\ UNCHANGED toolVars

Next == ToolStep(ToolNext) \/ InstallStep

\* A call runs on, its requests are answered and its timeout fires.
Fairness == WF_vars(ToolStep(Onwards))

Spec == Init /\ [][Next]_vars /\ Fairness

\* Every variable of the calls and of the installers has its type.
TypeOK == ToolTypeOK /\ InstallTypeOK
=============================================================================
