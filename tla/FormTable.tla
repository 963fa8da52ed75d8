------------------------------ MODULE FormTable ------------------------------
(***************************************************************************)
(* What each form and button of the dashboard does with what the user      *)
(* typed and with the answer to its mutation (web pages and components).   *)
(*                                                                         *)
(*   draft    "none": nothing is typed; "local": the fields start empty or *)
(*            with what is there; "data": an effect fills them whenever    *)
(*            the query brings something new                               *)
(*   dirty    it can be submitted only with something typed                *)
(*   confirm  a dialog or a second click comes first                       *)
(*   guarded  it is disabled while its mutation is pending                 *)
(*   settles  onSuccess invalidates the query, or does so only while the   *)
(*            form is on the screen, or adopts the answer                  *)
(*   onError  the query is invalidated then too, or nothing happens        *)
(*   clears   when the fields are emptied again                            *)
(*   stays    it stays, with its state, when the project is switched       *)
(*   leaves   onSuccess navigates to another page                          *)
(*   submits  it has a mutation; a view only shows its query               *)
(*   lenient  a failed fetch counts as nothing being configured            *)
(*   polls    the page polls while a "deployment" is active; those of a    *)
(*            "rollout" begin only after the answer                        *)
(*                                                                         *)
(* Labels, layout, icons, toasts and the validation of single fields are   *)
(* left out: a field that is refused is one that is not typed yet.         *)
(***************************************************************************)
EXTENDS TLC

Row == [draft : {"none", "local", "data"}, dirty : BOOLEAN, confirm : BOOLEAN, guarded : BOOLEAN,
        settles : {"refetch", "if_shown", "adopt"}, onError : {"refetch", "nothing"},
        clears : {"never", "submit", "success"}, stays : BOOLEAN, leaves : BOOLEAN,
        submits : BOOLEAN, lenient : BOOLEAN, polls : {"never", "deployment", "rollout"}]

Form(typing) ==
    [draft |-> typing, dirty |-> FALSE, confirm |-> FALSE, guarded |-> TRUE, settles |-> "refetch",
     onError |-> "nothing", clears |-> "never", stays |-> FALSE, leaves |-> FALSE,
     submits |-> TRUE, lenient |-> FALSE, polls |-> "never"]
Button == Form("none")
Filled(row) == [row EXCEPT !.dirty = TRUE]
Cleared(row) == [row EXCEPT !.clears = "success"]
NewEntry == Cleared(Filled(Form("local")))
AfterDialog(row) == [row EXCEPT !.confirm = TRUE]
Unguarded(row) == [row EXCEPT !.guarded = FALSE]
Adopting(row) == [row EXCEPT !.settles = "adopt"]
RefetchingOnError(row) == [row EXCEPT !.onError = "refetch"]
Staying(row) == [row EXCEPT !.stays = TRUE]
Leaving(row) == [row EXCEPT !.leaves = TRUE]
Deploying(row) == [row EXCEPT !.polls = "deployment"]
View == [Button EXCEPT !.submits = FALSE]

-----------------------------------------------------------------------------
(* A project's settings.                                                   *)

BuildSettings == "save_build_settings" :> Form("local")

\* One mutation for the switches and the branches; both send all that is typed.
AutoBuildSaves == [RefetchingOnError(Adopting(Form("data"))) EXCEPT !.lenient = TRUE]
AutoBuildSwitches == "switch_auto_build" :> AutoBuildSaves @@ "switch_production" :> AutoBuildSaves
AutoBuildBranches == "save_auto_build" :> AutoBuildSaves

RuntimeSettings == "save_runtime_settings" :> Form("local")

Volumes ==
    "recreate_volume" :> AfterDialog(Button) @@ "delete_volume" :> AfterDialog(Button)

DangerZone == "delete_project" :> Unguarded(AfterDialog(Leaving(Button)))

Resources == "save_resource_tier" :> Filled(Form("data"))

ProtectionSwitch == "toggle_protection" :> Button
ProtectionPassword == "save_password" :> NewEntry

\* VariableStore's mutations: each of them fetches the list again.
VariableSaves == NewEntry
VariableDialog == "save_variable" :> VariableSaves
VariableImport == "import_variables" :> VariableSaves
VariableList == "delete_variable" :> Button

EmailSaves == Adopting(Form("data"))
EmailFields == "save_email" :> EmailSaves @@ "test_email" :> RefetchingOnError(EmailSaves)

ServiceMutations == "attach_service" :> Button @@ "restart_service" :> Button
ServiceConfirmations ==
    "detach_service" :> Unguarded(AfterDialog(Button))
    @@ "reset_service" :> Unguarded(AfterDialog(Button))

\* The verification of a domain is DomainVerification's.
DomainForms ==
    "add_domain" :> NewEntry @@ "move_domain" :> Button @@ "set_primary_domain" :> Button
    @@ "delete_domain" :> AfterDialog(Button)

Credentials == "regenerate_password" :> Adopting(Button)

Analytics == "verify_analytics" :> Button

Integration == "verify_integration" :> Button

-----------------------------------------------------------------------------
(* A project's pages and its header.                                       *)

ProjectName == "rename_project" :> Staying(NewEntry)

\* Deploys from the header go on to the deployment's own page.
HeaderDeploys ==
    "deploy_preview" :> Staying(Leaving(Button))
    @@ "deploy_branch" :> Staying(Leaving(Filled(Form("local"))))
    @@ "deploy_production" :> Staying(Leaving(AfterDialog(Button)))

RebuildBanner ==
    "rebuild_preview" :> Staying(Leaving(Button))
    @@ "rebuild_production" :> Staying(Leaving(AfterDialog(Button)))

PreviewInstances == "delete_preview" :> Staying(AfterDialog(Button))

Overview == "project_overview" :> Staying(Deploying(View))

DeploymentSaves == Deploying(Button)
Deployments == "deploy" :> DeploymentSaves
ReleaseDialog == "release" :> AfterDialog(DeploymentSaves)

-----------------------------------------------------------------------------
(* Apps.                                                                   *)

NewApp == "create_app" :> NewEntry

AppName == "rename_app" :> Filled(Form("local"))

\* A move sends the whole order, made from the list that is shown.
MemberOrder ==
    "order_members" :> Unguarded(Button) @@ "move_member" :> Button
    @@ "remove_member" :> Unguarded(Button)
MemberDialog == "add_members" :> NewEntry

\* Its onSuccess is given to mutate: it is not called once the page is left.
AppDanger ==
    "delete_app" :> [Unguarded(AfterDialog(Leaving(Button))) EXCEPT !.settles = "if_shown"]

AppVariables == "save_app_variable" :> NewEntry @@ "delete_app_variable" :> Button

AppDeploys == "deploy_app" :> [Button EXCEPT !.polls = "rollout"]

AppRollbacks == "rollback_app" :> Button

AppDeployments == "app_deployments" :> Deploying(View)
AppTopology == "app_topology" :> View

-----------------------------------------------------------------------------
(* Groups and the account.                                                 *)

\* A save that changes nothing sends nothing.
GroupSaves ==
    "create_group" :> NewEntry @@ "save_group" :> Cleared(Filled(Form("data")))
GroupDeletion == "delete_group" :> Button

GroupMembers ==
    "create_invite" :> [NewEntry EXCEPT !.clears = "submit"]
    @@ "cancel_invite" :> Button @@ "update_group_member" :> Button
    @@ "remove_group_member" :> Button
ProjectList == "projects" :> View

Invites == "accept_invite" :> Button @@ "decline_invite" :> Button

TokenDialog == "create_token" :> NewEntry
TokenList == "revoke_token" :> Button

PushSubscription == "enable_push" :> Button
PushSettings == "update_push" :> Button @@ "remove_push" :> Button

AllForms ==
    BuildSettings @@ AutoBuildSwitches @@ AutoBuildBranches @@ RuntimeSettings @@ Volumes
    @@ DangerZone @@ Resources @@ ProtectionSwitch @@ ProtectionPassword @@ VariableDialog
    @@ VariableImport @@ VariableList @@ EmailFields @@ ServiceMutations @@ ServiceConfirmations
    @@ DomainForms @@ Credentials @@ Analytics @@ Integration @@ ProjectName @@ HeaderDeploys
    @@ RebuildBanner @@ PreviewInstances @@ Overview @@ Deployments @@ ReleaseDialog @@ NewApp
    @@ AppName @@ MemberOrder @@ MemberDialog @@ AppDanger @@ AppVariables @@ AppDeploys
    @@ AppRollbacks @@ AppDeployments @@ AppTopology @@ GroupSaves @@ GroupDeletion
    @@ GroupMembers @@ ProjectList @@ Invites @@ TokenDialog @@ TokenList @@ PushSubscription
    @@ PushSettings

\* Every row is one; TLC evaluates it on each run.
ASSUME RowsAssumption == \A f \in DOMAIN AllForms : AllForms[f] \in Row
=============================================================================
