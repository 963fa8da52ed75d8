------------------------------ MODULE ToolTable ------------------------------
(***************************************************************************)
(* What each tool of the MCP server declares and asks of the API           *)
(* (mcp/src/tools).  A row says which request the tool ends with, which    *)
(* safety tier it checks first in each environment, whether it expects the *)
(* name of its subject in confirm_name, whether the call is audited, how   *)
(* its subject is found, and what it waits for afterwards.                 *)
(*                                                                         *)
(* Schemas, descriptions and the text of the answers are left out; so are  *)
(* the secondary GETs whose failure a tool ignores.                        *)
(***************************************************************************)
EXTENDS TLC

Environments == {"preview", "production"}  \* "shared" is gated as preview is
Tiers == {"read", "mutating", "destructive", "destructive_production"}

\* Idempotent on the server, by ON CONFLICT: the variable stores' upserts.
VariablePaths == {"env", "secrets"}

Row == [method : {"GET", "POST", "PUT", "PATCH", "DELETE"}, path : {"other"} \union VariablePaths,
        tier : [Environments -> Tiers], named : BOOLEAN, audit : BOOLEAN,
        subject : {"project", "group", "none"}, follow : {"nothing", "deployment", "release"}]

Always(tier) == [e \in Environments |-> tier]
ByEnvironment ==
    [e \in Environments |-> IF e = "production" THEN "destructive_production" ELSE "destructive"]
ProductionOnly ==
    [e \in Environments |-> IF e = "production" THEN "destructive_production" ELSE "mutating"]

Ungated(method, subject) ==
    [method |-> method, path |-> "other", named |-> FALSE, audit |-> FALSE, subject |-> subject,
     tier |-> Always(IF method = "GET" THEN "read" ELSE "mutating"), follow |-> "nothing"]
Reads(subject) == Ungated("GET", subject)
Gated(method, tier, named) ==
    [Ungated(method, "project") EXCEPT !.tier = tier, !.named = named, !.audit = TRUE]
Audited(row) == [row EXCEPT !.audit = TRUE]
Upsert(path, subject) == [Ungated("POST", subject) EXCEPT !.path = path]
OnPath(row, path) == [row EXCEPT !.path = path]
Following(row, what) == [row EXCEPT !.follow = what]

-----------------------------------------------------------------------------
ProjectTools ==
    "list_projects" :> Reads("none") @@ "get_project" :> Reads("project")
    @@ "create_project" :> Ungated("POST", "none")

ProjectChanges ==
    "update_project" :> Ungated("PATCH", "project")
    @@ "delete_project" :> Gated("DELETE", Always("destructive_production"), TRUE)

DeploymentTools ==
    "list_deployments" :> Reads("project") @@ "get_deployment" :> Reads("project")
    @@ "trigger_deployment" :> Ungated("POST", "project")
    @@ "get_deploy_logs" :> Reads("none")

EnvTools ==
    "list_env_vars" :> Reads("project") @@ "upsert_env_var" :> Upsert("env", "project")
    @@ "bulk_set_env_vars" :> OnPath(Gated("PUT", ByEnvironment, TRUE), "env")
    @@ "delete_env_var" :> OnPath(Gated("DELETE", ByEnvironment, TRUE), "env")

SecretTools ==
    "list_secrets" :> Reads("project") @@ "upsert_secret" :> Upsert("secrets", "project")
    @@ "bulk_set_secrets" :> OnPath(Gated("PUT", ByEnvironment, TRUE), "secrets")
    @@ "delete_secret" :> OnPath(Gated("DELETE", ByEnvironment, TRUE), "secrets")

DomainTools ==
    "list_domains" :> Reads("project") @@ "add_domain" :> Ungated("POST", "project")
    @@ "verify_domain" :> Ungated("POST", "project")
    @@ "update_domain" :> Ungated("PATCH", "project")
    @@ "delete_domain" :> Gated("DELETE", Always("destructive"), FALSE)

ServiceTools ==
    "list_services" :> Reads("project")
    @@ "attach_service" :> Audited(Ungated("POST", "project"))
    @@ "detach_service" :> Gated("DELETE", ByEnvironment, TRUE)
    @@ "get_service_credentials" :> Audited(Reads("project"))

ServiceOperations ==
    "regenerate_service_password" :> Gated("POST", ByEnvironment, TRUE)
    @@ "restart_service" :> Gated("POST", ByEnvironment, TRUE)
    @@ "reset_service" :> Gated("POST", Always("destructive_production"), TRUE)

GroupTools ==
    "list_groups" :> Reads("none") @@ "create_group" :> Ungated("POST", "none")
    @@ "update_group" :> Ungated("PATCH", "group")
    @@ "move_projects_to_group" :> Ungated("PUT", "group")
    @@ "delete_group" :>
         [Gated("DELETE", Always("destructive"), TRUE) EXCEPT !.subject = "group"]

AppTools ==
    "list_apps" :> Reads("none") @@ "create_app" :> Ungated("POST", "none")
    @@ "get_app_health" :> Reads("none") @@ "update_app" :> Ungated("PATCH", "none")
    @@ "delete_app" :> Ungated("DELETE", "none")
    @@ "add_project_to_app" :> Ungated("POST", "none")
    @@ "remove_project_from_app" :> Ungated("DELETE", "none")

AppRolloutTools ==
    "deploy_app" :> Ungated("POST", "none")
    @@ "deploy_app_and_wait" :> Following(Ungated("POST", "none"), "release")
    @@ "list_app_releases" :> Reads("none") @@ "rollback_app" :> Ungated("POST", "none")

AppVariableTools ==
    "list_app_env_vars" :> Reads("none") @@ "list_app_secrets" :> Reads("none")
    @@ "set_app_env_var" :> Upsert("env", "none") @@ "set_app_secret" :> Upsert("secrets", "none")
    @@ "delete_app_env_var" :> OnPath(Ungated("DELETE", "none"), "env")
    @@ "delete_app_secret" :> OnPath(Ungated("DELETE", "none"), "secrets")

AutoBuildTools ==
    "get_auto_build" :> Reads("project") @@ "configure_auto_build" :> Ungated("PUT", "project")
    @@ "delete_auto_build" :> Gated("DELETE", Always("destructive"), FALSE)

\* set_protection is two rows: its tier depends on what it sets.
ProtectionTools ==
    "get_protection" :> Reads("project")
    @@ "set_protection_on" :> Gated("PUT", ProductionOnly, TRUE)
    @@ "set_protection_off" :> Gated("PUT", ByEnvironment, TRUE)
    @@ "regenerate_protection_password" :> Gated("POST", ByEnvironment, TRUE)
    @@ "get_bypass_link" :> Reads("project")
    @@ "rotate_bypass_link" :> Gated("POST", Always("destructive"), TRUE)

VolumeTools ==
    "list_volumes" :> Reads("project")
    @@ "delete_volume" :> Gated("DELETE", ByEnvironment, TRUE)
    @@ "recreate_volume" :> Gated("POST", ByEnvironment, TRUE)

EmailTools ==
    "get_project_email" :> Reads("project") @@ "update_project_email" :> Ungated("PUT", "project")
    @@ "test_project_smtp" :> Gated("POST", Always("destructive"), FALSE)

TokenTools ==
    "list_my_tokens" :> Reads("none") @@ "create_my_token" :> Ungated("POST", "none")
    @@ "revoke_my_token" :>
         [Gated("DELETE", Always("destructive"), FALSE) EXCEPT !.subject = "none"]

GithubTools ==
    "list_github_repos" :> Reads("none") @@ "list_github_branches" :> Reads("none")
    @@ "inspect_github_repo" :> Reads("none")

WorkspaceTools ==
    "list_workspaces" :> Reads("none") @@ "get_platform_info" :> Reads("none")
    @@ "whoami" :> Reads("none") @@ "get_health" :> Reads("none")

AnalyticsTools ==
    "get_project_analytics" :> Reads("project")
    @@ "verify_project_analytics" :> Ungated("POST", "project")

WorkflowTools ==
    "setup_project_from_repo" :> Ungated("POST", "none")
    @@ "deploy_project" :> Following(Gated("POST", ProductionOnly, TRUE), "deployment")

VariableTools ==
    "set_secret" :> Upsert("secrets", "project") @@ "set_env_var" :> Upsert("env", "project")
    @@ "wait_for_deployment" :> Following(Reads("project"), "deployment")

HealthTools == "get_project_health" :> Reads("project")

UrlTools ==
    "whats_my_url" :> Reads("project")
    @@ "whats_broken" :> Reads("project")

RedeployTools == "redeploy" :> Following(Gated("POST", ProductionOnly, TRUE), "deployment")

\* registerAllTools: the tools with a request of their own.
AllTools ==
    ProjectTools @@ ProjectChanges @@ DeploymentTools @@ EnvTools @@ SecretTools @@ DomainTools
    @@ ServiceTools @@ ServiceOperations @@ GroupTools @@ AppTools @@ AppRolloutTools
    @@ AppVariableTools @@ AutoBuildTools @@ ProtectionTools @@ VolumeTools @@ EmailTools
    @@ TokenTools @@ GithubTools @@ WorkspaceTools @@ AnalyticsTools @@ WorkflowTools
    @@ VariableTools @@ HealthTools @@ UrlTools @@ RedeployTools
=============================================================================
