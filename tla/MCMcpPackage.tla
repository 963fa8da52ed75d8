---------------------------- MODULE MCMcpPackage ----------------------------
EXTENDS McpPackage, ToolTable

\* One tool of each kind, and the one that deletes a project.
OneOfEach ==
    {CHOOSE t \in DOMAIN AllTools : AllTools[t] = row :
        row \in {AllTools[t] : t \in DOMAIN AllTools}}
    \union {"delete_project"}

Tools == [t \in OneOfEach |-> AllTools[t]]
=============================================================================
