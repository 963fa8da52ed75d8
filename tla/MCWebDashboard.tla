--------------------------- MODULE MCWebDashboard ---------------------------
EXTENDS WebDashboard, FormTable

\* Forms with the same row differ only in what they say.  Bound: two rows are left
\* out whose columns the other rows have, in pairs, and which are large.
Kinds == {AllForms[f] : f \in DOMAIN AllForms \ {"deploy_branch", "delete_preview"}}

App(framework, path, output, build) ==
    [framework |-> framework, path |-> path, output |-> output, build |-> build, buildable |-> TRUE]
Library == [App("vite", "lib", "", "") EXCEPT !.buildable = FALSE]

Single == [monorepo |-> FALSE, manager |-> "pnpm", apps |-> {App("vite", "", "", "")}]
Several == [monorepo |-> TRUE, manager |-> "pnpm",
            apps |-> {App("nextjs", "apps/web", "out", "turbo build"),
                      App("node-api", "apps/api", "", ""), Library}]
NoApp == [monorepo |-> FALSE, manager |-> "auto", apps |-> {}]

Found1 == [main |-> Single, dev |-> NoApp]
Found2 == [main |-> Several, dev |-> Single]
Inspections == [one |-> Found1, many |-> Found2]
=============================================================================
