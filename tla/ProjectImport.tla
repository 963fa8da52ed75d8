---------------------------- MODULE ProjectImport ----------------------------
(***************************************************************************)
(* Importing a repository (web pages/NewProject.tsx, pick-app.tsx,         *)
(* build-settings.tsx): a repository is selected, the branch is inspected, *)
(* an app of it fills the build settings, the user edits them, presets     *)
(* replace what is still a preset, and the project is created, with a      *)
(* database for each environment if that was asked for.                    *)
(*                                                                         *)
(* A setting is the text of its field.  The install command is treated as  *)
(* the build command, and the health path as the start command.            *)
(***************************************************************************)
EXTENDS Naturals, FiniteSets

CONSTANTS
    Repos, Branches, DefaultBranch,
    Contents,      \* Contents[r][b] : what inspecting branch b of r finds
    MaxInspections, \* bound: how many branches are inspected
    MaxEdits        \* bound: how many edits

Frameworks == {"nextjs", "vite", "node-api"}   \* astro and static are as vite
Managers == {"auto", "pnpm"}                   \* and bun, npm, yarn

ASSUME ImportAssumption ==
    /\ DefaultBranch \in Branches
    /\ MaxInspections \in Nat /\ MaxEdits \in Nat
    /\ \A r \in Repos, b \in Branches :
         LET c == Contents[r][b] IN
         c.manager \in Managers /\ \A app \in c.apps : app.framework \in Frameworks

VARIABLES
    repo, branch, \* what is selected
    picked,       \* appPicked
    settings,     \* buildSettings
    inspection,   \* inspection[r][b] : the query of that branch
    inspected,    \* how many branches were inspected
    options,      \* the switches
    edits,        \* how many edits there were
    creation,     \* the mutation that creates the project
    typed         \* history: the fields typed into since an app was picked

importVars ==
    <<repo, branch, picked, settings, inspection, inspected, options, edits, creation, typed>>

NoRepo == "no repository"
Fields == {"root", "output", "build", "start"}
Typed == "typed"

BuildCommand(manager) == IF manager = "pnpm" THEN "pnpm run build" ELSE "bun run build"

\* getFrameworkDefaults
FrameworkDefaults(framework, manager) ==
    [framework |-> framework, manager |-> manager,
     root |-> "",
     output |-> IF framework = "nextjs" THEN ".next" ELSE "dist",
     build |-> BuildCommand(manager),
     start |-> IF framework = "node-api" THEN "node dist/main.js" ELSE ""]

\* syncBuildSettingsWithFramework: a field that is empty or still the old
\* framework's gets the new framework's.
SyncFramework(values, framework) ==
    LET old == FrameworkDefaults(values.framework, values.manager)
        new == FrameworkDefaults(framework, values.manager) IN
    [f \in DOMAIN values |->
        IF f = "framework" THEN framework
        ELSE IF f \in {"output", "build", "start"} /\ values[f] \in {"", old[f]} THEN new[f]
        ELSE values[f]]

\* isKnownBuildDefault
IsKnownBuildDefault(command) == \E m \in Managers : command = BuildCommand(m)

\* Mutant: the command is replaced whatever it is.
SyncManagerAlways(values, manager) ==
    [values EXCEPT !.manager = manager, !.build = BuildCommand(manager)]

\* syncBuildSettingsWithPackageManager
SyncManager(values, manager) ==
    [values EXCEPT !.manager = manager,
                   !.build = IF @ = "" \/ IsKnownBuildDefault(@) THEN BuildCommand(manager) ELSE @]

\* buildSettingsFromApp: the start command stays as it was.
FromApp(app, manager, values) ==
    LET seeded == FrameworkDefaults(app.framework, manager) IN
    [values EXCEPT !.framework = app.framework, !.manager = manager, !.root = app.path,
                   !.output = IF app.output # "" THEN app.output ELSE seeded.output,
                   !.build = IF app.build # "" THEN app.build ELSE seeded.build]

-----------------------------------------------------------------------------
Untouched == UNCHANGED <<options, edits, creation>>

\* What the page knows of the branch that is selected.
Found(r, b, queries) == r # NoRepo /\ queries[r][b] = "found"
Here == Contents[repo][branch]
Monorepo == Found(repo, branch, inspection) /\ Here.monorepo

(* The page after an update: useQuery inspects a branch it knows nothing   *)
(* of, and an effect fills in the only app of a repository.                *)
Rendered(r, b, done, values, queries, edited) ==
    LET c == Contents[r][b]
        app == CHOOSE a \in c.apps : TRUE
        fills == Found(r, b, queries) /\ ~done /\ ~c.monorepo /\ c.apps # {}
        asks == r # NoRepo /\ queries[r][b] = "unknown" IN
    /\ repo' = r /\ branch' = b
    /\ picked' = (done \/ fills)
    /\ settings' = IF fills THEN FromApp(app, c.manager, values) ELSE values
    /\ typed' = edited
    /\ inspection' = IF asks THEN [queries EXCEPT ![r][b] = "loading"] ELSE queries
    /\ inspected' = inspected + IF asks THEN 1 ELSE 0

SelectRepo(r) ==
    /\ repo = NoRepo
    /\ inspected < MaxInspections
    /\ Rendered(r, DefaultBranch, FALSE, FrameworkDefaults("nextjs", "auto"), inspection, {})
    /\ options' = [autoBuild |-> TRUE, autoProduction |-> FALSE, postgres |-> FALSE]
    /\ UNCHANGED <<edits, creation>>

\* The inspection's answer, or its failure, after which a later focus asks again.
Inspected(r, b) ==
    /\ inspection[r][b] = "loading"
    /\ \E result \in {"found", "failed"} :
         Rendered(repo, branch, picked, settings, [inspection EXCEPT ![r][b] = result], typed)
    /\ Untouched

InspectAgain(r, b) ==
    /\ inspection[r][b] = "failed" /\ r = repo /\ b = branch /\ inspected < MaxInspections
    /\ Rendered(r, b, picked, settings, [inspection EXCEPT ![r][b] = "loading"], typed)
    /\ Untouched

\* PickApp, shown for a monorepo until something is picked.
Picking == Monorepo /\ ~picked

SelectApp(app) ==
    /\ Picking /\ app.buildable
    /\ Rendered(repo, branch, TRUE, FromApp(app, Here.manager, settings), inspection,
                typed \intersect {"start"})
    /\ Untouched

SetManually ==
    /\ Picking
    /\ Rendered(repo, branch, TRUE, settings, inspection, typed)
    /\ Untouched

-----------------------------------------------------------------------------
(* The form.                                                               *)

Configuring ==
    /\ repo # NoRepo
    /\ inspection[repo][branch] = "loading" => picked
    /\ ~Picking

Edit(values, edited) ==
    /\ Configuring /\ edits < MaxEdits
    /\ Rendered(repo, branch, picked, values, inspection, edited)
    /\ edits' = edits + 1
    /\ UNCHANGED <<options, creation>>

TypeInto(f) ==
    Edit([settings EXCEPT ![f] = Typed], typed \union (IF picked THEN {f} ELSE {}))
ClearField(f) == Edit([settings EXCEPT ![f] = ""], typed \ {f})
ChooseFramework(framework) == Edit(SyncFramework(settings, framework), typed)
ChooseManager(manager) == Edit(SyncManager(settings, manager), typed)
ResetDefaults ==
    Edit([FrameworkDefaults(settings.framework, settings.manager) EXCEPT !.root = settings.root],
         typed \intersect {"root"})

\* The settings stay, whatever the other branch holds.
ChooseBranch(b) ==
    /\ Configuring /\ b # branch /\ inspected < MaxInspections
    /\ Rendered(repo, b, picked, settings, inspection, typed)
    /\ Untouched

\* Back to the apps of a monorepo, or to the repositories; Cancel; PickApp's back.
GoBack ==
    /\ Configuring \/ Picking
    /\ \/ Configuring /\ Monorepo
          /\ Rendered(repo, branch, FALSE, settings, inspection, typed)
       \/ Configuring /\ Rendered(NoRepo, branch, picked, settings, inspection, typed)
       \/ (Picking \/ ~Monorepo) /\ Rendered(NoRepo, branch, FALSE, settings, inspection, typed)
    /\ Untouched

\* Mutant: switched off, auto-build leaves production on.
SwitchSeparately ==
    /\ Configuring /\ edits < MaxEdits
    /\ \E switch \in DOMAIN options : options' = [options EXCEPT ![switch] = ~@]
    /\ edits' = edits + 1
    /\ UNCHANGED <<repo, branch, picked, settings, inspection, inspected, creation, typed>>

\* handleAutoBuildEnabledChange, and the other two switches.
Switch ==
    /\ Configuring /\ edits < MaxEdits
    /\ \/ options' = [options EXCEPT !.autoBuild = TRUE]
       \/ options' = [options EXCEPT !.autoBuild = FALSE, !.autoProduction = FALSE]
       \/ options.autoBuild /\ options' = [options EXCEPT !.autoProduction = ~@]
       \/ options' = [options EXCEPT !.postgres = ~@]
    /\ edits' = edits + 1
    /\ UNCHANGED <<repo, branch, picked, settings, inspection, inspected, creation, typed>>

-----------------------------------------------------------------------------
(* Creating the project.                                                   *)

Unedited ==
    UNCHANGED <<repo, branch, picked, settings, inspection, inspected, options, edits, typed>>

Create ==
    /\ Configuring /\ creation.pc \in {"idle", "failed"}
    /\ creation' = [pc |-> "sent", attached |-> 0]
    /\ Unedited

\* The project is created or refused; whether to attach databases is read now.
Created ==
    /\ creation.pc = "sent"
    /\ \E pc \in {IF options.postgres THEN "attaching" ELSE "done", "failed"} :
         creation' = [creation EXCEPT !.pc = pc]
    /\ Unedited

\* One environment after the other; what fails is left to the user.
Attach ==
    /\ creation.pc = "attaching"
    /\ \/ creation' = [creation EXCEPT !.attached = @ + 1,
                                       !.pc = IF creation.attached = 1 THEN "done" ELSE @]
       \/ creation' = [creation EXCEPT !.pc = "done"]
    /\ Unedited

-----------------------------------------------------------------------------
ImportInit ==
    /\ repo = NoRepo /\ branch = DefaultBranch /\ picked = FALSE
    /\ settings = FrameworkDefaults("nextjs", "auto")
    /\ inspection = [r \in Repos |-> [b \in Branches |-> "unknown"]] /\ inspected = 0
    /\ options = [autoBuild |-> TRUE, autoProduction |-> FALSE, postgres |-> FALSE]
    /\ creation = [pc |-> "idle", attached |-> 0]
    /\ edits = 0 /\ typed = {}

\* Once the project is there, its page is shown.
ImportNext ==
    /\ creation.pc # "done"
    /\ \/ \E r \in Repos :
            SelectRepo(r) \/ \E b \in Branches : Inspected(r, b) \/ InspectAgain(r, b)
       \/ Picking /\ \E app \in Here.apps : SelectApp(app)
       \/ SetManually \/ GoBack \/ Switch \/ ResetDefaults
       \/ \E f \in Fields : TypeInto(f) \/ ClearField(f)
       \/ \E framework \in Frameworks : ChooseFramework(framework)
       \/ \E manager \in Managers : ChooseManager(manager)
       \/ \E b \in Branches : ChooseBranch(b)
       \/ Create \/ Created \/ Attach

-----------------------------------------------------------------------------
ImportTypeOK ==
    /\ repo \in Repos \union {NoRepo} /\ branch \in Branches /\ picked \in BOOLEAN
    /\ settings.framework \in Frameworks /\ settings.manager \in Managers
    /\ inspection \in [Repos -> [Branches -> {"unknown", "loading", "found", "failed"}]]
    /\ inspected \in 0..MaxInspections /\ edits \in 0..MaxEdits
    /\ options \in [autoBuild : BOOLEAN, autoProduction : BOOLEAN, postgres : BOOLEAN]
    /\ options.autoProduction => options.autoBuild  \* what is sent of an import
    /\ creation.pc \in {"idle", "sent", "attaching", "done", "failed"}
    /\ creation.attached \in 0..2
    /\ typed \subseteq Fields

(* What the user typed since an app was picked stays until the user picks  *)
(* another app or resets the form: no preset, inspection or change of the  *)
(* branch replaces it (the prefill effect, the sync functions).  What is   *)
(* typed before, into the form that is shown when an inspection failed or  *)
(* found no app, is filled over by a later inspection.                     *)
TypedKept == \A f \in typed : settings[f] = Typed
=============================================================================
