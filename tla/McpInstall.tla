----------------------------- MODULE McpInstall -----------------------------
(***************************************************************************)
(* The installers of the MCP package (mcp/src/install*.ts, index.ts):      *)
(* they register the server in the configuration files of Claude, as a     *)
(* command (stdio) or as the address of a daemon (http) that launchd runs, *)
(* and take it out again.  A run may be killed between any two steps and   *)
(* in the middle of a write, and Claude edits the same files meanwhile.    *)
(*                                                                         *)
(* A file's content is the set of the other servers it names and what it   *)
(* says of deployik.                                                       *)
(***************************************************************************)
EXTENDS Naturals, FiniteSets

CONSTANTS
    Files,      \* the configuration files, numbered in the order of the targets
    Optional,   \* those that are written only if their directory exists
    Foreign,    \* the other servers
    MaxRuns,    \* bound: how often an installer is started
    MaxEdits,   \* bound: how many edits Claude makes
    Attempts    \* how often bootstrap is tried

ASSUME InstallAssumption ==
    /\ Files \subseteq Nat /\ Optional \subseteq Files /\ Attempts \in Nat \ {0}
    /\ MaxRuns \in Nat /\ MaxEdits \in Nat

VARIABLES
    run,       \* the installer that runs, or ran last
    file,      \* file[f] : the content of the file
    backups,   \* backups[f] : the other servers named by some backup of f
    daemon,    \* the daemon's plist, its runtime, and launchd's service
    runs,      \* how many installers were started
    edited,    \* history: <<f, e>>, what Claude ever wrote
    overrun    \* history: <<f, e>>, written while a run held an older copy of f

installVars == <<run, file, backups, daemon, runs, edited, overrun>>

Kinds == {"install", "install --daemon", "uninstall", "uninstall --daemon"}
Installs(kind) == kind \in {"install", "install --daemon"}
Wanted == CASE run.kind = "install" -> "stdio"
            [] run.kind = "install --daemon" -> "http"
            [] OTHER -> "none"

Absent == [state |-> "absent", servers |-> {}, entry |-> "none"]
Exists(f) == file[f].state \notin {"absent", "nodir"}

\* A step of the run alone: the run goes on at pc.
Goes(pc) == run' = [run EXCEPT !.pc = pc]
Exits(code) == run' = [run EXCEPT !.pc = "over", !.exit = code]
Keeps == UNCHANGED <<runs, edited, overrun>>
OnlyRun == UNCHANGED <<file, backups, daemon>> /\ Keeps

-----------------------------------------------------------------------------
(* main: a subcommand starts.                                              *)

FirstStep == [kind \in Kinds |->
    CASE kind = "install" -> "lookup" [] kind = "install --daemon" -> "stage"
      [] kind = "uninstall" -> "read" [] OTHER -> "bootout"]

Start(kind, yes) ==
    /\ runs < MaxRuns /\ run.pc \in {"over", "killed"}
    /\ run' = [kind |-> kind, yes |-> yes, pc |-> FirstStep[kind], todo |-> Files, at |-> 0,
               read |-> Absent, tries |-> 0, loaded |-> FALSE, exit |-> 0]
    /\ runs' = runs + 1
    /\ UNCHANGED <<file, backups, daemon, edited, overrun>>

\* findExistingMcpConfig: reads on to the first file with a stdio entry.
Lookup ==
    /\ run.pc = "lookup"
    /\ IF \E f \in Files : /\ file[f].state = "broken"
                           /\ \A g \in Files : g < f => file[g].entry # "stdio"
       THEN Exits(1) ELSE Goes("probe")
    /\ OnlyRun

(* installAll: the address, the token and the user's go-ahead.  A server   *)
(* that is out of reach stops an interactive install only, a token that is *)
(* missing or answered with 401 stops every one.                           *)
Validate ==
    /\ run.pc = "probe"
    /\ \E health \in {"ok", "unreachable"}, token \in {"missing", "ok", "rejected", "unknown"},
          agrees \in BOOLEAN :
         IF health = "unreachable" /\ ~run.yes /\ ~agrees THEN Exits(1)
         ELSE IF token = "missing" THEN Exits(2)
         ELSE IF token = "rejected" \/ (token = "unknown" /\ ~run.yes) THEN Exits(1)
         ELSE IF ~run.yes /\ ~agrees THEN Exits(1)
         ELSE Goes("read")
    /\ OnlyRun

-----------------------------------------------------------------------------
(* installMcp, uninstallMcp, rewriteClaudeConfigsForDaemon, and the same   *)
(* loop of uninstallDaemon: read, back up, write, one file after another.  *)

IsNext(f) == f \in run.todo /\ \A g \in run.todo : f <= g

Skipped(f) ==
    IF Installs(run.kind) THEN file[f].state = "nodir"
    ELSE ~Exists(f) \/ (file[f].state # "broken" /\ file[f].entry = "none")

ReadConfig ==
    /\ run.pc = "read"
    /\ \E f \in Files :
         /\ IsNext(f)
         /\ IF Skipped(f) THEN run' = [run EXCEPT !.todo = @ \ {f}]
            ELSE IF file[f].state = "broken" THEN Exits(1)
            ELSE run' = [run EXCEPT !.todo = @ \ {f}, !.at = f, !.read = file[f], !.pc = "backup"]
    /\ OnlyRun

\* Mutant: only a file that did not exist is backed up.
BackUpCreated ==
    /\ run.pc = "backup"
    /\ backups' = IF run.read.state = "absent"
                  THEN [backups EXCEPT ![run.at] = @ \union file[run.at].servers] ELSE backups
    /\ Goes("write")
    /\ UNCHANGED <<file, daemon>> /\ Keeps

\* The backup is a copy of the file as it is now, if there was one to read.
BackUp ==
    /\ run.pc = "backup"
    /\ backups' = IF run.read.state # "absent"
                  THEN [backups EXCEPT ![run.at] = @ \union file[run.at].servers] ELSE backups
    /\ Goes("write")
    /\ UNCHANGED <<file, daemon>> /\ Keeps

WriteConfig ==
    /\ run.pc = "write"
    /\ file' = [file EXCEPT ![run.at] =
                  [state |-> "json", servers |-> run.read.servers, entry |-> Wanted]]
    /\ Goes("read")
    /\ UNCHANGED <<backups, daemon>> /\ Keeps

\* The loop is over.
ConfigsDone ==
    /\ run.pc = "read" /\ run.todo = {}
    /\ CASE run.kind = "install" -> Goes("skill")
         [] run.kind = "install --daemon" -> Exits(IF run.loaded THEN 0 ELSE 1)
         [] run.kind = "uninstall" -> Exits(0)
         [] OTHER -> Goes("wipe")
    /\ OnlyRun

\* installSkillResult: files of the package's own, always overwritten.
CopySkill ==
    /\ run.pc = "skill"
    /\ Exits(0) /\ OnlyRun

-----------------------------------------------------------------------------
(* installDaemon and uninstallDaemon.                                      *)

OnlyDaemon(d) == daemon' = d /\ UNCHANGED <<file, backups>> /\ Keeps

\* stageRuntime: it throws before it touches anything, or wipes, then copies.
Stage ==
    /\ run.pc = "stage"
    /\ \/ Exits(1) /\ OnlyRun
       \/ Goes("copy") /\ OnlyDaemon([daemon EXCEPT !.runtime = "partial"])

CopyRuntime ==
    /\ run.pc = "copy"
    /\ Goes("plist") /\ OnlyDaemon([daemon EXCEPT !.runtime = "staged"])

WritePlist ==
    /\ run.pc = "plist"
    /\ Goes("bootout") /\ OnlyDaemon([daemon EXCEPT !.plist = TRUE])

\* launchctl bootout, whose failure is ignored: it returns before the old process is gone.
Bootout ==
    /\ run.pc = "bootout"
    /\ Goes(IF run.kind = "install --daemon" THEN "bootstrap" ELSE "unlink")
    /\ \/ OnlyDaemon(daemon)
       \/ daemon.service = "loaded" /\ OnlyDaemon([daemon EXCEPT !.service = "dying"])

\* Mutant: the error of a label in use is taken for a service that runs already.
BootstrapOrRunning ==
    /\ run.pc = "bootstrap"
    /\ \/ /\ daemon.service = "off"
          /\ run' = [run EXCEPT !.pc = "read", !.loaded = TRUE]
          /\ OnlyDaemon([daemon EXCEPT !.service = "loaded"])
       \/ Goes("read") /\ OnlyRun
       \/ /\ daemon.service # "off"
          /\ run' = [run EXCEPT !.pc = "read", !.loaded = TRUE]
          /\ OnlyRun

(* launchctl bootstrap: it succeeds once the label is free.  Input/output  *)
(* error while it is not is retried, every other error is final; the       *)
(* configuration files are rewritten all the same.                         *)
Bootstrap ==
    /\ run.pc = "bootstrap"
    /\ \/ /\ daemon.service = "off"
          /\ run' = [run EXCEPT !.pc = "read", !.loaded = TRUE]
          /\ OnlyDaemon([daemon EXCEPT !.service = "loaded"])
       \/ Goes("read") /\ OnlyRun
       \/ /\ daemon.service # "off"
          /\ run' = [run EXCEPT !.tries = @ + 1,
                                !.pc = IF run.tries + 1 < Attempts THEN "bootstrap" ELSE "read"]
          /\ OnlyRun

\* unlinkSync of the plist, whose failure is reported and ignored.
Unlink ==
    /\ run.pc = "unlink"
    /\ Goes("read")
    /\ \E kept \in BOOLEAN : OnlyDaemon([daemon EXCEPT !.plist = @ /\ kept])

WipeRuntime ==
    /\ run.pc = "wipe"
    /\ Exits(0)
    /\ OnlyDaemon([daemon EXCEPT !.runtime = "none"])

RunStep ==
    \/ Lookup \/ Validate \/ ReadConfig \/ BackUp \/ WriteConfig \/ ConfigsDone \/ CopySkill
    \/ Stage \/ CopyRuntime \/ WritePlist \/ Bootout \/ Bootstrap \/ Unlink \/ WipeRuntime

-----------------------------------------------------------------------------
(* Everybody else.                                                         *)

\* The process is killed: a write in progress leaves an empty or a cut file.
Kill ==
    /\ run.pc \notin {"over", "killed"}
    /\ Goes("killed")
    /\ \/ UNCHANGED file
       \/ /\ run.pc = "write"
          /\ \E left \in {"empty", "broken"} :
               file' = [file EXCEPT ![run.at] = [Absent EXCEPT !.state = left]]
    /\ UNCHANGED <<backups, daemon>> /\ Keeps

\* Between the run's copy of f and its write: f's backup does not hold what is written now.
Held(f) ==
    /\ run.at = f
    /\ \/ run.pc = "write"
       \/ run.pc = "backup" /\ run.read.state = "absent"

\* Claude registers another server.
Edit(f, e) ==
    /\ Cardinality(edited) < MaxEdits /\ file[f].state # "broken" /\ e \notin file[f].servers
    /\ file' = [file EXCEPT ![f] =
                  [state |-> "json", servers |-> @.servers \union {e}, entry |-> @.entry]]
    /\ edited' = edited \union {<<f, e>>}
    /\ overrun' = IF Held(f) THEN overrun \union {<<f, e>>} ELSE overrun
    /\ UNCHANGED <<run, backups, daemon, runs>>

\* launchd has reaped the old process.
Reap ==
    /\ daemon.service = "dying"
    /\ daemon' = [daemon EXCEPT !.service = "off"]
    /\ UNCHANGED <<run, file, backups>> /\ Keeps

-----------------------------------------------------------------------------
InstallInit ==
    /\ run = [kind |-> "install", yes |-> FALSE, pc |-> "over", todo |-> {}, at |-> 0,
              read |-> Absent, tries |-> 0, loaded |-> FALSE, exit |-> 1]
    /\ file \in [Files -> {Absent, [Absent EXCEPT !.state = "nodir"],
                           [Absent EXCEPT !.state = "json"]}]
    /\ \A f \in Files : file[f].state = "nodir" => f \in Optional
    /\ backups = [f \in Files |-> {}]
    /\ daemon = [plist |-> FALSE, runtime |-> "none", service |-> "off"]
    /\ runs = 0 /\ edited = {} /\ overrun = {}

InstallNext ==
    \/ \E kind \in Kinds, yes \in BOOLEAN : Start(kind, yes)
    \/ RunStep
    \/ Kill \/ Reap
    \/ \E f \in Files, e \in Foreign : Edit(f, e)

-----------------------------------------------------------------------------
(* Properties.                                                             *)

InstallTypeOK ==
    /\ file \in [Files -> [state : {"absent", "nodir", "json", "empty", "broken"},
                           servers : SUBSET Foreign, entry : {"none", "stdio", "http"}]]
    /\ \A f \in Files : file[f].state # "json" => file[f] = [Absent EXCEPT !.state = file[f].state]
    /\ backups \in [Files -> SUBSET Foreign]
    /\ daemon \in [plist : BOOLEAN, runtime : {"none", "partial", "staged"},
                   service : {"off", "loaded", "dying"}]
    /\ runs \in 0..MaxRuns /\ overrun \subseteq edited
    /\ run.kind \in Kinds /\ run.todo \subseteq Files /\ run.at \in Files \union {0}
    /\ run.tries \in 0..Attempts /\ run.loaded \in BOOLEAN /\ run.exit \in 0..2
    /\ run.pc \in {"over", "killed", "lookup", "probe", "read", "backup", "write", "skill", "stage",
                   "copy", "plist", "bootout", "bootstrap", "unlink", "wipe"}

(* No server that Claude registered is lost, whichever installers run and  *)
(* wherever they are killed: it is in the file or in one of its backups.   *)
(* Only what Claude writes between a run's backup and its write is not     *)
(* kept.                                                                   *)
OtherServersKept ==
    \A f \in Files : \A e \in Foreign :
        <<f, e>> \in edited \ overrun => e \in file[f].servers \union backups[f]

(* After a run that exits with 0 every configuration says what was asked   *)
(* for, and if that is the daemon's address then launchd runs the service  *)
(* from a complete runtime: no Claude is left with an address that nothing *)
(* answers.                                                                *)
SuccessMeansServed ==
    run.pc = "over" /\ run.exit = 0 =>
        /\ \A f \in Files : file[f].state = "json" =>
               \/ file[f].entry = Wanted
               \/ f \in Optional /\ file[f].entry = "none"  \* created since, by Claude
        /\ Wanted = "http" =>
               /\ daemon.service = "loaded" /\ daemon.plist /\ daemon.runtime = "staged"
=============================================================================
