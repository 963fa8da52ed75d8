-------------------------- MODULE McpInstallProofs --------------------------
(***************************************************************************)
(* Theorems about the installers of the MCP package, for any configuration *)
(* files, any servers, and any number of runs, kills and edits.            *)
(* InstallInv is inductive: it says what the backups hold while a run has  *)
(* a file in hand, which files a run has settled, and what the daemon is   *)
(* like at each step of a run that installs it.                            *)
(***************************************************************************)
EXTENDS McpPackage, TLAPS

States == {"absent", "nodir", "json", "empty", "broken"}
Entries == {"none", "stdio", "http"}
Contents == [state : States, servers : SUBSET Foreign, entry : Entries]
DaemonPlaces == {"stage", "copy", "plist", "bootout", "bootstrap", "unlink", "wipe"}
Places == {"over", "killed", "lookup", "probe", "read", "backup", "write", "skill"}
          \union DaemonPlaces
Runs == [kind : Kinds, yes : BOOLEAN, pc : Places, todo : SUBSET Files, at : Files \union {0},
         read : Contents, tries : Nat, loaded : BOOLEAN, exit : {0, 1, 2}]
Daemons == [plist : BOOLEAN, runtime : {"none", "partial", "staged"},
            service : {"off", "loaded", "dying"}]

\* Only a complete file says anything.
Said == \A f \in Files : file[f].state # "json" => file[f].servers = {} /\ file[f].entry = "none"

InstallTyped ==
    /\ run \in Runs /\ file \in [Files -> Contents] /\ backups \in [Files -> SUBSET Foreign]
    /\ daemon \in Daemons
    /\ run.pc \in {"backup", "write"} => run.at \in Files
    /\ Said

\* A run that is about to replace a file has what Claude wrote there in a backup.
KeptInv ==
    /\ OtherServersKept
    /\ \A f \in Files : \A e \in Foreign :
          Held(f) /\ <<f, e>> \in edited \ overrun => e \in backups[f]

\* The run is not over, or it is over and says that it succeeded.
Succeeding == run.pc # "killed" /\ (run.pc = "over" => run.exit = 0)
Settled(f) == file[f].entry = Wanted \/ (f \in Optional /\ file[f].entry = "none")
InHand(f) == run.pc \in {"backup", "write"} /\ f = run.at

\* What a run has taken off its list says what was asked for, but for the file in hand.
SettledInv ==
    /\ \A f \in Files : file[f].state = "nodir" => f \in Optional
    /\ Succeeding => \A f \in Files \ run.todo : Settled(f) \/ InHand(f)
    /\ run.pc \in {"skill", "wipe"} \/ (run.pc = "over" /\ run.exit = 0) => run.todo = {}

Served == daemon.service = "loaded" /\ daemon.plist /\ daemon.runtime = "staged"

\* The steps of each kind of run, and the daemon on the way to a service that runs.
DaemonInv ==
    /\ run.pc = "skill" => run.kind = "install"
    /\ run.pc \in {"unlink", "wipe"} => run.kind = "uninstall --daemon"
    /\ run.pc \in {"lookup", "probe"} => run.kind = "install"
    /\ run.pc = "bootout" => run.kind \in {"install --daemon", "uninstall --daemon"}
    /\ run.pc \in {"stage", "copy", "plist", "bootstrap"} => run.kind = "install --daemon"
    /\ run.pc \in {"plist", "bootstrap"} => daemon.runtime = "staged"
    /\ run.pc = "bootout" /\ run.kind = "install --daemon" => daemon.runtime = "staged"
    /\ run.pc = "bootout" /\ run.kind = "install --daemon" => daemon.plist
    /\ run.pc = "bootstrap" => daemon.plist
    /\ run.loaded => /\ run.kind = "install --daemon"
                     /\ run.pc \in {"read", "backup", "write", "over", "killed"}
                     /\ Served
    /\ run.pc = "over" /\ run.exit = 0 /\ run.kind = "install --daemon" => run.loaded

InstallInv == InstallTyped /\ KeptInv /\ SettledInv /\ DaemonInv

-----------------------------------------------------------------------------
(* What a step of a run leaves as it is.                                   *)

RunAt(p, code) ==
    /\ run' \in Runs /\ run'.pc = p /\ run'.exit = code
    /\ run'.kind = run.kind /\ run'.todo = run.todo /\ run'.at = run.at
    /\ run'.read = run.read /\ run'.loaded = run.loaded

LEMMA GoesOn == ASSUME run \in Runs, NEW p \in Places, Goes(p) PROVE RunAt(p, run.exit)
  BY DEF Goes, RunAt, Runs

LEMMA Ends == ASSUME run \in Runs, NEW code \in {0, 1, 2}, Exits(code) PROVE RunAt("over", code)
<1>1. DEFINE ended == [run EXCEPT !.pc = "over"]
<1>2. /\ ended \in Runs /\ ended.pc = "over"
      /\ ended.kind = run.kind /\ ended.todo = run.todo /\ ended.at = run.at
      /\ ended.read = run.read /\ ended.loaded = run.loaded
  BY DEF Runs, Places
<1>3. run' = [ended EXCEPT !.exit = code]
  BY DEF Exits, Runs
<1> HIDE DEF ended
<1>4. QED
  BY <1>2, <1>3 DEF RunAt, Runs

(* A step that leaves the files, and has none in hand before or after,     *)
(* keeps what is said of them.                                             *)
LEMMA KeptApart ==
    ASSUME KeptInv, UNCHANGED <<file, backups, edited, overrun>>,
           run'.pc \notin {"backup", "write"}
    PROVE  KeptInv'
  BY DEF KeptInv, OtherServersKept, Held

(* So does a step to a place with the same list, unless it is where a run  *)
(* ends with success and the list is not empty.                            *)
LEMMA SettledApart ==
    ASSUME SettledInv, NEW p, NEW code, RunAt(p, code), UNCHANGED file,
           run.pc \notin {"backup", "write", "killed", "over"},
           p \in {"skill", "wipe"} \/ (p = "over" /\ code = 0) => run.todo = {}
    PROVE  SettledInv'
<1>1. \A f \in Files : Settled(f)' <=> Settled(f)
  BY DEF RunAt, Settled, Wanted
<1>2. Succeeding /\ \A f \in Files : ~InHand(f)
  BY DEF Succeeding, InHand
<1>3. QED
  BY <1>1, <1>2 DEF SettledInv, RunAt

LEMMA SameFiles ==
    ASSUME InstallTyped, run' \in Runs, daemon' \in Daemons, UNCHANGED <<file, backups>>,
           run'.pc \in {"backup", "write"} => run'.at \in Files
    PROVE  InstallTyped'
  BY DEF InstallTyped, Said

-----------------------------------------------------------------------------
(* Each step keeps the invariant.                                          *)

LEMMA InstallInitial == Init => InstallInv
<1> SUFFICES ASSUME InstallInit PROVE InstallInv
  BY DEF Init
<1>1. run \in Runs
  BY DEF InstallInit, Runs, Kinds, Places, Absent, Contents, States, Entries
<1>2. file \in [Files -> Contents] /\ Said /\ \A f \in Files : file[f].servers = {}
  <2>1. {Absent, [Absent EXCEPT !.state = "nodir"], [Absent EXCEPT !.state = "json"]}
          \subseteq {c \in Contents : c.servers = {} /\ c.entry = "none"}
    BY DEF Absent, Contents, States, Entries
  <2>2. \A f \in Files : file[f] \in {c \in Contents : c.servers = {} /\ c.entry = "none"}
    BY <2>1 DEF InstallInit
  <2>3. QED
    BY <2>2 DEF InstallInit, Said
<1>3. InstallTyped
  BY <1>1, <1>2 DEF InstallInit, InstallTyped, Daemons
<1>4. KeptInv
  BY DEF InstallInit, KeptInv, OtherServersKept
<1>5. SettledInv /\ DaemonInv
  BY DEF InstallInit, SettledInv, DaemonInv, Succeeding
<1>6. QED
  BY <1>3, <1>4, <1>5 DEF InstallInv

LEMMA StartKeeps ==
    ASSUME InstallInv, NEW kind \in Kinds, NEW yes \in BOOLEAN, Start(kind, yes)
    PROVE  InstallInv'
<1>1. /\ run' \in Runs /\ run'.kind = kind /\ run'.pc = FirstStep[kind] /\ run'.todo = Files
      /\ ~run'.loaded
  <2>1. Absent \in Contents /\ FirstStep[kind] \in Places
    BY DEF Absent, Contents, States, Entries, FirstStep, Kinds, Places, DaemonPlaces
  <2>2. QED
    BY <2>1 DEF Start, Runs
<1>2. /\ kind = "install" => run'.pc = "lookup"
      /\ kind = "install --daemon" => run'.pc = "stage"
      /\ kind = "uninstall" => run'.pc = "read"
      /\ kind = "uninstall --daemon" => run'.pc = "bootout"
  BY <1>1 DEF FirstStep, Kinds
<1>3. InstallTyped'
  BY <1>1, <1>2, SameFiles DEF InstallInv, InstallTyped, Start, Kinds
<1>4. KeptInv'
  BY <1>1, <1>2, KeptApart DEF InstallInv, Start, Kinds
<1>5. SettledInv'
  BY <1>1, <1>2 DEF InstallInv, Start, Kinds, SettledInv
<1>6. DaemonInv'
  BY <1>1, <1>2 DEF DaemonInv, Kinds
<1>7. QED
  BY <1>3, <1>4, <1>5, <1>6 DEF InstallInv

\* The steps that read and decide, and those that bring the service up or down.
LEMMA LooksKeep ==
    ASSUME InstallInv, Lookup \/ Validate \/ ConfigsDone \/ CopySkill
    PROVE  InstallInv'
<1> USE DEF InstallInv
<1>1. run \in Runs /\ UNCHANGED <<file, backups, daemon, edited, overrun>>
  BY DEF InstallTyped, Lookup, Validate, ConfigsDone, CopySkill, OnlyRun, Keeps
<1>2. PICK p \in Places, code \in {0, 1, 2} :
        /\ RunAt(p, code)
        /\ \/ run.pc \in {"lookup", "probe"} /\ p = "over" /\ code # 0
           \/ run.pc = "lookup" /\ p = "probe"
           \/ run.pc = "probe" /\ p = "read"
           \/ run.pc = "read" /\ run.todo = {} /\ run.kind = "install" /\ p = "skill"
           \/ /\ run.pc = "read" /\ run.todo = {} /\ p = "over"
              /\ code = 0 => run.kind = "uninstall" \/ run.loaded
           \/ /\ run.pc = "read" /\ run.todo = {} /\ p = "wipe"
              /\ run.kind = "uninstall --daemon"
           \/ run.pc = "skill" /\ p = "over"
  <2>1. CASE Lookup
    BY <2>1, <1>1, GoesOn, Ends DEF Lookup, Places, Runs
  <2>2. CASE Validate
    BY <2>2, <1>1, GoesOn, Ends DEF Validate, Places, Runs
  <2>3. CASE ConfigsDone
    <3>1. CASE run.kind = "install"
      BY <2>3, <3>1, <1>1, GoesOn DEF ConfigsDone, Places, Runs
    <3>2. CASE run.kind = "install --daemon"
      <4>1. Exits(IF run.loaded THEN 0 ELSE 1)
        BY <2>3, <3>2 DEF ConfigsDone
      <4>2. RunAt("over", IF run.loaded THEN 0 ELSE 1)
        BY <4>1, <1>1, Ends
      <4>3. ~run.loaded => RunAt("over", 1) /\ 1 # 0
        BY <4>2
      <4>4. run.loaded => RunAt("over", 0)
        BY <4>2
      <4>5. QED
        BY <2>3, <4>3, <4>4 DEF ConfigsDone, Places
    <3>3. CASE run.kind = "uninstall"
      BY <2>3, <3>3, <1>1, Ends DEF ConfigsDone, Places
    <3>4. CASE run.kind = "uninstall --daemon"
      BY <2>3, <3>4, <1>1, GoesOn DEF ConfigsDone, Places, DaemonPlaces, Runs
    <3>5. QED
      BY <1>1, <3>1, <3>2, <3>3, <3>4 DEF Runs, Kinds
  <2>4. CASE CopySkill
    BY <2>4, <1>1, Ends DEF CopySkill, Places
  <2>5. QED
    BY <2>1, <2>2, <2>3, <2>4
<1>3. run'.pc \notin {"backup", "write"} /\ run' \in Runs
  BY <1>2 DEF RunAt
<1>4. InstallTyped'
  BY <1>1, <1>3, SameFiles DEF InstallTyped
<1>5. KeptInv'
  BY <1>1, <1>3, KeptApart
<1>6. SettledInv'
  <2>1. p \in {"skill", "wipe"} \/ (p = "over" /\ code = 0) => run.todo = {}
    BY <1>2 DEF SettledInv
  <2>2. QED
    BY <1>1, <1>2, <2>1, SettledApart
<1>7. DaemonInv'
  BY <1>1, <1>2 DEF DaemonInv, RunAt, Served
<1>8. QED
  BY <1>4, <1>5, <1>6, <1>7

LEMMA DaemonStepsKeep ==
    ASSUME InstallInv,
           Stage \/ CopyRuntime \/ WritePlist \/ Bootout \/ Unlink \/ WipeRuntime
    PROVE  InstallInv'
<1> USE DEF InstallInv
<1>1. run \in Runs /\ daemon \in Daemons /\ UNCHANGED <<file, backups, edited, overrun>>
  BY DEF InstallTyped, Stage, CopyRuntime, WritePlist, Bootout, Unlink, WipeRuntime, OnlyDaemon,
         OnlyRun, Keeps
<1>2. PICK p \in Places, code \in {0, 1, 2} :
        /\ RunAt(p, code)
        /\ \/ run.pc = "stage" /\ p = "over" /\ code # 0
           \/ run.pc = "stage" /\ p = "copy"
           \/ run.pc = "copy" /\ p = "plist"
           \/ run.pc = "plist" /\ p = "bootout"
           \/ run.pc = "bootout" /\ p = "bootstrap" /\ run.kind = "install --daemon"
           \/ run.pc = "bootout" /\ p = "unlink" /\ run.kind # "install --daemon"
           \/ run.pc = "unlink" /\ p = "read"
           \/ run.pc = "wipe" /\ p = "over"
  <2>1. CASE Stage
    BY <2>1, <1>1, GoesOn, Ends DEF Stage, OnlyDaemon, OnlyRun, Places, DaemonPlaces, Daemons, Runs
  <2>2. CASE CopyRuntime
    BY <2>2, <1>1, GoesOn DEF CopyRuntime, OnlyDaemon, Places, DaemonPlaces, Daemons, Runs
  <2>3. CASE WritePlist
    BY <2>3, <1>1, GoesOn DEF WritePlist, OnlyDaemon, Places, DaemonPlaces, Daemons, Runs
  <2>4. CASE Bootout
    BY <2>4, <1>1, GoesOn DEF Bootout, OnlyDaemon, Places, DaemonPlaces, Daemons, Runs
  <2>5. CASE Unlink
    BY <2>5, <1>1, GoesOn DEF Unlink, OnlyDaemon, Places, DaemonPlaces, Daemons, Runs
  <2>6. CASE WipeRuntime
    BY <2>6, <1>1, Ends DEF WipeRuntime, OnlyDaemon, Places, DaemonPlaces, Daemons, Runs
  <2>7. QED
    BY <2>1, <2>2, <2>3, <2>4, <2>5, <2>6
<1>3. /\ daemon' \in Daemons
      /\ run.pc = "copy" => daemon'.runtime = "staged"
      /\ run.pc = "plist" => daemon'.plist = TRUE /\ daemon'.runtime = daemon.runtime
      /\ run.pc = "bootout" => daemon'.plist = daemon.plist /\ daemon'.runtime = daemon.runtime
  BY <1>1 DEF Stage, CopyRuntime, WritePlist, Bootout, Unlink, WipeRuntime, OnlyDaemon,
                OnlyRun, Daemons
<1>4. run'.pc \notin {"backup", "write"} /\ run' \in Runs
  BY <1>2 DEF RunAt
<1>5. InstallTyped'
  BY <1>1, <1>3, <1>4, SameFiles
<1>6. KeptInv'
  BY <1>1, <1>4, KeptApart
<1>7. SettledInv'
  <2>1. run.pc = "wipe" \/ ~(p \in {"skill", "wipe"} \/ (p = "over" /\ code = 0))
    BY <1>2
  <2>2. run.pc = "wipe" => run.todo = {}
    BY DEF SettledInv
  <2>3. QED
    BY <1>1, <1>2, <2>1, <2>2, SettledApart
<1>8. DaemonInv'
  <2>1. ~run.loaded
    BY <1>2 DEF DaemonInv
  <2>2. run.pc = "bootout" => run.kind \in {"install --daemon", "uninstall --daemon"}
    BY DEF DaemonInv
  <2>3. ~run'.loaded /\ run'.kind = run.kind /\ run'.pc = p /\ run'.exit = code
    BY <1>2, <2>1 DEF RunAt
  <2>4. CASE run.pc \in {"stage", "copy", "plist"}
    BY <1>2, <1>3, <2>3, <2>4 DEF DaemonInv
  <2>5. CASE run.pc = "bootout"
    BY <1>2, <1>3, <2>2, <2>3, <2>5 DEF DaemonInv
  <2>6. CASE run.pc \in {"unlink", "wipe"}
    BY <1>2, <2>3, <2>6 DEF DaemonInv
  <2>7. QED
    BY <1>2, <2>4, <2>5, <2>6
<1>9. QED
  BY <1>5, <1>6, <1>7, <1>8

\* A step that keeps the daemon, the kind of the run and what it loaded.
LEMMA DaemonApart ==
    ASSUME DaemonInv, UNCHANGED daemon, run'.kind = run.kind, run'.loaded = run.loaded,
           run'.pc \in {"read", "backup", "write", "killed"} \/ (run'.pc = "over" /\ run'.exit # 0)
    PROVE  DaemonInv'
  BY DEF DaemonInv, Served

LEMMA BootstrapKeeps == ASSUME InstallInv, Bootstrap PROVE InstallInv'
<1> USE DEF InstallInv
<1>1. /\ run \in Runs /\ daemon \in Daemons /\ run.pc = "bootstrap" /\ run.kind = "install --daemon"
      /\ UNCHANGED <<file, backups, edited, overrun>>
      /\ daemon.plist /\ daemon.runtime = "staged"
  BY DEF InstallTyped, DaemonInv, Bootstrap, OnlyDaemon, OnlyRun, Keeps
<1>2. /\ run' \in Runs /\ run'.pc \in {"bootstrap", "read"}
      /\ run'.kind = run.kind /\ run'.todo = run.todo
  <2>1. CASE run' = [run EXCEPT !.pc = "read", !.loaded = TRUE]
    BY <1>1, <2>1 DEF Runs, Places
  <2>2. CASE Goes("read")
    BY <1>1, <2>2, GoesOn DEF Places, RunAt
  <2>3. CASE run' = [run EXCEPT !.tries = @ + 1,
                                !.pc = IF run.tries + 1 < Attempts THEN "bootstrap" ELSE "read"]
    <3>1. DEFINE tried == [run EXCEPT !.tries = @ + 1]
                 p == IF run.tries + 1 < Attempts THEN "bootstrap" ELSE "read"
    <3>2. tried \in Runs /\ tried.kind = run.kind /\ tried.todo = run.todo
      <4>1. run.tries \in Nat
        BY <1>1 DEF Runs
      <4>2. DEFINE t == run.tries + 1
      <4>3. t \in Nat /\ tried = [run EXCEPT !.tries = t]
        BY <4>1
      <4> HIDE DEF t
      <4>4. QED
        BY <1>1, <4>3 DEF Runs
    <3>3. run' = [tried EXCEPT !.pc = p] /\ p \in {"bootstrap", "read"}
      BY <1>1, <2>3 DEF Runs
    <3> HIDE DEF tried, p
    <3>4. QED
      BY <3>2, <3>3 DEF Runs, Places, DaemonPlaces
  <2>4. QED
    BY <2>1, <2>2, <2>3 DEF Bootstrap
<1>3. /\ daemon' \in Daemons /\ daemon'.plist /\ daemon'.runtime = "staged"
      /\ run'.loaded => run'.pc = "read" /\ daemon'.service = "loaded"
  <2>1. ~run.loaded
    BY <1>1 DEF DaemonInv
  <2>2. QED
    BY <1>1, <2>1 DEF Bootstrap, Goes, OnlyDaemon, OnlyRun, Daemons, Runs
<1>4. InstallTyped'
  BY <1>1, <1>2, <1>3, SameFiles
<1>5. KeptInv'
  BY <1>1, <1>2, KeptApart
<1>6. SettledInv'
  BY <1>1, <1>2 DEF SettledInv, Succeeding, Settled, Wanted, InHand
<1>7. DaemonInv'
  BY <1>1, <1>2, <1>3 DEF DaemonInv, Served
<1>8. QED
  BY <1>4, <1>5, <1>6, <1>7

LEMMA ReadKeeps == ASSUME InstallInv, ReadConfig PROVE InstallInv'
<1> USE DEF InstallInv
<1>1. PICK f \in Files :
        /\ f \in run.todo
        /\ IF Skipped(f) THEN run' = [run EXCEPT !.todo = @ \ {f}]
           ELSE IF file[f].state = "broken" THEN Exits(1)
           ELSE run' = [run EXCEPT !.todo = @ \ {f}, !.at = f, !.read = file[f], !.pc = "backup"]
  BY DEF ReadConfig, IsNext
<1>2. /\ run \in Runs /\ run.pc = "read" /\ UNCHANGED <<file, backups, daemon, edited, overrun>>
  BY DEF InstallTyped, ReadConfig, OnlyRun, Keeps
<1>3. CASE Skipped(f)
  <2>1. /\ run' \in Runs /\ run'.pc = "read" /\ run'.todo = run.todo \ {f}
        /\ run'.kind = run.kind /\ run'.loaded = run.loaded
    BY <1>1, <1>2, <1>3 DEF Runs
  <2>2. Settled(f)
    <3>1. file[f].state # "json" => file[f].entry = "none"
      BY DEF InstallTyped, Said
    <3>2. CASE Installs(run.kind)
      BY <1>3, <3>1, <3>2 DEF Skipped, SettledInv, Settled
    <3>3. CASE ~Installs(run.kind)
      BY <1>3, <3>1, <3>3 DEF Skipped, Exists, Settled, Wanted, Installs
    <3>4. QED
      BY <3>2, <3>3
  <2>3. SettledInv'
    BY <1>2, <2>1, <2>2 DEF SettledInv, Succeeding, Settled, Wanted, InHand
  <2>4. InstallTyped' /\ KeptInv' /\ DaemonInv'
    BY <1>2, <2>1, SameFiles, KeptApart, DaemonApart DEF InstallTyped
  <2>5. QED
    BY <2>3, <2>4
<1>4. CASE ~Skipped(f) /\ file[f].state = "broken"
  <2>1. RunAt("over", 1)
    BY <1>1, <1>2, <1>4, Ends
  <2>2. SettledInv'
    BY <1>2, <2>1, SettledApart
  <2>3. InstallTyped' /\ KeptInv' /\ DaemonInv'
    BY <1>2, <2>1, SameFiles, KeptApart, DaemonApart DEF InstallTyped, RunAt
  <2>4. QED
    BY <2>2, <2>3
<1>5. CASE ~Skipped(f) /\ file[f].state # "broken"
  <2>1. /\ run' \in Runs /\ run'.pc = "backup" /\ run'.todo = run.todo \ {f} /\ run'.at = f
        /\ run'.read = file[f] /\ run'.kind = run.kind /\ run'.loaded = run.loaded
    <3>1. DEFINE r1 == [run EXCEPT !.todo = @ \ {f}]
                 r2 == [r1 EXCEPT !.at = f]
                 r3 == [r2 EXCEPT !.read = file[f]]
    <3>2. r1 \in Runs /\ r1.kind = run.kind /\ r1.loaded = run.loaded /\ r1.todo = run.todo \ {f}
      BY <1>2 DEF Runs
    <3>3. run' = [r3 EXCEPT !.pc = "backup"]
      BY <1>1, <1>2, <1>5 DEF Runs
    <3> HIDE DEF r1
    <3>4. /\ r2 \in Runs /\ r2.kind = run.kind /\ r2.loaded = run.loaded
          /\ r2.todo = run.todo \ {f} /\ r2.at = f
      BY <3>2 DEF Runs
    <3> HIDE DEF r2
    <3>5. file[f] \in Contents
      BY DEF InstallTyped
    <3>6. /\ r3 \in Runs /\ r3.kind = run.kind /\ r3.loaded = run.loaded
          /\ r3.todo = run.todo \ {f} /\ r3.at = f /\ r3.read = file[f]
      BY <3>4, <3>5 DEF Runs
    <3> HIDE DEF r3
    <3>7. QED
      BY <3>3, <3>6 DEF Runs, Places
  <2>2. KeptInv'
    BY <1>2, <2>1 DEF KeptInv, OtherServersKept, Held, InstallTyped, Said
  <2>3. SettledInv'
    BY <1>2, <2>1 DEF SettledInv, Succeeding, Settled, Wanted, InHand
  <2>4. InstallTyped' /\ DaemonInv'
    BY <1>2, <2>1, SameFiles, DaemonApart DEF InstallTyped
  <2>5. QED
    BY <2>2, <2>3, <2>4
<1>6. QED
  BY <1>3, <1>4, <1>5

LEMMA BackUpKeeps == ASSUME InstallInv, BackUp PROVE InstallInv'
<1> USE DEF InstallInv
<1>1. /\ run \in Runs /\ run.pc = "backup" /\ run.at \in Files
      /\ UNCHANGED <<file, daemon, edited, overrun>>
  BY DEF InstallTyped, BackUp, Keeps
<1>2. RunAt("write", run.exit)
  BY <1>1, GoesOn DEF BackUp, Places
<1>3. /\ backups' \in [Files -> SUBSET Foreign]
      /\ \A f \in Files : backups[f] \subseteq backups'[f]
      /\ run.read.state # "absent" => file[run.at].servers \subseteq backups'[run.at]
  BY <1>1 DEF BackUp, InstallTyped, Contents
<1>4. KeptInv'
  <2>1. OtherServersKept'
    BY <1>1, <1>3 DEF KeptInv, OtherServersKept
  <2>2. ASSUME NEW f \in Files, NEW e \in Foreign, Held(f)', <<f, e>> \in edited \ overrun
        PROVE  e \in backups'[f]
    <3>1. f = run.at /\ e \in file[f].servers \union backups[f]
      BY <1>2, <2>2 DEF Held, RunAt, KeptInv, OtherServersKept
    <3>2. CASE run.read.state = "absent"
      BY <1>1, <1>3, <2>2, <3>1, <3>2 DEF KeptInv, Held
    <3>3. CASE run.read.state # "absent"
      BY <1>3, <3>1, <3>3
    <3>4. QED
      BY <3>2, <3>3
  <2>3. QED
    BY <1>1, <2>1, <2>2 DEF KeptInv
<1>5. SettledInv'
  BY <1>1, <1>2 DEF SettledInv, Succeeding, Settled, Wanted, InHand, RunAt
<1>6. InstallTyped'
  BY <1>1, <1>2, <1>3 DEF InstallTyped, Said, RunAt
<1>7. DaemonInv'
  BY <1>1, <1>2, DaemonApart DEF RunAt
<1>8. QED
  BY <1>4, <1>5, <1>6, <1>7

LEMMA WriteKeeps == ASSUME InstallInv, WriteConfig PROVE InstallInv'
<1> USE DEF InstallInv
<1>1. /\ run \in Runs /\ run.pc = "write" /\ run.at \in Files
      /\ UNCHANGED <<backups, daemon, edited, overrun>>
  BY DEF InstallTyped, WriteConfig, Keeps
<1>2. RunAt("read", run.exit)
  BY <1>1, GoesOn DEF WriteConfig, Places
<1>3. /\ file' \in [Files -> Contents]
      /\ \A f \in Files \ {run.at} : file'[f] = file[f]
      /\ file'[run.at].state = "json" /\ file'[run.at].entry = Wanted
  <2>1. DEFINE written == [state |-> "json", servers |-> run.read.servers, entry |-> Wanted]
  <2>2. Wanted \in Entries
    BY DEF Wanted, Entries
  <2>3. written \in Contents /\ written.state = "json" /\ written.entry = Wanted
    BY <1>1, <2>2 DEF Contents, States, Runs
  <2>4. file' = [file EXCEPT ![run.at] = written]
    BY DEF WriteConfig
  <2> HIDE DEF written
  <2>5. QED
    BY <1>1, <2>3, <2>4 DEF InstallTyped
<1>4. KeptInv'
  BY <1>1, <1>2, <1>3 DEF KeptInv, OtherServersKept, Held, RunAt
<1>5. SettledInv'
  BY <1>1, <1>2, <1>3 DEF SettledInv, Succeeding, Settled, Wanted, InHand, RunAt
<1>6. InstallTyped'
  BY <1>1, <1>2, <1>3 DEF InstallTyped, Said, RunAt
<1>7. DaemonInv'
  BY <1>1, <1>2, DaemonApart DEF RunAt
<1>8. QED
  BY <1>4, <1>5, <1>6, <1>7

LEMMA KillKeeps == ASSUME InstallInv, Kill PROVE InstallInv'
<1> USE DEF InstallInv
<1>1. /\ run \in Runs /\ run.pc \notin {"over", "killed"}
      /\ UNCHANGED <<backups, daemon, edited, overrun>>
  BY DEF InstallTyped, Kill, Keeps
<1>2. RunAt("killed", run.exit)
  BY <1>1, GoesOn DEF Kill, Places
<1>3. /\ file' \in [Files -> Contents] /\ Said'
      /\ \A f \in Files : file'[f] # file[f] =>
            file'[f].state # "nodir" /\ run.pc = "write" /\ run.at = f
  <2>1. CASE UNCHANGED file
    BY <2>1 DEF InstallTyped, Said
  <2>2. CASE run.pc = "write" /\ \E left \in {"empty", "broken"} :
                 file' = [file EXCEPT ![run.at] = [Absent EXCEPT !.state = left]]
    <3>1. PICK left \in {"empty", "broken"} :
            file' = [file EXCEPT ![run.at] = [Absent EXCEPT !.state = left]]
      BY <2>2
    <3>2. DEFINE cut == [Absent EXCEPT !.state = left]
    <3>3. cut \in Contents /\ cut.servers = {} /\ cut.entry = "none" /\ cut.state # "nodir"
      BY DEF Absent, Contents, States, Entries
    <3> HIDE DEF cut
    <3>4. file' = [file EXCEPT ![run.at] = cut] /\ run.at \in Files /\ file \in [Files -> Contents]
      BY <2>2, <3>1 DEF InstallTyped, cut
    <3>5. QED
      BY <2>2, <3>3, <3>4 DEF InstallTyped, Said
  <2>3. QED
    BY <2>1, <2>2 DEF Kill
<1>4. KeptInv'
  <2>1. \A f \in Files : ~Held(f)'
    BY <1>2 DEF Held, RunAt
  <2>2. ASSUME NEW f \in Files, NEW e \in Foreign, <<f, e>> \in edited \ overrun
        PROVE  e \in file'[f].servers \union backups[f]
    BY <1>3, <2>2 DEF KeptInv, OtherServersKept, Held
  <2>3. QED
    BY <1>1, <2>1, <2>2 DEF KeptInv, OtherServersKept
<1>5. SettledInv'
  BY <1>2, <1>3 DEF SettledInv, Succeeding, RunAt
<1>6. InstallTyped'
  BY <1>1, <1>2, <1>3 DEF InstallTyped, RunAt
<1>7. DaemonInv'
  BY <1>1, <1>2 DEF DaemonInv, Served, RunAt
<1>8. QED
  BY <1>4, <1>5, <1>6, <1>7

LEMMA EditKeeps ==
    ASSUME InstallInv, NEW f \in Files, NEW e \in Foreign, Edit(f, e)
    PROVE  InstallInv'
<1> USE DEF InstallInv
<1>1. UNCHANGED <<run, backups, daemon>>
  BY DEF Edit
<1>2. /\ file' \in [Files -> Contents] /\ \A g \in Files : file'[g].entry = file[g].entry
      /\ \A g \in Files \ {f} : file'[g] = file[g]
      /\ file'[f].state = "json" /\ file'[f].servers = file[f].servers \union {e}
  <2>1. DEFINE grown == [state |-> "json", servers |-> file[f].servers \union {e},
                         entry |-> file[f].entry]
  <2>2. file \in [Files -> Contents] /\ file' = [file EXCEPT ![f] = grown]
    BY DEF InstallTyped, Edit
  <2>3. /\ grown \in Contents /\ grown.entry = file[f].entry /\ grown.state = "json"
        /\ grown.servers = file[f].servers \union {e}
    BY <2>2 DEF Contents, States
  <2> HIDE DEF grown
  <2>4. QED
    BY <2>2, <2>3
<1>3. KeptInv'
  <2>1. \A g \in Files : Held(g)' <=> Held(g)
    BY <1>1 DEF Held
  <2>2. \A g \in Files, x \in Foreign :
          <<g, x>> \in edited' \ overrun' =>
             \/ <<g, x>> \in edited \ overrun
             \/ g = f /\ x = e /\ ~Held(f)
    BY DEF Edit
  <2>3. QED
    BY <1>1, <1>2, <2>1, <2>2 DEF KeptInv, OtherServersKept
<1>4. SettledInv'
  BY <1>1, <1>2 DEF SettledInv, Succeeding, Settled, Wanted, InHand
<1>5. InstallTyped'
  BY <1>1, <1>2 DEF InstallTyped, Said
<1>6. DaemonInv'
  BY <1>1 DEF DaemonInv, Served
<1>7. QED
  BY <1>3, <1>4, <1>5, <1>6

LEMMA ReapKeeps == ASSUME InstallInv, Reap PROVE InstallInv'
<1> USE DEF InstallInv
<1>1. /\ UNCHANGED <<run, file, backups, edited, overrun>> /\ daemon \in Daemons
      /\ daemon.service = "dying" /\ daemon' = [daemon EXCEPT !.service = "off"]
  BY DEF Reap, Keeps, InstallTyped
<1>2. daemon' \in Daemons /\ daemon'.plist = daemon.plist /\ daemon'.runtime = daemon.runtime
  BY <1>1 DEF Daemons
<1>3. InstallTyped' /\ KeptInv' /\ SettledInv'
  BY <1>1, <1>2 DEF InstallTyped, Said, KeptInv, OtherServersKept, Held, SettledInv, Succeeding,
                    Settled, Wanted, InHand
<1>4. DaemonInv'
  BY <1>1, <1>2 DEF DaemonInv, Served
<1>5. QED
  BY <1>3, <1>4

LEMMA InstallInductive == InstallInv /\ [Next]_vars => InstallInv'
<1> SUFFICES ASSUME InstallInv, [Next]_vars PROVE InstallInv'
  OBVIOUS
<1>1. CASE UNCHANGED installVars
  BY <1>1 DEF installVars, InstallInv, InstallTyped, Said, KeptInv, OtherServersKept, Held,
              SettledInv, Succeeding, Settled, Wanted, InHand, DaemonInv, Served
<1>2. CASE InstallNext
  <2>1. CASE \E kind \in Kinds, yes \in BOOLEAN : Start(kind, yes)
    BY <2>1, StartKeeps
  <2>2. CASE RunStep
    BY <2>2, LooksKeep, DaemonStepsKeep, BootstrapKeeps, ReadKeeps, BackUpKeeps, WriteKeeps
       DEF RunStep
  <2>3. CASE \E f \in Files, e \in Foreign : Edit(f, e)
    BY <2>3, EditKeeps
  <2>4. QED
    BY <1>2, <2>1, <2>2, <2>3, KillKeeps, ReapKeeps DEF InstallNext
<1>3. QED
  BY <1>1, <1>2 DEF Next, ToolStep, InstallStep, vars

LEMMA InstallInvHolds == Spec => []InstallInv
  BY InstallInitial, InstallInductive, PTL DEF Spec

-----------------------------------------------------------------------------
(* Whichever installers run, and wherever they are killed, a server that   *)
(* Claude registered stays in its file or in a backup of it (installMcp,   *)
(* uninstallMcp, rewriteClaudeConfigsForDaemon).                           *)
THEOREM RegisteredServersStay == Spec => []OtherServersKept
<1>1. InstallInv => OtherServersKept
  BY DEF InstallInv, KeptInv
<1>2. QED
  BY <1>1, InstallInvHolds, PTL

(* A run that exits with 0 left every configuration as asked, and an       *)
(* address only of a daemon that launchd runs (installAll, installDaemon). *)
THEOREM SuccessIsServed == Spec => []SuccessMeansServed
<1>1. InstallInv => SuccessMeansServed
  <2> SUFFICES ASSUME InstallInv, run.pc = "over", run.exit = 0
               PROVE  /\ \A f \in Files : Settled(f)
                      /\ Wanted = "http" => Served
    BY DEF SuccessMeansServed, Settled, Served
  <2>1. \A f \in Files : Settled(f)
    BY DEF InstallInv, SettledInv, Succeeding, InHand
  <2>2. Wanted = "http" => run.kind = "install --daemon"
    BY DEF Wanted
  <2>3. QED
    BY <2>1, <2>2 DEF InstallInv, DaemonInv
<1>2. QED
  BY <1>1, InstallInvHolds, PTL
=============================================================================
