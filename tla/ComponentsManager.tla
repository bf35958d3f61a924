------------------------- MODULE ComponentsManager -------------------------
(***************************************************************************)
(* The manager of optional components (internal/components): processes     *)
(* that install an OCR bundle or examine the one that is selected, on one  *)
(* file system.  There is no lock.  A bundle is one provider's helper in   *)
(* one version, in a directory of its own; the configuration names the     *)
(* bundle that is selected.  Any call of the file system or of a child     *)
(* process may fail, and a process may be killed between two of them.      *)
(* A file is written by truncating it and then filling it.                 *)
(***************************************************************************)
EXTENDS FiniteSets, Integers, Sequences

CONSTANTS
    Processes,              \* invocations of the program, one command each
    Bundles,                \* install directories
    Provider,               \* of each bundle
    Missing,                \* no file
    Empty, Garbled,         \* a configuration that does not parse
    MaxActive               \* bound: processes that run at a time

\* What an installation writes, in this order; the paddleocr provider has
\* made its virtual environment before that.
FilesOf(b) == IF Provider[b] = "builtin" THEN <<"helper", "manifest">>
                                         ELSE <<"script", "helper", "manifest">>
PipCommands == <<"runtime", "packages">>     \* of pip; two others bring nothing that is run
PartsOf(b) == {FilesOf(b)[i] : i \in DOMAIN FilesOf(b)}
              \cup (IF Provider[b] = "builtin" THEN {} ELSE {"venv"})
Parts == {"venv", "script", "helper", "manifest"}
Pieces(part) == IF part = "venv" THEN {"runtime", "packages"} ELSE {"text"}

\* A file: the process that created it, and the pieces that are in it.
File == [maker : Processes \cup {Missing}, has : SUBSET {"runtime", "packages", "text"}]

Selections == [bundle : Bundles, checked : BOOLEAN]
Unreadable == {Empty, Garbled}

ASSUME ComponentsAssumption ==
    /\ Provider \in [Bundles -> {"builtin", "paddleocr"}]
    /\ MaxActive \in Nat \ {0}
    /\ Missing \notin File \cup Selections \cup Unreadable
    /\ Selections \cap Unreadable = {}

VARIABLES
    disk,       \* the parts of each bundle: who created a file, and what is in it
    roots,      \* the bundles whose bin directories exist
    config,     \* config.json
    op, bundle, \* the command of each process
    pc, at,     \* where it is; at counts within a list
    fd,         \* who created the file it has open
    loaded,     \* the configuration it has read
    passed,     \* history: bundles that passed a self-test, by command
    found,      \* history: the configuration when a process started
    before,     \* history: the processes that had ended by then, unless it failed
    alone       \* history: processes that never met another one

manager == <<op, bundle>>
history == <<found, before, alone>>
managerVars ==
    <<disk, roots, config, op, bundle, pc, at, fd, loaded, passed, found, before, alone>>

Final == {"ok", "issues", "failed", "crashed"}
Active == {p \in Processes : pc[p] \notin Final \cup {"ready"}}

Present(b, part) == disk[b][part] # Missing
Whole(b, part) == Present(b, part) /\ disk[b][part].has = Pieces(part)
Complete(b) == \A part \in PartsOf(b) : Whole(b, part)

Names(b) == config \in Selections /\ config.bundle = b

\* A component that was installed some time ago, or none.
ManagerInit ==
    /\ \E ready \in {{}} \cup {{b} : b \in Bundles} :
          /\ disk = [b \in Bundles |-> [part \in Parts |->
                IF b \in ready /\ part \in PartsOf(b)
                THEN [maker |-> Missing, has |-> Pieces(part)] ELSE Missing]]
          /\ roots = ready
          /\ IF ready = {} THEN config = Missing
             ELSE config \in [bundle : ready, checked : {FALSE}]
          /\ passed = [o \in {"install", "doctor"} |-> IF o = "install" THEN ready ELSE {}]
    /\ op = [p \in Processes |-> "none"]
    /\ bundle = [p \in Processes |-> Missing]
    /\ pc = [p \in Processes |-> "ready"]
    /\ at = [p \in Processes |-> 1]
    /\ fd = [p \in Processes |-> Missing]
    /\ loaded = [p \in Processes |-> Missing]
    /\ found = [p \in Processes |-> Missing]
    /\ before = [p \in Processes |-> {}]
    /\ alone = Processes

Goto(p, l) == pc' = [pc EXCEPT ![p] = l]

\* Runs of commands meet if one starts while another is active.
Starts(p) ==
    /\ pc[p] = "ready" /\ Cardinality(Active) < MaxActive
    /\ found' = [q \in Processes |-> IF q = p THEN config
                                     ELSE IF q \in Active THEN found[q] ELSE Missing]
    /\ before' = [before EXCEPT ![p] = {q \in Processes : pc[q] \in Final}]
    /\ alone' = IF Active = {} THEN alone ELSE alone \ (Active \cup {p})
    /\ UNCHANGED <<disk, roots, config, at, fd, loaded, passed>>

\* Mutant: installs over what is there.
InstallOCR_inPlace(p, b) ==
    /\ Starts(p)
    /\ op' = [op EXCEPT ![p] = "install"] /\ bundle' = [bundle EXCEPT ![p] = b]
    /\ Goto(p, "mkdir")

InstallOCR(p, b) ==
    /\ Starts(p)
    /\ op' = [op EXCEPT ![p] = "install"] /\ bundle' = [bundle EXCEPT ![p] = b]
    /\ Goto(p, "remove")

Doctor(p) ==
    /\ Starts(p)
    /\ op' = [op EXCEPT ![p] = "doctor"]
    /\ Goto(p, "load")
    /\ UNCHANGED bundle

-----------------------------------------------------------------------------
(* Installing.                                                             *)

SetPart(b, part, v) == disk' = [disk EXCEPT ![b][part] = v]

\* os.RemoveAll takes files away in some order; an environment, which is
\* many files, piece by piece.
RemoveSome(p) ==
    /\ pc[p] = "remove"
    /\ \E part \in Parts :
          /\ Present(bundle[p], part)
          /\ \/ SetPart(bundle[p], part, Missing)
             \/ /\ part = "venv"
                /\ \E piece \in disk[bundle[p]][part].has :
                      SetPart(bundle[p], part, [disk[bundle[p]][part] EXCEPT !.has = @ \ {piece}])
    /\ UNCHANGED <<roots, config, manager, pc, at, fd, loaded, passed, history>>

Removed(p) ==
    /\ pc[p] = "remove"
    /\ \A part \in Parts : ~Present(bundle[p], part)
    /\ roots' = roots \ {bundle[p]}
    /\ Goto(p, "mkdir")
    /\ UNCHANGED <<disk, config, manager, at, fd, loaded, passed, history>>

MkdirAll(p) ==
    /\ pc[p] = "mkdir"
    /\ roots' = roots \cup {bundle[p]}
    /\ Goto(p, IF Provider[bundle[p]] = "builtin" THEN "open" ELSE "venv")
    /\ UNCHANGED <<disk, config, manager, at, fd, loaded, passed, history>>

\* python -m venv, which leaves an environment that is there as it is.
CreateVenv(p) ==
    /\ pc[p] = "venv"
    /\ \/ Present(bundle[p], "venv") /\ UNCHANGED disk
       \/ /\ ~Present(bundle[p], "venv")
          /\ SetPart(bundle[p], "venv", [maker |-> Missing, has |-> {}])
    /\ Goto(p, "pip")
    /\ UNCHANGED <<roots, config, manager, at, fd, loaded, passed, history>>

\* A command of the environment's own Python.
PipInstall(p) ==
    /\ pc[p] = "pip"
    /\ Present(bundle[p], "venv")
    /\ SetPart(bundle[p], "venv", [disk[bundle[p]]["venv"] EXCEPT !.has = @ \cup {PipCommands[at[p]]}])
    /\ IF at[p] < Len(PipCommands)
       THEN at' = [at EXCEPT ![p] = @ + 1] /\ UNCHANGED pc
       ELSE at' = [at EXCEPT ![p] = 1] /\ Goto(p, "open")
    /\ UNCHANGED <<roots, config, manager, fd, loaded, passed, history>>

\* O_CREATE|O_TRUNC: a file that is there is emptied and stays the same
\* file.  The manifest's directory is made if it has to be.
OpenFile(p) ==
    LET b == bundle[p]  part == FilesOf(bundle[p])[at[p]]
        maker == IF Present(b, part) THEN disk[b][part].maker ELSE p
    IN  /\ pc[p] = "open"
        /\ part = "manifest" \/ b \in roots
        /\ SetPart(b, part, [maker |-> maker, has |-> {}])
        /\ fd' = [fd EXCEPT ![p] = maker]
        /\ Goto(p, "fill")
        /\ UNCHANGED <<roots, config, manager, at, loaded, passed, history>>

\* Mutant: one file too few.
FillFile_allButOne(p) ==
    LET b == bundle[p]  part == FilesOf(bundle[p])[at[p]]
    IN  /\ pc[p] = "fill"
        /\ IF Present(b, part) /\ disk[b][part].maker = fd[p]
           THEN SetPart(b, part, [maker |-> fd[p], has |-> Pieces(part)])
           ELSE UNCHANGED disk
        /\ fd' = [fd EXCEPT ![p] = Missing]
        /\ IF at[p] + 1 < Len(FilesOf(b))
           THEN at' = [at EXCEPT ![p] = @ + 1] /\ Goto(p, "open")
           ELSE at' = [at EXCEPT ![p] = 1] /\ Goto(p, "test")
        /\ UNCHANGED <<roots, config, manager, loaded, passed, history>>

\* The bytes go to the file that was opened, be it still there or not.
FillFile(p) ==
    LET b == bundle[p]  part == FilesOf(bundle[p])[at[p]]
    IN  /\ pc[p] = "fill"
        /\ IF Present(b, part) /\ disk[b][part].maker = fd[p]
           THEN SetPart(b, part, [maker |-> fd[p], has |-> Pieces(part)])
           ELSE UNCHANGED disk
        /\ fd' = [fd EXCEPT ![p] = Missing]
        /\ IF at[p] < Len(FilesOf(b))
           THEN at' = [at EXCEPT ![p] = @ + 1] /\ Goto(p, "open")
           ELSE at' = [at EXCEPT ![p] = 1] /\ Goto(p, "test")
        /\ UNCHANGED <<roots, config, manager, loaded, passed, history>>

-----------------------------------------------------------------------------
(* What both commands do.                                                  *)

\* The helper runs if it is all there.  That of paddleocr is a wrapper for a
\* script, which needs its packages unless it is empty.
Runs(b) ==
    /\ Whole(b, "helper")
    /\ Provider[b] = "paddleocr" =>
          /\ Present(b, "venv") /\ Present(b, "script")
          /\ Whole(b, "script") => Whole(b, "venv")

SelfTestPasses(p) ==
    /\ pc[p] = "test" /\ Runs(bundle[p])
    /\ passed' = [passed EXCEPT ![op[p]] = @ \cup {bundle[p]}]
    /\ Goto(p, IF op[p] = "install" THEN "load" ELSE "save")
    /\ UNCHANGED <<disk, roots, config, manager, at, fd, loaded, history>>

\* A configuration that does not parse stops every command.
LoadFails(p) ==
    /\ pc[p] = "load" /\ config \in Unreadable
    /\ Goto(p, "failed")
    /\ UNCHANGED <<disk, roots, config, manager, at, fd, loaded, passed, history>>

\* An installation loads the configuration to replace its selection.
LoadForInstall(p) ==
    /\ pc[p] = "load" /\ op[p] = "install" /\ config \notin Unreadable
    /\ Goto(p, "save")
    /\ UNCHANGED <<disk, roots, config, manager, at, fd, loaded, passed, history>>

\* Doctor learns from it what to examine.
LoadForDoctor(p) ==
    /\ pc[p] = "load" /\ op[p] = "doctor" /\ config \notin Unreadable
    /\ IF config = Missing
       THEN Goto(p, "ok") /\ UNCHANGED <<loaded, bundle>>
       ELSE /\ loaded' = [loaded EXCEPT ![p] = config]
            /\ bundle' = [bundle EXCEPT ![p] = config.bundle]
            /\ Goto(p, "stat")
    /\ UNCHANGED <<disk, roots, config, op, at, fd, passed, history>>

StatParts == <<"manifest", "helper">>

\* Doctor collects what is missing, and tests the helper if nothing is.
Stat(p) ==
    /\ pc[p] = "stat"
    /\ IF ~Present(bundle[p], StatParts[at[p]]) THEN Goto(p, "issues") /\ UNCHANGED at
       ELSE IF at[p] < Len(StatParts) THEN at' = [at EXCEPT ![p] = @ + 1] /\ UNCHANGED pc
       ELSE at' = [at EXCEPT ![p] = 1] /\ Goto(p, "test")
    /\ UNCHANGED <<disk, roots, config, manager, fd, loaded, passed, history>>

Record(p) ==
    IF op[p] = "install" THEN [bundle |-> bundle[p], checked |-> FALSE]
                         ELSE [loaded[p] EXCEPT !.checked = TRUE]

SaveConfig(p) ==
    /\ pc[p] = "save"
    /\ config' = Empty
    /\ Goto(p, "flush")
    /\ UNCHANGED <<disk, roots, manager, at, fd, loaded, passed, history>>

\* Over what another process wrote after the file was truncated, a shorter
\* text leaves the end of the longer one behind.
FlushConfig(p) ==
    /\ pc[p] = "flush"
    /\ config' \in IF config \in {Empty, Record(p)} THEN {Record(p)} ELSE {Record(p), Garbled}
    /\ loaded' = [loaded EXCEPT ![p] = Missing]
    /\ Goto(p, "ok")
    /\ UNCHANGED <<disk, roots, manager, at, fd, passed, history>>

Stop(p, l) ==
    /\ p \in Active
    /\ Goto(p, l)
    /\ at' = [at EXCEPT ![p] = 1]
    /\ fd' = [fd EXCEPT ![p] = Missing]
    /\ loaded' = [loaded EXCEPT ![p] = Missing]
    /\ before' = [before EXCEPT ![p] = {}]
    /\ UNCHANGED <<disk, roots, config, manager, passed, found, alone>>

\* A call fails.  Doctor reports what goes wrong after loading as an issue.
CallFails(p) == Stop(p, IF op[p] = "doctor" /\ pc[p] # "load" THEN "issues" ELSE "failed")

\* The process is killed.
Crash(p) == Stop(p, "crashed")

AllEnded == Active = {} /\ UNCHANGED managerVars

ManagerNext ==
    \/ \E p \in Processes :
          \/ \E b \in Bundles : InstallOCR(p, b)
          \/ Doctor(p)
          \/ RemoveSome(p) \/ Removed(p) \/ MkdirAll(p)
          \/ CreateVenv(p) \/ PipInstall(p) \/ OpenFile(p) \/ FillFile(p)
          \/ SelfTestPasses(p) \/ LoadFails(p) \/ LoadForInstall(p)
          \/ LoadForDoctor(p) \/ Stat(p)
          \/ SaveConfig(p) \/ FlushConfig(p)
          \/ CallFails(p) \/ Crash(p)
    \/ AllEnded

ManagerSpec == ManagerInit /\ [][ManagerNext]_managerVars

-----------------------------------------------------------------------------
(* Properties.                                                             *)

\* The installations of a bundle that have not succeeded, those excepted
\* that had ended before a successful one began.
Disturbers(b) ==
    LET Installs == {p \in Processes : op[p] = "install" /\ bundle[p] = b}
        Succeeded == {p \in Installs : pc[p] = "ok"}
    IN  (Installs \ Succeeded) \ UNION {before[p] : p \in Succeeded}

\* The selected component is all there, unless an installation of it is under
\* way or came to grief: whatever else runs at the same time, an installation
\* that succeeds makes good what earlier ones left behind, and two that both
\* succeed leave a complete component (install.go:65-100,
\* install_paddle.go:43-107).
SelectedIsComplete ==
    \A b \in Bundles : Names(b) => Complete(b) \/ Disturbers(b) # {}

\* What is selected has passed an installer's self-test, and what is stamped
\* as healthy one of doctor's, also when doctor's late save brings back a
\* selection that has been replaced (install.go:102-119, doctor.go:96-104).
SelectedIsTested ==
    \A b \in Bundles :
        Names(b) => /\ b \in passed["install"]
                    /\ config.checked => b \in passed["doctor"]

\* What the configuration selects may be used: it is complete, and tested.
SelectedIsSound == SelectedIsComplete /\ SelectedIsTested

\* A command that meets no other one keeps its word, whatever crashes and
\* overlaps there were before: an installation that succeeds has selected a
\* complete component; doctor never changes the selection; one that fails, or
\* that has issues to report, leaves the configuration as it was or was
\* stopped in the middle of writing it; and as long as no two commands ever
\* met, a component that doctor finds healthy lacks nothing it needs to run
\* (install.go:56-130, doctor.go:46-111).
KeepsItsWord(p) ==
    /\ pc[p] = "ok" /\ op[p] = "install" => Names(bundle[p]) /\ Complete(bundle[p])
    /\ pc[p] = "ok" /\ op[p] = "doctor" /\ found[p] # Missing =>
          /\ config = [found[p] EXCEPT !.checked = TRUE]
          /\ alone = Processes => \A part \in PartsOf(bundle[p]) \ {"manifest"} : Whole(bundle[p], part)
    /\ pc[p] \in {"failed", "issues"} => config \in {found[p], Empty}

LoneCommandsKeepTheirWord ==
    [][\A p \in alone' : pc'[p] # pc[p] => KeepsItsWord(p)']_managerVars

\* As long as commands run one after the other and none is killed, the
\* selected component is complete whenever none of them runs: an installation
\* that fails does so "without corrupting a previous working install"
\* (INKBITE_TASKS.md:494).
FailedInstallKeepsSelection ==
    (alone = Processes /\ Active = {} /\ \A p \in Processes : pc[p] # "crashed")
        => \A b \in Bundles : Names(b) => Complete(b)
=============================================================================
