--------------------------- MODULE CommandProofs ---------------------------
(***************************************************************************)
(* Theorems about the two commands that change something: `inkbite         *)
(* components` on one file system, with any number of processes and        *)
(* bundles, and `inkbite convert` around any conversion.                   *)
(***************************************************************************)
EXTENDS ComponentsManager, ConvertCommand, TLAPS

-----------------------------------------------------------------------------
(* The components manager.                                                 *)

Part == [Parts -> File \cup {Missing}]

Steps == {"ready", "remove", "mkdir", "venv", "pip", "open", "fill", "test", "load", "stat",
          "save", "flush"} \cup Final

ManagerTypeOK ==
    /\ disk \in [Bundles -> Part]
    /\ op \in [Processes -> {"none", "install", "doctor"}]
    /\ pc \in [Processes -> Steps]
    /\ at \in [Processes -> Nat \ {0}]
    /\ fd \in [Processes -> Processes \cup {Missing}]
    /\ passed \in [{"install", "doctor"} -> SUBSET Bundles]
    /\ config \in Selections \cup Unreadable \cup {Missing}
    /\ DOMAIN bundle = Processes /\ DOMAIN loaded = Processes
    /\ DOMAIN found = Processes /\ DOMAIN before = Processes
    /\ alone \subseteq Processes

\* An environment holds nothing but packages.
VenvsFit == \A b \in Bundles : Present(b, "venv") => disk[b]["venv"].has \subseteq Pieces("venv")

\* Where a process is, by its command.
PlaceOK(p) ==
    /\ op[p] = "none" <=> pc[p] = "ready"
    /\ op[p] = "install" => /\ bundle[p] \in Bundles
                            /\ pc[p] # "stat"
    /\ op[p] = "doctor" => pc[p] \in {"load", "stat", "test", "save", "flush"} \cup Final
    /\ pc[p] \in {"ready", "remove", "mkdir", "venv"} => at[p] = 1
    /\ pc[p] \in {"venv", "pip"} => Provider[bundle[p]] = "paddleocr"
    /\ pc[p] = "pip" => at[p] \in {1, 2}
    /\ pc[p] \in {"open", "fill"} => at[p] \in 1..Len(FilesOf(bundle[p]))
    /\ before[p] \subseteq {q \in Processes : pc[q] \in Final}

\* What a process about to select a bundle knows of it.
TestedBy(p) ==
    /\ op[p] = "install" /\ pc[p] \in {"load", "save", "flush"} => bundle[p] \in passed["install"]
    /\ op[p] = "doctor" /\ pc[p] \in {"stat", "test", "save", "flush"} =>
          /\ loaded[p] \in Selections /\ loaded[p].bundle = bundle[p]
          /\ bundle[p] \in passed["install"]
          /\ pc[p] \in {"save", "flush"} => bundle[p] \in passed["doctor"]

-----------------------------------------------------------------------------
\* The installations of a bundle, those under way or done, and those that no
\* such installation began after.
InstallsOf(b) == {p \in Processes : op[p] = "install" /\ bundle[p] = b}
Standing(b) == {p \in InstallsOf(b) : pc[p] \notin {"failed", "issues", "crashed"}}
Unsettled(b) == {p \in InstallsOf(b) : pc[p] # "ok" /\ \A r \in Standing(b) : p \notin before[r]}

\* A part that an installation has still to bring, or that it failed to bring.
OwesVenv(p) == pc[p] = "pip" /\ (at[p] = 1 \/ (Present(bundle[p], "venv")
                                               /\ "runtime" \in disk[bundle[p]]["venv"].has))
OwesFile(p, part) ==
    \E i \in DOMAIN FilesOf(bundle[p]) :
        /\ FilesOf(bundle[p])[i] = part
        /\ \/ pc[p] = "pip"
           \/ pc[p] = "open" /\ at[p] <= i
           \/ pc[p] = "fill" /\ at[p] < i
           \/ pc[p] = "fill" /\ at[p] = i /\ Present(bundle[p], part)
                             /\ disk[bundle[p]][part].maker = fd[p]
Owes(p, part) ==
    \/ pc[p] \in {"remove", "mkdir", "venv", "failed", "issues", "crashed"}
    \/ part = "venv" /\ OwesVenv(p)
    \/ OwesFile(p, part)

\* Whatever part of a bundle is not whole, somebody is to blame for it.
Accounted(b) ==
    \A part \in PartsOf(b) : Whole(b, part) \/ \E p \in Unsettled(b) : Owes(p, part)

BundleOK(b) ==
    /\ Standing(b) # {} => Accounted(b)
    /\ InstallsOf(b) = {} /\ b \in passed["install"] => Complete(b)

-----------------------------------------------------------------------------
\* A process that never met another one, while it is under way.
LoneOK(p) ==
    p \in alone /\ p \in Active =>
        /\ Active = {p}
        /\ before[p] = {q \in Processes : pc[q] \in Final}
        /\ config = IF pc[p] = "flush" THEN Empty ELSE found[p]
        /\ op[p] = "doctor" /\ pc[p] # "load" => loaded[p] = found[p]
        /\ op[p] = "doctor" /\ pc[p] \in {"save", "flush"} => Runs(bundle[p])
        /\ /\ op[p] = "install" /\ Provider[bundle[p]] = "paddleocr"
           /\ pc[p] \in {"mkdir", "venv", "pip"} \/ (pc[p] \in {"open", "fill"} /\ at[p] = 1)
           => ~Present(bundle[p], "helper")
        /\ op[p] = "install" /\ Provider[bundle[p]] = "paddleocr" /\ Present(bundle[p], "script") =>
             /\ pc[p] = "fill" /\ at[p] = 1 => disk[bundle[p]]["script"].maker = fd[p]
             /\ pc[p] \in {"open", "fill"} /\ at[p] > 1 => Whole(bundle[p], "script")

\* As long as no two commands met, a script that is not whole has no helper.
ScriptsHold ==
    alone = Processes =>
        \A b \in Bundles : Provider[b] = "paddleocr" /\ Present(b, "helper") /\ Present(b, "script")
                              => Whole(b, "script")

ManagerInv ==
    /\ ManagerTypeOK
    /\ VenvsFit
    /\ \A p \in Processes : PlaceOK(p) /\ TestedBy(p) /\ LoneOK(p)
    /\ \A b \in Bundles : BundleOK(b)
    /\ SelectedIsTested
    /\ ScriptsHold

-----------------------------------------------------------------------------
(* Bundles and steps.                                                      *)

LEMMA BundleParts ==
    ASSUME NEW b \in Bundles
    PROVE  /\ \/ /\ Provider[b] = "builtin"
                 /\ Len(FilesOf(b)) = 2 /\ DOMAIN FilesOf(b) = {1, 2}
                 /\ FilesOf(b)[1] = "helper" /\ FilesOf(b)[2] = "manifest"
                 /\ PartsOf(b) = {"helper", "manifest"}
              \/ /\ Provider[b] = "paddleocr"
                 /\ Len(FilesOf(b)) = 3 /\ DOMAIN FilesOf(b) = {1, 2, 3}
                 /\ FilesOf(b)[1] = "script" /\ FilesOf(b)[2] = "helper" /\ FilesOf(b)[3] = "manifest"
                 /\ PartsOf(b) = {"script", "helper", "manifest", "venv"}
           /\ PartsOf(b) \subseteq Parts
<1>1. Provider[b] \in {"builtin", "paddleocr"}
  BY ComponentsAssumption
<1>2. CASE Provider[b] = "builtin"
  <2>1. FilesOf(b) = <<"helper", "manifest">>
    BY <1>2 DEF FilesOf
  <2>2. Len(FilesOf(b)) = 2 /\ DOMAIN FilesOf(b) = {1, 2}
        /\ FilesOf(b)[1] = "helper" /\ FilesOf(b)[2] = "manifest"
    BY <2>1
  <2>3. PartsOf(b) = {"helper", "manifest"}
    BY <1>2, <2>2 DEF PartsOf
  <2> QED BY <1>2, <2>2, <2>3 DEF Parts
<1>3. CASE Provider[b] = "paddleocr"
  <2>1. FilesOf(b) = <<"script", "helper", "manifest">>
    BY <1>3 DEF FilesOf
  <2>2. Len(FilesOf(b)) = 3 /\ DOMAIN FilesOf(b) = {1, 2, 3}
        /\ FilesOf(b)[1] = "script" /\ FilesOf(b)[2] = "helper" /\ FilesOf(b)[3] = "manifest"
    BY <2>1
  <2>3. PartsOf(b) = {"script", "helper", "manifest", "venv"}
    BY <1>3, <2>2 DEF PartsOf
  <2> QED BY <1>3, <2>2, <2>3 DEF Parts
<1> QED BY <1>1, <1>2, <1>3

LEMMA FileParts ==
    ASSUME NEW b \in Bundles, NEW i \in 1..Len(FilesOf(b))
    PROVE  FilesOf(b)[i] \in PartsOf(b) /\ FilesOf(b)[i] \in Parts \ {"venv"}
<1>1. i \in DOMAIN FilesOf(b)
  BY BundleParts
<1> QED BY <1>1, BundleParts DEF Parts

\* A file is not the absence of one, nor a selection a text that does not parse.
LEMMA FilesAreThere ==
    /\ \A f \in File : f # Missing
    /\ \A s \in Selections : s # Missing /\ s \notin Unreadable
    /\ Missing \notin Unreadable
BY ComponentsAssumption

\* What the steps of one process do.
Begins(p) == (\E b \in Bundles : InstallOCR(p, b)) \/ Doctor(p)
Works(p) ==
    \/ RemoveSome(p) \/ Removed(p) \/ MkdirAll(p)
    \/ CreateVenv(p) \/ PipInstall(p) \/ OpenFile(p) \/ FillFile(p)
    \/ SelfTestPasses(p) \/ LoadFails(p) \/ LoadForInstall(p)
    \/ LoadForDoctor(p) \/ Stat(p)
    \/ SaveConfig(p) \/ FlushConfig(p)
Stops(p) == CallFails(p) \/ Crash(p)

LEMMA StepIsSomeones ==
    ASSUME ManagerNext
    PROVE  (\E p \in Processes : Begins(p) \/ Works(p) \/ Stops(p)) \/ UNCHANGED managerVars
BY DEF ManagerNext, Begins, Works, Stops, AllEnded

\* A step leaves the other processes, and what they know, alone.
OthersStay(p) ==
    /\ \A q \in Processes \ {p} :
          /\ op'[q] = op[q] /\ bundle'[q] = bundle[q] /\ pc'[q] = pc[q] /\ at'[q] = at[q]
          /\ fd'[q] = fd[q] /\ loaded'[q] = loaded[q] /\ before'[q] = before[q]
    /\ DOMAIN bundle' = Processes /\ DOMAIN loaded' = Processes
    /\ DOMAIN found' = Processes /\ DOMAIN before' = Processes

LEMMA FrameHolds ==
    ASSUME ManagerTypeOK, NEW p \in Processes, Begins(p) \/ Works(p) \/ Stops(p)
    PROVE  OthersStay(p)
<1> USE DEF ManagerTypeOK, OthersStay, Goto, SetPart, manager, history
<1>1. CASE Begins(p)
  BY <1>1 DEF Begins, InstallOCR, Doctor, Starts
<1>2. CASE Stops(p)
  BY <1>2 DEF Stops, CallFails, Crash, Stop
<1>3. CASE Works(p)
  BY <1>3 DEF Works, RemoveSome, Removed, MkdirAll, CreateVenv, PipInstall, OpenFile, FillFile,
              SelfTestPasses, LoadFails, LoadForInstall, LoadForDoctor, Stat, SaveConfig, FlushConfig
<1> QED BY <1>1, <1>2, <1>3

\* A process that is done stays done.
LEMMA OnlyTheUndoneMove ==
    ASSUME NEW p \in Processes, Begins(p) \/ Works(p) \/ Stops(p)
    PROVE  /\ pc[p] \notin Final
           /\ Begins(p) => pc[p] = "ready"
           /\ Works(p) \/ Stops(p) => p \in Active
<1> USE DEF Final, Active
<1>1. Begins(p) => pc[p] = "ready"
  BY DEF Begins, InstallOCR, Doctor, Starts
<1>2. Stops(p) => p \in Active
  BY DEF Stops, CallFails, Crash, Stop
<1>3. Works(p) => p \in Active
  BY DEF Works, RemoveSome, Removed, MkdirAll, CreateVenv, PipInstall, OpenFile, FillFile,
         SelfTestPasses, LoadFails, LoadForInstall, LoadForDoctor, Stat, SaveConfig, FlushConfig
<1> QED BY <1>1, <1>2, <1>3

LEMMA InstallersPlaces ==
    ASSUME ManagerTypeOK, NEW p \in Processes, PlaceOK(p),
           pc[p] \in {"remove", "mkdir", "venv", "pip", "open", "fill"}
    PROVE  op[p] = "install" /\ bundle[p] \in Bundles
BY DEF ManagerTypeOK, PlaceOK, Final

\* How the disk changes: one part of the process's bundle, and nobody's but
\* an installation's.
DiskStep(p) ==
    \/ disk' = disk
    \/ /\ op[p] = "install" /\ op'[p] = "install" /\ bundle'[p] = bundle[p]
       /\ pc[p] \in {"remove", "venv", "pip", "open", "fill"}
       /\ \E part \in Parts, v \in File \cup {Missing} : SetPart(bundle[p], part, v)

LEMMA DiskSteps ==
    ASSUME ManagerTypeOK, NEW p \in Processes, PlaceOK(p), Begins(p) \/ Works(p) \/ Stops(p)
    PROVE  DiskStep(p)
<1> USE DEF ManagerTypeOK, PlaceOK, DiskStep, Final, Parts, manager, history
<1>1. CASE Begins(p)
  BY <1>1 DEF Begins, InstallOCR, Doctor, Starts
<1>2. CASE Stops(p)
  BY <1>2 DEF Stops, CallFails, Crash, Stop
<1>3. CASE RemoveSome(p)
  <2>1. op[p] = "install" /\ bundle[p] \in Bundles
    BY <1>3 DEF RemoveSome, Steps
  <2>2. PICK part \in Parts :
          /\ Present(bundle[p], part)
          /\ \/ SetPart(bundle[p], part, Missing)
             \/ /\ part = "venv"
                /\ \E piece \in disk[bundle[p]][part].has :
                      SetPart(bundle[p], part, [disk[bundle[p]][part] EXCEPT !.has = @ \ {piece}])
    BY <1>3 DEF RemoveSome
  <2>3. disk[bundle[p]][part] \in File
    BY <2>1, <2>2 DEF Present, Part
  <2>4. \A piece : [disk[bundle[p]][part] EXCEPT !.has = @ \ {piece}] \in File
    BY <2>3 DEF File
  <2> QED BY <1>3, <2>1, <2>2, <2>4 DEF RemoveSome
<1>4. CASE CreateVenv(p)
  <2>1. [maker |-> Missing, has |-> {}] \in File
    BY DEF File
  <2> QED BY <1>4, <2>1 DEF CreateVenv, Steps
<1>5. CASE PipInstall(p)
  <2>1. op[p] = "install" /\ bundle[p] \in Bundles
    BY <1>5 DEF PipInstall, Steps
  <2>2. disk[bundle[p]]["venv"] \in File
    BY <1>5, <2>1 DEF PipInstall, Present, Part
  <2>3. PipCommands[at[p]] \in {"runtime", "packages"}
    BY <1>5 DEF PipInstall, PipCommands
  <2>4. [disk[bundle[p]]["venv"] EXCEPT !.has = @ \cup {PipCommands[at[p]]}] \in File
    BY <2>2, <2>3 DEF File
  <2> QED BY <1>5, <2>1, <2>4 DEF PipInstall
<1>6. CASE OpenFile(p) \/ FillFile(p)
  <2> DEFINE part == FilesOf(bundle[p])[at[p]]
             maker == IF Present(bundle[p], part) THEN disk[bundle[p]][part].maker ELSE p
  <2>1. op[p] = "install" /\ bundle[p] \in Bundles /\ at[p] \in 1..Len(FilesOf(bundle[p]))
    BY <1>6 DEF OpenFile, FillFile, Steps
  <2>2. part \in Parts \ {"venv"}
    BY <2>1, FileParts
  <2>3. Present(bundle[p], part) => disk[bundle[p]][part] \in File
    BY <2>1, <2>2 DEF Present, Part
  <2>4. maker \in Processes \cup {Missing} /\ [maker |-> maker, has |-> {}] \in File
    BY <2>3 DEF File
  <2>5. [maker |-> fd[p], has |-> Pieces(part)] \in File
    BY <2>2 DEF File, Pieces
  <2>6. CASE OpenFile(p)
    BY <2>6, <2>1, <2>2, <2>4 DEF OpenFile
  <2>7. CASE FillFile(p)
    BY <2>7, <2>1, <2>2, <2>5 DEF FillFile
  <2> QED BY <1>6, <2>6, <2>7
<1>7. CASE Works(p) /\ ~RemoveSome(p) /\ ~CreateVenv(p) /\ ~PipInstall(p) /\ ~OpenFile(p) /\ ~FillFile(p)
  BY <1>7 DEF Works, Removed, MkdirAll, SelfTestPasses, LoadFails, LoadForInstall, LoadForDoctor,
              Stat, SaveConfig, FlushConfig
<1> QED BY <1>1, <1>2, <1>3, <1>4, <1>5, <1>6, <1>7, Zenon

\* What one action or two change, the others keep.
LEMMA OthersKept ==
    ASSUME NEW p \in Processes, Begins(p) \/ Works(p) \/ Stops(p)
    PROVE  /\ ~SelfTestPasses(p) => passed' = passed
           /\ ~SaveConfig(p) /\ ~FlushConfig(p) => config' = config
           /\ ~Begins(p) => op' = op /\ found' = found /\ alone' = alone
           /\ ~Begins(p) /\ ~Stops(p) => before' = before
           /\ ~Begins(p) /\ ~LoadForDoctor(p) => bundle' = bundle
<1> USE DEF manager, history
<1>1. CASE Begins(p)
  BY <1>1 DEF Begins, InstallOCR, Doctor, Starts
<1>2. CASE Stops(p)
  BY <1>2 DEF Stops, CallFails, Crash, Stop
<1>3. CASE Works(p)
  BY <1>3 DEF Works, RemoveSome, Removed, MkdirAll, CreateVenv, PipInstall, OpenFile, FillFile,
              SelfTestPasses, LoadFails, LoadForInstall, LoadForDoctor, Stat, SaveConfig, FlushConfig
<1> QED BY <1>1, <1>2, <1>3

\* The order in which a command goes through its steps.
LEMMA StepsInOrder ==
    ASSUME ManagerTypeOK, NEW p \in Processes, Works(p)
    PROVE  \/ RemoveSome(p) /\ pc[p] = "remove" /\ pc'[p] = "remove"
           \/ Removed(p) /\ pc[p] = "remove" /\ pc'[p] = "mkdir"
           \/ MkdirAll(p) /\ pc[p] = "mkdir" /\ pc'[p] \in {"open", "venv"}
           \/ CreateVenv(p) /\ pc[p] = "venv" /\ pc'[p] = "pip"
           \/ PipInstall(p) /\ pc[p] = "pip" /\ pc'[p] \in {"pip", "open"}
           \/ OpenFile(p) /\ pc[p] = "open" /\ pc'[p] = "fill"
           \/ FillFile(p) /\ pc[p] = "fill" /\ pc'[p] \in {"open", "test"}
           \/ SelfTestPasses(p) /\ pc[p] = "test" /\ pc'[p] = IF op[p] = "install" THEN "load" ELSE "save"
           \/ LoadFails(p) /\ pc[p] = "load" /\ pc'[p] = "failed"
           \/ LoadForInstall(p) /\ pc[p] = "load" /\ op[p] = "install" /\ pc'[p] = "save"
           \/ LoadForDoctor(p) /\ pc[p] = "load" /\ op[p] = "doctor" /\ pc'[p] \in {"ok", "stat"}
           \/ Stat(p) /\ pc[p] = "stat" /\ pc'[p] \in {"stat", "issues", "test"}
           \/ SaveConfig(p) /\ pc[p] = "save" /\ pc'[p] = "flush"
           \/ FlushConfig(p) /\ pc[p] = "flush" /\ pc'[p] = "ok"
<1> USE DEF ManagerTypeOK, Goto
<1>1. CASE RemoveSome(p)
  BY <1>1 DEF RemoveSome
<1>2. CASE Removed(p) \/ MkdirAll(p) \/ CreateVenv(p)
  BY <1>2 DEF Removed, MkdirAll, CreateVenv
<1>3. CASE PipInstall(p)
  BY <1>3 DEF PipInstall
<1>4. CASE OpenFile(p)
  BY <1>4 DEF OpenFile
<1>5. CASE FillFile(p)
  BY <1>5 DEF FillFile
<1>6. CASE SelfTestPasses(p) \/ LoadFails(p) \/ LoadForInstall(p)
  BY <1>6 DEF SelfTestPasses, LoadFails, LoadForInstall
<1>7. CASE LoadForDoctor(p) \/ Stat(p)
  BY <1>7 DEF LoadForDoctor, Stat
<1>8. CASE SaveConfig(p) \/ FlushConfig(p)
  BY <1>8 DEF SaveConfig, FlushConfig
<1> QED BY <1>1, <1>2, <1>3, <1>4, <1>5, <1>6, <1>7, <1>8 DEF Works

\* What opening and filling a file do to the bundle.
Current(p) == FilesOf(bundle[p])[at[p]]

LEMMA OpenedFile ==
    ASSUME ManagerTypeOK, NEW p \in Processes, PlaceOK(p), OpenFile(p)
    PROVE  /\ bundle[p] \in Bundles /\ Current(p) \in PartsOf(bundle[p]) /\ Current(p) \in Parts \ {"venv"}
           /\ pc[p] = "open" /\ pc'[p] = "fill" /\ at'[p] = at[p] /\ op[p] = "install"
           /\ \A c \in Bundles \ {bundle[p]} : disk'[c] = disk[c]
           /\ \A q \in Parts \ {Current(p)} : disk'[bundle[p]][q] = disk[bundle[p]][q]
           /\ disk'[bundle[p]][Current(p)] = [maker |-> fd'[p], has |-> {}]
           /\ disk'[bundle[p]][Current(p)].maker = fd'[p]
           /\ disk'[bundle[p]][Current(p)] # Missing /\ disk'[bundle[p]][Current(p)].has = {}
           /\ bundle' = bundle
           /\ Present(bundle[p], Current(p)) => fd'[p] = disk[bundle[p]][Current(p)].maker
           /\ ~Present(bundle[p], Current(p)) => fd'[p] = p
<1> DEFINE b == bundle[p]
           part == Current(p)
<1>1. pc[p] = "open"
  BY DEF OpenFile
<1>2. op[p] = "install" /\ b \in Bundles
  BY <1>1, InstallersPlaces
<1>3. part \in PartsOf(b) /\ part \in Parts \ {"venv"}
  BY <1>1, <1>2, FileParts DEF PlaceOK, Current
<1>4. disk \in [Bundles -> Part] /\ DOMAIN disk[b] = Parts
  BY <1>2 DEF ManagerTypeOK, Part
<1>5. /\ pc'[p] = "fill" /\ at' = at
      /\ fd'[p] = IF Present(b, part) THEN disk[b][part].maker ELSE p
      /\ disk' = [disk EXCEPT ![b][part] = [maker |-> fd'[p], has |-> {}]]
  BY DEF OpenFile, Current, ManagerTypeOK, Goto, SetPart
<1>6. fd'[p] \in Processes \cup {Missing}
  BY <1>2, <1>3, <1>5 DEF Present, ManagerTypeOK, Part, File
<1>7. [maker |-> fd'[p], has |-> {}] # Missing
  BY <1>6, FilesAreThere DEF File
<1>8. disk'[b][part] = [maker |-> fd'[p], has |-> {}]
  BY <1>2, <1>3, <1>4, <1>5
<1>9. bundle' = bundle
  BY DEF OpenFile, manager
<1> QED BY <1>1, <1>2, <1>3, <1>4, <1>5, <1>7, <1>8, <1>9

LEMMA FilledFile ==
    ASSUME ManagerTypeOK, NEW p \in Processes, PlaceOK(p), FillFile(p)
    PROVE  /\ bundle[p] \in Bundles /\ Current(p) \in PartsOf(bundle[p]) /\ Current(p) \in Parts \ {"venv"}
           /\ pc[p] = "fill" /\ pc'[p] \in {"open", "test"} /\ op[p] = "install"
           /\ pc'[p] = "open" => at'[p] = at[p] + 1
           /\ pc'[p] = "test" => at[p] = Len(FilesOf(bundle[p]))
           /\ \A c \in Bundles \ {bundle[p]} : disk'[c] = disk[c]
           /\ \A q \in Parts \ {Current(p)} : disk'[bundle[p]][q] = disk[bundle[p]][q]
           /\ IF Present(bundle[p], Current(p)) /\ disk[bundle[p]][Current(p)].maker = fd[p]
              THEN /\ disk'[bundle[p]][Current(p)] # Missing
                   /\ disk'[bundle[p]][Current(p)].has = Pieces(Current(p))
              ELSE disk' = disk
           /\ bundle' = bundle
<1> DEFINE b == bundle[p]
           part == Current(p)
<1>1. pc[p] = "fill"
  BY DEF FillFile
<1>2. op[p] = "install" /\ b \in Bundles
  BY <1>1, InstallersPlaces
<1>3. part \in PartsOf(b) /\ part \in Parts \ {"venv"}
  BY <1>1, <1>2, FileParts DEF PlaceOK, Current
<1>4. disk \in [Bundles -> Part] /\ DOMAIN disk[b] = Parts
  BY <1>2 DEF ManagerTypeOK, Part
<1>5. /\ pc'[p] \in {"open", "test"}
      /\ pc'[p] = "open" => at'[p] = at[p] + 1
      /\ IF Present(b, part) /\ disk[b][part].maker = fd[p]
         THEN disk' = [disk EXCEPT ![b][part] = [maker |-> fd[p], has |-> Pieces(part)]]
         ELSE disk' = disk
  BY DEF FillFile, Current, ManagerTypeOK, Goto, SetPart
<1>6. pc'[p] = "test" => at[p] = Len(FilesOf(b))
  <2>1. at[p] \in 1..Len(FilesOf(b)) /\ Len(FilesOf(b)) \in Nat
    BY <1>1, <1>2, BundleParts DEF PlaceOK
  <2>2. at[p] < Len(FilesOf(b)) => pc'[p] = "open"
    BY DEF FillFile, ManagerTypeOK, Goto
  <2> QED BY <2>1, <2>2
<1>7. [maker |-> fd[p], has |-> Pieces(part)] # Missing
  BY <1>3, FilesAreThere DEF File, ManagerTypeOK, Pieces
<1>8. Present(b, part) /\ disk[b][part].maker = fd[p] =>
        disk'[b][part] = [maker |-> fd[p], has |-> Pieces(part)]
  BY <1>2, <1>3, <1>4, <1>5
<1>9. bundle' = bundle
  BY DEF FillFile, manager
<1> QED BY <1>1, <1>2, <1>3, <1>4, <1>5, <1>6, <1>7, <1>8, <1>9

\* And so removing something, and the steps that make the environment.
LEMMA RemovedPart ==
    ASSUME ManagerTypeOK, NEW p \in Processes, PlaceOK(p), RemoveSome(p)
    PROVE  /\ bundle[p] \in Bundles /\ op[p] = "install" /\ pc[p] = "remove" /\ pc' = pc /\ bundle' = bundle
           /\ \A c \in Bundles \ {bundle[p]} : disk'[c] = disk[c]
           /\ \A q \in Parts \ {"venv"} : disk'[bundle[p]][q] \in {disk[bundle[p]][q], Missing}
           /\ disk'[bundle[p]]["venv"] # Missing =>
                /\ Present(bundle[p], "venv")
                /\ disk'[bundle[p]]["venv"].has \subseteq disk[bundle[p]]["venv"].has
<1>1. pc[p] = "remove" /\ pc' = pc /\ bundle' = bundle
  BY DEF RemoveSome, manager
<1>2. op[p] = "install" /\ bundle[p] \in Bundles
  BY <1>1, InstallersPlaces
<1>3. DiskStep(p)
  BY DiskSteps DEF Works
<1>4. PICK part \in Parts :
          /\ Present(bundle[p], part)
          /\ \/ SetPart(bundle[p], part, Missing)
             \/ /\ part = "venv"
                /\ \E piece \in disk[bundle[p]][part].has :
                      SetPart(bundle[p], part, [disk[bundle[p]][part] EXCEPT !.has = @ \ {piece}])
  BY DEF RemoveSome
<1>5. disk \in [Bundles -> Part] /\ DOMAIN disk[bundle[p]] = Parts
  BY <1>2 DEF ManagerTypeOK, Part
<1>6. disk[bundle[p]][part] \in File
  BY <1>2, <1>4, <1>5 DEF Present, Part
<1>7. PICK v : /\ SetPart(bundle[p], part, v)
               /\ v = Missing \/ (part = "venv" /\ v.has \subseteq disk[bundle[p]]["venv"].has)
  <2>1. CASE SetPart(bundle[p], part, Missing)
    BY <2>1
  <2>2. CASE ~SetPart(bundle[p], part, Missing)
    <3>1. part = "venv"
      BY <1>4, <2>2
    <3>2. PICK piece : SetPart(bundle[p], part, [disk[bundle[p]][part] EXCEPT !.has = @ \ {piece}])
      BY <1>4, <2>2
    <3>3. [disk[bundle[p]][part] EXCEPT !.has = @ \ {piece}].has \subseteq disk[bundle[p]][part].has
      BY <1>6 DEF File
    <3> QED BY <3>1, <3>2, <3>3
  <2> QED BY <2>1, <2>2
<1>8. disk' = [disk EXCEPT ![bundle[p]][part] = v]
  BY <1>7 DEF SetPart
<1>9. disk'[bundle[p]][part] = v /\ \A q \in Parts \ {part} : disk'[bundle[p]][q] = disk[bundle[p]][q]
  BY <1>2, <1>5, <1>8
<1>10. "venv" \in Parts
  BY DEF Parts
<1> QED BY <1>1, <1>2, <1>4, <1>5, <1>7, <1>8, <1>9, <1>10 DEF Present

LEMMA EnvironmentStep ==
    ASSUME ManagerTypeOK, NEW p \in Processes, PlaceOK(p), CreateVenv(p) \/ PipInstall(p)
    PROVE  /\ bundle[p] \in Bundles /\ op[p] = "install" /\ Provider[bundle[p]] = "paddleocr"
           /\ pc[p] \in {"venv", "pip"} /\ bundle' = bundle
           /\ \A c \in Bundles \ {bundle[p]} : disk'[c] = disk[c]
           /\ \A q \in Parts \ {"venv"} : disk'[bundle[p]][q] = disk[bundle[p]][q]
           /\ CreateVenv(p) =>
                /\ at[p] = 1 /\ at'[p] = 1 /\ pc'[p] = "pip"
                /\ disk' = disk \/ disk'[bundle[p]]["venv"].has = {}
           /\ PipInstall(p) =>
                /\ at[p] \in {1, 2}
                /\ Present(bundle[p], "venv") /\ disk'[bundle[p]]["venv"] # Missing
                /\ disk'[bundle[p]]["venv"].has = disk[bundle[p]]["venv"].has \cup {PipCommands[at[p]]}
                /\ IF at[p] = 1 THEN pc'[p] = "pip" /\ at'[p] = 2 ELSE pc'[p] = "open" /\ at'[p] = 1
<1>1. pc[p] \in {"venv", "pip"} /\ bundle' = bundle
  BY DEF CreateVenv, PipInstall, manager
<1>2. op[p] = "install" /\ bundle[p] \in Bundles /\ Provider[bundle[p]] = "paddleocr"
  BY <1>1, InstallersPlaces DEF PlaceOK
<1>3. disk \in [Bundles -> Part] /\ DOMAIN disk[bundle[p]] = Parts /\ "venv" \in Parts
  BY <1>2 DEF ManagerTypeOK, Part, Parts
<1>4. \/ disk' = disk
      \/ \E v : disk' = [disk EXCEPT ![bundle[p]]["venv"] = v]
  BY DEF CreateVenv, PipInstall, SetPart
<1>5. ASSUME CreateVenv(p)
      PROVE  /\ at[p] = 1 /\ at'[p] = 1 /\ pc'[p] = "pip"
             /\ disk' = disk \/ disk'[bundle[p]]["venv"].has = {}
  <2>1. at[p] = 1 /\ at'[p] = 1 /\ pc'[p] = "pip"
    BY <1>5 DEF CreateVenv, PlaceOK, ManagerTypeOK, Goto
  <2>2. disk' = disk \/ disk' = [disk EXCEPT ![bundle[p]]["venv"] = [maker |-> Missing, has |-> {}]]
    BY <1>5 DEF CreateVenv, SetPart
  <2> QED BY <1>2, <1>3, <2>1, <2>2
<1>6. ASSUME PipInstall(p)
      PROVE  /\ at[p] \in {1, 2}
             /\ Present(bundle[p], "venv") /\ disk'[bundle[p]]["venv"] # Missing
             /\ disk'[bundle[p]]["venv"].has = disk[bundle[p]]["venv"].has \cup {PipCommands[at[p]]}
             /\ IF at[p] = 1 THEN pc'[p] = "pip" /\ at'[p] = 2 ELSE pc'[p] = "open" /\ at'[p] = 1
  <2>1. pc[p] = "pip" /\ at[p] \in {1, 2} /\ Len(PipCommands) = 2 /\ Present(bundle[p], "venv")
    BY <1>6 DEF PipInstall, PlaceOK, PipCommands
  <2>2. disk[bundle[p]]["venv"] \in File /\ PipCommands[at[p]] \in {"runtime", "packages"}
    BY <1>2, <1>3, <2>1 DEF Present, Part, PipCommands
  <2>3. PICK v : /\ v = [disk[bundle[p]]["venv"] EXCEPT !.has = @ \cup {PipCommands[at[p]]}]
                 /\ disk' = [disk EXCEPT ![bundle[p]]["venv"] = v]
    BY <1>6 DEF PipInstall, SetPart
  <2>4. v \in File /\ v.has = disk[bundle[p]]["venv"].has \cup {PipCommands[at[p]]}
    BY <2>2, <2>3 DEF File
  <2>5. v # Missing /\ disk'[bundle[p]]["venv"] = v
    BY <1>2, <1>3, <2>3, <2>4, FilesAreThere
  <2>6. IF at[p] = 1 THEN pc'[p] = "pip" /\ at'[p] = 2 ELSE pc'[p] = "open" /\ at'[p] = 1
    BY <1>6, <2>1 DEF PipInstall, ManagerTypeOK, Goto
  <2> QED BY <2>1, <2>4, <2>5, <2>6
<1> QED BY <1>1, <1>2, <1>3, <1>4, <1>5, <1>6

LEMMA TypesHold ==
    ASSUME ManagerTypeOK, SelectedIsTested, NEW p \in Processes, PlaceOK(p), TestedBy(p),
           Begins(p) \/ Works(p) \/ Stops(p)
    PROVE  ManagerTypeOK'
<1>1. OthersStay(p)
  BY FrameHolds
<1>2. disk' \in [Bundles -> Part]
  <2>1. DiskStep(p) /\ (op[p] = "install" => bundle[p] \in Bundles)
    BY DiskSteps DEF PlaceOK
  <2> QED BY <2>1 DEF DiskStep, SetPart, ManagerTypeOK, Part
<1>3. /\ op' \in [Processes -> {"none", "install", "doctor"}]
      /\ alone' \subseteq Processes
  BY OthersKept DEF ManagerTypeOK, Begins, InstallOCR, Doctor, Starts, Stops, CallFails, Crash, Stop, manager
<1>5. passed' \in [{"install", "doctor"} -> SUBSET Bundles]
  <2>1. CASE SelfTestPasses(p)
    BY <2>1 DEF SelfTestPasses, PlaceOK, TestedBy, SelectedIsTested, ManagerTypeOK, Final
  <2>2. CASE ~SelfTestPasses(p)
    BY <2>2, OthersKept DEF ManagerTypeOK
  <2> QED BY <2>1, <2>2
<1>6. config' \in Selections \cup Unreadable \cup {Missing}
  <2>1. CASE SaveConfig(p)
    BY <2>1 DEF SaveConfig, Unreadable
  <2>2. CASE FlushConfig(p)
    <3>1. Record(p) \in Selections
      BY <2>2 DEF FlushConfig, Record, Selections, PlaceOK, TestedBy, ManagerTypeOK, Final
    <3> QED BY <2>2, <3>1 DEF FlushConfig, Unreadable
  <2>3. CASE ~SaveConfig(p) /\ ~FlushConfig(p)
    BY <2>3, OthersKept DEF ManagerTypeOK
  <2> QED BY <2>1, <2>2, <2>3
<1>7. pc' \in [Processes -> Steps]
  <2> USE DEF ManagerTypeOK, Goto, Steps, Final
  <2>1. CASE Begins(p)
    BY <2>1 DEF Begins, InstallOCR, Doctor
  <2>2. CASE Stops(p)
    BY <2>2 DEF Stops, CallFails, Crash, Stop
  <2>3. CASE Works(p)
    BY <2>3 DEF Works, RemoveSome, Removed, MkdirAll, CreateVenv, PipInstall, OpenFile, FillFile,
                SelfTestPasses, LoadFails, LoadForInstall, LoadForDoctor, Stat, SaveConfig, FlushConfig
  <2> QED BY <2>1, <2>2, <2>3
<1>8. at' \in [Processes -> Nat \ {0}]
  <2> USE DEF ManagerTypeOK
  <2>1. CASE Begins(p)
    BY <2>1 DEF Begins, InstallOCR, Doctor, Starts
  <2>2. CASE Stops(p)
    BY <2>2 DEF Stops, CallFails, Crash, Stop
  <2>3. CASE Works(p)
    <3>1. at' \in {at, [at EXCEPT ![p] = 1], [at EXCEPT ![p] = @ + 1]}
      BY <2>3 DEF Works, RemoveSome, Removed, MkdirAll, CreateVenv, PipInstall, OpenFile, FillFile,
                  SelfTestPasses, LoadFails, LoadForInstall, LoadForDoctor, Stat, SaveConfig, FlushConfig
    <3> QED BY <3>1
  <2> QED BY <2>1, <2>2, <2>3
<1>4. fd' \in [Processes -> Processes \cup {Missing}]
  <2> USE DEF ManagerTypeOK, manager, history
  <2>1. CASE OpenFile(p)
    <3> DEFINE part == FilesOf(bundle[p])[at[p]]
    <3>1. bundle[p] \in Bundles /\ at[p] \in 1..Len(FilesOf(bundle[p]))
      BY <2>1 DEF OpenFile, PlaceOK, Steps, Final
    <3>2. part \in Parts
      BY <3>1, FileParts
    <3>3. Present(bundle[p], part) => disk[bundle[p]][part].maker \in Processes \cup {Missing}
      BY <3>1, <3>2 DEF Present, Part, File
    <3> QED BY <2>1, <3>3 DEF OpenFile
  <2>2. CASE Begins(p)
    BY <2>2 DEF Begins, InstallOCR, Doctor, Starts
  <2>3. CASE Stops(p)
    BY <2>3 DEF Stops, CallFails, Crash, Stop
  <2>4. CASE Works(p) /\ ~OpenFile(p)
    BY <2>4 DEF Works, RemoveSome, Removed, MkdirAll, CreateVenv, PipInstall, FillFile,
                SelfTestPasses, LoadFails, LoadForInstall, LoadForDoctor, Stat, SaveConfig, FlushConfig
  <2> QED BY <2>1, <2>2, <2>3, <2>4, Zenon
<1> QED BY <1>1, <1>2, <1>3, <1>4, <1>5, <1>6, <1>7, <1>8 DEF OthersStay, ManagerTypeOK

LEMMA PlacesHold ==
    ASSUME ManagerTypeOK, \A q \in Processes : PlaceOK(q),
           NEW p \in Processes, Begins(p) \/ Works(p) \/ Stops(p)
    PROVE  \A q \in Processes : PlaceOK(q)'
<1>1. OthersStay(p) /\ pc[p] \notin Final
  BY FrameHolds, OnlyTheUndoneMove
<1>2. {q \in Processes : pc[q] \in Final} \subseteq {q \in Processes : pc[q] \in Final}'
  BY <1>1 DEF OthersStay, Final
<1>3. \A q \in Processes \ {p} : PlaceOK(q)'
  BY <1>1, <1>2 DEF OthersStay, PlaceOK, FilesOf
<1>4. before'[p] \subseteq {q \in Processes : pc[q] \in Final}'
  <2>1. before'[p] \in {before[p], {}, {q \in Processes : pc[q] \in Final}}
    <3> USE DEF ManagerTypeOK, history
    <3>1. CASE Begins(p)
      BY <3>1 DEF Begins, InstallOCR, Doctor, Starts
    <3>2. CASE Stops(p)
      BY <3>2 DEF Stops, CallFails, Crash, Stop
    <3>3. CASE Works(p)
      BY <3>3 DEF Works, RemoveSome, Removed, MkdirAll, CreateVenv, PipInstall, OpenFile, FillFile,
              SelfTestPasses, LoadFails, LoadForInstall, LoadForDoctor, Stat, SaveConfig, FlushConfig
    <3> QED BY <3>1, <3>2, <3>3
  <2> QED BY <2>1, <1>2 DEF PlaceOK
<1>5. PlaceOK(p)'
  <2> USE <1>1, <1>4 DEF ManagerTypeOK, PlaceOK, Final, Goto, manager, history
  <2>1. CASE Begins(p)
    BY <2>1 DEF Begins, InstallOCR, Doctor, Starts
  <2>2. CASE Stops(p)
    BY <2>2 DEF Stops, CallFails, Crash, Stop, Active
  <2>3. CASE RemoveSome(p) \/ Removed(p) \/ MkdirAll(p) \/ CreateVenv(p)
    <3>1. pc[p] \in {"remove", "mkdir", "venv", "pip", "open", "fill"}
      BY <2>3 DEF RemoveSome, Removed, MkdirAll, CreateVenv
    <3>4. bundle[p] \in Bundles
      BY <3>1, InstallersPlaces, Zenon
    <3>2. Provider[bundle[p]] \in {"builtin", "paddleocr"} /\ 1 \in 1..Len(FilesOf(bundle[p]))
      BY <3>4, BundleParts
    <3> QED BY <2>3, <3>4, <3>2 DEF RemoveSome, Removed, MkdirAll, CreateVenv, FilesOf
  <2>4. CASE PipInstall(p)
    <3>1. Provider[bundle[p]] = "paddleocr" /\ bundle[p] \in Bundles
      BY <2>4, InstallersPlaces DEF PipInstall
    <3>2. 1 \in 1..Len(FilesOf(bundle[p])) /\ Len(PipCommands) = 2
      BY <3>1, BundleParts DEF PipCommands
    <3> QED BY <2>4, <3>1, <3>2 DEF PipInstall, FilesOf
  <2>5. CASE OpenFile(p) \/ FillFile(p)
    <3>3. pc[p] \in {"open", "fill"}
      BY <2>5 DEF OpenFile, FillFile
    <3>1. bundle[p] \in Bundles
      BY <3>3, InstallersPlaces, Zenon
    <3>2. Len(FilesOf(bundle[p])) \in {2, 3}
      BY <3>1, BundleParts
    <3> QED BY <2>5, <3>1, <3>2 DEF OpenFile, FillFile, FilesOf
  <2>6. CASE SelfTestPasses(p) \/ LoadFails(p) \/ LoadForInstall(p) \/ LoadForDoctor(p) \/ Stat(p)
    BY <2>6 DEF SelfTestPasses, LoadFails, LoadForInstall, LoadForDoctor, Stat
  <2>7. CASE SaveConfig(p) \/ FlushConfig(p)
    BY <2>7 DEF SaveConfig, FlushConfig
  <2> QED BY <2>1, <2>2, <2>3, <2>4, <2>5, <2>6, <2>7, Zenon DEF Works
<1> QED BY <1>3, <1>5

LEMMA TestedHolds ==
    ASSUME ManagerTypeOK, \A q \in Processes : PlaceOK(q) /\ TestedBy(q), SelectedIsTested,
           NEW p \in Processes, Begins(p) \/ Works(p) \/ Stops(p)
    PROVE  SelectedIsTested' /\ \A q \in Processes : TestedBy(q)'
<1>1. OthersStay(p) /\ PlaceOK(p) /\ TestedBy(p)
  BY FrameHolds
<1>2. \A o \in {"install", "doctor"} : passed[o] \subseteq passed'[o]
  <2>1. CASE SelfTestPasses(p)
    BY <2>1 DEF SelfTestPasses, ManagerTypeOK
  <2>2. CASE ~SelfTestPasses(p)
    BY <2>2, OthersKept
  <2> QED BY <2>1, <2>2
<1>3. \A q \in Processes \ {p} : TestedBy(q)'
  BY <1>1, <1>2 DEF TestedBy, OthersStay
<1>4. TestedBy(p)'
  <2> USE <1>1, <1>2 DEF TestedBy, PlaceOK, ManagerTypeOK, Goto, Final, manager, history
  <2>1. CASE Begins(p)
    BY <2>1 DEF Begins, InstallOCR, Doctor, Starts
  <2>2. CASE Stops(p)
    BY <2>2 DEF Stops, CallFails, Crash, Stop
  <2>3. CASE RemoveSome(p) \/ Removed(p) \/ MkdirAll(p) \/ CreateVenv(p) \/ PipInstall(p)
    <3>1. op'[p] = "install" /\ pc'[p] \in {"remove", "mkdir", "venv", "pip", "open"}
      BY <2>3, InstallersPlaces DEF RemoveSome, Removed, MkdirAll, CreateVenv, PipInstall
    <3> QED BY <3>1
  <2>4. CASE OpenFile(p) \/ FillFile(p)
    <3>1. op'[p] = "install" /\ pc'[p] \in {"open", "fill", "test"}
      BY <2>4, InstallersPlaces DEF OpenFile, FillFile
    <3> QED BY <3>1
  <2>5. CASE SelfTestPasses(p)
    BY <2>5 DEF SelfTestPasses
  <2>6. CASE LoadFails(p) \/ LoadForInstall(p)
    BY <2>6 DEF LoadFails, LoadForInstall
  <2>7. CASE LoadForDoctor(p)
    BY <2>7 DEF LoadForDoctor, SelectedIsTested, Names, Selections
  <2>8. CASE Stat(p)
    BY <2>8 DEF Stat
  <2>9. CASE SaveConfig(p) \/ FlushConfig(p)
    BY <2>9 DEF SaveConfig, FlushConfig
  <2> QED BY <2>1, <2>2, <2>3, <2>4, <2>5, <2>6, <2>7, <2>8, <2>9, Zenon DEF Works
<1>5. SelectedIsTested'
  <2>1. CASE SaveConfig(p)
    BY <2>1, ComponentsAssumption DEF SaveConfig, SelectedIsTested, Names, Unreadable
  <2>2. CASE FlushConfig(p)
    <3>1. CASE config' = Garbled
      BY <3>1, ComponentsAssumption DEF SelectedIsTested, Names, Unreadable
    <3>2. CASE config' = Record(p)
      <4>1. \/ op[p] = "install" /\ config'.bundle = bundle[p] /\ config'.checked = FALSE
            \/ op[p] = "doctor" /\ config'.bundle = loaded[p].bundle
        BY <1>1, <2>2, <3>2 DEF FlushConfig, Record, PlaceOK, TestedBy, Selections, ManagerTypeOK, Final
      <4>2. bundle[p] \in passed'["install"] /\ (op[p] = "doctor" => bundle[p] \in passed'["doctor"])
        BY <1>1, <1>2, <2>2, <4>1 DEF FlushConfig, TestedBy
      <4> QED BY <1>1, <2>2, <4>1, <4>2 DEF FlushConfig, SelectedIsTested, Names, TestedBy
    <3> QED BY <2>2, <3>1, <3>2 DEF FlushConfig
  <2>3. CASE ~SaveConfig(p) /\ ~FlushConfig(p)
    BY <1>2, <2>3, OthersKept DEF SelectedIsTested, Names
  <2> QED BY <2>1, <2>2, <2>3
<1> QED BY <1>3, <1>4, <1>5

LEMMA LoneHolds ==
    ASSUME ManagerTypeOK, \A q \in Processes : PlaceOK(q) /\ LoneOK(q),
           NEW p \in Processes, Begins(p) \/ Works(p) \/ Stops(p)
    PROVE  \A q \in Processes : LoneOK(q)'
<1>1. OthersStay(p) /\ PlaceOK(p) /\ LoneOK(p)
  BY FrameHolds
<1>2. CASE Begins(p)
  <2>1. /\ pc[p] = "ready"
        /\ disk' = disk /\ config' = config /\ found'[p] = config
        /\ before'[p] = {q \in Processes : pc[q] \in Final}
        /\ alone' = IF Active = {} THEN alone ELSE alone \ (Active \cup {p})
        /\ \/ op'[p] = "install" /\ pc'[p] = "remove"
           \/ op'[p] = "doctor" /\ pc'[p] = "load"
    BY <1>2 DEF Begins, InstallOCR, Doctor, Starts, Goto, ManagerTypeOK
  <2>2. Active' = Active \cup {p} /\ {q \in Processes : pc[q] \in Final}' = {q \in Processes : pc[q] \in Final}
    BY <1>1, <2>1 DEF Active, Final, OthersStay
  <2>3. \A q \in Processes \ {p} : LoneOK(q)'
    BY <2>1, <2>2 DEF LoneOK
  <2>4. LoneOK(p)'
    BY <2>1, <2>2 DEF LoneOK
  <2> QED BY <2>3, <2>4
<1>3. CASE Works(p) \/ Stops(p)
  <2>1. p \in Active /\ alone' = alone /\ found' = found /\ op' = op
    BY <1>3, OthersKept, OnlyTheUndoneMove DEF Final, Active
  <2>2. Active' \subseteq Active
    BY <1>1, <2>1 DEF Active, OthersStay
  <2>3. \A q \in Processes \ {p} : LoneOK(q)'
    BY <2>1, <2>2 DEF LoneOK
  <2>4. SUFFICES ASSUME p \in alone, p \in Active'
                 PROVE  LoneOK(p)'
    BY <2>1, <2>3 DEF LoneOK
  <2>5. Works(p) /\ before' = before
    BY <1>3, <2>1, <2>4, OthersKept, OnlyTheUndoneMove DEF Stops, CallFails, Crash, Stop, Goto, Active, Final,
                                                           ManagerTypeOK
  <2>6. /\ Active = {p} /\ Active' = {p}
        /\ before'[p] = {q \in Processes : pc[q] \in Final}'
    BY <1>1, <2>1, <2>2, <2>4, <2>5 DEF LoneOK, Active, Final, OthersStay
  <2>7. config' = IF pc'[p] = "flush" THEN Empty ELSE found'[p]
    <3> USE <2>1, <2>4, <1>1 DEF LoneOK, Active, Final, ManagerTypeOK, Goto
    <3>1. CASE SaveConfig(p)
      BY <3>1 DEF SaveConfig
    <3>2. CASE FlushConfig(p)
      BY <3>2 DEF FlushConfig
    <3>3. CASE ~SaveConfig(p) /\ ~FlushConfig(p)
      <4>1. config' = config
        BY <3>3, OthersKept
      <4>2. pc[p] # "flush" /\ pc'[p] # "flush"
        BY <2>5, <3>3, StepsInOrder
      <4> QED BY <4>1, <4>2
    <3> QED BY <3>1, <3>2, <3>3
  <2>8. op'[p] = "doctor" /\ pc'[p] # "load" => loaded'[p] = found'[p]
    <3> SUFFICES ASSUME op[p] = "doctor", pc'[p] # "load" PROVE loaded'[p] = found'[p]
      BY <2>1
    <3> USE <2>1, <2>4, <1>1 DEF LoneOK, ManagerTypeOK
    <3>1. CASE LoadForDoctor(p)
      BY <3>1 DEF LoadForDoctor, Goto, Active, Final
    <3>2. CASE Stat(p) \/ SelfTestPasses(p) \/ SaveConfig(p)
      BY <3>2 DEF Stat, SelfTestPasses, SaveConfig
    <3>3. CASE FlushConfig(p) \/ LoadFails(p)
      BY <3>3 DEF FlushConfig, LoadFails, Goto, Active, Final
    <3> QED
      <4>1. pc[p] \notin {"remove", "mkdir", "venv", "pip", "open", "fill"}
        BY InstallersPlaces
      <4> QED BY <2>5, <3>1, <3>2, <3>3, <4>1, StepsInOrder
  <2>9. op'[p] = "doctor" /\ pc'[p] \in {"save", "flush"} => Runs(bundle[p])'
    <3> USE <2>1, <2>4, <1>1 DEF LoneOK, PlaceOK, Active, Final, ManagerTypeOK, Goto
    <3>1. CASE SelfTestPasses(p)
      BY <3>1 DEF SelfTestPasses, Runs, Whole, Present, manager
    <3>2. CASE SaveConfig(p)
      BY <3>2 DEF SaveConfig, Runs, Whole, Present, manager
    <3>3. CASE ~SelfTestPasses(p) /\ ~SaveConfig(p)
      BY <2>5, <3>3, StepsInOrder
    <3> QED BY <3>1, <3>2, <3>3
  <2>10. ASSUME op[p] = "install", Provider[bundle[p]] = "paddleocr"
         PROVE  /\ pc'[p] \in {"mkdir", "venv", "pip"} \/ (pc'[p] \in {"open", "fill"} /\ at'[p] = 1)
                   => ~Present(bundle[p], "helper")'
                /\ Present(bundle[p], "script")' =>
                     /\ pc'[p] = "fill" /\ at'[p] = 1 => disk'[bundle[p]]["script"].maker = fd'[p]
                     /\ pc'[p] \in {"open", "fill"} /\ at'[p] > 1 => Whole(bundle[p], "script")'
    <3> DEFINE b == bundle[p]
               Early == \/ pc[p] \in {"mkdir", "venv", "pip"} \/ (pc[p] \in {"open", "fill"} /\ at[p] = 1)
               Later == /\ pc[p] = "fill" /\ at[p] = 1 => disk[b]["script"].maker = fd[p]
                        /\ pc[p] \in {"open", "fill"} /\ at[p] > 1 => Whole(b, "script")
    <3>1. /\ Early => ~Present(b, "helper")
          /\ Present(b, "script") => Later
      BY <1>1, <2>1, <2>4, <2>10 DEF LoneOK
    <3>2. /\ b \in Bundles /\ bundle' = bundle /\ at[p] \in Nat \ {0}
          /\ FilesOf(b)[1] = "script" /\ FilesOf(b)[2] = "helper" /\ FilesOf(b)[3] = "manifest"
          /\ Len(FilesOf(b)) = 3
      <4>1. b \in Bundles
        BY <1>1, <2>10 DEF PlaceOK
      <4>2. ~LoadForDoctor(p)
        BY <2>10 DEF LoadForDoctor
      <4> QED BY <2>5, <2>10, <4>1, <4>2, BundleParts, OthersKept, OnlyTheUndoneMove DEF ManagerTypeOK, Active, Final
    <3>3. /\ disk \in [Bundles -> Part] /\ DOMAIN disk[b] = Parts
          /\ {"script", "helper", "manifest", "venv"} \subseteq Parts
      BY <3>2 DEF ManagerTypeOK, Part, Parts
    <3> HIDE DEF b
    <3>4. CASE Removed(p)
      BY <3>1, <3>2, <3>3, <3>4 DEF Removed, Goto, ManagerTypeOK, Present, b
    <3>5. CASE MkdirAll(p)
      BY <3>1, <3>2, <3>5, <2>10, <1>1 DEF MkdirAll, Goto, ManagerTypeOK, PlaceOK, Present, b
    <3>6. CASE CreateVenv(p)
      BY <3>1, <3>2, <3>3, <3>6 DEF CreateVenv, Goto, ManagerTypeOK, Present, SetPart, b
    <3>7. CASE PipInstall(p)
      <4>1. disk'[b]["helper"] = disk[b]["helper"]
        BY <3>2, <3>3, <3>7 DEF PipInstall, SetPart, b
      <4>2. pc'[p] = "pip" \/ at'[p] = 1
        BY <3>7 DEF PipInstall, ManagerTypeOK
      <4>3. pc'[p] \in {"pip", "open"} /\ pc[p] = "pip"
        BY <3>7, <2>5, StepsInOrder DEF PipInstall
      <4> QED BY <3>1, <3>2, <4>1, <4>2, <4>3 DEF Present, b
    <3>8. CASE OpenFile(p)
      <4> DEFINE part == Current(p)
      <4>1. /\ \A q \in Parts \ {part} : disk'[b][q] = disk[b][q]
            /\ disk'[b][part].maker = fd'[p]
            /\ pc[p] = "open" /\ pc'[p] = "fill" /\ at'[p] = at[p]
        <5>1. \A q \in Parts \ {part} : disk'[b][q] = disk[b][q]
          BY <1>1, <3>8, OpenedFile DEF b
        <5>2. disk'[b][part].maker = fd'[p]
          BY <1>1, <3>8, OpenedFile DEF b
        <5>3. pc[p] = "open" /\ pc'[p] = "fill" /\ at'[p] = at[p]
          BY <1>1, <3>8, OpenedFile DEF b
        <5> QED BY <5>1, <5>2, <5>3
      <4>2. at[p] \in {1, 2, 3}
        BY <1>1, <3>2, <4>1 DEF PlaceOK, b
      <4>3. CASE at[p] = 1
        BY <3>1, <3>2, <3>3, <4>1, <4>3 DEF Present, Current, b
      <4>4. CASE at[p] \in {2, 3}
        BY <3>1, <3>2, <3>3, <4>1, <4>4 DEF Present, Whole, Current, b
      <4> QED BY <4>2, <4>3, <4>4
    <3>9. CASE FillFile(p)
      <4> DEFINE part == Current(p)
      <4>1. /\ \A q \in Parts \ {part} : disk'[b][q] = disk[b][q]
            /\ IF Present(b, part) /\ disk[b][part].maker = fd[p]
               THEN disk'[b][part] # Missing /\ disk'[b][part].has = Pieces(part)
               ELSE disk' = disk
            /\ pc[p] = "fill" /\ pc'[p] \in {"open", "test"}
            /\ pc'[p] = "open" => at'[p] = at[p] + 1
        BY <1>1, <3>9, FilledFile DEF b
      <4>2. at[p] \in {1, 2, 3}
        BY <1>1, <3>2, <4>1 DEF PlaceOK, b
      <4>3. CASE at[p] = 1
        BY <3>1, <3>2, <3>3, <4>1, <4>3 DEF Present, Whole, Current, b
      <4>4. CASE at[p] \in {2, 3}
        BY <3>1, <3>2, <3>3, <4>1, <4>4 DEF Present, Whole, Current, b
      <4> QED BY <4>2, <4>3, <4>4
    <3>10. CASE pc'[p] \notin {"mkdir", "venv", "pip", "open", "fill"}
      BY <3>10
    <3> QED BY <2>5, <3>4, <3>5, <3>6, <3>7, <3>8, <3>9, <3>10, StepsInOrder DEF b
  <2>11. op[p] = "install" => bundle'[p] = bundle[p]
    BY <2>5, OthersKept, OnlyTheUndoneMove DEF LoadForDoctor, Active
  <2> QED BY <2>1, <2>6, <2>7, <2>8, <2>9, <2>10, <2>11 DEF LoneOK
<1> QED BY <1>2, <1>3

LEMMA ScriptsStayWhole ==
    ASSUME ManagerTypeOK, \A q \in Processes : PlaceOK(q) /\ LoneOK(q), ScriptsHold,
           NEW p \in Processes, Begins(p) \/ Works(p) \/ Stops(p)
    PROVE  ScriptsHold'
<1>1. alone' \subseteq alone
  BY OthersKept DEF Begins, InstallOCR, Doctor, Starts
<1> SUFFICES ASSUME alone' = Processes,
                    NEW b \in Bundles, Provider[b] = "paddleocr",
                    Present(b, "helper")', Present(b, "script")'
             PROVE  Whole(b, "script")'
  BY DEF ScriptsHold
<1>2. alone = Processes
  BY <1>1 DEF ManagerTypeOK
<1>3. Present(b, "helper") /\ Present(b, "script") => Whole(b, "script")
  BY <1>2 DEF ScriptsHold
<1>4. CASE disk'[b] = disk[b]
  BY <1>3, <1>4 DEF Present, Whole
<1>5. CASE disk'[b] # disk[b]
  <2>1. /\ op[p] = "install" /\ bundle[p] = b
        /\ pc[p] \in {"remove", "venv", "pip", "open", "fill"}
    BY <1>5, DiskSteps DEF DiskStep, SetPart, ManagerTypeOK
  <2>2. Works(p) /\ ~LoadForDoctor(p)
    BY <1>5, <2>1 DEF Begins, InstallOCR, Doctor, Starts, Stops, CallFails, Crash, Stop, LoadForDoctor
  <2>3. p \in Active /\ p \in alone
    BY <1>2, <2>2, OnlyTheUndoneMove
  <2>4. /\ pc[p] \in {"mkdir", "venv", "pip"} \/ (pc[p] \in {"open", "fill"} /\ at[p] = 1)
              => ~Present(b, "helper")
        /\ Present(b, "script") =>
             /\ pc[p] = "fill" /\ at[p] = 1 => disk[b]["script"].maker = fd[p]
             /\ pc[p] \in {"open", "fill"} /\ at[p] > 1 => Whole(b, "script")
    BY <2>1, <2>3 DEF LoneOK
  <2>5. /\ FilesOf(b)[1] = "script" /\ FilesOf(b)[2] = "helper" /\ FilesOf(b)[3] = "manifest"
        /\ Len(FilesOf(b)) = 3
        /\ {"script", "helper", "manifest", "venv"} \subseteq Parts
    BY BundleParts DEF Parts
  <2>6. CASE RemoveSome(p)
    BY <1>3, <2>1, <2>5, <2>6, RemovedPart DEF Present, Whole
  <2>7. CASE CreateVenv(p) \/ PipInstall(p)
    <3>1. \A q \in Parts \ {"venv"} : disk'[b][q] = disk[b][q]
      BY <2>1, <2>7, EnvironmentStep
    <3> QED BY <1>3, <2>5, <3>1 DEF Present, Whole
  <2>8. CASE OpenFile(p)
    <3>1. /\ \A q \in Parts \ {Current(p)} : disk'[b][q] = disk[b][q]
          /\ pc[p] = "open"
      BY <2>1, <2>8, OpenedFile
    <3>2. at[p] \in {1, 2, 3}
      <4>1. at[p] \in 1..Len(FilesOf(bundle[p]))
        BY <3>1 DEF PlaceOK
      <4>2. Len(FilesOf(bundle[p])) = 3
        BY <2>1, <2>5
      <4> QED BY <4>1, <4>2
    <3>3. CASE at[p] = 1
      BY <2>1, <2>4, <2>5, <3>1, <3>3 DEF Present, Current
    <3>4. CASE at[p] \in {2, 3}
      BY <2>1, <2>4, <2>5, <3>1, <3>4 DEF Present, Whole, Current
    <3> QED BY <3>2, <3>3, <3>4
  <2>9. CASE FillFile(p)
    <3>1. /\ \A q \in Parts \ {Current(p)} : disk'[b][q] = disk[b][q]
          /\ pc[p] = "fill"
      BY <2>1, <2>9, FilledFile
    <3>2. at[p] \in {1, 2, 3}
      <4>1. at[p] \in 1..Len(FilesOf(bundle[p]))
        BY <3>1 DEF PlaceOK
      <4>2. Len(FilesOf(bundle[p])) = 3
        BY <2>1, <2>5
      <4> QED BY <4>1, <4>2
    <3>3. CASE at[p] = 1
      BY <2>1, <2>4, <2>5, <3>1, <3>3 DEF Present, Current
    <3>4. CASE at[p] \in {2, 3}
      BY <2>1, <2>4, <2>5, <3>1, <3>4 DEF Present, Whole, Current
    <3> QED BY <3>2, <3>3, <3>4
  <2>10. CASE Removed(p)
    BY <1>5, <2>10 DEF Removed
  <2> QED BY <2>1, <2>2, <2>6, <2>7, <2>8, <2>9, <2>10, StepsInOrder
<1> QED BY <1>4, <1>5

LEMMA VenvsStayFit ==
    ASSUME ManagerTypeOK, VenvsFit, NEW p \in Processes, PlaceOK(p), Begins(p) \/ Works(p) \/ Stops(p)
    PROVE  VenvsFit'
<1> SUFFICES ASSUME NEW b \in Bundles, Present(b, "venv")'
             PROVE  disk'[b]["venv"].has \subseteq Pieces("venv")
  BY DEF VenvsFit
<1>1. Present(b, "venv") => disk[b]["venv"].has \subseteq Pieces("venv")
  BY DEF VenvsFit
<1>2. CASE disk'[b]["venv"] = disk[b]["venv"]
  BY <1>1, <1>2 DEF Present
<1>3. CASE disk'[b]["venv"] # disk[b]["venv"]
  <2>1. /\ bundle[p] = b /\ b \in Bundles
        /\ pc[p] \in {"remove", "venv", "pip", "open", "fill"}
    BY <1>3, DiskSteps DEF DiskStep, SetPart, ManagerTypeOK
  <2>2. Works(p)
    BY <1>3 DEF Begins, InstallOCR, Doctor, Starts, Stops, CallFails, Crash, Stop
  <2>3. CASE RemoveSome(p)
    BY <1>1, <2>1, <2>3, RemovedPart DEF Present
  <2>4. CASE CreateVenv(p)
    BY <1>3, <2>1, <2>4, EnvironmentStep
  <2>5. CASE PipInstall(p)
    <3>1. /\ Present(b, "venv") /\ at[p] \in {1, 2}
          /\ disk'[b]["venv"].has = disk[b]["venv"].has \cup {PipCommands[at[p]]}
      BY <2>1, <2>5, EnvironmentStep
    <3> QED BY <1>1, <3>1 DEF PipCommands, Pieces
  <2>6. CASE OpenFile(p) \/ FillFile(p)
    <3>1. "venv" \in Parts
      BY DEF Parts
    <3> QED BY <1>3, <2>1, <2>6, <3>1, OpenedFile, FilledFile
  <2>7. CASE Removed(p)
    BY <1>3, <2>7 DEF Removed
  <2> QED BY <2>1, <2>2, <2>3, <2>4, <2>5, <2>6, <2>7, StepsInOrder
<1> QED BY <1>2, <1>3

-----------------------------------------------------------------------------
(* What a bundle lacks, somebody owes it.                                  *)

\* What another process owes stays owed while the part is not touched.
LEMMA DebtsStay ==
    ASSUME NEW p \in Processes, OthersStay(p), NEW q \in Processes \ {p}, NEW part,
           disk'[bundle[q]][part] = disk[bundle[q]][part], Owes(q, part)
    PROVE  Owes(q, part)'
<1>1. /\ bundle'[q] = bundle[q] /\ pc'[q] = pc[q] /\ at'[q] = at[q] /\ fd'[q] = fd[q]
  BY DEF OthersStay
<1>2. OwesFile(q, part) => OwesFile(q, part)'
  BY <1>1 DEF OwesFile, Present, FilesOf
<1>3. part = "venv" /\ OwesVenv(q) => OwesVenv(q)'
  BY <1>1 DEF OwesVenv, Present
<1> QED BY <1>1, <1>2, <1>3 DEF Owes

\* Nobody began after a process that is not done.
LEMMA NotBehind ==
    ASSUME NEW p \in Processes, OthersStay(p), \A q \in Processes : PlaceOK(q), pc[p] \notin Final,
           ManagerTypeOK, Begins(p) \/ Works(p) \/ Stops(p)
    PROVE  \A r \in Processes : p \notin before'[r] /\ p \notin before[r]
<1>1. \A r \in Processes : p \notin before[r]
  BY DEF PlaceOK
<1>2. p \notin before'[p]
  <2>1. CASE Begins(p)
    BY <2>1 DEF Begins, InstallOCR, Doctor, Starts, ManagerTypeOK
  <2>2. CASE Stops(p)
    BY <2>2 DEF Stops, CallFails, Crash, Stop, ManagerTypeOK
  <2>3. CASE Works(p) /\ ~Begins(p) /\ ~Stops(p)
    BY <1>1, <2>3, OthersKept
  <2> QED BY <2>1, <2>2, <2>3
<1> QED BY <1>1, <1>2 DEF OthersStay

\* A step of a process that does not install the bundle.
LEMMA StrangersStep ==
    ASSUME ManagerTypeOK, \A q \in Processes : PlaceOK(q),
           NEW p \in Processes, Begins(p) \/ Works(p) \/ Stops(p),
           NEW b \in Bundles, BundleOK(b), p \notin InstallsOf(b), p \notin InstallsOf(b)'
    PROVE  BundleOK(b)'
<1>1. OthersStay(p) /\ PlaceOK(p)
  BY FrameHolds
<1>2. InstallsOf(b)' = InstallsOf(b)
  BY <1>1 DEF OthersStay, InstallsOf
<1>3. Standing(b)' = Standing(b)
  BY <1>1, <1>2 DEF OthersStay, Standing, InstallsOf
<1>4. Unsettled(b)' = Unsettled(b)
  BY <1>1, <1>2, <1>3 DEF OthersStay, Standing, Unsettled, InstallsOf
<1>5. disk'[b] = disk[b]
  BY <1>1, DiskSteps DEF DiskStep, SetPart, InstallsOf, ManagerTypeOK
<1>6. b \in passed'["install"] => b \in passed["install"]
  <2>1. CASE SelfTestPasses(p)
    BY <2>1 DEF SelfTestPasses, InstallsOf, ManagerTypeOK
  <2> QED BY <2>1, OthersKept
<1>7. Complete(b) => Complete(b)'
  BY <1>5 DEF Complete, Whole, Present, PartsOf, FilesOf
<1>8. Accounted(b) => Accounted(b)'
  <2> SUFFICES ASSUME Accounted(b), NEW part \in PartsOf(b)
               PROVE  Whole(b, part)' \/ \E q \in Unsettled(b)' : Owes(q, part)'
    BY DEF Accounted, PartsOf, FilesOf
  <2>1. CASE Whole(b, part)
    BY <1>5, <2>1 DEF Whole, Present
  <2>2. CASE \E q \in Unsettled(b) : Owes(q, part)
    <3>1. PICK q \in Unsettled(b) : Owes(q, part)
      BY <2>2
    <3>2. q \in Processes \ {p} /\ bundle[q] = b
      BY <3>1 DEF Unsettled, InstallsOf
    <3>3. Owes(q, part)'
      BY <1>1, <1>5, <3>1, <3>2, DebtsStay
    <3> QED BY <1>4, <3>1, <3>3
  <2> QED BY <2>1, <2>2 DEF Accounted
<1> QED BY <1>2, <1>3, <1>6, <1>7, <1>8 DEF BundleOK

\* A process that has everything to do, or has failed, is to blame for all
\* that is missing.
LEMMA OpenDebtor ==
    ASSUME ManagerTypeOK, \A q \in Processes : PlaceOK(q),
           NEW p \in Processes, Begins(p) \/ Works(p) \/ Stops(p),
           NEW b \in Bundles, p \in InstallsOf(b)',
           pc'[p] \in {"remove", "mkdir", "venv", "failed", "issues", "crashed"}
    PROVE  BundleOK(b)'
<1>1. \A r \in Processes : p \notin before'[r]
  BY FrameHolds, NotBehind, OnlyTheUndoneMove
<1>2. p \in Unsettled(b)'
  BY <1>1 DEF Unsettled, Standing, InstallsOf
<1>3. \A part : Owes(p, part)'
  BY DEF Owes
<1> QED BY <1>2, <1>3 DEF BundleOK, Accounted

\* An installation goes on: each part is whole now, or the installation owes
\* it, or it owed none and took nothing from what there was.
LEMMA InstallersStep ==
    ASSUME ManagerTypeOK, \A q \in Processes : PlaceOK(q),
           NEW p \in Processes, Works(p),
           NEW b \in Bundles, BundleOK(b), p \in InstallsOf(b), p \in InstallsOf(b)',
           pc'[p] \notin {"failed", "issues", "crashed"}, before' = before,
           \A part \in PartsOf(b) :
              \/ Whole(b, part)'
              \/ pc'[p] # "ok" /\ Owes(p, part)'
              \/ /\ ~Owes(p, part)
                 /\ Whole(b, part) => Whole(b, part)'
                 /\ \A q \in Processes \ {p} : bundle[q] = b /\ Owes(q, part) => Owes(q, part)'
    PROVE  BundleOK(b)'
<1>1. OthersStay(p) /\ PlaceOK(p) /\ pc[p] \notin Final
  BY FrameHolds, OnlyTheUndoneMove
<1>2. \A r \in Processes : p \notin before'[r]
  BY <1>1, NotBehind
<1>3. InstallsOf(b)' = InstallsOf(b)
  BY <1>1 DEF OthersStay, InstallsOf
<1>4. Standing(b)' = Standing(b) /\ p \in Standing(b)
  BY <1>1, <1>3 DEF OthersStay, Standing, InstallsOf, Final
<1>5. \A q \in Unsettled(b) \ {p} : q \in Unsettled(b)'
  BY <1>1, <1>3, <1>4 DEF OthersStay, Standing, Unsettled, InstallsOf
<1>6. pc'[p] # "ok" => p \in Unsettled(b)'
  BY <1>2 DEF Standing, Unsettled, InstallsOf
<1>7. Accounted(b)
  BY <1>4 DEF BundleOK
<1>8. Accounted(b)'
  <2> SUFFICES ASSUME NEW part \in PartsOf(b)
               PROVE  Whole(b, part)' \/ \E q \in Unsettled(b)' : Owes(q, part)'
    BY DEF Accounted, PartsOf, FilesOf
  <2>1. CASE Whole(b, part)'
    BY <2>1
  <2>2. CASE pc'[p] # "ok" /\ Owes(p, part)'
    BY <1>6, <2>2
  <2>3. CASE /\ ~Owes(p, part)
             /\ Whole(b, part) => Whole(b, part)'
             /\ \A q \in Processes \ {p} : bundle[q] = b /\ Owes(q, part) => Owes(q, part)'
    <3>1. CASE Whole(b, part)
      BY <2>3, <3>1
    <3>2. CASE ~Whole(b, part)
      <4>1. PICK q \in Unsettled(b) : Owes(q, part)
        BY <1>7, <3>2 DEF Accounted
      <4>2. q \in Processes \ {p} /\ bundle[q] = b
        BY <2>3, <4>1 DEF Unsettled, InstallsOf
      <4> QED BY <1>5, <2>3, <4>1, <4>2
    <3> QED BY <3>1, <3>2
  <2> QED BY <2>1, <2>2, <2>3
<1> QED BY <1>3, <1>8 DEF BundleOK, InstallsOf

\* The file a process is at is the only one of its name.
LEMMA FilesDiffer ==
    ASSUME NEW b \in Bundles, NEW i \in 1..Len(FilesOf(b)), NEW j \in DOMAIN FilesOf(b),
           FilesOf(b)[i] = FilesOf(b)[j]
    PROVE  i = j
BY BundleParts

LEMMA PartsAreFiles ==
    ASSUME NEW b \in Bundles, NEW part \in PartsOf(b)
    PROVE  /\ part \in Parts
           /\ part = "venv" => Provider[b] = "paddleocr"
           /\ part # "venv" => \E i \in DOMAIN FilesOf(b) : FilesOf(b)[i] = part
           /\ \A i \in DOMAIN FilesOf(b) : /\ i \in Nat /\ 1 <= i /\ i <= Len(FilesOf(b))
                                           /\ FilesOf(b)[i] # "venv"
           /\ Len(FilesOf(b)) \in Nat
BY BundleParts

LEMMA BundlesStayOK ==
    ASSUME ManagerTypeOK, VenvsFit, \A q \in Processes : PlaceOK(q),
           NEW p \in Processes, Begins(p) \/ Works(p) \/ Stops(p),
           NEW b \in Bundles, BundleOK(b)
    PROVE  BundleOK(b)'
<1>1. OthersStay(p) /\ PlaceOK(p) /\ DiskStep(p) /\ pc[p] \notin Final
  BY FrameHolds, DiskSteps, OnlyTheUndoneMove
<1>2. CASE p \notin InstallsOf(b) /\ p \notin InstallsOf(b)'
  BY <1>2, StrangersStep
<1>3. CASE p \notin InstallsOf(b) /\ p \in InstallsOf(b)'
  <2>1. ~LoadForDoctor(p)
    BY <1>3 DEF LoadForDoctor, InstallsOf
  <2>2. Begins(p)
    BY <1>3, <2>1, OthersKept DEF InstallsOf
  <2>3. pc'[p] = "remove"
    BY <1>3, <2>2 DEF Begins, InstallOCR, Doctor, InstallsOf, ManagerTypeOK, Goto
  <2> QED BY <1>3, <2>3, OpenDebtor
<1>4. CASE p \in InstallsOf(b)
  <2>1. op[p] = "install" /\ bundle[p] = b /\ ~Begins(p) /\ ~LoadForDoctor(p)
    BY <1>1, <1>4, OnlyTheUndoneMove DEF InstallsOf, PlaceOK, LoadForDoctor
  <2>2. p \in InstallsOf(b)' /\ op'[p] = "install" /\ bundle'[p] = b
    BY <2>1, OthersKept DEF InstallsOf
  <2>3. CASE pc'[p] \in {"remove", "mkdir", "venv", "failed", "issues", "crashed"}
    BY <2>2, <2>3, OpenDebtor
  <2>4. CASE pc'[p] \notin {"remove", "mkdir", "venv", "failed", "issues", "crashed"}
    <3>1. Works(p) /\ before' = before
      <4>1. ~Stops(p)
        BY <2>4 DEF Stops, CallFails, Crash, Stop, Goto, ManagerTypeOK
      <4> QED BY <2>1, <4>1, OthersKept
    <3> DEFINE Settled(part) ==
                 \/ Whole(b, part)'
                 \/ pc'[p] # "ok" /\ Owes(p, part)'
                 \/ /\ ~Owes(p, part)
                    /\ Whole(b, part) => Whole(b, part)'
                    /\ \A q \in Processes \ {p} : bundle[q] = b /\ Owes(q, part) => Owes(q, part)'
    <3>2. SUFFICES \A part \in PartsOf(b) : Settled(part)
      BY <1>4, <2>2, <2>4, <3>1, InstallersStep
    <3>3. \A part : disk'[b][part] = disk[b][part] /\ ~Owes(p, part) => Settled(part)
      BY <1>1, DebtsStay DEF Whole, Present
    <3> HIDE DEF Settled
    <3>4. CASE MkdirAll(p)
      <4>1. /\ pc'[p] = "open" /\ Provider[b] = "builtin" /\ at'[p] = 1
        BY <1>1, <2>1, <2>4, <3>4 DEF MkdirAll, PlaceOK, ManagerTypeOK, Goto
      <4>2. \A part \in PartsOf(b) : part # "venv"
        BY <4>1, PartsAreFiles
      <4>3. \A part \in PartsOf(b) : OwesFile(p, part)'
        BY <2>2, <4>1, <4>2, PartsAreFiles DEF OwesFile, FilesOf
      <4> QED BY <4>1, <4>3 DEF Settled, Owes
    <3>5. CASE CreateVenv(p)
      <4>1. pc'[p] = "pip" /\ at'[p] = 1
        BY <1>1, <3>5, EnvironmentStep
      <4>2. \A part \in PartsOf(b) \ {"venv"} : OwesFile(p, part)'
        BY <2>2, <4>1, PartsAreFiles DEF OwesFile, FilesOf
      <4>3. OwesVenv(p)'
        BY <4>1 DEF OwesVenv
      <4> QED BY <4>1, <4>2, <4>3 DEF Settled, Owes
    <3>6. CASE PipInstall(p)
      <4>1. /\ at[p] \in {1, 2} /\ pc[p] = "pip"
            /\ Present(b, "venv") /\ disk'[b]["venv"] # Missing
            /\ disk'[b]["venv"].has = disk[b]["venv"].has \cup {PipCommands[at[p]]}
            /\ IF at[p] = 1 THEN pc'[p] = "pip" /\ at'[p] = 2 ELSE pc'[p] = "open" /\ at'[p] = 1
        BY <1>1, <2>1, <3>6, EnvironmentStep DEF PipInstall
      <4>2. \A part \in PartsOf(b) \ {"venv"} : OwesFile(p, part)'
        BY <2>2, <4>1, PartsAreFiles DEF OwesFile, FilesOf
      <4>3. CASE at[p] = 1
        <5>1. OwesVenv(p)'
          BY <2>2, <4>1, <4>3 DEF OwesVenv, Present, PipCommands
        <5> QED BY <4>1, <4>2, <4>3, <5>1 DEF Settled, Owes
      <4>4. CASE at[p] = 2
        <5>1. disk'[b]["venv"].has = disk[b]["venv"].has \cup {"packages"}
          BY <4>1, <4>4 DEF PipCommands
        <5>2. disk[b]["venv"].has \subseteq {"runtime", "packages"}
          BY <4>1 DEF VenvsFit, Pieces
        <5>3. CASE "runtime" \in disk[b]["venv"].has
          <6>1. Whole(b, "venv")'
            BY <4>1, <5>1, <5>2, <5>3 DEF Whole, Present, Pieces
          <6> QED BY <4>1, <4>2, <4>4, <6>1 DEF Settled, Owes
        <5>4. CASE "runtime" \notin disk[b]["venv"].has
          <6>1. ~Whole(b, "venv")
            BY <5>4 DEF Whole, Pieces
          <6>2. ~Owes(p, "venv")
            <7>1. ~OwesFile(p, "venv")
              BY <2>1, BundleParts DEF OwesFile
            <7>2. ~OwesVenv(p)
              BY <2>1, <4>4, <5>4 DEF OwesVenv
            <7> QED BY <4>1, <7>1, <7>2 DEF Owes
          <6>3. ASSUME NEW q \in Processes \ {p}, bundle[q] = b, Owes(q, "venv")
                PROVE  Owes(q, "venv")'
            <7>1. ~OwesFile(q, "venv")
              BY <6>3, BundleParts DEF OwesFile
            <7>2. bundle'[q] = b /\ pc'[q] = pc[q] /\ at'[q] = at[q]
              BY <1>1, <6>3 DEF OthersStay
            <7> QED BY <4>1, <5>1, <6>3, <7>1, <7>2 DEF Owes, OwesVenv, Present
          <6> QED BY <4>1, <4>2, <4>4, <6>1, <6>2, <6>3 DEF Settled, Owes
        <5> QED BY <5>3, <5>4
      <4> QED BY <4>1, <4>3, <4>4
    <3>7. CASE OpenFile(p)
      <4>5. PICK cur : cur = Current(p)
        OBVIOUS
      <4>1. /\ \A part \in Parts \ {cur} : disk'[b][part] = disk[b][part]
            /\ disk'[b][cur] # Missing /\ disk'[b][cur].maker = fd'[p]
            /\ pc[p] = "open" /\ pc'[p] = "fill" /\ at'[p] = at[p]
        BY <1>1, <2>1, <3>7, <4>5, OpenedFile
      <4>2. at[p] \in 1..Len(FilesOf(b)) /\ at[p] \in DOMAIN FilesOf(b) /\ cur = FilesOf(b)[at[p]]
        BY <1>1, <2>1, <4>1, <4>5, BundleParts DEF PlaceOK, Current
      <4>3. OwesFile(p, cur)'
        BY <2>2, <4>1, <4>2 DEF OwesFile, Present, FilesOf
      <4>4. ASSUME NEW part \in PartsOf(b), part # cur
            PROVE  Settled(part)
        <5>1. disk'[b][part] = disk[b][part]
          BY <4>1, <4>4, PartsAreFiles
        <5>2. CASE Owes(p, part)
          <6>1. PICK i \in DOMAIN FilesOf(b) : FilesOf(b)[i] = part /\ at[p] <= i
            BY <2>1, <4>1, <5>2 DEF Owes, OwesVenv, OwesFile
          <6>2. i \in Nat /\ at[p] \in Nat /\ at[p] < i
            BY <4>2, <4>4, <6>1, PartsAreFiles
          <6>3. OwesFile(p, part)'
            BY <2>2, <4>1, <6>1, <6>2 DEF OwesFile, FilesOf
          <6> QED BY <4>1, <6>3 DEF Settled, Owes
        <5> QED BY <3>3, <5>1, <5>2
      <4> QED BY <4>1, <4>3, <4>4 DEF Settled, Owes
    <3>8. CASE FillFile(p)
      <4>5. PICK cur : cur = Current(p)
        OBVIOUS
      <4>1. /\ \A part \in Parts \ {cur} : disk'[b][part] = disk[b][part]
            /\ IF Present(b, cur) /\ disk[b][cur].maker = fd[p]
               THEN /\ disk'[b][cur] # Missing
                    /\ disk'[b][cur].has = Pieces(cur)
               ELSE disk' = disk
            /\ pc[p] = "fill" /\ pc'[p] \in {"open", "test"}
            /\ pc'[p] = "open" => at'[p] = at[p] + 1
            /\ pc'[p] = "test" => at[p] = Len(FilesOf(b))
        BY <1>1, <2>1, <3>8, <4>5, FilledFile
      <4>2. at[p] \in 1..Len(FilesOf(b)) /\ at[p] \in DOMAIN FilesOf(b) /\ cur = FilesOf(b)[at[p]]
        BY <1>1, <2>1, <4>1, <4>5, BundleParts DEF PlaceOK, Current
      <4>3. Settled(cur)
        <5>1. CASE Present(b, cur) /\ disk[b][cur].maker = fd[p]
          <6>1. disk'[b][cur] # Missing /\ disk'[b][cur].has = Pieces(cur)
            BY <4>1, <5>1
          <6>2. Whole(b, cur)'
            BY <6>1 DEF Whole, Present, Pieces
          <6> QED BY <6>2 DEF Settled
        <5>2. CASE ~(Present(b, cur) /\ disk[b][cur].maker = fd[p])
          <6>1. ~Owes(p, cur)
            <7>1. \A i \in DOMAIN FilesOf(b) : FilesOf(b)[i] = cur => i = at[p]
              BY <4>2, FilesDiffer
            <7>2. ~OwesFile(p, cur)
              BY <2>1, <4>1, <4>2, <5>2, <7>1 DEF OwesFile
            <7> QED BY <4>1, <7>2 DEF Owes, OwesVenv
          <6> QED BY <3>3, <4>1, <5>2, <6>1
        <5> QED BY <5>1, <5>2
      <4>4. ASSUME NEW part \in PartsOf(b), part # cur
            PROVE  Settled(part)
        <5>1. disk'[b][part] = disk[b][part]
          BY <4>1, <4>4, PartsAreFiles
        <5>2. CASE Owes(p, part)
          <6>1. PICK i \in DOMAIN FilesOf(b) : FilesOf(b)[i] = part /\ at[p] < i
            BY <2>1, <4>1, <4>2, <4>4, <5>2 DEF Owes, OwesVenv, OwesFile
          <6>2. i \in Nat /\ at[p] \in Nat /\ at[p] + 1 <= i /\ i <= Len(FilesOf(b)) /\ Len(FilesOf(b)) \in Nat
            BY <4>2, <6>1, PartsAreFiles
          <6>3. pc'[p] = "open" /\ at'[p] <= i
            BY <4>1, <6>2
          <6>4. OwesFile(p, part)'
            BY <2>2, <6>1, <6>3 DEF OwesFile, FilesOf
          <6> QED BY <6>3, <6>4 DEF Settled, Owes
        <5> QED BY <3>3, <5>1, <5>2
      <4> QED BY <4>3, <4>4
    <3>9. CASE pc[p] \in {"test", "load", "save", "flush"}
      <4>1. \A part : ~Owes(p, part)
        BY <3>9 DEF Owes, OwesVenv, OwesFile
      <4>2. disk' = disk
        BY <1>1, <3>9 DEF DiskStep
      <4> QED BY <3>3, <4>1, <4>2
    <3>10. pc[p] # "stat"
      BY <1>1, <2>1 DEF PlaceOK
    <3> QED BY <2>1, <2>4, <3>1, <3>4, <3>5, <3>6, <3>7, <3>8, <3>9, <3>10, StepsInOrder
  <2> QED BY <2>3, <2>4
<1> QED BY <1>2, <1>3, <1>4

-----------------------------------------------------------------------------
(* The invariant, and what it says.                                        *)

LEMMA ManagerInitially ==
    ASSUME ManagerInit
    PROVE  ManagerInv
<1>1. PICK ready \in {{}} \cup {{b} : b \in Bundles} :
          /\ disk = [b \in Bundles |-> [part \in Parts |->
                IF b \in ready /\ part \in PartsOf(b)
                THEN [maker |-> Missing, has |-> Pieces(part)] ELSE Missing]]
          /\ IF ready = {} THEN config = Missing
             ELSE config \in [bundle : ready, checked : {FALSE}]
          /\ passed = [o \in {"install", "doctor"} |-> IF o = "install" THEN ready ELSE {}]
  BY DEF ManagerInit
<1>2. ready \subseteq Bundles
  OBVIOUS
<1>3. \A part \in Parts : [maker |-> Missing, has |-> Pieces(part)] \in File
  BY DEF Parts, Pieces, File
<1>4. ManagerTypeOK
  <2>1. disk \in [Bundles -> Part]
    BY <1>1, <1>3 DEF Part
  <2>2. config \in Selections \cup Unreadable \cup {Missing}
    BY <1>1, <1>2 DEF Selections
  <2> QED BY <1>1, <1>2, <2>1, <2>2 DEF ManagerInit, ManagerTypeOK, Steps
<1>5. \A b \in Bundles, part \in Parts :
        disk[b][part] = IF b \in ready /\ part \in PartsOf(b)
                        THEN [maker |-> Missing, has |-> Pieces(part)] ELSE Missing
  BY <1>1
<1>6. \A b \in Bundles : b \in ready => Complete(b)
  <2> SUFFICES ASSUME NEW b \in Bundles, b \in ready, NEW part \in PartsOf(b)
               PROVE  Whole(b, part)
    BY DEF Complete
  <2>1. part \in Parts
    BY PartsAreFiles
  <2>2. disk[b][part] = [maker |-> Missing, has |-> Pieces(part)]
    BY <1>5, <2>1
  <2>3. disk[b][part] # Missing /\ disk[b][part].has = Pieces(part)
    BY <1>3, <2>1, <2>2, FilesAreThere
  <2> QED BY <2>3 DEF Whole, Present
<1>7. \A b \in Bundles : b \notin ready => \A part \in Parts : ~Present(b, part)
  BY <1>5 DEF Present
<1>8. VenvsFit
  BY <1>5, <1>7 DEF VenvsFit, Parts, Present
<1>9. \A p \in Processes : PlaceOK(p) /\ TestedBy(p) /\ LoneOK(p)
  BY DEF ManagerInit, PlaceOK, TestedBy, LoneOK, Active, Final
<1>10. \A b \in Bundles : BundleOK(b)
  <2>1. \A b \in Bundles : InstallsOf(b) = {} /\ Standing(b) = {}
    BY DEF InstallsOf, Standing, ManagerInit
  <2> QED BY <1>1, <1>6, <2>1 DEF BundleOK
<1>11. SelectedIsTested
  BY <1>1, <1>2, ComponentsAssumption DEF SelectedIsTested, Names
<1>12. ScriptsHold
  BY <1>6, <1>7, BundleParts DEF ScriptsHold, Complete, Parts
<1> QED BY <1>4, <1>8, <1>9, <1>10, <1>11, <1>12 DEF ManagerInv

LEMMA ManagerInvKept ==
    ASSUME ManagerInv, [ManagerNext]_managerVars
    PROVE  ManagerInv'
<1>1. CASE UNCHANGED managerVars
  <2> USE <1>1 DEF managerVars
  <2>1. /\ ManagerTypeOK /\ VenvsFit /\ SelectedIsTested /\ ScriptsHold
        /\ \A q \in Processes : PlaceOK(q) /\ TestedBy(q) /\ LoneOK(q)
        /\ \A b \in Bundles : BundleOK(b)
    BY DEF ManagerInv
  <2>2. ManagerTypeOK'
    BY <2>1 DEF ManagerTypeOK
  <2>3. VenvsFit'
    BY <2>1 DEF VenvsFit, Present
  <2>4. SelectedIsTested'
    BY <2>1 DEF SelectedIsTested, Names
  <2>5. ScriptsHold'
    BY <2>1 DEF ScriptsHold, Present, Whole
  <2>6. \A q \in Processes : PlaceOK(q)'
    BY <2>1 DEF PlaceOK
  <2>7. \A q \in Processes : TestedBy(q)'
    BY <2>1 DEF TestedBy
  <2>8. \A q \in Processes : LoneOK(q)'
    BY <2>1 DEF LoneOK, Active, Runs, Whole, Present
  <2>9. \A b \in Bundles : BundleOK(b)'
    <3> SUFFICES ASSUME NEW b \in Bundles PROVE BundleOK(b)'
      OBVIOUS
    <3>1. BundleOK(b)
      BY <2>1
    <3>2. InstallsOf(b)' = InstallsOf(b)
      BY DEF InstallsOf
    <3>3. Standing(b)' = Standing(b)
      BY <3>2 DEF Standing
    <3>4. Unsettled(b)' = Unsettled(b)
      BY <3>2, <3>3 DEF Unsettled
    <3>5. \A part : Whole(b, part)' = Whole(b, part)
      BY DEF Whole, Present
    <3>6. \A q, part : Owes(q, part)' = Owes(q, part)
      BY DEF Owes, OwesVenv, OwesFile, Present
    <3>7. Accounted(b)' = Accounted(b) /\ Complete(b)' = Complete(b)
      BY <3>4, <3>5, <3>6 DEF Accounted, Complete
    <3> QED BY <3>1, <3>2, <3>3, <3>7 DEF BundleOK
  <2> QED BY <2>2, <2>3, <2>4, <2>5, <2>6, <2>7, <2>8, <2>9 DEF ManagerInv
<1>2. CASE \E p \in Processes : Begins(p) \/ Works(p) \/ Stops(p)
  <2>1. PICK p \in Processes : Begins(p) \/ Works(p) \/ Stops(p)
    BY <1>2
  <2>2. /\ ManagerTypeOK /\ VenvsFit /\ SelectedIsTested /\ ScriptsHold
        /\ \A q \in Processes : PlaceOK(q) /\ TestedBy(q) /\ LoneOK(q)
        /\ \A b \in Bundles : BundleOK(b)
    BY DEF ManagerInv
  <2>3. ManagerTypeOK' /\ VenvsFit'
    BY <2>1, <2>2, TypesHold, VenvsStayFit
  <2>4. \A q \in Processes : PlaceOK(q)'
    BY <2>1, <2>2, PlacesHold
  <2>5. SelectedIsTested' /\ \A q \in Processes : TestedBy(q)'
    BY <2>1, <2>2, TestedHolds
  <2>6. \A q \in Processes : LoneOK(q)'
    BY <2>1, <2>2, LoneHolds
  <2>7. ScriptsHold'
    BY <2>1, <2>2, ScriptsStayWhole
  <2>8. \A b \in Bundles : BundleOK(b)'
    BY <2>1, <2>2, BundlesStayOK
  <2> QED BY <2>3, <2>4, <2>5, <2>6, <2>7, <2>8 DEF ManagerInv
<1> QED BY <1>1, <1>2, StepIsSomeones

LEMMA ManagerInvHolds == ManagerSpec => []ManagerInv
<1>1. ManagerInit => ManagerInv
  BY ManagerInitially
<1>2. ManagerInv /\ [ManagerNext]_managerVars => ManagerInv'
  BY ManagerInvKept
<1> QED BY <1>1, <1>2, PTL DEF ManagerSpec

\* The component that is selected has passed its tests, and is complete unless
\* an installation of it is under way or failed after the last one that
\* succeeded had begun: with any number of processes, crashes and failures
\* (install.go:65-119, install_paddle.go:43-107, doctor.go:96-104).
THEOREM SelectionIsSound == ManagerSpec => []SelectedIsSound
<1>1. ManagerInv => SelectedIsSound
  <2> SUFFICES ASSUME ManagerInv, NEW b \in Bundles, Names(b), Disturbers(b) = {}
               PROVE  Complete(b)
    BY DEF SelectedIsSound, SelectedIsComplete, ManagerInv
  <2> DEFINE Succeeded == {p \in InstallsOf(b) : pc[p] = "ok"}
  <2>1. (InstallsOf(b) \ Succeeded) \ UNION {before[p] : p \in Succeeded} = {}
    BY DEF Disturbers, InstallsOf
  <2>2. BundleOK(b) /\ b \in passed["install"]
    BY DEF ManagerInv, SelectedIsTested
  <2>3. Succeeded \subseteq Standing(b)
    BY DEF Standing
  <2>4. CASE InstallsOf(b) = {}
    BY <2>2, <2>4 DEF BundleOK
  <2>5. CASE InstallsOf(b) # {}
    <3>1. Standing(b) # {}
      BY <2>1, <2>3, <2>5
    <3>2. Accounted(b)
      BY <2>2, <3>1 DEF BundleOK
    <3>3. Unsettled(b) = {}
      <4> SUFFICES ASSUME NEW q \in Unsettled(b) PROVE FALSE
        OBVIOUS
      <4>1. q \in InstallsOf(b) \ Succeeded
        BY DEF Unsettled
      <4>2. \A r \in Succeeded : q \notin before[r]
        BY <2>3 DEF Unsettled
      <4> QED BY <2>1, <4>1, <4>2
    <3> QED BY <3>2, <3>3 DEF Accounted, Complete
  <2> QED BY <2>4, <2>5
<1> QED BY <1>1, ManagerInvHolds, PTL

\* A command that never met another one keeps its word when it ends, whatever
\* crashed or overlapped before it: what it selects is complete, what it finds
\* healthy can run, and failing it leaves the selection alone
\* (install.go:56-130, doctor.go:46-111).
THEOREM LoneCommandsAreTrusted == ManagerSpec => LoneCommandsKeepTheirWord
<1>1. ASSUME ManagerInv, ManagerInv', [ManagerNext]_managerVars
      PROVE  [\A p \in alone' : pc'[p] # pc[p] => KeepsItsWord(p)']_managerVars
  <2> SUFFICES ASSUME ManagerNext, NEW p \in alone', pc'[p] # pc[p]
               PROVE  KeepsItsWord(p)'
    BY <1>1
  <2>1. /\ ManagerTypeOK /\ \A q \in Processes : PlaceOK(q) /\ TestedBy(q) /\ LoneOK(q)
        /\ ScriptsHold /\ ManagerTypeOK'
    BY <1>1 DEF ManagerInv
  <2>2. p \in Processes /\ (Begins(p) \/ Works(p) \/ Stops(p))
    <3>1. p \in Processes
      BY <2>1 DEF ManagerTypeOK
    <3>2. ~ UNCHANGED managerVars
      BY DEF managerVars
    <3>3. PICK q \in Processes : Begins(q) \/ Works(q) \/ Stops(q)
      BY <3>2, StepIsSomeones
    <3>4. OthersStay(q)
      BY <2>1, <3>3, FrameHolds
    <3> QED BY <3>1, <3>3, <3>4 DEF OthersStay
  <2>3. CASE Begins(p)
    <3>1. pc'[p] \in {"remove", "load"}
      BY <2>1, <2>2, <2>3 DEF Begins, InstallOCR, Doctor, Goto, ManagerTypeOK
    <3> QED BY <3>1 DEF KeepsItsWord
  <2>4. CASE ~Begins(p)
    <3>1. p \in Active /\ OthersStay(p) /\ op' = op /\ found' = found /\ alone' = alone
      BY <2>1, <2>2, <2>4, FrameHolds, OthersKept, OnlyTheUndoneMove
    <3>2. /\ Active = {p} /\ before[p] = {q \in Processes : pc[q] \in Final}
          /\ config = IF pc[p] = "flush" THEN Empty ELSE found[p]
          /\ op[p] = "doctor" /\ pc[p] # "load" => loaded[p] = found[p]
          /\ op[p] = "doctor" /\ pc[p] \in {"save", "flush"} => Runs(bundle[p])
      BY <2>1, <2>2, <3>1 DEF LoneOK
    <3>3. CASE pc'[p] \in {"failed", "issues"}
      <4>1. ~SaveConfig(p) /\ ~FlushConfig(p)
        BY <2>1, <2>2, <3>3 DEF SaveConfig, FlushConfig, Goto, ManagerTypeOK
      <4>2. config' = config
        BY <2>2, <4>1, OthersKept
      <4> QED BY <3>1, <3>2, <3>3, <4>2 DEF KeepsItsWord
    <3>4. CASE pc'[p] = "ok"
      <4>1. Works(p)
        BY <2>1, <2>2, <2>4, <3>4 DEF Stops, CallFails, Crash, Stop, Goto, ManagerTypeOK
      <4>2. FlushConfig(p) \/ (LoadForDoctor(p) /\ op[p] = "doctor")
        BY <2>1, <2>2, <3>4, <4>1, StepsInOrder
      <4>3. CASE LoadForDoctor(p) /\ op[p] = "doctor"
        <5>1. found[p] = Missing
          <6>1. pc[p] = "load" /\ config = Missing
            BY <2>1, <2>2, <3>4, <4>3 DEF LoadForDoctor, Goto, ManagerTypeOK
          <6> QED BY <3>2, <6>1
        <5> QED BY <3>1, <3>4, <4>3, <5>1 DEF KeepsItsWord
      <4>4. CASE FlushConfig(p)
        <5>1. pc[p] = "flush" /\ config' = Record(p) /\ bundle' = bundle /\ disk' = disk /\ before' = before
          BY <3>2, <4>4 DEF FlushConfig, manager, history
        <5>2. CASE op[p] = "install"
          <6>1. bundle[p] \in Bundles /\ Names(bundle[p])'
            BY <2>1, <2>2, <5>1, <5>2 DEF Record, Names, Selections, PlaceOK
          <6>2. ASSUME NEW b, b = bundle[p]
                PROVE  Complete(b)'
            <7>1. /\ BundleOK(b)' /\ p \in Standing(b)' /\ b \in Bundles
              BY <1>1, <2>2, <3>1, <3>4, <5>1, <5>2, <6>1, <6>2 DEF ManagerInv, Standing, InstallsOf
            <7>2. Unsettled(b)' = {}
              <8> SUFFICES ASSUME NEW q \in Unsettled(b)' PROVE FALSE
                OBVIOUS
              <8>1. q \in Processes /\ op'[q] = "install" /\ pc'[q] # "ok" /\ q \notin before'[p]
                BY <7>1 DEF Unsettled, InstallsOf
              <8>2. q # p /\ pc[q] # "ready" /\ q \notin Active
                BY <2>1, <3>1, <3>2, <3>4, <8>1 DEF PlaceOK
              <8>3. pc[q] \in Final
                BY <8>1, <8>2 DEF Active
              <8> QED BY <3>2, <5>1, <8>1, <8>3
            <7>3. Accounted(b)'
              BY <7>1 DEF BundleOK
            <7> QED BY <7>2, <7>3 DEF Accounted, Complete
          <6>3. Complete(bundle[p])'
            BY <5>1, <6>2 DEF Complete, Whole, Present, PartsOf, FilesOf
          <6> QED BY <3>1, <3>4, <5>2, <6>1, <6>3 DEF KeepsItsWord
        <5>3. CASE op[p] = "doctor"
          <6>1. config' = [found'[p] EXCEPT !.checked = TRUE]
            BY <3>1, <3>2, <5>1, <5>3 DEF Record
          <6>2. ASSUME alone' = Processes
                PROVE  \A part \in PartsOf(bundle[p]) \ {"manifest"} : Whole(bundle[p], part)
            <7>1. Runs(bundle[p]) /\ bundle[p] \in Bundles
              BY <2>1, <2>2, <3>2, <5>1, <5>3 DEF TestedBy, Selections
            <7>2. ScriptsHold /\ alone = Processes
              BY <2>1, <3>1, <6>2
            <7> QED BY <7>1, <7>2, BundleParts DEF Runs, ScriptsHold, Whole
          <6>3. alone' = Processes => (\A part \in PartsOf(bundle[p]) \ {"manifest"} : Whole(bundle[p], part))'
            BY <5>1, <6>2 DEF Whole, Present, PartsOf, FilesOf
          <6> QED BY <3>1, <3>4, <5>3, <6>1, <6>3 DEF KeepsItsWord
        <5> QED BY <2>1, <2>2, <5>1, <5>2, <5>3 DEF PlaceOK, ManagerTypeOK
      <4> QED BY <4>2, <4>3, <4>4
    <3>5. CASE pc'[p] \notin {"ok", "failed", "issues"}
      BY <3>5 DEF KeepsItsWord
    <3> QED BY <3>3, <3>4, <3>5
  <2> QED BY <2>3, <2>4
<1>2. ManagerInv /\ ManagerInv' /\ [ManagerNext]_managerVars
        => [\A p \in alone' : pc'[p] # pc[p] => KeepsItsWord(p)']_managerVars
  BY <1>1
<1> QED BY <1>2, ManagerInvHolds, PTL DEF ManagerSpec, LoneCommandsKeepTheirWord

-----------------------------------------------------------------------------
(* The command line around a conversion.                                   *)

Sound(c) == c.stream.ending = "eof" /\ c.stream.size <= MaxSourceBytes

\* How far the conversion is, and what was decided by then.
IntakeInv ==
    /\ call \in Calls /\ cancelled \in BOOLEAN
    /\ stage \in {"start", "seek", "read", "sniff", "dispatch", "refused", "done"}
    /\ stage \in {"sniff", "dispatch", "done"} => Sound(call)
    /\ stage \in {"start", "seek", "read", "sniff", "dispatch"} => outcome = "pending"
    /\ stage = "refused" => outcome # "ok"
    /\ IntakeFailuresHaveCause

\* Where the command is, and what it has been told.
CommandInv ==
    /\ timeout \in {"none", "invalid", "set", "library"}
    /\ timeout = "library" => main = "none"
    /\ worker = "running" /\ timeout \in {"none", "invalid"} => main = "converting"
    /\ done = "ok" \/ received = "ok" => outcome = "ok" /\ stage = "done"
    /\ main # "exited" => sink = "untouched"
    /\ main = "exited" => (exit = 0 <=> sink = "whole")
    /\ sink # "untouched" => received = "ok"

\* An ended conversion takes no step.
LEMMA EndedConversionsRest ==
    ASSUME IntakeStep
    PROVE  stage \notin {"refused", "done"}
BY DEF IntakeStep, Start, Seek, Read, Fetch, Sniff, Dispatch

LEMMA IntakeInvKept ==
    ASSUME IntakeInv, IntakeStep
    PROVE  IntakeInv' /\ cancelled' = cancelled /\ call' = call
<1>1. /\ call \in Calls /\ call.stream \in Stream /\ call.stream.size \in Nat
      /\ call.kind = "other" \/ call.kind # "other"
      /\ MaxSourceBytes \in Nat /\ MaxHTTPBytes \in Nat
  BY IntakeAssumption DEF IntakeInv, Stream
<1>2. CASE Start
  BY <1>1, <1>2 DEF Start, IntakeInv, IntakeFailuresHaveCause, Fail, Proceed, Sound
<1>3. CASE Seek
  BY <1>1, <1>3 DEF Seek, IntakeInv, IntakeFailuresHaveCause, Fail, Proceed, Sound
<1>4. CASE Read
  <2>1. PICK o \in {"ok", "policy", "limit", "integrity", "cancelled"} :
          /\ Reading!Justified(o)
          /\ IF o = "ok" THEN SealResolved ELSE Fail(o)
    BY <1>4 DEF Read
  <2>2. call' = call /\ cancelled' = cancelled /\ stage = "read" /\ call.kind # "remote"
    BY <1>4 DEF Read
  <2>3. \/ o = "ok" /\ Sound(call)
        \/ o = "limit" /\ call.stream.size > MaxSourceBytes
        \/ o = "integrity" /\ call.stream.ending \in {"fault", "stall", "rogue"}
        \/ o = "cancelled" /\ (cancelled \/ call.stream.ending = "deadline")
    BY <1>1, <2>1 DEF Reading!Justified, SourceLimit, Sound
  <2>4. CASE o = "ok"
    BY <1>1, <2>1, <2>2, <2>3, <2>4 DEF SealResolved, IntakeInv, IntakeFailuresHaveCause
  <2>5. CASE o # "ok"
    BY <1>1, <2>1, <2>2, <2>3, <2>5 DEF Fail, IntakeInv, IntakeFailuresHaveCause
  <2> QED BY <2>4, <2>5
<1>5. CASE Fetch
  <2>1. call' = call /\ cancelled' = cancelled /\ stage = "read" /\ call.kind = "remote"
    BY <1>5 DEF Fetch
  <2>2. CASE call.stream.ending = "eof" /\ call.stream.size <= RemoteLimit /\ SealResolved
    BY <1>1, <2>1, <2>2 DEF SealResolved, RemoteLimit, Sound, IntakeInv, IntakeFailuresHaveCause
  <2>3. CASE \E o \in {"disabled", "policy", "limit", "cancelled", "integrity"} : Fail(o)
    BY <1>1, <2>1, <2>3 DEF Fail, IntakeInv, IntakeFailuresHaveCause
  <2> QED BY <1>5, <2>2, <2>3 DEF Fetch
<1>6. CASE Sniff
  BY <1>1, <1>6 DEF Sniff, IntakeInv, IntakeFailuresHaveCause
<1>7. CASE Dispatch
  BY <1>1, <1>7 DEF Dispatch, IntakeInv, IntakeFailuresHaveCause
<1> QED BY <1>2, <1>3, <1>4, <1>5, <1>6, <1>7 DEF IntakeStep

\* Cancelling only adds a cause.
LEMMA IntakeInvStays ==
    ASSUME IntakeInv, UNCHANGED intake, cancelled' \in {cancelled, TRUE}
    PROVE  IntakeInv'
<1>1. CASE cancelled' = cancelled
  BY <1>1 DEF IntakeInv, IntakeFailuresHaveCause, intake, Sound
<1>2. CASE cancelled' = TRUE
  BY <1>2 DEF IntakeInv, IntakeFailuresHaveCause, intake, Sound
<1> QED BY <1>1, <1>2

LEMMA CommandKeepsIntake ==
    ASSUME Next \/ UNCHANGED vars, cancelled \in BOOLEAN
    PROVE  Convert \/ (UNCHANGED intake /\ cancelled' \in {cancelled, TRUE})
BY DEF Next, Main, Parse, Select, Write, Exit, Expire, Send, Return, Rest, vars

LEMMA CommandInvKept ==
    ASSUME IntakeInv, CommandInv, [Next]_vars
    PROVE  CommandInv'
<1> USE DEF CommandInv
<1>1. CASE Convert
  BY <1>1, EndedConversionsRest DEF Convert, command
<1>2. CASE Parse
  BY <1>2 DEF Parse, Exit, intake
<1>3. CASE Select
  BY <1>3 DEF Select, intake
<1>4. CASE Write
  BY <1>4 DEF Write, Exit, intake
<1>5. CASE Expire
  BY <1>5 DEF Expire, intake, command
<1>6. CASE Send
  BY <1>6 DEF Send, intake, Ended, IntakeInv
<1>7. CASE Return
  BY <1>7 DEF Return, intake, Ended, IntakeInv, Library
<1>8. CASE Rest \/ UNCHANGED vars
  BY <1>8 DEF Rest, vars, intake, command
<1> QED BY <1>1, <1>2, <1>3, <1>4, <1>5, <1>6, <1>7, <1>8 DEF Next, Main

-----------------------------------------------------------------------------
(* What is known of a stream, and the facts that say so.                   *)

\* What a stream's info says of a kind.
Claim(i, k) == CASE k = "media_type" -> i.media
                 [] k = "filename"   -> i.filename
                 [] k = "extension"  -> i.extension

\* The one value of a kind that sniffing has recorded.
LEMMA SniffedFact ==
    ASSUME NEW i, NEW k \in {"media_type", "filename", "extension"}, NEW v, v = Claim(i, k)
    PROVE  Given(SafeFacts(i, "sniff"), k, "sniff") = {v} \ (Unsafe \cup {None})
<1> DEFINE value == [media_type |-> i.media, charset |-> FirstNonempty(i.charset, i.param),
                     filename |-> i.filename, extension |-> i.extension]
           S == {[kind |-> l, value |-> value[l], origin |-> "sniff"] :
                     l \in {j \in FactKind : value[j] \notin Unsafe \cup {None}}}
<1>1. SafeFacts(i, "sniff") = S
  BY DEF SafeFacts
<1>2. value[k] = v /\ k \in FactKind
  BY DEF FactKind, Claim
<1> HIDE DEF value
<1>3. \A f \in S : f.kind = k /\ f.origin = "sniff" => f.value = v /\ v \notin Unsafe \cup {None}
  BY <1>2
<1>4. v \notin Unsafe \cup {None} => [kind |-> k, value |-> v, origin |-> "sniff"] \in S
  BY <1>2
<1> HIDE DEF S
<1>5. v \notin Unsafe \cup {None} => v \in Given(S, k, "sniff")
  BY <1>4 DEF Given
<1>6. \A x \in Given(S, k, "sniff") : x = v /\ v \notin Unsafe \cup {None}
  BY <1>3 DEF Given
<1> QED BY <1>1, <1>5, <1>6

LEMMA SafeFactsOrigin ==
    ASSUME NEW i, NEW origin, NEW f \in SafeFacts(i, origin)
    PROVE  f.origin = origin
BY DEF SafeFacts

\* Sniffing adds nothing to what the source and its caller say, and is asked
\* only where they say nothing.
LEMMA SniffedRouting ==
    ASSUME NEW F, \A f \in F : f.origin \in {"source", "caller"},
           NEW i, NEW k \in {"media_type", "filename", "extension"}
    PROVE  /\ Strongest(F \cup SafeFacts(i, "sniff"), k, "caller", "source") = Strongest(F, k, "caller", "source")
           /\ Strongest(F \cup SafeFacts(i, "sniff"), k, "sniff", "sniff") =
                IF Claim(i, k) \in Unsafe \cup {None} THEN None ELSE Claim(i, k)
<1> DEFINE G == F \cup SafeFacts(i, "sniff")
           v == Claim(i, k)
<1>1. \A f \in SafeFacts(i, "sniff") : f.origin = "sniff"
  BY SafeFactsOrigin
<1>2. Given(G, k, "caller") = Given(F, k, "caller") /\ Given(G, k, "source") = Given(F, k, "source")
  BY <1>1 DEF Given
<1>3. Given(G, k, "sniff") = Given(SafeFacts(i, "sniff"), k, "sniff")
  BY <1>1 DEF Given
<1>4. Given(G, k, "sniff") = {v} \ (Unsafe \cup {None})
  BY <1>3, SniffedFact
<1>5. Strongest(G, k, "caller", "source") = Strongest(F, k, "caller", "source")
  BY <1>2 DEF Strongest
<1>6. CASE v \in Unsafe \cup {None}
  <2>1. Given(G, k, "sniff") = {}
    BY <1>4, <1>6
  <2> QED BY <1>5, <1>6, <2>1 DEF Strongest
<1>7. CASE v \notin Unsafe \cup {None}
  <2>1. Given(G, k, "sniff") = {v}
    BY <1>4, <1>7
  <2> QED BY <1>5, <1>7, <2>1 DEF Strongest
<1> QED BY <1>6, <1>7

LEMMA MergedFields ==
    ASSUME NEW F
    PROVE  /\ DOMAIN SafeMergedInfo(F) = InfoField
           /\ SafeMergedInfo(F).media = Strongest(F, "media_type", "caller", "source")
           /\ SafeMergedInfo(F).filename = Strongest(F, "filename", "caller", "source")
           /\ SafeMergedInfo(F).extension =
                IF /\ Strongest(F, "extension", "caller", "source") = None
                   /\ Strongest(F, "filename", "caller", "source") # None
                THEN Suffix[Strongest(F, "filename", "caller", "source")]
                ELSE Strongest(F, "extension", "caller", "source")
<1> DEFINE R == [media     |-> Strongest(F, "media_type", "caller", "source"),
                 param     |-> None,
                 charset   |-> Strongest(F, "charset", "caller", "source"),
                 filename  |-> Strongest(F, "filename", "caller", "source"),
                 extension |-> Strongest(F, "extension", "caller", "source")]
<1>1. SafeMergedInfo(F) = Normalized(R)
  BY DEF SafeMergedInfo
<1>2. CASE R.extension = None /\ R.filename # None
  <2>1. Normalized(R) = [R EXCEPT !.extension = Suffix[R.filename]]
    BY <1>2 DEF Normalized
  <2> QED BY <1>1, <1>2, <2>1 DEF InfoField
<1>3. CASE ~(R.extension = None /\ R.filename # None)
  <2>1. Normalized(R) = R
    BY <1>3 DEF Normalized
  <2> QED BY <1>1, <1>3, <2>1 DEF InfoField
<1> QED BY <1>2, <1>3

\* enrichStreamInfoWithFacts fills in what is missing, with canonical values.
Enriched(i) == WithExtension(ByContent(ByExtension(i)))

LEMMA EnrichedFields ==
    ASSUME call \in Calls, NEW i, DOMAIN i = InfoField
    PROVE  /\ Enriched(i).filename = i.filename
           /\ i.media # None => Enriched(i).media = i.media
           /\ i.media = None => Enriched(i).media \notin Unsafe
           /\ i.extension # None => Enriched(i).extension = i.extension
           /\ i.extension = None => Enriched(i).extension \notin Unsafe
<1>1. /\ None \notin Unsafe
      /\ call.content \in DOMAIN DetectContentType
      /\ \A e \in DOMAIN TypeByExtension : TypeByExtension[e].media \notin Unsafe
      /\ \A d \in DOMAIN DetectContentType : DetectContentType[d].media \notin Unsafe
      /\ \A m \in DOMAIN ExtensionsByType : ExtensionsByType[m] \notin Unsafe
  BY IntakeAssumption
<1> DEFINE Same(j) == /\ DOMAIN j = InfoField /\ j.filename = i.filename /\ j.extension = i.extension
                      /\ i.media # None => j.media = i.media
                      /\ i.media = None => j.media \notin Unsafe
<1>2. \A j, t : DOMAIN j = InfoField =>
        /\ DOMAIN Overlay(j, t) = InfoField
        /\ Overlay(j, t).filename = j.filename /\ Overlay(j, t).extension = j.extension
        /\ Overlay(j, t).media = t.media
  BY DEF Overlay, InfoField
<1>3. Same(ByExtension(i))
  BY <1>1, <1>2 DEF ByExtension
<1>4. Same(ByContent(ByExtension(i)))
  <2> DEFINE j == ByExtension(i)
  <2> HIDE DEF j
  <2>1. Same(j)
    BY <1>3 DEF j
  <2>2. Same(ByContent(j))
    BY <1>1, <1>2, <2>1 DEF ByContent
  <2> QED BY <2>2 DEF j
<1> DEFINE j == ByContent(ByExtension(i))
<1> HIDE DEF j
<1>5. Same(j)
  BY <1>4 DEF j
<1>6. CASE j.extension = None /\ j.media \in DOMAIN ExtensionsByType
  <2>1. WithExtension(j) = [j EXCEPT !.extension = ExtensionsByType[j.media]]
    BY <1>6 DEF WithExtension
  <2> QED BY <1>1, <1>5, <1>6, <2>1 DEF Enriched, j, InfoField
<1>7. CASE ~(j.extension = None /\ j.media \in DOMAIN ExtensionsByType)
  <2>1. WithExtension(j) = j
    BY <1>7 DEF WithExtension
  <2> QED BY <1>1, <1>5, <1>7, <2>1 DEF Enriched, j
<1> QED BY <1>6, <1>7

Routed ==
    /\ info.media = Best("media_type")
    /\ info.filename = Best("filename")
    /\ info.extension = IF Best("extension") = None /\ info.filename # None
                        THEN Suffix[info.filename] ELSE Best("extension")

\* Before sniffing there is what the source and the caller say and nothing else.
RoutingInv ==
    /\ stage = "sniff" => /\ \A f \in facts : f.origin \in {"source", "caller"}
                          /\ info = SafeMergedInfo(facts)
    /\ stage \in {"dispatch", "done"} => Routed

LEMMA SniffRoutes ==
    ASSUME IntakeInv, RoutingInv, Sniff
    PROVE  Routed'
<1>1. /\ call \in Calls
      /\ \A f \in facts : f.origin \in {"source", "caller"}
      /\ info = SafeMergedInfo(facts)
  BY DEF Sniff, IntakeInv, RoutingInv
<1> DEFINE sniffed == [f \in InfoField |-> IF info[f] = None THEN Enriched(info)[f] ELSE None]
           ct == Strongest(facts, "media_type", "caller", "source")
           cf == Strongest(facts, "filename", "caller", "source")
           ce == Strongest(facts, "extension", "caller", "source")
<1>2. info' = Enriched(info) /\ facts' = facts \cup SafeFacts(sniffed, "sniff")
  BY DEF Sniff, Enriched
<1>3. /\ sniffed.media = IF info.media = None THEN info'.media ELSE None
      /\ sniffed.filename = IF info.filename = None THEN info'.filename ELSE None
      /\ sniffed.extension = IF info.extension = None THEN info'.extension ELSE None
  BY <1>2 DEF InfoField
<1>4. /\ DOMAIN info = InfoField /\ info.media = ct /\ info.filename = cf
      /\ info.extension = IF ce = None /\ cf # None THEN Suffix[cf] ELSE ce
  BY <1>1, MergedFields
<1>5. /\ info'.filename = info.filename
      /\ info.media # None => info'.media = info.media
      /\ info.media = None => info'.media \notin Unsafe
      /\ info.extension # None => info'.extension = info.extension
      /\ info.extension = None => info'.extension \notin Unsafe
  BY <1>1, <1>2, <1>4, EnrichedFields
<1> HIDE DEF sniffed
<1>6. None \notin Unsafe
  BY IntakeAssumption
<1>7. /\ Claim(sniffed, "media_type") = sniffed.media
       /\ Claim(sniffed, "filename") = sniffed.filename
       /\ Claim(sniffed, "extension") = sniffed.extension
  BY DEF Claim
<1>8. ASSUME NEW k \in {"media_type", "filename", "extension"}
       PROVE  /\ Strongest(facts', k, "caller", "source") = Strongest(facts, k, "caller", "source")
              /\ Strongest(facts', k, "sniff", "sniff") =
                   IF Claim(sniffed, k) \in Unsafe \cup {None} THEN None ELSE Claim(sniffed, k)
  BY <1>1, <1>2, SniffedRouting
<1>9. /\ Strongest(facts', "media_type", "caller", "source") = ct
      /\ Strongest(facts', "media_type", "sniff", "sniff") =
            IF sniffed.media \in Unsafe \cup {None} THEN None ELSE sniffed.media
  BY <1>1, <1>2, <1>7, <1>8
<1>10. /\ Strongest(facts', "filename", "caller", "source") = cf
      /\ Strongest(facts', "filename", "sniff", "sniff") =
            IF sniffed.filename \in Unsafe \cup {None} THEN None ELSE sniffed.filename
  BY <1>1, <1>2, <1>7, <1>8
<1>11. /\ Strongest(facts', "extension", "caller", "source") = ce
      /\ Strongest(facts', "extension", "sniff", "sniff") =
            IF sniffed.extension \in Unsafe \cup {None} THEN None ELSE sniffed.extension
  BY <1>1, <1>2, <1>7, <1>8
<1> HIDE DEF ct, cf, ce
<1>12. info'.media = Best("media_type")'
  BY <1>3, <1>4, <1>5, <1>6, <1>9 DEF Best
<1>13. info'.filename = Best("filename")'
  BY <1>3, <1>4, <1>5, <1>6, <1>10 DEF Best
<1>14. info'.extension = IF Best("extension")' = None /\ info'.filename # None
                         THEN Suffix[info'.filename] ELSE Best("extension")'
  BY <1>3, <1>4, <1>5, <1>6, <1>11 DEF Best
<1> QED BY <1>12, <1>13, <1>14 DEF Routed

LEMMA RoutingInvKept ==
    ASSUME IntakeInv, RoutingInv, IntakeStep
    PROVE  RoutingInv'
<1>1. CASE Sniff
  <2>1. stage' = "dispatch"
    BY <1>1 DEF Sniff
  <2> QED BY <1>1, <2>1, SniffRoutes DEF RoutingInv
<1>2. CASE Dispatch
  BY <1>2 DEF Dispatch, RoutingInv, Routed, Best
<1>3. CASE SealResolved
  <2>1. \A f \in facts' : f.origin \in {"source", "caller"}
    BY <1>3, SafeFactsOrigin DEF SealResolved
  <2> QED BY <1>3, <2>1 DEF SealResolved, RoutingInv
<1>4. CASE Start \/ Seek \/ \E o : Fail(o)
  <2>1. stage' \in {"seek", "read", "refused"}
    BY <1>4 DEF Start, Seek, Fail, Proceed
  <2> QED BY <2>1 DEF RoutingInv
<1>5. CASE Read
  BY <1>3, <1>4, <1>5 DEF Read
<1>6. CASE Fetch
  BY <1>3, <1>4, <1>6 DEF Fetch
<1> QED BY <1>1, <1>2, <1>4, <1>5, <1>6 DEF IntakeStep

ConvertInv == IntakeInv /\ CommandInv /\ RoutingInv

LEMMA ConvertInvHolds == Spec => []ConvertInv
<1>1. Init => ConvertInv
  <2> SUFFICES ASSUME Init PROVE ConvertInv
    OBVIOUS
  <2>1. IntakeInv /\ RoutingInv
    BY DEF Init, IntakeInit, IntakeInv, RoutingInv, IntakeFailuresHaveCause
  <2>2. CommandInv
    BY DEF Init, CommandInv, Nothing, Library
  <2> QED BY <2>1, <2>2 DEF ConvertInv
<1>2. ConvertInv /\ [Next]_vars => ConvertInv'
  <2> SUFFICES ASSUME ConvertInv, [Next]_vars PROVE ConvertInv'
    OBVIOUS
  <2>1. IntakeInv /\ CommandInv /\ RoutingInv /\ cancelled \in BOOLEAN
    BY DEF ConvertInv, IntakeInv
  <2>2. CommandInv'
    BY <2>1, CommandInvKept
  <2>3. CASE Convert
    BY <2>1, <2>2, <2>3, IntakeInvKept, RoutingInvKept DEF Convert, ConvertInv
  <2>4. CASE ~Convert
    <3>1. UNCHANGED intake /\ cancelled' \in {cancelled, TRUE}
      BY <2>1, <2>4, CommandKeepsIntake
    <3>2. IntakeInv'
      BY <2>1, <3>1, IntakeInvStays
    <3>3. RoutingInv'
      BY <2>1, <3>1 DEF intake, RoutingInv, Routed, Best
    <3> QED BY <2>2, <3>2, <3>3 DEF ConvertInv
  <2> QED BY <2>3, <2>4
<1> QED BY <1>1, <1>2, PTL DEF Spec

\* Exit status 0 says that the whole Markdown has been written, and an output
\* is touched only for a source that was read whole and within its limit:
\* whatever the timer and the goroutine do (main.go:151-176, 192-203).
THEOREM ExitStatusTells == Spec => []ExitTellsWhatWasWritten
<1>1. ConvertInv => ExitTellsWhatWasWritten
  BY DEF ConvertInv, CommandInv, IntakeInv, Sound, ExitTellsWhatWasWritten
<1> QED BY <1>1, ConvertInvHolds, PTL

\* What the converters are told of a source is the value of the strongest fact
\* on record, for every table of types and every hint
\* (source.go:324-345, ingestion.go:712-733).
THEOREM RoutingIsOnRecord == Spec => []RoutingIsAccountedFor
<1>1. ConvertInv => RoutingIsAccountedFor
  <2> SUFFICES ASSUME ConvertInv, Sniffed PROVE RoutingIsAccountedFor
    BY DEF RoutingIsAccountedFor
  <2>1. stage \in {"dispatch", "done"}
    BY DEF ConvertInv, IntakeInv, Sniffed
  <2> QED BY <2>1 DEF ConvertInv, RoutingInv, Routed, RoutingIsAccountedFor
<1> QED BY <1>1, ConvertInvHolds, PTL

\* A source that is turned away is turned away for what it is, or because its
\* context ended, for every limit and every size (source.go:41-173, 440-451).
THEOREM RefusalsHaveCause == Spec => []IntakeFailuresHaveCause
<1>1. ConvertInv => IntakeFailuresHaveCause
  BY DEF ConvertInv, IntakeInv
<1> QED BY <1>1, ConvertInvHolds, PTL

=============================================================================
