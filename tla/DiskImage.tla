------------------------------ MODULE DiskImage ------------------------------
(***************************************************************************)
(* The init container that provisions one DataVolume disk                  *)
(* (injectDataVolumeInitContainers), line by line of its shell script, with *)
(* everything that can happen around it: the script is killed at any line, *)
(* a command of it fails, the pod is stopped and started again, the VM is  *)
(* converted again with another size or source, and the conversion rewrites*)
(* the script in place while the pod may be starting.                      *)
(*                                                                         *)
(* The disk is one file in the volume, disk.img; the script writes to a    *)
(* scratch file, disk.img.partial, and renames it.  A file is a record of  *)
(* its size and of what it holds; sizes are in units no smaller than what  *)
(* qemu-img rounds to.  Of qemu-img the model assumes only that success    *)
(* means the size asked for and that a raw resize is one ftruncate.        *)
(***************************************************************************)
EXTENDS Naturals

CONSTANTS
    Sizes,        \* sizes a dataVolumeTemplate may request
    ImageSizes,   \* virtual sizes of the images found in a container disk
    TornScripts   \* may the companion script be read half rewritten?

\* A disk of size zero is never requested: such a template gets no init
\* container (post_render.go, "m.sizeBytes <= 0").
ASSUME SizesAssumption == Sizes \subseteq Nat \ {0}
ASSUME ImageSizesAssumption == ImageSizes \subseteq Nat \ {0}
ASSUME TornScriptsAssumption == TornScripts \in BOOLEAN

VARIABLES
    installed,  \* the script the unit directory holds
    run,        \* the script the running or last run of the init container read
    at,         \* the next line of that run, or how it ended
    source,     \* virtual size of the image find(1) chose
    disk,       \* <volume>/disk.img
    tmp,        \* <volume>/disk.img.partial
    vm          \* is the compute container running?

vars == <<installed, run, at, source, disk, tmp, vm>>

-----------------------------------------------------------------------------
(***************************************************************************)
(* Files and scripts.                                                      *)
(***************************************************************************)

Absent == [size |-> 0, data |-> "none"]
Contents == {"none", "torn", "zeros", "image", "guest"}
File == [size : Nat, data : Contents]

\* The blank script, the import script with the images its source mount
\* holds, and a script truncated by a conversion that is rewriting it.
BlankScript == [kind : {"blank"}, size : Sizes, images : {{}}]
ImportScript == [kind : {"import"}, size : Sizes, images : SUBSET ImageSizes]
WholeScript == BlankScript \cup ImportScript
TornScript == [kind |-> "torn", size |-> 0, images |-> {}]
Script == WholeScript \cup (IF TornScripts THEN {TornScript} ELSE {})

\* The lines at which a command may fail, by the state its failure leaves.
Lines == {"clean", "test", "find", "convert", "converting", "enlarge",
          "create", "creating", "check", "publish", "measure", "torn",
          "exit0", "exit1"}
\* "done" is active (exited): the unit is oneshot with RemainAfterExit=yes.
\* "unclean" is a failure that leaves the scratch file, as it cannot be removed.
Ended == {"inactive", "done", "failed", "unclean", "killed"}
Running == at \in Lines

Init ==
    /\ installed \in WholeScript
    /\ run = installed
    /\ at = "inactive"
    /\ source = 0
    /\ disk = Absent
    /\ tmp = Absent
    /\ vm = FALSE

-----------------------------------------------------------------------------
(***************************************************************************)
(* The script, one action per line that reads or writes a file.            *)
(***************************************************************************)

\* systemd starts the init unit; the shell reads the script it finds.
Start ==
    /\ at \in Ended \ {"done"}
    /\ run' = installed
    /\ at' = IF installed.kind = "torn" THEN "torn" ELSE "clean"
    /\ source' = 0
    /\ UNCHANGED <<installed, disk, tmp, vm>>

\* Faulty variant of Clean, for the mutation runs: the script resumes from a
\* scratch file it finds.
CleanResumes ==
    /\ at = "clean"
    /\ at' = IF tmp # Absent /\ disk = Absent THEN "enlarge" ELSE "test"
    /\ UNCHANGED <<installed, run, source, disk, tmp, vm>>

\* rm -f "$TMP"
Clean ==
    /\ at = "clean"
    /\ tmp' = Absent
    /\ at' = "test"
    /\ UNCHANGED <<installed, run, source, disk, vm>>

\* Faulty variant of Test: the script provisions on every boot.
TestNothing ==
    /\ at = "test"
    /\ at' = IF run.kind = "import" THEN "find" ELSE "create"
    /\ UNCHANGED <<installed, run, source, disk, tmp, vm>>

\* if [ ! -f "$DISK" ]
Test ==
    /\ at = "test"
    /\ at' = IF disk # Absent THEN "measure"
             ELSE IF run.kind = "import" THEN "find" ELSE "create"
    /\ UNCHANGED <<installed, run, source, disk, tmp, vm>>

\* Faulty variant of Find: it polls until an image appears.
FindWaits ==
    /\ at = "find"
    /\ source' \in run.images
    /\ at' = "convert"
    /\ UNCHANGED <<installed, run, disk, tmp, vm>>

\* SOURCE=$(find ... | head -1): whichever of the images find lists first.
Find ==
    /\ at = "find"
    /\ \/ /\ run.images = {}
          /\ at' = "exit1"
          /\ UNCHANGED source
       \/ /\ source' \in run.images
          /\ at' = "convert"
    /\ UNCHANGED <<installed, run, disk, tmp, vm>>

\* qemu-img convert creates the target at its full size and then fills it.
Convert ==
    /\ at = "convert"
    /\ tmp' = [size |-> source, data |-> "torn"]
    /\ at' = "converting"
    /\ UNCHANGED <<installed, run, source, disk, vm>>

Converted ==
    /\ at = "converting"
    /\ tmp' = [tmp EXCEPT !.data = "image"]
    /\ at' = "enlarge"
    /\ UNCHANGED <<installed, run, source, disk, vm>>

\* if [ "$SIZE" -gt "$CURRENT" ]; then qemu-img resize ... "$TMP" "$SIZE"
Enlarge ==
    /\ at = "enlarge"
    /\ tmp' = IF run.size > tmp.size THEN [tmp EXCEPT !.size = run.size] ELSE tmp
    /\ at' = "check"
    /\ UNCHANGED <<installed, run, source, disk, vm>>

\* qemu-img create -f raw "$TMP" "$SIZE"
Create ==
    /\ at = "create"
    /\ tmp' = [size |-> 0, data |-> "torn"]
    /\ at' = "creating"
    /\ UNCHANGED <<installed, run, source, disk, vm>>

Created ==
    /\ at = "creating"
    /\ tmp' = [size |-> run.size, data |-> "zeros"]
    /\ at' = "check"
    /\ UNCHANGED <<installed, run, source, disk, vm>>

\* if [ "$CURRENT" -lt "$SIZE" ]; then ... exit 1
Check ==
    /\ at = "check"
    /\ at' = IF tmp.size < run.size THEN "exit1" ELSE "publish"
    /\ UNCHANGED <<installed, run, source, disk, tmp, vm>>

\* mv -f "$TMP" "$DISK"
Publish ==
    /\ at = "publish"
    /\ disk' = tmp
    /\ tmp' = Absent
    /\ at' = "exit0"
    /\ UNCHANGED <<installed, run, source, vm>>

\* Faulty variants of Measure: it resizes without comparing, or never.
MeasureResizes ==
    /\ at = "measure"
    /\ disk' = [disk EXCEPT !.size = run.size]
    /\ at' = "exit0"
    /\ UNCHANGED <<installed, run, source, tmp, vm>>

MeasureNothing ==
    /\ at = "measure"
    /\ at' = "exit0"
    /\ UNCHANGED <<installed, run, source, disk, tmp, vm>>

\* The else branch: grow the disk in place, never shrink it.
Measure ==
    /\ at = "measure"
    /\ disk' = IF run.size > disk.size THEN [disk EXCEPT !.size = run.size] ELSE disk
    /\ at' = "exit0"
    /\ UNCHANGED <<installed, run, source, tmp, vm>>

\* Faulty variant of Leave: no trap.
LeaveWithoutTrap ==
    /\ at \in {"exit0", "exit1"}
    /\ at' = IF at = "exit0" THEN "done" ELSE "failed"
    /\ UNCHANGED <<installed, run, source, disk, tmp, vm>>

\* trap 'rm -f "$TMP"' EXIT, and the unit takes the exit status.
Leave ==
    /\ at \in {"exit0", "exit1"}
    /\ tmp' = Absent
    /\ at' = IF at = "exit0" THEN "done" ELSE "failed"
    /\ UNCHANGED <<installed, run, source, disk, vm>>

\* The rm of the first line or of the trap fails: the scratch file stays, and set
\* -e, which holds in the trap too, makes the exit status that of a failure.
RemoveFails ==
    /\ at \in {"clean", "exit0", "exit1"}
    /\ tmp # Absent
    /\ at' = "unclean"
    /\ UNCHANGED <<installed, run, source, disk, tmp, vm>>

\* Faulty variant of Fail: without set -e the script goes on after a qemu-img
\* that failed.
FailWithoutSetE ==
    /\ \/ at = "converting" /\ at' = "enlarge"
       \/ at = "creating" /\ at' = "check"
    /\ UNCHANGED <<installed, run, source, disk, tmp, vm>>

\* set -e: a command that fails ends the script.  A failing qemu-img leaves
\* what it had written; a failing resize leaves the file as it was.
Fail ==
    /\ at \in Lines \ {"clean", "test", "torn", "exit0", "exit1"}
    /\ at' = "exit1"
    /\ UNCHANGED <<installed, run, source, disk, tmp, vm>>

\* A truncated script: empty, it succeeds; cut in the middle of the if, the
\* shell rejects it after the lines before, the rm -f among them.
RunTorn ==
    /\ at = "torn"
    /\ at' \in {"done", "failed"}
    /\ tmp' \in {tmp, Absent}
    /\ UNCHANGED <<installed, run, source, disk, vm>>

\* SIGKILL, a host crash: no trap runs.
Kill ==
    /\ Running
    /\ at' = "killed"
    /\ UNCHANGED <<installed, run, source, disk, tmp, vm>>

ScriptStep ==
    \/ Clean \/ Test \/ Find \/ Convert \/ Converted \/ Enlarge
    \/ Create \/ Created \/ Check \/ Publish \/ Measure \/ Leave \/ RunTorn

-----------------------------------------------------------------------------
(***************************************************************************)
(* The pod around it, and the converter.                                   *)
(***************************************************************************)

\* Faulty variant of StartVM: compute is not ordered after the init unit.
StartVMUnordered ==
    /\ ~vm
    /\ vm' = TRUE
    /\ UNCHANGED <<installed, run, at, source, disk, tmp>>

\* The compute unit has Requires= and After= on every init unit, and
\* Restart=on-failure brings it back after a crash.
StartVM ==
    /\ ~vm
    /\ at = "done"
    /\ vm' = TRUE
    /\ UNCHANGED <<installed, run, at, source, disk, tmp>>

StopVM ==
    /\ vm
    /\ vm' = FALSE
    /\ UNCHANGED <<installed, run, at, source, disk, tmp>>

GuestWrite ==
    /\ vm
    /\ disk # Absent
    /\ disk' = [disk EXCEPT !.data = "guest"]
    /\ UNCHANGED <<installed, run, at, source, tmp, vm>>

\* Stopping the pod stops, through BindsTo= and Requires=, the compute unit
\* first and then the init unit, which leaves the exited state.
StopPod ==
    /\ at \in Ended
    /\ at' = "inactive"
    /\ vm' = FALSE
    /\ UNCHANGED <<installed, run, source, disk, tmp>>

\* The VM is converted again into the unit directory; os.WriteFile truncates
\* the script and writes it, and a converter that dies leaves it truncated.
Truncate ==
    /\ TornScripts
    /\ installed' = TornScript
    /\ UNCHANGED <<run, at, source, disk, tmp, vm>>

Reconvert ==
    /\ TornScripts => installed.kind = "torn"
    /\ installed' \in WholeScript
    /\ UNCHANGED <<run, at, source, disk, tmp, vm>>

Next ==
    \/ Start \/ ScriptStep \/ Fail \/ RemoveFails \/ Kill
    \/ StartVM \/ StopVM \/ GuestWrite \/ StopPod
    \/ Truncate \/ Reconvert

Spec == Init /\ [][Next]_vars

\* The kernel runs the shell: each line is eventually executed.  Nothing
\* makes systemd, the user, the guest or a failure act.
FairSpec == Spec /\ WF_vars(ScriptStep)

-----------------------------------------------------------------------------
(***************************************************************************)
(* What must hold.                                                         *)
(***************************************************************************)

TypeOK ==
    /\ installed \in Script
    /\ run \in Script
    /\ at \in Lines \cup Ended
    /\ source \in ImageSizes \cup {0}
    /\ disk \in File
    /\ tmp \in File
    /\ vm \in BOOLEAN

\* disk.img is never half written: whatever line the script dies at, a file
\* of that name is a complete image, so that "[ ! -f $DISK ]" on the next
\* boot may take its existence for its completeness.
DiskWhole == disk = Absent \/ (disk.data \in {"zeros", "image", "guest"} /\ disk.size > 0)

\* When the init unit has succeeded, the disk exists and is at least as
\* large as the script that ran asked for, whichever way it came about.
DoneHasDisk ==
    at = "done" /\ run.kind # "torn" => disk # Absent /\ disk.size >= run.size

\* A run that ends by itself leaves no scratch file behind, on any path but the
\* one on which it cannot remove it.
ScratchRemoved ==
    at \in {"done", "failed"} /\ run.kind # "torn" => tmp = Absent

\* The scratch file is trusted only by the run that wrote it: past the check
\* it is complete, and what an earlier, killed run left in it is never
\* measured or published.
PublishesOwnWork ==
    /\ at = "publish" => tmp.data \in {"zeros", "image"} /\ tmp.size >= run.size
    /\ at \in {"enlarge", "check"} => tmp.data \in {"zeros", "image"}
    /\ at \in {"enlarge", "check", "publish"} => disk = Absent
    /\ at \in {"enlarge", "check", "publish"} /\ tmp.data = "image" => tmp.size >= source

\* A machine that runs has its disk: "creates an empty raw disk file on first
\* boot", says the comment on the init container that compute waits for.
VMHasDisk == vm => disk # Absent

\* Which line is next bounds what the two files can hold; with the invariants
\* above, this is inductive.
AtLine ==
    /\ at \in Lines \ {"torn"} => run.kind # "torn"
    /\ at = "torn" => run.kind = "torn"
    /\ at \in {"find", "convert", "converting", "enlarge", "create", "creating",
              "check", "publish"} => disk = Absent
    /\ at = "measure" => disk # Absent
    /\ at = "exit0" => disk # Absent /\ disk.size >= run.size
    /\ at \in {"convert", "converting", "enlarge"} => source > 0
    /\ at = "converting" => tmp = [size |-> source, data |-> "torn"]
    /\ at \in {"enlarge", "check", "publish"} => tmp.size > 0
    /\ vm => at = "done"

IInv ==
    /\ TypeOK
    /\ DiskWhole
    /\ DoneHasDisk
    /\ ScratchRemoved
    /\ PublishesOwnWork
    /\ AtLine

\* Once it exists the disk is never imported or created anew, never loses
\* what the guest wrote and never shrinks, whatever later conversions ask.
DiskOnlyGrows ==
    [][disk # Absent =>
        /\ disk'.size >= disk.size
        /\ disk'.data \in {disk.data, "guest"}]_disk

\* While a machine runs only the guest writes the disk: the init container
\* cannot resize the file under it.
OnlyGuestWritesInUse ==
    [][vm /\ disk' # disk => vm' /\ disk'.size = disk.size /\ disk'.data = "guest"]_vars

\* Every run of the script ends: no path of it loops or waits.
RunEnds == Running ~> ~Running

\* The disk a machine sees is what PersistentDisk promises.
Promise == INSTANCE PersistentDisk
             WITH image <- disk, inUse <- vm, BootNeedsDisk <- ~TornScripts
ImplementsPersistentDisk == Promise!Spec

=============================================================================
