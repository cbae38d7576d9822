-------------------------- MODULE DiskImageProofs --------------------------
(***************************************************************************)
(* DiskImage for every set of sizes, every container disk and whether or   *)
(* not scripts may be torn: its invariant, what no step may do to the disk,*)
(* and that it implements PersistentDisk.                                  *)
(***************************************************************************)
EXTENDS DiskImage, TLAPS

\* A script is blank, import or torn; only a whole one asks for a size.
LEMMA ScriptKinds ==
    ASSUME NEW s \in Script
    PROVE  /\ s.kind # "torn" => s.size > 0
           /\ s.size \in Nat
           /\ s.images \subseteq ImageSizes
<1>1. CASE s \in BlankScript
    <2>1. s.size \in Sizes /\ s.images = {}
        BY <1>1 DEF BlankScript
    <2>2. s.size \in Nat /\ s.size # 0
        BY <2>1, SizesAssumption
    <2>3. s.size > 0
        BY <2>2
    <2>4. QED
        BY <2>1, <2>2, <2>3
<1>2. CASE s \in ImportScript
    <2>1. s.size \in Sizes /\ s.images \in SUBSET ImageSizes
        BY <1>2 DEF ImportScript
    <2>2. s.size \in Nat /\ s.size # 0
        BY <2>1, SizesAssumption
    <2>3. s.size > 0
        BY <2>2
    <2>4. QED
        BY <2>1, <2>2, <2>3
<1>3. CASE s = TornScript
    BY <1>3 DEF TornScript
<1>4. QED
    BY <1>1, <1>2, <1>3 DEF Script, WholeScript

\* When scripts are never torn, the one installed is whole.
LEMMA NeverTorn ==
    ASSUME ~TornScripts, NEW s \in Script
    PROVE  s.kind # "torn"
<1>1. s \in BlankScript \/ s \in ImportScript
    BY DEF Script, WholeScript
<1>2. QED
    BY <1>1 DEF BlankScript, ImportScript

LEMMA WholeScriptKinds ==
    ASSUME NEW s \in WholeScript
    PROVE  s \in Script /\ s.kind # "torn"
<1>1. s \in BlankScript \/ s \in ImportScript
    BY DEF WholeScript
<1>2. QED
    BY <1>1 DEF Script, WholeScript, BlankScript, ImportScript

LEMMA TornIsScript == TornScripts => TornScript \in Script
BY DEF Script

LEMMA AbsentIsFile == Absent \in File
BY DEF Absent, File, Contents

\* The initial states satisfy the invariant: no file, no machine, no run yet.
LEMMA InitInv == Init => IInv
<1> SUFFICES ASSUME Init PROVE IInv
    OBVIOUS
<1>1. installed \in Script /\ run \in Script
    BY WholeScriptKinds DEF Init
<1>2. TypeOK
    BY <1>1, AbsentIsFile DEF Init, TypeOK, Ended
<1>3. QED
    BY <1>2 DEF Init, IInv, DiskWhole, DoneHasDisk, ScratchRemoved,
                PublishesOwnWork, AtLine, Lines

\* Every step preserves the invariant.
LEMMA NextInv == IInv /\ [Next]_vars => IInv'
<1> SUFFICES ASSUME IInv, [Next]_vars PROVE IInv'
    OBVIOUS
<1> USE DEF IInv, TypeOK, DiskWhole, DoneHasDisk, ScratchRemoved, PublishesOwnWork,
            AtLine, Lines, Ended
<1>0. /\ run.kind # "torn" => run.size \in Nat /\ run.size > 0
      /\ run.size \in Nat
      /\ run.images \subseteq ImageSizes
    BY ScriptKinds DEF TypeOK
<1>1. CASE Start
    BY <1>1 DEF Start
<1>2. CASE Clean
    BY AbsentIsFile, <1>2 DEF Clean
<1>3. CASE Test
    BY <1>3 DEF Test
<1>4. CASE Find
    <2>1. CASE at' = "exit1" /\ UNCHANGED source
        BY <1>4, <2>1 DEF Find
    <2>2. CASE source' \in run.images /\ at' = "convert"
        <3>1. source' \in ImageSizes
            BY <1>0, <2>2
        <3>2. source' > 0
            BY <3>1, ImageSizesAssumption
        <3>3. QED
            BY <1>4, <2>2, <3>1, <3>2 DEF Find
    <2>3. QED
        BY <1>4, <2>1, <2>2 DEF Find
<1>5. CASE Convert
    BY ImageSizesAssumption, <1>5 DEF Convert, File, Contents, Absent
<1>6. CASE Converted
    BY <1>6 DEF Converted, File, Contents, Absent
<1>7. CASE Enlarge
    <2>1. tmp' \in File /\ tmp'.data = tmp.data /\ tmp'.size >= tmp.size
        BY <1>0, <1>7 DEF Enlarge, File, Contents
    <2>2. tmp.data \in {"zeros", "image"} /\ tmp.size \in Nat /\ tmp'.size \in Nat
        BY <1>7, <2>1 DEF Enlarge, File
    <2>3. QED
        BY <1>7, <2>1, <2>2, ImageSizesAssumption DEF Enlarge
<1>8. CASE Create
    BY <1>8 DEF Create, File, Contents, Absent
<1>9. CASE Created
    BY <1>0, <1>9 DEF Created, File, Contents, Absent
<1>10. CASE Check
    BY <1>0, <1>10 DEF Check, File
<1>11. CASE Publish
    BY <1>0, AbsentIsFile, <1>11 DEF Publish, File, Absent
<1>12. CASE Measure
    BY <1>0, <1>12 DEF Measure, File, Contents, Absent
<1>13. CASE Leave
    BY AbsentIsFile, <1>13 DEF Leave
<1>14. CASE Fail
    BY <1>14 DEF Fail
<1>15. CASE RunTorn
    BY AbsentIsFile, <1>15 DEF RunTorn
<1>16. CASE Kill
    BY <1>16 DEF Kill, Running
<1>17. CASE StartVM
    BY <1>17 DEF StartVM
<1>18. CASE StopVM
    BY <1>18 DEF StopVM
<1>19. CASE GuestWrite
    BY <1>19 DEF GuestWrite, File, Contents, Absent
<1>20. CASE StopPod
    BY <1>20 DEF StopPod
<1>21. CASE Truncate
    BY TornIsScript, <1>21 DEF Truncate
<1>22. CASE Reconvert
    BY WholeScriptKinds, <1>22 DEF Reconvert
<1>23. CASE RemoveFails
    BY <1>23 DEF RemoveFails
<1>24. CASE UNCHANGED vars
    BY <1>24 DEF vars
<1>25. QED
    BY <1>1, <1>2, <1>3, <1>4, <1>5, <1>6, <1>7, <1>8, <1>9, <1>10, <1>11, <1>12,
       <1>13, <1>14, <1>15, <1>16, <1>17, <1>18, <1>19, <1>20, <1>21, <1>22, <1>23, <1>24
    DEF Next, ScriptStep

-----------------------------------------------------------------------------

\* IInv holds in every reachable state.
THEOREM Invariance == Spec => []IInv
BY InitInv, NextInv, PTL DEF Spec

\* Type correctness, for all sizes and images.
THEOREM TypeCorrect == Spec => []TypeOK
<1>1. IInv => TypeOK
    BY DEF IInv
<1>2. QED
    BY <1>1, Invariance, PTL

\* disk.img is complete whenever it exists, at whatever line a run died.
THEOREM DiskIsWhole == Spec => []DiskWhole
<1>1. IInv => DiskWhole
    BY DEF IInv
<1>2. QED
    BY <1>1, Invariance, PTL

\* A run of the init container that succeeded left a disk as large as it
\* asked for.
THEOREM DoneMeansDisk == Spec => []DoneHasDisk
<1>1. IInv => DoneHasDisk
    BY DEF IInv
<1>2. QED
    BY <1>1, Invariance, PTL

\* No run that ends by itself leaves a scratch file it can remove, and none publishes
\* what another left in it.
THEOREM ScratchIsPrivate == Spec => [](ScratchRemoved /\ PublishesOwnWork)
<1>1. IInv => ScratchRemoved /\ PublishesOwnWork
    BY DEF IInv
<1>2. QED
    BY <1>1, Invariance, PTL

-----------------------------------------------------------------------------
(***************************************************************************)
(* What a step may do to the disk.                                         *)
(***************************************************************************)

\* Only three steps write disk.img; in an invariant state each of them
\* provisions it, grows it, or is the guest's own write.
LEMMA DiskSteps ==
    ASSUME IInv, [Next]_vars, disk' # disk
    PROVE  \/ /\ disk = Absent
              /\ at = "publish"
              /\ disk' = tmp
              /\ vm' = vm
           \/ /\ disk # Absent
              /\ at = "measure"
              /\ disk' = [disk EXCEPT !.size = run.size]
              /\ run.size > disk.size
              /\ vm' = vm
           \/ /\ vm
              /\ vm' = vm
              /\ disk # Absent
              /\ disk' = [disk EXCEPT !.data = "guest"]
<1>1. CASE Publish
    BY <1>1 DEF Publish, IInv, PublishesOwnWork
<1>2. CASE Measure
    BY <1>2 DEF Measure, IInv, AtLine
<1>3. CASE GuestWrite
    BY <1>3 DEF GuestWrite
<1>4. CASE ~(Publish \/ Measure \/ GuestWrite)
    BY <1>4 DEF Next, vars, ScriptStep, Start, Clean, Test, Find, Convert,
                Converted, Enlarge, Create, Created, Check, Leave, Fail, RunTorn,
                RemoveFails, Kill, StartVM, StopVM, StopPod, Truncate, Reconvert
<1>5. QED
    BY <1>1, <1>2, <1>3, <1>4

\* The disk is never replaced, emptied or shrunk.
THEOREM NeverLosesData == Spec => DiskOnlyGrows
<1>1. IInv /\ [Next]_vars =>
        [disk # Absent => /\ disk'.size >= disk.size
                          /\ disk'.data \in {disk.data, "guest"}]_disk
    <2> SUFFICES ASSUME IInv, [Next]_vars, disk' # disk, disk # Absent
                 PROVE  /\ disk'.size >= disk.size
                        /\ disk'.data \in {disk.data, "guest"}
        OBVIOUS
    <2>1. disk \in File /\ run.size \in Nat
        BY ScriptKinds DEF IInv, TypeOK
    <2>2. QED
        BY DiskSteps, <2>1 DEF File
<1>2. QED
    BY <1>1, Invariance, PTL DEF Spec, DiskOnlyGrows

\* While a machine runs, the disk changes only by what the guest writes.
THEOREM GuestOwnsDisk == Spec => OnlyGuestWritesInUse
<1>1. IInv /\ [Next]_vars =>
        [vm /\ disk' # disk => vm' /\ disk'.size = disk.size /\ disk'.data = "guest"]_vars
    <2> SUFFICES ASSUME IInv, [Next]_vars, vm, disk' # disk
                 PROVE  vm' /\ disk'.size = disk.size /\ disk'.data = "guest"
        OBVIOUS
    <2>1. disk \in File /\ at = "done"
        BY DEF IInv, TypeOK, AtLine
    <2>2. QED
        BY DiskSteps, <2>1 DEF File
<1>2. QED
    BY <1>1, Invariance, PTL DEF Spec, OnlyGuestWritesInUse

-----------------------------------------------------------------------------
(***************************************************************************)
(* Refinement.                                                             *)
(***************************************************************************)

\* Whatever the init container goes through, the machine's view of the disk
\* is a behaviour of PersistentDisk; if no script is ever read torn, no
\* machine boots before its disk exists.
THEOREM Implementation == Spec => ImplementsPersistentDisk
<1>1. Init => Promise!Init
    BY DEF Init, Promise!Init, Promise!NoImage, Absent
<1>2. IInv /\ [Next]_vars => [Promise!Next]_(Promise!vars)
    <2> SUFFICES ASSUME IInv, [Next]_vars, ~(UNCHANGED <<disk, vm>>)
                 PROVE  Promise!Next
        BY DEF Promise!vars
    <2>1. /\ disk \in File /\ tmp \in File
          /\ run.size \in Nat
          /\ vm \in BOOLEAN
        BY ScriptKinds DEF IInv, TypeOK
    <2>2. disk # Absent => disk \in Promise!Image
        BY <2>1 DEF IInv, DiskWhole, File, Promise!Image
    <2>3. CASE disk' # disk /\ vm' = vm
        <3>1. CASE disk = Absent /\ at = "publish" /\ disk' = tmp
            <4>1. tmp \in Promise!Image /\ tmp.data # "guest"
                BY <2>1, <3>1 DEF IInv, PublishesOwnWork, File, Promise!Image
            <4>2. ~vm
                BY <3>1 DEF IInv, AtLine
            <4>3. Promise!Provision
                BY <2>3, <3>1, <4>1, <4>2 DEF Promise!Provision, Promise!NoImage, Absent
            <4>4. QED
                BY <4>3 DEF Promise!Next
        <3>2. CASE /\ disk # Absent
                   /\ at = "measure"
                   /\ disk' = [disk EXCEPT !.size = run.size]
                   /\ run.size > disk.size
            <4>1. ~vm
                BY <3>2 DEF IInv, AtLine
            <4>2. Promise!Grow
                BY <2>1, <2>2, <2>3, <3>2, <4>1 DEF Promise!Grow, Promise!Image
            <4>3. QED
                BY <4>2 DEF Promise!Next
        <3>3. CASE vm /\ disk # Absent /\ disk' = [disk EXCEPT !.data = "guest"]
            <4>1. disk' = [size |-> disk.size, data |-> "guest"]
                BY <2>1, <3>3 DEF File
            <4>2. Promise!GuestWrite
                BY <2>2, <2>3, <3>3, <4>1 DEF Promise!GuestWrite
            <4>3. QED
                BY <4>2 DEF Promise!Next
        <3>4. QED
            BY <2>3, <3>1, <3>2, <3>3, DiskSteps
    <2>4. CASE vm' # vm
        <3>1. CASE StartVM
            <4>1. ~TornScripts => disk # Absent
                BY <3>1, NeverTorn DEF StartVM, IInv, TypeOK, DoneHasDisk
            <4>2. Promise!Boot
                BY <3>1, <4>1 DEF StartVM, Promise!Boot, Promise!NoImage, Absent
            <4>3. QED
                BY <4>2 DEF Promise!Next
        <3>2. CASE StopVM \/ StopPod
            <4>1. Promise!Halt
                BY <2>1, <2>4, <3>2 DEF StopVM, StopPod, Promise!Halt
            <4>2. QED
                BY <4>1 DEF Promise!Next
        <3>3. CASE ~(StartVM \/ StopVM \/ StopPod)
            BY <2>4, <3>3 DEF Next, vars, ScriptStep, Start, Clean, Test, Find,
                Convert, Converted, Enlarge, Create, Created, Check, Publish,
                Measure, Leave, Fail, RemoveFails, RunTorn, Kill, GuestWrite, Truncate, Reconvert
        <3>4. QED
            BY <3>1, <3>2, <3>3
    <2>5. QED
        BY <2>3, <2>4, DiskSteps
<1>3. QED
    BY <1>1, <1>2, Invariance, PTL DEF Spec, ImplementsPersistentDisk, Promise!Spec

=============================================================================
