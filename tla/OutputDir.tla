------------------------------ MODULE OutputDir ------------------------------
(***************************************************************************)
(* writeFiles, over the life of a unit directory: VMs are converted into it*)
(* again and again, with more disks or fewer, and any conversion may fail  *)
(* or die between two files or within one.  Files are rewritten in place,  *)
(* in the order in which Convert makes them, and none is ever removed;     *)
(* systemd may read the directory at any time.                             *)
(*                                                                         *)
(* Files are pairs <<type, index>>, with the index of a disk, or 0.        *)
(***************************************************************************)
EXTENDS Enumerations, SequencesExt

CONSTANTS
    MaxDisks,        \* bound: disks to provision
    MaxConversions   \* bound: runs of the program

ASSUME MaxDisksAssumption == MaxDisks \in Nat
ASSUME MaxConversionsAssumption == MaxConversions \in Nat \ {0}

VARIABLES
    dir,         \* file -> what the directory has under that name
    current,     \* the conversion that runs or ran last
    todo,        \* the set of its files that are not yet written
    status,      \* what it is doing, or how it ended
    completed    \* history: shapes of the conversions that succeeded

vars == <<dir, current, todo, status, completed>>

\* What tells the files of one conversion from those of another; "number" stands
\* for all that changes only the contents.
Shapes == [disks : SUBSET (1..MaxDisks), ownNetwork : BOOLEAN]
Conversion == [shape : Shapes, number : 1..MaxConversions]

Files ==
    ({"volume", "init"} \X (0..MaxDisks)) \cup ({"script"} \X (1..MaxDisks))
      \cup ({"pod", "compute", "env", "network"} \X {0})

\* The inits, in pod order by their index: that of the directories has index 0
\* and no script, then comes one per disk.
Made(s) == {0} \cup s.disks
ScriptOf(d) == IF d = 0 THEN {} ELSE {<<"script", d>>}

\* Volume 0 is tmpfs.  The environment of compute has values that need a file.
FilesOf(s) ==
    ({"volume", "init"} \X Made(s)) \cup ({"script"} \X s.disks)
      \cup ({"pod", "compute", "env"} \X {0})
      \cup (IF s.ownNetwork THEN {<<"network", 0>>} ELSE {})

\* Faulty variant of Turn: the regular containers come before the inits.
TurnComputeFirst(f) ==
    CASE f[1] = "volume" -> f[2]
      [] f[1] = "pod" -> MaxDisks + 1
      [] f[1] = "compute" -> MaxDisks + 2
      [] f[1] = "init" -> MaxDisks + 3 + 2 * f[2]
      [] f[1] = "script" -> MaxDisks + 4 + 2 * f[2]
      [] f[1] = "env" -> 3 * MaxDisks + 5
      [] f[1] = "network" -> 3 * MaxDisks + 6

\* The order in which Convert makes the files: the volumes, the pod, each init
\* with its script, compute, its environment, the network.
Turn(f) ==
    CASE f[1] = "volume" -> f[2]
      [] f[1] = "pod" -> MaxDisks + 1
      [] f[1] = "init" -> MaxDisks + 2 + 2 * f[2]
      [] f[1] = "script" -> MaxDisks + 3 + 2 * f[2]
      [] f[1] = "compute" -> 3 * MaxDisks + 4
      [] f[1] = "env" -> 3 * MaxDisks + 5
      [] f[1] = "network" -> 3 * MaxDisks + 6

\* Faulty variant of Awaits: an init requires its successor.
AwaitsNext(s, f) ==
    CASE f[1] = "init" -> {"init"} \X {d \in Made(s) : d = f[2] + 1}
      [] f[1] = "compute" -> {"init"} \X Made(s)
      [] OTHER -> {}

\* The units whose services a unit requires.
Awaits(s, f) ==
    CASE f[1] = "init" -> {"init"} \X {d \in Made(s) : d < f[2]}
      [] f[1] = "compute" -> {"init"} \X Made(s)
      [] OTHER -> {}

\* The other files that a unit refers to.
Mentions(s, f) ==
    CASE f[1] = "pod" ->
            {<<"volume", 0>>} \cup (IF s.ownNetwork THEN {<<"network", 0>>} ELSE {})
      [] f[1] = "init" -> {<<"pod", 0>>, <<"volume", f[2]>>} \cup ScriptOf(f[2])
      [] f[1] = "compute" ->
            {<<"pod", 0>>, <<"env", 0>>} \cup ({"volume"} \X Made(s))
      [] OTHER -> {}

Refs(s, f) == Awaits(s, f) \cup Mentions(s, f)

\* A file is absent, torn (truncated, or cut off by a full disk), or whole.
Absent == <<"absent">>
Torn == <<"torn">>
Whole(c) == <<"whole", c>>
Exists(f) == dir[f] # Absent
IsWhole(f) == dir[f][1] = "whole"
ShapeOf(f) == dir[f][2].shape

Init ==
    /\ dir = [f \in Files |-> Absent]
    /\ \E s \in Shapes : current = [shape |-> s, number |-> 1] /\ todo = FilesOf(s)
    /\ status = "running"
    /\ completed = {}

Running == status \in {"running", "writing"}

\* Faulty variant of Convert: stale units are removed first.
ConvertAfterCleaning ==
    /\ ~Running
    /\ current.number < MaxConversions
    /\ \E s \in Shapes :
         /\ current' = [shape |-> s, number |-> current.number + 1]
         /\ todo' = FilesOf(s)
    /\ dir' = [f \in Files |-> Absent]
    /\ status' = "running"
    /\ UNCHANGED completed

\* The program is run again; its steps 3 to 7 touch no file.
Convert ==
    /\ ~Running
    /\ current.number < MaxConversions
    /\ \E s \in Shapes :
         /\ current' = [shape |-> s, number |-> current.number + 1]
         /\ todo' = FilesOf(s)
    /\ status' = "running"
    /\ UNCHANGED <<dir, completed>>

\* The file whose turn it is.
Upcoming(f) == f \in todo /\ \A g \in todo : Turn(f) <= Turn(g)

\* os.WriteFile creates the file or truncates the one that is there.
Open ==
    /\ status = "running"
    /\ \E f \in Files : Upcoming(f) /\ dir' = [dir EXCEPT ![f] = Torn]
    /\ status' = "writing"
    /\ UNCHANGED <<current, todo, completed>>

Write ==
    /\ status = "writing"
    /\ \E f \in Files :
         /\ Upcoming(f)
         /\ dir' = [dir EXCEPT ![f] = Whole(current)]
         /\ todo' = todo \ {f}
    /\ status' = "running"
    /\ UNCHANGED <<current, completed>>

\* Faulty variant of Fail: the error is reported, and the next file follows.
FailAndGoOn ==
    /\ Running
    /\ \E f \in Files : Upcoming(f) /\ todo' = todo \ {f}
    /\ status' = "running"
    /\ UNCHANGED <<dir, current, completed>>

\* The first error ends the run: the file is as it was, or half written.
Fail ==
    /\ Running
    /\ todo # {}
    /\ status' = "failed"
    /\ UNCHANGED <<dir, current, todo, completed>>

\* The program or the host dies, without a word.
Die ==
    /\ Running
    /\ status' = "died"
    /\ UNCHANGED <<dir, current, todo, completed>>

Succeed ==
    /\ status = "running"
    /\ todo = {}
    /\ status' = "ok"
    /\ completed' = completed \cup {current.shape}
    /\ UNCHANGED <<dir, current, todo>>

\* No run follows any more.
Done == ~Running /\ current.number = MaxConversions /\ UNCHANGED vars

Next == Convert \/ Open \/ Write \/ Fail \/ Die \/ Succeed \/ Done

Spec == Init /\ [][Next]_vars

-----------------------------------------------------------------------------
TypeOK ==
    /\ dir \in [Files -> {Absent, Torn} \cup {Whole(c) : c \in Conversion}]
    /\ current \in Conversion
    /\ todo \subseteq FilesOf(current.shape)
    /\ status \in {"running", "writing", "failed", "died", "ok"}
    /\ completed \subseteq Shapes

\* A conversion that reports success has left each of its files whole and its
\* own, whatever torn or stale ones it found there.
SuccessIsWhole ==
    status = "ok" => \A f \in FilesOf(current.shape) : dir[f] = Whole(current)

\* Wherever conversions have died, a directory that has a compute unit has the
\* inits that unit waits for, their scripts and all their volumes.
ComputeHasItsInits ==
    IsWhole(<<"compute", 0>>) =>
        \A f \in Refs(ShapeOf(<<"compute", 0>>), <<"compute", 0>>) \ {<<"env", 0>>} :
            /\ Exists(f)
            /\ IsWhole(f) => \A r \in Refs(ShapeOf(f), f) \ {<<"network", 0>>} : Exists(r)

\* A unit of a conversion whose like has once succeeded never refers to a file
\* that is not there, also while it is being converted again.
CompletedNeverDangles ==
    \A f \in Files :
        IsWhole(f) /\ ShapeOf(f) \in completed =>
            \A r \in Refs(ShapeOf(f), f) : Exists(r)

-----------------------------------------------------------------------------
(***************************************************************************)
(* The services of a directory that more than one conversion has written.  *)
(***************************************************************************)

Left == {d \in 0..MaxDisks : d \notin Made(current.shape) /\ Exists(<<"init", d>>)}

\* Units in the order of PodUnits: inits, compute, what an earlier one left.
InitsIn(T) == [k \in 1..Cardinality(T) |-> <<"init", Sorted(T)[k]>>]
Services == InitsIn(Made(current.shape)) \o <<<<"compute", 0>>>> \o InitsIn(Left)
AwaitsOf(u) ==
    {v \in 1..Len(Services) : Services[v] \in Awaits(ShapeOf(Services[u]), Services[u])}

G(inits, stale, knows) ==
    INSTANCE PodUnits WITH
        NInits <- inits, NContainers <- 1, NStale <- stale, Knows <- knows, MaxFaults <- 0,
        st <- 0, jobs <- 0, prepared <- 0, wanted <- 0, faults <- 0

\* After a conversion that reports success the services of the directory, the
\* inits that no conversion makes any more among them, are those of PodUnits,
\* unless an earlier conversion has left a torn unit.
MixtureIsPodUnits ==
    status = "ok" /\ (\A d \in Left : IsWhole(<<"init", d>>)) =>
        \E i \in 1..(MaxDisks + 1), n \in 0..MaxDisks :
          /\ i = Cardinality(Made(current.shape)) /\ n = Cardinality(Left)
          /\ \A f \in ToSet(Services) : Awaits(ShapeOf(f), f) \subseteq ToSet(Services)
          /\ \E k \in [(i + 2)..(i + 1 + n) -> SUBSET (1..(i + 1 + n))] :
               /\ \A u \in (i + 2)..(i + 1 + n) : k[u] = AwaitsOf(u)
               /\ G(i, n, k)!KnowsInits
               /\ \A u \in 1..(i + 1 + n) : AwaitsOf(u) = G(i, n, k)!Requires(u)

-----------------------------------------------------------------------------
(***************************************************************************)
(* What makes the invariants inductive.                                    *)
(***************************************************************************)

\* What is no longer to do has been done.
WrittenSoFar == \A f \in FilesOf(current.shape) \ todo : dir[f] = Whole(current)

\* A whole file came after those that its conversion makes before it, and files
\* once there stay there.
CameInOrder ==
    \A f \in Files : IsWhole(f) =>
        /\ f \in FilesOf(ShapeOf(f))
        /\ \A r \in FilesOf(ShapeOf(f)) : Turn(r) < Turn(f) => Exists(r)

CompletedStays == \A s \in completed : \A f \in FilesOf(s) : Exists(f)

NothingLeftToDo == status = "ok" => todo = {}

IInv == TypeOK /\ WrittenSoFar /\ CameInOrder /\ CompletedStays /\ NothingLeftToDo

=============================================================================
