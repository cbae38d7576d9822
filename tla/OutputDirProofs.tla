--------------------------- MODULE OutputDirProofs ---------------------------
(***************************************************************************)
(* Theorems about OutputDir, for any number of disks and conversions.      *)
(***************************************************************************)
EXTENDS OutputDir, EnumerationLemmas, TLAPS

LEMMA FilesOfAreFiles ==
    ASSUME NEW s \in Shapes
    PROVE  FilesOf(s) \subseteq Files
<1>1. MaxDisks \in Nat
    BY MaxDisksAssumption
<1>2. s.disks \subseteq 1..MaxDisks
    BY DEF Shapes
<1>3. Made(s) \subseteq 0..MaxDisks
    BY <1>1, <1>2 DEF Made
<1>4. QED
    BY <1>2, <1>3 DEF FilesOf, Files

LEMMA TurnType ==
    ASSUME NEW f \in Files
    PROVE  Turn(f) \in Int
<1>1. MaxDisks \in Nat
    BY MaxDisksAssumption
<1>2. /\ f[1] \in {"volume", "init", "script", "pod", "compute", "env", "network"}
      /\ f[2] \in 0..MaxDisks
    BY <1>1 DEF Files
<1>3. f[2] \in Int
    BY <1>1, <1>2
<1>4. QED
    BY <1>1, <1>2, <1>3 DEF Turn

LEMMA StatesOfFile ==
    /\ Absent # Torn /\ Absent[1] # "whole" /\ Torn[1] # "whole"
    /\ \A c : Whole(c)[1] = "whole" /\ Whole(c)[2] = c /\ Whole(c) # Absent /\ Whole(c) # Torn
BY DEF Absent, Torn, Whole

LEMMA InitInv == Init => IInv
<1> SUFFICES ASSUME Init PROVE IInv
    OBVIOUS
<1>1. MaxConversions \in Nat /\ 1 \in 1..MaxConversions
    BY MaxConversionsAssumption
<1>2. PICK s \in Shapes : current = [shape |-> s, number |-> 1] /\ todo = FilesOf(s)
    BY DEF Init
<1>3. TypeOK
    BY <1>1, <1>2 DEF TypeOK, Init, Conversion
<1>4. todo = FilesOf(current.shape)
    BY <1>2
<1>5. \A f \in Files : ~IsWhole(f)
    BY StatesOfFile DEF Init, IsWhole
<1>6. QED
    BY <1>3, <1>4, <1>5 DEF IInv, WrittenSoFar, CameInOrder, CompletedStays, NothingLeftToDo, Init

\* Nothing but Open and Write changes a file, and neither removes one.
LEMMA FilesStay ==
    ASSUME IInv, [Next]_vars, NEW f \in Files, Exists(f)
    PROVE  Exists(f)'
<1>1. dir \in [Files -> {Absent, Torn} \cup {Whole(c) : c \in Conversion}]
    BY DEF IInv, TypeOK
<1>2. CASE Open
    BY <1>1, <1>2, StatesOfFile DEF Open, Exists
<1>3. CASE Write
    BY <1>1, <1>3, StatesOfFile DEF Write, Exists
<1>4. CASE UNCHANGED dir
    BY <1>4 DEF Exists
<1>5. QED
    BY <1>2, <1>3, <1>4 DEF Next, Convert, Fail, Die, Succeed, Done, vars

LEMMA ConvertInv == IInv /\ Convert => IInv'
<1> SUFFICES ASSUME IInv, Convert PROVE IInv'
    OBVIOUS
<1>1. PICK s \in Shapes :
        current' = [shape |-> s, number |-> current.number + 1] /\ todo' = FilesOf(s)
    BY DEF Convert
<1>2. UNCHANGED <<dir, completed>> /\ status' = "running"
    BY DEF Convert
<1>3. current'.shape = s
    BY <1>1
<1>4. TypeOK'
  <2>1. current' \in Conversion
    <3>1. current.number + 1 \in 1..MaxConversions
      BY MaxConversionsAssumption DEF Convert, IInv, TypeOK, Conversion
    <3>2. QED
      BY <1>1, <3>1 DEF Conversion
  <2>2. QED
    BY <1>1, <1>2, <1>3, <2>1 DEF IInv, TypeOK
<1>5. WrittenSoFar'
    BY <1>1, <1>3 DEF WrittenSoFar
<1>6. CameInOrder' /\ CompletedStays'
    BY <1>2 DEF IInv, CameInOrder, CompletedStays, IsWhole, ShapeOf, Exists
<1>7. NothingLeftToDo'
    BY <1>2 DEF NothingLeftToDo
<1>8. QED
    BY <1>4, <1>5, <1>6, <1>7 DEF IInv

LEMMA OpenInv == IInv /\ Open => IInv'
<1> SUFFICES ASSUME IInv, Open PROVE IInv'
    OBVIOUS
<1>1. PICK f \in Files : Upcoming(f) /\ dir' = [dir EXCEPT ![f] = Torn]
    BY DEF Open
<1>2. UNCHANGED <<current, todo, completed>> /\ status' = "writing"
    BY DEF Open
<1>3. dir \in [Files -> {Absent, Torn} \cup {Whole(c) : c \in Conversion}]
    BY DEF IInv, TypeOK
<1>4. \A g \in Files : dir'[g] = IF g = f THEN Torn ELSE dir[g]
    BY <1>1, <1>3
<1>5. TypeOK'
    BY <1>1, <1>2, <1>3 DEF IInv, TypeOK
<1>6. WrittenSoFar'
  <2>1. f \in todo
    BY <1>1 DEF Upcoming
  <2>2. FilesOf(current.shape) \subseteq Files
    BY FilesOfAreFiles DEF IInv, TypeOK, Conversion
  <2>3. QED
    BY <1>2, <1>4, <2>1, <2>2 DEF IInv, WrittenSoFar
<1>7. CameInOrder'
  <2> SUFFICES ASSUME NEW g \in Files, IsWhole(g)'
               PROVE  /\ g \in FilesOf(ShapeOf(g)')
                      /\ \A r \in FilesOf(ShapeOf(g)') : Turn(r) < Turn(g) => Exists(r)'
    BY DEF CameInOrder
  <2>1. g # f /\ dir'[g] = dir[g]
    BY <1>4, StatesOfFile DEF IsWhole
  <2>2. IsWhole(g) /\ ShapeOf(g)' = ShapeOf(g)
    BY <2>1 DEF IsWhole, ShapeOf
  <2>3. FilesOf(ShapeOf(g)) \subseteq Files
    <3>1. ShapeOf(g) \in Shapes
      BY <2>2, <1>3, StatesOfFile DEF IsWhole, ShapeOf, Conversion
    <3>2. QED
      BY <3>1, FilesOfAreFiles
  <2>4. QED
    BY <2>2, <2>3, FilesStay DEF IInv, CameInOrder, Next
<1>8. CompletedStays'
  <2>1. \A s \in completed : FilesOf(s) \subseteq Files
    BY FilesOfAreFiles DEF IInv, TypeOK
  <2>2. QED
    BY <1>2, <2>1, FilesStay DEF IInv, CompletedStays, Next
<1>9. NothingLeftToDo'
    BY <1>2 DEF NothingLeftToDo
<1>10. QED
    BY <1>5, <1>6, <1>7, <1>8, <1>9 DEF IInv

\* What is whole was written by a conversion.
LEMMA WholeHasShape ==
    ASSUME TypeOK, NEW f \in Files, IsWhole(f)
    PROVE  ShapeOf(f) \in Shapes /\ FilesOf(ShapeOf(f)) \subseteq Files
<1>1. dir[f] \in {Absent, Torn} \cup {Whole(c) : c \in Conversion}
    BY DEF TypeOK
<1>2. PICK c \in Conversion : dir[f] = Whole(c)
    BY <1>1, StatesOfFile DEF IsWhole
<1>3. ShapeOf(f) \in Shapes
    BY <1>2, StatesOfFile DEF ShapeOf, Conversion
<1>4. QED
    BY <1>3, FilesOfAreFiles

LEMMA WriteInv == IInv /\ Write => IInv'
<1> SUFFICES ASSUME IInv, Write PROVE IInv'
    OBVIOUS
<1>1. PICK f \in Files :
        Upcoming(f) /\ dir' = [dir EXCEPT ![f] = Whole(current)] /\ todo' = todo \ {f}
    BY DEF Write
<1>2. UNCHANGED <<current, completed>> /\ status' = "running"
    BY DEF Write
<1>3. /\ dir \in [Files -> {Absent, Torn} \cup {Whole(c) : c \in Conversion}]
      /\ current \in Conversion /\ current.shape \in Shapes
    BY DEF IInv, TypeOK, Conversion
<1>4. \A g \in Files : dir'[g] = IF g = f THEN Whole(current) ELSE dir[g]
    BY <1>1, <1>3
<1>5. FilesOf(current.shape) \subseteq Files
    BY <1>3, FilesOfAreFiles
<1>6. f \in todo /\ todo \subseteq FilesOf(current.shape)
    BY <1>1 DEF Upcoming, IInv, TypeOK
<1>7. TypeOK'
    BY <1>1, <1>2, <1>3 DEF IInv, TypeOK
<1>8. WrittenSoFar'
    BY <1>1, <1>2, <1>4, <1>5 DEF IInv, WrittenSoFar
<1>9. CameInOrder'
  <2> SUFFICES ASSUME NEW g \in Files, IsWhole(g)'
               PROVE  /\ g \in FilesOf(ShapeOf(g)')
                      /\ \A r \in FilesOf(ShapeOf(g)') : Turn(r) < Turn(g) => Exists(r)'
    BY DEF CameInOrder
  <2>1. CASE g = f
    <3>1. ShapeOf(g)' = current.shape
      BY <2>1, <1>4, StatesOfFile DEF ShapeOf
    <3>2. ASSUME NEW r \in FilesOf(current.shape), Turn(r) < Turn(f) PROVE Exists(r)
      <4>1. r \notin todo
        BY <1>1, <1>5, <3>2, TurnType DEF Upcoming
      <4>2. dir[r] = Whole(current)
        BY <4>1 DEF IInv, WrittenSoFar
      <4>3. QED
        BY <4>2, StatesOfFile DEF Exists
    <3>3. QED
      BY <2>1, <1>5, <1>6, <3>1, <3>2, FilesStay DEF Next
  <2>2. CASE g # f
    <3>1. dir'[g] = dir[g]
      BY <2>2, <1>4
    <3>2. IsWhole(g) /\ ShapeOf(g)' = ShapeOf(g)
      BY <3>1 DEF IsWhole, ShapeOf
    <3>3. FilesOf(ShapeOf(g)) \subseteq Files
      BY <3>2, WholeHasShape DEF IInv
    <3>4. QED
      BY <3>2, <3>3, FilesStay DEF IInv, CameInOrder, Next
  <2>3. QED
    BY <2>1, <2>2
<1>10. CompletedStays'
  <2>1. \A s \in completed : FilesOf(s) \subseteq Files
    BY FilesOfAreFiles DEF IInv, TypeOK
  <2>2. QED
    BY <1>2, <2>1, FilesStay DEF IInv, CompletedStays, Next
<1>11. NothingLeftToDo'
    BY <1>2 DEF NothingLeftToDo
<1>12. QED
    BY <1>7, <1>8, <1>9, <1>10, <1>11 DEF IInv

LEMMA SucceedInv == IInv /\ Succeed => IInv'
<1> SUFFICES ASSUME IInv, Succeed PROVE IInv'
    OBVIOUS
<1>1. /\ todo = {} /\ status' = "ok"
      /\ completed' = completed \cup {current.shape}
      /\ UNCHANGED <<dir, current, todo>>
    BY DEF Succeed
<1>2. current.shape \in Shapes
    BY DEF IInv, TypeOK, Conversion
<1>3. TypeOK'
    BY <1>1, <1>2 DEF IInv, TypeOK
<1>4. \A f \in FilesOf(current.shape) : Exists(f)
    BY <1>1, StatesOfFile DEF IInv, WrittenSoFar, Exists
<1>5. CompletedStays'
    BY <1>1, <1>4 DEF IInv, CompletedStays, Exists
<1>6. WrittenSoFar' /\ CameInOrder' /\ NothingLeftToDo'
    BY <1>1 DEF IInv, WrittenSoFar, CameInOrder, NothingLeftToDo, IsWhole, ShapeOf, Exists
<1>7. QED
    BY <1>3, <1>5, <1>6 DEF IInv

\* A conversion that ends otherwise, or does nothing, leaves all as it was.
LEMMA StopInv == IInv /\ (Fail \/ Die \/ UNCHANGED vars) => IInv'
<1> SUFFICES ASSUME IInv, Fail \/ Die \/ UNCHANGED vars PROVE IInv'
    OBVIOUS
<1>1. UNCHANGED <<dir, current, todo, completed>>
    BY DEF Fail, Die, vars
<1>2. status' \in {status, "failed", "died"}
    BY DEF Fail, Die, vars
<1>3. TypeOK'
    BY <1>1, <1>2 DEF IInv, TypeOK
<1>4. NothingLeftToDo'
    BY <1>1, <1>2 DEF IInv, NothingLeftToDo
<1>5. QED
    BY <1>1, <1>3, <1>4 DEF IInv, WrittenSoFar, CameInOrder, CompletedStays, IsWhole, ShapeOf, Exists

LEMMA NextInv == IInv /\ [Next]_vars => IInv'
BY ConvertInv, OpenInv, WriteInv, SucceedInv, StopInv DEF Next, Done

\* The inductive invariant holds in every state of the directory.
THEOREM Invariance == Spec => []IInv
BY InitInv, NextInv, PTL DEF Spec

\* The files, the set of those still to be written and the history have their
\* types, whatever conversions fail or die.
THEOREM TypeCorrect == Spec => []TypeOK
<1>1. IInv => TypeOK
    BY DEF IInv
<1>2. QED
    BY <1>1, Invariance, PTL

\* A conversion for which writeFiles returns no error has left all its files
\* whole, whatever it found in the directory.
THEOREM Success == Spec => []SuccessIsWhole
<1>1. IInv => SuccessIsWhole
    BY DEF IInv, NothingLeftToDo, WrittenSoFar, SuccessIsWhole
<1>2. QED
    BY <1>1, Invariance, PTL

\* What compute refers to, its own environment file apart, precedes it.
LEMMA ComputeComesLate ==
    ASSUME NEW s \in Shapes, NEW f \in Refs(s, <<"compute", 0>>), f # <<"env", 0>>
    PROVE  f \in FilesOf(s) /\ Turn(f) < Turn(<<"compute", 0>>)
<1>1. MaxDisks \in Nat
    BY MaxDisksAssumption
<1>2. Made(s) \subseteq 0..MaxDisks
    BY <1>1 DEF Made, Shapes
<1>3. f \in ({"volume", "init"} \X Made(s)) \cup {<<"pod", 0>>}
    BY DEF Refs, Awaits, Mentions
<1>4. f \in FilesOf(s)
    BY <1>3 DEF FilesOf
<1>5. Turn(<<"compute", 0>>) = 3 * MaxDisks + 4
    BY DEF Turn
<1>6. f[1] \in {"volume", "init", "pod"} /\ f[2] \in 0..MaxDisks
    BY <1>1, <1>2, <1>3
<1>7. f[2] \in Int /\ 0 <= f[2] /\ f[2] <= MaxDisks
    BY <1>1, <1>6
<1>8. Turn(f) \in {f[2], MaxDisks + 1, MaxDisks + 2 + 2 * f[2]}
    BY <1>6 DEF Turn
<1>9. QED
    BY <1>1, <1>4, <1>5, <1>7, <1>8

\* What an init refers to, the network of its pod apart, precedes it, but for
\* its script, which follows it and precedes compute.
LEMMA RefsOfInit ==
    ASSUME NEW s \in Shapes, NEW d \in Made(s), NEW r \in Refs(s, <<"init", d>>)
    PROVE  /\ r \in FilesOf(s)
           /\ r \in ScriptOf(d) \/ Turn(r) < Turn(<<"init", d>>)
<1>1. MaxDisks \in Nat
    BY MaxDisksAssumption
<1>2. Made(s) \subseteq 0..MaxDisks /\ 0 \in Made(s)
    BY <1>1 DEF Made, Shapes
<1>3. r \in ({"init"} \X {e \in Made(s) : e < d}) \cup {<<"pod", 0>>, <<"volume", d>>} \cup ScriptOf(d)
    BY DEF Refs, Awaits, Mentions
<1>4. ScriptOf(d) \subseteq FilesOf(s)
    BY DEF ScriptOf, FilesOf, Made
<1>5. r \in FilesOf(s)
    BY <1>3, <1>4 DEF FilesOf
<1>6. d \in Int /\ 0 <= d
    BY <1>1, <1>2
<1>7. Turn(<<"init", d>>) = MaxDisks + 2 + 2 * d
    BY DEF Turn
<1>8. r \notin ScriptOf(d) => Turn(r) < Turn(<<"init", d>>)
  <2>1. CASE r = <<"pod", 0>>
    <3>1. Turn(r) = MaxDisks + 1
      BY <2>1 DEF Turn
    <3>2. QED
      BY <1>1, <1>6, <1>7, <3>1
  <2>2. CASE r = <<"volume", d>>
    <3>1. Turn(r) = d
      BY <2>2 DEF Turn
    <3>2. QED
      BY <1>1, <1>6, <1>7, <3>1
  <2>3. ASSUME NEW e \in Made(s), e < d, r = <<"init", e>>
        PROVE  Turn(r) < Turn(<<"init", d>>)
    <3>1. Turn(r) = MaxDisks + 2 + 2 * e
      BY <2>3 DEF Turn
    <3>2. e \in Int
      BY <1>1, <1>2
    <3>3. QED
      BY <1>1, <1>6, <1>7, <2>3, <3>1, <3>2
  <2>4. QED
    BY <1>3, <2>1, <2>2, <2>3
<1>9. QED
    BY <1>5, <1>8

LEMMA ScriptBeforeCompute ==
    ASSUME NEW s \in Shapes, NEW d \in Made(s), NEW r \in ScriptOf(d)
    PROVE  r \in FilesOf(s) /\ Turn(r) < Turn(<<"compute", 0>>)
<1>1. MaxDisks \in Nat
    BY MaxDisksAssumption
<1>2. r = <<"script", d>> /\ d \in s.disks
    BY DEF ScriptOf, Made
<1>3. d \in 1..MaxDisks
    BY <1>2 DEF Shapes
<1>4. Turn(r) = MaxDisks + 3 + 2 * d /\ Turn(<<"compute", 0>>) = 3 * MaxDisks + 4
    BY <1>2 DEF Turn
<1>5. d \in Int /\ d <= MaxDisks
    BY <1>1, <1>3
<1>6. QED
    BY <1>1, <1>2, <1>4, <1>5 DEF FilesOf

\* A compute unit in the directory has its inits, their scripts and all their
\* volumes beside it, wherever conversions have failed or died.
THEOREM ComputeIsAccompanied == Spec => []ComputeHasItsInits
<1>1. ASSUME IInv PROVE ComputeHasItsInits
  <2> DEFINE compute == <<"compute", 0>>
  <2> SUFFICES ASSUME IsWhole(compute),
                      NEW f \in Refs(ShapeOf(compute), compute) \ {<<"env", 0>>}
               PROVE  /\ Exists(f)
                      /\ IsWhole(f) => \A r \in Refs(ShapeOf(f), f) \ {<<"network", 0>>} : Exists(r)
    BY DEF ComputeHasItsInits
  <2>1. compute \in Files
    BY DEF Files
  <2>2. ShapeOf(compute) \in Shapes /\ FilesOf(ShapeOf(compute)) \subseteq Files
    BY <2>1, <1>1, WholeHasShape DEF IInv
  <2>3. \A r \in FilesOf(ShapeOf(compute)) : Turn(r) < Turn(compute) => Exists(r)
    BY <2>1, <1>1 DEF IInv, CameInOrder
  <2>4. f \in FilesOf(ShapeOf(compute)) /\ Exists(f)
    BY <2>2, <2>3, ComputeComesLate
  <2>5. ASSUME IsWhole(f), NEW r \in Refs(ShapeOf(f), f), r # <<"network", 0>> PROVE Exists(r)
    <3>1. f \in Files
      BY <2>2, <2>4
    <3>2. ShapeOf(f) \in Shapes
      BY <1>1, <2>5, <3>1, WholeHasShape DEF IInv
    <3>3. f \in FilesOf(ShapeOf(f)) /\ \A g \in FilesOf(ShapeOf(f)) : Turn(g) < Turn(f) => Exists(g)
      BY <1>1, <2>5, <3>1 DEF IInv, CameInOrder
    <3>4. f \in {<<"pod", 0>>} \cup ({"volume", "init"} \X Made(ShapeOf(compute)))
      BY DEF Refs, Awaits, Mentions
    <3>5. CASE f = <<"pod", 0>>
      <4>1. r = <<"volume", 0>>
        BY <2>5, <3>5 DEF Refs, Awaits, Mentions
      <4>2. r \in FilesOf(ShapeOf(f))
        BY <4>1 DEF FilesOf, Made
      <4>3. Turn(r) < Turn(f)
        <5>1. Turn(r) = 0 /\ Turn(f) = MaxDisks + 1
          BY <3>5, <4>1 DEF Turn
        <5>2. QED
          BY <5>1, MaxDisksAssumption
      <4>4. QED
        BY <3>3, <4>2, <4>3
    <3>6. CASE f[1] = "volume"
      BY <2>5, <3>6 DEF Refs, Awaits, Mentions
    <3>7. ASSUME NEW d \in Made(ShapeOf(compute)), f = <<"init", d>> PROVE Exists(r)
      <4>1. d \in Made(ShapeOf(f))
        BY <3>3, <3>7 DEF FilesOf
      <4>2. r \in FilesOf(ShapeOf(f)) /\ (r \in ScriptOf(d) \/ Turn(r) < Turn(f))
        BY <2>5, <3>2, <3>7, <4>1, RefsOfInit
      <4>3. r \in ScriptOf(d) => Exists(r)
        BY <2>2, <2>3, <3>7, ScriptBeforeCompute
      <4>4. QED
        BY <3>3, <4>2, <4>3
    <3>8. QED
      BY <3>4, <3>5, <3>6, <3>7
  <2>6. QED
    BY <2>4, <2>5
<1>2. QED
    BY <1>1, Invariance, PTL

\* References stay within a conversion.
LEMMA RefsAreFilesOf ==
    ASSUME NEW s \in Shapes, NEW f \in FilesOf(s), NEW r \in Refs(s, f)
    PROVE  r \in FilesOf(s)
<1>1. CASE f[1] = "init"
  <2>1. PICK d \in Made(s) : f = <<"init", d>>
    BY <1>1 DEF FilesOf
  <2>2. QED
    BY <2>1, RefsOfInit
<1>2. CASE f[1] = "compute"
  <2>1. f = <<"compute", 0>>
    BY <1>2 DEF FilesOf
  <2>2. <<"env", 0>> \in FilesOf(s)
    BY DEF FilesOf
  <2>3. QED
    BY <2>1, <2>2, ComputeComesLate
<1>3. CASE f[1] = "pod"
    BY <1>3 DEF Refs, Awaits, Mentions, FilesOf, Made
<1>4. CASE f[1] \notin {"init", "compute", "pod"}
    BY <1>4 DEF Refs, Awaits, Mentions
<1>5. QED
    BY <1>1, <1>2, <1>3, <1>4

\* The units of a conversion whose like has once succeeded find all they refer
\* to, also while the directory is being written again.
THEOREM NeverDangles == Spec => []CompletedNeverDangles
<1>1. ASSUME IInv, NEW f \in Files, IsWhole(f), ShapeOf(f) \in completed, NEW r \in Refs(ShapeOf(f), f)
      PROVE  Exists(r)
  <2>1. ShapeOf(f) \in Shapes
    BY <1>1, WholeHasShape DEF IInv
  <2>2. f \in FilesOf(ShapeOf(f))
    BY <1>1 DEF IInv, CameInOrder
  <2>3. r \in FilesOf(ShapeOf(f))
    BY <2>1, <2>2, RefsAreFilesOf
  <2>4. QED
    BY <1>1, <2>3 DEF IInv, CompletedStays
<1>2. IInv => CompletedNeverDangles
    BY <1>1 DEF CompletedNeverDangles
<1>3. QED
    BY <1>2, Invariance, PTL

-----------------------------------------------------------------------------
(***************************************************************************)
(* The services of a directory that holds units of several conversions.    *)
(***************************************************************************)

\* The inits of a set of indices as a sequence.
LEMMA InitsInOrder ==
    ASSUME NEW T \in SUBSET (0..MaxDisks)
    PROVE  /\ IsFiniteSet(T) /\ Cardinality(T) \in Nat /\ T \in SUBSET Int
           /\ InitsIn(T) \in Seq({"init", "compute"} \X Int) /\ Len(InitsIn(T)) = Cardinality(T)
           /\ \A k \in 1..Cardinality(T) :
                /\ Sorted(T)[k] \in T /\ Sorted(T)[k] \in Int
                /\ InitsIn(T)[k] = <<"init", Sorted(T)[k]>>
           /\ \A x \in T : \E k \in 1..Cardinality(T) : Sorted(T)[k] = x
           /\ \A j, k \in 1..Cardinality(T) : j < k <=> Sorted(T)[j] < Sorted(T)[k]
<1>1. MaxDisks \in Nat
    BY MaxDisksAssumption
<1>2. IsFiniteSet(0..MaxDisks)
    BY <1>1, FS_Interval
<1>3. IsFiniteSet(T) /\ T \in SUBSET Int
  <2>1. T \in SUBSET Int
    BY <1>1
  <2>2. QED
    BY <1>2, <2>1, FS_Subset
<1>4. /\ Cardinality(T) \in Nat
      /\ Sorted(T) \in [1..Cardinality(T) -> T]
      /\ \A j, k \in 1..Cardinality(T) : j < k => Sorted(T)[j] < Sorted(T)[k]
      /\ \A x \in T : \E k \in 1..Cardinality(T) : Sorted(T)[k] = x
    BY <1>3, SortedEnumerates
<1>5. \A k \in 1..Cardinality(T) : Sorted(T)[k] \in T /\ Sorted(T)[k] \in Int
    BY <1>3, <1>4
<1>6. ASSUME NEW j \in 1..Cardinality(T), NEW k \in 1..Cardinality(T)
      PROVE  j < k <=> Sorted(T)[j] < Sorted(T)[k]
  <2>1. Sorted(T)[j] \in Int /\ Sorted(T)[k] \in Int
    BY <1>5
  <2>2. (j < k => Sorted(T)[j] < Sorted(T)[k]) /\ (k < j => Sorted(T)[k] < Sorted(T)[j])
    BY <1>4
  <2>3. j = k => Sorted(T)[j] = Sorted(T)[k]
    OBVIOUS
  <2>4. QED
    BY <1>4, <2>1, <2>2, <2>3
<1>7. InitsIn(T) \in Seq({"init", "compute"} \X Int) /\ Len(InitsIn(T)) = Cardinality(T)
    BY <1>4, <1>5 DEF InitsIn
<1>8. \A k \in 1..Cardinality(T) : InitsIn(T)[k] = <<"init", Sorted(T)[k]>>
    BY DEF InitsIn
<1>9. QED
    BY <1>3, <1>4, <1>5, <1>6, <1>7, <1>8

\* After a conversion that reports success the directory is a pod as PodUnits
\* describes them, with the inits that no conversion makes any more as stale.
THEOREM MixtureFits == Spec => []MixtureIsPodUnits
<1>1. ASSUME IInv PROVE MixtureIsPodUnits
  <2> SUFFICES ASSUME status = "ok", \A d \in Left : IsWhole(<<"init", d>>)
               PROVE  MixtureIsPodUnits
    BY DEF MixtureIsPodUnits
  <2> DEFINE s == current.shape
             M == Made(s)
             L == Left
             i == Cardinality(M)
             n == Cardinality(L)
             m == Sorted(M)
             l == Sorted(L)
  <2>1. MaxDisks \in Nat /\ s \in Shapes /\ M \in SUBSET (0..MaxDisks) /\ 0 \in M
    BY <1>1, MaxDisksAssumption DEF IInv, TypeOK, Conversion, Shapes, Made
  <2>2. L \in SUBSET (1..MaxDisks) /\ L \in SUBSET (0..MaxDisks) /\ L \cap M = {}
    BY <2>1 DEF Left
  <2>3. /\ IsFiniteSet(M) /\ i \in Nat /\ M \in SUBSET Int
        /\ InitsIn(M) \in Seq({"init", "compute"} \X Int) /\ Len(InitsIn(M)) = i
        /\ \A k \in 1..i : m[k] \in M /\ m[k] \in Int /\ InitsIn(M)[k] = <<"init", m[k]>>
        /\ \A x \in M : \E k \in 1..i : m[k] = x
        /\ \A j, k \in 1..i : j < k <=> m[j] < m[k]
    BY <2>1, InitsInOrder
  <2>4. /\ IsFiniteSet(L) /\ n \in Nat /\ L \in SUBSET Int
        /\ InitsIn(L) \in Seq({"init", "compute"} \X Int) /\ Len(InitsIn(L)) = n
        /\ \A k \in 1..n : l[k] \in L /\ l[k] \in Int /\ InitsIn(L)[k] = <<"init", l[k]>>
        /\ \A x \in L : \E k \in 1..n : l[k] = x
    BY <2>2, InitsInOrder
  <2>5. i \in 1..(MaxDisks + 1) /\ n \in 0..MaxDisks
    <3>1. IsFiniteSet(0..MaxDisks) /\ Cardinality(0..MaxDisks) = MaxDisks + 1
      BY <2>1, FS_Interval
    <3>2. IsFiniteSet(1..MaxDisks) /\ Cardinality(1..MaxDisks) = MaxDisks
      BY <2>1, FS_Interval
    <3>3. i <= Cardinality(0..MaxDisks)
      BY <2>1, <3>1, FS_Subset
    <3>4. n <= Cardinality(1..MaxDisks)
      BY <2>2, <3>2, FS_Subset
    <3>5. i # 0
      BY <2>1, <2>3
    <3>6. QED
      BY <2>1, <2>3, <2>4, <3>1, <3>2, <3>3, <3>4, <3>5
  <2>6. /\ Len(Services) = i + 1 + n /\ DOMAIN Services = 1..(i + 1 + n)
        /\ \A k \in 1..i : Services[k] = <<"init", m[k]>>
        /\ Services[i + 1] = <<"compute", 0>>
        /\ \A k \in 1..n : Services[i + 1 + k] = <<"init", l[k]>>
    <3>1. <<"compute", 0>> \in {"init", "compute"} \X Int
      OBVIOUS
    <3>2. Services = InitsIn(M) \o <<<<"compute", 0>>>> \o InitsIn(L)
      BY DEF Services
    <3>3. InitsIn(M) \in Seq({"init", "compute"} \X Int) /\ InitsIn(L) \in Seq({"init", "compute"} \X Int)
      BY <2>3, <2>4
    <3>4. /\ Len(Services) = Len(InitsIn(M)) + 1 + Len(InitsIn(L))
          /\ DOMAIN Services = 1..Len(Services)
          /\ \A k \in 1..Len(InitsIn(M)) : Services[k] = InitsIn(M)[k]
          /\ Services[Len(InitsIn(M)) + 1] = <<"compute", 0>>
          /\ \A k \in 1..Len(InitsIn(L)) : Services[Len(InitsIn(M)) + 1 + k] = InitsIn(L)[k]
      <4> HIDE DEF M, L
      <4>1. QED
        BY <3>1, <3>2, <3>3, OneBetween
    <3>5. QED
      BY <2>3, <2>4, <3>4
  <2>7. \A f \in FilesOf(s) : dir[f] = Whole(current) /\ ShapeOf(f) = s
    BY <1>1, StatesOfFile DEF IInv, NothingLeftToDo, WrittenSoFar, ShapeOf
  <2>8. \A d \in M : Awaits(ShapeOf(<<"init", d>>), <<"init", d>>) = {"init"} \X {e \in M : e < d}
    BY <2>7 DEF FilesOf, Awaits
  <2>9. Awaits(ShapeOf(<<"compute", 0>>), <<"compute", 0>>) = {"init"} \X M
    BY <2>7 DEF FilesOf, Awaits
  <2>10. \A d \in L : Awaits(ShapeOf(<<"init", d>>), <<"init", d>>) \subseteq {"init"} \X (M \cup L)
    <3> SUFFICES ASSUME NEW d \in L, NEW r \in Awaits(ShapeOf(<<"init", d>>), <<"init", d>>)
                 PROVE  r \in {"init"} \X (M \cup L)
      OBVIOUS
    <3>1. <<"init", d>> \in Files /\ IsWhole(<<"init", d>>)
      BY <2>2 DEF Files
    <3>2. ShapeOf(<<"init", d>>) \in Shapes /\ FilesOf(ShapeOf(<<"init", d>>)) \subseteq Files
      BY <1>1, <3>1, WholeHasShape DEF IInv
    <3>3. PICK e \in Made(ShapeOf(<<"init", d>>)) : r = <<"init", e>>
      BY DEF Awaits
    <3>4. r \in Refs(ShapeOf(<<"init", d>>), <<"init", d>>) /\ r \notin ScriptOf(d)
      BY <3>3 DEF Refs, ScriptOf
    <3>5. d \in Made(ShapeOf(<<"init", d>>))
      BY <1>1, <3>1 DEF IInv, CameInOrder, FilesOf
    <3>6. Exists(r) /\ r \in Files
      BY <1>1, <3>1, <3>2, <3>4, <3>5, RefsOfInit DEF IInv, CameInOrder
    <3>7. e \in 0..MaxDisks
      BY <2>1, <3>2, <3>3 DEF Made, Shapes
    <3>8. QED
      BY <3>3, <3>6, <3>7 DEF Left
  <2> HIDE DEF s, M, L, i, n, m, l
  <2>11. \A u \in 1..(i + 1 + n) : u \in 1..i \/ u = i + 1 \/ \E k \in 1..n : u = i + 1 + k
    <3> TAKE u \in 1..(i + 1 + n)
    <3>1. i + 1 < u => u - (i + 1) \in 1..n /\ u = i + 1 + (u - (i + 1))
      BY <2>3, <2>4
    <3>2. u <= i => u \in 1..i
      BY <2>3, <2>4
    <3>3. QED
      BY <2>3, <2>4, <3>1, <3>2
  <2>11a. \A k \in 1..i : Services[k] \in {"init"} \X M /\ Services[k][2] = m[k]
    <3> TAKE k \in 1..i
    <3>1. m[k] \in M /\ Services[k] = <<"init", m[k]>>
      BY <2>3, <2>6
    <3>2. QED
      BY <3>1
  <2>11b. \A k \in 1..n : Services[i + 1 + k] \in {"init"} \X L
    <3> TAKE k \in 1..n
    <3>1. l[k] \in L /\ Services[i + 1 + k] = <<"init", l[k]>>
      BY <2>4, <2>6
    <3>2. QED
      BY <3>1
  <2>12. \A u \in 1..i : AwaitsOf(u) = 1..(u - 1)
    <3> TAKE u \in 1..i
    <3>1. Awaits(ShapeOf(Services[u]), Services[u]) = {"init"} \X {e \in M : e < m[u]}
      <4>1. m[u] \in M /\ Services[u] = <<"init", m[u]>>
        BY <2>3, <2>6
      <4>2. QED
        BY <2>8, <4>1
    <3>2. \A v \in 1..i : Services[v] \in {"init"} \X {e \in M : e < m[u]} <=> v < u
      <4> TAKE v \in 1..i
      <4>1. v < u <=> m[v] < m[u]
        BY <2>3
      <4>2. m[v] \in M /\ Services[v] = <<"init", m[v]>>
        BY <2>3, <2>6
      <4>3. QED
        BY <4>1, <4>2
    <3>3. Services[i + 1] \notin {"init"} \X {e \in M : e < m[u]}
      BY <2>6
    <3>4. \A k \in 1..n : Services[i + 1 + k] \notin {"init"} \X {e \in M : e < m[u]}
      BY <2>2, <2>11b
    <3>5. \A v \in 1..(i + 1 + n) : v \in AwaitsOf(u) <=> v \in 1..i /\ v < u
      <4> TAKE v \in 1..(i + 1 + n)
      <4>1. v \in AwaitsOf(u) <=> Services[v] \in {"init"} \X {e \in M : e < m[u]}
        BY <2>6, <3>1 DEF AwaitsOf
      <4>2. CASE v \in 1..i
        BY <3>2, <4>1, <4>2
      <4>3. CASE v = i + 1
        BY <2>3, <3>3, <4>1, <4>3
      <4>4. ASSUME NEW k \in 1..n, v = i + 1 + k PROVE v \in AwaitsOf(u) <=> v \in 1..i /\ v < u
        <5>1. v \notin 1..i
          BY <2>3, <2>4, <4>4
        <5>2. QED
          BY <3>4, <4>1, <4>4, <5>1
      <4>5. QED
        BY <2>11, <4>2, <4>3, <4>4
    <3>6. AwaitsOf(u) \subseteq 1..(i + 1 + n)
      BY <2>6 DEF AwaitsOf
    <3>7. \A v \in 1..(u - 1) : v \in 1..i /\ v < u /\ v \in 1..(i + 1 + n)
      BY <2>3, <2>4
    <3>8. \A v \in 1..i : v < u => v \in 1..(u - 1)
      BY <2>3
    <3>9. QED
      BY <3>5, <3>6, <3>7, <3>8
  <2>13. AwaitsOf(i + 1) = 1..i
    <3>1. \A v \in 1..i : Services[v] \in {"init"} \X M
      BY <2>11a
    <3>2. Services[i + 1] \notin {"init"} \X M
      BY <2>6
    <3>3. \A k \in 1..n : Services[i + 1 + k] \notin {"init"} \X M
      BY <2>2, <2>11b
    <3>4. \A v \in 1..(i + 1 + n) : v \in AwaitsOf(i + 1) <=> v \in 1..i
      <4> TAKE v \in 1..(i + 1 + n)
      <4>1. v \in AwaitsOf(i + 1) <=> Services[v] \in {"init"} \X M
        BY <2>6, <2>9 DEF AwaitsOf
      <4>2. v = i + 1 => v \notin 1..i
        BY <2>3
      <4>3. ASSUME NEW k \in 1..n, v = i + 1 + k PROVE v \notin 1..i
        BY <2>3, <2>4, <4>3
      <4>4. QED
        BY <2>11, <3>1, <3>2, <3>3, <4>1, <4>2, <4>3
    <3>5. AwaitsOf(i + 1) \subseteq 1..(i + 1 + n)
      BY <2>6 DEF AwaitsOf
    <3>6. 1..i \subseteq 1..(i + 1 + n)
      BY <2>3, <2>4
    <3>7. QED
      BY <3>4, <3>5, <3>6
  <2>14. \A u \in (i + 2)..(i + 1 + n) : AwaitsOf(u) \subseteq (1..i) \cup ((i + 2)..(i + 1 + n))
    <3> TAKE u \in (i + 2)..(i + 1 + n)
    <3>1. u - (i + 1) \in 1..n /\ u = i + 1 + (u - (i + 1))
      BY <2>3, <2>4
    <3>2. PICK k \in 1..n : u = i + 1 + k
      BY <3>1
    <3>3. Awaits(ShapeOf(Services[u]), Services[u]) \subseteq {"init"} \X (M \cup L)
      BY <2>4, <2>6, <2>10, <3>2
    <3>4. i + 1 \notin AwaitsOf(u)
      BY <2>6, <3>3 DEF AwaitsOf
    <3>5. AwaitsOf(u) \subseteq 1..(i + 1 + n)
      BY <2>6 DEF AwaitsOf
    <3>6. \A v \in 1..(i + 1 + n) : v = i + 1 \/ v \in 1..i \/ v \in (i + 2)..(i + 1 + n)
      BY <2>3, <2>4
    <3>7. QED
      BY <3>4, <3>5, <3>6
  <2>15. \A f \in ToSet(Services) : Awaits(ShapeOf(f), f) \subseteq ToSet(Services)
    <3>1. \A d \in M \cup L : \E k \in 1..(i + 1 + n) : Services[k] = <<"init", d>>
      <4>1. ASSUME NEW d \in M PROVE \E k \in 1..(i + 1 + n) : Services[k] = <<"init", d>>
        <5>1. PICK k \in 1..i : m[k] = d
          BY <2>3
        <5>2. k \in 1..(i + 1 + n)
          BY <2>3, <2>4
        <5>3. QED
          BY <2>6, <5>1, <5>2
      <4>2. ASSUME NEW d \in L PROVE \E k \in 1..(i + 1 + n) : Services[k] = <<"init", d>>
        <5>1. PICK k \in 1..n : l[k] = d
          BY <2>4
        <5>2. i + 1 + k \in 1..(i + 1 + n)
          BY <2>3, <2>4
        <5>3. QED
          BY <2>6, <5>1, <5>2
      <4>3. QED
        BY <4>1, <4>2
    <3>2. ToSet(Services) = {Services[k] : k \in 1..(i + 1 + n)}
      BY <2>6 DEF ToSet
    <3>3. {"init"} \X (M \cup L) \subseteq ToSet(Services)
      BY <3>1, <3>2
    <3>4. \A u \in 1..(i + 1 + n) : Awaits(ShapeOf(Services[u]), Services[u]) \subseteq {"init"} \X (M \cup L)
      <4> TAKE u \in 1..(i + 1 + n)
      <4>1. CASE u \in 1..i
        <5>1. m[u] \in M /\ Services[u] = <<"init", m[u]>>
          BY <2>3, <2>6, <4>1
        <5>2. QED
          BY <2>8, <5>1
      <4>2. CASE u = i + 1
        BY <2>6, <2>9, <4>2
      <4>3. ASSUME NEW k \in 1..n, u = i + 1 + k
            PROVE  Awaits(ShapeOf(Services[u]), Services[u]) \subseteq {"init"} \X (M \cup L)
        BY <2>4, <2>6, <2>10, <4>3
      <4>4. QED
        BY <2>11, <4>1, <4>2, <4>3
    <3>5. QED
      BY <3>2, <3>3, <3>4
  <2> DEFINE k == [u \in (i + 2)..(i + 1 + n) |-> AwaitsOf(u)]
  <2>16. k \in [(i + 2)..(i + 1 + n) -> SUBSET (1..(i + 1 + n))]
    BY <2>6 DEF AwaitsOf
  <2>17. \A a, b \in Nat : \A c : G(a, b, c)!KnowsInits <=>
            c \in [(a + 2)..(a + 1 + b) -> SUBSET ((1..a) \cup ((a + 2)..(a + 1 + b)))]
    BY DEF G!KnowsInits, G!Stale, G!Oneshots, G!Inits
  <2>18. \A a, b \in Nat : \A c : \A u \in 1..(a + 1 + b) : G(a, b, c)!Requires(u) =
            IF u \in 1..a THEN 1..(u - 1) ELSE IF u = a + 1 THEN 1..a ELSE c[u]
    BY DEF G!Requires, G!Stale, G!Inits, G!Compute
  <2>19. \A a, b \in Nat : \A c : a = i /\ b = n /\ c = k => G(a, b, c)!KnowsInits
    <3>1. k \in [(i + 2)..(i + 1 + n) -> SUBSET ((1..i) \cup ((i + 2)..(i + 1 + n)))]
      BY <2>14
    <3> HIDE DEF k
    <3>2. QED
      BY <2>17, <3>1
  <2>20. \A a, b \in Nat : \A c : a = i /\ b = n /\ c = k =>
            \A u \in 1..(a + 1 + b) : AwaitsOf(u) = G(a, b, c)!Requires(u)
    <3> TAKE a, b \in Nat
    <3> TAKE c
    <3> HAVE a = i /\ b = n /\ c = k
    <3> TAKE u \in 1..(a + 1 + b)
    <3>1. G(a, b, c)!Requires(u) =
            IF u \in 1..a THEN 1..(u - 1) ELSE IF u = a + 1 THEN 1..a ELSE c[u]
      BY <2>18
    <3>2. u \notin 1..i /\ u # i + 1 => u \in (i + 2)..(i + 1 + n)
      BY <2>3, <2>4
    <3>3. u \notin 1..i /\ u # i + 1 => k[u] = AwaitsOf(u)
      BY <3>2
    <3>4. i + 1 \notin 1..i
      BY <2>3
    <3> HIDE DEF k
    <3>5. QED
      BY <2>12, <2>13, <3>1, <3>3, <3>4
  <2>21. \A u \in (i + 2)..(i + 1 + n) : k[u] = AwaitsOf(u)
    OBVIOUS
  <2>22. PICK a \in 1..(MaxDisks + 1), b \in 0..MaxDisks : a = i /\ b = n
    BY <2>5
  <2>23. PICK c \in [(a + 2)..(a + 1 + b) -> SUBSET (1..(a + 1 + b))] : c = k
    <3> HIDE DEF k
    <3>1. QED
      BY <2>16, <2>22
  <2>24. a \in Nat /\ b \in Nat
    BY <2>3, <2>4, <2>22
  <2>25. /\ \A u \in (a + 2)..(a + 1 + b) : c[u] = AwaitsOf(u)
         /\ G(a, b, c)!KnowsInits
         /\ \A u \in 1..(a + 1 + b) : AwaitsOf(u) = G(a, b, c)!Requires(u)
    <3> HIDE DEF i, n, k
    <3>1. \A u \in (a + 2)..(a + 1 + b) : c[u] = AwaitsOf(u)
      BY <2>21, <2>22, <2>23
    <3>2. G(a, b, c)!KnowsInits
      BY <2>19, <2>22, <2>23, <2>24
    <3>3. \A u \in 1..(a + 1 + b) : AwaitsOf(u) = G(a, b, c)!Requires(u)
      BY <2>20, <2>22, <2>23, <2>24
    <3>4. QED
      BY <3>1, <3>2, <3>3
  <2>26. a = Cardinality(Made(current.shape)) /\ b = Cardinality(Left)
    BY <2>22 DEF i, n, M, L, s
  <2>27. QED
    <3> HIDE DEF i, n, k
    <3>1. QED
      BY <2>15, <2>23, <2>25, <2>26 DEF MixtureIsPodUnits
<1>2. QED
    BY <1>1, Invariance, PTL

=============================================================================
