--------------------------- MODULE PodUnitsProofs ---------------------------
(***************************************************************************)
(* PodUnits for every number of init containers and containers, and any    *)
(* number of failures: compute only ever sees prepared volumes.            *)
(***************************************************************************)
EXTENDS PodUnits, TLAPS

\* How the sets of units relate.
LEMMA UnitSets ==
    /\ Pod \notin Members
    /\ Inits \subseteq Members
    /\ Containers \subseteq Members
    /\ Containers \cap Inits = {}
    /\ Compute \in Containers
    /\ Compute \notin Oneshots
    /\ Inits \subseteq Oneshots /\ Stale \subseteq Oneshots /\ Oneshots \subseteq Members
    /\ Stale \cap Inits = {}
    /\ Units = {Pod} \cup Members
BY NInitsAssumption, NContainersAssumption, NStaleAssumption
   DEF Pod, Members, Inits, Containers, Compute, Units, Stale, Oneshots

\* Earlier inits are inits, and of two inits one is the earlier.
LEMMA InitOrder ==
    ASSUME NEW i \in Inits
    PROVE  /\ 1..(i - 1) \subseteq Inits
           /\ \A j \in Inits : j # i => j \in 1..(i - 1) \/ i \in 1..(j - 1)
BY NInitsAssumption DEF Inits

\* A stale init waits for inits, stale or not.
LEMMA StaleWaitsForInits == \A s \in Stale : Knows[s] \subseteq Oneshots
BY KnowsAssumption DEF KnowsInits

\* What an init and compute wait for.
LEMMA WaitsFor ==
    /\ \A u \in Members : Pod \in After(u) /\ After(u) \subseteq {Pod} \cup Oneshots
    /\ \A i \in Inits : After(i) = 1..(i - 1) \cup {Pod}
    /\ After(Compute) = Inits \cup {Pod}
<1>1. \A i \in Inits : i # Pod /\ 1..(i - 1) \subseteq Inits
    BY InitOrder, UnitSets
<1>2. Compute \notin Oneshots /\ Compute # Pod
    BY UnitSets
<1>3. \A u \in Units : Requires(u) \subseteq Oneshots
    BY <1>1, StaleWaitsForInits, UnitSets DEF Requires
<1>4. \A i \in Inits : Requires(i) = 1..(i - 1)
    BY DEF Requires
<1>5. Requires(Compute) = Inits
    BY <1>2, UnitSets DEF Requires
<1>6. \A u \in Members : BindsTo(u) = {Pod}
    BY UnitSets DEF BindsTo
<1>7. QED
    BY <1>2, <1>3, <1>4, <1>5, <1>6, UnitSets DEF After

LEMMA InitInv == Init => IInv
<1> SUFFICES ASSUME Init PROVE IInv
    OBVIOUS
<1>1. \A u \in Units : st[u] = "inactive"
    BY DEF Init
<1>2. TypeOK
    BY DEF Init, TypeOK, States
<1>3. \A u \in Members : st[u] = "inactive"
    BY <1>1, UnitSets
<1>4. UnitsFit
    BY <1>1, <1>3, UnitSets DEF UnitsFit, Init, Up
<1>5. QED
    BY <1>2, <1>4 DEF IInv

\* A start job pulls in units only.
LEMMA EnqueueType ==
    ASSUME TypeOK, NEW u \in Units, Enqueue(u)
    PROVE  jobs' \subseteq Units
<1>1. Requires(u) \subseteq Units /\ Wants(u) \subseteq Units
    BY UnitSets, InitOrder, StaleWaitsForInits DEF Requires, Wants
<1>2. PulledIn(u) \subseteq Units
    BY <1>1 DEF PulledIn
<1>3. QED
    BY <1>2 DEF Enqueue, TypeOK

LEMMA NextType == TypeOK /\ [Next]_vars => TypeOK'
<1> SUFFICES ASSUME TypeOK, [Next]_vars PROVE TypeOK'
    OBVIOUS
<1> USE DEF TypeOK, States
<1>0. Members \subseteq Units /\ Pod \in Units /\ Inits \subseteq Units
    BY UnitSets
<1>1. CASE StartPod
    BY <1>0, <1>1, EnqueueType DEF StartPod
<1>2. CASE PodUp
    BY <1>0, <1>2 DEF PodUp
<1>3. CASE PodFails
    BY <1>0, <1>3 DEF PodFails
<1>4. CASE InfraGone
    BY <1>0, <1>4 DEF InfraGone, StopMembers
<1>5. CASE StopPod
    BY <1>0, <1>5 DEF StopPod, StopMembers
<1>6. ASSUME NEW u \in Units, Stopped(u) \/ Restart(u)
      PROVE  TypeOK'
    BY <1>6, EnqueueType DEF Stopped, Restart
<1>7. ASSUME NEW u \in Members,
             \/ Begin(u) \/ DependencyFailed(u) \/ InitDone(u)
             \/ InitFails(u) \/ Crash(u) \/ Exit(u)
      PROVE  TypeOK'
    BY <1>0, <1>7 DEF Begin, DependencyFailed, InitDone, InitFails, Crash, Exit
<1>8. CASE UNCHANGED vars
    BY <1>8 DEF vars
<1>9. QED
    BY <1>0, <1>1, <1>2, <1>3, <1>4, <1>5, <1>6, <1>7, <1>8 DEF Next, MemberStep

\* Every step preserves the invariant.
LEMMA NextInv == IInv /\ [Next]_vars => IInv'
<1> SUFFICES ASSUME IInv, [Next]_vars PROVE UnitsFit'
    BY NextType DEF IInv
<1> USE DEF IInv, UnitsFit, Up, Down
<1>0. TypeOK'
    BY NextType
<1>1. CASE StartPod
    BY <1>1 DEF StartPod
<1>2. CASE PodUp
    <2>1. \A u \in Members : st[u] # "stopping"
        BY <1>2, WaitsFor, UnitSets DEF PodUp, Turn
    <2>2. \A u \in Members : ~Up(u)
        BY <1>2 DEF PodUp, Turn
    <2>3. \A u \in Members : st'[u] = st[u]
        BY <1>2, UnitSets DEF PodUp, TypeOK
    <2>4. st'[Pod] = "running" /\ prepared' = {}
        BY <1>2, UnitSets DEF PodUp, TypeOK
    <2>5. QED
        BY <2>1, <2>2, <2>3, <2>4, UnitSets
<1>3. CASE PodFails
    <2>1. \A u \in Members : st'[u] = st[u] /\ ~Up(u)
        BY <1>3, UnitSets DEF PodFails, Turn, TypeOK
    <2>2. st'[Pod] = "failed" /\ prepared' = prepared
        BY <1>3, UnitSets DEF PodFails, TypeOK
    <2>3. QED
        BY <2>1, <2>2, UnitSets
<1>4. ASSUME NEW podState \in {"failed", "finished", "stopping", "inactive"},
             StopMembers(podState), prepared' = prepared
      PROVE  UnitsFit'
    <2>1. \A u \in Members : st'[u] = IF Up(u) THEN "stopping" ELSE st[u]
        BY <1>4, UnitSets DEF StopMembers, BindsTo
    <2>2. st'[Pod] = podState
        BY <1>4, UnitSets DEF StopMembers
    <2>3. Up(Compute) => prepared = Inits
        BY DEF TypeOK
    <2>4. QED
        BY <1>4, <2>1, <2>2, <2>3, UnitSets
<1>5. CASE InfraGone
    BY <1>4, <1>5 DEF InfraGone
<1>6. CASE StopPod
    BY <1>4, <1>6, UnitSets DEF StopPod, TypeOK, States
<1>7. ASSUME NEW u \in Units, Stopped(u)
      PROVE  UnitsFit'
    <2>1. \A v \in Members : ~Up(v)
        BY <1>7, UnitSets DEF Stopped, Units
    <2>2. \A v \in Members : st'[v] = st[v] \/ (st[v] = "stopping" /\ st'[v] = "inactive")
        BY <1>7, UnitSets DEF Stopped, TypeOK
    <2>3. st'[Pod] = st[Pod] \/ st'[Pod] = "inactive"
        BY <1>7, UnitSets DEF Stopped, TypeOK
    <2>4. st[Pod] # "running" \/ \A v \in Members : st'[v] = st[v]
        BY <1>7, <2>2
    <2>5. prepared' = prepared
        BY <1>7 DEF Stopped
    <2>6. QED
        BY <2>1, <2>2, <2>3, <2>4, <2>5, UnitSets DEF TypeOK
<1>8. ASSUME NEW u \in Members, Begin(u)
      PROVE  UnitsFit'
    <2>1. st[Pod] = "running" /\ Down(u)
        BY <1>8, WaitsFor, UnitSets DEF Begin, Turn
    <2>2. \A v \in After(u) \cap Inits : st[v] = "exited"
        BY <1>8, UnitSets DEF Begin, Turn
    <2>3. u \in Inits => st[Compute] \notin {"running", "exited", "stopping"}
        BY <1>8, <2>1, UnitSets
    <2>4. \A v \in Units : st'[v] = IF v = u THEN "running" ELSE st[v]
        BY <1>8, UnitSets DEF Begin, TypeOK
    <2>5. prepared' = prepared
        BY <1>8 DEF Begin
    <2>6. u \in Inits => u \notin prepared /\ \A j \in 1..(u - 1) : st[j] = "exited"
        BY <2>1, <2>2, WaitsFor, InitOrder
    <2>7. u = Compute => \A i \in Inits : st[i] = "exited"
        BY <2>2, WaitsFor
    <2>8. \A i \in Inits : i # u /\ Up(i) => \A j \in 1..(i - 1) : st'[j] = "exited"
        BY <2>1, <2>4, InitOrder, UnitSets
    <2>9. /\ st'[Pod] = "running"
          /\ \A v \in Members : st'[v] = IF v = u THEN "running" ELSE st[v]
        BY <2>1, <2>4, UnitSets
    <2>10. \A i \in Inits : Up(i)' => \A j \in 1..(i - 1) : st'[j] = "exited"
        <3>1. CASE u \in Inits
            <4>1. \A j \in 1..(u - 1) : j # u /\ st'[j] = st[j]
                BY <3>1, <2>9, InitOrder, UnitSets DEF Inits
            <4>2. QED
                BY <3>1, <4>1, <2>6, <2>8, <2>9, UnitSets
        <3>2. CASE u \notin Inits
            BY <3>2, <2>8, <2>9, UnitSets
        <3>3. QED
            BY <3>1, <3>2
    <2>11. Up(Compute)' => \A i \in Inits : st'[i] = "exited"
        BY <2>1, <2>3, <2>7, <2>9, UnitSets
    <2>12. \A i \in prepared : st'[i] = "exited"
        BY <2>1, <2>6, <2>9, UnitSets DEF TypeOK
    <2>13. st'[Compute] # "stopping"
        BY <2>1, <2>9, UnitSets
    <2>14. \A i \in Inits : st'[i] = "exited" => i \in prepared
        BY <2>9, UnitSets
    <2>15. QED
        BY <2>1, <2>5, <2>9, <2>10, <2>11, <2>12, <2>13, <2>14, UnitSets
<1>9. ASSUME NEW u \in Members, InitDone(u)
      PROVE  UnitsFit'
    BY <1>9, UnitSets DEF InitDone, TypeOK
<1>10. ASSUME NEW u \in Members, InitFails(u) \/ Crash(u) \/ Exit(u)
       PROVE  UnitsFit'
    <2>1. /\ st[u] = "running"
          /\ prepared' = prepared
          /\ st'[Pod] = st[Pod]
          /\ st'[u] \in {"failed", "finished"}
          /\ \A v \in Members : v # u => st'[v] = st[v]
        BY <1>10, UnitSets DEF InitFails, Crash, Exit, TypeOK
    <2>2. \A i \in Inits : st[i] = "exited" => st'[i] = "exited"
        BY <2>1, UnitSets
    <2>3. \A v \in Members : st'[v] \in {"running", "exited", "stopping"} => st'[v] = st[v]
        BY <2>1
    <2>4. \A i \in Inits : Up(i)' => \A j \in 1..(i - 1) : st'[j] = "exited"
        BY <2>2, <2>3, InitOrder, UnitSets
    <2>5. \A i \in Inits : st'[i] = "exited" => i \in prepared
        BY <2>3, UnitSets
    <2>6. \A i \in prepared : st[Pod] = "running" => st'[i] = "exited"
        BY <2>2 DEF TypeOK
    <2>7. QED
        BY <2>1, <2>2, <2>3, <2>4, <2>5, <2>6, UnitSets
<1>11. ASSUME NEW u \in Units, DependencyFailed(u) \/ Restart(u)
       PROVE  UnitsFit'
    BY <1>11 DEF DependencyFailed, Restart
<1>12. CASE UNCHANGED vars
    BY <1>12 DEF vars
<1>13. QED
    BY <1>1, <1>2, <1>3, <1>5, <1>6, <1>7, <1>8, <1>9, <1>10, <1>11, <1>12, UnitSets
    DEF Next, MemberStep

-----------------------------------------------------------------------------

\* The inductive invariant holds in every reachable state.
THEOREM Invariance == Spec => []IInv
BY InitInv, NextInv, PTL DEF Spec

\* Compute only runs on volumes in which every init has done its work, however
\* often containers crash and the pod is restarted.
THEOREM Prepared == Spec => []ComputeIsPrepared
<1>1. IInv => ComputeIsPrepared
    BY DEF IInv, TypeOK, UnitsFit, ComputeIsPrepared, Up
<1>2. QED
    BY <1>1, Invariance, PTL

\* Inits run one at a time, in pod order, and never beside compute.
THEOREM InitsAlone == Spec => []InitsRunAlone
<1>1. ASSUME IInv
      PROVE  InitsRunAlone
    <2> SUFFICES ASSUME NEW i \in Inits, st[i] = "running"
                 PROVE  /\ st[Compute] \notin {"running", "stopping"}
                        /\ 1..(i - 1) \subseteq prepared
                        /\ \A j \in Inits : st[j] = "running" => j = i
        BY DEF InitsRunAlone
    <2>1. st[Compute] \notin {"running", "stopping"}
        BY <1>1 DEF IInv, UnitsFit, Up
    <2>2. \A j \in 1..(i - 1) : st[j] = "exited"
        BY <1>1 DEF IInv, UnitsFit, Up
    <2>3. 1..(i - 1) \subseteq prepared
        BY <1>1, <2>2, InitOrder DEF IInv, UnitsFit
    <2>4. ASSUME NEW j \in Inits, st[j] = "running"
          PROVE  j = i
        <3>1. \A k \in 1..(j - 1) : st[k] = "exited"
            BY <1>1, <2>4 DEF IInv, UnitsFit, Up
        <3>2. QED
            BY <2>2, <2>4, <3>1, InitOrder
    <2>5. QED
        BY <2>1, <2>3, <2>4
<1>2. QED
    BY <1>1, Invariance, PTL

\* The emptyDir volumes are never replaced while a container uses them.
THEOREM VolumesStay == Spec => VolumesOutliveUsers
<1>1. ASSUME IInv, Next, prepared' # prepared, ~(prepared \subseteq prepared')
      PROVE  \A u \in Members : st[u] \notin {"running", "exited", "stopping"}
    <2>1. PodUp
        BY <1>1 DEF Next, MemberStep, StartPod, PodFails, InfraGone, StopPod, Stopped,
                    Restart, Begin, DependencyFailed, InitDone, InitFails, Crash, Exit
    <2>2. Down(Pod)
        BY <2>1 DEF PodUp, Turn
    <2>3. \A u \in Members : st[u] # "stopping"
        BY <2>1, WaitsFor, UnitSets DEF PodUp, Turn
    <2>4. QED
        BY <1>1, <2>2, <2>3 DEF IInv, UnitsFit, Up, Down
<1>2. QED
    BY <1>1, Invariance, PTL DEF Spec, VolumesOutliveUsers, vars

\* No init runs twice on the same volumes.
THEOREM InitsOnce == Spec => InitsRunOncePerPod
<1>1. ASSUME IInv, Next, NEW i \in Inits, st[i] # "running", st'[i] = "running"
      PROVE  i \notin prepared
    <2>1. CASE StartPod \/ \E v \in Units : DependencyFailed(v) \/ Restart(v)
        BY <1>1, <2>1 DEF StartPod, DependencyFailed, Restart
    <2>2. CASE PodUp \/ PodFails
        BY <1>1, <2>2, UnitSets DEF IInv, TypeOK, PodUp, PodFails
    <2>3. CASE InfraGone \/ StopPod
        BY <1>1, <2>3, UnitSets DEF IInv, TypeOK, InfraGone, StopPod, StopMembers
    <2>4. CASE \E v \in Units : Stopped(v) \/ InitDone(v) \/ InitFails(v) \/ Crash(v) \/ Exit(v)
        BY <1>1, <2>4, UnitSets
        DEF IInv, TypeOK, Stopped, InitDone, InitFails, Crash, Exit
    <2>5. CASE \E v \in Members : Begin(v)
        <3>1. PICK v \in Members : Begin(v)
            BY <2>5
        <3>2. v = i
            BY <1>1, <3>1, UnitSets DEF IInv, TypeOK, Begin
        <3>3. Down(i) /\ Up(Pod)
            BY <3>1, <3>2, WaitsFor, UnitSets DEF Begin, Turn
        <3>4. QED
            BY <1>1, <3>3 DEF IInv, UnitsFit, Up, Down
    <2>6. QED
        BY <1>1, <2>1, <2>2, <2>3, <2>4, <2>5, UnitSets DEF Next, MemberStep
<1>2. IInv /\ [Next]_vars =>
        [\A i \in Inits : st[i] # "running" /\ st'[i] = "running" => i \notin prepared]_vars
    BY <1>1
<1>3. QED
    BY <1>2, Invariance, PTL DEF Spec, InitsRunOncePerPod

\* A guest that has powered off is not started by a crash of another container:
\* compute gets a start job again only when the pod is down.
THEOREM OffStaysOff == Spec => PowerOffStays
<1>1. ASSUME TypeOK, Next, st[Compute] = "finished", Compute \notin jobs, Compute \in jobs'
      PROVE  ~Up(Pod)
    <2>1. StartPod \/ \E u \in Units : Restart(u)
        BY <1>1, UnitSets
        DEF Next, MemberStep, PodUp, PodFails, InfraGone, StopPod, Stopped, Begin,
            DependencyFailed, InitDone, InitFails, Crash, Exit
    <2>2. CASE StartPod
        BY <2>2 DEF StartPod, Up, Down
    <2>3. ASSUME NEW u \in Units, Restart(u), Up(Pod)
          PROVE  FALSE
        <3>1. st[u] = "failed" /\ u \in Containers \cup {Pod} /\ u # Compute /\ u # Pod
            BY <1>1, <2>3 DEF Restart, RestartsOnFailure, Up
        <3>2. u \in Containers /\ u \notin Oneshots
            BY <3>1, UnitSets, NInitsAssumption, NContainersAssumption, NStaleAssumption
            DEF Containers, Oneshots, Inits, Stale, Compute
        <3>3. Requires(u) = {} /\ Wants(u) = {}
            BY <3>1, <3>2, UnitSets DEF Requires, Wants, Oneshots
        <3>4. PulledIn(u) = {u}
            BY <2>3, <3>1, <3>3 DEF PulledIn
        <3>5. QED
            BY <1>1, <2>3, <3>1, <3>4 DEF Restart, Enqueue
    <2>4. QED
        BY <2>1, <2>2, <2>3
<1>2. IInv /\ [Next]_vars =>
        [st[Compute] = "finished" /\ Compute \notin jobs /\ Compute \in jobs' => ~Up(Pod)]_vars
    BY <1>1 DEF IInv
<1>3. QED
    BY <1>2, Invariance, PTL DEF Spec, PowerOffStays

=============================================================================
