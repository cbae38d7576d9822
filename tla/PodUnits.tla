------------------------------ MODULE PodUnits ------------------------------
(***************************************************************************)
(* The generated units at work: the services of the pod, of its init       *)
(* containers and of its containers, started, crashed, stopped and         *)
(* restarted by systemd along the dependencies the converter writes        *)
(* (Convert, buildPodUnit) and the Quadlet generator adds (handlePod,      *)
(* ConvertPod).  What systemd does with a dependency is external to the    *)
(* repository and modelled as documented in systemd.unit(5).               *)
(*                                                                         *)
(* The emptyDir volumes are tmpfs volumes held by the infra container: they*)
(* are fresh whenever the pod service creates it, so what the init         *)
(* containers prepared in them is lost with it.                            *)
(*                                                                         *)
(* The directory of the units is never cleared (writeFiles).  An init of an*)
(* earlier conversion that the present one does not make again stays there *)
(* as it was: it joins the pod, is wanted by compute, and is ordered after *)
(* the inits before it, while nothing is ordered after it any more.        *)
(***************************************************************************)
EXTENDS Integers

CONSTANTS
    NInits,        \* number of init containers of the pod
    NContainers,   \* number of regular containers; the first one is compute
    NStale,        \* number of init containers left by earlier conversions
    Knows,         \* stale init -> the inits before it in its own conversion
    MaxFaults      \* bound: failures of containers and inits, losses of infra

ASSUME NInitsAssumption == NInits \in Nat
ASSUME NContainersAssumption == NContainers \in Nat \ {0}
ASSUME NStaleAssumption == NStale \in Nat
ASSUME MaxFaultsAssumption == MaxFaults \in Nat

VARIABLES
    st,        \* unit -> its state
    jobs,      \* units with a start job waiting for its turn
    prepared,  \* inits whose work is in the volumes of this infra container
    wanted,    \* has the pod been started and not been stopped by the user?
    faults     \* failures so far

vars == <<st, jobs, prepared, wanted, faults>>

-----------------------------------------------------------------------------
(***************************************************************************)
(* The units and their dependencies.                                       *)
(***************************************************************************)

Pod == 0
Inits == 1..NInits                                  \* in pod order
Compute == NInits + 1                               \* Containers[0]
Containers == Compute..(NInits + NContainers)
Stale == (NInits + NContainers + 1)..(NInits + NContainers + NStale)
Oneshots == Inits \cup Stale
Members == Inits \cup Containers \cup Stale
Units == {Pod} \cup Members

\* No file is removed, so what an init was ordered after is there, still made
\* or stale too.
KnowsInits == Knows \in [Stale -> SUBSET Oneshots]
ASSUME KnowsAssumption == KnowsInits

\* Faulty variants of Requires, for the mutation runs: the inits are not
\* chained, or compute is given the first of them only.
RequiresUnchained(u) == IF u = Compute THEN Inits ELSE {}
RequiresFirst(u) ==
    IF u \in Inits THEN 1..(u - 1) ELSE IF u = Compute THEN {1} ELSE {}

\* An init has After= and Requires= on every init before it, where a stale one
\* knows the inits of its own conversion; only the first container has them on
\* the inits, and it knows the present ones.
Requires(u) ==
    IF u \in Inits THEN 1..(u - 1)
    ELSE IF u \in Stale THEN Knows[u]
    ELSE IF u = Compute THEN Inits ELSE {}

\* Faulty variant of BindsTo: only compute joins the pod.
BindsOnlyCompute(u) == IF u = Compute THEN {Pod} ELSE {}

\* Pod= makes the generator bind every container, inits too, to the pod.
BindsTo(u) == IF u = Pod THEN {} ELSE {Pod}

After(u) == Requires(u) \cup BindsTo(u)

\* The pod wants whatever has joined it; the inits are WantedBy= compute.
Wants(u) == IF u = Pod THEN Members ELSE IF u = Compute THEN Oneshots ELSE {}

\* Inits are oneshot units and get no Restart=.
RestartsOnFailure(u) == u \in Containers \cup {Pod}

\* Faulty variant of ExitPolicy: what podman does by default for a pod of
\* Quadlet.
ExitPolicyDefault == "stop"

\* --exit-policy continue keeps the infra container when no other runs.
ExitPolicy == "continue"

-----------------------------------------------------------------------------
(***************************************************************************)
(* systemd.                                                                *)
(***************************************************************************)

\* "exited" is the active state of a oneshot unit with RemainAfterExit=yes;
\* such a unit that is "running" is still activating.  "finished" is inactive
\* after an exit with status 0 that nobody asked systemd for.
States == {"inactive", "running", "exited", "failed", "finished", "stopping"}
Up(u) == st[u] \in {"running", "exited"}
Down(u) == st[u] \in {"inactive", "failed", "finished"}

Init ==
    /\ st = [u \in Units |-> "inactive"]
    /\ jobs = {}
    /\ prepared = {}
    /\ wanted = FALSE
    /\ faults = 0

\* A start job pulls in what the unit requires, is bound to and wants.  The
\* pod wants all; a container pulls the pod, and so all, when it is not up.
\* A unit that is stopping gets its job once stopped.
PulledIn(u) ==
    IF u = Pod \/ ~Up(Pod) THEN Units
    ELSE {u} \cup Requires(u) \cup Wants(u)

Enqueue(u) == jobs' = jobs \cup {v \in PulledIn(u) : ~Up(v)}

\* systemctl start of a pod that is down, or default.target at boot.
StartPod ==
    /\ Down(Pod)
    /\ wanted' = TRUE
    /\ Enqueue(Pod)
    /\ UNCHANGED <<st, prepared, faults>>

\* The job of a unit has its turn when everything it is ordered after has
\* ended its own start, and nothing ordered after it is still stopping.
Turn(u) ==
    /\ u \in jobs
    /\ Down(u)
    /\ \A v \in After(u) : v \notin jobs /\ st[v] # "stopping"
    /\ \A v \in After(u) \cap Oneshots : st[v] # "running"
    /\ \A v \in Units : u \in After(v) => st[v] # "stopping"

\* Faulty variant of PodUp: the pod is started again instead of created.
PodUpReuses ==
    /\ Turn(Pod)
    /\ st' = [st EXCEPT ![Pod] = "running"]
    /\ jobs' = jobs \ {Pod}
    /\ UNCHANGED <<prepared, wanted, faults>>

\* podman pod create --replace and pod start: a new infra container, with
\* fresh emptyDir volumes.
PodUp ==
    /\ Turn(Pod)
    /\ st' = [st EXCEPT ![Pod] = "running"]
    /\ jobs' = jobs \ {Pod}
    /\ prepared' = {}
    /\ UNCHANGED <<wanted, faults>>

PodFails ==
    /\ Turn(Pod)
    /\ faults < MaxFaults
    /\ faults' = faults + 1
    /\ st' = [st EXCEPT ![Pod] = "failed"]
    /\ jobs' = jobs \ {Pod}
    /\ UNCHANGED <<prepared, wanted>>

Begin(u) ==
    /\ u \in Members
    /\ Turn(u)
    /\ \A v \in After(u) : Up(v)
    /\ st' = [st EXCEPT ![u] = "running"]
    /\ jobs' = jobs \ {u}
    /\ UNCHANGED <<prepared, wanted, faults>>

\* A job whose requirement is not up when its turn comes fails, without
\* its unit ever running; Restart= does not apply to it.
DependencyFailed(u) ==
    /\ u \in Members
    /\ Turn(u)
    /\ \E v \in After(u) : Down(v)
    /\ jobs' = jobs \ {u}
    /\ UNCHANGED <<st, prepared, wanted, faults>>

\* The init's script exits 0.
InitDone(i) ==
    /\ i \in Oneshots
    /\ st[i] = "running"
    /\ st' = [st EXCEPT ![i] = "exited"]
    /\ prepared' = prepared \cup ({i} \cap Inits)
    /\ UNCHANGED <<jobs, wanted, faults>>

InitFails(i) ==
    /\ i \in Oneshots
    /\ st[i] = "running"
    /\ faults < MaxFaults
    /\ faults' = faults + 1
    /\ st' = [st EXCEPT ![i] = "failed"]
    /\ UNCHANGED <<jobs, prepared, wanted>>

\* A container exits with an error, or cannot be started.
Crash(c) ==
    /\ c \in Containers
    /\ st[c] = "running"
    /\ faults < MaxFaults
    /\ faults' = faults + 1
    /\ st' = [st EXCEPT ![c] = "failed"]
    /\ UNCHANGED <<jobs, prepared, wanted>>

\* A container ends with status 0: the guest powers off, a proxy is done.
Exit(c) ==
    /\ c \in Containers
    /\ st[c] = "running"
    /\ st' = [st EXCEPT ![c] = "finished"]
    /\ UNCHANGED <<jobs, prepared, wanted, faults>>

\* What is up and bound to the pod is told to stop as the pod goes.
StopMembers(podState) ==
    st' = [u \in Units |->
             IF u = Pod THEN podState
             ELSE IF Pod \in BindsTo(u) /\ Up(u) THEN "stopping" ELSE st[u]]

\* The infra container goes, with either status: killed, stopped by hand, or
\* stopped by podman because the last container of the pod has exited, if the
\* exit policy says so.
InfraGone ==
    /\ st[Pod] = "running"
    /\ LET emptied == ExitPolicy = "stop" /\ \A u \in Members : st[u] # "running"
       IN /\ ~emptied => faults < MaxFaults
          /\ faults' = IF emptied THEN faults ELSE faults + 1
    /\ \E podState \in {"failed", "finished"} : StopMembers(podState)
    /\ UNCHANGED <<jobs, prepared, wanted>>

\* systemctl stop: the members stop before the pod does, and no start job
\* or automatic restart of theirs survives.
StopPod ==
    /\ wanted
    /\ wanted' = FALSE
    /\ StopMembers(IF st[Pod] = "running" THEN "stopping" ELSE st[Pod])
    /\ jobs' = {}
    /\ UNCHANGED <<prepared, faults>>

\* Stop jobs run in the reverse of the start order.
Stopped(u) ==
    /\ st[u] = "stopping"
    /\ \A v \in Units : u \in After(v) => st[v] \notin {"running", "stopping"}
    /\ st' = [st EXCEPT ![u] = "inactive"]
    /\ UNCHANGED <<jobs, prepared, wanted, faults>>

\* Faulty variant of Restart: Restart=always.
RestartAlways(u) ==
    /\ RestartsOnFailure(u)
    /\ st[u] \in {"failed", "finished"}
    /\ u \notin jobs
    /\ wanted
    /\ Enqueue(u)
    /\ UNCHANGED <<st, prepared, wanted, faults>>

\* Restart=on-failure: what has ended with status 0 is left alone.
Restart(u) ==
    /\ RestartsOnFailure(u)
    /\ st[u] = "failed"
    /\ u \notin jobs
    /\ wanted
    /\ Enqueue(u)
    /\ UNCHANGED <<st, prepared, wanted, faults>>

MemberStep(u) ==
    Begin(u) \/ DependencyFailed(u) \/ InitDone(u) \/ Stopped(u) \/ Restart(u)

Next ==
    \/ StartPod \/ PodUp \/ PodFails \/ InfraGone \/ StopPod \/ Stopped(Pod) \/ Restart(Pod)
    \/ \E u \in Members : MemberStep(u) \/ InitFails(u) \/ Crash(u) \/ Exit(u)

Spec == Init /\ [][Next]_vars

\* systemd runs its jobs and its restarts, and the scripts of inits end;
\* nothing makes a user act or a container end.
FairSpec ==
    /\ Spec
    /\ WF_vars(PodUp) /\ WF_vars(Stopped(Pod)) /\ WF_vars(Restart(Pod))
    /\ \A u \in Members : WF_vars(MemberStep(u))

-----------------------------------------------------------------------------
TypeOK ==
    /\ st \in [Units -> States]
    /\ jobs \subseteq Units
    /\ prepared \subseteq Inits
    /\ wanted \in BOOLEAN
    /\ faults \in Nat

\* While compute runs, or is being stopped, every init has done its work in
\* the volumes compute is using: no restart of the pod leaves compute on
\* fresh volumes nobody prepared, though inits remain active after exit.
ComputeIsPrepared ==
    st[Compute] \in {"running", "stopping"} => prepared = Inits

\* No init of its conversion runs beside compute, so none touches a disk that
\* compute has open, and the inits run one at a time, each on what the earlier
\* ones prepared.
InitsRunAlone ==
    \A i \in Inits : st[i] = "running" =>
        /\ st[Compute] \notin {"running", "stopping"}
        /\ 1..(i - 1) \subseteq prepared
        /\ \A j \in Inits : st[j] = "running" => j = i

\* Where each unit may be, given where the others are; inductive with TypeOK.
UnitsFit ==
    /\ st[Pod] # "exited"
    /\ \A u \in Members : Up(u) => st[Pod] = "running"
    /\ \A u \in Members : st[u] = "stopping" => st[Pod] # "running"
    /\ \A i \in Inits : Up(i) => \A j \in 1..(i - 1) : st[j] = "exited"
    /\ \A i \in Inits : st[i] = "exited" => i \in prepared
    /\ \A i \in prepared : st[Pod] = "running" => st[i] = "exited"
    /\ Up(Compute) => \A i \in Inits : st[i] = "exited"
    /\ st[Compute] = "stopping" => prepared = Inits
    /\ st[Compute] = "stopping" => \A i \in Inits : st[i] # "running"

IInv == TypeOK /\ UnitsFit

\* The volumes are never replaced under a container that still uses them.
VolumesOutliveUsers ==
    [][prepared' # prepared /\ ~(prepared \subseteq prepared') =>
         \A u \in Members : st[u] \notin {"running", "exited", "stopping"}]_vars

\* An init never runs again on volumes it has already prepared: a crash of
\* compute brings compute back and leaves the inits alone, and any restart
\* that runs an init again gives it fresh volumes.
InitsRunOncePerPod ==
    [][\A i \in Inits : st[i] # "running" /\ st'[i] = "running" => i \notin prepared]_vars

\* A guest that has powered off stays off while its pod is up: what else
\* crashes in the pod and is restarted does not pull compute in again.  It
\* comes back with the whole pod only.
PowerOffStays ==
    [][st[Compute] = "finished" /\ Compute \notin jobs /\ Compute \in jobs'
         => ~Up(Pod)]_vars

\* A pod that is not stopped gets its compute container running again after
\* whatever failed.  What keeps it down is an init of its own conversion that
\* failed, which nothing restarts, or an end without a failure, of the guest
\* or of the pod; a failed init of an earlier conversion does not.
ComputeComesBack ==
    wanted ~> \/ st[Compute] \in {"running", "finished"}
              \/ st[Pod] = "finished"
              \/ ~wanted
              \/ \E i \in Inits : st[i] = "failed"

\* "First container waits for all init containers" (convert.go): compute is
\* not started while an init container that it pulls in has still to run.
ComputeWaitsForAllInits ==
    st[Compute] = "running" =>
        \A i \in Wants(Compute) : i \notin jobs /\ st[i] # "running"

=============================================================================
