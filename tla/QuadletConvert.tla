--------------------------- MODULE QuadletConvert ---------------------------
(***************************************************************************)
(* Steps 6 and 7 of the pipeline, run on the pod of StandalonePod: the     *)
(* conversion of the pod to Quadlet units, the fixups made in the text of  *)
(* the units, and what the Quadlet generator makes of them, a graph of     *)
(* services, which is the one PodUnits runs.                               *)
(*                                                                         *)
(* A unit is a file, its groups in the order of their creation, and its    *)
(* lines, as <<group, key, value>>.  Files and values are triples          *)
(* <<name, index, type>>; the type of a value is that of the file it names,*)
(* or "service", or tells it is a plain value.  Keys that no property looks*)
(* at are left out.                                                        *)
(***************************************************************************)
EXTENDS StandalonePod

VARIABLES
    network,   \* --network: "" for a network of the VM's own
    stage,     \* the part of the conversion that comes next
    files      \* the units and their companion files, in output order

convVars == <<network, stage, files>>
vars == <<podVars, convVars>>

-----------------------------------------------------------------------------
(***************************************************************************)
(* Unit files.                                                             *)
(***************************************************************************)

Typed(n, type) == <<n[1], n[2], type>>
Value(s) == <<s, 0, "value">>
Service(n) == Typed(n, "service")
PodName == <<"pod", 0>>

NewUnit(file) == [file |-> file, groups |-> <<"Unit">>, lines |-> {}]
Companion(file) == [file |-> file, groups |-> <<>>, lines |-> {}]

\* Set and Add: a group is created, at the end, by its first line.
With(u, group, keyvals) ==
    IF keyvals = {} THEN u
    ELSE [u EXCEPT
            !.groups = IF group \in ToSet(@) THEN @ ELSE Append(@, group),
            !.lines = @ \cup {<<group, kv[1], kv[2]>> : kv \in keyvals}]

\* Faulty variant of InsertBeforeSection: lines go after the header.
InsertAfterSection(u, section, keyvals) ==
    [u EXCEPT !.lines = @ \cup {<<section, kv[1], kv[2]>> : kv \in keyvals}]

\* insertBeforeSection puts lines at the end of the group that precedes the
\* section, or of the last group if no header of the section follows a line.
InsertBeforeSection(u, section, keyvals) ==
    LET at == {k \in 2..Len(u.groups) : u.groups[k] = section}
        group == IF at = {} THEN Last(u.groups)
                 ELSE u.groups[(CHOOSE k \in at : TRUE) - 1]
    IN [u EXCEPT !.lines = @ \cup {<<group, kv[1], kv[2]>> : kv \in keyvals}]

-----------------------------------------------------------------------------
(***************************************************************************)
(* Convert.                                                                *)
(***************************************************************************)

ConvertInit ==
    /\ Init
    /\ network = ""
    /\ stage = "fixups"
    /\ files = <<>>

AtStage(s, next) ==
    /\ step = "done"
    /\ stage = s
    /\ stage' = next
    /\ UNCHANGED <<podVars, network>>

\* Convert of pkg/quadlet: the network it is given, and preConvertFixups.
Fixups ==
    /\ step = "done"
    /\ stage = "fixups"
    /\ stage' = "volumes"
    /\ network' \in {"", "shared"}
    /\ pod' = [pod EXCEPT !.grace = "120"]
    /\ UNCHANGED <<step, vm, opts, files>>

\* A claim becomes a plain named volume, an emptyDir a tmpfs; the two have
\* file names of their own.
VolumeFile(v) == Typed(v.name, IF v.kind = "emptyDir" THEN "tmpfs" ELSE "volume")
VolumeUnit(v) ==
    With(NewUnit(VolumeFile(v)), "Volume",
         IF v.kind = "emptyDir" THEN {<<"Type", Value("tmpfs")>>} ELSE {})

VolumeUnits ==
    LET vols == Select(pod.volumes, {v \in ToSet(pod.volumes) : v.kind \in {"pvc", "emptyDir"}})
    IN /\ AtStage("volumes", "pod")
       /\ files' = [k \in 1..Len(vols) |-> VolumeUnit(vols[k])]

\* Convert of pkg/quadlet gives the VM a network when it is not given one.
Network ==
    IF network = "" THEN <<"network", 0, "network">> ELSE <<network, 0, "value">>

\* Faulty variant of PodUnit: the infra container mounts nothing.
PodUnitNoAnchors ==
    LET u1 == With(NewUnit(Typed(PodName, "pod")), "Pod", {<<"Network", Network>>})
        u2 == With(u1, "Service", {<<"TimeoutStopSec", Value(pod.grace)>>})
    IN /\ AtStage("pod", "inits")
       /\ files' = Append(files, With(u2, "Install", {<<"WantedBy", <<"default", 0, "target">>>>}))

\* buildPodUnit
PodUnit ==
    LET scratch == {v \in ToSet(pod.volumes) : v.kind = "emptyDir"}
        anchors == {<<"Volume", VolumeFile(v)>> : v \in scratch}
        u1 == With(NewUnit(Typed(PodName, "pod")), "Pod",
                   {<<"PodmanArgs", Value("--exit-policy continue")>>, <<"Network", Network>>})
        u2 == With(u1, "Service", {<<"TimeoutStopSec", Value(pod.grace)>>})
        u3 == With(u2, "Pod", anchors)
    IN /\ AtStage("pod", "inits")
       /\ files' = Append(files, With(u3, "Install", {<<"WantedBy", <<"default", 0, "target">>>>}))

\* Volumes are looked up by name, and the last of a name wins.
VolumeOf(n) ==
    pod.volumes[CHOOSE k \in 1..Len(pod.volumes) :
                  /\ pod.volumes[k].name = n
                  /\ \A j \in (k + 1)..Len(pod.volumes) : pod.volumes[j].name # n]

\* applyMount: a mount of a volume that is not in the pod is an error, which
\* MountsResolve shows not to happen.
MountLine(m) ==
    LET v == VolumeOf(m.vol)
    IN CASE v.kind = "device" -> <<"AddDevice", Typed(m.vol, "value")>>
         [] v.kind = "host" -> <<"Volume", Typed(m.vol, "value")>>
         [] v.kind = "image" -> <<"Mount", Typed(m.vol, "value")>>
         [] v.kind = "pvc" /\ m.sub # "" -> <<"Mount", VolumeFile(v)>>
         [] OTHER -> <<"Volume", VolumeFile(v)>>

\* Containers whose command is /bin/sh -c with one script.
IsShellScript(c) == c.name[1] \in {"disk", "passt-binary-patcher"}

\* Values that are long or hold a quote, an equals sign or a newline go to a
\* file; what step 5 sets, a JSON text and a URI with a query, always does.
EnvFiles(c) == IF c.env # {} THEN {Typed(c.name, "env")} ELSE {}

\* applyProbes: there is one health check, and the liveness probe goes first.
\* Only a failing liveness probe restarts a container that may be restarted.
HealthLines(c) ==
    IF c.probe = <<"none">> THEN {}
    ELSE {<<"HealthCmd", Value(c.probe[2])>>}
           \cup IF c.probe[1] = "liveness" /\ pod.restart \in {"always", "on-failure"}
                THEN {<<"HealthOnFailure", Value("restart")>>} ELSE {}

\* Faulty variant of ScriptName: one script for the pod.
ScriptNameOfPod(c) == Typed(PodName, "sh")

ScriptName(c) == Typed(c.name, "sh")

\* buildContainerUnit, and the Pod= line its callers add
ContainerUnit(c) ==
    With(NewUnit(Typed(c.name, "container")), "Container",
         {<<"Pod", Typed(PodName, "pod")>>}
           \cup {MountLine(m) : m \in Mounts(c)}
           \cup (IF IsShellScript(c) THEN {<<"Volume", ScriptName(c)>>} ELSE {})
           \cup {<<"EnvironmentFile", e>> : e \in EnvFiles(c)}
           \cup HealthLines(c))

Scripts(c) == IF IsShellScript(c) THEN <<Companion(ScriptName(c))>> ELSE <<>>

\* Waiting for services is two lines for each.
Waits(u, names) ==
    With(u, "Unit", {<<key, Service(n)>> : key \in {"After", "Requires"}, n \in names})

\* Faulty variant of InitUnit: each waits for the one before it only.
InitUnitChained(k) ==
    LET u1 == Waits(ContainerUnit(pod.inits[k]),
                    {pod.inits[j].name : j \in {j \in 1..(k - 1) : j = k - 1}})
        u2 == With(u1, "Service", {<<"Type", Value("oneshot")>>,
                                   <<"RemainAfterExit", Value("yes")>>})
    IN With(u2, "Install", {<<"WantedBy", Service(pod.containers[1].name)>>})

InitUnit(k) ==
    LET u1 == Waits(ContainerUnit(pod.inits[k]),
                    {pod.inits[j].name : j \in 1..(k - 1)})
        u2 == With(u1, "Service", {<<"Type", Value("oneshot")>>,
                                   <<"RemainAfterExit", Value("yes")>>})
    IN With(u2, "Install", {<<"WantedBy", Service(pod.containers[1].name)>>})

InitUnits ==
    /\ AtStage("inits", "containers")
    /\ files' = files \o Flat([k \in 1..Len(pod.inits) |->
                           <<InitUnit(k)>> \o Scripts(pod.inits[k])])

\* applyRestartPolicy
RestartLines ==
    IF pod.restart = "never" THEN {} ELSE {<<"Restart", Value(pod.restart)>>}

\* Only the first container waits.
RegularUnit(k) ==
    LET u1 == Waits(ContainerUnit(pod.containers[k]),
                    IF k = 1 THEN ToSet(Names(pod.inits)) ELSE {})
    IN With(With(u1, "Service", RestartLines), "Install", {<<"WantedBy", Service(PodName)>>})

\* Companion .env files go last.
ContainerUnits ==
    LET envs == Select(pod.containers, {c \in ToSet(pod.containers) : EnvFiles(c) # {}})
    IN /\ AtStage("containers", "network")
       /\ files' = files
            \o Flat([k \in 1..Len(pod.containers) |->
                  <<RegularUnit(k)>> \o Scripts(pod.containers[k])])
            \o [k \in 1..Len(envs) |-> Companion(Typed(envs[k].name, "env"))]

\* Faulty variant of NetworkUnit: the unit is always left to the caller.
NetworkUnitNever == AtStage("network", "ports") /\ UNCHANGED files

NetworkUnit ==
    /\ AtStage("network", "ports")
    /\ files' = IF network = "" THEN Append(files, Companion(Network)) ELSE files

\* Inserts lines into the first file of that name.
Edit(file, section, keyvals) ==
    LET found == {k \in 1..Len(files) : files[k].file = file}
    IN [k \in 1..Len(files) |->
          IF k \in found /\ \A j \in found : k <= j
          THEN InsertBeforeSection(files[k], section, keyvals) ELSE files[k]]

Ports == opts \cap {"vnc", "serial"}

\* injectPodPublishPorts
PublishPorts ==
    LET lines == {<<"PublishPort", <<p, 0, "value">>>> : p \in Ports}
    IN /\ AtStage("ports", "path")
       /\ files' = IF Ports = {} THEN files
                   ELSE Edit(Typed(PodName, "pod"), "Install", lines)

PathLine == <<"Environment", Value("PATH=/passt-bin")>>

\* injectPasstBinaryPath
PasstPath ==
    /\ AtStage("path", "written")
    /\ files' = IF "passt" \in opts
                THEN Edit(Typed(ComputeName, "container"), "Service", {PathLine})
                ELSE files

ConvertStep ==
    \/ Fixups \/ VolumeUnits \/ PodUnit \/ InitUnits \/ ContainerUnits
    \/ NetworkUnit \/ PublishPorts \/ PasstPath

Written == stage = "written" /\ UNCHANGED vars

ConvertNext ==
    \/ Adapt /\ UNCHANGED convVars
    \/ ConvertStep
    \/ Written

ConvertSpec == ConvertInit /\ [][ConvertNext]_vars

-----------------------------------------------------------------------------
(***************************************************************************)
(* What the Quadlet generator makes of the units.                          *)
(***************************************************************************)

OutputFiles == {files[k].file : k \in 1..Len(files)}
UnitOf(file) == CHOOSE u \in ToSet(files) : u.file = file
ServiceNames == {<<f[1], f[2]>> : f \in {f \in OutputFiles : f[3] \in {"container", "pod"}}}

\* The unit that becomes a service, and the values of a key of it.
UnitFor(n) == UnitOf(Typed(n, IF n = PodName THEN "pod" ELSE "container"))
Values(u, group, key) == {l[3] : l \in {l \in u.lines : l[1] = group /\ l[2] = key}}
ServicesIn(vals) == {<<v[1], v[2]>> : v \in {v \in vals : v[3] = "service"}}

\* handlePod: a container that names its pod is bound to its service, and the
\* service of the pod wants it (ConvertPod).
BindsTo(n) ==
    IF n # PodName /\ Typed(PodName, "pod") \in Values(UnitFor(n), "Container", "Pod")
    THEN {PodName} ELSE {}

RequiresOf(n) == ServicesIn(Values(UnitFor(n), "Unit", "Requires"))
AfterOf(n) == ServicesIn(Values(UnitFor(n), "Unit", "After")) \cup BindsTo(n)

\* What a service wants: what has joined it, and what is installed into it.
WantsOf(n) ==
    {m \in ServiceNames : n \in BindsTo(m)
                          \/ n \in ServicesIn(Values(UnitFor(m), "Install", "WantedBy"))}

\* ConvertPod gives a pod service Restart=on-failure unless it has one.
RestartsOnFailure(n) ==
    LET r == Values(UnitFor(n), "Service", "Restart")
    IN Value("on-failure") \in r \/ (n = PodName /\ r = {})

-----------------------------------------------------------------------------
\* The files have distinct names: none is overwritten by another.
FilesDistinct == IsInjective([k \in 1..Len(files) |-> files[k].file])

\* Every volume, network, script and environment file, pod and service that a
\* unit refers to is among the files written with it.
ReferencesExist ==
    stage = "written" =>
        \A u \in ToSet(files) : \A l \in u.lines :
            /\ l[3][3] \notin {"value", "service", "target"} => l[3] \in OutputFiles
            /\ l[3][3] = "service" => <<l[3][1], l[3][2]>> \in ServiceNames

\* A tmpfs volume that a container mounts is also mounted by the infra
\* container, so its content outlives the containers that share it, and what
\* is on a claim is not on tmpfs.
ScratchIsAnchored ==
    stage = "written" =>
        \A c \in ToSet(All) : \A m \in Mounts(c) :
            LET file == VolumeFile(VolumeOf(m.vol))
                tmpfs == Value("tmpfs") \in Values(UnitOf(file), "Volume", "Type")
                shared == file \in Values(UnitFor(PodName), "Pod", "Volume")
            IN file \in OutputFiles =>
                 /\ tmpfs <=> shared
                 /\ tmpfs <=> Volume(m.vol, "emptyDir") \in ToSet(pod.volumes)

\* The patched passt is first in the PATH of compute exactly if the patcher
\* was asked for, and then compute mounts what the patcher has written.
PatchedPasstIsFound ==
    stage = "written" =>
        LET compute == UnitFor(ComputeName)
        IN /\ "passt" \in opts <=> PathLine[2] \in Values(compute, "Container", "Environment")
           /\ "passt" \in opts <=> Typed(PasstBin, "tmpfs") \in Values(compute, "Container", "Volume")
           /\ "passt" \in opts <=> <<"passt-binary-patcher", 0>> \in RequiresOf(ComputeName)

\* Services numbered as PodUnits numbers its units.
Numbered(n) ==
    IF n = PodName THEN 0
    ELSE CHOOSE k \in 1..Len(All) : (pod.inits \o pod.containers)[k].name = n

G(inits, containers) ==
    INSTANCE PodUnits WITH
        NInits <- inits, NContainers <- containers, NStale <- 0, Knows <- <<>>, MaxFaults <- 0,
        st <- 0, jobs <- 0, prepared <- 0, wanted <- 0, faults <- 0

\* The services that the generated units describe are the ones PodUnits runs:
\* what is proved of PodUnits is said of the units this program writes.
GraphIsPodUnits ==
    stage = "written" =>
        \E i \in 0..(MaxItems + 3), c \in 1..5 :
            /\ i = Len(pod.inits) /\ c = Len(pod.containers)
            /\ \A n \in ServiceNames :
                    LET Numbers(names) == {Numbered(m) : m \in names}
                        u == Numbered(n)
                    IN /\ Numbers(RequiresOf(n)) = G(i, c)!Requires(u)
                       /\ Numbers(BindsTo(n)) = G(i, c)!BindsTo(u)
                       /\ Numbers(AfterOf(n)) = G(i, c)!After(u)
                       /\ Numbers(WantsOf(n)) = G(i, c)!Wants(u)
                       /\ RestartsOnFailure(n) <=> G(i, c)!RestartsOnFailure(u)
                       /\ u \in G(i, c)!Inits <=>
                            {Value("oneshot"), Value("yes")} \subseteq
                              Values(UnitFor(n), "Service", "Type")
                                \cup Values(UnitFor(n), "Service", "RemainAfterExit")
                       /\ Value("--exit-policy continue") \in
                              Values(UnitFor(PodName), "Pod", "PodmanArgs")
                            <=> G(i, c)!ExitPolicy = "continue"

\* The health check of compute is the VM's own, or asks for the domain of the
\* guest, for which it finds the socket of libvirt in a file written with it;
\* and the VM is restarted when a check fails only if it says so itself.
HealthChecksGuest ==
    stage = "written" =>
        LET compute == UnitFor(ComputeName)
            own == vm.probe # "none"
        IN /\ Values(compute, "Container", "HealthCmd") = {Value(IF own THEN "own" ELSE vm.ns)}
           /\ Values(compute, "Container", "HealthOnFailure") =
                IF vm.probe = "liveness" THEN {Value("restart")} ELSE {}
           /\ Typed(ComputeName, "env") \in
                Values(compute, "Container", "EnvironmentFile") \cap OutputFiles
           /\ RestartsOnFailure(ComputeName)

\* The port of a proxy is published, by a line that the generator reads: in the
\* pod unit, where the code says that Quadlet requires it.
PortsPublished ==
    stage = "written" =>
        \A p \in Ports : <<p, 0, "value">> \in Values(UnitFor(PodName), "Pod", "PublishPort")

\* The unit of compute gives podman the grace period set for the pod.
ComputeGetsGrace ==
    stage = "written" =>
        Value("120") \in Values(UnitFor(ComputeName), "Container", "StopTimeout")

=============================================================================
