------------------------ MODULE QuadletConvertProofs ------------------------
(***************************************************************************)
(* Theorems about the units that steps 6 and 7 write, for the pods of VMs  *)
(* with any number of volumes and devices, any options and any network.    *)
(*                                                                         *)
(* The conversion only reads the pod, so the invariant says exactly what   *)
(* the files are after each stage; the properties then follow from the     *)
(* lines of each unit, which are found in the file named after it because  *)
(* no two files have a name in common.                                     *)
(***************************************************************************)
EXTENDS QuadletConvert, StandalonePodProofs

Groups == {"Unit", "Volume", "Pod", "Service", "Install", "Container"}
Keys ==
    {"Type", "PodmanArgs", "Network", "TimeoutStopSec", "Volume", "WantedBy", "Pod", "AddDevice",
     "Mount", "EnvironmentFile", "HealthCmd", "HealthOnFailure", "After", "Requires",
     "RemainAfterExit", "Restart", "PublishPort", "Environment"}
Types ==
    {"volume", "tmpfs", "pod", "container", "sh", "env", "network", "value", "service", "target"}
Words ==
    Tags \cup Namespaces
      \cup {"pod", "network", "shared", "default", "tmpfs", "--exit-policy continue", "rendered", "120",
            "own", "restart", "oneshot", "yes", "on-failure", "PATH=/passt-bin"}

\* Names of containers and volumes, and that of the pod.
AnyName == Words \X Int
ValueType == Words \X Int \X Types
KeyValue == Keys \X ValueType
LineType == Groups \X Keys \X ValueType
UnitType == [file : ValueType, groups : Seq(Groups), lines : SUBSET LineType]

\* What a loop that adds lines of one group adds.
LinesOf(group, keyvals) == {<<group, kv[1], kv[2]>> : kv \in keyvals}

-----------------------------------------------------------------------------
(***************************************************************************)
(* The pod that is converted: what the invariant of step 5 does not say of *)
(* it and the converter reads.                                             *)
(***************************************************************************)

ComputeProbe(s) ==
    IF vm.probe # "none" THEN <<vm.probe, "own">>
    ELSE IF s \in {"env", "done"} THEN <<"readiness", vm.ns>> ELSE <<"none">>

NoProbe(c) == c.probe = <<"none">> /\ c.env = {}

Extras ==
    /\ pod.containers[1].probe = ComputeProbe(step)
    /\ step = "done" => pod.containers[1].env # {}
    /\ \A k \in 2..Len(pod.containers) : NoProbe(pod.containers[k])
    /\ step \notin ToCleanup => pod.restart = "on-failure"
    /\ \A k \in 1..Len(pod.volumes) :
         pod.volumes[k].name[1] = "passt-bin" =>
            "passt" \in opts /\ pod.volumes[k] = Volume(PasstBin, "emptyDir")

-----------------------------------------------------------------------------
(***************************************************************************)
(* The files after each stage.                                             *)
(***************************************************************************)

Claimed == Select(pod.volumes, {v \in ToSet(pod.volumes) : v.kind \in {"pvc", "emptyDir"}})
VolumePart == [k \in 1..Len(Claimed) |-> VolumeUnit(Claimed[k])]

Scratch == {v \in ToSet(pod.volumes) : v.kind = "emptyDir"}
PodLines ==
    {<<"PodmanArgs", Value("--exit-policy continue")>>, <<"Network", Network>>}
Anchors == {<<"Volume", VolumeFile(v)>> : v \in Scratch}
Grace == {<<"TimeoutStopSec", Value(pod.grace)>>}
Wanted == {<<"WantedBy", <<"default", 0, "target">>>>}
ThePod ==
    With(With(With(With(NewUnit(Typed(PodName, "pod")), "Pod", PodLines), "Service", Grace),
              "Pod", Anchors), "Install", Wanted)

InitSlots == [k \in 1..Len(pod.inits) |-> <<InitUnit(k)>> \o Scripts(pod.inits[k])]
RegularSlots == [k \in 1..Len(pod.containers) |-> <<RegularUnit(k)>> \o Scripts(pod.containers[k])]

WithEnvFile == Select(pod.containers, {c \in ToSet(pod.containers) : EnvFiles(c) # {}})
EnvPart == [k \in 1..Len(WithEnvFile) |-> Companion(Typed(WithEnvFile[k].name, "env"))]

ToPod == Append(VolumePart, ThePod)
ToInits == ToPod \o Flat(InitSlots)
ToContainers == ToInits \o Flat(RegularSlots) \o EnvPart
ToNetwork == IF network = "" THEN Append(ToContainers, Companion(Network)) ELSE ToContainers

EditedIn(fs, file, section, keyvals) ==
    [k \in 1..Len(fs) |-> IF fs[k].file = file THEN InsertBeforeSection(fs[k], section, keyvals)
                          ELSE fs[k]]

PortLines == {<<"PublishPort", <<p, 0, "value">>>> : p \in Ports}
ToPorts ==
    IF Ports = {} THEN ToNetwork
    ELSE EditedIn(ToNetwork, Typed(PodName, "pod"), "Install", PortLines)
ToPath ==
    IF "passt" \in opts
    THEN EditedIn(ToPorts, Typed(ComputeName, "container"), "Service", {PathLine})
    ELSE ToPorts

Stages == {"fixups", "volumes", "pod", "inits", "containers", "network", "ports", "path", "written"}

FilesAt(s) ==
    IF s \in {"fixups", "volumes"} THEN <<>>
    ELSE IF s = "pod" THEN VolumePart
    ELSE IF s = "inits" THEN ToPod
    ELSE IF s = "containers" THEN ToInits
    ELSE IF s = "network" THEN ToContainers
    ELSE IF s = "ports" THEN ToNetwork
    ELSE IF s = "path" THEN ToPorts
    ELSE ToPath

CInv ==
    /\ IInv
    /\ Extras
    /\ network \in {"", "shared"}
    /\ stage \in Stages
    /\ stage # "fixups" => step = "done"
    /\ files = FilesAt(stage)


-----------------------------------------------------------------------------
(***************************************************************************)
(* The pod stays what the converter takes it for.                          *)
(***************************************************************************)

LEMMA SidecarUnprobed ==
    ASSUME NEW n \in Tags
    PROVE  NoProbe(Sidecar(n))
<1> DEFINE ms == <<Mount(Private, Private)>>
<1>1. <<n, 0>> \in Name /\ ms \in Seq(MountType)
    BY NamesAre, PrivateMount
<1>2. Sidecar(n) = Container(<<n, 0>>, ms)
    BY DEF Sidecar
<1> HIDE DEF ms
<1>3. QED
    BY <1>1, <1>2, ContainerIs DEF NoProbe

\* Other fields of a container are set, and its probe and environment kept.
LEMMA KeptUnprobed ==
    ASSUME NEW c \in ContainerType, NEW d,
           \/ \E x : d = [c EXCEPT !.mounts = x]
           \/ \E x : d = [c EXCEPT !.dials = x]
           \/ \E x : d = [c EXCEPT !.restart = x]
    PROVE  d.probe = c.probe /\ d.env = c.env
BY DEF ContainerType

LEMMA PromotedUnprobed ==
    ASSUME NEW k \in 1..Len(PromotedLog)
    PROVE  NoProbe(PromotedLog[k])
<1> DEFINE s == Sidecar("log")
           log == [s EXCEPT !.restart = "always"]
           d == Promoted(log)
<1>1. s \in ContainerType /\ s.probe = <<"none">> /\ s.env = {}
    BY SidecarIs, SidecarUnprobed DEF Tags, NoProbe
<1>2. log \in ContainerType /\ ("log" \in vm.sidecars => Log = <<log>>)
    BY LogIs
<1>3. log.probe = s.probe /\ log.env = s.env
    BY <1>1, KeptUnprobed
<1> HIDE DEF s, log
<1>4. d = [log EXCEPT !.restart = "unset"]
    BY DEF Promoted
<1>5. d.probe = log.probe /\ d.env = log.env
    BY <1>2, <1>4, KeptUnprobed
<1>6. "log" \in vm.sidecars /\ k = 1
  <2> DEFINE n == Len(PromotedLog)
  <2>1. ("log" \notin vm.sidecars => n = 0) /\ ("log" \in vm.sidecars => n = 1) /\ k \in 1..n
    BY PromotedLogIs
  <2> HIDE DEF n
  <2>2. "log" \in vm.sidecars
    BY <2>1
  <2>3. k \in 1..1
    BY <2>1, <2>2
  <2>4. QED
    BY <2>2, <2>3
<1>7. Log = <<log>> /\ Len(<<log>>) = 1 /\ <<log>>[1] = log
    BY <1>2, <1>6
<1>8. PromotedLog[1] = d
  <2>1. PromotedLog = [j \in 1..1 |-> Promoted(<<log>>[j])]
    BY <1>7 DEF PromotedLog
  <2>2. QED
    BY <1>7, <2>1
<1>9. QED
    BY <1>1, <1>3, <1>5, <1>6, <1>8 DEF NoProbe

\* What follows the first element of a list.
LEMMA LeadsFrom ==
    ASSUME NEW S, NEW x, NEW v, NEW w, Leads(S, x, v, w)
    PROVE  /\ w[1] = x
           /\ \A k \in 1..Len(w) : k = 1 \/ \E j \in 1..Len(v) : k = j + 1 /\ w[k] = v[j]
BY Prefixed

\* What a step must show of the containers and volumes for Extras to hold on.
LEMMA ExtrasNext ==
    ASSUME Extras, vm' = vm, opts' = opts,
           pod'.containers[1].probe = ComputeProbe(step)',
           step' = "done" => pod'.containers[1].env # {},
           \A k \in 2..Len(pod'.containers) :
              \/ k \in 2..Len(pod.containers) /\ pod'.containers[k] = pod.containers[k]
              \/ NoProbe(pod'.containers[k]),
           step' \notin ToCleanup => pod'.restart = "on-failure",
           \A k \in 1..Len(pod'.volumes) :
              \/ k \in 1..Len(pod.volumes) /\ pod'.volumes[k] = pod.volumes[k]
              \/ pod'.volumes[k].name[1] # "passt-bin"
              \/ "passt" \in opts /\ pod'.volumes[k] = Volume(PasstBin, "emptyDir")
    PROVE  Extras'
<1>1. \A k \in 2..Len(pod'.containers) : NoProbe(pod'.containers[k])
    BY DEF Extras
<1>2. \A k \in 1..Len(pod'.volumes) :
         pod'.volumes[k].name[1] = "passt-bin" =>
            "passt" \in opts /\ pod'.volumes[k] = Volume(PasstBin, "emptyDir")
    BY DEF Extras
<1>3. QED
    BY <1>1, <1>2 DEF Extras, NoProbe, Volume, PasstBin

LEMMA InitExtras ==
    ASSUME Init
    PROVE  Extras
<1>1. /\ step = "serial" /\ vm \in VMs
      /\ pod.containers = <<Compute>> \o Hook
      /\ pod.volumes = <<Volume(Private, "emptyDir")>> \o VMVolumes
    BY InitPod
<1> DEFINE cs == pod.containers
           vs == pod.volumes
           ms == <<Mount(Private, Private)>> \o Disks
           c == Container(ComputeName, ms)
           v == Volume(Private, "emptyDir")
<1>2. Leads(ContainerType, Compute, Hook, cs)
    BY <1>1, ComputeIs, HookIs DEF Leads
<1>3. Leads(VolumeType, v, VMVolumes, vs)
    BY <1>1, NamesAre, VolumeIs, VMVolumesAre DEF Leads
<1>4. Compute.probe = ComputeProbe("serial")
  <2>1. ms \in Seq(MountType)
    BY <1>1, PrivateMount, DisksAre, AppendedIs
  <2> HIDE DEF ms
  <2>2. c \in ContainerType /\ c.probe = <<"none">>
    BY <2>1, NamesAre, ContainerIs
  <2>3. Compute = [c EXCEPT !.probe = IF vm.probe = "none" THEN @ ELSE <<vm.probe, "own">>]
    BY DEF Compute, ms
  <2> HIDE DEF c
  <2>4. Compute.probe = IF vm.probe = "none" THEN c.probe ELSE <<vm.probe, "own">>
    BY <2>2, <2>3 DEF ContainerType
  <2>5. QED
    BY <2>2, <2>4 DEF ComputeProbe
<1> HIDE DEF cs, vs, v
<1>5. cs[1] = Compute /\ \A k \in 2..Len(cs) : NoProbe(cs[k])
  <2>1. /\ cs[1] = Compute
        /\ \A k \in 1..Len(cs) : k = 1 \/ \E j \in 1..Len(Hook) : k = j + 1 /\ cs[k] = Hook[j]
    BY <1>2, LeadsFrom
  <2>2. \A j \in 1..Len(Hook) : NoProbe(Hook[j])
    <3>1. NoProbe(Sidecar("hook"))
      BY SidecarUnprobed DEF Tags
    <3>2. QED
      BY <3>1, HookIs
  <2>3. QED
    BY <2>1, <2>2
<1>6. \A k \in 1..Len(vs) : vs[k].name[1] # "passt-bin"
  <2>1. \A k \in 1..Len(vs) : vs[k] = v \/ \E j \in 1..Len(VMVolumes) : vs[k] = VMVolumes[j]
    BY <1>3, Prefixed
  <2>2. v.name[1] = "private"
    BY NamesAre, VolumeIs DEF v, Private
  <2>3. \A j \in 1..Len(VMVolumes) : VMVolumes[j].name[1] = "volume"
    BY <1>1, VMVolumesAre DEF VMVolume
  <2>4. QED
    BY <2>1, <2>2, <2>3
<1>7. step \in ToCleanup /\ step # "done" /\ ComputeProbe(step) = ComputeProbe("serial")
    BY <1>1 DEF ToCleanup, ToDisks, ToDevices, ToVNC, ToSerial
<1>8. QED
    BY <1>4, <1>5, <1>6, <1>7 DEF Extras, cs, vs

\* The probe that step 5 gives compute does not depend on the step but for one.
LEMMA ProbeSteady ==
    ASSUME vm' = vm, step \in {"env", "done"} <=> step' \in {"env", "done"}
    PROVE  ComputeProbe(step)' = ComputeProbe(step)
BY DEF ComputeProbe

LEMMA CleanupSteps ==
    /\ \A s \in {"serial", "vnc", "devices", "disks", "cleanup"} : s \in ToCleanup
    /\ \A s \in {"dirs", "passt", "state", "probe", "env", "done"} : s \notin ToCleanup
BY DEF ToCleanup, ToDisks, ToDevices, ToVNC, ToSerial

LEMMA ProxyExtras ==
    ASSUME IInv, Extras, vm' = vm, opts' = opts, NEW n \in {"serial", "vnc"}, pod' = AddProxy(n),
           step = n, step' = IF n = "serial" THEN "vnc" ELSE "devices"
    PROVE  Extras'
<1>1. TypeOK /\ ContainersFit
    BY DEF IInv
<1>2. /\ pod \in PodType /\ pod.containers \in Seq(ContainerType)
      /\ Len(pod.containers) \in Nat /\ 1 \in 1..Len(pod.containers)
    BY <1>1, PodFields
<1>3. /\ ComputeProbe(step)' = ComputeProbe(step) /\ step' # "done" /\ step' \in ToCleanup
    BY ProbeSteady, CleanupSteps
<1>4. CASE n \notin opts
  <2>1. pod' = pod
    BY <1>4 DEF AddProxy
  <2>2. QED
    BY <1>2, <1>3, <2>1, ExtrasNext DEF Extras
<1>5. CASE n \in opts
  <2> DEFINE cs == Append(pod.containers, Proxy(n))
  <2>1. PrivateVolumes = {Private}
    BY PrivateOnly
  <2>2. pod' = [pod EXCEPT !.containers = cs]
    BY <1>5, <2>1 DEF AddProxy, Proxy
  <2>3. Proxy(n) \in ContainerType /\ NoProbe(Proxy(n))
    <3>1. n \in Tags
      BY DEF Tags
    <3>2. Sidecar(n) \in ContainerType /\ NoProbe(Sidecar(n))
      BY <3>1, SidecarIs, SidecarUnprobed
    <3>3. \E x : Proxy(n) = [Sidecar(n) EXCEPT !.dials = x]
      BY DEF Proxy, Sidecar
    <3>4. Proxy(n).probe = Sidecar(n).probe /\ Proxy(n).env = Sidecar(n).env
      BY <3>2, <3>3, KeptUnprobed
    <3>5. QED
      BY <3>2, <3>4, ProxyIs DEF NoProbe
  <2>4. /\ cs \in Seq(ContainerType) /\ Len(cs) = Len(pod.containers) + 1
        /\ \A k \in 1..Len(pod.containers) : cs[k] = pod.containers[k]
        /\ cs[Len(pod.containers) + 1] = Proxy(n)
    BY <1>2, <2>3
  <2> HIDE DEF cs
  <2>5. pod'.containers = cs /\ pod'.volumes = pod.volumes /\ pod'.restart = pod.restart
    BY <1>2, <2>2, <2>4 DEF PodType
  <2>6. \A k \in 2..Len(cs) : \/ k \in 2..Len(pod.containers) /\ cs[k] = pod.containers[k]
                              \/ NoProbe(cs[k])
    BY <1>2, <2>3, <2>4
  <2>7. pod'.containers[1].probe = ComputeProbe(step)
    BY <1>2, <2>4, <2>5 DEF Extras
  <2>8. QED
    BY <1>3, <2>5, <2>6, <2>7, ExtrasNext
<1>6. QED
    BY <1>4, <1>5


\* More mounts for compute leave its probe and its environment alone.
LEMMA MountedProbe ==
    ASSUME TypeOK, ContainersFit, NEW ms \in Seq(MountType), NEW ws,
           ws = WithMounts(pod.containers, ComputeName, ms)
    PROVE  ws[1].probe = pod.containers[1].probe /\ ws[1].env = pod.containers[1].env
<1> DEFINE c == pod.containers[1]
           d == [c EXCEPT !.mounts = @ \o ms]
<1>1. c \in ContainerType /\ 1 \in 1..Len(pod.containers)
    BY PodFields
<1>2. Named(pod.containers, ComputeName) = {1}
    BY OneCompute
<1>3. ws[1] = d
    BY <1>1, <1>2 DEF WithMounts
<1>4. d.probe = c.probe /\ d.env = c.env
    BY <1>1 DEF ContainerType
<1>5. QED
    BY <1>3, <1>4

\* The step adds mounts to compute and volumes to the pod, and no container.
LEMMA MountedExtras ==
    ASSUME IInv, Extras, vm' = vm, opts' = opts, NEW ms \in Seq(MountType),
           pod'.containers = WithMounts(pod.containers, ComputeName, ms),
           NEW vs, Joins(VolumeType, pod.volumes, vs, pod'.volumes),
           \A k \in 1..Len(vs) : \/ vs[k].name[1] # "passt-bin"
                                 \/ "passt" \in opts /\ vs[k] = Volume(PasstBin, "emptyDir"),
           pod'.restart = pod.restart, step' \notin ToCleanup => step \notin ToCleanup,
           step \notin {"env", "done"}, step' \notin {"env", "done"}
    PROVE  Extras'
<1> DEFINE ws == pod'.containers
           us == pod'.volumes
           cs == pod.containers
           vols == pod.volumes
<1>1. TypeOK /\ ContainersFit
    BY DEF IInv
<1>2. /\ Len(ws) = Len(cs) /\ ws[1].probe = cs[1].probe
      /\ \A k \in 2..Len(cs) : ws[k] = cs[k]
    BY <1>1, WithMountsIs, MountedProbe
<1>3. \A k \in 1..Len(us) : \/ k \in 1..Len(vols) /\ us[k] = vols[k]
                            \/ \E j \in 1..Len(vs) : us[k] = vs[j]
  <2>1. Joins(VolumeType, vols, vs, us)
    OBVIOUS
  <2> HIDE DEF us, vols
  <2>2. QED
    BY <2>1, Joined
<1>4. ComputeProbe(step)' = ComputeProbe(step)
    BY ProbeSteady
<1>5. ws[1].probe = ComputeProbe(step)'
    BY <1>2, <1>4 DEF Extras
<1>6. \A k \in 2..Len(ws) : k \in 2..Len(cs) /\ ws[k] = cs[k]
    BY <1>2
<1>7. step' \notin ToCleanup => pod'.restart = "on-failure"
    BY DEF Extras
<1>8. step' # "done"
    OBVIOUS
<1>9. \A k \in 1..Len(us) :
         \/ k \in 1..Len(vols) /\ us[k] = vols[k]
         \/ us[k].name[1] # "passt-bin"
         \/ "passt" \in opts /\ us[k] = Volume(PasstBin, "emptyDir")
  <2> HIDE DEF us, vols
  <2>1. QED
    BY <1>3
<1>10. QED
    BY <1>5, <1>6, <1>7, <1>8, <1>9, ExtrasNext

\* The step leaves the containers as they are.
LEMMA SameExtras ==
    ASSUME IInv, Extras, vm' = vm, opts' = opts, pod'.containers = pod.containers,
           NEW vs, Joins(VolumeType, pod.volumes, vs, pod'.volumes),
           \A k \in 1..Len(vs) : vs[k].name[1] # "passt-bin",
           pod'.restart = pod.restart, step' \notin ToCleanup => step \notin ToCleanup,
           step \in {"env", "done"} <=> step' \in {"env", "done"}, step' = "done" => step = "done"
    PROVE  Extras'
<1> DEFINE us == pod'.volumes
           vols == pod.volumes
<1>1. \A k \in 1..Len(us) : \/ k \in 1..Len(vols) /\ us[k] = vols[k]
                            \/ us[k].name[1] # "passt-bin"
  <2>1. Joins(VolumeType, vols, vs, us)
    OBVIOUS
  <2> HIDE DEF us, vols
  <2>2. \A k \in 1..Len(us) : \/ k \in 1..Len(vols) /\ us[k] = vols[k]
                              \/ \E j \in 1..Len(vs) : us[k] = vs[j]
    BY <2>1, Joined
  <2>3. QED
    BY <2>2
<1>2. ComputeProbe(step)' = ComputeProbe(step)
    BY ProbeSteady
<1>3. /\ pod'.containers[1].probe = ComputeProbe(step)'
      /\ step' = "done" => pod'.containers[1].env # {}
      /\ step' \notin ToCleanup => pod'.restart = "on-failure"
    BY <1>2 DEF Extras
<1>4. QED
    BY <1>1, <1>3, ExtrasNext

LEMMA NothingJoined ==
    ASSUME NEW S, NEW s \in Seq(S)
    PROVE  Joins(S, s, <<>>, s)
BY DEF Joins

LEMMA DevicesExtras ==
    ASSUME IInv, Extras, MountHostDevices
    PROVE  Extras'
<1>1. /\ TypeOK /\ ContainersFit /\ vm \in VMs
    BY DEF IInv, TypeOK
<1>2. pod \in PodType /\ pod.volumes \in Seq(VolumeType)
    BY <1>1, PodFields
<1> DEFINE cs == WithMounts(pod.containers, ComputeName, DeviceMounts)
           vs == pod.volumes \o DeviceVolumes
<1>3. /\ step = "devices" /\ step' = "disks" /\ vm' = vm /\ opts' = opts
      /\ pod' = [pod EXCEPT !.volumes = vs, !.containers = cs]
    BY DEF MountHostDevices, At, DeviceMounts, DeviceVolumes
<1>4. DeviceVolumes \in Seq(VolumeType) /\ DeviceMounts \in Seq(MountType)
    BY <1>1, DeviceVolumesAre, DeviceMountsAre
<1>5. pod'.containers = cs /\ pod'.volumes = vs /\ pod'.restart = pod.restart
  <2> HIDE DEF cs, vs
  <2>1. QED
    BY <1>2, <1>3 DEF PodType
<1>6. Joins(VolumeType, pod.volumes, DeviceVolumes, pod'.volumes)
    BY <1>2, <1>4, <1>5 DEF Joins
<1>7. \A k \in 1..Len(DeviceVolumes) : DeviceVolumes[k].name[1] # "passt-bin"
  <2>1. "passt-bin" \notin DeviceTags
    BY DEF DeviceTags
  <2>2. QED
    BY <1>1, <2>1, DeviceVolumesAre, DevicesAre
<1>8. step \in ToCleanup /\ step' \in ToCleanup
    BY <1>3, CleanupSteps
<1>9. QED
    BY <1>3, <1>4, <1>5, <1>6, <1>7, <1>8, MountedExtras

LEMMA DataVolumesExtras ==
    ASSUME IInv, Extras, DataVolumeInits
    PROVE  Extras'
<1>1. /\ TypeOK /\ ContainersFit /\ vm \in VMs
    BY DEF IInv, TypeOK
<1>2. pod \in PodType /\ pod.volumes \in Seq(VolumeType)
    BY <1>1, PodFields
<1> DEFINE is == DiskInits \o pod.inits
           vs == pod.volumes \o SourceVolumes
<1>3. /\ step = "disks" /\ step' = "cleanup" /\ vm' = vm /\ opts' = opts
      /\ pod' = [pod EXCEPT !.volumes = vs, !.inits = is]
    BY DEF DataVolumeInits, At, SourceVolumes, DiskInits
<1>4. pod'.containers = pod.containers /\ pod'.volumes = vs /\ pod'.restart = pod.restart
  <2> HIDE DEF is, vs
  <2>1. QED
    BY <1>2, <1>3 DEF PodType
<1>5. /\ Joins(VolumeType, pod.volumes, SourceVolumes, pod'.volumes)
      /\ \A k \in 1..Len(SourceVolumes) : SourceVolumes[k].name[1] # "passt-bin"
    BY <1>1, <1>2, <1>4, SourceVolumesAre DEF Joins
<1>6. step \in ToCleanup /\ step' \in ToCleanup
    BY <1>3, CleanupSteps
<1>7. QED
    BY <1>3, <1>4, <1>5, <1>6, SameExtras

LEMMA CleanupExtras ==
    ASSUME IInv, Extras, Cleanup
    PROVE  Extras'
<1> DEFINE cs == pod.containers \o PromotedLog
           is == DiskInits \o Plain
           us == pod.containers
           ps == PromotedLog
<1>1. TypeOK /\ ContainersFit /\ vm \in VMs /\ pod.inits = InitsAt(step)
    BY DEF IInv, TypeOK
<1>2. /\ pod \in PodType /\ us \in Seq(ContainerType) /\ 1 \in 1..Len(us)
    BY <1>1, PodFields
<1>3. step = "cleanup" /\ step' = "dirs" /\ vm' = vm /\ opts' = opts
    BY DEF Cleanup, At
<1>4. InitsThat("always") = Log /\ InitsThat("unset") = DiskInits \o Plain
  <2>1. pod.inits = DiskInits \o (Log \o Plain)
    BY <1>1, <1>3, StepsNext DEF InitsAt
  <2>2. QED
    BY <1>1, <2>1, InitsSelected
<1>5. pod' = [pod EXCEPT !.restart = "on-failure", !.containers = cs, !.inits = is]
    BY <1>4 DEF Cleanup, PromotedLog
<1>6. Joins(ContainerType, us, ps, cs)
    BY <1>2, PromotedLogIs DEF Joins
<1>7. \A k \in 1..Len(ps) : NoProbe(ps[k])
    BY PromotedUnprobed
<1> HIDE DEF cs, is, ps
<1>8. pod'.containers = cs /\ pod'.volumes = pod.volumes /\ pod'.restart = "on-failure"
    BY <1>2, <1>5 DEF PodType
<1> HIDE DEF us
<1>9. /\ cs[1] = us[1]
      /\ \A k \in 2..Len(cs) : (k \in 2..Len(us) /\ cs[k] = us[k]) \/ NoProbe(cs[k])
  <2>1. /\ Len(cs) = Len(us) + Len(ps)
        /\ \A k \in 1..Len(us) : k \in 1..Len(cs) /\ cs[k] = us[k]
        /\ \A k \in 1..Len(cs) : \/ k \in 1..Len(us) /\ cs[k] = us[k]
                                 \/ \E j \in 1..Len(ps) : k = Len(us) + j /\ cs[k] = ps[j]
    BY <1>6, Joined
  <2>2. cs[1] = us[1]
    BY <1>2, <2>1
  <2>3. ASSUME NEW k \in 2..Len(cs)
        PROVE  (k \in 2..Len(us) /\ cs[k] = us[k]) \/ NoProbe(cs[k])
    <3>1. k \in 1..Len(cs) /\ k >= 2
      BY <2>3
    <3>2. CASE k \in 1..Len(us) /\ cs[k] = us[k]
      BY <3>1, <3>2
    <3>3. CASE \E j \in 1..Len(ps) : k = Len(us) + j /\ cs[k] = ps[j]
      BY <3>3, <1>7
    <3>4. QED
      BY <3>1, <3>2, <3>3, <2>1
  <2>4. QED
    BY <2>2, <2>3
<1>10. ComputeProbe(step)' = ComputeProbe(step) /\ step' # "done"
    BY <1>3, ProbeSteady
<1>11. pod'.containers[1].probe = ComputeProbe(step)'
    BY <1>8, <1>9, <1>10 DEF Extras, us
<1>12. QED
    BY <1>3, <1>8, <1>9, <1>10, <1>11, ExtrasNext DEF us


LEMMA DirExtras ==
    ASSUME IInv, Extras, DirInit
    PROVE  Extras'
<1>1. TypeOK /\ ContainersFit
    BY DEF IInv
<1>2. pod \in PodType /\ pod.volumes \in Seq(VolumeType)
    BY <1>1, PodFields
<1>3. step = "dirs" /\ step' = "passt" /\ vm' = vm /\ opts' = opts
    BY DEF DirInit, At
<1>4. pod' = pod \/ \E is : pod' = [pod EXCEPT !.inits = is]
    BY DEF DirInit
<1>5. pod'.containers = pod.containers /\ pod'.volumes = pod.volumes /\ pod'.restart = pod.restart
    BY <1>2, <1>4 DEF PodType
<1>6. Joins(VolumeType, pod.volumes, <<>>, pod'.volumes)
    BY <1>2, <1>5, NothingJoined
<1>7. step \notin ToCleanup /\ step' \notin ToCleanup
    BY <1>3, CleanupSteps
<1>8. QED
    BY <1>3, <1>5, <1>6, <1>7, SameExtras

LEMMA PatcherExtras ==
    ASSUME IInv, Extras, PasstPatcher
    PROVE  Extras'
<1> DEFINE m == MountAs(PasstBin, PasstBin, "ro", "")
           v == Volume(PasstBin, "emptyDir")
           cs == WithMounts(pod.containers, ComputeName, <<m>>)
           vs == Append(pod.volumes, v)
           is == Append(pod.inits, Patcher)
           ms == <<m>>
           one == <<v>>
<1>1. TypeOK /\ ContainersFit
    BY DEF IInv
<1>2. pod \in PodType /\ pod.volumes \in Seq(VolumeType)
    BY <1>1, PodFields
<1>3. step = "passt" /\ step' = "state" /\ vm' = vm /\ opts' = opts
    BY DEF PasstPatcher, At
<1>4. pod' = IF "passt" \notin opts THEN pod
             ELSE [pod EXCEPT !.volumes = vs, !.inits = is, !.containers = cs]
    BY DEF PasstPatcher, Patcher
<1>5. step \notin ToCleanup /\ step' \notin ToCleanup
    BY <1>3, CleanupSteps
<1>6. CASE "passt" \notin opts
  <2>1. pod' = pod
    BY <1>4, <1>6
  <2>2. Joins(VolumeType, pod.volumes, <<>>, pod'.volumes)
    BY <1>2, <2>1, NothingJoined
  <2>3. QED
    BY <1>3, <1>5, <2>1, <2>2, SameExtras
<1>7. CASE "passt" \in opts
  <2>1. ms \in Seq(MountType)
    BY NamesAre, NoSub, MountTyped, Singleton
  <2>2. v \in VolumeType
    BY NamesAre, VolumeIs
  <2>3. pod'.containers = cs /\ pod'.volumes = vs /\ pod'.restart = pod.restart
    <3> HIDE DEF cs, vs, is
    <3>1. pod' = [pod EXCEPT !.volumes = vs, !.inits = is, !.containers = cs]
      BY <1>4, <1>7
    <3>2. QED
      BY <1>2, <3>1 DEF PodType
  <2>4. /\ Joins(VolumeType, pod.volumes, one, pod'.volumes)
        /\ \A k \in 1..Len(one) : one[k] = v
    <3> HIDE DEF v
    <3>1. /\ one \in Seq(VolumeType) /\ vs = pod.volumes \o one
      BY <1>2, <2>2, Appended
    <3>2. \A k \in 1..Len(one) : one[k] = v
      BY <2>2, Singleton
    <3>3. QED
      BY <1>2, <2>3, <3>1, <3>2 DEF Joins
  <2> HIDE DEF one, ms, vs, m
  <2>5. pod'.containers = WithMounts(pod.containers, ComputeName, ms)
    BY <2>3 DEF ms
  <2>6. QED
    BY <1>3, <1>5, <1>7, <2>1, <2>3, <2>4, <2>5, MountedExtras
<1>8. QED
    BY <1>6, <1>7

LEMMA StateExtras ==
    ASSUME IInv, Extras, PersistentState
    PROVE  Extras'
<1> DEFINE ms == Nested \o Kept
           cs == WithMounts(pod.containers, ComputeName, ms)
           vs == pod.volumes \o StateVolumes
           is == pod.inits
           js == [k \in 1..Len(is) |-> IF k \in Named(is, DirInitName) THEN Extended(is[k]) ELSE is[k]]
<1>1. TypeOK /\ ContainersFit
    BY DEF IInv
<1>2. pod \in PodType /\ pod.volumes \in Seq(VolumeType)
    BY <1>1, PodFields
<1>3. step = "state" /\ step' = "probe" /\ vm' = vm /\ opts' = opts
    BY DEF PersistentState, At
<1>4. pod' = [pod EXCEPT !.volumes = vs, !.containers = cs, !.inits = js]
    BY DEF PersistentState, StateVolumes, Nested, Kept, Extended
<1>5. ms \in Seq(MountType)
    BY NestedAre, KeptAre, AppendedIs
<1>6. pod'.containers = cs /\ pod'.volumes = vs /\ pod'.restart = pod.restart
  <2> HIDE DEF cs, vs, js
  <2>1. QED
    BY <1>2, <1>4 DEF PodType
<1>7. /\ Joins(VolumeType, pod.volumes, StateVolumes, pod'.volumes)
      /\ \A k \in 1..Len(StateVolumes) : StateVolumes[k].name[1] # "passt-bin"
  <2>1. "passt-bin" \notin StateTags \cup {"vm-state"}
    BY DEF StateTags
  <2>2. QED
    BY <1>2, <1>6, <2>1, StateVolumesAre DEF Joins
<1> HIDE DEF ms, vs
<1>8. pod'.containers = WithMounts(pod.containers, ComputeName, ms)
    BY <1>6
<1>9. step \notin ToCleanup /\ step' \notin ToCleanup
    BY <1>3, CleanupSteps
<1>10. QED
    BY <1>3, <1>5, <1>6, <1>7, <1>8, <1>9, MountedExtras

LEMMA ProbeExtras ==
    ASSUME IInv, Extras, ReadinessProbe
    PROVE  Extras'
<1> DEFINE cs == pod.containers
           c == cs[1]
           q == <<"readiness", vm.ns>>
           d == IF c.probe = <<"none">> THEN [c EXCEPT !.probe = q] ELSE c
           ws == [k \in 1..Len(cs) |-> IF k \in Named(cs, ComputeName) /\ cs[k].probe = <<"none">>
                                       THEN [cs[k] EXCEPT !.probe = q] ELSE cs[k]]
<1>1. TypeOK /\ ContainersFit /\ vm \in VMs
    BY DEF IInv, TypeOK
<1>2. /\ pod \in PodType /\ cs \in Seq(ContainerType) /\ c \in ContainerType /\ 1 \in 1..Len(cs)
    BY <1>1, PodFields
<1>3. /\ step = "probe" /\ step' = "env" /\ vm' = vm /\ opts' = opts
      /\ pod' = [pod EXCEPT !.containers = ws]
    BY DEF ReadinessProbe, At
<1>4. c.probe = IF vm.probe = "none" THEN <<"none">> ELSE <<vm.probe, "own">>
    BY <1>3 DEF Extras, ComputeProbe
<1>5. <<vm.probe, "own">> # <<"none">>
  <2>1. Len(<<vm.probe, "own">>) = 2 /\ Len(<<"none">>) = 1
    OBVIOUS
  <2>2. QED
    BY <2>1
<1>6. d.probe = ComputeProbe(step)'
  <2>1. ComputeProbe(step)' = IF vm.probe = "none" THEN q ELSE <<vm.probe, "own">>
    BY <1>3 DEF ComputeProbe
  <2>2. CASE vm.probe = "none"
    <3>1. d = [c EXCEPT !.probe = q]
      BY <1>4, <2>2
    <3> HIDE DEF q, d
    <3>2. d.probe = q
      BY <1>2, <3>1 DEF ContainerType
    <3>3. QED
      BY <2>1, <2>2, <3>2
  <2>3. CASE vm.probe # "none"
    <3>1. c.probe = <<vm.probe, "own">>
      BY <1>4, <2>3
    <3>2. d = c
      BY <1>5, <3>1
    <3>3. QED
      BY <2>1, <2>3, <3>1, <3>2
  <2>4. QED
    BY <2>2, <2>3
<1>7. \A k \in 1..Len(cs) : k \in Named(cs, ComputeName) <=> k = 1
    BY <1>1, <1>2, OneCompute
<1>8. ws[1] = d /\ Len(ws) = Len(cs) /\ \A k \in 2..Len(cs) : ws[k] = cs[k]
  <2>1. ws = [k \in 1..Len(cs) |-> IF k = 1 THEN d ELSE cs[k]]
    BY <1>7
  <2> HIDE DEF ws, d, cs
  <2>2. Len(cs) \in Nat
    BY <1>2
  <2>3. QED
    BY <1>2, <2>1, <2>2
<1>9. pod'.containers = ws /\ pod'.volumes = pod.volumes /\ pod'.restart = pod.restart
  <2> HIDE DEF ws
  <2>1. QED
    BY <1>2, <1>3 DEF PodType
<1> HIDE DEF ws, d, cs
<1>10. /\ pod'.containers[1].probe = ComputeProbe(step)' /\ step' # "done"
       /\ step' \notin ToCleanup => pod'.restart = "on-failure"
    BY <1>3, <1>6, <1>8, <1>9, CleanupSteps DEF Extras
<1>11. QED
    BY <1>3, <1>8, <1>9, <1>10, ExtrasNext DEF cs

LEMMA EnvExtras ==
    ASSUME IInv, Extras, ComputeEnv
    PROVE  Extras'
<1> DEFINE cs == pod.containers
           c == cs[1]
           es == c.env \cup {"STANDALONE_VMI", "VIRSH_DEFAULT_CONNECT_URI"}
           d == [c EXCEPT !.env = es]
           WithEnv(b) == [b EXCEPT !.env = @ \cup {"STANDALONE_VMI", "VIRSH_DEFAULT_CONNECT_URI"}]
           ws == [k \in 1..Len(cs) |-> IF k \in Named(cs, ComputeName) THEN WithEnv(cs[k]) ELSE cs[k]]
<1>1. TypeOK /\ ContainersFit
    BY DEF IInv
<1>2. /\ pod \in PodType /\ cs \in Seq(ContainerType) /\ c \in ContainerType /\ 1 \in 1..Len(cs)
    BY <1>1, PodFields
<1>3. /\ step = "env" /\ step' = "done" /\ vm' = vm /\ opts' = opts
      /\ pod' = [pod EXCEPT !.containers = ws]
    BY DEF ComputeEnv, At
<1>4. d.probe = c.probe /\ d.env = es /\ es # {}
  <2>1. es # {}
    OBVIOUS
  <2> HIDE DEF es, c
  <2>2. QED
    BY <1>2, <2>1 DEF ContainerType
<1>5. \A k \in 1..Len(cs) : k \in Named(cs, ComputeName) <=> k = 1
    BY <1>1, <1>2, OneCompute
<1>6. ws[1] = d /\ Len(ws) = Len(cs) /\ \A k \in 2..Len(cs) : ws[k] = cs[k]
  <2>1. ws = [k \in 1..Len(cs) |-> IF k = 1 THEN d ELSE cs[k]]
    BY <1>5
  <2> HIDE DEF ws, d, cs
  <2>2. Len(cs) \in Nat
    BY <1>2
  <2>3. QED
    BY <1>2, <2>1, <2>2
<1>7. pod'.containers = ws /\ pod'.volumes = pod.volumes /\ pod'.restart = pod.restart
  <2> HIDE DEF ws
  <2>1. QED
    BY <1>2, <1>3 DEF PodType
<1> HIDE DEF ws, d
<1>8. c.probe = ComputeProbe(step)
    BY DEF Extras
<1> HIDE DEF cs
<1>9. ComputeProbe(step)' = ComputeProbe(step)
    BY <1>3, ProbeSteady
<1>10. /\ pod'.containers[1].probe = ComputeProbe(step)' /\ pod'.containers[1].env # {}
       /\ step' \notin ToCleanup => pod'.restart = "on-failure"
    BY <1>3, <1>4, <1>6, <1>7, <1>8, <1>9, CleanupSteps DEF Extras
<1>11. QED
    BY <1>3, <1>6, <1>7, <1>10, ExtrasNext DEF cs

LEMMA NextExtras ==
    ASSUME IInv, Extras, [Next]_podVars
    PROVE  Extras'
<1>1. CASE SerialProxy
  <2>1. /\ vm' = vm /\ opts' = opts /\ pod' = AddProxy("serial") /\ step = "serial"
        /\ step' = IF "serial" = "serial" THEN "vnc" ELSE "devices"
    BY <1>1 DEF SerialProxy, At
  <2>2. QED
    BY <2>1, ProxyExtras
<1>2. CASE VNCProxy
  <2>1. /\ vm' = vm /\ opts' = opts /\ pod' = AddProxy("vnc") /\ step = "vnc"
        /\ step' = IF "vnc" = "serial" THEN "vnc" ELSE "devices"
    BY <1>2 DEF VNCProxy, At
  <2>2. QED
    BY <2>1, ProxyExtras
<1>3. CASE MountHostDevices
    BY <1>3, DevicesExtras
<1>4. CASE DataVolumeInits
    BY <1>4, DataVolumesExtras
<1>5. CASE Cleanup
    BY <1>5, CleanupExtras
<1>6. CASE DirInit
    BY <1>6, DirExtras
<1>7. CASE PasstPatcher
    BY <1>7, PatcherExtras
<1>8. CASE PersistentState
    BY <1>8, StateExtras
<1>9. CASE ReadinessProbe
    BY <1>9, ProbeExtras
<1>10. CASE ComputeEnv
    BY <1>10, EnvExtras
<1>11. CASE Done \/ UNCHANGED podVars
  <2>1. step' = step /\ vm' = vm /\ opts' = opts /\ pod' = pod
    BY <1>11 DEF Done, podVars
  <2>2. QED
    BY <2>1 DEF Extras, ComputeProbe, NoProbe, Volume, PasstBin
<1>12. QED
    BY <1>1, <1>2, <1>3, <1>4, <1>5, <1>6, <1>7, <1>8, <1>9, <1>10, <1>11 DEF Next, Adapt


-----------------------------------------------------------------------------
(***************************************************************************)
(* Files, values and lines.                                                *)
(***************************************************************************)

LEMMA GroupsAre ==
    /\ "Unit" \in Groups /\ "Volume" \in Groups /\ "Pod" \in Groups /\ "Service" \in Groups
    /\ "Install" \in Groups /\ "Container" \in Groups
BY DEF Groups

LEMMA KeysAre ==
    /\ "Type" \in Keys /\ "PodmanArgs" \in Keys /\ "Network" \in Keys
    /\ "TimeoutStopSec" \in Keys /\ "Volume" \in Keys /\ "WantedBy" \in Keys /\ "Pod" \in Keys
    /\ "AddDevice" \in Keys /\ "Mount" \in Keys /\ "EnvironmentFile" \in Keys
    /\ "HealthCmd" \in Keys /\ "HealthOnFailure" \in Keys /\ "After" \in Keys
    /\ "Requires" \in Keys /\ "RemainAfterExit" \in Keys /\ "Restart" \in Keys
    /\ "PublishPort" \in Keys /\ "Environment" \in Keys
BY DEF Keys

LEMMA TypesAre ==
    /\ "volume" \in Types /\ "tmpfs" \in Types /\ "pod" \in Types /\ "container" \in Types
    /\ "sh" \in Types /\ "env" \in Types /\ "network" \in Types /\ "value" \in Types
    /\ "service" \in Types /\ "target" \in Types
BY DEF Types

LEMMA WordsAre ==
    /\ \A w \in Tags \cup Namespaces : w \in Words
    /\ "pod" \in Words /\ "network" \in Words /\ "shared" \in Words /\ "default" \in Words
    /\ "tmpfs" \in Words /\ "--exit-policy continue" \in Words /\ "rendered" \in Words
    /\ "120" \in Words /\ "own" \in Words /\ "restart" \in Words /\ "oneshot" \in Words
    /\ "yes" \in Words /\ "on-failure" \in Words /\ "PATH=/passt-bin" \in Words
    /\ "serial" \in Words /\ "vnc" \in Words
BY DEF Words, Tags

LEMMA NameIsAny == Name \subseteq AnyName /\ PodName \in AnyName /\ PodName \notin Name
<1>1. Name \subseteq AnyName /\ PodName \in AnyName
  <2>1. Tags \subseteq Words /\ "pod" \in Words
    BY WordsAre
  <2>2. QED
    BY <2>1 DEF Name, AnyName, PodName
<1>2. PodName \notin Name
    BY DEF Name, Tags, PodName
<1>3. QED
    BY <1>1, <1>2

LEMMA TypedIs ==
    ASSUME NEW n \in AnyName, NEW t \in Types
    PROVE  /\ Typed(n, t) \in ValueType
           /\ Typed(n, t)[1] = n[1] /\ Typed(n, t)[2] = n[2] /\ Typed(n, t)[3] = t
           /\ <<Typed(n, t)[1], Typed(n, t)[2]>> = n
           /\ \A m \in AnyName, s \in Types : Typed(m, s) = Typed(n, t) <=> m = n /\ s = t
BY DEF Typed, AnyName, ValueType

LEMMA ValueIs ==
    ASSUME NEW s \in Words
    PROVE  /\ Value(s) \in ValueType /\ Value(s)[3] = "value"
           /\ \A r : Value(r) = Value(s) <=> r = s
BY TypesAre DEF Value, ValueType

LEMMA PairsAre ==
    /\ \A w \in Words, i \in Int, t \in Types : <<w, i, t>> \in ValueType
    /\ \A k \in Keys, v \in ValueType : <<k, v>> \in KeyValue
BY DEF ValueType, KeyValue

LEMMA LinesAre ==
    ASSUME NEW g \in Groups, NEW kvs \in SUBSET KeyValue
    PROVE  /\ LinesOf(g, kvs) \in SUBSET LineType
           /\ \A h, k, v : <<h, k, v>> \in LinesOf(g, kvs) <=> h = g /\ <<k, v>> \in kvs
BY DEF LinesOf, LineType, KeyValue

LEMMA ValuesAre ==
    ASSUME NEW u \in UnitType
    PROVE  /\ \A g, k, v : v \in Values(u, g, k) <=> <<g, k, v>> \in u.lines
           /\ \A l \in u.lines : l = <<l[1], l[2], l[3]>> /\ l \in LineType
<1>1. u.lines \in SUBSET LineType
    BY DEF UnitType
<1>2. \A l \in u.lines : l = <<l[1], l[2], l[3]>> /\ l \in LineType
    BY <1>1 DEF LineType
<1>3. QED
    BY <1>2 DEF Values

LEMMA NewUnitIs ==
    ASSUME NEW f \in ValueType
    PROVE  /\ NewUnit(f) \in UnitType /\ NewUnit(f).file = f /\ NewUnit(f).lines = {}
           /\ NewUnit(f).groups = <<"Unit">>
           /\ Companion(f) \in UnitType /\ Companion(f).file = f /\ Companion(f).lines = {}
BY GroupsAre DEF NewUnit, Companion, UnitType

LEMMA WithFields ==
    ASSUME NEW u \in UnitType, NEW g \in Groups, NEW kvs \in SUBSET KeyValue
    PROVE  /\ With(u, g, kvs) \in UnitType /\ With(u, g, kvs).file = u.file
           /\ With(u, g, kvs).lines = u.lines \cup LinesOf(g, kvs)
           /\ With(u, g, kvs).groups =
                IF kvs = {} \/ g \in ToSet(u.groups) THEN u.groups ELSE Append(u.groups, g)
<1> DEFINE w == With(u, g, kvs)
           gs == IF g \in ToSet(u.groups) THEN u.groups ELSE Append(u.groups, g)
           ls == u.lines \cup LinesOf(g, kvs)
<1>1. CASE kvs = {}
  <2>1. w = u /\ LinesOf(g, kvs) = {}
    BY <1>1 DEF With, LinesOf
  <2>2. QED
    BY <1>1, <2>1
<1>2. CASE kvs # {}
  <2>1. w = [u EXCEPT !.groups = gs, !.lines = ls]
    BY <1>2 DEF With, LinesOf
  <2>2. gs \in Seq(Groups)
    BY DEF UnitType
  <2>3. ls \in SUBSET LineType
    BY LinesAre DEF UnitType
  <2> HIDE DEF gs, ls, w
  <2>4. w \in UnitType /\ w.file = u.file /\ w.lines = ls /\ w.groups = gs
    BY <2>1, <2>2, <2>3 DEF UnitType
  <2>5. QED
    BY <1>2, <2>4 DEF gs, ls, w
<1>3. QED
    BY <1>1, <1>2

LEMMA WithIs ==
    ASSUME NEW u \in UnitType, NEW g \in Groups, NEW kvs \in SUBSET KeyValue
    PROVE  /\ With(u, g, kvs) \in UnitType /\ With(u, g, kvs).file = u.file
           /\ With(u, g, kvs).lines = u.lines \cup LinesOf(g, kvs)
BY WithFields

LEMMA WithGroups ==
    ASSUME NEW u \in UnitType, NEW g \in Groups, NEW kvs \in SUBSET KeyValue
    PROVE  /\ kvs = {} \/ g \in ToSet(u.groups) => With(u, g, kvs).groups = u.groups
           /\ kvs # {} /\ g \notin ToSet(u.groups) => With(u, g, kvs).groups = Append(u.groups, g)
           /\ Len(u.groups) > 0 => Len(With(u, g, kvs).groups) > 0
<1>1. With(u, g, kvs).groups = IF kvs = {} \/ g \in ToSet(u.groups) THEN u.groups ELSE Append(u.groups, g)
    BY WithFields
<1>2. u.groups \in Seq(Groups)
    BY DEF UnitType
<1>3. Len(Append(u.groups, g)) = Len(u.groups) + 1 /\ Len(u.groups) \in Nat
    BY <1>2
<1>4. QED
    BY <1>1, <1>3

\* A section found once: its predecessor gets the lines.
LEMMA InsertIs ==
    ASSUME NEW u \in UnitType, Len(u.groups) > 0, NEW section, NEW kvs \in SUBSET KeyValue
    PROVE  LET w == InsertBeforeSection(u, section, kvs)
           IN /\ w \in UnitType /\ w.file = u.file
              /\ \E g \in Groups : w.lines = u.lines \cup LinesOf(g, kvs)
              /\ \A k \in 2..Len(u.groups) :
                   u.groups[k] = section /\ (\A j \in 2..Len(u.groups) : u.groups[j] = section => j = k)
                     => w.lines = u.lines \cup LinesOf(u.groups[k - 1], kvs)
<1> DEFINE at == {k \in 2..Len(u.groups) : u.groups[k] = section}
           group == IF at = {} THEN Last(u.groups) ELSE u.groups[(CHOOSE k \in at : TRUE) - 1]
           ls == u.lines \cup LinesOf(group, kvs)
           w == InsertBeforeSection(u, section, kvs)
<1>1. u.groups \in Seq(Groups) /\ u.lines \in SUBSET LineType
    BY DEF UnitType
<1>2. group \in Groups
  <2>1. CASE at = {}
    BY <1>1, <2>1 DEF Last
  <2>2. CASE at # {}
    BY <1>1, <2>2
  <2>3. QED
    BY <2>1, <2>2
<1>3. w = [u EXCEPT !.lines = ls]
    BY DEF InsertBeforeSection, LinesOf
<1>4. ls \in SUBSET LineType
  <2> HIDE DEF group
  <2>1. QED
    BY <1>1, <1>2, LinesAre
<1>5. ASSUME NEW k \in 2..Len(u.groups), u.groups[k] = section,
             \A j \in 2..Len(u.groups) : u.groups[j] = section => j = k
      PROVE  group = u.groups[k - 1]
  <2>1. at = {k}
    BY <1>5
  <2>2. QED
    BY <2>1
<1> HIDE DEF group, ls, w
<1>6. w \in UnitType /\ w.file = u.file /\ w.lines = ls
    BY <1>3, <1>4 DEF UnitType
<1>7. QED
    BY <1>2, <1>5, <1>6 DEF w, ls

-----------------------------------------------------------------------------
(***************************************************************************)
(* The pod and the units of its volumes.                                   *)
(***************************************************************************)

\* What holds of the pod that is converted.
Ready == IInv /\ Extras /\ step = "done" /\ network \in {"", "shared"}

LEMMA VolumesTyped ==
    ASSUME IInv
    PROVE  /\ pod.volumes \in Seq(VolumeType)
           /\ \A v : v \in ToSet(pod.volumes) <=> \E k \in 1..Len(pod.volumes) : pod.volumes[k] = v
           /\ \A v \in ToSet(pod.volumes) : v \in VolumeType
           /\ \A j, k \in 1..Len(pod.volumes) : pod.volumes[j].name = pod.volumes[k].name => j = k
<1>1. pod.volumes \in Seq(VolumeType) /\ Distinct(Names(pod.volumes))
    BY PodFields DEF IInv, VolumesFit
<1> DEFINE vs == pod.volumes
<1> HIDE DEF vs
<1>2. vs \in Seq(VolumeType) /\ Distinct(Names(vs))
    BY <1>1 DEF vs
<1>3. \A v : v \in ToSet(vs) <=> \E k \in 1..Len(vs) : vs[k] = v
    BY <1>2, InToSet
<1>4. \A j, k \in 1..Len(vs) : vs[j].name = vs[k].name => j = k
    BY <1>2, NamedIn
<1>5. \A v \in ToSet(vs) : v \in VolumeType
    BY <1>2, <1>3
<1>6. QED
    BY <1>2, <1>3, <1>4, <1>5 DEF vs

\* A volume is found by its name, whichever is taken of those of one name.
LEMMA VolumeFound ==
    ASSUME IInv, NEW n \in ToSet(Names(pod.volumes))
    PROVE  /\ VolumeOf(n) \in ToSet(pod.volumes) /\ VolumeOf(n).name = n
           /\ VolumeOf(n) \in VolumeType
           /\ \A v \in ToSet(pod.volumes) : v.name = n => v = VolumeOf(n)
<1> DEFINE vs == pod.volumes
<1>1. /\ vs \in Seq(VolumeType)
      /\ \A v : v \in ToSet(vs) <=> \E k \in 1..Len(vs) : vs[k] = v
      /\ \A v \in ToSet(vs) : v \in VolumeType
      /\ \A j, k \in 1..Len(vs) : vs[j].name = vs[k].name => j = k
    BY VolumesTyped
<1> DEFINE P(k) == vs[k].name = n /\ \A j \in (k + 1)..Len(vs) : vs[j].name # n
           i == CHOOSE k \in 1..Len(vs) : P(k)
<1>2. VolumeOf(n) = vs[i]
    BY DEF VolumeOf
<1>3. \E k \in 1..Len(vs) : P(k)
  <2>1. n \in ToSet(Names(vs))
    OBVIOUS
  <2> HIDE DEF vs
  <2>2. PICK k \in 1..Len(vs) : vs[k].name = n
    BY <1>1, <2>1, NamedIn
  <2>3. Len(vs) \in Nat
    BY <1>1
  <2>4. \A j \in (k + 1)..Len(vs) : vs[j].name # n
    BY <1>1, <2>2, <2>3
  <2>5. QED
    BY <2>2, <2>4
<1>4. i \in 1..Len(vs) /\ vs[i].name = n
  <2> HIDE DEF vs
  <2>1. i \in 1..Len(vs) /\ P(i)
    BY <1>3
  <2>2. QED
    BY <2>1
<1> HIDE DEF i, vs
<1>5. vs[i] \in ToSet(vs) /\ \A v \in ToSet(vs) : v.name = n => v = vs[i]
    BY <1>1, <1>4
<1>6. QED
    BY <1>1, <1>2, <1>4, <1>5 DEF vs

LEMMA VolumeFileIs ==
    ASSUME NEW v \in VolumeType
    PROVE  /\ v.name \in Name /\ v.name \in AnyName
           /\ VolumeFile(v) \in ValueType
           /\ VolumeFile(v) = Typed(v.name, IF v.kind = "emptyDir" THEN "tmpfs" ELSE "volume")
           /\ VolumeFile(v)[3] = IF v.kind = "emptyDir" THEN "tmpfs" ELSE "volume"
           /\ <<VolumeFile(v)[1], VolumeFile(v)[2]>> = v.name
<1>1. v.name \in Name /\ v.name \in AnyName
    BY NameIsAny DEF VolumeType
<1>2. QED
    BY <1>1, TypesAre, TypedIs DEF VolumeFile

LEMMA VolumeUnitIs ==
    ASSUME NEW v \in VolumeType
    PROVE  /\ VolumeUnit(v) \in UnitType /\ VolumeUnit(v).file = VolumeFile(v)
           /\ VolumeUnit(v).lines =
                IF v.kind = "emptyDir" THEN LinesOf("Volume", {<<"Type", Value("tmpfs")>>}) ELSE {}
<1> DEFINE kvs == IF v.kind = "emptyDir" THEN {<<"Type", Value("tmpfs")>>} ELSE {}
           u == NewUnit(VolumeFile(v))
<1>1. u \in UnitType /\ u.file = VolumeFile(v) /\ u.lines = {}
    BY VolumeFileIs, NewUnitIs
<1>2. kvs \in SUBSET KeyValue
  <2>1. Value("tmpfs") \in ValueType
    BY WordsAre, ValueIs
  <2>2. <<"Type", Value("tmpfs")>> \in KeyValue
    BY <2>1, KeysAre, PairsAre
  <2>3. QED
    BY <2>2
<1>3. VolumeUnit(v) = With(u, "Volume", kvs)
    BY DEF VolumeUnit
<1> HIDE DEF u
<1>4. LinesOf("Volume", {}) = {}
    BY DEF LinesOf
<1>5. VolumeUnit(v) \in UnitType /\ VolumeUnit(v).file = u.file
        /\ VolumeUnit(v).lines = u.lines \cup LinesOf("Volume", kvs)
  <2> HIDE DEF kvs
  <2>1. /\ With(u, "Volume", kvs) \in UnitType /\ With(u, "Volume", kvs).file = u.file
        /\ With(u, "Volume", kvs).lines = u.lines \cup LinesOf("Volume", kvs)
    BY <1>1, <1>2, GroupsAre, WithIs
  <2>2. QED
    BY <1>3, <2>1
<1>6. QED
    BY <1>1, <1>4, <1>5

LEMMA PodIs ==
    ASSUME Ready
    PROVE  /\ ThePod \in UnitType /\ ThePod.file = Typed(PodName, "pod") /\ Len(ThePod.groups) > 0
           /\ ThePod.lines = LinesOf("Pod", PodLines) \cup LinesOf("Service", Grace)
                               \cup LinesOf("Pod", Anchors) \cup LinesOf("Install", Wanted)
           /\ PodLines \in SUBSET KeyValue /\ Grace \in SUBSET KeyValue
           /\ Anchors \in SUBSET KeyValue /\ Wanted \in SUBSET KeyValue
           /\ Network \in ValueType
<1> DEFINE u0 == NewUnit(Typed(PodName, "pod"))
           u1 == With(u0, "Pod", PodLines)
           u2 == With(u1, "Service", Grace)
           u3 == With(u2, "Pod", Anchors)
           u4 == With(u3, "Install", Wanted)
<1>1. IInv /\ network \in {"", "shared"} /\ pod.grace \in {"rendered", "120"}
    BY DEF Ready, IInv, TypeOK, PodType
<1>2. Network \in ValueType
  <2>1. /\ "network" \in Words /\ "shared" \in Words /\ "network" \in Types /\ "value" \in Types
    BY WordsAre, TypesAre
  <2>2. <<"network", 0, "network">> \in ValueType /\ <<"shared", 0, "value">> \in ValueType
    BY <2>1 DEF ValueType
  <2>3. QED
    BY <1>1, <2>2 DEF Network
<1>3. PodLines \in SUBSET KeyValue
  <2>1. Value("--exit-policy continue") \in ValueType
    BY WordsAre, ValueIs
  <2>2. <<"PodmanArgs", Value("--exit-policy continue")>> \in KeyValue
    BY <2>1, KeysAre, PairsAre
  <2>3. <<"Network", Network>> \in KeyValue
    BY <1>2, KeysAre, PairsAre
  <2>4. QED
    BY <2>2, <2>3 DEF PodLines
<1>4. Grace \in SUBSET KeyValue
  <2>1. Value(pod.grace) \in ValueType
    BY <1>1, WordsAre, ValueIs
  <2>2. <<"TimeoutStopSec", Value(pod.grace)>> \in KeyValue
    BY <2>1, KeysAre, PairsAre
  <2>3. QED
    BY <2>2 DEF Grace
<1>5. Anchors \in SUBSET KeyValue
  <2>1. \A v \in Scratch : VolumeFile(v) \in ValueType
    BY <1>1, VolumesTyped, VolumeFileIs DEF Scratch
  <2>2. \A v \in Scratch : <<"Volume", VolumeFile(v)>> \in KeyValue
    BY <2>1, KeysAre, PairsAre
  <2>3. QED
    BY <2>2 DEF Anchors
<1>6. Wanted \in SUBSET KeyValue
  <2>1. <<"default", 0, "target">> \in ValueType
    <3>1. "default" \in Words /\ "target" \in Types
      BY WordsAre, TypesAre
    <3>2. QED
      BY <3>1 DEF ValueType
  <2>2. <<"WantedBy", <<"default", 0, "target">>>> \in KeyValue
    BY <2>1, KeysAre, PairsAre
  <2>3. QED
    BY <2>2 DEF Wanted
<1>7. u0 \in UnitType /\ u0.file = Typed(PodName, "pod") /\ u0.lines = {} /\ u0.groups = <<"Unit">>
    BY NameIsAny, TypesAre, TypedIs, NewUnitIs
<1> HIDE DEF u0
<1>8. u1 \in UnitType /\ u1.file = u0.file /\ u1.lines = u0.lines \cup LinesOf("Pod", PodLines)
  <2>1. "Pod" \in Groups
    BY GroupsAre
  <2>2. QED
    BY <1>3, <1>7, <2>1, WithIs
<1> HIDE DEF u1
<1>9. u2 \in UnitType /\ u2.file = u1.file /\ u2.lines = u1.lines \cup LinesOf("Service", Grace)
    BY <1>4, <1>8, GroupsAre, WithIs
<1> HIDE DEF u2
<1>10. u3 \in UnitType /\ u3.file = u2.file /\ u3.lines = u2.lines \cup LinesOf("Pod", Anchors)
    BY <1>5, <1>9, GroupsAre, WithIs
<1> HIDE DEF u3
<1>11. u4 \in UnitType /\ u4.file = u3.file /\ u4.lines = u3.lines \cup LinesOf("Install", Wanted)
    BY <1>6, <1>10, GroupsAre, WithIs
<1>12. Len(u4.groups) > 0
  <2>1. Len(u0.groups) > 0
    BY <1>7
  <2>2. Len(u1.groups) > 0
    BY <1>3, <1>7, <2>1, GroupsAre, WithGroups DEF u1
  <2>3. Len(u2.groups) > 0
    BY <1>4, <1>8, <2>2, GroupsAre, WithGroups DEF u2
  <2>4. Len(u3.groups) > 0
    BY <1>5, <1>9, <2>3, GroupsAre, WithGroups DEF u3
  <2>5. QED
    BY <1>6, <1>10, <2>4, GroupsAre, WithGroups
<1>13. ThePod = u4
    BY DEF ThePod, u0, u1, u2, u3
<1> HIDE DEF u4
<1>14. ThePod.lines = LinesOf("Pod", PodLines) \cup LinesOf("Service", Grace)
                        \cup LinesOf("Pod", Anchors) \cup LinesOf("Install", Wanted)
    BY <1>7, <1>8, <1>9, <1>10, <1>11, <1>13
<1>15. QED
    BY <1>2, <1>3, <1>4, <1>5, <1>6, <1>7, <1>8, <1>9, <1>10, <1>11, <1>12, <1>13, <1>14


-----------------------------------------------------------------------------
(***************************************************************************)
(* The units of containers and of init containers.                         *)
(***************************************************************************)

LEMMA DirUnprobed == NoProbe(DirExtended)
<1> DEFINE old == Mount(Private, <<"emptydir", 1>>)
           c == Container(DirInitName, <<old>>)
           fs == {<<Private, "libvirt/qemu">>}
           d == [c EXCEPT !.does = fs]
           m == Mount(VMState, <<"vm-state-init", 0>>)
           gs == {<<VMState, s>> : s \in ToSet(SubPaths)}
<1>1. <<"emptydir", 1>> \in Name
    BY NamesAre DEF Tags
<1>2. <<old>> \in Seq(MountType)
    BY <1>1, NamesAre, PlainMount, Singleton
<1>3. c \in ContainerType /\ c.probe = <<"none">> /\ c.env = {}
  <2> DEFINE ms == <<old>>
  <2>1. ms \in Seq(MountType)
    BY <1>2
  <2> HIDE DEF ms
  <2>2. /\ Container(DirInitName, ms) \in ContainerType
        /\ Container(DirInitName, ms).probe = <<"none">> /\ Container(DirInitName, ms).env = {}
    BY <2>1, NamesAre, ContainerIs
  <2>3. QED
    BY <2>2 DEF ms
<1>4. DirExtended = [d EXCEPT !.mounts = Append(@, m), !.does = @ \cup gs]
    BY DEF DirExtended, Dir
<1> HIDE DEF c, fs, m, gs
<1>5. d.probe = c.probe /\ d.env = c.env /\ DOMAIN d = DOMAIN c
    BY <1>3 DEF ContainerType
<1>6. \A x, y : [d EXCEPT !.mounts = x, !.does = y].probe = d.probe
                /\ [d EXCEPT !.mounts = x, !.does = y].env = d.env
    BY <1>3, <1>5 DEF ContainerType
<1> HIDE DEF d
<1>7. QED
    BY <1>3, <1>4, <1>5, <1>6 DEF NoProbe

LEMMA DiskUnprobed ==
    ASSUME vm \in VMs, NEW i \in 1..Len(vm.volumes)
    PROVE  NoProbe(DiskInit(i))
<1> DEFINE disk == Mount(VMVolume(i), DiskDir(i))
           source == MountAs(Source(i), Source(i), "ro", "")
           ms == IF vm.volumes[i] = "registry" THEN <<disk, source>> ELSE <<disk>>
           c == Container(<<"disk", i>>, ms)
           fs == {<<VMVolume(i), "disk.img">>}
<1>1. Len(vm.volumes) \in Nat
    BY VMFacts
<1>2. i \in Int
    BY <1>1
<1>3. ms \in Seq(MountType)
  <2>1. disk \in MountType /\ source \in MountType
    BY DiskInitIs
  <2> HIDE DEF disk, source
  <2>2. QED
    BY <2>1
<1>4. <<"disk", i>> \in Name
    BY <1>2, NamesAre DEF Tags
<1>5. DiskInit(i) = [c EXCEPT !.does = fs]
    BY DEF DiskInit
<1> HIDE DEF ms
<1>6. c \in ContainerType /\ c.probe = <<"none">> /\ c.env = {}
    BY <1>3, <1>4, ContainerIs
<1> HIDE DEF c, fs
<1>7. QED
    BY <1>5, <1>6 DEF ContainerType, NoProbe

LEMMA PatcherUnprobed == NoProbe(Patcher)
<1> DEFINE m == Mount(PasstBin, PasstBin)
           ms == <<m>>
           c == Container(<<"passt-binary-patcher", 0>>, ms)
           fs == {<<PasstBin, "passt">>}
<1>1. m \in MountType /\ <<"passt-binary-patcher", 0>> \in Name
  <2>1. "passt-binary-patcher" \in Tags
    BY DEF Tags
  <2>2. m \in MountType
    BY NamesAre, PlainMount
  <2>3. QED
    BY <2>1, <2>2, NamesAre
<1>2. Patcher = [c EXCEPT !.does = fs]
    BY DEF Patcher
<1> HIDE DEF m
<1>3. ms \in Seq(MountType)
    BY <1>1, Singleton
<1> HIDE DEF ms
<1>4. c \in ContainerType /\ c.probe = <<"none">> /\ c.env = {}
    BY <1>1, <1>3, ContainerIs
<1> HIDE DEF c, fs
<1>5. QED
    BY <1>2, <1>4 DEF ContainerType, NoProbe

\* Only compute has a probe or an environment that needs a file.
LEMMA Unprobed ==
    ASSUME Ready, NEW c \in ToSet(All)
    PROVE  c = pod.containers[1] \/ NoProbe(c)
<1>1. IInv /\ Extras /\ step = "done" /\ vm \in VMs
    BY DEF Ready, IInv, TypeOK
<1>2. /\ pod.containers \in Seq(ContainerType)
      /\ ToSet(All) = ToSet(pod.containers) \cup ToSet(pod.inits)
    BY <1>1, AllIs
<1>3. CASE c \in ToSet(pod.containers)
  <2>1. \E k \in 1..Len(pod.containers) : pod.containers[k] = c
    BY <1>2, <1>3, InToSet
  <2>2. \A k \in 1..Len(pod.containers) : k = 1 \/ NoProbe(pod.containers[k])
    BY <1>1 DEF Extras
  <2>3. QED
    BY <2>1, <2>2
<1>4. CASE c \in ToSet(pod.inits)
  <2>1. \/ c = DirExtended
        \/ \E i \in ToSet(ToProvision) : c = DiskInit(i)
        \/ c = Sidecar("plain")
        \/ c = Patcher
    BY <1>1, <1>4, InitsAtEnd
  <2>2. \A i \in ToSet(ToProvision) : i \in 1..Len(vm.volumes)
    BY <1>1, ProvisionedIs
  <2>3. NoProbe(Sidecar("plain"))
    BY SidecarUnprobed DEF Tags
  <2>4. QED
    BY <1>1, <2>1, <2>2, <2>3, DirUnprobed, DiskUnprobed, PatcherUnprobed
<1>5. QED
    BY <1>2, <1>3, <1>4

LEMMA AllFacts ==
    ASSUME Ready, NEW c \in ToSet(All)
    PROVE  /\ c \in ContainerType /\ c.name \in Name /\ c.name \in AnyName
           /\ \A m \in Mounts(c) : /\ m \in MountType /\ m.vol \in Name /\ m.vol \in AnyName
                                   /\ m.vol \in ToSet(Names(pod.volumes))
<1>1. IInv
    BY DEF Ready
<1>2. c \in ContainerType
    BY <1>1, AllIs
<1>3. c.name \in Name /\ c.mounts \in Seq(MountType)
    BY <1>2, ContainerFields
<1>4. \A m \in Mounts(c) : m \in MountType
    BY <1>3, InToSet DEF Mounts
<1>5. \A m \in MountType : m.vol \in Name
    BY DEF MountType
<1>6. \A m \in Mounts(c) : m.vol \in ToSet(Names(pod.volumes))
    BY <1>1, MountsFromInv DEF MountsResolve
<1>7. QED
    BY <1>2, <1>3, <1>4, <1>5, <1>6, NameIsAny

\* The line of a mount names the file of its volume, if it has one.
LEMMA MountLineIs ==
    ASSUME IInv, NEW m, m.vol \in Name, m.vol \in ToSet(Names(pod.volumes))
    PROVE  LET v == VolumeOf(m.vol)
           IN /\ MountLine(m) \in KeyValue
              /\ MountLine(m)[1] \in {"AddDevice", "Volume", "Mount"}
              /\ MountLine(m) = <<MountLine(m)[1], MountLine(m)[2]>>
              /\ v.kind \in {"device", "host", "image"} => MountLine(m)[2] = Typed(m.vol, "value")
              /\ v.kind \in {"pvc", "emptyDir"} => MountLine(m)[2] = VolumeFile(v)
              /\ v.kind = "emptyDir" => MountLine(m)[1] = "Volume"
<1> DEFINE v == VolumeOf(m.vol)
           f == VolumeFile(v)
           p == Typed(m.vol, "value")
<1>1. v \in VolumeType
    BY VolumeFound
<1>2. v.kind \in {"emptyDir", "image", "pvc", "host", "device"} /\ f \in ValueType
    BY <1>1, VolumeFileIs DEF VolumeType
<1>3. p \in ValueType
    BY NameIsAny, TypesAre, TypedIs
<1>4. \/ MountLine(m) = <<"AddDevice", p>> /\ v.kind = "device"
      \/ MountLine(m) = <<"Volume", p>> /\ v.kind = "host"
      \/ MountLine(m) = <<"Mount", p>> /\ v.kind = "image"
      \/ MountLine(m) = <<"Mount", f>> /\ v.kind = "pvc"
      \/ MountLine(m) = <<"Volume", f>> /\ v.kind \in {"pvc", "emptyDir"}
    BY <1>2 DEF MountLine
<1> HIDE DEF v, f, p
<1>5. \A k \in {"AddDevice", "Volume", "Mount"} : <<k, p>> \in KeyValue /\ <<k, f>> \in KeyValue
    BY <1>2, <1>3, KeysAre, PairsAre
<1>6. QED
    BY <1>4, <1>5 DEF v, f, p

\* The health check of compute is the VM's own, or asks for its domain.
HealthCommand == IF vm.probe # "none" THEN "own" ELSE vm.ns
Health ==
    {<<"HealthCmd", Value(HealthCommand)>>}
      \cup IF vm.probe = "liveness" THEN {<<"HealthOnFailure", Value("restart")>>} ELSE {}

LEMMA HealthIs ==
    ASSUME Ready
    PROVE  /\ HealthLines(pod.containers[1]) = Health
           /\ Health \in SUBSET KeyValue
           /\ pod.restart = "on-failure" /\ HealthCommand \in Words
           /\ \A c : NoProbe(c) => HealthLines(c) = {} /\ EnvFiles(c) = {}
           /\ EnvFiles(pod.containers[1]) = {Typed(ComputeName, "env")}
<1> DEFINE c == pod.containers[1]
<1>1. /\ step = "done" /\ vm \in VMs /\ c.probe = ComputeProbe(step) /\ c.env # {}
      /\ c.name = ComputeName /\ pod.restart = "on-failure"
    BY CleanupSteps DEF Ready, Extras, IInv, TypeOK, ContainersFit
<1>2. vm.probe \in {"none", "readiness", "liveness"} /\ vm.ns \in Namespaces
    BY <1>1, VMFacts DEF Probes
<1>3. c.probe = IF vm.probe # "none" THEN <<vm.probe, "own">> ELSE <<"readiness", vm.ns>>
    BY <1>1 DEF ComputeProbe
<1>4. /\ c.probe # <<"none">> /\ c.probe[2] = HealthCommand
      /\ c.probe[1] = "liveness" <=> vm.probe = "liveness"
  <2>1. \A a, b : Len(<<a, b>>) = 2 /\ <<a, b>>[1] = a /\ <<a, b>>[2] = b
    OBVIOUS
  <2>2. Len(<<"none">>) = 1
    OBVIOUS
  <2>3. CASE vm.probe # "none"
    BY <1>3, <2>1, <2>2, <2>3 DEF HealthCommand
  <2>4. CASE vm.probe = "none"
    BY <1>3, <2>1, <2>2, <2>4 DEF HealthCommand
  <2>5. QED
    BY <2>3, <2>4
<1>5. HealthLines(c) = Health
    BY <1>1, <1>4 DEF HealthLines, Health
<1>6. HealthCommand \in Words
    BY <1>2, WordsAre DEF HealthCommand
<1>7. Health \in SUBSET KeyValue
  <2>1. Value(HealthCommand) \in ValueType /\ Value("restart") \in ValueType
    BY <1>6, WordsAre, ValueIs
  <2>2. /\ <<"HealthCmd", Value(HealthCommand)>> \in KeyValue
        /\ <<"HealthOnFailure", Value("restart")>> \in KeyValue
    BY <2>1, KeysAre, PairsAre
  <2>3. QED
    BY <2>2 DEF Health
<1>8. \A d : NoProbe(d) => HealthLines(d) = {} /\ EnvFiles(d) = {}
    BY DEF NoProbe, HealthLines, EnvFiles
<1>9. EnvFiles(c) = {Typed(ComputeName, "env")}
    BY <1>1 DEF EnvFiles
<1>10. QED
    BY <1>1, <1>5, <1>6, <1>7, <1>8, <1>9


\* The lines of the section of a container.
SectionOf(c) ==
    {<<"Pod", Typed(PodName, "pod")>>}
      \cup {MountLine(m) : m \in Mounts(c)}
      \cup (IF IsShellScript(c) THEN {<<"Volume", ScriptName(c)>>} ELSE {})
      \cup {<<"EnvironmentFile", e>> : e \in EnvFiles(c)}
      \cup HealthLines(c)

LEMMA SectionTyped ==
    ASSUME Ready, NEW c \in ToSet(All)
    PROVE  SectionOf(c) \in SUBSET KeyValue /\ SectionOf(c) # {}
<1>1. IInv /\ c.name \in AnyName
    BY AllFacts DEF Ready
<1>2. <<"Pod", Typed(PodName, "pod")>> \in KeyValue
    BY NameIsAny, TypesAre, TypedIs, KeysAre, PairsAre
<1>3. \A m \in Mounts(c) : MountLine(m) \in KeyValue
  <2> TAKE m \in Mounts(c)
  <2>1. m.vol \in Name /\ m.vol \in ToSet(Names(pod.volumes))
    BY AllFacts
  <2>2. QED
    BY <1>1, <2>1, MountLineIs
<1>4. <<"Volume", ScriptName(c)>> \in KeyValue
  <2>1. ScriptName(c) \in ValueType
    BY <1>1, TypesAre, TypedIs DEF ScriptName
  <2>2. QED
    BY <2>1, KeysAre, PairsAre
<1>5. \A e \in EnvFiles(c) : <<"EnvironmentFile", e>> \in KeyValue
  <2>1. \A e \in EnvFiles(c) : e \in ValueType
    BY <1>1, TypesAre, TypedIs DEF EnvFiles
  <2>2. QED
    BY <2>1, KeysAre, PairsAre
<1>6. HealthLines(c) \in SUBSET KeyValue
    BY Unprobed, HealthIs
<1>7. QED
    BY <1>2, <1>3, <1>4, <1>5, <1>6 DEF SectionOf

LEMMA ContainerUnitIs ==
    ASSUME Ready, NEW c \in ToSet(All)
    PROVE  /\ ContainerUnit(c) \in UnitType /\ ContainerUnit(c).file = Typed(c.name, "container")
           /\ ContainerUnit(c).lines = LinesOf("Container", SectionOf(c))
           /\ ContainerUnit(c).groups = <<"Unit", "Container">>
<1> DEFINE u == NewUnit(Typed(c.name, "container"))
           w == With(u, "Container", SectionOf(c))
<1>1. /\ u \in UnitType /\ u.file = Typed(c.name, "container") /\ u.lines = {}
      /\ u.groups = <<"Unit">>
    BY AllFacts, TypesAre, TypedIs, NewUnitIs
<1>2. SectionOf(c) \in SUBSET KeyValue /\ SectionOf(c) # {}
    BY SectionTyped
<1>3. ContainerUnit(c) = w
    BY DEF ContainerUnit, SectionOf
<1> HIDE DEF u
<1>4. w \in UnitType /\ w.file = u.file /\ w.lines = u.lines \cup LinesOf("Container", SectionOf(c))
  <2>1. "Container" \in Groups
    BY GroupsAre
  <2>2. QED
    BY <1>1, <1>2, <2>1, WithIs
<1>5. w.groups = Append(u.groups, "Container")
  <2>1. "Container" \notin ToSet(u.groups)
    BY <1>1 DEF ToSet
  <2>2. QED
    BY <1>1, <1>2, <2>1, GroupsAre, WithGroups
<1>6. Append(<<"Unit">>, "Container") = <<"Unit", "Container">>
  <2>1. "Unit" \in Groups /\ "Container" \in Groups
    BY GroupsAre
  <2>2. QED
    BY <2>1, AppendPair
<1> HIDE DEF w
<1>7. w.file = Typed(c.name, "container") /\ w.lines = LinesOf("Container", SectionOf(c))
    BY <1>1, <1>4
<1>8. w.groups = <<"Unit", "Container">>
    BY <1>1, <1>5, <1>6
<1>9. QED
    BY <1>3, <1>4, <1>7, <1>8

WaitLines(names) == {<<key, Service(n)>> : key \in {"After", "Requires"}, n \in names}

LEMMA WaitsAre ==
    ASSUME NEW u \in UnitType, NEW names \in SUBSET AnyName
    PROVE  /\ WaitLines(names) \in SUBSET KeyValue
           /\ Waits(u, names) = With(u, "Unit", WaitLines(names))
           /\ \A n \in names : Service(n) \in ValueType /\ Service(n)[3] = "service"
<1>1. \A n \in names : Service(n) \in ValueType /\ Service(n)[3] = "service"
    BY TypesAre, TypedIs DEF Service
<1>2. \A n \in names : <<"After", Service(n)>> \in KeyValue /\ <<"Requires", Service(n)>> \in KeyValue
    BY <1>1, KeysAre, PairsAre
<1>3. WaitLines(names) \in SUBSET KeyValue
  <2>1. ASSUME NEW x \in WaitLines(names)
        PROVE  x \in KeyValue
    <3>1. PICK key \in {"After", "Requires"}, n \in names : x = <<key, Service(n)>>
      BY DEF WaitLines
    <3>2. key = "After" \/ key = "Requires"
      OBVIOUS
    <3>3. QED
      BY <1>2, <3>1, <3>2
  <2>2. QED
    BY <2>1
<1>4. Waits(u, names) = With(u, "Unit", WaitLines(names))
    BY DEF WaitLines, Waits
<1>5. QED
    BY <1>1, <1>3, <1>4

\* The init containers before one.
Before(k) == {pod.inits[j].name : j \in 1..(k - 1)}
OneShot == {<<"Type", Value("oneshot")>>, <<"RemainAfterExit", Value("yes")>>}
ForCompute == {<<"WantedBy", Service(ComputeName)>>}

LEMMA Listed ==
    ASSUME Ready
    PROVE  /\ pod.inits \in Seq(ContainerType) /\ Len(pod.inits) \in Nat
           /\ pod.containers \in Seq(ContainerType) /\ Len(pod.containers) \in Nat
           /\ 1 \in 1..Len(pod.containers) /\ pod.containers[1].name = ComputeName
           /\ \A k \in 1..Len(pod.inits) : pod.inits[k] \in ToSet(All)
           /\ \A k \in 1..Len(pod.containers) : pod.containers[k] \in ToSet(All)
           /\ \A c \in ToSet(All) : \/ \E k \in 1..Len(pod.inits) : pod.inits[k] = c
                                    \/ \E k \in 1..Len(pod.containers) : pod.containers[k] = c
<1>1. IInv /\ TypeOK /\ ContainersFit
    BY DEF Ready, IInv
<1>2. /\ pod.inits \in Seq(ContainerType) /\ pod.containers \in Seq(ContainerType)
      /\ 1 \in 1..Len(pod.containers)
    BY <1>1, PodFields
<1>3. ToSet(All) = ToSet(pod.containers) \cup ToSet(pod.inits)
    BY <1>1, AllIs
<1>4. /\ \A c : c \in ToSet(pod.inits) <=> \E k \in 1..Len(pod.inits) : pod.inits[k] = c
      /\ \A c : c \in ToSet(pod.containers) <=> \E k \in 1..Len(pod.containers) : pod.containers[k] = c
    BY <1>2, InToSet
<1>5. pod.containers[1].name = ComputeName
    BY <1>1 DEF ContainersFit
<1>6. Len(pod.inits) \in Nat /\ Len(pod.containers) \in Nat
    BY <1>2
<1>7. /\ \A k \in 1..Len(pod.inits) : pod.inits[k] \in ToSet(All)
      /\ \A k \in 1..Len(pod.containers) : pod.containers[k] \in ToSet(All)
    BY <1>3, <1>4
<1>8. \A c \in ToSet(All) : \/ \E k \in 1..Len(pod.inits) : pod.inits[k] = c
                            \/ \E k \in 1..Len(pod.containers) : pod.containers[k] = c
    BY <1>3, <1>4
<1>9. QED
    BY <1>2, <1>5, <1>6, <1>7, <1>8

LEMMA InitUnitIs ==
    ASSUME Ready, NEW k \in 1..Len(pod.inits)
    PROVE  LET u == InitUnit(k)
           IN /\ u \in UnitType /\ u.file = Typed(pod.inits[k].name, "container")
              /\ u.lines = LinesOf("Container", SectionOf(pod.inits[k]))
                             \cup LinesOf("Unit", WaitLines(Before(k)))
                             \cup LinesOf("Service", OneShot) \cup LinesOf("Install", ForCompute)
              /\ Before(k) \in SUBSET AnyName
              /\ WaitLines(Before(k)) \in SUBSET KeyValue /\ OneShot \in SUBSET KeyValue
              /\ ForCompute \in SUBSET KeyValue
<1> DEFINE c == pod.inits[k]
           u0 == ContainerUnit(c)
           u1 == Waits(u0, Before(k))
           u2 == With(u1, "Service", OneShot)
           u3 == With(u2, "Install", ForCompute)
<1>1. c \in ToSet(All) /\ pod.containers[1].name = ComputeName
    BY Listed
<1> HIDE DEF c
<1>2. /\ u0 \in UnitType /\ u0.file = Typed(c.name, "container")
      /\ u0.lines = LinesOf("Container", SectionOf(c))
    BY <1>1, ContainerUnitIs
<1> HIDE DEF u0
<1>3. Before(k) \in SUBSET AnyName
  <2>1. \A j \in 1..(k - 1) : j \in 1..Len(pod.inits)
    BY Listed
  <2>2. \A j \in 1..Len(pod.inits) : pod.inits[j].name \in AnyName
    BY Listed, AllFacts
  <2>3. QED
    BY <2>1, <2>2 DEF Before
<1>4. WaitLines(Before(k)) \in SUBSET KeyValue /\ u1 = With(u0, "Unit", WaitLines(Before(k)))
    BY <1>2, <1>3, WaitsAre
<1> HIDE DEF u1
<1>5. OneShot \in SUBSET KeyValue
  <2>1. Value("oneshot") \in ValueType /\ Value("yes") \in ValueType
    BY WordsAre, ValueIs
  <2>2. /\ <<"Type", Value("oneshot")>> \in KeyValue /\ <<"RemainAfterExit", Value("yes")>> \in KeyValue
    BY <2>1, KeysAre, PairsAre
  <2>3. QED
    BY <2>2 DEF OneShot
<1>6. ForCompute \in SUBSET KeyValue
  <2>1. Service(ComputeName) \in ValueType
    BY NamesAre, NameIsAny, TypesAre, TypedIs DEF Service
  <2>2. <<"WantedBy", Service(ComputeName)>> \in KeyValue
    BY <2>1, KeysAre, PairsAre
  <2>3. QED
    BY <2>2 DEF ForCompute
<1>7. /\ u1 \in UnitType /\ u1.file = u0.file
      /\ u1.lines = u0.lines \cup LinesOf("Unit", WaitLines(Before(k)))
    BY <1>2, <1>4, GroupsAre, WithIs
<1>8. u2 \in UnitType /\ u2.file = u1.file /\ u2.lines = u1.lines \cup LinesOf("Service", OneShot)
    BY <1>5, <1>7, GroupsAre, WithIs
<1> HIDE DEF u2
<1>9. u3 \in UnitType /\ u3.file = u2.file /\ u3.lines = u2.lines \cup LinesOf("Install", ForCompute)
    BY <1>6, <1>8, GroupsAre, WithIs
<1>10. InitUnit(k) = u3
    BY <1>1 DEF InitUnit, u1, u0, u2, c, Before, OneShot, ForCompute
<1> HIDE DEF u3
<1>11. u3.file = Typed(c.name, "container")
    BY <1>2, <1>7, <1>8, <1>9
<1>12. u3.lines = LinesOf("Container", SectionOf(c)) \cup LinesOf("Unit", WaitLines(Before(k)))
                    \cup LinesOf("Service", OneShot) \cup LinesOf("Install", ForCompute)
    BY <1>2, <1>7, <1>8, <1>9
<1>13. QED
    BY <1>3, <1>4, <1>5, <1>6, <1>9, <1>10, <1>11, <1>12 DEF c

\* What a container waits for: only the first one waits.
Awaited(k) == IF k = 1 THEN ToSet(Names(pod.inits)) ELSE {}
Restarts == {<<"Restart", Value("on-failure")>>}
ForPod == {<<"WantedBy", Service(PodName)>>}

LEMMA RegularUnitIs ==
    ASSUME Ready, NEW k \in 1..Len(pod.containers)
    PROVE  LET u == RegularUnit(k)
           IN /\ u \in UnitType /\ u.file = Typed(pod.containers[k].name, "container")
              /\ u.lines = LinesOf("Container", SectionOf(pod.containers[k]))
                             \cup LinesOf("Unit", WaitLines(Awaited(k)))
                             \cup LinesOf("Service", Restarts) \cup LinesOf("Install", ForPod)
              /\ u.groups = Append(Append(<<"Unit", "Container">>, "Service"), "Install")
              /\ Awaited(k) \in SUBSET AnyName
              /\ WaitLines(Awaited(k)) \in SUBSET KeyValue /\ Restarts \in SUBSET KeyValue
              /\ ForPod \in SUBSET KeyValue
<1> DEFINE c == pod.containers[k]
           u0 == ContainerUnit(c)
           u1 == Waits(u0, Awaited(k))
           u2 == With(u1, "Service", Restarts)
           u3 == With(u2, "Install", ForPod)
<1>1. c \in ToSet(All)
    BY Listed
<1> HIDE DEF c
<1>2. /\ u0 \in UnitType /\ u0.file = Typed(c.name, "container")
      /\ u0.lines = LinesOf("Container", SectionOf(c)) /\ u0.groups = <<"Unit", "Container">>
    BY <1>1, ContainerUnitIs
<1> HIDE DEF u0
<1>3. Awaited(k) \in SUBSET AnyName
  <2>1. \A n : n \in ToSet(Names(pod.inits)) <=> \E j \in 1..Len(pod.inits) : pod.inits[j].name = n
    BY Listed, NamedIn
  <2>2. \A j \in 1..Len(pod.inits) : pod.inits[j].name \in AnyName
    BY Listed, AllFacts
  <2>3. QED
    BY <2>1, <2>2 DEF Awaited
<1>4. WaitLines(Awaited(k)) \in SUBSET KeyValue /\ u1 = With(u0, "Unit", WaitLines(Awaited(k)))
    BY <1>2, <1>3, WaitsAre
<1> HIDE DEF u1
<1>5. Restarts \in SUBSET KeyValue /\ Restarts # {} /\ RestartLines = Restarts
  <2>1. Value("on-failure") \in ValueType
    BY WordsAre, ValueIs
  <2>2. <<"Restart", Value("on-failure")>> \in KeyValue
    BY <2>1, KeysAre, PairsAre
  <2>3. pod.restart = "on-failure"
    BY HealthIs
  <2>4. QED
    BY <2>2, <2>3 DEF Restarts, RestartLines
<1>6. ForPod \in SUBSET KeyValue /\ ForPod # {}
  <2>1. Service(PodName) \in ValueType
    BY NameIsAny, TypesAre, TypedIs DEF Service
  <2>2. <<"WantedBy", Service(PodName)>> \in KeyValue
    BY <2>1, KeysAre, PairsAre
  <2>3. QED
    BY <2>2 DEF ForPod
<1>7. /\ u1 \in UnitType /\ u1.file = u0.file
      /\ u1.lines = u0.lines \cup LinesOf("Unit", WaitLines(Awaited(k)))
    BY <1>2, <1>4, GroupsAre, WithIs
<1>8. u1.groups = u0.groups
  <2>1. "Unit" \in ToSet(u0.groups)
    BY <1>2 DEF ToSet
  <2>2. QED
    BY <1>2, <1>4, <2>1, GroupsAre, WithGroups
<1>9. u2 \in UnitType /\ u2.file = u1.file /\ u2.lines = u1.lines \cup LinesOf("Service", Restarts)
    BY <1>5, <1>7, GroupsAre, WithIs
<1>10. u2.groups = Append(u0.groups, "Service")
  <2>1. "Service" \notin ToSet(u1.groups)
    BY <1>2, <1>8 DEF ToSet
  <2>2. u2.groups = Append(u1.groups, "Service")
    BY <1>5, <1>7, <2>1, GroupsAre, WithGroups
  <2>3. QED
    BY <1>8, <2>2
<1> HIDE DEF u2
<1>11. u3 \in UnitType /\ u3.file = u2.file /\ u3.lines = u2.lines \cup LinesOf("Install", ForPod)
    BY <1>6, <1>9, GroupsAre, WithIs
<1>12. u3.groups = Append(u2.groups, "Install")
  <2>1. "Install" \notin ToSet(u2.groups)
    BY <1>2, <1>10 DEF ToSet
  <2>2. QED
    BY <1>6, <1>9, <2>1, GroupsAre, WithGroups
<1>13. RegularUnit(k) = u3
    BY <1>5 DEF RegularUnit, u1, u0, u2, c, Awaited, ForPod
<1> HIDE DEF u3
<1>14. u3.file = Typed(c.name, "container")
    BY <1>2, <1>7, <1>9, <1>11
<1>15. u3.lines = LinesOf("Container", SectionOf(c)) \cup LinesOf("Unit", WaitLines(Awaited(k)))
                    \cup LinesOf("Service", Restarts) \cup LinesOf("Install", ForPod)
    BY <1>2, <1>7, <1>9, <1>11
<1>16. u3.groups = Append(Append(<<"Unit", "Container">>, "Service"), "Install")
    BY <1>2, <1>10, <1>12
<1>17. QED
    BY <1>3, <1>4, <1>5, <1>6, <1>11, <1>13, <1>14, <1>15, <1>16 DEF c


-----------------------------------------------------------------------------
(***************************************************************************)
(* Lists of units that no two of have a file in common.                    *)
(***************************************************************************)

Apart(fs) == \A j, k \in 1..Len(fs) : fs[j].file = fs[k].file => j = k
Holds(fs, U) == fs \in Seq(UnitType) /\ ToSet(fs) = U /\ Apart(fs)

LEMMA HeldIs ==
    ASSUME NEW fs, NEW U, Holds(fs, U)
    PROVE  /\ \A u : u \in U <=> \E k \in 1..Len(fs) : fs[k] = u
           /\ \A u \in U : u \in UnitType
           /\ \A u, v \in U : u.file = v.file => u = v
<1>1. fs \in Seq(UnitType) /\ ToSet(fs) = U /\ Apart(fs)
    BY DEF Holds
<1>2. \A u : u \in U <=> \E k \in 1..Len(fs) : fs[k] = u
    BY <1>1, InToSet
<1>3. QED
    BY <1>1, <1>2 DEF Apart

LEMMA HoldsConcat ==
    ASSUME NEW a, NEW b, NEW U, NEW V, Holds(a, U), Holds(b, V),
           \A u \in U, v \in V : u.file # v.file
    PROVE  Holds(a \o b, U \cup V)
<1> DEFINE w == a \o b
<1>1. a \in Seq(UnitType) /\ b \in Seq(UnitType) /\ w = a \o b
    BY DEF Holds
<1>2. ToSet(w) = U \cup V
    BY <1>1, ToSetConcat DEF Holds
<1> HIDE DEF w
<1>3. /\ w \in Seq(UnitType)
      /\ \A k \in 1..Len(w) : \/ k \in 1..Len(a) /\ w[k] = a[k]
                              \/ \E j \in 1..Len(b) : k = Len(a) + j /\ w[k] = b[j]
  <2>1. Joins(UnitType, a, b, w)
    BY <1>1 DEF Joins
  <2>2. QED
    BY <2>1, Joined
<1>4. \A j \in 1..Len(a), k \in 1..Len(b) : a[j].file # b[k].file
  <2>1. (\A j \in 1..Len(a) : a[j] \in U) /\ (\A k \in 1..Len(b) : b[k] \in V)
    BY HeldIs
  <2>2. QED
    BY <2>1
<1>5. ASSUME NEW j \in 1..Len(w), NEW k \in 1..Len(w), w[j].file = w[k].file
      PROVE  j = k
  <2>1. Len(a) \in Nat /\ Len(b) \in Nat /\ Apart(a) /\ Apart(b)
    BY <1>1 DEF Holds
  <2>2. CASE j \in 1..Len(a) /\ w[j] = a[j]
    <3>1. CASE k \in 1..Len(a) /\ w[k] = a[k]
      BY <1>5, <2>1, <2>2, <3>1 DEF Apart
    <3>2. CASE \E i \in 1..Len(b) : k = Len(a) + i /\ w[k] = b[i]
      BY <1>4, <1>5, <2>2, <3>2
    <3>3. QED
      BY <1>3, <3>1, <3>2
  <2>3. ASSUME NEW i \in 1..Len(b), j = Len(a) + i, w[j] = b[i]
        PROVE  j = k
    <3>1. CASE k \in 1..Len(a) /\ w[k] = a[k]
      BY <1>4, <1>5, <2>3, <3>1
    <3>2. ASSUME NEW m \in 1..Len(b), k = Len(a) + m, w[k] = b[m]
          PROVE  j = k
      BY <1>5, <2>1, <2>3, <3>2 DEF Apart
    <3>3. QED
      BY <1>3, <3>1, <3>2
  <2>4. QED
    BY <1>3, <2>2, <2>3
<1>6. QED
    BY <1>2, <1>3, <1>5 DEF Holds, Apart, w

LEMMA HoldsOne ==
    ASSUME NEW u \in UnitType
    PROVE  Holds(<<u>>, {u})
<1> DEFINE s == <<u>>
<1>1. s \in Seq(UnitType) /\ Len(s) = 1 /\ s[1] = u
    OBVIOUS
<1> HIDE DEF s
<1>2. \A x : x \in ToSet(s) <=> \E k \in 1..Len(s) : s[k] = x
    BY <1>1, InToSet
<1>3. \A k : k \in 1..Len(s) <=> k = 1
    BY <1>1
<1>4. ToSet(s) = {u}
    BY <1>1, <1>2, <1>3
<1>5. Apart(s)
    BY <1>3 DEF Apart
<1>6. QED
    BY <1>1, <1>4, <1>5 DEF Holds, s

LEMMA HoldsNone == Holds(<<>>, {})
<1> DEFINE s == <<>>
<1>1. s \in Seq(UnitType) /\ Len(s) = 0
    OBVIOUS
<1> HIDE DEF s
<1>2. \A x : x \in ToSet(s) <=> \E k \in 1..Len(s) : s[k] = x
    BY <1>1, InToSet
<1>3. \A k \in 1..Len(s) : FALSE
    BY <1>1
<1>4. ToSet(s) = {} /\ Apart(s)
    BY <1>2, <1>3 DEF Apart
<1>5. QED
    BY <1>1, <1>4 DEF Holds, s

LEMMA HoldsAppend ==
    ASSUME NEW a, NEW U, Holds(a, U), NEW x \in UnitType, \A u \in U : u.file # x.file
    PROVE  Holds(Append(a, x), U \cup {x})
<1>1. Holds(<<x>>, {x}) /\ \A u \in U, v \in {x} : u.file # v.file
    BY HoldsOne
<1>2. Holds(a \o <<x>>, U \cup {x})
    BY <1>1, HoldsConcat
<1>3. Append(a, x) = a \o <<x>>
    BY Appended DEF Holds
<1>4. QED
    BY <1>2, <1>3

\* A list of lists of units.
SlotsApart(ss) ==
    \A i, j \in 1..Len(ss) : \A m \in 1..Len(ss[i]), n \in 1..Len(ss[j]) :
       ss[i][m].file = ss[j][n].file => i = j /\ m = n
SlotsHave(ss, U) == \A u : u \in U <=> \E i \in 1..Len(ss) : \E j \in 1..Len(ss[i]) : ss[i][j] = u

\* No unit is in two places of the pieces, or of the list that they make.
OncePieces(ss) == \A p, q \in Slots(ss) : ss[p[1]][p[2]] = ss[q[1]][q[2]] => p = q
OnceListed(fs) == \A k, l \in 1..Len(fs) : fs[k] = fs[l] => k = l

LEMMA FlatOnce ==
    ASSUME NEW S, NEW ss \in Seq(Seq(S)), OncePieces(ss)
    PROVE  OnceListed(Flat(ss))
<1> DEFINE fs == Flat(ss)
<1>1. (\A p, q \in Slots(ss) : ss[p[1]][p[2]] = ss[q[1]][q[2]] => p = q) =>
        \A k, l \in 1..Len(fs) : fs[k] = fs[l] => k = l
    BY FlatKeeps
<1> HIDE DEF fs
<1>2. OnceListed(fs)
    BY <1>1 DEF OncePieces, OnceListed
<1>3. QED
    BY <1>2 DEF fs

LEMMA HoldsFlat ==
    ASSUME NEW ss \in Seq(Seq(UnitType)), SlotsApart(ss), NEW U, SlotsHave(ss, U)
    PROVE  Holds(Flat(ss), U)
<1> USE DEF SlotsApart, SlotsHave
<1> DEFINE fs == Flat(ss)
<1>1. \A p, q \in Slots(ss) : ss[p[1]][p[2]] = ss[q[1]][q[2]] => p = q
  <2>1. \A p : p \in Slots(ss) <=> \E i \in 1..Len(ss) : \E j \in 1..Len(ss[i]) : p = <<i, j>>
    BY SlotsFinite
  <2>2. ASSUME NEW p \in Slots(ss), NEW q \in Slots(ss), ss[p[1]][p[2]] = ss[q[1]][q[2]]
        PROVE  p = q
    <3>1. PICK i \in 1..Len(ss) : \E m \in 1..Len(ss[i]) : p = <<i, m>>
      BY <2>1
    <3>2. PICK j \in 1..Len(ss) : \E n \in 1..Len(ss[j]) : q = <<j, n>>
      BY <2>1
    <3>3. PICK m \in 1..Len(ss[i]) : p = <<i, m>>
      BY <3>1
    <3>4. PICK n \in 1..Len(ss[j]) : q = <<j, n>>
      BY <3>2
    <3>5. ss[i][m].file = ss[j][n].file
      BY <2>2, <3>3, <3>4
    <3>6. i = j /\ m = n
      BY <3>5
    <3>7. QED
      BY <3>3, <3>4, <3>6
  <2>3. QED
    BY <2>2
<1>2. /\ fs \in Seq(UnitType)
      /\ \A k \in 1..Len(fs) : \E i \in 1..Len(ss) : \E j \in 1..Len(ss[i]) : fs[k] = ss[i][j]
      /\ \A i \in 1..Len(ss) : \A j \in 1..Len(ss[i]) : \E k \in 1..Len(fs) : fs[k] = ss[i][j]
      /\ \A k, l \in 1..Len(fs) : fs[k] = fs[l] => k = l
  <2>1. fs \in Seq(UnitType)
    BY FlatKeeps
  <2>2. \A k \in 1..Len(fs) : \E i \in 1..Len(ss) : \E j \in 1..Len(ss[i]) : fs[k] = ss[i][j]
    BY FlatKeeps
  <2>3. \A i \in 1..Len(ss) : \A j \in 1..Len(ss[i]) : \E k \in 1..Len(fs) : fs[k] = ss[i][j]
    BY FlatKeeps
  <2>4. \A k, l \in 1..Len(fs) : fs[k] = fs[l] => k = l
    <3>1. OncePieces(ss)
      BY <1>1 DEF OncePieces
    <3>2. OnceListed(fs)
      BY <3>1, FlatOnce
    <3>3. QED
      BY <3>2 DEF OnceListed
  <2>5. QED
    BY <2>1, <2>2, <2>3, <2>4
<1> HIDE DEF fs
<1>3. ToSet(fs) = U
  <2>1. \A x : x \in ToSet(fs) <=> \E k \in 1..Len(fs) : fs[k] = x
    BY <1>2, InToSet
  <2>2. ASSUME NEW x \in ToSet(fs) PROVE x \in U
    <3>1. PICK k \in 1..Len(fs) : fs[k] = x
      BY <2>1, <2>2
    <3>2. PICK i \in 1..Len(ss) : \E j \in 1..Len(ss[i]) : fs[k] = ss[i][j]
      BY <1>2
    <3>3. \E j \in 1..Len(ss[i]) : ss[i][j] = x
      BY <3>1, <3>2
    <3>4. QED
      BY <3>3
  <2>3. ASSUME NEW x \in U PROVE x \in ToSet(fs)
    <3>1. PICK i \in 1..Len(ss) : \E j \in 1..Len(ss[i]) : ss[i][j] = x
      OBVIOUS
    <3>2. PICK j \in 1..Len(ss[i]) : ss[i][j] = x
      BY <3>1
    <3>3. PICK k \in 1..Len(fs) : fs[k] = ss[i][j]
      BY <1>2
    <3>4. QED
      BY <2>1, <3>2, <3>3
  <2>4. QED
    BY <2>2, <2>3
<1>4. ASSUME NEW k \in 1..Len(fs), NEW l \in 1..Len(fs), fs[k].file = fs[l].file
      PROVE  k = l
  <2>1. PICK i \in 1..Len(ss) : \E m \in 1..Len(ss[i]) : fs[k] = ss[i][m]
    BY <1>2
  <2>2. PICK j \in 1..Len(ss) : \E n \in 1..Len(ss[j]) : fs[l] = ss[j][n]
    BY <1>2
  <2>3. fs[k] = fs[l]
    BY <1>4, <2>1, <2>2
  <2>4. QED
    BY <1>2, <2>3
<1>5. QED
    BY <1>2, <1>3, <1>4 DEF Holds, Apart, fs

LEMMA HoldsEach ==
    ASSUME NEW fs \in Seq(UnitType), Apart(fs),
           NEW U, \A u : u \in U <=> \E k \in 1..Len(fs) : fs[k] = u
    PROVE  Holds(fs, U)
<1>1. \A x : x \in ToSet(fs) <=> \E k \in 1..Len(fs) : fs[k] = x
    BY InToSet
<1>2. ToSet(fs) = U
    BY <1>1
<1>3. QED
    BY <1>2 DEF Holds

\* Lines are put into the one unit of a file.
LEMMA HoldsEdited ==
    ASSUME NEW fs, NEW U, Holds(fs, U), NEW e \in U, Len(e.groups) > 0, NEW section,
           NEW kvs \in SUBSET KeyValue
    PROVE  LET w == InsertBeforeSection(e, section, kvs)
           IN Holds(EditedIn(fs, e.file, section, kvs), (U \ {e}) \cup {w})
<1> DEFINE w == InsertBeforeSection(e, section, kvs)
           gs == EditedIn(fs, e.file, section, kvs)
           V == (U \ {e}) \cup {w}
<1>1. /\ fs \in Seq(UnitType) /\ Apart(fs)
      /\ \A u : u \in U <=> \E k \in 1..Len(fs) : fs[k] = u
      /\ \A u \in U : u \in UnitType
      /\ \A u, v \in U : u.file = v.file => u = v
    BY HeldIs DEF Holds
<1>2. e \in UnitType
    BY <1>1
<1>3. w \in UnitType /\ w.file = e.file
    BY <1>2, InsertIs
<1>4. \A k \in 1..Len(fs) : fs[k].file = e.file <=> fs[k] = e
    BY <1>1
<1>5. gs = [k \in 1..Len(fs) |-> IF fs[k] = e THEN w ELSE fs[k]]
    BY <1>4 DEF EditedIn
<1> HIDE DEF w, gs
<1>6. /\ gs \in Seq(UnitType) /\ Len(gs) = Len(fs)
      /\ \A k \in 1..Len(fs) : gs[k] = IF fs[k] = e THEN w ELSE fs[k]
    BY <1>1, <1>3, <1>5
<1>7. \A k \in 1..Len(fs) : gs[k].file = fs[k].file
    BY <1>3, <1>6
<1>8. \A u : u \in V <=> \E k \in 1..Len(fs) : gs[k] = u
  <2>1. PICK i \in 1..Len(fs) : fs[i] = e
    BY <1>1
  <2>2. ASSUME NEW u, u \in V PROVE \E k \in 1..Len(fs) : gs[k] = u
    BY <1>1, <1>6, <2>1, <2>2
  <2>3. ASSUME NEW k \in 1..Len(fs) PROVE gs[k] \in V
    BY <1>1, <1>6
  <2>4. QED
    BY <2>2, <2>3
<1> HIDE DEF V
<1>9. Holds(gs, V)
  <2>1. Apart(gs)
    BY <1>1, <1>6, <1>7 DEF Apart
  <2>2. \A u : u \in V <=> \E k \in 1..Len(gs) : gs[k] = u
    BY <1>6, <1>8
  <2>3. QED
    BY <1>6, <2>1, <2>2, HoldsEach
<1>10. QED
    BY <1>9 DEF gs, V, w


-----------------------------------------------------------------------------
(***************************************************************************)
(* The units of the pod.                                                   *)
(***************************************************************************)

\* The volumes that have units.
Placed == {v \in ToSet(pod.volumes) : v.kind \in {"pvc", "emptyDir"}}
VolumeUs == {VolumeUnit(v) : v \in Placed}

LEMMA VolumesHeld ==
    ASSUME IInv
    PROVE  /\ Holds(VolumePart, VolumeUs)
           /\ \A u \in VolumeUs : u.file[3] \in {"volume", "tmpfs"}
<1> DEFINE vs == pod.volumes
           T == Placed
           cs == Select(vs, T)
           fs == VolumePart
<1>1. /\ vs \in Seq(VolumeType)
      /\ \A v : v \in ToSet(vs) <=> \E k \in 1..Len(vs) : vs[k] = v
      /\ \A v \in ToSet(vs) : v \in VolumeType
      /\ \A j, k \in 1..Len(vs) : vs[j].name = vs[k].name => j = k
    BY VolumesTyped
<1>2. Claimed = cs /\ fs = [k \in 1..Len(Claimed) |-> VolumeUnit(Claimed[k])]
    BY DEF Claimed, Placed, VolumePart
<1>3. T = {v \in ToSet(vs) : v.kind \in {"pvc", "emptyDir"}} /\ VolumeUs = {VolumeUnit(v) : v \in T}
    BY DEF Placed, VolumeUs
<1>4. /\ cs \in Seq(VolumeType)
      /\ \A k \in 1..Len(cs) : \E i \in 1..Len(vs) : cs[k] = vs[i] /\ vs[i] \in T
      /\ \A i \in 1..Len(vs) : vs[i] \in T => \E k \in 1..Len(cs) : cs[k] = vs[i]
      /\ (\A i, j \in 1..Len(vs) : vs[i] = vs[j] => i = j) =>
           \A i, j \in 1..Len(cs) : cs[i] = cs[j] => i = j
  <2> HIDE DEF vs, T
  <2>1. QED
    BY <1>1, SelectKeeps
<1> HIDE DEF vs, T, cs, fs
<1>5. \A k \in 1..Len(cs) : VolumeUnit(cs[k]) \in UnitType /\ VolumeUnit(cs[k]).file = VolumeFile(cs[k])
    BY <1>4, VolumeUnitIs
<1>6. /\ fs \in Seq(UnitType) /\ Len(fs) = Len(cs)
      /\ \A k \in 1..Len(cs) : fs[k] = VolumeUnit(cs[k])
    BY <1>2, <1>4, <1>5
<1>7. Apart(fs)
  <2>1. \A i, j \in 1..Len(cs) : cs[i] = cs[j] => i = j
    BY <1>1, <1>4
  <2>2. ASSUME NEW j \in 1..Len(cs), NEW k \in 1..Len(cs), fs[j].file = fs[k].file
        PROVE  j = k
    <3>1. cs[j] \in VolumeType /\ cs[k] \in VolumeType
      <4>1. cs \in Seq(VolumeType)
        BY <1>4
      <4>2. \A n \in 1..Len(cs) : cs[n] \in VolumeType
        BY <4>1
      <4>3. QED
        BY <4>2, <2>2
    <3>2. VolumeFile(cs[j]) = VolumeFile(cs[k])
      BY <1>5, <1>6, <2>2
    <3>3. cs[j].name = cs[k].name
      BY <3>1, <3>2, VolumeFileIs
    <3>4. PICK i \in 1..Len(vs) : cs[j] = vs[i]
      BY <1>4
    <3>5. PICK l \in 1..Len(vs) : cs[k] = vs[l]
      BY <1>4
    <3>6. i = l
      BY <1>1, <3>3, <3>4, <3>5
    <3>7. QED
      BY <2>1, <3>4, <3>5, <3>6
  <2>3. QED
    BY <1>6, <2>2 DEF Apart
<1>8. \A u : u \in VolumeUs <=> \E k \in 1..Len(fs) : fs[k] = u
  <2>1. \A v : v \in T <=> \E k \in 1..Len(cs) : cs[k] = v
    <3>1. ASSUME NEW v \in T PROVE \E k \in 1..Len(cs) : cs[k] = v
      <4>1. v \in ToSet(vs)
        BY <1>3
      <4>2. PICK i \in 1..Len(vs) : vs[i] = v
        BY <1>1, <4>1
      <4>3. QED
        BY <1>4, <4>2
    <3>2. ASSUME NEW k \in 1..Len(cs) PROVE cs[k] \in T
      BY <1>4
    <3>3. QED
      BY <3>1, <3>2
  <2>2. \A u : u \in VolumeUs <=> \E v \in T : VolumeUnit(v) = u
    BY <1>3
  <2>3. QED
    BY <1>6, <2>1, <2>2
<1>9. Holds(fs, VolumeUs)
    BY <1>6, <1>7, <1>8, HoldsEach
<1>10. \A u \in VolumeUs : u.file[3] \in {"volume", "tmpfs"}
  <2>1. \A v \in T : v \in VolumeType
    BY <1>1, <1>3
  <2>2. \A v \in T : VolumeUnit(v).file[3] \in {"volume", "tmpfs"}
    BY <2>1, VolumeUnitIs, VolumeFileIs
  <2>3. QED
    BY <1>3, <2>2
<1>11. QED
    BY <1>9, <1>10 DEF fs

\* Names are not used twice, by containers or init containers.
LEMMA NamesApart ==
    ASSUME IInv
    PROVE  /\ \A j, k \in 1..Len(pod.inits) : pod.inits[j].name = pod.inits[k].name => j = k
           /\ \A j, k \in 1..Len(pod.containers) :
                pod.containers[j].name = pod.containers[k].name => j = k
           /\ \A j \in 1..Len(pod.inits), k \in 1..Len(pod.containers) :
                pod.inits[j].name # pod.containers[k].name
           /\ \A a, b \in ToSet(All) : a.name = b.name => a = b
<1> DEFINE cs == pod.containers
           is == pod.inits
           w == cs \o is
<1>1. cs \in Seq(ContainerType) /\ is \in Seq(ContainerType)
    BY AllIs
<1>2. All = w /\ w \in Seq(ContainerType) /\ IsInjective(Names(w))
    BY AllIs, NamesFromInv DEF NamesDistinct, All
<1>3. Joins(ContainerType, cs, is, w)
    BY <1>1 DEF Joins
<1> HIDE DEF cs, is, w
<1>4. /\ Len(w) = Len(cs) + Len(is) /\ Len(cs) \in Nat /\ Len(is) \in Nat
      /\ \A k \in 1..Len(cs) : k \in 1..Len(w) /\ w[k] = cs[k]
      /\ \A k \in 1..Len(is) : Len(cs) + k \in 1..Len(w) /\ w[Len(cs) + k] = is[k]
    BY <1>1, <1>3, Joined
<1>5. \A j, k \in 1..Len(w) : w[j].name = w[k].name => j = k
  <2>1. Len(Names(w)) = Len(w) /\ DOMAIN Names(w) = 1..Len(w) /\ \A k \in 1..Len(w) : Names(w)[k] = w[k].name
    <3>1. Len(Names(w)) = Len(w) /\ \A k \in 1..Len(w) : Names(w)[k] = w[k].name
      BY <1>2, NamedIn
    <3>2. DOMAIN Names(w) = 1..Len(w)
      BY DEF Names
    <3>3. QED
      BY <3>1, <3>2
  <2>2. QED
    BY <1>2, <2>1 DEF IsInjective
<1>6. \A j, k \in 1..Len(is) : is[j].name = is[k].name => j = k
    BY <1>4, <1>5
<1>7. \A j, k \in 1..Len(cs) : cs[j].name = cs[k].name => j = k
    BY <1>4, <1>5
<1>8. \A j \in 1..Len(is), k \in 1..Len(cs) : is[j].name # cs[k].name
    BY <1>4, <1>5
<1>9. \A a, b \in ToSet(All) : a.name = b.name => a = b
  <2>1. \A x : x \in ToSet(w) <=> \E k \in 1..Len(w) : w[k] = x
    BY <1>2, InToSet
  <2>2. QED
    BY <1>2, <1>5, <2>1
<1>10. QED
    BY <1>6, <1>7, <1>8, <1>9 DEF cs, is


\* The unit of a container and, if its command is a script, the script.
WithScript(c, u, s) == c.name \in AnyName /\ u \in UnitType /\ s = <<u>> \o Scripts(c)

LEMMA UnitAndScript ==
    ASSUME NEW c, NEW u, NEW s, WithScript(c, u, s)
    PROVE  /\ s \in Seq(UnitType) /\ 1 \in 1..Len(s) /\ s[1] = u
           /\ \A m \in 1..Len(s) : m # 1 =>
                m = 2 /\ IsShellScript(c) /\ s[m] = Companion(ScriptName(c))
           /\ IsShellScript(c) => 2 \in 1..Len(s) /\ s[2] = Companion(ScriptName(c))
           /\ Companion(ScriptName(c)).file = Typed(c.name, "sh")
           /\ Companion(ScriptName(c)) \in UnitType /\ Companion(ScriptName(c)).lines = {}
<1> USE DEF WithScript
<1> DEFINE x == Companion(ScriptName(c))
           a == <<u>>
           b == <<x>>
           e == <<>>
<1>1. x \in UnitType /\ x.file = Typed(c.name, "sh") /\ x.lines = {}
  <2>1. ScriptName(c) \in ValueType /\ ScriptName(c) = Typed(c.name, "sh")
    BY TypesAre, TypedIs DEF ScriptName
  <2>2. QED
    BY <2>1, NewUnitIs
<1> HIDE DEF x
<1>2. a \in Seq(UnitType) /\ Len(a) = 1 /\ a[1] = u
    OBVIOUS
<1>3. b \in Seq(UnitType) /\ Len(b) = 1 /\ b[1] = x
    BY <1>1
<1>4. e \in Seq(UnitType) /\ Len(e) = 0
    OBVIOUS
<1>5. CASE IsShellScript(c)
  <2>1. s = <<u>> \o <<x>>
    BY <1>5 DEF Scripts, x
  <2>2. s \in Seq(UnitType) /\ Len(s) = 2 /\ s[1] = u /\ s[2] = x
    <3>1. Joins(UnitType, a, b, s)
      BY <1>2, <1>3, <2>1 DEF Joins
    <3> HIDE DEF a, b, WithScript
    <3>2. /\ s \in Seq(UnitType) /\ Len(s) = Len(a) + Len(b)
          /\ \A k \in 1..Len(a) : s[k] = a[k]
          /\ \A k \in 1..Len(b) : s[Len(a) + k] = b[k]
      BY <3>1, Joined
    <3>3. 1 \in 1..Len(a) /\ 1 \in 1..Len(b) /\ Len(a) + 1 = 2
      BY <1>2, <1>3
    <3>4. QED
      BY <1>2, <1>3, <3>2, <3>3
  <2>3. \A m \in 1..Len(s) : m # 1 => m = 2
    BY <2>2
  <2>4. QED
    BY <1>1, <1>5, <2>2, <2>3 DEF x
<1>6. CASE ~IsShellScript(c)
  <2>1. s = <<u>> \o <<>>
    BY <1>6 DEF Scripts
  <2>2. s \in Seq(UnitType) /\ Len(s) = 1 /\ s[1] = u
    <3>1. Joins(UnitType, a, e, s)
      BY <1>2, <1>4, <2>1 DEF Joins
    <3> HIDE DEF a, e, WithScript
    <3>2. /\ s \in Seq(UnitType) /\ Len(s) = Len(a) + Len(e)
          /\ \A k \in 1..Len(a) : s[k] = a[k]
      BY <3>1, Joined
    <3>3. 1 \in 1..Len(a)
      BY <1>2
    <3>4. QED
      BY <1>2, <1>4, <3>2, <3>3
  <2>3. \A m \in 1..Len(s) : m = 1
    BY <2>2
  <2>4. QED
    BY <1>1, <1>6, <2>2, <2>3 DEF x
<1>7. QED
    BY <1>5, <1>6

\* A unit for each container of a list, followed by its script.
Converted(cs, us, ss) ==
    /\ cs \in Seq(ContainerType) /\ us \in Seq(UnitType) /\ Len(us) = Len(cs)
    /\ \A j, k \in 1..Len(cs) : cs[j].name = cs[k].name => j = k
    /\ \A k \in 1..Len(cs) : us[k].file = Typed(cs[k].name, "container")
    /\ ss = [k \in 1..Len(cs) |-> <<us[k]>> \o Scripts(cs[k])]
AsUnits(cs, us, U) ==
    \A u : u \in U <=> \E k \in 1..Len(cs) :
        \/ u = us[k]
        \/ IsShellScript(cs[k]) /\ u = Companion(ScriptName(cs[k]))

LEMMA SlotsHeld ==
    ASSUME NEW cs, NEW us, NEW ss, NEW U, Converted(cs, us, ss), AsUnits(cs, us, U)
    PROVE  Holds(Flat(ss), U)
<1> USE DEF Converted, AsUnits
<1>1. \A k \in 1..Len(cs) : us[k] \in UnitType /\ cs[k] \in ContainerType /\ cs[k].name \in AnyName
  <2>1. \A k \in 1..Len(cs) : cs[k] \in ContainerType
    OBVIOUS
  <2>2. \A c \in ContainerType : c.name \in AnyName
    BY ContainerFields, NameIsAny
  <2>3. QED
    BY <2>1, <2>2
<1>2. \A k \in 1..Len(cs) :
        /\ ss[k] \in Seq(UnitType) /\ 1 \in 1..Len(ss[k]) /\ ss[k][1] = us[k]
        /\ \A m \in 1..Len(ss[k]) : m # 1 =>
             m = 2 /\ IsShellScript(cs[k]) /\ ss[k][m] = Companion(ScriptName(cs[k]))
        /\ IsShellScript(cs[k]) => 2 \in 1..Len(ss[k]) /\ ss[k][2] = Companion(ScriptName(cs[k]))
        /\ Companion(ScriptName(cs[k])).file = Typed(cs[k].name, "sh")
  <2> TAKE k \in 1..Len(cs)
  <2> DEFINE c == cs[k]
             u == us[k]
             s == ss[k]
  <2>1. WithScript(c, u, s)
    BY <1>1 DEF WithScript
  <2> HIDE DEF c, u, s
  <2>2. /\ s \in Seq(UnitType) /\ 1 \in 1..Len(s) /\ s[1] = u
        /\ \A m \in 1..Len(s) : m # 1 =>
             m = 2 /\ IsShellScript(c) /\ s[m] = Companion(ScriptName(c))
        /\ IsShellScript(c) => 2 \in 1..Len(s) /\ s[2] = Companion(ScriptName(c))
        /\ Companion(ScriptName(c)).file = Typed(c.name, "sh")
    BY <2>1, UnitAndScript
  <2>3. QED
    BY <2>2 DEF c, u, s
<1>3. ss \in Seq(Seq(UnitType)) /\ Len(ss) = Len(cs)
  <2>1. DOMAIN ss = 1..Len(cs) /\ Len(cs) \in Nat
    OBVIOUS
  <2>2. ss = [k \in 1..Len(cs) |-> ss[k]]
    BY <2>1
  <2>3. \A k \in 1..Len(cs) : ss[k] \in Seq(UnitType)
    BY <1>2
  <2> HIDE DEF Converted, AsUnits
  <2>4. QED
    BY <2>1, <2>2, <2>3
<1> HIDE DEF Converted
<1>4. ASSUME NEW i \in 1..Len(cs), NEW j \in 1..Len(cs),
             NEW m \in 1..Len(ss[i]), NEW n \in 1..Len(ss[j]), ss[i][m].file = ss[j][n].file
      PROVE  i = j /\ m = n
  <2>1. /\ ss[i][m].file = Typed(cs[i].name, IF m = 1 THEN "container" ELSE "sh")
        /\ ss[j][n].file = Typed(cs[j].name, IF n = 1 THEN "container" ELSE "sh")
    <3>1. ASSUME NEW k \in 1..Len(cs), NEW l \in 1..Len(ss[k])
          PROVE  ss[k][l].file = Typed(cs[k].name, IF l = 1 THEN "container" ELSE "sh")
      <4>1. us[k].file = Typed(cs[k].name, "container")
        BY DEF Converted
      <4>2. CASE l = 1
        BY <1>2, <4>1, <4>2
      <4>3. CASE l # 1
        BY <1>2, <4>3
      <4>4. QED
        BY <4>2, <4>3
    <3>2. QED
      BY <3>1
  <2>2. /\ m = 1 \/ m = 2
        /\ n = 1 \/ n = 2
    BY <1>2
  <2>3. cs[i].name = cs[j].name /\ (m = 1 <=> n = 1)
    <3> DEFINE t == IF m = 1 THEN "container" ELSE "sh"
               r == IF n = 1 THEN "container" ELSE "sh"
    <3>1. t \in Types /\ r \in Types /\ (t = "container" <=> m = 1) /\ (r = "container" <=> n = 1)
      BY TypesAre
    <3>2. cs[i].name \in AnyName /\ cs[j].name \in AnyName
      BY <1>1
    <3>3. Typed(cs[i].name, t) = Typed(cs[j].name, r)
      BY <1>4, <2>1
    <3> HIDE DEF t, r
    <3>4. cs[i].name = cs[j].name /\ t = r
      BY <3>1, <3>2, <3>3, TypedIs
    <3>5. QED
      BY <3>1, <3>4
  <2>4. QED
    BY <2>2, <2>3 DEF Converted
<1>5. SlotsHave(ss, U)
  <2>1. ASSUME NEW u \in U PROVE \E i \in 1..Len(ss) : \E j \in 1..Len(ss[i]) : ss[i][j] = u
    <3>1. PICK k \in 1..Len(cs) : \/ u = us[k]
                                  \/ IsShellScript(cs[k]) /\ u = Companion(ScriptName(cs[k]))
      OBVIOUS
    <3>2. \E j \in 1..Len(ss[k]) : ss[k][j] = u
      BY <1>2, <3>1
    <3>3. QED
      BY <1>3, <3>2
  <2>2. ASSUME NEW i \in 1..Len(ss), NEW j \in 1..Len(ss[i]) PROVE ss[i][j] \in U
    <3>1. i \in 1..Len(cs)
      BY <1>3
    <3>2. \/ ss[i][j] = us[i]
          \/ IsShellScript(cs[i]) /\ ss[i][j] = Companion(ScriptName(cs[i]))
      BY <1>2, <3>1
    <3>3. QED
      BY <3>1, <3>2
  <2>3. ASSUME NEW u, NEW i \in 1..Len(ss), \E j \in 1..Len(ss[i]) : ss[i][j] = u
        PROVE  u \in U
    BY <2>2, <2>3
  <2> HIDE DEF AsUnits
  <2>4. QED
    BY <2>1, <2>3 DEF SlotsHave
<1>6. SlotsApart(ss)
    BY <1>3, <1>4 DEF SlotsApart
<1>7. QED
    BY <1>3, <1>5, <1>6, HoldsFlat

InitUs == {InitUnit(k) : k \in 1..Len(pod.inits)}
RegularUs == {RegularUnit(k) : k \in 1..Len(pod.containers)}
ScriptsOf(cs) == {Companion(ScriptName(c)) : c \in {c \in ToSet(cs) : IsShellScript(c)}}

LEMMA InitsHeld ==
    ASSUME Ready
    PROVE  /\ Holds(Flat(InitSlots), InitUs \cup ScriptsOf(pod.inits))
           /\ \A u \in InitUs \cup ScriptsOf(pod.inits) : \E k \in 1..Len(pod.inits) :
                \/ u.file = Typed(pod.inits[k].name, "container")
                \/ u.file = Typed(pod.inits[k].name, "sh") /\ u.lines = {}
<1> DEFINE cs == pod.inits
           us == [k \in 1..Len(cs) |-> InitUnit(k)]
           ss == InitSlots
           U == InitUs \cup ScriptsOf(cs)
<1>1. IInv /\ cs \in Seq(ContainerType) /\ Len(cs) \in Nat
    BY Listed DEF Ready
<1>2. \A k \in 1..Len(cs) : /\ InitUnit(k) \in UnitType
                            /\ InitUnit(k).file = Typed(cs[k].name, "container")
                            /\ cs[k].name \in AnyName
    BY InitUnitIs, Listed, AllFacts
<1>3. /\ us \in Seq(UnitType) /\ Len(us) = Len(cs)
      /\ \A k \in 1..Len(cs) : us[k] = InitUnit(k)
    BY <1>1, <1>2
<1>4. ss = [k \in 1..Len(cs) |-> <<us[k]>> \o Scripts(cs[k])]
    BY DEF InitSlots
<1>5. \A j, k \in 1..Len(cs) : cs[j].name = cs[k].name => j = k
    BY <1>1, NamesApart
<1>6. /\ U = InitUs \cup ScriptsOf(cs) /\ InitUs = {InitUnit(k) : k \in 1..Len(cs)}
      /\ \A c : c \in ToSet(cs) <=> \E k \in 1..Len(cs) : cs[k] = c
    BY <1>1, InToSet DEF InitUs
<1> HIDE DEF us, ss, U, cs
<1>7. AsUnits(cs, us, U)
  <2>1. \A u : u \in InitUs <=> \E k \in 1..Len(cs) : u = us[k]
    BY <1>3, <1>6
  <2>2. \A u : u \in ScriptsOf(cs) <=>
            \E k \in 1..Len(cs) : IsShellScript(cs[k]) /\ u = Companion(ScriptName(cs[k]))
    BY <1>6 DEF ScriptsOf
  <2>3. QED
    BY <1>6, <2>1, <2>2 DEF AsUnits
<1>8. Holds(Flat(ss), U)
  <2>1. \A k \in 1..Len(cs) : us[k].file = Typed(cs[k].name, "container")
    BY <1>2, <1>3
  <2>2. Converted(cs, us, ss)
    BY <1>1, <1>3, <1>4, <1>5, <2>1 DEF Converted
  <2>3. QED
    BY <1>7, <2>2, SlotsHeld
<1>9. \A u \in U : \E k \in 1..Len(cs) :
                \/ u.file = Typed(cs[k].name, "container")
                \/ u.file = Typed(cs[k].name, "sh") /\ u.lines = {}
  <2>1. \A k \in 1..Len(cs) : us[k].file = Typed(cs[k].name, "container")
    BY <1>2, <1>3
  <2>2. \A k \in 1..Len(cs) : /\ Companion(ScriptName(cs[k])).file = Typed(cs[k].name, "sh")
                              /\ Companion(ScriptName(cs[k])).lines = {}
    <3>1. ASSUME NEW k \in 1..Len(cs)
          PROVE  /\ ScriptName(cs[k]) \in ValueType
                 /\ ScriptName(cs[k]) = Typed(cs[k].name, "sh")
      BY <1>2, TypesAre, TypedIs DEF ScriptName
    <3>2. QED
      BY <3>1, NewUnitIs
  <2>3. QED
    BY <1>7, <2>1, <2>2 DEF AsUnits
<1>10. QED
    BY <1>8, <1>9 DEF U, cs, ss


LEMMA RegularsHeld ==
    ASSUME Ready
    PROVE  /\ Holds(Flat(RegularSlots), RegularUs \cup ScriptsOf(pod.containers))
           /\ \A u \in RegularUs \cup ScriptsOf(pod.containers) : \E k \in 1..Len(pod.containers) :
                \/ u.file = Typed(pod.containers[k].name, "container")
                \/ u.file = Typed(pod.containers[k].name, "sh") /\ u.lines = {}
<1> DEFINE cs == pod.containers
           us == [k \in 1..Len(cs) |-> RegularUnit(k)]
           ss == RegularSlots
           U == RegularUs \cup ScriptsOf(cs)
<1>1. IInv /\ cs \in Seq(ContainerType) /\ Len(cs) \in Nat
    BY Listed DEF Ready
<1>2. \A k \in 1..Len(cs) : /\ RegularUnit(k) \in UnitType
                            /\ RegularUnit(k).file = Typed(cs[k].name, "container")
                            /\ cs[k].name \in AnyName
    BY RegularUnitIs, Listed, AllFacts
<1>3. /\ us \in Seq(UnitType) /\ Len(us) = Len(cs)
      /\ \A k \in 1..Len(cs) : us[k] = RegularUnit(k)
    BY <1>1, <1>2
<1>4. ss = [k \in 1..Len(cs) |-> <<us[k]>> \o Scripts(cs[k])]
    BY DEF RegularSlots
<1>5. \A j, k \in 1..Len(cs) : cs[j].name = cs[k].name => j = k
    BY <1>1, NamesApart
<1>6. /\ U = RegularUs \cup ScriptsOf(cs) /\ RegularUs = {RegularUnit(k) : k \in 1..Len(cs)}
      /\ \A c : c \in ToSet(cs) <=> \E k \in 1..Len(cs) : cs[k] = c
    BY <1>1, InToSet DEF RegularUs
<1> HIDE DEF us, ss, U, cs
<1>7. AsUnits(cs, us, U)
  <2>1. \A u : u \in RegularUs <=> \E k \in 1..Len(cs) : u = us[k]
    BY <1>3, <1>6
  <2>2. \A u : u \in ScriptsOf(cs) <=>
            \E k \in 1..Len(cs) : IsShellScript(cs[k]) /\ u = Companion(ScriptName(cs[k]))
    BY <1>6 DEF ScriptsOf
  <2>3. QED
    BY <1>6, <2>1, <2>2 DEF AsUnits
<1>8. Holds(Flat(ss), U)
  <2>1. \A k \in 1..Len(cs) : us[k].file = Typed(cs[k].name, "container")
    BY <1>2, <1>3
  <2>2. Converted(cs, us, ss)
    BY <1>1, <1>3, <1>4, <1>5, <2>1 DEF Converted
  <2>3. QED
    BY <1>7, <2>2, SlotsHeld
<1>9. \A u \in U : \E k \in 1..Len(cs) :
                \/ u.file = Typed(cs[k].name, "container")
                \/ u.file = Typed(cs[k].name, "sh") /\ u.lines = {}
  <2>1. \A k \in 1..Len(cs) : us[k].file = Typed(cs[k].name, "container")
    BY <1>2, <1>3
  <2>2. \A k \in 1..Len(cs) : /\ Companion(ScriptName(cs[k])).file = Typed(cs[k].name, "sh")
                              /\ Companion(ScriptName(cs[k])).lines = {}
    <3>1. ASSUME NEW k \in 1..Len(cs)
          PROVE  /\ ScriptName(cs[k]) \in ValueType
                 /\ ScriptName(cs[k]) = Typed(cs[k].name, "sh")
      BY <1>2, TypesAre, TypedIs DEF ScriptName
    <3>2. QED
      BY <3>1, NewUnitIs
  <2>3. QED
    BY <1>7, <2>1, <2>2 DEF AsUnits
<1>10. QED
    BY <1>8, <1>9 DEF U, cs, ss

EnvUs == {Companion(Typed(ComputeName, "env"))}

LEMMA EnvHeld ==
    ASSUME Ready
    PROVE  Holds(EnvPart, EnvUs)
<1> DEFINE cs == pod.containers
           T == {c \in ToSet(cs) : EnvFiles(c) # {}}
           es == Select(cs, T)
           x == Companion(Typed(ComputeName, "env"))
           fs == EnvPart
<1>1. /\ IInv /\ cs \in Seq(ContainerType) /\ Len(cs) \in Nat /\ 1 \in 1..Len(cs)
      /\ cs[1].name = ComputeName
      /\ \A k \in 1..Len(cs) : cs[k] \in ToSet(All)
      /\ \A c : c \in ToSet(cs) <=> \E k \in 1..Len(cs) : cs[k] = c
  <2>1. IInv /\ cs \in Seq(ContainerType) /\ \A k \in 1..Len(cs) : cs[k] \in ToSet(All)
    BY Listed DEF Ready
  <2>2. \A c : c \in ToSet(cs) <=> \E k \in 1..Len(cs) : cs[k] = c
    BY <2>1, InToSet
  <2>3. QED
    BY <2>1, <2>2, Listed
<1>2. \A k \in 1..Len(cs) : cs[k] \in T <=> k = 1
  <2>1. \A k \in 1..Len(cs) : cs[k] = cs[1] \/ EnvFiles(cs[k]) = {}
    BY <1>1, Unprobed, HealthIs
  <2>2. EnvFiles(cs[1]) # {}
    BY HealthIs
  <2>3. \A k \in 1..Len(cs) : cs[k] = cs[1] => k = 1
    BY <1>1, NamesApart
  <2>4. QED
    BY <1>1, <2>1, <2>2, <2>3
<1>3. x \in UnitType
    BY NamesAre, NameIsAny, TypesAre, TypedIs, NewUnitIs
<1>4. fs = [k \in 1..Len(es) |-> Companion(Typed(es[k].name, "env"))]
    BY DEF EnvPart, WithEnvFile
<1> HIDE DEF cs, T, es, x, fs
<1>5. /\ es \in Seq(ContainerType)
      /\ \A k \in 1..Len(es) : \E i \in 1..Len(cs) : es[k] = cs[i] /\ cs[i] \in T
      /\ \A i \in 1..Len(cs) : cs[i] \in T => \E k \in 1..Len(es) : es[k] = cs[i]
      /\ (\A i, j \in 1..Len(cs) : cs[i] = cs[j] => i = j) =>
           \A i, j \in 1..Len(es) : es[i] = es[j] => i = j
    BY <1>1, SelectKeeps DEF es
<1>6. \A i, j \in 1..Len(es) : es[i] = es[j] => i = j
  <2>1. \A i, j \in 1..Len(cs) : cs[i] = cs[j] => i = j
    BY <1>1, NamesApart DEF cs
  <2>2. QED
    BY <1>5, <2>1
<1>7. \A k \in 1..Len(es) : es[k] = cs[1]
    BY <1>2, <1>5
<1>8. /\ Len(fs) = Len(es) /\ DOMAIN fs = 1..Len(es)
      /\ \A k \in 1..Len(es) : fs[k] = x
    BY <1>1, <1>4, <1>5, <1>7 DEF x
<1>9. fs \in Seq(UnitType)
  <2>1. Len(es) \in Nat
    BY <1>5
  <2>2. fs = [k \in 1..Len(es) |-> x]
    BY <1>1, <1>4, <1>7 DEF x
  <2>3. QED
    BY <1>3, <2>1, <2>2
<1>10. Apart(fs)
    BY <1>6, <1>7, <1>8 DEF Apart
<1>11. \A u : u \in EnvUs <=> \E k \in 1..Len(fs) : fs[k] = u
  <2>1. PICK k \in 1..Len(es) : es[k] = cs[1]
    BY <1>1, <1>2, <1>5
  <2>2. EnvUs = {x}
    BY DEF EnvUs, x
  <2>3. QED
    BY <1>8, <2>1, <2>2
<1>12. QED
    BY <1>9, <1>10, <1>11, HoldsEach DEF fs


-----------------------------------------------------------------------------
(***************************************************************************)
(* All the units, before lines are put into them.                          *)
(***************************************************************************)

NetworkUs == IF network = "" THEN {Companion(Network)} ELSE {}
UsToPod == VolumeUs \cup {ThePod}
UsToInits == UsToPod \cup (InitUs \cup ScriptsOf(pod.inits))
UsToRegulars == UsToInits \cup (RegularUs \cup ScriptsOf(pod.containers))
UsToContainers == UsToRegulars \cup EnvUs
UsToNetwork == UsToContainers \cup NetworkUs

\* Files of units of different sorts differ in type or in name.
LEMMA SortsApart ==
    ASSUME Ready
    PROVE  /\ \A u \in VolumeUs : u.file[3] \in {"volume", "tmpfs"}
           /\ ThePod.file[3] = "pod"
           /\ \A u \in InitUs \cup ScriptsOf(pod.inits) :
                u.file[3] \in {"container", "sh"}
                /\ \E k \in 1..Len(pod.inits) : <<u.file[1], u.file[2]>> = pod.inits[k].name
           /\ \A u \in RegularUs \cup ScriptsOf(pod.containers) :
                u.file[3] \in {"container", "sh"}
                /\ \E k \in 1..Len(pod.containers) : <<u.file[1], u.file[2]>> = pod.containers[k].name
           /\ \A u \in EnvUs : u.file[3] = "env" /\ u \in UnitType
           /\ \A u \in NetworkUs : u.file[3] = "network" /\ u \in UnitType
<1>1. \A n \in AnyName : /\ Typed(n, "container")[3] = "container" /\ Typed(n, "sh")[3] = "sh"
                         /\ <<Typed(n, "container")[1], Typed(n, "container")[2]>> = n
                         /\ <<Typed(n, "sh")[1], Typed(n, "sh")[2]>> = n
    BY TypesAre, TypedIs
<1>2. \A u \in VolumeUs : u.file[3] \in {"volume", "tmpfs"}
    BY VolumesHeld DEF Ready
<1>3. ThePod.file[3] = "pod"
    BY PodIs, NameIsAny, TypesAre, TypedIs
<1>4. ASSUME NEW u \in InitUs \cup ScriptsOf(pod.inits)
      PROVE  u.file[3] \in {"container", "sh"}
             /\ \E k \in 1..Len(pod.inits) : <<u.file[1], u.file[2]>> = pod.inits[k].name
  <2>1. PICK k \in 1..Len(pod.inits) : \/ u.file = Typed(pod.inits[k].name, "container")
                                       \/ u.file = Typed(pod.inits[k].name, "sh")
    BY InitsHeld
  <2>2. pod.inits[k].name \in AnyName
    BY Listed, AllFacts
  <2>3. QED
    BY <1>1, <2>1, <2>2
<1>5. ASSUME NEW u \in RegularUs \cup ScriptsOf(pod.containers)
      PROVE  u.file[3] \in {"container", "sh"}
             /\ \E k \in 1..Len(pod.containers) : <<u.file[1], u.file[2]>> = pod.containers[k].name
  <2>1. PICK k \in 1..Len(pod.containers) : \/ u.file = Typed(pod.containers[k].name, "container")
                                            \/ u.file = Typed(pod.containers[k].name, "sh")
    BY RegularsHeld
  <2>2. pod.containers[k].name \in AnyName
    BY Listed, AllFacts
  <2>3. QED
    BY <1>1, <2>1, <2>2
<1>6. \A u \in EnvUs : u.file[3] = "env" /\ u \in UnitType
  <2> DEFINE f == Typed(ComputeName, "env")
  <2>1. ComputeName \in AnyName
    BY NamesAre, NameIsAny
  <2>2. f \in ValueType /\ f[3] = "env"
    BY <2>1, TypesAre, TypedIs
  <2> HIDE DEF f
  <2>3. Companion(f) \in UnitType /\ Companion(f).file = f
    BY <2>2, NewUnitIs
  <2>4. QED
    BY <2>2, <2>3 DEF EnvUs, f
<1>7. \A u \in NetworkUs : u.file[3] = "network" /\ u \in UnitType
  <2>1. Network \in ValueType /\ (network = "" => Network = <<"network", 0, "network">>)
    BY PodIs DEF Network
  <2>2. <<"network", 0, "network">>[3] = "network"
    OBVIOUS
  <2>3. Companion(Network) \in UnitType /\ Companion(Network).file = Network
    BY <2>1, NewUnitIs
  <2>4. QED
    BY <2>1, <2>2, <2>3 DEF NetworkUs
<1>8. QED
    BY <1>2, <1>3, <1>4, <1>5, <1>6, <1>7

LEMMA FilesHeld ==
    ASSUME Ready
    PROVE  /\ Holds(ToPod, UsToPod) /\ Holds(ToInits, UsToInits)
           /\ Holds(ToContainers, UsToContainers) /\ Holds(ToNetwork, UsToNetwork)
<1>1. /\ \A u \in VolumeUs : u.file[3] \in {"volume", "tmpfs"}
      /\ ThePod.file[3] = "pod"
      /\ \A u \in InitUs \cup ScriptsOf(pod.inits) :
           u.file[3] \in {"container", "sh"}
           /\ \E k \in 1..Len(pod.inits) : <<u.file[1], u.file[2]>> = pod.inits[k].name
      /\ \A u \in RegularUs \cup ScriptsOf(pod.containers) :
           u.file[3] \in {"container", "sh"}
           /\ \E k \in 1..Len(pod.containers) : <<u.file[1], u.file[2]>> = pod.containers[k].name
      /\ \A u \in EnvUs : u.file[3] = "env" /\ u \in UnitType
      /\ \A u \in NetworkUs : u.file[3] = "network" /\ u \in UnitType
    BY SortsApart
<1>2. \A j \in 1..Len(pod.inits), k \in 1..Len(pod.containers) :
        pod.inits[j].name # pod.containers[k].name
    BY NamesApart DEF Ready
<1>3. Holds(ToPod, UsToPod)
  <2>1. Holds(VolumePart, VolumeUs) /\ ThePod \in UnitType
    BY VolumesHeld, PodIs DEF Ready
  <2>2. \A u \in VolumeUs : u.file # ThePod.file
    BY <1>1
  <2>3. QED
    BY <2>1, <2>2, HoldsAppend DEF ToPod, UsToPod
<1>4. Holds(ToInits, UsToInits)
  <2> DEFINE U == UsToPod
             V == InitUs \cup ScriptsOf(pod.inits)
             b == Flat(InitSlots)
  <2>1. Holds(b, V)
    BY InitsHeld
  <2>2. \A u \in U, v \in V : u.file # v.file
    BY <1>1 DEF UsToPod
  <2>3. ToInits = ToPod \o b /\ UsToInits = U \cup V
    BY DEF ToInits, UsToInits
  <2> HIDE DEF U, V, b
  <2>4. Holds(ToPod, U)
    BY <1>3 DEF U
  <2>5. Holds(ToPod \o b, U \cup V)
    BY <2>1, <2>2, <2>4, HoldsConcat
  <2>6. QED
    BY <2>3, <2>5
<1>5. Holds(ToInits \o Flat(RegularSlots), UsToRegulars)
  <2> DEFINE U == UsToInits
             V == RegularUs \cup ScriptsOf(pod.containers)
             b == Flat(RegularSlots)
  <2>1. Holds(b, V)
    BY RegularsHeld
  <2>2. \A u \in U, v \in V : u.file # v.file
    <3>1. ASSUME NEW u \in InitUs \cup ScriptsOf(pod.inits), NEW v \in V PROVE u.file # v.file
      <4>1. PICK j \in 1..Len(pod.inits) : <<u.file[1], u.file[2]>> = pod.inits[j].name
        BY <1>1
      <4>2. PICK k \in 1..Len(pod.containers) : <<v.file[1], v.file[2]>> = pod.containers[k].name
        BY <1>1
      <4>3. pod.inits[j].name # pod.containers[k].name
        BY <1>2
      <4>4. QED
        BY <4>1, <4>2, <4>3
    <3>2. ASSUME NEW u \in VolumeUs \cup {ThePod}, NEW v \in V PROVE u.file # v.file
      BY <1>1
    <3>3. QED
      BY <3>1, <3>2 DEF UsToInits, UsToPod
  <2>3. UsToRegulars = U \cup V
    BY DEF UsToRegulars
  <2> HIDE DEF U, V, b
  <2>4. Holds(ToInits, U)
    BY <1>4 DEF U
  <2>5. Holds(ToInits \o b, U \cup V)
    BY <2>1, <2>2, <2>4, HoldsConcat
  <2>6. QED
    BY <2>3, <2>5 DEF b
<1>6. Holds(ToContainers, UsToContainers)
  <2> DEFINE U == UsToRegulars
             a == ToInits \o Flat(RegularSlots)
  <2>1. Holds(EnvPart, EnvUs)
    BY EnvHeld
  <2>2. \A u \in U, v \in EnvUs : u.file # v.file
    BY <1>1 DEF UsToRegulars, UsToInits, UsToPod
  <2>3. ToContainers = a \o EnvPart /\ UsToContainers = U \cup EnvUs
    BY DEF ToContainers, UsToContainers
  <2> HIDE DEF U, a
  <2>4. Holds(a, U)
    BY <1>5 DEF U, a
  <2>5. Holds(a \o EnvPart, U \cup EnvUs)
    BY <2>1, <2>2, <2>4, HoldsConcat
  <2>6. QED
    BY <2>3, <2>5
<1>7. Holds(ToNetwork, UsToNetwork)
  <2>1. CASE network = ""
    <3>1. NetworkUs = {Companion(Network)} /\ ToNetwork = Append(ToContainers, Companion(Network))
      BY <2>1 DEF NetworkUs, ToNetwork
    <3>2. Companion(Network) \in UnitType /\ Companion(Network).file[3] = "network"
      BY <1>1, <3>1
    <3>3. \A u \in UsToContainers : u.file # Companion(Network).file
      BY <1>1, <3>2 DEF UsToContainers, UsToRegulars, UsToInits, UsToPod
    <3>4. QED
      BY <1>6, <3>1, <3>2, <3>3, HoldsAppend DEF UsToNetwork
  <2>2. CASE network # ""
    BY <1>6, <2>2 DEF NetworkUs, ToNetwork, UsToNetwork
  <2>3. QED
    BY <2>1, <2>2
<1>8. QED
    BY <1>3, <1>4, <1>6, <1>7


-----------------------------------------------------------------------------
(***************************************************************************)
(* The two units that lines are put into.                                  *)
(***************************************************************************)

Published == IF Ports = {} THEN ThePod ELSE InsertBeforeSection(ThePod, "Install", PortLines)
Compute1 == RegularUnit(1)
Patched ==
    IF "passt" \in opts THEN InsertBeforeSection(Compute1, "Service", {PathLine}) ELSE Compute1

UsToPorts == (UsToNetwork \ {ThePod}) \cup {Published}
UsToPath == (UsToPorts \ {Compute1}) \cup {Patched}

LEMMA PublishedIs ==
    ASSUME Ready
    PROVE  /\ Published \in UnitType /\ Published.file = Typed(PodName, "pod")
           /\ PortLines \in SUBSET KeyValue
           /\ \E g \in Groups : Published.lines = ThePod.lines \cup LinesOf(g, PortLines)
<1>1. ThePod \in UnitType /\ ThePod.file = Typed(PodName, "pod") /\ Len(ThePod.groups) > 0
    BY PodIs
<1>2. PortLines \in SUBSET KeyValue
  <2>1. \A p \in Ports : p = "vnc" \/ p = "serial"
    BY DEF Ports
  <2>2. <<"vnc", 0, "value">> \in ValueType /\ <<"serial", 0, "value">> \in ValueType
    <3>1. "vnc" \in Words /\ "serial" \in Words
      BY WordsAre
    <3>2. "value" \in Types
      BY TypesAre
    <3>3. QED
      BY <3>1, <3>2 DEF ValueType
  <2>3. /\ <<"PublishPort", <<"vnc", 0, "value">>>> \in KeyValue
        /\ <<"PublishPort", <<"serial", 0, "value">>>> \in KeyValue
    BY <2>2, KeysAre, PairsAre
  <2>4. QED
    BY <2>1, <2>3 DEF PortLines
<1>3. CASE Ports = {}
  <2>1. LinesOf("Pod", PortLines) = {}
    BY <1>3 DEF PortLines, LinesOf
  <2>2. Published = ThePod
    BY <1>3 DEF Published
  <2>3. QED
    BY <1>1, <1>2, <2>1, <2>2, GroupsAre
<1>4. CASE Ports # {}
  <2> DEFINE w == InsertBeforeSection(ThePod, "Install", PortLines)
  <2>1. w \in UnitType /\ w.file = ThePod.file
    BY <1>1, <1>2, InsertIs
  <2>2. \E g \in Groups : w.lines = ThePod.lines \cup LinesOf(g, PortLines)
    BY <1>1, <1>2, InsertIs
  <2>3. Published = w
    BY <1>4 DEF Published
  <2> HIDE DEF w
  <2>4. QED
    BY <1>1, <1>2, <2>1, <2>2, <2>3
<1>5. QED
    BY <1>3, <1>4

PathLines == IF "passt" \in opts THEN {PathLine} ELSE {}

Ends(S, s, x, w) == s \in Seq(S) /\ x \in S /\ w = Append(s, x)

LEMMA OneMore ==
    ASSUME NEW S, NEW s, NEW x, NEW w, Ends(S, s, x, w)
    PROVE  /\ w \in Seq(S) /\ Len(w) = Len(s) + 1 /\ w[Len(s) + 1] = x
           /\ \A k \in 1..Len(s) : w[k] = s[k]
BY DEF Ends

LEMMA PatchedIs ==
    ASSUME Ready
    PROVE  /\ Compute1 \in UnitType /\ Compute1.file = Typed(ComputeName, "container")
           /\ Len(Compute1.groups) > 0 /\ Compute1 \in RegularUs
           /\ Patched \in UnitType /\ Patched.file = Typed(ComputeName, "container")
           /\ Patched.lines = Compute1.lines \cup LinesOf("Container", PathLines)
           /\ {PathLine} \in SUBSET KeyValue /\ PathLines \in SUBSET KeyValue
<1> DEFINE e == Compute1
           gs == Append(Append(<<"Unit", "Container">>, "Service"), "Install")
           w == InsertBeforeSection(e, "Service", {PathLine})
<1>1. 1 \in 1..Len(pod.containers) /\ pod.containers[1].name = ComputeName
    BY Listed
<1>2. /\ e \in UnitType /\ e.file = Typed(ComputeName, "container")
      /\ e.groups = gs /\ e \in RegularUs
    BY <1>1, RegularUnitIs DEF Compute1, RegularUs
<1>3. {PathLine} \in SUBSET KeyValue
  <2>1. Value("PATH=/passt-bin") \in ValueType
    BY WordsAre, ValueIs
  <2>2. <<"Environment", Value("PATH=/passt-bin")>> \in KeyValue
    BY <2>1, KeysAre, PairsAre
  <2>3. QED
    BY <2>2 DEF PathLine
<1>4. /\ Len(gs) = 4 /\ gs[2] = "Container" /\ gs[3] = "Service" /\ gs[4] = "Install"
  <2> DEFINE a == <<"Unit", "Container">>
             x == "Service"
             y == "Install"
             b == Append(a, x)
  <2>1. a \in Seq(Groups) /\ Len(a) = 2 /\ a[2] = "Container"
    BY GroupsAre
  <2>2. gs = Append(b, y) /\ x \in Groups /\ y \in Groups
    BY GroupsAre
  <2> HIDE DEF a, gs, x, y
  <2>3. b \in Seq(Groups) /\ Len(b) = 3 /\ b[2] = "Container" /\ b[3] = "Service"
    <3>1. Ends(Groups, a, x, b)
      BY <2>1, <2>2 DEF Ends
    <3> HIDE DEF b
    <3>2. /\ b \in Seq(Groups) /\ Len(b) = Len(a) + 1 /\ b[Len(a) + 1] = x
          /\ \A k \in 1..Len(a) : b[k] = a[k]
      BY <3>1, OneMore
    <3>3. QED
      BY <2>1, <3>2 DEF x
  <2> HIDE DEF b
  <2>4. /\ Len(gs) = Len(b) + 1 /\ gs[Len(b) + 1] = y /\ \A k \in 1..Len(b) : gs[k] = b[k]
    <3>1. Ends(Groups, b, y, gs)
      BY <2>2, <2>3 DEF Ends
    <3>2. QED
      BY <3>1, OneMore
  <2>5. QED
    BY <2>3, <2>4 DEF y
<1> HIDE DEF e, gs
<1>5. Len(e.groups) > 0 /\ 3 \in 2..Len(e.groups) /\ e.groups[3] = "Service"
      /\ e.groups[3 - 1] = "Container"
      /\ \A j \in 2..Len(e.groups) : e.groups[j] = "Service" => j = 3
    BY <1>2, <1>4
<1>6. /\ w \in UnitType /\ w.file = e.file
      /\ w.lines = e.lines \cup LinesOf("Container", {PathLine})
  <2>1. /\ w \in UnitType /\ w.file = e.file
        /\ \A k \in 2..Len(e.groups) :
             e.groups[k] = "Service" /\ (\A j \in 2..Len(e.groups) : e.groups[j] = "Service" => j = k)
               => w.lines = e.lines \cup LinesOf(e.groups[k - 1], {PathLine})
    BY <1>2, <1>3, <1>5, InsertIs
  <2> HIDE DEF w
  <2>2. w.lines = e.lines \cup LinesOf(e.groups[3 - 1], {PathLine})
    BY <1>5, <2>1
  <2>3. QED
    BY <1>5, <2>1, <2>2
<1>7. CASE "passt" \in opts
  <2>1. Patched = w /\ PathLines = {PathLine}
    BY <1>7 DEF Patched, PathLines, e
  <2> HIDE DEF w
  <2>2. QED
    BY <1>2, <1>3, <1>5, <1>6, <2>1 DEF e
<1>8. CASE "passt" \notin opts
  <2>1. Patched = e /\ PathLines = {} /\ LinesOf("Container", PathLines) = {}
    BY <1>8 DEF Patched, PathLines, e, LinesOf
  <2>2. QED
    BY <1>2, <1>3, <1>5, <2>1 DEF e
<1>9. QED
    BY <1>7, <1>8

LEMMA EditsHeld ==
    ASSUME Ready
    PROVE  Holds(ToPorts, UsToPorts) /\ Holds(ToPath, UsToPath)
<1>1. Holds(ToNetwork, UsToNetwork)
    BY FilesHeld
<1>2. /\ ThePod \in UnitType /\ ThePod.file = Typed(PodName, "pod") /\ Len(ThePod.groups) > 0
      /\ PortLines \in SUBSET KeyValue
    BY PodIs, PublishedIs
<1>3. /\ Compute1 \in UnitType /\ Compute1.file = Typed(ComputeName, "container")
      /\ Len(Compute1.groups) > 0 /\ Compute1 \in RegularUs /\ {PathLine} \in SUBSET KeyValue
    BY PatchedIs
<1>4. ThePod \in UsToNetwork /\ Compute1 \in UsToNetwork
    BY <1>3 DEF UsToNetwork, UsToContainers, UsToRegulars, UsToInits, UsToPod
<1>5. Compute1 # ThePod
  <2>1. Typed(PodName, "pod")[3] = "pod" /\ Typed(ComputeName, "container")[3] = "container"
    BY NamesAre, NameIsAny, TypesAre, TypedIs
  <2>2. QED
    BY <1>2, <1>3, <2>1
<1>6. Holds(ToPorts, UsToPorts)
  <2>1. CASE Ports = {}
    <3>1. UsToPorts = UsToNetwork /\ ToPorts = ToNetwork
      BY <1>4, <2>1 DEF UsToPorts, ToPorts, Published
    <3>2. QED
      BY <1>1, <3>1
  <2>2. CASE Ports # {}
    <3> DEFINE e == ThePod
               w == InsertBeforeSection(e, "Install", PortLines)
    <3>1. ToPorts = EditedIn(ToNetwork, e.file, "Install", PortLines)
      BY <1>2, <2>2 DEF ToPorts
    <3>2. UsToPorts = (UsToNetwork \ {e}) \cup {w}
      BY <2>2 DEF UsToPorts, Published
    <3>3. e \in UsToNetwork /\ Len(e.groups) > 0
      BY <1>2, <1>4
    <3> HIDE DEF e
    <3>4. Holds(EditedIn(ToNetwork, e.file, "Install", PortLines), (UsToNetwork \ {e}) \cup {w})
      BY <1>1, <1>2, <3>3, HoldsEdited
    <3>5. QED
      BY <3>1, <3>2, <3>4
  <2>3. QED
    BY <2>1, <2>2
<1>7. Compute1 \in UsToPorts
    BY <1>4, <1>5 DEF UsToPorts
<1>8. Holds(ToPath, UsToPath)
  <2>1. CASE "passt" \notin opts
    <3>1. UsToPath = UsToPorts /\ ToPath = ToPorts
      BY <1>7, <2>1 DEF UsToPath, ToPath, Patched
    <3>2. QED
      BY <1>6, <3>1
  <2>2. CASE "passt" \in opts
    <3> DEFINE e == Compute1
               w == InsertBeforeSection(e, "Service", {PathLine})
    <3>1. ToPath = EditedIn(ToPorts, e.file, "Service", {PathLine})
      BY <1>3, <2>2 DEF ToPath
    <3>2. UsToPath = (UsToPorts \ {e}) \cup {w}
      BY <2>2 DEF UsToPath, Patched
    <3>3. e \in UsToPorts /\ Len(e.groups) > 0
      BY <1>3, <1>7
    <3> HIDE DEF e
    <3>4. Holds(EditedIn(ToPorts, e.file, "Service", {PathLine}), (UsToPorts \ {e}) \cup {w})
      BY <1>3, <1>6, <3>3, HoldsEdited
    <3>5. QED
      BY <3>1, <3>2, <3>4
  <2>3. QED
    BY <2>1, <2>2
<1>9. QED
    BY <1>6, <1>8


-----------------------------------------------------------------------------
(***************************************************************************)
(* The files after each stage are the ones that CInv says.                 *)
(***************************************************************************)

LEMMA InitConverted ==
    ASSUME ConvertInit
    PROVE  CInv
<1>1. Init /\ network = "" /\ stage = "fixups" /\ files = <<>>
    BY DEF ConvertInit
<1>2. IInv /\ Extras
    BY <1>1, InitInv, InitExtras
<1>3. FilesAt("fixups") = <<>> /\ "fixups" \in Stages
    BY DEF FilesAt, Stages
<1>4. QED
    BY <1>1, <1>2, <1>3 DEF CInv

\* The conversion only reads the pod.
LEMMA FilesSteady ==
    ASSUME pod' = pod, opts' = opts, network' = network
    PROVE  /\ VolumePart' = VolumePart /\ ToPod' = ToPod /\ ToInits' = ToInits
           /\ ToContainers' = ToContainers /\ ToNetwork' = ToNetwork /\ ToPorts' = ToPorts
           /\ ToPath' = ToPath
<1>1. Claimed' = Claimed /\ Network' = Network /\ Ports' = Ports
    BY DEF Claimed, Network, Ports
<1>2. VolumePart' = VolumePart
    BY <1>1 DEF VolumePart, VolumeUnit, VolumeFile
<1>3. ThePod' = ThePod
  <2>1. PodLines' = PodLines /\ Grace' = Grace /\ Wanted' = Wanted
    BY <1>1 DEF PodLines, Grace, Wanted
  <2>2. Anchors' = Anchors
    BY DEF Anchors, Scratch, VolumeFile
  <2>3. QED
    BY <2>1, <2>2 DEF ThePod
<1>4. \A c : ContainerUnit(c)' = ContainerUnit(c)
  <2> TAKE c
  <2>1. \A m : MountLine(m)' = MountLine(m)
    BY DEF MountLine, VolumeOf, VolumeFile
  <2>2. HealthLines(c)' = HealthLines(c)
    BY DEF HealthLines
  <2>3. QED
    BY <2>1, <2>2 DEF ContainerUnit
<1>5. \A k : InitUnit(k)' = InitUnit(k)
    BY <1>4 DEF InitUnit
<1>6. \A k : RegularUnit(k)' = RegularUnit(k)
    BY <1>4 DEF RegularUnit, RestartLines, Names
<1>7. InitSlots' = InitSlots
    BY <1>5 DEF InitSlots
<1>8. RegularSlots' = RegularSlots
    BY <1>6 DEF RegularSlots
<1>9. EnvPart' = EnvPart
    BY DEF EnvPart, WithEnvFile
<1>10. ToPod' = ToPod
    BY <1>2, <1>3 DEF ToPod
<1>11. ToInits' = ToInits
    BY <1>7, <1>10 DEF ToInits
<1>12. ToContainers' = ToContainers
    BY <1>8, <1>9, <1>11 DEF ToContainers
<1>13. ToNetwork' = ToNetwork
    BY <1>1, <1>12 DEF ToNetwork
<1>14. ToPorts' = ToPorts
    BY <1>1, <1>13 DEF ToPorts, PortLines
<1>15. ToPath' = ToPath
    BY <1>14 DEF ToPath, PathLine
<1>16. QED
    BY <1>2, <1>10, <1>11, <1>12, <1>13, <1>14, <1>15

\* The first file of a name is the only one.
LEMMA EditIs ==
    ASSUME Apart(files), NEW file, NEW section, NEW kvs
    PROVE  Edit(file, section, kvs) = EditedIn(files, file, section, kvs)
<1> DEFINE found == {k \in 1..Len(files) : files[k].file = file}
<1>1. \A k \in 1..Len(files) : (k \in found /\ \A j \in found : k <= j) <=> files[k].file = file
    BY DEF Apart
<1>2. QED
    BY <1>1 DEF Edit, EditedIn

LEMMA StageIs ==
    /\ \A s : s \in {"fixups", "volumes"} => FilesAt(s) = <<>>
    /\ FilesAt("pod") = VolumePart /\ FilesAt("inits") = ToPod /\ FilesAt("containers") = ToInits
    /\ FilesAt("network") = ToContainers /\ FilesAt("ports") = ToNetwork
    /\ FilesAt("path") = ToPorts /\ FilesAt("written") = ToPath
BY DEF FilesAt

LEMMA StageNext ==
    /\ FilesAt("volumes")' = <<>>
    /\ FilesAt("pod")' = VolumePart' /\ FilesAt("inits")' = ToPod'
    /\ FilesAt("containers")' = ToInits' /\ FilesAt("network")' = ToContainers'
    /\ FilesAt("ports")' = ToNetwork' /\ FilesAt("path")' = ToPorts' /\ FilesAt("written")' = ToPath'
BY DEF FilesAt

\* The grace period is no part of what step 5 keeps up.
LEMMA FixupsConverted ==
    ASSUME CInv, Fixups
    PROVE  CInv'
<1>1. /\ IInv /\ Extras /\ files = <<>> /\ step = "done" /\ stage' = "volumes"
      /\ network' \in {"", "shared"} /\ pod' = [pod EXCEPT !.grace = "120"]
      /\ step' = step /\ vm' = vm /\ opts' = opts /\ files' = files
    BY StageIs DEF CInv, Fixups
<1>2. TypeOK /\ ContainersFit /\ pod.inits = InitsAt(step) /\ VolumesFit /\ ComputeMountsFit
    BY <1>1 DEF IInv
<1>3. pod \in PodType
    BY <1>2 DEF TypeOK
<1>4. /\ pod' \in PodType /\ pod'.containers = pod.containers /\ pod'.inits = pod.inits
      /\ pod'.volumes = pod.volumes /\ pod'.restart = pod.restart
    BY <1>1, <1>3 DEF PodType
<1>5. ContainersFit'
  <2>1. SidecarsAt(step)' = SidecarsAt(step)
    BY <1>1 DEF SidecarsAt
  <2>2. Names(pod.containers)' = Names(pod.containers)
    BY <1>4 DEF Names
  <2>3. QED
    BY <1>2, <1>4, <2>1, <2>2 DEF ContainersFit
<1>6. VolumesFit'
    BY <1>1, <1>2, <1>4, VolumesKept
<1>7. ComputeMountsFit'
  <2>1. Names(pod'.volumes) = Names(pod.volumes)
    BY <1>4
  <2>2. ToSet(Names(pod.volumes)) \subseteq ToSet(Names(pod'.volumes))
    BY <2>1
  <2>3. QED
    BY <1>1, <1>2, <1>4, <2>2, MountsKept
<1>8. IInv'
  <2>1. step' \in Steps /\ pod'.inits = InitsAt(step')
    BY <1>1, <1>2, <1>4 DEF TypeOK
  <2>2. QED
    BY <1>1, <1>2, <1>4, <1>5, <1>6, <1>7, <2>1, InvNext
<1>9. Extras'
  <2>1. ComputeProbe(step)' = ComputeProbe(step)
    BY <1>1 DEF ComputeProbe
  <2>2. /\ pod'.containers[1].probe = ComputeProbe(step)'
        /\ step' = "done" => pod'.containers[1].env # {}
        /\ step' \notin ToCleanup => pod'.restart = "on-failure"
    BY <1>1, <1>4, <2>1 DEF Extras
  <2>3. QED
    BY <1>1, <1>4, <2>2, ExtrasNext
<1>10. "volumes" \in Stages /\ FilesAt("volumes")' = <<>>
    BY StageNext DEF Stages
<1>11. QED
    BY <1>1, <1>8, <1>9, <1>10 DEF CInv

\* What the other stages have in common.
LEMMA StageConverted ==
    ASSUME CInv, NEW s \in Stages, NEW next \in Stages \ {"fixups"}, s # "fixups", AtStage(s, next)
    PROVE  /\ Ready /\ files = FilesAt(s)
           /\ files' = FilesAt(next)' => CInv'
           /\ pod' = pod /\ opts' = opts /\ network' = network
<1>1. /\ step = "done" /\ stage = s /\ stage' = next /\ UNCHANGED podVars /\ network' = network
      /\ IInv /\ Extras /\ network \in {"", "shared"} /\ files = FilesAt(stage)
    BY DEF AtStage, CInv
<1>2. Ready
    BY <1>1 DEF Ready
<1>3. IInv' /\ Extras'
    BY <1>1, StutterInv, NextExtras
<1>4. step' = step /\ pod' = pod /\ opts' = opts /\ vm' = vm
    BY <1>1 DEF podVars
<1>5. ASSUME files' = FilesAt(next)'
      PROVE  CInv'
  <2>1. files' = FilesAt(stage)'
    BY <1>1, <1>5 DEF FilesAt
  <2>2. QED
    BY <1>1, <1>3, <1>4, <2>1 DEF CInv
<1>6. QED
    BY <1>1, <1>2, <1>4, <1>5


LEMMA NextConverted ==
    ASSUME CInv, [ConvertNext]_vars
    PROVE  CInv'
<1>1. CASE Adapt /\ UNCHANGED convVars
  <2>1. network' = network /\ stage' = stage /\ files' = files
    BY <1>1 DEF convVars
  <2>2. IInv' /\ Extras'
    BY <1>1, NextInv, NextExtras DEF CInv, Next
  <2>3. step # "done"
    BY <1>1 DEF Adapt, SerialProxy, VNCProxy, MountHostDevices, DataVolumeInits, Cleanup, DirInit,
                PasstPatcher, PersistentState, ReadinessProbe, ComputeEnv, At
  <2>4. stage = "fixups" /\ files = <<>>
    BY <2>3, StageIs DEF CInv
  <2>5. FilesAt(stage)' = <<>>
    BY <2>1, <2>4 DEF FilesAt
  <2>6. QED
    BY <2>1, <2>2, <2>4, <2>5 DEF CInv
<1>2. CASE Fixups
    BY <1>2, FixupsConverted
<1> USE DEF Stages
<1>3. CASE VolumeUnits
  <2>1. AtStage("volumes", "pod") /\ files' = VolumePart
    BY <1>3 DEF VolumeUnits, VolumePart, Claimed
  <2>2. /\ files' = FilesAt("pod")' => CInv'
        /\ pod' = pod /\ opts' = opts /\ network' = network
    BY <2>1, StageConverted
  <2>3. QED
    BY <2>1, <2>2, FilesSteady, StageNext
<1>4. CASE PodUnit
  <2>1. AtStage("pod", "inits") /\ files' = Append(files, ThePod)
    BY <1>4 DEF PodUnit, ThePod, PodLines, Grace, Anchors, Scratch, Wanted
  <2>2. /\ files = FilesAt("pod")
        /\ files' = FilesAt("inits")' => CInv'
        /\ pod' = pod /\ opts' = opts /\ network' = network
    BY <2>1, StageConverted
  <2>3. files' = ToPod
    BY <2>1, <2>2, StageIs DEF ToPod
  <2>4. QED
    BY <2>2, <2>3, FilesSteady, StageNext
<1>5. CASE InitUnits
  <2>1. AtStage("inits", "containers") /\ files' = files \o Flat(InitSlots)
    BY <1>5 DEF InitUnits, InitSlots
  <2>2. /\ files = FilesAt("inits")
        /\ files' = FilesAt("containers")' => CInv'
        /\ pod' = pod /\ opts' = opts /\ network' = network
    BY <2>1, StageConverted
  <2>3. files' = ToInits
    BY <2>1, <2>2, StageIs DEF ToInits
  <2>4. QED
    BY <2>2, <2>3, FilesSteady, StageNext
<1>6. CASE ContainerUnits
  <2>1. AtStage("containers", "network") /\ files' = files \o Flat(RegularSlots) \o EnvPart
    BY <1>6 DEF ContainerUnits, RegularSlots, EnvPart, WithEnvFile
  <2>2. /\ files = FilesAt("containers")
        /\ files' = FilesAt("network")' => CInv'
        /\ pod' = pod /\ opts' = opts /\ network' = network
    BY <2>1, StageConverted
  <2>3. files' = ToContainers
    BY <2>1, <2>2, StageIs DEF ToContainers
  <2>4. QED
    BY <2>2, <2>3, FilesSteady, StageNext
<1>7. CASE NetworkUnit
  <2>1. /\ AtStage("network", "ports")
        /\ files' = IF network = "" THEN Append(files, Companion(Network)) ELSE files
    BY <1>7 DEF NetworkUnit
  <2>2. /\ files = FilesAt("network")
        /\ files' = FilesAt("ports")' => CInv'
        /\ pod' = pod /\ opts' = opts /\ network' = network
    BY <2>1, StageConverted
  <2>3. files' = ToNetwork
    BY <2>1, <2>2, StageIs DEF ToNetwork
  <2>4. QED
    BY <2>2, <2>3, FilesSteady, StageNext
<1>8. CASE PublishPorts
  <2>1. /\ AtStage("ports", "path")
        /\ files' = IF Ports = {} THEN files ELSE Edit(Typed(PodName, "pod"), "Install", PortLines)
    BY <1>8 DEF PublishPorts, PortLines
  <2>2. /\ Ready /\ files = FilesAt("ports")
        /\ files' = FilesAt("path")' => CInv'
        /\ pod' = pod /\ opts' = opts /\ network' = network
    BY <2>1, StageConverted
  <2>3. files = ToNetwork
    BY <2>2, StageIs
  <2>4. Apart(files)
    BY <2>2, <2>3, FilesHeld DEF Holds
  <2>5. files' = ToPorts
    BY <2>1, <2>3, <2>4, EditIs DEF ToPorts
  <2>6. QED
    BY <2>2, <2>5, FilesSteady, StageNext
<1>9. CASE PasstPath
  <2>1. /\ AtStage("path", "written")
        /\ files' = IF "passt" \in opts
                    THEN Edit(Typed(ComputeName, "container"), "Service", {PathLine})
                    ELSE files
    BY <1>9 DEF PasstPath
  <2>2. /\ Ready /\ files = FilesAt("path")
        /\ files' = FilesAt("written")' => CInv'
        /\ pod' = pod /\ opts' = opts /\ network' = network
    BY <2>1, StageConverted
  <2>3. files = ToPorts
    BY <2>2, StageIs
  <2>4. Apart(files)
    BY <2>2, <2>3, EditsHeld DEF Holds
  <2>5. files' = ToPath
    BY <2>1, <2>3, <2>4, EditIs DEF ToPath
  <2>6. QED
    BY <2>2, <2>5, FilesSteady, StageNext
<1>10. CASE Written \/ UNCHANGED vars
  <2>1. UNCHANGED podVars /\ network' = network /\ stage' = stage /\ files' = files
    BY <1>10 DEF Written, vars, convVars
  <2>2. step' = step /\ pod' = pod /\ opts' = opts
    BY <2>1 DEF podVars
  <2>3. IInv' /\ Extras'
    BY <2>1, StutterInv, NextExtras DEF CInv
  <2>4. FilesAt(stage)' = FilesAt(stage)
    BY <2>1, <2>2, FilesSteady DEF FilesAt
  <2>5. QED
    BY <2>1, <2>2, <2>3, <2>4 DEF CInv
<1>11. QED
    BY <1>1, <1>2, <1>3, <1>4, <1>5, <1>6, <1>7, <1>8, <1>9, <1>10 DEF ConvertNext, ConvertStep

\* After every stage the files are exactly the ones that the pod, the options
\* and the network call for, with the lines that the last two stages put into
\* the units of the pod and of compute.
THEOREM Conversion == ConvertSpec => []CInv
<1>1. ConvertInit => CInv
    BY InitConverted
<1>2. CInv /\ [ConvertNext]_vars => CInv'
    BY NextConverted
<1>3. QED
    BY <1>1, <1>2, PTL DEF ConvertSpec

-----------------------------------------------------------------------------
(***************************************************************************)
(* Properties of the files.                                                *)
(***************************************************************************)

LEMMA ApartAlways ==
    ASSUME CInv
    PROVE  files \in Seq(UnitType) /\ Apart(files)
<1>1. stage = "fixups" \/ Ready
    BY DEF CInv, Ready
<1>2. CASE files = <<>>
    BY <1>2, HoldsNone DEF Holds
<1>3. CASE Ready
  <2>1. \E U : Holds(VolumePart, U)
    BY <1>3, VolumesHeld DEF Ready
  <2>2. \E U : Holds(files, U)
    BY <1>3, <2>1, HoldsNone, FilesHeld, EditsHeld DEF CInv, Stages, FilesAt
  <2>3. QED
    BY <2>2 DEF Holds
<1>4. QED
    BY <1>1, <1>2, <1>3, StageIs DEF CInv

\* No two files that are written have a name in common, at any stage: no unit,
\* script, network or environment file overwrites another.
THEOREM FilesAlwaysDistinct == ConvertSpec => []FilesDistinct
<1>1. ASSUME CInv PROVE FilesDistinct
  <2>1. files \in Seq(UnitType) /\ Apart(files)
    BY <1>1, ApartAlways
  <2>2. DOMAIN [k \in 1..Len(files) |-> files[k].file] = 1..Len(files)
    OBVIOUS
  <2>3. QED
    BY <2>1, <2>2 DEF FilesDistinct, IsInjective, Apart
<1>2. QED
    BY <1>1, Conversion, PTL


-----------------------------------------------------------------------------
(***************************************************************************)
(* Units are found by their files once all are written.                    *)
(***************************************************************************)

LEMMA AllWritten ==
    ASSUME CInv, stage = "written"
    PROVE  Ready /\ Holds(files, UsToPath)
<1>1. Ready /\ files = ToPath
    BY StageIs DEF CInv, Ready
<1>2. QED
    BY <1>1, EditsHeld

LEMMA FoundAs ==
    ASSUME CInv, stage = "written", NEW u \in UsToPath
    PROVE  UnitOf(u.file) = u /\ u.file \in OutputFiles
<1>1. /\ files \in Seq(UnitType) /\ ToSet(files) = UsToPath
      /\ \A x : x \in UsToPath <=> \E k \in 1..Len(files) : files[k] = x
      /\ \A x, y \in UsToPath : x.file = y.file => x = y
    BY AllWritten, HeldIs DEF Holds
<1>2. UnitOf(u.file) = u
    BY <1>1 DEF UnitOf
<1>3. u.file \in OutputFiles
    BY <1>1 DEF OutputFiles
<1>4. QED
    BY <1>2, <1>3

\* The edits change no file.
LEMMA OutputsAre ==
    ASSUME CInv, stage = "written"
    PROVE  \A f : f \in OutputFiles <=> \E u \in UsToNetwork : u.file = f
<1>1. /\ Published.file = Typed(PodName, "pod") /\ ThePod.file = Typed(PodName, "pod")
      /\ Patched.file = Typed(ComputeName, "container")
      /\ Compute1.file = Typed(ComputeName, "container")
    BY AllWritten, PodIs, PublishedIs, PatchedIs
<1>2. ThePod \in UsToNetwork /\ Compute1 \in UsToNetwork
    BY AllWritten, PatchedIs DEF UsToNetwork, UsToContainers, UsToRegulars, UsToInits, UsToPod
<1>3. \A x : x \in UsToPath <=> \E k \in 1..Len(files) : files[k] = x
    BY AllWritten, HeldIs
<1>4. \A f : f \in OutputFiles <=> \E x \in UsToPath : x.file = f
    BY <1>3 DEF OutputFiles
<1>5. ASSUME NEW x \in UsToPath PROVE \E u \in UsToNetwork : u.file = x.file
    BY <1>1, <1>2 DEF UsToPath, UsToPorts
<1>6. ASSUME NEW u \in UsToNetwork PROVE \E x \in UsToPath : x.file = u.file
  <2>1. CASE u = ThePod
    <3>1. Published \in UsToPath
      <4>1. Typed(PodName, "pod")[3] = "pod" /\ Typed(ComputeName, "container")[3] = "container"
        BY NamesAre, NameIsAny, TypesAre, TypedIs
      <4>2. Published # Compute1
        BY <1>1, <4>1
      <4>3. QED
        BY <4>2 DEF UsToPath, UsToPorts
    <3>2. QED
      BY <1>1, <2>1, <3>1
  <2>2. CASE u = Compute1
    BY <1>1, <2>2 DEF UsToPath
  <2>3. CASE u # ThePod /\ u # Compute1
    BY <2>3 DEF UsToPath, UsToPorts
  <2>4. QED
    BY <2>1, <2>2, <2>3
<1>7. QED
    BY <1>4, <1>5, <1>6

LEMMA FilesThere ==
    ASSUME CInv, stage = "written"
    PROVE  /\ \A v \in Placed : VolumeFile(v) \in OutputFiles
           /\ Typed(PodName, "pod") \in OutputFiles
           /\ \A c \in ToSet(All) : Typed(c.name, "container") \in OutputFiles
           /\ \A c \in ToSet(All) : IsShellScript(c) => ScriptName(c) \in OutputFiles
           /\ Typed(ComputeName, "env") \in OutputFiles
           /\ network = "" => Network \in OutputFiles
<1>1. Ready /\ \A f : f \in OutputFiles <=> \E u \in UsToNetwork : u.file = f
    BY AllWritten, OutputsAre
<1> USE DEF UsToNetwork, UsToContainers, UsToRegulars, UsToInits, UsToPod
<1>2. \A v \in Placed : VolumeFile(v) \in OutputFiles
  <2> TAKE v \in Placed
  <2>1. v \in VolumeType
    BY <1>1, VolumesTyped DEF Placed, Ready
  <2>2. VolumeUnit(v).file = VolumeFile(v) /\ VolumeUnit(v) \in VolumeUs
    BY <2>1, VolumeUnitIs DEF VolumeUs
  <2>3. QED
    BY <1>1, <2>2
<1>3. Typed(PodName, "pod") \in OutputFiles
  <2>1. ThePod.file = Typed(PodName, "pod") /\ ThePod \in UsToNetwork
    BY <1>1, PodIs
  <2>2. QED
    BY <1>1, <2>1
<1>4. ASSUME NEW c \in ToSet(All) PROVE Typed(c.name, "container") \in OutputFiles
  <2>1. CASE \E k \in 1..Len(pod.inits) : pod.inits[k] = c
    <3>1. PICK k \in 1..Len(pod.inits) : pod.inits[k] = c
      BY <2>1
    <3>2. InitUnit(k).file = Typed(c.name, "container") /\ InitUnit(k) \in InitUs
      BY <1>1, <3>1, InitUnitIs DEF InitUs
    <3>3. QED
      BY <1>1, <3>2
  <2>2. CASE \E k \in 1..Len(pod.containers) : pod.containers[k] = c
    <3>1. PICK k \in 1..Len(pod.containers) : pod.containers[k] = c
      BY <2>2
    <3>2. RegularUnit(k).file = Typed(c.name, "container") /\ RegularUnit(k) \in RegularUs
      BY <1>1, <3>1, RegularUnitIs DEF RegularUs
    <3>3. QED
      BY <1>1, <3>2
  <2>3. QED
    BY <1>1, <2>1, <2>2, Listed
<1>5. ASSUME NEW c \in ToSet(All), IsShellScript(c) PROVE ScriptName(c) \in OutputFiles
  <2> DEFINE x == Companion(ScriptName(c))
  <2>1. x.file = ScriptName(c)
    <3>1. ScriptName(c) \in ValueType
      BY <1>1, AllFacts, TypesAre, TypedIs DEF ScriptName
    <3>2. QED
      BY <3>1, NewUnitIs
  <2>2. ToSet(All) = ToSet(pod.containers) \cup ToSet(pod.inits)
    BY <1>1, AllIs DEF Ready
  <2>3. x \in ScriptsOf(pod.inits) \cup ScriptsOf(pod.containers)
    BY <1>5, <2>2 DEF ScriptsOf
  <2> HIDE DEF x
  <2>4. QED
    BY <1>1, <2>1, <2>3
<1>6. Typed(ComputeName, "env") \in OutputFiles
  <2> DEFINE f == Typed(ComputeName, "env")
             x == Companion(f)
  <2>1. f \in ValueType
    BY NamesAre, NameIsAny, TypesAre, TypedIs
  <2>2. x.file = f /\ x \in EnvUs
    BY <2>1, NewUnitIs DEF EnvUs
  <2> HIDE DEF f, x
  <2>3. f \in OutputFiles
    BY <1>1, <2>2
  <2>4. QED
    BY <2>3 DEF f
<1>7. ASSUME network = "" PROVE Network \in OutputFiles
  <2> DEFINE x == Companion(Network)
  <2>1. x.file = Network /\ x \in NetworkUs
    BY <1>1, <1>7, PodIs, NewUnitIs DEF NetworkUs
  <2> HIDE DEF x
  <2>2. QED
    BY <1>1, <2>1
<1>8. QED
    BY <1>2, <1>3, <1>4, <1>5, <1>6, <1>7

LEMMA ServicesAre ==
    ASSUME CInv, stage = "written"
    PROVE  \A n : n \in ServiceNames <=> n = PodName \/ \E c \in ToSet(All) : c.name = n
<1>1. Ready
    BY AllWritten
<1>2. /\ \A f : f \in OutputFiles <=> \E u \in UsToNetwork : u.file = f
      /\ Typed(PodName, "pod") \in OutputFiles
      /\ \A c \in ToSet(All) : Typed(c.name, "container") \in OutputFiles
    BY OutputsAre, FilesThere
<1>3. \A n \in AnyName : \A t \in Types :
        Typed(n, t)[3] = t /\ <<Typed(n, t)[1], Typed(n, t)[2]>> = n
    BY TypedIs
<1>4. PodName \in ServiceNames
    BY <1>2, <1>3, NameIsAny, TypesAre DEF ServiceNames
<1>5. ASSUME NEW c \in ToSet(All) PROVE c.name \in ServiceNames
  <2>1. c.name \in AnyName
    BY <1>1, AllFacts
  <2>2. QED
    BY <1>2, <1>3, <2>1, TypesAre DEF ServiceNames
<1>6. ASSUME NEW f \in OutputFiles, f[3] \in {"container", "pod"}
      PROVE  <<f[1], f[2]>> = PodName \/ \E c \in ToSet(All) : c.name = <<f[1], f[2]>>
  <2>1. PICK u \in UsToNetwork : u.file = f
    BY <1>2
  <2>2. CASE u = ThePod
    BY <1>1, <1>3, <2>1, <2>2, PodIs, NameIsAny, TypesAre
  <2>3. CASE u \in InitUs \cup ScriptsOf(pod.inits)
    <3>1. PICK k \in 1..Len(pod.inits) : <<f[1], f[2]>> = pod.inits[k].name
      BY <1>1, <2>1, <2>3, SortsApart
    <3>2. QED
      BY <1>1, <3>1, Listed
  <2>4. CASE u \in RegularUs \cup ScriptsOf(pod.containers)
    <3>1. PICK k \in 1..Len(pod.containers) : <<f[1], f[2]>> = pod.containers[k].name
      BY <1>1, <2>1, <2>4, SortsApart
    <3>2. QED
      BY <1>1, <3>1, Listed
  <2>5. CASE u \in VolumeUs \cup EnvUs \cup NetworkUs
    BY <1>1, <1>6, <2>1, <2>5, SortsApart
  <2>6. QED
    BY <2>2, <2>3, <2>4, <2>5 DEF UsToNetwork, UsToContainers, UsToRegulars, UsToInits, UsToPod
<1>7. QED
    BY <1>4, <1>5, <1>6 DEF ServiceNames


LEMMA UnitsFound ==
    ASSUME CInv, stage = "written"
    PROVE  /\ UnitFor(PodName) = Published /\ UnitFor(ComputeName) = Patched
           /\ \A k \in 1..Len(pod.inits) : UnitFor(pod.inits[k].name) = InitUnit(k)
           /\ \A k \in 2..Len(pod.containers) : UnitFor(pod.containers[k].name) = RegularUnit(k)
           /\ \A v \in Placed : UnitOf(VolumeFile(v)) = VolumeUnit(v)
<1>1. Ready /\ \A u \in UsToPath : UnitOf(u.file) = u
    BY AllWritten, FoundAs
<1>2. /\ Published.file = Typed(PodName, "pod") /\ ThePod.file = Typed(PodName, "pod")
      /\ Patched.file = Typed(ComputeName, "container")
      /\ Compute1.file = Typed(ComputeName, "container")
    BY <1>1, PodIs, PublishedIs, PatchedIs
<1>3. /\ Typed(PodName, "pod")[3] = "pod" /\ Typed(ComputeName, "container")[3] = "container"
      /\ ComputeName \in AnyName /\ ComputeName # PodName
    BY NamesAre, NameIsAny, TypesAre, TypedIs
<1>4. Published \in UsToPath /\ Patched \in UsToPath
  <2>1. Published # Compute1
    BY <1>2, <1>3
  <2>2. QED
    BY <2>1 DEF UsToPath, UsToPorts
<1>5. UnitFor(PodName) = Published
    BY <1>1, <1>2, <1>4 DEF UnitFor
<1>6. UnitFor(ComputeName) = Patched
    BY <1>1, <1>2, <1>3, <1>4 DEF UnitFor
<1>7. \A u \in UsToNetwork : u.file # Typed(PodName, "pod") /\ u.file # Typed(ComputeName, "container")
        => u \in UsToPath
    BY <1>2 DEF UsToPath, UsToPorts
<1>8. \A n \in AnyName : n # ComputeName => Typed(n, "container") # Typed(ComputeName, "container")
    BY <1>3, TypesAre, TypedIs
<1>9. \A n \in AnyName : Typed(n, "container")[3] = "container"
    BY TypesAre, TypedIs
<1>10. ASSUME NEW u \in UsToNetwork, NEW n \in Name, n # ComputeName, u.file = Typed(n, "container")
       PROVE  UnitFor(n) = u
  <2>1. n \in AnyName /\ n # PodName
    BY NameIsAny
  <2>2. u \in UsToPath
    BY <1>3, <1>7, <1>8, <1>9, <1>10, <2>1
  <2>3. QED
    BY <1>1, <1>10, <2>1, <2>2 DEF UnitFor
<1>11. 1 \in 1..Len(pod.containers) /\ pod.containers[1].name = ComputeName /\ IInv
    BY <1>1, Listed DEF Ready
<1>12. ASSUME NEW k \in 1..Len(pod.inits) PROVE UnitFor(pod.inits[k].name) = InitUnit(k)
  <2>1. pod.inits[k].name \in Name
    BY <1>1, Listed, AllFacts
  <2>2. pod.inits[k].name # ComputeName
    BY <1>11, NamesApart
  <2>3. InitUnit(k) \in UsToNetwork
    BY DEF InitUs, UsToNetwork, UsToContainers, UsToRegulars, UsToInits
  <2>4. InitUnit(k).file = Typed(pod.inits[k].name, "container")
    BY <1>1, InitUnitIs
  <2>5. QED
    BY <1>10, <2>1, <2>2, <2>3, <2>4
<1>13. ASSUME NEW k \in 2..Len(pod.containers)
       PROVE  UnitFor(pod.containers[k].name) = RegularUnit(k)
  <2>1. k \in 1..Len(pod.containers) /\ k # 1
    OBVIOUS
  <2>2. pod.containers[k].name \in Name
    BY <1>1, <2>1, Listed, AllFacts
  <2>3. pod.containers[k].name # ComputeName
    BY <1>11, <2>1, NamesApart
  <2>4. RegularUnit(k) \in UsToNetwork
    BY <2>1 DEF RegularUs, UsToNetwork, UsToContainers, UsToRegulars
  <2>5. RegularUnit(k).file = Typed(pod.containers[k].name, "container")
    BY <1>1, <2>1, RegularUnitIs
  <2>6. QED
    BY <1>10, <2>2, <2>3, <2>4, <2>5
<1>14. ASSUME NEW v \in Placed PROVE UnitOf(VolumeFile(v)) = VolumeUnit(v)
  <2>1. v \in VolumeType
    BY <1>11, VolumesTyped DEF Placed
  <2>2. VolumeUnit(v).file = VolumeFile(v) /\ VolumeFile(v)[3] \in {"volume", "tmpfs"}
    BY <2>1, VolumeUnitIs, VolumeFileIs
  <2>3. VolumeUnit(v) \in UsToNetwork
    BY DEF VolumeUs, UsToNetwork, UsToContainers, UsToRegulars, UsToInits, UsToPod
  <2>4. VolumeUnit(v) \in UsToPath
    BY <1>3, <1>7, <2>2, <2>3
  <2>5. QED
    BY <1>1, <2>2, <2>4
<1>15. QED
    BY <1>5, <1>6, <1>12, <1>13, <1>14

-----------------------------------------------------------------------------
(***************************************************************************)
(* Nothing that a unit refers to is missing.                               *)
(***************************************************************************)

Resolves(v) ==
    /\ v[3] \notin {"value", "service", "target"} => v \in OutputFiles
    /\ v[3] = "service" => <<v[1], v[2]>> \in ServiceNames
Resolved(kvs) == \A kv \in kvs : Resolves(kv[2])

LEMMA LinesResolve ==
    ASSUME NEW g, NEW kvs, Resolved(kvs)
    PROVE  \A l \in LinesOf(g, kvs) : Resolves(l[3])
<1> TAKE l \in LinesOf(g, kvs)
<1>1. PICK kv \in kvs : l = <<g, kv[1], kv[2]>>
    BY DEF LinesOf
<1>2. l[3] = kv[2]
    BY <1>1
<1>3. QED
    BY <1>2 DEF Resolved

LEMMA SectionResolves ==
    ASSUME CInv, stage = "written", NEW c \in ToSet(All)
    PROVE  Resolved(SectionOf(c))
<1>1. Ready /\ IInv
    BY AllWritten DEF Ready
<1>2. /\ \A v \in Placed : VolumeFile(v) \in OutputFiles
      /\ Typed(PodName, "pod") \in OutputFiles
      /\ IsShellScript(c) => ScriptName(c) \in OutputFiles
      /\ Typed(ComputeName, "env") \in OutputFiles
    BY FilesThere
<1>3. c.name \in AnyName /\ \A m \in Mounts(c) : m.vol \in Name /\ m.vol \in ToSet(Names(pod.volumes))
    BY <1>1, AllFacts
<1>4. Typed(PodName, "pod")[3] = "pod"
    BY NameIsAny, TypesAre, TypedIs
<1>5. Resolved({<<"Pod", Typed(PodName, "pod")>>})
    BY <1>2, <1>4 DEF Resolved, Resolves
<1>6. ASSUME NEW m \in Mounts(c) PROVE Resolves(MountLine(m)[2])
  <2> DEFINE v == VolumeOf(m.vol)
  <2>1. v \in ToSet(pod.volumes) /\ v \in VolumeType
    BY <1>1, <1>3, VolumeFound
  <2>2. /\ v.kind \in {"device", "host", "image"} => MountLine(m)[2] = Typed(m.vol, "value")
        /\ v.kind \in {"pvc", "emptyDir"} => MountLine(m)[2] = VolumeFile(v)
    BY <1>1, <1>3, MountLineIs
  <2>3. v.kind \in {"device", "host", "image"} \/ v.kind \in {"pvc", "emptyDir"}
    BY <2>1 DEF VolumeType
  <2>4. Typed(m.vol, "value")[3] = "value"
    BY <1>3, NameIsAny, TypesAre, TypedIs
  <2>5. VolumeFile(v)[3] \in {"volume", "tmpfs"}
    BY <2>1, VolumeFileIs
  <2>6. v.kind \in {"pvc", "emptyDir"} => VolumeFile(v) \in OutputFiles
    BY <1>2, <2>1 DEF Placed
  <2> HIDE DEF v
  <2>7. QED
    BY <2>2, <2>3, <2>4, <2>5, <2>6 DEF Resolves
<1>7. Resolved({MountLine(m) : m \in Mounts(c)})
    BY <1>6 DEF Resolved
<1>8. Resolved(IF IsShellScript(c) THEN {<<"Volume", ScriptName(c)>>} ELSE {})
  <2>1. ScriptName(c)[3] = "sh"
    BY <1>3, TypesAre, TypedIs DEF ScriptName
  <2>2. QED
    BY <1>2, <2>1 DEF Resolved, Resolves
<1>9. Resolved({<<"EnvironmentFile", e>> : e \in EnvFiles(c)})
  <2>1. EnvFiles(c) = {} \/ EnvFiles(c) = {Typed(ComputeName, "env")}
    BY <1>1, Unprobed, HealthIs
  <2>2. Typed(ComputeName, "env")[3] = "env"
    BY NamesAre, NameIsAny, TypesAre, TypedIs
  <2>3. QED
    BY <1>2, <2>1, <2>2 DEF Resolved, Resolves
<1>10. Resolved(HealthLines(c))
  <2>1. HealthLines(c) = {} \/ HealthLines(c) = Health
    BY <1>1, Unprobed, HealthIs
  <2>2. Value(HealthCommand)[3] = "value" /\ Value("restart")[3] = "value"
    BY DEF Value
  <2>3. Resolved(Health)
    BY <2>2 DEF Health, Resolved, Resolves
  <2>4. QED
    BY <2>1, <2>3 DEF Resolved
<1>11. QED
    BY <1>5, <1>7, <1>8, <1>9, <1>10 DEF SectionOf, Resolved

LEMMA WaitsResolve ==
    ASSUME CInv, stage = "written"
    PROVE  /\ \A k \in 1..Len(pod.inits) : Resolved(WaitLines(Before(k)))
           /\ \A k \in 1..Len(pod.containers) : Resolved(WaitLines(Awaited(k)))
<1>1. Ready
    BY AllWritten
<1>2. /\ pod.inits \in Seq(ContainerType) /\ Len(pod.inits) \in Nat
      /\ \A k \in 1..Len(pod.inits) : pod.inits[k] \in ToSet(All)
    BY <1>1, Listed
<1>3. ASSUME NEW k \in 1..Len(pod.inits) PROVE Resolves(Service(pod.inits[k].name))
  <2> DEFINE n == pod.inits[k].name
  <2>1. n \in AnyName /\ n \in ServiceNames
    BY <1>1, <1>2, AllFacts, ServicesAre
  <2> HIDE DEF n
  <2>2. Service(n)[3] = "service" /\ <<Service(n)[1], Service(n)[2]>> = n
    BY <2>1, TypesAre, TypedIs DEF Service
  <2>3. Resolves(Service(n))
    BY <2>1, <2>2 DEF Resolves
  <2>4. QED
    BY <2>3 DEF n
<1>4. ASSUME NEW names, \A n \in names : \E k \in 1..Len(pod.inits) : n = pod.inits[k].name
      PROVE  Resolved(WaitLines(names))
  <2>1. \A n \in names : Resolves(Service(n))
    BY <1>3, <1>4
  <2>2. ASSUME NEW kv \in WaitLines(names) PROVE Resolves(kv[2])
    <3>1. PICK key \in {"After", "Requires"}, n \in names : kv = <<key, Service(n)>>
      BY DEF WaitLines
    <3>2. kv[2] = Service(n)
      BY <3>1
    <3>3. QED
      BY <2>1, <3>2
  <2>3. QED
    BY <2>2 DEF Resolved
<1>5. ASSUME NEW k \in 1..Len(pod.inits) PROVE Resolved(WaitLines(Before(k)))
  <2>1. \A j \in 1..(k - 1) : j \in 1..Len(pod.inits)
    BY <1>2
  <2>2. \A n \in Before(k) : \E j \in 1..Len(pod.inits) : n = pod.inits[j].name
    BY <2>1 DEF Before
  <2>3. QED
    BY <1>4, <2>2
<1>6. ASSUME NEW k \in 1..Len(pod.containers) PROVE Resolved(WaitLines(Awaited(k)))
  <2>1. \A n : n \in ToSet(Names(pod.inits)) <=> \E j \in 1..Len(pod.inits) : pod.inits[j].name = n
    BY <1>2, NamedIn
  <2>2. \A n \in Awaited(k) : \E j \in 1..Len(pod.inits) : n = pod.inits[j].name
    BY <2>1 DEF Awaited
  <2>3. QED
    BY <1>4, <2>2
<1>7. QED
    BY <1>5, <1>6


LEMMA OthersResolve ==
    ASSUME CInv, stage = "written"
    PROVE  /\ Resolved(PodLines) /\ Resolved(Grace) /\ Resolved(Anchors) /\ Resolved(Wanted)
           /\ Resolved(PortLines) /\ Resolved(PathLines)
           /\ Resolved(OneShot) /\ Resolved(ForCompute) /\ Resolved(Restarts) /\ Resolved(ForPod)
           /\ Resolved({<<"Type", Value("tmpfs")>>})
<1>1. Ready /\ IInv
    BY AllWritten DEF Ready
<1>2. \A s : Resolves(Value(s))
    BY DEF Resolves, Value
<1>3. Resolved(Grace) /\ Resolved(OneShot) /\ Resolved(Restarts) /\ Resolved({<<"Type", Value("tmpfs")>>})
    BY <1>2 DEF Grace, OneShot, Restarts, Resolved
<1>4. Resolved(PathLines)
    BY <1>2 DEF PathLines, PathLine, Resolved
<1>5. Resolved(Wanted)
  <2>1. <<"default", 0, "target">>[3] = "target"
    OBVIOUS
  <2>2. Resolves(<<"default", 0, "target">>)
    BY <2>1 DEF Resolves
  <2>3. QED
    BY <2>2 DEF Wanted, Resolved
<1>6. Resolved(PortLines)
  <2>1. ASSUME NEW p \in Ports PROVE Resolves(<<p, 0, "value">>)
    <3>1. <<p, 0, "value">>[3] = "value"
      OBVIOUS
    <3>2. QED
      BY <3>1 DEF Resolves
  <2>2. QED
    BY <2>1 DEF PortLines, Resolved
<1>7. Resolved(PodLines)
  <2>1. Resolves(Network)
    <3>1. CASE network = ""
      <4>1. Network \in OutputFiles
        BY <3>1, FilesThere
      <4>2. Network = <<"network", 0, "network">>
        BY <3>1 DEF Network
      <4>3. Network[3] = "network"
        BY <4>2
      <4>4. QED
        BY <4>1, <4>3 DEF Resolves
    <3>2. CASE network # ""
      <4>1. Network = <<network, 0, "value">>
        BY <3>2 DEF Network
      <4>2. Network[3] = "value"
        BY <4>1
      <4>3. QED
        BY <4>2 DEF Resolves
    <3>3. QED
      BY <3>1, <3>2
  <2>2. QED
    <3>1. \A x, y : <<x, y>>[2] = y
      OBVIOUS
    <3>2. Resolves(Value("--exit-policy continue"))
      BY <1>2
    <3>3. \A kv \in PodLines : kv[2] = Value("--exit-policy continue") \/ kv[2] = Network
      BY <3>1 DEF PodLines
    <3>4. QED
      BY <2>1, <3>2, <3>3 DEF Resolved
<1>8. Resolved(Anchors)
  <2>1. ASSUME NEW v \in Scratch PROVE Resolves(VolumeFile(v))
    <3>1. v \in Placed /\ v \in VolumeType
      BY <1>1, VolumesTyped DEF Scratch, Placed
    <3>2. VolumeFile(v) \in OutputFiles /\ VolumeFile(v)[3] \in {"volume", "tmpfs"}
      BY <3>1, FilesThere, VolumeFileIs
    <3>3. QED
      BY <3>2 DEF Resolves
  <2>2. QED
    BY <2>1 DEF Anchors, Resolved
<1>9. \A n \in AnyName : Service(n)[3] = "service" /\ <<Service(n)[1], Service(n)[2]>> = n
    BY TypesAre, TypedIs DEF Service
<1>10. ComputeName \in ServiceNames /\ PodName \in ServiceNames
    BY <1>1, Listed, ServicesAre
<1>11. Resolved(ForCompute) /\ Resolved(ForPod)
  <2>1. ComputeName \in AnyName /\ PodName \in AnyName
    BY NamesAre, NameIsAny
  <2>2. Resolves(Service(ComputeName)) /\ Resolves(Service(PodName))
    BY <1>9, <1>10, <2>1 DEF Resolves
  <2>3. QED
    BY <2>2 DEF ForCompute, ForPod, Resolved
<1>12. QED
    BY <1>3, <1>4, <1>5, <1>6, <1>7, <1>8, <1>11

\* Once all files are written, each volume, network, script, environment file,
\* pod and service that a unit refers to is among them: what a mount of the pod
\* names becomes a file of its own, however many volumes the VM has.
THEOREM ReferencesAlwaysExist == ConvertSpec => []ReferencesExist
<1>1. ASSUME CInv, stage = "written", NEW u \in UsToPath
      PROVE  \A l \in u.lines : Resolves(l[3])
  <2>1. Ready /\ IInv /\ 1 \in 1..Len(pod.containers)
    BY <1>1, AllWritten, Listed DEF Ready
  <2>2. /\ Resolved(PodLines) /\ Resolved(Grace) /\ Resolved(Anchors) /\ Resolved(Wanted)
        /\ Resolved(PortLines) /\ Resolved(PathLines)
        /\ Resolved(OneShot) /\ Resolved(ForCompute) /\ Resolved(Restarts) /\ Resolved(ForPod)
        /\ Resolved({<<"Type", Value("tmpfs")>>})
    BY <1>1, OthersResolve
  <2>3. ASSUME NEW k \in 1..Len(pod.inits), NEW l \in InitUnit(k).lines
        PROVE  Resolves(l[3])
    <3>1. Resolved(SectionOf(pod.inits[k])) /\ Resolved(WaitLines(Before(k)))
      BY <1>1, <2>1, Listed, SectionResolves, WaitsResolve
    <3>2. InitUnit(k).lines =
            LinesOf("Container", SectionOf(pod.inits[k])) \cup LinesOf("Unit", WaitLines(Before(k)))
              \cup LinesOf("Service", OneShot) \cup LinesOf("Install", ForCompute)
      BY <2>1, InitUnitIs
    <3>3. QED
      BY <2>2, <2>3, <3>1, <3>2, LinesResolve
  <2>4. ASSUME NEW k \in 1..Len(pod.containers), NEW l \in RegularUnit(k).lines
        PROVE  Resolves(l[3])
    <3>1. Resolved(SectionOf(pod.containers[k])) /\ Resolved(WaitLines(Awaited(k)))
      BY <1>1, <2>1, Listed, SectionResolves, WaitsResolve
    <3>2. RegularUnit(k).lines =
            LinesOf("Container", SectionOf(pod.containers[k]))
              \cup LinesOf("Unit", WaitLines(Awaited(k)))
              \cup LinesOf("Service", Restarts) \cup LinesOf("Install", ForPod)
      BY <2>1, RegularUnitIs
    <3>3. QED
      BY <2>2, <2>4, <3>1, <3>2, LinesResolve
  <2>5. ASSUME NEW l \in ThePod.lines PROVE Resolves(l[3])
    <3>1. ThePod.lines = LinesOf("Pod", PodLines) \cup LinesOf("Service", Grace)
                           \cup LinesOf("Pod", Anchors) \cup LinesOf("Install", Wanted)
      BY <2>1, PodIs
    <3>2. QED
      BY <2>2, <2>5, <3>1, LinesResolve
  <2>6. ASSUME u = Published PROVE \A l \in u.lines : Resolves(l[3])
    <3>1. PICK g \in Groups : Published.lines = ThePod.lines \cup LinesOf(g, PortLines)
      BY <2>1, PublishedIs
    <3>2. \A l \in LinesOf(g, PortLines) : Resolves(l[3])
      BY <2>2, LinesResolve
    <3>3. QED
      BY <2>5, <2>6, <3>1, <3>2
  <2>7. ASSUME u = Patched PROVE \A l \in u.lines : Resolves(l[3])
    <3>1. Patched.lines = RegularUnit(1).lines \cup LinesOf("Container", PathLines)
      BY <2>1, PatchedIs DEF Compute1
    <3>2. \A l \in LinesOf("Container", PathLines) : Resolves(l[3])
      BY <2>2, LinesResolve
    <3>3. QED
      BY <2>1, <2>4, <2>7, <3>1, <3>2
  <2>8. ASSUME u \in VolumeUs PROVE \A l \in u.lines : Resolves(l[3])
    <3>1. PICK v \in Placed : u = VolumeUnit(v)
      BY <2>8 DEF VolumeUs
    <3>2. v \in VolumeType
      BY <2>1, VolumesTyped DEF Placed
    <3>3. \/ u.lines = {}
          \/ u.lines = LinesOf("Volume", {<<"Type", Value("tmpfs")>>})
      BY <3>1, <3>2, VolumeUnitIs
    <3>4. QED
      BY <2>2, <3>3, LinesResolve
  <2>9. ASSUME u \in ScriptsOf(pod.inits) \cup ScriptsOf(pod.containers) \cup EnvUs \cup NetworkUs
        PROVE  u.lines = {}
    <3>1. \A f : Companion(f).lines = {}
      BY DEF Companion
    <3>2. \E f : u = Companion(f)
      BY <2>9 DEF ScriptsOf, EnvUs, NetworkUs
    <3>3. QED
      BY <3>1, <3>2
  <2>10. CASE u \in InitUs
    BY <2>3, <2>10 DEF InitUs
  <2>11. CASE u \in RegularUs
    BY <2>4, <2>11 DEF RegularUs
  <2>12. QED
    BY <2>6, <2>7, <2>8, <2>9, <2>10, <2>11, <2>5
       DEF UsToPath, UsToPorts, UsToNetwork, UsToContainers, UsToRegulars, UsToInits, UsToPod
<1>2. ASSUME CInv PROVE ReferencesExist
  <2>1. CASE stage = "written"
    <3>1. ToSet(files) = UsToPath
      BY <1>2, <2>1, AllWritten DEF Holds
    <3>2. \A u \in ToSet(files) : \A l \in u.lines : Resolves(l[3])
      BY <1>1, <1>2, <2>1, <3>1
    <3>3. QED
      BY <3>2 DEF ReferencesExist, Resolves
  <2>2. QED
    BY <2>1 DEF ReferencesExist
<1>3. QED
    BY <1>2, Conversion, PTL


-----------------------------------------------------------------------------
(***************************************************************************)
(* What the keys of a unit say.                                            *)
(***************************************************************************)

\* A unit of a container has these lines in its four groups.
Sections(u, A, B, C, D) ==
    /\ u \in UnitType
    /\ A \in SUBSET KeyValue /\ B \in SUBSET KeyValue
    /\ C \in SUBSET KeyValue /\ D \in SUBSET KeyValue
    /\ u.lines = LinesOf("Container", A) \cup LinesOf("Unit", B)
                   \cup LinesOf("Service", C) \cup LinesOf("Install", D)

ReadBack(u, A, B, C, D) ==
    \A key, v : /\ v \in Values(u, "Container", key) <=> <<key, v>> \in A
                /\ v \in Values(u, "Unit", key) <=> <<key, v>> \in B
                /\ v \in Values(u, "Service", key) <=> <<key, v>> \in C
                /\ v \in Values(u, "Install", key) <=> <<key, v>> \in D

LEMMA FourSections ==
    ASSUME NEW u, NEW A, NEW B, NEW C, NEW D, Sections(u, A, B, C, D)
    PROVE  ReadBack(u, A, B, C, D)
<1>1. \A g, k, v : v \in Values(u, g, k) <=> <<g, k, v>> \in u.lines
    BY ValuesAre DEF Sections
<1>2. /\ \A h, k, v : <<h, k, v>> \in LinesOf("Container", A) <=> h = "Container" /\ <<k, v>> \in A
      /\ \A h, k, v : <<h, k, v>> \in LinesOf("Unit", B) <=> h = "Unit" /\ <<k, v>> \in B
      /\ \A h, k, v : <<h, k, v>> \in LinesOf("Service", C) <=> h = "Service" /\ <<k, v>> \in C
      /\ \A h, k, v : <<h, k, v>> \in LinesOf("Install", D) <=> h = "Install" /\ <<k, v>> \in D
    BY GroupsAre, LinesAre DEF Sections
<1>3. \A g, k, v : v \in Values(u, g, k) <=>
        \/ <<g, k, v>> \in LinesOf("Container", A)
        \/ <<g, k, v>> \in LinesOf("Unit", B)
        \/ <<g, k, v>> \in LinesOf("Service", C)
        \/ <<g, k, v>> \in LinesOf("Install", D)
    BY <1>1 DEF Sections
<1>4. \A g \in Groups : \A k, v : v \in Values(u, g, k) <=>
        \/ g = "Container" /\ <<k, v>> \in A
        \/ g = "Unit" /\ <<k, v>> \in B
        \/ g = "Service" /\ <<k, v>> \in C
        \/ g = "Install" /\ <<k, v>> \in D
    BY <1>2, <1>3
<1>5. \A k, v : v \in Values(u, "Container", k) <=> <<k, v>> \in A
    BY <1>4, GroupsAre
<1>6. \A k, v : v \in Values(u, "Unit", k) <=> <<k, v>> \in B
    BY <1>4, GroupsAre
<1>7. \A k, v : v \in Values(u, "Service", k) <=> <<k, v>> \in C
    BY <1>4, GroupsAre
<1>8. \A k, v : v \in Values(u, "Install", k) <=> <<k, v>> \in D
    BY <1>4, GroupsAre
<1>9. QED
    BY <1>5, <1>6, <1>7, <1>8 DEF ReadBack

LEMMA InitValues ==
    ASSUME CInv, stage = "written", NEW k \in 1..Len(pod.inits)
    PROVE  LET u == UnitFor(pod.inits[k].name)
           IN \A key, v :
                /\ v \in Values(u, "Container", key) <=> <<key, v>> \in SectionOf(pod.inits[k])
                /\ v \in Values(u, "Unit", key) <=> <<key, v>> \in WaitLines(Before(k))
                /\ v \in Values(u, "Service", key) <=> <<key, v>> \in OneShot
                /\ v \in Values(u, "Install", key) <=> <<key, v>> \in ForCompute
<1> DEFINE u == UnitFor(pod.inits[k].name)
           A == SectionOf(pod.inits[k])
           B == WaitLines(Before(k))
<1>1. Ready /\ u = InitUnit(k)
    BY AllWritten, UnitsFound
<1>2. A \in SUBSET KeyValue
    BY <1>1, Listed, SectionTyped
<1>3. /\ u \in UnitType
      /\ u.lines = LinesOf("Container", A) \cup LinesOf("Unit", B)
                     \cup LinesOf("Service", OneShot) \cup LinesOf("Install", ForCompute)
      /\ B \in SUBSET KeyValue /\ OneShot \in SUBSET KeyValue /\ ForCompute \in SUBSET KeyValue
    BY <1>1, InitUnitIs
<1> HIDE DEF u, A, B
<1>4. \A key, v : /\ v \in Values(u, "Container", key) <=> <<key, v>> \in A
                  /\ v \in Values(u, "Unit", key) <=> <<key, v>> \in B
                  /\ v \in Values(u, "Service", key) <=> <<key, v>> \in OneShot
                  /\ v \in Values(u, "Install", key) <=> <<key, v>> \in ForCompute
  <2>1. Sections(u, A, B, OneShot, ForCompute)
    BY <1>2, <1>3 DEF Sections
  <2>2. ReadBack(u, A, B, OneShot, ForCompute)
    BY <2>1, FourSections
  <2>3. QED
    BY <2>2 DEF ReadBack
<1>5. QED
    BY <1>4 DEF u, A, B

\* Compute has the patched path beside the lines of its section.
SectionWith(k) == SectionOf(pod.containers[k]) \cup IF k = 1 THEN PathLines ELSE {}

LEMMA RegularValues ==
    ASSUME CInv, stage = "written", NEW k \in 1..Len(pod.containers)
    PROVE  LET u == UnitFor(pod.containers[k].name)
           IN \A key, v :
                /\ v \in Values(u, "Container", key) <=> <<key, v>> \in SectionWith(k)
                /\ v \in Values(u, "Unit", key) <=> <<key, v>> \in WaitLines(Awaited(k))
                /\ v \in Values(u, "Service", key) <=> <<key, v>> \in Restarts
                /\ v \in Values(u, "Install", key) <=> <<key, v>> \in ForPod
<1> DEFINE u == UnitFor(pod.containers[k].name)
           A == SectionWith(k)
           B == WaitLines(Awaited(k))
           s == SectionOf(pod.containers[k])
<1>1. Ready
    BY AllWritten
<1>2. PathLines \in SUBSET KeyValue /\ s \in SUBSET KeyValue
    BY <1>1, Listed, SectionTyped, PatchedIs
<1>3. /\ RegularUnit(k) \in UnitType
      /\ RegularUnit(k).lines = LinesOf("Container", s) \cup LinesOf("Unit", B)
                     \cup LinesOf("Service", Restarts) \cup LinesOf("Install", ForPod)
      /\ B \in SUBSET KeyValue /\ Restarts \in SUBSET KeyValue /\ ForPod \in SUBSET KeyValue
    BY <1>1, RegularUnitIs
<1>4. A \in SUBSET KeyValue
    BY <1>2 DEF SectionWith
<1>5. /\ u \in UnitType
      /\ u.lines = LinesOf("Container", A) \cup LinesOf("Unit", B)
                     \cup LinesOf("Service", Restarts) \cup LinesOf("Install", ForPod)
  <2>1. CASE k = 1
    <3>1. u = Patched /\ Compute1 = RegularUnit(k)
      BY <1>1, <2>1, Listed, UnitsFound DEF Compute1
    <3>2. u \in UnitType /\ u.lines = RegularUnit(k).lines \cup LinesOf("Container", PathLines)
      BY <1>1, <3>1, PatchedIs
    <3>3. LinesOf("Container", A) = LinesOf("Container", s) \cup LinesOf("Container", PathLines)
      BY <2>1 DEF SectionWith, LinesOf
    <3> HIDE DEF u, A, B, s
    <3>4. QED
      BY <1>3, <3>2, <3>3
  <2>2. CASE k # 1
    <3>1. A = s
      BY <2>2 DEF SectionWith
    <3>2. k \in 2..Len(pod.containers)
      BY <2>2
    <3>3. u = RegularUnit(k)
      BY <3>2, UnitsFound
    <3> HIDE DEF u, A, B, s
    <3>4. QED
      BY <1>3, <3>1, <3>3
  <2>3. QED
    BY <2>1, <2>2
<1> HIDE DEF u, A, B, s
<1>6. \A key, v : /\ v \in Values(u, "Container", key) <=> <<key, v>> \in A
                  /\ v \in Values(u, "Unit", key) <=> <<key, v>> \in B
                  /\ v \in Values(u, "Service", key) <=> <<key, v>> \in Restarts
                  /\ v \in Values(u, "Install", key) <=> <<key, v>> \in ForPod
  <2>1. Sections(u, A, B, Restarts, ForPod)
    BY <1>3, <1>4, <1>5 DEF Sections
  <2>2. ReadBack(u, A, B, Restarts, ForPod)
    BY <2>1, FourSections
  <2>3. QED
    BY <2>2 DEF ReadBack
<1>7. QED
    BY <1>6 DEF u, A, B

LEMMA PodValues ==
    ASSUME CInv, stage = "written"
    PROVE  \A key, v : key # "PublishPort" =>
             /\ v \in Values(UnitFor(PodName), "Pod", key) <=> <<key, v>> \in PodLines \cup Anchors
             /\ v \in Values(UnitFor(PodName), "Service", key) <=> <<key, v>> \in Grace
             /\ v \in Values(UnitFor(PodName), "Install", key) <=> <<key, v>> \in Wanted
             /\ v \notin Values(UnitFor(PodName), "Unit", key)
<1>1. Ready /\ UnitFor(PodName) = Published
    BY AllWritten, UnitsFound
<1>2. /\ ThePod.lines = LinesOf("Pod", PodLines) \cup LinesOf("Service", Grace)
                          \cup LinesOf("Pod", Anchors) \cup LinesOf("Install", Wanted)
      /\ PodLines \in SUBSET KeyValue /\ Grace \in SUBSET KeyValue
      /\ Anchors \in SUBSET KeyValue /\ Wanted \in SUBSET KeyValue
    BY <1>1, PodIs
<1>3. PICK g \in Groups : Published.lines = ThePod.lines \cup LinesOf(g, PortLines)
    BY <1>1, PublishedIs
<1>4. Published \in UnitType /\ PortLines \in SUBSET KeyValue
    BY <1>1, PublishedIs
<1>5. \A k, v : <<k, v>> \in PortLines => k = "PublishPort"
    BY DEF PortLines
<1>6. \A h, k, v : v \in Values(Published, h, k) <=> <<h, k, v>> \in Published.lines
    BY <1>4, ValuesAre
<1>7. /\ \A h, k, v : <<h, k, v>> \in LinesOf("Pod", PodLines) <=> h = "Pod" /\ <<k, v>> \in PodLines
      /\ \A h, k, v : <<h, k, v>> \in LinesOf("Pod", Anchors) <=> h = "Pod" /\ <<k, v>> \in Anchors
      /\ \A h, k, v : <<h, k, v>> \in LinesOf("Service", Grace) <=> h = "Service" /\ <<k, v>> \in Grace
      /\ \A h, k, v : <<h, k, v>> \in LinesOf("Install", Wanted) <=> h = "Install" /\ <<k, v>> \in Wanted
      /\ \A h, k, v : <<h, k, v>> \in LinesOf(g, PortLines) <=> h = g /\ <<k, v>> \in PortLines
    BY <1>2, <1>4, GroupsAre, LinesAre
<1>8. \A h, k, v : k # "PublishPort" =>
        (v \in Values(Published, h, k) <=> \/ h = "Pod" /\ <<k, v>> \in PodLines
                                           \/ h = "Pod" /\ <<k, v>> \in Anchors
                                           \/ h = "Service" /\ <<k, v>> \in Grace
                                           \/ h = "Install" /\ <<k, v>> \in Wanted)
  <2>1. \A h, k, v : v \in Values(Published, h, k) <=>
          \/ <<h, k, v>> \in LinesOf("Pod", PodLines)
          \/ <<h, k, v>> \in LinesOf("Service", Grace)
          \/ <<h, k, v>> \in LinesOf("Pod", Anchors)
          \/ <<h, k, v>> \in LinesOf("Install", Wanted)
          \/ <<h, k, v>> \in LinesOf(g, PortLines)
    BY <1>2, <1>3, <1>6
  <2>2. \A h, k, v : v \in Values(Published, h, k) <=>
          \/ h = "Pod" /\ <<k, v>> \in PodLines
          \/ h = "Service" /\ <<k, v>> \in Grace
          \/ h = "Pod" /\ <<k, v>> \in Anchors
          \/ h = "Install" /\ <<k, v>> \in Wanted
          \/ h = g /\ <<k, v>> \in PortLines
    BY <2>1, <1>7
  <2>3. QED
    BY <2>2, <1>5
<1>9. QED
    BY <1>1, <1>8

\* The keys of the section of a container.
LEMMA SectionKeys ==
    ASSUME Ready, NEW c \in ToSet(All)
    PROVE  \A key, v :
             <<key, v>> \in SectionOf(c) <=>
               \/ key = "Pod" /\ v = Typed(PodName, "pod")
               \/ \E m \in Mounts(c) : key = MountLine(m)[1] /\ v = MountLine(m)[2]
               \/ key = "Volume" /\ IsShellScript(c) /\ v = ScriptName(c)
               \/ key = "EnvironmentFile" /\ v \in EnvFiles(c)
               \/ <<key, v>> \in HealthLines(c)
<1>1. \A m \in Mounts(c) : MountLine(m) = <<MountLine(m)[1], MountLine(m)[2]>>
    BY AllFacts, MountLineIs DEF Ready
<1>2. ASSUME NEW key, NEW v
      PROVE  /\ <<key, v>> \in {<<"Pod", Typed(PodName, "pod")>>} <=> key = "Pod" /\ v = Typed(PodName, "pod")
             /\ <<key, v>> \in {MountLine(m) : m \in Mounts(c)} <=>
                  \E m \in Mounts(c) : key = MountLine(m)[1] /\ v = MountLine(m)[2]
             /\ <<key, v>> \in (IF IsShellScript(c) THEN {<<"Volume", ScriptName(c)>>} ELSE {}) <=>
                  key = "Volume" /\ IsShellScript(c) /\ v = ScriptName(c)
             /\ <<key, v>> \in {<<"EnvironmentFile", e>> : e \in EnvFiles(c)} <=>
                  key = "EnvironmentFile" /\ v \in EnvFiles(c)
  <2>1. <<key, v>> \in {<<"Pod", Typed(PodName, "pod")>>} <=> key = "Pod" /\ v = Typed(PodName, "pod")
    OBVIOUS
  <2>2. <<key, v>> \in {MountLine(m) : m \in Mounts(c)} <=>
          \E m \in Mounts(c) : key = MountLine(m)[1] /\ v = MountLine(m)[2]
    <3>1. \A a, b : <<key, v>> = <<a, b>> <=> key = a /\ v = b
      OBVIOUS
    <3>2. <<key, v>> \in {MountLine(m) : m \in Mounts(c)} <=> \E m \in Mounts(c) : <<key, v>> = MountLine(m)
      OBVIOUS
    <3>3. \A m \in Mounts(c) : <<key, v>> = MountLine(m) <=> key = MountLine(m)[1] /\ v = MountLine(m)[2]
      BY <1>1, <3>1
    <3>4. QED
      BY <3>2, <3>3
  <2>3. <<key, v>> \in (IF IsShellScript(c) THEN {<<"Volume", ScriptName(c)>>} ELSE {}) <=>
          key = "Volume" /\ IsShellScript(c) /\ v = ScriptName(c)
    OBVIOUS
  <2>4. <<key, v>> \in {<<"EnvironmentFile", e>> : e \in EnvFiles(c)} <=>
          key = "EnvironmentFile" /\ v \in EnvFiles(c)
    OBVIOUS
  <2>5. QED
    BY <2>1, <2>2, <2>3, <2>4
<1>3. QED
    BY <1>2 DEF SectionOf


-----------------------------------------------------------------------------
(***************************************************************************)
(* The volumes that containers share.                                      *)
(***************************************************************************)

\* Only volumes that have a unit have their file written.
LEMMA VolumeWritten ==
    ASSUME CInv, stage = "written", NEW v \in ToSet(pod.volumes), VolumeFile(v) \in OutputFiles
    PROVE  v \in Placed
<1>1. Ready
    BY AllWritten
<1>2. IInv
    BY <1>1 DEF Ready
<1>3. v \in VolumeType
    BY <1>2, VolumesTyped
<1>4. VolumeFile(v)[3] \in {"volume", "tmpfs"} /\ <<VolumeFile(v)[1], VolumeFile(v)[2]>> = v.name
    BY <1>3, VolumeFileIs
<1>5. PICK u \in UsToNetwork : u.file = VolumeFile(v)
    BY OutputsAre
<1>6. u \in VolumeUs
    BY <1>1, <1>4, <1>5, SortsApart DEF UsToNetwork, UsToContainers, UsToRegulars, UsToInits, UsToPod
<1>7. PICK w \in Placed : u = VolumeUnit(w)
    BY <1>6 DEF VolumeUs
<1>8. w \in ToSet(pod.volumes)
    BY DEF Placed
<1>9. w \in VolumeType
    BY <1>2, <1>8, VolumesTyped
<1>10. VolumeFile(w) = VolumeFile(v) /\ <<VolumeFile(w)[1], VolumeFile(w)[2]>> = w.name
    BY <1>5, <1>7, <1>9, VolumeUnitIs, VolumeFileIs
<1>11. w.name = v.name
    BY <1>4, <1>10
<1>12. w = v
    BY <1>2, <1>8, <1>11, VolumesTyped
<1>13. QED
    BY <1>12

LEMMA TmpfsIs ==
    ASSUME CInv, stage = "written", NEW v \in Placed
    PROVE  Value("tmpfs") \in Values(UnitOf(VolumeFile(v)), "Volume", "Type") <=> v.kind = "emptyDir"
<1> DEFINE kvs == {<<"Type", Value("tmpfs")>>}
           u == VolumeUnit(v)
<1>1. v \in VolumeType
  <2>1. IInv /\ v \in ToSet(pod.volumes)
    BY AllWritten DEF Ready, Placed
  <2>2. QED
    BY <2>1, VolumesTyped
<1>2. u \in UnitType /\ u.lines = IF v.kind = "emptyDir" THEN LinesOf("Volume", kvs) ELSE {}
    BY <1>1, VolumeUnitIs
<1>3. UnitOf(VolumeFile(v)) = u
    BY UnitsFound
<1>4. kvs \in SUBSET KeyValue
  <2>1. Value("tmpfs") \in ValueType
    BY WordsAre, ValueIs
  <2>2. <<"Type", Value("tmpfs")>> \in KeyValue
    BY <2>1, KeysAre, PairsAre
  <2>3. QED
    BY <2>2
<1>5. <<"Volume", "Type", Value("tmpfs")>> \in LinesOf("Volume", kvs)
    BY DEF LinesOf
<1> HIDE DEF u, kvs
<1>6. Value("tmpfs") \in Values(u, "Volume", "Type") <=> <<"Volume", "Type", Value("tmpfs")>> \in u.lines
    BY <1>2, ValuesAre
<1>7. QED
    BY <1>2, <1>3, <1>5, <1>6

LEMMA AnchoredIs ==
    ASSUME CInv, stage = "written", NEW v \in Placed
    PROVE  VolumeFile(v) \in Values(UnitFor(PodName), "Pod", "Volume") <=> v.kind = "emptyDir"
<1>1. IInv /\ v \in ToSet(pod.volumes)
    BY AllWritten DEF Ready, Placed
<1>2. v \in VolumeType
    BY <1>1, VolumesTyped
<1>3. VolumeFile(v) \in Values(UnitFor(PodName), "Pod", "Volume") <=>
        <<"Volume", VolumeFile(v)>> \in PodLines \cup Anchors
    BY PodValues
<1>4. <<"Volume", VolumeFile(v)>> \notin PodLines
    BY DEF PodLines
<1>5. ASSUME <<"Volume", VolumeFile(v)>> \in Anchors
      PROVE  v.kind = "emptyDir"
  <2>1. PICK w \in Scratch : <<"Volume", VolumeFile(v)>> = <<"Volume", VolumeFile(w)>>
    BY <1>5 DEF Anchors
  <2>2. w \in ToSet(pod.volumes) /\ w.kind = "emptyDir"
    BY DEF Scratch
  <2>3. w \in VolumeType
    BY <1>1, <2>2, VolumesTyped
  <2>4. VolumeFile(v) = VolumeFile(w)
    BY <2>1
  <2>5. /\ <<VolumeFile(w)[1], VolumeFile(w)[2]>> = w.name
        /\ <<VolumeFile(v)[1], VolumeFile(v)[2]>> = v.name
    BY <1>2, <2>3, VolumeFileIs
  <2>6. w = v
    BY <1>1, <2>2, <2>4, <2>5, VolumesTyped
  <2>7. QED
    BY <2>2, <2>6
<1>6. ASSUME v.kind = "emptyDir"
      PROVE  <<"Volume", VolumeFile(v)>> \in Anchors
    BY <1>1, <1>6 DEF Anchors, Scratch
<1>7. QED
    BY <1>3, <1>4, <1>5, <1>6

\* In every pod that is written, a volume of a mount is a tmpfs volume exactly
\* if the infra container mounts it too, which keeps its content for all the
\* containers that share it, and exactly if the pod asked for an emptyDir: no
\* claim is on tmpfs, and no shared directory goes with a container.
THEOREM ScratchAlwaysAnchored == ConvertSpec => []ScratchIsAnchored
<1>1. ASSUME CInv PROVE ScratchIsAnchored
  <2> SUFFICES ASSUME stage = "written", NEW c \in ToSet(All), NEW m \in Mounts(c),
                      VolumeFile(VolumeOf(m.vol)) \in OutputFiles
               PROVE  LET file == VolumeFile(VolumeOf(m.vol))
                          tmpfs == Value("tmpfs") \in Values(UnitOf(file), "Volume", "Type")
                          shared == file \in Values(UnitFor(PodName), "Pod", "Volume")
                      IN /\ tmpfs <=> shared
                         /\ tmpfs <=> Volume(m.vol, "emptyDir") \in ToSet(pod.volumes)
    BY DEF ScratchIsAnchored
  <2> DEFINE v == VolumeOf(m.vol)
  <2>1. Ready
    BY <1>1, AllWritten
  <2>2. m.vol \in ToSet(Names(pod.volumes)) /\ IInv
    BY <2>1, AllFacts DEF Ready
  <2>3. /\ v \in ToSet(pod.volumes) /\ v.name = m.vol /\ v \in VolumeType
        /\ \A w \in ToSet(pod.volumes) : w.name = m.vol => w = v
    BY <2>2, VolumeFound
  <2> HIDE DEF v
  <2>4. VolumeFile(v) \in OutputFiles
    BY DEF v
  <2>5. v \in Placed
    BY <1>1, <2>3, <2>4, VolumeWritten
  <2>6. Value("tmpfs") \in Values(UnitOf(VolumeFile(v)), "Volume", "Type") <=> v.kind = "emptyDir"
    BY <1>1, <2>5, TmpfsIs
  <2>7. VolumeFile(v) \in Values(UnitFor(PodName), "Pod", "Volume") <=> v.kind = "emptyDir"
    BY <1>1, <2>5, AnchoredIs
  <2>8. Volume(m.vol, "emptyDir") \in ToSet(pod.volumes) <=> v.kind = "emptyDir"
    <3>1. Volume(m.vol, "emptyDir").name = m.vol /\ Volume(m.vol, "emptyDir").kind = "emptyDir"
      BY DEF Volume
    <3>2. v.kind = "emptyDir" => v = Volume(m.vol, "emptyDir")
      BY <2>3 DEF Volume, VolumeType
    <3>3. QED
      BY <2>3, <3>1, <3>2
  <2>9. QED
    BY <2>6, <2>7, <2>8 DEF v
<1>2. QED
    BY <1>1, Conversion, PTL


-----------------------------------------------------------------------------
(***************************************************************************)
(* The services: what each requires, is bound to and is wanted by.         *)
(***************************************************************************)

\* The values name exactly these services.
Says(vals, names) == names \in SUBSET AnyName /\ \A v : v \in vals <=> \E n \in names : v = Service(n)

LEMMA ServicesSaid ==
    ASSUME NEW vals, NEW names, Says(vals, names)
    PROVE  ServicesIn(vals) = names
<1>1. \A n \in names : Service(n)[3] = "service" /\ <<Service(n)[1], Service(n)[2]>> = n
    BY TypesAre, TypedIs DEF Says, Service
<1>2. ASSUME NEW n \in names PROVE n \in ServicesIn(vals)
  <2>1. Service(n) \in vals
    BY DEF Says
  <2>2. QED
    BY <1>1, <2>1 DEF ServicesIn
<1>3. ASSUME NEW n \in ServicesIn(vals) PROVE n \in names
  <2>1. PICK v \in vals : n = <<v[1], v[2]>>
    BY DEF ServicesIn
  <2>2. PICK m \in names : v = Service(m)
    BY DEF Says
  <2>3. QED
    BY <1>1, <2>1, <2>2
<1>4. QED
    BY <1>2, <1>3

LEMMA WaitsSay ==
    ASSUME NEW names
    PROVE  \A key, v : <<key, v>> \in WaitLines(names) <=>
             key \in {"After", "Requires"} /\ \E n \in names : v = Service(n)
<1> SUFFICES ASSUME NEW key, NEW v
             PROVE  <<key, v>> \in WaitLines(names) <=>
                      key \in {"After", "Requires"} /\ \E n \in names : v = Service(n)
    OBVIOUS
<1>1. ASSUME <<key, v>> \in WaitLines(names)
      PROVE  key \in {"After", "Requires"} /\ \E n \in names : v = Service(n)
  <2>1. PICK k \in {"After", "Requires"}, n \in names : <<key, v>> = <<k, Service(n)>>
    BY <1>1 DEF WaitLines
  <2>2. key = k /\ v = Service(n)
    BY <2>1
  <2>3. QED
    BY <2>2
<1>2. ASSUME key \in {"After", "Requires"}, NEW n \in names, v = Service(n)
      PROVE  <<key, v>> \in WaitLines(names)
    BY <1>2 DEF WaitLines
<1>3. QED
    BY <1>1, <1>2

\* A set of lines that is one line for one service.
LEMMA OneSaid ==
    ASSUME NEW vals, NEW key, NEW n \in AnyName,
           \A v : v \in vals <=> <<key, v>> \in {<<key, Service(n)>>}
    PROVE  Says(vals, {n})
<1>1. \A v : <<key, v>> = <<key, Service(n)>> <=> v = Service(n)
    OBVIOUS
<1>2. QED
    BY <1>1 DEF Says

LEMMA InitServices ==
    ASSUME CInv, stage = "written", NEW k \in 1..Len(pod.inits)
    PROVE  LET n == pod.inits[k].name
           IN /\ RequiresOf(n) = Before(k) /\ BindsTo(n) = {PodName}
              /\ AfterOf(n) = Before(k) \cup {PodName}
              /\ ServicesIn(Values(UnitFor(n), "Install", "WantedBy")) = {ComputeName}
              /\ n \in Name
<1> DEFINE n == pod.inits[k].name
<1>1. Ready
    BY AllWritten
<1>2. n \in Name /\ pod.inits[k] \in ToSet(All) /\ Before(k) \in SUBSET AnyName
    BY <1>1, Listed, AllFacts, InitUnitIs
<1>3. \A key, v :
         /\ v \in Values(UnitFor(n), "Container", key) <=> <<key, v>> \in SectionOf(pod.inits[k])
         /\ v \in Values(UnitFor(n), "Unit", key) <=> <<key, v>> \in WaitLines(Before(k))
         /\ v \in Values(UnitFor(n), "Install", key) <=> <<key, v>> \in ForCompute
    BY InitValues
<1> HIDE DEF n
<1>4. Says(Values(UnitFor(n), "Unit", "Requires"), Before(k))
  <2>1. \A v : v \in Values(UnitFor(n), "Unit", "Requires") <=> <<"Requires", v>> \in WaitLines(Before(k))
    BY <1>3
  <2>2. \A v : <<"Requires", v>> \in WaitLines(Before(k)) <=> \E x \in Before(k) : v = Service(x)
    BY WaitsSay
  <2>3. QED
    BY <1>2, <2>1, <2>2 DEF Says
<1>5. Says(Values(UnitFor(n), "Unit", "After"), Before(k))
  <2>1. \A v : v \in Values(UnitFor(n), "Unit", "After") <=> <<"After", v>> \in WaitLines(Before(k))
    BY <1>3
  <2>2. \A v : <<"After", v>> \in WaitLines(Before(k)) <=> \E x \in Before(k) : v = Service(x)
    BY WaitsSay
  <2>3. QED
    BY <1>2, <2>1, <2>2 DEF Says
<1>6. Says(Values(UnitFor(n), "Install", "WantedBy"), {ComputeName})
  <2>1. ComputeName \in AnyName
    BY NamesAre, NameIsAny
  <2>2. \A v : v \in Values(UnitFor(n), "Install", "WantedBy") <=>
                 <<"WantedBy", v>> \in {<<"WantedBy", Service(ComputeName)>>}
    BY <1>3 DEF ForCompute
  <2>3. QED
    BY <2>1, <2>2, OneSaid
<1>7. BindsTo(n) = {PodName}
  <2>1. n # PodName
    BY <1>2, NameIsAny
  <2>2. <<"Pod", Typed(PodName, "pod")>> \in SectionOf(pod.inits[k])
    BY DEF SectionOf
  <2>3. Typed(PodName, "pod") \in Values(UnitFor(n), "Container", "Pod")
    BY <1>3, <2>2
  <2>4. QED
    BY <2>1, <2>3 DEF BindsTo
<1>8. QED
    BY <1>2, <1>4, <1>5, <1>6, <1>7, ServicesSaid DEF RequiresOf, AfterOf, n

LEMMA RegularServices ==
    ASSUME CInv, stage = "written", NEW k \in 1..Len(pod.containers)
    PROVE  LET n == pod.containers[k].name
           IN /\ RequiresOf(n) = Awaited(k) /\ BindsTo(n) = {PodName}
              /\ AfterOf(n) = Awaited(k) \cup {PodName}
              /\ ServicesIn(Values(UnitFor(n), "Install", "WantedBy")) = {PodName}
              /\ n \in Name
<1> DEFINE n == pod.containers[k].name
<1>1. Ready
    BY AllWritten
<1>2. n \in Name /\ pod.containers[k] \in ToSet(All) /\ Awaited(k) \in SUBSET AnyName
    BY <1>1, Listed, AllFacts, RegularUnitIs
<1>3. \A key, v :
         /\ v \in Values(UnitFor(n), "Container", key) <=> <<key, v>> \in SectionWith(k)
         /\ v \in Values(UnitFor(n), "Unit", key) <=> <<key, v>> \in WaitLines(Awaited(k))
         /\ v \in Values(UnitFor(n), "Install", key) <=> <<key, v>> \in ForPod
    BY RegularValues
<1> HIDE DEF n
<1>4. Says(Values(UnitFor(n), "Unit", "Requires"), Awaited(k))
  <2>1. \A v : v \in Values(UnitFor(n), "Unit", "Requires") <=> <<"Requires", v>> \in WaitLines(Awaited(k))
    BY <1>3
  <2>2. \A v : <<"Requires", v>> \in WaitLines(Awaited(k)) <=> \E x \in Awaited(k) : v = Service(x)
    BY WaitsSay
  <2>3. QED
    BY <1>2, <2>1, <2>2 DEF Says
<1>5. Says(Values(UnitFor(n), "Unit", "After"), Awaited(k))
  <2>1. \A v : v \in Values(UnitFor(n), "Unit", "After") <=> <<"After", v>> \in WaitLines(Awaited(k))
    BY <1>3
  <2>2. \A v : <<"After", v>> \in WaitLines(Awaited(k)) <=> \E x \in Awaited(k) : v = Service(x)
    BY WaitsSay
  <2>3. QED
    BY <1>2, <2>1, <2>2 DEF Says
<1>6. Says(Values(UnitFor(n), "Install", "WantedBy"), {PodName})
  <2>1. PodName \in AnyName
    BY NameIsAny
  <2>2. \A v : v \in Values(UnitFor(n), "Install", "WantedBy") <=>
                 <<"WantedBy", v>> \in {<<"WantedBy", Service(PodName)>>}
    BY <1>3 DEF ForPod
  <2>3. QED
    BY <2>1, <2>2, OneSaid
<1>7. BindsTo(n) = {PodName}
  <2>1. n # PodName
    BY <1>2, NameIsAny
  <2>2. <<"Pod", Typed(PodName, "pod")>> \in SectionWith(k)
    BY DEF SectionOf, SectionWith
  <2>3. Typed(PodName, "pod") \in Values(UnitFor(n), "Container", "Pod")
    BY <1>3, <2>2
  <2>4. QED
    BY <2>1, <2>3 DEF BindsTo
<1>8. QED
    BY <1>2, <1>4, <1>5, <1>6, <1>7, ServicesSaid DEF RequiresOf, AfterOf, n

LEMMA PodServices ==
    ASSUME CInv, stage = "written"
    PROVE  /\ RequiresOf(PodName) = {} /\ BindsTo(PodName) = {} /\ AfterOf(PodName) = {}
           /\ ServicesIn(Values(UnitFor(PodName), "Install", "WantedBy")) = {}
<1>1. BindsTo(PodName) = {}
    BY DEF BindsTo
<1>2. Says(Values(UnitFor(PodName), "Unit", "Requires"), {})
    BY PodValues DEF Says
<1>3. Says(Values(UnitFor(PodName), "Unit", "After"), {})
    BY PodValues DEF Says
<1>4. ServicesIn(Values(UnitFor(PodName), "Install", "WantedBy")) = {}
  <2>1. ASSUME NEW v \in Values(UnitFor(PodName), "Install", "WantedBy")
        PROVE  v[3] # "service"
    <3>1. <<"WantedBy", v>> \in Wanted
      BY PodValues
    <3>2. v = <<"default", 0, "target">>
      BY <3>1 DEF Wanted
    <3>3. QED
      BY <3>2
  <2>2. QED
    BY <2>1 DEF ServicesIn
<1>5. QED
    BY <1>1, <1>2, <1>3, <1>4, ServicesSaid DEF RequiresOf, AfterOf


-----------------------------------------------------------------------------
(***************************************************************************)
(* The unit of compute.                                                    *)
(***************************************************************************)

LEMMA ComputeSection ==
    ASSUME Ready
    PROVE  LET c == pod.containers[1]
           IN \A v :
                /\ <<"Environment", v>> \notin SectionOf(c)
                /\ <<"Volume", v>> \in SectionOf(c) <=>
                     \E m \in Mounts(c) : MountLine(m)[1] = "Volume" /\ MountLine(m)[2] = v
                /\ <<"EnvironmentFile", v>> \in SectionOf(c) <=> v = Typed(ComputeName, "env")
                /\ <<"HealthCmd", v>> \in SectionOf(c) <=> v = Value(HealthCommand)
                /\ <<"HealthOnFailure", v>> \in SectionOf(c) <=>
                     vm.probe = "liveness" /\ v = Value("restart")
<1> DEFINE c == pod.containers[1]
<1>1. c \in ToSet(All) /\ c.name = ComputeName
    BY Listed
<1>2. ~IsShellScript(c)
    BY <1>1 DEF IsShellScript, ComputeName
<1>3. \A m \in Mounts(c) : MountLine(m)[1] \in {"AddDevice", "Volume", "Mount"}
    BY <1>1, AllFacts, MountLineIs DEF Ready
<1>4. HealthLines(c) = Health /\ EnvFiles(c) = {Typed(ComputeName, "env")}
    BY HealthIs
<1>5. \A key, v : <<key, v>> \in Health <=>
        \/ key = "HealthCmd" /\ v = Value(HealthCommand)
        \/ key = "HealthOnFailure" /\ vm.probe = "liveness" /\ v = Value("restart")
  <2> DEFINE x == Value(HealthCommand)
             y == Value("restart")
  <2>1. Health = {<<"HealthCmd", x>>} \cup IF vm.probe = "liveness" THEN {<<"HealthOnFailure", y>>} ELSE {}
    BY DEF Health
  <2> HIDE DEF x, y
  <2>2. \A key, v : <<key, v>> \in Health <=>
          \/ key = "HealthCmd" /\ v = x
          \/ key = "HealthOnFailure" /\ vm.probe = "liveness" /\ v = y
    BY <2>1
  <2>3. QED
    BY <2>2 DEF x, y
<1>6. \A key, v :
         <<key, v>> \in SectionOf(c) <=>
           \/ key = "Pod" /\ v = Typed(PodName, "pod")
           \/ \E m \in Mounts(c) : key = MountLine(m)[1] /\ v = MountLine(m)[2]
           \/ key = "EnvironmentFile" /\ v = Typed(ComputeName, "env")
           \/ key = "HealthCmd" /\ v = Value(HealthCommand)
           \/ key = "HealthOnFailure" /\ vm.probe = "liveness" /\ v = Value("restart")
  <2>1. \A key, v :
           <<key, v>> \in SectionOf(c) <=>
             \/ key = "Pod" /\ v = Typed(PodName, "pod")
             \/ \E m \in Mounts(c) : key = MountLine(m)[1] /\ v = MountLine(m)[2]
             \/ key = "Volume" /\ IsShellScript(c) /\ v = ScriptName(c)
             \/ key = "EnvironmentFile" /\ v \in EnvFiles(c)
             \/ <<key, v>> \in HealthLines(c)
    BY <1>1, SectionKeys
  <2> HIDE DEF c
  <2>2. QED
    BY <2>1, <1>2, <1>4, <1>5
<1> HIDE DEF c
<1>7. \A v : <<"Environment", v>> \notin SectionOf(c)
    BY <1>3, <1>6
<1>8. \A v : <<"Volume", v>> \in SectionOf(c) <=>
               \E m \in Mounts(c) : MountLine(m)[1] = "Volume" /\ MountLine(m)[2] = v
    BY <1>6
<1>9. \A v : <<"EnvironmentFile", v>> \in SectionOf(c) <=> v = Typed(ComputeName, "env")
    BY <1>3, <1>6
<1>10. \A v : <<"HealthCmd", v>> \in SectionOf(c) <=> v = Value(HealthCommand)
    BY <1>3, <1>6
<1>11. \A v : <<"HealthOnFailure", v>> \in SectionOf(c) <=>
                vm.probe = "liveness" /\ v = Value("restart")
    BY <1>3, <1>6
<1>12. QED
    BY <1>7, <1>8, <1>9, <1>10, <1>11 DEF c

LEMMA ComputeValues ==
    ASSUME CInv, stage = "written"
    PROVE  /\ \A v : v \in Values(UnitFor(ComputeName), "Container", "Environment") <=>
                     <<"Environment", v>> \in PathLines
           /\ \A key, v : key # "Environment" =>
                (v \in Values(UnitFor(ComputeName), "Container", key) <=>
                   <<key, v>> \in SectionOf(pod.containers[1]))
<1>1. Ready
    BY AllWritten
<1>2. 1 \in 1..Len(pod.containers) /\ pod.containers[1].name = ComputeName
    BY <1>1, Listed
<1>3. \A key, v : v \in Values(UnitFor(ComputeName), "Container", key) <=> <<key, v>> \in SectionWith(1)
    BY <1>2, RegularValues
<1>4. \A key, v : <<key, v>> \in SectionWith(1) <=>
        <<key, v>> \in SectionOf(pod.containers[1]) \/ <<key, v>> \in PathLines
    BY DEF SectionWith
<1>5. \A key, v : <<key, v>> \in PathLines => key = "Environment"
    BY DEF PathLines, PathLine
<1>6. \A v : <<"Environment", v>> \notin SectionOf(pod.containers[1])
    BY <1>1, ComputeSection
<1>7. QED
    BY <1>3, <1>4, <1>5, <1>6

\* The health check of compute in the unit that is written is the one of the VM
\* if it has one, or else asks for the domain of the guest by its namespace,
\* with the environment file it needs written beside it; a failing check
\* restarts the VM only if the VM has a liveness probe; and the service is
\* restarted on failure.
THEOREM HealthAlwaysChecksGuest == ConvertSpec => []HealthChecksGuest
<1>1. ASSUME CInv, stage = "written"
      PROVE  LET compute == UnitFor(ComputeName)
                 own == vm.probe # "none"
             IN /\ Values(compute, "Container", "HealthCmd") = {Value(IF own THEN "own" ELSE vm.ns)}
                /\ Values(compute, "Container", "HealthOnFailure") =
                     IF vm.probe = "liveness" THEN {Value("restart")} ELSE {}
                /\ Typed(ComputeName, "env") \in
                     Values(compute, "Container", "EnvironmentFile") \cap OutputFiles
                /\ RestartsOnFailure(ComputeName)
  <2> DEFINE compute == UnitFor(ComputeName)
             at(key) == Values(compute, "Container", key)
  <2>1. Ready
    BY <1>1, AllWritten
  <2>2. \A v : /\ v \in at("HealthCmd") <=> v = Value(HealthCommand)
               /\ v \in at("HealthOnFailure") <=> vm.probe = "liveness" /\ v = Value("restart")
               /\ v \in at("EnvironmentFile") <=> v = Typed(ComputeName, "env")
    <3>1. \A v : /\ <<"EnvironmentFile", v>> \in SectionOf(pod.containers[1]) <=> v = Typed(ComputeName, "env")
                 /\ <<"HealthCmd", v>> \in SectionOf(pod.containers[1]) <=> v = Value(HealthCommand)
                 /\ <<"HealthOnFailure", v>> \in SectionOf(pod.containers[1]) <=>
                      vm.probe = "liveness" /\ v = Value("restart")
      BY <2>1, ComputeSection
    <3>2. \A key, v : key # "Environment" =>
            (v \in at(key) <=> <<key, v>> \in SectionOf(pod.containers[1]))
      BY <1>1, ComputeValues
    <3> HIDE DEF compute, at
    <3>3. QED
      BY <3>1, <3>2
  <2>3. at("HealthCmd") = {Value(HealthCommand)}
    BY <2>2
  <2>4. at("HealthOnFailure") = IF vm.probe = "liveness" THEN {Value("restart")} ELSE {}
    BY <2>2
  <2>5. Typed(ComputeName, "env") \in at("EnvironmentFile") \cap OutputFiles
    BY <1>1, <2>2, FilesThere
  <2>6. RestartsOnFailure(ComputeName)
    <3>1. 1 \in 1..Len(pod.containers) /\ pod.containers[1].name = ComputeName
      BY <2>1, Listed
    <3>2. Value("on-failure") \in Values(UnitFor(ComputeName), "Service", "Restart") <=>
            <<"Restart", Value("on-failure")>> \in Restarts
      BY <1>1, <3>1, RegularValues
    <3>3. QED
      BY <3>2 DEF Restarts, RestartsOnFailure
  <2>7. QED
    BY <2>3, <2>4, <2>5, <2>6 DEF HealthCommand
<1>2. CInv => HealthChecksGuest
    BY <1>1 DEF HealthChecksGuest
<1>3. QED
    BY <1>2, Conversion, PTL


\* The patcher is an init container exactly if it was asked for.
LEMMA PatcherListed ==
    ASSUME Ready
    PROVE  <<"passt-binary-patcher", 0>> \in ToSet(Names(pod.inits)) <=> "passt" \in opts
<1> DEFINE p == <<"passt-binary-patcher", 0>>
<1>1. IInv /\ step = "done" /\ vm \in VMs /\ step \in Steps
    BY DEF Ready, IInv, TypeOK
<1>2. /\ pod.inits \in Seq(ContainerType)
      /\ \A n : n \in ToSet(Names(pod.inits)) <=> \E k \in 1..Len(pod.inits) : pod.inits[k].name = n
      /\ \A c : c \in ToSet(pod.inits) <=> \E k \in 1..Len(pod.inits) : pod.inits[k] = c
    BY Listed, NamedIn, InToSet
<1>3. Patcher.name = p
    BY PatchersAre
<1>4. ASSUME "passt" \in opts PROVE p \in ToSet(Names(pod.inits))
  <2>1. Patcher \in ToSet(pod.inits)
    BY <1>1, <1>4, InitsAtEnd
  <2>2. QED
    BY <1>2, <1>3, <2>1
<1>5. ASSUME p \in ToSet(Names(pod.inits)) PROVE "passt" \in opts
  <2>1. PICK c \in ToSet(pod.inits) : c.name = p
    BY <1>2, <1>5
  <2>2. c \in InitsIn("done")
    <3>1. pod.inits = InitsAt("done") /\ "done" \in Steps
      BY <1>1 DEF IInv
    <3>2. QED
      BY <1>1, <3>1, InitSet
  <2>3. c \in ToSet(DiskInits) \/ c \in ToSet(Plain) \/ c = DirExtended \/ c \in ToSet(Patchers)
    BY <2>2, CleanupSteps DEF InitsIn
  <2>4. ASSUME c \in ToSet(DiskInits) PROVE FALSE
    <3>1. DiskInits \in Seq(ContainerType) /\ Len(DiskInits) = Len(ToProvision)
      BY <1>1, DiskInitsAre
    <3>2. PICK k \in 1..Len(DiskInits) : DiskInits[k] = c
      BY <2>4, <3>1, InToSet
    <3>3. ToProvision[k] \in 1..Len(vm.volumes) /\ c = DiskInit(ToProvision[k])
      BY <1>1, <3>1, <3>2, DiskInitsAre, ProvisionedFacts DEF ToProvision
    <3>4. c.name = <<"disk", ToProvision[k]>>
      BY <1>1, <3>3, DiskInitIs
    <3>5. QED
      BY <2>1, <3>4
  <2>5. ASSUME c \in ToSet(Plain) PROVE FALSE
    <3>1. PICK k \in 1..Len(Plain) : Plain[k] = c
      BY <2>5, PlainIs, InToSet
    <3>2. c = Sidecar("plain")
      BY <3>1, PlainIs
    <3>3. c.name = <<"plain", 0>>
      BY <3>2 DEF Sidecar, Container
    <3>4. QED
      BY <2>1, <3>3
  <2>6. c # DirExtended
    BY <2>1, DirExtendedIs DEF DirInitName
  <2>7. c \in ToSet(Patchers) /\ Patchers \in Seq(ContainerType)
    BY <2>3, <2>4, <2>5, <2>6, PatchersAre
  <2>8. PICK k \in 1..Len(Patchers) : Patchers[k] = c
    BY <2>7, InToSet
  <2>9. QED
    BY <2>8 DEF Patchers
<1>6. QED
    BY <1>4, <1>5

\* Compute mounts the volume of the patcher as a tmpfs exactly if it was asked
\* for.
LEMMA PasstMounted ==
    ASSUME Ready
    PROVE  "passt" \in opts <=>
             \E m \in Mounts(pod.containers[1]) :
                MountLine(m)[1] = "Volume" /\ MountLine(m)[2] = Typed(PasstBin, "tmpfs")
<1> DEFINE c == pod.containers[1]
           file == Typed(PasstBin, "tmpfs")
<1>1. IInv /\ step = "done" /\ c \in ToSet(All)
    BY Listed DEF Ready
<1>2. \A m \in Mounts(c) : m.vol \in Name /\ m.vol \in AnyName /\ m.vol \in ToSet(Names(pod.volumes))
    BY <1>1, AllFacts
<1>3. ASSUME NEW v \in ToSet(pod.volumes), v.name = PasstBin
      PROVE  "passt" \in opts /\ v.kind = "emptyDir"
  <2>1. PICK k \in 1..Len(pod.volumes) : pod.volumes[k] = v
    BY <1>1, VolumesTyped
  <2>2. v.name[1] = "passt-bin"
    BY <1>3 DEF PasstBin
  <2>3. "passt" \in opts /\ v = Volume(PasstBin, "emptyDir")
    BY <2>1, <2>2 DEF Ready, Extras
  <2>4. QED
    BY <2>3 DEF Volume
<1>4. PasstBin \in Name /\ PasstBin \in AnyName
    BY NamesAre, NameIsAny
<1>5. file[3] = "tmpfs" /\ <<file[1], file[2]>> = PasstBin
    BY <1>4, TypesAre, TypedIs
<1> HIDE DEF file, c
<1>6. ASSUME NEW m \in Mounts(c), MountLine(m)[2] = file
      PROVE  "passt" \in opts
  <2> DEFINE v == VolumeOf(m.vol)
  <2>1. v \in ToSet(pod.volumes) /\ v \in VolumeType
    BY <1>1, <1>2, VolumeFound
  <2>2. /\ v.kind \in {"device", "host", "image"} => MountLine(m)[2] = Typed(m.vol, "value")
        /\ v.kind \in {"pvc", "emptyDir"} => MountLine(m)[2] = VolumeFile(v)
    BY <1>1, <1>2, MountLineIs
  <2> HIDE DEF v
  <2>3. Typed(m.vol, "value")[3] = "value"
    BY <1>2, TypesAre, TypedIs
  <2>4. v.kind \in {"pvc", "emptyDir"}
    BY <1>5, <1>6, <2>1, <2>2, <2>3 DEF VolumeType
  <2>5. VolumeFile(v) = file /\ <<VolumeFile(v)[1], VolumeFile(v)[2]>> = v.name
    BY <1>6, <2>1, <2>2, <2>4, VolumeFileIs
  <2>6. v.name = PasstBin
    BY <1>5, <2>5
  <2>7. QED
    BY <1>3, <2>1, <2>6
<1>7. ASSUME "passt" \in opts
      PROVE  \E m \in Mounts(c) : MountLine(m)[1] = "Volume" /\ MountLine(m)[2] = file
  <2>1. step \notin ToPasst
    BY <1>1 DEF ToPasst, ToDirs, ToCleanup, ToDisks, ToDevices, ToVNC, ToSerial
  <2>2. PICK m \in ToSet(c.mounts) : m.vol = PasstBin
    BY <1>1, <1>7, <2>1 DEF IInv, ComputeMountsFit, c
  <2>3. m \in Mounts(c)
    BY DEF Mounts
  <2> DEFINE v == VolumeOf(m.vol)
  <2>4. v \in ToSet(pod.volumes) /\ v.name = m.vol /\ v \in VolumeType
    BY <1>1, <1>2, <2>3, VolumeFound
  <2>5. v.kind = "emptyDir"
    BY <1>3, <2>2, <2>4
  <2>6. MountLine(m)[2] = VolumeFile(v) /\ MountLine(m)[1] = "Volume"
    BY <1>1, <1>2, <2>3, <2>5, MountLineIs
  <2>7. VolumeFile(v) = file
    BY <2>2, <2>4, <2>5, VolumeFileIs DEF file
  <2>8. QED
    BY <2>3, <2>6, <2>7
<1>8. QED
    BY <1>6, <1>7 DEF c, file

\* The unit of compute that is written has the patched passt first in its PATH,
\* mounts the volume it is in, and requires the init container that puts it
\* there, all three exactly if the workaround was asked for.
THEOREM PatchedPasstAlwaysFound == ConvertSpec => []PatchedPasstIsFound
<1>1. ASSUME CInv, stage = "written"
      PROVE  LET compute == UnitFor(ComputeName)
             IN /\ "passt" \in opts <=> PathLine[2] \in Values(compute, "Container", "Environment")
                /\ "passt" \in opts <=> Typed(PasstBin, "tmpfs") \in Values(compute, "Container", "Volume")
                /\ "passt" \in opts <=> <<"passt-binary-patcher", 0>> \in RequiresOf(ComputeName)
  <2> DEFINE compute == UnitFor(ComputeName)
             file == Typed(PasstBin, "tmpfs")
             p == <<"passt-binary-patcher", 0>>
             c == pod.containers[1]
  <2>1. Ready /\ 1 \in 1..Len(pod.containers) /\ c.name = ComputeName
    BY <1>1, AllWritten, Listed
  <2>2. "passt" \in opts <=> PathLine[2] \in Values(compute, "Container", "Environment")
    <3>1. PathLine = <<"Environment", PathLine[2]>>
      BY DEF PathLine
    <3>2. "passt" \in opts <=> <<"Environment", PathLine[2]>> \in PathLines
      BY <3>1 DEF PathLines
    <3>3. QED
      BY <1>1, <3>2, ComputeValues
  <2>3. "passt" \in opts <=> file \in Values(compute, "Container", "Volume")
    <3>1. file \in Values(compute, "Container", "Volume") <=> <<"Volume", file>> \in SectionOf(c)
      BY <1>1, ComputeValues
    <3>2. <<"Volume", file>> \in SectionOf(c) <=>
            \E m \in Mounts(c) : MountLine(m)[1] = "Volume" /\ MountLine(m)[2] = file
      BY <2>1, ComputeSection
    <3>3. QED
      BY <2>1, <3>1, <3>2, PasstMounted
  <2>4. "passt" \in opts <=> p \in RequiresOf(ComputeName)
    <3>1. RequiresOf(ComputeName) = Awaited(1)
      BY <1>1, <2>1, RegularServices
    <3>2. Awaited(1) = ToSet(Names(pod.inits))
      BY DEF Awaited
    <3>3. QED
      BY <2>1, <3>1, <3>2, PatcherListed
  <2>5. QED
    BY <2>2, <2>3, <2>4
<1>2. CInv => PatchedPasstIsFound
    BY <1>1 DEF PatchedPasstIsFound
<1>3. QED
    BY <1>2, Conversion, PTL


-----------------------------------------------------------------------------
(***************************************************************************)
(* The services that are written are the ones PodUnits runs.               *)
(***************************************************************************)

\* At most a disk init for each volume, and three more.
LEMMA FewInits ==
    ASSUME Ready
    PROVE  Len(pod.inits) \in 0..(MaxItems + 3)
<1> DEFINE T == {i \in 1..Len(vm.volumes) : vm.volumes[i] \in {"blank", "registry"}}
           n == Len(vm.volumes)
<1>1. vm \in VMs /\ pod.inits = InitsAt("done")
    BY DEF Ready, IInv, TypeOK
<1>2. n \in 0..MaxItems /\ MaxItems \in Nat
  <2>1. vm.volumes \in BoundedSeq(VolumeKinds, MaxItems)
    BY <1>1 DEF VMs
  <2>2. PICK m \in 0..MaxItems : vm.volumes \in [1..m -> VolumeKinds]
    BY <2>1 DEF BoundedSeq, SeqOf
  <2>3. m \in Nat /\ MaxItems \in Nat
    BY MaxItemsAssumption
  <2>4. Len(vm.volumes) = m
    BY <2>2, <2>3
  <2>5. QED
    BY <2>3, <2>4
<1>3. T \in SUBSET Int /\ IsFiniteSet(T) /\ Cardinality(T) <= n
  <2>1. IsFiniteSet(1..n) /\ Cardinality(1..n) = n
    BY <1>2, FS_Interval
  <2>2. T \in SUBSET (1..n)
    OBVIOUS
  <2> HIDE DEF T, n
  <2>3. IsFiniteSet(T) /\ Cardinality(T) <= Cardinality(1..n)
    BY <2>1, <2>2, FS_Subset
  <2>4. QED
    BY <2>1, <2>2, <2>3
<1>4. Len(ToProvision) <= MaxItems
  <2>1. ToProvision = Sorted(T)
    BY DEF ToProvision, ProvisionedAs
  <2> HIDE DEF T, n
  <2>2. Cardinality(T) \in Nat /\ Sorted(T) \in [1..Cardinality(T) -> T]
    BY <1>3, SortedEnumerates
  <2>3. Len(ToProvision) = Cardinality(T)
    BY <2>1, <2>2
  <2>4. QED
    BY <1>2, <1>3, <2>2, <2>3
<1>5. /\ Plain \in Seq(ContainerType) /\ Len(Plain) <= 1
      /\ Patchers \in Seq(ContainerType) /\ Len(Patchers) <= 1
      /\ DiskInits \in Seq(ContainerType) /\ Len(DiskInits) <= MaxItems
      /\ <<DirExtended>> \in Seq(ContainerType) /\ Len(<<DirExtended>>) = 1
  <2>1. Len(Plain) <= 1 /\ Plain \in Seq(ContainerType)
    BY PlainIs
  <2>2. Len(Patchers) <= 1 /\ Patchers \in Seq(ContainerType)
    BY PatchersAre
  <2>3. Len(DiskInits) <= MaxItems /\ DiskInits \in Seq(ContainerType)
    BY <1>1, <1>4, DiskInitsAre
  <2>4. QED
    BY <2>1, <2>2, <2>3, DirExtendedIs, Singleton
<1>6. pod.inits = (<<DirExtended>> \o (DiskInits \o Plain)) \o Patchers
    BY <1>1 DEF InitsAt, ToPasst, ToDirs, ToCleanup, ToDisks, ToDevices, ToVNC, ToSerial
<1> DEFINE d == <<DirExtended>>
<1> HIDE DEF d, T, n
<1>7. Len((d \o (DiskInits \o Plain)) \o Patchers) \in 0..(MaxItems + 3)
  <2> DEFINE x == DiskInits \o Plain
             y == d \o x
  <2>1. d \in Seq(ContainerType) /\ Len(d) = 1
    BY <1>5 DEF d
  <2>2. x \in Seq(ContainerType) /\ Len(x) = Len(DiskInits) + Len(Plain)
    BY <1>5, AppendedIs
  <2> HIDE DEF x
  <2>3. y \in Seq(ContainerType) /\ Len(y) = 1 + Len(x)
    BY <2>1, <2>2, AppendedIs
  <2> HIDE DEF y
  <2>4. Len(y \o Patchers) = Len(y) + Len(Patchers)
    BY <1>5, <2>3, AppendedIs
  <2>5. Len(DiskInits) \in Nat /\ Len(Plain) \in Nat /\ Len(Patchers) \in Nat
    BY <1>5
  <2>6. QED
    BY <1>2, <1>5, <2>2, <2>3, <2>4, <2>5 DEF x, y
<1>8. QED
    BY <1>6, <1>7 DEF d

\* Compute, and at most two sidecars of KubeVirt's and two proxies.
LEMMA FewContainers ==
    ASSUME Ready
    PROVE  Len(pod.containers) \in 1..5
<1> DEFINE n == Len(pod.containers)
           W == {<<"hook", 0>>, <<"log", 0>>, <<"serial", 0>>, <<"vnc", 0>>}
<1>1. IInv /\ n \in Nat /\ 1 \in 1..n
    BY Listed DEF Ready
<1>2. ASSUME NEW k \in 2..n PROVE pod.containers[k].name \in W
  <2>1. PICK w \in SidecarsAt(step) : pod.containers[k].name = <<w, 0>>
    BY <1>1 DEF IInv, ContainersFit
  <2>2. vm.sidecars \in SUBSET {"hook", "log", "plain"} /\ opts \in Options
    BY <1>1, VMFacts DEF IInv, TypeOK
  <2>3. w \in {"hook", "log", "serial", "vnc"}
    BY <2>2 DEF SidecarsAt, Options
  <2>4. QED
    BY <2>1, <2>3
<1>3. \A j, k \in 1..n : pod.containers[j].name = pod.containers[k].name => j = k
    BY <1>1, NamesApart
<1>4. ASSUME n > 5 PROVE FALSE
  <2>1. \A k \in {2, 3, 4, 5, 6} : k \in 2..n /\ k \in 1..n
    BY <1>1, <1>4
  <2> HIDE DEF n, W
  <2> DEFINE c(k) == pod.containers[k].name
  <2>2. \A j, k \in {2, 3, 4, 5, 6} : c(j) = c(k) => j = k
    BY <1>3, <2>1
  <2>3. c(2) \in W /\ c(3) \in W /\ c(4) \in W /\ c(5) \in W /\ c(6) \in W
    BY <1>2, <2>1
  <2> HIDE DEF c
  <2>4. /\ c(2) # c(3) /\ c(2) # c(4) /\ c(2) # c(5) /\ c(2) # c(6) /\ c(3) # c(4)
        /\ c(3) # c(5) /\ c(3) # c(6) /\ c(4) # c(5) /\ c(4) # c(6) /\ c(5) # c(6)
    BY <2>2
  <2> DEFINE w1 == <<"hook", 0>>
             w2 == <<"log", 0>>
             w3 == <<"serial", 0>>
             w4 == <<"vnc", 0>>
  <2>5. W = {w1, w2, w3, w4}
    BY DEF W
  <2> HIDE DEF w1, w2, w3, w4
  <2>6. QED
    BY <2>3, <2>4, <2>5
<1> HIDE DEF n, W
<1>5. n \in 1..5
    BY <1>1, <1>4
<1>6. QED
    BY <1>5 DEF n

LEMMA Numbering ==
    ASSUME Ready
    PROVE  /\ Numbered(PodName) = 0
           /\ \A k \in 1..Len(pod.inits) : Numbered(pod.inits[k].name) = k
           /\ \A k \in 1..Len(pod.containers) : Numbered(pod.containers[k].name) = Len(pod.inits) + k
<1> DEFINE s == pod.inits \o pod.containers
           i == Len(pod.inits)
           c == Len(pod.containers)
<1>1. /\ pod.inits \in Seq(ContainerType) /\ pod.containers \in Seq(ContainerType)
      /\ i \in Nat /\ c \in Nat
    BY Listed
<1>2. /\ s \in Seq(ContainerType) /\ Len(s) = i + c /\ Len(All) = i + c
      /\ \A k \in 1..i : s[k] = pod.inits[k]
      /\ \A k \in 1..c : s[i + k] = pod.containers[k]
  <2>1. Len(All) = c + i
    BY <1>1, AppendedIs DEF All
  <2>2. s \in Seq(ContainerType) /\ Len(s) = i + c
    BY <1>1, AppendedIs
  <2>3. \A k \in 1..i : s[k] = pod.inits[k]
    <3> DEFINE a == pod.inits
               b == pod.containers
    <3>1. a \in Seq(ContainerType) /\ b \in Seq(ContainerType)
      BY <1>1
    <3> HIDE DEF a, b
    <3>2. \A k \in 1..Len(a) : (a \o b)[k] = a[k]
      BY <3>1, AppendedIs
    <3>3. QED
      BY <3>2 DEF a, b
  <2>4. ASSUME NEW k \in 1..c PROVE s[i + k] = pod.containers[k]
    <3> DEFINE a == pod.inits
               b == pod.containers
    <3>1. a \in Seq(ContainerType) /\ b \in Seq(ContainerType) /\ k \in 1..Len(b)
      BY <1>1
    <3> HIDE DEF a, b
    <3>2. (a \o b)[Len(a) + k] = b[k]
      BY <3>1, AppendedIs
    <3>3. QED
      BY <3>2 DEF a, b
  <2> HIDE DEF i, c
  <2>5. Len(All) = i + c
    BY <1>1, <2>1
  <2>6. QED
    BY <2>2, <2>3, <2>4, <2>5
<1>3. /\ \A j, k \in 1..i : pod.inits[j].name = pod.inits[k].name => j = k
      /\ \A j, k \in 1..c : pod.containers[j].name = pod.containers[k].name => j = k
      /\ \A j \in 1..i, k \in 1..c : pod.inits[j].name # pod.containers[k].name
    BY NamesApart DEF Ready
<1>4. ASSUME NEW n, n # PodName
      PROVE  Numbered(n) = CHOOSE k \in 1..Len(All) : s[k].name = n
    BY <1>4 DEF Numbered
<1> HIDE DEF s, i, c
<1>5. ASSUME NEW j \in 1..(i + c), NEW k \in 1..(i + c), s[j].name = s[k].name PROVE j = k
  <2>1. ASSUME NEW x \in 1..(i + c)
        PROVE  x \in 1..i \/ (x - i \in 1..c /\ s[x] = pod.containers[x - i])
    <3>1. x \notin 1..i => x - i \in 1..c /\ i + (x - i) = x
      BY <1>1
    <3>2. QED
      BY <1>2, <3>1
  <2>2. CASE j \in 1..i /\ k \in 1..i
    BY <1>2, <1>3, <1>5, <2>2
  <2>3. CASE j \in 1..i /\ k \notin 1..i
    BY <1>2, <1>3, <1>5, <2>1, <2>3
  <2>4. CASE j \notin 1..i /\ k \in 1..i
    BY <1>2, <1>3, <1>5, <2>1, <2>4
  <2>5. CASE j \notin 1..i /\ k \notin 1..i
    <3>1. j - i = k - i
      BY <1>3, <1>5, <2>1, <2>5
    <3>2. QED
      BY <1>1, <3>1
  <2>6. QED
    BY <2>2, <2>3, <2>4, <2>5
<1>6. ASSUME NEW n, n # PodName, NEW k \in 1..(i + c), s[k].name = n
      PROVE  Numbered(n) = k
  <2>1. \A j \in 1..(i + c) : s[j].name = n => j = k
    BY <1>5, <1>6
  <2>2. Numbered(n) = CHOOSE j \in 1..(i + c) : s[j].name = n
    BY <1>2, <1>4, <1>6
  <2>3. QED
    BY <1>6, <2>1, <2>2
<1>7. ASSUME NEW k \in 1..i PROVE Numbered(pod.inits[k].name) = k
  <2>1. pod.inits[k].name # PodName
    BY Listed, AllFacts, NameIsAny DEF i
  <2>2. k \in 1..(i + c) /\ s[k].name = pod.inits[k].name
    BY <1>1, <1>2
  <2>3. QED
    BY <1>6, <2>1, <2>2
<1>8. ASSUME NEW k \in 1..c PROVE Numbered(pod.containers[k].name) = i + k
  <2>1. pod.containers[k].name # PodName
    BY Listed, AllFacts, NameIsAny DEF c
  <2>2. i + k \in 1..(i + c) /\ s[i + k].name = pod.containers[k].name
    BY <1>1, <1>2
  <2>3. QED
    BY <1>6, <2>1, <2>2
<1>9. Numbered(PodName) = 0
    BY DEF Numbered
<1>10. QED
    BY <1>7, <1>8, <1>9 DEF i, c


LEMMA ServicesListed ==
    ASSUME CInv, stage = "written"
    PROVE  \A n : n \in ServiceNames <=>
             \/ n = PodName
             \/ \E k \in 1..Len(pod.inits) : n = pod.inits[k].name
             \/ \E k \in 1..Len(pod.containers) : n = pod.containers[k].name
<1>1. Ready
    BY AllWritten
<1>2. \A n : n \in ServiceNames <=> n = PodName \/ \E c \in ToSet(All) : c.name = n
    BY ServicesAre
<1>3. /\ \A k \in 1..Len(pod.inits) : pod.inits[k] \in ToSet(All)
      /\ \A k \in 1..Len(pod.containers) : pod.containers[k] \in ToSet(All)
      /\ \A c \in ToSet(All) : \/ \E k \in 1..Len(pod.inits) : pod.inits[k] = c
                               \/ \E k \in 1..Len(pod.containers) : pod.containers[k] = c
    BY <1>1, Listed
<1>4. ASSUME NEW n \in ServiceNames, n # PodName
      PROVE  \/ \E k \in 1..Len(pod.inits) : n = pod.inits[k].name
             \/ \E k \in 1..Len(pod.containers) : n = pod.containers[k].name
  <2>1. PICK c \in ToSet(All) : c.name = n
    BY <1>2, <1>4
  <2>2. QED
    BY <1>3, <2>1
<1>5. ASSUME NEW k \in 1..Len(pod.inits) PROVE pod.inits[k].name \in ServiceNames
    BY <1>2, <1>3
<1>6. ASSUME NEW k \in 1..Len(pod.containers) PROVE pod.containers[k].name \in ServiceNames
    BY <1>2, <1>3
<1>7. PodName \in ServiceNames
    BY <1>2
<1>8. QED
    BY <1>4, <1>5, <1>6, <1>7

\* What wants each service: the pod wants what has joined it, and compute the
\* init containers.
LEMMA WantsAre ==
    ASSUME CInv, stage = "written"
    PROVE  /\ WantsOf(PodName) = ServiceNames \ {PodName}
           /\ \A k \in 1..Len(pod.inits) : WantsOf(pod.inits[k].name) = {}
           /\ \A k \in 1..Len(pod.containers) : WantsOf(pod.containers[k].name) = Awaited(k)
<1> DEFINE Into(m) == ServicesIn(Values(UnitFor(m), "Install", "WantedBy"))
           init(k) == pod.inits[k].name
           regular(k) == pod.containers[k].name
<1>1. Ready /\ IInv /\ 1 \in 1..Len(pod.containers) /\ regular(1) = ComputeName
    BY AllWritten, Listed DEF Ready
<1>2. \A n, m : m \in WantsOf(n) <=> m \in ServiceNames /\ (n \in BindsTo(m) \/ n \in Into(m))
    BY DEF WantsOf
<1>3. BindsTo(PodName) = {} /\ Into(PodName) = {}
    BY PodServices
<1>4. \A k \in 1..Len(pod.inits) : /\ BindsTo(init(k)) = {PodName} /\ Into(init(k)) = {ComputeName}
                                   /\ init(k) \in Name
    BY InitServices
<1>5. \A k \in 1..Len(pod.containers) : /\ BindsTo(regular(k)) = {PodName}
                                        /\ Into(regular(k)) = {PodName} /\ regular(k) \in Name
    BY RegularServices
<1>6. \A n : n \in ServiceNames <=> \/ n = PodName
                                    \/ \E k \in 1..Len(pod.inits) : n = init(k)
                                    \/ \E k \in 1..Len(pod.containers) : n = regular(k)
    BY ServicesListed
<1>7. PodName \notin Name /\ ComputeName # PodName
    BY NameIsAny DEF ComputeName, PodName
<1>8. /\ \A j, k \in 1..Len(pod.containers) : regular(j) = regular(k) => j = k
      /\ \A j \in 1..Len(pod.inits), k \in 1..Len(pod.containers) : init(j) # regular(k)
    BY <1>1, NamesApart
<1>9. \A k \in 1..Len(pod.containers) : \A n : n \in Awaited(k) <=>
         k = 1 /\ \E j \in 1..Len(pod.inits) : n = init(j)
  <2>1. pod.inits \in Seq(ContainerType)
    BY <1>1, Listed
  <2>2. \A n : n \in ToSet(Names(pod.inits)) <=> \E j \in 1..Len(pod.inits) : pod.inits[j].name = n
    BY <2>1, NamedIn
  <2>3. QED
    BY <2>2 DEF Awaited
<1> HIDE DEF Into, init, regular
<1>10. WantsOf(PodName) = ServiceNames \ {PodName}
    BY <1>2, <1>3, <1>4, <1>5, <1>6
<1>11. ASSUME NEW k \in 1..Len(pod.inits) PROVE WantsOf(init(k)) = {}
  <2>1. init(k) # PodName /\ init(k) # ComputeName
    BY <1>1, <1>4, <1>7, <1>8
  <2>2. QED
    BY <1>2, <1>3, <1>4, <1>5, <1>6, <2>1
<1>12. ASSUME NEW k \in 1..Len(pod.containers) PROVE WantsOf(regular(k)) = Awaited(k)
  <2>1. regular(k) # PodName /\ (regular(k) = ComputeName <=> k = 1)
    BY <1>1, <1>5, <1>7, <1>8
  <2>2. \A m : m \in WantsOf(regular(k)) <=>
          k = 1 /\ \E j \in 1..Len(pod.inits) : m = init(j)
    <3>1. ASSUME NEW m \in WantsOf(regular(k))
          PROVE  k = 1 /\ \E j \in 1..Len(pod.inits) : m = init(j)
      <4>1. m \in ServiceNames /\ (regular(k) \in BindsTo(m) \/ regular(k) \in Into(m))
        BY <1>2
      <4>2. m # PodName
        BY <1>3, <4>1
      <4>3. ~ \E j \in 1..Len(pod.containers) : m = regular(j)
        BY <1>5, <2>1, <4>1
      <4>4. PICK j \in 1..Len(pod.inits) : m = init(j)
        BY <1>6, <4>1, <4>2, <4>3
      <4>5. regular(k) = ComputeName
        BY <1>4, <2>1, <4>1, <4>4
      <4>6. QED
        BY <2>1, <4>4, <4>5
    <3>2. ASSUME k = 1, NEW j \in 1..Len(pod.inits)
          PROVE  init(j) \in WantsOf(regular(k))
      <4>1. init(j) \in ServiceNames
        BY <1>6
      <4>2. regular(k) \in Into(init(j))
        BY <1>4, <2>1, <3>2
      <4>3. QED
        BY <1>2, <4>1, <4>2
    <3>3. QED
      BY <3>1, <3>2
  <2>3. QED
    BY <1>9, <2>2
<1>13. QED
    BY <1>10, <1>11, <1>12 DEF init, regular

\* Sets of services as sets of numbers.
Numbers(names) == {Numbered(m) : m \in names}

LEMMA NumbersAre ==
    ASSUME CInv, stage = "written"
    PROVE  /\ Numbers({}) = {} /\ Numbers({PodName}) = {0}
           /\ \A k \in 1..Len(pod.inits) : Numbers(Before(k)) = 1..(k - 1)
           /\ \A k \in 1..Len(pod.inits) : Numbers(Before(k) \cup {PodName}) = 1..(k - 1) \cup {0}
           /\ \A k \in 1..Len(pod.containers) :
                LET some == IF k = 1 THEN 1..Len(pod.inits) ELSE {}
                IN Numbers(Awaited(k)) = some /\ Numbers(Awaited(k) \cup {PodName}) = some \cup {0}
           /\ Numbers(ServiceNames \ {PodName}) = 1..(Len(pod.inits) + Len(pod.containers))
<1> DEFINE i == Len(pod.inits)
           c == Len(pod.containers)
<1>1. Ready
    BY AllWritten
<1>2. i \in Nat /\ c \in Nat /\ pod.inits \in Seq(ContainerType)
    BY <1>1, Listed
<1>3. /\ Numbered(PodName) = 0
      /\ \A k \in 1..i : Numbered(pod.inits[k].name) = k
      /\ \A k \in 1..c : Numbered(pod.containers[k].name) = i + k
    BY <1>1, Numbering
<1>4. /\ \A k \in 1..i : pod.inits[k].name # PodName
      /\ \A k \in 1..c : pod.containers[k].name # PodName
    BY InitServices, RegularServices, NameIsAny
<1>5. \A n : n \in ServiceNames <=> \/ n = PodName
                                    \/ \E k \in 1..i : n = pod.inits[k].name
                                    \/ \E k \in 1..c : n = pod.containers[k].name
    BY ServicesListed
<1>6. \A n : n \in ToSet(Names(pod.inits)) <=> \E j \in 1..i : pod.inits[j].name = n
    BY <1>2, NamedIn
<1> HIDE DEF i, c
<1>7. Numbers({}) = {} /\ Numbers({PodName}) = {0}
    BY <1>3 DEF Numbers
<1>8. \A A, B : Numbers(A \cup B) = Numbers(A) \cup Numbers(B)
    BY DEF Numbers
<1>9. ASSUME NEW k \in 1..i PROVE Numbers(Before(k)) = 1..(k - 1)
  <2>1. \A j \in 1..(k - 1) : j \in 1..i
    BY <1>2
  <2>2. \A j \in 1..(k - 1) : Numbered(pod.inits[j].name) = j
    BY <1>3, <2>1
  <2>3. ASSUME NEW x \in 1..(k - 1) PROVE x \in Numbers(Before(k))
    BY <2>2 DEF Numbers, Before
  <2>4. ASSUME NEW x \in Numbers(Before(k)) PROVE x \in 1..(k - 1)
    <3>1. PICK n \in Before(k) : x = Numbered(n)
      BY DEF Numbers
    <3>2. PICK j \in 1..(k - 1) : n = pod.inits[j].name
      BY DEF Before
    <3>3. QED
      BY <2>2, <3>1, <3>2
  <2>5. QED
    BY <2>3, <2>4
<1>10. Numbers(ToSet(Names(pod.inits))) = 1..i
  <2>1. ASSUME NEW x \in 1..i PROVE x \in Numbers(ToSet(Names(pod.inits)))
    BY <1>3, <1>6 DEF Numbers
  <2>2. ASSUME NEW x \in Numbers(ToSet(Names(pod.inits))) PROVE x \in 1..i
    BY <1>3, <1>6 DEF Numbers
  <2>3. QED
    BY <2>1, <2>2
<1>11. Numbers(ServiceNames \ {PodName}) = 1..(i + c)
  <2>1. ASSUME NEW x \in 1..(i + c) PROVE x \in Numbers(ServiceNames \ {PodName})
    <3>1. CASE x \in 1..i
      <4>1. pod.inits[x].name \in ServiceNames \ {PodName} /\ Numbered(pod.inits[x].name) = x
        BY <1>3, <1>4, <1>5, <3>1
      <4>2. QED
        BY <4>1 DEF Numbers
    <3>2. CASE x \notin 1..i
      <4>1. x - i \in 1..c /\ i + (x - i) = x
        BY <1>2, <3>2
      <4>2. /\ pod.containers[x - i].name \in ServiceNames \ {PodName}
            /\ Numbered(pod.containers[x - i].name) = x
        BY <1>3, <1>4, <1>5, <4>1
      <4>3. QED
        BY <4>2 DEF Numbers
    <3>3. QED
      BY <3>1, <3>2
  <2>2. ASSUME NEW x \in Numbers(ServiceNames \ {PodName}) PROVE x \in 1..(i + c)
    <3>1. PICK n \in ServiceNames \ {PodName} : x = Numbered(n)
      BY DEF Numbers
    <3>2. \/ \E k \in 1..i : n = pod.inits[k].name
          \/ \E k \in 1..c : n = pod.containers[k].name
      BY <1>5
    <3>3. CASE \E k \in 1..i : n = pod.inits[k].name
      BY <1>2, <1>3, <3>1, <3>3
    <3>4. CASE \E k \in 1..c : n = pod.containers[k].name
      BY <1>2, <1>3, <3>1, <3>4
    <3>5. QED
      BY <3>2, <3>3, <3>4
  <2>3. QED
    BY <2>1, <2>2
<1>12. ASSUME NEW k \in 1..c
       PROVE  Numbers(Awaited(k)) = IF k = 1 THEN 1..i ELSE {}
    BY <1>7, <1>10 DEF Awaited
<1>13. \A k \in 1..i : Numbers(Before(k) \cup {PodName}) = 1..(k - 1) \cup {0}
    BY <1>7, <1>8, <1>9
<1>14. ASSUME NEW k \in 1..c
       PROVE  Numbers(Awaited(k) \cup {PodName}) = (IF k = 1 THEN 1..i ELSE {}) \cup {0}
  <2>1. Numbers(Awaited(k) \cup {PodName}) = Numbers(Awaited(k)) \cup Numbers({PodName})
    BY <1>8
  <2>2. QED
    BY <1>7, <1>12, <2>1
<1>15. QED
    BY <1>7, <1>9, <1>11, <1>12, <1>13, <1>14 DEF i, c


\* The restarts and the kinds of the services, and the exit policy of the pod.
LEMMA ServiceKinds ==
    ASSUME CInv, stage = "written"
    PROVE  LET Kind(n) == Values(UnitFor(n), "Service", "Type")
                            \cup Values(UnitFor(n), "Service", "RemainAfterExit")
               oneshot == {Value("oneshot"), Value("yes")}
           IN /\ RestartsOnFailure(PodName) /\ ~(oneshot \subseteq Kind(PodName))
              /\ \A k \in 1..Len(pod.inits) :
                   LET n == pod.inits[k].name IN ~RestartsOnFailure(n) /\ oneshot \subseteq Kind(n)
              /\ \A k \in 1..Len(pod.containers) :
                   LET n == pod.containers[k].name IN RestartsOnFailure(n) /\ ~(oneshot \subseteq Kind(n))
              /\ Value("--exit-policy continue") \in Values(UnitFor(PodName), "Pod", "PodmanArgs")
<1> DEFINE In(n, key) == Values(UnitFor(n), "Service", key)
           Kind(n) == In(n, "Type") \cup In(n, "RemainAfterExit")
           oneshot == {Value("oneshot"), Value("yes")}
<1>1. \A k \in 1..Len(pod.inits) : \A key, v :
        v \in In(pod.inits[k].name, key) <=> <<key, v>> \in OneShot
    BY InitValues
<1>2. \A k \in 1..Len(pod.containers) : \A key, v :
        v \in In(pod.containers[k].name, key) <=> <<key, v>> \in Restarts
    BY RegularValues
<1>3. \A key, v : key # "PublishPort" => (v \in In(PodName, key) <=> <<key, v>> \in Grace)
    BY PodValues
<1>4. \A k \in 1..Len(pod.inits) : pod.inits[k].name # PodName
    BY InitServices, NameIsAny
<1>5. /\ \A v : <<"Type", v>> \notin Restarts /\ <<"RemainAfterExit", v>> \notin Restarts
      /\ <<"Restart", Value("on-failure")>> \in Restarts
    BY DEF Restarts
<1>6. \A v : /\ <<"Type", v>> \notin Grace /\ <<"RemainAfterExit", v>> \notin Grace
             /\ <<"Restart", v>> \notin Grace
    BY DEF Grace
<1>7. /\ <<"Type", Value("oneshot")>> \in OneShot /\ <<"RemainAfterExit", Value("yes")>> \in OneShot
      /\ \A v : <<"Restart", v>> \notin OneShot
    BY DEF OneShot
<1>8. /\ In(PodName, "Restart") = {} /\ Kind(PodName) = {}
    BY <1>3, <1>6
<1>9. RestartsOnFailure(PodName) /\ ~(oneshot \subseteq Kind(PodName))
    BY <1>8 DEF RestartsOnFailure
<1>10. ASSUME NEW k \in 1..Len(pod.inits)
       PROVE  ~RestartsOnFailure(pod.inits[k].name) /\ oneshot \subseteq Kind(pod.inits[k].name)
  <2> DEFINE n == pod.inits[k].name
  <2>1. \A key, v : v \in In(n, key) <=> <<key, v>> \in OneShot
    BY <1>1
  <2>2. n # PodName
    BY <1>4
  <2> HIDE DEF n
  <2>3. In(n, "Restart") = {}
    BY <1>7, <2>1
  <2>4. oneshot \subseteq Kind(n)
    BY <1>7, <2>1
  <2>5. ~RestartsOnFailure(n)
    BY <2>2, <2>3 DEF RestartsOnFailure
  <2>6. QED
    BY <2>4, <2>5 DEF n
<1>11. ASSUME NEW k \in 1..Len(pod.containers)
       PROVE  /\ RestartsOnFailure(pod.containers[k].name)
              /\ ~(oneshot \subseteq Kind(pod.containers[k].name))
  <2> DEFINE n == pod.containers[k].name
  <2>1. \A key, v : v \in In(n, key) <=> <<key, v>> \in Restarts
    BY <1>2
  <2> HIDE DEF n
  <2>2. Value("on-failure") \in In(n, "Restart") /\ Kind(n) = {}
    BY <1>5, <2>1
  <2>3. QED
    BY <2>2 DEF RestartsOnFailure, n
<1>12. Value("--exit-policy continue") \in Values(UnitFor(PodName), "Pod", "PodmanArgs")
  <2>1. <<"PodmanArgs", Value("--exit-policy continue")>> \in PodLines
    BY DEF PodLines
  <2>2. QED
    BY <2>1, PodValues
<1>13. QED
    BY <1>9, <1>10, <1>11, <1>12

\* What PodUnits says of the services of a pod with i init containers and c
\* containers, when nothing stale is around.
LEMMA GraphIs ==
    /\ \A i, c \in Nat : \A u \in 0..(i + c) : G(i, c)!Requires(u) =
         IF u \in 1..i THEN 1..(u - 1) ELSE IF u = i + 1 THEN 1..i ELSE {}
    /\ \A i, c \in Nat : \A u \in 0..(i + c) : G(i, c)!Wants(u) =
         IF u = 0 THEN 1..(i + c) ELSE IF u = i + 1 THEN 1..i ELSE {}
    /\ \A i, c \in Nat : \A u \in 0..(i + c) : G(i, c)!RestartsOnFailure(u) <=> u \notin 1..i
    /\ \A i, c \in Nat : G(i, c)!Inits = 1..i /\ G(i, c)!ExitPolicy = "continue"
<1>0. ASSUME NEW i \in Nat, NEW c \in Nat
      PROVE  G(i, c)!Inits = 1..i /\ G(i, c)!ExitPolicy = "continue"
    BY DEF G!Inits, G!ExitPolicy
<1> SUFFICES ASSUME NEW i \in Nat, NEW c \in Nat, NEW u \in 0..(i + c)
    PROVE  /\ G(i, c)!Requires(u) =
                IF u \in 1..i THEN 1..(u - 1) ELSE IF u = i + 1 THEN 1..i ELSE {}
           /\ G(i, c)!Wants(u) = IF u = 0 THEN 1..(i + c) ELSE IF u = i + 1 THEN 1..i ELSE {}
           /\ G(i, c)!RestartsOnFailure(u) <=> u \notin 1..i
    BY <1>0
<1>1. /\ G(i, c)!Inits = 1..i /\ G(i, c)!Compute = i + 1 /\ G(i, c)!Pod = 0
      /\ G(i, c)!Containers = (i + 1)..(i + c) /\ G(i, c)!Stale = (i + c + 1)..(i + c + 0)
    BY DEF G!Inits, G!Compute, G!Pod, G!Containers, G!Stale
<1>2. (i + c + 1)..(i + c + 0) = {}
    OBVIOUS
<1>3. G(i, c)!Oneshots = 1..i /\ G(i, c)!Members = 1..(i + c)
    BY <1>1, <1>2 DEF G!Oneshots, G!Members
<1>4. G(i, c)!Requires(u) =
        IF u \in 1..i THEN 1..(u - 1) ELSE IF u = i + 1 THEN 1..i ELSE {}
    BY <1>1, <1>2 DEF G!Requires
<1>5. G(i, c)!Wants(u) = IF u = 0 THEN 1..(i + c) ELSE IF u = i + 1 THEN 1..i ELSE {}
    BY <1>1, <1>3 DEF G!Wants
<1>6. G(i, c)!RestartsOnFailure(u) <=> u \notin 1..i
    BY <1>1 DEF G!RestartsOnFailure
<1>7. QED
    BY <1>4, <1>5, <1>6


\* What the units that are written make of each service, by its number.
LEMMA GraphWritten ==
    ASSUME CInv, stage = "written", NEW n \in ServiceNames
    PROVE  LET i == Len(pod.inits)
               c == Len(pod.containers)
               u == Numbered(n)
           IN /\ u \in 0..(i + c)
              /\ Numbers(RequiresOf(n)) =
                   IF u \in 1..i THEN 1..(u - 1) ELSE IF u = i + 1 THEN 1..i ELSE {}
              /\ Numbers(BindsTo(n)) = IF u = 0 THEN {} ELSE {0}
              /\ Numbers(AfterOf(n)) = Numbers(RequiresOf(n)) \cup Numbers(BindsTo(n))
              /\ Numbers(WantsOf(n)) = IF u = 0 THEN 1..(i + c) ELSE IF u = i + 1 THEN 1..i ELSE {}
              /\ RestartsOnFailure(n) <=> u \notin 1..i
              /\ u \in 1..i <=>
                   {Value("oneshot"), Value("yes")} \subseteq
                     Values(UnitFor(n), "Service", "Type")
                       \cup Values(UnitFor(n), "Service", "RemainAfterExit")
<1> DEFINE i == Len(pod.inits)
           c == Len(pod.containers)
           u == Numbered(n)
           oneshot == {Value("oneshot"), Value("yes")} \subseteq
                        Values(UnitFor(n), "Service", "Type")
                          \cup Values(UnitFor(n), "Service", "RemainAfterExit")
           Goal ==
             /\ u \in 0..(i + c)
             /\ Numbers(RequiresOf(n)) =
                  IF u \in 1..i THEN 1..(u - 1) ELSE IF u = i + 1 THEN 1..i ELSE {}
             /\ Numbers(BindsTo(n)) = IF u = 0 THEN {} ELSE {0}
             /\ Numbers(AfterOf(n)) = Numbers(RequiresOf(n)) \cup Numbers(BindsTo(n))
             /\ Numbers(WantsOf(n)) = IF u = 0 THEN 1..(i + c) ELSE IF u = i + 1 THEN 1..i ELSE {}
             /\ RestartsOnFailure(n) <=> u \notin 1..i
             /\ u \in 1..i <=> oneshot
<1>1. Ready /\ i \in Nat /\ c \in Nat
    BY AllWritten, Listed
<1>2. Numbers({}) = {} /\ Numbers({PodName}) = {0}
    BY NumbersAre
<1>3. ASSUME n = PodName PROVE Goal
  <2>1. u = 0
    BY <1>1, <1>3, Numbering
  <2>2. RequiresOf(n) = {} /\ BindsTo(n) = {} /\ AfterOf(n) = {}
    BY <1>3, PodServices
  <2>3. Numbers(WantsOf(n)) = 1..(i + c)
    BY <1>3, WantsAre, NumbersAre
  <2>4. RestartsOnFailure(n) /\ ~oneshot
    BY <1>3, ServiceKinds
  <2> HIDE DEF i, c, u, oneshot
  <2>5. QED
    BY <1>1, <1>2, <2>1, <2>2, <2>3, <2>4 DEF Goal
<1>4. ASSUME NEW k \in 1..i, n = pod.inits[k].name PROVE Goal
  <2>1. u = k
    BY <1>1, <1>4, Numbering
  <2>2. RequiresOf(n) = Before(k) /\ BindsTo(n) = {PodName} /\ AfterOf(n) = Before(k) \cup {PodName}
    BY <1>4, InitServices
  <2>3. Numbers(Before(k)) = 1..(k - 1) /\ Numbers(Before(k) \cup {PodName}) = 1..(k - 1) \cup {0}
    BY NumbersAre
  <2>4. WantsOf(n) = {}
    BY <1>4, WantsAre
  <2>5. ~RestartsOnFailure(n) /\ oneshot
    BY <1>4, ServiceKinds
  <2> HIDE DEF i, c, u, oneshot
  <2>6. u \in 1..i /\ u # 0 /\ u # i + 1 /\ u \in 0..(i + c)
    BY <1>1, <2>1
  <2>7. QED
    BY <1>2, <2>1, <2>2, <2>3, <2>4, <2>5, <2>6 DEF Goal
<1>5. ASSUME NEW k \in 1..c, n = pod.containers[k].name PROVE Goal
  <2> DEFINE some == IF k = 1 THEN 1..i ELSE {}
  <2>1. u = i + k
    BY <1>1, <1>5, Numbering
  <2>2. RequiresOf(n) = Awaited(k) /\ BindsTo(n) = {PodName} /\ AfterOf(n) = Awaited(k) \cup {PodName}
    BY <1>5, RegularServices
  <2>3. Numbers(Awaited(k)) = some /\ Numbers(Awaited(k) \cup {PodName}) = some \cup {0}
    BY NumbersAre
  <2>4. WantsOf(n) = Awaited(k)
    BY <1>5, WantsAre
  <2>5. RestartsOnFailure(n) /\ ~oneshot
    BY <1>5, ServiceKinds
  <2> HIDE DEF i, c, u, oneshot
  <2>6. u \notin 1..i /\ u # 0 /\ (u = i + 1 <=> k = 1) /\ u \in 0..(i + c)
    BY <1>1, <2>1
  <2>7. QED
    BY <1>2, <2>2, <2>3, <2>4, <2>5, <2>6 DEF Goal
<1>6. Goal
  <2> HIDE DEF Goal
  <2>1. QED
    BY <1>3, <1>4, <1>5, ServicesListed
<1>7. QED
    BY <1>6 DEF Goal

\* The services that the written units describe are those of PodUnits, for every
\* number of init containers and containers a VM gives rise to: what is proved
\* of PodUnits is so of the units this program writes.
THEOREM GraphAlwaysPodUnits == ConvertSpec => []GraphIsPodUnits
<1>1. ASSUME CInv, stage = "written"
      PROVE  \A i, c \in Nat : i = Len(pod.inits) /\ c = Len(pod.containers) =>
               \A n \in ServiceNames :
                 LET u == Numbered(n)
                 IN /\ Numbers(RequiresOf(n)) = G(i, c)!Requires(u)
                    /\ Numbers(BindsTo(n)) = G(i, c)!BindsTo(u)
                    /\ Numbers(AfterOf(n)) = G(i, c)!After(u)
                    /\ Numbers(WantsOf(n)) = G(i, c)!Wants(u)
                    /\ RestartsOnFailure(n) <=> G(i, c)!RestartsOnFailure(u)
                    /\ u \in G(i, c)!Inits <=>
                         {Value("oneshot"), Value("yes")} \subseteq
                           Values(UnitFor(n), "Service", "Type")
                             \cup Values(UnitFor(n), "Service", "RemainAfterExit")
                    /\ Value("--exit-policy continue") \in
                           Values(UnitFor(PodName), "Pod", "PodmanArgs")
                         <=> G(i, c)!ExitPolicy = "continue"
  <2> TAKE i, c \in Nat
  <2> HAVE i = Len(pod.inits) /\ c = Len(pod.containers)
  <2> TAKE n \in ServiceNames
  <2> DEFINE u == Numbered(n)
             oneshot == {Value("oneshot"), Value("yes")} \subseteq
                          Values(UnitFor(n), "Service", "Type")
                            \cup Values(UnitFor(n), "Service", "RemainAfterExit")
             continue == Value("--exit-policy continue") \in
                           Values(UnitFor(PodName), "Pod", "PodmanArgs")
  <2>1. /\ u \in 0..(i + c)
        /\ Numbers(RequiresOf(n)) =
             IF u \in 1..i THEN 1..(u - 1) ELSE IF u = i + 1 THEN 1..i ELSE {}
        /\ Numbers(BindsTo(n)) = IF u = 0 THEN {} ELSE {0}
        /\ Numbers(AfterOf(n)) = Numbers(RequiresOf(n)) \cup Numbers(BindsTo(n))
        /\ Numbers(WantsOf(n)) = IF u = 0 THEN 1..(i + c) ELSE IF u = i + 1 THEN 1..i ELSE {}
        /\ RestartsOnFailure(n) <=> u \notin 1..i
        /\ u \in 1..i <=> oneshot
    BY <1>1, GraphWritten
  <2>2. continue
    BY <1>1, ServiceKinds
  <2> HIDE DEF u, oneshot, continue
  <2>3. /\ G(i, c)!Requires(u) =
             IF u \in 1..i THEN 1..(u - 1) ELSE IF u = i + 1 THEN 1..i ELSE {}
        /\ G(i, c)!BindsTo(u) = IF u = 0 THEN {} ELSE {0}
        /\ G(i, c)!After(u) = G(i, c)!Requires(u) \cup G(i, c)!BindsTo(u)
        /\ G(i, c)!Wants(u) = IF u = 0 THEN 1..(i + c) ELSE IF u = i + 1 THEN 1..i ELSE {}
        /\ G(i, c)!RestartsOnFailure(u) <=> u \notin 1..i
        /\ u \in G(i, c)!Inits <=> u \in 1..i
        /\ G(i, c)!ExitPolicy = "continue"
    <3>1. u \in 0..(i + c)
      BY <2>1
    <3>2. G(i, c)!Requires(u) =
            IF u \in 1..i THEN 1..(u - 1) ELSE IF u = i + 1 THEN 1..i ELSE {}
      BY <3>1, GraphIs
    <3>3. G(i, c)!BindsTo(u) = IF u = 0 THEN {} ELSE {0}
      BY DEF G!BindsTo, G!Pod
    <3>4. G(i, c)!After(u) = G(i, c)!Requires(u) \cup G(i, c)!BindsTo(u)
      BY DEF G!After
    <3>5. G(i, c)!Wants(u) = IF u = 0 THEN 1..(i + c) ELSE IF u = i + 1 THEN 1..i ELSE {}
      BY <3>1, GraphIs
    <3>6. G(i, c)!RestartsOnFailure(u) <=> u \notin 1..i
      BY <3>1, GraphIs
    <3>7. G(i, c)!Inits = 1..i /\ G(i, c)!ExitPolicy = "continue"
      BY GraphIs
    <3>8. QED
      BY <3>2, <3>3, <3>4, <3>5, <3>6, <3>7
  <2>4. /\ Numbers(RequiresOf(n)) = G(i, c)!Requires(u)
        /\ Numbers(BindsTo(n)) = G(i, c)!BindsTo(u)
        /\ Numbers(AfterOf(n)) = G(i, c)!After(u)
        /\ Numbers(WantsOf(n)) = G(i, c)!Wants(u)
    BY <2>1, <2>3
  <2>5. /\ RestartsOnFailure(n) <=> G(i, c)!RestartsOnFailure(u)
        /\ u \in G(i, c)!Inits <=> oneshot
    BY <2>1, <2>3
  <2>6. continue <=> G(i, c)!ExitPolicy = "continue"
    BY <2>2, <2>3
  <2>7. QED
    BY <2>4, <2>5, <2>6 DEF u, oneshot, continue
<1>2. ASSUME CInv PROVE GraphIsPodUnits
  <2>1. CASE stage = "written"
    <3>1. Len(pod.inits) \in 0..(MaxItems + 3) /\ Len(pod.containers) \in 1..5
      BY <1>2, <2>1, AllWritten, FewInits, FewContainers
    <3>2. PICK i \in 0..(MaxItems + 3), c \in 1..5 : i = Len(pod.inits) /\ c = Len(pod.containers)
      BY <3>1
    <3>3. i \in Nat /\ c \in Nat
      BY MaxItemsAssumption
    <3>4. \A n \in ServiceNames :
            LET u == Numbered(n)
            IN /\ Numbers(RequiresOf(n)) = G(i, c)!Requires(u)
               /\ Numbers(BindsTo(n)) = G(i, c)!BindsTo(u)
               /\ Numbers(AfterOf(n)) = G(i, c)!After(u)
               /\ Numbers(WantsOf(n)) = G(i, c)!Wants(u)
               /\ RestartsOnFailure(n) <=> G(i, c)!RestartsOnFailure(u)
               /\ u \in G(i, c)!Inits <=>
                    {Value("oneshot"), Value("yes")} \subseteq
                      Values(UnitFor(n), "Service", "Type")
                        \cup Values(UnitFor(n), "Service", "RemainAfterExit")
               /\ Value("--exit-policy continue") \in
                      Values(UnitFor(PodName), "Pod", "PodmanArgs")
                    <=> G(i, c)!ExitPolicy = "continue"
      BY <1>1, <1>2, <2>1, <3>2, <3>3
    <3>5. QED
      BY <3>2, <3>4 DEF GraphIsPodUnits, Numbers
  <2>2. CASE stage # "written"
    BY <2>2 DEF GraphIsPodUnits
  <2>3. QED
    BY <2>1, <2>2
<1>3. QED
    BY <1>2, Conversion, PTL

=============================================================================
