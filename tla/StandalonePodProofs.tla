------------------------- MODULE StandalonePodProofs -------------------------
(***************************************************************************)
(* Theorems about the pod that step 5 adapts, for VMs with any number of   *)
(* volumes, GPUs and host devices, and any choice of options.              *)
(*                                                                         *)
(* The invariant says exactly what the inits are after each step, and of   *)
(* containers, mounts and volumes which have been added, by the first part *)
(* of their names; a step only ever adds names whose first part is new.    *)
(***************************************************************************)
EXTENDS StandalonePod, EnumerationLemmas, TLAPS

Tags ==
    {"compute", "hook", "log", "plain", "serial", "vnc", "disk", "virt-handler-dir-init",
     "passt-binary-patcher", "private", "volume", "kvm", "tun", "vhost-net", "cgroup", "nvidia",
     "nvidiactl", "nvidia-uvm", "nvidia-uvm-tools", "nvidia-modeset", "dri-card", "dri-render",
     "vfio", "vfio-group", "import-src", "passt-bin", "private-libvirt", "private-libvirt-qemu",
     "vm-state", "vmi-disks", "nvram", "swtpm", "swtpm-localca", "emptydir", "vm-state-init"}
Name == Tags \X Int
Subs == {"", "nvram", "swtpm", "swtpm-localca"}
Files == {"libvirt/qemu", "disk.img", "passt", "nvram", "swtpm", "swtpm-localca"}
MountType == [vol : Name, path : Name, mode : {"rw", "ro"}, sub : Subs]
ProbeWords == {"none", "readiness", "liveness", "own"} \cup Namespaces
ContainerType ==
    [name : Name, mounts : Seq(MountType), restart : {"unset", "always"}, does : SUBSET (Name \X Files),
     dials : Seq({"default", "serial", "vnc"}),
     env : SUBSET {"STANDALONE_VMI", "VIRSH_DEFAULT_CONNECT_URI"}, probe : Seq(ProbeWords)]
VolumeType == [name : Name, kind : {"emptyDir", "image", "pvc", "host", "device"}]
PodType ==
    [containers : Seq(ContainerType), inits : Seq(ContainerType), volumes : Seq(VolumeType),
     restart : {"never", "on-failure"}, grace : {"rendered", "120"}]  \* step 6 sets it

\* The steps up to one.
ToSerial == {"serial"}
ToVNC == ToSerial \cup {"vnc"}
ToDevices == ToVNC \cup {"devices"}
ToDisks == ToDevices \cup {"disks"}
ToCleanup == ToDisks \cup {"cleanup"}
ToDirs == ToCleanup \cup {"dirs"}
ToPasst == ToDirs \cup {"passt"}
ToState == ToPasst \cup {"state"}
Steps == ToState \cup {"probe", "env", "done"}

TypeOK ==
    /\ step \in Steps
    /\ vm \in VMs
    /\ opts \in Options
    /\ pod \in PodType

-----------------------------------------------------------------------------
(***************************************************************************)
(* The inits after each step.                                              *)
(***************************************************************************)

Log ==
    IF "log" \in vm.sidecars
    THEN <<[Container(<<"log", 0>>, <<Mount(Private, Private)>>) EXCEPT !.restart = "always"]>>
    ELSE <<>>
Plain ==
    IF "plain" \in vm.sidecars THEN <<Container(<<"plain", 0>>, <<Mount(Private, Private)>>)>>
    ELSE <<>>
DiskInits == [k \in 1..Len(ToProvision) |-> DiskInit(ToProvision[k])]
Dir == [Container(DirInitName, <<Mount(Private, <<"emptydir", 1>>)>>)
          EXCEPT !.does = {<<Private, "libvirt/qemu">>}]
DirExtended ==
    [Dir EXCEPT !.mounts = Append(@, Mount(VMState, <<"vm-state-init", 0>>)),
                !.does = @ \cup {<<VMState, s>> : s \in ToSet(SubPaths)}]
Extended(c) ==
    [c EXCEPT !.mounts = Append(@, Mount(VMState, <<"vm-state-init", 0>>)),
              !.does = @ \cup {<<VMState, s>> : s \in ToSet(SubPaths)}]
Patcher == [Container(<<"passt-binary-patcher", 0>>, <<Mount(PasstBin, PasstBin)>>)
              EXCEPT !.does = {<<PasstBin, "passt">>}]
Patchers == IF "passt" \in opts THEN <<Patcher>> ELSE <<>>

InitsAt(s) ==
    IF s \in ToDisks THEN Log \o Plain
    ELSE IF s = "cleanup" THEN DiskInits \o (Log \o Plain)
    ELSE IF s = "dirs" THEN DiskInits \o Plain
    ELSE IF s = "passt" THEN <<Dir>> \o (DiskInits \o Plain)
    ELSE IF s = "state" THEN (<<Dir>> \o (DiskInits \o Plain)) \o Patchers
    ELSE (<<DirExtended>> \o (DiskInits \o Plain)) \o Patchers

-----------------------------------------------------------------------------
(***************************************************************************)
(* The containers, their mounts and the volumes after each step.           *)
(***************************************************************************)

\* What there is beside compute.
SidecarsAt(s) ==
    (vm.sidecars \cap ({"hook"} \cup IF s \in ToCleanup THEN {} ELSE {"log"}))
      \cup (opts \cap ((IF s \in ToSerial THEN {} ELSE {"serial"})
                         \cup (IF s \in ToVNC THEN {} ELSE {"vnc"})))

\* Compute is first, and each other container has its one mount; a proxy dials
\* the socket of its name.
ContainersFit ==
    /\ Len(pod.containers) > 0
    /\ pod.containers[1].name = ComputeName
    /\ Distinct(Names(pod.containers))
    /\ \A k \in 2..Len(pod.containers) :
         /\ pod.containers[k].mounts = <<Mount(Private, Private)>>
         /\ \E n \in SidecarsAt(step) :
              /\ pod.containers[k].name = <<n, 0>>
              /\ n \in {"serial", "vnc"} => pod.containers[k].dials = <<"default", n>>
    /\ \A n \in SidecarsAt(step) : \E k \in 2..Len(pod.containers) : pod.containers[k].name = <<n, 0>>

DeviceTags ==
    {"kvm", "tun", "vhost-net", "cgroup", "nvidia", "nvidiactl", "nvidia-uvm", "nvidia-uvm-tools",
     "nvidia-modeset", "dri-card", "dri-render", "vfio", "vfio-group"}
StateTags == {"private-libvirt", "private-libvirt-qemu"}

VolumeTags(s) ==
    {"private", "volume"}
      \cup (IF s \in ToDevices THEN {} ELSE DeviceTags)
      \cup (IF s \in ToDisks THEN {} ELSE {"import-src"})
      \cup (IF s \in ToPasst THEN {} ELSE {"passt-bin"})
      \cup (IF s \in ToState THEN {} ELSE StateTags \cup {"vm-state"})

PathTags(s) ==
    {"private", "vmi-disks"}
      \cup (IF s \in ToDevices THEN {} ELSE DeviceTags)
      \cup (IF s \in ToPasst THEN {} ELSE {"passt-bin"})
      \cup (IF s \in ToState THEN {} ELSE StateTags \cup ToSet(SubPaths))

\* The volumes that are images.
ImageName(n) ==
    n[1] = "import-src" \/ (n[1] = "volume" /\ vm.volumes[n[2]] = "containerDisk")

VolumesFit ==
    /\ Distinct(Names(pod.volumes))
    /\ \A k \in 1..Len(pod.volumes) :
         LET v == pod.volumes[k]
         IN /\ v.name[1] \in VolumeTags(step)
            /\ v.name[1] = "private" => v = Volume(Private, "emptyDir")
            /\ v.name[1] = "volume" => v.name[2] \in 1..Len(vm.volumes)
            /\ v.kind = "image" => ImageName(v.name)
    /\ Private \in ToSet(Names(pod.volumes))
    /\ \A i \in 1..Len(vm.volumes) : VMVolume(i) \in ToSet(Names(pod.volumes))
    /\ step \notin ToDisks =>
         \A i \in ToSet(ProvisionedAs({"registry"})) : Source(i) \in ToSet(Names(pod.volumes))
    /\ step \notin ToPasst /\ "passt" \in opts => PasstBin \in ToSet(Names(pod.volumes))
    /\ step \notin ToState => VMState \in ToSet(Names(pod.volumes))

Paths(ms) == [k \in 1..Len(ms) |-> ms[k].path]

\* Mounts of compute: of volumes there are, at paths of their own, and those
\* that the guest needs are there.
ComputeMountsFit ==
    LET ms == pod.containers[1].mounts
    IN /\ Distinct(Paths(ms))
       /\ \A k \in 1..Len(ms) :
            /\ ms[k].path[1] \in PathTags(step)
            /\ ms[k].vol \in ToSet(Names(pod.volumes))
            /\ ImageName(ms[k].vol) => ms[k].mode = "ro"
            /\ ms[k].path = Private => ms[k].vol = Private
            /\ ms[k].sub # "" => ms[k].vol = VMState /\ ms[k].sub \in ToSet(SubPaths)
       /\ ToSet(Rendered(vm).containers[1].mounts) \subseteq ToSet(ms)
       /\ step \notin ToPasst /\ "passt" \in opts => \E m \in ToSet(ms) : m.vol = PasstBin

IInv ==
    /\ TypeOK
    /\ ContainersFit
    /\ pod.inits = InitsAt(step)
    /\ VolumesFit
    /\ ComputeMountsFit

-----------------------------------------------------------------------------
(***************************************************************************)
(* The VM and what the steps compute from it.                              *)
(***************************************************************************)

LEMMA VMFacts ==
    ASSUME vm \in VMs
    PROVE  /\ vm.volumes \in Seq(VolumeKinds) /\ vm.gpus \in Seq(Vendors)
           /\ vm.bound \in Seq(0..MaxGroups)
           /\ vm.sidecars \in SUBSET {"hook", "log", "plain"}
           /\ vm.probe \in Probes /\ vm.ns \in Namespaces
<1>1. /\ vm.volumes \in BoundedSeq(VolumeKinds, MaxItems)
      /\ vm.gpus \in BoundedSeq(Vendors, MaxItems)
      /\ vm.bound \in BoundedSeq(0..MaxGroups, MaxItems)
      /\ vm.sidecars \in SUBSET {"hook", "log", "plain"}
      /\ vm.probe \in Probes /\ vm.ns \in Namespaces
    BY DEF VMs
<1>2. ASSUME NEW S, NEW s \in BoundedSeq(S, MaxItems) PROVE s \in Seq(S)
    BY MaxItemsAssumption DEF BoundedSeq, SeqOf
<1>3. QED
    BY <1>1, <1>2

LEMMA ProvisionedFacts ==
    ASSUME vm \in VMs, NEW kinds
    PROVE  LET T == {i \in 1..Len(vm.volumes) : vm.volumes[i] \in kinds}
           IN /\ ProvisionedAs(kinds) \in Seq(1..Len(vm.volumes))
              /\ Distinct(ProvisionedAs(kinds))
              /\ \A k \in 1..Len(ProvisionedAs(kinds)) : ProvisionedAs(kinds)[k] \in T
              /\ \A i \in T : \E k \in 1..Len(ProvisionedAs(kinds)) : ProvisionedAs(kinds)[k] = i
<1> DEFINE T == {i \in 1..Len(vm.volumes) : vm.volumes[i] \in kinds}
<1>1. Len(vm.volumes) \in Nat
    BY VMFacts
<1>2. IsFiniteSet(T) /\ T \in SUBSET Int /\ T \subseteq 1..Len(vm.volumes)
  <2>1. IsFiniteSet(1..Len(vm.volumes))
    BY <1>1, FS_Interval
  <2>2. T \in SUBSET (1..Len(vm.volumes))
    OBVIOUS
  <2>3. QED
    BY <1>1, <2>1, <2>2, FS_Subset
<1> DEFINE n == Cardinality(T)
           p == Sorted(T)
<1>3. ProvisionedAs(kinds) = p
    BY DEF ProvisionedAs
<1> HIDE DEF T
<1>4. /\ n \in Nat /\ p \in [1..n -> T]
      /\ \A j, k \in 1..n : j < k => p[j] < p[k]
      /\ \A x \in T : Rank(T, x) + 1 \in 1..n /\ p[Rank(T, x) + 1] = x
    BY <1>2, SortedEnumerates
<1> HIDE DEF n, p
<1>5. p \in Seq(T) /\ Len(p) = n
    BY <1>4
<1>6. p \in Seq(1..Len(vm.volumes))
  <2>1. \A k \in 1..n : p[k] \in 1..Len(vm.volumes)
    BY <1>2, <1>4
  <2>2. p \in [1..n -> 1..Len(vm.volumes)]
    BY <1>4, <2>1
  <2>3. QED
    BY <1>4, <2>2
<1>7. Distinct(p)
  <2> SUFFICES ASSUME NEW j \in 1..n, NEW k \in 1..n, p[j] = p[k] PROVE j = k
    BY <1>5 DEF Distinct
  <2>1. p[j] \in T /\ p[k] \in T
    BY <1>4
  <2>2. p[j] \in Int /\ p[k] \in Int
    BY <1>2, <2>1
  <2>3. ~(j < k) /\ ~(k < j)
    BY <1>4, <2>2
  <2>4. j \in Int /\ k \in Int
    OBVIOUS
  <2>5. QED
    BY <2>3, <2>4
<1>8. QED
    BY <1>3, <1>4, <1>5, <1>6, <1>7 DEF T

-----------------------------------------------------------------------------
(***************************************************************************)
(* What a step that adds volumes, mounts of compute or containers must show*)
(* of them for the invariant to go on holding.                             *)
(***************************************************************************)

LEMMA NamedIn ==
    ASSUME NEW F, NEW cs \in Seq(F)
    PROVE  /\ Len(Names(cs)) = Len(cs) /\ \A k \in 1..Len(cs) : Names(cs)[k] = cs[k].name
           /\ \A n : n \in ToSet(Names(cs)) <=> \E k \in 1..Len(cs) : cs[k].name = n
           /\ Distinct(Names(cs)) <=> \A j, k \in 1..Len(cs) : cs[j].name = cs[k].name => j = k
<1>1. Len(cs) \in Nat
    OBVIOUS
<1>2. Names(cs) \in [1..Len(cs) -> {cs[k].name : k \in 1..Len(cs)}]
    BY DEF Names
<1>3. Len(Names(cs)) = Len(cs) /\ DOMAIN Names(cs) = 1..Len(cs)
    BY <1>1, <1>2
<1>4. \A k \in 1..Len(cs) : Names(cs)[k] = cs[k].name
    BY DEF Names
<1>5. \A n : n \in ToSet(Names(cs)) <=> \E k \in 1..Len(cs) : cs[k].name = n
    BY <1>3, <1>4 DEF ToSet
<1>6. Distinct(Names(cs)) <=> \A j, k \in 1..Len(cs) : cs[j].name = cs[k].name => j = k
    BY <1>3, <1>4 DEF Distinct
<1>7. QED
    BY <1>3, <1>4, <1>5, <1>6

LEMMA InToSet ==
    ASSUME NEW F, NEW s \in Seq(F)
    PROVE  \A x : x \in ToSet(s) <=> \E k \in 1..Len(s) : s[k] = x
<1>1. DOMAIN s = 1..Len(s)
    OBVIOUS
<1>2. QED
    BY <1>1 DEF ToSet

LEMMA NamesConcat ==
    ASSUME NEW F, NEW a \in Seq(F), NEW b \in Seq(F), \A f \in F : f.name \in Name
    PROVE  /\ Names(a) \in Seq(Name) /\ Names(b) \in Seq(Name)
           /\ Names(a \o b) = Names(a) \o Names(b)
<1>1. Names(a) \in Seq(Name) /\ Names(b) \in Seq(Name)
    BY DEF Names
<1>2. /\ Len(Names(a)) = Len(a) /\ \A k \in 1..Len(a) : Names(a)[k] = a[k].name
      /\ Len(Names(b)) = Len(b) /\ \A k \in 1..Len(b) : Names(b)[k] = b[k].name
    BY NamedIn
<1>3. a \o b \in Seq(F) /\ Len(a \o b) = Len(a) + Len(b)
    OBVIOUS
<1>4. /\ Len(Names(a \o b)) = Len(a \o b) /\ Names(a \o b) \in Seq(Name)
      /\ \A k \in 1..Len(a \o b) : Names(a \o b)[k] = (a \o b)[k].name
    BY <1>3, NamedIn DEF Names
<1>6. /\ Len(Names(a \o b)) = Len(a) + Len(b)
      /\ \A k \in 1..Len(a) : Names(a \o b)[k] = a[k].name
      /\ \A k \in 1..Len(b) : Names(a \o b)[Len(a) + k] = b[k].name
  <2>1. \A k \in 1..Len(a) : k \in 1..Len(a \o b) /\ (a \o b)[k] = a[k]
    OBVIOUS
  <2>2. \A k \in 1..Len(b) : Len(a) + k \in 1..Len(a \o b) /\ (a \o b)[Len(a) + k] = b[k]
    OBVIOUS
  <2>3. QED
    BY <2>1, <2>2, <1>3, <1>4
<1>7. Names(a \o b) = Names(a) \o Names(b)
  <2>1. /\ Len(Names(a \o b)) = Len(Names(a)) + Len(Names(b))
        /\ \A k \in 1..Len(Names(a)) : Names(a \o b)[k] = Names(a)[k]
        /\ \A k \in 1..Len(Names(b)) : Names(a \o b)[Len(Names(a)) + k] = Names(b)[k]
    BY <1>2, <1>6
  <2>2. QED
    BY <1>1, <1>4, <2>1, JoinIs
<1>8. QED
    BY <1>1, <1>7

LEMMA DistinctNames ==
    ASSUME NEW F, NEW a \in Seq(F), NEW b \in Seq(F), \A f \in F : f.name \in Name,
           Distinct(Names(a)), Distinct(Names(b)),
           \A j \in 1..Len(a), k \in 1..Len(b) : a[j].name # b[k].name
    PROVE  Distinct(Names(a \o b))
<1>1. /\ Names(a) \in Seq(Name) /\ Names(b) \in Seq(Name)
      /\ Names(a \o b) = Names(a) \o Names(b)
    BY NamesConcat
<1>2. \A j \in 1..Len(Names(a)), k \in 1..Len(Names(b)) : Names(a)[j] # Names(b)[k]
    BY NamedIn
<1>3. QED
    BY <1>1, <1>2, DistinctConcat

VolumesAdded(vs) ==
    /\ vs \in Seq(VolumeType)
    /\ pod'.volumes = pod.volumes \o vs
    /\ VolumeTags(step) \subseteq VolumeTags(step')
    /\ Distinct(Names(vs))
    /\ \A k \in 1..Len(vs) : /\ vs[k].name[1] \in VolumeTags(step') \ VolumeTags(step)
                             /\ vs[k].kind = "image" => ImageName(vs[k].name)
    /\ step' \notin ToDisks =>
         (step \notin ToDisks
            \/ \A i \in ToSet(ProvisionedAs({"registry"})) : \E k \in 1..Len(vs) : vs[k].name = Source(i))
    /\ (step' \notin ToPasst /\ "passt" \in opts) =>
         (step \notin ToPasst \/ \E k \in 1..Len(vs) : vs[k].name = PasstBin)
    /\ step' \notin ToState => (step \notin ToState \/ \E k \in 1..Len(vs) : vs[k].name = VMState)

LEMMA VolumesGrow ==
    ASSUME TypeOK, VolumesFit, vm' = vm, opts' = opts, NEW vs, VolumesAdded(vs)
    PROVE  /\ VolumesFit'
           /\ ToSet(Names(pod.volumes)) \subseteq ToSet(Names(pod'.volumes))
           /\ \A k \in 1..Len(vs) : vs[k].name \in ToSet(Names(pod'.volumes))
<1> DEFINE us == pod.volumes
           ws == pod'.volumes
<1>1. us \in Seq(VolumeType)
    BY DEF TypeOK, PodType
<1>2. ws = us \o vs /\ vs \in Seq(VolumeType) /\ Distinct(Names(vs))
    BY DEF VolumesAdded
<1> HIDE DEF us, ws
<1>3. /\ ws \in Seq(VolumeType)
      /\ \A k \in 1..Len(us) : k \in 1..Len(ws) /\ ws[k] = us[k]
      /\ \A k \in 1..Len(vs) : Len(us) + k \in 1..Len(ws) /\ ws[Len(us) + k] = vs[k]
      /\ \A k \in 1..Len(ws) : \/ k \in 1..Len(us) /\ ws[k] = us[k]
                               \/ \E j \in 1..Len(vs) : k = Len(us) + j /\ ws[k] = vs[j]
  <2>1. Joins(VolumeType, us, vs, ws)
    BY <1>1, <1>2 DEF Joins
  <2>2. QED
    BY <2>1, Joined
<1>6. \A k \in 1..Len(us) :
         /\ us[k].name[1] \in VolumeTags(step)
         /\ us[k].name[1] = "private" => us[k] = Volume(Private, "emptyDir")
         /\ us[k].name[1] = "volume" => us[k].name[2] \in 1..Len(vm.volumes)
         /\ us[k].kind = "image" => ImageName(us[k].name)
    BY DEF VolumesFit, us
<1>8. {"private", "volume"} \subseteq VolumeTags(step)
    BY DEF VolumeTags
<1>9. \A n : n \in ToSet(Names(us)) <=> \E k \in 1..Len(us) : us[k].name = n
    BY <1>1, NamedIn
<1>10. \A n : n \in ToSet(Names(ws)) <=> \E k \in 1..Len(ws) : ws[k].name = n
    BY <1>3, NamedIn
<1>11. ToSet(Names(us)) \subseteq ToSet(Names(ws))
    BY <1>3, <1>9, <1>10
<1>12. \A k \in 1..Len(vs) : vs[k].name \in ToSet(Names(ws))
    BY <1>3, <1>10
<1>13. \A j \in 1..Len(us), k \in 1..Len(vs) : us[j].name # vs[k].name
    BY <1>6 DEF VolumesAdded
<1>14. Distinct(Names(ws))
  <2>1. Distinct(Names(us))
    BY DEF VolumesFit, us
  <2>2. \A f \in VolumeType : f.name \in Name
    BY DEF VolumeType
  <2>3. QED
    BY <2>1, <2>2, <1>1, <1>2, <1>13, DistinctNames
<1>15. ASSUME NEW k \in 1..Len(ws)
       PROVE  /\ ws[k].name[1] \in VolumeTags(step')
              /\ ws[k].name[1] = "private" => ws[k] = Volume(Private, "emptyDir")
              /\ ws[k].name[1] = "volume" => ws[k].name[2] \in 1..Len(vm.volumes)
              /\ ws[k].kind = "image" => ImageName(ws[k].name)
  <2>1. CASE k \in 1..Len(us) /\ ws[k] = us[k]
    BY <2>1, <1>6 DEF VolumesAdded
  <2>2. ASSUME NEW j \in 1..Len(vs), ws[k] = vs[j] PROVE <1>15!2
    <3>1. /\ vs[j].name[1] \in VolumeTags(step') \ VolumeTags(step)
          /\ vs[j].kind = "image" => ImageName(vs[j].name)
      BY DEF VolumesAdded
    <3>2. QED
      BY <2>2, <3>1, <1>8
  <2>3. QED
    BY <2>1, <2>2, <1>3
<1>16. /\ Private \in ToSet(Names(ws))
       /\ \A i \in 1..Len(vm.volumes) : VMVolume(i) \in ToSet(Names(ws))
    BY <1>11 DEF VolumesFit, us
<1>17. step' \notin ToDisks =>
         \A i \in ToSet(ProvisionedAs({"registry"})) : Source(i) \in ToSet(Names(ws))
    BY <1>11, <1>12 DEF VolumesFit, VolumesAdded, us
<1>18. step' \notin ToPasst /\ "passt" \in opts => PasstBin \in ToSet(Names(ws))
    BY <1>11, <1>12 DEF VolumesFit, VolumesAdded, us
<1>19. step' \notin ToState => VMState \in ToSet(Names(ws))
    BY <1>11, <1>12 DEF VolumesFit, VolumesAdded, us
<1>20. VolumesFit'
  <2>1. ProvisionedAs({"registry"})' = ProvisionedAs({"registry"})
    BY DEF ProvisionedAs
  <2>2. \A n : ImageName(n)' <=> ImageName(n)
    BY DEF ImageName
  <2>3. QED
    BY <2>1, <2>2, <1>14, <1>15, <1>16, <1>17, <1>18, <1>19 DEF VolumesFit, ws
<1>21. QED
    BY <1>11, <1>12, <1>20 DEF us, ws

LEMMA PathsAre ==
    ASSUME NEW ms \in Seq(MountType)
    PROVE  /\ Len(Paths(ms)) = Len(ms) /\ \A k \in 1..Len(ms) : Paths(ms)[k] = ms[k].path
           /\ Distinct(Paths(ms)) <=> \A j, k \in 1..Len(ms) : ms[j].path = ms[k].path => j = k
<1>1. Len(ms) \in Nat
    OBVIOUS
<1>2. Paths(ms) \in [1..Len(ms) -> {ms[k].path : k \in 1..Len(ms)}]
    BY DEF Paths
<1>3. Len(Paths(ms)) = Len(ms)
    BY <1>1, <1>2
<1>4. \A k \in 1..Len(ms) : Paths(ms)[k] = ms[k].path
    BY DEF Paths
<1>5. QED
    BY <1>3, <1>4 DEF Distinct

LEMMA DistinctPaths ==
    ASSUME NEW a \in Seq(MountType), NEW b \in Seq(MountType), Distinct(Paths(a)), Distinct(Paths(b)),
           \A j \in 1..Len(a), k \in 1..Len(b) : a[j].path # b[k].path
    PROVE  Distinct(Paths(a \o b))
<1> SUFFICES ASSUME NEW j \in 1..Len(a \o b), NEW k \in 1..Len(a \o b), (a \o b)[j].path = (a \o b)[k].path
             PROVE  j = k
  <2>1. a \o b \in Seq(MountType)
    OBVIOUS
  <2>2. QED
    BY <2>1, PathsAre
<1>1. \/ j \in 1..Len(a) /\ (a \o b)[j] = a[j]
      \/ j - Len(a) \in 1..Len(b) /\ (a \o b)[j] = b[j - Len(a)]
    BY ConcatRange
<1>2. \/ k \in 1..Len(a) /\ (a \o b)[k] = a[k]
      \/ k - Len(a) \in 1..Len(b) /\ (a \o b)[k] = b[k - Len(a)]
    BY ConcatRange
<1>3. j \in Int /\ k \in Int /\ Len(a) \in Int
    OBVIOUS
<1>4. CASE j \in 1..Len(a) /\ k \in 1..Len(a) /\ a[j].path = a[k].path
    BY <1>4, PathsAre
<1>5. CASE j - Len(a) \in 1..Len(b) /\ k - Len(a) \in 1..Len(b) /\ b[j - Len(a)].path = b[k - Len(a)].path
  <2>1. j - Len(a) = k - Len(a)
    BY <1>5, PathsAre
  <2>2. QED
    BY <2>1, <1>3
<1>6. QED
    BY <1>1, <1>2, <1>4, <1>5

MountsAdded(ms) ==
    /\ ms \in Seq(MountType)
    /\ pod'.containers[1].mounts = pod.containers[1].mounts \o ms
    /\ PathTags(step) \subseteq PathTags(step')
    /\ Distinct(Paths(ms))
    /\ \A k \in 1..Len(ms) :
         /\ ms[k].path[1] \in PathTags(step') \ PathTags(step)
         /\ ms[k].vol \in ToSet(Names(pod'.volumes))
         /\ ImageName(ms[k].vol) => ms[k].mode = "ro"
         /\ ms[k].sub # "" => (ms[k].vol = VMState /\ ms[k].sub \in ToSet(SubPaths))
    /\ (step' \notin ToPasst /\ "passt" \in opts) =>
         (step \notin ToPasst \/ \E k \in 1..Len(ms) : ms[k].vol = PasstBin)

LEMMA MountsGrow ==
    ASSUME TypeOK, ContainersFit, ComputeMountsFit, vm' = vm, opts' = opts, NEW ms, MountsAdded(ms),
           ToSet(Names(pod.volumes)) \subseteq ToSet(Names(pod'.volumes))
    PROVE  ComputeMountsFit'
<1> DEFINE us == pod.containers[1].mounts
           ws == pod'.containers[1].mounts
<1>1. us \in Seq(MountType)
  <2>1. pod.containers \in Seq(ContainerType)
    BY DEF TypeOK, PodType
  <2>2. pod.containers[1] \in ContainerType
    BY <2>1 DEF ContainersFit
  <2>3. QED
    BY <2>2 DEF ContainerType
<1>2. ws = us \o ms /\ ms \in Seq(MountType)
    BY DEF MountsAdded
<1> HIDE DEF us, ws
<1>3. /\ ws \in Seq(MountType)
      /\ \A k \in 1..Len(us) : k \in 1..Len(ws) /\ ws[k] = us[k]
      /\ \A k \in 1..Len(ms) : Len(us) + k \in 1..Len(ws) /\ ws[Len(us) + k] = ms[k]
      /\ \A k \in 1..Len(ws) : \/ k \in 1..Len(us) /\ ws[k] = us[k]
                               \/ \E j \in 1..Len(ms) : k = Len(us) + j /\ ws[k] = ms[j]
  <2>1. ASSUME NEW S, NEW u \in Seq(S), NEW v \in Seq(S), NEW w, w = u \o v
        PROVE  /\ w \in Seq(S)
               /\ \A k \in 1..Len(u) : k \in 1..Len(w) /\ w[k] = u[k]
               /\ \A k \in 1..Len(v) : Len(u) + k \in 1..Len(w) /\ w[Len(u) + k] = v[k]
               /\ \A k \in 1..Len(w) : \/ k \in 1..Len(u) /\ w[k] = u[k]
                                       \/ \E j \in 1..Len(v) : k = Len(u) + j /\ w[k] = v[j]
    <3>1. Joins(S, u, v, w)
      BY <2>1 DEF Joins
    <3>2. QED
      BY <3>1, Joined
  <2>2. QED
    BY <1>1, <1>2, <2>1
<1>6. /\ Distinct(Paths(us))
      /\ \A k \in 1..Len(us) :
            /\ us[k].path[1] \in PathTags(step)
            /\ us[k].vol \in ToSet(Names(pod.volumes))
            /\ ImageName(us[k].vol) => us[k].mode = "ro"
            /\ us[k].path = Private => us[k].vol = Private
            /\ us[k].sub # "" => (us[k].vol = VMState /\ us[k].sub \in ToSet(SubPaths))
      /\ ToSet(Rendered(vm).containers[1].mounts) \subseteq ToSet(us)
      /\ (step \notin ToPasst /\ "passt" \in opts) => \E m \in ToSet(us) : m.vol = PasstBin
    BY DEF ComputeMountsFit, us
<1>7. Distinct(Paths(ws))
  <2>1. \A j \in 1..Len(us), k \in 1..Len(ms) : us[j].path # ms[k].path
    BY <1>6 DEF MountsAdded
  <2>2. Distinct(Paths(ms))
    BY DEF MountsAdded
  <2>3. QED
    BY <2>1, <2>2, <1>1, <1>2, <1>6, DistinctPaths
<1>8. ToSet(us) \subseteq ToSet(ws) /\ \A k \in 1..Len(ms) : ms[k] \in ToSet(ws)
  <2>1. \A m : m \in ToSet(us) <=> \E k \in 1..Len(us) : us[k] = m
    BY <1>1, InToSet
  <2>2. \A m : m \in ToSet(ws) <=> \E k \in 1..Len(ws) : ws[k] = m
    BY <1>3, InToSet
  <2>3. QED
    BY <2>1, <2>2, <1>3
<1>9. ASSUME NEW k \in 1..Len(ws)
      PROVE  /\ ws[k].path[1] \in PathTags(step')
             /\ ws[k].vol \in ToSet(Names(pod'.volumes))
             /\ ImageName(ws[k].vol) => ws[k].mode = "ro"
             /\ ws[k].path = Private => ws[k].vol = Private
             /\ ws[k].sub # "" => (ws[k].vol = VMState /\ ws[k].sub \in ToSet(SubPaths))
  <2>1. CASE k \in 1..Len(us) /\ ws[k] = us[k]
    BY <2>1, <1>6 DEF MountsAdded
  <2>2. ASSUME NEW j \in 1..Len(ms), ws[k] = ms[j] PROVE <1>9!2
    <3>1. Private[1] = "private" /\ "private" \in PathTags(step)
      BY DEF Private, PathTags
    <3>2. ws[k].path # Private
      BY <2>2, <3>1 DEF MountsAdded
    <3>3. QED
      BY <2>2, <3>2 DEF MountsAdded
  <2>3. QED
    BY <2>1, <2>2, <1>3
<1>10. (step' \notin ToPasst /\ "passt" \in opts) => \E m \in ToSet(ws) : m.vol = PasstBin
    BY <1>6, <1>8 DEF MountsAdded
<1>11. ToSet(Rendered(vm).containers[1].mounts) \subseteq ToSet(ws)
    BY <1>6, <1>8
<1>12. \A n : ImageName(n)' <=> ImageName(n)
    BY DEF ImageName
<1>13. QED
    BY <1>7, <1>9, <1>10, <1>11, <1>12 DEF ComputeMountsFit, ws

ContainersAdded(xs) ==
    /\ xs \in Seq(ContainerType)
    /\ Len(pod'.containers) = Len(pod.containers) + Len(xs)
    /\ pod'.containers[1].name = pod.containers[1].name
    /\ \A k \in 2..Len(pod.containers) : pod'.containers[k] = pod.containers[k]
    /\ \A k \in 1..Len(xs) : pod'.containers[Len(pod.containers) + k] = xs[k]
    /\ SidecarsAt(step) \subseteq SidecarsAt(step')
    /\ Distinct(Names(xs))
    /\ \A k \in 1..Len(xs) :
         /\ xs[k].mounts = <<Mount(Private, Private)>>
         /\ \E n \in SidecarsAt(step') \ SidecarsAt(step) :
              /\ xs[k].name = <<n, 0>>
              /\ n \in {"serial", "vnc"} => xs[k].dials = <<"default", n>>
    /\ \A n \in SidecarsAt(step') \ SidecarsAt(step) : \E k \in 1..Len(xs) : xs[k].name = <<n, 0>>

LEMMA ContainersGrow ==
    ASSUME TypeOK, ContainersFit, vm' = vm, opts' = opts, NEW xs, ContainersAdded(xs),
           pod'.containers \in Seq(ContainerType)
    PROVE  ContainersFit'
<1> DEFINE us == pod.containers
           ws == pod'.containers
           N == Len(us)
<1>1. /\ us \in Seq(ContainerType) /\ ws \in Seq(ContainerType) /\ xs \in Seq(ContainerType)
      /\ N \in Nat /\ N > 0 /\ Len(xs) \in Nat
    BY DEF TypeOK, PodType, ContainersFit, ContainersAdded
<1>2. /\ Len(ws) = N + Len(xs) /\ ws[1].name = us[1].name
      /\ \A k \in 2..N : ws[k] = us[k]
      /\ \A k \in 1..Len(xs) : ws[N + k] = xs[k]
    BY DEF ContainersAdded
<1>3. /\ us[1].name = ComputeName /\ Distinct(Names(us))
      /\ \A k \in 2..N :
           /\ us[k].mounts = <<Mount(Private, Private)>>
           /\ \E n \in SidecarsAt(step) :
                /\ us[k].name = <<n, 0>>
                /\ n \in {"serial", "vnc"} => us[k].dials = <<"default", n>>
      /\ \A n \in SidecarsAt(step) : \E k \in 2..N : us[k].name = <<n, 0>>
    BY DEF ContainersFit
<1>4. /\ Distinct(Names(xs)) /\ SidecarsAt(step) \subseteq SidecarsAt(step')
      /\ \A k \in 1..Len(xs) :
           /\ xs[k].mounts = <<Mount(Private, Private)>>
           /\ \E n \in SidecarsAt(step') \ SidecarsAt(step) :
                /\ xs[k].name = <<n, 0>>
                /\ n \in {"serial", "vnc"} => xs[k].dials = <<"default", n>>
      /\ \A n \in SidecarsAt(step') \ SidecarsAt(step) : \E k \in 1..Len(xs) : xs[k].name = <<n, 0>>
    BY DEF ContainersAdded
<1>5. "compute" \notin SidecarsAt(step')
    BY VMFacts DEF SidecarsAt, TypeOK, Options
<1>6. SidecarsAt(step)' = SidecarsAt(step')
    BY DEF SidecarsAt
<1> HIDE DEF us, ws, N
<1>7. \A k \in 2..Len(ws) : k \in 2..N \/ \E j \in 1..Len(xs) : k = N + j
  <2> TAKE k \in 2..Len(ws)
  <2>1. ~(k <= N) => k - N \in 1..Len(xs) /\ k = N + (k - N)
    BY <1>1, <1>2
  <2>2. k <= N => k \in 2..N
    BY <1>1, <1>2
  <2>3. QED
    BY <2>1, <2>2
<1>8. /\ \A k \in 2..N : k \in 2..Len(ws)
      /\ \A k \in 1..Len(xs) : N + k \in 2..Len(ws)
      /\ Len(ws) > 0
  <2>1. \A k \in 2..N : k \in 2..Len(ws)
    BY <1>1, <1>2
  <2>2. \A k \in 1..Len(xs) : N + k \in 2..Len(ws)
    BY <1>1, <1>2
  <2>3. QED
    BY <2>1, <2>2, <1>1, <1>2
<1>9. Distinct(Names(ws))
  <2>1. /\ Len(Names(us)) = N /\ \A k \in 1..N : Names(us)[k] = us[k].name
        /\ Len(Names(xs)) = Len(xs) /\ \A k \in 1..Len(xs) : Names(xs)[k] = xs[k].name
        /\ Len(Names(ws)) = Len(ws) /\ \A k \in 1..Len(ws) : Names(ws)[k] = ws[k].name
    BY <1>1, NamedIn DEF N
  <2>2. \A c \in ContainerType : c.name \in Name
    BY DEF ContainerType
  <2>3. Names(us) \in Seq(Name) /\ Names(xs) \in Seq(Name) /\ Names(ws) \in Seq(Name)
    BY <1>1, <2>2 DEF Names
  <2>4. \A k \in 1..N : k \in 1..Len(ws) /\ ws[k].name = us[k].name
    <3>1. \A k \in 1..N : k \in 1..Len(ws) /\ (k = 1 \/ k \in 2..N)
      BY <1>1, <1>2
    <3>2. QED
      BY <3>1, <1>2
  <2>5. \A k \in 1..Len(xs) : N + k \in 1..Len(ws) /\ ws[N + k].name = xs[k].name
    BY <1>1, <1>2
  <2>6. Names(ws) = Names(us) \o Names(xs)
    <3>1. /\ Len(Names(ws)) = Len(Names(us)) + Len(Names(xs))
          /\ \A k \in 1..Len(Names(us)) : Names(ws)[k] = Names(us)[k]
          /\ \A k \in 1..Len(Names(xs)) : Names(ws)[Len(Names(us)) + k] = Names(xs)[k]
      <4>1. Len(Names(ws)) = Len(Names(us)) + Len(Names(xs))
        BY <2>1, <1>2
      <4>2. \A k \in 1..N : Names(ws)[k] = Names(us)[k]
        BY <2>1, <2>4
      <4>3. \A k \in 1..Len(xs) : Names(ws)[N + k] = Names(xs)[k]
        BY <2>1, <2>5
      <4>4. QED
        BY <2>1, <4>1, <4>2, <4>3
    <3>2. QED
      BY <2>3, <3>1, JoinIs
  <2>7. ASSUME NEW j \in 1..N, NEW k \in 1..Len(xs) PROVE us[j].name # xs[k].name
    <3>1. PICK n \in SidecarsAt(step') \ SidecarsAt(step) : xs[k].name = <<n, 0>>
      BY <1>4
    <3>2. CASE j = 1
      BY <3>1, <3>2, <1>3, <1>5 DEF ComputeName
    <3>3. CASE j \in 2..N
      <4>1. PICK m \in SidecarsAt(step) : us[j].name = <<m, 0>>
        BY <3>3, <1>3
      <4>2. QED
        BY <3>1, <4>1
    <3>4. QED
      BY <3>2, <3>3, <1>1
  <2>8. \A j \in 1..Len(Names(us)), k \in 1..Len(Names(xs)) : Names(us)[j] # Names(xs)[k]
    BY <2>1, <2>7
  <2>9. QED
    BY <2>3, <2>6, <2>8, <1>3, <1>4, DistinctConcat
<1>10. ASSUME NEW k \in 2..Len(ws)
       PROVE  /\ ws[k].mounts = <<Mount(Private, Private)>>
              /\ \E n \in SidecarsAt(step') :
                   /\ ws[k].name = <<n, 0>>
                   /\ n \in {"serial", "vnc"} => ws[k].dials = <<"default", n>>
  <2>1. CASE k \in 2..N
    <3>1. ws[k] = us[k]
      BY <2>1, <1>2
    <3>2. QED
      BY <2>1, <3>1, <1>3, <1>4
  <2>2. ASSUME NEW j \in 1..Len(xs), k = N + j PROVE <1>10!2
    <3>1. ws[k] = xs[j]
      BY <2>2, <1>2
    <3>2. QED
      BY <3>1, <1>4
  <2>3. QED
    BY <2>1, <2>2, <1>7
<1>11. ASSUME NEW n \in SidecarsAt(step') PROVE \E k \in 2..Len(ws) : ws[k].name = <<n, 0>>
  <2>1. CASE n \in SidecarsAt(step)
    <3>1. PICK k \in 2..N : us[k].name = <<n, 0>>
      BY <2>1, <1>3
    <3>2. QED
      BY <3>1, <1>2, <1>8
  <2>2. CASE n \notin SidecarsAt(step)
    <3>1. PICK k \in 1..Len(xs) : xs[k].name = <<n, 0>>
      BY <2>2, <1>4
    <3>2. QED
      BY <3>1, <1>2, <1>8
  <2>3. QED
    BY <2>1, <2>2
<1>12. QED
    BY <1>2, <1>3, <1>6, <1>8, <1>9, <1>10, <1>11 DEF ContainersFit, us, ws

-----------------------------------------------------------------------------
(***************************************************************************)
(* The pod as it is rendered.                                              *)
(***************************************************************************)

Disks ==
    [i \in 1..Len(vm.volumes) |->
       MountAs(VMVolume(i), DiskDir(i),
               IF vm.volumes[i] = "containerDisk" THEN "ro" ELSE "rw", "")]
Compute ==
    [Container(ComputeName, <<Mount(Private, Private)>> \o Disks)
       EXCEPT !.probe = IF vm.probe = "none" THEN @ ELSE <<vm.probe, "own">>]
Hook ==
    IF "hook" \in vm.sidecars THEN <<Container(<<"hook", 0>>, <<Mount(Private, Private)>>)>>
    ELSE <<>>
VMVolumes ==
    [i \in 1..Len(vm.volumes) |->
       Volume(VMVolume(i), IF vm.volumes[i] = "containerDisk" THEN "image" ELSE "pvc")]

LEMMA RenderedIs ==
    ASSUME vm \in VMs
    PROVE  Rendered(vm) =
             [containers |-> <<Compute>> \o Hook, inits |-> Log \o Plain,
              volumes |-> <<Volume(Private, "emptyDir")>> \o VMVolumes,
              restart |-> "never", grace |-> "rendered"]
<1> DEFINE Sidecar(n) ==
             IF n \in vm.sidecars THEN <<Container(<<n, 0>>, <<Mount(Private, Private)>>)>> ELSE <<>>
           log == [k \in 1..Len(Sidecar("log")) |-> [Sidecar("log")[k] EXCEPT !.restart = "always"]]
<1>1. log = Log
  <2>1. CASE "log" \in vm.sidecars
    <3> DEFINE c == Container(<<"log", 0>>, <<Mount(Private, Private)>>)
    <3>1. Sidecar("log") = <<c>> /\ Log = <<[c EXCEPT !.restart = "always"]>>
      BY <2>1 DEF Log
    <3> HIDE DEF c
    <3>2. Len(<<c>>) = 1 /\ <<c>>[1] = c
      OBVIOUS
    <3>3. log = [k \in 1..1 |-> [<<c>>[k] EXCEPT !.restart = "always"]]
      BY <3>1, <3>2
    <3>4. log = <<[c EXCEPT !.restart = "always"]>>
      BY <3>2, <3>3
    <3>5. QED
      BY <3>1, <3>4
  <2>2. CASE "log" \notin vm.sidecars
    BY <2>2 DEF Log
  <2>3. QED
    BY <2>1, <2>2
<1>2. Rendered(vm) =
        [containers |-> <<Compute>> \o Sidecar("hook"), inits |-> log \o Sidecar("plain"),
         volumes |-> <<Volume(Private, "emptyDir")>> \o VMVolumes,
         restart |-> "never", grace |-> "rendered"]
    BY DEF Rendered, Compute, Disks, VMVolumes
<1>3. Sidecar("hook") = Hook /\ Sidecar("plain") = Plain
    BY DEF Hook, Plain
<1>4. QED
    BY <1>1, <1>2, <1>3

LEMMA NamesAre ==
    /\ \A i \in Int : VMVolume(i) \in Name /\ DiskDir(i) \in Name /\ Source(i) \in Name
    /\ \A n \in Tags : \A i \in Int : <<n, i>> \in Name
    /\ Private \in Name /\ VMState \in Name /\ PasstBin \in Name /\ Libvirt \in Name
    /\ Qemu \in Name /\ ComputeName \in Name /\ DirInitName \in Name /\ Cgroup \in Name
<1>1. \A n \in Tags : \A i \in Int : <<n, i>> \in Name
    BY DEF Name
<1>2. QED
    BY <1>1 DEF VMVolume, DiskDir, Source, Private, VMState, PasstBin, Libvirt, Qemu, ComputeName,
                DirInitName, Cgroup, Tags

LEMMA MountTyped ==
    ASSUME NEW v \in Name, NEW p \in Name, NEW t \in Subs
    PROVE  MountAs(v, p, "rw", t) \in MountType /\ MountAs(v, p, "ro", t) \in MountType
BY DEF MountAs, MountType

LEMMA NoSub == "" \in Subs
BY DEF Subs

LEMMA PlainMount ==
    ASSUME NEW v \in Name, NEW p \in Name
    PROVE  /\ Mount(v, p) \in MountType
           /\ Mount(v, p).vol = v /\ Mount(v, p).path = p
           /\ Mount(v, p).mode = "rw" /\ Mount(v, p).sub = ""
<1>1. Mount(v, p) \in MountType
    BY MountTyped, NoSub DEF Mount
<1>2. QED
    BY <1>1 DEF Mount, MountAs

LEMMA VolumeIs ==
    ASSUME NEW v \in Name, NEW k \in {"emptyDir", "image", "pvc", "host", "device"}
    PROVE  Volume(v, k) \in VolumeType /\ Volume(v, k).name = v /\ Volume(v, k).kind = k
BY DEF Volume, VolumeType

LEMMA ContainerIs ==
    ASSUME NEW n \in Name, NEW ms \in Seq(MountType)
    PROVE  /\ Container(n, ms) \in ContainerType
           /\ Container(n, ms).name = n /\ Container(n, ms).mounts = ms
           /\ Container(n, ms).restart = "unset" /\ Container(n, ms).does = {}
           /\ Container(n, ms).dials = <<>> /\ Container(n, ms).env = {}
           /\ Container(n, ms).probe = <<"none">>
<1>1. <<"none">> \in Seq(ProbeWords)
    BY DEF ProbeWords
<1>2. QED
    BY <1>1 DEF Container, ContainerType

LEMMA DisksAre ==
    ASSUME vm \in VMs
    PROVE  /\ Disks \in Seq(MountType) /\ Len(Disks) = Len(vm.volumes)
           /\ \A i \in 1..Len(vm.volumes) :
                /\ Disks[i].vol = VMVolume(i) /\ Disks[i].path = DiskDir(i) /\ Disks[i].sub = ""
                /\ vm.volumes[i] = "containerDisk" => Disks[i].mode = "ro"
<1>1. Len(vm.volumes) \in Nat
    BY VMFacts
<1>2. ASSUME NEW i \in 1..Len(vm.volumes)
      PROVE  /\ Disks[i] \in MountType
             /\ Disks[i].vol = VMVolume(i) /\ Disks[i].path = DiskDir(i) /\ Disks[i].sub = ""
             /\ vm.volumes[i] = "containerDisk" => Disks[i].mode = "ro"
  <2> DEFINE mode == IF vm.volumes[i] = "containerDisk" THEN "ro" ELSE "rw"
             d == Disks[i]
  <2>1. VMVolume(i) \in Name /\ DiskDir(i) \in Name
    BY <1>1, NamesAre
  <2>2. d = MountAs(VMVolume(i), DiskDir(i), mode, "")
    BY DEF Disks
  <2>3. mode \in {"rw", "ro"} /\ (vm.volumes[i] = "containerDisk" => mode = "ro")
    OBVIOUS
  <2> HIDE DEF mode, d
  <2>4. d.vol = VMVolume(i) /\ d.path = DiskDir(i) /\ d.mode = mode /\ d.sub = ""
    BY <2>2 DEF MountAs
  <2>5. d \in MountType
    BY <2>1, <2>2, <2>3, NoSub, MountTyped
  <2>6. QED
    BY <2>3, <2>4, <2>5 DEF d
<1>3. Disks \in [1..Len(vm.volumes) -> MountType]
    BY <1>2 DEF Disks
<1>4. Disks \in Seq(MountType) /\ Len(Disks) = Len(vm.volumes)
    BY <1>1, <1>3
<1>5. QED
    BY <1>2, <1>4

LEMMA VMVolumesAre ==
    ASSUME vm \in VMs
    PROVE  /\ VMVolumes \in Seq(VolumeType) /\ Len(VMVolumes) = Len(vm.volumes)
           /\ \A i \in 1..Len(vm.volumes) :
                /\ VMVolumes[i].name = VMVolume(i)
                /\ VMVolumes[i].kind = "image" <=> vm.volumes[i] = "containerDisk"
<1>1. Len(vm.volumes) \in Nat
    BY VMFacts
<1>2. ASSUME NEW i \in 1..Len(vm.volumes)
      PROVE  /\ VMVolumes[i] \in VolumeType
             /\ VMVolumes[i].name = VMVolume(i)
             /\ VMVolumes[i].kind = "image" <=> vm.volumes[i] = "containerDisk"
  <2>1. i \in Int
    BY <1>1
  <2>2. VMVolume(i) \in Name
    BY <2>1, NamesAre
  <2>3. CASE vm.volumes[i] = "containerDisk"
    <3>1. VMVolumes[i] = Volume(VMVolume(i), "image")
      BY <2>3 DEF VMVolumes
    <3>2. QED
      BY <2>2, <2>3, <3>1, VolumeIs
  <2>4. CASE vm.volumes[i] # "containerDisk"
    <3>1. VMVolumes[i] = Volume(VMVolume(i), "pvc")
      BY <2>4 DEF VMVolumes
    <3>2. QED
      BY <2>2, <2>4, <3>1, VolumeIs
  <2>5. QED
    BY <2>3, <2>4
<1>3. VMVolumes \in [1..Len(vm.volumes) -> VolumeType]
    BY <1>2 DEF VMVolumes
<1>4. VMVolumes \in Seq(VolumeType) /\ Len(VMVolumes) = Len(vm.volumes)
    BY <1>1, <1>3
<1>5. QED
    BY <1>2, <1>4

\* What setting one field of a container leaves alone.
LEMMA ContainerFields ==
    ASSUME NEW c \in ContainerType
    PROVE  /\ c.name \in Name /\ c.mounts \in Seq(MountType) /\ c.restart \in {"unset", "always"}
           /\ c.dials \in Seq({"default", "serial", "vnc"})
           /\ c.does \in SUBSET (Name \X Files) /\ c.probe \in Seq(ProbeWords)
           /\ c.env \in SUBSET {"STANDALONE_VMI", "VIRSH_DEFAULT_CONNECT_URI"}
BY DEF ContainerType

LEMMA SetProbe ==
    ASSUME NEW c \in ContainerType, NEW q \in Seq(ProbeWords), NEW d, d = [c EXCEPT !.probe = q]
    PROVE  d \in ContainerType /\ d.name = c.name /\ d.mounts = c.mounts /\ d.dials = c.dials
BY DEF ContainerType

LEMMA SetRestart ==
    ASSUME NEW c \in ContainerType, NEW r \in {"unset", "always"}, NEW d, d = [c EXCEPT !.restart = r]
    PROVE  /\ d \in ContainerType /\ d.name = c.name /\ d.mounts = c.mounts /\ d.dials = c.dials
           /\ d.restart = r /\ d.does = c.does
BY DEF ContainerType

LEMMA Singleton ==
    ASSUME NEW S, NEW x \in S
    PROVE  <<x>> \in Seq(S) /\ Len(<<x>>) = 1 /\ <<x>>[1] = x
OBVIOUS

LEMMA AppendPair ==
    ASSUME NEW S, NEW x \in S, NEW y \in S
    PROVE  Append(<<x>>, y) = <<x, y>> /\ <<x, y>> \in Seq(S)
<1> DEFINE a == Append(<<x>>, y)
           b == <<x, y>>
<1>1. a \in Seq(S) /\ b \in Seq(S) /\ Len(a) = 2 /\ Len(b) = 2
    OBVIOUS
<1>2. a[1] = b[1] /\ a[2] = b[2]
    OBVIOUS
<1> HIDE DEF a, b
<1>3. a = b
  <2>1. \A k \in 1..Len(a) : a[k] = b[k]
    BY <1>1, <1>2
  <2>2. QED
    BY <1>1, <2>1
<1>4. QED
    BY <1>1, <1>3 DEF a, b

\* The sidecars that KubeVirt renders and step 5 adds are alike but for their names.
Sidecar(n) == Container(<<n, 0>>, <<Mount(Private, Private)>>)

LEMMA PrivateMount ==
    /\ Mount(Private, Private) \in MountType
    /\ <<Mount(Private, Private)>> \in Seq(MountType) /\ Len(<<Mount(Private, Private)>>) = 1
    /\ <<Mount(Private, Private)>>[1] = Mount(Private, Private)
<1>1. Mount(Private, Private) \in MountType
    BY NamesAre, PlainMount
<1>2. QED
    BY <1>1, Singleton

LEMMA SidecarIs ==
    ASSUME NEW n \in Tags
    PROVE  /\ Sidecar(n) \in ContainerType /\ Sidecar(n).name = <<n, 0>>
           /\ Sidecar(n).mounts = <<Mount(Private, Private)>> /\ Sidecar(n).restart = "unset"
           /\ Sidecar(n).does = {} /\ Sidecar(n).dials = <<>>
<1>1. <<n, 0>> \in Name
    BY NamesAre
<1>2. <<Mount(Private, Private)>> \in Seq(MountType)
    BY PrivateMount
<1>3. QED
    BY <1>1, <1>2, ContainerIs DEF Sidecar

LEMMA ComputeIs ==
    ASSUME vm \in VMs
    PROVE  /\ Compute \in ContainerType /\ Compute.name = ComputeName
           /\ Compute.mounts = <<Mount(Private, Private)>> \o Disks
<1> DEFINE ms == <<Mount(Private, Private)>> \o Disks
           c == Container(ComputeName, ms)
           q == IF vm.probe = "none" THEN c.probe ELSE <<vm.probe, "own">>
<1>1. ms \in Seq(MountType)
    BY PrivateMount, DisksAre, AppendedIs
<1> HIDE DEF ms
<1>2. c \in ContainerType /\ c.name = ComputeName /\ c.mounts = ms
    BY <1>1, NamesAre, ContainerIs
<1> HIDE DEF c
<1>3. q \in Seq(ProbeWords)
  <2>1. c.probe \in Seq(ProbeWords)
    BY <1>2 DEF ContainerType
  <2>2. vm.probe \in ProbeWords /\ "own" \in ProbeWords
    BY VMFacts DEF ProbeWords, Probes
  <2>3. QED
    BY <2>1, <2>2
<1>4. Compute = [c EXCEPT !.probe = q]
    BY DEF Compute, c, ms
<1> HIDE DEF q
<1>5. QED
    BY <1>2, <1>3, <1>4, SetProbe DEF ms

LEMMA HookIs ==
    /\ Hook \in Seq(ContainerType)
    /\ "hook" \in vm.sidecars => Len(Hook) = 1 /\ Hook[1] = Sidecar("hook")
    /\ "hook" \notin vm.sidecars => Len(Hook) = 0
<1>1. Sidecar("hook") \in ContainerType
    BY SidecarIs DEF Tags
<1>2. CASE "hook" \in vm.sidecars
  <2>1. Hook = <<Sidecar("hook")>>
    BY <1>2 DEF Hook, Sidecar
  <2>2. QED
    BY <1>1, <1>2, <2>1, Singleton
<1>3. CASE "hook" \notin vm.sidecars
    BY <1>3 DEF Hook
<1>4. QED
    BY <1>2, <1>3

LEMMA PlainIs ==
    /\ Plain \in Seq(ContainerType)
    /\ "plain" \in vm.sidecars => Len(Plain) = 1 /\ Plain[1] = Sidecar("plain")
    /\ "plain" \notin vm.sidecars => Plain = <<>>
<1>1. Sidecar("plain") \in ContainerType
    BY SidecarIs DEF Tags
<1>2. CASE "plain" \in vm.sidecars
  <2>1. Plain = <<Sidecar("plain")>>
    BY <1>2 DEF Plain, Sidecar
  <2>2. QED
    BY <1>1, <1>2, <2>1, Singleton
<1>3. CASE "plain" \notin vm.sidecars
    BY <1>3 DEF Plain
<1>4. QED
    BY <1>2, <1>3

LEMMA LogIs ==
    LET log == [Sidecar("log") EXCEPT !.restart = "always"]
    IN /\ Log \in Seq(ContainerType)
       /\ log \in ContainerType /\ log.name = <<"log", 0>> /\ log.restart = "always"
       /\ log.mounts = <<Mount(Private, Private)>> /\ log.dials = <<>> /\ log.does = {}
       /\ "log" \in vm.sidecars => Log = <<log>> /\ Len(Log) = 1 /\ Log[1] = log
       /\ "log" \notin vm.sidecars => Log = <<>>
<1> DEFINE log == [Sidecar("log") EXCEPT !.restart = "always"]
<1>1. /\ log \in ContainerType /\ log.name = <<"log", 0>> /\ log.restart = "always"
      /\ log.mounts = <<Mount(Private, Private)>> /\ log.dials = <<>> /\ log.does = {}
  <2>1. /\ Sidecar("log") \in ContainerType /\ Sidecar("log").name = <<"log", 0>>
        /\ Sidecar("log").mounts = <<Mount(Private, Private)>>
        /\ Sidecar("log").does = {} /\ Sidecar("log").dials = <<>>
    BY SidecarIs DEF Tags
  <2> HIDE DEF log
  <2>2. log = [Sidecar("log") EXCEPT !.restart = "always"]
    BY DEF log
  <2>3. QED
    BY <2>1, <2>2, SetRestart
<1>2. Log = IF "log" \in vm.sidecars THEN <<log>> ELSE <<>>
    BY DEF Log, Sidecar
<1> HIDE DEF log
<1>3. ASSUME "log" \in vm.sidecars
      PROVE  Log \in Seq(ContainerType) /\ Log = <<log>> /\ Len(Log) = 1 /\ Log[1] = log
    BY <1>1, <1>2, <1>3, Singleton
<1>4. ASSUME "log" \notin vm.sidecars PROVE Log \in Seq(ContainerType) /\ Log = <<>>
    BY <1>2, <1>4
<1>5. QED
    BY <1>1, <1>3, <1>4 DEF log

\* The mounts of the init containers have only two paths between them.
LEMMA DiskInitIs ==
    ASSUME vm \in VMs, NEW i \in 1..Len(vm.volumes)
    PROVE  LET disk == Mount(VMVolume(i), DiskDir(i))
               source == MountAs(Source(i), Source(i), "ro", "")
           IN /\ DiskInit(i) \in ContainerType /\ DiskInit(i).name = <<"disk", i>>
              /\ DiskInit(i).mounts = IF vm.volumes[i] = "registry" THEN <<disk, source>> ELSE <<disk>>
              /\ DiskInit(i).does = {<<VMVolume(i), "disk.img">>} /\ DiskInit(i).restart = "unset"
              /\ disk \in MountType /\ source \in MountType
<1> DEFINE disk == Mount(VMVolume(i), DiskDir(i))
           source == MountAs(Source(i), Source(i), "ro", "")
           ms == IF vm.volumes[i] = "registry" THEN <<disk, source>> ELSE <<disk>>
           c == Container(<<"disk", i>>, ms)
           fs == {<<VMVolume(i), "disk.img">>}
           d == DiskInit(i)
<1>1. i \in Int
    BY VMFacts
<1>2. /\ VMVolume(i) \in Name /\ DiskDir(i) \in Name /\ Source(i) \in Name /\ <<"disk", i>> \in Name
    BY <1>1, NamesAre DEF Tags
<1>3. disk \in MountType /\ source \in MountType
    BY <1>2, NoSub, PlainMount, MountTyped
<1>4. d = [c EXCEPT !.does = fs]
    BY DEF DiskInit
<1> HIDE DEF disk, source
<1>5. ms \in Seq(MountType)
    BY <1>3
<1> HIDE DEF ms
<1>6. /\ c \in ContainerType /\ c.name = <<"disk", i>> /\ c.mounts = ms /\ c.restart = "unset"
    BY <1>2, <1>5, ContainerIs
<1>7. fs \in SUBSET (Name \X Files)
    BY <1>2 DEF Files
<1> HIDE DEF c, fs, d
<1>8. d \in ContainerType /\ d.name = c.name /\ d.mounts = c.mounts /\ d.does = fs /\ d.restart = c.restart
    BY <1>4, <1>6, <1>7 DEF ContainerType
<1>9. QED
    BY <1>3, <1>6, <1>8 DEF d, fs, ms, disk, source

LEMMA DiskInitsAre ==
    ASSUME vm \in VMs
    PROVE  /\ DiskInits \in Seq(ContainerType) /\ Len(DiskInits) = Len(ToProvision)
           /\ Len(ToProvision) \in Nat
           /\ \A k \in 1..Len(ToProvision) : DiskInits[k] = DiskInit(ToProvision[k])
           /\ \A k \in 1..Len(ToProvision) :
                /\ ToProvision[k] \in 1..Len(vm.volumes)
                /\ DiskInits[k].restart = "unset"
<1>1. /\ ToProvision \in Seq(1..Len(vm.volumes)) /\ Len(ToProvision) \in Nat
      /\ \A k \in 1..Len(ToProvision) : ToProvision[k] \in 1..Len(vm.volumes)
  <2>1. ToProvision \in Seq(1..Len(vm.volumes))
    BY ProvisionedFacts DEF ToProvision
  <2>2. QED
    BY <2>1
<1>2. \A k \in 1..Len(ToProvision) :
        DiskInit(ToProvision[k]) \in ContainerType /\ DiskInit(ToProvision[k]).restart = "unset"
    BY <1>1, DiskInitIs
<1>3. \A k \in 1..Len(ToProvision) : DiskInits[k] = DiskInit(ToProvision[k])
    BY DEF DiskInits
<1>4. DiskInits \in [1..Len(ToProvision) -> ContainerType]
    BY <1>2 DEF DiskInits
<1>5. DiskInits \in Seq(ContainerType) /\ Len(DiskInits) = Len(ToProvision)
    BY <1>1, <1>4
<1>6. QED
    BY <1>1, <1>2, <1>3, <1>5

LEMMA SubPathsAre ==
    /\ ToSet(SubPaths) = {"nvram", "swtpm", "swtpm-localca"} /\ Len(SubPaths) = 3
    /\ \A k \in 1..3 : SubPaths[k] \in {"nvram", "swtpm", "swtpm-localca"}
    /\ SubPaths[1] = "nvram" /\ SubPaths[2] = "swtpm" /\ SubPaths[3] = "swtpm-localca"
BY DEF SubPaths, ToSet

LEMMA DirIs ==
    /\ Dir \in ContainerType /\ Dir.name = DirInitName /\ Dir.restart = "unset"
    /\ Dir.mounts = <<Mount(Private, <<"emptydir", 1>>)>> /\ Dir.mounts \in Seq(MountType)
    /\ Dir.does = {<<Private, "libvirt/qemu">>}
<1> DEFINE ms == <<Mount(Private, <<"emptydir", 1>>)>>
           c == Container(DirInitName, ms)
           fs == {<<Private, "libvirt/qemu">>}
           d == Dir
<1>1. ms \in Seq(MountType)
  <2>1. <<"emptydir", 1>> \in Name
    BY NamesAre DEF Tags
  <2>2. QED
    BY <2>1, NamesAre, PlainMount, Singleton
<1>2. d = [c EXCEPT !.does = fs]
    BY DEF Dir
<1> HIDE DEF ms
<1>3. c \in ContainerType /\ c.name = DirInitName /\ c.mounts = ms /\ c.restart = "unset"
    BY <1>1, NamesAre, ContainerIs
<1>4. fs \in SUBSET (Name \X Files)
    BY NamesAre DEF Files
<1> HIDE DEF c, fs, d
<1>5. d \in ContainerType /\ d.name = c.name /\ d.mounts = c.mounts /\ d.does = fs /\ d.restart = c.restart
    BY <1>2, <1>3, <1>4 DEF ContainerType
<1>6. QED
    BY <1>1, <1>3, <1>5 DEF d, fs, ms

LEMMA DirExtendedIs ==
    LET old == Mount(Private, <<"emptydir", 1>>)
        new == Mount(VMState, <<"vm-state-init", 0>>)
    IN /\ DirExtended \in ContainerType /\ DirExtended.name = DirInitName
       /\ DirExtended.restart = "unset"
       /\ DirExtended.mounts = <<old, new>> /\ old \in MountType /\ new \in MountType
       /\ DirExtended.does =
            {<<Private, "libvirt/qemu">>} \cup {<<VMState, s>> : s \in ToSet(SubPaths)}
<1> DEFINE old == Mount(Private, <<"emptydir", 1>>)
           new == Mount(VMState, <<"vm-state-init", 0>>)
           ms == Append(Dir.mounts, new)
           fs == Dir.does \cup {<<VMState, s>> : s \in ToSet(SubPaths)}
           d == DirExtended
<1>1. d = [Dir EXCEPT !.mounts = ms, !.does = fs]
    BY DEF DirExtended
<1>2. old \in MountType /\ new \in MountType
  <2>1. <<"emptydir", 1>> \in Name /\ <<"vm-state-init", 0>> \in Name
    BY NamesAre DEF Tags
  <2>2. QED
    BY <2>1, NamesAre, PlainMount
<1>3. ms = <<old, new>> /\ ms \in Seq(MountType)
  <2> HIDE DEF old, new
  <2>1. Dir.mounts = <<old>>
    BY DirIs DEF old
  <2>2. QED
    BY <2>1, <1>2, AppendPair
<1>4. fs \in SUBSET (Name \X Files)
  <2>1. \A s \in ToSet(SubPaths) : <<VMState, s>> \in Name \X Files
    BY SubPathsAre, NamesAre DEF Files
  <2>2. <<Private, "libvirt/qemu">> \in Name \X Files
    BY NamesAre DEF Files
  <2>3. QED
    BY <2>1, <2>2, DirIs
<1>5. fs = {<<Private, "libvirt/qemu">>} \cup {<<VMState, s>> : s \in ToSet(SubPaths)}
    BY DirIs
<1>6. Dir \in ContainerType /\ Dir.name = DirInitName /\ Dir.restart = "unset"
    BY DirIs
<1> HIDE DEF ms, fs, d, old, new
<1>7. d \in ContainerType /\ d.name = Dir.name /\ d.mounts = ms /\ d.does = fs /\ d.restart = Dir.restart
    BY <1>1, <1>3, <1>4, <1>6 DEF ContainerType
<1>8. QED
    BY <1>2, <1>3, <1>5, <1>6, <1>7 DEF d, old, new

LEMMA PatchersAre ==
    LET m == Mount(PasstBin, PasstBin)
    IN /\ Patcher \in ContainerType /\ Patcher.name = <<"passt-binary-patcher", 0>>
       /\ Patcher.restart = "unset" /\ Patcher.mounts = <<m>> /\ m \in MountType
       /\ Patcher.does = {<<PasstBin, "passt">>}
       /\ Patchers \in Seq(ContainerType)
       /\ "passt" \in opts => Patchers = <<Patcher>> /\ Len(Patchers) = 1 /\ Patchers[1] = Patcher
       /\ "passt" \notin opts => Patchers = <<>>
<1> DEFINE m == Mount(PasstBin, PasstBin)
           n == <<"passt-binary-patcher", 0>>
           ms == <<m>>
           c == Container(n, ms)
           fs == {<<PasstBin, "passt">>}
           d == Patcher
<1>1. m \in MountType /\ ms \in Seq(MountType)
    BY NamesAre, PlainMount, Singleton
<1>2. d = [c EXCEPT !.does = fs]
    BY DEF Patcher
<1>3. n \in Name
    BY NamesAre DEF Tags
<1> HIDE DEF ms, n, m
<1>4. c \in ContainerType /\ c.name = n /\ c.mounts = ms /\ c.restart = "unset"
    BY <1>1, <1>3, ContainerIs
<1>5. fs \in SUBSET (Name \X Files)
    BY NamesAre DEF Files
<1> HIDE DEF c, fs, d
<1>6. d \in ContainerType /\ d.name = c.name /\ d.mounts = c.mounts /\ d.does = fs /\ d.restart = c.restart
    BY <1>2, <1>4, <1>5 DEF ContainerType
<1>7. /\ Patcher \in ContainerType /\ Patcher.name = <<"passt-binary-patcher", 0>>
      /\ Patcher.restart = "unset" /\ Patcher.mounts = <<Mount(PasstBin, PasstBin)>>
      /\ Patcher.does = {<<PasstBin, "passt">>}
    BY <1>4, <1>6 DEF d, fs, ms, n, m
<1>8. ASSUME "passt" \in opts
      PROVE  Patchers = <<Patcher>> /\ Len(Patchers) = 1 /\ Patchers[1] = Patcher
                /\ Patchers \in Seq(ContainerType)
  <2>1. Patchers = <<Patcher>>
    BY <1>8 DEF Patchers
  <2>2. QED
    BY <1>7, <2>1, Singleton
<1>9. ASSUME "passt" \notin opts PROVE Patchers = <<>> /\ Patchers \in Seq(ContainerType)
    BY <1>9 DEF Patchers
<1>10. QED
    BY <1>1, <1>7, <1>8, <1>9 DEF m

LEMMA InitsTyped ==
    ASSUME vm \in VMs, NEW s
    PROVE  InitsAt(s) \in Seq(ContainerType)
<1>1. /\ Log \in Seq(ContainerType) /\ Plain \in Seq(ContainerType)
      /\ DiskInits \in Seq(ContainerType) /\ Patchers \in Seq(ContainerType)
      /\ <<Dir>> \in Seq(ContainerType) /\ <<DirExtended>> \in Seq(ContainerType)
  <2>1. Log \in Seq(ContainerType) /\ Plain \in Seq(ContainerType)
    BY LogIs, PlainIs
  <2>2. DiskInits \in Seq(ContainerType) /\ Patchers \in Seq(ContainerType)
    BY DiskInitsAre, PatchersAre
  <2>3. <<Dir>> \in Seq(ContainerType) /\ <<DirExtended>> \in Seq(ContainerType)
    BY DirIs, DirExtendedIs, Singleton
  <2>4. QED
    BY <2>1, <2>2, <2>3
<1>2. \A u, v \in Seq(ContainerType) : u \o v \in Seq(ContainerType)
    OBVIOUS
<1>3. QED
    BY <1>1, <1>2 DEF InitsAt

LEMMA InitPod ==
    ASSUME Init
    PROVE  /\ step = "serial" /\ vm \in VMs /\ opts \in Options
           /\ pod.containers = <<Compute>> \o Hook /\ pod.inits = Log \o Plain
           /\ pod.volumes = <<Volume(Private, "emptyDir")>> \o VMVolumes
           /\ pod \in PodType
<1>1. step = "serial" /\ vm \in VMs /\ opts \in Options /\ pod = Rendered(vm)
    BY DEF Init
<1> DEFINE cs == <<Compute>> \o Hook
           is == Log \o Plain
           vs == <<Volume(Private, "emptyDir")>> \o VMVolumes
<1>2. cs \in Seq(ContainerType)
  <2>1. <<Compute>> \in Seq(ContainerType)
    BY <1>1, ComputeIs, Singleton
  <2>2. QED
    BY <2>1, HookIs, AppendedIs
<1>3. is \in Seq(ContainerType)
    BY LogIs, PlainIs, AppendedIs
<1>4. vs \in Seq(VolumeType)
  <2>1. <<Volume(Private, "emptyDir")>> \in Seq(VolumeType)
    BY NamesAre, VolumeIs, Singleton
  <2>2. QED
    BY <1>1, <2>1, VMVolumesAre, AppendedIs
<1>5. pod = [containers |-> cs, inits |-> is, volumes |-> vs, restart |-> "never", grace |-> "rendered"]
    BY <1>1, RenderedIs
<1> HIDE DEF cs, is, vs
<1>6. pod \in PodType /\ pod.containers = cs /\ pod.inits = is /\ pod.volumes = vs
    BY <1>2, <1>3, <1>4, <1>5 DEF PodType
<1>7. QED
    BY <1>1, <1>6 DEF cs, is, vs

LEMMA InitContainers ==
    ASSUME Init
    PROVE  ContainersFit
<1> DEFINE cs == pod.containers
<1>1. step = "serial" /\ vm \in VMs /\ opts \in Options /\ cs = <<Compute>> \o Hook
    BY InitPod
<1>2. <<Compute>> \in Seq(ContainerType) /\ Len(<<Compute>>) = 1 /\ <<Compute>>[1] = Compute
    BY <1>1, ComputeIs, Singleton
<1> DEFINE one == <<Compute>>
<1> HIDE DEF one, cs
<1>3. /\ cs \in Seq(ContainerType) /\ Len(cs) = 1 + Len(Hook) /\ cs[1] = Compute
      /\ \A k \in 1..Len(Hook) : k + 1 \in 2..Len(cs) /\ cs[k + 1] = Hook[k]
      /\ \A k \in 2..Len(cs) : k - 1 \in 1..Len(Hook) /\ cs[k] = Hook[k - 1]
  <2>1. /\ one \in Seq(ContainerType) /\ Len(one) = 1 /\ one[1] = Compute /\ cs = one \o Hook
    BY <1>1, <1>2 DEF one
  <2>2. Hook \in Seq(ContainerType)
    BY HookIs
  <2>3. /\ cs \in Seq(ContainerType) /\ Len(cs) = Len(one) + Len(Hook)
        /\ \A k \in 1..Len(one) : cs[k] = one[k]
        /\ \A k \in 1..Len(Hook) : cs[Len(one) + k] = Hook[k]
    <3>1. one \in Seq(ContainerType) /\ cs = one \o Hook
      BY <2>1
    <3>2. QED
      BY <3>1, <2>2, AppendedIs
  <2>4. QED
    BY <2>1, <2>2, <2>3
<1>4. SidecarsAt("serial") = vm.sidecars \cap {"hook"}
    BY <1>1 DEF SidecarsAt, ToSerial, ToVNC, ToDevices, ToDisks, ToCleanup
<1>5. /\ Sidecar("hook").name = <<"hook", 0>>
      /\ Sidecar("hook").mounts = <<Mount(Private, Private)>>
    BY SidecarIs DEF Tags
<1>6. CASE "hook" \in vm.sidecars
  <2>1. Len(cs) = 2 /\ cs[1].name = ComputeName /\ cs[2] = Sidecar("hook")
    BY <1>1, <1>3, <1>6, HookIs, ComputeIs
  <2>2. Distinct(Names(cs))
    <3>1. cs[1].name # cs[2].name
      BY <1>5, <2>1 DEF ComputeName
    <3>2. \A j, k \in 1..Len(cs) : cs[j].name = cs[k].name => j = k
      BY <2>1, <3>1
    <3>3. QED
      BY <1>3, <3>2, NamedIn
  <2>3. \A k \in 2..Len(cs) : cs[k] = Sidecar("hook")
    BY <2>1
  <2>4. SidecarsAt(step) = {"hook"}
    BY <1>1, <1>4, <1>6
  <2>5. QED
    BY <1>5, <2>1, <2>2, <2>3, <2>4 DEF ContainersFit, cs
<1>7. CASE "hook" \notin vm.sidecars
  <2>1. Len(cs) = 1 /\ cs[1].name = ComputeName
    BY <1>1, <1>3, <1>7, HookIs, ComputeIs
  <2>2. Distinct(Names(cs))
    BY <1>3, <2>1, NamedIn
  <2>3. SidecarsAt(step) = {}
    BY <1>1, <1>4, <1>7
  <2>4. QED
    BY <2>1, <2>2, <2>3 DEF ContainersFit, cs
<1>8. QED
    BY <1>6, <1>7

LEMMA InitVolumes ==
    ASSUME Init
    PROVE  VolumesFit
<1> DEFINE vs == pod.volumes
           one == <<Volume(Private, "emptyDir")>>
<1>1. step = "serial" /\ vm \in VMs /\ opts \in Options /\ vs = one \o VMVolumes
    BY InitPod
<1>2. /\ one \in Seq(VolumeType) /\ Len(one) = 1 /\ one[1] = Volume(Private, "emptyDir")
      /\ one[1].name = Private /\ one[1].kind = "emptyDir"
  <2>1. /\ Volume(Private, "emptyDir") \in VolumeType
        /\ Volume(Private, "emptyDir").name = Private /\ Volume(Private, "emptyDir").kind = "emptyDir"
    BY NamesAre, VolumeIs
  <2>2. QED
    BY <2>1, Singleton
<1>3. /\ VMVolumes \in Seq(VolumeType) /\ Len(VMVolumes) = Len(vm.volumes) /\ Len(vm.volumes) \in Nat
      /\ \A i \in 1..Len(vm.volumes) :
           /\ VMVolumes[i].name = VMVolume(i)
           /\ VMVolumes[i].kind = "image" <=> vm.volumes[i] = "containerDisk"
    BY <1>1, VMVolumesAre, VMFacts
<1> HIDE DEF one, vs
<1>4. /\ vs \in Seq(VolumeType)
      /\ \A k \in 1..Len(one) : k \in 1..Len(vs) /\ vs[k] = one[k]
      /\ \A k \in 1..Len(VMVolumes) : Len(one) + k \in 1..Len(vs) /\ vs[Len(one) + k] = VMVolumes[k]
      /\ \A k \in 1..Len(vs) : \/ k \in 1..Len(one) /\ vs[k] = one[k]
                               \/ \E j \in 1..Len(VMVolumes) : k = Len(one) + j /\ vs[k] = VMVolumes[j]
  <2>1. ASSUME NEW S, NEW u \in Seq(S), NEW v \in Seq(S), NEW w, w = u \o v
        PROVE  /\ w \in Seq(S)
               /\ \A k \in 1..Len(u) : k \in 1..Len(w) /\ w[k] = u[k]
               /\ \A k \in 1..Len(v) : Len(u) + k \in 1..Len(w) /\ w[Len(u) + k] = v[k]
               /\ \A k \in 1..Len(w) : \/ k \in 1..Len(u) /\ w[k] = u[k]
                                       \/ \E j \in 1..Len(v) : k = Len(u) + j /\ w[k] = v[j]
    <3>1. Joins(S, u, v, w)
      BY <2>1 DEF Joins
    <3>2. QED
      BY <3>1, Joined
  <2>2. one \in Seq(VolumeType) /\ VMVolumes \in Seq(VolumeType) /\ vs = one \o VMVolumes
    BY <1>1, <1>2, <1>3
  <2>3. QED
    BY <2>1, <2>2
<1>5. /\ 1 \in 1..Len(vs) /\ vs[1] = Volume(Private, "emptyDir")
      /\ vs[1].name = Private /\ vs[1].kind = "emptyDir"
    BY <1>2, <1>4
<1>6. \A i \in 1..Len(vm.volumes) : i + 1 \in 1..Len(vs) /\ vs[i + 1] = VMVolumes[i]
    BY <1>2, <1>3, <1>4
<1>7. \A k \in 1..Len(vs) : k = 1 \/ \E i \in 1..Len(vm.volumes) : k = i + 1 /\ vs[k] = VMVolumes[i]
    BY <1>2, <1>3, <1>4
<1>8. Private[1] = "private" /\ \A i : VMVolume(i) = <<"volume", i>>
    BY DEF Private, VMVolume
<1>9. Distinct(Names(vs))
  <2>1. ASSUME NEW j \in 1..Len(vs), NEW k \in 1..Len(vs), vs[j].name = vs[k].name PROVE j = k
    <3>1. CASE j = 1
      BY <2>1, <3>1, <1>3, <1>5, <1>7, <1>8
    <3>2. CASE k = 1
      BY <2>1, <3>2, <1>3, <1>5, <1>7, <1>8
    <3>3. ASSUME NEW i \in 1..Len(vm.volumes), NEW l \in 1..Len(vm.volumes),
                 j = i + 1, vs[j] = VMVolumes[i], k = l + 1, vs[k] = VMVolumes[l]
          PROVE  j = k
      <4>1. VMVolume(i) = VMVolume(l)
        BY <2>1, <3>3, <1>3
      <4>2. QED
        BY <3>3, <4>1, <1>8
    <3>4. QED
      BY <3>1, <3>2, <3>3, <1>7
  <2>2. QED
    BY <2>1, <1>4, NamedIn
<1>10. ASSUME NEW k \in 1..Len(vs)
       PROVE  /\ vs[k].name[1] \in VolumeTags("serial")
              /\ vs[k].name[1] = "private" => vs[k] = Volume(Private, "emptyDir")
              /\ vs[k].name[1] = "volume" => vs[k].name[2] \in 1..Len(vm.volumes)
              /\ vs[k].kind = "image" => ImageName(vs[k].name)
  <2>1. "private" \in VolumeTags("serial") /\ "volume" \in VolumeTags("serial")
    BY DEF VolumeTags
  <2>2. CASE k = 1
    BY <2>1, <2>2, <1>5, <1>8
  <2>3. ASSUME NEW i \in 1..Len(vm.volumes), vs[k] = VMVolumes[i] PROVE <1>10!2
    <3>1. vs[k].name = <<"volume", i>> /\ (vs[k].kind = "image" => vm.volumes[i] = "containerDisk")
      BY <2>3, <1>3, <1>8
    <3>2. QED
      BY <2>1, <3>1 DEF ImageName
  <2>4. QED
    BY <2>2, <2>3, <1>7
<1>11. Private \in ToSet(Names(vs)) /\ \A i \in 1..Len(vm.volumes) : VMVolume(i) \in ToSet(Names(vs))
  <2>1. \A n : n \in ToSet(Names(vs)) <=> \E k \in 1..Len(vs) : vs[k].name = n
    BY <1>4, NamedIn
  <2>2. QED
    BY <2>1, <1>3, <1>5, <1>6
<1>12. "serial" \in ToDisks /\ "serial" \in ToPasst /\ "serial" \in ToState
    BY DEF ToSerial, ToVNC, ToDevices, ToDisks, ToCleanup, ToDirs, ToPasst, ToState
<1>13. QED
    BY <1>1, <1>9, <1>10, <1>11, <1>12 DEF VolumesFit, vs

LEMMA InitMounts ==
    ASSUME Init
    PROVE  ComputeMountsFit
<1> DEFINE ms == pod.containers[1].mounts
           one == <<Mount(Private, Private)>>
           n == Len(vm.volumes)
<1>1. step = "serial" /\ vm \in VMs /\ n \in Nat
    BY InitPod, VMFacts
<1>2. ms = one \o Disks
  <2>1. pod.containers[1] = Compute
    <3>1. pod.containers = <<Compute>> \o Hook /\ Hook \in Seq(ContainerType)
      BY InitPod, HookIs
    <3>2. Compute \in ContainerType
      BY <1>1, ComputeIs
    <3> HIDE DEF ms
    <3>3. \A x \in ContainerType : \A s \in Seq(ContainerType) : (<<x>> \o s)[1] = x
      OBVIOUS
    <3>4. QED
      BY <3>1, <3>2, <3>3
  <2>2. QED
    BY <1>1, <2>1, ComputeIs
<1>3. /\ one \in Seq(MountType) /\ Len(one) = 1 /\ one[1] = Mount(Private, Private)
    BY PrivateMount
<1>4. /\ Mount(Private, Private).vol = Private /\ Mount(Private, Private).path = Private
      /\ Mount(Private, Private).sub = ""
    BY DEF Mount, MountAs
<1>5. Disks \in Seq(MountType) /\ Len(Disks) = n
    BY <1>1, DisksAre
<1>16. \A i \in 1..n : Disks[i].path = DiskDir(i)
    BY <1>1, DisksAre
<1> HIDE DEF one, ms, n
<1>6. /\ ms \in Seq(MountType)
      /\ \A k \in 1..Len(one) : k \in 1..Len(ms) /\ ms[k] = one[k]
      /\ \A k \in 1..Len(Disks) : Len(one) + k \in 1..Len(ms) /\ ms[Len(one) + k] = Disks[k]
      /\ \A k \in 1..Len(ms) : \/ k \in 1..Len(one) /\ ms[k] = one[k]
                               \/ \E j \in 1..Len(Disks) : k = Len(one) + j /\ ms[k] = Disks[j]
  <2>1. ASSUME NEW S, NEW u \in Seq(S), NEW v \in Seq(S), NEW w, w = u \o v
        PROVE  /\ w \in Seq(S)
               /\ \A k \in 1..Len(u) : k \in 1..Len(w) /\ w[k] = u[k]
               /\ \A k \in 1..Len(v) : Len(u) + k \in 1..Len(w) /\ w[Len(u) + k] = v[k]
               /\ \A k \in 1..Len(w) : \/ k \in 1..Len(u) /\ w[k] = u[k]
                                       \/ \E j \in 1..Len(v) : k = Len(u) + j /\ w[k] = v[j]
    <3>1. Joins(S, u, v, w)
      BY <2>1 DEF Joins
    <3>2. QED
      BY <3>1, Joined
  <2>2. one \in Seq(MountType) /\ Disks \in Seq(MountType) /\ ms = one \o Disks
    BY <1>2, <1>3, <1>5
  <2>3. QED
    BY <2>1, <2>2
<1>7. 1 \in 1..Len(ms) /\ ms[1] = Mount(Private, Private)
    BY <1>3, <1>6
<1>17. ms[1].path = Private
    BY <1>4, <1>7
<1>8. ASSUME NEW k \in 1..Len(ms)
      PROVE  k = 1 \/ \E i \in 1..n : k = i + 1 /\ ms[k] = Disks[i]
    BY <1>3, <1>5, <1>6
<1>9. Private = <<"private", 0>> /\ \A i : VMVolume(i) = <<"volume", i>> /\ DiskDir(i) = <<"vmi-disks", i>>
    BY DEF Private, VMVolume, DiskDir
<1>18. \A i : DiskDir(i) # Private
    BY <1>9
<1>10. Distinct(Paths(ms))
  <2>1. ASSUME NEW j \in 1..Len(ms), NEW k \in 1..Len(ms), ms[j].path = ms[k].path PROVE j = k
    <3>1. CASE j = 1
      BY <2>1, <3>1, <1>8, <1>16, <1>17, <1>18
    <3>2. CASE k = 1
      BY <2>1, <3>2, <1>8, <1>16, <1>17, <1>18
    <3>3. ASSUME NEW i \in 1..n, NEW l \in 1..n, j = i + 1, ms[j] = Disks[i], k = l + 1, ms[k] = Disks[l]
          PROVE  j = k
      <4>1. DiskDir(i) = DiskDir(l)
        BY <2>1, <3>3, <1>16
      <4>2. QED
        BY <3>3, <4>1, <1>9
    <3>4. QED
      BY <3>1, <3>2, <3>3, <1>8
  <2>2. QED
    BY <2>1, <1>6, PathsAre
<1>11. Private \in ToSet(Names(pod.volumes)) /\ \A i \in 1..n : VMVolume(i) \in ToSet(Names(pod.volumes))
    BY InitVolumes DEF VolumesFit, n
<1>12. ASSUME NEW k \in 1..Len(ms)
       PROVE  /\ ms[k].path[1] \in PathTags(step)
              /\ ms[k].vol \in ToSet(Names(pod.volumes))
              /\ ImageName(ms[k].vol) => ms[k].mode = "ro"
              /\ ms[k].path = Private => ms[k].vol = Private
              /\ ms[k].sub # "" => (ms[k].vol = VMState /\ ms[k].sub \in ToSet(SubPaths))
  <2>1. "private" \in PathTags(step) /\ "vmi-disks" \in PathTags(step)
    BY DEF PathTags
  <2>2. CASE k = 1
    <3>1. ~ImageName(Private)
      BY <1>9 DEF ImageName
    <3>2. ms[k].path[1] = "private"
      BY <2>2, <1>17, <1>9
    <3>3. ms[k].vol = Private
      BY <2>2, <1>4, <1>7
    <3>4. ms[k].sub = ""
      BY <2>2, <1>4, <1>7
    <3>5. QED
      BY <2>1, <3>1, <3>2, <3>3, <3>4, <1>11
  <2>3. ASSUME NEW i \in 1..n, ms[k] = Disks[i] PROVE <1>12!2
    <3>1. ImageName(VMVolume(i)) => vm.volumes[i] = "containerDisk"
      BY <1>9 DEF ImageName
    <3>2. ms[k].path = DiskDir(i)
      BY <2>3, <1>16
    <3>3. ms[k].path[1] = "vmi-disks" /\ ms[k].path # Private
      BY <3>2, <1>9
    <3>4. ms[k].vol = VMVolume(i)
      BY <2>3, <1>1, DisksAre DEF n
    <3>5. ms[k].sub = "" /\ (vm.volumes[i] = "containerDisk" => ms[k].mode = "ro")
      BY <2>3, <1>1, DisksAre DEF n
    <3>6. QED
      BY <2>1, <3>1, <3>3, <3>4, <3>5, <1>11
  <2>4. QED
    BY <2>2, <2>3, <1>8
<1>13. ToSet(Rendered(vm).containers[1].mounts) \subseteq ToSet(ms)
    BY DEF Init, ms
<1>14. "serial" \in ToPasst
    BY DEF ToSerial, ToVNC, ToDevices, ToDisks, ToCleanup, ToDirs, ToPasst
<1>15. QED
    BY <1>1, <1>10, <1>12, <1>13, <1>14 DEF ComputeMountsFit, ms

LEMMA InitInv ==
    ASSUME Init
    PROVE  IInv
<1>1. step = "serial" /\ vm \in VMs /\ opts \in Options /\ pod \in PodType /\ pod.inits = Log \o Plain
    BY InitPod
<1>2. "serial" \in Steps /\ "serial" \in ToDisks
    BY DEF ToSerial, ToVNC, ToDevices, ToDisks, ToCleanup, ToDirs, ToPasst, ToState, Steps
<1>3. TypeOK
    BY <1>1, <1>2 DEF TypeOK
<1>4. pod.inits = InitsAt(step)
    BY <1>1, <1>2 DEF InitsAt
<1>5. QED
    BY <1>3, <1>4, InitContainers, InitVolumes, InitMounts DEF IInv

-----------------------------------------------------------------------------
(***************************************************************************)
(* Each function of step 5 preserves the invariant.                        *)
(***************************************************************************)

\* Going on from one step to the next: what may be new.
LEMMA TagsNext ==
    /\ VolumeTags("vnc") = VolumeTags("serial") /\ VolumeTags("devices") = VolumeTags("serial")
    /\ VolumeTags("disks") = VolumeTags("devices") \cup DeviceTags
    /\ VolumeTags("cleanup") = VolumeTags("disks") \cup {"import-src"}
    /\ VolumeTags("dirs") = VolumeTags("cleanup") /\ VolumeTags("passt") = VolumeTags("cleanup")
    /\ VolumeTags("state") = VolumeTags("passt") \cup {"passt-bin"}
    /\ VolumeTags("probe") = VolumeTags("state") \cup StateTags \cup {"vm-state"}
    /\ VolumeTags("env") = VolumeTags("probe") /\ VolumeTags("done") = VolumeTags("probe")
    /\ VolumeTags("serial") = {"private", "volume"}
<1>1. VolumeTags("serial") = {"private", "volume"} /\ VolumeTags("vnc") = {"private", "volume"}
        /\ VolumeTags("devices") = {"private", "volume"}
    BY DEF VolumeTags, ToSerial, ToVNC, ToDevices, ToDisks, ToCleanup, ToDirs, ToPasst, ToState
<1>2. VolumeTags("disks") = {"private", "volume"} \cup DeviceTags
    BY DEF VolumeTags, ToSerial, ToVNC, ToDevices, ToDisks, ToCleanup, ToDirs, ToPasst, ToState
<1>3. /\ VolumeTags("cleanup") = {"private", "volume"} \cup DeviceTags \cup {"import-src"}
      /\ VolumeTags("dirs") = {"private", "volume"} \cup DeviceTags \cup {"import-src"}
      /\ VolumeTags("passt") = {"private", "volume"} \cup DeviceTags \cup {"import-src"}
    BY DEF VolumeTags, ToSerial, ToVNC, ToDevices, ToDisks, ToCleanup, ToDirs, ToPasst, ToState
<1>4. VolumeTags("state") = {"private", "volume"} \cup DeviceTags \cup {"import-src"} \cup {"passt-bin"}
    BY DEF VolumeTags, ToSerial, ToVNC, ToDevices, ToDisks, ToCleanup, ToDirs, ToPasst, ToState
<1>5. \A s \in {"probe", "env", "done"} :
        VolumeTags(s) = {"private", "volume"} \cup DeviceTags \cup {"import-src"} \cup {"passt-bin"}
                          \cup StateTags \cup {"vm-state"}
    BY DEF VolumeTags, ToSerial, ToVNC, ToDevices, ToDisks, ToCleanup, ToDirs, ToPasst, ToState
<1>6. QED
    BY <1>1, <1>2, <1>3, <1>4, <1>5

LEMMA PathTagsNext ==
    /\ \A s \in {"serial", "vnc", "devices"} : PathTags(s) = {"private", "vmi-disks"}
    /\ \A s \in {"disks", "cleanup", "dirs", "passt"} :
         PathTags(s) = {"private", "vmi-disks"} \cup DeviceTags
    /\ PathTags("state") = {"private", "vmi-disks"} \cup DeviceTags \cup {"passt-bin"}
    /\ \A s \in {"probe", "env", "done"} :
         PathTags(s) = {"private", "vmi-disks"} \cup DeviceTags \cup {"passt-bin"}
                         \cup StateTags \cup ToSet(SubPaths)
BY DEF PathTags, ToSerial, ToVNC, ToDevices, ToDisks, ToCleanup, ToDirs, ToPasst, ToState

LEMMA SidecarsNext ==
    ASSUME vm \in VMs, opts \in Options
    PROVE  /\ SidecarsAt("serial") = vm.sidecars \cap {"hook"}
           /\ SidecarsAt("vnc") = (vm.sidecars \cap {"hook"}) \cup (opts \cap {"serial"})
           /\ \A s \in {"devices", "disks", "cleanup"} :
                SidecarsAt(s) = (vm.sidecars \cap {"hook"}) \cup (opts \cap {"serial", "vnc"})
           /\ \A s \in {"dirs", "passt", "state", "probe", "env", "done"} :
                SidecarsAt(s) = (vm.sidecars \cap {"hook", "log"}) \cup (opts \cap {"serial", "vnc"})
BY DEF SidecarsAt, ToSerial, ToVNC, ToDevices, ToDisks, ToCleanup

LEMMA StepsNext ==
    /\ \A s \in {"serial", "vnc", "devices", "disks"} : s \in ToDisks
    /\ \A s \in {"cleanup", "dirs", "passt", "state", "probe", "env", "done"} : s \notin ToDisks
    /\ \A s \in {"serial", "vnc", "devices", "disks", "cleanup", "dirs", "passt"} : s \in ToPasst
    /\ \A s \in {"state", "probe", "env", "done"} : s \notin ToPasst
    /\ \A s \in {"serial", "vnc", "devices", "disks", "cleanup", "dirs", "passt", "state"} : s \in ToState
    /\ \A s \in {"probe", "env", "done"} : s \notin ToState
    /\ Steps = {"serial", "vnc", "devices", "disks", "cleanup", "dirs", "passt", "state", "probe", "env", "done"}
BY DEF ToSerial, ToVNC, ToDevices, ToDisks, ToCleanup, ToDirs, ToPasst, ToState, Steps

LEMMA ContainersKept ==
    ASSUME ContainersFit, vm' = vm, opts' = opts, pod'.containers = pod.containers,
           SidecarsAt(step') = SidecarsAt(step)
    PROVE  ContainersFit'
<1>1. SidecarsAt(step)' = SidecarsAt(step)
    BY DEF SidecarsAt
<1>2. QED
    BY <1>1 DEF ContainersFit

LEMMA VolumesKept ==
    ASSUME VolumesFit, vm' = vm, opts' = opts, pod'.volumes = pod.volumes,
           VolumeTags(step') = VolumeTags(step), step' \in ToDisks <=> step \in ToDisks,
           step' \in ToPasst <=> step \in ToPasst, step' \in ToState <=> step \in ToState
    PROVE  VolumesFit'
<1>1. VolumeTags(step)' = VolumeTags(step)
    BY DEF VolumeTags
<1>2. ToSet(ProvisionedAs({"registry"}))' = ToSet(ProvisionedAs({"registry"}))
    BY DEF ProvisionedAs
<1>3. \A n : ImageName(n)' <=> ImageName(n)
    BY DEF ImageName
<1>4. QED
    BY <1>1, <1>2, <1>3 DEF VolumesFit

LEMMA MountsKept ==
    ASSUME ComputeMountsFit, vm' = vm, opts' = opts,
           pod'.containers[1].mounts = pod.containers[1].mounts,
           ToSet(Names(pod.volumes)) \subseteq ToSet(Names(pod'.volumes)),
           PathTags(step') = PathTags(step), step' \in ToPasst <=> step \in ToPasst
    PROVE  ComputeMountsFit'
<1>1. \A n : ImageName(n)' <=> ImageName(n)
    BY DEF ImageName
<1>2. PathTags(step)' = PathTags(step)
    BY DEF PathTags
<1>3. QED
    BY <1>1, <1>2 DEF ComputeMountsFit

LEMMA InvNext ==
    ASSUME TypeOK, vm' = vm, opts' = opts, step' \in Steps, pod' \in PodType,
           ContainersFit', VolumesFit', ComputeMountsFit', pod'.inits = InitsAt(step')
    PROVE  IInv'
<1>1. Log' = Log /\ Plain' = Plain /\ Patchers' = Patchers
    BY DEF Log, Plain, Patchers
<1>2. ToProvision' = ToProvision
    BY DEF ToProvision, ProvisionedAs
<1>3. DiskInits' = DiskInits
    BY <1>2 DEF DiskInits, DiskInit
<1>4. InitsAt(step)' = InitsAt(step')
    BY <1>1, <1>3 DEF InitsAt
<1>5. TypeOK'
    BY DEF TypeOK
<1>6. QED
    BY <1>4, <1>5 DEF IInv

LEMMA PodFields ==
    ASSUME TypeOK, ContainersFit
    PROVE  /\ pod \in PodType
           /\ pod.containers \in Seq(ContainerType) /\ pod.inits \in Seq(ContainerType)
           /\ pod.volumes \in Seq(VolumeType)
           /\ Len(pod.containers) \in Nat /\ Len(pod.containers) > 0 /\ 1 \in 1..Len(pod.containers)
           /\ pod.containers[1] \in ContainerType
           /\ pod.containers[1].mounts \in Seq(MountType)
<1>1. pod \in PodType /\ pod.containers \in Seq(ContainerType) /\ pod.inits \in Seq(ContainerType)
        /\ pod.volumes \in Seq(VolumeType)
    BY DEF TypeOK, PodType
<1>2. /\ Len(pod.containers) \in Nat /\ Len(pod.containers) > 0 /\ 1 \in 1..Len(pod.containers)
      /\ pod.containers[1] \in ContainerType
    BY <1>1 DEF ContainersFit
<1>3. QED
    BY <1>1, <1>2, ContainerFields

LEMMA RenderedCompute ==
    ASSUME vm \in VMs
    PROVE  Rendered(vm).containers[1] = Compute
<1>1. Rendered(vm).containers = <<Compute>> \o Hook
    BY RenderedIs
<1>2. Compute \in ContainerType /\ Hook \in Seq(ContainerType)
    BY ComputeIs, HookIs
<1>3. (<<Compute>> \o Hook)[1] = Compute
    BY <1>2
<1>4. QED
    BY <1>1, <1>3

\* The only container of that name is the first.
LEMMA OneCompute ==
    ASSUME TypeOK, ContainersFit
    PROVE  /\ Named(pod.containers, ComputeName) = {1}
           /\ \A c \in ToSet(pod.containers) : c.name = ComputeName => c = pod.containers[1]
<1> DEFINE cs == pod.containers
<1>1. cs \in Seq(ContainerType) /\ Len(cs) \in Nat /\ 1 \in 1..Len(cs) /\ cs[1].name = ComputeName
    BY PodFields DEF ContainersFit
<1>2. \A j, k \in 1..Len(cs) : cs[j].name = cs[k].name => j = k
  <2>1. Distinct(Names(cs))
    BY DEF ContainersFit
  <2> HIDE DEF cs
  <2>2. QED
    BY <1>1, <2>1, NamedIn
<1> HIDE DEF cs
<1>3. Named(cs, ComputeName) = {1}
    BY <1>1, <1>2 DEF Named
<1>4. \A c \in ToSet(cs) : c.name = ComputeName => c = cs[1]
  <2>1. \A c : c \in ToSet(cs) <=> \E k \in 1..Len(cs) : cs[k] = c
    BY <1>1, InToSet
  <2>2. QED
    BY <2>1, <1>1, <1>2
<1>5. QED
    BY <1>3, <1>4 DEF cs

LEMMA PrivateOnly ==
    ASSUME IInv
    PROVE  PrivateVolumes = {Private}
<1> DEFINE c == pod.containers[1]
<1>1. /\ pod.containers \in Seq(ContainerType) /\ 1 \in 1..Len(pod.containers)
      /\ c.name = ComputeName /\ c.mounts \in Seq(MountType) /\ vm \in VMs
    BY PodFields DEF IInv, ContainersFit, TypeOK
<1>2. {d \in ToSet(pod.containers) : d.name = ComputeName} = {c}
  <2>1. c \in ToSet(pod.containers)
    BY <1>1, InToSet
  <2>2. \A d \in ToSet(pod.containers) : d.name = ComputeName => d = c
    BY OneCompute DEF IInv
  <2>3. QED
    BY <1>1, <2>1, <2>2
<1>3. UNION {Mounts(d) : d \in {d \in ToSet(pod.containers) : d.name = ComputeName}} = Mounts(c)
    BY <1>2
<1>4. Mount(Private, Private) \in Mounts(c)
  <2>1. Rendered(vm).containers[1].mounts = <<Mount(Private, Private)>> \o Disks
    BY <1>1, RenderedCompute, ComputeIs
  <2>2. Mount(Private, Private) \in ToSet(<<Mount(Private, Private)>> \o Disks)
    <3> DEFINE all == <<Mount(Private, Private)>> \o Disks
    <3>1. Mount(Private, Private) \in MountType /\ Disks \in Seq(MountType)
      BY <1>1, PrivateMount, DisksAre
    <3>2. all = <<Mount(Private, Private)>> \o Disks
      OBVIOUS
    <3> HIDE DEF all
    <3>3. all \in Seq(MountType) /\ 1 \in 1..Len(all) /\ all[1] = Mount(Private, Private)
      <4>1. Leads(MountType, Mount(Private, Private), Disks, all)
        BY <3>1, <3>2 DEF Leads
      <4>2. QED
        BY <4>1, Prefixed
    <3>4. all[1] \in ToSet(all)
      BY <3>3, InToSet
    <3>5. QED
      BY <3>3, <3>4 DEF all
  <2>3. QED
    BY <2>1, <2>2 DEF IInv, ComputeMountsFit, Mounts
<1>5. Mount(Private, Private).path = Private /\ Mount(Private, Private).vol = Private
    BY NamesAre, PlainMount
<1>6. \A m \in Mounts(c) : m.path = Private => m.vol = Private
  <2>1. \A m : m \in ToSet(c.mounts) <=> \E k \in 1..Len(c.mounts) : c.mounts[k] = m
    BY <1>1, InToSet
  <2>2. \A k \in 1..Len(c.mounts) : c.mounts[k].path = Private => c.mounts[k].vol = Private
    BY DEF IInv, ComputeMountsFit
  <2>3. QED
    BY <2>1, <2>2 DEF Mounts
<1> HIDE DEF c
<1>7. PrivateVolumes = {m.vol : m \in {m \in Mounts(c) : m.path = Private}}
    BY <1>3 DEF PrivateVolumes
<1>8. QED
    BY <1>4, <1>5, <1>6, <1>7

Proxy(n) ==
    [Container(<<n, 0>>, <<Mount(Private, Private)>>) EXCEPT !.dials = <<"default", n>>]

LEMMA ProxyIs ==
    ASSUME NEW n \in {"serial", "vnc"}
    PROVE  /\ Proxy(n) \in ContainerType /\ Proxy(n).name = <<n, 0>>
           /\ Proxy(n).mounts = <<Mount(Private, Private)>> /\ Proxy(n).dials = <<"default", n>>
<1> DEFINE d == Proxy(n)
           ds == <<"default", n>>
<1>1. d = [Sidecar(n) EXCEPT !.dials = ds]
    BY DEF Proxy, Sidecar
<1>2. /\ Sidecar(n) \in ContainerType /\ Sidecar(n).name = <<n, 0>>
      /\ Sidecar(n).mounts = <<Mount(Private, Private)>>
    BY SidecarIs DEF Tags
<1>3. ds \in Seq({"default", "serial", "vnc"})
    OBVIOUS
<1> HIDE DEF d, ds
<1>4. d \in ContainerType /\ d.name = Sidecar(n).name /\ d.mounts = Sidecar(n).mounts /\ d.dials = ds
    BY <1>1, <1>2, <1>3 DEF ContainerType
<1>5. QED
    BY <1>2, <1>4 DEF d, ds

\* What every function but one leaves alone, and the invariant with it.
LEMMA VolumesStay ==
    ASSUME IInv, vm' = vm, opts' = opts, pod'.volumes = pod.volumes, step' \in Steps,
           <<step, step'>> \in {<<"serial", "vnc">>, <<"vnc", "devices">>, <<"cleanup", "dirs">>,
                                <<"dirs", "passt">>, <<"probe", "env">>, <<"env", "done">>}
    PROVE  VolumesFit'
<1>1. VolumesFit
    BY DEF IInv
<1>2. VolumeTags(step') = VolumeTags(step)
    BY TagsNext
<1>3. /\ step' \in ToDisks <=> step \in ToDisks
      /\ step' \in ToPasst <=> step \in ToPasst
      /\ step' \in ToState <=> step \in ToState
    BY StepsNext
<1>4. QED
    BY <1>1, <1>2, <1>3, VolumesKept

LEMMA MountsStay ==
    ASSUME IInv, vm' = vm, opts' = opts, pod'.containers[1].mounts = pod.containers[1].mounts,
           ToSet(Names(pod.volumes)) \subseteq ToSet(Names(pod'.volumes)),
           <<step, step'>> \in {<<"serial", "vnc">>, <<"vnc", "devices">>, <<"disks", "cleanup">>,
                                <<"cleanup", "dirs">>, <<"dirs", "passt">>, <<"probe", "env">>,
                                <<"env", "done">>}
    PROVE  ComputeMountsFit'
<1>1. ComputeMountsFit
    BY DEF IInv
<1>2. PathTags(step') = PathTags(step)
    BY PathTagsNext
<1>3. step' \in ToPasst <=> step \in ToPasst
    BY StepsNext
<1>4. QED
    BY <1>1, <1>2, <1>3, MountsKept

LEMMA ContainersStay ==
    ASSUME IInv, vm' = vm, opts' = opts, pod'.containers \in Seq(ContainerType),
           Len(pod'.containers) = Len(pod.containers),
           pod'.containers[1].name = pod.containers[1].name,
           \A k \in 2..Len(pod.containers) : pod'.containers[k] = pod.containers[k],
           <<step, step'>> \in {<<"devices", "disks">>, <<"disks", "cleanup">>,
                                <<"dirs", "passt">>, <<"passt", "state">>, <<"state", "probe">>,
                                <<"probe", "env">>, <<"env", "done">>}
    PROVE  ContainersFit'
<1>1. TypeOK /\ ContainersFit
    BY DEF IInv
<1>2. vm \in VMs /\ opts \in Options
    BY <1>1 DEF TypeOK
<1>3. SidecarsAt(step') = SidecarsAt(step)
    BY <1>2, SidecarsNext
<1>4. Distinct(Names(<<>>))
    BY DEF Distinct, Names
<1>5. Len(pod.containers) \in Nat
    BY <1>1, PodFields
<1>6. ContainersAdded(<<>>)
    BY <1>3, <1>4, <1>5 DEF ContainersAdded
<1>7. QED
    BY <1>1, <1>6, ContainersGrow

LEMMA ProxyInv ==
    ASSUME IInv, vm' = vm, opts' = opts, NEW n \in {"serial", "vnc"}, pod' = AddProxy(n),
           step = n, step' = IF n = "serial" THEN "vnc" ELSE "devices"
    PROVE  IInv'
<1>1. TypeOK /\ ContainersFit /\ vm \in VMs /\ opts \in Options /\ pod.inits = InitsAt(step)
    BY DEF IInv, TypeOK
<1>2. /\ pod \in PodType /\ pod.containers \in Seq(ContainerType)
      /\ Len(pod.containers) \in Nat /\ 1 \in 1..Len(pod.containers)
    BY <1>1, PodFields
<1>3. step' \in Steps /\ InitsAt(step') = InitsAt(step)
    BY StepsNext DEF InitsAt
<1>4. <<step, step'>> \in {<<"serial", "vnc">>, <<"vnc", "devices">>}
    OBVIOUS
<1>5. /\ SidecarsAt(step') = SidecarsAt(step) \cup (opts \cap {n})
      /\ n \notin SidecarsAt(step)
    <2>1. vm.sidecars \in SUBSET {"hook", "log", "plain"}
      BY <1>1, VMFacts
    <2>2. CASE n = "serial"
      BY <1>1, <2>1, <2>2, SidecarsNext
    <2>3. CASE n = "vnc"
      BY <1>1, <2>1, <2>3, SidecarsNext
    <2>4. QED
      BY <2>2, <2>3
<1>6. /\ pod' \in PodType /\ pod'.volumes = pod.volumes /\ pod'.inits = pod.inits
      /\ pod'.containers[1] = pod.containers[1]
      /\ ContainersFit'
  <2>1. CASE n \notin opts
    <3>1. pod' = pod
      BY <2>1 DEF AddProxy
    <3>2. SidecarsAt(step') = SidecarsAt(step)
      BY <2>1, <1>5
    <3>3. QED
      BY <3>1, <3>2, <1>1, <1>2, ContainersKept
  <2>2. CASE n \in opts
    <3> DEFINE cs == Append(pod.containers, Proxy(n))
    <3>1. PrivateVolumes = {Private}
      BY PrivateOnly
    <3>2. pod' = [pod EXCEPT !.containers = cs]
      BY <2>2, <3>1 DEF AddProxy, Proxy
    <3>3. /\ Proxy(n) \in ContainerType /\ Proxy(n).name = <<n, 0>>
          /\ Proxy(n).mounts = <<Mount(Private, Private)>> /\ Proxy(n).dials = <<"default", n>>
      BY ProxyIs
    <3>4. /\ cs \in Seq(ContainerType) /\ Len(cs) = Len(pod.containers) + 1
          /\ \A k \in 1..Len(pod.containers) : cs[k] = pod.containers[k]
          /\ cs[Len(pod.containers) + 1] = Proxy(n)
      BY <1>2, <3>3
    <3>5. /\ <<Proxy(n)>> \in Seq(ContainerType) /\ Len(<<Proxy(n)>>) = 1
          /\ <<Proxy(n)>>[1] = Proxy(n)
      BY <3>3, Singleton
    <3> DEFINE one == <<Proxy(n)>>
    <3> HIDE DEF cs, one
    <3>6. /\ pod' \in PodType /\ pod'.volumes = pod.volumes /\ pod'.inits = pod.inits
          /\ pod'.containers = cs
      BY <1>2, <3>2, <3>4 DEF PodType
    <3>7. pod'.containers[1] = pod.containers[1]
      BY <1>2, <3>4, <3>6
    <3>8. one \in Seq(ContainerType) /\ Len(one) = 1 /\ one[1] = Proxy(n)
      BY <3>5 DEF one
    <3>9. ContainersAdded(one)
      <4>1. Distinct(Names(one))
        <5>1. \A j, k \in 1..Len(one) : one[j].name = one[k].name => j = k
          BY <3>8
        <5>2. QED
          BY <3>8, <5>1, NamedIn
      <4>2. SidecarsAt(step') \ SidecarsAt(step) = {n} /\ SidecarsAt(step) \subseteq SidecarsAt(step')
        BY <1>5, <2>2
      <4>3. /\ \A k \in 1..Len(one) : one[k] = Proxy(n)
            /\ \E k \in 1..Len(one) : one[k] = Proxy(n)
        BY <3>8
      <4>4. Len(pod'.containers) = Len(pod.containers) + Len(one)
        BY <3>4, <3>6, <3>8
      <4>5. \A k \in 1..Len(one) : pod'.containers[Len(pod.containers) + k] = one[k]
        BY <3>4, <3>6, <3>8
      <4>6. \A k \in 2..Len(pod.containers) : pod'.containers[k] = pod.containers[k]
        BY <1>2, <3>4, <3>6
      <4>7. QED
        BY <3>3, <3>7, <3>8, <4>1, <4>2, <4>3, <4>4, <4>5, <4>6 DEF ContainersAdded
    <3>10. pod'.containers \in Seq(ContainerType)
      BY <3>4, <3>6
    <3>11. ContainersFit'
      BY <1>1, <3>9, <3>10, ContainersGrow
    <3>12. QED
      BY <3>6, <3>7, <3>11
  <2>3. QED
    BY <2>1, <2>2
<1>7. VolumesFit'
    BY <1>3, <1>4, <1>6, VolumesStay
<1>8. ComputeMountsFit'
    BY <1>4, <1>6, MountsStay
<1>9. QED
    BY <1>1, <1>3, <1>6, <1>7, <1>8, InvNext

\* A loop over the containers that changes compute only.
LEMMA ComputeChanged ==
    ASSUME TypeOK, ContainersFit, NEW ws, NEW d \in ContainerType,
           ws = [k \in 1..Len(pod.containers) |-> IF k = 1 THEN d ELSE pod.containers[k]]
    PROVE  /\ ws \in Seq(ContainerType) /\ Len(ws) = Len(pod.containers) /\ ws[1] = d
           /\ \A k \in 2..Len(pod.containers) : ws[k] = pod.containers[k]
<1> DEFINE cs == pod.containers
<1>1. cs \in Seq(ContainerType) /\ Len(cs) \in Nat /\ 1 \in 1..Len(cs)
    BY PodFields
<1>2. ws = [k \in 1..Len(cs) |-> IF k = 1 THEN d ELSE cs[k]]
    OBVIOUS
<1> HIDE DEF cs
<1>3. \A k \in 1..Len(cs) : cs[k] \in ContainerType
    BY <1>1
<1>4. ws \in [1..Len(cs) -> ContainerType]
    BY <1>2, <1>3
<1>5. ws \in Seq(ContainerType) /\ Len(ws) = Len(cs)
    BY <1>1, <1>4
<1>6. ws[1] = d /\ \A k \in 2..Len(cs) : ws[k] = cs[k]
    BY <1>1, <1>2
<1>7. QED
    BY <1>5, <1>6 DEF cs

LEMMA WithMountsIs ==
    ASSUME TypeOK, ContainersFit, NEW ms \in Seq(MountType), NEW ws,
           ws = WithMounts(pod.containers, ComputeName, ms)
    PROVE  /\ ws \in Seq(ContainerType) /\ Len(ws) = Len(pod.containers)
           /\ ws[1].name = pod.containers[1].name
           /\ ws[1].mounts = pod.containers[1].mounts \o ms
           /\ \A k \in 2..Len(pod.containers) : ws[k] = pod.containers[k]
<1> DEFINE cs == pod.containers
           c == cs[1]
           ns == c.mounts \o ms
           d == [c EXCEPT !.mounts = ns]
<1>1. c \in ContainerType /\ c.mounts \in Seq(MountType)
    BY PodFields
<1>2. ns \in Seq(MountType)
    BY <1>1, AppendedIs
<1>3. Named(cs, ComputeName) = {1}
    BY OneCompute
<1>4. ws = [k \in 1..Len(cs) |-> IF k = 1 THEN d ELSE cs[k]]
    BY <1>3 DEF WithMounts
<1>5. d = [c EXCEPT !.mounts = ns]
    OBVIOUS
<1> HIDE DEF d, ns, c
<1>6. d \in ContainerType /\ d.name = c.name /\ d.mounts = ns
    BY <1>1, <1>2, <1>5 DEF ContainerType
<1>7. /\ ws \in Seq(ContainerType) /\ Len(ws) = Len(cs) /\ ws[1] = d
      /\ \A k \in 2..Len(cs) : ws[k] = cs[k]
    BY <1>4, <1>6, ComputeChanged
<1>8. QED
    BY <1>6, <1>7 DEF ns, c

LEMMA ReadinessProbeInv ==
    ASSUME IInv, ReadinessProbe
    PROVE  IInv'
<1> DEFINE cs == pod.containers
           c == cs[1]
           q == <<"readiness", vm.ns>>
           d == IF c.probe = <<"none">> THEN [c EXCEPT !.probe = q] ELSE c
           ws == [k \in 1..Len(cs) |-> IF k \in Named(cs, ComputeName) /\ cs[k].probe = <<"none">>
                                       THEN [cs[k] EXCEPT !.probe = q] ELSE cs[k]]
<1>1. TypeOK /\ ContainersFit /\ vm \in VMs /\ opts \in Options /\ pod.inits = InitsAt(step)
    BY DEF IInv, TypeOK
<1>2. /\ pod \in PodType /\ cs \in Seq(ContainerType) /\ c \in ContainerType
    BY <1>1, PodFields
<1>3. /\ step = "probe" /\ step' = "env" /\ vm' = vm /\ opts' = opts
      /\ pod' = [pod EXCEPT !.containers = ws]
    BY DEF ReadinessProbe, At
<1>4. step' \in Steps /\ InitsAt(step') = InitsAt(step)
    BY <1>3, StepsNext DEF InitsAt, ToSerial, ToVNC, ToDevices, ToDisks
<1>5. d \in ContainerType /\ d.name = c.name /\ d.mounts = c.mounts
  <2>1. q \in Seq(ProbeWords)
    <3>1. "readiness" \in ProbeWords /\ vm.ns \in ProbeWords
      BY <1>1, VMFacts DEF ProbeWords
    <3>2. QED
      BY <3>1
  <2> HIDE DEF q, c
  <2>2. CASE c.probe = <<"none">>
    <3>1. d = [c EXCEPT !.probe = q]
      BY <2>2
    <3> HIDE DEF d
    <3>2. QED
      BY <1>2, <2>1, <3>1 DEF ContainerType
  <2>3. CASE c.probe # <<"none">>
    BY <1>2, <2>3
  <2>4. QED
    BY <2>2, <2>3
<1>6. ws = [k \in 1..Len(cs) |-> IF k = 1 THEN d ELSE cs[k]]
    BY <1>1, OneCompute
<1> HIDE DEF d, ws
<1>7. /\ ws \in Seq(ContainerType) /\ Len(ws) = Len(cs) /\ ws[1] = d
      /\ \A k \in 2..Len(cs) : ws[k] = cs[k]
    BY <1>1, <1>5, <1>6, ComputeChanged
<1> HIDE DEF cs, c
<1>8. /\ pod' \in PodType /\ pod'.volumes = pod.volumes /\ pod'.inits = pod.inits
      /\ pod'.containers = ws
    BY <1>2, <1>3, <1>7 DEF PodType
<1>9. <<step, step'>> = <<"probe", "env">>
    BY <1>3
<1>10. ContainersFit'
    BY <1>3, <1>5, <1>7, <1>8, <1>9, ContainersStay DEF cs, c
<1>11. VolumesFit'
    BY <1>3, <1>4, <1>8, <1>9, VolumesStay
<1>12. ComputeMountsFit'
    BY <1>3, <1>5, <1>7, <1>8, <1>9, MountsStay DEF cs, c
<1>13. QED
    BY <1>1, <1>3, <1>4, <1>8, <1>10, <1>11, <1>12, InvNext

LEMMA ComputeEnvInv ==
    ASSUME IInv, ComputeEnv
    PROVE  IInv'
<1> DEFINE cs == pod.containers
           c == cs[1]
           es == c.env \cup {"STANDALONE_VMI", "VIRSH_DEFAULT_CONNECT_URI"}
           d == [c EXCEPT !.env = es]
           WithEnv(b) == [b EXCEPT !.env = @ \cup {"STANDALONE_VMI", "VIRSH_DEFAULT_CONNECT_URI"}]
           ws == [k \in 1..Len(cs) |-> IF k \in Named(cs, ComputeName) THEN WithEnv(cs[k]) ELSE cs[k]]
<1>1. TypeOK /\ ContainersFit /\ vm \in VMs /\ opts \in Options /\ pod.inits = InitsAt(step)
    BY DEF IInv, TypeOK
<1>2. /\ pod \in PodType /\ cs \in Seq(ContainerType) /\ c \in ContainerType
    BY <1>1, PodFields
<1>3. /\ step = "env" /\ step' = "done" /\ vm' = vm /\ opts' = opts
      /\ pod' = [pod EXCEPT !.containers = ws]
    BY DEF ComputeEnv, At
<1>4. step' \in Steps /\ InitsAt(step') = InitsAt(step)
    BY <1>3, StepsNext DEF InitsAt, ToSerial, ToVNC, ToDevices, ToDisks
<1>5. d \in ContainerType /\ d.name = c.name /\ d.mounts = c.mounts
  <2>1. es \in SUBSET {"STANDALONE_VMI", "VIRSH_DEFAULT_CONNECT_URI"}
    BY <1>2, ContainerFields
  <2>2. d = [c EXCEPT !.env = es]
    OBVIOUS
  <2> HIDE DEF d, c, es
  <2>3. QED
    BY <1>2, <2>1, <2>2 DEF ContainerType
<1>6. ws = [k \in 1..Len(cs) |-> IF k = 1 THEN d ELSE cs[k]]
    BY <1>1, OneCompute
<1> HIDE DEF d, ws
<1>7. /\ ws \in Seq(ContainerType) /\ Len(ws) = Len(cs) /\ ws[1] = d
      /\ \A k \in 2..Len(cs) : ws[k] = cs[k]
    BY <1>1, <1>5, <1>6, ComputeChanged
<1> HIDE DEF cs, c
<1>8. /\ pod' \in PodType /\ pod'.volumes = pod.volumes /\ pod'.inits = pod.inits
      /\ pod'.containers = ws
    BY <1>2, <1>3, <1>7 DEF PodType
<1>9. <<step, step'>> = <<"env", "done">>
    BY <1>3
<1>10. ContainersFit'
    BY <1>3, <1>5, <1>7, <1>8, <1>9, ContainersStay DEF cs, c
<1>11. VolumesFit'
    BY <1>3, <1>4, <1>8, <1>9, VolumesStay
<1>12. ComputeMountsFit'
    BY <1>3, <1>5, <1>7, <1>8, <1>9, MountsStay DEF cs, c
<1>13. QED
    BY <1>1, <1>3, <1>4, <1>8, <1>10, <1>11, <1>12, InvNext

\* The devices, by the first part of their names.
GPUTags == {"nvidia", "dri-card", "dri-render"}
ControlTags == {"nvidiactl", "nvidia-uvm", "nvidia-uvm-tools", "nvidia-modeset"}
VFIOTags == {"vfio", "vfio-group"}
FirstTags == {"kvm", "tun", "vhost-net", "cgroup"}

LEMMA ControlsAre ==
    /\ Controls \in Seq(Name) /\ Len(Controls) = 4 /\ Distinct(Controls)
    /\ \A j \in 1..4 : Controls[j][1] \in ControlTags
<1>1. /\ <<"nvidiactl", 0>> \in Name /\ <<"nvidia-uvm", 0>> \in Name
      /\ <<"nvidia-uvm-tools", 0>> \in Name /\ <<"nvidia-modeset", 0>> \in Name
    BY NamesAre DEF Tags
<1>2. Controls \in Seq(Name) /\ Len(Controls) = 4
    BY <1>1 DEF Controls
<1>3. \A j \in 1..4 : Controls[j][1] \in ControlTags
    BY DEF Controls, ControlTags
<1>4. Distinct(Controls)
    BY <1>2 DEF Distinct, Controls
<1>5. QED
    BY <1>2, <1>3, <1>4

LEMMA GPUDevicesAre ==
    ASSUME vm \in VMs, NEW i \in 1..Len(vm.gpus)
    PROVE  /\ GPUDevices(i) \in Seq(Name) /\ Distinct(GPUDevices(i))
           /\ \A j \in 1..Len(GPUDevices(i)) :
                \/ GPUDevices(i)[j][1] \in GPUTags /\ GPUDevices(i)[j][2] = i - 1
                \/ i = 1 /\ GPUDevices(i)[j][1] \in ControlTags
<1> DEFINE w == GPUDevices(i)
           x == <<"nvidia", i - 1>>
           card == <<"dri-card", i - 1>>
           render == <<"dri-render", i - 1>>
<1>1. i \in Int /\ i - 1 \in Int /\ vm.gpus[i] \in Vendors
    BY VMFacts
<1>2. x \in Name /\ card \in Name /\ render \in Name
    BY <1>1, NamesAre DEF Tags
<1>3. /\ x[1] \in GPUTags /\ x[2] = i - 1 /\ card[1] \in GPUTags /\ card[2] = i - 1
      /\ render[1] \in GPUTags /\ render[2] = i - 1 /\ card # render
    BY DEF GPUTags
<1>4. CASE vm.gpus[i] = "nvidia" /\ i = 1
  <2>1. w = <<x>> \o Controls
    BY <1>4 DEF GPUDevices
  <2>2. \A j \in 1..4 : Controls[j] # x
    BY ControlsAre DEF ControlTags
  <2> HIDE DEF w, x
  <2>3. /\ w \in Seq(Name) /\ Len(w) = 1 + Len(Controls) /\ w[1] = x
        /\ \A k \in 1..Len(w) : k = 1 \/ \E j \in 1..Len(Controls) : k = j + 1 /\ w[k] = Controls[j]
    <3>1. Controls \in Seq(Name)
      BY ControlsAre
    <3>2. /\ w \in Seq(Name) /\ Len(w) = 1 + Len(Controls) /\ 1 \in 1..Len(w) /\ w[1] = x
          /\ \A k \in 1..Len(Controls) : k + 1 \in 1..Len(w) /\ w[k + 1] = Controls[k]
          /\ \A k \in 1..Len(w) : k = 1 \/ \E j \in 1..Len(Controls) : k = j + 1 /\ w[k] = Controls[j]
      <4>1. Leads(Name, x, Controls, w)
        BY <1>2, <2>1, <3>1 DEF Leads
      <4>2. QED
        BY <4>1, Prefixed
    <3>3. QED
      BY <3>2
  <2>4. Distinct(w)
    <3> SUFFICES ASSUME NEW j \in 1..Len(w), NEW k \in 1..Len(w), w[j] = w[k] PROVE j = k
      BY DEF Distinct
    <3>1. CASE j = 1
      BY <2>2, <2>3, <3>1, ControlsAre
    <3>2. CASE k = 1
      BY <2>2, <2>3, <3>2, ControlsAre
    <3>3. CASE j # 1 /\ k # 1
      <4>1. PICK a \in 1..4 : j = a + 1 /\ w[j] = Controls[a]
        BY <2>3, <3>3, ControlsAre
      <4>2. PICK b \in 1..4 : k = b + 1 /\ w[k] = Controls[b]
        BY <2>3, <3>3, ControlsAre
      <4>3. a = b
        BY <4>1, <4>2, ControlsAre DEF Distinct
      <4>4. QED
        BY <4>1, <4>2, <4>3
    <3>4. QED
      BY <3>1, <3>2, <3>3
  <2>5. \A j \in 1..Len(w) : (w[j][1] \in GPUTags /\ w[j][2] = i - 1) \/ w[j][1] \in ControlTags
    BY <1>3, <2>3, ControlsAre
  <2>6. QED
    BY <1>4, <2>3, <2>4, <2>5 DEF w
<1>5. CASE vm.gpus[i] = "nvidia" /\ i # 1
  <2>1. w = <<x>> \o <<>>
    BY <1>5 DEF GPUDevices
  <2>2. w = <<x>>
    <3> HIDE DEF w, x
    <3>1. \A y \in Name : <<y>> \o <<>> = <<y>>
      OBVIOUS
    <3>2. QED
      BY <1>2, <2>1, <3>1
  <2> HIDE DEF w, x
  <2>3. w \in Seq(Name) /\ Len(w) = 1 /\ w[1] = x
    BY <1>2, <2>2
  <2>4. Distinct(w)
    BY <2>3 DEF Distinct
  <2>5. QED
    BY <1>3, <2>3, <2>4 DEF w
<1>6. CASE vm.gpus[i] = "amd"
  <2>1. w = <<card, render>>
    BY <1>6 DEF GPUDevices
  <2> HIDE DEF w, card, render
  <2>3. w \in Seq(Name) /\ Len(w) = 2 /\ w[1] = card /\ w[2] = render
    BY <1>2, <2>1
  <2>4. Distinct(w)
    BY <1>3, <2>3 DEF Distinct
  <2>5. \A j \in 1..Len(w) : w[j][1] \in GPUTags /\ w[j][2] = i - 1
    BY <1>3, <2>3
  <2>6. QED
    BY <2>3, <2>4, <2>5 DEF w
<1>7. CASE vm.gpus[i] \notin {"nvidia", "amd"}
  <2>1. w = <<card>>
    BY <1>7 DEF GPUDevices
  <2> HIDE DEF w, card
  <2>3. w \in Seq(Name) /\ Len(w) = 1 /\ w[1] = card
    BY <1>2, <2>1
  <2>4. Distinct(w)
    BY <2>3 DEF Distinct
  <2>5. QED
    BY <1>3, <2>3, <2>4 DEF w
<1>8. QED
    BY <1>1, <1>4, <1>5, <1>6, <1>7

GPUs == Flat([i \in 1..Len(vm.gpus) |-> GPUDevices(i)])

LEMMA GPUsAre ==
    ASSUME vm \in VMs
    PROVE  /\ GPUs \in Seq(Name) /\ Distinct(GPUs)
           /\ \A k \in 1..Len(GPUs) : GPUs[k][1] \in GPUTags \cup ControlTags
<1> DEFINE gs == [i \in 1..Len(vm.gpus) |-> GPUDevices(i)]
<1>1. Len(vm.gpus) \in Nat
    BY VMFacts
<1>2. \A i \in 1..Len(vm.gpus) : gs[i] = GPUDevices(i) /\ gs[i] \in Seq(Name)
    BY GPUDevicesAre
<1>3. gs \in [1..Len(vm.gpus) -> Seq(Name)]
    BY GPUDevicesAre
<1> HIDE DEF gs
<1>4. gs \in Seq(Seq(Name)) /\ Len(gs) = Len(vm.gpus)
    BY <1>1, <1>3
<1>5. \A p \in Slots(gs) : \E i \in 1..Len(gs) : \E j \in 1..Len(gs[i]) : p = <<i, j>>
    BY <1>4, SlotsFinite
<1>6. ASSUME NEW p \in Slots(gs), NEW q \in Slots(gs), gs[p[1]][p[2]] = gs[q[1]][q[2]]
      PROVE  p = q
  <2>1. PICK i \in 1..Len(vm.gpus) : \E j \in 1..Len(GPUDevices(i)) : p = <<i, j>>
    BY <1>2, <1>4, <1>5
  <2>2. PICK j \in 1..Len(GPUDevices(i)) : p = <<i, j>>
    BY <2>1
  <2>3. PICK k \in 1..Len(vm.gpus) : \E l \in 1..Len(GPUDevices(k)) : q = <<k, l>>
    BY <1>2, <1>4, <1>5
  <2>4. PICK l \in 1..Len(GPUDevices(k)) : q = <<k, l>>
    BY <2>3
  <2>5. GPUDevices(i)[j] = GPUDevices(k)[l]
    BY <1>2, <1>6, <2>2, <2>4
  <2>6. \/ GPUDevices(i)[j][1] \in GPUTags /\ GPUDevices(i)[j][2] = i - 1
        \/ i = 1 /\ GPUDevices(i)[j][1] \in ControlTags
    BY GPUDevicesAre
  <2>7. \/ GPUDevices(k)[l][1] \in GPUTags /\ GPUDevices(k)[l][2] = k - 1
        \/ k = 1 /\ GPUDevices(k)[l][1] \in ControlTags
    BY GPUDevicesAre
  <2>8. GPUTags \cap ControlTags = {}
    BY DEF GPUTags, ControlTags
  <2>9. i = k
    <3>1. i \in Int /\ k \in Int
      BY <1>1
    <3>2. QED
      BY <2>5, <2>6, <2>7, <2>8, <3>1
  <2>10. j = l
    BY <2>5, <2>9, GPUDevicesAre DEF Distinct
  <2>11. QED
    BY <2>2, <2>4, <2>9, <2>10
<1> DEFINE f == Flat(gs)
<1>7. /\ f \in Seq(Name)
      /\ \A k \in 1..Len(f) : \E i \in 1..Len(gs) : \E j \in 1..Len(gs[i]) : f[k] = gs[i][j]
      /\ \A k, l \in 1..Len(f) : f[k] = f[l] => k = l
  <2>1. \A p, q \in Slots(gs) : gs[p[1]][p[2]] = gs[q[1]][q[2]] => p = q
    BY <1>6
  <2>2. /\ Flat(gs) \in Seq(Name)
        /\ \A k \in 1..Len(Flat(gs)) : \E i \in 1..Len(gs) : \E j \in 1..Len(gs[i]) : Flat(gs)[k] = gs[i][j]
        /\ (\A p, q \in Slots(gs) : gs[p[1]][p[2]] = gs[q[1]][q[2]] => p = q) =>
             \A k, l \in 1..Len(Flat(gs)) : Flat(gs)[k] = Flat(gs)[l] => k = l
    <3>1. gs \in Seq(Seq(Name))
      BY <1>4
    <3>2. Flat(gs) \in Seq(Name)
      BY <3>1, FlatKeeps
    <3>3. \A k \in 1..Len(Flat(gs)) : \E i \in 1..Len(gs) : \E j \in 1..Len(gs[i]) : Flat(gs)[k] = gs[i][j]
      BY <3>1, FlatKeeps
    <3>4. (\A p, q \in Slots(gs) : gs[p[1]][p[2]] = gs[q[1]][q[2]] => p = q) =>
             \A k, l \in 1..Len(Flat(gs)) : Flat(gs)[k] = Flat(gs)[l] => k = l
      BY <3>1, FlatKeeps
    <3>5. QED
      BY <3>2, <3>3, <3>4
  <2>3. QED
    BY <2>1, <2>2
<1> HIDE DEF f
<1>8. ASSUME NEW k \in 1..Len(f) PROVE f[k][1] \in GPUTags \cup ControlTags
  <2>1. PICK i \in 1..Len(gs) : \E j \in 1..Len(gs[i]) : f[k] = gs[i][j]
    BY <1>7
  <2>2. PICK j \in 1..Len(gs[i]) : f[k] = gs[i][j]
    BY <2>1
  <2>3. i \in 1..Len(vm.gpus) /\ gs[i] = GPUDevices(i)
    BY <1>2, <1>4
  <2>4. j \in 1..Len(GPUDevices(i)) /\ f[k] = GPUDevices(i)[j]
    BY <2>2, <2>3
  <2>5. QED
    BY <2>3, <2>4, GPUDevicesAre
<1>9. Distinct(f)
    BY <1>7 DEF Distinct
<1>10. QED
    BY <1>7, <1>8, <1>9 DEF f, gs, GPUs

VFIOs ==
    IF vm.vfio THEN <<<<"vfio", 0>>>> \o [g \in 1..Len(VFIOGroups) |-> <<"vfio-group", VFIOGroups[g]>>]
    ELSE <<>>

LEMMA VFIOsAre ==
    ASSUME vm \in VMs
    PROVE  /\ VFIOs \in Seq(Name) /\ Distinct(VFIOs)
           /\ \A k \in 1..Len(VFIOs) : VFIOs[k][1] \in VFIOTags
<1> DEFINE T == ToSet(vm.bound) \ {0}
           n == Cardinality(T)
           p == Sorted(T)
           x == <<"vfio", 0>>
           gs == [g \in 1..n |-> <<"vfio-group", p[g]>>]
           w == <<x>> \o gs
<1>1. T \in SUBSET Int /\ IsFiniteSet(T)
  <2>1. vm.bound \in Seq(0..MaxGroups)
    BY VMFacts
  <2>2. \A g \in ToSet(vm.bound) : \E k \in 1..Len(vm.bound) : vm.bound[k] = g
    BY <2>1, InToSet
  <2>3. \A k \in 1..Len(vm.bound) : vm.bound[k] \in 0..MaxGroups
    <3>1. ASSUME NEW S, NEW s \in Seq(S), NEW k \in 1..Len(s) PROVE s[k] \in S
      OBVIOUS
    <3>2. QED
      BY <2>1, <3>1
  <2>4. \A g \in T : g \in 0..MaxGroups
    BY <2>2, <2>3
  <2>5. IsFiniteSet(0..MaxGroups)
    BY MaxGroupsAssumption, FS_Interval
  <2>6. QED
    <3>1. T \in SUBSET (0..MaxGroups)
      BY <2>4
    <3>2. QED
      BY <2>5, <3>1, FS_Subset, MaxGroupsAssumption
<1> HIDE DEF T
<1>2. /\ n \in Nat /\ p \in [1..n -> T]
      /\ \A j, k \in 1..n : j < k => p[j] < p[k]
    BY <1>1, SortedEnumerates
<1> HIDE DEF p, n
<1>3. \A j, k \in 1..n : p[j] = p[k] => j = k
  <2> SUFFICES ASSUME NEW j \in 1..n, NEW k \in 1..n, p[j] = p[k] PROVE j = k
    OBVIOUS
  <2>1. p[j] \in Int /\ p[k] \in Int
    BY <1>1, <1>2
  <2>2. ~(j < k) /\ ~(k < j)
    BY <1>2, <2>1
  <2>3. QED
    BY <1>2, <2>2
<1>4. VFIOGroups = p /\ Len(VFIOGroups) = n
    BY <1>2 DEF VFIOGroups, p, T
<1>5. \A g \in 1..n : gs[g] = <<"vfio-group", p[g]>> /\ <<"vfio-group", p[g]>> \in Name
  <2>1. \A g \in 1..n : p[g] \in Int
    BY <1>1, <1>2
  <2>2. QED
    BY <2>1, NamesAre DEF Tags
<1>6. gs \in Seq(Name) /\ Len(gs) = n
  <2>1. gs \in [1..n -> Name]
    BY <1>5
  <2> HIDE DEF gs
  <2>2. QED
    BY <1>2, <2>1
<1>7. x \in Name /\ x[1] = "vfio"
    BY NamesAre DEF Tags
<1>8. \A g \in 1..n : gs[g][1] = "vfio-group" /\ gs[g] # x
    BY <1>5
<1>9. \A j, k \in 1..n : gs[j] = gs[k] => j = k
  <2> SUFFICES ASSUME NEW j \in 1..n, NEW k \in 1..n, gs[j] = gs[k] PROVE j = k
    OBVIOUS
  <2>1. p[j] = p[k]
    BY <1>5
  <2>2. QED
    BY <1>3, <2>1
<1>10. w = <<x>> \o gs
    OBVIOUS
<1> HIDE DEF gs, x, w
<1>11. /\ w \in Seq(Name) /\ w[1] = x
       /\ \A k \in 1..Len(w) : k = 1 \/ \E j \in 1..Len(gs) : k = j + 1 /\ w[k] = gs[j]
  <2>1. x \in Name /\ gs \in Seq(Name)
    BY <1>6, <1>7
  <2>2. /\ w \in Seq(Name) /\ Len(w) = 1 + Len(gs) /\ 1 \in 1..Len(w) /\ w[1] = x
        /\ \A k \in 1..Len(gs) : k + 1 \in 1..Len(w) /\ w[k + 1] = gs[k]
        /\ \A k \in 1..Len(w) : k = 1 \/ \E j \in 1..Len(gs) : k = j + 1 /\ w[k] = gs[j]
    <3>1. Leads(Name, x, gs, w)
      BY <2>1, <1>10 DEF Leads
    <3>2. QED
      BY <3>1, Prefixed
  <2>3. QED
    BY <2>2
<1>12. \A k \in 1..Len(w) : k = 1 \/ \E j \in 1..n : k = j + 1 /\ w[k] = gs[j]
    BY <1>6, <1>11
<1>13. \A k \in 1..Len(w) : w[k][1] \in VFIOTags
    BY <1>7, <1>8, <1>11, <1>12 DEF VFIOTags
<1>14. Distinct(w)
  <2> SUFFICES ASSUME NEW j \in 1..Len(w), NEW k \in 1..Len(w), w[j] = w[k] PROVE j = k
    BY DEF Distinct
  <2>1. CASE j = 1
    BY <2>1, <1>8, <1>11, <1>12
  <2>2. CASE k = 1
    BY <2>2, <1>8, <1>11, <1>12
  <2>3. CASE j # 1 /\ k # 1
    <3>1. PICK a \in 1..n : j = a + 1 /\ w[j] = gs[a]
      BY <2>3, <1>12
    <3>2. PICK b \in 1..n : k = b + 1 /\ w[k] = gs[b]
      BY <2>3, <1>12
    <3>3. a = b
      BY <3>1, <3>2, <1>9
    <3>4. QED
      BY <3>1, <3>2, <3>3
  <2>4. QED
    BY <2>1, <2>2, <2>3
<1>15. VFIOs = IF vm.vfio THEN w ELSE <<>>
    BY <1>4 DEF VFIOs, w, gs, x
<1>16. <<>> \in Seq(Name) /\ Distinct(<<>>)
    BY DEF Distinct
<1>17. CASE vm.vfio
    BY <1>11, <1>13, <1>14, <1>15, <1>17
<1>18. CASE ~vm.vfio
    BY <1>15, <1>16, <1>18
<1>19. QED
    BY <1>17, <1>18

LEMMA DevicesAre ==
    ASSUME vm \in VMs
    PROVE  /\ Devices \in Seq(Name) /\ Distinct(Devices)
           /\ \A k \in 1..Len(Devices) : Devices[k][1] \in DeviceTags
<1> DEFINE first == <<<<"kvm", 0>>, <<"tun", 0>>, <<"vhost-net", 0>>, Cgroup>>
           u == first \o GPUs
           w == u \o VFIOs
<1>1. Devices = w
    BY DEF Devices, GPUs, VFIOs
<1>2. first \in Seq(Name) /\ Distinct(first) /\ \A k \in 1..Len(first) : first[k][1] \in FirstTags
  <2>1. /\ <<"kvm", 0>> \in Name /\ <<"tun", 0>> \in Name /\ <<"vhost-net", 0>> \in Name
        /\ Cgroup \in Name
    BY NamesAre DEF Tags
  <2>2. first \in Seq(Name) /\ Len(first) = 4
    BY <2>1
  <2>3. \A k \in 1..4 : first[k][1] \in FirstTags
    BY DEF FirstTags, Cgroup
  <2>4. \A j, k \in 1..4 : first[j] = first[k] => j = k
    BY DEF Cgroup
  <2>5. QED
    BY <2>2, <2>3, <2>4 DEF Distinct
<1>3. /\ GPUs \in Seq(Name) /\ Distinct(GPUs)
      /\ \A k \in 1..Len(GPUs) : GPUs[k][1] \in GPUTags \cup ControlTags
    BY GPUsAre
<1>4. /\ VFIOs \in Seq(Name) /\ Distinct(VFIOs)
      /\ \A k \in 1..Len(VFIOs) : VFIOs[k][1] \in VFIOTags
    BY VFIOsAre
<1>5. /\ FirstTags \cap (GPUTags \cup ControlTags) = {}
      /\ (FirstTags \cup GPUTags \cup ControlTags) \cap VFIOTags = {}
      /\ DeviceTags = FirstTags \cup GPUTags \cup ControlTags \cup VFIOTags
    BY DEF FirstTags, GPUTags, ControlTags, VFIOTags, DeviceTags
<1>6. u = first \o GPUs /\ w = u \o VFIOs
    OBVIOUS
<1> HIDE DEF first, u, w
<1>7. /\ u \in Seq(Name) /\ Distinct(u)
      /\ \A k \in 1..Len(u) : u[k][1] \in FirstTags \cup GPUTags \cup ControlTags
  <2>1. Distinct(u)
    <3>1. \A j \in 1..Len(first), k \in 1..Len(GPUs) : first[j] # GPUs[k]
      BY <1>2, <1>3, <1>5
    <3>2. QED
      BY <1>2, <1>3, <1>6, <3>1, DistinctConcat
  <2>2. /\ u \in Seq(Name)
        /\ \A k \in 1..Len(u) : \/ k \in 1..Len(first) /\ u[k] = first[k]
                                \/ \E j \in 1..Len(GPUs) : k = Len(first) + j /\ u[k] = GPUs[j]
    <3>1. first \in Seq(Name) /\ GPUs \in Seq(Name) /\ u = first \o GPUs
      BY <1>2, <1>3, <1>6
    <3>2. /\ u \in Seq(Name) /\ Len(u) = Len(first) + Len(GPUs)
          /\ \A k \in 1..Len(first) : k \in 1..Len(u) /\ u[k] = first[k]
          /\ \A k \in 1..Len(GPUs) : Len(first) + k \in 1..Len(u) /\ u[Len(first) + k] = GPUs[k]
          /\ \A k \in 1..Len(u) : \/ k \in 1..Len(first) /\ u[k] = first[k]
                                  \/ \E j \in 1..Len(GPUs) : k = Len(first) + j /\ u[k] = GPUs[j]
      <4>1. Joins(Name, first, GPUs, u)
        BY <3>1 DEF Joins
      <4>2. QED
        BY <4>1, Joined
    <3>3. QED
      BY <3>2
  <2>3. QED
    BY <1>2, <1>3, <2>1, <2>2
<1>8. w \in Seq(Name) /\ Distinct(w) /\ \A k \in 1..Len(w) : w[k][1] \in DeviceTags
  <2>1. Distinct(w)
    <3>1. \A j \in 1..Len(u), k \in 1..Len(VFIOs) : u[j] # VFIOs[k]
      BY <1>4, <1>5, <1>7
    <3>2. QED
      BY <1>4, <1>6, <1>7, <3>1, DistinctConcat
  <2>2. /\ w \in Seq(Name)
        /\ \A k \in 1..Len(w) : \/ k \in 1..Len(u) /\ w[k] = u[k]
                                \/ \E j \in 1..Len(VFIOs) : k = Len(u) + j /\ w[k] = VFIOs[j]
    <3>1. u \in Seq(Name) /\ VFIOs \in Seq(Name) /\ w = u \o VFIOs
      BY <1>4, <1>6, <1>7
    <3>2. /\ w \in Seq(Name) /\ Len(w) = Len(u) + Len(VFIOs)
          /\ \A k \in 1..Len(u) : k \in 1..Len(w) /\ w[k] = u[k]
          /\ \A k \in 1..Len(VFIOs) : Len(u) + k \in 1..Len(w) /\ w[Len(u) + k] = VFIOs[k]
          /\ \A k \in 1..Len(w) : \/ k \in 1..Len(u) /\ w[k] = u[k]
                                  \/ \E j \in 1..Len(VFIOs) : k = Len(u) + j /\ w[k] = VFIOs[j]
      <4>1. Joins(Name, u, VFIOs, w)
        BY <3>1 DEF Joins
      <4>2. QED
        BY <4>1, Joined
    <3>3. QED
      BY <3>2
  <2>3. QED
    BY <1>4, <1>5, <1>7, <2>1, <2>2
<1>9. QED
    BY <1>1, <1>8

DeviceVolumes ==
    [k \in 1..Len(Devices) |-> Volume(Devices[k], IF Devices[k] = Cgroup THEN "host" ELSE "device")]
DeviceMounts ==
    [k \in 1..Len(Devices) |->
       MountAs(Devices[k], Devices[k], IF Devices[k] = Cgroup THEN "ro" ELSE "rw", "")]

LEMMA DeviceVolumesAre ==
    ASSUME vm \in VMs
    PROVE  /\ DeviceVolumes \in Seq(VolumeType) /\ Len(DeviceVolumes) = Len(Devices)
           /\ \A k \in 1..Len(Devices) :
                DeviceVolumes[k].name = Devices[k] /\ DeviceVolumes[k].kind # "image"
           /\ Distinct(Names(DeviceVolumes))
<1> DEFINE n == Len(Devices)
           vs == DeviceVolumes
<1>1. n \in Nat /\ Distinct(Devices) /\ \A k \in 1..n : Devices[k] \in Name
    BY DevicesAre
<1>2. ASSUME NEW k \in 1..n
      PROVE  vs[k] \in VolumeType /\ vs[k].name = Devices[k] /\ vs[k].kind # "image"
  <2> DEFINE kind == IF Devices[k] = Cgroup THEN "host" ELSE "device"
             v == vs[k]
  <2>1. v = Volume(Devices[k], kind)
    BY DEF DeviceVolumes
  <2>2. Devices[k] \in Name /\ kind \in {"host", "device"}
    BY <1>1
  <2> HIDE DEF v, kind
  <2>3. v \in VolumeType /\ v.name = Devices[k] /\ v.kind = kind
    BY <2>1, <2>2, VolumeIs
  <2>4. QED
    BY <2>2, <2>3 DEF v
<1>3. vs \in [1..n -> VolumeType]
    BY <1>2 DEF DeviceVolumes
<1> HIDE DEF n, vs
<1>4. vs \in Seq(VolumeType) /\ Len(vs) = n
    BY <1>1, <1>3
<1>5. Distinct(Names(vs))
  <2>1. \A j, k \in 1..Len(vs) : vs[j].name = vs[k].name => j = k
    BY <1>1, <1>2, <1>4 DEF Distinct, n
  <2>2. QED
    BY <1>4, <2>1, NamedIn
<1>6. QED
    BY <1>2, <1>4, <1>5 DEF vs, n

LEMMA DeviceMountsAre ==
    ASSUME vm \in VMs
    PROVE  /\ DeviceMounts \in Seq(MountType) /\ Len(DeviceMounts) = Len(Devices)
           /\ \A k \in 1..Len(Devices) :
                /\ DeviceMounts[k].vol = Devices[k] /\ DeviceMounts[k].path = Devices[k]
                /\ DeviceMounts[k].sub = ""
           /\ Distinct(Paths(DeviceMounts))
<1> DEFINE n == Len(Devices)
           ms == DeviceMounts
<1>1. n \in Nat /\ Distinct(Devices) /\ \A k \in 1..n : Devices[k] \in Name
    BY DevicesAre
<1>2. ASSUME NEW k \in 1..n
      PROVE  ms[k] \in MountType /\ ms[k].vol = Devices[k] /\ ms[k].path = Devices[k] /\ ms[k].sub = ""
  <2> DEFINE mode == IF Devices[k] = Cgroup THEN "ro" ELSE "rw"
             m == ms[k]
  <2>1. m = MountAs(Devices[k], Devices[k], mode, "")
    BY DEF DeviceMounts
  <2>2. Devices[k] \in Name /\ mode \in {"rw", "ro"}
    BY <1>1
  <2> HIDE DEF m, mode
  <2>3. m \in MountType
    BY <2>1, <2>2, NoSub, MountTyped
  <2>4. m.vol = Devices[k] /\ m.path = Devices[k] /\ m.sub = ""
    BY <2>1 DEF MountAs
  <2>5. QED
    BY <2>3, <2>4 DEF m
<1>3. ms \in [1..n -> MountType]
    BY <1>2 DEF DeviceMounts
<1> HIDE DEF n, ms
<1>4. ms \in Seq(MountType) /\ Len(ms) = n
    BY <1>1, <1>3
<1>5. Distinct(Paths(ms))
  <2>1. \A j \in 1..n : ms[j].path = Devices[j]
    BY <1>2
  <2>2. \A j, k \in 1..Len(ms) : ms[j].path = ms[k].path => j = k
    BY <1>1, <1>4, <2>1 DEF Distinct, n
  <2>3. QED
    BY <1>4, <2>2, PathsAre
<1>6. QED
    BY <1>2, <1>4, <1>5 DEF ms, n

LEMMA MountHostDevicesInv ==
    ASSUME IInv, MountHostDevices
    PROVE  IInv'
<1> DEFINE cs == WithMounts(pod.containers, ComputeName, DeviceMounts)
           vs == pod.volumes \o DeviceVolumes
<1>1. /\ TypeOK /\ ContainersFit /\ VolumesFit /\ ComputeMountsFit
      /\ vm \in VMs /\ opts \in Options /\ pod.inits = InitsAt(step)
    BY DEF IInv, TypeOK
<1>2. pod \in PodType /\ pod.volumes \in Seq(VolumeType)
    BY <1>1, PodFields
<1>3. /\ step = "devices" /\ step' = "disks" /\ vm' = vm /\ opts' = opts
      /\ pod' = [pod EXCEPT !.volumes = vs, !.containers = cs]
    BY DEF MountHostDevices, At, DeviceMounts, DeviceVolumes
<1>4. step' \in Steps /\ InitsAt(step') = InitsAt(step)
    BY <1>3, StepsNext DEF InitsAt
<1>5. /\ DeviceVolumes \in Seq(VolumeType) /\ DeviceMounts \in Seq(MountType)
    BY <1>1, DeviceVolumesAre, DeviceMountsAre
<1>6. vs \in Seq(VolumeType)
    BY <1>2, <1>5, AppendedIs
<1>7. cs = WithMounts(pod.containers, ComputeName, DeviceMounts)
    OBVIOUS
<1>8. pod'.volumes = pod.volumes \o DeviceVolumes
    BY <1>2, <1>3 DEF PodType
<1> HIDE DEF cs, vs
<1>9. /\ cs \in Seq(ContainerType) /\ Len(cs) = Len(pod.containers)
      /\ cs[1].name = pod.containers[1].name
      /\ cs[1].mounts = pod.containers[1].mounts \o DeviceMounts
      /\ \A k \in 2..Len(pod.containers) : cs[k] = pod.containers[k]
    BY <1>1, <1>5, <1>7, WithMountsIs
<1>10. pod' \in PodType /\ pod'.inits = pod.inits /\ pod'.containers = cs
    BY <1>2, <1>3, <1>6, <1>9 DEF PodType
<1>11. <<step, step'>> = <<"devices", "disks">>
    BY <1>3
<1>12. ContainersFit'
    BY <1>3, <1>9, <1>10, <1>11, ContainersStay
<1>13. \A k \in 1..Len(Devices) : Devices[k][1] \in DeviceTags
    BY <1>1, DevicesAre
<1>14. VolumesAdded(DeviceVolumes)
  <2>1. /\ VolumeTags(step') = VolumeTags(step) \cup DeviceTags
        /\ VolumeTags(step) = {"private", "volume"}
    BY <1>3, TagsNext
  <2>2. DeviceTags \cap {"private", "volume"} = {}
    BY DEF DeviceTags
  <2>3. step' \in ToDisks /\ step' \in ToPasst /\ step' \in ToState
    BY <1>3, StepsNext
  <2>4. \A k \in 1..Len(DeviceVolumes) :
          /\ DeviceVolumes[k].name[1] \in VolumeTags(step') \ VolumeTags(step)
          /\ DeviceVolumes[k].kind # "image"
    BY <1>1, <1>13, <2>1, <2>2, DeviceVolumesAre
  <2>5. Distinct(Names(DeviceVolumes))
    BY <1>1, DeviceVolumesAre
  <2>6. QED
    BY <1>5, <1>8, <2>1, <2>3, <2>4, <2>5 DEF VolumesAdded
<1>15. /\ VolumesFit'
       /\ ToSet(Names(pod.volumes)) \subseteq ToSet(Names(pod'.volumes))
       /\ \A k \in 1..Len(DeviceVolumes) : DeviceVolumes[k].name \in ToSet(Names(pod'.volumes))
    BY <1>1, <1>3, <1>14, VolumesGrow
<1>16. MountsAdded(DeviceMounts)
  <2>1. /\ PathTags(step) = {"private", "vmi-disks"}
        /\ PathTags(step') = {"private", "vmi-disks"} \cup DeviceTags
    BY <1>3, PathTagsNext
  <2>2. DeviceTags \cap {"private", "volume", "vmi-disks", "import-src"} = {}
    BY DEF DeviceTags
  <2>3. ASSUME NEW k \in 1..Len(DeviceMounts)
        PROVE  /\ DeviceMounts[k].path[1] \in PathTags(step') \ PathTags(step)
               /\ DeviceMounts[k].vol \in ToSet(Names(pod'.volumes))
               /\ ~ImageName(DeviceMounts[k].vol)
               /\ DeviceMounts[k].sub = ""
    <3>1. k \in 1..Len(Devices)
      BY <1>1, DeviceMountsAre
    <3>2. Devices[k][1] \in DeviceTags
      BY <1>13, <3>1
    <3>3. DeviceMounts[k].path = Devices[k]
      BY <1>1, <3>1, DeviceMountsAre
    <3>4. DeviceMounts[k].vol = Devices[k]
      BY <1>1, <3>1, DeviceMountsAre
    <3>5. DeviceMounts[k].sub = ""
      BY <1>1, <3>1, DeviceMountsAre
    <3>6. ~ImageName(Devices[k])
      BY <2>2, <3>2 DEF ImageName
    <3>7. Devices[k] \in ToSet(Names(pod'.volumes))
      BY <1>1, <1>15, <3>1, DeviceVolumesAre
    <3>8. QED
      BY <2>1, <2>2, <3>2, <3>3, <3>4, <3>5, <3>6, <3>7
  <2>4. Distinct(Paths(DeviceMounts))
    BY <1>1, DeviceMountsAre
  <2>5. step' \in ToPasst
    BY <1>3, StepsNext
  <2>6. QED
    BY <1>5, <1>9, <1>10, <2>1, <2>3, <2>4, <2>5 DEF MountsAdded
<1>17. ComputeMountsFit'
    BY <1>1, <1>3, <1>15, <1>16, MountsGrow
<1>18. QED
    BY <1>1, <1>3, <1>4, <1>10, <1>12, <1>15, <1>17, InvNext

SourceVolumes ==
    [k \in 1..Len(ProvisionedAs({"registry"})) |->
       Volume(Source(ProvisionedAs({"registry"})[k]), "image")]

LEMMA SourceVolumesAre ==
    ASSUME vm \in VMs
    PROVE  /\ SourceVolumes \in Seq(VolumeType) /\ Distinct(Names(SourceVolumes))
           /\ \A k \in 1..Len(SourceVolumes) : SourceVolumes[k].name[1] = "import-src"
           /\ \A i \in ToSet(ProvisionedAs({"registry"})) :
                \E k \in 1..Len(SourceVolumes) : SourceVolumes[k].name = Source(i)
<1> DEFINE is == ProvisionedAs({"registry"})
           n == Len(is)
           vs == SourceVolumes
<1>1. /\ is \in Seq(1..Len(vm.volumes)) /\ Distinct(is)
    BY ProvisionedFacts
<1>2. /\ n \in Nat /\ \A k \in 1..n : is[k] \in Int
  <2>1. \A k \in 1..n : is[k] \in 1..Len(vm.volumes)
    BY <1>1
  <2>2. n \in Nat
    BY <1>1
  <2> HIDE DEF is, n
  <2>3. \A k \in 1..n : is[k] \in Int
    BY <2>1
  <2>4. QED
    BY <2>2, <2>3
<1>3. \A i \in ToSet(is) : \E k \in 1..n : is[k] = i
  <2> HIDE DEF is
  <2>1. QED
    BY <1>1, InToSet
<1>4. vs = [k \in 1..n |-> Volume(Source(is[k]), "image")]
    BY DEF SourceVolumes
<1> HIDE DEF is, n, vs
<1>5. ASSUME NEW k \in 1..n
      PROVE  vs[k] \in VolumeType /\ vs[k].name = Source(is[k])
  <2> DEFINE v == vs[k]
  <2>1. v = Volume(Source(is[k]), "image")
    BY <1>4
  <2>2. Source(is[k]) \in Name
    BY <1>2, NamesAre
  <2> HIDE DEF v
  <2>3. v \in VolumeType /\ v.name = Source(is[k])
    BY <2>1, <2>2, VolumeIs
  <2>4. QED
    BY <2>3 DEF v
<1>6. vs \in Seq(VolumeType) /\ Len(vs) = n
  <2>1. vs \in [1..n -> VolumeType]
    BY <1>4, <1>5
  <2>2. QED
    BY <1>2, <2>1
<1>7. \A i : Source(i) = <<"import-src", i>>
    BY DEF Source
<1>8. Distinct(Names(vs))
  <2>1. ASSUME NEW j \in 1..Len(vs), NEW k \in 1..Len(vs), vs[j].name = vs[k].name PROVE j = k
    <3>1. Source(is[j]) = Source(is[k])
      BY <1>5, <1>6, <2>1
    <3>2. is[j] = is[k]
      BY <1>7, <3>1
    <3>3. QED
      BY <1>1, <1>6, <3>2 DEF Distinct, n
  <2>2. QED
    BY <1>6, <2>1, NamedIn
<1>9. \A k \in 1..Len(vs) : vs[k].name[1] = "import-src"
    BY <1>5, <1>6, <1>7
<1>10. \A i \in ToSet(is) : \E k \in 1..Len(vs) : vs[k].name = Source(i)
    BY <1>3, <1>5, <1>6
<1>11. QED
    BY <1>6, <1>8, <1>9, <1>10 DEF vs, is

LEMMA DataVolumeInitsInv ==
    ASSUME IInv, DataVolumeInits
    PROVE  IInv'
<1> DEFINE vs == pod.volumes \o SourceVolumes
           is == DiskInits \o pod.inits
<1>1. /\ TypeOK /\ ContainersFit /\ VolumesFit
      /\ vm \in VMs /\ opts \in Options /\ pod.inits = InitsAt(step)
    BY DEF IInv, TypeOK
<1>2. /\ pod \in PodType /\ pod.volumes \in Seq(VolumeType) /\ pod.inits \in Seq(ContainerType)
      /\ pod.containers \in Seq(ContainerType)
    BY <1>1, PodFields
<1>3. /\ step = "disks" /\ step' = "cleanup" /\ vm' = vm /\ opts' = opts
      /\ pod' = [pod EXCEPT !.volumes = vs, !.inits = is]
    BY DEF DataVolumeInits, At, SourceVolumes, DiskInits
<1>4. SourceVolumes \in Seq(VolumeType) /\ DiskInits \in Seq(ContainerType)
    BY <1>1, SourceVolumesAre, DiskInitsAre
<1>5. vs \in Seq(VolumeType) /\ is \in Seq(ContainerType)
    BY <1>2, <1>4, AppendedIs
<1>6. step' \in Steps /\ is = InitsAt(step')
  <2>1. InitsAt(step) = Log \o Plain
    BY <1>3, StepsNext DEF InitsAt
  <2>2. InitsAt(step') = DiskInits \o (Log \o Plain)
    BY <1>3, StepsNext DEF InitsAt
  <2>3. QED
    BY <1>1, <1>3, <2>1, <2>2, StepsNext
<1> HIDE DEF is, vs
<1>7. /\ pod' \in PodType /\ pod'.inits = is /\ pod'.volumes = vs
      /\ pod'.containers = pod.containers
    BY <1>2, <1>3, <1>5 DEF PodType
<1>8. <<step, step'>> = <<"disks", "cleanup">>
    BY <1>3
<1>9. ContainersFit'
    BY <1>2, <1>3, <1>7, <1>8, ContainersStay
<1>10. VolumesAdded(SourceVolumes)
  <2>1. /\ VolumeTags(step') = VolumeTags(step) \cup {"import-src"}
        /\ VolumeTags(step) = {"private", "volume"} \cup DeviceTags
    BY <1>3, TagsNext
  <2>2. "import-src" \notin {"private", "volume"} \cup DeviceTags
    BY DEF DeviceTags
  <2>3. step' \in ToPasst /\ step' \in ToState
    BY <1>3, StepsNext
  <2>4. \A k \in 1..Len(SourceVolumes) :
          /\ SourceVolumes[k].name[1] \in VolumeTags(step') \ VolumeTags(step)
          /\ ImageName(SourceVolumes[k].name)
    BY <1>1, <2>1, <2>2, SourceVolumesAre DEF ImageName
  <2>5. /\ Distinct(Names(SourceVolumes))
        /\ \A i \in ToSet(ProvisionedAs({"registry"})) :
             \E k \in 1..Len(SourceVolumes) : SourceVolumes[k].name = Source(i)
    BY <1>1, SourceVolumesAre
  <2>6. pod'.volumes = pod.volumes \o SourceVolumes
    BY <1>7 DEF vs
  <2>7. QED
    BY <1>4, <2>1, <2>3, <2>4, <2>5, <2>6 DEF VolumesAdded
<1>11. VolumesFit' /\ ToSet(Names(pod.volumes)) \subseteq ToSet(Names(pod'.volumes))
    BY <1>1, <1>3, <1>10, VolumesGrow
<1>12. ComputeMountsFit'
    BY <1>3, <1>7, <1>8, <1>11, MountsStay
<1>13. pod'.inits = InitsAt(step')
    BY <1>6, <1>7
<1>14. QED
    BY <1>1, <1>3, <1>6, <1>7, <1>9, <1>11, <1>12, <1>13, InvNext

LEMMA InitsSelected ==
    ASSUME vm \in VMs, pod.inits = DiskInits \o (Log \o Plain)
    PROVE  InitsThat("always") = Log /\ InitsThat("unset") = DiskInits \o Plain
<1> DEFINE is == pod.inits
           rest == Log \o Plain
           T(r) == {c \in ToSet(is) : c.restart = r}
<1>1. /\ DiskInits \in Seq(ContainerType) /\ Log \in Seq(ContainerType) /\ Plain \in Seq(ContainerType)
    BY DiskInitsAre, LogIs, PlainIs
<1>2. is = DiskInits \o rest /\ rest = Log \o Plain
    OBVIOUS
<1> HIDE DEF rest, is
<1>3. rest \in Seq(ContainerType) /\ \A k \in 1..Len(Log) : \E j \in 1..Len(rest) : rest[j] = Log[k]
  <2>1. /\ rest \in Seq(ContainerType) /\ Len(rest) = Len(Log) + Len(Plain)
        /\ \A k \in 1..Len(Log) : k \in 1..Len(rest) /\ rest[k] = Log[k]
    <3>1. Joins(ContainerType, Log, Plain, rest)
      BY <1>1, <1>2 DEF Joins
    <3>2. QED
      BY <3>1, Joined
  <2>2. QED
    BY <2>1
<1>4. \A k \in 1..Len(Plain) : \E j \in 1..Len(rest) : rest[j] = Plain[k]
  <2>1. \A k \in 1..Len(Plain) : Len(Log) + k \in 1..Len(rest) /\ rest[Len(Log) + k] = Plain[k]
    <3>1. Joins(ContainerType, Log, Plain, rest)
      BY <1>1, <1>2 DEF Joins
    <3>2. QED
      BY <3>1, Joined
  <2>2. QED
    BY <2>1
<1>5. /\ is \in Seq(ContainerType)
      /\ \A k \in 1..Len(DiskInits) : \E j \in 1..Len(is) : is[j] = DiskInits[k]
  <2>1. /\ is \in Seq(ContainerType) /\ Len(is) = Len(DiskInits) + Len(rest)
        /\ \A k \in 1..Len(DiskInits) : k \in 1..Len(is) /\ is[k] = DiskInits[k]
    <3>1. Joins(ContainerType, DiskInits, rest, is)
      BY <1>1, <1>2, <1>3 DEF Joins
    <3>2. QED
      BY <3>1, Joined
  <2>2. QED
    BY <2>1
<1>6. \A k \in 1..Len(rest) : \E j \in 1..Len(is) : is[j] = rest[k]
  <2>1. \A k \in 1..Len(rest) : Len(DiskInits) + k \in 1..Len(is) /\ is[Len(DiskInits) + k] = rest[k]
    <3>1. Joins(ContainerType, DiskInits, rest, is)
      BY <1>1, <1>2, <1>3 DEF Joins
    <3>2. QED
      BY <3>1, Joined
  <2>2. QED
    BY <2>1
<1>7. /\ \A k \in 1..Len(DiskInits) : DiskInits[k] \in ToSet(is)
      /\ \A k \in 1..Len(Log) : Log[k] \in ToSet(is)
      /\ \A k \in 1..Len(Plain) : Plain[k] \in ToSet(is)
  <2>1. \A x : x \in ToSet(is) <=> \E k \in 1..Len(is) : is[k] = x
    BY <1>5, InToSet
  <2>2. QED
    BY <2>1, <1>3, <1>4, <1>5, <1>6
<1>8. /\ \A k \in 1..Len(DiskInits) : DiskInits[k].restart = "unset"
      /\ \A k \in 1..Len(Log) : Log[k].restart = "always"
      /\ \A k \in 1..Len(Plain) : Plain[k].restart = "unset"
  <2>1. \A k \in 1..Len(DiskInits) : DiskInits[k].restart = "unset"
    BY DiskInitsAre
  <2>2. \A k \in 1..Len(Log) : Log[k].restart = "always"
    <3> DEFINE log == [Sidecar("log") EXCEPT !.restart = "always"]
    <3>1. /\ log.restart = "always"
          /\ "log" \in vm.sidecars => Len(Log) = 1 /\ Log[1] = log
          /\ "log" \notin vm.sidecars => Log = <<>>
      BY LogIs
    <3> HIDE DEF log
    <3>2. QED
      BY <3>1
  <2>3. \A k \in 1..Len(Plain) : Plain[k].restart = "unset"
    <3>1. Sidecar("plain").restart = "unset"
      BY SidecarIs DEF Tags
    <3>2. QED
      BY <3>1, PlainIs
  <2>4. QED
    BY <2>1, <2>2, <2>3
<1>9. ASSUME NEW r
      PROVE  Select(is, T(r)) = Select(DiskInits, T(r)) \o (Select(Log, T(r)) \o Select(Plain, T(r)))
  <2> HIDE DEF T
  <2>1. Select(is, T(r)) = Select(DiskInits, T(r)) \o Select(rest, T(r))
    <3>1. rest \in Seq(ContainerType)
      BY <1>3
    <3>2. Select(DiskInits \o rest, T(r)) = Select(DiskInits, T(r)) \o Select(rest, T(r))
      BY <1>1, <3>1, SelectConcat
    <3>3. QED
      BY <1>2, <3>2
  <2>2. Select(rest, T(r)) = Select(Log, T(r)) \o Select(Plain, T(r))
    BY <1>1, <1>2, SelectConcat
  <2>3. QED
    BY <2>1, <2>2
<1>10. \A s \in Seq(ContainerType) : <<>> \o s = s /\ s \o <<>> = s
    OBVIOUS
<1>11. Select(is, T("always")) = Log
  <2>1. Select(DiskInits, T("always")) = <<>>
    <3>1. \A k \in 1..Len(DiskInits) : DiskInits[k] \notin T("always")
      BY <1>8
    <3> HIDE DEF T
    <3>2. QED
      BY <1>1, <3>1, SelectNone
  <2>2. Select(Log, T("always")) = Log
    <3>1. \A k \in 1..Len(Log) : Log[k] \in T("always")
      BY <1>7, <1>8
    <3> HIDE DEF T
    <3>2. QED
      BY <1>1, <3>1, SelectAll
  <2>3. Select(Plain, T("always")) = <<>>
    <3>1. \A k \in 1..Len(Plain) : Plain[k] \notin T("always")
      BY <1>8
    <3> HIDE DEF T
    <3>2. QED
      BY <1>1, <3>1, SelectNone
  <2> HIDE DEF T
  <2>4. QED
    BY <1>1, <1>9, <1>10, <2>1, <2>2, <2>3
<1>12. Select(is, T("unset")) = DiskInits \o Plain
  <2>1. Select(DiskInits, T("unset")) = DiskInits
    <3>1. \A k \in 1..Len(DiskInits) : DiskInits[k] \in T("unset")
      BY <1>7, <1>8
    <3> HIDE DEF T
    <3>2. QED
      BY <1>1, <3>1, SelectAll
  <2>2. Select(Log, T("unset")) = <<>>
    <3>1. \A k \in 1..Len(Log) : Log[k] \notin T("unset")
      BY <1>8
    <3> HIDE DEF T
    <3>2. QED
      BY <1>1, <3>1, SelectNone
  <2>3. Select(Plain, T("unset")) = Plain
    <3>1. \A k \in 1..Len(Plain) : Plain[k] \in T("unset")
      BY <1>7, <1>8
    <3> HIDE DEF T
    <3>2. QED
      BY <1>1, <3>1, SelectAll
  <2> HIDE DEF T
  <2>4. QED
    BY <1>1, <1>9, <1>10, <2>1, <2>2, <2>3
<1>13. QED
    BY <1>11, <1>12 DEF InitsThat, T, is

PromotedLog == [k \in 1..Len(Log) |-> Promoted(Log[k])]

LEMMA PromotedLogIs ==
    /\ PromotedLog \in Seq(ContainerType)
    /\ "log" \notin vm.sidecars => Len(PromotedLog) = 0
    /\ "log" \in vm.sidecars =>
         /\ Len(PromotedLog) = 1 /\ PromotedLog[1].name = <<"log", 0>>
         /\ PromotedLog[1].mounts = <<Mount(Private, Private)>>
<1> DEFINE log == [Sidecar("log") EXCEPT !.restart = "always"]
           d == Promoted(log)
<1>1. /\ log \in ContainerType /\ log.name = <<"log", 0>>
      /\ log.mounts = <<Mount(Private, Private)>>
    BY LogIs
<1>2. /\ "log" \in vm.sidecars => Log = <<log>> /\ Len(Log) = 1 /\ Log[1] = log
      /\ "log" \notin vm.sidecars => Log = <<>>
    BY LogIs
<1> HIDE DEF log
<1>3. d = [log EXCEPT !.restart = "unset"]
    BY DEF Promoted
<1> HIDE DEF d
<1>4. d \in ContainerType /\ d.name = <<"log", 0>> /\ d.mounts = <<Mount(Private, Private)>>
    BY <1>1, <1>3 DEF ContainerType
<1>5. CASE "log" \in vm.sidecars
  <2>1. PromotedLog = [k \in 1..1 |-> d]
    BY <1>2, <1>5 DEF PromotedLog, d
  <2>2. PromotedLog \in Seq(ContainerType) /\ Len(PromotedLog) = 1 /\ PromotedLog[1] = d
    BY <1>4, <2>1
  <2>3. QED
    BY <1>4, <1>5, <2>2
<1>6. CASE "log" \notin vm.sidecars
  <2>1. PromotedLog = <<>>
    BY <1>2, <1>6 DEF PromotedLog
  <2>2. QED
    BY <1>6, <2>1
<1>7. QED
    BY <1>5, <1>6

LEMMA CleanupInv ==
    ASSUME IInv, Cleanup
    PROVE  IInv'
<1> DEFINE cs == pod.containers \o PromotedLog
           is == DiskInits \o Plain
<1>1. /\ TypeOK /\ ContainersFit
      /\ vm \in VMs /\ opts \in Options /\ pod.inits = InitsAt(step)
    BY DEF IInv, TypeOK
<1>2. /\ pod \in PodType /\ pod.containers \in Seq(ContainerType)
      /\ Len(pod.containers) \in Nat /\ 1 \in 1..Len(pod.containers)
    BY <1>1, PodFields
<1>3. step = "cleanup" /\ step' = "dirs" /\ vm' = vm /\ opts' = opts
    BY DEF Cleanup, At
<1>4. pod.inits = DiskInits \o (Log \o Plain)
    BY <1>1, <1>3, StepsNext DEF InitsAt
<1>5. InitsThat("always") = Log /\ InitsThat("unset") = DiskInits \o Plain
    BY <1>1, <1>4, InitsSelected
<1>6. pod' = [pod EXCEPT !.restart = "on-failure", !.containers = cs, !.inits = is]
    BY <1>5 DEF Cleanup, PromotedLog
<1>7. step' \in Steps /\ is = InitsAt(step')
    BY <1>3, StepsNext DEF InitsAt
<1>8. /\ PromotedLog \in Seq(ContainerType) /\ DiskInits \in Seq(ContainerType)
      /\ Plain \in Seq(ContainerType)
    BY <1>1, PromotedLogIs, DiskInitsAre, PlainIs
<1>9. is \in Seq(ContainerType)
    BY <1>8, AppendedIs
<1>10. cs = pod.containers \o PromotedLog
    OBVIOUS
<1> HIDE DEF cs, is
<1>11. /\ cs \in Seq(ContainerType) /\ Len(cs) = Len(pod.containers) + Len(PromotedLog)
       /\ \A k \in 1..Len(pod.containers) : k \in 1..Len(cs) /\ cs[k] = pod.containers[k]
       /\ \A k \in 1..Len(PromotedLog) :
            Len(pod.containers) + k \in 1..Len(cs) /\ cs[Len(pod.containers) + k] = PromotedLog[k]
  <2> DEFINE us == pod.containers
             vs == PromotedLog
  <2>1. Joins(ContainerType, us, vs, cs)
    BY <1>2, <1>8, <1>10 DEF Joins
  <2> HIDE DEF us, vs
  <2>2. /\ cs \in Seq(ContainerType) /\ Len(cs) = Len(us) + Len(vs)
        /\ \A k \in 1..Len(us) : k \in 1..Len(cs) /\ cs[k] = us[k]
        /\ \A k \in 1..Len(vs) : Len(us) + k \in 1..Len(cs) /\ cs[Len(us) + k] = vs[k]
    BY <2>1, Joined
  <2>3. QED
    BY <2>2 DEF us, vs
<1>12. /\ pod' \in PodType /\ pod'.containers = cs /\ pod'.inits = is
       /\ pod'.volumes = pod.volumes
    BY <1>2, <1>6, <1>9, <1>11 DEF PodType
<1>13. pod'.containers[1] = pod.containers[1]
    BY <1>2, <1>11, <1>12
<1>14. <<step, step'>> = <<"cleanup", "dirs">>
    BY <1>3
<1>15. /\ SidecarsAt(step') = SidecarsAt(step) \cup (vm.sidecars \cap {"log"})
       /\ "log" \notin SidecarsAt(step)
  <2>1. opts \in SUBSET {"serial", "vnc", "passt"}
    BY <1>1 DEF Options
  <2>2. QED
    BY <1>1, <1>3, <2>1, SidecarsNext
<1>16. ContainersAdded(PromotedLog)
  <2>1. Distinct(Names(PromotedLog))
    <3>1. \A j, k \in 1..Len(PromotedLog) : PromotedLog[j].name = PromotedLog[k].name => j = k
      BY PromotedLogIs
    <3>2. QED
      BY <1>8, <3>1, NamedIn
  <2>2. \A k \in 2..Len(pod.containers) : pod'.containers[k] = pod.containers[k]
    BY <1>2, <1>11, <1>12
  <2>3. /\ Len(pod'.containers) = Len(pod.containers) + Len(PromotedLog)
        /\ \A k \in 1..Len(PromotedLog) : pod'.containers[Len(pod.containers) + k] = PromotedLog[k]
    BY <1>11, <1>12
  <2>4. SidecarsAt(step') \ SidecarsAt(step) = vm.sidecars \cap {"log"}
    BY <1>15
  <2>5. \A k \in 1..Len(PromotedLog) :
          /\ "log" \in vm.sidecars
          /\ PromotedLog[k].name = <<"log", 0>>
          /\ PromotedLog[k].mounts = <<Mount(Private, Private)>>
    BY PromotedLogIs
  <2>6. \A n \in vm.sidecars \cap {"log"} : \E k \in 1..Len(PromotedLog) : PromotedLog[k].name = <<n, 0>>
    BY PromotedLogIs
  <2>7. SidecarsAt(step) \subseteq SidecarsAt(step')
    BY <1>15
  <2>8. QED
    BY <1>8, <1>13, <2>1, <2>2, <2>3, <2>4, <2>5, <2>6, <2>7 DEF ContainersAdded
<1>17. ContainersFit'
    BY <1>1, <1>3, <1>11, <1>12, <1>16, ContainersGrow
<1>18. VolumesFit'
    BY <1>3, <1>7, <1>12, <1>14, VolumesStay
<1>19. ComputeMountsFit'
    BY <1>3, <1>12, <1>13, <1>14, MountsStay
<1>20. pod'.inits = InitsAt(step')
    BY <1>7, <1>12
<1>21. QED
    BY <1>1, <1>3, <1>7, <1>12, <1>17, <1>18, <1>19, <1>20, InvNext

LEMMA OnePrivate ==
    ASSUME IInv
    PROVE  Select(pod.volumes, {Volume(Private, "emptyDir")}) = <<Volume(Private, "emptyDir")>>
<1> DEFINE vs == pod.volumes
           V == Volume(Private, "emptyDir")
           s == Select(vs, {V})
<1>1. vs \in Seq(VolumeType)
    BY PodFields DEF IInv
<1>2. V \in VolumeType /\ V.name = Private
    BY NamesAre, VolumeIs
<1>3. Private[1] = "private"
    BY DEF Private
<1>4. /\ Distinct(Names(vs)) /\ Private \in ToSet(Names(vs))
      /\ \A k \in 1..Len(vs) : vs[k].name[1] = "private" => vs[k] = V
    BY DEF IInv, VolumesFit
<1> HIDE DEF vs, V
<1>5. /\ \A n : n \in ToSet(Names(vs)) <=> \E k \in 1..Len(vs) : vs[k].name = n
      /\ Distinct(Names(vs)) <=> \A j, k \in 1..Len(vs) : vs[j].name = vs[k].name => j = k
    BY <1>1, NamedIn
<1>6. PICK k \in 1..Len(vs) : vs[k] = V
    BY <1>3, <1>4, <1>5
<1>7. \A i, j \in 1..Len(vs) : vs[i] = vs[j] => i = j
    BY <1>4, <1>5
<1>8. /\ s \in Seq(VolumeType)
      /\ \A l \in 1..Len(s) : \E i \in 1..Len(vs) : s[l] = vs[i] /\ vs[i] \in {V}
      /\ \A i \in 1..Len(vs) : vs[i] \in {V} => \E l \in 1..Len(s) : s[l] = vs[i]
      /\ (\A i, j \in 1..Len(vs) : vs[i] = vs[j] => i = j) =>
           \A i, j \in 1..Len(s) : s[i] = s[j] => i = j
    BY <1>1, SelectKeeps
<1> HIDE DEF s
<1>9. \A l \in 1..Len(s) : s[l] = V
    BY <1>8
<1>10. \E l \in 1..Len(s) : s[l] = V
    BY <1>6, <1>8
<1>11. Len(s) \in Nat /\ \A i, j \in 1..Len(s) : i = j
    BY <1>7, <1>8, <1>9
<1>12. Len(s) = 1
  <2>1. Len(s) > 0
    BY <1>10, <1>11
  <2>2. ~(Len(s) > 1)
    <3> SUFFICES ASSUME Len(s) > 1 PROVE FALSE
      OBVIOUS
    <3>1. 1 \in 1..Len(s) /\ 2 \in 1..Len(s)
      BY <1>11
    <3>2. QED
      BY <1>11, <3>1
  <2>3. Len(s) \in Int
    BY <1>8
  <2>4. \A n \in Int : n > 0 /\ ~(n > 1) => n = 1
    OBVIOUS
  <2>5. QED
    BY <2>1, <2>2, <2>3, <2>4
<1>13. s[1] = V
    BY <1>9, <1>12
<1>14. s = <<V>>
    BY <1>2, <1>8, <1>12, <1>13
<1>15. QED
    BY <1>14 DEF s, vs, V

LEMMA DirInitInv ==
    ASSUME IInv, DirInit
    PROVE  IInv'
<1> DEFINE V == Volume(Private, "emptyDir")
           privates == Select(pod.volumes, {V})
           ms == [k \in 1..Len(privates) |-> Mount(privates[k].name, <<"emptydir", k>>)]
           fs == {<<v.name, "libvirt/qemu">> : v \in ToSet(privates)}
           init == [Container(DirInitName, ms) EXCEPT !.does = fs]
           is == <<Dir>> \o pod.inits
<1>1. /\ TypeOK /\ ContainersFit
      /\ vm \in VMs /\ opts \in Options /\ pod.inits = InitsAt(step)
    BY DEF IInv, TypeOK
<1>2. /\ pod \in PodType /\ pod.inits \in Seq(ContainerType) /\ pod.containers \in Seq(ContainerType)
      /\ Len(pod.containers) \in Nat /\ 1 \in 1..Len(pod.containers)
    BY <1>1, PodFields
<1>3. step = "dirs" /\ step' = "passt" /\ vm' = vm /\ opts' = opts
    BY DEF DirInit, At
<1>4. pod' = IF privates = <<>> THEN pod ELSE [pod EXCEPT !.inits = <<init>> \o @]
    BY DEF DirInit
<1>5. privates = <<V>>
    BY OnePrivate
<1>6. V.name = Private
    BY NamesAre, VolumeIs
<1>7. init = Dir
  <2> HIDE DEF V
  <2>1. Len(<<V>>) = 1 /\ <<V>>[1] = V /\ ToSet(<<V>>) = {V}
    BY DEF ToSet
  <2>2. ms = <<Mount(Private, <<"emptydir", 1>>)>>
    <3>1. ms = [k \in 1..1 |-> Mount(<<V>>[k].name, <<"emptydir", k>>)]
      BY <1>5, <2>1
    <3> HIDE DEF ms
    <3>2. \A k \in 1..1 : Mount(<<V>>[k].name, <<"emptydir", k>>) = Mount(Private, <<"emptydir", 1>>)
      BY <1>6, <2>1
    <3>3. ms = [k \in 1..1 |-> Mount(Private, <<"emptydir", 1>>)]
      BY <3>1, <3>2
    <3>4. QED
      BY <3>3
  <2>3. fs = {<<Private, "libvirt/qemu">>}
    BY <1>5, <1>6, <2>1
  <2> HIDE DEF ms, fs
  <2>4. QED
    BY <2>2, <2>3 DEF Dir
<1> HIDE DEF V, privates, init
<1>8. privates # <<>>
  <2>1. Len(<<V>>) = 1 /\ Len(<<>>) = 0
    OBVIOUS
  <2>2. <<V>> # <<>>
    BY <2>1
  <2>3. QED
    BY <1>5, <2>2
<1>9. pod' = [pod EXCEPT !.inits = is]
    BY <1>4, <1>7, <1>8
<1>10. is \in Seq(ContainerType)
  <2>1. Leads(ContainerType, Dir, pod.inits, is)
    BY <1>2, DirIs DEF Leads
  <2>2. QED
    BY <2>1, Prefixed
<1>11. step' \in Steps /\ is = InitsAt(step')
  <2>1. InitsAt(step) = DiskInits \o Plain
    BY <1>3, StepsNext DEF InitsAt
  <2>2. InitsAt(step') = <<Dir>> \o (DiskInits \o Plain)
    BY <1>3, StepsNext DEF InitsAt
  <2>3. QED
    BY <1>1, <1>3, <2>1, <2>2, StepsNext
<1> HIDE DEF is
<1>12. /\ pod' \in PodType /\ pod'.containers = pod.containers /\ pod'.inits = is
       /\ pod'.volumes = pod.volumes
    BY <1>2, <1>9, <1>10 DEF PodType
<1>13. <<step, step'>> = <<"dirs", "passt">>
    BY <1>3
<1>14. ContainersFit'
    BY <1>2, <1>3, <1>12, <1>13, ContainersStay
<1>15. VolumesFit'
    BY <1>3, <1>11, <1>12, <1>13, VolumesStay
<1>16. ComputeMountsFit'
    BY <1>3, <1>12, <1>13, MountsStay
<1>17. pod'.inits = InitsAt(step')
    BY <1>11, <1>12
<1>18. QED
    BY <1>1, <1>3, <1>11, <1>12, <1>14, <1>15, <1>16, <1>17, InvNext

LEMMA PasstPatcherInv ==
    ASSUME IInv, PasstPatcher
    PROVE  IInv'
<1> DEFINE m == MountAs(PasstBin, PasstBin, "ro", "")
           v == Volume(PasstBin, "emptyDir")
           cs == WithMounts(pod.containers, ComputeName, <<m>>)
           vs == Append(pod.volumes, v)
           is == Append(pod.inits, Patcher)
           added == [pod EXCEPT !.volumes = vs, !.inits = is, !.containers = cs]
<1>1. /\ TypeOK /\ ContainersFit /\ VolumesFit /\ ComputeMountsFit
      /\ vm \in VMs /\ opts \in Options /\ pod.inits = InitsAt(step)
    BY DEF IInv, TypeOK
<1>2. /\ pod \in PodType /\ pod.inits \in Seq(ContainerType) /\ pod.containers \in Seq(ContainerType)
      /\ pod.volumes \in Seq(VolumeType) /\ pod.containers[1].mounts \in Seq(MountType)
      /\ Len(pod.containers) \in Nat /\ 1 \in 1..Len(pod.containers)
    BY <1>1, PodFields
<1>3. step = "passt" /\ step' = "state" /\ vm' = vm /\ opts' = opts
    BY DEF PasstPatcher, At
<1>4. pod' = IF "passt" \notin opts THEN pod ELSE added
    BY DEF PasstPatcher, Patcher
<1>5. step' \in Steps /\ InitsAt(step) \in Seq(ContainerType)
    BY <1>1, <1>3, StepsNext, InitsTyped
<1>6. InitsAt(step') = InitsAt(step) \o Patchers
  <2>1. InitsAt(step) = <<Dir>> \o (DiskInits \o Plain)
    BY <1>3, StepsNext DEF InitsAt
  <2>2. InitsAt(step') = (<<Dir>> \o (DiskInits \o Plain)) \o Patchers
    BY <1>3, StepsNext DEF InitsAt
  <2>3. QED
    BY <2>1, <2>2
<1>7. <<step, step'>> = <<"passt", "state">>
    BY <1>3
<1>8. m \in MountType /\ m.vol = PasstBin /\ m.path = PasstBin /\ m.sub = ""
  <2>1. m \in MountType
    BY NamesAre, NoSub, MountTyped
  <2>2. QED
    BY <2>1 DEF MountAs
<1>9. v \in VolumeType /\ v.name = PasstBin /\ v.kind = "emptyDir"
    BY NamesAre, VolumeIs
<1>10. /\ VolumeTags(step') = VolumeTags(step) \cup {"passt-bin"} /\ "passt-bin" \notin VolumeTags(step)
       /\ PathTags(step') = PathTags(step) \cup {"passt-bin"} /\ "passt-bin" \notin PathTags(step)
  <2>1. VolumeTags(step') = VolumeTags(step) \cup {"passt-bin"} /\ "passt-bin" \notin VolumeTags(step)
    BY <1>3, TagsNext DEF DeviceTags
  <2>2. PathTags(step') = PathTags(step) \cup {"passt-bin"} /\ "passt-bin" \notin PathTags(step)
    BY <1>3, PathTagsNext DEF DeviceTags
  <2>3. QED
    BY <2>1, <2>2
<1>11. step \notin ToDisks /\ step' \notin ToDisks /\ step' \in ToState
    BY <1>3, StepsNext
<1>12. PasstBin = <<"passt-bin", 0>> /\ ~ImageName(PasstBin)
    BY DEF PasstBin, ImageName
<1>13. CASE "passt" \notin opts
  <2>1. pod' = pod
    BY <1>4, <1>13
  <2>2. Distinct(Names(<<>>)) /\ Distinct(Paths(<<>>))
    BY DEF Distinct, Names, Paths
  <2>3. \A S : \A s \in Seq(S) : s = s \o <<>>
    OBVIOUS
  <2>4. VolumesAdded(<<>>)
    <3>1. pod'.volumes = pod.volumes \o <<>>
      BY <1>2, <2>1, <2>3
    <3>2. QED
      BY <1>10, <1>11, <1>13, <2>2, <3>1 DEF VolumesAdded
  <2>5. VolumesFit' /\ ToSet(Names(pod.volumes)) \subseteq ToSet(Names(pod'.volumes))
    BY <1>1, <1>3, <2>4, VolumesGrow
  <2>6. MountsAdded(<<>>)
    <3>1. pod'.containers[1].mounts = pod.containers[1].mounts \o <<>>
      BY <1>2, <2>1, <2>3
    <3>2. QED
      BY <1>10, <1>13, <2>2, <3>1 DEF MountsAdded
  <2>7. ComputeMountsFit'
    BY <1>1, <1>3, <2>5, <2>6, MountsGrow
  <2>8. ContainersFit'
    BY <1>2, <1>3, <1>7, <2>1, ContainersStay
  <2>9. pod'.inits = InitsAt(step')
    <3>1. Patchers = <<>>
      BY <1>13, PatchersAre
    <3>2. QED
      BY <1>1, <1>5, <1>6, <2>1, <2>3, <3>1
  <2>10. QED
    BY <1>1, <1>2, <1>3, <1>5, <2>1, <2>5, <2>7, <2>8, <2>9, InvNext
<1>14. CASE "passt" \in opts
  <2> DEFINE one == <<v>>
             mount == <<m>>
  <2>1. one \in Seq(VolumeType) /\ Len(one) = 1 /\ one[1] = v
    BY <1>9, Singleton
  <2>2. mount \in Seq(MountType) /\ Len(mount) = 1 /\ mount[1] = m
    BY <1>8, Singleton
  <2>3. vs \in Seq(VolumeType) /\ vs = pod.volumes \o one
    BY <1>2, <1>9, Appended
  <2>4. is \in Seq(ContainerType) /\ is = pod.inits \o <<Patcher>>
    BY <1>2, PatchersAre, Appended
  <2>5. cs = WithMounts(pod.containers, ComputeName, mount)
    OBVIOUS
  <2>6. pod' = added
    BY <1>4, <1>14
  <2> HIDE DEF one, mount, m, v, vs, is, cs
  <2>7. /\ cs \in Seq(ContainerType) /\ Len(cs) = Len(pod.containers)
        /\ cs[1].name = pod.containers[1].name
        /\ cs[1].mounts = pod.containers[1].mounts \o mount
        /\ \A k \in 2..Len(pod.containers) : cs[k] = pod.containers[k]
    BY <1>1, <2>2, <2>5, WithMountsIs
  <2>8. /\ pod' \in PodType /\ pod'.containers = cs /\ pod'.inits = is /\ pod'.volumes = vs
    BY <1>2, <2>3, <2>4, <2>6, <2>7 DEF PodType
  <2>9. VolumesAdded(one)
    <3>1. Distinct(Names(one))
      <4>1. \A j, k \in 1..Len(one) : one[j].name = one[k].name => j = k
        BY <2>1
      <4>2. QED
        BY <2>1, <4>1, NamedIn
    <3>2. /\ \A k \in 1..Len(one) : /\ one[k].name[1] \in VolumeTags(step') \ VolumeTags(step)
                                    /\ one[k].kind # "image"
          /\ \E k \in 1..Len(one) : one[k].name = PasstBin
      BY <1>9, <1>10, <1>12, <2>1
    <3>3. pod'.volumes = pod.volumes \o one
      BY <2>3, <2>8
    <3>4. QED
      BY <1>10, <1>11, <2>1, <3>1, <3>2, <3>3 DEF VolumesAdded
  <2>10. /\ VolumesFit' /\ ToSet(Names(pod.volumes)) \subseteq ToSet(Names(pod'.volumes))
         /\ \A k \in 1..Len(one) : one[k].name \in ToSet(Names(pod'.volumes))
    BY <1>1, <1>3, <2>9, VolumesGrow
  <2>11. MountsAdded(mount)
    <3>1. Distinct(Paths(mount))
      <4>1. \A j, k \in 1..Len(mount) : mount[j].path = mount[k].path => j = k
        BY <2>2
      <4>2. QED
        BY <2>2, <4>1, PathsAre
    <3>2. PasstBin \in ToSet(Names(pod'.volumes))
      BY <1>9, <2>1, <2>10
    <3>3. \A k \in 1..Len(mount) : mount[k] = m
      BY <2>2
    <3>4. \E k \in 1..Len(mount) : mount[k] = m
      BY <2>2
    <3>5. m.path[1] \in PathTags(step') \ PathTags(step)
      <4>1. m.path = PasstBin
        BY <1>8
      <4>2. m.path[1] = "passt-bin"
        BY <1>12, <4>1
      <4>3. QED
        BY <1>10, <4>2
    <3>6. m.vol = PasstBin
      BY <1>8
    <3>7. m.sub = ""
      BY <1>8
    <3>8. /\ \A k \in 1..Len(mount) :
               /\ mount[k].path[1] \in PathTags(step') \ PathTags(step)
               /\ mount[k].vol \in ToSet(Names(pod'.volumes))
               /\ ~ImageName(mount[k].vol)
               /\ mount[k].sub = ""
          /\ \E k \in 1..Len(mount) : mount[k].vol = PasstBin
      BY <1>12, <3>2, <3>3, <3>4, <3>5, <3>6, <3>7
    <3>9. PathTags(step) \subseteq PathTags(step')
      BY <1>10
    <3>10. pod'.containers[1].mounts = pod.containers[1].mounts \o mount
      BY <2>7, <2>8
    <3>11. QED
      BY <2>2, <3>1, <3>8, <3>9, <3>10 DEF MountsAdded
  <2>12. ComputeMountsFit'
    BY <1>1, <1>3, <2>10, <2>11, MountsGrow
  <2>13. ContainersFit'
    BY <1>3, <1>7, <2>7, <2>8, ContainersStay
  <2>14. pod'.inits = InitsAt(step')
    <3>1. Patchers = <<Patcher>>
      BY <1>14, PatchersAre
    <3>2. QED
      BY <1>1, <1>6, <2>4, <2>8, <3>1
  <2>15. QED
    BY <1>1, <1>3, <1>5, <2>8, <2>10, <2>12, <2>13, <2>14, InvNext
<1>15. QED
    BY <1>13, <1>14

StateVolumes == <<Volume(VMState, "pvc"), Volume(Libvirt, "emptyDir"), Volume(Qemu, "emptyDir")>>
Nested == <<Mount(Libvirt, Libvirt), Mount(Qemu, Qemu)>>
Kept == [k \in 1..Len(SubPaths) |-> MountAs(VMState, <<SubPaths[k], 0>>, "rw", SubPaths[k])]

LEMMA StateVolumesAre ==
    /\ StateVolumes \in Seq(VolumeType) /\ Distinct(Names(StateVolumes))
    /\ \A k \in 1..Len(StateVolumes) :
         /\ StateVolumes[k].name[1] \in StateTags \cup {"vm-state"}
         /\ StateVolumes[k].kind # "image"
    /\ \E k \in 1..Len(StateVolumes) : StateVolumes[k].name = VMState
    /\ \E k \in 1..Len(StateVolumes) : StateVolumes[k].name = Libvirt
    /\ \E k \in 1..Len(StateVolumes) : StateVolumes[k].name = Qemu
<1> DEFINE a == Volume(VMState, "pvc")
           b == Volume(Libvirt, "emptyDir")
           c == Volume(Qemu, "emptyDir")
           vs == StateVolumes
<1>1. a \in VolumeType /\ a.name = VMState /\ a.kind = "pvc"
    BY NamesAre, VolumeIs
<1>2. b \in VolumeType /\ b.name = Libvirt /\ b.kind = "emptyDir"
    BY NamesAre, VolumeIs
<1>3. c \in VolumeType /\ c.name = Qemu /\ c.kind = "emptyDir"
    BY NamesAre, VolumeIs
<1>4. /\ VMState[1] = "vm-state" /\ Libvirt[1] = "private-libvirt" /\ Qemu[1] = "private-libvirt-qemu"
    BY DEF VMState, Libvirt, Qemu
<1>5. vs = <<a, b, c>>
    BY DEF StateVolumes
<1> HIDE DEF a, b, c, vs
<1>6. vs \in Seq(VolumeType) /\ Len(vs) = 3 /\ vs[1] = a /\ vs[2] = b /\ vs[3] = c
    BY <1>1, <1>2, <1>3, <1>5
<1>7. vs[1].name = VMState /\ vs[2].name = Libvirt /\ vs[3].name = Qemu
    BY <1>1, <1>2, <1>3, <1>6
<1>8. \A k \in 1..3 : vs[k].kind # "image"
    BY <1>1, <1>2, <1>3, <1>6
<1>9. VMState # Libvirt /\ VMState # Qemu /\ Libvirt # Qemu
    BY <1>4
<1>10. \A k \in 1..3 : k = 1 \/ k = 2 \/ k = 3
    OBVIOUS
<1>11. Distinct(Names(vs))
  <2>1. \A j, k \in 1..Len(vs) : vs[j].name = vs[k].name => j = k
    BY <1>6, <1>7, <1>9, <1>10
  <2>2. QED
    BY <1>6, <2>1, NamedIn
<1>12. \A k \in 1..Len(vs) : vs[k].name[1] \in StateTags \cup {"vm-state"}
    BY <1>4, <1>6, <1>7, <1>10 DEF StateTags
<1>13. QED
    BY <1>6, <1>7, <1>8, <1>11, <1>12 DEF vs

LEMMA NestedAre ==
    /\ Nested \in Seq(MountType) /\ Len(Nested) = 2 /\ Distinct(Paths(Nested))
    /\ \A k \in 1..Len(Nested) :
         /\ Nested[k].path[1] \in StateTags
         /\ Nested[k].vol \in {Libvirt, Qemu}
         /\ Nested[k].sub = ""
<1> DEFINE a == Mount(Libvirt, Libvirt)
           b == Mount(Qemu, Qemu)
           ms == Nested
<1>1. a \in MountType /\ b \in MountType
    BY NamesAre, PlainMount
<1>2. a.path = Libvirt /\ a.vol = Libvirt /\ a.sub = ""
    BY DEF Mount, MountAs
<1>3. b.path = Qemu /\ b.vol = Qemu /\ b.sub = ""
    BY DEF Mount, MountAs
<1>4. Libvirt[1] = "private-libvirt" /\ Qemu[1] = "private-libvirt-qemu"
    BY DEF Libvirt, Qemu
<1>5. ms = <<a, b>>
    BY DEF Nested
<1> HIDE DEF a, b, ms
<1>6. ms \in Seq(MountType) /\ Len(ms) = 2 /\ ms[1] = a /\ ms[2] = b
    BY <1>1, <1>5
<1>7. \A k \in 1..2 : k = 1 \/ k = 2
    OBVIOUS
<1>8. ms[1].path = Libvirt /\ ms[2].path = Qemu
    BY <1>2, <1>3, <1>6
<1>9. ms[1].vol = Libvirt /\ ms[2].vol = Qemu
    BY <1>2, <1>3, <1>6
<1>10. ms[1].sub = "" /\ ms[2].sub = ""
    BY <1>2, <1>3, <1>6
<1>11. Distinct(Paths(ms))
  <2>1. \A j, k \in 1..Len(ms) : ms[j].path = ms[k].path => j = k
    BY <1>4, <1>6, <1>7, <1>8
  <2>2. QED
    BY <1>6, <2>1, PathsAre
<1>12. ASSUME NEW k \in 1..Len(ms)
       PROVE  ms[k].path[1] \in StateTags /\ ms[k].vol \in {Libvirt, Qemu} /\ ms[k].sub = ""
  <2>1. CASE k = 1
    BY <2>1, <1>4, <1>8, <1>9, <1>10 DEF StateTags
  <2>2. CASE k = 2
    BY <2>2, <1>4, <1>8, <1>9, <1>10 DEF StateTags
  <2>3. QED
    BY <2>1, <2>2, <1>6, <1>7
<1>13. QED
    BY <1>6, <1>11, <1>12 DEF ms

LEMMA KeptAre ==
    /\ Kept \in Seq(MountType) /\ Len(Kept) = 3 /\ Distinct(Paths(Kept))
    /\ \A k \in 1..3 :
         /\ Kept[k].path[1] = SubPaths[k] /\ Kept[k].vol = VMState /\ Kept[k].sub = SubPaths[k]
<1> DEFINE ms == Kept
<1>1. /\ ToSet(SubPaths) = {"nvram", "swtpm", "swtpm-localca"} /\ Len(SubPaths) = 3
      /\ \A k \in 1..3 : SubPaths[k] \in {"nvram", "swtpm", "swtpm-localca"}
      /\ SubPaths[1] = "nvram" /\ SubPaths[2] = "swtpm" /\ SubPaths[3] = "swtpm-localca"
    BY SubPathsAre
<1>2. ms = [k \in 1..3 |-> MountAs(VMState, <<SubPaths[k], 0>>, "rw", SubPaths[k])]
    BY <1>1 DEF Kept
<1> HIDE DEF ms
<1>3. ASSUME NEW k \in 1..3
      PROVE  /\ ms[k] \in MountType /\ ms[k].path = <<SubPaths[k], 0>>
             /\ ms[k].vol = VMState /\ ms[k].sub = SubPaths[k]
  <2> DEFINE m == ms[k]
             s == SubPaths[k]
  <2>1. m = MountAs(VMState, <<s, 0>>, "rw", s)
    BY <1>2
  <2>2. <<s, 0>> \in Name /\ s \in Subs
    <3>1. s \in {"nvram", "swtpm", "swtpm-localca"}
      BY <1>1
    <3> HIDE DEF s
    <3>2. s \in Tags /\ s \in Subs
      BY <3>1 DEF Tags, Subs
    <3>3. QED
      BY <3>2, NamesAre
  <2> HIDE DEF m, s
  <2>3. m \in MountType
    BY <2>1, <2>2, NamesAre, MountTyped
  <2>4. m.path = <<s, 0>> /\ m.vol = VMState /\ m.sub = s
    BY <2>1 DEF MountAs
  <2>5. QED
    BY <2>3, <2>4 DEF m, s
<1>4. ms \in Seq(MountType) /\ Len(ms) = 3
  <2>1. ms \in [1..3 -> MountType]
    BY <1>2, <1>3
  <2>2. \A n \in Nat : \A s \in [1..n -> MountType] : s \in Seq(MountType) /\ Len(s) = n
    OBVIOUS
  <2>3. QED
    BY <2>1, <2>2
<1>5. Distinct(Paths(ms))
  <2>1. \A k \in 1..3 : ms[k].path = <<SubPaths[k], 0>>
    BY <1>3
  <2>2. \A j, k \in 1..3 : SubPaths[j] = SubPaths[k] => j = k
    BY <1>1
  <2>3. \A j, k \in 1..Len(ms) : ms[j].path = ms[k].path => j = k
    BY <1>4, <2>1, <2>2
  <2>4. QED
    BY <1>4, <2>3, PathsAre
<1>6. \A k \in 1..3 : ms[k].path[1] = SubPaths[k]
    BY <1>3
<1>7. \A k \in 1..3 : ms[k].vol = VMState /\ ms[k].sub = SubPaths[k]
    BY <1>3
<1>8. QED
    BY <1>4, <1>5, <1>6, <1>7 DEF ms

\* The first init container of that name is the one that step "dirs" put there.
LEMMA InitsExtended ==
    ASSUME vm \in VMs, NEW is, is = (<<Dir>> \o (DiskInits \o Plain)) \o Patchers, NEW js,
           js = [k \in 1..Len(is) |-> IF k \in Named(is, DirInitName) THEN Extended(is[k]) ELSE is[k]]
    PROVE  js = (<<DirExtended>> \o (DiskInits \o Plain)) \o Patchers
<1> DEFINE r == DiskInits \o Plain
           q == r \o Patchers
           ks == <<DirExtended>> \o q
           one == <<Dir>>
           two == <<DirExtended>>
           ls == <<Dir>> \o q
<1>1. /\ Dir \in ContainerType /\ DirExtended \in ContainerType /\ Dir.name = DirInitName
      /\ DiskInits \in Seq(ContainerType) /\ Plain \in Seq(ContainerType) /\ Patchers \in Seq(ContainerType)
    BY DirIs, DirExtendedIs, DiskInitsAre, PlainIs, PatchersAre
<1>2. /\ r \in Seq(ContainerType) /\ q \in Seq(ContainerType)
      /\ one \in Seq(ContainerType) /\ two \in Seq(ContainerType)
    BY <1>1, AppendedIs, Singleton
<1>3. is = (one \o r) \o Patchers
    OBVIOUS
<1>4. ks = <<DirExtended>> \o q /\ ls = <<Dir>> \o q /\ Extended(Dir) = DirExtended
    BY DEF Extended, DirExtended
<1> HIDE DEF one, two, r, q, ks, ls
<1>5. (one \o r) \o Patchers = one \o (r \o Patchers) /\ (two \o r) \o Patchers = two \o (r \o Patchers)
  <2>1. ASSUME NEW u \in Seq(ContainerType), NEW v \in Seq(ContainerType), NEW w \in Seq(ContainerType)
        PROVE  (u \o v) \o w = u \o (v \o w)
    BY ConcatAssoc
  <2>2. Patchers \in Seq(ContainerType)
    BY <1>1
  <2>3. QED
    BY <1>2, <2>1, <2>2
<1>6. is = ls
  <2>1. is = one \o q
    BY <1>3, <1>5 DEF q
  <2>2. QED
    BY <1>4, <2>1 DEF one
<1>7. /\ is \in Seq(ContainerType) /\ Len(is) = 1 + Len(q) /\ 1 \in 1..Len(is) /\ is[1] = Dir
      /\ \A k \in 1..Len(q) : k + 1 \in 1..Len(is) /\ is[k + 1] = q[k]
      /\ \A k \in 1..Len(is) : k = 1 \/ \E j \in 1..Len(q) : k = j + 1 /\ is[k] = q[j]
  <2>1. Dir \in ContainerType /\ q \in Seq(ContainerType)
    BY <1>1, <1>2
  <2> DEFINE x == Dir
  <2>2. x \in ContainerType /\ q \in Seq(ContainerType) /\ ls = <<x>> \o q
    BY <1>4, <2>1
  <2> HIDE DEF x
  <2>3. /\ ls \in Seq(ContainerType) /\ Len(ls) = 1 + Len(q) /\ 1 \in 1..Len(ls) /\ ls[1] = x
        /\ \A k \in 1..Len(q) : k + 1 \in 1..Len(ls) /\ ls[k + 1] = q[k]
        /\ \A k \in 1..Len(ls) : k = 1 \/ \E j \in 1..Len(q) : k = j + 1 /\ ls[k] = q[j]
    <3>1. Leads(ContainerType, x, q, ls)
      BY <2>2 DEF Leads
    <3>2. QED
      BY <3>1, Prefixed
  <2>4. QED
    BY <1>6, <2>3 DEF x
<1>8. /\ ks \in Seq(ContainerType) /\ Len(ks) = 1 + Len(q) /\ 1 \in 1..Len(ks) /\ ks[1] = DirExtended
      /\ \A k \in 1..Len(q) : k + 1 \in 1..Len(ks) /\ ks[k + 1] = q[k]
      /\ \A k \in 1..Len(ks) : k = 1 \/ \E j \in 1..Len(q) : k = j + 1 /\ ks[k] = q[j]
  <2>1. DirExtended \in ContainerType /\ q \in Seq(ContainerType)
    BY <1>1, <1>2
  <2>2. QED
    <3>1. Leads(ContainerType, DirExtended, q, ks)
      BY <1>4, <2>1 DEF Leads
    <3>2. QED
      BY <3>1, Prefixed
<1>9. Named(is, DirInitName) = {1}
    BY <1>1, <1>7 DEF Named
<1>10. js = [k \in 1..Len(ks) |-> IF k = 1 THEN DirExtended ELSE is[k]]
  <2>1. js = [k \in 1..Len(is) |-> IF k = 1 THEN Extended(is[k]) ELSE is[k]]
    BY <1>9
  <2>2. \A k \in 1..Len(is) : (IF k = 1 THEN Extended(is[k]) ELSE is[k])
                                = (IF k = 1 THEN DirExtended ELSE is[k])
    BY <1>4, <1>7
  <2>3. Len(is) = Len(ks)
    BY <1>7, <1>8
  <2>4. QED
    BY <2>1, <2>2, <2>3
<1>11. \A k \in 1..Len(ks) : ks[k] = IF k = 1 THEN DirExtended ELSE is[k]
    BY <1>7, <1>8
<1>12. js = ks
  <2>1. ks = [k \in 1..Len(ks) |-> ks[k]]
    BY <1>8
  <2>2. QED
    BY <1>10, <1>11, <2>1
<1>13. QED
    BY <1>4, <1>5, <1>12 DEF two, q, r

LEMMA PersistentStateInv ==
    ASSUME IInv, PersistentState
    PROVE  IInv'
<1> DEFINE ms == Nested \o Kept
           cs == WithMounts(pod.containers, ComputeName, ms)
           vs == pod.volumes \o StateVolumes
           is == pod.inits
           js == [k \in 1..Len(is) |-> IF k \in Named(is, DirInitName) THEN Extended(is[k]) ELSE is[k]]
<1>1. /\ TypeOK /\ ContainersFit /\ VolumesFit /\ ComputeMountsFit
      /\ vm \in VMs /\ opts \in Options /\ is = InitsAt(step)
    BY DEF IInv, TypeOK
<1>2. /\ pod \in PodType /\ pod.volumes \in Seq(VolumeType)
    BY <1>1, PodFields
<1>3. step = "state" /\ step' = "probe" /\ vm' = vm /\ opts' = opts
    BY DEF PersistentState, At
<1>4. pod' = [pod EXCEPT !.volumes = vs, !.containers = cs, !.inits = js]
    BY DEF PersistentState, StateVolumes, Nested, Kept, Extended
<1>5. step' \in Steps /\ <<step, step'>> = <<"state", "probe">>
    BY <1>3, StepsNext
<1>6. js = InitsAt(step')
  <2>1. InitsAt(step) = (<<Dir>> \o (DiskInits \o Plain)) \o Patchers
    BY <1>3, StepsNext DEF InitsAt
  <2>2. InitsAt(step') = (<<DirExtended>> \o (DiskInits \o Plain)) \o Patchers
    BY <1>3, StepsNext DEF InitsAt
  <2>4. js = [k \in 1..Len(is) |-> IF k \in Named(is, DirInitName) THEN Extended(is[k]) ELSE is[k]]
    OBVIOUS
  <2> HIDE DEF js, is
  <2>5. is = (<<Dir>> \o (DiskInits \o Plain)) \o Patchers
    BY <1>1, <2>1
  <2>6. js = (<<DirExtended>> \o (DiskInits \o Plain)) \o Patchers
    BY <1>1, <2>4, <2>5, InitsExtended
  <2>7. QED
    BY <2>2, <2>6
<1>7. js \in Seq(ContainerType)
    BY <1>1, <1>6, InitsTyped
<1>8. cs = WithMounts(pod.containers, ComputeName, ms) /\ ms = Nested \o Kept
        /\ vs = pod.volumes \o StateVolumes
    OBVIOUS
<1> HIDE DEF ms, cs, vs, is, js
<1>9. /\ ms \in Seq(MountType)
      /\ \A k \in 1..Len(ms) : \/ \E j \in 1..Len(Nested) : ms[k] = Nested[j]
                               \/ \E j \in 1..Len(Kept) : ms[k] = Kept[j]
  <2>1. Nested \in Seq(MountType) /\ Kept \in Seq(MountType) /\ ms = Nested \o Kept
    BY <1>8, NestedAre, KeptAre
  <2>2. /\ ms \in Seq(MountType) /\ Len(ms) = Len(Nested) + Len(Kept)
        /\ \A k \in 1..Len(Nested) : k \in 1..Len(ms) /\ ms[k] = Nested[k]
        /\ \A k \in 1..Len(Kept) : Len(Nested) + k \in 1..Len(ms) /\ ms[Len(Nested) + k] = Kept[k]
        /\ \A k \in 1..Len(ms) : \/ k \in 1..Len(Nested) /\ ms[k] = Nested[k]
                                 \/ \E j \in 1..Len(Kept) : k = Len(Nested) + j /\ ms[k] = Kept[j]
    <3>1. Joins(MountType, Nested, Kept, ms)
      BY <2>1 DEF Joins
    <3>2. QED
      BY <3>1, Joined
  <2>3. QED
    BY <2>2
<1>10. StateVolumes \in Seq(VolumeType) /\ vs \in Seq(VolumeType)
    BY <1>2, <1>8, StateVolumesAre, AppendedIs
<1>11. /\ cs \in Seq(ContainerType) /\ Len(cs) = Len(pod.containers)
       /\ cs[1].name = pod.containers[1].name
       /\ cs[1].mounts = pod.containers[1].mounts \o ms
       /\ \A k \in 2..Len(pod.containers) : cs[k] = pod.containers[k]
    BY <1>1, <1>8, <1>9, WithMountsIs
<1>12. /\ pod' \in PodType /\ pod'.containers = cs /\ pod'.inits = js /\ pod'.volumes = vs
    BY <1>2, <1>4, <1>7, <1>10, <1>11 DEF PodType
<1>13. ContainersFit'
    BY <1>3, <1>5, <1>11, <1>12, ContainersStay
<1>14. /\ VolumeTags(step') = VolumeTags(step) \cup StateTags \cup {"vm-state"}
       /\ VolumeTags(step) \cap (StateTags \cup {"vm-state"}) = {}
       /\ PathTags(step') = PathTags(step) \cup StateTags \cup ToSet(SubPaths)
       /\ PathTags(step) \cap (StateTags \cup ToSet(SubPaths)) = {}
  <2>1. VolumeTags(step') = VolumeTags(step) \cup StateTags \cup {"vm-state"}
    BY <1>3, TagsNext
  <2>2. VolumeTags(step) = {"private", "volume"} \cup DeviceTags \cup {"import-src", "passt-bin"}
    BY <1>3, TagsNext
  <2>3. VolumeTags(step) \cap (StateTags \cup {"vm-state"}) = {}
    BY <2>2 DEF DeviceTags, StateTags
  <2>4. PathTags(step') = PathTags(step) \cup StateTags \cup ToSet(SubPaths)
    BY <1>3, PathTagsNext
  <2>5. PathTags(step) = {"private", "vmi-disks"} \cup DeviceTags \cup {"passt-bin"}
    BY <1>3, PathTagsNext
  <2>6. PathTags(step) \cap (StateTags \cup ToSet(SubPaths)) = {}
    BY <2>5, SubPathsAre DEF DeviceTags, StateTags
  <2>7. QED
    BY <2>1, <2>3, <2>4, <2>6
<1>15. VolumesAdded(StateVolumes)
  <2>1. step \notin ToDisks /\ step \notin ToPasst
    BY <1>3, StepsNext
  <2>2. \A k \in 1..Len(StateVolumes) :
          /\ StateVolumes[k].name[1] \in VolumeTags(step') \ VolumeTags(step)
          /\ StateVolumes[k].kind # "image"
    BY <1>14, StateVolumesAre
  <2>3. Distinct(Names(StateVolumes)) /\ \E k \in 1..Len(StateVolumes) : StateVolumes[k].name = VMState
    BY StateVolumesAre
  <2>4. VolumeTags(step) \subseteq VolumeTags(step')
    BY <1>14
  <2>5. pod'.volumes = pod.volumes \o StateVolumes
    BY <1>8, <1>12
  <2>6. QED
    BY <1>10, <2>1, <2>2, <2>3, <2>4, <2>5 DEF VolumesAdded
<1>16. /\ VolumesFit' /\ ToSet(Names(pod.volumes)) \subseteq ToSet(Names(pod'.volumes))
       /\ \A k \in 1..Len(StateVolumes) : StateVolumes[k].name \in ToSet(Names(pod'.volumes))
    BY <1>1, <1>3, <1>15, VolumesGrow
<1>17. {VMState, Libvirt, Qemu} \subseteq ToSet(Names(pod'.volumes))
    BY <1>16, StateVolumesAre
<1>18. ~ImageName(VMState) /\ ~ImageName(Libvirt) /\ ~ImageName(Qemu)
    BY DEF ImageName, VMState, Libvirt, Qemu
<1>19. MountsAdded(ms)
  <2>1. Distinct(Paths(ms))
    <3>1. ASSUME NEW j \in 1..Len(Nested), NEW k \in 1..Len(Kept) PROVE Nested[j].path # Kept[k].path
      <4>1. Nested[j].path[1] \in StateTags
        BY NestedAre
      <4>2. Kept[k].path[1] \in ToSet(SubPaths)
        BY KeptAre, SubPathsAre
      <4>3. StateTags \cap ToSet(SubPaths) = {}
        BY SubPathsAre DEF StateTags
      <4>4. QED
        BY <4>1, <4>2, <4>3
    <3>2. /\ Nested \in Seq(MountType) /\ Kept \in Seq(MountType)
          /\ Distinct(Paths(Nested)) /\ Distinct(Paths(Kept))
      BY NestedAre, KeptAre
    <3>3. Distinct(Paths(Nested \o Kept))
      BY <3>1, <3>2, DistinctPaths
    <3>4. QED
      BY <1>8, <3>3
  <2>2. ASSUME NEW k \in 1..Len(ms)
        PROVE  /\ ms[k].path[1] \in PathTags(step') \ PathTags(step)
               /\ ms[k].vol \in ToSet(Names(pod'.volumes))
               /\ ~ImageName(ms[k].vol)
               /\ ms[k].sub # "" => (ms[k].vol = VMState /\ ms[k].sub \in ToSet(SubPaths))
    <3>1. ASSUME NEW j \in 1..Len(Nested), ms[k] = Nested[j] PROVE <2>2!2
      <4>1. ms[k].path[1] \in StateTags
        BY <3>1, NestedAre
      <4>2. ms[k].vol \in {Libvirt, Qemu}
        BY <3>1, NestedAre
      <4>3. ms[k].sub = ""
        BY <3>1, NestedAre
      <4>4. QED
        BY <1>14, <1>17, <1>18, <4>1, <4>2, <4>3
    <3>2. ASSUME NEW j \in 1..Len(Kept), ms[k] = Kept[j] PROVE <2>2!2
      <4>1. j \in 1..3
        BY KeptAre
      <4>2. ms[k].path[1] \in ToSet(SubPaths)
        BY <3>2, <4>1, KeptAre, SubPathsAre
      <4>3. ms[k].vol = VMState
        BY <3>2, <4>1, KeptAre
      <4>4. ms[k].sub \in ToSet(SubPaths)
        BY <3>2, <4>1, KeptAre, SubPathsAre
      <4>5. QED
        BY <1>14, <1>17, <1>18, <4>2, <4>3, <4>4
    <3>3. QED
      BY <1>9, <3>1, <3>2
  <2>3. step \notin ToPasst
    BY <1>3, StepsNext
  <2>4. PathTags(step) \subseteq PathTags(step')
    BY <1>14
  <2>5. pod'.containers[1].mounts = pod.containers[1].mounts \o ms
    BY <1>11, <1>12
  <2>6. QED
    BY <1>9, <2>1, <2>2, <2>3, <2>4, <2>5 DEF MountsAdded
<1>20. ComputeMountsFit'
    BY <1>1, <1>3, <1>16, <1>19, MountsGrow
<1>21. pod'.inits = InitsAt(step')
    BY <1>6, <1>12
<1>22. QED
    BY <1>1, <1>3, <1>5, <1>12, <1>13, <1>16, <1>20, <1>21, InvNext

-----------------------------------------------------------------------------
(***************************************************************************)
(* The invariant, and the theorems that follow from it.                    *)
(***************************************************************************)

LEMMA StutterInv ==
    ASSUME IInv, UNCHANGED podVars
    PROVE  IInv'
<1>1. step' = step /\ vm' = vm /\ opts' = opts /\ pod' = pod
    BY DEF podVars
<1>2. TypeOK' /\ (pod.inits = InitsAt(step))'
  <2>1. TypeOK'
    BY <1>1 DEF IInv, TypeOK
  <2>2. InitsAt(step)' = InitsAt(step)
    BY <1>1 DEF InitsAt, Log, Plain, DiskInits, Patchers, ToProvision, ProvisionedAs, DiskInit
  <2>3. QED
    BY <1>1, <2>1, <2>2 DEF IInv
<1>3. ContainersFit'
    BY <1>1 DEF IInv, ContainersFit, SidecarsAt, Names
<1>4. VolumesFit'
    BY <1>1 DEF IInv, VolumesFit, ProvisionedAs, ImageName, Names
<1>5. ComputeMountsFit'
    BY <1>1 DEF IInv, ComputeMountsFit, ImageName, Names
<1>6. QED
    BY <1>2, <1>3, <1>4, <1>5 DEF IInv

LEMMA NextInv ==
    ASSUME IInv, [Next]_podVars
    PROVE  IInv'
<1>1. CASE SerialProxy
  <2>1. /\ vm' = vm /\ opts' = opts /\ pod' = AddProxy("serial") /\ step = "serial"
        /\ step' = IF "serial" = "serial" THEN "vnc" ELSE "devices"
    BY <1>1 DEF SerialProxy, At
  <2>2. QED
    BY <2>1, ProxyInv
<1>2. CASE VNCProxy
  <2>1. /\ vm' = vm /\ opts' = opts /\ pod' = AddProxy("vnc") /\ step = "vnc"
        /\ step' = IF "vnc" = "serial" THEN "vnc" ELSE "devices"
    BY <1>2 DEF VNCProxy, At
  <2>2. QED
    BY <2>1, ProxyInv
<1>3. CASE MountHostDevices
    BY <1>3, MountHostDevicesInv
<1>4. CASE DataVolumeInits
    BY <1>4, DataVolumeInitsInv
<1>5. CASE Cleanup
    BY <1>5, CleanupInv
<1>6. CASE DirInit
    BY <1>6, DirInitInv
<1>7. CASE PasstPatcher
    BY <1>7, PasstPatcherInv
<1>8. CASE PersistentState
    BY <1>8, PersistentStateInv
<1>9. CASE ReadinessProbe
    BY <1>9, ReadinessProbeInv
<1>10. CASE ComputeEnv
    BY <1>10, ComputeEnvInv
<1>11. CASE Done \/ UNCHANGED podVars
  <2>1. UNCHANGED podVars
    BY <1>11 DEF Done
  <2>2. QED
    BY <2>1, StutterInv
<1>12. QED
    BY <1>1, <1>2, <1>3, <1>4, <1>5, <1>6, <1>7, <1>8, <1>9, <1>10, <1>11 DEF Next, Adapt

\* After every step the pod is what the steps up to it make of the VM: the
\* inits exactly, the containers, volumes and mounts of compute by their names.
THEOREM Invariance == Spec => []IInv
<1>1. Init => IInv
    BY InitInv
<1>2. IInv /\ [Next]_podVars => IInv'
    BY NextInv
<1>3. QED
    BY <1>1, <1>2, PTL DEF Spec

\* Compute stays the first container, whatever the steps add or promote: the
\* converter lets only the first one wait for the init containers.
THEOREM FirstIsCompute == Spec => []ComputeFirst
<1>1. IInv => ComputeFirst
    BY DEF IInv, ContainersFit, ComputeFirst
<1>2. QED
    BY <1>1, Invariance, PTL

LEMMA NamesOne ==
    ASSUME NEW F, NEW c \in F
    PROVE  Names(<<c>>) = <<c.name>>
<1> DEFINE s == <<c>>
           n == c.name
<1>1. s \in Seq(F) /\ Len(s) = 1 /\ s[1] = c
    OBVIOUS
<1>2. n = s[1].name
    BY <1>1
<1> HIDE DEF s, n
<1>3. Names(s) = [k \in 1..1 |-> s[k].name]
    BY <1>1 DEF Names
<1>4. \A k \in 1..1 : s[k].name = n
    BY <1>2
<1>5. Names(s) = [k \in 1..1 |-> n]
    BY <1>3, <1>4
<1>6. [k \in 1..1 |-> n] = <<n>>
    OBVIOUS
<1>7. Names(s) = <<n>>
    BY <1>5, <1>6
<1>8. QED
    BY <1>7 DEF s, n

\* The names of the parts that the inits are made of.
LEMMA PieceNames ==
    ASSUME vm \in VMs
    PROVE  /\ Names(<<DirExtended>>) = <<DirInitName>>
           /\ Names(DiskInits) = [k \in 1..Len(ToProvision) |-> <<"disk", ToProvision[k]>>]
           /\ Names(Plain) = (IF "plain" \in vm.sidecars THEN <<<<"plain", 0>>>> ELSE <<>>)
           /\ Names(Patchers) = (IF "passt" \in opts THEN <<<<"passt-binary-patcher", 0>>>> ELSE <<>>)
<1>1. Names(<<DirExtended>>) = <<DirInitName>>
    BY DirExtendedIs, NamesOne
<1>2. Names(DiskInits) = [k \in 1..Len(ToProvision) |-> <<"disk", ToProvision[k]>>]
  <2>1. \A k \in 1..Len(ToProvision) : DiskInits[k].name = <<"disk", ToProvision[k]>>
    BY DiskInitsAre, DiskInitIs
  <2>2. Len(DiskInits) = Len(ToProvision)
    BY DiskInitsAre
  <2>3. QED
    BY <2>1, <2>2 DEF Names
<1>3. Names(<<>>) = <<>>
  <2>1. 1..Len(<<>>) = {}
    OBVIOUS
  <2>2. QED
    BY <2>1 DEF Names
<1>4. Names(Plain) = (IF "plain" \in vm.sidecars THEN <<<<"plain", 0>>>> ELSE <<>>)
  <2>1. CASE "plain" \in vm.sidecars
    <3>1. Plain = <<Sidecar("plain")>>
      BY <2>1 DEF Plain, Sidecar
    <3>2. Sidecar("plain") \in ContainerType /\ Sidecar("plain").name = <<"plain", 0>>
      BY SidecarIs DEF Tags
    <3>3. Names(<<Sidecar("plain")>>) = <<<<"plain", 0>>>>
      BY <3>2, NamesOne
    <3>4. QED
      BY <2>1, <3>1, <3>3
  <2>2. CASE "plain" \notin vm.sidecars
    BY <1>3, <2>2 DEF Plain
  <2>3. QED
    BY <2>1, <2>2
<1>5. Names(Patchers) = (IF "passt" \in opts THEN <<<<"passt-binary-patcher", 0>>>> ELSE <<>>)
  <2>1. CASE "passt" \in opts
    <3>1. Patchers = <<Patcher>>
      BY <2>1 DEF Patchers
    <3>2. Patcher \in ContainerType /\ Patcher.name = <<"passt-binary-patcher", 0>>
      BY PatchersAre
    <3>3. Names(<<Patcher>>) = <<<<"passt-binary-patcher", 0>>>>
      BY <3>2, NamesOne
    <3>4. QED
      BY <2>1, <3>1, <3>3
  <2>2. CASE "passt" \notin opts
    BY <1>3, <2>2 DEF Patchers
  <2>3. QED
    BY <2>1, <2>2
<1>6. QED
    BY <1>1, <1>2, <1>4, <1>5

LEMMA OrderFromInv ==
    ASSUME IInv
    PROVE  InitsInOrder
<1> DEFINE two == <<DirExtended>>
           r == DiskInits \o Plain
           q == two \o r
           z == q \o Patchers
<1>1. vm \in VMs /\ pod.inits = InitsAt(step)
    BY DEF IInv, TypeOK
<1>2. CASE step # "done"
    BY <1>2 DEF InitsInOrder
<1>3. CASE step = "done"
  <2>1. pod.inits = z
    BY <1>1, <1>3, StepsNext DEF InitsAt
  <2>2. /\ two \in Seq(ContainerType) /\ r \in Seq(ContainerType)
        /\ DiskInits \in Seq(ContainerType) /\ Plain \in Seq(ContainerType)
        /\ Patchers \in Seq(ContainerType)
    BY <1>1, DirExtendedIs, DiskInitsAre, PlainIs, PatchersAre, AppendedIs, Singleton
  <2>3. q \in Seq(ContainerType)
    BY <2>2, AppendedIs
  <2>4. r = DiskInits \o Plain /\ q = two \o r /\ z = q \o Patchers
    OBVIOUS
  <2>5. Names(two) = <<DirInitName>>
    BY <1>1, PieceNames
  <2> HIDE DEF two, r, q, z
  <2>6. \A c \in ContainerType : c.name \in Name
    BY DEF ContainerType
  <2>7. Names(z) = Names(q) \o Names(Patchers) /\ Names(q) \in Seq(Name) /\ Names(Patchers) \in Seq(Name)
    BY <2>2, <2>3, <2>4, <2>6, NamesConcat
  <2>8. Names(q) = Names(two) \o Names(r) /\ Names(two) \in Seq(Name)
    BY <2>2, <2>4, <2>6, NamesConcat
  <2>9. /\ Names(r) = Names(DiskInits) \o Names(Plain)
        /\ Names(DiskInits) \in Seq(Name) /\ Names(Plain) \in Seq(Name)
    BY <2>2, <2>4, <2>6, NamesConcat
  <2>10. (Names(two) \o Names(DiskInits)) \o Names(Plain) = Names(two) \o (Names(DiskInits) \o Names(Plain))
    BY <2>8, <2>9, ConcatAssoc
  <2>11. Names(z) = ((Names(two) \o Names(DiskInits)) \o Names(Plain)) \o Names(Patchers)
    BY <2>7, <2>8, <2>9, <2>10
  <2>12. QED
    BY <1>1, <2>1, <2>5, <2>11, PieceNames DEF InitsInOrder
<1>4. QED
    BY <1>2, <1>3

\* The inits of the finished pod are, in this order, the one that makes the
\* directories, one for each disk in the order of the VM, KubeVirt's own and
\* the patcher, however many disks there are.
THEOREM OrderOfInits == Spec => []InitsInOrder
<1>1. IInv => InitsInOrder
    BY OrderFromInv
<1>2. QED
    BY <1>1, Invariance, PTL

-----------------------------------------------------------------------------
(***************************************************************************)
(* The inits as a set, and the names of everything that becomes a unit.    *)
(***************************************************************************)

InitsIn(s) ==
    (IF s \in ToCleanup THEN ToSet(Log) ELSE {})
      \cup (IF s \in ToDisks THEN {} ELSE ToSet(DiskInits))
      \cup ToSet(Plain)
      \cup (IF s \in {"passt", "state"} THEN {Dir}
            ELSE IF s \in {"probe", "env", "done"} THEN {DirExtended} ELSE {})
      \cup (IF s \in ToPasst THEN {} ELSE ToSet(Patchers))

LEMMA ToSetConcat ==
    ASSUME NEW F, NEW a \in Seq(F), NEW b \in Seq(F)
    PROVE  ToSet(a \o b) = ToSet(a) \cup ToSet(b)
<1> DEFINE w == a \o b
<1>1. w = a \o b
    OBVIOUS
<1> HIDE DEF w
<1>2. /\ w \in Seq(F) /\ Len(w) = Len(a) + Len(b)
      /\ \A k \in 1..Len(a) : k \in 1..Len(w) /\ w[k] = a[k]
      /\ \A k \in 1..Len(b) : Len(a) + k \in 1..Len(w) /\ w[Len(a) + k] = b[k]
      /\ \A k \in 1..Len(w) : \/ k \in 1..Len(a) /\ w[k] = a[k]
                              \/ \E j \in 1..Len(b) : k = Len(a) + j /\ w[k] = b[j]
  <2>1. Joins(F, a, b, w)
    BY <1>1 DEF Joins
  <2>2. QED
    BY <2>1, Joined
<1>3. ASSUME NEW x
      PROVE  x \in ToSet(w) <=> (x \in ToSet(a) \/ x \in ToSet(b))
  <2>1. x \in ToSet(w) <=> \E k \in 1..Len(w) : w[k] = x
    BY <1>2, InToSet
  <2>2. x \in ToSet(a) <=> \E k \in 1..Len(a) : a[k] = x
    BY InToSet
  <2>3. x \in ToSet(b) <=> \E k \in 1..Len(b) : b[k] = x
    BY InToSet
  <2>4. QED
    BY <1>2, <2>1, <2>2, <2>3
<1>4. ToSet(w) = ToSet(a) \cup ToSet(b)
    BY <1>3
<1>5. QED
    BY <1>1, <1>4

LEMMA ToSetOne ==
    ASSUME NEW F, NEW x \in F
    PROVE  ToSet(<<x>>) = {x}
<1> DEFINE s == <<x>>
<1>1. s \in Seq(F) /\ Len(s) = 1 /\ s[1] = x
    OBVIOUS
<1> HIDE DEF s
<1>2. \A y : y \in ToSet(s) <=> \E k \in 1..Len(s) : s[k] = y
    BY <1>1, InToSet
<1>3. ToSet(s) = {x}
    BY <1>1, <1>2
<1>4. QED
    BY <1>3 DEF s

LEMMA InitSet ==
    ASSUME vm \in VMs, NEW s \in Steps
    PROVE  ToSet(InitsAt(s)) = InitsIn(s)
<1> DEFINE r == DiskInits \o Plain
           lp == Log \o Plain
           d == <<Dir>>
           e == <<DirExtended>>
<1>1. /\ Log \in Seq(ContainerType) /\ Plain \in Seq(ContainerType)
      /\ DiskInits \in Seq(ContainerType) /\ Patchers \in Seq(ContainerType)
      /\ d \in Seq(ContainerType) /\ e \in Seq(ContainerType)
    BY LogIs, PlainIs, DiskInitsAre, PatchersAre, DirIs, DirExtendedIs, Singleton
<1>2. ToSet(d) = {Dir} /\ ToSet(e) = {DirExtended}
    BY DirIs, DirExtendedIs, ToSetOne
<1>3. r \in Seq(ContainerType) /\ lp \in Seq(ContainerType)
    BY <1>1, AppendedIs
<1>4. ASSUME NEW u \in Seq(ContainerType), NEW v \in Seq(ContainerType)
      PROVE  ToSet(u \o v) = ToSet(u) \cup ToSet(v) /\ u \o v \in Seq(ContainerType)
    BY AppendedIs, ToSetConcat
<1>5. ToSet(r) = ToSet(DiskInits) \cup ToSet(Plain) /\ ToSet(lp) = ToSet(Log) \cup ToSet(Plain)
    BY <1>1, <1>4
<1>6. InitsAt(s) =
        IF s \in ToDisks THEN lp
        ELSE IF s = "cleanup" THEN DiskInits \o lp
        ELSE IF s = "dirs" THEN r
        ELSE IF s = "passt" THEN d \o r
        ELSE IF s = "state" THEN (d \o r) \o Patchers
        ELSE (e \o r) \o Patchers
    BY DEF InitsAt
<1> HIDE DEF r, lp, d, e
<1>7. /\ d \o r \in Seq(ContainerType) /\ e \o r \in Seq(ContainerType)
      /\ ToSet(d \o r) = {Dir} \cup ToSet(DiskInits) \cup ToSet(Plain)
      /\ ToSet(e \o r) = {DirExtended} \cup ToSet(DiskInits) \cup ToSet(Plain)
      /\ ToSet(DiskInits \o lp) = ToSet(DiskInits) \cup ToSet(Log) \cup ToSet(Plain)
    BY <1>1, <1>2, <1>3, <1>4, <1>5
<1>8. /\ ToSet((d \o r) \o Patchers) = {Dir} \cup ToSet(DiskInits) \cup ToSet(Plain) \cup ToSet(Patchers)
      /\ ToSet((e \o r) \o Patchers)
           = {DirExtended} \cup ToSet(DiskInits) \cup ToSet(Plain) \cup ToSet(Patchers)
  <2>1. ToSet((d \o r) \o Patchers) = ToSet(d \o r) \cup ToSet(Patchers)
    BY <1>1, <1>4, <1>7
  <2>2. ToSet((e \o r) \o Patchers) = ToSet(e \o r) \cup ToSet(Patchers)
    BY <1>1, <1>4, <1>7
  <2>3. QED
    BY <1>7, <2>1, <2>2
<1>9. s \in ToCleanup <=> (s \in ToDisks \/ s = "cleanup")
    BY DEF ToCleanup
<1>10. CASE s \in ToDisks
  <2>1. s \in {"serial", "vnc", "devices", "disks"}
    BY <1>10 DEF ToDisks, ToDevices, ToVNC, ToSerial
  <2>2. InitsIn(s) = ToSet(Log) \cup ToSet(Plain)
    BY <1>9, <1>10, <2>1, StepsNext DEF InitsIn
  <2>3. QED
    BY <1>5, <1>6, <1>10, <2>2
<1>11. CASE s = "cleanup"
  <2>1. InitsIn(s) = ToSet(Log) \cup ToSet(DiskInits) \cup ToSet(Plain)
    BY <1>9, <1>11, StepsNext DEF InitsIn
  <2>2. InitsAt(s) = DiskInits \o lp
    BY <1>6, <1>11, StepsNext
  <2>3. QED
    BY <1>7, <2>1, <2>2
<1>12. CASE s = "dirs"
  <2>1. InitsIn(s) = ToSet(DiskInits) \cup ToSet(Plain)
    BY <1>9, <1>12, StepsNext DEF InitsIn
  <2>2. InitsAt(s) = r
    BY <1>6, <1>12, StepsNext
  <2>3. QED
    BY <1>5, <2>1, <2>2
<1>13. CASE s = "passt"
  <2>1. InitsIn(s) = {Dir} \cup ToSet(DiskInits) \cup ToSet(Plain)
    BY <1>9, <1>13, StepsNext DEF InitsIn
  <2>2. InitsAt(s) = d \o r
    BY <1>6, <1>13, StepsNext
  <2>3. QED
    BY <1>7, <2>1, <2>2
<1>14. CASE s = "state"
  <2>1. InitsIn(s) = {Dir} \cup ToSet(DiskInits) \cup ToSet(Plain) \cup ToSet(Patchers)
    BY <1>9, <1>14, StepsNext DEF InitsIn
  <2>2. InitsAt(s) = (d \o r) \o Patchers
    BY <1>6, <1>14, StepsNext
  <2>3. QED
    BY <1>8, <2>1, <2>2
<1>15. CASE s \in {"probe", "env", "done"}
  <2>1. s \notin ToDisks /\ s \notin ToPasst /\ s \notin {"cleanup", "dirs", "passt", "state"}
    BY <1>15, StepsNext
  <2>2. InitsIn(s) = {DirExtended} \cup ToSet(DiskInits) \cup ToSet(Plain) \cup ToSet(Patchers)
    BY <1>9, <1>15, <2>1 DEF InitsIn
  <2>3. InitsAt(s) = (e \o r) \o Patchers
    BY <1>6, <2>1
  <2>4. QED
    BY <1>8, <2>2, <2>3
<1>16. s \in ToDisks \/ s \in {"cleanup", "dirs", "passt", "state"} \/ s \in {"probe", "env", "done"}
    BY StepsNext
<1>17. QED
    BY <1>10, <1>11, <1>12, <1>13, <1>14, <1>15, <1>16

\* Containers with different names, of which the first part is in a set.
Tagged(cs, A) ==
    /\ cs \in Seq(ContainerType)
    /\ Distinct(Names(cs))
    /\ \A k \in 1..Len(cs) : cs[k].name[1] \in A

LEMMA TaggedConcat ==
    ASSUME NEW a, NEW b, NEW A, NEW B, Tagged(a, A), Tagged(b, B), A \cap B = {}
    PROVE  Tagged(a \o b, A \cup B)
<1> DEFINE w == a \o b
<1>1. a \in Seq(ContainerType) /\ b \in Seq(ContainerType) /\ w = a \o b
    BY DEF Tagged
<1> HIDE DEF w
<1>2. /\ w \in Seq(ContainerType) /\ Len(w) = Len(a) + Len(b)
      /\ \A k \in 1..Len(a) : k \in 1..Len(w) /\ w[k] = a[k]
      /\ \A k \in 1..Len(b) : Len(a) + k \in 1..Len(w) /\ w[Len(a) + k] = b[k]
      /\ \A k \in 1..Len(w) : \/ k \in 1..Len(a) /\ w[k] = a[k]
                              \/ \E j \in 1..Len(b) : k = Len(a) + j /\ w[k] = b[j]
  <2>1. Joins(ContainerType, a, b, w)
    BY <1>1 DEF Joins
  <2>2. QED
    BY <2>1, Joined
<1>3. \A k \in 1..Len(w) : w[k].name[1] \in A \cup B
    BY <1>2 DEF Tagged
<1>4. ASSUME NEW j \in 1..Len(a), NEW k \in 1..Len(b) PROVE a[j].name # b[k].name
  <2>1. a[j].name[1] \in A /\ b[k].name[1] \in B
    BY DEF Tagged
  <2>2. QED
    BY <2>1
<1>5. \A c \in ContainerType : c.name \in Name
    BY DEF ContainerType
<1>6. Distinct(Names(a)) /\ Distinct(Names(b))
    BY DEF Tagged
<1>7. Distinct(Names(w))
    BY <1>1, <1>4, <1>5, <1>6, DistinctNames
<1>8. QED
    BY <1>1, <1>2, <1>3, <1>7 DEF Tagged

LEMMA TaggedOne ==
    ASSUME NEW c \in ContainerType
    PROVE  Tagged(<<c>>, {c.name[1]})
<1> DEFINE s == <<c>>
<1>1. s \in Seq(ContainerType) /\ Len(s) = 1 /\ s[1] = c
    OBVIOUS
<1> HIDE DEF s
<1>2. \A j \in 1..Len(s) : j = 1
    BY <1>1
<1>3. Distinct(Names(s))
    BY <1>1, <1>2, NamedIn
<1>4. Tagged(s, {c.name[1]})
    BY <1>1, <1>2, <1>3 DEF Tagged
<1>5. QED
    BY <1>4 DEF s

LEMMA TaggedNone ==
    ASSUME NEW A
    PROVE  Tagged(<<>>, A)
<1> DEFINE s == <<>>
<1>1. s \in Seq(ContainerType) /\ Len(s) = 0
    OBVIOUS
<1> HIDE DEF s
<1>2. Distinct(Names(s))
  <2>1. \A j \in 1..Len(s) : FALSE
    BY <1>1
  <2>2. Distinct(Names(s)) <=> \A j, k \in 1..Len(s) : s[j].name = s[k].name => j = k
    BY <1>1, NamedIn
  <2>3. QED
    BY <2>1, <2>2
<1>3. Tagged(s, A)
    BY <1>1, <1>2 DEF Tagged
<1>4. QED
    BY <1>3 DEF s

\* What the names of the inits may begin with.
InitTags(s) ==
    (IF s \in ToCleanup THEN {"log"} ELSE {})
      \cup {"plain", "disk", "virt-handler-dir-init", "passt-binary-patcher"}

LEMMA TaggedPieces ==
    ASSUME vm \in VMs
    PROVE  /\ Tagged(Log, {"log"}) /\ Tagged(Plain, {"plain"}) /\ Tagged(DiskInits, {"disk"})
           /\ Tagged(<<Dir>>, {"virt-handler-dir-init"})
           /\ Tagged(<<DirExtended>>, {"virt-handler-dir-init"})
           /\ Tagged(Patchers, {"passt-binary-patcher"})
<1>1. Tagged(Log, {"log"})
  <2> DEFINE log == [Sidecar("log") EXCEPT !.restart = "always"]
  <2>1. /\ log \in ContainerType /\ log.name = <<"log", 0>>
        /\ "log" \in vm.sidecars => Log = <<log>>
        /\ "log" \notin vm.sidecars => Log = <<>>
    BY LogIs
  <2> HIDE DEF log
  <2>2. log.name[1] = "log"
    BY <2>1
  <2>3. QED
    BY <2>1, <2>2, TaggedOne, TaggedNone
<1>2. Tagged(Plain, {"plain"})
  <2>1. Sidecar("plain") \in ContainerType /\ Sidecar("plain").name = <<"plain", 0>>
    BY SidecarIs DEF Tags
  <2>2. Sidecar("plain").name[1] = "plain"
    BY <2>1
  <2>3. Plain = IF "plain" \in vm.sidecars THEN <<Sidecar("plain")>> ELSE <<>>
    BY DEF Plain, Sidecar
  <2>4. Tagged(<<Sidecar("plain")>>, {"plain"})
    BY <2>1, <2>2, TaggedOne
  <2>5. QED
    BY <2>3, <2>4, TaggedNone
<1>3. Tagged(DiskInits, {"disk"})
  <2>1. /\ DiskInits \in Seq(ContainerType) /\ Len(DiskInits) = Len(ToProvision)
        /\ \A k \in 1..Len(ToProvision) : DiskInits[k].name = <<"disk", ToProvision[k]>>
    BY DiskInitsAre, DiskInitIs
  <2>2. Distinct(ToProvision)
    BY ProvisionedFacts DEF ToProvision
  <2>3. \A j, k \in 1..Len(DiskInits) : DiskInits[j].name = DiskInits[k].name => j = k
    BY <2>1, <2>2 DEF Distinct
  <2>4. \A k \in 1..Len(DiskInits) : DiskInits[k].name[1] = "disk"
    BY <2>1
  <2>5. Distinct(Names(DiskInits))
    BY <2>1, <2>3, NamedIn
  <2>6. QED
    BY <2>1, <2>4, <2>5 DEF Tagged
<1>4. Tagged(<<Dir>>, {"virt-handler-dir-init"})
  <2>1. Dir \in ContainerType /\ Dir.name[1] = "virt-handler-dir-init"
    BY DirIs DEF DirInitName
  <2>2. QED
    BY <2>1, TaggedOne
<1>5. Tagged(<<DirExtended>>, {"virt-handler-dir-init"})
  <2>1. DirExtended \in ContainerType /\ DirExtended.name[1] = "virt-handler-dir-init"
    BY DirExtendedIs DEF DirInitName
  <2>2. QED
    BY <2>1, TaggedOne
<1>6. Tagged(Patchers, {"passt-binary-patcher"})
  <2>1. Patcher \in ContainerType /\ Patcher.name[1] = "passt-binary-patcher"
    BY PatchersAre
  <2>2. Tagged(<<Patcher>>, {"passt-binary-patcher"})
    BY <2>1, TaggedOne
  <2>3. QED
    BY <2>2, TaggedNone DEF Patchers
<1>7. QED
    BY <1>1, <1>2, <1>3, <1>4, <1>5, <1>6

LEMMA TaggedMore ==
    ASSUME NEW cs, NEW A, NEW B, Tagged(cs, A), A \subseteq B
    PROVE  Tagged(cs, B)
BY DEF Tagged

LEMMA InitsTagged ==
    ASSUME vm \in VMs, NEW s \in Steps
    PROVE  Tagged(InitsAt(s), InitTags(s))
<1> DEFINE r == DiskInits \o Plain
           lp == Log \o Plain
           d == <<Dir>>
           e == <<DirExtended>>
           Dirs == {"virt-handler-dir-init"}
<1>1. InitsAt(s) =
        IF s \in ToDisks THEN lp
        ELSE IF s = "cleanup" THEN DiskInits \o lp
        ELSE IF s = "dirs" THEN r
        ELSE IF s = "passt" THEN d \o r
        ELSE IF s = "state" THEN (d \o r) \o Patchers
        ELSE (e \o r) \o Patchers
    BY DEF InitsAt
<1>2. Tagged(r, {"disk"} \cup {"plain"}) /\ Tagged(lp, {"log"} \cup {"plain"})
    BY TaggedPieces, TaggedConcat
<1>3. Tagged(d, Dirs) /\ Tagged(e, Dirs)
    BY TaggedPieces
<1> HIDE DEF r, lp, d, e
<1>4. Tagged(DiskInits \o lp, {"disk"} \cup ({"log"} \cup {"plain"}))
    BY <1>2, TaggedPieces, TaggedConcat
<1>5. Tagged(d \o r, Dirs \cup ({"disk"} \cup {"plain"})) /\ Tagged(e \o r, Dirs \cup ({"disk"} \cup {"plain"}))
    BY <1>2, <1>3, TaggedConcat
<1>6. /\ Tagged((d \o r) \o Patchers, (Dirs \cup ({"disk"} \cup {"plain"})) \cup {"passt-binary-patcher"})
      /\ Tagged((e \o r) \o Patchers, (Dirs \cup ({"disk"} \cup {"plain"})) \cup {"passt-binary-patcher"})
  <2>1. (Dirs \cup ({"disk"} \cup {"plain"})) \cap {"passt-binary-patcher"} = {}
    OBVIOUS
  <2>2. QED
    BY <1>5, <2>1, TaggedPieces, TaggedConcat
<1>7. \/ s \in ToDisks /\ s \in ToCleanup
      \/ s = "cleanup" /\ s \in ToCleanup
      \/ s \notin ToDisks /\ s # "cleanup"
    BY DEF ToCleanup
<1>8. /\ s \in ToCleanup => {"log"} \cup {"plain"} \subseteq InitTags(s)
      /\ s \in ToCleanup => {"disk"} \cup ({"log"} \cup {"plain"}) \subseteq InitTags(s)
      /\ {"disk"} \cup {"plain"} \subseteq InitTags(s)
      /\ Dirs \cup ({"disk"} \cup {"plain"}) \subseteq InitTags(s)
      /\ (Dirs \cup ({"disk"} \cup {"plain"})) \cup {"passt-binary-patcher"} \subseteq InitTags(s)
    BY DEF InitTags
<1> HIDE DEF Dirs
<1>9. CASE s \in ToDisks
    BY <1>1, <1>2, <1>7, <1>8, <1>9, TaggedMore
<1>10. CASE s = "cleanup"
  <2>1. InitsAt(s) = DiskInits \o lp
    BY <1>1, <1>10, StepsNext
  <2>2. {"disk"} \cup ({"log"} \cup {"plain"}) \subseteq InitTags(s)
    BY <1>7, <1>8, <1>10
  <2>3. Tagged(DiskInits \o lp, InitTags(s))
    BY <1>4, <2>2, TaggedMore
  <2>4. QED
    BY <2>1, <2>3
<1>11. CASE s \notin ToDisks /\ s # "cleanup"
  <2>1. InitsAt(s) \in {r, d \o r, (d \o r) \o Patchers, (e \o r) \o Patchers}
    BY <1>1, <1>11
  <2>2. /\ Tagged(r, InitTags(s)) /\ Tagged(d \o r, InitTags(s))
        /\ Tagged((d \o r) \o Patchers, InitTags(s)) /\ Tagged((e \o r) \o Patchers, InitTags(s))
    BY <1>2, <1>5, <1>6, <1>8, TaggedMore
  <2>3. QED
    BY <2>1, <2>2
<1>12. QED
    BY <1>7, <1>9, <1>10, <1>11

\* Mounts at different paths, of volumes there are, and of images only to read.
Sound(ms) ==
    /\ ms \in Seq(MountType)
    /\ Distinct(Paths(ms))
    /\ \A k \in 1..Len(ms) : /\ ms[k].vol \in ToSet(Names(pod.volumes))
                             /\ ImageName(ms[k].vol) => ms[k].mode = "ro"

LEMMA SoundOne ==
    ASSUME NEW m \in MountType, m.vol \in ToSet(Names(pod.volumes)), ImageName(m.vol) => m.mode = "ro"
    PROVE  Sound(<<m>>)
<1> DEFINE s == <<m>>
<1>1. s \in Seq(MountType) /\ Len(s) = 1 /\ s[1] = m
    OBVIOUS
<1> HIDE DEF s
<1>2. \A k \in 1..Len(s) : k = 1
    BY <1>1
<1>3. Distinct(Paths(s)) <=> \A j, k \in 1..Len(s) : s[j].path = s[k].path => j = k
    BY <1>1, PathsAre
<1>4. Distinct(Paths(s))
    BY <1>2, <1>3
<1>5. Sound(s)
    BY <1>1, <1>2, <1>4 DEF Sound
<1>6. QED
    BY <1>5 DEF s

LEMMA SoundTwo ==
    ASSUME NEW m \in MountType, m.vol \in ToSet(Names(pod.volumes)), ImageName(m.vol) => m.mode = "ro",
           NEW n \in MountType, n.vol \in ToSet(Names(pod.volumes)), ImageName(n.vol) => n.mode = "ro",
           m.path # n.path
    PROVE  Sound(<<m, n>>)
<1> DEFINE s == <<m, n>>
<1>1. s \in Seq(MountType) /\ Len(s) = 2 /\ s[1] = m /\ s[2] = n
    OBVIOUS
<1> HIDE DEF s
<1>2. \A k \in 1..Len(s) : k = 1 \/ k = 2
    BY <1>1
<1>3. Distinct(Paths(s)) <=> \A j, k \in 1..Len(s) : s[j].path = s[k].path => j = k
    BY <1>1, PathsAre
<1>4. Distinct(Paths(s))
    BY <1>1, <1>2, <1>3
<1>5. \A k \in 1..Len(s) : /\ s[k].vol \in ToSet(Names(pod.volumes))
                           /\ ImageName(s[k].vol) => s[k].mode = "ro"
    BY <1>1, <1>2
<1>6. Sound(s)
    BY <1>1, <1>4, <1>5 DEF Sound
<1>7. QED
    BY <1>6 DEF s

LEMMA PrivateSound ==
    ASSUME IInv
    PROVE  Sound(<<Mount(Private, Private)>>)
<1>1. Mount(Private, Private) \in MountType /\ Mount(Private, Private).vol = Private
    BY NamesAre, PlainMount
<1>2. Private \in ToSet(Names(pod.volumes))
    BY DEF IInv, VolumesFit
<1>3. ~ImageName(Private)
    BY DEF ImageName, Private
<1>4. QED
    BY <1>1, <1>2, <1>3, SoundOne

LEMMA DiskSound ==
    ASSUME IInv, step \notin ToDisks, NEW i \in ToSet(ToProvision)
    PROVE  DiskInit(i) \in ContainerType /\ Sound(DiskInit(i).mounts)
<1> DEFINE disk == Mount(VMVolume(i), DiskDir(i))
           source == MountAs(Source(i), Source(i), "ro", "")
<1>1. vm \in VMs
    BY DEF IInv, TypeOK
<1>2. i \in 1..Len(vm.volumes) /\ vm.volumes[i] \in {"blank", "registry"}
  <2>1. /\ ToProvision \in Seq(1..Len(vm.volumes))
        /\ \A k \in 1..Len(ToProvision) : /\ ToProvision[k] \in 1..Len(vm.volumes)
                                          /\ vm.volumes[ToProvision[k]] \in {"blank", "registry"}
    BY <1>1, ProvisionedFacts DEF ToProvision
  <2>2. QED
    BY <2>1, InToSet
<1>3. /\ DiskInit(i) \in ContainerType /\ disk \in MountType /\ source \in MountType
      /\ DiskInit(i).mounts = IF vm.volumes[i] = "registry" THEN <<disk, source>> ELSE <<disk>>
    BY <1>1, <1>2, DiskInitIs
<1>4. disk.vol = VMVolume(i) /\ disk.path = DiskDir(i)
    BY DEF Mount, MountAs
<1>5. source.vol = Source(i) /\ source.path = Source(i) /\ source.mode = "ro"
    BY DEF MountAs
<1> HIDE DEF disk, source
<1>6. VMVolume(i) \in ToSet(Names(pod.volumes)) /\ ~ImageName(VMVolume(i))
    BY <1>2 DEF IInv, VolumesFit, ImageName, VMVolume
<1>7. CASE vm.volumes[i] = "registry"
  <2>1. Source(i) \in ToSet(Names(pod.volumes))
    <3>1. \A j \in ToSet(ProvisionedAs({"registry"})) : Source(j) \in ToSet(Names(pod.volumes))
      BY DEF IInv, VolumesFit
    <3>2. i \in ToSet(ProvisionedAs({"registry"}))
      <4>1. /\ ProvisionedAs({"registry"}) \in Seq(1..Len(vm.volumes))
            /\ \E k \in 1..Len(ProvisionedAs({"registry"})) : ProvisionedAs({"registry"})[k] = i
        BY <1>1, <1>2, <1>7, ProvisionedFacts
      <4>2. QED
        BY <4>1, InToSet
    <3>3. QED
      BY <3>1, <3>2
  <2>2. disk.path # source.path
    BY <1>4, <1>5 DEF DiskDir, Source
  <2>3. QED
    BY <1>3, <1>4, <1>5, <1>6, <1>7, <2>1, <2>2, SoundTwo
<1>8. CASE vm.volumes[i] # "registry"
    BY <1>3, <1>4, <1>6, <1>8, SoundOne
<1>9. QED
    BY <1>3, <1>7, <1>8

LEMMA DirSound ==
    ASSUME IInv
    PROVE  /\ Dir \in ContainerType /\ Sound(Dir.mounts)
           /\ DirExtended \in ContainerType /\ (step \notin ToState => Sound(DirExtended.mounts))
<1> DEFINE old == Mount(Private, <<"emptydir", 1>>)
           new == Mount(VMState, <<"vm-state-init", 0>>)
<1>1. old.vol = Private /\ old.path = <<"emptydir", 1>>
    BY DEF Mount, MountAs
<1>2. new.vol = VMState /\ new.path = <<"vm-state-init", 0>>
    BY DEF Mount, MountAs
<1>3. /\ Dir \in ContainerType /\ Dir.mounts = <<old>>
      /\ DirExtended \in ContainerType /\ DirExtended.mounts = <<old, new>>
      /\ old \in MountType /\ new \in MountType
    BY DirIs, DirExtendedIs
<1> HIDE DEF old, new
<1>4. /\ Private \in ToSet(Names(pod.volumes))
      /\ step \notin ToState => VMState \in ToSet(Names(pod.volumes))
    BY DEF IInv, VolumesFit
<1>5. ~ImageName(Private) /\ ~ImageName(VMState)
    BY DEF ImageName, Private, VMState
<1>6. old.path # new.path
    BY <1>1, <1>2
<1>7. Sound(<<old>>)
    BY <1>1, <1>3, <1>4, <1>5, SoundOne
<1>8. step \notin ToState => Sound(<<old, new>>)
    BY <1>1, <1>2, <1>3, <1>4, <1>5, <1>6, SoundTwo
<1>9. QED
    BY <1>3, <1>7, <1>8

LEMMA PatcherSound ==
    ASSUME IInv, step \notin ToPasst, "passt" \in opts
    PROVE  Patcher \in ContainerType /\ Sound(Patcher.mounts)
<1> DEFINE m == Mount(PasstBin, PasstBin)
<1>1. Patcher \in ContainerType /\ Patcher.mounts = <<m>> /\ m \in MountType
    BY PatchersAre
<1>2. m.vol = PasstBin
    BY DEF Mount, MountAs
<1>3. PasstBin \in ToSet(Names(pod.volumes))
    BY DEF IInv, VolumesFit
<1>4. ~ImageName(PasstBin)
    BY DEF ImageName, PasstBin
<1> HIDE DEF m
<1>5. QED
    BY <1>1, <1>2, <1>3, <1>4, SoundOne

LEMMA InitsSound ==
    ASSUME IInv, NEW c \in ToSet(pod.inits)
    PROVE  c \in ContainerType /\ Sound(c.mounts)
<1>1. vm \in VMs /\ step \in Steps /\ pod.inits = InitsAt(step)
    BY DEF IInv, TypeOK
<1>2. c \in InitsIn(step)
    BY <1>1, InitSet
<1>3. CASE c \in ToSet(Log)
  <2> DEFINE log == [Sidecar("log") EXCEPT !.restart = "always"]
  <2>1. /\ Log \in Seq(ContainerType) /\ log \in ContainerType
        /\ log.mounts = <<Mount(Private, Private)>>
        /\ Log = <<log>> \/ Log = <<>>
    BY LogIs
  <2> HIDE DEF log
  <2>2. ToSet(<<log>>) = {log}
    BY <2>1, ToSetOne
  <2>3. ToSet(<<>>) = {}
    BY DEF ToSet
  <2>4. c = log
    BY <1>3, <2>1, <2>2, <2>3
  <2>5. QED
    BY <2>1, <2>4, PrivateSound
<1>4. CASE c \in ToSet(Plain)
  <2>1. /\ Sidecar("plain") \in ContainerType
        /\ Sidecar("plain").mounts = <<Mount(Private, Private)>>
    BY SidecarIs DEF Tags
  <2>2. c = Sidecar("plain")
    <3>1. Plain = <<Sidecar("plain")>> \/ Plain = <<>>
      BY DEF Plain, Sidecar
    <3>2. ToSet(<<Sidecar("plain")>>) = {Sidecar("plain")}
      BY <2>1, ToSetOne
    <3>3. ToSet(<<>>) = {}
      BY DEF ToSet
    <3>4. QED
      BY <1>4, <3>1, <3>2, <3>3
  <2>3. QED
    BY <2>1, <2>2, PrivateSound
<1>5. CASE c \in ToSet(DiskInits) /\ step \notin ToDisks
  <2>1. /\ DiskInits \in Seq(ContainerType) /\ Len(DiskInits) = Len(ToProvision)
        /\ \A k \in 1..Len(ToProvision) : DiskInits[k] = DiskInit(ToProvision[k])
    BY <1>1, DiskInitsAre
  <2>2. PICK k \in 1..Len(ToProvision) : c = DiskInit(ToProvision[k])
    BY <1>5, <2>1, InToSet
  <2>3. ToProvision \in Seq(1..Len(vm.volumes))
    BY <1>1, ProvisionedFacts DEF ToProvision
  <2>4. ToProvision[k] \in ToSet(ToProvision)
    BY <2>3, InToSet
  <2>5. QED
    BY <1>5, <2>2, <2>4, DiskSound
<1>6. CASE c = Dir
    BY <1>6, DirSound
<1>7. CASE c = DirExtended /\ step \in {"probe", "env", "done"}
    BY <1>7, DirSound, StepsNext
<1>8. CASE c \in ToSet(Patchers) /\ step \notin ToPasst
  <2>1. ToSet(<<Patcher>>) = {Patcher}
    BY PatchersAre, ToSetOne
  <2>2. ToSet(<<>>) = {}
    BY DEF ToSet
  <2>3. c = Patcher /\ "passt" \in opts
    BY <1>8, <2>1, <2>2 DEF Patchers
  <2>4. QED
    BY <1>8, <2>3, PatcherSound
<1>9. QED
    BY <1>2, <1>3, <1>4, <1>5, <1>6, <1>7, <1>8 DEF InitsIn

LEMMA ContainersSound ==
    ASSUME IInv, NEW c \in ToSet(pod.containers)
    PROVE  c \in ContainerType /\ Sound(c.mounts)
<1>1. pod.containers \in Seq(ContainerType) /\ pod.containers[1].mounts \in Seq(MountType)
    BY PodFields DEF IInv
<1>2. PICK k \in 1..Len(pod.containers) : c = pod.containers[k]
    BY <1>1, InToSet
<1>3. c \in ContainerType
    BY <1>1, <1>2
<1>4. CASE k = 1
  <2>1. Sound(pod.containers[1].mounts)
    BY <1>1 DEF IInv, ComputeMountsFit, Sound
  <2>2. QED
    BY <1>2, <1>3, <1>4, <2>1
<1>5. CASE k \in 2..Len(pod.containers)
  <2>1. c.mounts = <<Mount(Private, Private)>>
    BY <1>2, <1>5 DEF IInv, ContainersFit
  <2>2. QED
    BY <1>3, <2>1, PrivateSound
<1>6. k = 1 \/ k \in 2..Len(pod.containers)
    BY <1>1
<1>7. QED
    BY <1>4, <1>5, <1>6

LEMMA AllIs ==
    ASSUME IInv
    PROVE  /\ pod.containers \in Seq(ContainerType) /\ pod.inits \in Seq(ContainerType)
           /\ All \in Seq(ContainerType)
           /\ ToSet(All) = ToSet(pod.containers) \cup ToSet(pod.inits)
           /\ \A c \in ToSet(All) : c \in ContainerType /\ Sound(c.mounts)
<1>1. pod.containers \in Seq(ContainerType) /\ pod.inits \in Seq(ContainerType)
    BY PodFields DEF IInv
<1>2. All \in Seq(ContainerType) /\ ToSet(All) = ToSet(pod.containers) \cup ToSet(pod.inits)
    BY <1>1, AppendedIs, ToSetConcat DEF All
<1>3. QED
    BY <1>1, <1>2, ContainersSound, InitsSound

LEMMA NamesFromInv ==
    ASSUME IInv
    PROVE  NamesDistinct
<1> DEFINE Own == {"compute"} \cup SidecarsAt(step)
<1>1. /\ pod.containers \in Seq(ContainerType) /\ pod.inits \in Seq(ContainerType)
      /\ All \in Seq(ContainerType) /\ \A c \in ToSet(All) : Sound(c.mounts)
    BY AllIs
<1>2. Tagged(pod.containers, Own)
  <2>1. Distinct(Names(pod.containers))
    BY DEF IInv, ContainersFit
  <2>2. ASSUME NEW k \in 1..Len(pod.containers)
        PROVE  pod.containers[k].name[1] \in Own
    <3>1. k = 1 \/ k \in 2..Len(pod.containers)
      BY <1>1
    <3>2. CASE k = 1
      <4>1. pod.containers[k].name = ComputeName
        BY <3>2 DEF IInv, ContainersFit
      <4>2. QED
        BY <4>1 DEF ComputeName
    <3>3. CASE k \in 2..Len(pod.containers)
      <4>1. \E n \in SidecarsAt(step) : pod.containers[k].name = <<n, 0>>
        BY <3>3 DEF IInv, ContainersFit
      <4>2. QED
        BY <4>1
    <3>4. QED
      BY <3>1, <3>2, <3>3
  <2> HIDE DEF Own
  <2>3. QED
    BY <1>1, <2>1, <2>2 DEF Tagged
<1>3. Tagged(pod.inits, InitTags(step))
    BY InitsTagged DEF IInv, TypeOK
<1>4. Own \cap InitTags(step) = {}
  <2>1. opts \in SUBSET {"serial", "vnc", "passt"}
    BY DEF IInv, TypeOK, Options
  <2>2. SidecarsAt(step) \subseteq {"hook", "serial", "vnc"} \cup IF step \in ToCleanup THEN {} ELSE {"log"}
    BY <2>1 DEF SidecarsAt
  <2>3. QED
    BY <2>2 DEF InitTags
<1> HIDE DEF Own
<1>5. Tagged(All, Own \cup InitTags(step))
    BY <1>2, <1>3, <1>4, TaggedConcat DEF All
<1>6. IsInjective(Names(All))
  <2>1. Distinct(Names(All)) /\ Len(Names(All)) = Len(All)
    BY <1>1, <1>5, NamedIn DEF Tagged
  <2>2. DOMAIN Names(All) = 1..Len(Names(All))
    BY <2>1 DEF Names
  <2>3. QED
    BY <2>1, <2>2 DEF Distinct, IsInjective
<1>7. IsInjective(Names(pod.volumes))
  <2>1. Distinct(Names(pod.volumes)) /\ pod.volumes \in Seq(VolumeType)
    BY PodFields DEF IInv, VolumesFit
  <2>2. Len(Names(pod.volumes)) = Len(pod.volumes)
    BY <2>1, NamedIn
  <2>3. DOMAIN Names(pod.volumes) = 1..Len(Names(pod.volumes))
    BY <2>2 DEF Names
  <2>4. QED
    BY <2>1, <2>3 DEF Distinct, IsInjective
<1>8. ASSUME NEW c \in ToSet(All)
      PROVE  IsInjective([k \in 1..Len(c.mounts) |-> c.mounts[k].path])
  <2> DEFINE ps == [k \in 1..Len(c.mounts) |-> c.mounts[k].path]
  <2>1. c.mounts \in Seq(MountType) /\ Distinct(Paths(c.mounts)) /\ ps = Paths(c.mounts)
    BY <1>1 DEF Sound, Paths
  <2>2. Len(Paths(c.mounts)) = Len(c.mounts)
    BY <2>1, PathsAre
  <2>3. DOMAIN Paths(c.mounts) = 1..Len(Paths(c.mounts))
    BY <2>2 DEF Paths
  <2> HIDE DEF ps
  <2>4. IsInjective(ps)
    BY <2>1, <2>3 DEF Distinct, IsInjective
  <2>5. QED
    BY <2>4 DEF ps
<1>9. QED
    BY <1>6, <1>7, <1>8 DEF NamesDistinct

\* Every container and init container keeps a name of its own, every volume
\* too, and each container has one mount at a path, for any VM and options.
THEOREM DistinctThroughout == Spec => []NamesDistinct
<1>1. IInv => NamesDistinct
    BY NamesFromInv
<1>2. QED
    BY <1>1, Invariance, PTL

LEMMA MountsFromInv ==
    ASSUME IInv
    PROVE  MountsResolve
<1> SUFFICES ASSUME NEW c \in ToSet(All), NEW m \in Mounts(c)
             PROVE  /\ m.vol \in ToSet(Names(pod.volumes))
                    /\ Volume(m.vol, "image") \in ToSet(pod.volumes) => m.mode = "ro"
    BY DEF MountsResolve
<1>1. Sound(c.mounts) /\ c.mounts \in Seq(MountType)
    BY AllIs DEF Sound
<1>2. PICK k \in 1..Len(c.mounts) : m = c.mounts[k]
    BY <1>1, InToSet DEF Mounts
<1>3. ImageName(m.vol) => m.mode = "ro"
    BY <1>1, <1>2 DEF Sound
<1>4. ASSUME Volume(m.vol, "image") \in ToSet(pod.volumes) PROVE ImageName(m.vol)
  <2> DEFINE v == Volume(m.vol, "image")
  <2>1. v.name = m.vol /\ v.kind = "image"
    BY DEF Volume
  <2>2. pod.volumes \in Seq(VolumeType)
    BY PodFields DEF IInv
  <2> HIDE DEF v
  <2>3. PICK j \in 1..Len(pod.volumes) : pod.volumes[j] = v
    BY <1>4, <2>2, InToSet DEF v
  <2>4. ImageName(v.name)
    BY <2>1, <2>3 DEF IInv, VolumesFit
  <2>5. QED
    BY <2>1, <2>4
<1>5. m.vol \in ToSet(Names(pod.volumes))
    BY <1>1, <1>2 DEF Sound
<1>6. QED
    BY <1>3, <1>4, <1>5

\* No step leaves a mount of a volume that the pod does not have, or one that
\* could write an image.
THEOREM MountsAlwaysResolve == Spec => []MountsResolve
<1>1. IInv => MountsResolve
    BY MountsFromInv
<1>2. QED
    BY <1>1, Invariance, PTL

\* The inits of the finished pod, one by one.
LEMMA InitsAtEnd ==
    ASSUME IInv, step = "done"
    PROVE  /\ \A c \in ToSet(pod.inits) :
                \/ c = DirExtended
                \/ \E i \in ToSet(ToProvision) : c = DiskInit(i)
                \/ c = Sidecar("plain")
                \/ c = Patcher
           /\ DirExtended \in ToSet(pod.inits)
           /\ \A i \in ToSet(ToProvision) : DiskInit(i) \in ToSet(pod.inits)
           /\ "passt" \in opts => Patcher \in ToSet(pod.inits)
<1>1. vm \in VMs /\ step \in Steps /\ pod.inits = InitsAt(step)
    BY DEF IInv, TypeOK
<1>2. ToSet(pod.inits) = {DirExtended} \cup ToSet(DiskInits) \cup ToSet(Plain) \cup ToSet(Patchers)
  <2>1. step \notin ToDisks /\ step \notin ToPasst /\ step \notin {"passt", "state"}
    BY StepsNext
  <2>2. step \notin ToCleanup
    BY <2>1 DEF ToCleanup
  <2>3. InitsIn(step) = {DirExtended} \cup ToSet(DiskInits) \cup ToSet(Plain) \cup ToSet(Patchers)
    BY <2>1, <2>2 DEF InitsIn
  <2>4. QED
    BY <1>1, <2>3, InitSet
<1>3. ToSet(<<>>) = {}
    BY DEF ToSet
<1>4. \A c \in ToSet(Plain) : c = Sidecar("plain")
  <2>1. Plain = <<Sidecar("plain")>> \/ Plain = <<>>
    BY DEF Plain, Sidecar
  <2>2. ToSet(<<Sidecar("plain")>>) = {Sidecar("plain")}
    BY SidecarIs, ToSetOne DEF Tags
  <2>3. QED
    BY <1>3, <2>1, <2>2
<1>5. (\A c \in ToSet(Patchers) : c = Patcher) /\ ("passt" \in opts => Patcher \in ToSet(Patchers))
  <2>1. ToSet(<<Patcher>>) = {Patcher}
    BY PatchersAre, ToSetOne
  <2>2. QED
    BY <1>3, <2>1 DEF Patchers
<1>6. \A c : c \in ToSet(DiskInits) <=> \E i \in ToSet(ToProvision) : c = DiskInit(i)
  <2>1. /\ DiskInits \in Seq(ContainerType) /\ Len(DiskInits) = Len(ToProvision)
        /\ \A k \in 1..Len(ToProvision) : DiskInits[k] = DiskInit(ToProvision[k])
    BY <1>1, DiskInitsAre
  <2>2. ToProvision \in Seq(1..Len(vm.volumes))
    BY <1>1, ProvisionedFacts DEF ToProvision
  <2>3. \A c : c \in ToSet(DiskInits) <=> \E k \in 1..Len(DiskInits) : DiskInits[k] = c
    BY <2>1, InToSet
  <2>4. \A i : i \in ToSet(ToProvision) <=> \E k \in 1..Len(ToProvision) : ToProvision[k] = i
    BY <2>2, InToSet
  <2>5. QED
    BY <2>1, <2>3, <2>4
<1>7. QED
    BY <1>2, <1>4, <1>5, <1>6

LEMMA ProvisionedIs ==
    ASSUME vm \in VMs
    PROVE  \A i : i \in ToSet(ToProvision) <=>
                    (i \in 1..Len(vm.volumes) /\ vm.volumes[i] \in {"blank", "registry"})
<1>1. /\ ToProvision \in Seq(1..Len(vm.volumes))
      /\ \A k \in 1..Len(ToProvision) : /\ ToProvision[k] \in 1..Len(vm.volumes)
                                        /\ vm.volumes[ToProvision[k]] \in {"blank", "registry"}
      /\ \A i \in {i \in 1..Len(vm.volumes) : vm.volumes[i] \in {"blank", "registry"}} :
           \E k \in 1..Len(ToProvision) : ToProvision[k] = i
    BY ProvisionedFacts DEF ToProvision
<1>2. \A i : i \in ToSet(ToProvision) <=> \E k \in 1..Len(ToProvision) : ToProvision[k] = i
    BY <1>1, InToSet
<1>3. QED
    BY <1>1, <1>2

\* Compute as rendered, for what the steps must keep of it.
LEMMA ComputeMounted ==
    ASSUME IInv
    PROVE  /\ Mount(Private, Private) \in Mounts(pod.containers[1])
           /\ \A i \in 1..Len(vm.volumes) : \E m \in Mounts(pod.containers[1]) : m.vol = VMVolume(i)
           /\ Mounts(Compute) \subseteq Mounts(pod.containers[1])
<1> DEFINE one == <<Mount(Private, Private)>>
           ms == one \o Disks
<1>1. vm \in VMs
    BY DEF IInv, TypeOK
<1>2. Compute.mounts = ms /\ ms = one \o Disks
    BY <1>1, ComputeIs
<1>3. Mounts(Compute) \subseteq Mounts(pod.containers[1])
    BY <1>1, RenderedCompute DEF IInv, ComputeMountsFit, Mounts
<1>4. /\ one \in Seq(MountType) /\ Disks \in Seq(MountType)
      /\ Len(Disks) = Len(vm.volumes) /\ \A i \in 1..Len(vm.volumes) : Disks[i].vol = VMVolume(i)
    BY <1>1, PrivateMount, DisksAre
<1>5. ToSet(one) = {Mount(Private, Private)}
    BY PrivateMount, ToSetOne
<1> HIDE DEF one, ms
<1>6. ToSet(ms) = ToSet(one) \cup ToSet(Disks)
    BY <1>2, <1>4, ToSetConcat
<1>7. \A i \in 1..Len(vm.volumes) : Disks[i] \in ToSet(Disks)
    BY <1>4, InToSet
<1>8. Mounts(Compute) = ToSet(ms)
    BY <1>2 DEF Mounts
<1>9. QED
    BY <1>3, <1>4, <1>5, <1>6, <1>7, <1>8

LEMMA ProxiesFromInv ==
    ASSUME IInv, vm.ns = "default"
    PROVE  ProxiesReachGuest
<1> SUFFICES ASSUME step = "done", NEW p \in opts \cap {"serial", "vnc"}
             PROVE  \E c \in ToSet(pod.containers) :
                      /\ c.name = <<p, 0>>
                      /\ c.dials = <<vm.ns, p>>
                      /\ \E m \in Mounts(c) : m.path = Private /\ m \in Mounts(pod.containers[1])
    BY DEF ProxiesReachGuest
<1>1. pod.containers \in Seq(ContainerType)
    BY PodFields DEF IInv
<1>2. p \in SidecarsAt(step)
    BY DEF SidecarsAt, ToSerial, ToVNC
<1>3. PICK k \in 2..Len(pod.containers) : pod.containers[k].name = <<p, 0>>
    BY <1>2 DEF IInv, ContainersFit
<1>4. pod.containers[k].mounts = <<Mount(Private, Private)>>
    BY DEF IInv, ContainersFit
<1>5. pod.containers[k].dials = <<"default", p>>
  <2>1. PICK n \in SidecarsAt(step) :
          /\ pod.containers[k].name = <<n, 0>>
          /\ n \in {"serial", "vnc"} => pod.containers[k].dials = <<"default", n>>
    BY DEF IInv, ContainersFit
  <2>2. n = p
    BY <1>3, <2>1
  <2>3. QED
    BY <2>1, <2>2
<1>6. Mounts(pod.containers[k]) = {Mount(Private, Private)}
    BY <1>4, PrivateMount, ToSetOne DEF Mounts
<1>7. Mount(Private, Private).path = Private
    BY NamesAre, PlainMount
<1>8. k \in 1..Len(pod.containers)
    BY <1>1
<1>9. pod.containers[k] \in ToSet(pod.containers)
    BY <1>1, <1>8, InToSet
<1>10. QED
    BY <1>3, <1>5, <1>6, <1>7, <1>9, ComputeMounted

\* For a VM of the namespace "default", the only one that the proxies name, a
\* proxy that was asked for connects to the socket of the guest, through the
\* private volume it shares with compute.
THEOREM ProxiesReachDefault == Spec => [](vm.ns = "default" => ProxiesReachGuest)
<1>1. IInv => (vm.ns = "default" => ProxiesReachGuest)
    BY ProxiesFromInv
<1>2. QED
    BY <1>1, Invariance, PTL

LEMMA LostFromInv ==
    ASSUME IInv
    PROVE  NothingLost
<1> DEFINE rc == <<Compute>> \o Hook
           ri == Log \o Plain
           log == [Sidecar("log") EXCEPT !.restart = "always"]
           Found(c) == \E d \in ToSet(All) :
                          /\ d.name = c.name
                          /\ Mounts(c) \subseteq Mounts(d)
                          /\ c.restart = "unset" => (c \in ToSet(ri) <=> d \in ToSet(pod.inits))
<1>1. /\ vm \in VMs /\ step \in Steps /\ pod.inits = InitsAt(step)
      /\ vm.sidecars \in SUBSET {"hook", "log", "plain"}
  <2>1. vm \in VMs /\ step \in Steps /\ pod.inits = InitsAt(step)
    BY DEF IInv, TypeOK
  <2>2. QED
    BY <2>1, VMFacts
<1>2. /\ pod.containers \in Seq(ContainerType) /\ pod.inits \in Seq(ContainerType)
      /\ ToSet(All) = ToSet(pod.containers) \cup ToSet(pod.inits)
    BY AllIs
<1>3. Rendered(vm).containers = rc /\ Rendered(vm).inits = ri
    BY <1>1, RenderedIs
<1>4. /\ Compute \in ContainerType /\ Compute.name = ComputeName
      /\ Hook \in Seq(ContainerType) /\ Log \in Seq(ContainerType) /\ Plain \in Seq(ContainerType)
    BY <1>1, ComputeIs, HookIs, LogIs, PlainIs
<1>5. \A n \in {"hook", "log", "plain"} :
        /\ Sidecar(n) \in ContainerType /\ Sidecar(n).name = <<n, 0>>
        /\ Sidecar(n).mounts = <<Mount(Private, Private)>> /\ Sidecar(n).restart = "unset"
    BY SidecarIs DEF Tags
<1>6. /\ log \in ContainerType /\ log.name = <<"log", 0>> /\ log.restart = "always"
      /\ log.mounts = <<Mount(Private, Private)>>
    BY LogIs
<1>7. /\ ToSet(Hook) = IF "hook" \in vm.sidecars THEN {Sidecar("hook")} ELSE {}
      /\ ToSet(Plain) = IF "plain" \in vm.sidecars THEN {Sidecar("plain")} ELSE {}
      /\ ToSet(Log) = IF "log" \in vm.sidecars THEN {log} ELSE {}
  <2>1. ToSet(<<>>) = {}
    BY DEF ToSet
  <2>2. Hook = IF "hook" \in vm.sidecars THEN <<Sidecar("hook")>> ELSE <<>>
    BY DEF Hook, Sidecar
  <2>3. Plain = IF "plain" \in vm.sidecars THEN <<Sidecar("plain")>> ELSE <<>>
    BY DEF Plain, Sidecar
  <2>4. Log = IF "log" \in vm.sidecars THEN <<log>> ELSE <<>>
    BY DEF Log, Sidecar
  <2> HIDE DEF log
  <2>5. /\ ToSet(<<Sidecar("hook")>>) = {Sidecar("hook")}
        /\ ToSet(<<Sidecar("plain")>>) = {Sidecar("plain")}
    BY <1>5, ToSetOne
  <2>6. ToSet(<<log>>) = {log}
    BY <1>6, ToSetOne
  <2>7. QED
    BY <2>1, <2>2, <2>3, <2>4, <2>5, <2>6
<1> HIDE DEF log
<1>8. ToSet(rc \o ri) = {Compute} \cup ToSet(Hook) \cup ToSet(ri) /\ ToSet(ri) = ToSet(Log) \cup ToSet(Plain)
  <2>1. rc \in Seq(ContainerType) /\ ri \in Seq(ContainerType) /\ <<Compute>> \in Seq(ContainerType)
    BY <1>4, AppendedIs, Singleton
  <2>2. ToSet(<<Compute>>) = {Compute}
    BY <1>4, ToSetOne
  <2>3. ToSet(rc) = ToSet(<<Compute>>) \cup ToSet(Hook)
    BY <1>4, <2>1, ToSetConcat
  <2>4. ToSet(ri) = ToSet(Log) \cup ToSet(Plain)
    BY <1>4, ToSetConcat
  <2> HIDE DEF rc, ri
  <2>5. ToSet(rc \o ri) = ToSet(rc) \cup ToSet(ri)
    BY <2>1, ToSetConcat
  <2>6. QED
    BY <2>2, <2>3, <2>4, <2>5
<1> HIDE DEF rc, ri
<1>9. ToSet(pod.inits) = InitsIn(step)
    BY <1>1, InitSet
<1>10. \A d \in ToSet(pod.inits) : d.name[1] \in InitTags(step)
  <2>1. \A k \in 1..Len(pod.inits) : pod.inits[k].name[1] \in InitTags(step)
    BY <1>1, InitsTagged DEF Tagged
  <2>2. QED
    BY <1>2, <2>1, InToSet
<1>11. ASSUME NEW n \in SidecarsAt(step)
       PROVE  \E d \in ToSet(pod.containers) : d.name = <<n, 0>> /\ d.mounts = <<Mount(Private, Private)>>
  <2>1. PICK k \in 2..Len(pod.containers) : pod.containers[k].name = <<n, 0>>
    BY DEF IInv, ContainersFit
  <2>2. pod.containers[k].mounts = <<Mount(Private, Private)>>
    BY DEF IInv, ContainersFit
  <2>3. k \in 1..Len(pod.containers)
    BY <1>2
  <2>4. pod.containers[k] \in ToSet(pod.containers)
    BY <1>2, <2>3, InToSet
  <2>5. QED
    BY <2>1, <2>2, <2>4
<1>12. Found(Compute)
  <2> DEFINE d == pod.containers[1]
  <2>1. d \in ToSet(All) /\ d.name = ComputeName
    <3>1. 1 \in 1..Len(pod.containers)
      BY PodFields DEF IInv
    <3>2. QED
      BY <1>2, <3>1, InToSet DEF IInv, ContainersFit
  <2>2. Mounts(Compute) \subseteq Mounts(d)
    BY ComputeMounted
  <2>3. Compute \notin ToSet(ri)
    <3>1. Compute.name[1] = "compute"
      BY <1>4 DEF ComputeName
    <3>2. \A c \in ToSet(ri) : c.name[1] \in {"log", "plain"}
      BY <1>5, <1>6, <1>7, <1>8
    <3>3. QED
      BY <3>1, <3>2
  <2>4. d \notin ToSet(pod.inits)
    <3>1. d.name[1] = "compute"
      BY <2>1 DEF ComputeName
    <3>2. QED
      BY <1>10, <3>1 DEF InitTags
  <2> HIDE DEF d
  <2>5. QED
    BY <1>4, <2>1, <2>2, <2>3, <2>4
<1>13. ASSUME "hook" \in vm.sidecars PROVE Found(Sidecar("hook"))
  <2>1. PICK d \in ToSet(pod.containers) : d.name = <<"hook", 0>> /\ d.mounts = <<Mount(Private, Private)>>
    BY <1>11, <1>13 DEF SidecarsAt
  <2>2. d \notin ToSet(pod.inits)
    BY <1>10, <2>1 DEF InitTags
  <2>3. Sidecar("hook") \notin ToSet(ri)
    <3>1. Sidecar("hook").name[1] = "hook"
      BY <1>5
    <3>2. \A c \in ToSet(ri) : c.name[1] \in {"log", "plain"}
      BY <1>5, <1>6, <1>7, <1>8
    <3>3. QED
      BY <3>1, <3>2
  <2>4. Mounts(Sidecar("hook")) = Mounts(d)
    BY <1>5, <2>1 DEF Mounts
  <2>5. QED
    BY <1>2, <1>5, <2>1, <2>2, <2>3, <2>4
<1>14. ASSUME "plain" \in vm.sidecars PROVE Found(Sidecar("plain"))
  <2>1. Sidecar("plain") \in ToSet(ri) /\ Sidecar("plain") \in ToSet(pod.inits)
    BY <1>7, <1>8, <1>9, <1>14 DEF InitsIn
  <2>2. QED
    BY <1>2, <2>1
<1>15. ASSUME "log" \in vm.sidecars PROVE Found(log)
  <2>1. CASE step \in ToCleanup
    <3>1. log \in ToSet(pod.inits)
      BY <1>7, <1>9, <1>15, <2>1 DEF InitsIn
    <3>2. QED
      BY <1>2, <1>6, <3>1
  <2>2. CASE step \notin ToCleanup
    <3>1. PICK d \in ToSet(pod.containers) : d.name = <<"log", 0>> /\ d.mounts = <<Mount(Private, Private)>>
      BY <1>11, <1>15, <2>2 DEF SidecarsAt
    <3>2. Mounts(log) = Mounts(d)
      BY <1>6, <3>1 DEF Mounts
    <3>3. QED
      BY <1>2, <1>6, <3>1, <3>2
  <2>3. QED
    BY <2>1, <2>2
<1>16. \A c \in ToSet(rc \o ri) : Found(c)
    BY <1>7, <1>8, <1>12, <1>13, <1>14, <1>15
<1>17. ASSUME step = "done", NEW c \in ToSet(pod.inits) PROVE c.restart = "unset"
  <2>1. \/ c = DirExtended \/ c = Sidecar("plain") \/ c = Patcher
        \/ \E i \in ToSet(ToProvision) : c = DiskInit(i)
    BY <1>17, InitsAtEnd
  <2>2. ASSUME NEW i \in ToSet(ToProvision), c = DiskInit(i) PROVE c.restart = "unset"
    BY <1>1, <2>2, ProvisionedIs, DiskInitIs
  <2>3. DirExtended.restart = "unset" /\ Patcher.restart = "unset"
    BY DirExtendedIs, PatchersAre
  <2>4. QED
    BY <1>5, <2>1, <2>2, <2>3
<1>18. QED
    BY <1>3, <1>16, <1>17 DEF NothingLost

\* What KubeVirt renders is all there after every step, a container with its
\* mounts, and none has changed lists but the sidecar that never ends.
THEOREM RenderedKept == Spec => []NothingLost
<1>1. IInv => NothingLost
    BY LostFromInv
<1>2. QED
    BY <1>1, Invariance, PTL

\* Who makes what in the finished pod.
LEMMA MakersAre ==
    ASSUME IInv, step = "done", NEW c \in ToSet(pod.inits), NEW f \in c.does
    PROVE  \/ c = DirExtended /\ f[1] \in {Private, VMState}
           \/ \E i \in ToSet(ToProvision) : c = DiskInit(i) /\ f = <<VMVolume(i), "disk.img">>
           \/ c = Patcher /\ f = <<PasstBin, "passt">>
<1>1. vm \in VMs
    BY DEF IInv, TypeOK
<1>2. CASE c = DirExtended
  <2>1. f \in {<<Private, "libvirt/qemu">>} \cup {<<VMState, s>> : s \in ToSet(SubPaths)}
    BY <1>2, DirExtendedIs
  <2>2. f[1] \in {Private, VMState}
    BY <2>1
  <2>3. QED
    BY <1>2, <2>2
<1>3. CASE \E i \in ToSet(ToProvision) : c = DiskInit(i)
  <2>1. PICK i \in ToSet(ToProvision) : c = DiskInit(i)
    BY <1>3
  <2>2. DiskInit(i).does = {<<VMVolume(i), "disk.img">>}
    BY <1>1, ProvisionedIs, DiskInitIs
  <2>3. QED
    BY <2>1, <2>2
<1>4. CASE c = Sidecar("plain")
  <2>1. Sidecar("plain").does = {}
    BY SidecarIs DEF Tags
  <2>2. QED
    BY <1>4, <2>1
<1>5. CASE c = Patcher
  <2>1. Patcher.does = {<<PasstBin, "passt">>}
    BY PatchersAre
  <2>2. QED
    BY <1>5, <2>1
<1>6. QED
    BY <1>2, <1>3, <1>4, <1>5, InitsAtEnd

\* An init that alone makes a file does so at one place of the list.
LEMMA OneMaker ==
    ASSUME IInv, NEW c \in ToSet(pod.inits), NEW need, need \in c.does,
           \A d \in ToSet(pod.inits) : need \in d.does => d = c,
           \E m \in Mounts(c) : m.vol = need[1] /\ m.mode = "rw"
    PROVE  \E k \in 1..Len(pod.inits) :
             /\ \E m \in Mounts(pod.inits[k]) : m.vol = need[1] /\ m.mode = "rw"
             /\ \A j \in 1..Len(pod.inits) : need \in pod.inits[j].does <=> j = k
<1>1. pod.inits \in Seq(ContainerType)
    BY AllIs
<1>2. \A d : d \in ToSet(pod.inits) <=> \E k \in 1..Len(pod.inits) : pod.inits[k] = d
    BY <1>1, InToSet
<1>3. PICK k \in 1..Len(pod.inits) : pod.inits[k] = c
    BY <1>2
<1>4. \A j \in 1..Len(pod.inits) : pod.inits[j].name = pod.inits[k].name => j = k
  <2>1. Distinct(Names(pod.inits))
    BY InitsTagged DEF IInv, TypeOK, Tagged
  <2>2. QED
    BY <1>1, <2>1, NamedIn
<1>5. \A j \in 1..Len(pod.inits) : need \in pod.inits[j].does <=> j = k
  <2>1. ASSUME NEW j \in 1..Len(pod.inits), need \in pod.inits[j].does PROVE j = k
    <3>1. pod.inits[j] = c
      BY <1>2, <2>1
    <3>2. QED
      BY <1>3, <1>4, <3>1
  <2>2. QED
    BY <1>3, <2>1
<1>6. QED
    BY <1>3, <1>5

LEMMA DirExtendedMounts ==
    /\ \E m \in Mounts(DirExtended) : m.vol = Private /\ m.mode = "rw"
    /\ \E m \in Mounts(DirExtended) : m.vol = VMState /\ m.mode = "rw"
<1> DEFINE old == Mount(Private, <<"emptydir", 1>>)
           new == Mount(VMState, <<"vm-state-init", 0>>)
           ms == DirExtended.mounts
<1>1. old.vol = Private /\ old.mode = "rw"
    BY DEF Mount, MountAs
<1>2. new.vol = VMState /\ new.mode = "rw"
    BY DEF Mount, MountAs
<1>3. ms = <<old, new>> /\ old \in MountType /\ new \in MountType
    BY DirExtendedIs
<1>4. Mounts(DirExtended) = ToSet(ms)
    BY DEF Mounts
<1> HIDE DEF old, new, ms
<1>5. ms \in Seq(MountType) /\ Len(ms) = 2 /\ ms[1] = old /\ ms[2] = new
    BY <1>3
<1>6. old \in ToSet(ms) /\ new \in ToSet(ms)
  <2>1. 1 \in 1..Len(ms) /\ 2 \in 1..Len(ms)
    BY <1>5
  <2>2. QED
    BY <1>5, <2>1, InToSet
<1>7. QED
    BY <1>1, <1>2, <1>4, <1>6

LEMMA DiskInitMounts ==
    ASSUME vm \in VMs, NEW i \in 1..Len(vm.volumes)
    PROVE  \E m \in Mounts(DiskInit(i)) : m.vol = VMVolume(i) /\ m.mode = "rw"
<1> DEFINE disk == Mount(VMVolume(i), DiskDir(i))
           source == MountAs(Source(i), Source(i), "ro", "")
           ms == DiskInit(i).mounts
<1>1. disk.vol = VMVolume(i) /\ disk.mode = "rw"
    BY DEF Mount, MountAs
<1>2. /\ ms = IF vm.volumes[i] = "registry" THEN <<disk, source>> ELSE <<disk>>
      /\ disk \in MountType /\ source \in MountType
    BY DiskInitIs
<1>3. Mounts(DiskInit(i)) = ToSet(ms)
    BY DEF Mounts
<1> HIDE DEF disk, source, ms
<1>4. ms \in Seq(MountType) /\ Len(ms) >= 1 /\ ms[1] = disk
    BY <1>2
<1>5. 1 \in 1..Len(ms)
    BY <1>4
<1>6. disk \in ToSet(ms)
    BY <1>4, <1>5, InToSet
<1>7. QED
    BY <1>1, <1>3, <1>6

LEMMA PatcherMounts == \E m \in Mounts(Patcher) : m.vol = PasstBin /\ m.mode = "rw"
<1> DEFINE m == Mount(PasstBin, PasstBin)
<1>1. m.vol = PasstBin /\ m.mode = "rw"
    BY DEF Mount, MountAs
<1>2. Patcher.mounts = <<m>> /\ m \in MountType
    BY PatchersAre
<1> HIDE DEF m
<1>3. ToSet(<<m>>) = {m}
    BY <1>2, ToSetOne
<1>4. Mounts(Patcher) = {m}
    BY <1>2, <1>3 DEF Mounts
<1>5. QED
    BY <1>1, <1>4

\* What the finished pod must hold of one thing that compute needs.
Provided(need) ==
    /\ \E m \in Mounts(pod.containers[1]) : m.vol = need[1]
    /\ \E k \in 1..Len(pod.inits) :
         /\ \E m \in Mounts(pod.inits[k]) : m.vol = need[1] /\ m.mode = "rw"
         /\ \A j \in 1..Len(pod.inits) : need \in pod.inits[j].does <=> j = k

LEMMA FilesFromInv ==
    ASSUME IInv
    PROVE  ComputeFindsItsFiles
<1> SUFFICES ASSUME step = "done" PROVE \A need \in ComputeNeeds : Provided(need)
    BY DEF ComputeFindsItsFiles, Provided
<1>1. vm \in VMs
    BY DEF IInv, TypeOK
<1>2. /\ DirExtended \in ToSet(pod.inits)
      /\ \A i \in ToSet(ToProvision) : DiskInit(i) \in ToSet(pod.inits)
      /\ "passt" \in opts => Patcher \in ToSet(pod.inits)
    BY InitsAtEnd
<1>3. /\ DirExtended.does = {<<Private, "libvirt/qemu">>} \cup {<<VMState, s>> : s \in ToSet(SubPaths)}
      /\ Patcher.does = {<<PasstBin, "passt">>}
    BY DirExtendedIs, PatchersAre
<1>4. Private[1] = "private" /\ VMState[1] = "vm-state" /\ PasstBin[1] = "passt-bin"
    BY DEF Private, VMState, PasstBin
<1>5. \A i : VMVolume(i) = <<"volume", i>>
    BY DEF VMVolume
<1>6. ASSUME NEW need \in DirExtended.does,
             \E m \in Mounts(pod.containers[1]) : m.vol = need[1]
      PROVE  Provided(need)
  <2>1. need[1] \in {Private, VMState}
    BY <1>3
  <2>2. need[1][1] \in {"private", "vm-state"}
    BY <1>4, <2>1
  <2>3. ASSUME NEW d \in ToSet(pod.inits), need \in d.does PROVE d = DirExtended
    <3>1. need # <<PasstBin, "passt">>
      BY <1>4, <2>2
    <3>2. \A i : need # <<VMVolume(i), "disk.img">>
      <4>1. ASSUME NEW i, need = <<VMVolume(i), "disk.img">> PROVE FALSE
        <5>1. need[1] = <<"volume", i>>
          BY <1>5, <4>1
        <5>2. need[1][1] = "volume"
          BY <5>1
        <5>3. QED
          BY <2>2, <5>2
      <4>2. QED
        BY <4>1
    <3>3. QED
      BY <2>3, <3>1, <3>2, MakersAre
  <2>4. \E m \in Mounts(DirExtended) : m.vol = need[1] /\ m.mode = "rw"
    BY <2>1, DirExtendedMounts
  <2>5. \E k \in 1..Len(pod.inits) :
          /\ \E m \in Mounts(pod.inits[k]) : m.vol = need[1] /\ m.mode = "rw"
          /\ \A j \in 1..Len(pod.inits) : need \in pod.inits[j].does <=> j = k
    BY <1>2, <2>3, <2>4, OneMaker
  <2>6. QED
    BY <1>6, <2>5 DEF Provided
<1>7. Provided(<<Private, "libvirt/qemu">>)
  <2> DEFINE need == <<Private, "libvirt/qemu">>
  <2>1. need \in DirExtended.does /\ need[1] = Private
    BY <1>3
  <2>2. Mount(Private, Private).vol = Private
    BY NamesAre, PlainMount
  <2> HIDE DEF need
  <2>3. Provided(need)
    BY <1>6, <2>1, <2>2, ComputeMounted
  <2>4. QED
    BY <2>3 DEF need
<1>8. ASSUME NEW m \in Mounts(pod.containers[1]), m.sub # ""
      PROVE  Provided(<<m.vol, m.sub>>)
  <2> DEFINE need == <<m.vol, m.sub>>
  <2>1. m.vol = VMState /\ m.sub \in ToSet(SubPaths)
    <3>1. pod.containers[1].mounts \in Seq(MountType)
      BY PodFields DEF IInv
    <3>2. PICK k \in 1..Len(pod.containers[1].mounts) : m = pod.containers[1].mounts[k]
      BY <3>1, InToSet DEF Mounts
    <3>3. QED
      BY <1>8, <3>2 DEF IInv, ComputeMountsFit
  <2>2. need \in DirExtended.does /\ need[1] = m.vol
    BY <1>3, <2>1
  <2> HIDE DEF need
  <2>3. Provided(need)
    BY <1>6, <2>2
  <2>4. QED
    BY <2>3 DEF need
<1>9. ASSUME NEW i \in 1..Len(vm.volumes), vm.volumes[i] \in {"blank", "registry"}
      PROVE  Provided(<<VMVolume(i), "disk.img">>)
  <2> DEFINE need == <<VMVolume(i), "disk.img">>
  <2>1. i \in ToSet(ToProvision)
    BY <1>1, <1>9, ProvisionedIs
  <2>2. DiskInit(i).does = {need}
    BY <1>1, DiskInitIs
  <2>3. need[1] = VMVolume(i) /\ need[1][1] = "volume" /\ need[1][2] = i
    BY <1>5
  <2>4. ASSUME NEW j, need = <<VMVolume(j), "disk.img">> PROVE j = i
    <3>1. need[1] = <<"volume", j>>
      BY <1>5, <2>4
    <3>2. need[1][2] = j
      BY <3>1
    <3>3. QED
      BY <2>3, <3>2
  <2> HIDE DEF need
  <2>5. ASSUME NEW d \in ToSet(pod.inits), need \in d.does PROVE d = DiskInit(i)
    <3>1. need[1] \notin {Private, VMState} /\ need # <<PasstBin, "passt">>
      BY <1>4, <2>3
    <3>2. QED
      BY <2>4, <2>5, <3>1, MakersAre
  <2>6. \E m \in Mounts(DiskInit(i)) : m.vol = need[1] /\ m.mode = "rw"
    BY <1>1, <2>3, DiskInitMounts
  <2>7. \E m \in Mounts(pod.containers[1]) : m.vol = need[1]
    BY <2>3, ComputeMounted
  <2>8. \E k \in 1..Len(pod.inits) :
          /\ \E m \in Mounts(pod.inits[k]) : m.vol = need[1] /\ m.mode = "rw"
          /\ \A j \in 1..Len(pod.inits) : need \in pod.inits[j].does <=> j = k
    BY <1>2, <2>1, <2>2, <2>5, <2>6, OneMaker
  <2>9. Provided(need)
    BY <2>7, <2>8 DEF Provided
  <2>10. QED
    BY <2>9 DEF need
<1>10. ASSUME "passt" \in opts PROVE Provided(<<PasstBin, "passt">>)
  <2> DEFINE need == <<PasstBin, "passt">>
  <2>1. need \in Patcher.does /\ need[1] = PasstBin /\ need[1][1] = "passt-bin"
    BY <1>3, <1>4
  <2> HIDE DEF need
  <2>2. ASSUME NEW d \in ToSet(pod.inits), need \in d.does PROVE d = Patcher
    <3>1. need[1] \notin {Private, VMState}
      BY <1>4, <2>1
    <3>2. \A i : need # <<VMVolume(i), "disk.img">>
      <4>1. ASSUME NEW i, need = <<VMVolume(i), "disk.img">> PROVE FALSE
        <5>1. need[1] = <<"volume", i>>
          BY <1>5, <4>1
        <5>2. need[1][1] = "volume"
          BY <5>1
        <5>3. QED
          BY <2>1, <5>2
      <4>2. QED
        BY <4>1
    <3>3. QED
      BY <2>2, <3>1, <3>2, MakersAre
  <2>3. \E m \in Mounts(Patcher) : m.vol = need[1] /\ m.mode = "rw"
    BY <2>1, PatcherMounts
  <2>4. \E m \in Mounts(pod.containers[1]) : m.vol = need[1]
    BY <1>10, <2>1, StepsNext DEF IInv, ComputeMountsFit, Mounts
  <2>5. \E k \in 1..Len(pod.inits) :
          /\ \E m \in Mounts(pod.inits[k]) : m.vol = need[1] /\ m.mode = "rw"
          /\ \A j \in 1..Len(pod.inits) : need \in pod.inits[j].does <=> j = k
    BY <1>2, <1>10, <2>1, <2>2, <2>3, OneMaker
  <2>6. Provided(need)
    BY <2>4, <2>5 DEF Provided
  <2>7. QED
    BY <2>6 DEF need
<1>11. QED
    BY <1>7, <1>8, <1>9, <1>10 DEF ComputeNeeds

\* Each file and directory that compute expects in its volumes when it starts
\* is made there by exactly one init container, however many disks there are.
THEOREM FilesAreMade == Spec => []ComputeFindsItsFiles
<1>1. IInv => ComputeFindsItsFiles
    BY FilesFromInv
<1>2. QED
    BY <1>1, Invariance, PTL

=============================================================================
