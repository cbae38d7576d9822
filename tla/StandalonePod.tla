--------------------------- MODULE StandalonePod ---------------------------
(***************************************************************************)
(* Step 5 of the pipeline, AdaptForStandalone: the pod KubeVirt renders for*)
(* a cluster is rewritten, one function after the other, into a pod that   *)
(* podman can run.  The functions change the same three lists (containers, *)
(* init containers, volumes), some at the front and some at the end, find  *)
(* what they change by name, and rely on what earlier ones have left there.*)
(*                                                                         *)
(* Volumes, containers and paths are named by pairs <<name, index>>.       *)
(***************************************************************************)
EXTENDS Enumerations, SequencesExt

CONSTANTS
    MaxItems,      \* bound: volumes, GPUs, vfio devices, sidecars and probes, together
    MaxGroups,     \* bound: IOMMU groups of the host
    Namespaces     \* namespaces a VM may be in

ASSUME MaxItemsAssumption == MaxItems \in Nat
ASSUME MaxGroupsAssumption == MaxGroups \in Nat

VARIABLES
    step,   \* the function that comes next
    vm,     \* the VM, as prepared by step 3, and what is known of the host
    opts,   \* the workarounds and proxies asked for on the command line
    pod     \* the pod being adapted

podVars == <<step, vm, opts, pod>>

-----------------------------------------------------------------------------
(***************************************************************************)
(* The input of the step.                                                  *)
(***************************************************************************)

\* A volume of the VM is a container disk or refers to a claim, or to a
\* DataVolume that has no template with a size, a template, or a template with
\* a source to fill it from.
VolumeKinds == {"containerDisk", "claim", "unsized", "blank", "registry"}
Vendors == {"nvidia", "amd", "unknown"}
Probes == {"none", "readiness", "liveness"}

VMs == {v \in [volumes  : BoundedSeq(VolumeKinds, MaxItems),
                gpus     : BoundedSeq(Vendors, MaxItems),
                vfio     : BOOLEAN,          \* are host devices requested?
                bound    : BoundedSeq(0..MaxGroups, MaxItems),
                             \* devices bound to vfio-pci: a group, or 0 if unreadable
                sidecars : SUBSET {"hook", "log", "plain"},
                             \* KubeVirt's: a container, an init that never
                             \* ends, an init
                probe    : Probes,           \* has the VM a probe of its own?
                ns       : Namespaces] :
           /\ Len(v.volumes) + Len(v.gpus) + Len(v.bound) + Cardinality(v.sidecars)
                + (IF v.probe = "none" THEN 0 ELSE 1) <= MaxItems
           /\ ~v.vfio => v.bound = <<>>}

Options == SUBSET {"serial", "vnc", "passt"}

\* Volumes, and the pseudo-devices and devices mounted like them.
Private == <<"private", 0>>
VMVolume(i) == <<"volume", i>>
Source(i) == <<"import-src", i>>
VMState == <<"vm-state", 0>>
PasstBin == <<"passt-bin", 0>>
Libvirt == <<"private-libvirt", 0>>
Qemu == <<"private-libvirt-qemu", 0>>

Volume(n, kind) == [name |-> n, kind |-> kind]
MountAs(v, path, mode, sub) == [vol |-> v, path |-> path, mode |-> mode, sub |-> sub]
Mount(v, path) == MountAs(v, path, "rw", "")

\* "does": the files and directories a script leaves in the volumes; "dials":
\* the socket a proxy connects to.
Container(n, mounts) ==
    [name |-> n, mounts |-> mounts, restart |-> "unset", does |-> {}, dials |-> <<>>,
     env |-> {}, probe |-> <<"none">>]

DiskDir(i) == <<"vmi-disks", i>>
ComputeName == <<"compute", 0>>

\* What RenderLaunchManifest returns: a volume and a mount for each of the VM,
\* its probe, and a pod that is never restarted.
Rendered(v) ==
    LET Kind(kind) == IF kind = "containerDisk" THEN "image" ELSE "pvc"
        VMVolumes == [i \in 1..Len(v.volumes) |-> Volume(VMVolume(i), Kind(v.volumes[i]))]
        Disks == [i \in 1..Len(v.volumes) |->
                    MountAs(VMVolume(i), DiskDir(i),
                            IF v.volumes[i] = "containerDisk" THEN "ro" ELSE "rw", "")]
        compute == Container(ComputeName, <<Mount(Private, Private)>> \o Disks)
        Sidecar(n) ==
            IF n \in v.sidecars THEN <<Container(<<n, 0>>, <<Mount(Private, Private)>>)>>
            ELSE <<>>
    IN [containers |->
            <<[compute EXCEPT !.probe = IF v.probe = "none" THEN @ ELSE <<v.probe, "own">>]>>
              \o Sidecar("hook"),
        inits |-> [k \in 1..Len(Sidecar("log")) |-> [Sidecar("log")[k] EXCEPT !.restart = "always"]]
                    \o Sidecar("plain"),
        volumes |-> <<Volume(Private, "emptyDir")>> \o VMVolumes,
        restart |-> "never",
        grace |-> "rendered"]

Init ==
    /\ step = "serial"
    /\ vm \in VMs
    /\ opts \in Options
    /\ pod = Rendered(vm)

-----------------------------------------------------------------------------
(***************************************************************************)
(* The functions.                                                          *)
(***************************************************************************)

At(s, next) == step = s /\ step' = next /\ UNCHANGED <<vm, opts>>

\* The first container of that name.
Named(cs, n) == {k \in 1..Len(cs) : cs[k].name = n /\ \A j \in 1..(k-1) : cs[j].name # n}

\* Gives the first container of that name more mounts, at the end.
WithMounts(cs, n, mounts) ==
    [k \in 1..Len(cs) |->
       IF k \in Named(cs, n) THEN [cs[k] EXCEPT !.mounts = @ \o mounts] ELSE cs[k]]

Mounts(c) == ToSet(c.mounts)

\* The volume that compute has at /var/run/kubevirt-private.
PrivateVolumes ==
    {m.vol : m \in {m \in UNION {Mounts(c) : c \in {c \in ToSet(pod.containers) :
                                                   c.name = ComputeName}} :
                      m.path = Private}}

\* Faulty variants of AddProxy: the proxy goes in front; it gets no mount.
AddProxyFront(n) ==
    IF n \notin opts THEN pod
    ELSE [pod EXCEPT !.containers =
            <<[Container(<<n, 0>>, <<Mount(Private, Private)>>)
                 EXCEPT !.dials = <<"default", n>>]>> \o @]

AddProxyUnmounted(n) ==
    IF n \notin opts THEN pod
    ELSE [pod EXCEPT !.containers =
            Append(@, [Container(<<n, 0>>, <<>>) EXCEPT !.dials = <<"default", n>>])]

\* addConsoleProxySidecar, injectVNCProxy: the socket is named in full
AddProxy(n) ==
    IF n \notin opts \/ PrivateVolumes = {} THEN pod
    ELSE LET v == CHOOSE v \in PrivateVolumes : TRUE
             proxy == [Container(<<n, 0>>, <<Mount(v, Private)>>)
                         EXCEPT !.dials = <<"default", n>>]
         IN [pod EXCEPT !.containers = Append(@, proxy)]

SerialProxy == At("serial", "vnc") /\ pod' = AddProxy("serial")
VNCProxy == At("vnc", "devices") /\ pod' = AddProxy("vnc")

Controls == <<<<"nvidiactl", 0>>, <<"nvidia-uvm", 0>>, <<"nvidia-uvm-tools", 0>>,
              <<"nvidia-modeset", 0>>>>

\* The devices of the GPU at a position; the code counts from 0.
GPUDevices(i) ==
    CASE vm.gpus[i] = "nvidia" ->
            <<<<"nvidia", i - 1>>>> \o IF i = 1 THEN Controls ELSE <<>>
      [] vm.gpus[i] = "amd" -> <<<<"dri-card", i - 1>>, <<"dri-render", i - 1>>>>
      [] OTHER -> <<<<"dri-card", i - 1>>>>

Cgroup == <<"cgroup", 0>>

\* Faulty variant of VFIOGroups: the group of every device.
VFIOGroupsRepeated == Select(vm.bound, 1..MaxGroups)

\* resolveVFIOGroups: the groups of the devices, each once, sorted; a device
\* whose group cannot be read is passed over.
VFIOGroups == Sorted(ToSet(vm.bound) \ {0})

Devices ==
    <<<<"kvm", 0>>, <<"tun", 0>>, <<"vhost-net", 0>>, Cgroup>>
      \o Flat([i \in 1..Len(vm.gpus) |-> GPUDevices(i)])
      \o IF vm.vfio THEN <<<<"vfio", 0>>>>
                          \o [g \in 1..Len(VFIOGroups) |-> <<"vfio-group", VFIOGroups[g]>>]
         ELSE <<>>

\* mountHostDevices
MountHostDevices ==
    LET Kind(n) == IF n = Cgroup THEN "host" ELSE "device"
        MountOf(n) == MountAs(n, n, IF n = Cgroup THEN "ro" ELSE "rw", "")
    IN /\ At("devices", "disks")
       /\ pod' = [pod EXCEPT
            !.volumes = @ \o [k \in 1..Len(Devices) |-> Volume(Devices[k], Kind(Devices[k]))],
            !.containers = WithMounts(@, ComputeName,
                              [k \in 1..Len(Devices) |-> MountOf(Devices[k])])]

\* Volumes of the VM that get a disk: DataVolumes whose template has a size.
ProvisionedAs(kinds) == Sorted({i \in 1..Len(vm.volumes) : vm.volumes[i] \in kinds})
ToProvision == ProvisionedAs({"blank", "registry"})

\* The init container of a disk, on the pod volume that has its claim.
DiskInit(i) ==
    LET disk == Mount(VMVolume(i), DiskDir(i))
        source == MountAs(Source(i), Source(i), "ro", "")
    IN [Container(<<"disk", i>>,
                  IF vm.volumes[i] = "registry" THEN <<disk, source>> ELSE <<disk>>)
          EXCEPT !.does = {<<VMVolume(i), "disk.img">>}]

\* Faulty variant of DataVolumeInits: appended, after KubeVirt's own inits.
DataVolumeInitsLast ==
    LET images == ProvisionedAs({"registry"})
    IN /\ At("disks", "cleanup")
       /\ pod' = [pod EXCEPT
            !.volumes = @ \o [k \in 1..Len(images) |-> Volume(Source(images[k]), "image")],
            !.inits = @ \o [k \in 1..Len(ToProvision) |-> DiskInit(ToProvision[k])]]

\* Faulty variant of DataVolumeInits: the images are mounted, never declared.
DataVolumeInitsOnly ==
    /\ At("disks", "cleanup")
    /\ pod' = [pod EXCEPT
         !.inits = [k \in 1..Len(ToProvision) |-> DiskInit(ToProvision[k])] \o @]

\* injectDataVolumeInitContainers
DataVolumeInits ==
    LET images == ProvisionedAs({"registry"})
    IN /\ At("disks", "cleanup")
       /\ pod' = [pod EXCEPT
            !.volumes = @ \o [k \in 1..Len(images) |-> Volume(Source(images[k]), "image")],
            !.inits = [k \in 1..Len(ToProvision) |-> DiskInit(ToProvision[k])] \o @]

\* Init containers that never end, or that do.
InitsThat(restart) == Select(pod.inits, {c \in ToSet(pod.inits) : c.restart = restart})
Promoted(c) == [c EXCEPT !.restart = "unset"]

\* Faulty variants of Cleanup: the sidecars are dropped; the pod keeps the
\* restart policy it was rendered with.
CleanupDrops ==
    /\ At("cleanup", "dirs")
    /\ pod' = [pod EXCEPT !.restart = "on-failure",
                          !.inits = InitsThat("unset")]
CleanupKeepsPolicy ==
    LET sidecars == InitsThat("always")
    IN /\ At("cleanup", "dirs")
       /\ pod' = [pod EXCEPT
            !.containers = @ \o [k \in 1..Len(sidecars) |-> Promoted(sidecars[k])],
            !.inits = InitsThat("unset")]

\* cleanupForStandalone: sidecars written as init containers that never end
\* become containers.
Cleanup ==
    LET sidecars == InitsThat("always")
    IN /\ At("cleanup", "dirs")
       /\ pod' = [pod EXCEPT
            !.restart = "on-failure",
            !.containers = @ \o [k \in 1..Len(sidecars) |-> Promoted(sidecars[k])],
            !.inits = InitsThat("unset")]

DirInitName == <<"virt-handler-dir-init", 0>>

\* injectVirtHandlerDirInit, on the emptyDir volumes whose key is "private"
DirInit ==
    LET privates == Select(pod.volumes, {Volume(Private, "emptyDir")})
        init == [Container(DirInitName,
                           [k \in 1..Len(privates) |->
                              Mount(privates[k].name, <<"emptydir", k>>)])
                   EXCEPT !.does = {<<v.name, "libvirt/qemu">> : v \in ToSet(privates)}]
    IN /\ At("dirs", "passt")
       /\ pod' = IF privates = <<>> THEN pod ELSE [pod EXCEPT !.inits = <<init>> \o @]

\* injectPasstBinaryPatcher, if asked for
PasstPatcher ==
    LET patcher == [Container(<<"passt-binary-patcher", 0>>, <<Mount(PasstBin, PasstBin)>>)
                      EXCEPT !.does = {<<PasstBin, "passt">>}]
        readOnly == MountAs(PasstBin, PasstBin, "ro", "")
    IN /\ At("passt", "state")
       /\ pod' = IF "passt" \notin opts THEN pod
                 ELSE [pod EXCEPT
                         !.volumes = Append(@, Volume(PasstBin, "emptyDir")),
                         !.inits = Append(@, patcher),
                         !.containers = WithMounts(@, ComputeName, <<readOnly>>)]

SubPaths == <<"nvram", "swtpm", "swtpm-localca">>

\* Faulty variant of PersistentState: the directories are left to podman.
PersistentStateNoDirs ==
    /\ At("state", "probe")
    /\ pod' = [pod EXCEPT
         !.volumes = @ \o <<Volume(VMState, "pvc"), Volume(Libvirt, "emptyDir"),
                            Volume(Qemu, "emptyDir")>>,
         !.containers = WithMounts(@, ComputeName,
            <<Mount(Libvirt, Libvirt), Mount(Qemu, Qemu)>> \o
            [k \in 1..Len(SubPaths) |->
               MountAs(VMState, <<SubPaths[k], 0>>, "rw", SubPaths[k])])]

\* injectPersistentStateVolumes: what must outlive the pod, on a claim of its
\* own laid over the private volume, its directories made by the dir init.
PersistentState ==
    LET nested == <<Mount(Libvirt, Libvirt), Mount(Qemu, Qemu)>>
        kept == [k \in 1..Len(SubPaths) |->
                   MountAs(VMState, <<SubPaths[k], 0>>, "rw", SubPaths[k])]
        Extended(c) == [c EXCEPT
            !.mounts = Append(@, Mount(VMState, <<"vm-state-init", 0>>)),
            !.does = @ \cup {<<VMState, s>> : s \in ToSet(SubPaths)}]
        first == Named(pod.inits, DirInitName)
    IN /\ At("state", "probe")
       /\ pod' = [pod EXCEPT
            !.volumes = @ \o <<Volume(VMState, "pvc"), Volume(Libvirt, "emptyDir"),
                               Volume(Qemu, "emptyDir")>>,
            !.containers = WithMounts(@, ComputeName, nested \o kept),
            !.inits = [k \in 1..Len(@) |-> IF k \in first THEN Extended(@[k]) ELSE @[k]]]

\* injectComputeReadinessProbe: the state of the domain <namespace>_<name>,
\* unless the VM has a probe
ReadinessProbe ==
    /\ At("probe", "env")
    /\ pod' = [pod EXCEPT !.containers = [k \in 1..Len(@) |->
                  IF k \in Named(@, ComputeName) /\ @[k].probe = <<"none">>
                  THEN [@[k] EXCEPT !.probe = <<"readiness", vm.ns>>] ELSE @[k]]]

\* The environment that AdaptForStandalone gives compute itself.
ComputeEnv ==
    LET WithEnv(c) == [c EXCEPT !.env = @ \cup {"STANDALONE_VMI", "VIRSH_DEFAULT_CONNECT_URI"}]
    IN /\ At("env", "done")
       /\ pod' = [pod EXCEPT !.containers = [k \in 1..Len(@) |->
                     IF k \in Named(@, ComputeName) THEN WithEnv(@[k]) ELSE @[k]]]

Done == step = "done" /\ UNCHANGED podVars

Adapt ==
    \/ SerialProxy \/ VNCProxy \/ MountHostDevices \/ DataVolumeInits
    \/ Cleanup \/ DirInit \/ PasstPatcher \/ PersistentState
    \/ ReadinessProbe \/ ComputeEnv

Next == Adapt \/ Done

Spec == Init /\ [][Next]_podVars

-----------------------------------------------------------------------------
Names(cs) == [k \in 1..Len(cs) |-> cs[k].name]
All == pod.containers \o pod.inits

\* Every container and init container becomes a unit file named after it, and
\* every volume is looked up by its name: no step gives a name twice, nor
\* mounts two volumes of a container at one path.
NamesDistinct ==
    /\ IsInjective(Names(All))
    /\ IsInjective(Names(pod.volumes))
    /\ \A c \in ToSet(All) : IsInjective([k \in 1..Len(c.mounts) |-> c.mounts[k].path])

\* The converter lets only the first container wait for the init containers:
\* whatever is added or promoted, that is compute after every step.
ComputeFirst == pod.containers[1].name = ComputeName

\* A mount of an unknown volume is an error of the conversion, and an image is
\* never written.
MountsResolve ==
    \A c \in ToSet(All) : \A m \in Mounts(c) :
        /\ m.vol \in ToSet(Names(pod.volumes))
        /\ Volume(m.vol, "image") \in ToSet(pod.volumes) => m.mode = "ro"

\* What compute expects in its volumes when it starts.
ComputeNeeds ==
    {<<Private, "libvirt/qemu">>}
      \cup {<<VMVolume(i), "disk.img">> :
               i \in {i \in 1..Len(vm.volumes) : vm.volumes[i] \in {"blank", "registry"}}}
      \cup {<<m.vol, m.sub>> : m \in {m \in Mounts(pod.containers[1]) : m.sub # ""}}
      \cup IF "passt" \in opts THEN {<<PasstBin, "passt">>} ELSE {}

\* Of all that compute expects, each file and directory is made by exactly one
\* init container, in a volume that both mount.
ComputeFindsItsFiles ==
    step = "done" =>
        \A need \in ComputeNeeds :
            /\ \E m \in Mounts(pod.containers[1]) : m.vol = need[1]
            /\ \E k \in 1..Len(pod.inits) :
                 /\ \E m \in Mounts(pod.inits[k]) : m.vol = need[1] /\ m.mode = "rw"
                 /\ \A j \in 1..Len(pod.inits) : need \in pod.inits[j].does <=> j = k

\* Init containers run in list order: the directories first, then the disks as
\* the VM lists them, then whatever KubeVirt rendered, and the patcher last.
InitsInOrder ==
    step = "done" =>
        Names(pod.inits) =
            <<DirInitName>>
              \o [k \in 1..Len(ToProvision) |-> <<"disk", ToProvision[k]>>]
              \o (IF "plain" \in vm.sidecars THEN <<<<"plain", 0>>>> ELSE <<>>)
              \o (IF "passt" \in opts THEN <<<<"passt-binary-patcher", 0>>>> ELSE <<>>)

\* No step drops a container or one of its mounts, and the only one to change
\* lists is a sidecar, whose list is in the end that of the containers.
NothingLost ==
    /\ step = "done" => \A c \in ToSet(pod.inits) : c.restart = "unset"
    /\ \A c \in ToSet(Rendered(vm).containers \o Rendered(vm).inits) :
         \E d \in ToSet(All) :
            /\ d.name = c.name
            /\ Mounts(c) \subseteq Mounts(d)
            /\ c.restart = "unset" => (c \in ToSet(Rendered(vm).inits) <=> d \in ToSet(pod.inits))

\* A proxy connects to the socket of the guest: virt-launcher makes it in a
\* directory named after the UID of the VMI, which step 3 makes its namespace,
\* under the private directory of compute.
ProxiesReachGuest ==
    step = "done" =>
        \A p \in opts \cap {"serial", "vnc"} : \E c \in ToSet(pod.containers) :
            /\ c.name = <<p, 0>>
            /\ c.dials = <<vm.ns, p>>
            /\ \E m \in Mounts(c) : m.path = Private /\ m \in Mounts(pod.containers[1])

\* The devices that all NVIDIA GPUs share are mounted once there is one.
NvidiaHasControls ==
    step = "done" /\ "nvidia" \in ToSet(vm.gpus) =>
        \A n \in ToSet(Controls) : \E m \in Mounts(pod.containers[1]) : m.path = n

=============================================================================
