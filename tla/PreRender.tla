----------------------------- MODULE PreRender -----------------------------
(***************************************************************************)
(* Step 3, PrepareForRendering, and what step 4 does with its result.  The *)
(* VM is checked, completed and handed to KubeVirt's renderer, which looks *)
(* up every claim of it where a cluster would have it.  The passes over    *)
(* the networks are those of ForcePasst, one stage of these.               *)
(***************************************************************************)
EXTENDS ForcePasst

CONSTANTS
    Claims,       \* names of claims and DataVolumes
    MaxVolumes    \* bound: volumes of the VM

ASSUME MaxVolumesAssumption == MaxVolumes \in Nat

VARIABLES
    vm,       \* the VM, and the VMI made of it
    stubs,    \* the claims in the cache, <<namespace, name>>
    status,   \* of each interface, <<its name, k>> for the pod's eth(k-1)
    stage     \* what comes next, or how the conversion has ended

pvars == <<vars, vm, stubs, status, stage>>

\* What a volume is made of.  "ephemeral": a claim named in another field than
\* the two that step 3 reads (ephemeral, memoryDump); "kubernetes": a ConfigMap,
\* Secret or ServiceAccount; "inline": a volume for which the renderer needs no
\* claim, also one that names a secret in a field step 3 does not read.
Stubbed == {"claim", "dataVolume"}
Claiming == Stubbed \cup {"ephemeral"}
Volumes == (Claiming \X Claims) \cup ({"kubernetes", "inline"} \X {""})

\* Disk k is the one named like volume k, disk 0 one named like no volume;
\* "sound" VMs have a template, and positive CPU and memory quantities.  A file
\* brings no UID: clusters make them.
VMs == [namespace : {"", "prod"}, uid : {""}, sound : BOOLEAN,
        volumes : BoundedSeq(Volumes, MaxVolumes), disks : SUBSET (0..MaxVolumes)]

PInit ==
    /\ Init
    /\ vm \in {v \in VMs : \A d \in v.disks : d <= Len(v.volumes)}
    /\ stubs = {}
    /\ status = <<>>
    /\ stage = "validate"

\* The order of the calls; their faulty orders: the status before the
\* interfaces are final, the UID before the namespace is.
AfterStatusFirst == [validate |-> "namespace", namespace |-> "stubs", stubs |-> "defaults",
    defaults |-> "status", status |-> "passt", passt |-> "uid", uid |-> "render"]
AfterUIDFirst == [validate |-> "uid", uid |-> "namespace", namespace |-> "stubs",
    stubs |-> "defaults", defaults |-> "passt", passt |-> "status", status |-> "render"]
After == [validate |-> "namespace", namespace |-> "stubs", stubs |-> "defaults",
    defaults |-> "passt", passt |-> "uid", uid |-> "status", status |-> "render"]

Call(name) == stage = name /\ stage' = After[name]

NeedsAPI == \E v \in ToSet(vm.volumes) : v[1] = "kubernetes"
DisksHaveVolumes == vm.disks \subseteq 1..Len(vm.volumes)

\* Faulty variant of Validate: disks are not compared with the volumes.
ValidateVolumesOnly ==
    /\ vm.sound /\ ~NeedsAPI
    /\ Call("validate")
    /\ UNCHANGED <<vars, vm, stubs, status>>

Validate ==
    /\ vm.sound /\ ~NeedsAPI /\ DisksHaveVolumes
    /\ Call("validate")
    /\ UNCHANGED <<vars, vm, stubs, status>>

Refuse ==
    /\ stage = "validate"
    /\ ~(vm.sound /\ ~NeedsAPI /\ DisksHaveVolumes)
    /\ stage' = "refused"
    /\ UNCHANGED <<vars, vm, stubs, status>>

NamespaceOf == IF vm.namespace = "" THEN Default ELSE vm.namespace

DefaultNamespace ==
    /\ Call("namespace")
    /\ vm' = [vm EXCEPT !.namespace = NamespaceOf]
    /\ UNCHANGED <<vars, stubs, status>>

ClaimsOf(kinds) == {<<NamespaceOf, v[2]>> : v \in {w \in ToSet(vm.volumes) : w[1] \in kinds}}

\* Faulty variant of StubPVCs: the claim a DataVolume makes has no stub.
StubPVCsOnly ==
    /\ Call("stubs")
    /\ stubs' = ClaimsOf({"claim"})
    /\ UNCHANGED <<vars, vm, status>>

StubPVCs ==
    /\ Call("stubs")
    /\ stubs' = ClaimsOf(Stubbed)
    /\ UNCHANGED <<vars, vm, status>>

\* KubeVirt's defaults: every volume that has no disk gets one.
SetDefaults ==
    /\ Call("defaults")
    /\ vm' = [vm EXCEPT !.disks = @ \cup 1..Len(vm.volumes)]
    /\ UNCHANGED <<vars, stubs, status>>

\* KubeVirt refuses to complete the VM, or its interfaces.
DefaultsFail ==
    /\ stage = "defaults"
    /\ stage' = "error"
    /\ UNCHANGED <<vars, vm, stubs, status>>

ForcePasstBinding ==
    /\ \/ stage = "passt" /\ Next /\ UNCHANGED stage
       \/ Call("passt") /\ next[1] = "done" /\ UNCHANGED vars
    /\ UNCHANGED <<vm, stubs, status>>

SetUID ==
    /\ Call("uid")
    /\ vm' = [vm EXCEPT !.uid = IF @ = "" THEN vm.namespace ELSE @]
    /\ UNCHANGED <<vars, stubs, status>>

PopulateInterfaceStatus ==
    /\ Call("status")
    /\ status' = [k \in 1..Len(interfaces) |-> <<interfaces[k][1], k>>]
    /\ UNCHANGED <<vars, vm, stubs>>

\* RenderLaunchManifest fails if a claim is not where it looks for it.
Lookups == {<<vm.namespace, v[2]>> : v \in {w \in ToSet(vm.volumes) : w[1] \in Claiming}}
Render ==
    /\ stage = "render"
    /\ stage' = IF Lookups \subseteq stubs THEN "rendered" ELSE "failed"
    /\ UNCHANGED <<vars, vm, stubs, status>>

Ended == stage \in {"refused", "error", "rendered", "failed"} /\ UNCHANGED pvars

PNext ==
    \/ Validate \/ Refuse \/ DefaultNamespace \/ StubPVCs \/ SetDefaults \/ DefaultsFail
    \/ ForcePasstBinding \/ SetUID \/ PopulateInterfaceStatus \/ Render \/ Ended

PSpec == PInit /\ [][PNext]_pvars

-----------------------------------------------------------------------------
\* Step 4 finds every claim of a persistentVolumeClaim or dataVolume volume in
\* the namespace where it looks, without a cluster (pre_render.go 109-129).  It
\* fails on one thing only: a claim that other kinds of volumes name alone.
ClaimsFound ==
    stage \in {"rendered", "failed"} =>
        (stage = "rendered" <=>
           \A v \in ToSet(vm.volumes) : v[1] = "ephemeral" =>
             \E w \in ToSet(vm.volumes) : w[1] \in Stubbed /\ w[2] = v[2])

\* The pod that is rendered has a disk for every volume and a volume for every
\* disk: no disk of the guest is missing when it starts, which on a cluster a
\* webhook would have refused (pre_render.go 293-298).
RenderedIsWhole == stage = "rendered" => vm.disks = 1..Len(vm.volumes)

\* The status in STANDALONE_VMI speaks of the interfaces the guest gets, under
\* the names forcePasstBinding leaves, each on a network of the pod.
StatusMatchesInterfaces ==
    stage \in {"render", "rendered"} =>
        /\ [k \in 1..Len(status) |-> status[k][1]] = [k \in 1..Len(interfaces) |-> interfaces[k][1]]
        /\ \A s \in ToSet(status) : OnPod(s[1])

\* virt-launcher-monitor finds QEMU's PID file, <uid>_<name>.pid, under the name
\* of the libvirt domain, <namespace>_<name>, where KubeVirt looked the claims up.
DomainIsFound ==
    stage = "rendered" => vm.uid = vm.namespace /\ \A c \in stubs : c[1] = vm.uid

=============================================================================
