-------------------------- MODULE PreRenderProofs --------------------------
(***************************************************************************)
(* Step 3 for any number of volumes, networks and interfaces: which VMs    *)
(* step 4 can render, and that what it renders is whole and carries the    *)
(* UID and the status of the interfaces that the guest gets.               *)
(***************************************************************************)
EXTENDS PreRender, ForcePasstProofs

\* The stages from one on, in the order of After.
FromRender == {"render", "rendered", "failed"}
FromStatus == FromRender \cup {"status"}
FromUID == FromStatus \cup {"uid"}
FromPasst == FromUID \cup {"passt"}
FromDefaults == FromPasst \cup {"defaults"}
FromStubs == FromDefaults \cup {"stubs"}
FromNamespace == FromStubs \cup {"namespace"}

Prepared == [namespace : {"", "prod", Default}, uid : {"", "prod", Default}, sound : BOOLEAN,
             volumes : Seq(Volumes), disks : SUBSET Nat]

\* The stubs a VM gets whose namespace is set.
StubsOf(v) == {<<v.namespace, w[2]>> : w \in {u \in ToSet(v.volumes) : u[1] \in Stubbed}}

StatusOfInterfaces == [k \in 1..Len(interfaces) |-> <<interfaces[k][1], k>>]

\* What each call has done, as long as its result is used.
PIInv ==
    /\ vm \in Prepared
    /\ stage \in FromNamespace \cup {"validate", "refused", "error"}
    /\ stage \in FromNamespace => DisksHaveVolumes
    /\ stage \in FromStubs => vm.namespace # ""
    /\ stage \in FromDefaults => stubs = StubsOf(vm)
    /\ stage \in FromPasst => vm.disks = 1..Len(vm.volumes)
    /\ stage \in FromUID => next[1] = "done"
    /\ stage \notin FromStatus => vm.uid = ""
    /\ stage \in FromStatus => vm.uid = vm.namespace
    /\ stage \in FromRender => status = StatusOfInterfaces
    /\ stage = "rendered" => Lookups \subseteq stubs
    /\ stage = "failed" => ~(Lookups \subseteq stubs)

USE DEF FromRender, FromStatus, FromUID, FromPasst, FromDefaults, FromStubs, FromNamespace

LEMMA PInitInv == PInit => PIInv
<1> SUFFICES ASSUME PInit PROVE PIInv
    OBVIOUS
<1>1. \A s \in BoundedSeq(Volumes, MaxVolumes) : s \in Seq(Volumes)
    BY MaxVolumesAssumption DEF BoundedSeq, SeqOf
<1>2. vm \in VMs
    BY DEF PInit
<1>3. vm \in Prepared
  <2>1. \A d \in SUBSET (0..MaxVolumes) : d \in SUBSET Nat
    BY MaxVolumesAssumption
  <2>2. QED
    BY <1>1, <1>2, <2>1 DEF VMs, Prepared
<1>4. vm.uid = ""
    BY <1>2 DEF VMs
<1>5. QED
    BY <1>3, <1>4 DEF PInit, PIInv

\* Once the namespace is there, the stubs are under it, where the renderer looks.
LEMMA StubsAreInNamespace ==
    ASSUME vm.namespace # "" PROVE ClaimsOf(Stubbed) = StubsOf(vm)
BY DEF ClaimsOf, NamespaceOf, StubsOf

\* The renderer finds every claim exactly if each is that of a volume with a stub.
LEMMA FoundIfNamed ==
    (Lookups \subseteq StubsOf(vm)) <=>
       \A v \in ToSet(vm.volumes) : v[1] = "ephemeral" =>
         \E w \in ToSet(vm.volumes) : w[1] \in Stubbed /\ w[2] = v[2]
<1>1. \A v : v[1] \in Claiming <=> v[1] \in Stubbed \/ v[1] = "ephemeral"
    BY DEF Claiming
<1>2. ASSUME NEW v \in ToSet(vm.volumes)
      PROVE  <<vm.namespace, v[2]>> \in StubsOf(vm) <=>
               \E w \in ToSet(vm.volumes) : w[1] \in Stubbed /\ w[2] = v[2]
    BY DEF StubsOf
<1>3. (Lookups \subseteq StubsOf(vm)) <=>
        \A v \in ToSet(vm.volumes) : v[1] \in Claiming => <<vm.namespace, v[2]>> \in StubsOf(vm)
    BY DEF Lookups
<1>4. QED
    BY <1>1, <1>2, <1>3

LEMMA PNextInv == PIInv /\ [PNext]_pvars => PIInv'
<1> SUFFICES ASSUME PIInv, [PNext]_pvars PROVE PIInv'
    OBVIOUS
<1>1. CASE Validate
    BY <1>1 DEF StatusOfInterfaces, PIInv, Validate, Call, After, DisksHaveVolumes, StubsOf, Lookups, vars
<1>2. CASE Refuse
    BY <1>2 DEF StatusOfInterfaces, PIInv, Refuse, DisksHaveVolumes, StubsOf, Lookups, vars
<1>3. CASE DefaultNamespace
    BY <1>3 DEF StatusOfInterfaces, PIInv, DefaultNamespace, Call, After, DisksHaveVolumes, Prepared,
                NamespaceOf, Default, vars
<1>4. CASE StubPVCs
    BY <1>4, StubsAreInNamespace DEF StatusOfInterfaces, PIInv, StubPVCs, Call, After, DisksHaveVolumes, StubsOf, Lookups, vars
<1>5. CASE SetDefaults
  <2>1. Len(vm.volumes) \in Nat
    <3>1. vm.volumes \in Seq(Volumes)
      BY DEF PIInv, Prepared
    <3>2. QED
      BY <3>1
  <2>2. vm' = [vm EXCEPT !.disks = 1..Len(vm.volumes)]
    BY <1>5 DEF PIInv, SetDefaults, Call, DisksHaveVolumes
  <2>3. /\ vm' \in Prepared /\ vm'.disks = 1..Len(vm'.volumes)
        /\ vm'.namespace = vm.namespace /\ vm'.uid = vm.uid /\ vm'.volumes = vm.volumes
    <3>1. 1..Len(vm.volumes) \in SUBSET Nat
      BY <2>1
    <3>2. QED
      BY <2>2, <3>1 DEF PIInv, Prepared
  <2>4. StubsOf(vm)' = StubsOf(vm) /\ Lookups' = Lookups
    BY <2>3 DEF StubsOf, Lookups
  <2>5. stage = "defaults" /\ stage' = "passt" /\ UNCHANGED <<stubs, status, vars>>
    BY <1>5 DEF SetDefaults, Call, After
  <2>6. QED
    BY <2>3, <2>4, <2>5 DEF PIInv, DisksHaveVolumes
<1>6. CASE ForcePasstBinding
  <2>1. CASE stage = "passt" /\ UNCHANGED stage
    BY <1>6, <2>1 DEF StatusOfInterfaces, PIInv, ForcePasstBinding, DisksHaveVolumes, StubsOf, Lookups
  <2>2. CASE Call("passt") /\ next[1] = "done" /\ UNCHANGED vars
    BY <1>6, <2>2 DEF StatusOfInterfaces, PIInv, ForcePasstBinding, Call, After, DisksHaveVolumes, StubsOf, Lookups, vars
  <2>3. QED
    BY <1>6, <2>1, <2>2 DEF ForcePasstBinding
<1>7. CASE SetUID
  <2>1. vm' = [vm EXCEPT !.uid = vm.namespace] /\ UNCHANGED <<next, stubs>>
    BY <1>7 DEF PIInv, SetUID, Call, vars
  <2>2. vm' \in Prepared /\ vm'.uid = vm'.namespace /\ vm'.namespace = vm.namespace
        /\ vm'.disks = vm.disks /\ vm'.volumes = vm.volumes
    BY <2>1 DEF PIInv, Prepared
  <2>3. stage = "uid" /\ stage' = "status"
    BY <1>7 DEF SetUID, Call, After
  <2>4. StubsOf(vm)' = StubsOf(vm) /\ Lookups' = Lookups
    BY <2>2 DEF StubsOf, Lookups
  <2>5. QED
    BY <2>1, <2>2, <2>3, <2>4 DEF PIInv, DisksHaveVolumes
<1>8. CASE PopulateInterfaceStatus
  <2>1. stage = "status" /\ stage' = "render" /\ UNCHANGED <<vm, stubs, vars>>
    BY <1>8 DEF PopulateInterfaceStatus, Call, After
  <2>2. UNCHANGED <<next, interfaces>>
    BY <2>1 DEF vars
  <2>3. status' = StatusOfInterfaces'
    BY <1>8, <2>2 DEF PopulateInterfaceStatus, StatusOfInterfaces
  <2>4. StubsOf(vm)' = StubsOf(vm) /\ Lookups' = Lookups
    BY <2>1 DEF StubsOf, Lookups
  <2>5. QED
    BY <2>1, <2>2, <2>3, <2>4 DEF PIInv, DisksHaveVolumes
<1>9. CASE Render
  <2>1. /\ stage = "render"
        /\ stage' = IF Lookups \subseteq stubs THEN "rendered" ELSE "failed"
        /\ UNCHANGED <<vm, stubs, status, interfaces, next>>
    BY <1>9 DEF Render, vars
  <2>2. stage' \in {"rendered", "failed"}
    BY <2>1
  <2>3. /\ Lookups' = Lookups /\ StubsOf(vm)' = StubsOf(vm)
        /\ StatusOfInterfaces' = StatusOfInterfaces
    BY <2>1 DEF Lookups, StubsOf, StatusOfInterfaces
  <2>4. (stage = "rendered")' => Lookups \subseteq stubs
    BY <2>1
  <2>5. (stage = "failed")' => ~(Lookups \subseteq stubs)
    BY <2>1
  <2>6. QED
    BY <2>1, <2>2, <2>3, <2>4, <2>5 DEF PIInv, DisksHaveVolumes
<1>10. CASE DefaultsFail
    BY <1>10 DEF PIInv, DefaultsFail, DisksHaveVolumes, StubsOf, Lookups, vars
<1>11. CASE UNCHANGED pvars
    BY <1>11 DEF StatusOfInterfaces, PIInv, pvars, vars, DisksHaveVolumes, StubsOf, Lookups
<1>12. QED
    BY <1>1, <1>2, <1>3, <1>4, <1>5, <1>6, <1>7, <1>8, <1>9, <1>10, <1>11 DEF PNext, Ended

LEMMA PInvariance == PSpec => []PIInv
BY PInitInv, PNextInv, PTL DEF PSpec

\* No call but ForcePasstBinding touches networks or interfaces.
LEMMA PStepsAreSteps == [PNext]_pvars => [Next]_vars
BY DEF PNext, pvars, Validate, Refuse, DefaultNamespace, StubPVCs, SetDefaults,
       DefaultsFail, ForcePasstBinding, SetUID, PopulateInterfaceStatus, Render, Ended

\* The passes keep their invariant within step 3.
LEMMA PassInvariance == ~MultusDefault /\ PSpec => []IInv
<1>1. ~MultusDefault /\ PInit => IInv
    BY InitInv DEF PInit
<1>2. IInv /\ [PNext]_pvars => IInv'
    BY PStepsAreSteps, NextInv
<1>3. QED
    BY <1>1, <1>2, PTL DEF PSpec

\* Step 4 finds the claims of all volumes that step 3 has stubs for, whatever the
\* namespace, and renders exactly the VMs that name no other claim.
THEOREM Renders == PSpec => []ClaimsFound
<1>1. PIInv => ClaimsFound
    BY FoundIfNamed DEF PIInv, ClaimsFound
<1>2. QED
    BY <1>1, PInvariance, PTL

\* A rendered pod has a disk for each volume and no other.
THEOREM Whole == PSpec => []RenderedIsWhole
<1>1. PIInv => RenderedIsWhole
    BY DEF StatusOfInterfaces, PIInv, RenderedIsWhole
<1>2. QED
    BY <1>1, PInvariance, PTL

\* The UID is the namespace of the domain and of the claims.
THEOREM Domain == PSpec => []DomainIsFound
<1>1. ASSUME PIInv, stage = "rendered", NEW c \in stubs PROVE c[1] = vm.uid
  <2>1. c \in StubsOf(vm) /\ vm.uid = vm.namespace
    BY <1>1 DEF PIInv
  <2>2. QED
    BY <2>1 DEF StubsOf
<1>2. PIInv => DomainIsFound
    BY <1>1 DEF PIInv, DomainIsFound
<1>3. QED
    BY <1>2, PInvariance, PTL

\* The status names the interfaces of the guest, all on networks of the pod, if
\* no Multus network is called "default".
THEOREM Status == ~MultusDefault /\ PSpec => []StatusMatchesInterfaces
<1>1. ASSUME PIInv, IInv, stage \in FromRender PROVE StatusMatchesInterfaces
  <2>1. /\ status = [k \in 1..Len(interfaces) |-> <<interfaces[k][1], k>>]
        /\ next[1] = "done" /\ Len(interfaces) \in Nat
    <3>1. status = StatusOfInterfaces /\ next[1] = "done"
      BY <1>1 DEF PIInv
    <3>2. interfaces \in Seq(AllNames \X Bindings)
      BY <1>1 DEF IInv, TypeOK, Bindings
    <3>3. Len(interfaces) \in Nat
      BY <3>2
    <3>4. QED
      BY <3>1, <3>3 DEF StatusOfInterfaces
  <2>2. Len(status) = Len(interfaces)
    BY <2>1
  <2>3. \A k \in 1..Len(interfaces) : status[k][1] = interfaces[k][1]
    BY <2>1
  <2>4. \A k \in 1..Len(interfaces) : OnPod(interfaces[k][1])
    BY <1>1, <2>1 DEF IInv, Dealt
  <2>5. \A s \in ToSet(status) : OnPod(s[1])
    BY <2>1, <2>3, <2>4 DEF ToSet
  <2>6. QED
    BY <2>2, <2>3, <2>5 DEF StatusMatchesInterfaces
<1>2. PIInv /\ IInv => StatusMatchesInterfaces
    BY <1>1 DEF StatusMatchesInterfaces
<1>3. QED
    BY <1>2, PInvariance, PassInvariance, PTL

\* What step 3 hands to the renderer has the VM's networks in their order, and
\* those without an interface as they were.
THEOREM Kept == ~MultusDefault /\ PSpec => []GivenNetworksKept
<1>1. PInit => KeptInv
    BY KeptInit DEF PInit
<1>2. IInv /\ KeptInv /\ [PNext]_pvars => KeptInv'
    BY PStepsAreSteps, KeptNext
<1>3. QED
    BY <1>1, <1>2, KeptIsKept, PassInvariance, PTL DEF PSpec

=============================================================================
