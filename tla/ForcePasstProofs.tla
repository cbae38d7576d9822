-------------------------- MODULE ForcePasstProofs --------------------------
(***************************************************************************)
(* forcePasstBinding on any number of networks and interfaces: if no Multus*)
(* network of the VM is called "default", every interface ends on a network*)
(* of the pod.                                                             *)
(***************************************************************************)
EXTENDS ForcePasst, EnumerationLemmas, TLAPS

Kinds == {"pod", "multus"}
Bindings == {"passt", "masquerade", "bridge"}

LEMMA GivenAreSequences ==
    /\ \A s \in GivenNetworks : s \in Seq(AllNames \X Kinds)
    /\ \A s \in GivenInterfaces : s \in Seq(AllNames \X Bindings)
<1>1. \A S : \A s \in BoundedSeq(S, MaxNetworks) : s \in Seq(S)
    BY MaxNetworksAssumption DEF BoundedSeq, SeqOf
<1>2. \A S : \A s \in BoundedSeq(S, MaxInterfaces) : s \in Seq(S)
    BY MaxInterfacesAssumption DEF BoundedSeq, SeqOf
<1>3. ASSUME NEW s \in GivenNetworks PROVE s \in Seq(AllNames \X Kinds)
    BY <1>1 DEF GivenNetworks, AllNames, Kinds
<1>4. ASSUME NEW s \in GivenInterfaces PROVE s \in Seq(AllNames \X Bindings)
  <2>1. s \in Seq((Names \cup {Default}) \X {"masquerade", "bridge"})
    BY <1>2 DEF GivenInterfaces
  <2>2. QED
    BY <2>1 DEF AllNames, Bindings
<1>5. QED
    BY <1>3, <1>4

\* Distinct names, without the detour over the sequence of the names.
LEMMA DistinctNames ==
    ASSUME networks \in Seq(AllNames \X Kinds)
    PROVE  NetworkNamesDistinct <=>
             \A j, k \in 1..Len(networks) : networks[j][1] = networks[k][1] => j = k
BY DEF NetworkNamesDistinct, IsInjective

\* The first network of a name is the only one.
LEMMA FirstMatch ==
    ASSUME networks \in Seq(AllNames \X Kinds), NetworkNamesDistinct,
           NEW name, Matching(name) # {}
    PROVE  /\ FirstOf(Matching(name)) \in 1..Len(networks)
           /\ networks[FirstOf(Matching(name))][1] = name
<1>1. PICK k \in 1..Len(networks) : networks[k][1] = name
    BY DEF Matching
<1>2. Matching(name) = {k}
    BY <1>1, DistinctNames DEF Matching
<1>3. FirstOf({k}) = k
    BY DEF FirstOf
<1>4. QED
    BY <1>1, <1>2, <1>3

\* A network of the name "default" can only be the pod's.
LEMMA DefaultIsPod ==
    ASSUME networks \in Seq(AllNames \X Kinds), <<Default, "multus">> \notin ToSet(networks),
           NEW k \in 1..Len(networks), networks[k][1] = Default
    PROVE  networks[k] = PodDefault
<1>1. networks[k] \in AllNames \X Kinds /\ networks[k] # <<Default, "multus">>
    BY DEF ToSet
<1>2. QED
    BY <1>1 DEF Kinds, PodDefault

LEMMA InitInv == ~MultusDefault /\ Init => IInv
<1> SUFFICES ASSUME ~MultusDefault, Init PROVE IInv
    OBVIOUS
<1>1. networks \in Seq(AllNames \X Kinds) /\ interfaces \in Seq(AllNames \X Bindings)
    BY GivenAreSequences DEF Init
<1>2. TypeOK
    BY <1>1 DEF Init, TypeOK, Kinds, Bindings
<1>3. NetworkNamesDistinct /\ <<Default, "multus">> \notin ToSet(networks)
    BY DEF Init, GivenNetworks, NetworkNamesDistinct
<1>4. QED
    BY <1>2, <1>3 DEF Init, IInv

\* The pod network is put in front only if no network is called "default".
LEMMA EnsureInv == IInv /\ EnsurePodNetwork => IInv'
<1> SUFFICES ASSUME IInv, EnsurePodNetwork PROVE IInv'
    OBVIOUS
<1>1. /\ networks \in Seq(AllNames \X Kinds) /\ interfaces \in Seq(AllNames \X Bindings)
    BY DEF IInv, TypeOK, Kinds, Bindings
<1>2. /\ interfaces' = interfaces
      /\ \/ interfaces = <<>> /\ next' = <<"done", 1>>
         \/ 1 \in 1..Len(interfaces) /\ next' = <<"bind", 1>>
    BY <1>1 DEF EnsurePodNetwork, FirstPass
<1>3. /\ networks' \in Seq(AllNames \X Kinds)
      /\ NetworkNamesDistinct'
      /\ <<Default, "multus">> \notin ToSet(networks')
  <2>1. CASE \E k \in 1..Len(networks) : networks[k][2] = "pod"
    <3>1. networks' = networks
        BY <2>1 DEF EnsurePodNetwork
    <3>2. QED
        BY <3>1, <1>1 DEF IInv, NetworkNamesDistinct
  <2>2. CASE ~\E k \in 1..Len(networks) : networks[k][2] = "pod"
    <3>1. networks' = <<PodDefault>> \o networks
        BY <2>2 DEF EnsurePodNetwork
    <3>2. PodDefault \in AllNames \X Kinds
        BY DEF PodDefault, AllNames, Kinds
    <3>3. networks' \in Seq(AllNames \X Kinds) /\ DOMAIN networks' = 1..Len(networks')
        BY <3>1, <3>2, <1>1
    <3>4. \A k \in 1..Len(networks) : networks[k][1] # Default
        BY <2>2, <1>1, DefaultIsPod DEF IInv, PodDefault
    <3>5. ASSUME NEW k \in 1..Len(networks')
          PROVE  \/ k = 1 /\ networks'[k] = PodDefault
                 \/ k - 1 \in 1..Len(networks) /\ networks'[k] = networks[k - 1]
      <4>1. Len(<<PodDefault>>) = 1 /\ <<PodDefault>>[1] = PodDefault
            /\ <<PodDefault>> \in Seq(AllNames \X Kinds)
          BY <3>2
      <4>2. QED
          BY <3>1, <4>1, <1>1
    <3>6. ASSUME NEW j \in 1..Len(networks'), NEW k \in 1..Len(networks'),
                 networks'[j][1] = networks'[k][1]
          PROVE  j = k
      <4>1. \A i, n \in 1..Len(networks) : networks[i][1] = networks[n][1] => i = n
          BY <1>1, DistinctNames DEF IInv
      <4>2. PodDefault[1] = Default
          BY DEF PodDefault
      <4>3. j \in Int /\ k \in Int
          OBVIOUS
      <4>4. CASE k - 1 \in 1..Len(networks) /\ j - 1 \in 1..Len(networks)
                 /\ networks'[k] = networks[k - 1] /\ networks'[j] = networks[j - 1]
        <5>1. j - 1 = k - 1
            BY <4>1, <4>4, <3>6
        <5>2. QED
            BY <5>1, <4>3
      <4>5. QED
          BY <3>4, <3>5, <3>6, <4>2, <4>4
    <3>7. NetworkNamesDistinct'
        BY <3>3, <3>6 DEF NetworkNamesDistinct, IsInjective
    <3>8. \A k \in 1..Len(networks') : networks'[k] # <<Default, "multus">>
      <4>1. \A k \in 1..Len(networks) : networks[k] # <<Default, "multus">>
          BY <1>1 DEF IInv, ToSet
      <4>2. PodDefault # <<Default, "multus">>
          BY DEF PodDefault
      <4>3. QED
          BY <4>1, <4>2, <3>5
    <3>9. QED
        BY <3>3, <3>7, <3>8 DEF ToSet
  <2>3. QED
      BY <2>1, <2>2
<1>4. TypeOK'
    BY <1>1, <1>2, <1>3 DEF TypeOK, Kinds, Bindings, Passes
<1>5. QED
    BY <1>1, <1>2, <1>3, <1>4 DEF IInv, Dealt

\* What a pass of a loop leaves to do.
LEMMA PassNext ==
    ASSUME TypeOK, NEW loop \in {"bind", "attach"}, NEW after, after # loop,
           Pass(loop, after)
    PROVE  /\ next[2] \in 1..Len(interfaces)
           /\ next = <<loop, next[2]>>
           /\ \/ next[2] = Len(interfaces) /\ next' = <<after, 1>>
              \/ next[2] + 1 \in 1..Len(interfaces) /\ next' = <<loop, next[2] + 1>>
<1>1. next \in Passes("bind") \cup Passes("attach")
    BY DEF Pass, TypeOK
<1>2. PICK l \in {"bind", "attach"}, k \in 1..Len(interfaces) : next = <<l, k>>
    BY <1>1 DEF Passes
<1>3. l = loop /\ next[2] = k
    BY <1>2 DEF Pass
<1>4. Len(interfaces) \in Nat
    BY DEF TypeOK
<1>5. next' = IF k = Len(interfaces) THEN <<after, 1>> ELSE <<loop, k + 1>>
    BY <1>3 DEF Pass
<1>6. QED
    BY <1>2, <1>3, <1>4, <1>5

LEMMA BindInv == IInv /\ Bind => IInv'
<1> SUFFICES ASSUME IInv, Bind PROVE IInv'
    OBVIOUS
<1> DEFINE i == next[2]
<1>1. /\ interfaces \in Seq(AllNames \X Bindings)
    BY DEF IInv, TypeOK, Bindings
<1>2. /\ i \in 1..Len(interfaces) /\ next = <<"bind", i>>
      /\ \/ i = Len(interfaces) /\ next' = <<"attach", 1>>
         \/ i + 1 \in 1..Len(interfaces) /\ next' = <<"bind", i + 1>>
    BY PassNext DEF IInv, Bind
<1>3. interfaces' = [interfaces EXCEPT ![i] = <<interfaces[i][1], "passt">>]
      /\ networks' = networks
    BY DEF Bind
<1>4. interfaces[i] \in AllNames \X Bindings
    BY <1>1, <1>2
<1>5. <<interfaces[i][1], "passt">> \in AllNames \X Bindings
    BY <1>4 DEF Bindings
<1>6. interfaces' \in Seq(AllNames \X Bindings) /\ Len(interfaces') = Len(interfaces)
    BY <1>1, <1>2, <1>3, <1>5
<1>7. TypeOK'
    BY <1>2, <1>3, <1>6, <1>1 DEF IInv, TypeOK, Passes, Bindings
<1>8. NetworkNamesDistinct' /\ <<Default, "multus">> \notin ToSet(networks')
    BY <1>3 DEF IInv, NetworkNamesDistinct
<1>9. \A k \in 1..i : interfaces'[k][2] = "passt"
  <2>1. \A k \in 1..(i - 1) : interfaces[k][2] = "passt"
    BY <1>2 DEF IInv, Dealt
  <2>2. interfaces'[i] = <<interfaces[i][1], "passt">>
    BY <1>1, <1>2, <1>3
  <2>3. \A k \in 1..(i - 1) : interfaces'[k] = interfaces[k]
    BY <1>1, <1>2, <1>3
  <2>4. \A k \in 1..i : k = i \/ k \in 1..(i - 1)
    BY <1>2
  <2>5. QED
    BY <2>1, <2>2, <2>3, <2>4
<1>10. \A k \in Dealt("bind")' : interfaces'[k][2] = "passt"
  <2>1. Dealt("bind")' \subseteq 1..i
    BY <1>2, <1>6 DEF Dealt
  <2>2. QED
    BY <2>1, <1>9
<1>11. next'[1] \in {"attach", "done"} => Dealt("attach")' = {}
    BY <1>2 DEF Dealt
<1>12. QED
    BY <1>7, <1>8, <1>10, <1>11 DEF IInv

LEMMA AttachInv == IInv /\ Attach => IInv'
<1> SUFFICES ASSUME IInv, Attach PROVE IInv'
    OBVIOUS
<1> DEFINE i == next[2]
           name == interfaces[i][1]
           f == FirstOf(Matching(name))
<1>1. /\ networks \in Seq(AllNames \X Kinds) /\ interfaces \in Seq(AllNames \X Bindings)
    BY DEF IInv, TypeOK, Kinds, Bindings
<1>2. Pass("attach", "done") /\ Matching(name) # {} /\ interfaces' = interfaces
      /\ networks' = [networks EXCEPT ![f] = <<networks[f][1], "pod">>]
    BY DEF Attach
<1>3. /\ i \in 1..Len(interfaces) /\ next = <<"attach", i>>
      /\ \/ i = Len(interfaces) /\ next' = <<"done", 1>>
         \/ i + 1 \in 1..Len(interfaces) /\ next' = <<"attach", i + 1>>
    BY <1>2, PassNext DEF IInv
<1>4. f \in 1..Len(networks) /\ networks[f][1] = name
    BY <1>1, <1>2, FirstMatch DEF IInv
<1>5. <<networks[f][1], "pod">> \in AllNames \X Kinds
  <2>1. networks[f] \in AllNames \X Kinds
    BY <1>1, <1>4
  <2>2. QED
    BY <2>1 DEF Kinds
<1>6. /\ networks' \in Seq(AllNames \X Kinds) /\ Len(networks') = Len(networks)
      /\ DOMAIN networks' = 1..Len(networks')
      /\ networks'[f] = <<name, "pod">>
      /\ \A k \in 1..Len(networks) : k # f => networks'[k] = networks[k]
    BY <1>1, <1>2, <1>4, <1>5
<1>7. TypeOK'
    BY <1>1, <1>2, <1>3, <1>6 DEF TypeOK, Passes, Kinds, Bindings
<1>8. NetworkNamesDistinct'
  <2>1. \A k \in 1..Len(networks) : networks'[k][1] = networks[k][1]
    BY <1>4, <1>6
  <2>2. \A j, k \in 1..Len(networks) : networks[j][1] = networks[k][1] => j = k
    BY <1>1, DistinctNames DEF IInv
  <2>3. QED
    BY <2>1, <2>2, <1>6 DEF NetworkNamesDistinct, IsInjective
<1>9. <<Default, "multus">> \notin ToSet(networks')
  <2>1. \A k \in 1..Len(networks) : networks[k] # <<Default, "multus">>
    BY <1>1 DEF IInv, ToSet
  <2>2. <<name, "pod">> # <<Default, "multus">>
    OBVIOUS
  <2>3. QED
    BY <2>1, <2>2, <1>6 DEF ToSet
<1>10. next'[1] # "ensure" => \A k \in Dealt("bind")' : interfaces'[k][2] = "passt"
  <2>1. Dealt("bind") = 1..Len(interfaces) /\ Dealt("bind")' = 1..Len(interfaces)
    BY <1>2, <1>3 DEF Dealt
  <2>2. QED
    BY <2>1, <1>2, <1>3 DEF IInv
<1> DEFINE OnPodNext(n) == \E k \in 1..Len(networks') : networks'[k] = <<n, "pod">>
<1>11. \A n : OnPod(n) => OnPodNext(n)
    BY <1>4, <1>6 DEF OnPod
<1>12. OnPodNext(name)
    BY <1>4, <1>6
<1>13. ASSUME NEW k \in Dealt("attach")'
       PROVE  OnPodNext(interfaces'[k][1])
  <2>1. Dealt("attach")' \subseteq 1..i /\ Dealt("attach") = 1..(i - 1)
    BY <1>2, <1>3 DEF Dealt
  <2>2. k = i \/ k \in 1..(i - 1)
    BY <2>1, <1>3
  <2>3. k \in 1..(i - 1) => OnPod(interfaces[k][1])
    BY <2>1, <1>3 DEF IInv
  <2>4. QED
    BY <2>2, <2>3, <1>2, <1>11, <1>12
<1>14. QED
    BY <1>2, <1>7, <1>8, <1>9, <1>10, <1>13 DEF IInv, OnPod

\* A renamed interface finds the network "default", which is the pod's, or has
\* it appended.
LEMMA RenameInv == IInv /\ Rename => IInv'
<1> SUFFICES ASSUME IInv, Rename PROVE IInv'
    OBVIOUS
<1> DEFINE i == next[2]
<1>1. /\ networks \in Seq(AllNames \X Kinds) /\ interfaces \in Seq(AllNames \X Bindings)
    BY DEF IInv, TypeOK, Kinds, Bindings
<1>2. /\ Pass("attach", "done")
      /\ interfaces' = [interfaces EXCEPT ![i] = <<Default, interfaces[i][2]>>]
      /\ networks' = IF Matching(Default) = {} THEN Append(networks, PodDefault)
                     ELSE networks
    BY DEF Rename
<1>3. /\ i \in 1..Len(interfaces) /\ next = <<"attach", i>>
      /\ \/ i = Len(interfaces) /\ next' = <<"done", 1>>
         \/ i + 1 \in 1..Len(interfaces) /\ next' = <<"attach", i + 1>>
    BY <1>2, PassNext DEF IInv
<1>4. <<Default, interfaces[i][2]>> \in AllNames \X Bindings
  <2>1. interfaces[i] \in AllNames \X Bindings
    BY <1>1, <1>3
  <2>2. QED
    BY <2>1 DEF AllNames
<1>5. /\ interfaces' \in Seq(AllNames \X Bindings) /\ Len(interfaces') = Len(interfaces)
      /\ interfaces'[i] = <<Default, interfaces[i][2]>>
      /\ \A k \in 1..Len(interfaces) : k # i => interfaces'[k] = interfaces[k]
    BY <1>1, <1>2, <1>3, <1>4
<1> DEFINE OnPodNext(n) == \E k \in 1..Len(networks') : networks'[k] = <<n, "pod">>
<1>6. /\ networks' \in Seq(AllNames \X Kinds)
      /\ NetworkNamesDistinct'
      /\ <<Default, "multus">> \notin ToSet(networks')
      /\ \A n : OnPod(n) => OnPodNext(n)
      /\ OnPodNext(Default)
  <2>1. CASE Matching(Default) # {}
    <3>1. networks' = networks
        BY <2>1, <1>2
    <3>2. PICK k \in 1..Len(networks) : networks[k][1] = Default
        BY <2>1 DEF Matching
    <3>3. networks[k] = <<Default, "pod">>
        BY <3>2, <1>1, DefaultIsPod DEF IInv, PodDefault
    <3>4. QED
        BY <3>1, <3>3, <1>1 DEF IInv, NetworkNamesDistinct, OnPod
  <2>2. CASE Matching(Default) = {}
    <3> DEFINE L == Len(networks)
    <3>1. PodDefault \in AllNames \X Kinds /\ PodDefault = <<Default, "pod">>
        BY DEF PodDefault, AllNames, Kinds
    <3>2. /\ networks' \in Seq(AllNames \X Kinds) /\ Len(networks') = L + 1
          /\ networks'[L + 1] = PodDefault
          /\ \A k \in 1..L : networks'[k] = networks[k]
          /\ DOMAIN networks' = 1..(L + 1)
        BY <2>2, <1>1, <1>2, <3>1
    <3>3. L \in Nat
        BY <1>1
    <3>4. \A k \in 1..(L + 1) : k = L + 1 \/ k \in 1..L
        BY <3>3
    <3>5. \A k \in 1..L : networks[k][1] # Default /\ networks[k] # <<Default, "multus">>
        BY <2>2 DEF Matching
    <3>6. \A j, k \in 1..L : networks[j][1] = networks[k][1] => j = k
        BY <1>1, DistinctNames DEF IInv
    <3>7. \A j, k \in 1..(L + 1) : networks'[j][1] = networks'[k][1] => j = k
        BY <3>1, <3>2, <3>4, <3>5, <3>6
    <3>8. NetworkNamesDistinct'
        BY <3>2, <3>7 DEF NetworkNamesDistinct, IsInjective
    <3>9. <<Default, "multus">> \notin ToSet(networks')
        BY <3>1, <3>2, <3>4, <3>5 DEF ToSet
    <3>10. (\A n : OnPod(n) => OnPodNext(n)) /\ OnPodNext(Default)
      <4>1. L + 1 \in 1..Len(networks') /\ networks'[L + 1] = <<Default, "pod">>
          BY <3>1, <3>2, <3>3
      <4>2. OnPodNext(Default)
          BY <4>1
      <4>3. ASSUME NEW n, OnPod(n) PROVE OnPodNext(n)
        <5>1. PICK k \in 1..L : networks[k] = <<n, "pod">>
            BY <4>3 DEF OnPod
        <5>2. k \in 1..Len(networks') /\ networks'[k] = <<n, "pod">>
            BY <5>1, <3>2, <3>3
        <5>3. QED
            BY <5>2
      <4>4. QED
          BY <4>2, <4>3
    <3>11. QED
        BY <3>2, <3>8, <3>9, <3>10
  <2>3. QED
      BY <2>1, <2>2
<1>7. TypeOK'
    BY <1>1, <1>3, <1>5, <1>6 DEF TypeOK, Passes, Kinds, Bindings
<1>8. ASSUME NEW k \in Dealt("bind")'
      PROVE  interfaces'[k][2] = "passt"
  <2>1. Dealt("bind") = 1..Len(interfaces) /\ Dealt("bind")' = 1..Len(interfaces)
    BY <1>3, <1>5 DEF Dealt
  <2>2. interfaces[k][2] = "passt"
    BY <2>1, <1>3 DEF IInv
  <2>3. QED
    BY <2>1, <2>2, <1>5
<1>9. ASSUME NEW k \in Dealt("attach")'
      PROVE  OnPodNext(interfaces'[k][1])
  <2>1. Dealt("attach")' \subseteq 1..i /\ Dealt("attach") = 1..(i - 1)
    BY <1>3, <1>5 DEF Dealt
  <2>2. k = i \/ (k \in 1..(i - 1) /\ k \in 1..Len(interfaces) /\ k # i)
    BY <2>1, <1>3, <1>1
  <2>3. k \in 1..(i - 1) => OnPod(interfaces[k][1])
    BY <2>1, <1>3 DEF IInv
  <2>4. CASE k = i
    <3>1. interfaces'[k][1] = Default
        BY <2>4, <1>5
    <3>2. QED
        BY <3>1, <1>6
  <2>5. CASE k \in 1..(i - 1) /\ k \in 1..Len(interfaces) /\ k # i
    <3>1. interfaces'[k] = interfaces[k]
        BY <2>5, <1>5
    <3>2. QED
        BY <3>1, <2>3, <2>5, <1>6
  <2>6. QED
    BY <2>2, <2>4, <2>5
<1>10. QED
    BY <1>6, <1>7, <1>8, <1>9 DEF IInv, OnPod

LEMMA NextInv == IInv /\ [Next]_vars => IInv'
<1> SUFFICES ASSUME IInv, [Next]_vars PROVE IInv'
    OBVIOUS
<1>1. CASE UNCHANGED vars
    BY <1>1 DEF vars, IInv, TypeOK, NetworkNamesDistinct, Dealt, OnPod, Passes
<1>2. CASE Done
    BY <1>1, <1>2 DEF Done
<1>3. QED
    BY <1>1, <1>2, EnsureInv, BindInv, AttachInv, RenameInv DEF Next

\* The inductive invariant, for any networks and interfaces of a VM that has no
\* Multus network called "default".
THEOREM Invariance == ~MultusDefault => (Spec => []IInv)
BY InitInv, NextInv, PTL DEF Spec

\* Every interface of such a VM ends with the passt binding on a network of the
\* pod, found by its name, however forcePasstBinding has renamed and added.
THEOREM InterfacesReachPod == ~MultusDefault => (Spec => []InterfacesOnPod)
<1>1. IInv => InterfacesOnPod
  <2> SUFFICES ASSUME IInv, next[1] = "done", NEW i \in ToSet(interfaces)
               PROVE  /\ i[2] = "passt"
                      /\ Matching(i[1]) # {}
                      /\ \A k \in Matching(i[1]) : networks[k][2] = "pod"
      BY DEF InterfacesOnPod
  <2>1. /\ networks \in Seq(AllNames \X Kinds) /\ interfaces \in Seq(AllNames \X Bindings)
      BY DEF IInv, TypeOK, Kinds, Bindings
  <2>2. PICK n \in 1..Len(interfaces) : i = interfaces[n]
      BY <2>1 DEF ToSet
  <2>3. i[2] = "passt" /\ OnPod(i[1])
      BY <2>2 DEF IInv, Dealt
  <2>4. PICK k \in 1..Len(networks) : networks[k] = <<i[1], "pod">>
      BY <2>3 DEF OnPod
  <2>5. Matching(i[1]) = {k}
      BY <2>1, <2>4, DistinctNames DEF Matching, IInv
  <2>6. QED
      BY <2>3, <2>4, <2>5
<1>2. QED
    BY <1>1, Invariance, PTL

\* The pod network that is prepended or appended never shares its name.
THEOREM NamesStayDistinct == ~MultusDefault => (Spec => []NetworkNamesDistinct)
<1>1. IInv => NetworkNamesDistinct
    BY DEF IInv
<1>2. QED
    BY <1>1, Invariance, PTL

-----------------------------------------------------------------------------
(***************************************************************************)
(* What becomes of the networks the VM came with.                          *)
(***************************************************************************)

\* They are together in networks from o + 1 on.
KeptFrom(o) ==
    /\ Len(given) + o <= Len(networks)
    /\ \A k \in 1..Len(given) :
         /\ networks[k + o][1] = given[k][1]
         /\ networks[k + o] = given[k] \/ given[k][1] \in Wanted

LEMMA KeptIs ==
    KeptInv <=> /\ given \in Seq(AllNames \X Kinds)
                /\ next[1] = "ensure" => networks = given
                /\ \E o \in {0, 1} : KeptFrom(o)
BY DEF KeptInv, KeptFrom, Kinds

LEMMA KeptInit == Init => KeptInv
<1> SUFFICES ASSUME Init PROVE KeptInv
    OBVIOUS
<1>1. given \in Seq(AllNames \X Kinds) /\ networks = given
    BY GivenAreSequences DEF Init
<1>2. Len(given) \in Nat
    BY <1>1
<1>3. \A k \in 1..Len(given) : k + 0 = k
    OBVIOUS
<1>4. KeptFrom(0)
    BY <1>1, <1>2, <1>3 DEF KeptFrom
<1>5. QED
    BY <1>1, <1>4, KeptIs

LEMMA KeptEnsure == IInv /\ KeptInv /\ EnsurePodNetwork => KeptInv'
<1> SUFFICES ASSUME IInv, KeptInv, EnsurePodNetwork PROVE KeptInv'
    OBVIOUS
<1>1. given \in Seq(AllNames \X Kinds) /\ networks = given /\ Len(given) \in Nat
    BY KeptIs DEF EnsurePodNetwork
<1>2. next'[1] # "ensure" /\ given' = given /\ interfaces' = interfaces
    BY DEF EnsurePodNetwork, FirstPass
<1>3. CASE networks' = networks
  <2>1. \A k \in 1..Len(given) : k + 0 = k
    OBVIOUS
  <2>2. KeptFrom(0)'
    BY <1>1, <1>2, <1>3, <2>1 DEF KeptFrom
  <2>3. QED
    BY <1>1, <1>2, <2>2, KeptIs DEF KeptInv, KeptFrom, Kinds
<1>4. CASE networks' = <<PodDefault>> \o networks
  <2>1. PodDefault \in AllNames \X Kinds
    BY DEF PodDefault, AllNames, Kinds
  <2>2. <<PodDefault>> \in Seq(AllNames \X Kinds) /\ Len(<<PodDefault>>) = 1
    BY <2>1
  <2>3. Len(networks') = 1 + Len(given) /\ \A k \in 1..Len(given) : networks'[1 + k] = given[k]
    BY <1>1, <1>4, <2>2, AppendedIs
  <2>4. \A k \in 1..Len(given) : k + 1 = 1 + k
    OBVIOUS
  <2>5. KeptFrom(1)'
    BY <1>1, <1>2, <2>3, <2>4 DEF KeptFrom
  <2>6. QED
    BY <1>1, <1>2, <2>5 DEF KeptInv, KeptFrom, Kinds
<1>5. QED
    BY <1>3, <1>4 DEF EnsurePodNetwork

\* An interface that is dealt with keeps its name.
LEMMA KeptBind == IInv /\ KeptInv /\ Bind => KeptInv'
<1> SUFFICES ASSUME IInv, KeptInv, Bind PROVE KeptInv'
    OBVIOUS
<1>1. interfaces \in Seq(AllNames \X Bindings)
    BY DEF IInv, TypeOK, Bindings
<1>2. /\ interfaces' = [interfaces EXCEPT ![next[2]] = <<@[1], "passt">>]
      /\ networks' = networks /\ given' = given /\ next'[1] # "ensure"
    BY DEF Bind, Pass
<1>3. Wanted' = Wanted
  <2>1. Len(interfaces') = Len(interfaces)
    BY <1>1, <1>2
  <2>2. \A k \in 1..Len(interfaces) : interfaces'[k][1] = interfaces[k][1]
    BY <1>1, <1>2
  <2>3. QED
    BY <2>1, <2>2 DEF Wanted
<1>4. QED
    BY <1>2, <1>3 DEF KeptInv

LEMMA KeptAttach == IInv /\ KeptInv /\ Attach => KeptInv'
<1> SUFFICES ASSUME IInv, KeptInv, Attach PROVE KeptInv'
    OBVIOUS
<1> DEFINE name == interfaces[next[2]][1]
           f == FirstOf(Matching(name))
<1>1. /\ networks \in Seq(AllNames \X Kinds) /\ interfaces \in Seq(AllNames \X Bindings)
    BY DEF IInv, TypeOK, Kinds, Bindings
<1>2. /\ Matching(name) # {} /\ interfaces' = interfaces /\ given' = given /\ next'[1] # "ensure"
      /\ networks' = [networks EXCEPT ![f] = <<networks[f][1], "pod">>]
    BY DEF Attach, Pass
<1>3. f \in 1..Len(networks) /\ networks[f][1] = name
    BY <1>1, <1>2, FirstMatch DEF IInv
<1>4. name \in Wanted
  <2>1. next[2] \in 1..Len(interfaces)
    BY PassNext DEF IInv, Attach
  <2>2. QED
    BY <2>1 DEF Wanted
<1> HIDE DEF f, name
<1>5. /\ Len(networks') = Len(networks)
      /\ \A k \in 1..Len(networks) : k # f => networks'[k] = networks[k]
      /\ networks'[f][1] = name
    BY <1>1, <1>2, <1>3
<1>6. given \in Seq(AllNames \X Kinds)
    BY KeptIs
<1>7. PICK o \in {0, 1} : KeptFrom(o)
    BY KeptIs
<1>8. \A k \in 1..Len(given) : k + o \in 1..Len(networks)
    BY <1>1, <1>6, <1>7 DEF KeptFrom
<1>9. KeptFrom(o)'
  <2>1. Len(given') + o <= Len(networks')
    BY <1>2, <1>5, <1>7 DEF KeptFrom
  <2>2. ASSUME NEW k \in 1..Len(given)
        PROVE  /\ networks'[k + o][1] = given[k][1]
               /\ networks'[k + o] = given[k] \/ given[k][1] \in Wanted
    <3>1. /\ k + o \in 1..Len(networks)
          /\ networks[k + o][1] = given[k][1]
          /\ networks[k + o] = given[k] \/ given[k][1] \in Wanted
      BY <1>7, <1>8 DEF KeptFrom
    <3>2. CASE k + o = f
      BY <1>3, <1>4, <1>5, <3>1, <3>2
    <3>3. CASE k + o # f
      <4>1. networks'[k + o] = networks[k + o]
        BY <1>5, <3>1, <3>3
      <4>2. QED
        BY <3>1, <4>1
    <3>4. QED
      BY <3>2, <3>3
  <2>3. Wanted' = Wanted
    BY <1>2 DEF Wanted
  <2>4. QED
    BY <1>2, <2>1, <2>2, <2>3 DEF KeptFrom
<1>10. QED
    BY <1>2, <1>6, <1>9 DEF KeptInv, KeptFrom, Kinds

\* The name that an interface loses here is that of no network.
LEMMA KeptRename == IInv /\ KeptInv /\ Rename => KeptInv'
<1> SUFFICES ASSUME IInv, KeptInv, Rename PROVE KeptInv'
    OBVIOUS
<1> DEFINE i == next[2]
           name == interfaces[i][1]
<1>1. /\ networks \in Seq(AllNames \X Kinds) /\ interfaces \in Seq(AllNames \X Bindings)
    BY DEF IInv, TypeOK, Kinds, Bindings
<1>2. /\ interfaces' = [interfaces EXCEPT ![i] = <<Default, @[2]>>]
      /\ Matching(name) = {} /\ given' = given /\ next'[1] # "ensure"
      /\ networks' = networks \/ networks' = Append(networks, PodDefault)
    BY DEF Rename, Pass
<1>3. i \in 1..Len(interfaces)
    BY PassNext DEF IInv, Rename
<1>4. \A w \in Wanted : w = name \/ w \in Wanted'
  <2> SUFFICES ASSUME NEW k \in 1..Len(interfaces), interfaces[k][1] # name
               PROVE  interfaces[k][1] \in Wanted'
    BY DEF Wanted
  <2>1. k \in 1..Len(interfaces') /\ interfaces'[k] = interfaces[k]
    BY <1>1, <1>2, <1>3
  <2>2. QED
    BY <2>1 DEF Wanted
<1>5. /\ Len(networks) <= Len(networks')
      /\ \A k \in 1..Len(networks) : networks'[k] = networks[k]
    BY <1>1, <1>2
<1>6. given \in Seq(AllNames \X Kinds)
    BY KeptIs
<1>7. PICK o \in {0, 1} : KeptFrom(o)
    BY KeptIs
<1>8. \A k \in 1..Len(given) : k + o \in 1..Len(networks)
    BY <1>1, <1>6, <1>7 DEF KeptFrom
<1> HIDE DEF name, i
<1>9. KeptFrom(o)'
  <2>1. Len(given') + o <= Len(networks')
    <3>1. Len(given) \in Nat /\ Len(networks) \in Nat /\ Len(networks') \in Nat
      BY <1>1, <1>2, <1>6
    <3>2. QED
      BY <1>2, <1>5, <1>7, <3>1 DEF KeptFrom
  <2>2. ASSUME NEW k \in 1..Len(given)
        PROVE  /\ networks'[k + o][1] = given[k][1]
               /\ networks'[k + o] = given[k] \/ given[k][1] \in Wanted'
    <3>1. /\ k + o \in 1..Len(networks)
          /\ networks[k + o][1] = given[k][1]
          /\ networks[k + o] = given[k] \/ given[k][1] \in Wanted
      BY <1>7, <1>8 DEF KeptFrom
    <3>2. networks'[k + o] = networks[k + o]
      BY <1>5, <3>1
    <3>3. given[k][1] # name
      BY <1>2, <3>1 DEF Matching
    <3>4. QED
      BY <1>4, <3>1, <3>2, <3>3
  <2>3. QED
    BY <1>2, <2>1, <2>2 DEF KeptFrom
<1>10. QED
    BY <1>2, <1>6, <1>9 DEF KeptInv, KeptFrom, Kinds

LEMMA KeptNext == IInv /\ KeptInv /\ [Next]_vars => KeptInv'
<1>1. ASSUME KeptInv, UNCHANGED vars PROVE KeptInv'
  <2>1. given' = given /\ networks' = networks /\ interfaces' = interfaces /\ next' = next
    BY <1>1 DEF vars
  <2>2. Wanted' = Wanted
    BY <2>1 DEF Wanted
  <2>3. QED
    BY <1>1, <2>1, <2>2 DEF KeptInv
<1>2. QED
    BY <1>1, KeptEnsure, KeptBind, KeptAttach, KeptRename DEF Next, Done

\* Distinct names make the stretch that KeptInv speaks of all that is selected.
LEMMA KeptIsKept == IInv /\ KeptInv => GivenNetworksKept
<1> SUFFICES ASSUME IInv, KeptInv PROVE GivenNetworksKept
    OBVIOUS
<1> DEFINE names == [k \in 1..Len(networks) |-> networks[k][1]]
           givenNames == [k \in 1..Len(given) |-> given[k][1]]
           G == ToSet(givenNames)
           n == Len(given)
<1>1. networks \in Seq(AllNames \X Kinds) /\ given \in Seq(AllNames \X Kinds)
    BY KeptIs DEF IInv, TypeOK, Kinds
<1>2. PICK o \in {0, 1} : KeptFrom(o)
    BY KeptIs
<1>3. n \in Nat /\ Len(networks) \in Nat /\ n + o <= Len(networks)
    BY <1>1, <1>2 DEF KeptFrom
<1>4. \A k \in 1..n :
        /\ k + o \in 1..Len(networks)
        /\ networks[k + o][1] = given[k][1]
        /\ networks[k + o] = given[k] \/ given[k][1] \in Wanted
    BY <1>2, <1>3 DEF KeptFrom
<1>5. \A j, k \in 1..Len(networks) : networks[j][1] = networks[k][1] => j = k
    BY <1>1, DistinctNames DEF IInv
<1>6. G = {given[k][1] : k \in 1..n}
    BY DEF ToSet
<1>7. Len(names) = Len(networks) /\ \A k \in 1..Len(networks) : names[k] = networks[k][1]
    BY <1>1
<1> DEFINE P == Positions(names, G)
           f == [k \in 1..n |-> k + o]
<1>8. P = {j \in 1..Len(networks) : networks[j][1] \in G}
    BY <1>7 DEF Positions
<1> HIDE DEF G, P, names, n
<1>9. \A k \in 1..n : k + o \in P
    BY <1>4, <1>6, <1>8
<1>10. \A j \in P : \E k \in 1..n : k + o = j
    BY <1>4, <1>5, <1>6, <1>8
<1>11. Cardinality(P) = n /\ Sorted(P) = f
  <2>1. P \in SUBSET Int /\ f \in [1..n -> P]
    BY <1>8, <1>9
  <2>2. \A j, k \in 1..n : j < k => f[j] < f[k]
    BY <1>3
  <2>3. \A j \in P : \E k \in 1..n : f[k] = j
    BY <1>10
  <2> HIDE DEF f
  <2>4. QED
    BY <1>3, <2>1, <2>2, <2>3, SortedUnique
<1>12. Select(names, G) = [k \in 1..n |-> names[f[k]]]
    BY <1>11 DEF Select, P
<1>13. \A k \in 1..n : names[f[k]] = given[k][1]
    BY <1>4, <1>7
<1>14. Select(names, G) = givenNames
    BY <1>12, <1>13 DEF n
<1>15. \A k \in 1..n : given[k][1] \notin Wanted => given[k] \in ToSet(networks)
  <2>1. \A j \in 1..Len(networks) : networks[j] \in ToSet(networks)
    BY <1>1 DEF ToSet
  <2>2. QED
    BY <1>4, <2>1
<1>16. QED
    BY <1>14, <1>15 DEF GivenNetworksKept, names, G, n

\* No network of the VM is lost, reordered or, without an interface of its
\* name, changed, whatever is put in front, appended and renamed around it.
THEOREM NetworksKept == ~MultusDefault => (Spec => []GivenNetworksKept)
<1>1. Spec /\ []IInv => []KeptInv
    BY KeptInit, KeptNext, PTL DEF Spec
<1>2. QED
    BY <1>1, KeptIsKept, Invariance, PTL
=============================================================================
