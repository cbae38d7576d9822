----------------------------- MODULE ForcePasst -----------------------------
(***************************************************************************)
(* forcePasstBinding, of step 3: every interface of the VM gets the passt  *)
(* binding, and the network it is attached to, found by name, becomes the  *)
(* pod's.  One action per pass of its loops, since a pass may add the      *)
(* network that a later one finds, and rename the interface it is at.      *)
(***************************************************************************)
EXTENDS Enumerations, SequencesExt

CONSTANTS
    Names,           \* names that networks and interfaces have, but "default"
    MaxNetworks,     \* bound: networks of the VM
    MaxInterfaces,   \* bound: its interfaces
    MultusDefault    \* may a Multus network of the VM be called "default"?

ASSUME MaxNetworksAssumption == MaxNetworks \in Nat
ASSUME MaxInterfacesAssumption == MaxInterfaces \in Nat
ASSUME MultusDefaultAssumption == MultusDefault \in BOOLEAN

Default == "default"

VARIABLES
    given,        \* the networks the VM came with
    networks,     \* the networks now: <<name, "pod" or "multus">>
    interfaces,   \* the interfaces now: <<name, binding>>
    next          \* the pass that comes next

vars == <<given, networks, interfaces, next>>

\* Networks have distinct names, interfaces too.  SetDefaultNetworkInterface adds
\* an interface if neither is declared, unless the VM asks for none: it may have
\* networks without interfaces, or nothing at all.
GivenNetworks ==
    {s \in BoundedSeq((Names \cup {Default}) \X {"pod", "multus"}, MaxNetworks) :
        /\ IsInjective([k \in 1..Len(s) |-> s[k][1]])
        /\ MultusDefault \/ <<Default, "multus">> \notin ToSet(s)}
GivenInterfaces ==
    {s \in BoundedSeq((Names \cup {Default}) \X {"masquerade", "bridge"}, MaxInterfaces) :
        IsInjective([k \in 1..Len(s) |-> s[k][1]])}

Init ==
    /\ given \in GivenNetworks
    /\ networks = given
    /\ interfaces \in GivenInterfaces
    /\ next = <<"ensure", 0>>

PodDefault == <<Default, "pod">>

\* The loops have a pass for each interface, so none without interfaces.
FirstPass == IF interfaces = <<>> THEN <<"done", 1>> ELSE <<"bind", 1>>

\* Faulty variant of EnsurePodNetwork: the pod network replaces the others.
EnsureReplaces ==
    /\ next[1] = "ensure"
    /\ networks' = IF \E k \in 1..Len(networks) : networks[k][2] = "pod" THEN networks
                   ELSE <<PodDefault>>
    /\ next' = FirstPass
    /\ UNCHANGED <<given, interfaces>>

EnsurePodNetwork ==
    /\ next[1] = "ensure"
    /\ networks' = IF \E k \in 1..Len(networks) : networks[k][2] = "pod" THEN networks
                   ELSE <<PodDefault>> \o networks
    /\ next' = FirstPass
    /\ UNCHANGED <<given, interfaces>>

\* The first loop, then the second: one pass for each interface.
Pass(loop, after) ==
    /\ next[1] = loop
    /\ next' = IF next[2] = Len(interfaces) THEN <<after, 1>> ELSE <<loop, next[2] + 1>>
    /\ UNCHANGED given

Bind ==
    /\ Pass("bind", "attach")
    /\ interfaces' = [interfaces EXCEPT ![next[2]] = <<@[1], "passt">>]
    /\ UNCHANGED networks

Matching(name) == {k \in 1..Len(networks) : networks[k][1] = name}
FirstOf(S) == CHOOSE k \in S : \A j \in S : k <= j

\* The interface has a network of its name.
Attach ==
    LET m == Matching(interfaces[next[2]][1])
    IN /\ Pass("attach", "done")
       /\ m # {}
       /\ networks' = [networks EXCEPT ![FirstOf(m)] = <<@[1], "pod">>]
       /\ UNCHANGED interfaces

\* Faulty variants of Rename: no network is added; one always is.
RenameOnly ==
    /\ Pass("attach", "done")
    /\ Matching(interfaces[next[2]][1]) = {}
    /\ interfaces' = [interfaces EXCEPT ![next[2]] = <<Default, @[2]>>]
    /\ UNCHANGED networks
RenameAndAppend ==
    /\ Pass("attach", "done")
    /\ Matching(interfaces[next[2]][1]) = {}
    /\ interfaces' = [interfaces EXCEPT ![next[2]] = <<Default, @[2]>>]
    /\ networks' = Append(networks, PodDefault)

\* It has none: it is renamed, and shares the network of that name.
Rename ==
    /\ Pass("attach", "done")
    /\ Matching(interfaces[next[2]][1]) = {}
    /\ interfaces' = [interfaces EXCEPT ![next[2]] = <<Default, @[2]>>]
    /\ networks' = IF Matching(Default) = {} THEN Append(networks, PodDefault) ELSE networks

Done == next[1] = "done" /\ UNCHANGED vars

Next == EnsurePodNetwork \/ Bind \/ Attach \/ Rename \/ Done

Spec == Init /\ [][Next]_vars

-----------------------------------------------------------------------------
\* At the end every interface has the passt binding and a network, and every
\* network that corresponds to an interface, by its name, is the pod's.
InterfacesOnPod ==
    next[1] = "done" =>
        \A i \in ToSet(interfaces) :
            /\ i[2] = "passt"
            /\ Matching(i[1]) # {}
            /\ \A k \in Matching(i[1]) : networks[k][2] = "pod"

\* The name of a network is enough to find it, whatever has been added.
NetworkNamesDistinct == IsInjective([k \in 1..Len(networks) |-> networks[k][1]])

AllNames == Names \cup {Default}
Passes(loop) == {<<loop, k>> : k \in 1..Len(interfaces)}
TypeOK ==
    /\ networks \in Seq(AllNames \X {"pod", "multus"})
    /\ interfaces \in Seq(AllNames \X {"passt", "masquerade", "bridge"})
    /\ next \in {<<"ensure", 0>>, <<"done", 1>>} \cup Passes("bind") \cup Passes("attach")

\* The interfaces that a loop has dealt with.
Dealt(loop) == IF next[1] = loop THEN 1..(next[2] - 1) ELSE 1..Len(interfaces)

OnPod(name) == \E k \in 1..Len(networks) : networks[k] = <<name, "pod">>

\* How far the loops have come; with distinct names, inductive if no Multus
\* network is called "default".
IInv ==
    /\ TypeOK
    /\ NetworkNamesDistinct
    /\ <<Default, "multus">> \notin ToSet(networks)
    /\ next[1] # "ensure" => \A i \in Dealt("bind") : interfaces[i][2] = "passt"
    /\ next[1] \in {"attach", "done"} => \A i \in Dealt("attach") : OnPod(interfaces[i][1])

\* The VM's networks are all there in their order, and one that no interface
\* ever corresponded to is as it was given.
Wanted == {interfaces[i][1] : i \in 1..Len(interfaces)}
GivenNetworksKept ==
    LET names == [k \in 1..Len(networks) |-> networks[k][1]]
        givenNames == [k \in 1..Len(given) |-> given[k][1]]
    IN /\ Select(names, ToSet(givenNames)) = givenNames
       /\ \A k \in 1..Len(given) :
            given[k][1] \notin Wanted => given[k] \in ToSet(networks)

\* Inductive with IInv: the VM's networks are together, at most behind the one
\* that was put in front, each under its name, and as given until an interface
\* of that name comes by.
KeptInv ==
    /\ given \in Seq(AllNames \X {"pod", "multus"})
    /\ next[1] = "ensure" => networks = given
    /\ \E o \in {0, 1} :
         /\ Len(given) + o <= Len(networks)
         /\ \A k \in 1..Len(given) :
              /\ networks[k + o][1] = given[k][1]
              /\ networks[k + o] = given[k] \/ given[k][1] \in Wanted

=============================================================================
