--------------------------- MODULE PersistentDisk ---------------------------
(***************************************************************************)
(* What a DataVolume disk promises to the virtual machine that boots from  *)
(* it, whatever the init container that provisions it goes through: the    *)
(* disk appears once, whole; it only ever grows, and only while no machine *)
(* uses it; its contents change only by the guest's own writes.            *)
(*                                                                         *)
(* This is the abstract specification that DiskImage is shown to implement.*)
(***************************************************************************)
EXTENDS Naturals

CONSTANT
    BootNeedsDisk   \* TRUE when no machine may boot before the disk exists

VARIABLES
    image,   \* the disk as the guest would see it
    inUse    \* is a machine running on it?

vars == <<image, inUse>>

NoImage == [size |-> 0, data |-> "none"]

\* A disk that exists: blank, imported from a container disk, or written by
\* the guest.
Image == [size : Nat, data : {"zeros", "image", "guest"}]

Init ==
    /\ image = NoImage
    /\ inUse = FALSE

\* The disk comes into existence in one step, with no machine on it.
Provision ==
    /\ image = NoImage
    /\ ~inUse
    /\ image' \in {i \in Image : i.data # "guest"}
    /\ UNCHANGED inUse

Grow ==
    /\ image \in Image
    /\ ~inUse
    /\ image' \in {i \in Image : i.data = image.data /\ i.size > image.size}
    /\ UNCHANGED inUse

Boot ==
    /\ ~inUse
    /\ BootNeedsDisk => image # NoImage
    /\ inUse' = TRUE
    /\ UNCHANGED image

GuestWrite ==
    /\ inUse
    /\ image \in Image
    /\ image' = [size |-> image.size, data |-> "guest"]
    /\ UNCHANGED inUse

Halt ==
    /\ inUse
    /\ inUse' = FALSE
    /\ UNCHANGED image

Next == Provision \/ Grow \/ Boot \/ GuestWrite \/ Halt

Spec == Init /\ [][Next]_vars

=============================================================================
