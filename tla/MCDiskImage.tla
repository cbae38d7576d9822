---------------------------- MODULE MCDiskImage ----------------------------
(* Instance of DiskImage for TLC. *)
EXTENDS DiskImage

MCSizes == {1, 2, 3}
MCImageSizes == {1, 2}

MCFewSizes == {1, 2}
MCFewImageSizes == {2}
=============================================================================
