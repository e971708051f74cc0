------------------------------- MODULE MCPmm -------------------------------
(* Pmm.tla on a machine of 16 frames of 8 bytes, with 2 frames of low      *)
(* memory.  A byte of the bitmap stands for 2 frames, so that the bitmap   *)
(* is exactly one frame long, as in the kernel (32768 frames, 4096 bytes). *)
EXTENDS Pmm

Usable(b, n)   == [base |-> b, length |-> n, type |-> "usable"]
Reserved(b, n) == [base |-> b, length |-> n, type |-> "reserved"]

(* The two entries that the boot loader finds. *)
ShortMap == << Usable(0, 13), Reserved(13, 3) >>
(* A complete map: the top of memory is reserved. *)
FullMap  == << Usable(0, 13), Reserved(13, 3), Usable(16, 104), Reserved(120, 8) >>
(* The extended region ends in the middle of a frame; another one starts   *)
(* above 4 GB.                                                             *)
OddMap   == << Usable(0, 13), Usable(16, 67), Reserved(83, 45), Usable(512, 256) >>

AllMaps    == {ShortMap, FullMap, OddMap}
ShortMaps  == {ShortMap}
AllEnds    == {17, 24, 47, 60}
AlignedEnd == {24}
OddEnd     == {17}
=============================================================================
