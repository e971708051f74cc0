----------------------------- MODULE MCFloppy ------------------------------
(* Floppy.tla with disks of 8, 4 and 2 sectors, an image of 3 sectors that   *)
(* has to be padded, and transfers that start on the disk, in its last       *)
(* sector, on the track behind it and on a sector that it does not have.     *)
(* Counts stay below the largest one, which do_write takes for 0.            *)
EXTENDS Floppy

FewFormats == << [type |-> 4, sectors |-> 2, tracks |-> 2, heads |-> 2],
                 [type |-> 4, sectors |-> 1, tracks |-> 2, heads |-> 2],
                 [type |-> 2, sectors |-> 1, tracks |-> 2, heads |-> 1] >>
FewSizes   == {8, 3, 2}
At(n, t, h, s, e) == [drive |-> n, track |-> t, head |-> h, sect |-> s, eot |-> e]
FewAddresses == {At(0, 0, 0, 1, 2), At(0, 1, 1, 2, 2), At(0, 1, 0, 1, 1), At(0, 2, 0, 1, 2),
                 At(0, 0, 1, 2, 1), At(1, 0, 0, 1, 1)}
FewTargets == {[addr |-> 2, count |-> 1, auto |-> FALSE], [addr |-> 1, count |-> 0, auto |-> TRUE]}
=============================================================================
