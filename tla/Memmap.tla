------------------------------- MODULE Memmap -------------------------------
(***************************************************************************)
(* The table of physical memory regions at 0x500 (mm/memmap.c), which the  *)
(* boot loader fills from the BIOS and the kernel supplements before it    *)
(* builds anything on it.  The table is a sequence of regions; its length  *)
(* is what memmap_count reads.                                             *)
(*                                                                         *)
(* The literals of memmap.c are multiples of 64 KB, here Unit: the kernel  *)
(* is loaded at LowMemory = 0x100000 and the machine has TotalMemory =     *)
(* 0x8000000 bytes.                                                        *)
(***************************************************************************)
EXTENDS Integers, Sequences, FiniteSets

CONSTANTS
  Unit,          \* 0x010000
  LowMemory,     \* 0x100000
  TotalMemory,   \* 128 MB
  Word           \* 2^32

ASSUME MemmapAssumption ==
  /\ Unit \in Nat /\ LowMemory \in Nat /\ TotalMemory \in Nat /\ Word \in Nat
  /\ 0 < Unit /\ Unit <= LowMemory
  /\ LowMemory < TotalMemory
  /\ TotalMemory + 4 * Unit <= Word

Types  == {"usable", "reserved"}
Region == [base : Nat, length : Nat, type : Types]

(* The last byte of a region is before this one. *)
RegionEnd(r) == r.base + r.length

SupplementAtLow == <<
  [base |-> LowMemory - Unit, length |-> Unit, type |-> "reserved"],
  [base |-> LowMemory, length |-> TotalMemory - LowMemory, type |-> "usable"],
  [base |-> Word - 4 * Unit, length |-> 4 * Unit, type |-> "reserved"] >>

(* The BIOS ROM, the "extended 127mb memory", the BIOS at the top. *)
SupplementRegions == <<
  [base |-> LowMemory - Unit, length |-> Unit, type |-> "reserved"],
  [base |-> Unit, length |-> TotalMemory - LowMemory, type |-> "usable"],
  [base |-> Word - 4 * Unit, length |-> 4 * Unit, type |-> "reserved"] >>

HasExtended(entries) ==
  \E i \in 1 .. Len(entries) :
    entries[i].base >= LowMemory /\ entries[i].type = "usable"

(* The table that memmap_supplement leaves. *)
Supplemented(entries) ==
  IF HasExtended(entries) THEN entries ELSE entries \o SupplementRegions
=============================================================================
