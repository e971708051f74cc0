------------------------------- MODULE MCIde -------------------------------
(* Ide.tla with a disk of 33 units, so that addresses have four digits in    *)
(* base 3, and chunks of three.  The requests cross ends of tracks,          *)
(* cylinders and chunks, touch each other, and one ends beyond the disk.     *)
(* Counts of three are written to the register as 0, which stands for them.  *)
EXTENDS Ide

R(c, lba, is_lba, n, prdt) ==
  [cmd |-> c, lba |-> lba, is_lba |-> is_lba, count |-> n, prdt |-> prdt]

Scattered == <<[at |-> 2, n |-> 1], [at |-> 0, n |-> 1]>>

ManyRequests ==
  {R(c, 3, FALSE, 2, << >>) : c \in {"READ", "WRITE"}}
  \cup {R(c, 26, TRUE, 2, << >>) : c \in {"READ_EXT", "WRITE_EXT"}}
  \cup {R("READ", 26, TRUE, 3, << >>), R("READ", 32, TRUE, 2, << >>)}
  \cup {R(c, 2, FALSE, 3, << >>) : c \in {"READ_MULTIPLE", "WRITE_MULTIPLE"}}
  \cup {R(c, 3, TRUE, 2, Scattered) : c \in {"READ_DMA", "WRITE_DMA"}}
  \cup {R(c, 26, TRUE, 2, Scattered) : c \in {"READ_DMA_EXT", "WRITE_DMA_EXT"}}
  \cup {R(c, 26, TRUE, 2, << >>) : c \in {"READ_MULTIPLE_EXT", "WRITE_MULTIPLE_EXT"}}
  \cup {R("SET_MULTIPLE", 0, TRUE, 1, << >>)}
  \cup {R(c, 0, TRUE, 0, << >>) : c \in Plain \ {"SET_MULTIPLE"}}

P(name, a, n, prdt) == [name |-> name, a |-> a, n |-> n, dma |-> prdt # << >>, prdt |-> prdt]

ManyPackets ==
  {P("READ", 2, 4, << >>), P("READ", 32, 2, << >>), P("READ", 34, 2, << >>),
   P("READ", 2, 0, << >>), P("READ", 4, 2, Scattered), P("READ", 34, 2, Scattered),
   P("REQUEST_SENSE", 0, 1, << >>), P("INQUIRY", 0, 0, << >>), P("READ_CAPACITY", 0, 1, << >>),
   P("TEST_UNIT_READY", 0, 0, << >>), P("EJECT", 0, 0, << >>), P("UNKNOWN", 0, 0, << >>)}
=============================================================================
