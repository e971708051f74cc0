-------------------------------- MODULE Dma --------------------------------
(***************************************************************************)
(* The emulated PC's DMA controller, as far as one 8-bit channel sees it:  *)
(* its address and count registers, which are written a byte at a time     *)
(* through one flip-flop, and the transfers between a disk image and the   *)
(* memory.  Everything here is an operator on the record of a channel.     *)
(*                                                                         *)
(* Addresses and counts are in sectors.  Disk images are held in memory    *)
(* (SyncBuffer): a transfer ends before the call that starts it returns.   *)
(* The transfers do not look at the channel's mask.                        *)
(***************************************************************************)
EXTENDS Integers, Sequences, SequencesExt

CONSTANTS
  Base,      \* values of a register's byte: 256
  MemSize    \* sectors of memory that the channel reaches

ASSUME DmaAssumption == Base \in Nat /\ Base > 1 /\ MemSize \in Nat

Wrap(x) == x % (Base * Base)

(* A channel after power on; auto is bit 4 of its mode. *)
NewChannel ==
  [flipflop |-> FALSE, addr |-> 0, addr_init |-> 0, count |-> 0, count_init |-> 0,
   page |-> 0, auto |-> FALSE]

HighFirst(value, b, low) ==
  IF low THEN b * Base + (value % Base) ELSE (value \div Base) * Base + b

(* The low byte is replaced when the flip-flop is set, else the high one.  *)
flipflop_get(value, b, low) ==
  IF low THEN (value \div Base) * Base + b ELSE b * Base + (value % Base)

port_addr_write(d, b) ==
  LET ff == ~d.flipflop
  IN  [d EXCEPT !.flipflop = ff, !.addr = flipflop_get(@, b, ff),
                !.addr_init = flipflop_get(@, b, ff)]

port_count_write(d, b) ==
  LET ff == ~d.flipflop
  IN  [d EXCEPT !.flipflop = ff, !.count = flipflop_get(@, b, ff),
                !.count_init = flipflop_get(@, b, ff)]

(* Reading an address or a count moves the flip-flop on, too. *)
port_read(d) == [d EXCEPT !.flipflop = ~@]

port_page_write(d, b) == [d EXCEPT !.page = b]

port_mode_write(d, auto) == [d EXCEPT !.auto = auto]

portC_write(d) == [d EXCEPT !.flipflop = FALSE]

address_get_8bit(d) == d.addr + d.page * Base * Base

count_get_8bit(d) == d.count + 1

-----------------------------------------------------------------------------
(* Transfers.  The result says whether the image was too short.            *)

(* write_blob: n sectors of the image from sector b to memory at g. *)
Blob(mem, g, image, b, n) ==
  [a \in DOMAIN mem |-> IF a \in g .. g + n - 1 THEN image[b + a - g + 1] ELSE mem[a]]

(* Image to memory: as much as the channel counts, whatever was asked for. *)
do_read(d, mem, image, b) ==
  LET f == count_get_8bit(d)
  IN  IF b + f > Len(image)
      THEN [chan |-> d, mem |-> mem, image |-> image, failed |-> TRUE]
      ELSE [chan |-> [d EXCEPT !.addr = Wrap(@ + f)],
            mem  |-> Blob(mem, address_get_8bit(d), image, b, f),
            image |-> image, failed |-> FALSE]

(* One pass of do_write: at most c sectors, at most what is counted. *)
WritePass(d, mem, image, b, c) ==
  LET h == Wrap(d.count + 1)
      n == IF c < h THEN c ELSE h
      l == address_get_8bit(d)
      moved == [d EXCEPT !.addr = Wrap(@ + n), !.count = Wrap(@ - n)]
  IN  IF b + n > Len(image)
      THEN [chan |-> d, image |-> image, failed |-> TRUE, done |-> n]
      ELSE [chan |-> IF c >= h /\ d.auto
                     THEN [moved EXCEPT !.addr = d.addr_init, !.count = d.count_init]
                     ELSE moved,
            image |-> [i \in DOMAIN image |-> IF i \in b + 1 .. b + n
                                              THEN mem[l + i - b - 1] ELSE image[i]],
            failed |-> FALSE, done |-> n]

(* Memory to image.  With auto-initialisation the channel starts over      *)
(* until c sectors are written; a pass that fails leaves the earlier ones. *)
do_write(d, mem, image, b, c) ==
  LET Pass(r, i) ==
        IF r.failed \/ r.left = 0 THEN r
        ELSE LET w == WritePass(r.chan, mem, r.image, b + c - r.left, r.left)
             IN  [chan |-> w.chan, image |-> w.image, failed |-> w.failed,
                  left |-> IF d.auto THEN r.left - w.done ELSE 0]
      r == FoldLeft(Pass, [chan |-> d, image |-> image, failed |-> FALSE, left |-> c],
                    [i \in 1 .. c |-> i])
  IN  [chan |-> r.chan, mem |-> mem, image |-> r.image, failed |-> r.failed]
=============================================================================
