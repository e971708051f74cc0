-------------------------------- MODULE Ide --------------------------------
(***************************************************************************)
(* The emulated PC's IDE channel with one drive, a hard disk or a CD-ROM,  *)
(* the buffers that hold the drive's image, and a guest that drives it.    *)
(*                                                                         *)
(* An image that lies behind a URL or in a file is read asynchronously:    *)
(* reads are outstanding while the guest goes on, may be cancelled by a    *)
(* reset, and end in any order.  Blocks that were written, and with chunks *)
(* or parts those that were read, are kept in a cache and answered at      *)
(* once.  An image in parts is fetched part by part, from a file for each. *)
(*                                                                         *)
(* Data are moved in units of 512 bytes: a sector of a hard disk, or a     *)
(* part of a CD's sector.  The bytes of the address registers are kept,    *)
(* with Base values each.  Status is a set of bits.  The guest waits for   *)
(* BSY and for its DMA transfer before it issues a command, but may reset  *)
(* at any time; the page changes the CD and restores states at any time.   *)
(* The variables from disk on only observe.                                *)
(***************************************************************************)
EXTENDS Integers, Sequences, FiniteSets, SequencesExt

CONSTANTS
  Base,         \* values of a byte: 256
  HeadBase,     \* values of the head register: 16
  Heads, Spt,   \* head_count and sectors_per_track: 16 and 63
  Drq,          \* sectors_per_drq after power on: 128
  DiskUnits,    \* size of the image
  CdUnits,      \* units in a sector of a CD: 4
  Chunk,        \* units in a chunk or part
  Kinds,        \* of buffers: sync, file, chunks, parts
  Requests,     \* the commands of the guest, with their arguments
  Packets,      \* the packet commands of the guest
  MemSize,
  MaxCommands,  \* bound: commands of the guest
  MaxFaults     \* bound: resets, changes of the CD, restored states

ASSUME IdeAssumption ==
  /\ {Base, HeadBase, Heads, Spt, Drq, DiskUnits, CdUnits, Chunk} \subseteq Nat \ {0}
  /\ Spt < Base /\ Heads <= HeadBase /\ CdUnits + 1 < Base * Base /\ Kinds \subseteq {"sync", "file", "chunks", "parts"}
  /\ DiskUnits % Chunk = 0
  /\ {MemSize, MaxCommands, MaxFaults} \subseteq Nat

VARIABLES
  dev,       \* the drive's registers and data
  ch,        \* the channel: interrupt line and bus master
  buf,       \* the buffer with the image
  out,       \* reads that the buffer has not answered
  mem,
  commands, faults,
  disk,      \* what the guest must find on the medium
  asked,     \* the transfer that the guest asked for
  got, sent, \* units that it read and wrote through the data port
  torn,      \* a transfer lost its medium or its read
  still      \* reset since the last command

devVars   == <<dev, ch, buf, out, mem>>
guestVars == <<disk, asked, got, sent, torn, still>>
vars      == <<devVars, guestVars, commands, faults>>

S80  == {"DRDY"}
S88  == {"DRDY", "DRQ"}
S65  == {"DRDY", "ERR"}
S89  == {"DRDY", "DRQ", "ERR"}
S208 == {"BSY", "DRDY"}
S255 == {"BSY", "DRDY", "DRQ", "ERR"}

NoData == [i \in {} |-> 0]
None   == [cmd |-> "NONE", atapi |-> FALSE, first |-> 0, n |-> 0, prdt |-> << >>]

-----------------------------------------------------------------------------
(* Buffers.  cache holds blocks, dirty the ones that were written.         *)

(* Units of different media, and what is written later, are told apart. *)
Image(medium) == [u \in 0 .. DiskUnits - 1 |-> medium * DiskUnits + u]

NewBuffer(kind, medium) ==
  [kind |-> kind, medium |-> medium, image |-> Image(medium), cache |-> NoData, dirty |-> {}]

Span(a, n) == a .. a + n - 1

(* get_from_cache: all or nothing.  A buffer in memory has everything.     *)
Cached(b, a, n) == b.kind = "sync" \/ Span(a, n) \subseteq DOMAIN b.cache

Block(b, u) == IF u \in DOMAIN b.cache THEN b.cache[u] ELSE b.image[u]

Fetch(b, a, n) == [i \in 1 .. n |-> Block(b, a + i - 1)]

(* The chunks that a request touches. *)
Chunks(a, n) == {Span(c * Chunk, Chunk) : c \in {u \div Chunk : u \in Span(a, n)}}

(* The answers that a read waits for, as the units of each. *)
FileSlice(a, n)       == {Span(a, n)}
UrlRange(a, n)        == {UNION Chunks(a, n)}
MissingParts(b, a, n) == {c \in Chunks(a, n) : ~(c \subseteq DOMAIN b.cache)}

Asked(b, a, n) ==
  CASE b.kind = "file"   -> FileSlice(a, n)
    [] b.kind = "chunks" -> UrlRange(a, n)
    [] b.kind = "parts"  -> MissingParts(b, a, n)

(* Cached parts are copied to the result when the read is asked for. *)
Copied(b, a, n) ==
  IF b.kind # "parts" THEN NoData
  ELSE [u \in UNION (Chunks(a, n) \ MissingParts(b, a, n)) |-> b.cache[u]]

(* An answer as it goes to the result: corrected by the cache, but a part  *)
(* is copied before it is corrected.                                       *)
Received(b, c) == [u \in c |-> IF b.kind = "parts" THEN b.image[u] ELSE Block(b, u)]

CachesReads(b) == b.kind \in {"chunks", "parts"}

AnswerWins(b, c) ==
  IF ~CachesReads(b) THEN b
  ELSE [b EXCEPT !.cache = [u \in DOMAIN @ \cup c |-> IF u \in c THEN b.image[u] ELSE @[u]]]

(* handle_read: cached blocks are newer than the answer; others are kept   *)
(* when reads are cached.                                                  *)
handle_read(b, c) ==
  IF ~CachesReads(b) THEN b
  ELSE [b EXCEPT !.cache = [u \in DOMAIN @ \cup c |-> Block(b, u)]]

BufferSet(b, a, data) ==
  LET new == Span(a, Len(data))
      at(u) == data[u - a + 1]
  IN  IF b.kind = "sync"
      THEN [b EXCEPT !.image = [u \in DOMAIN @ |-> IF u \in new THEN at(u) ELSE @[u]]]
      ELSE [b EXCEPT !.cache = [u \in DOMAIN @ \cup new |-> IF u \in new THEN at(u) ELSE @[u]],
                     !.dirty = @ \cup new]

(* get_state and set_state: only what was written is saved. *)
BufferRestored(b) ==
  IF b.kind = "sync" THEN b
  ELSE [b EXCEPT !.cache = [u \in b.dirty |-> b.cache[u]]]

-----------------------------------------------------------------------------
(* Registers.  s is the record of all that a handler may change.           *)

Machine == [d |-> dev, ch |-> ch, buf |-> buf, out |-> out, mem |-> mem]

Show(s) == dev' = s.d /\ ch' = s.ch /\ buf' = s.buf /\ out' = s.out /\ mem' = s.mem

push_irq(s) == IF s.ch.nien THEN s ELSE [s EXCEPT !.ch.irq = TRUE, !.ch.dmairq = TRUE]

(* Status, and an interrupt. *)
End(s, st) == push_irq([s EXCEPT !.d.status = st])

(* Address and count registers are written byte by byte, the newer byte    *)
(* moves the older one up.                                                 *)
Shift(reg, b) == (reg * Base + b) % (Base * Base)

Ext(c) == c \in {"READ_EXT", "READ_MULTIPLE_EXT", "READ_DMA_EXT",
                 "WRITE_EXT", "WRITE_MULTIPLE_EXT", "WRITE_DMA_EXT"}

Byte(r) == r % Base

Base2 == Base * Base
Base3 == Base * Base2

get_chs(d) == ((Byte(d.mid) + Base * Byte(d.high)) * Heads + d.head) * Spt + Byte(d.low) - 1

get_lba28(d) ==
  Byte(d.low) + Base * Byte(d.mid) + Base2 * Byte(d.high) + Base3 * (d.head % HeadBase)

get_lba48(d) ==
  Byte(d.low) + Base * Byte(d.mid) + Base2 * Byte(d.high) + Base3 * Byte(d.low \div Base)

get_lba(d, ext) ==
  CASE ext -> get_lba48(d) [] ~ext /\ d.is_lba -> get_lba28(d) [] OTHER -> get_chs(d)

get_count(d, ext) ==
  IF ext THEN IF d.count = 0 THEN Base * Base ELSE d.count
  ELSE IF Byte(d.count) = 0 THEN Base ELSE Byte(d.count)

ChsFromZero(d, a) ==
  [d EXCEPT !.mid = Byte(a \div (Heads * Spt)), !.high = Byte((a \div (Heads * Spt)) \div Base),
            !.head = (a \div Spt) % Heads, !.low = a % Spt]

(* Sectors of a track are counted from 1. *)
SetChs(d, a) ==
  [d EXCEPT !.mid = Byte(a \div (Heads * Spt)), !.high = Byte((a \div (Heads * Spt)) \div Base),
            !.head = (a \div Spt) % Heads, !.low = (a % Spt) + 1]

(* In 28-bit mode the head register gets the address's lowest bits. *)
ata_advance(d, c, n) ==
  LET a    == n + get_lba(d, Ext(c))
      left == [d EXCEPT !.count = @ - n]
      flat == [left EXCEPT !.low = Byte(a), !.mid = Byte(a \div Base),
                           !.high = Byte(a \div Base2)]
  IN  CASE Ext(c)                 -> [flat EXCEPT !.low = @ + Base * Byte(a \div Base3)]
        [] ~Ext(c) /\ d.is_lba    -> [flat EXCEPT !.head = a % HeadBase]
        [] OTHER                  -> SetChs(left, a)

(* What lay behind the new data stays. *)
data_set(d, data) ==
  [d EXCEPT !.len = Len(data), !.ptr = 0, !.data = data \o SubSeq(@, Len(data) + 1, Len(@))]

data_allocate(d, n) == data_set(d, [i \in 1 .. n |-> 0])

Least(a, b) == IF a < b THEN a ELSE b

-----------------------------------------------------------------------------
(* The bus master *)

(* The places in memory that a descriptor table lists, in order. *)
Places(prdt) == FlattenSeq([i \in DOMAIN prdt |-> [j \in 1 .. prdt[i].n |-> prdt[i].at + j - 1]])

WriteBlobs(m, prdt, data) ==
  LET p == Places(prdt)
  IN  [a \in DOMAIN m |->
         LET hits == {i \in 1 .. Least(Len(p), Len(data)) : p[i] = a}
         IN  IF hits = {} THEN m[a] ELSE data[CHOOSE i \in hits : \A j \in hits : j <= i]]

(* The packet's data go to memory once they are there and the guest has    *)
(* started the bus master, in whatever order.                              *)
do_atapi_dma(s) ==
  IF ~s.ch.active \/ "DRQ" \notin s.d.status THEN s
  ELSE End([s EXCEPT !.mem = WriteBlobs(@, s.ch.prdt, SubSeq(s.d.data, 1, s.d.len)), !.ch.active = FALSE,
                     !.d.reason = 3], S80)

(* What a command does with the data that it waited for. *)
Complete(s, k, data) ==
  CASE k.op = "pio" ->
         LET d == [data_set(s.d, data) EXCEPT
                     !.end = IF k.single THEN 1 ELSE Least(Len(data), s.d.drq)]
         IN  End([s EXCEPT !.d = ata_advance(d, k.cmd, IF k.single THEN 1
                                                       ELSE Least(Len(data), Spt))], S88)
    [] k.op = "dma" ->
         End([s EXCEPT !.mem = WriteBlobs(@, s.ch.prdt, data), !.ch.active = FALSE,
                       !.d = [ata_advance(@, @.cmd, Len(data)) EXCEPT !.cmd = "NONE"]], S80)
    [] k.op = "packet" ->
         LET end == Least(k.limit, Len(data))
         IN  End([s EXCEPT !.d = [data_set(@, data) EXCEPT !.end = end, !.reason = 2,
                                    !.mid = Byte(end), !.high = Byte(end \div Base)]], S88)
    [] k.op = "packet_dma" ->
         do_atapi_dma([s EXCEPT !.d = [data_set(@, data) EXCEPT !.status = S88, !.reason = 2]])

(* read_buffer: the answer comes at once when the blocks are at hand. *)
read_buffer(s, a, n, k) ==
  LET id == s.d.last_io_id
      t  == [s EXCEPT !.d.last_io_id = @ + 1]
  IN  IF Cached(s.buf, a, n) THEN Complete(t, k, Fetch(s.buf, a, n))
      ELSE [t EXCEPT !.d.in_progress = @ \cup {id},
                     !.out = @ \cup {[id |-> id, a |-> a, n |-> n, k |-> k,
                                      medium |-> s.buf.medium, wait |-> Asked(s.buf, a, n),
                                      have |-> Copied(s.buf, a, n)]}]

CancelForgotten(d) == d

cancel_io_operations(d) ==
  [d EXCEPT !.cancelled = @ \cup d.in_progress, !.in_progress = {}]

(* By its signature, 20 and 235, the guest knows a drive with packets.     *)
Signed(d) == [d EXCEPT !.mid = 20 % Base, !.high = 235 % Base]

device_reset(d) ==
  LET r == [d EXCEPT !.status = IF d.atapi THEN {} ELSE S65, !.low = 1, !.count = 1]
  IN  cancel_io_operations(IF d.atapi THEN Signed(r) ELSE [r EXCEPT !.mid = 0, !.high = 0])

-----------------------------------------------------------------------------
(* Commands *)

Aborted(s) == End(s, S65)

(* What a hard disk has and a CD-ROM has not. *)
Refused(s, c) ==
  Aborted(IF c \in {"READ", "IDENTIFY"} THEN [s EXCEPT !.d = Signed(@)] ELSE s)

InRange(d, ext) == get_lba(d, ext) + get_count(d, ext) <= DiskUnits

(* Out of range: every status bit is set, BSY too. *)
ata_read_sectors(s, c) ==
  LET n == get_count(s.d, Ext(c))
  IN  IF ~InRange(s.d, Ext(c)) THEN End(s, S255)
      ELSE read_buffer([s EXCEPT !.d.status = S208], get_lba(s.d, Ext(c)), n,
                       [op |-> "pio", cmd |-> c, single |-> c \in {"READ", "READ_EXT"}])

ata_write_sectors(s, c) ==
  LET n == get_count(s.d, Ext(c))
  IN  IF ~InRange(s.d, Ext(c)) THEN End(s, S255)
      ELSE [s EXCEPT !.d = [data_allocate(@, n) EXCEPT !.status = S88,
              !.end = IF c \in {"WRITE", "WRITE_EXT"} THEN 1 ELSE Least(n, s.d.drq),
              !.dest = get_lba(s.d, Ext(c))]]

(* The transfer itself waits for the bus master. *)
ata_sectors_dma(s, c) ==
  IF ~InRange(s.d, Ext(c)) THEN End(s, S255)
  ELSE [s EXCEPT !.d.status = S88, !.ch.active = TRUE]

do_ata_read_sectors_dma(s) ==
  read_buffer(s, get_lba(s.d, Ext(s.d.cmd)), get_count(s.d, Ext(s.d.cmd)), [op |-> "dma"])

(* Writing never waits: the blocks go to the cache. *)
do_ata_write_sectors_dma(s) ==
  LET c    == s.d.cmd
      data == [i \in 1 .. get_count(s.d, Ext(c)) |-> s.mem[Places(s.ch.prdt)[i]]]
  IN  End([s EXCEPT !.buf = BufferSet(@, get_lba(s.d, Ext(c)), data), !.ch.active = FALSE,
                    !.d = [ata_advance(@, c, Len(data)) EXCEPT !.cmd = "NONE"]], S80)

Identify(s) == End([s EXCEPT !.d = [data_allocate(@, 1) EXCEPT !.end = 1]], S88)

(* The address of the last sector, in the address registers. *)
native_max(d, c) ==
  LET count == IF d.atapi THEN (DiskUnits + CdUnits - 1) \div CdUnits ELSE DiskUnits
      a     == count - 1
  IN  [d EXCEPT !.low  = Byte(a) + (IF c = "NATIVE_MAX_EXT" THEN Base * Byte(a \div Base3) ELSE 0),
                !.mid  = Byte(a \div Base),
                !.high = Byte(a \div Base2)]

(* ata_command, with what the write to the command port does around it:    *)
(* the interrupt is lowered when the command has been started, even one    *)
(* that the command itself raised.                                         *)
ata_command(s0, c) ==
  LET s == [s0 EXCEPT !.d.cmd = c, !.d.status = @ \ {"ERR"}]
      t == CASE c = "RESET" -> push_irq([s EXCEPT
                   !.d = device_reset([@ EXCEPT !.len = 0, !.end = 0, !.ptr = 0])])
             [] c \in {"READ", "READ_EXT", "READ_MULTIPLE", "READ_MULTIPLE_EXT"} ->
                  IF s.d.atapi THEN Refused(s, c) ELSE ata_read_sectors(s, c)
             [] c \in {"WRITE", "WRITE_EXT", "WRITE_MULTIPLE", "WRITE_MULTIPLE_EXT"} ->
                  IF s.d.atapi THEN Refused(s, c) ELSE ata_write_sectors(s, c)
             [] c \in {"READ_DMA", "READ_DMA_EXT", "WRITE_DMA", "WRITE_DMA_EXT"} ->
                  ata_sectors_dma(s, c)
             [] c = "SET_MULTIPLE" -> End([s EXCEPT !.d.drq = Byte(s.d.count)], S80)
             [] c = "PACKET" ->
                  IF ~s.d.atapi THEN Aborted(s)
                  ELSE End([s EXCEPT !.d = [data_allocate(@, 1) EXCEPT !.end = 1,
                                                                       !.reason = 1]], S88)
             [] c = "IDENTIFY" -> IF s.d.atapi THEN Refused(s, c) ELSE Identify(s)
             [] c = "IDENTIFY_PACKET" -> IF s.d.atapi THEN Identify(s) ELSE Aborted(s)
             [] c = "RECALIBRATE" -> End([s EXCEPT !.d.mid = 0], S80)
             [] c \in {"NATIVE_MAX", "NATIVE_MAX_EXT"} ->
                  End([s EXCEPT !.d = native_max(@, c)], S80)
             [] c = "NO_DATA" -> End(s, S80)
             [] c = "UNKNOWN" -> Aborted(s)
  IN  [t EXCEPT !.ch.irq = FALSE]

-----------------------------------------------------------------------------
(* Packet commands.  A packet p has a name, the unit it reads from, the    *)
(* number of units and whether it wants them by DMA.                       *)

check_condition(s, sense) ==
  [s EXCEPT !.d = [data_allocate(@, 0) EXCEPT !.end = 0, !.status = S65, !.reason = 3,
                                              !.sense = sense]]

atapi_read(s, p) ==
  LET limit == s.d.mid + Base * s.d.high
      t     == [s EXCEPT !.d.len = 0, !.d.mid = 0, !.d.high = 0]
      n     == Least(p.n, DiskUnits - p.a)
  IN  CASE p.a >= DiskUnits -> End(t, S255)
        [] p.a < DiskUnits /\ p.n = 0 -> [t EXCEPT !.d.status = S80, !.d.ptr = 0]
        [] OTHER -> read_buffer([t EXCEPT !.d.status = S208], p.a, n,
                                [op |-> "packet", limit |-> Least(limit, p.n)])

atapi_read_dma(s, p) ==
  IF p.a >= DiskUnits THEN End(s, S255)
  ELSE read_buffer([s EXCEPT !.d.status = S208], p.a, p.n, [op |-> "packet_dma"])

NeedsDisk == {"READ", "TEST_UNIT_READY", "READ_CAPACITY"}

DoneBlindly(s) ==
  LET t == [s EXCEPT !.d.reason = 2]
  IN  IF "BSY" \in s.d.status THEN t ELSE push_irq(t)

(* The tail of atapi_handle: the interrupt, and no data request without data. *)
PacketDone(s) ==
  LET t == [s EXCEPT !.d.reason = 2]
  IN  IF "BSY" \in s.d.status THEN t
      ELSE LET u == push_irq(t)
           IN  IF u.d.len = 0 THEN [u EXCEPT !.d.reason = 3, !.d.status = @ \ {"DRQ"}] ELSE u

(* A packet that returns as many units of data as the guest allows. *)
Answer(s, n, st) == [s EXCEPT !.d = [data_allocate(@, n) EXCEPT !.end = n, !.status = st]]

atapi_handle(s0, p) ==
  LET s == [s0 EXCEPT !.d.ptr = 0,
                      !.d.sense = IF p.name = "REQUEST_SENSE" THEN @ ELSE "none"]
  IN  IF p.name \in NeedsDisk /\ ~s.d.has_disk
      THEN push_irq(check_condition(s, "no_medium"))
      ELSE PacketDone(
             CASE p.name = "READ" -> IF p.dma THEN atapi_read_dma(s, p) ELSE atapi_read(s, p)
               [] p.name = "REQUEST_SENSE" -> [Answer(s, p.n, S88) EXCEPT !.d.sense = "none"]
               [] p.name \in {"READ_CAPACITY", "INQUIRY"} -> Answer(s, p.n, S88)
               [] p.name = "TEST_UNIT_READY" -> Answer(s, 0, S80)
               [] p.name = "EJECT" ->
                    [Answer(s, 0, S80) EXCEPT !.d.has_disk = FALSE]
               [] p.name = "UNKNOWN" -> check_condition(s, "illegal"))

-----------------------------------------------------------------------------
(* The data port *)

read_end(s) ==
  LET d    == s.d
      rest == d.len - d.end
      step == d.mid + Base * d.high
      n    == IF d.cmd \in {"READ_MULTIPLE", "READ_MULTIPLE_EXT"} THEN Least(d.drq, rest) ELSE 1
  IN  CASE d.cmd = "PACKET" /\ rest = 0 -> End([s EXCEPT !.d.reason = 3], S80)
        [] d.cmd = "PACKET" /\ rest # 0 ->
             LET m == Least(step, rest)
             IN  End([s EXCEPT !.d = [d EXCEPT !.reason = 2, !.end = @ + m, !.mid = Byte(m),
                                              !.high = Byte(m \div Base)]], S88)
        [] d.cmd # "PACKET" /\ d.ptr >= d.len -> [s EXCEPT !.d.status = S80]
        [] OTHER -> End([s EXCEPT !.d = [ata_advance(d, d.cmd, n) EXCEPT !.end = @ + n]], S88)

(* The unit that the data port shows; 0 when there is none. *)
Unit(d) == IF d.ptr < d.end THEN d.data[d.ptr + 1] ELSE 0

read_data(s) ==
  LET t == [s EXCEPT !.d.ptr = @ + 1]
  IN  IF s.d.ptr < s.d.end /\ t.d.ptr >= t.d.end THEN read_end(t) ELSE t

do_write(s) ==
  LET t == End([s EXCEPT !.d = ata_advance(@, @.cmd, @.len)], S80)
  IN  [t EXCEPT !.buf = BufferSet(@, s.d.dest, SubSeq(s.d.data, 1, s.d.len))]

write_data_port(s, v) ==
  LET t == [s EXCEPT !.d.data[s.d.ptr + 1] = v, !.d.ptr = @ + 1]
  IN  CASE s.d.ptr >= s.d.end -> s
        [] s.d.ptr < s.d.end /\ t.d.ptr < t.d.end -> t
        [] s.d.ptr < s.d.end /\ t.d.ptr = t.d.end ->
             IF t.d.ptr >= t.d.len THEN do_write(t)
             ELSE End([t EXCEPT !.d.end = @ + 1], S88)

dma_write_command8(s, start) ==
  LET t == [s EXCEPT !.ch.start = start]
      u == [t EXCEPT !.ch.active = TRUE]
  IN  CASE start = s.ch.start -> t
        [] start # s.ch.start /\ ~start -> [t EXCEPT !.ch.active = FALSE]
        [] OTHER ->
             CASE s.d.cmd \in {"READ_DMA", "READ_DMA_EXT"} -> do_ata_read_sectors_dma(u)
               [] s.d.cmd \in {"WRITE_DMA", "WRITE_DMA_EXT"} -> do_ata_write_sectors_dma(u)
               [] s.d.cmd = "PACKET" -> do_atapi_dma(u)
               [] OTHER -> push_irq([t EXCEPT !.ch.active = FALSE])

(* The reset bit takes effect when it is written. *)
write_control(s, reset, nien) ==
  LET t == IF reset THEN [s EXCEPT !.ch.irq = FALSE, !.d = device_reset(@)] ELSE s
  IN  [t EXCEPT !.ch.nien = nien]

-----------------------------------------------------------------------------
(* The guest *)

PioReads  == {"READ", "READ_EXT", "READ_MULTIPLE", "READ_MULTIPLE_EXT"}
PioWrites == {"WRITE", "WRITE_EXT", "WRITE_MULTIPLE", "WRITE_MULTIPLE_EXT"}
DmaReads  == {"READ_DMA", "READ_DMA_EXT"}
DmaWrites == {"WRITE_DMA", "WRITE_DMA_EXT"}

(* Commands that move no sectors. *)
Plain == {"SET_MULTIPLE", "IDENTIFY", "IDENTIFY_PACKET", "RECALIBRATE", "NATIVE_MAX",
          "NATIVE_MAX_EXT", "NO_DATA", "UNKNOWN"}

(* What a guest may ask for.  A block of READ MULTIPLE is not empty.  A    *)
(* packet that reads by DMA ends on the disk if it begins there: it is not *)
(* cut at the end, and the buffers would be asked for what they lack.      *)
ASSUME GuestAssumption ==
  /\ \A r \in Requests :
       /\ r.lba \in Nat /\ r.count \in 0 .. Base * Base /\ r.is_lba \in BOOLEAN
       /\ r.cmd \in PioReads \cup PioWrites \cup DmaReads \cup DmaWrites \cup Plain
       /\ r.cmd \in DmaReads \cup DmaWrites <=> r.prdt # << >>
       /\ r.cmd = "SET_MULTIPLE" => r.count % Base # 0
  /\ \A p \in Packets :
       /\ p.a \in Nat /\ p.n \in Nat /\ p.dma \in BOOLEAN /\ (p.dma <=> p.prdt # << >>)
       /\ p.name = "READ" /\ p.dma /\ p.a < DiskUnits => p.a + p.n <= DiskUnits
       /\ p.name \in {"READ", "REQUEST_SENSE", "READ_CAPACITY", "INQUIRY", "TEST_UNIT_READY",
                      "EJECT", "UNKNOWN"}

(* The registers as the guest writes them for a request: in the extended   *)
(* commands every one twice, the upper byte first.                         *)
WriteRegs(d, r) ==
  LET digit(w) == (r.lba \div w) % Base
      cyl      == r.lba \div (Heads * Spt)
      once     == [d EXCEPT !.count = Shift(@, r.count % Base), !.is_lba = r.is_lba]
  IN  CASE Ext(r.cmd) ->
             [once EXCEPT !.count = Shift(r.count \div Base, r.count % Base), !.head = 0,
                          !.low = Shift(digit(Base3), digit(1)), !.mid = digit(Base),
                          !.high = digit(Base2)]
        [] ~Ext(r.cmd) /\ r.is_lba ->
             [once EXCEPT !.low = Shift(@, digit(1)), !.mid = Shift(@, digit(Base)),
                          !.high = Shift(@, digit(Base2)), !.head = digit(Base3) % HeadBase]
        [] OTHER ->
             [once EXCEPT !.low = Shift(@, (r.lba % Spt) + 1), !.mid = Shift(@, cyl % Base),
                          !.high = Shift(@, cyl \div Base), !.head = (r.lba \div Spt) % Heads]

Ready ==
  /\ "BSY" \notin dev.status
  /\ "DRQ" \in dev.status => "ERR" \in dev.status
  /\ ~ch.start
  /\ commands < MaxCommands

(* A CD's sectors are longer: its driver uses packets for DMA. *)
issue ==
  /\ Ready
  /\ commands' = commands + 1
  /\ \E r \in Requests :
       /\ dev.atapi => r.cmd \notin DmaReads \cup DmaWrites
       /\ Show(ata_command([Machine EXCEPT !.d = WriteRegs(@, r), !.ch.prdt = r.prdt], r.cmd))
       /\ asked' = [cmd |-> r.cmd, atapi |-> FALSE, first |-> r.lba, prdt |-> r.prdt,
                    n |-> IF r.cmd \in PioReads \cup PioWrites \cup DmaReads \cup DmaWrites
                          THEN r.count ELSE 0]
  /\ got' = << >> /\ sent' = << >> /\ still' = FALSE
  /\ UNCHANGED <<disk, torn, faults>>

(* PACKET, with the most units that the drive may offer at a time. *)
issue_packet ==
  /\ Ready /\ dev.atapi
  /\ commands' = commands + 1
  /\ \E limit \in 1 .. CdUnits + 1 :
       Show(ata_command([Machine EXCEPT !.d.mid = limit % Base, !.d.high = limit \div Base],
                        "PACKET"))
  /\ asked' = None /\ got' = << >> /\ sent' = << >> /\ still' = FALSE
  /\ UNCHANGED <<disk, torn, faults>>

send_packet ==
  /\ dev.cmd = "PACKET" /\ dev.status = S88 /\ dev.reason = 1
  /\ \E p \in Packets :
       /\ Show(atapi_handle([Machine EXCEPT !.ch.prdt = p.prdt], p))
       /\ asked' = [cmd |-> p.name, atapi |-> TRUE, first |-> p.a, prdt |-> p.prdt,
                    n |-> IF p.name = "READ" /\ p.a < DiskUnits
                          THEN Least(p.n, DiskUnits - p.a) ELSE 0]
  /\ UNCHANGED <<disk, got, sent, torn, still, commands, faults>>

guest_read ==
  /\ dev.status = S88 /\ asked.prdt = << >>
  /\ asked.cmd \in PioReads \cup {"IDENTIFY", "IDENTIFY_PACKET"} \/ asked.atapi
  /\ dev.cmd = "PACKET" => dev.reason = 2
  /\ dev.ptr <= dev.len
  /\ got' = IF asked.n = 0 THEN got ELSE Append(got, Unit(dev))
  /\ Show(read_data(Machine))
  /\ UNCHANGED <<disk, asked, sent, torn, still, commands, faults>>

Put(f, a, data) ==
  [u \in DOMAIN f |-> IF u \in Span(a, Len(data)) THEN data[u - a + 1] ELSE f[u]]

(* A CD aborts a write: what the guest sends it is no sector. *)
guest_write ==
  /\ ~dev.atapi /\ dev.status = S88 /\ asked.cmd \in PioWrites /\ Len(sent) < asked.n
  /\ LET v == -(10 * commands + Len(sent))
     IN  /\ Show(write_data_port(Machine, v))
         /\ sent' = Append(sent, v)
         /\ disk' = IF Len(sent) + 1 = asked.n THEN Put(disk, asked.first, Append(sent, v))
                    ELSE disk
  /\ UNCHANGED <<asked, got, torn, still, commands, faults>>

guest_dma_start ==
  /\ asked.prdt # << >> /\ ~ch.start
  /\ dev.cmd = IF asked.atapi THEN "PACKET" ELSE asked.cmd
  /\ dev.status \in {S88, S208}
  /\ Show(dma_write_command8(Machine, TRUE))
  /\ disk' = IF asked.cmd \in DmaWrites
             THEN Put(disk, asked.first,
                      [i \in 1 .. asked.n |-> mem[Places(asked.prdt)[i]]])
             ELSE disk
  /\ UNCHANGED <<asked, got, sent, torn, still, commands, faults>>

guest_dma_stop ==
  /\ ch.start /\ ~ch.active
  /\ Show(dma_write_command8(Machine, FALSE))
  /\ UNCHANGED <<guestVars, commands, faults>>

(* Reading the status register lowers the interrupt. *)
guest_status ==
  /\ ch.irq
  /\ ch' = [ch EXCEPT !.irq = FALSE]
  /\ UNCHANGED <<dev, buf, out, mem, guestVars, commands, faults>>

Fault == faults < MaxFaults /\ faults' = faults + 1 /\ UNCHANGED commands

Abandon == asked' = None /\ got' = << >> /\ sent' = << >> /\ torn' = FALSE /\ still' = TRUE

(* After a timeout, say: the bus master is stopped and the channel reset.  *)
guest_reset ==
  /\ Fault
  /\ \E nien \in BOOLEAN :
       Show(write_control(write_control(dma_write_command8(Machine, FALSE), TRUE, nien),
                          FALSE, nien))
  /\ Abandon /\ UNCHANGED disk

(* DEVICE RESET may be written while the drive is busy. *)
guest_device_reset ==
  /\ Fault
  /\ Show(ata_command(dma_write_command8(Machine, FALSE), "RESET"))
  /\ Abandon /\ UNCHANGED disk

-----------------------------------------------------------------------------
(* The page *)

(* The buffer that a read was asked of: the present one, or one that has   *)
(* been replaced and is only known to the read.                            *)
BufferOf(r) == IF r.medium = buf.medium THEN buf ELSE NewBuffer(buf.kind, r.medium)

(* An answer.  The last one ends the read.  That of a cancelled read is    *)
(* dropped, but its blocks may be kept in the cache.                       *)
complete ==
  \E r \in out : \E c \in r.wait :
    LET b    == BufferOf(r)
        all  == Received(b, c) @@ r.have
        data == [i \in 1 .. r.n |-> all[r.a + i - 1]]
        s    == [Machine EXCEPT !.out = @ \ {r},
                                !.buf = IF r.medium = @.medium THEN handle_read(@, c) ELSE @]
    IN  /\ Show(CASE r.wait # {c} ->
                       [s EXCEPT !.out = @ \cup {[r EXCEPT !.wait = r.wait \ {c}, !.have = all]}]
                  [] r.wait = {c} /\ r.id \in dev.cancelled ->
                       [s EXCEPT !.d.cancelled = @ \ {r.id}]
                  [] OTHER ->
                       Complete([s EXCEPT !.d.in_progress = @ \ {r.id}], r.k, data))
        /\ UNCHANGED <<guestVars, commands, faults>>

UnderWay == dev.in_progress # {} \/ (asked # None /\ dev.status = S88)

eject ==
  /\ Fault /\ dev.atapi /\ dev.has_disk
  /\ Show(End([Machine EXCEPT !.d.has_disk = FALSE], S89))
  /\ torn' = (torn \/ UnderWay) /\ still' = FALSE
  /\ UNCHANGED <<disk, asked, got, sent>>

(* Reads of the medium that was in the drive are not cancelled. *)
set_cdrom ==
  /\ Fault /\ dev.atapi
  /\ Show(End([Machine EXCEPT !.d.has_disk = TRUE,
                              !.buf = NewBuffer(buf.kind, buf.medium + 1)], S89))
  /\ disk' = Image(buf.medium + 1)
  /\ torn' = (torn \/ UnderWay) /\ still' = FALSE /\ asked' = None
  /\ got' = << >> /\ UNCHANGED sent

(* save_state, and restore_state in a new page with the same image:        *)
(* outstanding reads are not part of the state.                            *)
restore_state ==
  /\ Fault /\ dev.has_disk /\ buf.medium = 1
  /\ buf' = BufferRestored(buf)
  /\ out' = {}
  /\ dev' = [dev EXCEPT !.in_progress = {}, !.cancelled = {}, !.last_io_id = 0,
                        !.sense = "none"]
  /\ torn' = (torn \/ dev.in_progress # {}) /\ still' = FALSE
  /\ UNCHANGED <<ch, mem, disk, asked, got, sent>>

NewDrive(atapi) ==
  [atapi |-> atapi, status |-> IF atapi THEN S89 ELSE S80, count |-> 0, low |-> 0, mid |-> 0,
   high |-> 0, head |-> 0, is_lba |-> FALSE, drq |-> Drq, ptr |-> 0, end |-> 0, len |-> 0,
   data |-> << >>, cmd |-> "NONE", dest |-> 0, last_io_id |-> 0, in_progress |-> {},
   cancelled |-> {}, sense |-> "none", reason |-> 0, has_disk |-> TRUE]

Init ==
  /\ \E atapi \in BOOLEAN : dev = NewDrive(atapi)
  /\ \E kind \in Kinds : buf = NewBuffer(kind, 1)
  /\ ch = [irq |-> FALSE, dmairq |-> FALSE, nien |-> TRUE, start |-> FALSE, active |-> FALSE,
           prdt |-> << >>]
  /\ out = {} /\ mem = [a \in 0 .. MemSize - 1 |-> -(100 + a)]
  /\ commands = 0 /\ faults = 0
  /\ disk = Image(1) /\ asked = None /\ got = << >> /\ sent = << >>
  /\ torn = FALSE /\ still = FALSE

Next ==
  \/ issue \/ issue_packet \/ send_packet \/ guest_read \/ guest_write
  \/ guest_dma_start \/ guest_dma_stop \/ guest_status \/ guest_reset
  \/ guest_device_reset \/ complete \/ eject \/ set_cdrom \/ restore_state

Spec == Init /\ [][Next]_vars

-----------------------------------------------------------------------------
(* Properties *)

TypeOK ==
  /\ dev.status \subseteq {"BSY", "DRDY", "DRQ", "ERR"} /\ dev.reason \in 0 .. 3
  /\ {dev.low, dev.mid, dev.high} \subseteq 0 .. Base * Base - 1
  /\ dev.head \in 0 .. HeadBase - 1
  /\ DOMAIN mem = 0 .. MemSize - 1 /\ buf.dirty \subseteq DOMAIN buf.cache

(* The drive's picture of itself is right (read_buffer,                    *)
(* cancel_io_operations, the handlers and the data port): every read that  *)
(* is outstanding is known, as wanted or as cancelled, and no other; at    *)
(* most one is wanted; the drive is busy exactly while one is wanted by    *)
(* the guest's command; and it asks for data only when there are some.     *)
(* The last three are not for a drive that lost its medium or a read.      *)
IdeProtocol ==
  /\ TypeOK
  /\ {r.id : r \in out} = dev.in_progress \cup dev.cancelled
  /\ dev.in_progress \cap dev.cancelled = {}
  /\ ~torn =>
       /\ Cardinality(dev.in_progress) <= 1
       /\ (dev.status = S208) = (\E r \in out : r.id \in dev.in_progress /\ r.k.op # "dma")
       /\ dev.status = S88 /\ asked.prdt = << >> => dev.ptr < dev.end /\ dev.end <= dev.len

Finished == dev.status = S80 /\ asked.n > 0

(* A unit of the medium; a buffer in parts may answer one that was written *)
(* into a part it does not have as the server knows it.                    *)
OnMedium(u, v) ==
  v = disk[u] \/ (buf.kind = "parts" /\ u \in buf.dirty /\ v = buf.image[u])

(* What the guest reads is what is on the medium (BufferSet, handle_read,  *)
(* read_end, do_atapi_dma and the buffers): through the data port every    *)
(* unit in its turn and all of them, through the bus master at the places  *)
(* of the descriptor table; writes that are only in the cache, chunks that *)
(* were read for another request, late answers, resets and restored states *)
(* notwithstanding.  Excepted are a written unit of an image in parts, and *)
(* everything after a transfer from which the page took the medium or the  *)
(* read away (torn), by ejecting, a new CD or a restored state, until the  *)
(* guest resets the drive.                                                 *)
ReadsAreTrue ==
  ~torn =>
    /\ Len(got) <= asked.n
    /\ \A i \in DOMAIN got : OnMedium(asked.first + i - 1, got[i])
    /\ Finished /\ (asked.cmd \in PioReads \/ asked.atapi) /\ asked.prdt = << >> =>
         Len(got) = asked.n
    /\ Finished /\ (asked.cmd \in DmaReads \/ asked.atapi) /\ asked.prdt # << >> =>
         \A i \in 1 .. asked.n : OnMedium(asked.first + i - 1, mem[Places(asked.prdt)[i]])

(* After a transfer the address registers name the sector behind it, and   *)
(* the count is used up (ata_advance), whichever of the three forms the    *)
(* address has.  Excepted are READ MULTIPLE, which advances by a track,    *)
(* the head register in 28-bit mode, and a drive that lost its medium or a *)
(* read and was not reset.                                                 *)
AddressFollows ==
  Finished /\ ~asked.atapi /\ ~torn /\ asked.cmd \notin {"READ_MULTIPLE", "READ_MULTIPLE_EXT"} =>
    /\ Byte(dev.count) = 0
    /\ IF ~Ext(asked.cmd) /\ dev.is_lba
       THEN get_lba28([dev EXCEPT !.head = 0]) = (asked.first + asked.n) % Base3
       ELSE get_lba(dev, Ext(asked.cmd)) = asked.first + asked.n

(* A reset is the end of what was under way (device_reset, read_buffer):   *)
(* until the next command no late answer touches the registers, the data,  *)
(* the interrupt line or the memory.                                       *)
ResetIsFinal ==
  [][(still /\ still') =>
       /\ mem' = mem /\ (ch.irq' => ch.irq)
       /\ faults' = faults => dev' = [dev EXCEPT !.cancelled = dev'.cancelled]]_vars
=============================================================================
