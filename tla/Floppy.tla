------------------------------ MODULE Floppy -------------------------------
(***************************************************************************)
(* The emulated PC's floppy controller with its two drives, from which the *)
(* demo boots the kernel, and a guest that drives it through its ports.    *)
(*                                                                         *)
(* Registers are sets of named bits.  A command is written byte by byte;   *)
(* its arguments are kept as the values they carry, sectors always have    *)
(* 512 bytes, and of the response only status register 0 and the number of *)
(* bytes are kept.  The guest follows the protocol of a driver: it         *)
(* programs the DMA channel, writes a command, reads the response and      *)
(* asks for the cause of other interrupts, but it may reset the controller *)
(* at any time, skip the latter, and leave the DMA gate closed; the page   *)
(* changes disks at any time.  asked and quiet only observe.               *)
(***************************************************************************)
EXTENDS Dma, FiniteSets

CONSTANTS
  Formats,     \* the table of disk formats: drive_type, sectors, tracks, heads
  Sizes,       \* sizes, in sectors, of the images that the page has
  Addresses,   \* drive, track, head, sector and last sector of transfers
  Targets,     \* memory address and count - 1 of transfers
  MaxCommands, \* bound: commands of the guest
  MaxSwaps     \* bound: disks inserted or ejected

(* A driver counts heads from 0 and sectors from 1.  do_write takes the     *)
(* largest count for 0.                                                    *)
ASSUME FloppyAssumption ==
  /\ Formats \in Seq([type : Nat, sectors : Nat \ {0}, tracks : Nat \ {0}, heads : 1 .. 2])
  /\ Sizes \subseteq Nat
  /\ Addresses \subseteq [drive : 0 .. 1, track : Nat, head : 0 .. 1, sect : Nat \ {0}, eot : Nat]
  /\ Targets \subseteq [addr : 0 .. Base * Base - 1, count : 0 .. Base * Base - 2,
                        auto : BOOLEAN]
  /\ {MaxCommands, MaxSwaps} \subseteq Nat

VARIABLES
  fdc,         \* the controller's registers and its interrupt line
  drives,
  chan, mem,   \* DMA channel 2 and the memory
  todo,        \* bytes of the guest's command that are still to be written
  commands, swaps,
  asked,       \* the transfer that the guest's command asks for
  quiet        \* no interrupt was pending when the command was begun

devVars   == <<fdc, drives, chan, mem>>
guestVars == <<todo, commands, asked, quiet>>
floppyVars == <<devVars, guestVars, swaps>>

-----------------------------------------------------------------------------
(* Drives *)

NoDisk == << >>
NoTransfer == [cmd |-> "NONE"]

(* The type is open until the constructor has inserted its disk.           *)
EmptyDrive == [type |-> 0, max_track |-> 0, max_head |-> 0, max_sect |-> 0,
               track |-> 0, head |-> 0, sect |-> 1, read_only |-> FALSE,
               media_changed |-> TRUE, buffer |-> NoDisk]

chs2lba(d, track, head, sect) == (track * d.max_head + head) * d.max_sect + sect - 1

Sectors(f) == f.sectors * f.tracks * f.heads

(* Media with the same density, by drive type (table Qc). *)
Density(type) == CASE type = 0 -> 0 [] type \in {1, 2} -> 525 [] OTHER -> 350

(* The index of the format for an image: same size, best for this drive;   *)
(* else the smallest that is larger; 0 when the image is too large.        *)
find_disk_format(size, type) ==
  LET all   == DOMAIN Formats
      same  == {i \in all : Sectors(Formats[i]) = size}
      exact == {i \in same : type = 0 \/ Formats[i].type = type}
      near  == {i \in same : Density(Formats[i].type) = Density(type)}
      above == {i \in all : Sectors(Formats[i]) > size}
      least == {i \in above : \A j \in above : Sectors(Formats[i]) <= Sectors(Formats[j])}
  IN  IF exact # {} THEN Min(exact)
      ELSE IF near # {} THEN Min(near)
      ELSE IF same # {} THEN Min(same)
      ELSE IF least # {} THEN Min(least) ELSE 0

(* An image that matches no format is copied to a longer buffer of zeros.  *)
Padded(image, n) == [i \in 1 .. n |-> IF i <= Len(image) THEN image[i] ELSE 0]

insert_disk(d, image, ro) ==
  LET i == find_disk_format(Len(image), d.type)
      f == Formats[i]
  IN  IF i = 0 THEN d
      ELSE [d EXCEPT !.max_track = f.tracks, !.max_head = f.heads, !.max_sect = f.sectors,
                     !.read_only = ro, !.media_changed = TRUE,
                     !.buffer = Padded(image, Sectors(f)),
                     !.type = IF @ = 0 THEN f.type ELSE @]

(* The constructor: the drive adopts the type of its first disk, else 4.   *)
Typed(d) == IF d.type = 0 THEN [d EXCEPT !.type = 4] ELSE d

eject_disk(d) ==
  [d EXCEPT !.max_track = 0, !.max_head = 0, !.max_sect = 0, !.media_changed = TRUE,
            !.buffer = NoDisk]

(* seek: 2, the position or the disk does not exist; 3, the sector does    *)
(* not; 1, another track.  The track after the last one is let through.    *)
SeekResult(d, head, track, sect) ==
  IF track > d.max_track \/ (head # 0 /\ d.max_head = 1) THEN 2
  ELSE IF sect > d.max_sect THEN 3
  ELSE IF d.buffer = NoDisk THEN 2
  ELSE IF chs2lba(d, d.track, d.head, d.sect) # chs2lba(d, track, head, sect) /\ d.track # track
  THEN 1 ELSE 0

Moves(d, head, track, sect) ==
  /\ ~(track > d.max_track \/ (head # 0 /\ d.max_head = 1)) /\ sect <= d.max_sect
  /\ chs2lba(d, d.track, d.head, d.sect) # chs2lba(d, track, head, sect)

SeekOnlyUp(d, head, track, sect) ==
  IF ~Moves(d, head, track, sect) \/ track < d.track THEN d
  ELSE [d EXCEPT !.head = head, !.track = track, !.sect = sect,
                 !.media_changed = @ /\ d.buffer = NoDisk]

seek(d, head, track, sect) ==
  IF ~Moves(d, head, track, sect) THEN d
  ELSE [d EXCEPT !.head = head, !.track = track, !.sect = sect,
                 !.media_changed = @ /\ ~(d.track # track /\ d.buffer # NoDisk)]

-----------------------------------------------------------------------------
(* The controller.  s is the record of all that a handler may change:      *)
(* f (registers), drives, chan and mem.                                    *)

Machine == [f |-> fdc, drives |-> drives, chan |-> chan, mem |-> mem]

Show(s) == fdc' = s.f /\ drives' = s.drives /\ chan' = s.chan /\ mem' = s.mem

(* An interrupt ends the series of answers that follows a reset. *)
raise_irq(f) == [f EXCEPT !.irq6 = TRUE, !.sra = TRUE, !.sense = 0]

lower_irq(f) == [f EXCEPT !.irq6 = @ /\ ~f.sra, !.sra = FALSE, !.status0 = {}]

enter_command_phase(f) ==
  [f EXCEPT !.phase = 1, !.left = 0, !.args = << >>, !.msr = (@ \ {"dio", "busy"}) \cup {"rqm"}]

enter_result_phase(f, n) ==
  [f EXCEPT !.phase = 3, !.rcur = 0, !.rlen = n, !.msr = @ \cup {"rqm", "dio", "busy"}]

Drive(s) == s.drives[s.f.drive]

(* enter_result_phase with st as status register 0. *)
Respond(s, st, n) == [s EXCEPT !.f = enter_result_phase([s.f EXCEPT !.st0 = st], n)]

end_read_write(s, bits) ==
  LET st == (s.f.status0 \ {"head", "drive1"}) \cup bits
              \cup (IF s.f.drive = 1 THEN {"drive1"} ELSE {})
              \cup (IF Drive(s).head = 1 THEN {"head"} ELSE {})
      t  == Respond([s EXCEPT !.f.status0 = st], st, 7)
  IN  [t EXCEPT !.f = raise_irq(t.f)]

ResetKeepsPhase(s) ==
  LET f == [lower_irq(s.f) EXCEPT !.dor = {"dma", "run"}, !.msr = {"rqm"}, !.drive = 0,
                                  !.status0 = @ \cup {"ic1", "ic0"}]
  IN  [s EXCEPT !.f = [raise_irq(f) EXCEPT !.sense = 4],
                !.drives = [n \in 0 .. 1 |-> seek(@[n], 0, 0, 1)]]

reset_fdc(s) ==
  LET f == [lower_irq(s.f) EXCEPT !.dor = {"dma", "run"}, !.msr = {"rqm"}, !.drive = 0,
                                  !.status0 = @ \cup {"ic1", "ic0"}, !.rcur = 0, !.rlen = 0]
  IN  [s EXCEPT !.f = [raise_irq(enter_command_phase(f)) EXCEPT !.sense = 4],
                !.drives = [n \in 0 .. 1 |-> seek(@[n], 0, 0, 1)]]

(* seek_next_sect: on from the first sector of the transfer, not the last. *)
seek_next_sect(s, mt) ==
  LET d    == Drive(s)
      wrap == d.sect >= d.max_sect \/ d.sect = s.f.eot
      side == wrap /\ mt /\ d.head = 0 /\ d.max_head = 2
      head == IF side THEN 1 ELSE IF wrap /\ mt THEN 0 ELSE d.head
      t    == IF wrap /\ ~side THEN d.track + 1 ELSE d.track
      sect == IF wrap THEN 1 ELSE d.sect + 1
  IN  [s EXCEPT !.drives[s.f.drive] = seek(d, head, t, sect),
                !.f.status0 = IF wrap /\ ~side THEN @ \cup {"se"} ELSE @]

Seek(s, head, track, sect) ==
  [s EXCEPT !.drives[s.f.drive] = seek(@, head, track, sect)]

(* READ and WRITE, with all their early ends. *)
start_read_write(s0, a, write, mt) ==
  LET s1 == [s0 EXCEPT !.f.drive = a[1] % 2]
      d  == Drive(s1)
      r  == SeekResult(d, a[3], a[2], a[4])
      s2 == Seek(s1, a[3], a[2], a[4])
      s3 == [s2 EXCEPT !.f.status0 = IF r = 1 THEN @ \cup {"se"} ELSE @]
      n  == (IF mt THEN 2 * a[6] ELSE a[6]) - a[4] + 1
      b  == chs2lba(d, a[2], a[3], a[4])
      s4 == [s3 EXCEPT !.f.eot = a[6]]
      x  == IF write THEN do_write(s4.chan, s4.mem, d.buffer, b, n)
            ELSE do_read(s4.chan, s4.mem, d.buffer, b)
      s5 == [s4 EXCEPT !.f.msr = @ \ {"rqm"}, !.chan = x.chan, !.mem = x.mem,
                       !.drives[s4.f.drive].buffer = x.image]
  IN  CASE r \in {2, 3}              -> end_read_write(s2, {"ic0"})
        [] r \notin {2, 3} /\ n <= 0 -> end_read_write(s3, {"ic0"})
        [] r \notin {2, 3} /\ n > 0 /\ write /\ d.read_only ->
             end_read_write(s4, {"ic0", "se"})
        [] r \notin {2, 3} /\ n > 0 /\ ~(write /\ d.read_only) ->
             CASE "dma" \notin s4.f.dor -> s4
               [] "dma" \in s4.f.dor /\ x.failed -> end_read_write(s5, {"ic0"})
               [] OTHER -> end_read_write(seek_next_sect(s5, mt), {})

(* Commands and the number of their arguments; an unknown command has any. *)
Argc == [READ |-> 8, READ_MT |-> 8, WRITE |-> 8, WRITE_MT |-> 8, SEEK |-> 2,
         SENSE |-> 0, RECALIBRATE |-> 1, FORMAT |-> 5, READ_ID |-> 1, SPECIFY |-> 2,
         SENSE_DRIVE |-> 1, PERPENDICULAR |-> 1, CONFIGURE |-> 3, LOCK |-> 0,
         DUMP_REGS |-> 0, VERSION |-> 0, PART_ID |-> 0, UNKNOWN |-> 0, READ_TRACK |-> 8]

exec_sense_interrupt_status(s) ==
  LET st == IF s.f.sense > 0 THEN {"ic1", "ic0"} ELSE s.f.status0 \ {"head", "drive1"}
      t  == Respond([s EXCEPT !.f.sense = IF @ > 0 THEN @ - 1 ELSE 0], st, 2)
  IN  IF s.f.sense = 0 /\ ~s.f.sra THEN Respond(s, {"ic1"}, 1)
      ELSE [t EXCEPT !.f = [lower_irq(@) EXCEPT !.status0 = {"ic1", "ic0"}]]

(* The end of SEEK and RECALIBRATE, whether or not the head has moved. *)
EndSeek(s) ==
  [s EXCEPT !.f = raise_irq([enter_command_phase(s.f) EXCEPT !.status0 = @ \cup {"se"}])]

exec_read_id(s, a) ==
  LET d == Drive(s)
  IN  end_read_write([s EXCEPT !.drives[s.f.drive] =
                        [d EXCEPT !.head = (a[1] \div 4) % 2,
                                  !.sect = IF d.max_sect = 0 THEN @ ELSE (@ % d.max_sect) + 1]], {})

(* The handler of the command whose last byte has arrived. *)
Execute(s, a) ==
  LET c    == s.f.cmd
      here == IF a = << >> THEN s ELSE [s EXCEPT !.f.drive = a[1] % 2]
  IN  CASE c \in {"READ", "READ_MT"}   -> start_read_write(s, a, FALSE, c = "READ_MT")
        [] c \in {"WRITE", "WRITE_MT"} -> start_read_write(s, a, TRUE, c = "WRITE_MT")
        [] c = "SEEK"        -> EndSeek(Seek(here, Drive(here).head, a[2], Drive(here).sect))
        [] c = "RECALIBRATE" -> EndSeek(Seek(here, 0, 0, 1))
        [] c = "SENSE"       -> exec_sense_interrupt_status(s)
        [] c = "FORMAT"      -> end_read_write(here, IF Drive(here).read_only THEN {"ic0", "se"}
                                                     ELSE {})
        [] c = "READ_ID"     -> exec_read_id(s, a)
        [] c = "SPECIFY"     -> [s EXCEPT !.f = [enter_command_phase(s.f) EXCEPT
                                   !.dor = IF a[2] % 2 = 1 THEN @ \ {"dma"} ELSE @ \cup {"dma"}]]
        [] c = "SENSE_DRIVE" -> Respond([here EXCEPT !.drives[here.f.drive].head =
                                           (a[1] \div 4) % 2], {}, 1)
        [] c \in {"PERPENDICULAR", "CONFIGURE"} -> [s EXCEPT !.f = enter_command_phase(@)]
        [] c = "DUMP_REGS"   -> Respond(s, {}, 10)
        [] c \in {"LOCK", "VERSION", "PART_ID"} -> Respond(s, {}, 1)
        [] c \in {"UNKNOWN", "READ_TRACK"} -> Respond([s EXCEPT !.f.status0 = {"ic1"}], {"ic1"}, 1)

-----------------------------------------------------------------------------
(* Ports *)

write_reg_fifo(s, byte) ==
  LET first == s.f.left = 0
      f1 == IF first
            THEN [s.f EXCEPT !.cmd = byte, !.left = Argc[byte], !.args = << >>,
                             !.msr = @ \cup {"busy"}]
            ELSE [s.f EXCEPT !.args = Append(@, byte), !.left = @ - 1]
  IN  IF "run" \notin s.f.dor \/ "rqm" \notin s.f.msr \/ "dio" \in s.f.msr \/ s.f.phase # 1
      THEN s
      ELSE IF f1.left > 0 THEN [s EXCEPT !.f = f1]
      ELSE Execute([s EXCEPT !.f = [f1 EXCEPT !.phase = 2]], f1.args)

read_reg_fifo(s) ==
  IF ~({"rqm", "dio"} \subseteq s.f.msr) \/ s.f.phase # 3 \/ s.f.rcur >= s.f.rlen THEN s
  ELSE IF s.f.rcur + 1 < s.f.rlen THEN [s EXCEPT !.f.rcur = @ + 1]
  ELSE [s EXCEPT !.f = lower_irq(enter_command_phase([s.f EXCEPT !.rcur = @ + 1]))]

(* Reading the main status register ends a reset. *)
read_reg_msr(s) == [s EXCEPT !.f.dor = @ \cup {"run"}]

write_reg_dor(s, bits, drive) ==
  LET t == IF "run" \notin s.f.dor /\ "run" \in bits THEN reset_fdc(s) ELSE s
  IN  [t EXCEPT !.f.drive = drive, !.f.dor = bits]

(* The reset bits of the data rate register; power down resets, too. *)
write_reg_dsr(s) == IF "run" \in s.f.dor THEN reset_fdc(s) ELSE s

-----------------------------------------------------------------------------
(* The guest *)

Transfers == {"READ", "READ_MT", "WRITE", "WRITE_MT"}

(* The channel's registers are written low byte first, after the flip-flop *)
(* has been cleared.                                                       *)
Program(d, t) ==
  LET lo(x) == x % Base
      hi(x) == x \div Base
      d1 == port_mode_write(portC_write(d), t.auto)
      d2 == port_addr_write(port_addr_write(d1, lo(t.addr)), hi(t.addr))
      d3 == port_page_write(portC_write(d2), 0)
  IN  port_count_write(port_count_write(d3, lo(t.count)), hi(t.count))

(* Other commands, with arguments that reach their cases. *)
Others ==
  {<<"SEEK", n, t>> : n \in 0 .. 1, t \in {1, 3}}
  \cup {<<"RECALIBRATE", 0>>, <<"READ_ID", 4>>, <<"FORMAT", 0, 2, 1, 0, 0>>,
        <<"SPECIFY", 0, 0>>, <<"SPECIFY", 0, 1>>, <<"SENSE_DRIVE", 1>>,
        <<"PERPENDICULAR", 0>>, <<"CONFIGURE", 0, 0, 0>>, <<"SENSE">>, <<"LOCK">>,
        <<"DUMP_REGS">>, <<"VERSION">>, <<"PART_ID">>, <<"UNKNOWN">>,
        <<"READ_TRACK", 0, 0, 0, 1, 2, 1, 0, 0>>}

Ready == todo = << >> /\ fdc.phase = 1 /\ "run" \in fdc.dor /\ commands < MaxCommands

Begin ==
  /\ Ready
  /\ commands' = commands + 1
  /\ quiet' = ~fdc.sra
  /\ UNCHANGED <<fdc, drives, mem, swaps>>

begin_transfer ==
  /\ Begin
  /\ \E c \in Transfers, a \in Addresses, t \in Targets :
       /\ chan' = Program(chan, t)
       /\ asked' = [cmd |-> c, at |-> a, to |-> t]
       /\ todo' = <<c, a.drive, a.track, a.head, a.sect, 2, a.eot, 0, 0>>

begin_other ==
  /\ Begin
  /\ todo' \in Others
  /\ UNCHANGED <<chan, asked>>

(* The driver waits until the controller is ready for a byte. *)
write_byte ==
  /\ todo # << >> /\ "run" \in fdc.dor
  /\ "rqm" \in fdc.msr /\ "dio" \notin fdc.msr
  /\ Show(write_reg_fifo(read_reg_msr(Machine), Head(todo)))
  /\ todo' = Tail(todo)
  /\ UNCHANGED <<commands, asked, quiet, swaps>>

read_byte ==
  /\ {"rqm", "dio"} \subseteq fdc.msr /\ "run" \in fdc.dor
  /\ Show(read_reg_fifo(read_reg_msr(Machine)))
  /\ UNCHANGED <<guestVars, swaps>>

(* The digital output register: into reset, out of it, with or without     *)
(* DMA.  A reset takes effect when it ends; the guest abandons its command *)
(* and waits for that end without looking at the controller.               *)
write_dor ==
  /\ commands < MaxCommands
  /\ \E bits \in SUBSET {"dma", "run"} :
       /\ Show(write_reg_dor(Machine, bits, 0))
       /\ todo' = IF "run" \in fdc.dor \cap bits THEN todo ELSE << >>
  /\ UNCHANGED <<commands, asked, quiet, swaps>>

write_dsr ==
  /\ commands < MaxCommands /\ "run" \in fdc.dor
  /\ Show(write_reg_dsr(Machine))
  /\ todo' = << >>
  /\ UNCHANGED <<commands, asked, quiet, swaps>>

(* Somebody reads a register of the DMA controller between two transfers.  *)
read_dma ==
  /\ Ready
  /\ chan' = port_read(chan)
  /\ UNCHANGED <<fdc, drives, mem, guestVars, swaps>>

-----------------------------------------------------------------------------
(* The page *)

(* Sectors of an image are told apart from each other, from the zeros that *)
(* pad it and from what is in memory.                                      *)
Image(n) == [i \in 1 .. n |-> i]

Swap == swaps < MaxSwaps /\ swaps' = swaps + 1 /\ UNCHANGED <<fdc, chan, mem, guestVars>>

set_fda ==
  /\ Swap
  /\ \E n \in Sizes : drives' = [drives EXCEPT ![0] = insert_disk(@, Image(n), FALSE)]

eject_fda ==
  /\ Swap
  /\ drives' = [drives EXCEPT ![0] = eject_disk(@)]

NewFdc ==
  [dor |-> {"dma", "run"}, msr |-> {"rqm"}, phase |-> 1, cmd |-> "UNKNOWN", left |-> 0,
   args |-> << >>, rlen |-> 0, rcur |-> 0, st0 |-> {}, status0 |-> {}, drive |-> 0,
   sense |-> 0, sra |-> FALSE, irq6 |-> FALSE, eot |-> 0]

FloppyInit ==
  /\ fdc = NewFdc
  /\ \E n \in Sizes, ro \in BOOLEAN :
       drives = [d \in 0 .. 1 |-> Typed(IF d = 0 THEN insert_disk(EmptyDrive, Image(n), ro)
                                        ELSE EmptyDrive)]
  /\ chan = NewChannel
  /\ mem = [a \in 0 .. MemSize - 1 |-> -(a + 1)]
  /\ todo = << >> /\ commands = 0 /\ swaps = 0
  /\ asked = NoTransfer /\ quiet = TRUE

FloppyNext ==
  \/ begin_transfer \/ begin_other \/ write_byte \/ read_byte
  \/ write_dor \/ write_dsr \/ read_dma \/ set_fda \/ eject_fda

FloppySpec == FloppyInit /\ [][FloppyNext]_floppyVars

-----------------------------------------------------------------------------
(* Properties *)

FloppyTypeOK ==
  /\ fdc.dor \subseteq {"dma", "run"} /\ fdc.msr \subseteq {"rqm", "dio", "busy"}
  /\ fdc.phase \in 1 .. 3 /\ fdc.drive \in 0 .. 1 /\ fdc.sense \in 0 .. 4
  /\ chan.addr \in 0 .. Base * Base - 1 /\ chan.count \in 0 .. Base * Base - 1
  /\ DOMAIN mem = 0 .. MemSize - 1

(* The controller and the guest agree on whose turn it is (write_reg_fifo, *)
(* read_reg_fifo, reset_fdc and every handler): the main status register   *)
(* asks for a read exactly while a response has unread bytes; a command    *)
(* ends in a response or in the command phase, unless it is a transfer     *)
(* that met a closed DMA gate; the interrupt bit follows the line; no      *)
(* status is left over from an earlier command once its interrupt has been *)
(* taken; and a disk is as large as its geometry says.                     *)
FdcProtocol ==
  /\ FloppyTypeOK
  /\ (fdc.phase = 3) = ({"rqm", "dio"} \subseteq fdc.msr)
  /\ fdc.phase = 3 => fdc.rcur < fdc.rlen
  /\ fdc.phase = 1 => "rqm" \in fdc.msr /\ ("busy" \in fdc.msr) = (fdc.left > 0)
  /\ fdc.phase = 2 => fdc.cmd \in Transfers
  /\ fdc.irq6 = fdc.sra
  /\ fdc.phase = 1 /\ ~fdc.sra => fdc.status0 = {}
  /\ \A n \in 0 .. 1 : LET d == drives[n]
                       IN  Len(d.buffer) = d.max_track * d.max_head * d.max_sect

(* Sectors before this one, in the order of the disk. *)
Place(d, a) ==
  Cardinality({x \in (0 .. d.max_track) \X (0 .. d.max_head - 1) \X (1 .. d.max_sect) :
                 \/ x[1] < a.track
                 \/ x[1] = a.track /\ x[2] < a.head
                 \/ x[1] = a.track /\ x[2] = a.head /\ x[3] < a.sect})

Delivered(d, to, p) ==
  \A i \in 0 .. MemSize - 1 :
    mem'[i] = IF i \in to.addr .. to.addr + to.count THEN d.buffer[p + i - to.addr + 1]
              ELSE mem[i]

Stored(d, to, p, n, q) ==
  \A i \in 1 .. Len(d.buffer) :
    q.buffer[i] = IF i \in p + 1 .. p + n THEN mem[to.addr + ((i - p - 1) % (to.count + 1))]
                  ELSE d.buffer[i]

Unmoved(d, q) == mem' = mem /\ q.buffer = d.buffer

(* Whole passes of a channel that starts over, but not all of them. *)
Begins(d, to, p, n, q) ==
  /\ to.auto /\ mem' = mem
  /\ \E k \in 1 .. n : k * (to.count + 1) < n /\ Stored(d, to, p, k * (to.count + 1), q)

(* The result of a transfer is the truth (start_read_write, do_read,       *)
(* do_write, end_read_write).  A normal status of a READ means that as     *)
(* many sectors as the DMA channel counts, whatever the command says to be *)
(* the last one, were moved from the named sector of the disk in the drive *)
(* to the memory that the guest programmed; that of a WRITE, that the      *)
(* sectors of the command were moved, or as many as the channel counts     *)
(* when they are fewer and it does not start over.  Any other status means *)
(* that nothing was moved, unless a WRITE of a channel that starts over    *)
(* failed in a later pass: then some number of whole passes was moved, and *)
(* nothing else.  This needs the earlier interrupts to have been taken:    *)
(* the status of a reset sticks to the next command otherwise.             *)
TransferTruthful ==
  [][LET a == asked.at
         to == asked.to
         d == drives[a.drive]
         q == drives'[a.drive]
         last == IF asked.cmd = "WRITE_MT" THEN 2 * a.eot ELSE a.eot
         n == last - a.sect + 1
     IN  (fdc.phase = 1 /\ fdc'.phase = 3 /\ fdc'.cmd \in Transfers /\ quiet) =>
           CASE fdc'.st0 \cap {"ic0", "ic1"} = {} /\ fdc'.cmd \in {"READ", "READ_MT"} ->
                  Delivered(d, to, Place(d, a)) /\ q.buffer = d.buffer
             [] fdc'.st0 \cap {"ic0", "ic1"} = {} /\ fdc'.cmd \in {"WRITE", "WRITE_MT"} ->
                  /\ mem' = mem
                  /\ Stored(d, to, Place(d, a),
                            IF to.auto \/ n < to.count + 1 THEN n ELSE to.count + 1, q)
             [] OTHER -> \/ Unmoved(d, q)
                         \/ /\ fdc'.cmd \in {"WRITE", "WRITE_MT"}
                            /\ Begins(d, to, Place(d, a), n, q)]_floppyVars

(* A seek arrives (exec_seek, seek): after SEEK to a track of the inserted *)
(* disk the head is there, unless the drive still stands on a side or on a *)
(* sector that the present disk does not have.                             *)
SeekArrives ==
  [][(fdc.cmd = "SEEK" /\ fdc.left = 1 /\ fdc'.left = 0 /\ fdc'.sense = 0) =>
       LET d == drives[fdc.args[1]]
           q == drives'[fdc.args[1]]
       IN  (d.buffer # NoDisk /\ Head(todo) < d.max_track /\ d.head < d.max_head
             /\ d.sect <= d.max_sect) =>
             q.track = Head(todo) /\ q.media_changed = (d.media_changed /\ d.track = q.track)]_floppyVars
=============================================================================
