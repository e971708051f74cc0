# A TLA+ development for the x86 kernel and its emulated PC

This directory models the kernel's own logic: the heap, the physical frame
allocator, the cooperative threads with their stack switch, and the interrupt
path that drives them; and the devices of the emulator in `demo/`, on which the
kernel runs in a web page: the loop and its timer, keyboard and mouse, floppy and
DMA, IDE disks, and the text display. TLC checks each model on a small instance;
TLAPS proves the invariants of the kernel's parts (heap, frames, threads, interrupts, console)
and of the emulator's loop, timer, keyboard controller, floppy with its DMA channel, IDE
channel and display for every value of the constants. `PROJECT.json` maps definitions to source lines and lists runs,
mutants, findings, hazards and theorems.

## The system

| part | source | state | operations |
|---|---|---|---|
| heap | `mm/memory.c` | block list in memory, `heap_used`, bump pointer | `bump_alloc`, `memory_init`, `malloc`, `free` |
| memory map | `mm/memmap.c` | table at 0x500 | `memmap_supplement`, readers |
| frame allocator | `mm/pmm.c` | bitmap, `free_count` | `pmm_init`, `pmm_alloc_frame`, `pmm_free_frame` |
| paging | `mm/paging.c` | page directory, one table | `paging_init`, `paging_map` (unused) |
| tasks | `cpu/task.c`, `cpu/switch.asm` | `current_task`, `next_pid`, the structs, the stacks | `task_init`, `task_create`, `task_yield`, `context_switch` |
| interrupts | `cpu/idt.c`, `cpu/isr.asm` | IDT, the two 8259 (hardware) | `idt_init`, `isr_handler`, entry and exit stubs |
| timer | `drivers/timer.c` | `ticks`, `seconds`, `hz` | `timer_init`, `timer_handler` |
| kernel | `kernel/kernel.c` | `thread_a_count`, `thread_b_count` | `kernel_main`, `thread_a`, `thread_b` |
| keyboard | `drivers/keyboard.c` | `input_buffer`, `input_len`, `shift_held`, `caps_lock` | `keyboard_handler` |
| shell | `shell/shell.c` | cursor | `shell_*`, the commands |
| screen | `drivers/vga.c` | text buffer | `vga_*` |
| libc | `lib/libc.c` | none | strings, number formatting |
| panic | `cpu/panic.c` | none | `kernel_panic` (never returns) |
| boot loader | `boot/*.asm` | E820 table | loads the kernel, fills the table |
| emulator: loop | `demo/v86/libv86.js` 330, 349-352 | `running`, `stopping`, `tick_counter`, the worker's timeout | `run`, `stop`, `do_tick`, `next_tick`, `yield_callback` |
| emulator: interval timer | 135-143 | reload, start value, start time, latch | `timer`, `port43_write`, `counter_read`, `counter_write` |
| emulator: keyboard and mouse | 4, 232-244, 406-429 | map of pressed keys; two queues, command register, announced byte | event handlers, `simulate_*`, `port60_*`, `port64_*` |
| emulator: DMA | 42-59 | addresses, counts, flip-flop | port handlers, `do_read`, `do_write` |
| emulator: floppy | 431-469 | phase, command and response bytes, two drives | `write_reg_*`, `read_reg_*`, the `exec_` handlers, `insert_disk`, `eject_disk` |
| emulator: IDE | 28-36, 40, 471-538 | registers, data buffer, outstanding reads, block cache | the ports, `ata_*`, `atapi_*`, `read_buffer`, `set_cdrom`, `eject` |
| emulator: display | 17-27, 343, 548-621 | text memory, registers; cells, dirty rows, cursor | `vga_memory_write`, port handlers, `text_mode_redraw`, `update_screen` |

Interaction. `kernel_main` sets memory up with interrupts off (map, frames,
heap, paging), then interrupts, timer and tasks, and ends in a `hlt` loop. From
then on everything happens inside interrupt handlers, which run with interrupts
off: the tick counts, acknowledges itself and calls `task_yield`, so both
threads run *inside* the tick, each until it yields, and main resumes in the
middle of the handler; a key runs the line editor and, on enter, a shell command
with all it calls (`malloc`, a deliberate page fault) inside IRQ 1.

What is hard here: stacks switched in the middle of an interrupt; the order of
end-of-interrupt and yield; a hand-made stack frame that must agree with the
pushes of `switch.asm`; coalescing under every order of frees; counts kept beside
the structures they count; overlapping regions; 32-bit wrap and rounding. There is
no preemption of kernel code, no second CPU and nothing persistent in the kernel, so
data races and crash recovery do not arise there.

The emulator is single-threaded JavaScript (and one worker) around a CPU that exists
only as WebAssembly. Its devices are driven from two sides: by the guest, through
ports, from inside `main_loop`, and by the page, through events, timers and promises,
between two executions of it. The page of the demo (`demo/index.html`) starts it with
the kernel's image as floppy disk; the library serves hard disks and CDs as well. What
is hard here: ticks that cross in the worker's queue, a stop that races a run, a timer
that is looked at late, disk reads that answer after a reset, bytes of a register that
are written through a shared flip-flop, queues at their limit, browser events that
are missing or false, a picture that is kept up to date piecemeal, and states that are
saved in one page and restored in another.

## Modules

| module | models | extends / instantiates |
|---|---|---|
| `Allocator` | abstract: grants of disjoint extents, releases, giving up | |
| `Heap` | `malloc`, `free` | instantiates `Allocator` |
| `HeapTest` | boot allocations, `cmd_heaptest`, other clients | extends `Heap` |
| `Memmap` | the region table, `memmap_supplement` | |
| `Pmm` | `pmm_init`, frame allocation | extends `Memmap` |
| `Tasks` | tasks, ring, stacks, `context_switch` | |
| `Kernel` | boot from `idt_init`, interrupts, timer, threads | instantiates `Tasks` |
| `Console` | keyboard, line editor, cursor, screen | |
| `Clock` | the emulator's loop, its worker, `run` and `stop`, timer channel 0 | |
| `Dma` | a channel of the DMA controller, as operators | |
| `Floppy` | the floppy controller with two drives, its driver, the page's disks | extends `Dma` |
| `Ide` | an IDE channel with a disk or a CD drive, the buffers, a driver | |
| `Ps2` | the keyboard and mouse controller, as operators | |
| `Input` | the page's keyboard adapter, the controller, BIOS and kernel reading it | extends `Ps2` |
| `Display` | text mode of the VGA device, the page's screen adapter | |
| `Lemmas` | facts on sequences, folds, least and greatest elements, division; induction over a set of numbers | |
| `HeapProof` | theorems on `Heap` and `HeapTest` | extends `HeapTest`, `Lemmas` |
| `TasksProof` | theorems on `Tasks` | extends `Tasks` |
| `BootProof` | theorems on `Pmm` and on `Floppy` with `Dma` | extends `Pmm`, `Floppy`, `Lemmas` |
| `KernelProof` | theorems on `Kernel` | extends `Kernel`, instantiates `TasksProof` |
| `ScreenProof` | theorems on the two text screens | extends `Console`, `Display`, `Lemmas` |
| `DevicesProof` | theorems on the keyboard controller and on loop and timer | extends `Input`, `Clock`, `Lemmas` |
| `IdeProof` | theorems on `Ide` | extends `Ide`, `Lemmas` |
| `MC*` | values of constants for TLC | extend their component |

**Heap.** The linked list is the sequence `heap` of headers (address, size, free
flag) in list order. `malloc(size)` is one step: rounding modulo `Word`, first
fit, split or not, `heap_used`, the returned pointer, or the panic. `free(i)` is
one step: the double-free panic, or release, merge with the successor, merge with
the predecessor. The ghost `held` is what callers own. `malloc(0)` and `free(0)`
change nothing. The model assumes that callers pass `free` a pointer to a block of the
list; a pointer into memory that was merged away is listed as a hazard.

**HeapTest.** The sizes of the kernel (4 MB heap, 16-byte structs, 4 KB stacks,
the script of `cmd_heaptest`). TLC's integers are 32 bits, so `Word` is 2^30
there; no size in this model comes near it.

**Memmap, Pmm.** The bitmap is the set `used`. `pmm_init` is one step to place and
fill the bitmap, one per region, one for the three reservations. Sizes of
`mark_used` and `mark_free` are computed in 32 bits. The ghost `owned` is the set of
frames handed out.

**Tasks.** A task's struct is the values of `next`, `state`, `esp` at its pid. Stacks
are sequences of words; `context_switch` finds its arguments by offset below its
own four pushes, stores the old stack pointer through the pointer it was given,
loads the new one and pops. `work` stands for any code of the running task between two
calls. Ghosts: `view` (what a task must find when it resumes), `ran` (who ran since).
`task_create` fails when the heap has no room for `MaxTasks + 1` tasks.

**Kernel.** One step per call of `kernel_main`, per stage of an interrupt
(entry, dispatch with the handler's work, yield, exit), per stage of a thread's
loop. The two 8259 are external and modelled as the code uses them: request and
in-service sets, fixed priority, cascade on line 2, non-specific EOI, spurious
interrupts 7 and 15. The keyboard handler's effects on console state are in `Console`;
here it ends normally or faults, as `pagefault` does.

**Console.** One step per scan code that has an effect, with everything the handler
calls: the store into `input_buffer`, the echo, and on enter the parsing, the command,
its output line by line and the prompt. The screen is a function from cell indices to
characters, written by row * columns + column as in `vga.c`. A command is what it leaves on
the screen: it prints lines, clears, echoes, or faults. The model follows the kernel up to the first store
behind `input_buffer`: what such a store changes depends on the build. Ghosts: `down` (shift keys physically down), `typed`, `wrapped`, `overrun`.

**Clock.** Messages to and from the worker are two queues; the worker holds one
timeout. `tick_counter` is only compared with the newest value, so a tick is kept as
whether it is the newest. `main_loop` runs from `yield_callback` to `main_loop_return`,
during which the guest accesses the ports of the timer and nothing of the page runs; it
returns 0 or the delay until the next rollover, as the code's hardware timers say. The
page's time is finer than the timer's: it passes in parts, `Grain` of which make a clock, and
`elapsed` is now minus `counter_start_time` in parts. The counter takes the floor, so a
rollover that is served takes the exact time as its new start and a value that was floored as
its new start value: each one loses the fraction of a clock in between (lines 139-140).
`restore_clock` is a new page with the saved registers and a start time that is in the past
or in the future. Ghosts: `age` (since the counter was loaded), `served` (rollovers since
then), `fresh` (the counter was loaded and not restored, and is followed).

**Dma, Floppy.** `Dma` gives the port handlers and transfers as operators on the record of
a channel; a byte has `Base` values and lengths are in sectors. `Floppy` has one action per
byte that the guest writes or reads, per reset through either register, per access to
the DMA ports in between, per insertion and ejection. A command is executed with its
last byte, and its transfer with it, since the image is in memory. The driver is external:
it programs the DMA channel, sends commands with all their bytes and reads
responses to their end, but may reset at any moment. A drive that is built with a disk
adopts the disk's type, or type 4 without one. `read_only` is a choice of the initial state:
the device honours it, and the demo's page never sets it. Ghosts: `asked`, `quiet`.

**Ide.** One action per command, per unit moved through the data port, per start and stop of
the bus master, per reset, and `complete` for any answer that an outstanding read waits
for. The image is in memory, in a file, behind a URL (read in whole chunks) or in parts (one
request for each part that is not cached). The address registers keep their two bytes; a
cache of written (and, with chunks and parts, read) blocks lies before the image. Commands without
data (RECALIBRATE, the two READ NATIVE MAX, which write the address registers, and the rest of
`Plain`) and the signature that a CD drive leaves when it refuses a disk's command are modelled for what they
do to status and address. The driver waits for the drive before it gives a command,
but may reset at any time. Ghosts: `disk` (what must be on the medium), `asked`, `got`,
`sent`, `torn`, `still`.

**Ps2, Input.** `Ps2` gives the rings and every command of ports 60 and 64 as operators on
the controller. `Input` has one action per event of the page (key, blur, timeout of the
ControlLeft that is held back, mouse, wheel, `keyboard_send_keys`, `keyboard_send_text`,
`keyboard_send_scancodes`), per byte that the BIOS writes or
polls, and one per keyboard interrupt of the kernel, which reads one byte
(`drivers/keyboard.c:76`). Events that are simulated have no `code` and are never held back. The
wheel sends its packet whenever the mouse adapter is enabled, even if the guest has turned the
mouse's stream off (line 406). A run starts with the controller as it is after power on, or as
a BIOS leaves it (`Started`). Ghosts: `seen` (what the guest makes of the bytes), `astray`, `deaf`.

**Display.** The device keeps characters, attributes and the registers that place and colour
them; the adapter keeps cells, dirty rows, what each row shows and the caret. One
action per register or group of registers, each with the redraw, resize or cursor
update that it causes; a write to memory draws its own cell. A new entry of the attribute
controller's map causes a redraw only while bit 6 of its mode register is clear (line 585). Frames, pauses, saving,
restoring and `wait_until_vga_screen_contains` with one text are actions of the page.

## Runs

| run | result | what it shows |
|---|---|---|
| `heap` | pass | every sequence of calls: blocks tile the heap, neighbours are coalesced, `heap_used` is exact, extents are disjoint and inside allocated blocks; the heap implements `Allocator` |
| `heaptest` | pass | `heaptest` leaves the heap exactly as it found it |
| `pmm` | pass | count, bitmap and owners agree for three maps and four kernel sizes; no frame gets a second owner; what is free or given away lies above the kernel and is usable to within a frame |
| `pmm_bitmap` | violation | an unaligned bitmap is only half reserved |
| `tasks` | pass | registers, stack and return address survive any interleaving; one ring, round robin, no starvation |
| `kernel` | pass | handlers never nest and leave the controllers clear, ticks are served, a second is `hz` ticks except for one each time the tick counter wraps; the kernel implements `Tasks` with its fairness |
| `console` | pass | every sequence of keys and commands: the row shows prompt and line, enter submits what was typed, the shift flag is never stuck |
| `clock` | pass | one loop and not two; the timer keeps its phase, up to a fraction of a clock for each rollover served, however late it is served, and the loop never sleeps past it; its interrupts never cease; every stop ends |
| `input` | pass | the controller announces a byte exactly while it has one; keys that the guest sees pressed are those the page has pressed; a kernel that reads one byte per interrupt reads all that is announced as the keyboard's |
| `floppy` | pass | phases and status agree after any mixture of commands and resets; a transfer that reports success moved exactly the sectors that the DMA channel counts, one that fails moved nothing, or whole passes of a channel that starts over; seeks arrive |
| `ide` | pass | late answers never surface, reads return what was written, the address registers follow the transfer, a reset is final |
| `display` | pass | cells are those of a complete redraw (but for a map that is changed under bit 6), clean rows and the caret are right, a waiting page overlooks nothing, dirty rows are drawn |

Type invariants, `NoLeak`, `OneRunning`, `NeverInconsistent` and `OwnedMarked` of the
first modules are proved and therefore in no run; those of the emulator's modules are
conjuncts of a run's invariant (`PhaseKept`, `ByteReady`, `FdcProtocol`, `IdeProtocol`).

Known limits that the properties describe rather than deny, or that the models avoid:

- `mark_free` rounds a region's length up and cuts its base to 32 bits (`GivenFramesUsable`
  says how far that goes); the supplemented region of `mm/memmap.c:50` starts at 64 KB and
  not at 1 MB, so the last 960 KB of memory are in no usable region.
- One second is short when the 32-bit `ticks` wraps (`SecondTakesHzTicks`).
- `shift_held` is cleared by the release of either shift key while the other is down
  (`ShiftNotStuck` is the direction that holds).
- `input_len` has no bound (`drivers/keyboard.c:151`); `Console` ends at the first store
  behind the buffer. A scroll leaves the last column behind (`drivers/vga.c:43`).
- `heaptest` prints a value that "should be 0" (`shell/shell.c:238`) and cannot be, because
  the tasks are allocated before the shell runs.
- Backspace in column 0 removes a character and erases none: `RowShowsLine` is about
  lines that have not wrapped.
- Clock: the phase drifts by up to a clock per rollover (`PhaseKept` says how far), since the new
  start value is floored and the new start time is not. Interrupts that come faster than a tick travels through the worker would postpone
  it for ever; `MaxWakes` bounds them. In mode 3 an unlatched read of the counter moves
  the next *write* to the other byte.
- Floppy: `do_write` takes the largest count for 0, moves nothing and reports success, so
  the counts that are tried stay below it. A READ moves as many sectors as the DMA channel counts and
  ignores the command's last sector. A WRITE of a channel that starts over runs in several
  passes; when a later one fails, the earlier ones stay written (line 58). A transfer with the DMA gate closed stays in
  its execution phase until a reset. Without SENSE INTERRUPT the next command inherits the
  status of a reset (`quiet`). `seek` refuses when the drive still stands on a side or
  sector that the new disk does not have.
- Ide: READ MULTIPLE advances the address by a track and LBA28 leaves low address bits in
  the head register: `AddressFollows` excepts both. Changing the CD does not cancel a
  read that is under way, and a drive that was saved while busy stays busy when restored
  (`torn`, until the guest resets the drive). A packet that reads past the end by DMA makes the
  buffer in memory throw and leaves the drive busy: `GuestAssumption` keeps such packets out. An access beyond the disk leaves the status at 255. An image in parts copies an
  arrived part to the result before the cache corrects it (line 36), so the first read that
  touches a part of which only some sectors were written returns the old ones:
  `ReadsAreTrue` excepts written units of such an image, and without the exception TLC
  finds it violated.
- Input: a byte that was announced before the kernel set its interrupts up stays unread, and
  no further edge comes (`deaf`). The kernel has no handler for the mouse, so a mouse's byte that is
  announced first is never read and the keys behind it stay queued: a movement's under
  the stream, or a wheel's without it. `KeysServed` is therefore stated for bytes that are announced as the
  keyboard's. Codes dropped by a full queue, `simulate_char`, which presses Shift
  past the map, and `keyboard_send_scancodes`, which goes around it, are excepted from
  `KeysArrive` (`astray`).
- Display: a write in the lower part of a split screen, or after a change of the
  offset without a redraw, is drawn elsewhere than a redraw would draw it
  (`CellsMirrorMemory` names the condition); a map that is changed under bit 6 of the attribute
  mode leaves the cells in the old colours until the next redraw (the same property excepts it); a text that is drawn into an adapter of another
  size is cut to the adapter's (in the code, columns too many run on into the next row) and
  counts as no picture; the cursor is not moved when the start
  address changes, and the start address reads back with its bytes exchanged.

Bounds. The heap has 112 bytes with the code's header, alignment and split
threshold: room for three small blocks, so splits, refusals to split, both merges
at once and exhaustion all happen; request sizes lie on both sides of the
alignment and the threshold. `Pmm` has 16 frames and a bitmap of exactly one frame,
as in the kernel; the maps are the one the boot loader really finds, a complete one,
and one with an odd end and an entry above 4 GB. `tasks` has four tasks and two
distinguishable register files: enough to confuse any two and for an insertion to cut
a ring of more than two. `kernel` wraps counters at 8
with `hz = 3`: like 2^32 and 100, no multiple of each other. `console` has 3 rows of 4
columns and a buffer of 3 bytes, so that lines wrap, scroll and fill the buffer, and
outputs that are empty, exactly one row wide, or wider. `clock` loads the counter with 1
to 3 in two bytes of two values, has two parts to a clock, is up to four clocks late, follows a
counter's phase over one rollover served (the theorem, over any number) and lets two other requests
for a tick cross one that is under way. `input` has queues of four bytes, so that
a two-byte code can be cut by a full queue, the three keys that are treated apart, and four
events. `floppy` has three geometries of 2 to 8 sectors, an image that must
be padded, two commands and one change of disk. `ide` has 33 units, so that addresses have
four digits, chunks of three, three commands and one reset, change or restore; requests cross ends of
tracks, cylinders and chunks, and a count of `Base` is written as 0, as 256 is; with two faults instead of one (`MaxFaults = 2`, 7 million states) the same
properties hold. `display` has six cells of memory, rows of two cells or
fewer, and three accesses. `CHECK_DEADLOCK FALSE` is set where a panic halts the machine and
where a bound on the number of commands or events is used up.

Fairness. `Tasks`: every task calls `task_yield` again and a started yield ends, as
the loops of both threads and the tick do; `Kernel` checks that this is true of the
kernel (`ImplementsTasks`). `Kernel`: the CPU executes its next instruction, takes
an interrupt that is offered, and the free-running PIT keeps requesting. Nothing is assumed
of the keyboard or of other devices. `Clock`: the browser runs the worker, its timeouts
and the callbacks, `main_loop` returns (it looks at the clock and leaves after
a frame's time) and time passes; nothing is assumed of the page's calls or of the guest.
`Input`: a kernel that has an interrupt pending takes it. `Display`: the browser serves a
frame that was requested.

## Proofs

All theorems are of the form `Spec => []Inv` (or an action property, or the
refinement) and hold for all constants that satisfy the named assumptions. Three proof
modules are about two components each, which have nothing in common; so that both can be
extended, the specifications of `Clock`, `Display` and `Floppy` are named `ClockSpec`,
`DisplaySpec` and `FloppySpec`.

*Heap.* The inductive invariant is typing, `Tiling` with the order of the list, `Coalesced`;
and for owners: every allocated block is held and every held extent names an allocated block.
`Tiling` needs nothing about callers and holds even when requests wrap. Ownership needs
`NoWrap` (no size in the last three below 2^32), and the condition is necessary: with a size of
`Word - 1` TLC finds `HeldInBlocks` violated, because the request is rounded to 0. `PlaceShape`,
`MergeShape` and `FreeShape` say what split and merge do to a list; `NoLeak` follows
because a coalesced list without allocated blocks has one element; `HeapImplements`
because blocks that tile are pairwise apart. `Accounting` is a fold over the list. A fold is the
last of its partial sums (`FoldTable` in `Lemmas`), so that replacing, inserting or removing a
block changes it by that block's weight (`UsedReplaced`, `UsedInserted`), whether requests wrap
or not. For `HeapTestNeutral` the invariant `TestInv` says which blocks the command holds at
each of its steps and that all others are those it found; the lemma `Canonical` says that a coalesced list is
determined by its allocated blocks, whatever the order in which they came and went.

*Pmm.* The invariant adds to the typing that `free_count` is the number of clear
bits; `MarkFreeAgrees` and `MarkUsedAgrees` prove it for the two loops, whatever overlaps.
`PlaceInv` adds that a clear frame touches a usable region among those the loop has seen
and, when `pmm_init` is done, that it and every frame handed out lie above the kernel:
`GivenFramesUsable` follows. `FramesConserved` needs only the first invariant: a
call that lowers the count found a clear bit, and a clear bit has no owner.

*Tasks.* The invariant `TasksInv` joins typing, the shape of the list, `OneRunning`,
`OneRing`, `ContextSaved`, and two facts that make them inductive: what is saved for a
waiting task is code and registers of the system (`SavedInv`), and a task inside
`task_yield` has the rest of its frame on its stack (`ResumeInv`). `RingInsert` proves that
inserting behind a member keeps a ring, for any number of tasks. `RoundRobin` needs `ArcInv`:
the tasks that ran since a task last did are an arc of the ring that ends at the running one
and does not reach that task.

*Kernel.* `KernelRefinesTasks` maps every step of the kernel to a step of `Tasks` or a
stutter; the fairness part of the refinement is TLC's. `TasksProof` is instantiated with the kernel's code,
so its theorems hold of the kernel (`KernelTasksSound`). Its invariant then tells `KernelInv`
what a resumed task finds: a handler that yields comes back with its frame, so that what is
in service is what the stacks say. `ClockInv` is the arithmetic of the seconds. The proof needs `NULL` not
to be a pid, which `KernelAssumption` now says.

*Console.* `ConsoleInv` relates the cursor's row to the line (`ShownInv`), the line to the buffer
(`LineInv`) and the shift flag to the keys (`ShiftInv`), for any screen whose rows are
longer than the prompt, any scancode tables and any outputs of the commands. It includes that
everything behind the cursor is blank, without which a scroll or a newline could bring old
text into the row.

*Clock.* The invariant says where the newest tick can be. Only the last message of a queue
may be the newest; a message to the worker is newer than the timeout that is set, and that
is newer than all messages to the page; while `main_loop` runs there is no newest tick, and
while the machine runs and is idle there is one. This, the typing of the timer's registers
(which `Delay` needs) and the page's flags are kept by every step, and `CountNewest` turns
them into the sum of `OneLoop`. The bounds on wakes, port accesses and lateness play no part.
`PhaseKept` needs `PhaseInv`: start value minus elapsed time plus age is a whole
number of periods and `Late`, a lateness of less than a clock for each rollover that was
served. `ClockNeverOversleeps` follows from the typing: a rollover puts the start at the present, also
when a restored start lies in the future, and without one the counter has not passed 0.

*Display.* The operators are lemmas about pairs of device and adapter: each keeps a pair
`Sound` (typing, clean rows true, no row overlooked), and a pair stays `Pictured` because a
register either redraws, or changes the layout and thereby forfeits the picture, or
leaves both alone. `PlaceFound` says that the place where a single write is drawn is the one
from whose source a redraw would draw it. Every size, memory and bound is arbitrary.

*Input.* The operators of `Ps2` are lemmas about the controller's record: `Sane` is its
typing with pending interrupts on raised lines, `Good` adds that the announcement agrees
with the queues. Each handler of ports 60 and 64, with any flag set and any byte written, leads from
`Sane` to `Good`; the byte-by-byte sending of a code is a fold, run step by step (`SendRun`).
`Kept` types the adapter and `seen`, and `ByteReady` follows. For `KeysArrive`, `Read` is the fold of
`Take` over bytes, and the invariant `Arrive` says that after what is queued the guest is
between two codes and has exactly the pressed keys; the first half is what the property
does not say and the next code needs. It rests on three facts: a key's bytes,
read from there, press or release that key and no other (`KeySent`, from the arithmetic
of codes below 96 and prefix 224); every operation of the adapter appends bytes whose reading
gives its own map (`Faithful`, up to Shift for `simulate_char`, which is `astray`); and a command
leaves a queue in the keyboard that is the old one, or empty, with answers
appended, which are read as nothing (`Answered`, `Quiet`). `Tidy` says that the place to
write lies behind the last byte; it is lost exactly when a full queue drops bytes, and that is `astray`.

*Floppy.* `FloppyInv` has three parts. `AttendedInv` types the controller, the two drives (a disk is
as large as its geometry says) and the channel, says with `Turn` whose turn it is, and with `TodoInv`
that what the guest still has to write completes the command: `FdcProtocol` follows. For it each of the
nineteen commands is shown to end with a response, in the command phase, or as a transfer, and
`write_reg_fifo` to run a command exactly when its last byte has come. `AskedInv` says that the bytes of
a transfer that the controller has taken are the ones that were asked for, that the channel is still
programmed for it (`WrittenTwice`: two bytes through the flip-flop make the word), and, while `quiet`, that
no status is left over; `SeekInv` says the same of a seek's drive. `TransferTruthfulHolds` then has three
parts. `PlaceIs` says that `chs2lba` is the number of sectors before one in the order of the disk: the
address is a bijection from those sectors to an interval (`Lexical`, twice), for every geometry.
`ReadMoves` says it of `do_read`. `do_write` is a fold over passes; `WriteRun` takes it one pass at a time
and `PassInv` says what the image then holds (`Held`): the memory from the programmed address on, over and
over again, because a pass that starts over has written a multiple of the count (`HeldMore`, `RemainderIs`).
For a write that fails, `PassInv` also says that the image is the old one or holds a number of whole
passes (`Partly`). `FloppyAssumption` says what a driver never does: heads other than 0 and 1, sector 0, and the
largest count, for which `do_write` would move nothing and report success.

*Ide.* `IdeInv` has five parts. `IsMachine` types the drive, the channel and the buffer, with no
bound on the two-byte address registers but their width. `Ids` ties the outstanding reads to the drive's
lists: every id in `in_progress` or `cancelled` belongs to one read, every read to one
id, ids are below `last_io_id`, and the lists are disjoint. `Waits`, which holds unless the behaviour
is `torn`, says that at most one read is wanted, that the drive is in the state that fits
its kind (`Fits`: busy for a read on the guest's behalf; bus master started, with a DMA
command, for a read by DMA), that offered data are there, and that a request without
descriptor table waits for no DMA. `StillInv` says that after a reset nothing is wanted, asked or
offered, and `AskedFits` that only DMA and packet requests bring a table. Without `Fits` an answer
to a read of one kind could meet the registers of another, and without the clause on tables the
data that a bus master moves would have to be there before it does. A handler
takes a machine to a machine, so each has one lemma of the form `Leaves` (from a drive without wanted
reads it leads to one that `Waits`), `Effect` (an answer that ends a read) or `Keeps` (a start
of the bus master), and each action one lemma that combines them. `AdvanceTyped` does the arithmetic
of addresses: each of the three forms is written back in digits that fit the registers. `ResetIsFinalHolds` uses
`StillInv`: while `still`, an answer finds its id cancelled (`CompleteAnswers`), and no other
action that can happen touches more than the list of cancelled ids, except another reset, which is counted.
TLC checks `IdeInv` on the run's instance, too.

What the proofs changed in the models: `vga_scroll` was a `CASE` whose guards overlapped; the
bound of `elapsed` in `Clock`'s type invariant was true of small instances only; and
`CellsMirrorMemory` was false with eight accesses or more, when a state that was saved in a graphics
mode is restored into a page of another size and the mode is left with registers that make no
row: the adapter then keeps its own size, and nothing counts as a picture. `KeysArrive` was
false as soon as `Keys` has Escape: its code, 1, is also the byte with which the keyboard answers
the question for its scan code set, and the model let the guest take that for a key; `Answer`
now tells answers from keys, as the BIOS does, which waits for the answer it asked for. `Ps2` and `Input` name what they
need of their constants (more than two places in a queue, codes of the page's table), and `Ide` and
`Floppy` what they need of geometry, values and commands.

Only model-checked: `ReadsAreTrue` and `AddressFollows` of `Ide`, of which the first is about contents and
needs, on top of `IdeInv`, what every block of cache, image and outstanding answer holds;
and all liveness, which is out of the prover's reach, as is the fairness of the
refinement of `Tasks`. The library's induction theorems cannot be used, since they take an
operator as parameter; what is proved by induction here uses `SetInduction`, which takes a set.

## Plan

1. Done: heap, frames, tasks, kernel, console, with the proofs above; the emulator's loop,
   timer, input, floppy, IDE and display.
2. Proofs: those of `Input`, `Floppy` and `Ide` are done; open are `AddressFollows` and
   `ReadsAreTrue`.
3. `Layout`: bump allocator, heap extent, bitmap and the 4 MB mapping of `paging_init`
   in one model (the heap is not reserved in the bitmap and reaches beyond the mapping).
4. `Libc`: `strcmp`, `itoa`, `itoa_hex`, `memcpy` against reference definitions.
5. `Boot`: the E820 loop of `stage2.asm`, which stores its table over its own code.
6. The emulator's real-time clock and serial ports, which the BIOS uses and the kernel does not.

## Not modelled

Text and layout of command output and colours. `paging_map` has no caller. Of the emulator: the
CPU, which is a WebAssembly binary without source; network, 9p, virtio, sound, serial,
ACPI, PCI and the real-time clock, none of which the kernel touches; the graphics modes of
the display beyond what they do to text; a wait for an array of texts (line 343); counters 1 and 2 of the timer; the second drive of an IDE
channel, identify data and the error register; saving and restoring the floppy
controller. Build files and the page's markup have no state.
