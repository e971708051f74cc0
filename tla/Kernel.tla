------------------------------- MODULE Kernel -------------------------------
(***************************************************************************)
(* The running kernel: kernel_main from idt_init on (kernel/kernel.c), the *)
(* interrupt path (cpu/isr.asm, cpu/idt.c), the timer (drivers/timer.c),   *)
(* the two threads, and the interrupt controllers that they all depend on. *)
(* Tasks and stacks are those of Tasks.tla.                                *)
(*                                                                         *)
(* eip names the place in the code that is executed next.  An interrupt    *)
(* leaves four words on the stack: the interrupt flag (eflags), eip, the   *)
(* vector, and what isr_common saves (pusha and the segments).             *)
(*                                                                         *)
(* The two 8259 controllers, irr (requests) and isr (in service), are      *)
(* external: they are modelled as far as the port writes of the code use   *)
(* them.  Lines 8..15 are the slave's and go through line 2 of the master. *)
(***************************************************************************)
EXTENDS Integers, Sequences, FiniteSetsExt

CONSTANTS
  Word,        \* 2^32
  frequency,   \* what kernel_main passes to timer_init, 100
  Devices,     \* the lines on which devices raise interrupts
  NULL,
  Uninit

ASSUME KernelAssumption ==
  /\ Word \in Nat /\ frequency \in 1 .. Word - 1
  /\ 0 \in Devices /\ Devices \subseteq (0 .. 15) \ {2}
  /\ NULL \notin Nat

VARIABLES
  current_task, next_pid, next, state, esp, stack, sp, eip, regs, view, ran,
  IF_flag,                          \* the CPU's interrupt flag
  irr, isr,                         \* the interrupt controllers
  ticks, seconds, hz,               \* statics of timer.c
  thread_a_count, thread_b_count,   \* globals of kernel.c
  elapsed                           \* observer: ticks since seconds changed

taskVars   == <<current_task, next_pid, next, state, esp, stack, sp, eip, regs,
                view, ran>>
timerVars  == <<ticks, seconds, hz, elapsed>>
threadVars == <<thread_a_count, thread_b_count>>
picVars    == <<irr, isr>>
vars       == <<taskVars, timerVars, threadVars, picVars, IF_flag>>

-----------------------------------------------------------------------------
(* The registers of whoever computes: nobody leaves them as it found them. *)
RegsOf(n)   == [ebx |-> n, esi |-> n, edi |-> n, ebp |-> n]
ThreadARegs == RegsOf(1)
ThreadBRegs == RegsOf(2)
MainRegs    == RegsOf(3)
HandlerRegs == RegsOf(4)
RegFiles    == {RegsOf(n) : n \in 0 .. 4}

(* The calls of kernel_main from idt_init on, and the loop it ends in;      *)
(* shell_init, before sti, only draws on the screen.                       *)
BootOrder ==
  <<"idt_init", "timer_init", "task_init", "create_a", "create_b", "sti", "hlt">>

AfterBoot(label) ==
  BootOrder[1 + CHOOSE i \in 1 .. Len(BootOrder) - 1 : BootOrder[i] = label]

HandlerCode == {"isr_handler", "timer_yield", "keyboard_handler", "isr_return"}
ThreadCode  == {"thread_a", "thread_a_yield", "thread_b", "thread_b_yield"}
KernelCode  == {BootOrder[i] : i \in 1 .. Len(BootOrder)} \cup HandlerCode
                 \cup ThreadCode

PageFault == 14
Vectors   == 32 .. 47

(* Interrupts find main in its loop; a shell command may fault in turn. *)
IrqFrame(v)   == <<TRUE, "hlt", v, MainRegs>>
FaultFrame(r) == <<FALSE, "keyboard_handler", PageFault, r>>
KernelStacks ==
  {<<>>} \cup {IrqFrame(v) : v \in Vectors}
         \cup {IrqFrame(33) \o FaultFrame(r) : r \in RegFiles}

T == INSTANCE Tasks WITH
       MaxTasks  <- 3,
       Code      <- KernelCode,
       Entries   <- {"thread_a", "thread_b"},
       OwnStacks <- KernelStacks

(* x += n on a uint32_t *)
Inc(x, n) == (x + n) % Word

-----------------------------------------------------------------------------
(* The interrupt controllers *)

Master == 0 .. 7
Slave  == 8 .. 15

(* The master's line for a request. *)
Line(q) == IF q \in Slave THEN 2 ELSE q

(* A line in service holds back itself and the lines behind it. *)
Blocked(q) ==
  \/ \E p \in isr \cap Master : p <= Line(q)
  \/ q \in Slave /\ \E p \in isr \cap Slave : p <= q

Before(p, q) == Line(p) < Line(q) \/ (Line(p) = Line(q) /\ p < q)

Deliverable(q) ==
  /\ q \in irr /\ ~Blocked(q)
  /\ \A p \in irr \ {q} : ~Blocked(p) => Before(q, p)

(* The effect of the command 0x20 on a controller's in-service lines. *)
Eoi(lines) == IF lines = {} THEN {} ELSE lines \ {Min(lines)}

(* port_out(0x20, 0x20) *)
eoi_master(s) == (s \cap Slave) \cup Eoi(s \cap Master)
(* port_out(0xA0, 0x20) *)
eoi_slave(s)  == (s \cap Master) \cup Eoi(s \cap Slave)

(* A device raises its line; a request that is already there absorbs it. *)
raise(q) ==
  /\ q \notin irr
  /\ irr' = irr \cup {q}
  /\ UNCHANGED <<taskVars, timerVars, threadVars, isr, IF_flag>>

-----------------------------------------------------------------------------
(* Entry and exit of interrupts *)

(* The interrupt flag behind a trap gate, type 0x8f. *)
TrapGate == IF_flag

(* Every entry of the IDT is an interrupt gate, type 0x8e: it clears IF. *)
Gate == FALSE

(* The CPU enters vector v and isr_common saves the registers. *)
Enter(v) ==
  /\ stack' = [stack EXCEPT ![sp] = @ \o <<IF_flag, eip, v, regs>>]
  /\ IF_flag' = Gate
  /\ eip' = "isr_handler"
  /\ UNCHANGED <<current_task, next_pid, next, state, esp, sp, regs, view, ran,
                 timerVars, threadVars>>

interrupt(q) ==
  /\ IF_flag
  /\ Deliverable(q)
  /\ Enter(32 + q)
  /\ irr' = irr \ {q}
  /\ isr' = isr \cup {q, Line(q)}

(* The request went away before the CPU asked for it: the controller       *)
(* answers with its lowest line and does not put it in service.            *)
spurious(q) ==
  /\ IF_flag
  /\ \A p \in irr : Blocked(p)
  /\ Enter(32 + q)
  /\ isr' = IF q \in Slave THEN isr \cup {Line(q)} ELSE isr
  /\ UNCHANGED irr

(* The end of isr_common: popa, drop vector and error code, iret. *)
isr_return ==
  /\ eip = "isr_return"
  /\ regs' = T!At(stack[sp], 0)
  /\ eip' = T!At(stack[sp], 2)
  /\ IF_flag' = T!At(stack[sp], 3)
  /\ stack' = [stack EXCEPT ![sp] = T!Pop(@, 4)]
  /\ UNCHANGED <<current_task, next_pid, next, state, esp, sp, view, ran,
                 timerVars, threadVars, picVars>>

-----------------------------------------------------------------------------
(* isr_handler and the handlers it calls *)

(* The CPU moves on to another place of the running task's code. *)
Goto(label, r) ==
  /\ eip' = label
  /\ regs' = r
  /\ UNCHANGED <<current_task, next_pid, next, state, esp, stack, sp, view, ran>>

EoiForgotten(s) == s

TickEoi(s) == eoi_master(s)

SecondOffByOne(t) == t % (hz + 1) = 0

(* ticks % hz == 0 *)
SecondIsOver(t) == t % hz = 0

(* The timer sends its own end of interrupt, then goes on to task_yield. *)
timer_handler ==
  /\ ticks' = Inc(ticks, 1)
  /\ IF SecondIsOver(ticks')
     THEN seconds' = Inc(seconds, 1) /\ elapsed' = 0
     ELSE elapsed' = elapsed + 1 /\ UNCHANGED seconds
  /\ isr' = TickEoi(isr)
  /\ Goto("timer_yield", HandlerRegs)
  /\ UNCHANGED <<hz, threadVars, irr, IF_flag>>

EndOfInterruptMasterOnly(v, s) == eoi_master(s)

EndOfInterrupt(v, s) ==
  IF v >= 40 THEN eoi_master(eoi_slave(s)) ELSE eoi_master(s)

isr_handler ==
  LET int_num == T!At(stack[sp], 1)
  IN  /\ eip = "isr_handler"
      /\ \/ /\ int_num < 32
            /\ T!kernel_panic
            /\ IF_flag' = FALSE
            /\ UNCHANGED <<timerVars, threadVars, picVars>>
         \/ /\ int_num = 32
            /\ timer_handler
         \/ /\ int_num = 33
            /\ Goto("keyboard_handler", HandlerRegs)
            /\ UNCHANGED <<timerVars, threadVars, picVars, IF_flag>>
         \/ /\ int_num > 33
            /\ isr' = EndOfInterrupt(int_num, isr)
            /\ Goto("isr_return", HandlerRegs)
            /\ UNCHANGED <<timerVars, threadVars, irr, IF_flag>>

timer_yield ==
  /\ eip = "timer_yield"
  /\ T!task_yield("isr_return")
  /\ UNCHANGED <<timerVars, threadVars, picVars, IF_flag>>

(* The keyboard handler runs shell commands; pagefault is one of them. *)
keyboard_handler ==
  /\ eip = "keyboard_handler"
  /\ \/ /\ isr' = EndOfInterrupt(33, isr)
        /\ Goto("isr_return", HandlerRegs)
        /\ UNCHANGED <<timerVars, threadVars, irr, IF_flag>>
     \/ /\ Enter(PageFault)
        /\ UNCHANGED picVars

-----------------------------------------------------------------------------
(* kernel_main *)

(* pic_remap initialises both controllers and unmasks every line. *)
idt_init ==
  /\ eip = "idt_init"
  /\ irr' = {} /\ isr' = {}
  /\ Goto(AfterBoot(eip), MainRegs)
  /\ UNCHANGED <<timerVars, threadVars, IF_flag>>

timer_init ==
  /\ eip = "timer_init"
  /\ hz' = frequency
  /\ Goto(AfterBoot(eip), MainRegs)
  /\ UNCHANGED <<ticks, seconds, elapsed, threadVars, picVars, IF_flag>>

start_tasks ==
  /\ \/ eip = "task_init" /\ T!task_init(AfterBoot(eip))
     \/ eip = "create_a" /\ T!task_create("thread_a", AfterBoot(eip))
     \/ eip = "create_b" /\ T!task_create("thread_b", AfterBoot(eip))
  /\ UNCHANGED <<timerVars, threadVars, picVars, IF_flag>>

sti ==
  /\ eip = "sti"
  /\ IF_flag' = TRUE
  /\ Goto(AfterBoot(eip), MainRegs)
  /\ UNCHANGED <<timerVars, threadVars, picVars>>

-----------------------------------------------------------------------------
(* The threads *)

thread_a ==
  \/ /\ eip = "thread_a"
     /\ thread_a_count' = Inc(thread_a_count, 1)
     /\ Goto("thread_a_yield", ThreadARegs)
     /\ UNCHANGED <<timerVars, thread_b_count, picVars, IF_flag>>
  \/ /\ eip = "thread_a_yield"
     /\ T!task_yield("thread_a")
     /\ UNCHANGED <<timerVars, threadVars, picVars, IF_flag>>

thread_b ==
  \/ /\ eip = "thread_b"
     /\ thread_b_count' = Inc(thread_b_count, 2)
     /\ Goto("thread_b_yield", ThreadBRegs)
     /\ UNCHANGED <<timerVars, thread_a_count, picVars, IF_flag>>
  \/ /\ eip = "thread_b_yield"
     /\ T!task_yield("thread_b")
     /\ UNCHANGED <<timerVars, threadVars, picVars, IF_flag>>

resume ==
  /\ T!task_yield_return
  /\ UNCHANGED <<timerVars, threadVars, picVars, IF_flag>>

-----------------------------------------------------------------------------
Init ==
  /\ T!Init
  /\ eip = "idt_init"
  /\ regs = MainRegs
  /\ IF_flag = FALSE
  /\ irr = {} /\ isr = {}
  /\ ticks = 0 /\ seconds = 0 /\ hz = 0 /\ elapsed = 0
  /\ thread_a_count = 0 /\ thread_b_count = 0

(* What the CPU does next of its own accord. *)
Execute ==
  \/ idt_init \/ timer_init \/ start_tasks \/ sti
  \/ isr_handler \/ timer_yield \/ keyboard_handler \/ isr_return
  \/ thread_a \/ thread_b \/ resume

Next ==
  \/ Execute
  \/ \E q \in Devices : raise(q) \/ interrupt(q)
  \/ \E q \in {7, 15} : spurious(q)

Spec == Init /\ [][Next]_vars

(* The CPU executes, takes interrupts that are offered to it, and the PIT, *)
(* which runs freely, keeps raising line 0.                                *)
FairSpec ==
  /\ Spec
  /\ WF_vars(Execute)
  /\ WF_vars(\E q \in Devices : interrupt(q))
  /\ WF_vars(raise(0))

-----------------------------------------------------------------------------
(* Interrupts are only ever accepted while kernel_main sits in its hlt     *)
(* loop with nothing on its stack, its registers intact, and no interrupt  *)
(* still in service: although a tick leaves in the middle of the handler   *)
(* to run threads, handlers do not nest, stacks do not grow, and the       *)
(* controllers are ready for every line.                                   *)
IdleIsClean ==
  IF_flag =>
    /\ current_task = 0 /\ sp = 0
    /\ eip = "hlt"
    /\ regs = MainRegs
    /\ stack[0] = <<>>
    /\ isr = {}

(* "100 ticks means 1 second" (with timer_init(100)): seconds advances     *)
(* after exactly hz ticks, unless the tick counter has wrapped since it    *)
(* advanced last, which makes that one second short.                       *)
SecondTakesHzTicks ==
  [][seconds' # seconds => elapsed + 1 = hz \/ ticks' < elapsed + 1]_vars

(* The kernel's use of tasks is one that Tasks.tla describes, in which     *)
(* every task, main included, yields again and again.                      *)
ImplementsTasks == T!FairSpec

(* A tick that has been raised is taken, unless the kernel halts. *)
TickServed == 0 \in irr ~> (0 \notin irr \/ eip = "halted")
=============================================================================
