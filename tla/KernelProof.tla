----------------------------- MODULE KernelProof -----------------------------
(***************************************************************************)
(* Proofs about Kernel.tla, for every tick rate, every width of the tick   *)
(* counter and every set of devices.  The kernel's scheduler is the one of *)
(* Tasks.tla with three tasks, so the lemmas of TasksProof.tla hold of it. *)
(***************************************************************************)
EXTENDS Kernel, Lemmas

TP == INSTANCE TasksProof WITH
        MaxTasks  <- 3,
        Code      <- KernelCode,
        Entries   <- {"thread_a", "thread_b"},
        OwnStacks <- KernelStacks

-----------------------------------------------------------------------------
(* The code, the register files and the stacks of the kernel are ones that *)
(* Tasks.tla allows.                                                       *)
LEMMA CodeIs ==
  KernelCode =
    {"idt_init", "timer_init", "task_init", "create_a", "create_b", "sti", "hlt",
     "isr_handler", "timer_yield", "keyboard_handler", "isr_return",
     "thread_a", "thread_a_yield", "thread_b", "thread_b_yield"}
<1>1. Len(BootOrder) = 7 /\ 1 .. 7 = {1, 2, 3, 4, 5, 6, 7}
  BY DEF BootOrder
<1>2. {BootOrder[i] : i \in 1 .. Len(BootOrder)}
        = {"idt_init", "timer_init", "task_init", "create_a", "create_b", "sti", "hlt"}
  BY <1>1 DEF BootOrder
<1> QED
  BY <1>2 DEF KernelCode, HandlerCode, ThreadCode

LEMMA PidsOk == 3 \in Nat /\ 3 > 0 /\ NULL \notin Nat
BY KernelAssumption

LEMMA CodeOk ==
  /\ {"thread_a", "thread_b"} \subseteq KernelCode
  /\ {"in task_yield", "halted"} \cap KernelCode = {}
  /\ RegFiles \subseteq [ebx : Int, esi : Int, edi : Int, ebp : Int]
  /\ TP!ZeroRegs \in RegFiles
<1>1. RegFiles \subseteq [ebx : Int, esi : Int, edi : Int, ebp : Int]
  BY DEF RegFiles, RegsOf
<1>2. TP!ZeroRegs \in RegFiles
  BY DEF RegFiles, RegsOf, TP!ZeroRegs
<1> QED
  BY <1>1, <1>2, CodeIs

LEMMA RegsOk == {MainRegs, HandlerRegs, ThreadARegs, ThreadBRegs} \subseteq RegFiles
BY DEF RegFiles, MainRegs, HandlerRegs, ThreadARegs, ThreadBRegs

(* Tuples are stacks, also one on top of another. *)
LEMMA SeqIsFcn ==
  ASSUME NEW S, NEW s \in Seq(S)
  PROVE  Len(s) \in Nat /\ s = [i \in 1 .. Len(s) |-> s[i]]
OBVIOUS

LEMMA StacksOk ==
  /\ <<>> \in KernelStacks
  /\ \A s \in KernelStacks : Len(s) \in Nat /\ s = [i \in 1 .. Len(s) |-> s[i]]
<1>1. <<>> \in KernelStacks
  BY DEF KernelStacks
<1>2. ASSUME NEW s \in KernelStacks
      PROVE  \E S : s \in Seq(S)
  <2>1. CASE s = <<>>
    BY <2>1
  <2>2. ASSUME NEW v \in Vectors, s = IrqFrame(v)
        PROVE  \E S : s \in Seq(S)
    <3>1. s \in Seq({TRUE, "hlt", v, MainRegs})
      BY <2>2 DEF IrqFrame
    <3> QED
      BY <3>1
  <2>3. ASSUME NEW r \in RegFiles, s = IrqFrame(33) \o FaultFrame(r)
        PROVE  \E S : s \in Seq(S)
    <3> DEFINE W == {TRUE, "hlt", 33, MainRegs, FALSE, "keyboard_handler", PageFault, r}
    <3>1. IrqFrame(33) \in Seq(W) /\ FaultFrame(r) \in Seq(W)
      BY DEF IrqFrame, FaultFrame
    <3> HIDE DEF W
    <3>2. s \in Seq(W)
      BY <2>3, <3>1, ConcatProperties
    <3> QED
      BY <3>2
  <2> QED
    BY <2>1, <2>2, <2>3 DEF KernelStacks
<1> QED
  BY <1>1, <1>2, SeqIsFcn

-----------------------------------------------------------------------------
(* The two instances of Tasks.tla, in Kernel and in TasksProof, agree. *)
LEMMA SameInit == T!Init <=> TP!Init
BY DEF T!Init, TP!Init, T!Pids, TP!Pids

LEMMA SameVars == T!vars = TP!vars
BY DEF T!vars, TP!vars, T!structs, TP!structs

LEMMA SamePanic == T!kernel_panic <=> TP!kernel_panic
BY DEF T!kernel_panic, TP!kernel_panic, T!Running, TP!Running, T!structs, TP!structs

LEMMA SameWork == \A e, r, s : T!work(e, r, s) <=> TP!work(e, r, s)
BY DEF T!work, TP!work, T!Running, TP!Running, T!structs, TP!structs

LEMMA SameTaskInit == \A ret : T!task_init(ret) <=> TP!task_init(ret)
BY DEF T!task_init, TP!task_init, T!Running, TP!Running

LEMMA SameCreate ==
  \A entry, ret : T!task_create(entry, ret) <=> TP!task_create(entry, ret)
BY DEF T!task_create, TP!task_create, T!Running, TP!Running, T!NewStack,
  TP!NewStack, T!Insert, TP!Insert, T!ZeroRegs, TP!ZeroRegs

LEMMA SameYield == \A ret : T!task_yield(ret) <=> TP!task_yield(ret)
BY Zenon DEF T!task_yield, TP!task_yield, T!Running, TP!Running, T!Alone,
  TP!Alone, T!Switched, TP!Switched, T!context_switch, TP!context_switch,
  T!Pushed, TP!Pushed, T!At, TP!At, T!Popped, TP!Popped, T!Pop, TP!Pop,
  T!Pids, TP!Pids, T!structs, TP!structs

LEMMA SameReturn == T!task_yield_return <=> TP!task_yield_return
BY DEF T!task_yield_return, TP!task_yield_return, T!At, TP!At, T!Pop, TP!Pop,
  T!structs, TP!structs

LEMMA SameNext == T!Next <=> TP!Next
BY SamePanic, SameWork, SameTaskInit, SameCreate, SameYield, SameReturn
   DEF T!Next, TP!Next

-----------------------------------------------------------------------------
(* kernel_main's calls follow each other in the order of BootOrder. *)
LEMMA AfterBootIs ==
  /\ AfterBoot("idt_init") = "timer_init"
  /\ AfterBoot("timer_init") = "task_init"
  /\ AfterBoot("task_init") = "create_a"
  /\ AfterBoot("create_a") = "create_b"
  /\ AfterBoot("create_b") = "sti"
  /\ AfterBoot("sti") = "hlt"
<1>1. Len(BootOrder) - 1 = 6
  BY DEF BootOrder
<1>2. ASSUME NEW k \in 1 .. 6
      PROVE  AfterBoot(BootOrder[k]) = BootOrder[k + 1]
  <2>1. \A i \in 1 .. 6 : BootOrder[i] = BootOrder[k] => i = k
    BY DEF BootOrder
  <2>2. (CHOOSE i \in 1 .. 6 : BootOrder[i] = BootOrder[k]) = k
    BY <2>1
  <2>3. 1 + k = k + 1
    OBVIOUS
  <2> QED
    BY <1>1, <2>2, <2>3 DEF AfterBoot
<1>3. /\ BootOrder[1] = "idt_init" /\ BootOrder[2] = "timer_init"
      /\ BootOrder[3] = "task_init" /\ BootOrder[4] = "create_a"
      /\ BootOrder[5] = "create_b" /\ BootOrder[6] = "sti" /\ BootOrder[7] = "hlt"
  BY DEF BootOrder
<1>4. /\ AfterBoot(BootOrder[1]) = BootOrder[2]
      /\ AfterBoot(BootOrder[2]) = BootOrder[3]
      /\ AfterBoot(BootOrder[3]) = BootOrder[4]
      /\ AfterBoot(BootOrder[4]) = BootOrder[5]
      /\ AfterBoot(BootOrder[5]) = BootOrder[6]
      /\ AfterBoot(BootOrder[6]) = BootOrder[7]
  BY <1>2
<1> QED
  BY <1>3, <1>4, Zenon
-----------------------------------------------------------------------------
(* The inductive invariant: where everybody is at each place in the code.  *)

(* What is in service after the CPU entered vector v from the idle loop. *)
InService(v, s) ==
  \/ v \in 32 .. 39 /\ s = {v - 32}
  \/ v \in 40 .. 47 /\ s = {2, v - 32}
  \/ v = 39 /\ s = {}
  \/ v = 47 /\ s = {2}

(* The threads wait at the heads of their loops with empty stacks; main,   *)
(* while it waits, is inside the timer interrupt.                          *)
AtLoop(t, e) == view[t].eip = e /\ view[t].stack = <<>>
InTick       == /\ view[0].eip = "isr_return"
                /\ view[0].regs = HandlerRegs
                /\ view[0].stack = IrqFrame(32)

Returning == eip = "in task_yield"

Booted ==
  /\ next_pid = 3
  /\ next[0] = 2 /\ next[2] = 1 /\ next[1] = 0
  /\ current_task # 1 \/ Returning => AtLoop(1, "thread_a")
  /\ current_task # 2 \/ Returning => AtLoop(2, "thread_b")
  /\ current_task # 0 \/ Returning => InTick

(* Main runs, with s on its stack. *)
OnMain(s) == current_task = 0 /\ stack[0] = s

BootInv ==
  /\ eip \in {"idt_init", "timer_init", "task_init"} =>
       current_task = NULL /\ stack[0] = <<>>
  /\ eip = "create_a" => OnMain(<<>>) /\ next_pid = 1 /\ next[0] = 0
  /\ eip = "create_b" => /\ OnMain(<<>>) /\ next_pid = 2
                         /\ next[0] = 1 /\ next[1] = 0
                         /\ AtLoop(1, "thread_a")
  /\ eip \in {"sti", "hlt"} => Booted /\ OnMain(<<>>)
  /\ eip \in {BootOrder[i] : i \in 1 .. Len(BootOrder)} =>
       regs = MainRegs /\ isr = {}

HandlerInv ==
  /\ eip = "isr_handler" =>
       /\ Booted
       /\ \/ \E v \in Vectors : OnMain(IrqFrame(v)) /\ InService(v, isr)
          \/ OnMain(IrqFrame(33) \o FaultFrame(HandlerRegs))
  /\ eip = "timer_yield" =>
       Booted /\ OnMain(IrqFrame(32)) /\ isr = {} /\ regs = HandlerRegs
  /\ eip = "keyboard_handler" =>
       Booted /\ OnMain(IrqFrame(33)) /\ isr = {1} /\ regs = HandlerRegs
  /\ eip = "isr_return" =>
       Booted /\ isr = {} /\ \E v \in Vectors : OnMain(IrqFrame(v))

ThreadInv ==
  /\ eip \in {"thread_a", "thread_a_yield"} =>
       Booted /\ current_task = 1 /\ stack[1] = <<>> /\ isr = {}
  /\ eip \in {"thread_b", "thread_b_yield"} =>
       Booted /\ current_task = 2 /\ stack[2] = <<>> /\ isr = {}
  /\ Returning => Booted /\ isr = {}

KernelInv ==
  /\ TP!TasksInv
  /\ stack = [t \in TP!Pids |-> stack[t]]
  /\ eip = "hlt" => IF_flag = TRUE
  /\ eip # "hlt" => IF_flag = FALSE
  /\ BootInv
  /\ HandlerInv
  /\ ThreadInv
-----------------------------------------------------------------------------
(* The lemmas of TasksProof that are used. *)
LEMMA TasksInitK == TP!Init => TP!TasksInv
BY PidsOk, CodeOk, StacksOk, TP!TasksInit

LEMMA TasksStepK == TP!TasksInv /\ TP!Next => TP!TasksInv'
<1>1. TP!TasksInv /\ [TP!Next]_(TP!vars) => TP!TasksInv'
  BY PidsOk, CodeOk, StacksOk, TP!TasksStep
<1> QED
  BY <1>1

LEMMA SwitchFactsK ==
  ASSUME TP!TasksInv, NEW ret \in KernelCode, TP!task_yield(ret), ~TP!Alone
  PROVE  TP!SwitchedTo(current_task, next[current_task], ret)
BY PidsOk, CodeOk, StacksOk, TP!SwitchFacts

(* Who runs, on which stack; the stack is one of the kernel's. *)
LEMMA WhoRuns ==
  ASSUME KernelInv
  PROVE  /\ TP!Pids = 0 .. 2
         /\ sp \in 0 .. 2
         /\ current_task = NULL => sp = 0
         /\ current_task # NULL => sp = current_task
         /\ DOMAIN stack = 0 .. 2
         /\ regs \in RegFiles
         /\ \A t \in 0 .. 2 : t # NULL
         /\ eip \in KernelCode => stack[sp] \in KernelStacks
<1>1. TP!Pids = 0 .. 2 /\ \A t \in 0 .. 2 : t # NULL
  BY PidsOk DEF TP!Pids
<1>2. /\ sp \in 0 .. 2
      /\ current_task = NULL => sp = 0
      /\ current_task # NULL => sp = current_task
      /\ DOMAIN stack = 0 .. 2 /\ regs \in RegFiles
  BY <1>1 DEF KernelInv, TP!TasksInv, TP!TypeOK, TP!ListInv, TP!OneRunning
<1>3. ASSUME eip \in KernelCode
      PROVE  stack[sp] \in KernelStacks
  <2>1. \/ current_task = NULL /\ stack[0] = <<>>
        \/ OnMain(<<>>)
        \/ \E v \in Vectors : OnMain(IrqFrame(v))
        \/ OnMain(IrqFrame(33) \o FaultFrame(HandlerRegs))
        \/ current_task = 1 /\ stack[1] = <<>>
        \/ current_task = 2 /\ stack[2] = <<>>
    BY <1>3, CodeIs DEF KernelInv, BootInv, HandlerInv, ThreadInv, Vectors
  <2> QED
    BY <1>1, <1>2, <2>1, RegsOk DEF OnMain, KernelStacks
<1> QED
  BY <1>1, <1>2, <1>3

(* A step within the running task's code is one of Tasks.tla. *)
LEMMA OwnCode ==
  ASSUME KernelInv, eip \in KernelCode,
         NEW e \in KernelCode, NEW r \in RegFiles, NEW s \in KernelStacks,
         eip' = e, regs' = r, stack' = [stack EXCEPT ![sp] = s],
         UNCHANGED <<current_task, next_pid, next, state, esp, sp, view, ran>>
  PROVE  /\ TP!Next
         /\ TP!TasksInv'
         /\ stack' = [t \in TP!Pids |-> stack'[t]]
         /\ stack'[sp] = s
         /\ \A t \in 0 .. 2 : t # sp => stack'[t] = stack[t]
<1>1. TP!work(e, r, s)
  BY DEF TP!work, TP!Running, TP!structs
<1>2. TP!Next
  BY <1>1 DEF TP!Next
<1>3. TP!TasksInv'
  BY <1>2, TasksStepK DEF KernelInv
<1>4. DOMAIN stack = 0 .. 2 /\ TP!Pids = 0 .. 2 /\ sp \in 0 .. 2
  BY WhoRuns
<1> QED
  BY <1>2, <1>3, <1>4

LEMMA GotoStep ==
  ASSUME KernelInv, eip \in KernelCode,
         NEW e \in KernelCode, NEW r \in RegFiles, Goto(e, r)
  PROVE  /\ TP!Next
         /\ TP!TasksInv'
         /\ stack' = [t \in TP!Pids |-> stack'[t]]
         /\ UNCHANGED <<current_task, next_pid, next, stack, sp, view>>
         /\ eip' = e /\ regs' = r
<1>1. stack[sp] \in KernelStacks /\ sp \in 0 .. 2 /\ TP!Pids = 0 .. 2
  BY WhoRuns
<1>2. stack' = stack
  BY DEF Goto
<1>3. stack = [t \in TP!Pids |-> stack[t]]
  BY DEF KernelInv
<1>4. stack' = [stack EXCEPT ![sp] = stack[sp]]
  <2> DEFINE P == TP!Pids
  <2>1. sp \in P /\ stack = [t \in P |-> stack[t]]
    BY <1>1, <1>3
  <2> HIDE DEF P
  <2> QED
    BY <1>2, <2>1
<1>5. UNCHANGED <<current_task, next_pid, next, state, esp, sp, view, ran>>
      /\ eip' = e /\ regs' = r
  BY DEF Goto
<1> QED
  BY <1>1, <1>2, <1>4, <1>5, OwnCode

LEMMA KernelInit == Init => KernelInv
<1> SUFFICES ASSUME Init
             PROVE  KernelInv
  OBVIOUS
<1>1. TP!TasksInv
  BY SameInit, TasksInitK DEF Init
<1>2. T!Init /\ eip = "idt_init" /\ regs = MainRegs /\ isr = {} /\ IF_flag = FALSE
  BY DEF Init
<1>3. stack = [t \in 0 .. 2 |-> <<>>] /\ current_task = NULL /\ TP!Pids = 0 .. 2
  BY <1>2 DEF T!Init, T!Pids, TP!Pids
<1>4. stack = [t \in TP!Pids |-> stack[t]] /\ stack[0] = <<>>
  BY <1>3
<1> QED
  BY <1>1, <1>2, <1>3, <1>4 DEF KernelInv, BootInv, HandlerInv, ThreadInv, Returning
-----------------------------------------------------------------------------
(* The end of interrupt takes exactly what was in service. *)
LEMMA EoiOne ==
  /\ Eoi({}) = {}
  /\ \A x \in Nat : Eoi({x}) = {}
<1>1. ASSUME NEW x \in Nat
      PROVE  Eoi({x}) = {}
  <2>1. {x} \in SUBSET Nat /\ {x} # {}
    OBVIOUS
  <2>2. Min({x}) \in {x}
    BY <2>1, MinProps, Zenon
  <2> QED
    BY <2>1, <2>2 DEF Eoi
<1> QED
  BY <1>1 DEF Eoi

LEMMA EoiMaster ==
  /\ eoi_master({}) = {}
  /\ \A x \in 0 .. 7 : eoi_master({x}) = {}
<1>1. eoi_master({}) = {}
  <2>1. {} \cap Slave = {} /\ {} \cap Master = {}
    OBVIOUS
  <2>2. eoi_master({}) = {} \cup {}
    BY <2>1, EoiOne, Zenon DEF eoi_master
  <2> QED
    BY <2>2
<1>2. ASSUME NEW x \in 0 .. 7
      PROVE  eoi_master({x}) = {}
  <2>1. x \notin Slave /\ x \in Master /\ x \in Nat
    BY DEF Slave, Master
  <2>2. {x} \cap Slave = {} /\ {x} \cap Master = {x}
    BY <2>1, Zenon
  <2>3. eoi_master({x}) = {} \cup {}
    BY <2>1, <2>2, EoiOne, Zenon DEF eoi_master
  <2> QED
    BY <2>3
<1> QED
  BY <1>1, <1>2

LEMMA EoiSlave ==
  /\ eoi_slave({2}) = {2}
  /\ \A x \in 8 .. 15 : eoi_slave({2, x}) = {2}
<1>1. eoi_slave({2}) = {2}
  <2>1. {2} \cap Slave = {} /\ {2} \cap Master = {2}
    BY DEF Slave, Master
  <2>2. eoi_slave({2}) = {2} \cup {}
    BY <2>1, EoiOne, Zenon DEF eoi_slave
  <2> QED
    BY <2>2
<1>2. ASSUME NEW x \in 8 .. 15
      PROVE  eoi_slave({2, x}) = {2}
  <2>1. x \in Slave /\ x \notin Master /\ 2 \notin Slave /\ 2 \in Master /\ x \in Nat
    BY DEF Slave, Master
  <2>2. {2, x} \cap Slave = {x} /\ {2, x} \cap Master = {2}
    BY <2>1, Zenon
  <2>3. eoi_slave({2, x}) = {2} \cup {}
    BY <2>1, <2>2, EoiOne, Zenon DEF eoi_slave
  <2> QED
    BY <2>3
<1> QED
  BY <1>1, <1>2

LEMMA EoiClears ==
  ASSUME NEW v \in Vectors, NEW s, InService(v, s)
  PROVE  /\ v = 32 => TickEoi(s) = {}
         /\ EndOfInterrupt(v, s) = {}
<1>1. CASE v \in 32 .. 39 /\ s = {v - 32}
  <2>1. v - 32 \in 0 .. 7 /\ ~(v >= 40)
    BY <1>1
  <2>2. eoi_master({v - 32}) = {}
    BY <2>1, EoiMaster
  <2> QED
    BY <1>1, <2>1, <2>2 DEF TickEoi, EndOfInterrupt
<1>2. CASE v \in 40 .. 47 /\ s = {2, v - 32}
  <2>1. v - 32 \in 8 .. 15 /\ v >= 40 /\ v # 32 /\ 2 \in 0 .. 7
    BY <1>2
  <2>2. eoi_master(eoi_slave({2, v - 32})) = {}
    BY <2>1, EoiMaster, EoiSlave
  <2> QED
    BY <1>2, <2>1, <2>2 DEF EndOfInterrupt
<1>3. CASE v = 39 /\ s = {}
  <2>1. ~(v >= 40) /\ v # 32
    BY <1>3
  <2> QED
    BY <1>3, <2>1, EoiMaster DEF EndOfInterrupt
<1>4. CASE v = 47 /\ s = {2}
  <2>1. v >= 40 /\ v # 32 /\ 2 \in 0 .. 7
    BY <1>4
  <2>2. eoi_master(eoi_slave({2})) = {}
    BY <2>1, EoiMaster, EoiSlave
  <2> QED
    BY <1>4, <2>1, <2>2 DEF EndOfInterrupt
<1> QED
  BY <1>1, <1>2, <1>3, <1>4 DEF InService

-----------------------------------------------------------------------------
(* One lemma per action: it keeps the invariant and is a step of Tasks.tla *)
(* or leaves the tasks alone.  Nothing returns to the calls before         *)
(* timer_init has set hz.                                                  *)
Early == {"idt_init", "timer_init"}

LEMMA BootLabels ==
  {BootOrder[i] : i \in 1 .. Len(BootOrder)}
    = {"idt_init", "timer_init", "task_init", "create_a", "create_b", "sti", "hlt"}
<1>1. Len(BootOrder) = 7 /\ 1 .. 7 = {1, 2, 3, 4, 5, 6, 7}
  BY DEF BootOrder
<1> QED
  BY <1>1 DEF BootOrder

LEMMA StepIdtInit ==
  ASSUME KernelInv, idt_init
  PROVE  KernelInv' /\ TP!Next
<1>1. /\ eip = "idt_init" /\ Goto("timer_init", MainRegs) /\ isr' = {}
      /\ IF_flag' = IF_flag
  BY AfterBootIs DEF idt_init
<1>2. eip \in KernelCode /\ "timer_init" \in KernelCode /\ MainRegs \in RegFiles
  BY <1>1, CodeIs, RegsOk
<1>3. /\ TP!Next /\ TP!TasksInv' /\ stack' = [t \in TP!Pids |-> stack'[t]]
      /\ UNCHANGED <<current_task, next_pid, next, stack, sp, view>>
      /\ eip' = "timer_init" /\ regs' = MainRegs
  BY <1>1, <1>2, GotoStep
<1>4. BootInv' /\ HandlerInv' /\ ThreadInv'
  BY <1>1, <1>3 DEF KernelInv, BootInv, HandlerInv, ThreadInv, Returning
<1> QED
  BY <1>1, <1>3, <1>4 DEF KernelInv

LEMMA StepTimerInit ==
  ASSUME KernelInv, timer_init
  PROVE  KernelInv' /\ TP!Next
<1>1. /\ eip = "timer_init" /\ Goto("task_init", MainRegs) /\ isr' = isr
      /\ IF_flag' = IF_flag
  BY AfterBootIs DEF timer_init, picVars
<1>2. eip \in KernelCode /\ "task_init" \in KernelCode /\ MainRegs \in RegFiles
  BY <1>1, CodeIs, RegsOk
<1>3. /\ TP!Next /\ TP!TasksInv' /\ stack' = [t \in TP!Pids |-> stack'[t]]
      /\ UNCHANGED <<current_task, next_pid, next, stack, sp, view>>
      /\ eip' = "task_init" /\ regs' = MainRegs
  BY <1>1, <1>2, GotoStep
<1>4. isr = {}
  BY <1>1, BootLabels DEF KernelInv, BootInv
<1>5. BootInv' /\ HandlerInv' /\ ThreadInv'
  BY <1>1, <1>3, <1>4 DEF KernelInv, BootInv, HandlerInv, ThreadInv, Returning
<1> QED
  BY <1>1, <1>3, <1>5 DEF KernelInv

LEMMA StepSti ==
  ASSUME KernelInv, sti
  PROVE  KernelInv' /\ TP!Next
<1>1. /\ eip = "sti" /\ Goto("hlt", MainRegs) /\ isr' = isr
      /\ IF_flag' = TRUE
  BY AfterBootIs DEF sti, picVars
<1>2. eip \in KernelCode /\ "hlt" \in KernelCode /\ MainRegs \in RegFiles
  BY <1>1, CodeIs, RegsOk
<1>3. /\ TP!Next /\ TP!TasksInv' /\ stack' = [t \in TP!Pids |-> stack'[t]]
      /\ UNCHANGED <<current_task, next_pid, next, stack, sp, view>>
      /\ eip' = "hlt" /\ regs' = MainRegs
  BY <1>1, <1>2, GotoStep
<1>4. isr = {}
  BY <1>1, BootLabels DEF KernelInv, BootInv
<1>5. Booted' /\ OnMain(<<>>)'
  BY <1>1, <1>3 DEF KernelInv, BootInv, Booted, OnMain, AtLoop, InTick, Returning
<1>6. BootInv' /\ HandlerInv' /\ ThreadInv'
  BY <1>1, <1>3, <1>4, <1>5 DEF BootInv, HandlerInv, ThreadInv, Returning
<1> QED
  BY <1>1, <1>3, <1>6 DEF KernelInv
LEMMA StepTaskInit ==
  ASSUME KernelInv, eip = "task_init", T!task_init("create_a"),
         UNCHANGED <<isr, IF_flag>>
  PROVE  KernelInv' /\ TP!Next
<1>1. TP!task_init("create_a") /\ "create_a" \in KernelCode
  BY SameTaskInit, CodeIs
<1>2. TP!Next
  BY <1>1 DEF TP!Next
<1>3. TP!TasksInv'
  BY <1>2, TasksStepK DEF KernelInv
<1>4. /\ next' = [next EXCEPT ![0] = 0] /\ current_task' = 0 /\ eip' = "create_a"
      /\ UNCHANGED <<next_pid, stack, regs>>
  BY <1>1 DEF TP!task_init
<1>5. next'[0] = 0 /\ next_pid = 1
  <2>1. next \in [0 .. 2 -> TP!Pids \cup {NULL}]
    BY WhoRuns DEF KernelInv, TP!TasksInv, TP!TypeOK
  <2> QED
    BY <1>4, <2>1 DEF KernelInv, TP!TasksInv, TP!ListInv, BootInv
<1>6. isr = {} /\ regs = MainRegs
  BY BootLabels DEF KernelInv, BootInv
<1>7. BootInv' /\ HandlerInv' /\ ThreadInv'
  BY <1>4, <1>5, <1>6 DEF KernelInv, BootInv, HandlerInv, ThreadInv, Returning, OnMain
<1> QED
  BY <1>2, <1>3, <1>4, <1>7 DEF KernelInv

(* task_create behind main, when there is room. *)
LEMMA Created ==
  ASSUME KernelInv, eip \in KernelCode, current_task = 0, next_pid \in 1 .. 2,
         NEW entry \in {"thread_a", "thread_b"}, NEW ret \in KernelCode,
         T!task_create(entry, ret)
  PROVE  /\ TP!Next /\ TP!TasksInv'
         /\ stack' = [t \in TP!Pids |-> stack'[t]]
         /\ next'[next_pid] = next[0] /\ next'[0] = next_pid
         /\ \A t \in 1 .. 2 : t # next_pid => next'[t] = next[t]
         /\ view'[next_pid].eip = entry /\ view'[next_pid].stack = <<>>
         /\ \A t \in 0 .. 2 : t # next_pid => view'[t] = view[t]
         /\ stack'[0] = stack[0]
         /\ next_pid' = next_pid + 1
         /\ eip' = ret /\ UNCHANGED <<current_task, regs>>
<1>1. TP!task_create(entry, ret)
  BY SameCreate
<1>2. TP!Next
  BY <1>1 DEF TP!Next
<1>3. TP!TasksInv'
  BY <1>2, TasksStepK DEF KernelInv
<1>4. ~(next_pid >= 3)
  OBVIOUS
<1>5. /\ next_pid' = next_pid + 1
      /\ stack' = [stack EXCEPT ![next_pid] = TP!NewStack(entry)]
      /\ next' = TP!Insert(current_task, next_pid)
      /\ eip' = ret
      /\ view' = [view EXCEPT ![next_pid] =
                    [eip |-> entry, regs |-> TP!ZeroRegs, stack |-> <<>>]]
      /\ UNCHANGED <<current_task, regs>>
  BY <1>1, <1>4 DEF TP!task_create
<1>6. /\ next \in [0 .. 2 -> TP!Pids \cup {NULL}]
      /\ DOMAIN view = 0 .. 2 /\ DOMAIN stack = 0 .. 2 /\ TP!Pids = 0 .. 2
  BY WhoRuns DEF KernelInv, TP!TasksInv, TP!TypeOK
<1>7. next' = [next EXCEPT ![next_pid] = next[0], ![0] = next_pid]
  BY <1>5 DEF TP!Insert
<1>8. /\ next'[next_pid] = next[0] /\ next'[0] = next_pid
      /\ \A t \in 1 .. 2 : t # next_pid => next'[t] = next[t]
  BY <1>6, <1>7
<1>9. /\ view'[next_pid].eip = entry /\ view'[next_pid].stack = <<>>
      /\ \A t \in 0 .. 2 : t # next_pid => view'[t] = view[t]
  BY <1>5, <1>6
<1>10. stack'[0] = stack[0] /\ stack' = [t \in TP!Pids |-> stack'[t]]
  BY <1>5, <1>6, SMTT(30)
<1> QED
  BY <1>2, <1>3, <1>5, <1>8, <1>9, <1>10

LEMMA StepCreateA ==
  ASSUME KernelInv, eip = "create_a", T!task_create("thread_a", "create_b"),
         UNCHANGED <<isr, IF_flag>>
  PROVE  KernelInv' /\ TP!Next
<1>1. /\ eip \in KernelCode /\ "create_b" \in KernelCode
      /\ OnMain(<<>>) /\ next_pid = 1 /\ next[0] = 0
      /\ regs = MainRegs /\ isr = {}
  BY CodeIs, BootLabels DEF KernelInv, BootInv
<1>2. current_task = 0 /\ next_pid \in 1 .. 2
  BY <1>1 DEF OnMain
<1>3. /\ TP!Next /\ TP!TasksInv'
      /\ stack' = [t \in TP!Pids |-> stack'[t]]
      /\ next'[1] = 0 /\ next'[0] = 1 /\ next_pid' = 2
      /\ view'[1].eip = "thread_a" /\ view'[1].stack = <<>>
      /\ stack'[0] = stack[0]
      /\ eip' = "create_b" /\ UNCHANGED <<current_task, regs>>
  BY <1>1, <1>2, Created
<1>4. BootInv' /\ HandlerInv' /\ ThreadInv'
  BY <1>1, <1>3 DEF BootInv, HandlerInv, ThreadInv, Returning, OnMain, AtLoop
<1> QED
  BY <1>3, <1>4 DEF KernelInv

LEMMA StepCreateB ==
  ASSUME KernelInv, eip = "create_b", T!task_create("thread_b", "sti"),
         UNCHANGED <<isr, IF_flag>>
  PROVE  KernelInv' /\ TP!Next
<1>1. /\ eip \in KernelCode /\ "sti" \in KernelCode
      /\ OnMain(<<>>) /\ next_pid = 2 /\ next[0] = 1 /\ next[1] = 0
      /\ AtLoop(1, "thread_a")
      /\ regs = MainRegs /\ isr = {}
  BY CodeIs, BootLabels DEF KernelInv, BootInv
<1>2. current_task = 0 /\ next_pid \in 1 .. 2
  BY <1>1 DEF OnMain
<1>3. /\ TP!Next /\ TP!TasksInv'
      /\ stack' = [t \in TP!Pids |-> stack'[t]]
      /\ next'[2] = 1 /\ next'[0] = 2 /\ next'[1] = 0 /\ next_pid' = 3
      /\ view'[2].eip = "thread_b" /\ view'[2].stack = <<>> /\ view'[1] = view[1]
      /\ stack'[0] = stack[0]
      /\ eip' = "sti" /\ UNCHANGED <<current_task, regs>>
  BY <1>1, <1>2, Created
<1>4. BootInv' /\ HandlerInv' /\ ThreadInv'
  BY <1>1, <1>3 DEF BootInv, HandlerInv, ThreadInv, Returning, OnMain, AtLoop, Booted
<1> QED
  BY <1>3, <1>4 DEF KernelInv

-----------------------------------------------------------------------------
(* Entering an interrupt puts four words on main's stack. *)
LEMMA EnterStep ==
  ASSUME KernelInv, eip \in KernelCode, current_task = 0, NEW v, Enter(v),
         stack[0] \o <<IF_flag, eip, v, regs>> \in KernelStacks
  PROVE  /\ TP!Next /\ TP!TasksInv'
         /\ stack' = [t \in TP!Pids |-> stack'[t]]
         /\ stack'[0] = stack[0] \o <<IF_flag, eip, v, regs>>
         /\ eip' = "isr_handler" /\ IF_flag' = FALSE
         /\ UNCHANGED <<current_task, next_pid, next, view, regs>>
<1>1. sp = 0 /\ regs \in RegFiles /\ "isr_handler" \in KernelCode
  BY WhoRuns, CodeIs
<1>2. /\ stack' = [stack EXCEPT ![sp] = stack[0] \o <<IF_flag, eip, v, regs>>]
      /\ eip' = "isr_handler" /\ IF_flag' = FALSE /\ regs' = regs
      /\ UNCHANGED <<current_task, next_pid, next, state, esp, sp, view, ran>>
  BY <1>1 DEF Enter, Gate
<1>3. /\ TP!Next /\ TP!TasksInv' /\ stack' = [t \in TP!Pids |-> stack'[t]]
      /\ stack'[sp] = stack[0] \o <<IF_flag, eip, v, regs>>
  BY <1>1, <1>2, OwnCode
<1> QED
  BY <1>1, <1>2, <1>3

(* The CPU takes an interrupt in the idle loop. *)
LEMMA EnterIdle ==
  ASSUME KernelInv, IF_flag = TRUE, NEW v \in Vectors, Enter(v), InService(v, isr')
  PROVE  KernelInv' /\ TP!Next
<1>1. eip = "hlt"
  BY DEF KernelInv
<1>2. /\ Booted /\ OnMain(<<>>) /\ regs = MainRegs /\ isr = {}
      /\ eip \in KernelCode
  BY <1>1, CodeIs, BootLabels DEF KernelInv, BootInv
<1>3. stack[0] \o <<IF_flag, eip, v, regs>> = IrqFrame(v)
  <2>1. <<>> \o <<TRUE, "hlt", v, MainRegs>> = <<TRUE, "hlt", v, MainRegs>>
    OBVIOUS
  <2> QED
    BY <1>1, <1>2, <2>1 DEF OnMain, IrqFrame
<1>4. IrqFrame(v) \in KernelStacks
  BY DEF KernelStacks
<1>5. /\ TP!Next /\ TP!TasksInv'
      /\ stack' = [t \in TP!Pids |-> stack'[t]]
      /\ stack'[0] = IrqFrame(v)
      /\ eip' = "isr_handler" /\ IF_flag' = FALSE
      /\ UNCHANGED <<current_task, next_pid, next, view, regs>>
  BY <1>2, <1>3, <1>4, EnterStep DEF OnMain
<1>6. Booted' /\ OnMain(IrqFrame(v))'
  BY <1>1, <1>2, <1>5 DEF Booted, OnMain, AtLoop, InTick, Returning
<1>7. BootInv' /\ HandlerInv' /\ ThreadInv'
  BY <1>5, <1>6, BootLabels DEF BootInv, HandlerInv, ThreadInv, Returning
<1> QED
  BY <1>5, <1>7 DEF KernelInv

LEMMA StepInterrupt ==
  ASSUME KernelInv, NEW q \in Devices, interrupt(q)
  PROVE  KernelInv' /\ TP!Next
<1>1. q \in 0 .. 15 /\ 32 + q \in Vectors
  BY KernelAssumption DEF Vectors
<1>2. IF_flag /\ Enter(32 + q) /\ isr' = isr \cup {q, Line(q)}
  BY DEF interrupt
<1>3. IF_flag = TRUE /\ isr = {}
  BY <1>2, BootLabels DEF KernelInv, BootInv
<1>4. InService(32 + q, isr')
  <2>1. CASE q \in 0 .. 7
    <3>1. isr' = {q} /\ 32 + q \in 32 .. 39 /\ (32 + q) - 32 = q
      BY <1>2, <1>3, <2>1 DEF Line, Slave
    <3> QED
      BY <3>1 DEF InService
  <2>2. CASE q \in 8 .. 15
    <3>1. isr' = {2, q} /\ 32 + q \in 40 .. 47 /\ (32 + q) - 32 = q
      BY <1>2, <1>3, <2>2 DEF Line, Slave
    <3> QED
      BY <3>1 DEF InService
  <2> QED
    BY <1>1, <2>1, <2>2
<1> QED
  BY <1>1, <1>2, <1>3, <1>4, EnterIdle

LEMMA StepSpurious ==
  ASSUME KernelInv, NEW q \in {7, 15}, spurious(q)
  PROVE  KernelInv' /\ TP!Next
<1>1. 32 + q \in Vectors /\ (q = 7 => 32 + q = 39) /\ (q = 15 => 32 + q = 47)
  BY DEF Vectors
<1>2. /\ IF_flag /\ Enter(32 + q)
      /\ isr' = IF q \in Slave THEN isr \cup {Line(q)} ELSE isr
  BY DEF spurious
<1>3. IF_flag = TRUE /\ isr = {}
  BY <1>2, BootLabels DEF KernelInv, BootInv
<1>4. InService(32 + q, isr')
  <2>1. CASE q = 7
    BY <1>1, <1>2, <1>3, <2>1 DEF InService, Slave
  <2>2. CASE q = 15
    <3>1. isr' = {2}
      BY <1>2, <1>3, <2>2 DEF Slave, Line
    <3> QED
      BY <1>1, <2>2, <3>1 DEF InService
  <2> QED
    BY <2>1, <2>2
<1> QED
  BY <1>1, <1>2, <1>3, <1>4, EnterIdle
-----------------------------------------------------------------------------
(* What isr_common and isr_handler find in a frame. *)
LEMMA IrqWords ==
  ASSUME NEW v
  PROVE  /\ T!At(IrqFrame(v), 0) = MainRegs
         /\ T!At(IrqFrame(v), 1) = v
         /\ T!At(IrqFrame(v), 2) = "hlt"
         /\ T!At(IrqFrame(v), 3) = TRUE
         /\ T!Pop(IrqFrame(v), 4) = <<>>
<1>1. Len(IrqFrame(v)) = 4 /\ 4 - 0 = 4 /\ 4 - 1 = 3 /\ 4 - 2 = 2 /\ 4 - 3 = 1
  BY DEF IrqFrame
<1>2. /\ IrqFrame(v)[4] = MainRegs /\ IrqFrame(v)[3] = v
      /\ IrqFrame(v)[2] = "hlt" /\ IrqFrame(v)[1] = TRUE
  BY DEF IrqFrame
<1>3. SubSeq(IrqFrame(v), 1, 0) = <<>>
  BY DEF IrqFrame
<1>4. 4 - 4 = 0
  OBVIOUS
<1>5. T!Pop(IrqFrame(v), 4) = <<>>
  BY <1>1, <1>3, <1>4, Zenon DEF T!Pop
<1>6. /\ T!At(IrqFrame(v), 0) = MainRegs
      /\ T!At(IrqFrame(v), 1) = v
      /\ T!At(IrqFrame(v), 2) = "hlt"
      /\ T!At(IrqFrame(v), 3) = TRUE
  BY <1>1, <1>2, Zenon DEF T!At
<1> QED
  BY <1>5, <1>6

LEMMA FaultWords ==
  ASSUME NEW r
  PROVE  T!At(IrqFrame(33) \o FaultFrame(r), 1) = PageFault
<1> DEFINE W == {TRUE, "hlt", 33, MainRegs, FALSE, "keyboard_handler", PageFault, r}
           p == IrqFrame(33)
           q == FaultFrame(r)
<1>1. p \in Seq(W) /\ q \in Seq(W) /\ Len(p) = 4 /\ Len(q) = 4 /\ q[3] = PageFault
  BY DEF IrqFrame, FaultFrame
<1> HIDE DEF p, q, W
<1>2. Len(p \o q) = 8 /\ (p \o q)[7] = q[3]
  <2>1. Len(p \o q) = Len(p) + Len(q)
    BY <1>1, ConcatProperties
  <2>2. 7 \in 1 .. Len(p) + Len(q) /\ ~(7 <= Len(p))
    BY <1>1
  <2>3. (p \o q)[7] = q[7 - Len(p)]
    BY <1>1, <2>2, ConcatProperties
  <2>4. 7 - Len(p) = 3 /\ Len(p) + Len(q) = 8
    BY <1>1
  <2> QED
    BY <2>1, <2>3, <2>4, Zenon
<1>3. 8 - 1 = 7
  OBVIOUS
<1>4. T!At(p \o q, 1) = PageFault
  BY <1>1, <1>2, <1>3, Zenon DEF T!At
<1> QED
  BY <1>4 DEF p, q

LEMMA StepIsrReturn ==
  ASSUME KernelInv, isr_return
  PROVE  KernelInv' /\ TP!Next /\ eip' \notin Early
<1>1. eip = "isr_return" /\ eip \in KernelCode /\ Booted /\ isr = {}
  BY CodeIs DEF isr_return, KernelInv, HandlerInv
<1>2. PICK v \in Vectors : OnMain(IrqFrame(v))
  BY <1>1 DEF KernelInv, HandlerInv
<1>3. sp = 0 /\ 0 \in DOMAIN stack
  BY <1>2, WhoRuns DEF OnMain
<1>4. /\ regs' = MainRegs /\ eip' = "hlt" /\ IF_flag' = TRUE
      /\ stack' = [stack EXCEPT ![sp] = <<>>]
      /\ UNCHANGED <<current_task, next_pid, next, state, esp, sp, view, ran, isr>>
  <2>1. stack[sp] = IrqFrame(v)
    BY <1>2, <1>3 DEF OnMain
  <2>2. /\ regs' = T!At(IrqFrame(v), 0) /\ eip' = T!At(IrqFrame(v), 2)
        /\ IF_flag' = T!At(IrqFrame(v), 3)
        /\ stack' = [stack EXCEPT ![sp] = T!Pop(IrqFrame(v), 4)]
        /\ UNCHANGED <<current_task, next_pid, next, state, esp, sp, view, ran, isr>>
    BY <2>1 DEF isr_return, picVars
  <2> QED
    BY <2>2, IrqWords
<1>5. /\ TP!Next /\ TP!TasksInv' /\ stack' = [t \in TP!Pids |-> stack'[t]]
      /\ stack'[0] = <<>>
  BY <1>1, <1>3, <1>4, CodeIs, RegsOk, StacksOk, OwnCode
<1>6. Booted' /\ OnMain(<<>>)'
  BY <1>1, <1>2, <1>4, <1>5 DEF Booted, OnMain, AtLoop, InTick, Returning
<1>7. BootInv' /\ HandlerInv' /\ ThreadInv'
  BY <1>1, <1>4, <1>6 DEF BootInv, HandlerInv, ThreadInv, Returning
<1> QED
  BY <1>4, <1>5, <1>7 DEF KernelInv, Early

(* A jump within main's code, after which main still has s on its stack. *)
LEMMA MainGoto ==
  ASSUME KernelInv, eip \in KernelCode, eip # "hlt", Booted, NEW s, OnMain(s),
         NEW e \in HandlerCode, Goto(e, HandlerRegs), UNCHANGED IF_flag
  PROVE  /\ TP!Next /\ TP!TasksInv' /\ stack' = [t \in TP!Pids |-> stack'[t]]
         /\ Booted' /\ OnMain(s)' /\ eip' = e /\ regs' = HandlerRegs
         /\ IF_flag' = FALSE
<1>1. e \in KernelCode /\ HandlerRegs \in RegFiles /\ eip # "in task_yield"
      /\ e # "in task_yield"
  BY CodeIs, RegsOk DEF HandlerCode
<1>2. /\ TP!Next /\ TP!TasksInv' /\ stack' = [t \in TP!Pids |-> stack'[t]]
      /\ UNCHANGED <<current_task, next_pid, next, stack, sp, view>>
      /\ eip' = e /\ regs' = HandlerRegs
  BY <1>1, GotoStep
<1>3. Booted' /\ OnMain(s)'
  BY <1>1, <1>2 DEF Booted, OnMain, AtLoop, InTick, Returning
<1> QED
  BY <1>2, <1>3 DEF KernelInv

LEMMA StepIsrHandler ==
  ASSUME KernelInv, isr_handler
  PROVE  KernelInv' /\ TP!Next
<1>1. eip = "isr_handler" /\ eip \in KernelCode /\ eip # "hlt" /\ Booted
  BY CodeIs DEF isr_handler, KernelInv, HandlerInv
<1> DEFINE int_num == T!At(stack[sp], 1)
<1>2. CASE OnMain(IrqFrame(33) \o FaultFrame(HandlerRegs))
  <2>1. int_num = PageFault
    BY <1>2, WhoRuns, FaultWords DEF OnMain
  <2>2. int_num = 14
    BY <2>1 DEF PageFault
  <2>3. T!kernel_panic /\ IF_flag' = FALSE
    BY <2>2 DEF isr_handler
  <2>4. TP!kernel_panic
    BY <2>3, SamePanic
  <2>5. TP!Next
    BY <2>4 DEF TP!Next
  <2>6. TP!TasksInv'
    BY <2>5, TasksStepK DEF KernelInv
  <2>7. eip' = "halted" /\ stack' = stack
    BY <2>4 DEF TP!kernel_panic
  <2>8. BootInv' /\ HandlerInv' /\ ThreadInv'
    BY <2>7, BootLabels DEF BootInv, HandlerInv, ThreadInv, Returning
  <2> QED
    BY <2>3, <2>5, <2>6, <2>7, <2>8 DEF KernelInv
<1>3. ASSUME NEW v \in Vectors, OnMain(IrqFrame(v)), InService(v, isr)
      PROVE  KernelInv' /\ TP!Next
  <2>1. int_num = v /\ v \in 32 .. 47
    BY <1>3, WhoRuns, IrqWords DEF OnMain, Vectors
  <2>2. CASE v = 32
    <3>1. timer_handler
      BY <2>1, <2>2 DEF isr_handler
    <3>2. /\ Goto("timer_yield", HandlerRegs) /\ isr' = TickEoi(isr)
          /\ UNCHANGED IF_flag
      BY <3>1 DEF timer_handler
    <3>3. isr' = {}
      BY <1>3, <2>2, <3>2, EoiClears
    <3>4. /\ TP!Next /\ TP!TasksInv' /\ stack' = [t \in TP!Pids |-> stack'[t]]
          /\ Booted' /\ OnMain(IrqFrame(32))' /\ eip' = "timer_yield"
          /\ regs' = HandlerRegs /\ IF_flag' = FALSE
      BY <1>1, <1>3, <2>2, <3>2, MainGoto DEF HandlerCode
    <3>5. BootInv' /\ HandlerInv' /\ ThreadInv'
      BY <3>3, <3>4, BootLabels DEF BootInv, HandlerInv, ThreadInv, Returning
    <3> QED
      BY <3>4, <3>5 DEF KernelInv
  <2>3. CASE v = 33
    <3>1. /\ Goto("keyboard_handler", HandlerRegs) /\ isr' = isr
          /\ UNCHANGED IF_flag
      BY <2>1, <2>3 DEF isr_handler, picVars
    <3>2. isr' = {1}
      BY <1>3, <2>3, <3>1 DEF InService
    <3>3. /\ TP!Next /\ TP!TasksInv' /\ stack' = [t \in TP!Pids |-> stack'[t]]
          /\ Booted' /\ OnMain(IrqFrame(33))' /\ eip' = "keyboard_handler"
          /\ regs' = HandlerRegs /\ IF_flag' = FALSE
      BY <1>1, <1>3, <2>3, <3>1, MainGoto DEF HandlerCode
    <3>4. BootInv' /\ HandlerInv' /\ ThreadInv'
      BY <3>2, <3>3, BootLabels DEF BootInv, HandlerInv, ThreadInv, Returning
    <3> QED
      BY <3>3, <3>4 DEF KernelInv
  <2>4. CASE v > 33
    <3>1. /\ Goto("isr_return", HandlerRegs) /\ isr' = EndOfInterrupt(v, isr)
          /\ UNCHANGED IF_flag
      BY <2>1, <2>4 DEF isr_handler
    <3>2. isr' = {}
      BY <1>3, <3>1, EoiClears
    <3>3. /\ TP!Next /\ TP!TasksInv' /\ stack' = [t \in TP!Pids |-> stack'[t]]
          /\ Booted' /\ OnMain(IrqFrame(v))' /\ eip' = "isr_return"
          /\ regs' = HandlerRegs /\ IF_flag' = FALSE
      BY <1>1, <1>3, <3>1, MainGoto DEF HandlerCode
    <3>4. BootInv' /\ HandlerInv' /\ ThreadInv'
      BY <3>2, <3>3, BootLabels DEF BootInv, HandlerInv, ThreadInv, Returning
    <3> QED
      BY <3>3, <3>4 DEF KernelInv
  <2> QED
    BY <2>1, <2>2, <2>3, <2>4
<1> QED
  BY <1>1, <1>2, <1>3 DEF KernelInv, HandlerInv

LEMMA StepKeyboard ==
  ASSUME KernelInv, keyboard_handler
  PROVE  KernelInv' /\ TP!Next
<1>1. /\ eip = "keyboard_handler" /\ eip \in KernelCode /\ eip # "hlt" /\ Booted
      /\ OnMain(IrqFrame(33)) /\ isr = {1} /\ regs = HandlerRegs
  BY CodeIs DEF keyboard_handler, KernelInv, HandlerInv
<1>2. CASE /\ isr' = EndOfInterrupt(33, isr)
           /\ Goto("isr_return", HandlerRegs) /\ UNCHANGED IF_flag
  <2>1. 33 \in Vectors /\ InService(33, isr)
    BY <1>1 DEF Vectors, InService
  <2>2. isr' = {}
    BY <1>2, <2>1, EoiClears
  <2>3. /\ TP!Next /\ TP!TasksInv' /\ stack' = [t \in TP!Pids |-> stack'[t]]
        /\ Booted' /\ OnMain(IrqFrame(33))' /\ eip' = "isr_return"
        /\ regs' = HandlerRegs /\ IF_flag' = FALSE
    BY <1>1, <1>2, MainGoto DEF HandlerCode
  <2>4. BootInv' /\ HandlerInv' /\ ThreadInv'
    BY <2>1, <2>2, <2>3, BootLabels DEF BootInv, HandlerInv, ThreadInv, Returning
  <2> QED
    BY <2>3, <2>4 DEF KernelInv
<1>3. CASE Enter(PageFault)
  <2>1. IF_flag = FALSE
    BY <1>1 DEF KernelInv
  <2>2. stack[0] \o <<IF_flag, eip, PageFault, regs>>
          = IrqFrame(33) \o FaultFrame(HandlerRegs)
    BY <1>1, <2>1, Zenon DEF OnMain, FaultFrame
  <2>3. IrqFrame(33) \o FaultFrame(HandlerRegs) \in KernelStacks
    BY RegsOk DEF KernelStacks
  <2>4. /\ TP!Next /\ TP!TasksInv'
        /\ stack' = [t \in TP!Pids |-> stack'[t]]
        /\ stack'[0] = IrqFrame(33) \o FaultFrame(HandlerRegs)
        /\ eip' = "isr_handler" /\ IF_flag' = FALSE
        /\ UNCHANGED <<current_task, next_pid, next, view, regs>>
    BY <1>1, <1>3, <2>2, <2>3, EnterStep DEF OnMain
  <2>5. Booted' /\ OnMain(IrqFrame(33) \o FaultFrame(HandlerRegs))'
    BY <1>1, <2>4 DEF Booted, OnMain, AtLoop, InTick, Returning
  <2>6. BootInv' /\ HandlerInv' /\ ThreadInv'
    BY <2>4, <2>5, BootLabels DEF BootInv, HandlerInv, ThreadInv, Returning
  <2> QED
    BY <2>4, <2>6 DEF KernelInv
<1> QED
  BY <1>2, <1>3 DEF keyboard_handler
-----------------------------------------------------------------------------
(* The hand-over from t, which will return to ret, to n, which waited. *)
HandedOver(t, n, ret) ==
  /\ TP!Next /\ TP!TasksInv' /\ stack' = [x \in TP!Pids |-> stack'[x]]
  /\ current_task' = n /\ UNCHANGED <<next_pid, next>>
  /\ view'[t].eip = ret /\ view'[t].regs = regs /\ view'[t].stack = stack[t]
  /\ \A x \in 0 .. 2 : x # t => view'[x] = view[x]
  /\ \/ eip' = "in task_yield"
     \/ /\ eip' = view[n].eip /\ regs' = view[n].regs
        /\ stack'[n] = view[n].stack

LEMMA Handover ==
  ASSUME KernelInv, eip \in KernelCode, Booted, NEW t \in 0 .. 2, NEW n \in 0 .. 2,
         current_task = t, next[t] = n, n # t,
         NEW ret \in KernelCode, T!task_yield(ret)
  PROVE  HandedOver(t, n, ret)
<1>1. TP!task_yield(ret) /\ TP!TasksInv
  BY SameYield DEF KernelInv
<1>2. TP!Next
  BY <1>1 DEF TP!Next
<1>3. TP!TasksInv'
  BY <1>1, <1>2, TasksStepK
<1>4. ~TP!Alone
  BY WhoRuns DEF TP!Alone
<1>5. TP!SwitchedTo(current_task, next[current_task], ret)
  BY <1>1, <1>4, SwitchFactsK
<1>6. TP!SwitchedTo(t, n, ret)
  BY <1>5
<1>7. stack' = [x \in TP!Pids |-> stack'[x]]
  <2>1. \E m, a, b : stack' = [m EXCEPT ![a] = b]
    <3>1. ASSUME NEW called, TP!context_switch(called)
          PROVE  \E m, a, b : stack' = [m EXCEPT ![a] = b]
      BY <3>1, Zenon DEF TP!context_switch
    <3> QED
      BY <1>1, <1>4, <3>1, Zenon DEF TP!task_yield
  <2>2. DOMAIN stack' = TP!Pids
    BY <1>6 DEF TP!SwitchedTo
  <2>3. stack' = [x \in DOMAIN stack' |-> stack'[x]]
    BY <2>1
  <2> QED
    BY <2>2, <2>3, Zenon
<1>8. /\ current_task' = n /\ UNCHANGED <<next_pid, next>> /\ n \in TP!Linked
      /\ view' = [view EXCEPT ![t] = [eip |-> ret, regs |-> regs, stack |-> stack[t]]]
      /\ regs' = TP!Popped(stack[n]) /\ eip' = TP!At(stack[n], 4)
      /\ stack'[n] = TP!Pop(stack[n], 5)
  BY <1>6, Zenon DEF TP!SwitchedTo
<1>9. DOMAIN view = 0 .. 2
  BY WhoRuns DEF KernelInv, TP!TasksInv, TP!TypeOK
<1>10. /\ view'[t].eip = ret /\ view'[t].regs = regs /\ view'[t].stack = stack[t]
       /\ \A x \in 0 .. 2 : x # t => view'[x] = view[x]
  BY <1>8, <1>9
<1>11. /\ TP!Popped(stack[n]) = view[n].regs
       /\ \/ /\ TP!At(stack[n], 4) = view[n].eip
             /\ TP!Pop(stack[n], 5) = view[n].stack
          \/ TP!At(stack[n], 4) = "in task_yield"
  <2>1. n \in TP!Linked \ {current_task}
    BY <1>8
  <2> QED
    BY <1>1, <2>1, Zenon DEF TP!TasksInv, TP!ContextSaved
<1> QED
  BY <1>2, <1>3, <1>7, <1>8, <1>10, <1>11, Zenon DEF HandedOver

LEMMA StepTimerYield ==
  ASSUME KernelInv, timer_yield
  PROVE  KernelInv' /\ TP!Next /\ eip' \notin Early
<1>1. /\ eip = "timer_yield" /\ eip \in KernelCode /\ Booted
      /\ current_task = 0 /\ stack[0] = IrqFrame(32) /\ isr = {}
      /\ regs = HandlerRegs /\ "isr_return" \in KernelCode
  BY CodeIs DEF timer_yield, KernelInv, HandlerInv, OnMain
<1>2. T!task_yield("isr_return") /\ UNCHANGED <<isr, IF_flag>>
  BY DEF timer_yield, picVars
<1>3. next[0] = 2 /\ 0 \in 0 .. 2 /\ 2 \in 0 .. 2
  BY <1>1 DEF Booted
<1>4. /\ TP!Next /\ TP!TasksInv' /\ stack' = [x \in TP!Pids |-> stack'[x]]
      /\ current_task' = 2 /\ UNCHANGED <<next_pid, next>>
      /\ view'[0].eip = "isr_return" /\ view'[0].regs = regs
      /\ view'[0].stack = stack[0]
      /\ view'[1] = view[1] /\ view'[2] = view[2]
      /\ \/ eip' = "in task_yield"
         \/ eip' = view[2].eip /\ stack'[2] = view[2].stack
  <2>1. HandedOver(0, 2, "isr_return")
    BY <1>1, <1>2, <1>3, Handover
  <2>2. 1 \in 0 .. 2 /\ 2 \in 0 .. 2 /\ 1 # 0 /\ 2 # 0
    OBVIOUS
  <2> QED
    BY <2>1, <2>2, Zenon DEF HandedOver
<1>5. AtLoop(1, "thread_a") /\ AtLoop(2, "thread_b")
  BY <1>1 DEF Booted
<1>6. Booted' /\ eip' \in {"in task_yield", "thread_b"}
      /\ (eip' = "thread_b" => stack'[2] = <<>>)
  BY <1>1, <1>4, <1>5 DEF Booted, AtLoop, InTick
<1>7. BootInv' /\ HandlerInv' /\ ThreadInv'
  BY <1>1, <1>2, <1>4, <1>6, BootLabels DEF BootInv, HandlerInv, ThreadInv, Returning
<1> QED
  BY <1>1, <1>2, <1>4, <1>6, <1>7 DEF KernelInv, Early

LEMMA StepThreadB ==
  ASSUME KernelInv, thread_b
  PROVE  KernelInv' /\ TP!Next /\ eip' \notin Early
<1>1. /\ eip \in {"thread_b", "thread_b_yield"} /\ eip \in KernelCode /\ Booted
      /\ current_task = 2 /\ stack[2] = <<>> /\ isr = {}
      /\ {"thread_b", "thread_b_yield"} \subseteq KernelCode /\ ThreadBRegs \in RegFiles
  BY CodeIs, RegsOk DEF thread_b, KernelInv, ThreadInv
<1>2. CASE /\ eip = "thread_b" /\ Goto("thread_b_yield", ThreadBRegs)
           /\ UNCHANGED <<isr, IF_flag>>
  <2>1. /\ TP!Next /\ TP!TasksInv' /\ stack' = [t \in TP!Pids |-> stack'[t]]
        /\ UNCHANGED <<current_task, next_pid, next, stack, sp, view>>
        /\ eip' = "thread_b_yield"
    BY <1>1, <1>2, GotoStep
  <2>2. Booted'
    BY <1>1, <2>1 DEF Booted, AtLoop, InTick, Returning
  <2>3. BootInv' /\ HandlerInv' /\ ThreadInv'
    BY <1>1, <1>2, <2>1, <2>2, BootLabels DEF BootInv, HandlerInv, ThreadInv, Returning
  <2> QED
    BY <1>2, <2>1, <2>3 DEF KernelInv, Early
<1>3. CASE /\ eip = "thread_b_yield" /\ T!task_yield("thread_b")
           /\ UNCHANGED <<isr, IF_flag>>
  <2>1. next[2] = 1 /\ 1 \in 0 .. 2 /\ 2 \in 0 .. 2
    BY <1>1 DEF Booted
  <2>2. /\ TP!Next /\ TP!TasksInv' /\ stack' = [x \in TP!Pids |-> stack'[x]]
        /\ current_task' = 1 /\ UNCHANGED <<next_pid, next>>
        /\ view'[2].eip = "thread_b" /\ view'[2].stack = stack[2]
        /\ view'[1] = view[1] /\ view'[0] = view[0]
        /\ \/ eip' = "in task_yield"
           \/ eip' = view[1].eip /\ stack'[1] = view[1].stack
    <3>1. HandedOver(2, 1, "thread_b")
      BY <1>1, <1>3, <2>1, Handover
    <3>2. 1 \in 0 .. 2 /\ 0 \in 0 .. 2 /\ 1 # 2 /\ 0 # 2
      OBVIOUS
    <3> QED
      BY <3>1, <3>2, Zenon DEF HandedOver
  <2>3. AtLoop(1, "thread_a") /\ InTick
    BY <1>1 DEF Booted
  <2>4. Booted' /\ eip' \in {"in task_yield", "thread_a"}
        /\ (eip' = "thread_a" => stack'[1] = <<>>)
    BY <1>1, <2>2, <2>3 DEF Booted, AtLoop, InTick
  <2>5. BootInv' /\ HandlerInv' /\ ThreadInv'
    BY <1>1, <1>3, <2>2, <2>4, BootLabels DEF BootInv, HandlerInv, ThreadInv, Returning
  <2> QED
    BY <1>3, <2>2, <2>4, <2>5 DEF KernelInv, Early
<1> QED
  BY <1>2, <1>3 DEF thread_b, picVars

LEMMA StepThreadA ==
  ASSUME KernelInv, thread_a
  PROVE  KernelInv' /\ TP!Next /\ eip' \notin Early
<1>1. /\ eip \in {"thread_a", "thread_a_yield"} /\ eip \in KernelCode /\ Booted
      /\ current_task = 1 /\ stack[1] = <<>> /\ isr = {}
      /\ {"thread_a", "thread_a_yield"} \subseteq KernelCode /\ ThreadARegs \in RegFiles
  BY CodeIs, RegsOk DEF thread_a, KernelInv, ThreadInv
<1>2. CASE /\ eip = "thread_a" /\ Goto("thread_a_yield", ThreadARegs)
           /\ UNCHANGED <<isr, IF_flag>>
  <2>1. /\ TP!Next /\ TP!TasksInv' /\ stack' = [t \in TP!Pids |-> stack'[t]]
        /\ UNCHANGED <<current_task, next_pid, next, stack, sp, view>>
        /\ eip' = "thread_a_yield"
    BY <1>1, <1>2, GotoStep
  <2>2. Booted'
    BY <1>1, <2>1 DEF Booted, AtLoop, InTick, Returning
  <2>3. BootInv' /\ HandlerInv' /\ ThreadInv'
    BY <1>1, <1>2, <2>1, <2>2, BootLabels DEF BootInv, HandlerInv, ThreadInv, Returning
  <2> QED
    BY <1>2, <2>1, <2>3 DEF KernelInv, Early
<1>3. CASE /\ eip = "thread_a_yield" /\ T!task_yield("thread_a")
           /\ UNCHANGED <<isr, IF_flag>>
  <2>1. next[1] = 0 /\ 1 \in 0 .. 2 /\ 0 \in 0 .. 2
    BY <1>1 DEF Booted
  <2>2. /\ TP!Next /\ TP!TasksInv' /\ stack' = [x \in TP!Pids |-> stack'[x]]
        /\ current_task' = 0 /\ UNCHANGED <<next_pid, next>>
        /\ view'[1].eip = "thread_a" /\ view'[1].stack = stack[1]
        /\ view'[2] = view[2] /\ view'[0] = view[0]
        /\ \/ eip' = "in task_yield"
           \/ eip' = view[0].eip /\ stack'[0] = view[0].stack
    <3>1. HandedOver(1, 0, "thread_a")
      BY <1>1, <1>3, <2>1, Handover
    <3>2. 0 \in 0 .. 2 /\ 2 \in 0 .. 2 /\ 0 # 1 /\ 2 # 1
      OBVIOUS
    <3> QED
      BY <3>1, <3>2, Zenon DEF HandedOver
  <2>3. AtLoop(2, "thread_b") /\ InTick /\ 32 \in Vectors
    BY <1>1 DEF Booted, Vectors
  <2>4. Booted' /\ eip' \in {"in task_yield", "isr_return"}
        /\ (eip' = "isr_return" => OnMain(IrqFrame(32))')
    BY <1>1, <2>2, <2>3 DEF Booted, AtLoop, InTick, OnMain
  <2>5. BootInv' /\ HandlerInv' /\ ThreadInv'
    BY <1>1, <1>3, <2>2, <2>3, <2>4, BootLabels
       DEF BootInv, HandlerInv, ThreadInv, Returning
  <2> QED
    BY <1>3, <2>2, <2>4, <2>5 DEF KernelInv, Early
<1> QED
  BY <1>2, <1>3 DEF thread_a, picVars

LEMMA StepResume ==
  ASSUME KernelInv, resume
  PROVE  KernelInv' /\ TP!Next /\ eip' \notin Early
<1>1. TP!task_yield_return /\ UNCHANGED <<isr, IF_flag>>
  BY SameReturn DEF resume, picVars
<1>2. TP!Next
  BY <1>1 DEF TP!Next
<1>3. TP!TasksInv'
  BY <1>2, TasksStepK DEF KernelInv
<1>4. eip = "in task_yield" /\ Returning /\ Booted /\ isr = {}
  BY <1>1 DEF TP!task_yield_return, KernelInv, ThreadInv, Returning
<1>5. /\ current_task # NULL /\ current_task \in 0 .. 2 /\ sp = current_task
      /\ DOMAIN stack = 0 .. 2 /\ TP!Pids = 0 .. 2
      /\ TP!At(stack[sp], 2) = view[current_task].eip
      /\ TP!Pop(stack[sp], 3) = view[current_task].stack
      /\ view[current_task].regs = regs
  BY <1>4, WhoRuns DEF KernelInv, TP!TasksInv, TP!ResumeInv
<1>6. /\ eip' = view[current_task].eip
      /\ stack' = [stack EXCEPT ![current_task] = view[current_task].stack]
      /\ UNCHANGED <<current_task, next_pid, next, regs, view>>
  BY <1>1, <1>5 DEF TP!task_yield_return, TP!structs
<1>7. stack'[current_task] = view[current_task].stack
      /\ stack' = [t \in TP!Pids |-> stack'[t]]
  BY <1>5, <1>6
<1>8. AtLoop(1, "thread_a") /\ AtLoop(2, "thread_b") /\ InTick /\ 32 \in Vectors
  <2>1. AtLoop(1, "thread_a") /\ AtLoop(2, "thread_b") /\ InTick
    BY <1>4 DEF Booted
  <2> QED
    BY <2>1 DEF Vectors
<1>9. /\ Booted' /\ eip' \in {"thread_a", "thread_b", "isr_return"}
      /\ eip' = "thread_a" => current_task' = 1 /\ stack'[1] = <<>>
      /\ eip' = "thread_b" => current_task' = 2 /\ stack'[2] = <<>>
      /\ eip' = "isr_return" => OnMain(IrqFrame(32))'
  <2>1. CASE current_task = 0
    BY <1>4, <1>6, <1>7, <1>8, <2>1 DEF Booted, AtLoop, InTick, OnMain
  <2>2. CASE current_task = 1
    BY <1>4, <1>6, <1>7, <1>8, <2>2 DEF Booted, AtLoop, InTick, OnMain
  <2>3. CASE current_task = 2
    BY <1>4, <1>6, <1>7, <1>8, <2>3 DEF Booted, AtLoop, InTick, OnMain
  <2> QED
    BY <1>5, <2>1, <2>2, <2>3
<1>10. BootInv' /\ HandlerInv' /\ ThreadInv'
  BY <1>1, <1>4, <1>8, <1>9, BootLabels DEF BootInv, HandlerInv, ThreadInv, Returning
<1> QED
  BY <1>1, <1>2, <1>3, <1>4, <1>7, <1>9, <1>10 DEF KernelInv, Early
(* A step that leaves everything but the requests and the clock alone. *)
LEMMA StepAside ==
  ASSUME KernelInv, UNCHANGED <<taskVars, isr, IF_flag>>
  PROVE  KernelInv' /\ UNCHANGED TP!vars
<1>1. UNCHANGED TP!vars
  BY DEF taskVars, TP!vars, TP!structs
<1>2. TP!TasksInv'
  <2>1. TP!TasksInv /\ [TP!Next]_(TP!vars) => TP!TasksInv'
    BY PidsOk, CodeOk, StacksOk, TP!TasksStep
  <2> QED
    BY <1>1, <2>1 DEF KernelInv
<1>3. BootInv' /\ HandlerInv' /\ ThreadInv'
  <2>1. UNCHANGED <<current_task, next_pid, next, stack, eip, regs, view, isr>>
    BY DEF taskVars
  <2>2. Booted' <=> Booted
    BY <2>1 DEF Booted, AtLoop, InTick, Returning
  <2>3. \A s : OnMain(s)' <=> OnMain(s)
    BY <2>1 DEF OnMain
  <2>4. BootInv'
    BY <2>1, <2>2, <2>3, BootLabels DEF KernelInv, BootInv, AtLoop
  <2>5. HandlerInv'
    BY <2>1, <2>2, <2>3 DEF KernelInv, HandlerInv
  <2>6. ThreadInv'
    BY <2>1, <2>2 DEF KernelInv, ThreadInv, Returning
  <2> QED
    BY <2>4, <2>5, <2>6
<1> QED
  BY <1>1, <1>2, <1>3 DEF KernelInv, taskVars

LEMMA KernelStep ==
  ASSUME KernelInv, [Next]_vars
  PROVE  KernelInv' /\ (TP!Next \/ UNCHANGED TP!vars)
<1>1. CASE UNCHANGED vars
  BY <1>1, StepAside DEF vars, picVars
<1>2. ASSUME NEW q \in Devices, raise(q)
      PROVE  KernelInv' /\ UNCHANGED TP!vars
  BY <1>2, StepAside DEF raise
<1>3. CASE start_tasks
  <2>1. UNCHANGED <<isr, IF_flag>>
    BY <1>3 DEF start_tasks, picVars
  <2>2. CASE eip = "task_init" /\ T!task_init(AfterBoot(eip))
    BY <2>1, <2>2, AfterBootIs, StepTaskInit
  <2>3. CASE eip = "create_a" /\ T!task_create("thread_a", AfterBoot(eip))
    BY <2>1, <2>3, AfterBootIs, StepCreateA
  <2>4. CASE eip = "create_b" /\ T!task_create("thread_b", AfterBoot(eip))
    BY <2>1, <2>4, AfterBootIs, StepCreateB
  <2> QED
    BY <1>3, <2>2, <2>3, <2>4 DEF start_tasks
<1>4. CASE Execute
  BY <1>3, <1>4, StepIdtInit, StepTimerInit, StepSti, StepIsrHandler,
    StepTimerYield, StepKeyboard, StepIsrReturn, StepThreadA, StepThreadB,
    StepResume DEF Execute
<1> QED
  BY <1>1, <1>2, <1>4, StepInterrupt, StepSpurious DEF Next

-----------------------------------------------------------------------------
(* Whenever the CPU accepts interrupts, kernel_main sits in its hlt loop   *)
(* with an empty stack, its own registers and nothing in service, whatever *)
(* interrupts, spurious ones and page faults came before, on whatever      *)
(* lines.                                                                  *)
THEOREM KernelIdleIsClean == Spec => []IdleIsClean
<1>1. KernelInv => IdleIsClean
  <2> SUFFICES ASSUME KernelInv, IF_flag
               PROVE  /\ current_task = 0 /\ sp = 0
                      /\ eip = "hlt"
                      /\ regs = MainRegs
                      /\ stack[0] = <<>>
                      /\ isr = {}
    BY DEF IdleIsClean
  <2>1. eip = "hlt"
    BY DEF KernelInv
  <2>2. OnMain(<<>>) /\ regs = MainRegs /\ isr = {}
    BY <2>1, BootLabels DEF KernelInv, BootInv
  <2>3. sp = 0
    BY <2>2, WhoRuns DEF OnMain
  <2> QED
    BY <2>1, <2>2, <2>3 DEF OnMain
<1>2. KernelInv /\ [Next]_vars => KernelInv'
  BY KernelStep
<1> QED
  BY <1>1, <1>2, KernelInit, PTL DEF Spec

(* The safety part of ImplementsTasks: kernel_main, the interrupt path and *)
(* the threads use task.c only in ways that Tasks.tla describes.           *)
THEOREM KernelRefinesTasks == Spec => T!Spec
<1>1. Init => T!Init
  BY DEF Init
<1>2. KernelInv /\ [Next]_vars => KernelInv'
  BY KernelStep
<1>3. KernelInv /\ [Next]_vars => [T!Next]_(T!vars)
  <2> SUFFICES ASSUME KernelInv, [Next]_vars
               PROVE  T!Next \/ T!vars' = T!vars
    OBVIOUS
  <2>1. TP!Next \/ UNCHANGED TP!vars
    BY KernelStep
  <2>2. CASE TP!Next
    BY <2>2, SameNext
  <2>3. CASE UNCHANGED TP!vars
    BY <2>3 DEF TP!vars, TP!structs, T!vars, T!structs
  <2> QED
    BY <2>1, <2>2, <2>3
<1> QED
  BY <1>1, <1>2, <1>3, KernelInit, PTL DEF Spec, T!Spec

-----------------------------------------------------------------------------
(* The clock: from timer_init on, elapsed is the remainder of ticks. *)
ClockInv ==
  /\ ticks \in Nat /\ ticks < Word
  /\ \/ eip \in Early /\ ticks = 0 /\ elapsed = 0
     \/ /\ eip \notin Early
        /\ hz = frequency
        /\ elapsed = ticks % hz

LEMMA RemainderIs ==
  ASSUME NEW q \in Nat, NEW r \in Nat, NEW h \in Nat, r < h
  PROVE  (q * h + r) % h = r
OBVIOUS

LEMMA NextRemainder ==
  ASSUME NEW t \in Nat, NEW h \in Nat, h > 0
  PROVE  /\ t % h \in Nat
         /\ (t + 1) % h = 0 => (t % h) + 1 = h
         /\ (t + 1) % h # 0 => (t + 1) % h = (t % h) + 1
<1> DEFINE q == t \div h
           r == t % h
<1>1. q \in Nat /\ r \in Nat /\ r < h /\ q * h + r = t
  BY DivProps
<1> HIDE DEF q, r
<1>2. CASE r + 1 < h
  <2>0. r + 1 \in Nat
    BY <1>1
  <2>1. (q * h + (r + 1)) % h = r + 1
    BY <1>1, <1>2, <2>0, RemainderIs
  <2>2. q * h + (r + 1) = t + 1
    <3>1. q * h \in Nat
      BY <1>1
    <3> QED
      BY <1>1, <3>1
  <2>3. (t + 1) % h = r + 1
    BY <2>1, <2>2, Zenon
  <2> QED
    BY <1>1, <2>3 DEF r
<1>3. CASE r + 1 = h
  <2>1. ((q + 1) * h + 0) % h = 0
    BY <1>1, RemainderIs
  <2>2. (q + 1) * h + 0 = t + 1
    <3>1. q * h \in Nat /\ (q + 1) * h = q * h + h
      BY <1>1
    <3> QED
      BY <1>1, <1>3, <3>1
  <2>3. (t + 1) % h = 0
    BY <2>1, <2>2, Zenon
  <2> QED
    BY <1>1, <1>3, <2>3 DEF r
<1> QED
  BY <1>1, <1>2, <1>3

LEMMA IncIs ==
  ASSUME NEW t \in Nat, t < Word
  PROVE  Inc(t, 1) = IF t + 1 < Word THEN t + 1 ELSE 0
<1>1. Word \in Nat /\ Word > 0
  BY KernelAssumption
<1>2. CASE t + 1 < Word
  <2>1. (t + 1) % Word = t + 1
    BY <1>1, <1>2, DivProps
  <2> QED
    BY <1>2, <2>1 DEF Inc
<1>3. CASE t + 1 = Word
  <2>1. Word % Word = 0
    BY <1>1
  <2> QED
    BY <1>3, <2>1 DEF Inc
<1> QED
  BY <1>1, <1>2, <1>3

(* The tick: the only step that touches the clock. *)
LEMMA TickStep ==
  ASSUME ClockInv, eip = "isr_handler", timer_handler
  PROVE  /\ ClockInv'
         /\ seconds' # seconds => elapsed + 1 = hz \/ ticks' < elapsed + 1
<1>1. /\ hz \in Nat /\ hz > 0 /\ Word \in Nat /\ Word > 0
      /\ ticks \in Nat /\ ticks < Word /\ hz = frequency
      /\ elapsed = ticks % hz
  BY KernelAssumption DEF ClockInv, Early
<1>2. /\ ticks' = Inc(ticks, 1) /\ eip' = "timer_yield" /\ hz' = hz
      /\ IF ticks' % hz = 0
         THEN elapsed' = 0
         ELSE elapsed' = elapsed + 1 /\ UNCHANGED seconds
  BY DEF timer_handler, SecondIsOver, Goto, Early
<1>3. elapsed \in Nat
  BY <1>1, NextRemainder
<1>4. 0 % hz = 0
  BY <1>1
<1>5. CASE ticks + 1 < Word
  <2>1. ticks' = ticks + 1
    BY <1>1, <1>2, <1>5, IncIs
  <2>2. /\ ticks' % hz = 0 => elapsed + 1 = hz
        /\ ticks' % hz # 0 => ticks' % hz = elapsed + 1
    BY <1>1, <2>1, NextRemainder
  <2> QED
    BY <1>1, <1>2, <1>5, <2>1, <2>2 DEF ClockInv, Early
<1>6. CASE ~(ticks + 1 < Word)
  <2>1. ticks' = 0
    BY <1>1, <1>2, <1>6, IncIs
  <2>2. ticks' % hz = 0 /\ ticks' < elapsed + 1
    BY <1>3, <1>4, <2>1
  <2> QED
    BY <1>1, <1>2, <2>1, <2>2 DEF ClockInv, Early
<1> QED
  BY <1>5, <1>6

LEMMA ClockInit == Init => ClockInv
BY KernelAssumption DEF Init, ClockInv, Early

LEMMA ClockStep ==
  ASSUME KernelInv, ClockInv, [Next]_vars
  PROVE  /\ ClockInv'
         /\ seconds' # seconds => elapsed + 1 = hz \/ ticks' < elapsed + 1
<1>1. CASE isr_handler /\ timer_handler
  BY <1>1, TickStep DEF isr_handler
<1>2. CASE timer_init
  <2>1. /\ eip = "timer_init" /\ eip' = "task_init" /\ hz' = frequency
        /\ UNCHANGED <<ticks, seconds, elapsed>>
    BY <1>2, AfterBootIs DEF timer_init, Goto
  <2>2. 0 % frequency = 0
    BY KernelAssumption
  <2> QED
    BY <2>1, <2>2 DEF ClockInv, Early
<1>3. CASE UNCHANGED timerVars /\ (eip' \in Early <=> eip \in Early)
  BY <1>3 DEF ClockInv, timerVars
<1>4. CASE idt_init
  BY <1>3, <1>4, AfterBootIs DEF idt_init, Goto, Early
<1>5. CASE UNCHANGED vars
  BY <1>3, <1>5 DEF vars, taskVars
<1>6. ASSUME NEW q, raise(q)
      PROVE  UNCHANGED timerVars /\ UNCHANGED eip
  BY <1>6 DEF raise, taskVars
<1>7. ASSUME NEW v, Enter(v)
      PROVE  UNCHANGED timerVars /\ eip' \notin Early
  BY <1>7 DEF Enter, Early
<1>8. IF_flag => eip \notin Early
  BY DEF KernelInv, Early
<1>9. ASSUME NEW q, interrupt(q) \/ spurious(q)
      PROVE  UNCHANGED timerVars /\ eip' \notin Early /\ eip \notin Early
  BY <1>7, <1>8, <1>9 DEF interrupt, spurious
<1>10. CASE start_tasks
  <2>1. UNCHANGED timerVars /\ eip \notin Early
    BY <1>10 DEF start_tasks, Early
  <2>2. eip' \notin Early
    BY <1>10, AfterBootIs DEF start_tasks, Early, T!task_init, T!task_create
  <2> QED
    BY <1>3, <2>1, <2>2
<1>11. CASE sti
  BY <1>3, <1>11, AfterBootIs DEF sti, Goto, Early
<1>12. CASE isr_handler /\ ~timer_handler
  BY <1>3, <1>12 DEF isr_handler, Goto, Early, T!kernel_panic
<1>13. CASE keyboard_handler
  BY <1>3, <1>7, <1>13 DEF keyboard_handler, Goto, Early
<1>14. CASE timer_yield \/ isr_return \/ thread_a \/ thread_b \/ resume
  <2>1. eip' \notin Early
    BY <1>14, StepTimerYield, StepIsrReturn, StepThreadA, StepThreadB, StepResume
  <2>2. UNCHANGED timerVars /\ eip \notin Early
    BY <1>14 DEF timer_yield, isr_return, thread_a, thread_b, resume, Early,
      T!task_yield_return
  <2> QED
    BY <1>3, <2>1, <2>2
<1> QED
  BY <1>1, <1>2, <1>3, <1>4, <1>5, <1>6, <1>9, <1>10, <1>11, <1>12, <1>13, <1>14
     DEF Next, Execute

(* seconds advances after exactly hz ticks, for every tick rate and every  *)
(* width of the counter; only the second in which ticks wraps may be       *)
(* shorter.                                                                *)
THEOREM KernelSecondTakesHzTicks == Spec => SecondTakesHzTicks
<1>1. KernelInv /\ [Next]_vars => KernelInv'
  BY KernelStep
<1>2. KernelInv /\ ClockInv /\ [Next]_vars => ClockInv'
  BY ClockStep
<1>3. KernelInv /\ ClockInv /\ [Next]_vars
        => [seconds' # seconds => elapsed + 1 = hz \/ ticks' < elapsed + 1]_vars
  BY ClockStep
<1> QED
  BY <1>1, <1>2, <1>3, KernelInit, ClockInit, PTL DEF Spec, SecondTakesHzTicks

-----------------------------------------------------------------------------
(* What Tasks.tla promises its callers holds of the kernel's tasks: main,  *)
(* interrupted in its loop and switched out inside the timer interrupt,    *)
(* and both threads resume with the registers, address and stack of their  *)
(* last yield, and take turns.                                             *)
THEOREM KernelTasksSound == Spec => T!ContextRestored /\ T!RoundRobin
<1>1. TP!Spec => TP!ContextRestored
  BY PidsOk, CodeOk, StacksOk, TP!TasksContextRestored
<1>2. TP!Spec => TP!RoundRobin
  BY PidsOk, CodeOk, StacksOk, TP!TasksRoundRobin
<1>3. [T!Next]_(T!vars) <=> [TP!Next]_(TP!vars)
  BY SameNext, SameVars DEF TP!vars, TP!structs, T!vars, T!structs
<1>4. T!Spec <=> TP!Spec
  BY <1>3, SameInit, PTL DEF T!Spec, TP!Spec
<1>5. TP!RoundRobin <=> T!RoundRobin
  <2>1. [current_task' # current_task /\ current_task # NULL =>
          \A t \in TP!Linked \ {current_task'} : current_task' \notin ran[t]]_(TP!vars)
        <=>
        [current_task' # current_task /\ current_task # NULL =>
          \A t \in T!Linked \ {current_task'} : current_task' \notin ran[t]]_(T!vars)
    BY DEF TP!Linked, T!Linked, TP!Pids, T!Pids, TP!vars, TP!structs, T!vars, T!structs
  <2> QED
    BY <2>1, PTL DEF TP!RoundRobin, T!RoundRobin
<1>6. TP!ContextRestored <=> T!ContextRestored
  <2> DEFINE Back == /\ eip' = view[current_task'].eip
                     /\ regs' = view[current_task'].regs
                     /\ stack'[sp'] = view[current_task'].stack
  <2>1. [(~TP!Running \/ current_task' # current_task) /\ TP!Running' /\ current_task # NULL
           => Back]_(TP!vars)
        <=>
        [(~T!Running \/ current_task' # current_task) /\ T!Running' /\ current_task # NULL
           => Back]_(T!vars)
    BY DEF TP!Running, T!Running, TP!vars, TP!structs, T!vars, T!structs
  <2> QED
    BY <2>1, PTL DEF TP!ContextRestored, T!ContextRestored
<1> QED
  BY <1>1, <1>2, <1>4, <1>5, <1>6, KernelRefinesTasks, PTL
=============================================================================
