-------------------------------- MODULE Tasks --------------------------------
(***************************************************************************)
(* The kernel threads of cpu/task.c and the stack switch of cpu/switch.asm *)
(*                                                                         *)
(* A task is named by its pid; its struct is the values of next, state and *)
(* esp at that pid, and next[t] = NULL means that t is not linked into the *)
(* circular list.  stack[t] is the memory of t's stack, the top last, and  *)
(* an address in it is a pair <<t, depth>>.  sp is the stack the CPU is    *)
(* on, eip and regs are the registers that context_switch is about.        *)
(*                                                                         *)
(* The variables view and ran only observe: view[t] is what t must find    *)
(* when it runs again, ran[t] the tasks that ran since t last did.         *)
(***************************************************************************)
EXTENDS Integers, Sequences

CONSTANTS
  MaxTasks,        \* tasks (struct and stack) for which the heap has room
  Code,            \* addresses in the code that tasks run
  Entries,         \* the functions that task_create is called with
  RegFiles,        \* contents of ebx, esi, edi, ebp
  OwnStacks,       \* what a task's own calls may have left on its stack
  NULL,
  Uninit           \* a field of malloc'ed memory that nobody has written

Pids     == 0 .. MaxTasks - 1
States   == {"READY", "RUNNING"}
ZeroRegs == [ebx |-> 0, esi |-> 0, edi |-> 0, ebp |-> 0]

ASSUME PidAssumption == MaxTasks \in Nat /\ MaxTasks > 0 /\ NULL \notin Nat

ASSUME CodeAssumption ==
  /\ Entries \subseteq Code
  /\ {"in task_yield", "halted"} \cap Code = {}
  /\ RegFiles \subseteq [ebx : Int, esi : Int, edi : Int, ebp : Int]
  /\ ZeroRegs \in RegFiles

(* What is on a stack is a finite sequence of words. *)
ASSUME StackAssumption ==
  /\ <<>> \in OwnStacks
  /\ \A s \in OwnStacks : Len(s) \in Nat /\ s = [i \in 1 .. Len(s) |-> s[i]]

VARIABLES
  current_task, next_pid,   \* statics of task.c
  next, state, esp,         \* the fields of the task structs
  stack,                    \* memory of the stacks
  sp, eip, regs,            \* the CPU
  view, ran                 \* observers

structs == <<current_task, next_pid, next, state, esp>>
vars    == <<structs, stack, sp, eip, regs, view, ran>>

(* The tasks on the circular list. *)
Linked == {t \in Pids : next[t] # NULL}

TypeOK ==
  /\ current_task \in Pids \cup {NULL}
  /\ next_pid \in 1 .. MaxTasks + 1
  /\ next \in [Pids -> Pids \cup {NULL}]
  /\ state \in [Pids -> States \cup {Uninit}]
  /\ DOMAIN esp = Pids
  /\ DOMAIN stack = Pids
  /\ DOMAIN view = Pids
  /\ sp \in Pids
  /\ eip \in Code \cup {"in task_yield", "halted"}
  /\ regs \in RegFiles
  /\ ran \in [Pids -> SUBSET Pids]

-----------------------------------------------------------------------------
(* The word at [esp + 4 * k] of a stack. *)
At(s, k) == s[Len(s) - k]
(* A stack after k words are popped. *)
Pop(s, k) == SubSeq(s, 1, Len(s) - k)

(* The CPU executes a task's own code. *)
Running == eip \in Code

(* kernel_panic and kernel_halt: cli, then hlt for ever. *)
kernel_panic ==
  /\ Running
  /\ eip' = "halted"
  /\ UNCHANGED <<structs, stack, sp, regs, view, ran>>

(* The instructions of the running task between two calls of this module:  *)
(* it may change its registers and what is on its own stack.               *)
work(e, r, s) ==
  /\ Running
  /\ eip' = e
  /\ regs' = r
  /\ stack' = [stack EXCEPT ![sp] = s]
  /\ UNCHANGED <<structs, sp, view, ran>>

(* main_task->esp is not written: main has never been switched out. *)
task_init(ret) ==
  /\ Running
  /\ current_task = NULL
  /\ current_task' = 0
  /\ next' = [next EXCEPT ![0] = 0]
  /\ state' = [state EXCEPT ![0] = "RUNNING"]
  /\ eip' = ret
  /\ UNCHANGED <<next_pid, esp, stack, sp, regs, view, ran>>

NewStackNoEntry(entry) == <<0, 0, 0, 0>>

(* What task_create writes at the top of a fresh stack. *)
NewStack(entry) == <<entry, 0, 0, 0, 0>>

InsertForgetNext(c, t) == [next EXCEPT ![c] = t, ![t] = t]

InsertDropRest(c, t) == [next EXCEPT ![c] = t, ![t] = c]

(* Link t behind c. *)
Insert(c, t) == [next EXCEPT ![t] = next[c], ![c] = t]

(* The list is only changed once both allocations have succeeded; either   *)
(* of them may be the one that finds the heap exhausted.                   *)
task_create(entry, ret) ==
  /\ Running
  /\ current_task # NULL
  /\ \/ /\ next_pid >= MaxTasks
        /\ next_pid' \in {next_pid, next_pid + 1}
        /\ eip' = "halted"
        /\ UNCHANGED <<current_task, next, state, esp, stack, view, ran>>
     \/ /\ next_pid < MaxTasks
        /\ next_pid' = next_pid + 1
        /\ state' = [state EXCEPT ![next_pid] = "READY"]
        /\ stack' = [stack EXCEPT ![next_pid] = NewStack(entry)]
        /\ esp' = [esp EXCEPT ![next_pid] = <<next_pid, Len(NewStack(entry))>>]
        /\ next' = Insert(current_task, next_pid)
        /\ eip' = ret
        /\ view' = [view EXCEPT ![next_pid] =
                      [eip |-> entry, regs |-> ZeroRegs, stack |-> <<>>]]
        /\ ran' = [ran EXCEPT ![next_pid] = {}]
        /\ UNCHANGED current_task
  /\ UNCHANGED <<sp, regs>>

-----------------------------------------------------------------------------
(* pop ebp, pop edi, pop esi, pop ebx *)
PoppedSwapped(w) ==
  [ebp |-> At(w, 0), esi |-> At(w, 1), edi |-> At(w, 2), ebx |-> At(w, 3)]

Popped(w) ==
  [ebp |-> At(w, 0), edi |-> At(w, 1), esi |-> At(w, 2), ebx |-> At(w, 3)]

(* push ebx, push esi, push edi, push ebp *)
Pushed(s) == s \o <<regs.ebx, regs.esi, regs.edi, regs.ebp>>

(* context_switch, called with the caller's stack at called: the arguments *)
(* are found above the four pushes and the return address.                 *)
context_switch(called) ==
  LET s       == Pushed(called)
      old_ptr == At(s, 5)
      new_esp == At(s, 6)
      mem     == [stack EXCEPT ![sp] = s]
      w       == SubSeq(mem[new_esp[1]], 1, new_esp[2])
  IN  /\ esp' = [esp EXCEPT ![old_ptr] = <<sp, Len(s)>>]
      /\ sp' = new_esp[1]
      /\ regs' = Popped(w)
      /\ eip' = At(w, 4)
      /\ stack' = [mem EXCEPT ![new_esp[1]] = Pop(w, 5)]

(* The new state of every task when old hands over to new. *)
Switched(old, new) == [state EXCEPT ![old] = "READY", ![new] = "RUNNING"]

(* There is no other task to switch to. *)
Alone == current_task # NULL => next[current_task] = current_task

(* Called from the running task's code, to return to ret.  The stack then  *)
(* holds ret, the two arguments of context_switch and its return address.  *)
task_yield(ret) ==
  /\ Running
  /\ \/ /\ Alone
        /\ eip' = ret
        /\ UNCHANGED <<structs, stack, sp, regs, view, ran>>
     \/ /\ ~Alone
        /\ LET old == current_task
               new == next[current_task]
           IN  /\ state' = Switched(old, new)
               /\ current_task' = new
               /\ context_switch(stack[sp] \o
                                 <<ret, esp[new], old, "in task_yield">>)
               /\ view' = [view EXCEPT ![old] =
                             [eip |-> ret, regs |-> regs, stack |-> stack[sp]]]
               /\ ran' = [t \in Pids |->
                            IF t = new THEN {} ELSE ran[t] \cup {new}]
        /\ UNCHANGED <<next_pid, next>>

(* context_switch has returned into task_yield, which drops the arguments  *)
(* and returns to its caller.                                              *)
task_yield_return ==
  /\ eip = "in task_yield"
  /\ eip' = At(stack[sp], 2)
  /\ stack' = [stack EXCEPT ![sp] = Pop(@, 3)]
  /\ UNCHANGED <<structs, sp, regs, view, ran>>

-----------------------------------------------------------------------------
(* kernel_main runs on the boot stack, and no task exists. *)
Init ==
  /\ current_task = NULL
  /\ next_pid = 1
  /\ next = [t \in Pids |-> NULL]
  /\ state = [t \in Pids |-> Uninit]
  /\ esp = [t \in Pids |-> Uninit]
  /\ stack = [t \in Pids |-> <<>>]
  /\ sp = 0
  /\ eip \in Code
  /\ regs \in RegFiles
  /\ view = [t \in Pids |-> Uninit]
  /\ ran = [t \in Pids |-> {}]

Next ==
  \/ kernel_panic
  \/ \E e \in Code, r \in RegFiles, s \in OwnStacks : work(e, r, s)
  \/ \E ret \in Code : task_init(ret)
  \/ \E entry \in Entries, ret \in Code : task_create(entry, ret)
  \/ \E ret \in Code : task_yield(ret)
  \/ task_yield_return

Spec == Init /\ [][Next]_vars

(* Every task keeps calling task_yield, as thread_a and thread_b do in     *)
(* their loops and the timer interrupt does on main's behalf; once called  *)
(* it runs to its end.                                                     *)
YieldFairness ==
  /\ WF_vars(\E ret \in Code : task_yield(ret))
  /\ WF_vars(task_yield_return)

FairSpec == Spec /\ YieldFairness

-----------------------------------------------------------------------------
(* Exactly one task is TASK_RUNNING, it is current_task, and it is the one *)
(* whose stack the CPU is on: the three places that say who runs agree.    *)
OneRunning ==
  current_task # NULL =>
    /\ sp = current_task
    /\ \A t \in Linked : state[t] = "RUNNING" <=> t = current_task

(* The list is one ring: following next from any task reaches all of them. *)
(* Stated without paths: no set of tasks other than the whole list (and    *)
(* the empty set) is closed under next.                                    *)
OneRing ==
  \A S \in SUBSET Linked :
    S # {} /\ (\A t \in S : next[t] \in S) => S = Linked

(* A task that is not running has on its stack, exactly where its esp      *)
(* field points, the frame that will give it back the registers and the    *)
(* stack it had when it yielded, or its entry function if it never ran.    *)
ContextSaved ==
  \A t \in Linked \ {current_task} :
    LET w == stack[t]
    IN  /\ esp[t] = <<t, Len(w)>>
        /\ Len(w) >= 5
        /\ Popped(w) = view[t].regs
        /\ \/ At(w, 4) = view[t].eip /\ Pop(w, 5) = view[t].stack
           \/ /\ Len(w) >= 8
              /\ At(w, 4) = "in task_yield"
              /\ At(w, 7) = view[t].eip
              /\ Pop(w, 8) = view[t].stack

(* A task that was switched out and starts to run its own code again has   *)
(* the registers, the program counter and the stack of its last yield.     *)
ContextRestored ==
  [][(~Running \/ current_task' # current_task) /\ Running' /\ current_task # NULL
       => /\ eip' = view[current_task'].eip
          /\ regs' = view[current_task'].regs
          /\ stack'[sp'] = view[current_task'].stack]_vars

(* Round robin: nobody runs twice while another task waits for its turn,   *)
(* whoever creates tasks in between.                                       *)
RoundRobin ==
  [][current_task' # current_task /\ current_task # NULL =>
       \A t \in Linked \ {current_task'} : current_task' \notin ran[t]]_vars

(* A task on the list runs again and again, unless the kernel has halted. *)
EveryTaskRuns ==
  \A t \in Pids : next[t] # NULL ~> (current_task = t \/ eip = "halted")
=============================================================================
