------------------------------ MODULE HeapTest ------------------------------
(***************************************************************************)
(* The callers of the heap: the allocations that task_init and task_create *)
(* make while kernel_main boots, other clients afterwards, and the         *)
(* heaptest command of the shell, which runs inside the keyboard interrupt *)
(* handler and therefore without interleaving.                             *)
(***************************************************************************)
EXTENDS Heap

CONSTANT MaxOthers     \* bound: live allocations of other clients

VARIABLES
  pc,        \* position in Script, or "idle" / "done"
  slot,      \* local variables a, b, c, d of cmd_heaptest
  before     \* heap and heap_used when the command started

tvars == <<heap, heap_used, panic, held, pc, slot, before>>

TaskSize  == 16        \* sizeof(struct task)
StackSize == 4096      \* TASK_STACK_SIZE

(* task_init for the main task, task_create for threads a and b. *)
BootAllocs == <<TaskSize, TaskSize, StackSize, TaskSize, StackSize>>

Take(v, n) == [op |-> "malloc", var |-> v, size |-> n]
Give(v)    == [op |-> "free", var |-> v, size |-> 0]

(* The calls of cmd_heaptest in program order. *)
Script == << Take("a", 100), Take("b", 200), Take("c", 50), Give("b"),
             Take("d", 150), Give("a"), Give("c"), Give("d") >>

NoSlots == [v \in {"a", "b", "c", "d"} |-> 0]

TestInit ==
  /\ Init
  /\ pc = <<"boot", 1>>
  /\ slot = NoSlots
  /\ before = << >>

Advance(phase, last, next) ==
  pc' = IF pc[2] = last THEN <<next, 1>> ELSE <<phase, pc[2] + 1>>

Boot ==
  /\ pc[1] = "boot"
  /\ malloc(BootAllocs[pc[2]])
  /\ Advance("boot", Len(BootAllocs), "idle")
  /\ UNCHANGED <<slot, before>>

(* Any other client of the heap, between two commands. *)
Other ==
  /\ pc[1] = "idle"
  /\ \/ /\ Len(SelectSeq(heap, LAMBDA b : ~b.free))
             < Len(BootAllocs) + MaxOthers
        /\ \E size \in Sizes : malloc(size)
     \/ \E i \in Len(BootAllocs) + 1 .. Len(heap) : ~heap[i].free /\ free(i)
  /\ UNCHANGED <<pc, slot, before>>

Enter ==
  /\ pc[1] = "idle"
  /\ panic = "none"
  /\ pc' = <<"test", 1>>
  /\ before' = <<heap, heap_used>>
  /\ UNCHANGED <<vars, slot>>

(* One call of cmd_heaptest. *)
Call ==
  LET op == Script[pc[2]]
  IN  /\ pc[1] = "test"
      /\ \/ /\ op.op = "malloc"
            /\ malloc(op.size)
            /\ slot' = [slot EXCEPT ![op.var] =
                          IF panic' # "none" THEN 0
                          ELSE (CHOOSE e \in held' \ held : TRUE).ptr]
         \/ /\ op.op = "free"
            /\ \E i \in 1 .. Len(heap) : Ptr(heap[i]) = slot[op.var] /\ free(i)
            /\ UNCHANGED slot
      /\ Advance("test", Len(Script), "done")
      /\ UNCHANGED before

Leave ==
  /\ pc[1] = "done"
  /\ pc' = <<"idle", 1>>
  /\ slot' = NoSlots
  /\ before' = << >>
  /\ UNCHANGED vars

TestNext == Boot \/ Other \/ Enter \/ Call \/ Leave

TestSpec == TestInit /\ [][TestNext]_tvars

-----------------------------------------------------------------------------
(* Whatever other clients hold, cmd_heaptest returns the heap to exactly  *)
(* the block list and the heap_used it found: the four blocks it carves   *)
(* out are put back without a trace.                                      *)
HeapTestNeutral ==
  pc[1] = "done" /\ panic = "none" => <<heap, heap_used>> = before

=============================================================================
