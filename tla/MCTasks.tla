------------------------------- MODULE MCTasks -------------------------------
(* Tasks.tla with main and three more tasks, enough for an insertion to cut  *)
(* a ring of more than two, and two register files without a repeated value. *)
EXTENDS Tasks

TwoCode     == {"main", "thread"}
OneCode     == {"thread"}
TwoRegFiles == {ZeroRegs, [ebx |-> 1, esi |-> 2, edi |-> 3, ebp |-> 4]}
OneOwnStack == {<<>>}
=============================================================================
