------------------------------- MODULE MCHeap -------------------------------
(* Heap.tla on a 112-byte heap: the code's header size, alignment and split *)
(* threshold, and requests on both sides of each of them.                   *)
EXTENDS Heap

SmallSizes == {0, 1, 16, 33}
=============================================================================
