----------------------------- MODULE MCHeapTest -----------------------------
(* HeapTest.tla with the kernel's own numbers: a heap of 4 MB that starts  *)
(* where the shipped disk image puts it (kernel_end = 0x107010, plus the   *)
(* 4096 bytes of the frame bitmap).                                        *)
EXTENDS HeapTest

ClientSizes == {1, 190, 4096}
=============================================================================
