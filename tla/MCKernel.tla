------------------------------ MODULE MCKernel ------------------------------
(* Kernel.tla with the timer, the keyboard, and one device on the slave      *)
(* controller.  Like 2^32 and 100, Word is no multiple of frequency.         *)
EXTENDS Kernel

SmallDevices == {0, 1, 14}
=============================================================================
