----------------------------- MODULE MCDisplay -----------------------------
(* Display.tla with two rows of two cells, and addresses of two bits.        *)
EXTENDS Display

SomeOffsets == {0, 1, 2}
=============================================================================
