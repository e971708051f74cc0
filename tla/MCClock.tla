------------------------------ MODULE MCClock ------------------------------
(* Clock.tla with two values per byte, so that the counter is loaded with 1  *)
(* to 3, two parts to a clock, and a loop that may be several periods late.  *)
(* The guest makes three accesses: a mode and two bytes, or any others.      *)
EXTENDS Clock
=============================================================================
