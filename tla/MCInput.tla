------------------------------ MODULE MCInput ------------------------------
(* Input.tla with queues of four bytes and the keys that are treated apart:  *)
(* Alt, ControlLeft and AltGr, whose code has two bytes.                     *)
EXTENDS Input

SpecialKeys == {AltLeft, ControlLeft, AltRight}
SomeChars   == {AltLeft}
SomeValues  == {0, 233, 240, 243, 244, 255}
SomeOrders  == {32, 96, 211, 212, 254}
=============================================================================
