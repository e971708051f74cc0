----------------------------- MODULE Allocator -----------------------------
(***************************************************************************)
(* What a memory allocator promises its callers, with no free list, no     *)
(* headers and no placement policy: every grant is an extent of the arena  *)
(* that overlaps no extent still held, a grant stays with its holder until *)
(* it is released, and the allocator may only give up by panicking.        *)
(* Heap.tla (mm/memory.c) is shown to implement it.                        *)
(***************************************************************************)
EXTENDS Naturals

CONSTANTS
  ArenaStart,   \* first byte of the arena
  ArenaEnd,     \* first byte after the arena
  Requests      \* lengths callers may ask for

VARIABLES
  held,         \* extents granted and not released: [ptr, len]
  halted        \* TRUE once the allocator has panicked

vars == <<held, halted>>

(* Two extents share a byte. *)
Overlap(e, f) == e.ptr < f.ptr + f.len /\ f.ptr < e.ptr + e.len

Init ==
  /\ held = {}
  /\ halted = FALSE

(* Grant a fresh extent lying in the arena. *)
Grant(e) ==
  /\ ~halted
  /\ ArenaStart <= e.ptr
  /\ e.ptr + e.len <= ArenaEnd
  /\ \A f \in held : ~Overlap(e, f)
  /\ held' = held \cup {e}
  /\ UNCHANGED halted

(* Take back one extent, whichever holder returns it. *)
Release(e) ==
  /\ ~halted
  /\ held' = held \ {e}
  /\ UNCHANGED halted

(* Out of memory, or a caller's double release. *)
Panic ==
  /\ ~halted
  /\ halted' = TRUE
  /\ UNCHANGED held

Next ==
  \/ \E p \in ArenaStart .. ArenaEnd, n \in Requests :
        Grant([ptr |-> p, len |-> n])
  \/ \E e \in held : Release(e)
  \/ Panic

Spec == Init /\ [][Next]_vars
=============================================================================
