-------------------------------- MODULE Heap --------------------------------
(***************************************************************************)
(* The kernel heap of mm/memory.c: a first-fit free list whose headers are *)
(* interleaved with the blocks they describe.                              *)
(*                                                                         *)
(* The linked list that starts at heap_start is the sequence heap: element *)
(* i+1 is what the next field of element i points to, and the last element *)
(* is the one whose next is 0.  An element carries the address of its      *)
(* header and the header's size and free fields.                           *)
(*                                                                         *)
(* held is what callers know: the pointers malloc returned and the lengths *)
(* they asked for, until they pass the pointer to free.                    *)
(***************************************************************************)
EXTENDS Integers, Sequences, SequencesExt

CONSTANTS
  HeapBase,        \* heap_address: bump_alloc_end() rounded up to 4
  HEAP_MAX_SIZE,   \* 0x400000 in the code
  Word,            \* 2^32: uint32_t arithmetic is modulo Word
  Sizes            \* sizes that callers pass to malloc

HeaderSize == 12                 \* sizeof(struct block_header)
Alignment  == 4
MinSplit   == 16                 \* smallest remainder worth a block

ASSUME HeapAssumption ==
  /\ HeapBase \in Nat
  /\ HeapBase > 0
  /\ HeapBase % Alignment = 0
  /\ HEAP_MAX_SIZE \in Nat
  /\ HEAP_MAX_SIZE > HeaderSize
  /\ HEAP_MAX_SIZE % Alignment = 0
  /\ Word \in Nat
  /\ HeapBase + HEAP_MAX_SIZE + HeaderSize + MinSplit < Word
  /\ Word % Alignment = 0
  /\ Sizes \subseteq 0 .. Word - 1

VARIABLES
  heap,        \* the block list, in list order
  heap_used,   \* bytes in allocated blocks, headers included
  panic,       \* "none", or the reason of kernel_panic
  held         \* extents callers own: [ptr, len]

vars == <<heap, heap_used, panic, held>>

Block  == [addr : Nat, size : Nat, free : BOOLEAN]
Panics == {"none", "out of memory", "double free"}

(* The pointer that malloc returns for a block: just after its header. *)
Ptr(b) == b.addr + HeaderSize
(* The first byte after a block. *)
End(b) == b.addr + HeaderSize + b.size

TypeOK ==
  /\ heap \in Seq(Block)
  /\ heap_used \in 0 .. Word - 1
  /\ panic \in Panics
  /\ held \subseteq [ptr : Nat, len : Nat]

-----------------------------------------------------------------------------
(* One free block that spans the whole heap. *)
WholeHeap == << [addr |-> HeapBase,
                 size |-> HEAP_MAX_SIZE - HeaderSize,
                 free |-> TRUE] >>

memory_init ==
  /\ heap = WholeHeap
  /\ heap_used = 0

Init ==
  /\ memory_init
  /\ panic = "none"
  /\ held = {}

-----------------------------------------------------------------------------
AlignDown(size) == size - (size % Alignment)

(* size += 4 - (size % 4), in 32 bits. *)
AlignUp(size) ==
  IF size % Alignment = 0 THEN size
  ELSE (size + (Alignment - (size % Alignment))) % Word

FitsAnyState(b, n) == b.size >= n

(* The test of the walk: a free block that is large enough. *)
Fits(b, n) == b.free /\ b.size >= n

RestNoHeader(b, n) ==
  [addr |-> b.addr + HeaderSize + n, size |-> b.size - n, free |-> TRUE]

(* new_block: what is left of block b once n bytes are cut off its front. *)
Rest(b, n) ==
  [addr |-> b.addr + HeaderSize + n,
   size |-> b.size - n - HeaderSize,
   free |-> TRUE]

(* Block b allocated with n bytes of payload. *)
Taken(b, n) == [addr |-> b.addr, size |-> n, free |-> FALSE]

(* Take block i for n bytes, splitting it when the remainder is worth it. *)
Place(h, i, n) ==
  IF h[i].size >= n + HeaderSize + MinSplit
  THEN InsertAt([h EXCEPT ![i] = Taken(h[i], n)], i + 1, Rest(h[i], n))
  ELSE [h EXCEPT ![i] = Taken(h[i], h[i].size)]

(* malloc(0) returns a null pointer and changes nothing, so it is a        *)
(* stuttering step; any other request walks the list for the first fit.    *)
malloc(size) ==
  LET n == AlignUp(size)
      i == SelectInSeq(heap, LAMBDA b : Fits(b, n))
      h == Place(heap, i, n)
  IN  /\ panic = "none"
      /\ size # 0
      /\ \/ /\ i = 0
            /\ panic' = "out of memory"
            /\ UNCHANGED <<heap, heap_used, held>>
         \/ /\ i # 0
            /\ heap' = h
            /\ heap_used' = (heap_used + h[i].size + HeaderSize) % Word
            /\ held' = held \cup {[ptr |-> Ptr(h[i]), len |-> size]}
            /\ UNCHANGED panic

-----------------------------------------------------------------------------
(* Block b grown over its successor c. *)
Joined(b, c) ==
  [addr |-> b.addr, size |-> b.size + c.size + HeaderSize, free |-> b.free]

(* Absorb block i+1 of the list into block i. *)
Merge(h, i) ==
  RemoveAt([h EXCEPT ![i] = Joined(h[i], h[i + 1])], i + 1)

(* Coalesce block i with its successor if that one is free. *)
MergeNext(h, i) ==
  IF i < Len(h) /\ h[i + 1].free THEN Merge(h, i) ELSE h

MergePrevSkipped(h, i) == h

(* Coalesce block i into its predecessor, found by a second walk. *)
MergePrev(h, i) ==
  IF i > 1 /\ h[i - 1].free THEN Merge(h, i - 1) ELSE h

ReleasePayloadOnly(b) == b.size

(* header->free = 1. *)
Freed(b) == [addr |-> b.addr, size |-> b.size, free |-> TRUE]

(* What free gives back to heap_used for a block. *)
Released(b) == b.size + HeaderSize

(* free(ptr) for a pointer whose header, ptr - 12, is block i of the list. *)
free(i) ==
  /\ panic = "none"
  /\ \/ /\ heap[i].free
        /\ panic' = "double free"
        /\ UNCHANGED <<heap, heap_used, held>>
     \/ /\ ~heap[i].free
        /\ heap' = MergePrev(MergeNext([heap EXCEPT ![i] = Freed(heap[i])], i), i)
        /\ heap_used' = (heap_used - Released(heap[i])) % Word
        /\ held' = {e \in held : e.ptr # Ptr(heap[i])}
        /\ UNCHANGED panic

Next ==
  \/ \E size \in Sizes : malloc(size)
  \/ \E i \in 1 .. Len(heap) : free(i)

Spec == Init /\ [][Next]_vars

-----------------------------------------------------------------------------
(* The blocks tile the heap: the first header is at heap_start, every     *)
(* block ends where the next header starts, and the last one ends exactly *)
(* HEAP_MAX_SIZE bytes after heap_start.  Splits and merges neither lose  *)
(* nor invent a byte.                                                     *)
Tiling ==
  /\ Len(heap) >= 1
  /\ heap[1].addr = HeapBase
  /\ \A i \in 1 .. Len(heap) - 1 : heap[i + 1].addr = End(heap[i])
  /\ End(heap[Len(heap)]) = HeapBase + HEAP_MAX_SIZE

(* No two neighbours on the list are both free: free coalesces on both    *)
(* sides, so no sequence of calls fragments a free region.                *)
Coalesced ==
  \A i \in 1 .. Len(heap) - 1 : ~(heap[i].free /\ heap[i + 1].free)

(* heap_used, which the mem command prints, is the number of bytes in     *)
(* allocated blocks with their headers; in particular free never wraps it *)
(* below zero.                                                            *)
Accounting ==
  heap_used = FoldLeft(LAMBDA sum, b : sum + (IF b.free THEN 0
                                               ELSE b.size + HeaderSize),
                       0, heap)

(* Every extent a caller holds lies inside the payload of one allocated   *)
(* block and no other caller's pointer names that block, so no caller     *)
(* reaches another's bytes or a header of the list.                       *)
HeldInBlocks ==
  /\ \A e \in held : \E i \in 1 .. Len(heap) :
        /\ ~heap[i].free
        /\ e.ptr = Ptr(heap[i])
        /\ e.len <= heap[i].size
  /\ \A e, f \in held : e.ptr = f.ptr => e = f

(* When every pointer has been freed, in whatever order, the heap is back *)
(* to the single free block that memory_init made: nothing is lost and no *)
(* fragmentation outlives the allocations that caused it.                 *)
NoLeak ==
  held = {} => heap = WholeHeap

(* malloc and free implement the allocator that callers rely on. *)
Abs == INSTANCE Allocator WITH
         ArenaStart <- HeapBase,
         ArenaEnd   <- HeapBase + HEAP_MAX_SIZE,
         Requests   <- Sizes,
         halted     <- panic # "none"

Implements == Abs!Spec
=============================================================================
