----------------------------- MODULE BootProof ------------------------------
(***************************************************************************)
(* Proofs about what the kernel finds when it starts.  First the physical  *)
(* memory that it takes into use (Pmm.tla), for every memory size, frame   *)
(* size, memory map and kernel size that the assumptions allow; then the   *)
(* floppy that it is loaded from (Floppy.tla, Dma.tla), for every table of *)
(* disk formats, every image, every register and memory size, every        *)
(* address and target of a transfer and every number of commands.          *)
(***************************************************************************)
EXTENDS Pmm, Floppy, Lemmas, FiniteSetTheorems, FunctionTheorems

-----------------------------------------------------------------------------
(* Physical memory *)

(* The frames are finitely many naturals, and the scan looks at all of them. *)
LEMMA FramesProps ==
  /\ total_frames \in Nat
  /\ Frames \subseteq Nat
  /\ IsFiniteSet(Frames)
  /\ Scanned = Frames
<1>1. total_frames \in Nat
  BY MemmapAssumption, PmmAssumption DEF total_frames
<1>2. Frames \subseteq Nat
  BY <1>1 DEF Frames
<1>3. IsFiniteSet(Frames)
  BY <1>1, FS_Interval DEF Frames
<1>4. Scanned = Frames
  BY PmmAssumption DEF Scanned, Frames
<1> QED
  BY <1>1, <1>2, <1>3, <1>4

LEMMA SpanProps ==
  ASSUME NEW start, NEW length
  PROVE  Span(start, length) \subseteq Frames
BY DEF Span

(* A bitmap and a count that agree. *)
Agree(m) ==
  /\ m.used \subseteq Frames
  /\ m.free \in Nat
  /\ m.free = Cardinality(Frames \ m.used)

(* Clearing a span of bits adds exactly the bits that were set. *)
LEMMA MarkFreeAgrees ==
  ASSUME NEW m, Agree(m), NEW start, NEW length
  PROVE  Agree(mark_free(m, start, length))
<1> DEFINE S == Span(start, length)
           u == m.used
<1>1. S \subseteq Frames /\ u \subseteq Frames /\ IsFiniteSet(Frames)
  BY SpanProps, FramesProps DEF Agree
<1>2. /\ mark_free(m, start, length).used = u \ S
      /\ mark_free(m, start, length).free = m.free + Cardinality(S \cap u)
  BY DEF mark_free
<1> HIDE DEF S, u
<1>3. IsFiniteSet(Frames \ u) /\ IsFiniteSet(S \cap u)
  <2>1. (Frames \ u) \in SUBSET Frames /\ (S \cap u) \in SUBSET Frames
    BY <1>1
  <2> QED
    BY <1>1, <2>1, FS_Subset
<1>4. Frames \ (u \ S) = (Frames \ u) \cup (S \cap u)
  BY <1>1
<1>5. (Frames \ u) \cap (S \cap u) = {}
  OBVIOUS
<1>6. Cardinality((Frames \ u) \cup (S \cap u))
        = Cardinality(Frames \ u) + Cardinality(S \cap u) - 0
  BY <1>3, <1>5, FS_Union, FS_EmptySet
<1>7. Cardinality(Frames \ u) \in Nat /\ Cardinality(S \cap u) \in Nat
  BY <1>3, FS_CardinalityType
<1>8. m.free = Cardinality(Frames \ u)
  BY DEF Agree, u
<1>9. m.free + Cardinality(S \cap u) = Cardinality(Frames \ (u \ S))
      /\ m.free + Cardinality(S \cap u) \in Nat
  <2>1. Cardinality(Frames \ (u \ S)) = Cardinality((Frames \ u) \cup (S \cap u))
    BY <1>4, Zenon
  <2> DEFINE A == Cardinality(Frames \ u)
             B == Cardinality(S \cap u)
             C == Cardinality((Frames \ u) \cup (S \cap u))
  <2>2. A \in Nat /\ B \in Nat /\ C = A + B - 0 /\ m.free = A
    BY <1>6, <1>7, <1>8
  <2>3. ASSUME NEW a \in Nat, NEW b \in Nat, NEW c, c = a + b - 0
        PROVE  a + b = c /\ a + b \in Nat
    BY <2>3
  <2> HIDE DEF A, B, C
  <2>4. A + B = C /\ A + B \in Nat
    BY <2>2, <2>3
  <2>5. m.free + B = C /\ m.free + B \in Nat
    BY <2>2, <2>4, Zenon
  <2> QED
    BY <2>1, <2>5, Zenon DEF B, C
<1>10. u \ S \subseteq Frames
  BY <1>1
<1> QED
  BY <1>2, <1>9, <1>10 DEF Agree

(* Setting a span of bits subtracts exactly the bits that were clear, and  *)
(* the test free_count > 0 never has to hold anything back.                *)
LEMMA MarkUsedAgrees ==
  ASSUME NEW m, Agree(m), NEW start, NEW length
  PROVE  /\ Agree(mark_used(m, start, length))
         /\ mark_used(m, start, length).used = m.used \cup Span(start, length)
<1> DEFINE S == Span(start, length)
           u == m.used
           n == Cardinality(S \ u)
<1>1. S \subseteq Frames /\ u \subseteq Frames /\ IsFiniteSet(Frames)
  BY SpanProps, FramesProps DEF Agree
<1>2. /\ mark_used(m, start, length).used = u \cup S
      /\ mark_used(m, start, length).free = IF m.free >= n THEN m.free - n ELSE 0
  BY DEF mark_used
<1> HIDE DEF S, u
<1>3. IsFiniteSet(Frames \ u)
  <2>1. (Frames \ u) \in SUBSET Frames
    BY <1>1
  <2> QED
    BY <1>1, <2>1, FS_Subset
<1>4. Frames \ (u \cup S) = (Frames \ u) \ S
  OBVIOUS
<1>5. (Frames \ u) \cap S = S \ u
  BY <1>1
<1>6. Cardinality((Frames \ u) \ S) = Cardinality(Frames \ u) - n
  <2>1. Cardinality((Frames \ u) \ S)
          = Cardinality(Frames \ u) - Cardinality((Frames \ u) \cap S)
    BY <1>3, FS_Difference
  <2> QED
    BY <1>5, <2>1, Zenon
<1>7. IsFiniteSet(S \ u) /\ n <= Cardinality(Frames \ u)
  <2>1. (S \ u) \in SUBSET (Frames \ u)
    BY <1>1
  <2> QED
    BY <1>3, <2>1, FS_Subset
<1>8. n \in Nat /\ Cardinality(Frames \ u) \in Nat
  BY <1>3, <1>7, FS_CardinalityType
<1>9. m.free = Cardinality(Frames \ u)
  BY DEF Agree, u
<1> HIDE DEF n
<1>10. mark_used(m, start, length).free = Cardinality(Frames \ (u \cup S))
       /\ mark_used(m, start, length).free \in Nat
  <2> DEFINE A == Cardinality(Frames \ u)
  <2>1. Cardinality(Frames \ (u \cup S)) = A - n
    BY <1>4, <1>6, Zenon
  <2>2. A \in Nat /\ n \in Nat /\ n <= A /\ m.free = A
    BY <1>7, <1>8, <1>9
  <2> HIDE DEF A
  <2>3. A >= n /\ A - n \in Nat
    BY <2>2
  <2>4. mark_used(m, start, length).free = A - n
    BY <1>2, <2>2, <2>3, Zenon
  <2> QED
    BY <2>1, <2>3, <2>4, Zenon
<1>11. u \cup S \subseteq Frames
  BY <1>1
<1> QED
  BY <1>2, <1>10, <1>11 DEF Agree, S, u

-----------------------------------------------------------------------------
(* The inductive invariant: nothing is owned and nothing has failed before *)
(* pmm_init returns; from the moment the bitmap exists it agrees with      *)
(* free_count.                                                             *)
PmmInv ==
  /\ TypeOK
  /\ CountMatches
  /\ NeverInconsistent
  /\ OwnedMarked
  /\ pc # "ready" => owned = {} /\ panic = "none"

LEMMA PmmInit == Init => PmmInv
<1> SUFFICES ASSUME Init
             PROVE  PmmInv
  OBVIOUS
<1>1. TypeOK
  BY PmmAssumption DEF Init, TypeOK
<1> QED
  BY <1>1 DEF Init, PmmInv, CountMatches, NeverInconsistent, OwnedMarked

(* memmap_supplement yields a table of regions. *)
LEMMA SupplementType ==
  ASSUME NEW e \in Seq(Region)
  PROVE  Supplemented(e) \in Seq(Region)
<1>1. SupplementRegions \in Seq(Region)
  <2>1. /\ LowMemory - Unit \in Nat
        /\ TotalMemory - LowMemory \in Nat
        /\ Word - 4 * Unit \in Nat
        /\ Unit \in Nat /\ 4 * Unit \in Nat
    BY MemmapAssumption
  <2>2. /\ [base |-> LowMemory - Unit, length |-> Unit, type |-> "reserved"]
             \in Region
        /\ [base |-> Unit, length |-> TotalMemory - LowMemory, type |-> "usable"]
             \in Region
        /\ [base |-> Word - 4 * Unit, length |-> 4 * Unit, type |-> "reserved"]
             \in Region
    BY <2>1 DEF Region, Types
  <2> QED
    BY <2>2 DEF SupplementRegions
<1> QED
  BY <1>1 DEF Supplemented

LEMMA PmmStep == PmmInv /\ [Next]_vars => PmmInv'
<1> SUFFICES ASSUME PmmInv, [Next]_vars
             PROVE  PmmInv'
  OBVIOUS
<1> USE DEF PmmInv
<1>1. CASE memmap_supplement
  <2>1. Supplemented(entries) \in Seq(Region)
    BY SupplementType DEF TypeOK
  <2>2. TypeOK'
    BY <1>1, <2>1 DEF memmap_supplement, TypeOK
  <2> QED
    BY <1>1, <2>2 DEF memmap_supplement, CountMatches, NeverInconsistent, OwnedMarked
<1>2. CASE pmm_init_bitmap
  <2>1. used' = Frames
    BY <1>2, PmmAssumption DEF pmm_init_bitmap, Frames
  <2>2. bitmap' \in Nat
    <3>1. kernel_end \in Nat
      <4>1. LowMemory \in Nat /\ KernelEnds \subseteq LowMemory + 1 .. TotalMemory
        BY PmmAssumption, MemmapAssumption
      <4>2. kernel_end \in LowMemory + 1 .. TotalMemory
        BY <4>1, Zenon DEF TypeOK
      <4> QED
        BY <4>1, <4>2, MemmapAssumption
    <3> QED
      BY <1>2, <3>1 DEF pmm_init_bitmap, BumpStart, Align4
  <2>3. TypeOK'
    BY <1>2, <2>1, <2>2 DEF pmm_init_bitmap, TypeOK
  <2>4. CountMatches'
    <3>1. Frames \ used' = {}
      BY <2>1
    <3>2. free_count' = 0
      BY <1>2 DEF pmm_init_bitmap
    <3> QED
      BY <3>1, <3>2, FS_EmptySet DEF CountMatches
  <2> QED
    BY <1>2, <2>3, <2>4 DEF pmm_init_bitmap, NeverInconsistent, OwnedMarked
<1>3. CASE pmm_init_region
  <2> DEFINE m == [used |-> used, free |-> free_count]
             r == entries[region]
             n == IF r.type = "usable"
                  THEN mark_free(m, r.base % Word, r.length % Word) ELSE m
  <2>1. m.used = used /\ m.free = free_count
    OBVIOUS
  <2>2. Agree(m)
    BY <1>3, <2>1 DEF pmm_init_region, TypeOK, CountMatches, Agree
  <2>3. used' = n.used /\ free_count' = n.free
    BY <1>3 DEF pmm_init_region
  <2> HIDE DEF m
  <2>4. Agree(n)
    BY <2>2, MarkFreeAgrees
  <2> HIDE DEF n
  <2>5. TypeOK'
    BY <1>3, <2>3, <2>4 DEF pmm_init_region, TypeOK, Agree
  <2>6. CountMatches'
    BY <2>3, <2>4 DEF CountMatches, Agree
  <2> QED
    BY <1>3, <2>5, <2>6 DEF pmm_init_region, NeverInconsistent, OwnedMarked
<1>4. CASE pmm_init_reserve
  <2> DEFINE m == [used |-> used, free |-> free_count]
             a == mark_used(m, 0, LowMemory)
             b == mark_used(a, LowMemory, kernel_end - LowMemory)
             c == mark_used(b, bitmap, bitmap_size)
  <2>1. m.used = used /\ m.free = free_count
    OBVIOUS
  <2>2. Agree(m)
    BY <1>4, <2>1 DEF pmm_init_reserve, TypeOK, CountMatches, Agree
  <2>3. used' = c.used /\ free_count' = c.free
    BY <1>4 DEF pmm_init_reserve
  <2> HIDE DEF m
  <2>4. Agree(a)
    BY <2>2, MarkUsedAgrees
  <2> HIDE DEF a
  <2>5. Agree(b)
    BY <2>4, MarkUsedAgrees
  <2> HIDE DEF b
  <2>6. Agree(c)
    BY <2>5, MarkUsedAgrees
  <2> HIDE DEF c
  <2>7. TypeOK'
    BY <1>4, <2>3, <2>6 DEF pmm_init_reserve, TypeOK, Agree
  <2>8. CountMatches'
    BY <2>3, <2>6 DEF CountMatches, Agree
  <2> QED
    BY <1>4, <2>7, <2>8 DEF pmm_init_reserve, NeverInconsistent, OwnedMarked
<1>5. CASE pmm_alloc_frame
  <2>0. free_count = Cardinality(Frames \ used) /\ IsFiniteSet(Frames \ used)
    <3>1. (Frames \ used) \in SUBSET Frames
      OBVIOUS
    <3>2. IsFiniteSet(Frames \ used)
      BY <3>1, FramesProps, FS_Subset
    <3> QED
      BY <1>5, <3>2 DEF pmm_alloc_frame, CountMatches
  <2>1. CASE free_count = 0 /\ panic' = "out of phys mem"
             /\ UNCHANGED <<used, free_count, owned>>
    BY <1>5, <2>1 DEF pmm_alloc_frame, TypeOK, CountMatches, NeverInconsistent,
      OwnedMarked
  <2>2. free_count # 0 => ~(Scanned \subseteq used)
    <3>1. ASSUME Scanned \subseteq used
          PROVE  free_count = 0
      <4>1. Frames \ used = {}
        BY <3>1, FramesProps
      <4> QED
        BY <2>0, <4>1, FS_EmptySet
    <3> QED
      BY <3>1
  <2>3. CASE /\ free_count # 0
             /\ used' = bitmap_set(used, FirstClear(used))
             /\ free_count' = free_count - 1
             /\ owned' = owned \cup {FirstClear(used)}
             /\ UNCHANGED panic
    <3> DEFINE f == FirstClear(used)
    <3>1. f \in Frames \ used
      <4>1. Frames \ used # {} /\ (Frames \ used) \in SUBSET Nat
        BY <2>2, <2>3, FramesProps
      <4>2. Min(Frames \ used) \in Frames \ used
        BY <4>1, MinProps
      <4> QED
        BY <4>2, FramesProps DEF FirstClear
    <3>2. used' = used \cup {f} /\ owned' = owned \cup {f}
      BY <2>3 DEF bitmap_set
    <3> HIDE DEF f
    <3>3. Frames \ used' = (Frames \ used) \ {f}
      BY <3>2
    <3>4. Cardinality((Frames \ used) \ {f}) = Cardinality(Frames \ used) - 1
      BY <2>0, <3>1, FS_RemoveElement
    <3>5. Cardinality(Frames \ used) \in Nat
      BY <2>0, FS_CardinalityType
    <3>6. free_count' = Cardinality(Frames \ used') /\ free_count' \in Nat
      <4>1. Cardinality(Frames \ used') = Cardinality(Frames \ used) - 1
        BY <3>3, <3>4, Zenon
      <4>2. Cardinality(Frames \ used') = free_count - 1
        BY <2>0, <4>1, Zenon
      <4>3. free_count' = free_count - 1 /\ free_count # 0 /\ free_count \in Nat
        BY <2>3 DEF TypeOK
      <4>4. free_count' \in Nat
        BY <4>3
      <4> QED
        BY <4>2, <4>3, <4>4, Zenon
    <3>7. used' \subseteq Frames /\ owned' \subseteq Frames /\ owned' \subseteq used'
      BY <3>1, <3>2 DEF TypeOK, OwnedMarked
    <3> QED
      BY <1>5, <2>3, <3>6, <3>7 DEF pmm_alloc_frame, TypeOK, CountMatches,
        NeverInconsistent, OwnedMarked
  <2> QED
    BY <1>5, <2>1, <2>2, <2>3 DEF pmm_alloc_frame
<1>6. ASSUME NEW addr \in FreeArguments, pmm_free_frame(addr)
      PROVE  PmmInv'
  <2> DEFINE f == addr \div FrameSize
  <2>1. CASE panic' \in {"invalid frame address", "double free"}
             /\ UNCHANGED <<used, free_count, owned>>
    BY <1>6, <2>1 DEF pmm_free_frame, TypeOK, CountMatches, NeverInconsistent,
      OwnedMarked
  <2>2. CASE /\ f < total_frames
             /\ ~IsDoubleFree(f)
             /\ used' = bitmap_clear(used, f)
             /\ free_count' = free_count + 1
             /\ owned' = owned \ {f}
             /\ UNCHANGED panic
    <3> HIDE DEF f
    <3>1. f \in used /\ used' = used \ {f} /\ f \in Frames
      BY <2>2 DEF IsDoubleFree, bitmap_clear, TypeOK
    <3>2. IsFiniteSet(Frames \ used)
      <4>1. (Frames \ used) \in SUBSET Frames
        OBVIOUS
      <4> QED
        BY <4>1, FramesProps, FS_Subset
    <3>3. Frames \ used' = (Frames \ used) \cup {f}
      BY <3>1
    <3>4. Cardinality((Frames \ used) \cup {f}) = Cardinality(Frames \ used) + 1
      BY <3>1, <3>2, FS_AddElement
    <3>5. free_count = Cardinality(Frames \ used)
      BY <1>6 DEF pmm_free_frame, CountMatches
    <3>6. free_count' = Cardinality(Frames \ used') /\ free_count' \in Nat
      <4>1. Cardinality(Frames \ used') = Cardinality(Frames \ used) + 1
        BY <3>3, <3>4, Zenon
      <4>2. Cardinality(Frames \ used') = free_count + 1
        BY <3>5, <4>1, Zenon
      <4>3. free_count' = free_count + 1 /\ free_count \in Nat
        BY <2>2 DEF TypeOK
      <4>4. free_count' \in Nat
        BY <4>3
      <4> QED
        BY <4>2, <4>3, <4>4, Zenon
    <3>7. used' \subseteq Frames /\ owned' \subseteq Frames /\ owned' \subseteq used'
      BY <2>2, <3>1 DEF TypeOK, OwnedMarked
    <3> QED
      BY <1>6, <2>2, <3>6, <3>7 DEF pmm_free_frame, TypeOK, CountMatches,
        NeverInconsistent, OwnedMarked
  <2> QED
    BY <1>6, <2>1, <2>2 DEF pmm_free_frame
<1>7. CASE UNCHANGED vars
  BY <1>7 DEF vars, TypeOK, CountMatches, NeverInconsistent, OwnedMarked
<1> QED
  BY <1>1, <1>2, <1>3, <1>4, <1>5, <1>6, <1>7 DEF Next

-----------------------------------------------------------------------------
(* Every frame number in the bitmap or in a caller's hands is below        *)
(* total_frames, and free_count never goes below zero.                     *)
THEOREM PmmTypeOK == Spec => []TypeOK
<1>1. PmmInv => TypeOK
  BY DEF PmmInv
<1> QED
  BY <1>1, PmmInit, PmmStep, PTL DEF Spec

(* free_count is the number of clear bits, for every memory map. *)
THEOREM PmmCountMatches == Spec => []CountMatches
<1>1. PmmInv => CountMatches
  BY DEF PmmInv
<1> QED
  BY <1>1, PmmInit, PmmStep, PTL DEF Spec

(* pmm_alloc_frame never reaches its "inconsistent bitmap" panic. *)
THEOREM PmmNeverInconsistent == Spec => []NeverInconsistent
<1>1. PmmInv => NeverInconsistent
  BY DEF PmmInv
<1> QED
  BY <1>1, PmmInit, PmmStep, PTL DEF Spec

(* A frame in a caller's hands is marked as used. *)
THEOREM PmmOwnedMarked == Spec => []OwnedMarked
<1>1. PmmInv => OwnedMarked
  BY DEF PmmInv
<1> QED
  BY <1>1, PmmInit, PmmStep, PTL DEF Spec
-----------------------------------------------------------------------------
(* The arithmetic of spans. *)
LEMMA FrameArithmetic ==
  /\ FrameSize \in Nat /\ FrameSize > 0
  /\ Word \in Nat /\ Word > 0
  /\ LowMemory \in Nat /\ FrameSize <= LowMemory
  /\ LowMemory + FrameSize <= TotalMemory
  /\ TotalMemory \in Nat /\ TotalMemory <= Word
<1>1. /\ FrameSize \in Nat /\ FrameSize > 0
      /\ LowMemory \in Nat /\ LowMemory > 0 /\ TotalMemory \in Nat
      /\ LowMemory < TotalMemory
      /\ Word \in Nat /\ TotalMemory <= Word
      /\ LowMemory % FrameSize = 0
      /\ total_frames \in Nat /\ total_frames * FrameSize = TotalMemory
  BY MemmapAssumption, PmmAssumption, FramesProps
<1> DEFINE q == LowMemory \div FrameSize
<1>2. q \in Nat /\ q * FrameSize = LowMemory
  BY <1>1, DivProps
<1> HIDE DEF q
<1>3. 0 < q
  <2>1. q = 0 => q * FrameSize = 0
    BY <1>1
  <2> QED
    BY <1>1, <1>2, <2>1
<1>4. q < total_frames
  BY <1>1, <1>2, MultiplesOrdered
<1>5. q * FrameSize + FrameSize <= total_frames * FrameSize
  BY <1>1, <1>2, <1>4, MultiplesOrdered
<1>6. 0 * FrameSize + FrameSize <= q * FrameSize /\ 0 * FrameSize = 0
  BY <1>1, <1>2, <1>3, MultiplesOrdered
<1> QED
  BY <1>1, <1>2, <1>5, <1>6

(* A span that starts on a frame and whose rounding does not wrap includes *)
(* every frame that starts in the range.                                   *)
LEMMA SpanCovers ==
  ASSUME NEW start \in Nat, start % FrameSize = 0,
         NEW length \in Nat, length + FrameSize <= Word,
         NEW f \in Frames,
         start <= f * FrameSize, f * FrameSize < start + length
  PROVE  f \in Span(start, length)
<1> USE FrameArithmetic
<1> DEFINE q == start \div FrameSize
           x == length + FrameSize - 1
           c == x \div FrameSize
<1>1. f \in Nat
  BY FramesProps
<1>2. q \in Nat /\ q * FrameSize = start
  BY DivProps
<1>3. x \in Nat /\ x < Word /\ x % Word = x
  <2>1. x \in Nat /\ x < Word
    OBVIOUS
  <2> HIDE DEF x
  <2> QED
    BY <2>1, DivProps
<1>4. Span(start, length) = {g \in Frames : g >= q /\ g < q + c}
  BY <1>3 DEF Span
<1>5. c \in Nat /\ x < c * FrameSize + FrameSize
  <2> HIDE DEF x
  <2> QED
    BY <1>3, DivProps
<1>6. length <= c * FrameSize
  BY <1>5
<1> HIDE DEF q, c
<1>7. q <= f
  BY <1>1, <1>2, MultiplesOrdered
<1>8. f * FrameSize < (q + c) * FrameSize
  <2>1. (q + c) * FrameSize = q * FrameSize + c * FrameSize
    BY <1>2, <1>5, MultiplesOrdered
  <2>2. c * FrameSize \in Nat /\ f * FrameSize \in Nat
    BY <1>1, <1>5
  <2> QED
    BY <1>2, <1>6, <2>1, <2>2
<1>9. f < q + c
  <2>1. q + c \in Int
    BY <1>2, <1>5
  <2> QED
    BY <1>1, <1>8, <2>1, MultiplesOrdered
<1> QED
  BY <1>4, <1>7, <1>9

(* Every frame of a span shares a byte with the range, if the range has a  *)
(* byte at all: the rounding adds less than a frame at either end.         *)
LEMMA SpanTouches ==
  ASSUME NEW start \in Nat, NEW length \in Nat, NEW f \in Span(start, length)
  PROVE  /\ start < (f + 1) * FrameSize
         /\ f * FrameSize < start + length
<1> USE FrameArithmetic
<1> DEFINE q == start \div FrameSize
           x == length + FrameSize - 1
           y == x % Word
           c == y \div FrameSize
<1>1. f \in Nat /\ q <= f /\ f < q + c
  BY FramesProps DEF Span
<1>2. q \in Nat /\ q * FrameSize <= start /\ start < q * FrameSize + FrameSize
  BY DivProps
<1>3. x \in Nat
  OBVIOUS
<1>4. y \in Nat /\ y <= x
  <2> HIDE DEF x
  <2> QED
    BY <1>3, DivProps
<1>5. c \in Nat /\ c * FrameSize <= y
  <2> HIDE DEF y
  <2> QED
    BY <1>4, DivProps
<1> HIDE DEF q, c
<1>6. q * FrameSize <= f * FrameSize /\ (f + 1) * FrameSize = f * FrameSize + FrameSize
  BY <1>1, <1>2, MultiplesOrdered
<1>7. f * FrameSize + FrameSize <= (q + c) * FrameSize
  <2>1. q + c \in Int /\ f \in Int
    BY <1>1, <1>2, <1>5
  <2> QED
    BY <1>1, <2>1, MultiplesOrdered
<1>8. (q + c) * FrameSize = q * FrameSize + c * FrameSize
  BY <1>2, <1>5, MultiplesOrdered
<1>9. f * FrameSize \in Nat /\ q * FrameSize \in Nat /\ c * FrameSize \in Nat
  BY <1>1, <1>2, <1>5
<1>10. y <= length + FrameSize - 1
  BY <1>4
<1> HIDE DEF y
<1> QED
  BY <1>2, <1>4, <1>5, <1>6, <1>7, <1>8, <1>9, <1>10

(* The frame that a call of pmm_free_frame clears is one that somebody owns. *)
LEMMA FreedWasOwned ==
  ASSUME TypeOK, NEW addr \in FreeArguments,
         addr \div FrameSize < total_frames, addr \div FrameSize \in used
  PROVE  addr \div FrameSize \in owned
<1> USE FrameArithmetic
<1>1. CASE addr = TotalMemory
  <2>1. addr \div FrameSize = total_frames
    BY <1>1, FramesProps, PmmAssumption, MultipleDivided
  <2> QED
    BY <2>1, FramesProps
<1>2. ASSUME NEW g \in owned \cup (Frames \ used), addr = g * FrameSize
      PROVE  addr \div FrameSize \in owned
  <2>1. g \in Nat
    BY FramesProps DEF TypeOK
  <2>2. addr \div FrameSize = g
    BY <1>2, <2>1, MultipleDivided
  <2> QED
    BY <2>2
<1> QED
  BY <1>1, <1>2 DEF FreeArguments

-----------------------------------------------------------------------------
(* Frame f shares a byte with a usable region among the first n. *)
TouchesUsable(f, e, n) ==
  \E i \in 1 .. n :
    /\ e[i].type = "usable"
    /\ e[i].base % Word < (f + 1) * FrameSize
    /\ f * FrameSize < (e[i].base % Word) + e[i].length

(* What pmm_init has established at each of its steps about the frames     *)
(* that are clear or that were clear when somebody got them: they touch a  *)
(* usable region among those the loop has seen, and, when it is done, lie  *)
(* above the kernel.                                                       *)
PlaceInv ==
  /\ PmmInv
  /\ pc = "regions" =>
       /\ region \in 1 .. Len(entries) + 1
       /\ \A f \in Frames \ used : TouchesUsable(f, entries, region - 1)
  /\ pc = "ready" =>
       \A f \in owned \cup (Frames \ used) :
         /\ TouchesUsable(f, entries, Len(entries))
         /\ kernel_end <= f * FrameSize

LEMMA PlaceInit == Init => PlaceInv
BY PmmInit DEF Init, PlaceInv

LEMMA PlaceStep == PlaceInv /\ [Next]_vars => PlaceInv'
<1> SUFFICES ASSUME PlaceInv, [Next]_vars
             PROVE  PlaceInv'
  OBVIOUS
<1> USE FrameArithmetic
<1>0. PmmInv /\ PmmInv' /\ TypeOK /\ TypeOK'
  BY PmmStep DEF PlaceInv, PmmInv
<1>a. Len(entries) \in Nat
  <2>1. entries \in Seq(Region)
    BY <1>0 DEF TypeOK
  <2> QED
    BY <2>1, LenProperties
<1>1. CASE memmap_supplement
  BY <1>0, <1>1 DEF memmap_supplement, PlaceInv
<1>2. CASE pmm_init_bitmap
  <2>1. used' = Frames
    BY <1>2, PmmAssumption DEF pmm_init_bitmap, Frames
  <2> QED
    <3>1. /\ pc' = "regions" /\ region' = 1 /\ entries' = entries
          /\ Frames \ used' = {}
      BY <1>2, <2>1 DEF pmm_init_bitmap
    <3>2. region' \in 1 .. Len(entries') + 1
      BY <1>a, <3>1
    <3> QED
      BY <1>0, <3>1, <3>2 DEF PlaceInv
<1>3. CASE pmm_init_region
  <2> DEFINE r == entries[region]
             S == Span(r.base % Word, r.length % Word)
  <2>1. region \in Nat /\ region' = region + 1 /\ entries' = entries
        /\ pc = "regions" /\ pc' = "regions" /\ region <= Len(entries)
    BY <1>0, <1>3 DEF pmm_init_region, TypeOK
  <2>2. CASE r.type # "usable"
    <3>1. used' = used
      BY <1>3, <2>2 DEF pmm_init_region
    <3>2. \A f \in Frames \ used : TouchesUsable(f, entries, region)
      BY <2>1 DEF PlaceInv, TouchesUsable
    <3> QED
      BY <1>0, <1>a, <2>1, <3>1, <3>2 DEF PlaceInv
  <2>3. CASE r.type = "usable"
    <3>1. used' = used \ S
      BY <1>3, <2>3 DEF pmm_init_region, mark_free
    <3>2. region \in 1 .. Len(entries)
      BY <1>a, <2>1 DEF PlaceInv
    <3>3. r \in Region /\ r.base \in Nat /\ r.length \in Nat
      <4>1. entries \in Seq(Region)
        BY <1>0 DEF TypeOK
      <4>2. r \in Region
        BY <3>2, <4>1, ElementOfSeq
      <4> QED
        BY <4>2 DEF Region
    <3>4. r.base % Word \in Nat /\ r.length % Word \in Nat
          /\ r.length % Word <= r.length
      BY <3>3, DivProps
    <3>5. ASSUME NEW f \in Frames \ used'
          PROVE  TouchesUsable(f, entries, region)
      <4>1. CASE f \in S
        <5>1. /\ r.base % Word < (f + 1) * FrameSize
              /\ f * FrameSize < (r.base % Word) + (r.length % Word)
          BY <3>4, <4>1, SpanTouches
        <5>2. f * FrameSize \in Nat
          BY FramesProps
        <5>3. f * FrameSize < (r.base % Word) + r.length
          BY <3>3, <3>4, <5>1, <5>2
        <5> QED
          BY <2>3, <3>2, <5>1, <5>3 DEF TouchesUsable
      <4>2. CASE f \notin S
        <5>1. f \in Frames \ used
          BY <3>1, <4>2
        <5> QED
          BY <2>1, <5>1 DEF PlaceInv, TouchesUsable
      <4> QED
        BY <4>1, <4>2
    <3> QED
      BY <1>0, <1>a, <2>1, <3>5 DEF PlaceInv
  <2> QED
    BY <2>2, <2>3
<1>4. CASE pmm_init_reserve
  <2> DEFINE m == [used |-> used, free |-> free_count]
             a == mark_used(m, 0, LowMemory)
             b == mark_used(a, LowMemory, kernel_end - LowMemory)
             c == mark_used(b, bitmap, bitmap_size)
  <2>1. used' = c.used
    BY <1>4 DEF pmm_init_reserve
  <2>2. used' = used \cup Span(0, LowMemory)
                    \cup Span(LowMemory, kernel_end - LowMemory)
                    \cup Span(bitmap, bitmap_size)
    BY <2>1 DEF mark_used
  <2>3. kernel_end \in Nat /\ LowMemory < kernel_end /\ kernel_end <= TotalMemory
    <3>1. kernel_end \in LowMemory + 1 .. TotalMemory
      BY <1>0, PmmAssumption, Zenon DEF TypeOK
    <3> QED
      BY <3>1
  <2>4. region = Len(entries) + 1
    BY <1>a, <1>4 DEF pmm_init_reserve, PlaceInv
  <2>5. ASSUME NEW f \in Frames \ used'
        PROVE  /\ TouchesUsable(f, entries, Len(entries))
               /\ kernel_end <= f * FrameSize
    <3>1. TouchesUsable(f, entries, Len(entries))
      <4>1. f \in Frames \ used /\ region - 1 = Len(entries)
        BY <1>a, <2>2, <2>4
      <4> QED
        BY <1>4, <4>1 DEF pmm_init_reserve, PlaceInv
    <3>2. f * FrameSize \in Nat
      BY FramesProps
    <3>3. CASE f * FrameSize < LowMemory
      <4>1. 0 % FrameSize = 0
        OBVIOUS
      <4>2. f \in Span(0, LowMemory)
        BY <3>2, <3>3, <4>1, SpanCovers
      <4> QED
        BY <2>2, <4>2
    <3>4. CASE LowMemory <= f * FrameSize /\ f * FrameSize < kernel_end
      <4>1. f \in Span(LowMemory, kernel_end - LowMemory)
        <5>1. kernel_end - LowMemory \in Nat
              /\ (kernel_end - LowMemory) + FrameSize <= Word
              /\ f * FrameSize < LowMemory + (kernel_end - LowMemory)
          BY <2>3, <3>2, <3>4
        <5> QED
          BY <3>4, <5>1, PmmAssumption, SpanCovers
      <4> QED
        BY <2>2, <4>1
    <3> QED
      BY <2>3, <3>1, <3>2, <3>3, <3>4
  <2>6. owned' = {} /\ entries' = entries /\ kernel_end' = kernel_end /\ pc' = "ready"
    BY <1>0, <1>4 DEF pmm_init_reserve, PmmInv
  <2> QED
    BY <1>0, <2>5, <2>6 DEF PlaceInv
<1>5. CASE pmm_alloc_frame
  <2>1. owned' \cup (Frames \ used') \subseteq owned \cup (Frames \ used)
    <3>1. CASE UNCHANGED <<used, owned>>
      BY <3>1
    <3>2. CASE /\ ~(Scanned \subseteq used)
               /\ used' = bitmap_set(used, FirstClear(used))
               /\ owned' = owned \cup {FirstClear(used)}
      <4>1. FirstClear(used) \in Frames \ used
        <5>1. Frames \ used # {} /\ (Frames \ used) \in SUBSET Nat
          BY <3>2, FramesProps
        <5> QED
          BY <5>1, MinProps, FramesProps DEF FirstClear
      <4> QED
        BY <3>2, <4>1 DEF bitmap_set
    <3> QED
      BY <1>5, <3>1, <3>2 DEF pmm_alloc_frame
  <2> QED
    BY <1>0, <1>5, <2>1 DEF pmm_alloc_frame, PlaceInv
<1>6. ASSUME NEW addr \in FreeArguments, pmm_free_frame(addr)
      PROVE  PlaceInv'
  <2>1. owned' \cup (Frames \ used') \subseteq owned \cup (Frames \ used)
    <3>1. CASE UNCHANGED <<used, owned>>
      BY <3>1
    <3>2. CASE /\ addr \div FrameSize < total_frames
               /\ ~IsDoubleFree(addr \div FrameSize)
               /\ used' = bitmap_clear(used, addr \div FrameSize)
               /\ owned' = owned \ {addr \div FrameSize}
      <4>1. addr \div FrameSize \in owned
        BY <1>0, <3>2, FreedWasOwned DEF IsDoubleFree
      <4> QED
        BY <3>2, <4>1 DEF bitmap_clear
    <3> QED
      BY <1>6, <3>1, <3>2 DEF pmm_free_frame
  <2> QED
    BY <1>0, <1>6, <2>1 DEF pmm_free_frame, PlaceInv
<1>7. CASE UNCHANGED vars
  BY <1>0, <1>7 DEF vars, PlaceInv, TouchesUsable
<1> QED
  BY <1>1, <1>2, <1>3, <1>4, <1>5, <1>6, <1>7 DEF Next

-----------------------------------------------------------------------------
(* A frame that pmm_init leaves free or a later call gives away lies above *)
(* the kernel image, also when the kernel ends inside a frame, and shares  *)
(* a byte with a region that the map calls usable, although the loop cuts  *)
(* bases and lengths to 32 bits and rounds lengths up to frames, where the *)
(* rounding may wrap: for every map and every end of the kernel.           *)
THEOREM PmmGivenFramesUsable == Spec => []GivenFramesUsable
<1>1. PlaceInv => GivenFramesUsable
  BY DEF PlaceInv, GivenFramesUsable, TouchesUsable
<1> QED
  BY <1>1, PlaceInit, PlaceStep, PTL DEF Spec

(* No call of pmm_alloc_frame or pmm_free_frame creates or loses a frame:  *)
(* the frame that one marks was clear, had no owner and gets one, the      *)
(* frame that the other clears had one, a rejected call changes neither.   *)
THEOREM PmmFramesConserved == Spec => FramesConserved
<1> DEFINE A == /\ owned' \cup (Frames \ used') = owned \cup (Frames \ used)
                /\ free_count' < free_count =>
                     \E f \in Frames \ (used \cup owned) : owned' = owned \cup {f}
<1>1. ASSUME PmmInv, [Next]_vars
      PROVE  [pc = "ready" => A]_vars
  <2> SUFFICES ASSUME pc = "ready" PROVE A
    OBVIOUS
  <2>0. TypeOK /\ owned \subseteq used /\ owned \subseteq Frames /\ free_count \in Nat
    BY <1>1 DEF PmmInv, TypeOK, OwnedMarked
  <2>1. CASE UNCHANGED <<used, free_count, owned>>
    BY <2>0, <2>1
  <2>2. CASE pmm_alloc_frame
    <3>1. CASE /\ ~(Scanned \subseteq used)
               /\ used' = bitmap_set(used, FirstClear(used))
               /\ owned' = owned \cup {FirstClear(used)}
      <4>1. FirstClear(used) \in Frames \ used
        <5>1. Frames \ used # {} /\ (Frames \ used) \in SUBSET Nat
          BY <3>1, FramesProps
        <5> QED
          BY <5>1, MinProps, FramesProps DEF FirstClear
      <4>2. FirstClear(used) \in Frames \ (used \cup owned)
        BY <2>0, <4>1
      <4> QED
        BY <3>1, <4>1, <4>2 DEF bitmap_set
    <3> HIDE DEF A
    <3> QED
      BY <2>1, <2>2, <3>1 DEF pmm_alloc_frame
  <2>3. ASSUME NEW addr \in FreeArguments, pmm_free_frame(addr)
        PROVE  A
    <3>1. CASE /\ addr \div FrameSize < total_frames
               /\ ~IsDoubleFree(addr \div FrameSize)
               /\ used' = bitmap_clear(used, addr \div FrameSize)
               /\ free_count' = free_count + 1
               /\ owned' = owned \ {addr \div FrameSize}
      <4>1. addr \div FrameSize \in owned
        BY <2>0, <3>1, FreedWasOwned DEF IsDoubleFree
      <4>2. ~(free_count' < free_count)
        BY <2>0, <3>1
      <4> QED
        BY <2>0, <3>1, <4>1, <4>2 DEF bitmap_clear
    <3> HIDE DEF A
    <3> QED
      BY <2>1, <2>3, <3>1 DEF pmm_free_frame
  <2> HIDE DEF A
  <2>4. UNCHANGED <<used, free_count, owned>> \/ pmm_alloc_frame
        \/ \E addr \in FreeArguments : pmm_free_frame(addr)
    BY <1>1 DEF Next, vars, memmap_supplement, pmm_init_bitmap, pmm_init_region,
      pmm_init_reserve
  <2> QED
    BY <2>1, <2>2, <2>3, <2>4
<1>2. PmmInv /\ [Next]_vars => [pc = "ready" => A]_vars
  BY <1>1
<1> HIDE DEF A
<1>3. Spec => [][pc = "ready" => A]_vars
  BY <1>2, PmmInit, PmmStep, PTL DEF Spec
<1> QED
  BY <1>3 DEF FramesConserved, A

-----------------------------------------------------------------------------
(* The floppy: words, registers and the machine *)

Words == 0 .. Base * Base - 1
Bits  == {"ic0", "ic1", "se", "head", "drive1"}

Dors     == SUBSET {"dma", "run"}
Msrs     == SUBSET {"rqm", "dio", "busy"}
Statuses == SUBSET Bits
Orders   == DOMAIN Argc
Arguments == Seq(Nat)
Phases   == 1 .. 3
Senses   == 0 .. 4

IsFdc(f) ==
  f \in [dor : Dors, msr : Msrs, phase : Phases, cmd : Orders, left : Nat, args : Arguments,
         rlen : Int, rcur : Int, st0 : Statuses, status0 : Statuses, drive : 0 .. 1,
         sense : Senses, sra : BOOLEAN, irq6 : BOOLEAN, eot : Int]

Channels == [flipflop : BOOLEAN, addr : Words, addr_init : Words, count : Words,
             count_init : Words, page : {0}, auto : BOOLEAN]

IsBuffer(b) == Len(b) \in Nat /\ b = [i \in 1 .. Len(b) |-> b[i]]

(* A disk is as large as its geometry says. *)
IsDrive(d) ==
  /\ d \in [type : Nat, max_track : Nat, max_head : 0 .. 2, max_sect : Nat, track : Int,
            head : Nat, sect : Int, read_only : BOOLEAN, media_changed : BOOLEAN,
            buffer : {d.buffer}]
  /\ IsBuffer(d.buffer) /\ Len(d.buffer) = d.max_track * d.max_head * d.max_sect

IsMachine(s) ==
  /\ s \in [f : {s.f}, drives : {s.drives}, chan : {s.chan}, mem : {s.mem}]
  /\ IsFdc(s.f) /\ s.chan \in Channels /\ DOMAIN s.mem = 0 .. MemSize - 1
  /\ s.drives = [n \in 0 .. 1 |-> s.drives[n]] /\ IsDrive(s.drives[0]) /\ IsDrive(s.drives[1])

(* Whose turn it is. *)
Turn(f) ==
  /\ "rqm" \in f.msr /\ ("dio" \in f.msr <=> f.phase = 3)
  /\ f.phase = 3 => f.rcur < f.rlen
  /\ f.phase = 1 => ("busy" \in f.msr <=> f.left > 0)
  /\ f.phase = 2 => f.cmd \in Transfers
  /\ f.phase # 1 => f.left = 0
  /\ f.irq6 = f.sra
  /\ f.phase = 1 /\ ~f.sra => f.status0 = {}

Values == Int \cup Orders

(* A command with all its bytes. *)
IsCommand(t) ==
  /\ t[1] \in DOMAIN Argc /\ Len(t) = Argc[t[1]] + 1
  /\ \A i \in 2 .. Len(t) : t[i] \in Nat

TodoInv ==
  /\ todo \in Seq(Values)
  /\ todo # << >> => "run" \in fdc.dor /\ fdc.phase = 1
  /\ todo # << >> /\ fdc.left = 0 => IsCommand(todo)
  /\ "run" \in fdc.dor /\ fdc.left > 0 =>
       /\ Len(todo) = fdc.left /\ Len(fdc.args) + fdc.left = Argc[fdc.cmd]
       /\ \A i \in 1 .. Len(todo) : todo[i] \in Nat

IsTransfer(x) == x \in [cmd : Transfers, at : Addresses, to : Targets]

Script(x) == <<x.cmd, x.at.drive, x.at.track, x.at.head, x.at.sect, 2, x.at.eot, 0, 0>>

Programmed(c, to) ==
  /\ c.addr = to.addr /\ c.addr_init = to.addr /\ c.count = to.count /\ c.count_init = to.count
  /\ c.page = 0 /\ c.auto = to.auto

(* The transfer that is being written is the one that was asked for. *)
AskedInv ==
  /\ todo # << >> /\ fdc.left = 0 /\ todo[1] \in Transfers =>
       IsTransfer(asked) /\ todo = Script(asked) /\ Programmed(chan, asked.to)
  /\ todo # << >> /\ fdc.left > 0 /\ fdc.cmd \in Transfers =>
       /\ IsTransfer(asked) /\ Programmed(chan, asked.to) /\ fdc.cmd = asked.cmd
       /\ \A i \in 1 .. Len(fdc.args) : fdc.args[i] = Script(asked)[i + 1]
       /\ \A i \in 1 .. Len(todo) : todo[i] = Script(asked)[9 - Len(todo) + i]
  /\ todo # << >> /\ quiet => fdc.status0 = {} /\ ~fdc.sra

(* A seek that is being written is for one of the two drives. *)
SeekInv ==
  /\ todo # << >> /\ fdc.left = 0 /\ todo[1] = "SEEK" => todo[2] \in 0 .. 1
  /\ todo # << >> /\ fdc.left = 2 /\ fdc.cmd = "SEEK" => todo[1] \in 0 .. 1
  /\ todo # << >> /\ fdc.left = 1 /\ fdc.cmd = "SEEK" => fdc.args[1] \in 0 .. 1

(* Whose turn it is, and what the guest has still to write. *)
AttendedInv == IsMachine(Machine) /\ Turn(fdc) /\ TodoInv

FloppyInv == AttendedInv /\ AskedInv /\ SeekInv

-----------------------------------------------------------------------------
(* Registers *)

(* The same but for the phase and what belongs to it. *)
SameOrders(f, g) ==
  /\ g.cmd = f.cmd /\ g.left = f.left /\ g.args = f.args /\ g.drive = f.drive
  /\ g.eot = f.eot /\ g.dor = f.dor

SameStatus(f, g) == g.status0 = f.status0 /\ g.sense = f.sense /\ g.sra = f.sra /\ g.irq6 = f.irq6

(* raise_irq sets the line and the bit of status register A, and ends the answers. *)
LEMMA Raised ==
  ASSUME NEW f, IsFdc(f)
  PROVE  /\ IsFdc(raise_irq(f)) /\ SameOrders(f, raise_irq(f))
         /\ raise_irq(f).irq6 = TRUE /\ raise_irq(f).sra = TRUE /\ raise_irq(f).sense = 0
         /\ raise_irq(f).status0 = f.status0 /\ raise_irq(f).st0 = f.st0
         /\ raise_irq(f).phase = f.phase /\ raise_irq(f).msr = f.msr
         /\ raise_irq(f).rcur = f.rcur /\ raise_irq(f).rlen = f.rlen
<1>1. 0 \in Senses
  BY DEF Senses
<1> DEFINE g == [f EXCEPT !.irq6 = TRUE, !.sra = TRUE, !.sense = 0]
<1>2. IsFdc(g)
  BY <1>1 DEF IsFdc
<1>3. SameOrders(f, g)
  BY DEF IsFdc, SameOrders
<1>4. /\ g.irq6 = TRUE /\ g.sra = TRUE /\ g.sense = 0 /\ g.status0 = f.status0 /\ g.st0 = f.st0
      /\ g.phase = f.phase /\ g.msr = f.msr /\ g.rcur = f.rcur /\ g.rlen = f.rlen
  BY DEF IsFdc
<1> HIDE DEF g
<1>5. raise_irq(f) = g
  BY DEF raise_irq, g
<1> QED
  BY <1>2, <1>3, <1>4, <1>5

(* lower_irq takes back the line, the bit and the status. *)
LEMMA Lowered ==
  ASSUME NEW f, IsFdc(f)
  PROVE  /\ IsFdc(lower_irq(f)) /\ SameOrders(f, lower_irq(f))
         /\ f.irq6 = f.sra => ~lower_irq(f).irq6
         /\ ~lower_irq(f).sra /\ lower_irq(f).status0 = {}
         /\ lower_irq(f).sense = f.sense /\ lower_irq(f).st0 = f.st0
         /\ lower_irq(f).phase = f.phase /\ lower_irq(f).msr = f.msr
         /\ lower_irq(f).rcur = f.rcur /\ lower_irq(f).rlen = f.rlen
<1> DEFINE i == f.irq6 /\ ~f.sra
           g == [f EXCEPT !.irq6 = i, !.sra = FALSE, !.status0 = {}]
<1>1. i \in BOOLEAN /\ (f.irq6 = f.sra => ~i)
  BY DEF IsFdc
<1>2. lower_irq(f) = g
  BY DEF lower_irq
<1> HIDE DEF i
<1>a. {} \in Statuses
  BY DEF Statuses
<1>3. /\ IsFdc(g) /\ SameOrders(f, g) /\ g.irq6 = i /\ ~g.sra /\ g.status0 = {}
      /\ g.sense = f.sense /\ g.st0 = f.st0 /\ g.phase = f.phase /\ g.msr = f.msr
      /\ g.rcur = f.rcur /\ g.rlen = f.rlen
  BY <1>1, <1>a DEF IsFdc, SameOrders
<1> HIDE DEF g
<1> QED
  BY <1>1, <1>2, <1>3

(* Back to the command phase: the guest may write. *)
LEMMA CommandPhase ==
  ASSUME NEW f, IsFdc(f)
  PROVE  LET g == enter_command_phase(f)
         IN  /\ IsFdc(g) /\ SameStatus(f, g) /\ g.left = 0 /\ g.phase = 1
             /\ g.msr = {"rqm"} /\ g.dor = f.dor /\ g.drive = f.drive /\ g.cmd = f.cmd
             /\ g.eot = f.eot
<1> DEFINE m == (f.msr \ {"dio", "busy"}) \cup {"rqm"}
           g == [f EXCEPT !.phase = 1, !.left = 0, !.args = << >>, !.msr = m]
<1>1. m = {"rqm"}
  BY DEF IsFdc, Msrs
<1>2. enter_command_phase(f) = g
  BY DEF enter_command_phase
<1> HIDE DEF m
<1>3. g = [f EXCEPT !.phase = 1, !.left = 0, !.args = << >>, !.msr = {"rqm"}]
  BY <1>1
<1>4. << >> \in Arguments /\ {"rqm"} \in Msrs /\ 1 \in Phases
  <2>1. << >> \in Arguments
    BY DEF Arguments
  <2>2. {"rqm"} \in Msrs
    BY DEF Msrs
  <2>3. 1 \in Phases
    BY DEF Phases
  <2> QED
    BY <2>1, <2>2, <2>3
<1>5. IsFdc(g) /\ SameStatus(f, g)
  BY <1>3, <1>4 DEF IsFdc, SameStatus
<1>6. /\ g.left = 0 /\ g.phase = 1 /\ g.msr = {"rqm"} /\ g.dor = f.dor /\ g.drive = f.drive
      /\ g.cmd = f.cmd /\ g.eot = f.eot
  BY <1>3 DEF IsFdc
<1> HIDE DEF g
<1> QED
  BY <1>2, <1>5, <1>6

(* A response of n > 0 bytes: the guest is to read. *)
LEMMA ResultPhase ==
  ASSUME NEW f, IsFdc(f), NEW st \in Statuses, NEW n \in Int, n > 0
  PROVE  LET g == enter_result_phase([f EXCEPT !.st0 = st], n)
         IN  /\ IsFdc(g) /\ SameOrders(f, g) /\ SameStatus(f, g) /\ g.phase = 3
             /\ g.st0 = st /\ g.msr = {"rqm", "dio", "busy"} /\ g.rcur < g.rlen
<1> DEFINE m == f.msr \cup {"rqm", "dio", "busy"}
           i == [f EXCEPT !.st0 = st]
           h == [i EXCEPT !.phase = 3, !.rcur = 0]
           g == [h EXCEPT !.rlen = n, !.msr = m]
<1>1. m = {"rqm", "dio", "busy"}
  BY DEF IsFdc, Msrs
<1>2. enter_result_phase([f EXCEPT !.st0 = st], n) = g
  BY DEF enter_result_phase, IsFdc
<1>3. m \in Msrs
  BY <1>1 DEF Msrs
<1>4. 3 \in Phases
  BY DEF Phases
<1> HIDE DEF m
<1>i. IsFdc(i) /\ SameOrders(f, i) /\ SameStatus(f, i) /\ i.st0 = st
  BY DEF IsFdc, SameOrders, SameStatus
<1> HIDE DEF i
<1>z. 0 \in Int
  OBVIOUS
<1>5. IsFdc(h)
  BY <1>4, <1>i, <1>z DEF IsFdc
<1>6. SameOrders(f, h) /\ SameStatus(f, h) /\ h.st0 = st /\ h.phase = 3 /\ h.rcur = 0
  BY <1>i DEF IsFdc, SameOrders, SameStatus
<1> HIDE DEF h
<1>7. IsFdc(g)
  BY <1>3, <1>5 DEF IsFdc
<1>8. SameOrders(h, g) /\ SameStatus(h, g) /\ g.st0 = h.st0 /\ g.phase = h.phase
  BY <1>5 DEF IsFdc, SameOrders, SameStatus
<1>9. g.rcur = h.rcur /\ g.rlen = n /\ g.msr = m
  BY <1>5 DEF IsFdc
<1> HIDE DEF g
<1> QED
  BY <1>1, <1>2, <1>6, <1>7, <1>8, <1>9 DEF SameOrders, SameStatus

(* Any set of status bits will do for status register 0. *)
LEMMA FdcStatus ==
  ASSUME NEW f, IsFdc(f), NEW st \in Statuses
  PROVE  LET g == [f EXCEPT !.status0 = st]
         IN  /\ IsFdc(g) /\ SameOrders(f, g) /\ g.status0 = st /\ g.sense = f.sense
             /\ g.sra = f.sra /\ g.irq6 = f.irq6 /\ g.phase = f.phase /\ g.msr = f.msr
             /\ g.rcur = f.rcur /\ g.rlen = f.rlen /\ g.st0 = f.st0
BY DEF IsFdc, SameOrders

-----------------------------------------------------------------------------
(* Handlers.  The machine with other registers, or with another drive. *)
SetF(s, g) == [s EXCEPT !.f = g]
SetDrive(s, n, d) == [s EXCEPT !.drives[n] = d]

(* A machine with other registers. *)
LEMMA SetFProps ==
  ASSUME NEW s, IsMachine(s), NEW g, IsFdc(g)
  PROVE  /\ IsMachine(SetF(s, g)) /\ SetF(s, g).f = g /\ SetF(s, g).drives = s.drives
         /\ SetF(s, g).chan = s.chan /\ SetF(s, g).mem = s.mem
<1> DEFINE t == [s EXCEPT !.f = g]
<1>1. t.f = g /\ t.drives = s.drives /\ t.chan = s.chan /\ t.mem = s.mem
  BY DEF IsMachine
<1>2. t \in [f : {t.f}, drives : {t.drives}, chan : {t.chan}, mem : {t.mem}]
  BY DEF IsMachine
<1> HIDE DEF t
<1>3. IsMachine(t)
  BY <1>1, <1>2 DEF IsMachine
<1>4. SetF(s, g) = t
  BY DEF SetF, t
<1> QED
  BY <1>1, <1>3, <1>4

(* A machine with another disk in one drive. *)
LEMMA SetDriveProps ==
  ASSUME NEW s, IsMachine(s), NEW n \in 0 .. 1, NEW d, IsDrive(d)
  PROVE  /\ IsMachine(SetDrive(s, n, d)) /\ SetDrive(s, n, d).f = s.f
         /\ SetDrive(s, n, d).chan = s.chan /\ SetDrive(s, n, d).mem = s.mem
         /\ SetDrive(s, n, d).drives[n] = d
         /\ \A k \in 0 .. 1 \ {n} : SetDrive(s, n, d).drives[k] = s.drives[k]
<1> DEFINE t == [s EXCEPT !.drives[n] = d]
           e == [s.drives EXCEPT ![n] = d]
<1>1. t.f = s.f /\ t.drives = e /\ t.chan = s.chan /\ t.mem = s.mem
  BY DEF IsMachine
<1>2. t \in [f : {t.f}, drives : {t.drives}, chan : {t.chan}, mem : {t.mem}]
  BY DEF IsMachine
<1>3. /\ e = [k \in 0 .. 1 |-> e[k]] /\ e[n] = d
      /\ \A k \in 0 .. 1 \ {n} : e[k] = s.drives[k]
  BY DEF IsMachine
<1> HIDE DEF t, e
<1>4. IsDrive(e[0]) /\ IsDrive(e[1])
  BY <1>3 DEF IsMachine
<1>5. IsMachine(t)
  BY <1>1, <1>2, <1>3, <1>4 DEF IsMachine
<1>6. SetDrive(s, n, d) = t
  BY DEF SetDrive, t
<1> QED
  BY <1>1, <1>3, <1>5, <1>6

LEMMA DrivePut ==
  \A s, n, d : IsMachine(s) /\ n \in 0 .. 1 /\ IsDrive(d) =>
    /\ IsMachine(SetDrive(s, n, d)) /\ SetDrive(s, n, d).f = s.f
    /\ SetDrive(s, n, d).chan = s.chan /\ SetDrive(s, n, d).mem = s.mem
    /\ SetDrive(s, n, d).drives[n] = d
BY SetDriveProps

(* The drive that is selected is one of the two. *)
LEMMA DriveIs ==
  ASSUME NEW s, IsMachine(s)
  PROVE  s.f.drive \in 0 .. 1 /\ IsDrive(Drive(s)) /\ IsFdc(s.f)
<1>1. s.f.drive \in 0 .. 1 /\ IsFdc(s.f)
  BY DEF IsMachine, IsFdc
<1> QED
  BY <1>1 DEF IsMachine, Drive

(* What a response leaves alone. *)
SameWorld(s, t) == t.drives = s.drives /\ t.chan = s.chan /\ t.mem = s.mem

(* A command that ends with a response. *)
LEMMA Responded ==
  ASSUME NEW s, IsMachine(s), NEW st \in Statuses, NEW n \in Int, n > 0
  PROVE  /\ IsMachine(Respond(s, st, n)) /\ SameWorld(s, Respond(s, st, n))
         /\ SameOrders(s.f, Respond(s, st, n).f) /\ SameStatus(s.f, Respond(s, st, n).f)
         /\ Respond(s, st, n).f.phase = 3 /\ Respond(s, st, n).f.st0 = st
         /\ s.f.left = 0 /\ s.f.irq6 = s.f.sra => Turn(Respond(s, st, n).f)
<1> DEFINE g == enter_result_phase([s.f EXCEPT !.st0 = st], n)
<1>1. /\ IsFdc(g) /\ SameOrders(s.f, g) /\ SameStatus(s.f, g) /\ g.phase = 3
      /\ g.st0 = st /\ g.msr = {"rqm", "dio", "busy"} /\ g.rcur < g.rlen
  BY DriveIs, ResultPhase
<1>2. Respond(s, st, n) = SetF(s, g)
  BY DEF Respond, SetF
<1> HIDE DEF g
<1>3. s.f.left = 0 /\ s.f.irq6 = s.f.sra => Turn(g)
  BY <1>1 DEF Turn, SameOrders, SameStatus
<1> QED
  BY <1>1, <1>2, <1>3, SetFProps DEF SameWorld

Errors == {"ic0", "ic1"}

(* A command that ends with seven bytes and an interrupt. *)
LEMMA EndedReadWrite ==
  ASSUME NEW s, IsMachine(s), s.f.left = 0, NEW bits \in Statuses
  PROVE  /\ IsMachine(end_read_write(s, bits)) /\ SameWorld(s, end_read_write(s, bits))
         /\ Turn(end_read_write(s, bits).f) /\ end_read_write(s, bits).f.phase = 3
         /\ SameOrders(s.f, end_read_write(s, bits).f)
         /\ end_read_write(s, bits).f.st0 \cap Errors = (s.f.status0 \cup bits) \cap Errors
<1> DEFINE st == (s.f.status0 \ {"head", "drive1"}) \cup bits
                   \cup (IF s.f.drive = 1 THEN {"drive1"} ELSE {})
                   \cup (IF Drive(s).head = 1 THEN {"head"} ELSE {})
           g == [s.f EXCEPT !.status0 = st]
           u == SetF(s, g)
           t == Respond(u, st, 7)
           v == SetF(t, raise_irq(t.f))
<1>1. st \in Statuses /\ st \cap Errors = (s.f.status0 \cup bits) \cap Errors
  <2>1. s.f.status0 \in Statuses
    BY DriveIs DEF IsFdc
  <2> QED
    BY <2>1 DEF Statuses, Bits, Errors
<1>2. v = end_read_write(s, bits)
  BY DEF end_read_write, SetF
<1> HIDE DEF st
<1>3. /\ IsFdc(g) /\ SameOrders(s.f, g) /\ g.status0 = st
  BY <1>1, DriveIs, FdcStatus
<1> HIDE DEF g
<1>4. IsMachine(u) /\ u.f = g /\ SameWorld(s, u)
  BY <1>3, SetFProps DEF SameWorld
<1> HIDE DEF u
<1>5. /\ IsMachine(t) /\ SameWorld(u, t) /\ SameOrders(g, t.f) /\ t.f.phase = 3
      /\ t.f.st0 = st
  <2>1. 7 \in Int /\ 7 > 0
    OBVIOUS
  <2> QED
    BY <1>1, <1>4, <2>1, Responded
<1>6. IsFdc(t.f) /\ t.f.msr = {"rqm", "dio", "busy"} /\ t.f.rcur < t.f.rlen
  <2>1. IsFdc(t.f)
    BY <1>5, DriveIs
  <2>2. t.f = enter_result_phase([u.f EXCEPT !.st0 = st], 7)
    BY <1>4, SetFProps DEF Respond, IsMachine
  <2>3. 7 \in Int /\ 7 > 0 /\ IsFdc(u.f)
    BY <1>3, <1>4
  <2>4. t.f.msr = {"rqm", "dio", "busy"} /\ t.f.rcur < t.f.rlen
    BY <1>1, <2>2, <2>3, ResultPhase
  <2> QED
    BY <2>1, <2>4
<1> HIDE DEF t
<1> DEFINE h == raise_irq(t.f)
<1>7. /\ IsFdc(h) /\ SameOrders(t.f, h) /\ h.irq6 = TRUE /\ h.sra = TRUE /\ h.st0 = st
      /\ h.phase = 3 /\ h.msr = t.f.msr /\ h.rcur = t.f.rcur /\ h.rlen = t.f.rlen
  BY <1>5, <1>6, Raised
<1> HIDE DEF h
<1>8. IsMachine(v) /\ v.f = h /\ SameWorld(t, v)
  BY <1>5, <1>7, SetFProps DEF SameWorld, h
<1>9. Turn(h)
  <2>1. h.left = 0
    BY <1>3, <1>5, <1>7 DEF SameOrders
  <2>2. h.rcur < h.rlen /\ "rqm" \in h.msr /\ "dio" \in h.msr
    BY <1>6, <1>7
  <2>3. h.phase = 3 /\ h.irq6 = h.sra
    BY <1>7
  <2> QED
    BY <2>1, <2>2, <2>3 DEF Turn
<1> HIDE DEF v
<1> QED
  BY <1>1, <1>2, <1>3, <1>4, <1>5, <1>7, <1>8, <1>9 DEF SameWorld, SameOrders

(* The same disk, wherever the head is. *)
SameDisk(d, q) ==
  /\ q.buffer = d.buffer /\ q.max_track = d.max_track /\ q.max_head = d.max_head
  /\ q.max_sect = d.max_sect /\ q.type = d.type /\ q.read_only = d.read_only

(* seek moves the head and leaves the disk. *)
LEMMA Sought ==
  ASSUME NEW d, IsDrive(d), NEW head \in Nat, NEW track \in Int, NEW sect \in Int
  PROVE  IsDrive(seek(d, head, track, sect)) /\ SameDisk(d, seek(d, head, track, sect))
<1> DEFINE mc == d.media_changed /\ ~(d.track # track /\ d.buffer # NoDisk)
           q == [d EXCEPT !.head = head, !.track = track, !.sect = sect, !.media_changed = mc]
<1>1. mc \in BOOLEAN
  BY DEF IsDrive
<1>2. seek(d, head, track, sect) = IF ~Moves(d, head, track, sect) THEN d ELSE q
  BY DEF seek
<1> HIDE DEF mc
<1>3. SameDisk(d, q)
  BY DEF IsDrive, SameDisk
<1>4. q \in [type : Nat, max_track : Nat, max_head : 0 .. 2, max_sect : Nat, track : Int,
             head : Nat, sect : Int, read_only : BOOLEAN, media_changed : BOOLEAN,
             buffer : {q.buffer}]
  BY <1>1, <1>3 DEF IsDrive, SameDisk
<1> HIDE DEF q
<1>5. IsDrive(q)
  BY <1>3, <1>4 DEF IsDrive, SameDisk
<1> QED
  BY <1>2, <1>3, <1>5 DEF SameDisk

(* A seek of the drive that is selected. *)
LEMMA SeekProps ==
  ASSUME NEW s, IsMachine(s), NEW head \in Nat, NEW track \in Int, NEW sect \in Int
  PROVE  /\ IsMachine(Seek(s, head, track, sect)) /\ Seek(s, head, track, sect).f = s.f
         /\ Seek(s, head, track, sect).chan = s.chan /\ Seek(s, head, track, sect).mem = s.mem
         /\ Drive(Seek(s, head, track, sect)) = seek(Drive(s), head, track, sect)
<1> DEFINE d == seek(Drive(s), head, track, sect)
           n == s.f.drive
           t == SetDrive(s, n, d)
<1>1. n \in 0 .. 1 /\ IsDrive(d)
  BY DriveIs, Sought
<1>2. Seek(s, head, track, sect) = t
  BY DEF Seek, SetDrive, Drive
<1> HIDE DEF d
<1>3. /\ IsMachine(t) /\ t.f = s.f /\ t.chan = s.chan /\ t.mem = s.mem /\ t.drives[n] = d
  BY <1>1, SetDriveProps
<1> HIDE DEF t
<1>4. Drive(t) = d
  BY <1>3 DEF Drive
<1> QED
  BY <1>2, <1>3, <1>4 DEF d

(* A reset ends in the command phase, with its interrupt pending. *)
LEMMA ResetProps ==
  ASSUME NEW s, IsMachine(s)
  PROVE  /\ IsMachine(reset_fdc(s)) /\ Turn(reset_fdc(s).f) /\ reset_fdc(s).f.phase = 1
         /\ reset_fdc(s).f.left = 0 /\ "run" \in reset_fdc(s).f.dor /\ reset_fdc(s).f.sra
         /\ reset_fdc(s).mem = s.mem /\ reset_fdc(s).chan = s.chan
         /\ reset_fdc(s).f.sense = 4
<1> DEFINE f1 == lower_irq(s.f)
           st == f1.status0 \cup {"ic1", "ic0"}
           f2 == [f1 EXCEPT !.dor = {"dma", "run"}, !.msr = {"rqm"}, !.drive = 0]
           f3 == [f2 EXCEPT !.status0 = st]
           f4 == [f3 EXCEPT !.rcur = 0, !.rlen = 0]
           f5 == enter_command_phase(f4)
           f6 == raise_irq(f5)
           f7 == [f6 EXCEPT !.sense = 4]
           ds == [n \in 0 .. 1 |-> seek(s.drives[n], 0, 0, 1)]
           t == [s EXCEPT !.f = f7, !.drives = ds]
<1>0. reset_fdc(s) = t
  BY DEF reset_fdc
<1>z. 0 \in Nat /\ 0 \in Int /\ 1 \in Int
  OBVIOUS
<1>1. IsFdc(f1) /\ f1.status0 = {}
  BY DriveIs, Lowered
<1> HIDE DEF f1
<1>2. IsFdc(f2) /\ f2.status0 = {} /\ f2.dor = {"dma", "run"} /\ f2.msr = {"rqm"}
  <2>1. {"dma", "run"} \in Dors /\ {"rqm"} \in Msrs /\ 0 \in 0 .. 1
    <3>1. {"dma", "run"} \in Dors
      BY DEF Dors
    <3>2. {"rqm"} \in Msrs
      BY DEF Msrs
    <3> QED
      BY <3>1, <3>2
  <2> QED
    BY <1>1, <2>1 DEF IsFdc
<1> HIDE DEF f2
<1>3. IsFdc(f3) /\ f3.dor = {"dma", "run"} /\ f3.msr = {"rqm"}
  <2>1. st \in Statuses
    BY <1>1 DEF Statuses, Bits
  <2> HIDE DEF st
  <2>2. IsFdc(f3) /\ SameOrders(f2, f3) /\ f3.msr = f2.msr
    BY <1>2, <2>1, FdcStatus
  <2> QED
    BY <1>2, <2>2 DEF SameOrders
<1> HIDE DEF f3
<1>4. IsFdc(f4) /\ f4.dor = {"dma", "run"}
  BY <1>3, <1>z DEF IsFdc
<1> HIDE DEF f4
<1>5. IsFdc(f5) /\ f5.left = 0 /\ f5.phase = 1 /\ f5.msr = {"rqm"} /\ f5.dor = {"dma", "run"}
  BY <1>4, CommandPhase
<1> HIDE DEF f5
<1>6. /\ IsFdc(f6) /\ f6.left = 0 /\ f6.phase = 1 /\ f6.msr = {"rqm"} /\ f6.dor = {"dma", "run"}
      /\ f6.irq6 = TRUE /\ f6.sra = TRUE
  BY <1>5, Raised DEF SameOrders
<1> HIDE DEF f6
<1>7. /\ IsFdc(f7) /\ f7.left = 0 /\ f7.phase = 1 /\ f7.msr = {"rqm"} /\ f7.dor = {"dma", "run"}
      /\ f7.irq6 = TRUE /\ f7.sra = TRUE /\ f7.sense = 4
  <2>1. 4 \in Senses
    BY DEF Senses
  <2> QED
    BY <1>6, <2>1 DEF IsFdc
<1> HIDE DEF f7
<1>8. ds = [n \in 0 .. 1 |-> ds[n]] /\ IsDrive(ds[0]) /\ IsDrive(ds[1])
  <2>1. IsDrive(s.drives[0]) /\ IsDrive(s.drives[1])
    BY DEF IsMachine
  <2>2. IsDrive(seek(s.drives[0], 0, 0, 1)) /\ IsDrive(seek(s.drives[1], 0, 0, 1))
    BY <1>z, <2>1, Sought
  <2> QED
    BY <2>2
<1> HIDE DEF ds
<1>9. t.f = f7 /\ t.drives = ds /\ t.chan = s.chan /\ t.mem = s.mem
  BY DEF IsMachine
<1>10. t \in [f : {t.f}, drives : {t.drives}, chan : {t.chan}, mem : {t.mem}]
  BY DEF IsMachine
<1> HIDE DEF t
<1>11. IsMachine(t)
  BY <1>7, <1>8, <1>9, <1>10 DEF IsMachine
<1>12. Turn(f7)
  <2>1. f7.irq6 = f7.sra /\ f7.sra
    BY <1>7
  <2> QED
    BY <1>7, <2>1 DEF Turn
<1> QED
  BY <1>0, <1>7, <1>9, <1>11, <1>12

(* SEEK and RECALIBRATE end in the command phase, with an interrupt. *)
LEMMA SeekEnds ==
  ASSUME NEW s, IsMachine(s)
  PROVE  /\ IsMachine(EndSeek(s)) /\ SameWorld(s, EndSeek(s)) /\ Turn(EndSeek(s).f)
         /\ EndSeek(s).f.phase = 1 /\ EndSeek(s).f.left = 0 /\ EndSeek(s).f.dor = s.f.dor
         /\ EndSeek(s).f.cmd = s.f.cmd
<1> DEFINE f1 == enter_command_phase(s.f)
           st == f1.status0 \cup {"se"}
           f2 == [f1 EXCEPT !.status0 = st]
           f3 == raise_irq(f2)
           t == SetF(s, f3)
<1>1. EndSeek(s) = t
  BY DEF EndSeek, SetF, IsMachine
<1>2. /\ IsFdc(f1) /\ f1.left = 0 /\ f1.phase = 1 /\ f1.msr = {"rqm"} /\ f1.dor = s.f.dor
      /\ f1.cmd = s.f.cmd
  BY DriveIs, CommandPhase
<1> HIDE DEF f1
<1>3. st \in Statuses
  <2>1. f1.status0 \in Statuses
    BY <1>2 DEF IsFdc
  <2> QED
    BY <2>1 DEF Statuses, Bits
<1> HIDE DEF st
<1>4. IsFdc(f2) /\ SameOrders(f1, f2) /\ f2.phase = 1 /\ f2.msr = {"rqm"}
  BY <1>2, <1>3, FdcStatus
<1> HIDE DEF f2
<1>5. /\ IsFdc(f3) /\ SameOrders(f2, f3) /\ f3.phase = 1 /\ f3.msr = {"rqm"} /\ f3.irq6 = TRUE
      /\ f3.sra = TRUE
  BY <1>4, Raised
<1> HIDE DEF f3
<1>6. IsMachine(t) /\ t.f = f3 /\ SameWorld(s, t)
  BY <1>5, SetFProps DEF SameWorld
<1>7. f3.left = 0 /\ f3.dor = s.f.dor /\ f3.cmd = s.f.cmd
  BY <1>2, <1>4, <1>5 DEF SameOrders
<1>8. Turn(f3)
  <2>1. f3.irq6 = f3.sra /\ f3.sra
    BY <1>5
  <2> QED
    BY <1>5, <1>7, <2>1 DEF Turn
<1> HIDE DEF t
<1> QED
  BY <1>1, <1>5, <1>6, <1>7, <1>8

(* A command without a response. *)
LEMMA CommandEnds ==
  ASSUME NEW s, IsMachine(s), s.f.irq6 = s.f.sra, ~s.f.sra => s.f.status0 = {},
         NEW dor \in Dors
  PROVE  LET g == [enter_command_phase(s.f) EXCEPT !.dor = dor]
         IN  /\ IsMachine(SetF(s, g)) /\ Turn(SetF(s, g).f) /\ SetF(s, g).f.phase = 1
             /\ SetF(s, g).f.left = 0 /\ SetF(s, g).f.dor = dor
             /\ SetF(s, g).f.cmd = s.f.cmd
<1> DEFINE f1 == enter_command_phase(s.f)
           g == [f1 EXCEPT !.dor = dor]
<1>1. /\ IsFdc(f1) /\ f1.left = 0 /\ f1.phase = 1 /\ f1.msr = {"rqm"} /\ SameStatus(s.f, f1)
      /\ f1.cmd = s.f.cmd
  BY DriveIs, CommandPhase
<1> HIDE DEF f1
<1>2. /\ IsFdc(g) /\ g.left = 0 /\ g.phase = 1 /\ g.msr = {"rqm"} /\ SameStatus(s.f, g)
      /\ g.dor = dor /\ g.cmd = s.f.cmd
  BY <1>1 DEF IsFdc, SameStatus
<1> HIDE DEF g
<1>3. Turn(g)
  BY <1>2 DEF Turn, SameStatus
<1>4. IsMachine(SetF(s, g)) /\ SetF(s, g).f = g
  BY <1>2, SetFProps
<1> QED
  BY <1>2, <1>3, <1>4 DEF g, f1

(* SENSE takes the interrupt, or says that there is none. *)
LEMMA SenseAnswers ==
  ASSUME NEW s, IsMachine(s), s.f.left = 0, s.f.irq6 = s.f.sra
  PROVE  LET t == exec_sense_interrupt_status(s)
         IN  /\ IsMachine(t) /\ Turn(t.f) /\ SameWorld(s, t) /\ t.f.phase = 3 /\ t.f.cmd = s.f.cmd
             /\ t.f.left = 0
<1> DEFINE st == IF s.f.sense > 0 THEN {"ic1", "ic0"} ELSE s.f.status0 \ {"head", "drive1"}
           c == IF s.f.sense > 0 THEN s.f.sense - 1 ELSE 0
           f1 == [s.f EXCEPT !.sense = c]
           u == SetF(s, f1)
           v == Respond(u, st, 2)
           f2 == lower_irq(v.f)
           f3 == [f2 EXCEPT !.status0 = {"ic1", "ic0"}]
           t == SetF(v, f3)
           w == Respond(s, {"ic1"}, 1)
<1>z. 2 \in Int /\ 2 > 0 /\ 1 \in Int /\ 1 > 0
  OBVIOUS
<1>1. exec_sense_interrupt_status(s) = IF s.f.sense = 0 /\ ~s.f.sra THEN w ELSE t
  BY DEF exec_sense_interrupt_status, SetF, IsMachine
<1>2. /\ st \in Statuses /\ {"ic1"} \in Statuses /\ {"ic1", "ic0"} \in Statuses
      /\ c \in Senses /\ IsFdc(s.f)
  <2>1. s.f.status0 \in Statuses /\ s.f.sense \in Senses /\ IsFdc(s.f)
    BY DriveIs DEF IsFdc
  <2>2. st \in Statuses /\ {"ic1"} \in Statuses /\ {"ic1", "ic0"} \in Statuses
    BY <2>1 DEF Statuses, Bits
  <2>3. c \in Senses
    BY <2>1 DEF Senses
  <2> QED
    BY <2>1, <2>2, <2>3
<1> HIDE DEF st, c
<1>3. IsMachine(w) /\ Turn(w.f) /\ SameWorld(s, w) /\ w.f.phase = 3 /\ w.f.cmd = s.f.cmd
  BY <1>2, <1>z, Responded DEF SameOrders
<1>4. IsFdc(f1) /\ f1.left = 0 /\ f1.irq6 = f1.sra /\ f1.cmd = s.f.cmd
  BY <1>2 DEF IsFdc
<1> HIDE DEF f1
<1>5. IsMachine(u) /\ SameWorld(s, u) /\ u.f = f1
  BY <1>4, SetFProps DEF SameWorld
<1> HIDE DEF u
<1>6. /\ IsMachine(v) /\ SameWorld(u, v) /\ Turn(v.f) /\ v.f.phase = 3 /\ IsFdc(v.f)
      /\ v.f.cmd = s.f.cmd
  BY <1>2, <1>4, <1>5, <1>z, Responded, DriveIs DEF SameOrders
<1> HIDE DEF v
<1>7. /\ IsFdc(f2) /\ SameOrders(v.f, f2) /\ ~f2.irq6 /\ ~f2.sra /\ f2.phase = 3
      /\ f2.msr = v.f.msr /\ f2.rcur = v.f.rcur /\ f2.rlen = v.f.rlen
  BY <1>6, Lowered DEF Turn
<1> HIDE DEF f2
<1>8. /\ IsFdc(f3) /\ SameOrders(f2, f3) /\ f3.irq6 = f2.irq6 /\ f3.sra = f2.sra
      /\ f3.phase = 3 /\ f3.msr = v.f.msr /\ f3.rcur = v.f.rcur /\ f3.rlen = v.f.rlen
  BY <1>2, <1>7, FdcStatus
<1> HIDE DEF f3
<1>9. Turn(f3)
  <2>1. f3.irq6 = f3.sra
    BY <1>7, <1>8, IsFdc(f3) DEF IsFdc
  <2>2. f3.left = v.f.left
    BY <1>7, <1>8 DEF SameOrders
  <2> QED
    BY <1>6, <1>8, <2>1, <2>2 DEF Turn
<1>10. IsMachine(t) /\ SameWorld(v, t) /\ t.f = f3
  BY <1>6, <1>8, SetFProps DEF SameWorld
<1>11. f3.cmd = s.f.cmd /\ f3.left = 0 /\ w.f.left = 0
  <2>1. v.f.left = 0 /\ w.f.left = 0
    BY <1>3, <1>6 DEF Turn
  <2> QED
    BY <1>6, <1>7, <1>8, <2>1 DEF SameOrders
<1> HIDE DEF t, w
<1> QED
  BY <1>1, <1>3, <1>5, <1>6, <1>8, <1>9, <1>10, <1>11 DEF SameWorld

(* READ_ID moves the head and the sector of the drive only. *)
LEMMA ReadIdAnswers ==
  ASSUME NEW s, IsMachine(s), s.f.left = 0, NEW a, a[1] \in Nat
  PROVE  LET t == exec_read_id(s, a) IN  /\ IsMachine(t) /\ Turn(t.f) /\ t.f.phase = 3 /\ t.f.cmd = s.f.cmd
             /\ t.f.left = 0
<1> DEFINE d == Drive(s)
           h == (a[1] \div 4) % 2
           x == IF d.max_sect = 0 THEN d.sect ELSE (d.sect % d.max_sect) + 1
           q == [d EXCEPT !.head = h, !.sect = x]
           n == s.f.drive
           u == SetDrive(s, n, q)
<1>1. exec_read_id(s, a) = end_read_write(u, {})
  BY DEF exec_read_id, SetDrive
<1>2. IsDrive(d) /\ n \in 0 .. 1
  BY DriveIs
<1> HIDE DEF d, n
<1>3. h \in Nat /\ x \in Int
  <2>1. d.sect \in Int /\ d.max_sect \in Nat
    BY <1>2 DEF IsDrive
  <2> QED
    BY <2>1
<1> HIDE DEF h, x
<1>4. IsDrive(q)
  <2>1. SameDisk(d, q)
    BY <1>2 DEF IsDrive, SameDisk
  <2>2. q \in [type : Nat, max_track : Nat, max_head : 0 .. 2, max_sect : Nat, track : Int,
               head : Nat, sect : Int, read_only : BOOLEAN, media_changed : BOOLEAN,
               buffer : {q.buffer}]
    BY <1>2, <1>3 DEF IsDrive
  <2> HIDE DEF q
  <2> QED
    BY <1>2, <2>1, <2>2 DEF IsDrive, SameDisk
<1> HIDE DEF q
<1>5. IsMachine(u) /\ u.f = s.f
  BY <1>2, <1>4, DrivePut
<1> HIDE DEF u
<1>6. {} \in Statuses
  BY DEF Statuses
<1> QED
  BY <1>1, <1>5, <1>6, EndedReadWrite DEF SameOrders

-----------------------------------------------------------------------------
(* The DMA channel *)

(* A register of the channel holds a word. *)
LEMMA WrapProps ==
  ASSUME NEW x \in Int
  PROVE  Wrap(x) \in Words /\ (x \in Words => Wrap(x) = x)
<1> DEFINE w == Base * Base
<1>1. w \in Nat /\ w > 0
  BY DmaAssumption
<1> HIDE DEF w
<1>2. x % w \in 0 .. w - 1 /\ (x \in 0 .. w - 1 => x % w = x)
  BY <1>1
<1> QED
  BY <1>2 DEF Wrap, Words, w

IsRead(x, d, memory, image, b) ==
  /\ x.chan \in Channels /\ x.image = image /\ DOMAIN x.mem = DOMAIN memory
  /\ x.failed \in BOOLEAN /\ (x.failed <=> b + d.count + 1 > Len(image))
  /\ x.mem = IF x.failed THEN memory ELSE Blob(memory, d.addr, image, b, d.count + 1)

(* do_read is a copy, or nothing at all. *)
LEMMA ReadProps ==
  ASSUME NEW d \in Channels, NEW memory, NEW image, IsBuffer(image), NEW b \in Int
  PROVE  IsRead(do_read(d, memory, image, b), d, memory, image, b)
<1> DEFINE f == count_get_8bit(d)
           w == Wrap(d.addr + f)
           c == [d EXCEPT !.addr = w]
           l == address_get_8bit(d)
<1>1. w \in Words /\ f = d.count + 1 /\ f \in Int /\ l = d.addr
  <2>1. d.addr \in Int /\ d.count \in Int /\ d.page = 0
    BY DmaAssumption DEF Channels, Words
  <2>2. f \in Int /\ f = d.count + 1
    BY <2>1 DEF count_get_8bit
  <2> HIDE DEF f
  <2>3. w \in Words
    BY <2>1, <2>2, WrapProps
  <2>4. l = d.addr
    BY <2>1, DmaAssumption DEF address_get_8bit
  <2> QED
    BY <2>2, <2>3, <2>4
<1> DEFINE x1 == [chan |-> d, mem |-> memory, image |-> image, failed |-> TRUE]
           x2 == [chan |-> c, mem |-> Blob(memory, l, image, b, f), image |-> image,
                  failed |-> FALSE]
<1>2. do_read(d, memory, image, b) = IF b + f > Len(image) THEN x1 ELSE x2
  BY DEF do_read
<1> HIDE DEF f, w, l
<1>3. c \in Channels
  BY <1>1 DEF Channels
<1>4. DOMAIN Blob(memory, l, image, b, f) = DOMAIN memory
  BY DEF Blob
<1>5. Len(image) \in Nat
  BY DEF IsBuffer
<1>6. b + f > Len(image) <=> b + d.count + 1 > Len(image)
  <2>1. d.count \in Int
    BY DmaAssumption DEF Channels, Words
  <2> QED
    BY <1>1, <1>5, <2>1
<1> HIDE DEF c
<1>7. /\ x1.chan = d /\ x1.mem = memory /\ x1.image = image /\ x1.failed = TRUE
      /\ x2.chan = c /\ x2.mem = Blob(memory, l, image, b, f) /\ x2.image = image
      /\ x2.failed = FALSE
  OBVIOUS
<1> HIDE DEF x1, x2
<1> DEFINE x == do_read(d, memory, image, b)
<1>8. CASE b + f > Len(image)
  BY <1>2, <1>6, <1>7, <1>8 DEF IsRead
<1>9. CASE ~(b + f > Len(image))
  <2>1. x = x2
    BY <1>2, <1>9
  <2> HIDE DEF x
  <2>2. x.failed = FALSE /\ ~(b + d.count + 1 > Len(image))
    BY <1>6, <1>7, <1>9, <2>1
  <2>3. x.mem = Blob(memory, d.addr, image, b, d.count + 1)
    BY <1>1, <1>7, <2>1
  <2>4. x.chan \in Channels /\ x.image = image /\ DOMAIN x.mem = DOMAIN memory
    BY <1>3, <1>4, <1>7, <2>1
  <2> QED
    BY <2>2, <2>3, <2>4 DEF x, IsRead
<1> QED
  BY <1>8, <1>9

(* One pass of do_write, with what it has left to do. *)
WriteStep(auto, memory, b, c, r) ==
  IF r.failed \/ r.left = 0 THEN r
  ELSE LET w == WritePass(r.chan, memory, r.image, b + c - r.left, r.left)
       IN  [chan |-> w.chan, image |-> w.image, failed |-> w.failed,
            left |-> IF auto THEN r.left - w.done ELSE 0]

(* Contents of a sector that is written: from the memory, or the old ones. *)
Contents(memory, image) ==
  {memory[i] : i \in Int} \cup {image[i] : i \in Int}

Writing(memory, image, c) ==
  [chan : Channels, image : [1 .. Len(image) -> Contents(memory, image)],
   failed : BOOLEAN, left : 0 .. c]

(* What one pass does. *)
IsPass(w, d, memory, buffer, image, b, c) ==
  LET h == Wrap(d.count + 1)
  IN  /\ w.chan \in Channels /\ w.failed \in BOOLEAN
      /\ w.failed <=> b + w.done > Len(buffer)
      /\ w.image \in [1 .. Len(buffer) -> Contents(memory, buffer)]
      /\ w.done = (IF c < h THEN c ELSE h) /\ w.done \in 0 .. c
      /\ ~w.failed => \A i \in 1 .. Len(buffer) :
           w.image[i] = IF i \in b + 1 .. b + w.done THEN memory[d.addr + i - b - 1]
                        ELSE image[i]
      /\ w.failed => w.image = image
      /\ ~w.failed /\ c >= h /\ d.auto =>
           /\ w.chan.addr = d.addr_init /\ w.chan.count = d.count_init
           /\ w.chan.addr_init = d.addr_init /\ w.chan.count_init = d.count_init
           /\ w.chan.page = d.page /\ w.chan.auto = d.auto

(* WritePass keeps the channel and the size of the image. *)
LEMMA PassProps ==
  ASSUME NEW d \in Channels, NEW memory, NEW buffer, IsBuffer(buffer),
         NEW image \in [1 .. Len(buffer) -> Contents(memory, buffer)],
         NEW b \in Int, NEW c \in Nat
  PROVE  IsPass(WritePass(d, memory, image, b, c), d, memory, buffer, image, b, c)
<1> DEFINE h == Wrap(d.count + 1)
           n == IF c < h THEN c ELSE h
           l == address_get_8bit(d)
           a1 == Wrap(d.addr + n)
           c1 == Wrap(d.count - n)
           moved == [d EXCEPT !.addr = a1, !.count = c1]
           again == [moved EXCEPT !.addr = d.addr_init, !.count = d.count_init]
           new == [i \in DOMAIN image |-> IF i \in b + 1 .. b + n THEN memory[l + i - b - 1]
                                          ELSE image[i]]
           ch == IF c >= h /\ d.auto THEN again ELSE moved
           w1 == [chan |-> d, image |-> image, failed |-> TRUE, done |-> n]
           w2 == [chan |-> ch, image |-> new, failed |-> FALSE, done |-> n]
           w == WritePass(d, memory, image, b, c)
<1>0. Len(image) = Len(buffer) /\ DOMAIN image = 1 .. Len(buffer) /\ Len(buffer) \in Nat
  <2>1. Len(buffer) \in Nat
    BY DEF IsBuffer
  <2>2. image \in Seq(Contents(memory, buffer))
    BY <2>1
  <2> QED
    BY <2>1, <2>2
<1>1. w = IF b + n > Len(image) THEN w1 ELSE w2
  BY DEF WritePass
<1> HIDE DEF w
<1>2. /\ d.addr \in Int /\ d.count \in Int /\ d.addr_init \in Words /\ d.count_init \in Words
      /\ d.page = 0 /\ l = d.addr
  BY DmaAssumption DEF Channels, Words, address_get_8bit
<1>3. h \in Nat
  BY <1>2, WrapProps DEF Words
<1> HIDE DEF h, l
<1>4. n \in 0 .. c /\ n \in Int
  BY <1>3
<1> HIDE DEF n
<1>5. a1 \in Words /\ c1 \in Words
  BY <1>2, <1>4, WrapProps
<1> HIDE DEF a1, c1
<1>6. moved \in Channels
  BY <1>5 DEF Channels
<1>7. again \in Channels
  BY <1>2, <1>6 DEF Channels
<1>8. /\ again.addr = d.addr_init /\ again.count = d.count_init /\ again.addr_init = d.addr_init
      /\ again.count_init = d.count_init /\ again.page = d.page /\ again.auto = d.auto
  BY <1>6 DEF Channels
<1> HIDE DEF moved, again
<1>9. new \in [1 .. Len(buffer) -> Contents(memory, buffer)]
  <2>1. ASSUME NEW i \in 1 .. Len(buffer)
        PROVE  (IF i \in b + 1 .. b + n THEN memory[l + i - b - 1] ELSE image[i])
                 \in Contents(memory, buffer)
    <3>1. l + i - b - 1 \in Int
      BY <1>0, <1>2
    <3> QED
      BY <3>1 DEF Contents
  <2> QED
    BY <1>0, <2>1
<1>10. \A i \in 1 .. Len(buffer) :
         new[i] = IF i \in b + 1 .. b + n THEN memory[d.addr + i - b - 1] ELSE image[i]
  BY <1>0, <1>2
<1> HIDE DEF new
<1>11. CASE b + n > Len(image)
  <2>1. w.chan = d /\ w.image = image /\ w.failed = TRUE /\ w.done = n
    BY <1>1, <1>11
  <2> HIDE DEF w1, w2
  <2>2. w.failed \in BOOLEAN /\ (w.failed <=> b + w.done > Len(buffer))
    BY <1>0, <1>11, <2>1
  <2> QED
    BY <1>4, <2>1, <2>2 DEF w, h, n, IsPass
<1>12. CASE ~(b + n > Len(image))
  <2>1. w.chan = ch /\ w.image = new /\ w.failed = FALSE /\ w.done = n
    BY <1>1, <1>12
  <2>2. w.failed <=> b + w.done > Len(buffer)
    BY <1>0, <1>12, <2>1
  <2>3. w.chan \in Channels /\ (c >= h /\ d.auto => w.chan = again)
    BY <1>6, <1>7, <2>1
  <2> HIDE DEF w1, w2, ch
  <2>4. ~w.failed /\ w.failed \in BOOLEAN
    BY <2>1
  <2> QED
    BY <1>4, <1>8, <1>9, <1>10, <2>1, <2>2, <2>3, <2>4 DEF w, h, n, IsPass
<1> QED
  BY <1>11, <1>12

(* The passes of do_write stay within its values. *)
LEMMA StepWrites ==
  ASSUME NEW memory, NEW buffer, IsBuffer(buffer), NEW b \in Int, NEW c \in Nat,
         NEW auto \in BOOLEAN, NEW r \in Writing(memory, buffer, c)
  PROVE  WriteStep(auto, memory, b, c, r) \in Writing(memory, buffer, c)
<1> DEFINE p == b + c - r.left
           m == r.left
           w == WritePass(r.chan, memory, r.image, p, m)
           left == IF auto THEN m - w.done ELSE 0
           t == [chan |-> w.chan, image |-> w.image, failed |-> w.failed, left |-> left]
<1>1. WriteStep(auto, memory, b, c, r) = IF r.failed \/ m = 0 THEN r ELSE t
  BY DEF WriteStep
<1>2. /\ p \in Int /\ m \in Nat /\ m <= c /\ r.chan \in Channels
      /\ r.image \in [1 .. Len(buffer) -> Contents(memory, buffer)]
  BY DEF Writing
<1> HIDE DEF p, m
<1>3. /\ w.chan \in Channels /\ w.failed \in BOOLEAN /\ w.done \in 0 .. m
      /\ w.image \in [1 .. Len(buffer) -> Contents(memory, buffer)]
  <2>1. IsPass(w, r.chan, memory, buffer, r.image, p, m)
    BY <1>2, PassProps
  <2> HIDE DEF w
  <2> QED
    BY <2>1 DEF IsPass
<1> HIDE DEF w
<1>4. left \in 0 .. c
  BY <1>2, <1>3
<1> HIDE DEF left
<1>5. t \in Writing(memory, buffer, c)
  BY <1>3, <1>4 DEF Writing
<1> QED
  BY <1>1, <1>5

FirstWrite(d, image, c) == [chan |-> d, image |-> image, failed |-> FALSE, left |-> c]

(* The passes of do_write, one by one. *)
IsWriteRun(r, d, memory, image, b, c) ==
  /\ r \in [0 .. c -> Writing(memory, image, c)] /\ r[0] = FirstWrite(d, image, c)
  /\ \A k \in 1 .. c : r[k] = WriteStep(d.auto, memory, b, c, r[k - 1])
  /\ do_write(d, memory, image, b, c) =
       [chan |-> r[c].chan, mem |-> memory, image |-> r[c].image, failed |-> r[c].failed]

(* do_write is a run of passes: its fold, taken one step at a time. *)
LEMMA WriteRun ==
  ASSUME NEW d \in Channels, NEW memory, NEW image, IsBuffer(image), NEW b \in Int,
         NEW c \in Nat
  PROVE  \E r : IsWriteRun(r, d, memory, image, b, c)
<1> DEFINE V == Writing(memory, image, c)
           p == FirstWrite(d, image, c)
           Pass(r, i) ==
             IF r.failed \/ r.left = 0 THEN r
             ELSE LET w == WritePass(r.chan, memory, r.image, b + c - r.left, r.left)
                  IN  [chan |-> w.chan, image |-> w.image, failed |-> w.failed,
                       left |-> IF d.auto THEN r.left - w.done ELSE 0]
           s == [i \in 1 .. c |-> i]
           Next1(r) == WriteStep(d.auto, memory, b, c, r)
           step == [x \in (1 .. c) \X V |-> Next1(x[2])]
           F(h) == [i \in SUBSET (1 .. c) |->
                      IF i = {} THEN p ELSE Next1(h[i \ {Max(i)}])]
           iter == CHOOSE h : h = F(h)
<1>1. p \in V
  <2>1. image \in [1 .. Len(image) -> Contents(memory, image)]
    <3>1. Len(image) \in Nat /\ image = [i \in 1 .. Len(image) |-> image[i]]
      BY DEF IsBuffer
    <3>2. \A i \in 1 .. Len(image) : image[i] \in Contents(memory, image)
      BY <3>1 DEF Contents
    <3> QED
      BY <3>1, <3>2, Zenon
  <2>2. c \in 0 .. c
    OBVIOUS
  <2> QED
    BY <2>1, <2>2 DEF Writing, FirstWrite
<1>2. \A r \in V : Next1(r) \in V
  <2>1. d.auto \in BOOLEAN
    BY DEF Channels
  <2> QED
    BY <2>1, StepWrites
<1>3. do_write(d, memory, image, b, c) =
        LET r == FoldLeft(Pass, p, s)
        IN  [chan |-> r.chan, mem |-> memory, image |-> r.image, failed |-> r.failed]
  BY DEF do_write, FirstWrite
<1>4. FoldLeft(Pass, p, s) = iter[1 .. c]
  <2>1. DOMAIN s = 1 .. c
    OBVIOUS
  <2> HIDE DEF s, p
  <2> QED
    BY <2>1 DEF FoldLeft, MapThenFoldSet, WriteStep
<1> HIDE DEF V, p, Pass, Next1, s
<1>5. step \in [(1 .. c) \X V -> V]
  <2>1. \A x \in (1 .. c) \X V : Next1(x[2]) \in V
    BY <1>2
  <2> QED
    BY <2>1
<1>6. PICK g \in [SUBSET (1 .. c) -> V] : FoldTable(g, c, p, step)
  BY <1>1, <1>5, FoldTableExists
<1>7. g = F(g)
  <2>1. ASSUME NEW i \in SUBSET (1 .. c), i # {}
        PROVE  g[i] = Next1(g[i \ {Max(i)}])
    <3>1. Max(i) \in 1 .. c
      BY <2>1, MaxProps
    <3>2. g[i \ {Max(i)}] \in V
      BY <1>6
    <3>3. g[i] = step[<<Max(i), g[i \ {Max(i)}]>>]
      BY <1>6, <2>1 DEF FoldTable
    <3> QED
      BY <3>1, <3>2, <3>3
  <2>2. g[{}] = p
    BY <1>6 DEF FoldTable
  <2>3. \A i \in SUBSET (1 .. c) : g[i] = F(g)[i]
    BY <2>1, <2>2
  <2> HIDE DEF step
  <2> QED
    BY <1>6, <2>3
<1>8. iter = F(iter)
  <2> HIDE DEF F
  <2> QED
    BY <1>7
<1> HIDE DEF iter
<1>9. iter[{}] = p
  BY <1>8
<1>10. \A i \in SUBSET (1 .. c) : i # {} /\ iter[i \ {Max(i)}] \in V =>
         iter[i] = step[<<Max(i), iter[i \ {Max(i)}]>>]
  <2>1. SUFFICES ASSUME NEW i \in SUBSET (1 .. c), i # {}, iter[i \ {Max(i)}] \in V
                 PROVE  iter[i] = step[<<Max(i), iter[i \ {Max(i)}]>>]
    OBVIOUS
  <2>2. Max(i) \in 1 .. c
    BY <2>1, MaxProps
  <2>3. iter[i] = Next1(iter[i \ {Max(i)}])
    BY <1>8, <2>1
  <2> QED
    BY <2>1, <2>2, <2>3
<1>11. PICK r \in [0 .. c -> V] : r[c] = iter[1 .. c] /\ IsRun(r, c, p, step)
  <2>1. IsFold(iter, V, c, p, step)
    BY <1>9, <1>10 DEF IsFold
  <2> HIDE DEF step
  <2> QED
    BY <1>1, <1>5, <2>1, FoldRun
<1>12. \A k \in 1 .. c : r[k] = Next1(r[k - 1])
  <2>1. TAKE k \in 1 .. c
  <2>2. k - 1 \in 0 .. c
    OBVIOUS
  <2>3. r[k - 1] \in V /\ r[k] = step[<<k, r[k - 1]>>]
    BY <1>11, <2>2 DEF IsRun
  <2> QED
    BY <2>3
<1>13. r[0] = p
  BY <1>11 DEF IsRun
<1>14. do_write(d, memory, image, b, c) =
         [chan |-> r[c].chan, mem |-> memory, image |-> r[c].image, failed |-> r[c].failed]
  BY <1>3, <1>4, <1>11
<1>15. IsWriteRun(r, d, memory, image, b, c)
  BY <1>11, <1>12, <1>13, <1>14 DEF IsWriteRun, V, p, Next1
<1> QED
  BY <1>15

(* What do_write leaves unchanged. *)
LEMMA WriteProps ==
  ASSUME NEW d \in Channels, NEW memory, NEW image, IsBuffer(image), NEW b \in Int,
         NEW c \in Nat
  PROVE  LET x == do_write(d, memory, image, b, c)
         IN  /\ x.chan \in Channels /\ x.mem = memory /\ x.failed \in BOOLEAN
             /\ IsBuffer(x.image) /\ Len(x.image) = Len(image)
<1> DEFINE x == do_write(d, memory, image, b, c)
<1>1. PICK r : IsWriteRun(r, d, memory, image, b, c)
  BY WriteRun
<1> DEFINE z == r[c]
<1>2. /\ z \in Writing(memory, image, c)
      /\ x = [chan |-> z.chan, mem |-> memory, image |-> z.image, failed |-> z.failed]
  BY <1>1 DEF IsWriteRun
<1> HIDE DEF z, x
<1>3. /\ z.chan \in Channels /\ z.failed \in BOOLEAN
      /\ z.image \in [1 .. Len(image) -> Contents(memory, image)]
  BY <1>2 DEF Writing
<1>4. IsBuffer(z.image) /\ Len(z.image) = Len(image)
  <2>1. Len(image) \in Nat
    BY DEF IsBuffer
  <2>2. z.image \in Seq(Contents(memory, image)) /\ Len(z.image) = Len(image)
    BY <1>3, <2>1
  <2> QED
    BY <2>1, <2>2, <1>3 DEF IsBuffer
<1>5. x.chan = z.chan /\ x.mem = memory /\ x.failed = z.failed /\ x.image = z.image
  BY <1>2
<1> QED
  BY <1>3, <1>4, <1>5 DEF x

-----------------------------------------------------------------------------
(* Transfers *)

(* What is left of a write's result when its data are forgotten. *)
WellWritten(x, memory, image) ==
  /\ x.chan \in Channels /\ x.mem = memory /\ x.failed \in BOOLEAN
  /\ IsBuffer(x.image) /\ Len(x.image) = Len(image)

LEMMA WriteTyped ==
  ASSUME NEW d \in Channels, NEW memory, NEW image, IsBuffer(image), NEW b \in Int,
         NEW c \in Nat
  PROVE  WellWritten(do_write(d, memory, image, b, c), memory, image)
BY WriteProps DEF WellWritten

(* Registers that a transfer sets. *)
LEMMA FdcSetters ==
  ASSUME NEW f, IsFdc(f), NEW n \in 0 .. 1, NEW e \in Int, NEW m \in Msrs
  PROVE  /\ IsFdc([f EXCEPT !.drive = n]) /\ IsFdc([f EXCEPT !.eot = e])
         /\ IsFdc([f EXCEPT !.msr = m])
BY DEF IsFdc

(* seek_next_sect moves the head of the drive that is selected. *)
LEMMA NextSector ==
  ASSUME NEW s, IsMachine(s), NEW mt \in BOOLEAN
  PROVE  LET t == seek_next_sect(s, mt)
         IN  /\ IsMachine(t) /\ SameOrders(s.f, t.f) /\ t.chan = s.chan /\ t.mem = s.mem
             /\ t.f.status0 \cap Errors = s.f.status0 \cap Errors
             /\ t.drives[s.f.drive].buffer = Drive(s).buffer
<1> DEFINE d    == Drive(s)
           wrap == d.sect >= d.max_sect \/ d.sect = s.f.eot
           side == wrap /\ mt /\ d.head = 0 /\ d.max_head = 2
           head == IF side THEN 1 ELSE IF wrap /\ mt THEN 0 ELSE d.head
           tr   == IF wrap /\ ~side THEN d.track + 1 ELSE d.track
           sect == IF wrap THEN 1 ELSE d.sect + 1
           st   == IF wrap /\ ~side THEN s.f.status0 \cup {"se"} ELSE s.f.status0
           q    == seek(d, head, tr, sect)
           n    == s.f.drive
           g    == [s.f EXCEPT !.status0 = st]
           u    == SetDrive(s, n, q)
           t    == SetF(u, g)
<1>1. seek_next_sect(s, mt) = t
  <2> HIDE DEF wrap, side, q
  <2>1. /\ s \in [f : {s.f}, drives : {s.drives}, chan : {s.chan}, mem : {s.mem}]
        /\ s.f = [s.f EXCEPT !.left = @]
    BY DEF IsMachine, IsFdc
  <2>2. seek_next_sect(s, mt) = [s EXCEPT !.drives[n] = q, !.f.status0 = st]
    BY ZenonT(60) DEF seek_next_sect, wrap, side, q
  <2>3. [s EXCEPT !.drives[n] = q, !.f.status0 = st] = t
    BY <2>1 DEF SetF, SetDrive
  <2> QED
    BY <2>2, <2>3
<1>2. n \in 0 .. 1 /\ IsDrive(d) /\ IsFdc(s.f)
  BY DriveIs
<1> HIDE DEF d
<1>3. head \in Nat /\ tr \in Int /\ sect \in Int
  <2>1. d.head \in Nat /\ d.track \in Int /\ d.sect \in Int
    BY <1>2 DEF IsDrive
  <2> QED
    BY <2>1
<1>4. st \in Statuses /\ st \cap Errors = s.f.status0 \cap Errors
  <2>1. s.f.status0 \in Statuses
    BY <1>2 DEF IsFdc
  <2> HIDE DEF wrap, side
  <2> QED
    BY <2>1 DEF Statuses, Bits, Errors
<1> HIDE DEF wrap, side, head, tr, sect, st
<1>5. IsDrive(q) /\ q.buffer = d.buffer
  BY <1>2, <1>3, Sought DEF SameDisk
<1> HIDE DEF q
<1>6. IsFdc(g) /\ SameOrders(s.f, g) /\ g.status0 = st
  BY <1>2, <1>4, FdcStatus
<1> HIDE DEF g, n
<1>7. /\ IsMachine(u) /\ u.chan = s.chan /\ u.mem = s.mem /\ u.drives[n] = q
  BY <1>2, <1>5, DrivePut
<1> HIDE DEF u
<1>8. /\ IsMachine(t) /\ t.f = g /\ t.chan = u.chan /\ t.mem = u.mem /\ t.drives = u.drives
  BY <1>6, <1>7, SetFProps
<1> HIDE DEF t
<1> QED
  BY <1>1, <1>4, <1>5, <1>6, <1>7, <1>8 DEF n, d

(* A command is being executed. *)
Executing(s) ==
  /\ IsMachine(s) /\ s.f.phase = 2 /\ s.f.left = 0 /\ s.f.irq6 = s.f.sra
  /\ "rqm" \in s.f.msr /\ "dio" \notin s.f.msr
  /\ ~s.f.sra => s.f.status0 = {}

(* The same command, perhaps with another drive, status and end of track. *)
SameCommand(s, t) ==
  /\ t.f.cmd = s.f.cmd /\ t.f.phase = s.f.phase /\ t.f.left = s.f.left /\ t.f.msr = s.f.msr
  /\ t.f.irq6 = s.f.irq6 /\ t.f.sra = s.f.sra /\ t.f.dor = s.f.dor

(* Execution goes on with another drive. *)
LEMMA Chosen ==
  ASSUME NEW s, Executing(s), NEW k \in 0 .. 1
  PROVE  LET t == [s EXCEPT !.f.drive = k]
         IN  /\ Executing(t) /\ SameCommand(s, t) /\ SameWorld(s, t) /\ t.f.drive = k
             /\ t.f.status0 = s.f.status0 /\ Drive(t) = s.drives[k]
<1> DEFINE g == [s.f EXCEPT !.drive = k]
           t == SetF(s, g)
<1>1. [s EXCEPT !.f.drive = k] = t
  BY DEF SetF
<1>2. IsMachine(s) /\ IsFdc(s.f)
  BY DriveIs DEF Executing
<1>3. /\ IsFdc(g) /\ g.drive = k /\ g.cmd = s.f.cmd /\ g.phase = s.f.phase
      /\ g.left = s.f.left /\ g.msr = s.f.msr /\ g.irq6 = s.f.irq6 /\ g.sra = s.f.sra
      /\ g.dor = s.f.dor /\ g.status0 = s.f.status0
  BY <1>2, FdcSetters DEF IsFdc
<1> HIDE DEF g
<1>4. IsMachine(t) /\ t.f = g /\ SameWorld(s, t)
  BY <1>2, <1>3, SetFProps DEF SameWorld
<1> HIDE DEF t
<1>5. Drive(t) = s.drives[k]
  BY <1>3, <1>4 DEF Drive, SameWorld
<1>6. Executing(t)
  BY <1>3, <1>4 DEF Executing
<1> QED
  BY <1>1, <1>3, <1>4, <1>5, <1>6 DEF SameCommand

(* What a transfer can come to: it is refused, fails or succeeds. *)
Outcome(s, t, k, x) ==
  \/ t.f.st0 \cap Errors # {} /\ t.mem = s.mem /\ t.drives[k].buffer = s.drives[k].buffer
  \/ x.failed /\ t.f.st0 \cap Errors # {} /\ t.mem = x.mem /\ t.drives[k].buffer = x.image
  \/ /\ ~x.failed /\ t.mem = x.mem /\ t.drives[k].buffer = x.image
     /\ t.f.st0 \cap Errors = s.f.status0 \cap Errors

(* A transfer in all its cases: what it returns, and whose turn it is then. *)
LEMMA ReadOrWrite ==
  ASSUME NEW s, Executing(s), s.f.cmd \in Transfers, NEW a, \A i \in 1 .. 6 : a[i] \in Nat,
         NEW write \in BOOLEAN, NEW mt \in BOOLEAN
  PROVE  LET t == start_read_write(s, a, write, mt)
             k == a[1] % 2
             d == s.drives[k]
             r == SeekResult(d, a[3], a[2], a[4])
             n == (IF mt THEN 2 * a[6] ELSE a[6]) - a[4] + 1
             b == chs2lba(d, a[2], a[3], a[4])
             x == IF write THEN do_write(s.chan, s.mem, d.buffer, b, n)
                  ELSE do_read(s.chan, s.mem, d.buffer, b)
             no == /\ t.f.st0 \cap Errors # {} /\ t.mem = s.mem
                   /\ t.drives[k].buffer = s.drives[k].buffer
         IN  /\ IsMachine(t) /\ Turn(t.f) /\ t.f.cmd = s.f.cmd /\ t.f.left = 0
             /\ t.f.phase = 3 => no \/ (r \notin {2, 3} /\ n > 0 /\ Outcome(s, t, k, x))
<1> DEFINE k  == a[1] % 2
           s1 == [s EXCEPT !.f.drive = k]
           d  == Drive(s1)
           r  == SeekResult(d, a[3], a[2], a[4])
           s2 == Seek(s1, a[3], a[2], a[4])
           st == IF r = 1 THEN s2.f.status0 \cup {"se"} ELSE s2.f.status0
           g3 == [s2.f EXCEPT !.status0 = st]
           s3 == SetF(s2, g3)
           n  == (IF mt THEN 2 * a[6] ELSE a[6]) - a[4] + 1
           b  == chs2lba(d, a[2], a[3], a[4])
           g4 == [s3.f EXCEPT !.eot = a[6]]
           s4 == SetF(s3, g4)
           x  == IF write THEN do_write(s4.chan, s4.mem, d.buffer, b, n)
                 ELSE do_read(s4.chan, s4.mem, d.buffer, b)
           s5 == [s4 EXCEPT !.f.msr = @ \ {"rqm"}, !.chan = x.chan, !.mem = x.mem,
                            !.drives[s4.f.drive].buffer = x.image]
           e2 == end_read_write(s2, {"ic0"})
           e3 == end_read_write(s3, {"ic0"})
           e4 == end_read_write(s4, {"ic0", "se"})
           e5 == end_read_write(s5, {"ic0"})
           e6 == end_read_write(seek_next_sect(s5, mt), {})
           no(t) == /\ t.f.st0 \cap Errors # {} /\ t.mem = s.mem
                    /\ t.drives[k].buffer = s.drives[k].buffer
           Fine(t) == IsMachine(t) /\ Turn(t.f) /\ t.f.cmd = s.f.cmd /\ t.f.left = 0
           t  == start_read_write(s, a, write, mt)
<1>a. /\ r \in {2, 3} => t = e2
      /\ r \notin {2, 3} /\ n <= 0 => t = e3
      /\ r \notin {2, 3} /\ n > 0 /\ write /\ d.read_only => t = e4
      /\ r \notin {2, 3} /\ n > 0 /\ ~(write /\ d.read_only) =>
           t = CASE "dma" \notin s4.f.dor -> s4
                 [] "dma" \in s4.f.dor /\ x.failed -> e5
                 [] OTHER -> e6
  <2> DEFINE body == CASE r \in {2, 3} -> e2
                       [] r \notin {2, 3} /\ n <= 0 -> e3
                       [] r \notin {2, 3} /\ n > 0 /\ write /\ d.read_only -> e4
                       [] r \notin {2, 3} /\ n > 0 /\ ~(write /\ d.read_only) ->
                            CASE "dma" \notin s4.f.dor -> s4
                              [] "dma" \in s4.f.dor /\ x.failed -> e5
                              [] OTHER -> e6
          e == CASE "dma" \notin s4.f.dor -> s4
                 [] "dma" \in s4.f.dor /\ x.failed -> e5
                 [] OTHER -> e6
  <2>1. t = body
    BY DEF start_read_write, SetF
  <2>2. n \in Int
    OBVIOUS
  <2> HIDE DEF t, e2, e3, e4, e, r, n, d
  <2>3. body = CASE r \in {2, 3} -> e2
                 [] r \notin {2, 3} /\ n <= 0 -> e3
                 [] r \notin {2, 3} /\ n > 0 /\ write /\ d.read_only -> e4
                 [] r \notin {2, 3} /\ n > 0 /\ ~(write /\ d.read_only) -> e
    BY DEF e
  <2> HIDE DEF body
  <2>4. /\ r \in {2, 3} => t = e2
        /\ r \notin {2, 3} /\ n <= 0 => t = e3
        /\ r \notin {2, 3} /\ n > 0 /\ write /\ d.read_only => t = e4
        /\ r \notin {2, 3} /\ n > 0 /\ ~(write /\ d.read_only) => t = e
    BY <2>1, <2>2, <2>3
  <2> QED
    BY <2>4 DEF e
<1> HIDE DEF t
<1>0. IsMachine(s) /\ k \in 0 .. 1 /\ a[2] \in Nat /\ a[3] \in Nat /\ a[4] \in Nat /\ a[6] \in Nat
  <2>1. a[1] \in Nat
    OBVIOUS
  <2> QED
    BY <2>1 DEF Executing
<1> HIDE DEF k
<1>1. /\ Executing(s1) /\ SameCommand(s, s1) /\ SameWorld(s, s1) /\ s1.f.drive = k
      /\ s1.f.status0 = s.f.status0 /\ d = s.drives[k]
  BY <1>0, Chosen
<1> HIDE DEF s1
<1>2. /\ IsMachine(s2) /\ s2.f = s1.f /\ s2.chan = s.chan /\ s2.mem = s.mem
      /\ s2.drives[k].buffer = d.buffer /\ SameDisk(d, s2.drives[k])
  <2>1. /\ IsMachine(s2) /\ s2.f = s1.f /\ s2.chan = s1.chan /\ s2.mem = s1.mem
        /\ Drive(s2) = seek(d, a[3], a[2], a[4])
    <3>1. a[3] \in Nat /\ a[2] \in Int /\ a[4] \in Int
      BY <1>0
    <3> QED
      BY <1>1, <3>1, SeekProps DEF Executing
  <2> HIDE DEF s2
  <2>2. Drive(s2) = s2.drives[k]
    BY <1>1, <2>1 DEF Drive
  <2>3. IsDrive(d)
    BY <1>1, DriveIs DEF Executing
  <2> HIDE DEF d
  <2>4. SameDisk(d, s2.drives[k])
    <3>1. a[3] \in Nat /\ a[2] \in Int /\ a[4] \in Int
      BY <1>0
    <3> QED
      BY <2>1, <2>2, <2>3, <3>1, Sought
  <2> QED
    BY <1>1, <2>1, <2>4 DEF SameWorld, SameDisk
<1> HIDE DEF s2, d, r, b, n
<1>3. /\ IsMachine(s3) /\ SameCommand(s, s3) /\ s3.f.drive = k /\ s3.chan = s.chan
      /\ s3.mem = s.mem /\ s3.drives = s2.drives
      /\ s3.f.status0 \cap Errors = s.f.status0 \cap Errors
  <2>1. s2.f.status0 \in Statuses /\ IsFdc(s2.f)
    BY <1>2, DriveIs DEF IsFdc
  <2>2. st \in Statuses /\ st \cap Errors = s.f.status0 \cap Errors
    BY <1>1, <1>2, <2>1 DEF Statuses, Bits, Errors
  <2> HIDE DEF st
  <2>3. /\ IsFdc(g3) /\ SameOrders(s2.f, g3) /\ g3.status0 = st /\ g3.sra = s2.f.sra
        /\ g3.irq6 = s2.f.irq6 /\ g3.phase = s2.f.phase /\ g3.msr = s2.f.msr
    BY <2>1, <2>2, FdcStatus
  <2> HIDE DEF g3
  <2>4. IsMachine(s3) /\ s3.f = g3 /\ SameWorld(s2, s3)
    BY <1>2, <2>3, SetFProps DEF SameWorld
  <2> HIDE DEF s3
  <2>5. SameCommand(s, s3) /\ s3.f.drive = k
    BY <1>1, <1>2, <2>3, <2>4 DEF SameCommand, SameOrders
  <2> QED
    BY <1>2, <2>2, <2>3, <2>4, <2>5 DEF SameWorld
<1> HIDE DEF s3
<1>4. /\ IsMachine(s4) /\ SameCommand(s, s4) /\ s4.f.drive = k /\ s4.chan = s.chan
      /\ s4.mem = s.mem /\ s4.drives = s2.drives
      /\ s4.f.status0 \cap Errors = s.f.status0 \cap Errors
  <2>1. IsFdc(s3.f)
    BY <1>3, DriveIs
  <2>2. /\ IsFdc(g4) /\ g4.cmd = s3.f.cmd /\ g4.phase = s3.f.phase /\ g4.left = s3.f.left
        /\ g4.msr = s3.f.msr /\ g4.irq6 = s3.f.irq6 /\ g4.sra = s3.f.sra
        /\ g4.dor = s3.f.dor /\ g4.status0 = s3.f.status0 /\ g4.drive = s3.f.drive
    BY <1>0, <2>1, FdcSetters DEF IsFdc
  <2> HIDE DEF g4
  <2>3. IsMachine(s4) /\ s4.f = g4 /\ SameWorld(s3, s4)
    BY <1>3, <2>2, SetFProps DEF SameWorld
  <2> HIDE DEF s4
  <2> QED
    BY <1>3, <2>2, <2>3 DEF SameCommand, SameWorld
<1> HIDE DEF s4
<1>b. s.f.cmd \in Transfers /\ s.f.left = 0 /\ s.f.irq6 = s.f.sra
  BY DEF Executing
<1>c. {"ic0"} \in Statuses /\ {"ic0", "se"} \in Statuses /\ {} \in Statuses
  BY DEF Statuses, Bits
<1>5. Fine(e2) /\ no(e2)
  <2>1. s2.f.left = 0 /\ s2.f.cmd = s.f.cmd
    BY <1>1, <1>2, <1>b DEF SameCommand
  <2>2. /\ IsMachine(e2) /\ SameWorld(s2, e2) /\ Turn(e2.f) /\ SameOrders(s2.f, e2.f)
        /\ e2.f.st0 \cap Errors = (s2.f.status0 \cup {"ic0"}) \cap Errors
    BY <1>2, <1>c, <2>1, EndedReadWrite
  <2> HIDE DEF e2
  <2>3. "ic0" \in e2.f.st0 \cap Errors
    BY <2>2 DEF Errors
  <2> QED
    BY <1>1, <1>2, <2>1, <2>2, <2>3 DEF SameWorld, SameOrders
<1>6. Fine(e3) /\ no(e3)
  <2>1. s3.f.left = 0 /\ s3.f.cmd = s.f.cmd
    BY <1>3, <1>b DEF SameCommand
  <2>2. /\ IsMachine(e3) /\ SameWorld(s3, e3) /\ Turn(e3.f) /\ SameOrders(s3.f, e3.f)
        /\ e3.f.st0 \cap Errors = (s3.f.status0 \cup {"ic0"}) \cap Errors
    BY <1>3, <1>c, <2>1, EndedReadWrite
  <2> HIDE DEF e3
  <2>3. "ic0" \in e3.f.st0 \cap Errors
    BY <2>2 DEF Errors
  <2> QED
    BY <1>1, <1>2, <1>3, <2>1, <2>2, <2>3 DEF SameWorld, SameOrders
<1>7. Fine(e4) /\ no(e4)
  <2>1. s4.f.left = 0 /\ s4.f.cmd = s.f.cmd
    BY <1>4, <1>b DEF SameCommand
  <2>2. /\ IsMachine(e4) /\ SameWorld(s4, e4) /\ Turn(e4.f) /\ SameOrders(s4.f, e4.f)
        /\ e4.f.st0 \cap Errors = (s4.f.status0 \cup {"ic0", "se"}) \cap Errors
    BY <1>4, <1>c, <2>1, EndedReadWrite
  <2> HIDE DEF e4
  <2>3. "ic0" \in e4.f.st0 \cap Errors
    BY <2>2 DEF Errors
  <2> QED
    BY <1>1, <1>2, <1>4, <2>1, <2>2, <2>3 DEF SameWorld, SameOrders
<1>8. Fine(s4) /\ s4.f.phase = 2
  <2>1. s4.f.phase = 2 /\ s4.f.cmd = s.f.cmd /\ s4.f.left = 0
    BY <1>4 DEF SameCommand, Executing
  <2>2. Turn(s4.f)
    BY <1>4, <1>b, <2>1 DEF Turn, SameCommand, Executing
  <2> QED
    BY <1>4, <2>1, <2>2
<1>9. n > 0 => Fine(e5) /\ (x.failed => Outcome(s, e5, k, x))
            /\ Fine(e6) /\ (~x.failed => Outcome(s, e6, k, x))
  <2>0. SUFFICES ASSUME n > 0
                 PROVE  /\ Fine(e5) /\ (x.failed => Outcome(s, e5, k, x))
                        /\ Fine(e6) /\ (~x.failed => Outcome(s, e6, k, x))
    OBVIOUS
  <2> DEFINE q4 == s4.drives[k]
             q5 == [q4 EXCEPT !.buffer = x.image]
             m5 == s4.f.msr \ {"rqm"}
             g5 == [s4.f EXCEPT !.msr = m5]
             u5 == SetDrive(SetF(s4, g5), k, q5)
             v5 == [u5 EXCEPT !.chan = x.chan, !.mem = x.mem]
             s6 == seek_next_sect(s5, mt)
  <2>1. s5 = v5
    BY <1>4 DEF SetDrive, SetF, IsMachine
  <2>2. IsDrive(d) /\ IsDrive(q4) /\ SameDisk(d, q4) /\ IsFdc(s4.f) /\ s4.f.left = 0
    <3>1. IsDrive(q4) /\ IsFdc(s4.f)
      BY <1>4, DriveIs DEF Drive
    <3>2. IsDrive(d)
      BY <1>1, DriveIs DEF Executing, d
    <3>3. SameDisk(d, q4)
      BY <1>1, <1>2, <1>4
    <3> QED
      BY <1>4, <1>b, <3>1, <3>2, <3>3 DEF SameCommand
  <2>3. /\ x.chan \in Channels /\ DOMAIN x.mem = DOMAIN s4.mem /\ x.failed \in BOOLEAN
        /\ IsBuffer(x.image) /\ Len(x.image) = Len(d.buffer)
    <3>1. n \in Nat
      BY <1>0, <2>0 DEF n
    <3>2. b \in Int
      <4>1. d.max_head \in Int /\ d.max_sect \in Int
        BY <2>2 DEF IsDrive
      <4>2. a[2] * d.max_head + a[3] \in Int
        BY <1>0, <4>1
      <4>3. (a[2] * d.max_head + a[3]) * d.max_sect \in Int
        BY <4>1, <4>2
      <4> QED
        BY <1>0, <4>3 DEF b, chs2lba
    <3>3. s4.chan \in Channels /\ IsBuffer(d.buffer)
      BY <1>4, <2>2 DEF IsMachine, IsDrive
    <3> DEFINE p == do_write(s4.chan, s4.mem, d.buffer, b, n)
               c == do_read(s4.chan, s4.mem, d.buffer, b)
    <3>4. WellWritten(p, s4.mem, d.buffer)
      <4> HIDE DEF b, n
      <4> QED
        BY <3>1, <3>2, <3>3, WriteTyped
    <3>5. IsRead(c, s4.chan, s4.mem, d.buffer, b)
      BY <3>2, <3>3, ReadProps
    <3>6. x = IF write THEN p ELSE c
      OBVIOUS
    <3> HIDE DEF p, c, x
    <3> QED
      BY <3>3, <3>4, <3>5, <3>6 DEF IsRead, WellWritten
  <2> HIDE DEF s5, x
  <2>4. IsDrive(q5) /\ q5.buffer = x.image
    <3>1. /\ q5.buffer = x.image /\ q5.max_track = q4.max_track /\ q5.max_head = q4.max_head
          /\ q5.max_sect = q4.max_sect
      BY <2>2 DEF IsDrive
    <3>2. q5 \in [type : Nat, max_track : Nat, max_head : 0 .. 2, max_sect : Nat, track : Int,
                  head : Nat, sect : Int, read_only : BOOLEAN, media_changed : BOOLEAN,
                  buffer : {q5.buffer}]
      BY <2>2 DEF IsDrive
    <3> HIDE DEF q5
    <3>3. Len(q5.buffer) = q5.max_track * q5.max_head * q5.max_sect
      BY <2>2, <2>3, <3>1 DEF IsDrive, SameDisk
    <3> QED
      BY <2>3, <3>1, <3>2, <3>3 DEF IsDrive
  <2> HIDE DEF q5, q4
  <2>5. IsFdc(g5) /\ SameOrders(s4.f, g5) /\ g5.status0 = s4.f.status0
    <3>1. m5 \in Msrs
      BY <2>2 DEF IsFdc, Msrs
    <3> HIDE DEF m5
    <3> QED
      BY <2>2, <3>1, FdcSetters DEF IsFdc, SameOrders
  <2> HIDE DEF g5
  <2>6. /\ IsMachine(u5) /\ u5.f = g5 /\ u5.chan = s4.chan /\ u5.mem = s4.mem
        /\ u5.drives[k] = q5
    <3> DEFINE w5 == SetF(s4, g5)
    <3>1. IsMachine(w5) /\ w5.f = g5 /\ w5.chan = s4.chan /\ w5.mem = s4.mem
      BY <1>4, <2>5, SetFProps
    <3> HIDE DEF w5
    <3>2. u5 = SetDrive(w5, k, q5)
      BY DEF w5
    <3> HIDE DEF u5
    <3> QED
      BY <1>0, <2>4, <3>1, <3>2, SetDriveProps
  <2> HIDE DEF u5
  <2>7. /\ IsMachine(v5) /\ v5.f = g5 /\ v5.mem = x.mem /\ v5.drives[k] = q5
    <3>1. v5.f = g5 /\ v5.drives = u5.drives /\ v5.chan = x.chan /\ v5.mem = x.mem
      BY <2>6 DEF IsMachine
    <3>2. v5 \in [f : {v5.f}, drives : {v5.drives}, chan : {v5.chan}, mem : {v5.mem}]
      BY <2>6 DEF IsMachine
    <3> HIDE DEF v5
    <3>3. DOMAIN x.mem = 0 .. MemSize - 1
      BY <1>4, <2>3 DEF IsMachine
    <3> QED
      BY <2>3, <2>5, <2>6, <3>1, <3>2, <3>3 DEF IsMachine
  <2> HIDE DEF v5
  <2>8. s5.f.left = 0 /\ s5.f.cmd = s.f.cmd /\ s5.f.drive = k
    BY <1>4, <2>1, <2>2, <2>5, <2>7 DEF SameCommand, SameOrders
  <2>9. s5.f.status0 \cap Errors = s.f.status0 \cap Errors
    BY <1>4, <2>1, <2>5, <2>7
  <2>10. Fine(e5) /\ (x.failed => Outcome(s, e5, k, x))
    <3>1. /\ IsMachine(e5) /\ SameWorld(s5, e5) /\ Turn(e5.f) /\ SameOrders(s5.f, e5.f)
          /\ e5.f.st0 \cap Errors = (s5.f.status0 \cup {"ic0"}) \cap Errors
      BY <1>c, <2>1, <2>7, <2>8, EndedReadWrite
    <3> HIDE DEF e5
    <3>2. "ic0" \in e5.f.st0 \cap Errors
      BY <3>1 DEF Errors
    <3>3. e5.mem = x.mem /\ e5.drives[k].buffer = x.image
      BY <2>1, <2>4, <2>7, <3>1 DEF SameWorld
    <3>4. Fine(e5)
      BY <2>8, <3>1 DEF SameOrders
    <3> QED
      BY <3>2, <3>3, <3>4 DEF Outcome
  <2>11. Fine(e6) /\ (~x.failed => Outcome(s, e6, k, x))
    <3>1. /\ IsMachine(s6) /\ SameOrders(s5.f, s6.f) /\ s6.mem = s5.mem
          /\ s6.f.status0 \cap Errors = s5.f.status0 \cap Errors
          /\ s6.drives[k].buffer = Drive(s5).buffer
      BY <2>1, <2>7, <2>8, NextSector
    <3> HIDE DEF s6
    <3>2. e6 = end_read_write(s6, {})
      BY DEF s6
    <3> HIDE DEF e6
    <3>3. s6.f.left = 0
      BY <2>8, <3>1 DEF SameOrders
    <3>4. /\ IsMachine(e6) /\ SameWorld(s6, e6) /\ Turn(e6.f) /\ SameOrders(s6.f, e6.f)
          /\ e6.f.st0 \cap Errors = (s6.f.status0 \cup {}) \cap Errors
      BY <1>c, <3>1, <3>2, <3>3, EndedReadWrite
    <3>5. e6.mem = x.mem /\ e6.drives[k].buffer = x.image
      BY <2>1, <2>4, <2>7, <2>8, <3>1, <3>4 DEF SameWorld, Drive
    <3>6. Fine(e6)
      BY <2>8, <3>1, <3>4 DEF SameOrders
    <3>7. e6.f.st0 \cap Errors = s.f.status0 \cap Errors
      BY <2>9, <3>1, <3>4
    <3> QED
      BY <3>5, <3>6, <3>7 DEF Outcome
  <2> QED
    BY <2>10, <2>11
<1>10. (IF write THEN do_write(s.chan, s.mem, s.drives[k].buffer, b, n)
        ELSE do_read(s.chan, s.mem, s.drives[k].buffer, b)) = x
  BY <1>1, <1>4
<1> DEFINE good == Fine(t) /\ (t.f.phase = 3 => no(t) \/ (r \notin {2, 3} /\ n > 0
                                                           /\ Outcome(s, t, k, x)))
<1>11. good
  <2>1. n > 0 \/ n <= 0
    BY <1>0 DEF n
  <2> HIDE DEF r, n, d, e2, e3, e4, e5, e6, s4, x, no
  <2> QED
    BY <1>5, <1>6, <1>7, <1>8, <1>9, <1>a, <2>1
<1> QED
  BY <1>1, <1>10, <1>11 DEF t, k, d, r, n, b

-----------------------------------------------------------------------------
(* Commands *)

(* Every command ends with a response, in the command phase, or is a transfer. *)
LEMMA ExecuteProps ==
  ASSUME NEW s, Executing(s), NEW a \in Arguments, Len(a) = Argc[s.f.cmd]
  PROVE  LET t == Execute(s, a)
         IN  IsMachine(t) /\ Turn(t.f) /\ t.f.cmd = s.f.cmd /\ t.f.left = 0
<1> DEFINE c == s.f.cmd
           k == a[1] % 2
           here == IF a = << >> THEN s ELSE [s EXCEPT !.f.drive = k]
           Fine(t) == IsMachine(t) /\ Turn(t.f) /\ t.f.cmd = c /\ t.f.left = 0
           eR  == start_read_write(s, a, FALSE, c = "READ_MT")
           eW  == start_read_write(s, a, TRUE, c = "WRITE_MT")
           eS  == EndSeek(Seek(here, Drive(here).head, a[2], Drive(here).sect))
           e0  == EndSeek(Seek(here, 0, 0, 1))
           eI  == exec_sense_interrupt_status(s)
           eF  == end_read_write(here, IF Drive(here).read_only THEN {"ic0", "se"} ELSE {})
           eD  == exec_read_id(s, a)
           dor == IF a[2] % 2 = 1 THEN s.f.dor \ {"dma"} ELSE s.f.dor \cup {"dma"}
           eP  == SetF(s, [enter_command_phase(s.f) EXCEPT !.dor = dor])
           h   == (a[1] \div 4) % 2
           uH  == [here EXCEPT !.drives[here.f.drive].head = h]
           eH  == Respond(uH, {}, 1)
           eC  == SetF(s, enter_command_phase(s.f))
           e10 == Respond(s, {}, 10)
           e1  == Respond(s, {}, 1)
           uU  == [s EXCEPT !.f.status0 = {"ic1"}]
           eU  == Respond(uU, {"ic1"}, 1)
           t   == Execute(s, a)
<1>1. /\ c \in {"READ", "READ_MT"} => t = eR
      /\ c \in {"WRITE", "WRITE_MT"} => t = eW
      /\ c = "SEEK" => t = eS
      /\ c = "RECALIBRATE" => t = e0
      /\ c = "SENSE" => t = eI
      /\ c = "FORMAT" => t = eF
      /\ c = "READ_ID" => t = eD
      /\ c = "SPECIFY" => t = eP
      /\ c = "SENSE_DRIVE" => t = eH
      /\ c \in {"PERPENDICULAR", "CONFIGURE"} => t = eC
      /\ c = "DUMP_REGS" => t = e10
      /\ c \in {"LOCK", "VERSION", "PART_ID"} => t = e1
      /\ c \in {"UNKNOWN", "READ_TRACK"} => t = eU
  <2>1. t = CASE c \in {"READ", "READ_MT"} -> eR
              [] c \in {"WRITE", "WRITE_MT"} -> eW
              [] c = "SEEK" -> eS
              [] c = "RECALIBRATE" -> e0
              [] c = "SENSE" -> eI
              [] c = "FORMAT" -> eF
              [] c = "READ_ID" -> eD
              [] c = "SPECIFY" -> eP
              [] c = "SENSE_DRIVE" -> eH
              [] c \in {"PERPENDICULAR", "CONFIGURE"} -> eC
              [] c = "DUMP_REGS" -> e10
              [] c \in {"LOCK", "VERSION", "PART_ID"} -> e1
              [] c \in {"UNKNOWN", "READ_TRACK"} -> eU
    BY DEF Execute, SetF
  <2> HIDE DEF t, c, eR, eW, eS, e0, eI, eF, eD, eP, eH, eC, e10, e1, eU
  <2> QED
    BY <2>1
<1> HIDE DEF t
<1>2. c \in Orders /\ IsMachine(s) /\ IsFdc(s.f) /\ s.f.dor \in Dors
  <2>1. IsMachine(s) /\ IsFdc(s.f)
    BY DriveIs DEF Executing
  <2> QED
    BY <2>1 DEF IsFdc
<1>3. /\ c \in Transfers => Argc[c] = 8
      /\ c \in {"SEEK", "SPECIFY"} => Argc[c] = 2
      /\ c \in {"RECALIBRATE", "READ_ID", "SENSE_DRIVE", "PERPENDICULAR"} => Argc[c] = 1
      /\ c = "FORMAT" => Argc[c] = 5
      /\ c \in {"READ", "READ_MT", "WRITE", "WRITE_MT", "SEEK", "RECALIBRATE", "SENSE", "FORMAT",
                "READ_ID", "SPECIFY", "SENSE_DRIVE", "PERPENDICULAR", "CONFIGURE", "DUMP_REGS",
                "LOCK", "VERSION", "PART_ID", "UNKNOWN", "READ_TRACK"}
  <2> HIDE DEF c
  <2> QED
    BY <1>2 DEF Argc, Orders, Transfers
<1>4. /\ \A i \in 1 .. Len(a) : a[i] \in Nat
      /\ Len(a) = 0 <=> a = << >>
  BY DEF Arguments
<1>5. /\ Executing(here) /\ here.f.cmd = c /\ here.f.left = 0
      /\ IsMachine(here) /\ here.f.drive \in 0 .. 1 /\ IsDrive(Drive(here))
  <2>1. CASE a = << >>
    <3>1. here = s
      BY <2>1
    <3> HIDE DEF here
    <3> QED
      BY <1>2, <3>1, DriveIs DEF Executing
  <2>2. CASE a # << >>
    <3>1. a[1] \in Nat
      BY <1>4, <2>2 DEF Arguments
    <3>2. k \in 0 .. 1
      BY <3>1
    <3> HIDE DEF k
    <3> DEFINE g == [s EXCEPT !.f.drive = k]
    <3>3. Executing(g) /\ SameCommand(s, g)
      BY <3>2, Chosen
    <3> HIDE DEF g
    <3>4. here = g
      BY <2>2 DEF g
    <3> HIDE DEF here
    <3> QED
      BY <3>3, <3>4, DriveIs DEF Executing, SameCommand
  <2> QED
    BY <2>1, <2>2
<1> HIDE DEF here, k
<1>6. /\ s.f.left = 0 /\ s.f.irq6 = s.f.sra /\ (~s.f.sra => s.f.status0 = {})
  BY DEF Executing
<1>7. /\ {} \in Statuses /\ {"ic1"} \in Statuses /\ {"ic0", "se"} \in Statuses
      /\ 0 \in Nat /\ 0 \in Int /\ 1 \in Int /\ 1 > 0 /\ 10 \in Nat /\ 0 \in Int /\ 10 > 0
  BY DEF Statuses, Bits
<1>8. c \in Transfers => Fine(eR) /\ Fine(eW)
  <2>1. SUFFICES ASSUME c \in Transfers
                 PROVE  Fine(eR) /\ Fine(eW)
    OBVIOUS
  <2>2. \A i \in 1 .. 6 : a[i] \in Nat
    <3>1. Len(a) = 8
      BY <1>3, <2>1
    <3> QED
      BY <1>4, <3>1
  <2>3. (c = "READ_MT") \in BOOLEAN /\ (c = "WRITE_MT") \in BOOLEAN
        /\ TRUE \in BOOLEAN /\ FALSE \in BOOLEAN
    OBVIOUS
  <2>4. ASSUME NEW write \in BOOLEAN, NEW mt \in BOOLEAN
        PROVE  Fine(start_read_write(s, a, write, mt))
    <3> DEFINE t1 == start_read_write(s, a, write, mt)
    <3>1. IsMachine(t1) /\ Turn(t1.f) /\ t1.f.cmd = s.f.cmd /\ t1.f.left = 0
      BY <2>1, <2>2, ReadOrWrite
    <3> QED
      BY <3>1
  <2> QED
    BY <2>3, <2>4
<1>9. c \in {"SEEK", "RECALIBRATE"} => (c = "SEEK" => Fine(eS)) /\ Fine(e0)
  <2>1. SUFFICES ASSUME c \in {"SEEK", "RECALIBRATE"}
                 PROVE  (c = "SEEK" => Fine(eS)) /\ Fine(e0)
    OBVIOUS
  <2>2. ASSUME NEW x \in Nat, NEW y \in Int, NEW z \in Int
        PROVE  Fine(EndSeek(Seek(here, x, y, z)))
    <3> DEFINE u == Seek(here, x, y, z)
    <3>1. IsMachine(u) /\ u.f = here.f
      BY <1>5, SeekProps
    <3> HIDE DEF u
    <3>2. /\ IsMachine(EndSeek(u)) /\ Turn(EndSeek(u).f) /\ EndSeek(u).f.cmd = u.f.cmd
        /\ EndSeek(u).f.left = 0
      BY <3>1, SeekEnds
    <3> QED
      BY <1>5, <3>1, <3>2 DEF u
  <2>3. Fine(e0)
    BY <1>7, <2>2
  <2>4. c = "SEEK" => Fine(eS)
    <3>1. SUFFICES ASSUME c = "SEEK"
                   PROVE  Fine(eS)
      OBVIOUS
    <3>2. Len(a) = 2
      BY <1>3, <3>1
    <3>3. a[2] \in Int /\ Drive(here).head \in Nat /\ Drive(here).sect \in Int
      BY <1>4, <1>5, <3>2 DEF IsDrive
    <3> QED
      BY <2>2, <3>3
  <2> QED
    BY <2>3, <2>4
<1>10. Fine(eI)
  BY <1>2, <1>6, SenseAnswers
<1>11. Fine(eF)
  <2> DEFINE bits == IF Drive(here).read_only THEN {"ic0", "se"} ELSE {}
  <2>1. bits \in Statuses
    BY <1>7
  <2> HIDE DEF bits
  <2>2. /\ IsMachine(end_read_write(here, bits)) /\ Turn(end_read_write(here, bits).f)
        /\ end_read_write(here, bits).f.cmd = c /\ end_read_write(here, bits).f.left = 0
    BY <1>5, <2>1, EndedReadWrite DEF SameOrders
  <2> QED
    BY <2>2 DEF bits
<1>12. c = "READ_ID" => Fine(eD)
  <2>1. SUFFICES ASSUME c = "READ_ID"
                 PROVE  Fine(eD)
    OBVIOUS
  <2>2. a[1] \in Nat
    <3>1. Len(a) = 1
      BY <1>3, <2>1
    <3> QED
      BY <1>4, <3>1
  <2>3. /\ IsMachine(eD) /\ Turn(eD.f) /\ eD.f.phase = 3 /\ eD.f.cmd = s.f.cmd
        /\ eD.f.left = 0
    BY <1>2, <1>6, <2>2, ReadIdAnswers
  <2> QED
    BY <2>3
<1>13. Fine(eP)
  <2>1. dor \in Dors
    BY <1>2 DEF Dors
  <2> HIDE DEF dor
  <2>2. IsMachine(eP) /\ Turn(eP.f) /\ eP.f.phase = 1 /\ eP.f.left = 0 /\ eP.f.dor = dor
        /\ eP.f.cmd = s.f.cmd
    BY <1>2, <1>6, <2>1, CommandEnds
  <2> QED
    BY <2>2
<1>14. c = "SENSE_DRIVE" => Fine(eH)
  <2>1. SUFFICES ASSUME c = "SENSE_DRIVE"
                 PROVE  Fine(eH)
    OBVIOUS
  <2>2. h \in Nat
    <3>1. Len(a) = 1
      BY <1>3, <2>1
    <3>2. a[1] \in Nat
      BY <1>4, <3>1
    <3> QED
      BY <3>2
  <2> DEFINE n == here.f.drive
             d == Drive(here)
             q == [d EXCEPT !.head = h]
  <2>3. uH = SetDrive(here, n, q)
    BY DEF SetDrive, Drive
  <2>4. IsDrive(q)
    <3>1. SameDisk(d, q)
      BY <1>5 DEF IsDrive, SameDisk
    <3>2. q \in [type : Nat, max_track : Nat, max_head : 0 .. 2, max_sect : Nat, track : Int,
                 head : Nat, sect : Int, read_only : BOOLEAN, media_changed : BOOLEAN,
                 buffer : {q.buffer}]
      BY <1>5, <2>2 DEF IsDrive
    <3> HIDE DEF q
    <3> QED
      BY <1>5, <3>1, <3>2 DEF IsDrive, SameDisk
  <2> HIDE DEF q, n, uH
  <2>5. n \in 0 .. 1
    BY <1>5 DEF n
  <2>6. IsMachine(uH) /\ uH.f = here.f
    BY <1>5, <2>3, <2>4, <2>5, DrivePut
  <2>7. uH.f.left = 0 /\ uH.f.irq6 = uH.f.sra
    BY <1>5, <2>6 DEF Executing
  <2>8. IsMachine(eH) /\ Turn(eH.f) /\ SameOrders(uH.f, eH.f)
    BY <1>7, <2>6, <2>7, Responded
  <2> QED
    BY <1>5, <2>6, <2>8 DEF SameOrders
<1>15. Fine(eC)
  <2> DEFINE f1 == enter_command_phase(s.f)
             g == [f1 EXCEPT !.dor = s.f.dor]
  <2>1. IsFdc(f1) /\ f1.dor = s.f.dor
    BY <1>2, CommandPhase
  <2> HIDE DEF f1
  <2>2. g = f1
    BY <2>1 DEF IsFdc
  <2>3. IsMachine(SetF(s, g)) /\ Turn(SetF(s, g).f) /\ SetF(s, g).f.phase = 1
        /\ SetF(s, g).f.left = 0 /\ SetF(s, g).f.dor = s.f.dor /\ SetF(s, g).f.cmd = s.f.cmd
    BY <1>2, <1>6, CommandEnds DEF f1
  <2>4. eC = SetF(s, g)
    BY <2>2 DEF f1
  <2> HIDE DEF g, eC
  <2> QED
    BY <2>3, <2>4
<1>16. Fine(e10) /\ Fine(e1)
  <2>1. ASSUME NEW n \in Int, n > 0
        PROVE  Fine(Respond(s, {}, n))
    <3> DEFINE u == Respond(s, {}, n)
    <3>1. IsMachine(u) /\ Turn(u.f) /\ SameOrders(s.f, u.f)
      BY <1>2, <1>6, <1>7, <2>1, Responded
    <3> HIDE DEF u
    <3> QED
      BY <1>6, <3>1 DEF SameOrders, u
  <2> QED
    BY <1>7, <2>1
<1>17. Fine(eU)
  <2> DEFINE st == {"ic1"}
             g == [s.f EXCEPT !.status0 = st]
  <2>1. uU = SetF(s, g)
    BY DEF SetF
  <2>2. st \in Statuses
    BY <1>7
  <2> HIDE DEF st
  <2>3. IsFdc(g) /\ SameOrders(s.f, g) /\ g.sra = s.f.sra /\ g.irq6 = s.f.irq6
    BY <1>2, <2>2, FdcStatus
  <2> HIDE DEF g, uU
  <2>4. IsMachine(uU) /\ uU.f = g
    BY <1>2, <2>1, <2>3, SetFProps
  <2>5. uU.f.left = 0 /\ uU.f.irq6 = uU.f.sra /\ uU.f.cmd = c
    BY <1>6, <2>3, <2>4 DEF SameOrders
  <2> QED
    BY <1>7, <2>4, <2>5, Responded DEF SameOrders
<1>18. Fine(t)
  <2> HIDE DEF Fine, c, eR, eW, eS, e0, eI, eF, eD, eP, eH, eC, e10, e1, eU
  <2> QED
    BY <1>1, <1>3, <1>8, <1>9, <1>10, <1>11, <1>12, <1>13, <1>14, <1>15, <1>16, <1>17
       DEF Transfers
<1> QED
  BY <1>18 DEF t

-----------------------------------------------------------------------------
(* Ports *)

(* Reading the main status register changes nothing outside a reset. *)
LEMMA StatusRead ==
  ASSUME NEW s, IsMachine(s), "run" \in s.f.dor
  PROVE  read_reg_msr(s) = s
<1> DEFINE g == [s.f EXCEPT !.dor = @ \cup {"run"}]
<1>1. s.f.dor \cup {"run"} = s.f.dor
  OBVIOUS
<1>2. g = s.f
  BY <1>1, DriveIs DEF IsFdc
<1> HIDE DEF g
<1>3. read_reg_msr(s) = [s EXCEPT !.f = g]
  BY DEF read_reg_msr, g
<1> QED
  BY <1>2, <1>3 DEF IsMachine

(* The registers when a byte of a command has been taken. *)
AfterByte(f, byte) ==
  IF f.left = 0 THEN [f EXCEPT !.cmd = byte, !.left = Argc[byte], !.args = << >>,
                               !.msr = @ \cup {"busy"}]
  ELSE [f EXCEPT !.args = Append(@, byte), !.left = @ - 1]

(* The next byte fits into the command. *)
Fits(f, byte) ==
  IF f.left = 0 THEN byte \in Orders
  ELSE byte \in Nat /\ Len(f.args) + f.left = Argc[f.cmd]

(* A byte of a command is taken. *)
LEMMA AfterByteProps ==
  ASSUME NEW f, IsFdc(f), Turn(f), f.phase = 1, NEW byte, Fits(f, byte)
  PROVE  LET g == AfterByte(f, byte)
         IN  /\ IsFdc(g) /\ SameStatus(f, g) /\ g.phase = 1 /\ g.dor = f.dor
             /\ "rqm" \in g.msr /\ "dio" \notin g.msr /\ "busy" \in g.msr
             /\ g.drive = f.drive /\ Len(g.args) + g.left = Argc[g.cmd]
             /\ f.left = 0 => g.cmd = byte /\ g.args = << >> /\ g.left = Argc[byte]
             /\ f.left > 0 => g.cmd = f.cmd /\ g.args = Append(f.args, byte) /\ g.left = f.left - 1
<1>1. f.left \in Nat /\ f.args \in Arguments /\ f.msr \in Msrs /\ "rqm" \in f.msr
      /\ "dio" \notin f.msr
  BY DEF IsFdc, Turn
<1>2. CASE f.left = 0
  <2> DEFINE m == f.msr \cup {"busy"}
             n == Argc[byte]
             h == [f EXCEPT !.cmd = byte, !.left = n]
             g == [h EXCEPT !.args = << >>, !.msr = m]
  <2>1. AfterByte(f, byte) = g
    BY <1>2 DEF AfterByte, IsFdc
  <2>2. byte \in Orders /\ n \in Nat
    BY <1>2 DEF Fits, Orders, Argc
  <2>3. m \in Msrs /\ "rqm" \in m /\ "dio" \notin m /\ "busy" \in m
    BY <1>1 DEF Msrs
  <2>4. << >> \in Arguments
    BY DEF Arguments
  <2> HIDE DEF m, n
  <2>5. /\ IsFdc(h) /\ SameStatus(f, h) /\ h.phase = f.phase /\ h.dor = f.dor /\ h.cmd = byte
        /\ h.left = n /\ h.drive = f.drive
    BY <2>2 DEF IsFdc, SameStatus
  <2> HIDE DEF h
  <2>6. /\ IsFdc(g) /\ SameStatus(h, g) /\ g.phase = h.phase /\ g.dor = h.dor /\ g.cmd = h.cmd
        /\ g.left = h.left /\ g.args = << >> /\ g.msr = m /\ g.drive = h.drive
    BY <2>3, <2>4, <2>5 DEF IsFdc, SameStatus
  <2> HIDE DEF g
  <2>7. Len(g.args) + g.left = Argc[g.cmd]
    BY <2>2, <2>5, <2>6 DEF n
  <2> QED
    BY <1>2, <2>1, <2>3, <2>5, <2>6, <2>7 DEF SameStatus, n
<1>3. CASE f.left > 0
  <2> DEFINE p == Append(f.args, byte)
             n == f.left - 1
             g == [f EXCEPT !.args = p, !.left = n]
  <2>1. AfterByte(f, byte) = g
    BY <1>3 DEF AfterByte
  <2>2. byte \in Nat /\ Len(f.args) + f.left = Argc[f.cmd]
    BY <1>3 DEF Fits
  <2>3. p \in Arguments /\ Len(p) = Len(f.args) + 1 /\ n \in Nat /\ Len(f.args) \in Nat
    BY <1>1, <1>3, <2>2 DEF Arguments
  <2> HIDE DEF p, n
  <2>4. /\ IsFdc(g) /\ SameStatus(f, g) /\ g.phase = f.phase /\ g.dor = f.dor /\ g.cmd = f.cmd
        /\ g.left = n /\ g.args = p /\ g.msr = f.msr /\ g.drive = f.drive
    BY <2>3 DEF IsFdc, SameStatus
  <2> HIDE DEF g
  <2>5. Len(g.args) + g.left = Argc[g.cmd]
    BY <1>1, <2>2, <2>3, <2>4 DEF n
  <2>6. "busy" \in g.msr
    BY <1>3, <2>4 DEF Turn
  <2> QED
    BY <1>1, <1>3, <2>1, <2>4, <2>5, <2>6 DEF p, n
<1> QED
  BY <1>1, <1>2, <1>3

(* The machine as the handler of a command finds it. *)
Begun(s, byte) == SetF(s, [AfterByte(s.f, byte) EXCEPT !.phase = 2])

(* write_reg_fifo: one more byte, or the command with all of them. *)
LEMMA ByteTaken ==
  ASSUME NEW s, IsMachine(s), Turn(s.f), s.f.phase = 1, "run" \in s.f.dor,
         NEW byte, Fits(s.f, byte)
  PROVE  LET g == AfterByte(s.f, byte)
             t == write_reg_fifo(s, byte)
         IN  /\ IsMachine(t) /\ Turn(t.f) /\ g.left \in Nat /\ t.f.cmd = g.cmd
             /\ g.left > 0 => t = SetF(s, g) /\ t.f = g /\ SameWorld(s, t)
             /\ g.left = 0 =>
                  /\ t.f.left = 0 /\ t = Execute(Begun(s, byte), g.args)
                  /\ Executing(Begun(s, byte)) /\ SameWorld(s, Begun(s, byte))
                  /\ Begun(s, byte).f.cmd = g.cmd /\ g.args \in Arguments
                  /\ Len(g.args) = Argc[g.cmd] /\ Begun(s, byte).f.status0 = s.f.status0
<1> DEFINE g == AfterByte(s.f, byte)
           t == write_reg_fifo(s, byte)
           h == [g EXCEPT !.phase = 2]
           e == Begun(s, byte)
<1>1. /\ IsFdc(g) /\ SameStatus(s.f, g) /\ g.phase = 1 /\ g.dor = s.f.dor
      /\ "rqm" \in g.msr /\ "dio" \notin g.msr /\ "busy" \in g.msr
      /\ g.drive = s.f.drive /\ Len(g.args) + g.left = Argc[g.cmd]
      /\ s.f.left = 0 => g.cmd = byte /\ g.args = << >> /\ g.left = Argc[byte]
      /\ s.f.left > 0 => g.cmd = s.f.cmd /\ g.args = Append(s.f.args, byte) /\ g.left = s.f.left - 1
  BY DriveIs, AfterByteProps
<1>2. t = IF g.left > 0 THEN [s EXCEPT !.f = g] ELSE Execute([s EXCEPT !.f = h], g.args)
  <2>1. ~("run" \notin s.f.dor \/ "rqm" \notin s.f.msr \/ "dio" \in s.f.msr \/ s.f.phase # 1)
    BY DEF Turn
  <2> QED
    BY <2>1 DEF write_reg_fifo, AfterByte
<1>3. e = [s EXCEPT !.f = h]
  BY DEF Begun, SetF
<1> HIDE DEF g, t, e
<1>4. g.left \in Nat /\ g.args \in Arguments /\ Len(g.args) \in Nat
  BY <1>1 DEF IsFdc, Arguments
<1>5. /\ s.f.irq6 = s.f.sra /\ (~s.f.sra => s.f.status0 = {})
  BY DEF Turn
<1>6. CASE g.left > 0
  <2>1. t = SetF(s, g)
    BY <1>2, <1>6 DEF SetF
  <2>2. IsMachine(t) /\ t.f = g /\ SameWorld(s, t)
    BY <1>1, <2>1, SetFProps DEF SameWorld
  <2>3. Turn(g)
    <3>1. ("busy" \in g.msr <=> g.left > 0) /\ g.irq6 = g.sra /\ (~g.sra => g.status0 = {})
      BY <1>1, <1>5, <1>6 DEF SameStatus
    <3> QED
      BY <1>1, <3>1 DEF Turn
  <2> QED
    BY <1>4, <1>6, <2>1, <2>2, <2>3 DEF g, t
<1>7. CASE g.left = 0
  <2>1. /\ IsFdc(h) /\ SameStatus(g, h) /\ h.phase = 2 /\ h.dor = g.dor /\ h.msr = g.msr
        /\ h.cmd = g.cmd /\ h.left = g.left
    <3>1. 2 \in Phases
      BY DEF Phases
    <3> QED
      BY <1>1, <3>1 DEF IsFdc, SameStatus
  <2> HIDE DEF h
  <2>2. IsMachine(e) /\ e.f = h /\ SameWorld(s, e)
    BY <1>3, <2>1, SetFProps DEF SameWorld, SetF
  <2>3. Executing(e)
    BY <1>1, <1>5, <1>7, <2>1, <2>2 DEF Executing, SameStatus
  <2>4. Len(g.args) = Argc[g.cmd]
    BY <1>1, <1>4, <1>7
  <2>5. t = Execute(e, g.args)
    BY <1>2, <1>3, <1>7
  <2>6. IsMachine(t) /\ Turn(t.f) /\ t.f.cmd = e.f.cmd /\ t.f.left = 0
    BY <1>4, <2>1, <2>2, <2>3, <2>4, <2>5, ExecuteProps
  <2>7. e.f.cmd = g.cmd /\ e.f.status0 = s.f.status0
    BY <1>1, <2>1, <2>2 DEF SameStatus
  <2> QED
    BY <1>4, <1>7, <2>2, <2>3, <2>4, <2>5, <2>6, <2>7 DEF g, t, e
<1> QED
  BY <1>4, <1>6, <1>7

(* read_reg_fifo: one more byte of the response, or its end. *)
LEMMA ResponseRead ==
  ASSUME NEW s, IsMachine(s), Turn(s.f), {"rqm", "dio"} \subseteq s.f.msr
  PROVE  LET t == read_reg_fifo(s)
         IN  IsMachine(t) /\ Turn(t.f) /\ SameWorld(s, t) /\ t.f.left = 0
<1> DEFINE c == s.f.rcur + 1
           f1 == [s.f EXCEPT !.rcur = c]
           f2 == enter_command_phase(f1)
           f3 == lower_irq(f2)
           u == SetF(s, f1)
           v == SetF(s, f3)
           t == read_reg_fifo(s)
<1>1. /\ IsFdc(s.f) /\ s.f.phase = 3 /\ s.f.left = 0 /\ s.f.irq6 = s.f.sra
      /\ s.f.rcur < s.f.rlen
  BY DriveIs DEF Turn
<1>2. s.f.rcur \in Int /\ s.f.rlen \in Int
  BY <1>1 DEF IsFdc
<1>3. t = IF c < s.f.rlen THEN u ELSE v
  <2>1. ~(~({"rqm", "dio"} \subseteq s.f.msr) \/ s.f.phase # 3 \/ s.f.rcur >= s.f.rlen)
    BY <1>1, <1>2
  <2> QED
    BY <2>1 DEF read_reg_fifo, SetF
<1>4. c \in Int
  BY <1>2
<1> HIDE DEF c, t
<1>5. /\ IsFdc(f1) /\ SameOrders(s.f, f1) /\ SameStatus(s.f, f1) /\ f1.phase = s.f.phase
      /\ f1.msr = s.f.msr /\ f1.rcur = c /\ f1.rlen = s.f.rlen
  BY <1>1, <1>4 DEF IsFdc, SameOrders, SameStatus
<1> HIDE DEF f1
<1>6. IsFdc(f2) /\ SameStatus(f1, f2) /\ f2.left = 0 /\ f2.phase = 1 /\ f2.msr = {"rqm"}
  BY <1>5, CommandPhase
<1> HIDE DEF f2
<1>7. /\ IsFdc(f3) /\ SameOrders(f2, f3) /\ ~f3.irq6 /\ ~f3.sra /\ f3.status0 = {}
      /\ f3.phase = 1 /\ f3.msr = {"rqm"}
  <2>1. f2.irq6 = f2.sra
    BY <1>1, <1>5, <1>6 DEF SameStatus
  <2> QED
    BY <1>6, <2>1, Lowered
<1> HIDE DEF f3
<1>8. CASE c < s.f.rlen
  <2>1. IsMachine(u) /\ u.f = f1 /\ SameWorld(s, u)
    BY <1>5, SetFProps DEF SameWorld
  <2>2. f1.left = 0
    BY <1>1, <1>5 DEF SameOrders
  <2>3. Turn(f1)
    BY <1>1, <1>5, <1>8, <2>2 DEF Turn, SameStatus
  <2> HIDE DEF u
  <2> QED
    BY <1>3, <1>8, <2>1, <2>2, <2>3 DEF t
<1>9. CASE ~(c < s.f.rlen)
  <2>1. IsMachine(v) /\ v.f = f3 /\ SameWorld(s, v)
    BY <1>7, SetFProps DEF SameWorld
  <2>2. f3.left = 0 /\ f3.irq6 = f3.sra
    BY <1>6, <1>7, <1>7 DEF SameOrders, IsFdc
  <2>3. Turn(f3)
    BY <1>7, <2>2 DEF Turn
  <2> HIDE DEF v
  <2> QED
    BY <1>3, <1>9, <2>1, <2>2, <2>3 DEF t
<1> QED
  BY <1>8, <1>9

(* write_reg_dor: a reset, or other bits and another drive. *)
LEMMA OutputWritten ==
  ASSUME NEW s, IsMachine(s), Turn(s.f), NEW bits \in Dors, NEW drive \in 0 .. 1
  PROVE  LET t == write_reg_dor(s, bits, drive)
         IN  /\ IsMachine(t) /\ Turn(t.f) /\ t.chan = s.chan /\ t.mem = s.mem
             /\ t.f.dor = bits
             /\ IF "run" \notin s.f.dor /\ "run" \in bits THEN t.f.left = 0 /\ t.f.sense = 4
                ELSE /\ t.f.left = s.f.left /\ t.f.phase = s.f.phase /\ t.f.args = s.f.args
                     /\ t.f.cmd = s.f.cmd /\ t.f.status0 = s.f.status0 /\ t.f.sra = s.f.sra
             /\ t.f.phase \in {1, s.f.phase}
<1> DEFINE r == "run" \notin s.f.dor /\ "run" \in bits
           u == IF r THEN reset_fdc(s) ELSE s
           g == [u.f EXCEPT !.drive = drive, !.dor = bits]
           t == SetF(u, g)
<1>1. write_reg_dor(s, bits, drive) = t
  BY DEF write_reg_dor, SetF
<1>2. /\ IsMachine(u) /\ Turn(u.f) /\ u.chan = s.chan /\ u.mem = s.mem
      /\ r => u.f.left = 0 /\ u.f.phase = 1 /\ u.f.sense = 4
      /\ ~r => u = s
  BY ResetProps
<1> HIDE DEF u, r
<1>3. /\ IsFdc(g) /\ g.dor = bits /\ g.left = u.f.left /\ g.phase = u.f.phase
      /\ g.args = u.f.args /\ g.cmd = u.f.cmd /\ SameStatus(u.f, g) /\ g.msr = u.f.msr
      /\ g.rcur = u.f.rcur /\ g.rlen = u.f.rlen
  BY <1>2, DriveIs DEF IsFdc, SameStatus
<1> HIDE DEF g
<1>4. IsMachine(t) /\ t.f = g /\ t.chan = u.chan /\ t.mem = u.mem
  BY <1>2, <1>3, SetFProps
<1>5. Turn(g)
  BY <1>2, <1>3 DEF Turn, SameStatus
<1> HIDE DEF t
<1> QED
  BY <1>1, <1>2, <1>3, <1>4, <1>5 DEF r, SameStatus

-----------------------------------------------------------------------------
(* Disks *)

(* find_disk_format finds a line of the table that the image fits into. *)
LEMMA FormatFound ==
  ASSUME NEW size, NEW type
  PROVE  find_disk_format(size, type) \in DOMAIN Formats \cup {0}
<1> DEFINE all   == DOMAIN Formats
           same  == {i \in all : Sectors(Formats[i]) = size}
           exact == {i \in same : type = 0 \/ Formats[i].type = type}
           near  == {i \in same : Density(Formats[i].type) = Density(type)}
           above == {i \in all : Sectors(Formats[i]) > size}
           least == {i \in above : \A j \in above : Sectors(Formats[i]) <= Sectors(Formats[j])}
<1>1. find_disk_format(size, type) =
        IF exact # {} THEN Min(exact)
        ELSE IF near # {} THEN Min(near)
        ELSE IF same # {} THEN Min(same)
        ELSE IF least # {} THEN Min(least) ELSE 0
  BY DEF find_disk_format
<1>2. all \subseteq Nat
  BY FloppyAssumption
<1>3. \A S \in SUBSET all : S # {} => Min(S) \in all
  BY <1>2, MinProps
<1>4. same \subseteq all /\ exact \subseteq all /\ near \subseteq all /\ least \subseteq all
  OBVIOUS
<1> HIDE DEF all, same, exact, near, least
<1>5. CASE exact # {}
  BY <1>1, <1>3, <1>4, <1>5 DEF all
<1>6. CASE exact = {} /\ near # {}
  BY <1>1, <1>3, <1>4, <1>6 DEF all
<1>7. CASE exact = {} /\ near = {} /\ same # {}
  BY <1>1, <1>3, <1>4, <1>7 DEF all
<1>8. CASE exact = {} /\ near = {} /\ same = {}
  BY <1>1, <1>3, <1>4, <1>8 DEF all
<1> QED
  BY <1>5, <1>6, <1>7, <1>8

(* A padded image is a buffer of its length. *)
LEMMA BufferIs ==
  ASSUME NEW V, NEW n \in Nat, NEW b \in [1 .. n -> V]
  PROVE  IsBuffer(b) /\ Len(b) = n
<1>1. b \in Seq(V) /\ Len(b) = n
  OBVIOUS
<1> QED
  BY <1>1 DEF IsBuffer

(* insert_disk gives a drive a disk as large as its geometry says. *)
LEMMA Inserted ==
  ASSUME NEW d, IsDrive(d), NEW n \in Nat, NEW ro \in BOOLEAN
  PROVE  IsDrive(insert_disk(d, Image(n), ro))
<1> DEFINE image == Image(n)
           i  == find_disk_format(Len(image), d.type)
           f  == Formats[i]
           b  == Padded(image, Sectors(f))
           ty == IF d.type = 0 THEN f.type ELSE d.type
           e  == [d EXCEPT !.max_track = f.tracks, !.max_head = f.heads, !.max_sect = f.sectors]
           q  == [e EXCEPT !.read_only = ro, !.media_changed = TRUE, !.buffer = b, !.type = ty]
<1>1. insert_disk(d, image, ro) = IF i = 0 THEN d ELSE q
  BY DEF insert_disk, IsDrive
<1>2. i \in DOMAIN Formats \cup {0}
  BY FormatFound
<1>3. Len(image) = n /\ \A k \in 1 .. n : image[k] \in Nat
  <2>1. image \in [1 .. n -> Nat] /\ \A k \in 1 .. n : image[k] = k
    BY DEF Image
  <2> HIDE DEF image
  <2> QED
    BY <2>1, BufferIs
<1> HIDE DEF i, image
<1>4. CASE i = 0
  BY <1>1, <1>4 DEF image
<1>5. CASE i # 0
  <2>1. f \in [type : Nat, sectors : Nat \ {0}, tracks : Nat \ {0}, heads : 1 .. 2]
    <3> DEFINE K == [type : Nat, sectors : Nat \ {0}, tracks : Nat \ {0}, heads : 1 .. 2]
    <3>1. Formats \in Seq(K)
      BY FloppyAssumption
    <3>2. i \in DOMAIN Formats
      BY <1>2, <1>5
    <3> HIDE DEF K
    <3>3. f \in K
      BY <3>1, <3>2
    <3> QED
      BY <3>3 DEF K
  <2> HIDE DEF f
  <2>2. /\ f.tracks \in Nat /\ f.heads \in 0 .. 2 /\ f.sectors \in Nat /\ f.type \in Nat
        /\ f.heads \in Nat
    BY <2>1
  <2>3. f.sectors * f.tracks \in Nat /\ f.tracks * f.heads \in Nat
    BY <2>2
  <2>4. Sectors(f) \in Nat /\ Sectors(f) = f.tracks * f.heads * f.sectors
    BY <2>2, <2>3 DEF Sectors
  <2>5. IsBuffer(b) /\ Len(b) = Sectors(f)
    <3> DEFINE m == Sectors(f)
    <3>1. b \in [1 .. m -> Nat]
      BY <1>3 DEF Padded
    <3>2. m \in Nat
      BY <2>4
    <3> HIDE DEF b, m
    <3> QED
      BY <3>1, <3>2, BufferIs DEF m
  <2>6. ty \in Nat
    BY <2>2 DEF IsDrive
  <2> HIDE DEF b, ty
  <2>7. e \in [type : Nat, max_track : Nat, max_head : 0 .. 2, max_sect : Nat, track : Int,
               head : Nat, sect : Int, read_only : BOOLEAN, media_changed : BOOLEAN,
               buffer : {d.buffer}]
        /\ e.max_track = f.tracks /\ e.max_head = f.heads /\ e.max_sect = f.sectors
    BY <2>2 DEF IsDrive
  <2> HIDE DEF e
  <2>8. q \in [type : Nat, max_track : Nat, max_head : 0 .. 2, max_sect : Nat, track : Int,
               head : Nat, sect : Int, read_only : BOOLEAN, media_changed : BOOLEAN,
               buffer : {q.buffer}]
        /\ q.buffer = b /\ q.max_track = e.max_track /\ q.max_head = e.max_head
        /\ q.max_sect = e.max_sect
    BY <2>6, <2>7
  <2> HIDE DEF q
  <2>9. IsDrive(q)
    BY <2>4, <2>5, <2>7, <2>8 DEF IsDrive
  <2> QED
    BY <1>1, <1>5, <2>9 DEF image
<1> QED
  BY <1>4, <1>5

(* eject_disk leaves an empty drive. *)
LEMMA Ejected ==
  ASSUME NEW d, IsDrive(d)
  PROVE  IsDrive(eject_disk(d))
<1> DEFINE e == [d EXCEPT !.max_track = 0, !.max_head = 0, !.max_sect = 0]
           b == NoDisk
           q == [e EXCEPT !.media_changed = TRUE, !.buffer = b]
<1>1. eject_disk(d) = q
  BY DEF eject_disk, IsDrive
<1>z. 0 \in Nat /\ 0 \in 0 .. 2
  OBVIOUS
<1>2. e \in [type : Nat, max_track : Nat, max_head : 0 .. 2, max_sect : Nat, track : Int,
             head : Nat, sect : Int, read_only : BOOLEAN, media_changed : BOOLEAN,
             buffer : {d.buffer}]
      /\ e.max_track = 0 /\ e.max_head = 0 /\ e.max_sect = 0
  BY <1>z DEF IsDrive
<1> HIDE DEF e, b
<1>3. q \in [type : Nat, max_track : Nat, max_head : 0 .. 2, max_sect : Nat, track : Int,
             head : Nat, sect : Int, read_only : BOOLEAN, media_changed : BOOLEAN,
             buffer : {q.buffer}]
  BY <1>2
<1>7. q.buffer = b /\ q.max_track = 0 /\ q.max_head = 0 /\ q.max_sect = 0
  BY <1>2
<1> HIDE DEF q
<1>4. IsBuffer(b) /\ Len(b) = 0
  <2>1. NoDisk \in Seq(Nat) /\ Len(NoDisk) = 0
    BY DEF NoDisk
  <2> QED
    BY <2>1 DEF IsBuffer, b
<1>5. Len(q.buffer) = q.max_track * q.max_head * q.max_sect
  <2>1. 0 * 0 * 0 = 0
    OBVIOUS
  <2> QED
    BY <1>7, <1>4, <2>1
<1>6. IsDrive(q)
  <2>1. IsBuffer(q.buffer)
    BY <1>7, <1>4
  <2> QED
    BY <1>3, <1>5, <2>1 DEF IsDrive
<1> QED
  BY <1>1, <1>6

-----------------------------------------------------------------------------
(* The guest programs the channel. *)

(* The two bytes of a word. *)
LEMMA HighAndLow ==
  ASSUME NEW x \in Words
  PROVE  /\ x \div Base \in 0 .. Base - 1 /\ x % Base \in 0 .. Base - 1
         /\ (x \div Base) * Base + (x % Base) = x
<1>1. x \in Nat /\ Base \in Nat /\ Base > 0 /\ x < Base * Base
  BY DmaAssumption DEF Words
<1>2. /\ x \div Base \in Nat /\ (x \div Base) * Base <= x /\ x % Base \in Nat /\ x % Base < Base
      /\ (x \div Base) * Base + (x % Base) = x
  BY <1>1, DivProps
<1> DEFINE h == x \div Base
           r == x % Base
<1>3. h \in Nat /\ h * Base < Base * Base
  BY <1>1, <1>2
<1>a. r \in Nat /\ r < Base /\ h * Base + r = x
  BY <1>2
<1> HIDE DEF h, r
<1>4. h < Base
  BY <1>1, <1>3, MultiplesOrdered
<1>5. h \in 0 .. Base - 1
  BY <1>1, <1>3, <1>4
<1>6. r \in 0 .. Base - 1
  BY <1>1, <1>a
<1> QED
  BY <1>a, <1>5, <1>6 DEF h, r

(* A word is made of its two bytes again. *)
LEMMA Composed ==
  ASSUME NEW h \in 0 .. Base - 1, NEW l \in 0 .. Base - 1
  PROVE  /\ h * Base + l \in Words /\ (h * Base + l) % Base = l
         /\ (h * Base + l) \div Base = h
<1> DEFINE x == h * Base + l
<1>1. Base \in Nat /\ Base > 0 /\ h \in Nat /\ l \in Nat /\ h < Base /\ l < Base
  BY DmaAssumption
<1>2. h * Base \in Nat /\ h * Base + Base <= Base * Base
  BY <1>1, MultiplesOrdered
<1>3. x \in Nat /\ x < Base * Base
  BY <1>1, <1>2
<1> DEFINE q == x \div Base
           r == x % Base
<1>4. q \in Nat /\ r \in Nat /\ r < Base /\ q * Base + r = x
  BY <1>1, <1>3, DivProps
<1> HIDE DEF q, r
<1>5. /\ q < h => q * Base + Base <= h * Base
      /\ h < q => h * Base + Base <= q * Base
      /\ q * Base \in Nat
  BY <1>1, <1>4, MultiplesOrdered
<1>6. q = h /\ r = l
  <2>1. ~(q < h) /\ ~(h < q)
    BY <1>1, <1>2, <1>4, <1>5
  <2>2. q = h
    BY <1>1, <1>4, <2>1
  <2> QED
    BY <1>1, <1>2, <1>4, <2>2
<1> QED
  BY <1>1, <1>3, <1>6 DEF Words, q, r

(* A register that is written low byte first has the new value, whatever   *)
(* it had before.                                                          *)
LEMMA WrittenTwice ==
  ASSUME NEW v \in Words, NEW x \in Words
  PROVE  LET w == flipflop_get(v, x % Base, TRUE)
         IN  w \in Words /\ flipflop_get(w, x \div Base, FALSE) = x
<1> DEFINE h == v \div Base
           l == x % Base
           w == h * Base + l
<1>1. h \in 0 .. Base - 1
  BY HighAndLow
<1>l. l \in 0 .. Base - 1
  BY HighAndLow
<1>a. (x \div Base) * Base + l = x
  BY HighAndLow
<1> HIDE DEF h, l
<1>2. w \in Words /\ w % Base = l
  BY <1>1, <1>l, Composed
<1>3. flipflop_get(v, x % Base, TRUE) = w
  BY DEF flipflop_get, h, l
<1> HIDE DEF w
<1>4. flipflop_get(w, x \div Base, FALSE) = (x \div Base) * Base + (w % Base)
  BY DEF flipflop_get
<1> QED
  BY <1>a, <1>2, <1>3, <1>4

(* Two writes to the address, or to the count: low byte, then high byte. *)
LEMMA AddressWritten ==
  ASSUME NEW d \in Channels, d.flipflop = FALSE, NEW x \in Words
  PROVE  LET e == port_addr_write(port_addr_write(d, x % Base), x \div Base)
         IN  /\ e \in Channels /\ e.flipflop = FALSE /\ e.addr = x /\ e.addr_init = x
             /\ e.page = d.page /\ e.auto = d.auto
<1> DEFINE l == x % Base
           h == x \div Base
           v == flipflop_get(d.addr, l, TRUE)
           vi == flipflop_get(d.addr_init, l, TRUE)
           g == [d EXCEPT !.flipflop = TRUE, !.addr = v, !.addr_init = vi]
           w == flipflop_get(v, h, FALSE)
           wi == flipflop_get(vi, h, FALSE)
           e == [g EXCEPT !.flipflop = FALSE, !.addr = w, !.addr_init = wi]
<1>1. d.addr \in Words /\ d.addr_init \in Words
  BY DEF Channels
<1>2. v \in Words /\ vi \in Words /\ w = x /\ wi = x
  BY <1>1, WrittenTwice
<1>3. port_addr_write(d, l) = g
  <2> DEFINE ff == ~d.flipflop
  <2>1. ff = TRUE
    OBVIOUS
  <2>2. port_addr_write(d, l) = [d EXCEPT !.flipflop = ff, !.addr = flipflop_get(d.addr, l, ff),
                                          !.addr_init = flipflop_get(d.addr_init, l, ff)]
    BY DEF port_addr_write
  <2> HIDE DEF ff
  <2> QED
    BY <2>1, <2>2, Zenon
<1> HIDE DEF v, vi, l, h
<1>4. /\ g \in Channels /\ g.flipflop = TRUE /\ g.addr = v /\ g.addr_init = vi
      /\ g.page = d.page /\ g.auto = d.auto
  BY <1>2 DEF Channels
<1>5. port_addr_write(g, h) = e
  <2> HIDE DEF g
  <2> DEFINE ff == ~g.flipflop
  <2>1. ff = FALSE
    BY <1>4
  <2>2. port_addr_write(g, h) = [g EXCEPT !.flipflop = ff, !.addr = flipflop_get(g.addr, h, ff),
                                          !.addr_init = flipflop_get(g.addr_init, h, ff)]
    BY DEF port_addr_write
  <2> HIDE DEF ff
  <2> QED
    BY <1>4, <2>1, <2>2, Zenon
<1> HIDE DEF g, w, wi
<1>6. /\ e \in Channels /\ e.flipflop = FALSE /\ e.addr = w /\ e.addr_init = wi
      /\ e.page = g.page /\ e.auto = g.auto
  BY <1>2, <1>4 DEF Channels
<1> HIDE DEF e
<1> QED
  BY <1>2, <1>3, <1>4, <1>5, <1>6 DEF l, h

(* Likewise the count. *)
LEMMA CountWritten ==
  ASSUME NEW d \in Channels, d.flipflop = FALSE, NEW x \in Words
  PROVE  LET e == port_count_write(port_count_write(d, x % Base), x \div Base)
         IN  /\ e \in Channels /\ e.flipflop = FALSE /\ e.count = x /\ e.count_init = x
             /\ e.addr = d.addr /\ e.addr_init = d.addr_init /\ e.page = d.page /\ e.auto = d.auto
<1> DEFINE l == x % Base
           h == x \div Base
           v == flipflop_get(d.count, l, TRUE)
           vi == flipflop_get(d.count_init, l, TRUE)
           g == [d EXCEPT !.flipflop = TRUE, !.count = v, !.count_init = vi]
           w == flipflop_get(v, h, FALSE)
           wi == flipflop_get(vi, h, FALSE)
           e == [g EXCEPT !.flipflop = FALSE, !.count = w, !.count_init = wi]
<1>1. d.count \in Words /\ d.count_init \in Words
  BY DEF Channels
<1>2. v \in Words /\ vi \in Words /\ w = x /\ wi = x
  BY <1>1, WrittenTwice
<1>3. port_count_write(d, l) = g
  <2> DEFINE ff == ~d.flipflop
  <2>1. ff = TRUE
    OBVIOUS
  <2>2. port_count_write(d, l) =
          [d EXCEPT !.flipflop = ff, !.count = flipflop_get(d.count, l, ff),
                    !.count_init = flipflop_get(d.count_init, l, ff)]
    BY DEF port_count_write
  <2> HIDE DEF ff
  <2> QED
    BY <2>1, <2>2, Zenon
<1> HIDE DEF v, vi, l, h
<1>4. /\ g \in Channels /\ g.flipflop = TRUE /\ g.count = v /\ g.count_init = vi
      /\ g.addr = d.addr /\ g.addr_init = d.addr_init /\ g.page = d.page /\ g.auto = d.auto
  BY <1>2 DEF Channels
<1>5. port_count_write(g, h) = e
  <2> HIDE DEF g
  <2> DEFINE ff == ~g.flipflop
  <2>1. ff = FALSE
    BY <1>4
  <2>2. port_count_write(g, h) =
          [g EXCEPT !.flipflop = ff, !.count = flipflop_get(g.count, h, ff),
                    !.count_init = flipflop_get(g.count_init, h, ff)]
    BY DEF port_count_write
  <2> HIDE DEF ff
  <2> QED
    BY <1>4, <2>1, <2>2, Zenon
<1> HIDE DEF g, w, wi
<1>6. /\ e \in Channels /\ e.flipflop = FALSE /\ e.count = w /\ e.count_init = wi
      /\ e.addr = g.addr /\ e.addr_init = g.addr_init /\ e.page = g.page /\ e.auto = g.auto
  BY <1>2, <1>4 DEF Channels
<1> HIDE DEF e
<1> QED
  BY <1>2, <1>3, <1>4, <1>5, <1>6 DEF l, h

(* The driver's writes leave the address and the count that it means. *)
LEMMA ProgramProps ==
  ASSUME NEW d \in Channels, NEW t \in Targets
  PROVE  Program(d, t) \in Channels /\ Programmed(Program(d, t), t)
<1> DEFINE d1 == port_mode_write(portC_write(d), t.auto)
           d2 == port_addr_write(port_addr_write(d1, t.addr % Base), t.addr \div Base)
           d3 == port_page_write(portC_write(d2), 0)
           d4 == port_count_write(port_count_write(d3, t.count % Base), t.count \div Base)
<1>1. t.addr \in Words /\ t.count \in Words /\ t.auto \in BOOLEAN
  <2> DEFINE K == [addr : 0 .. Base * Base - 1, count : 0 .. Base * Base - 2, auto : BOOLEAN]
  <2>1. Targets \subseteq K
    BY FloppyAssumption
  <2> HIDE DEF K
  <2>2. t \in K
    BY <2>1
  <2>3. Base * Base \in Nat
    BY DmaAssumption
  <2> QED
    BY <2>2, <2>3 DEF K, Words
<1>2. Program(d, t) = d4
  BY DEF Program
<1>3. d1 \in Channels /\ d1.flipflop = FALSE /\ d1.auto = t.auto
  BY <1>1 DEF port_mode_write, portC_write, Channels
<1> HIDE DEF d1
<1>4. /\ d2 \in Channels /\ d2.flipflop = FALSE /\ d2.addr = t.addr /\ d2.addr_init = t.addr
      /\ d2.page = d1.page /\ d2.auto = d1.auto
  BY <1>1, <1>3, AddressWritten
<1> HIDE DEF d2
<1>5. /\ d3 \in Channels /\ d3.flipflop = FALSE /\ d3.addr = t.addr /\ d3.addr_init = t.addr
      /\ d3.page = 0 /\ d3.auto = d2.auto
  BY <1>4 DEF port_page_write, portC_write, Channels
<1> HIDE DEF d3
<1>6. /\ d4 \in Channels /\ d4.flipflop = FALSE /\ d4.count = t.count /\ d4.count_init = t.count
      /\ d4.addr = d3.addr /\ d4.addr_init = d3.addr_init /\ d4.page = d3.page
      /\ d4.auto = d3.auto
  BY <1>1, <1>5, CountWritten
<1> HIDE DEF d4
<1> QED
  BY <1>2, <1>3, <1>4, <1>5, <1>6 DEF Programmed

-----------------------------------------------------------------------------
(* The parts of the machine. *)
Parts(f, ds, c, m) ==
  /\ IsFdc(f) /\ c \in Channels /\ DOMAIN m = 0 .. MemSize - 1
  /\ ds = [n \in 0 .. 1 |-> ds[n]] /\ IsDrive(ds[0]) /\ IsDrive(ds[1])

(* A machine from its four parts. *)
LEMMA MachineParts ==
  ASSUME NEW f, NEW ds, NEW c, NEW m
  PROVE  IsMachine([f |-> f, drives |-> ds, chan |-> c, mem |-> m]) <=> Parts(f, ds, c, m)
BY DEF IsMachine, Parts

(* The next state is the machine that a handler returns. *)
LEMMA Shown ==
  ASSUME NEW s, IsMachine(s), Show(s)
  PROVE  /\ IsMachine(Machine)' /\ fdc' = s.f /\ drives' = s.drives /\ chan' = s.chan
         /\ mem' = s.mem
<1>1. Parts(s.f, s.drives, s.chan, s.mem)
  BY DEF IsMachine, Parts
<1>2. fdc' = s.f /\ drives' = s.drives /\ chan' = s.chan /\ mem' = s.mem
  BY DEF Show
<1>3. Parts(fdc', drives', chan', mem')
  BY <1>1, <1>2
<1>4. IsMachine([f |-> fdc', drives |-> drives', chan |-> chan', mem |-> mem'])
  BY <1>3, MachineParts
<1> QED
  BY <1>2, <1>4 DEF Machine

(* The initial state is a machine in which the guest may write. *)
LEMMA EmptyDriveIs == IsDrive(EmptyDrive)
<1>1. Len(NoDisk) = 0 /\ IsBuffer(NoDisk)
  BY DEF NoDisk, IsBuffer
<1>2. 0 * 0 * 0 = 0
  OBVIOUS
<1>3. EmptyDrive.buffer = NoDisk /\ EmptyDrive.max_track = 0 /\ EmptyDrive.max_head = 0
      /\ EmptyDrive.max_sect = 0
  BY DEF EmptyDrive
<1>4. EmptyDrive \in [type : Nat, max_track : Nat, max_head : 0 .. 2, max_sect : Nat,
                      track : Int, head : Nat, sect : Int, read_only : BOOLEAN,
                      media_changed : BOOLEAN, buffer : {NoDisk}]
  <2> DEFINE B == NoDisk
  <2> HIDE DEF B
  <2>1. EmptyDrive.buffer = B /\ NoDisk = B
    BY <1>3 DEF B
  <2> QED
    BY <2>1 DEF EmptyDrive
<1> QED
  BY <1>1, <1>2, <1>3, <1>4 DEF IsDrive

LEMMA TypedIs ==
  ASSUME NEW d, IsDrive(d)
  PROVE  IsDrive(Typed(d))
<1>1. 4 \in Nat
  OBVIOUS
<1> QED
  BY <1>1 DEF IsDrive, Typed

LEMMA NewFdcIs == IsFdc(NewFdc) /\ Turn(NewFdc)
<1>1. {"dma", "run"} \in Dors /\ {"rqm"} \in Msrs /\ {} \in Statuses /\ << >> \in Arguments
  BY DEF Dors, Msrs, Statuses, Arguments
<1>2. 1 \in Phases /\ 0 \in Senses /\ "UNKNOWN" \in Orders
  BY DEF Phases, Senses, Orders, Argc
<1>3. IsFdc(NewFdc)
  BY <1>1, <1>2 DEF NewFdc, IsFdc
<1>4. Turn(NewFdc)
  BY DEF NewFdc, Turn
<1> QED
  BY <1>3, <1>4

LEMMA NewChannelIs == NewChannel \in Channels
<1>1. 0 \in Words
  <2>1. Base * Base \in Nat /\ Base * Base > 0
    <3>1. Base \in Nat /\ 0 < Base /\ 0 * Base = 0
      BY DmaAssumption
    <3>2. 0 * Base < Base * Base /\ Base * Base \in Int
      BY <3>1, MultiplesOrdered
    <3> QED
      BY <3>1, <3>2
  <2> QED
    BY <2>1 DEF Words
<1> QED
  BY <1>1 DEF NewChannel, Channels

(* The first state, and then the steps of the guest and of the page, one by one. *)
LEMMA AttendedInit == FloppyInit => AttendedInv
<1> SUFFICES ASSUME FloppyInit PROVE AttendedInv
  OBVIOUS
<1>1. Sizes \subseteq Nat
  BY FloppyAssumption
<1>2. PICK n \in Sizes, ro \in BOOLEAN :
        drives = [d \in 0 .. 1 |-> Typed(IF d = 0 THEN insert_disk(EmptyDrive, Image(n), ro)
                                         ELSE EmptyDrive)]
  BY DEF FloppyInit
<1> DEFINE q == Typed(insert_disk(EmptyDrive, Image(n), ro))
<1>3. IsDrive(q) /\ IsDrive(Typed(EmptyDrive))
  BY <1>1, EmptyDriveIs, Inserted, TypedIs
<1> HIDE DEF q
<1>4. drives = [k \in 0 .. 1 |-> drives[k]] /\ drives[0] = q /\ drives[1] = Typed(EmptyDrive)
  BY <1>2 DEF q
<1>5. fdc = NewFdc /\ chan = NewChannel /\ DOMAIN mem = 0 .. MemSize - 1 /\ todo = << >>
  BY DEF FloppyInit
<1>6. Parts(fdc, drives, chan, mem)
  BY <1>3, <1>4, <1>5, NewFdcIs, NewChannelIs DEF Parts
<1>7. IsMachine(Machine)
  BY <1>6, MachineParts DEF Machine
<1>8. Turn(fdc)
  BY <1>5, NewFdcIs
<1>9. fdc.left = 0 /\ todo \in Seq(Values)
  BY <1>5 DEF NewFdc
<1> QED
  BY <1>5, <1>7, <1>8, <1>9 DEF AttendedInv, TodoInv

-----------------------------------------------------------------------------
(* The guest's commands *)

(* The parts of the machine. *)
LEMMA MachineHas ==
  ASSUME IsMachine(Machine)
  PROVE  /\ IsFdc(fdc) /\ chan \in Channels /\ DOMAIN mem = 0 .. MemSize - 1
         /\ drives = [n \in 0 .. 1 |-> drives[n]] /\ IsDrive(drives[0]) /\ IsDrive(drives[1])
         /\ Machine.f = fdc /\ Machine.drives = drives /\ Machine.chan = chan
         /\ Machine.mem = mem
<1>1. Parts(fdc, drives, chan, mem)
  BY MachineParts DEF Machine
<1> QED
  BY <1>1 DEF Parts, Machine

(* Parts that make a machine. *)
LEMMA MachineMade ==
  ASSUME Parts(fdc, drives, chan, mem)'
  PROVE  IsMachine(Machine)'
<1>1. Parts(fdc', drives', chan', mem')
  BY DEF Parts
<1>2. IsMachine([f |-> fdc', drives |-> drives', chan |-> chan', mem |-> mem'])
  BY <1>1, MachineParts
<1> QED
  BY <1>2 DEF Machine

(* What the guest may set out to write are commands with all their bytes. *)
LEMMA ScriptIsCommand ==
  ASSUME NEW x, IsTransfer(x)
  PROVE  IsCommand(Script(x)) /\ Script(x) \in Seq(Values)
<1>1. x.cmd \in Transfers /\ x.at \in Addresses
  BY DEF IsTransfer
<1> DEFINE K == [drive : 0 .. 1, track : Nat, head : 0 .. 1, sect : Nat \ {0}, eot : Nat]
<1>2. x.at \in K
  <2>1. Addresses \subseteq K
    BY FloppyAssumption
  <2> HIDE DEF K
  <2> QED
    BY <1>1, <2>1
<1>3. /\ x.at.drive \in Nat /\ x.at.track \in Nat /\ x.at.head \in Nat /\ x.at.sect \in Nat
      /\ x.at.eot \in Nat
  BY <1>2
<1>4. x.cmd \in Orders /\ Argc[x.cmd] = 8
  BY <1>1 DEF Transfers, Argc, Orders
<1> HIDE DEF K
<1> DEFINE t == Script(x)
<1>6. Len(t) = 9 /\ t[1] = x.cmd
  BY DEF Script
<1>7. t[2] \in Nat /\ t[3] \in Nat /\ t[4] \in Nat /\ t[5] \in Nat
  BY <1>3 DEF Script
<1>8. t[6] \in Nat /\ t[7] \in Nat /\ t[8] \in Nat /\ t[9] \in Nat
  BY <1>3 DEF Script
<1> HIDE DEF t
<1>9. \A i \in 2 .. 9 : t[i] \in Nat
  BY <1>7, <1>8
<1>5. IsCommand(t)
  BY <1>4, <1>6, <1>9 DEF IsCommand, Orders
<1>10. Script(x) \in Seq(Values)
  BY <1>3, <1>4 DEF Values, Script
<1> QED
  BY <1>5, <1>10 DEF t

LEMMA CommandIs ==
  ASSUME NEW t, NEW c \in Orders, Len(t) = Argc[c] + 1, t[1] = c,
         t \in Seq(Values), \A i \in 2 .. Len(t) : t[i] \in Nat
  PROVE  IsCommand(t) /\ t \in Seq(Values) /\ t # << >>
<1>1. Argc[c] \in Nat
  BY DEF Argc, Orders
<1>2. t # << >>
  BY <1>1
<1>3. t[1] \in DOMAIN Argc /\ Len(t) = Argc[t[1]] + 1
  BY DEF Orders
<1> QED
  BY <1>2, <1>3 DEF IsCommand

LEMMA NoArgument ==
  ASSUME NEW c \in Orders, Argc[c] = 0
  PROVE  IsCommand(<<c>>) /\ <<c>> \in Seq(Values) /\ <<c>> # << >>
<1> DEFINE t == <<c>>
<1>1. c \in Values
  BY DEF Values
<1>2. Len(t) = 1 /\ t[1] = c
  OBVIOUS
<1>3. t \in Seq(Values)
  BY <1>1
<1> HIDE DEF t
<1>4. Len(t) = Argc[c] + 1 /\ \A k \in 2 .. Len(t) : t[k] \in Nat
  BY <1>2
<1>5. IsCommand(t) /\ t # << >>
  BY <1>2, <1>3, <1>4, CommandIs
<1> QED
  BY <1>3, <1>5 DEF t

LEMMA OneArgument ==
  ASSUME NEW c \in Orders, Argc[c] = 1, NEW i \in Nat
  PROVE  IsCommand(<<c, i>>) /\ <<c, i>> \in Seq(Values) /\ <<c, i>> # << >>
<1> DEFINE t == <<c, i>>
<1>1. c \in Values /\ i \in Values
  BY DEF Values
<1>2. Len(t) = 2 /\ t[1] = c /\ t[2] = i
  OBVIOUS
<1>3. t \in Seq(Values)
  BY <1>1
<1> HIDE DEF t
<1>4. Len(t) = Argc[c] + 1 /\ \A k \in 2 .. Len(t) : t[k] \in Nat
  BY <1>2
<1>5. IsCommand(t) /\ t # << >>
  BY <1>2, <1>3, <1>4, CommandIs
<1> QED
  BY <1>3, <1>5 DEF t

LEMMA TwoArguments ==
  ASSUME NEW c \in Orders, Argc[c] = 2, NEW i \in Nat, NEW j \in Nat
  PROVE  IsCommand(<<c, i, j>>) /\ <<c, i, j>> \in Seq(Values) /\ <<c, i, j>> # << >>
<1> DEFINE t == <<c, i, j>>
<1>1. c \in Values /\ i \in Values /\ j \in Values
  BY DEF Values
<1>2. Len(t) = 3 /\ t[1] = c /\ t[2] = i /\ t[3] = j
  OBVIOUS
<1>3. t \in Seq(Values)
  BY <1>1
<1> HIDE DEF t
<1>4. Len(t) = Argc[c] + 1 /\ \A k \in 2 .. Len(t) : t[k] \in Nat
  BY <1>2
<1>5. IsCommand(t) /\ t # << >>
  BY <1>2, <1>3, <1>4, CommandIs
<1> QED
  BY <1>3, <1>5 DEF t

LEMMA OthersAreCommands ==
  ASSUME NEW t \in Others
  PROVE  IsCommand(t) /\ t \in Seq(Values) /\ t # << >>
<1>a. {"SEEK", "RECALIBRATE", "READ_ID", "FORMAT", "SPECIFY", "SENSE_DRIVE", "PERPENDICULAR",
       "CONFIGURE", "SENSE", "LOCK", "DUMP_REGS", "VERSION", "PART_ID", "UNKNOWN",
       "READ_TRACK"} \subseteq Orders
  BY DEF Argc, Orders
<1>b. /\ Argc["SEEK"] = 2 /\ Argc["RECALIBRATE"] = 1 /\ Argc["READ_ID"] = 1
      /\ Argc["SENSE_DRIVE"] = 1 /\ Argc["PERPENDICULAR"] = 1 /\ Argc["SPECIFY"] = 2
  BY DEF Argc
<1>c. /\ Argc["FORMAT"] = 5 /\ Argc["CONFIGURE"] = 3 /\ Argc["READ_TRACK"] = 8
      /\ Argc["SENSE"] = 0 /\ Argc["LOCK"] = 0 /\ Argc["DUMP_REGS"] = 0
      /\ Argc["VERSION"] = 0 /\ Argc["PART_ID"] = 0 /\ Argc["UNKNOWN"] = 0
  BY DEF Argc
<1>1. CASE \E n \in 0 .. 1, k \in {1, 3} : t = <<"SEEK", n, k>>
  <2>1. PICK n \in 0 .. 1, k \in {1, 3} : t = <<"SEEK", n, k>>
    BY <1>1
  <2>2. n \in Nat /\ k \in Nat
    OBVIOUS
  <2>3. "SEEK" \in Orders
    BY <1>a
  <2> QED
    BY <2>1, <2>2, <2>3, <1>b, TwoArguments
<1>2. CASE t = <<"RECALIBRATE", 0>>
  <2>1. "RECALIBRATE" \in Orders /\ Argc["RECALIBRATE"] = 1
    BY <1>a, <1>b
  <2>2. 0 \in Nat
    OBVIOUS
  <2> QED
    BY <1>2, <1>b, <2>1, <2>2, OneArgument
<1>3. CASE t = <<"READ_ID", 4>>
  <2>1. "READ_ID" \in Orders /\ Argc["READ_ID"] = 1
    BY <1>a, <1>b
  <2>2. 4 \in Nat
    OBVIOUS
  <2> QED
    BY <1>3, <1>b, <2>1, <2>2, OneArgument
<1>4. CASE t = <<"SENSE_DRIVE", 1>>
  <2>1. "SENSE_DRIVE" \in Orders /\ Argc["SENSE_DRIVE"] = 1
    BY <1>a, <1>b
  <2>2. 1 \in Nat
    OBVIOUS
  <2> QED
    BY <1>4, <1>b, <2>1, <2>2, OneArgument
<1>5. CASE t = <<"PERPENDICULAR", 0>>
  <2>1. "PERPENDICULAR" \in Orders /\ Argc["PERPENDICULAR"] = 1
    BY <1>a, <1>b
  <2>2. 0 \in Nat
    OBVIOUS
  <2> QED
    BY <1>5, <1>b, <2>1, <2>2, OneArgument
<1>6. CASE t = <<"SPECIFY", 0, 0>>
  <2>1. "SPECIFY" \in Orders /\ Argc["SPECIFY"] = 2
    BY <1>a, <1>b
  <2>2. 0 \in Nat
    OBVIOUS
  <2> QED
    BY <1>6, <1>b, <2>1, <2>2, TwoArguments
<1>7. CASE t = <<"SPECIFY", 0, 1>>
  <2>1. "SPECIFY" \in Orders /\ Argc["SPECIFY"] = 2
    BY <1>a, <1>b
  <2>2. 0 \in Nat /\ 1 \in Nat
    OBVIOUS
  <2> QED
    BY <1>7, <1>b, <2>1, <2>2, TwoArguments
<1>8. CASE t = <<"SENSE">>
  <2>1. "SENSE" \in Orders /\ Argc["SENSE"] = 0
    BY <1>a, <1>c
  <2> QED
    BY <1>8, <1>c, <2>1, NoArgument
<1>9. CASE t = <<"LOCK">>
  <2>1. "LOCK" \in Orders /\ Argc["LOCK"] = 0
    BY <1>a, <1>c
  <2> QED
    BY <1>9, <1>c, <2>1, NoArgument
<1>10. CASE t = <<"DUMP_REGS">>
  <2>1. "DUMP_REGS" \in Orders /\ Argc["DUMP_REGS"] = 0
    BY <1>a, <1>c
  <2> QED
    BY <1>10, <1>c, <2>1, NoArgument
<1>11. CASE t = <<"VERSION">>
  <2>1. "VERSION" \in Orders /\ Argc["VERSION"] = 0
    BY <1>a, <1>c
  <2> QED
    BY <1>11, <1>c, <2>1, NoArgument
<1>12. CASE t = <<"PART_ID">>
  <2>1. "PART_ID" \in Orders /\ Argc["PART_ID"] = 0
    BY <1>a, <1>c
  <2> QED
    BY <1>12, <1>c, <2>1, NoArgument
<1>13. CASE t = <<"UNKNOWN">>
  <2>1. "UNKNOWN" \in Orders /\ Argc["UNKNOWN"] = 0
    BY <1>a, <1>c
  <2> QED
    BY <1>13, <1>c, <2>1, NoArgument
<1>14. CASE t = <<"FORMAT", 0, 2, 1, 0, 0>>
  <2>1. "FORMAT" \in Orders /\ Argc["FORMAT"] = 5
    BY <1>a, <1>c
  <2>2. Len(t) = 6 /\ t[1] = "FORMAT"
    BY <1>14
  <2>3. t \in Seq(Values)
    BY <1>14, <2>1 DEF Values
  <2>4. t[2] \in Nat /\ t[3] \in Nat /\ t[4] \in Nat /\ t[5] \in Nat
    BY <1>14
  <2>5. t[6] \in Nat
    BY <1>14
  <2>6. \A i \in 2 .. Len(t) : t[i] \in Nat
    BY <2>2, <2>4, <2>5
  <2>7. Len(t) = Argc["FORMAT"] + 1
    BY <2>1, <2>2
  <2> QED
    BY <2>1, <2>2, <2>3, <2>6, <2>7, CommandIs
<1>15. CASE t = <<"CONFIGURE", 0, 0, 0>>
  <2>1. "CONFIGURE" \in Orders /\ Argc["CONFIGURE"] = 3
    BY <1>a, <1>c
  <2>2. Len(t) = 4 /\ t[1] = "CONFIGURE"
    BY <1>15
  <2>3. t \in Seq(Values)
    BY <1>15, <2>1 DEF Values
  <2>4. t[2] \in Nat /\ t[3] \in Nat /\ t[4] \in Nat
    BY <1>15
  <2>5. \A i \in 2 .. Len(t) : t[i] \in Nat
    BY <2>2, <2>4
  <2>6. Len(t) = Argc["CONFIGURE"] + 1
    BY <2>1, <2>2
  <2> QED
    BY <2>1, <2>2, <2>3, <2>5, <2>6, CommandIs
<1>16. CASE t = <<"READ_TRACK", 0, 0, 0, 1, 2, 1, 0, 0>>
  <2>1. "READ_TRACK" \in Orders /\ Argc["READ_TRACK"] = 8
    BY <1>a, <1>c
  <2>2. Len(t) = 9 /\ t[1] = "READ_TRACK"
    BY <1>16
  <2>3. t \in Seq(Values)
    BY <1>16, <2>1 DEF Values
  <2>4. t[2] \in Nat /\ t[3] \in Nat /\ t[4] \in Nat /\ t[5] \in Nat
    BY <1>16
  <2>5. t[6] \in Nat /\ t[7] \in Nat /\ t[8] \in Nat /\ t[9] \in Nat
    BY <1>16
  <2>6. \A i \in 2 .. Len(t) : t[i] \in Nat
    BY <2>2, <2>4, <2>5
  <2>7. Len(t) = Argc["READ_TRACK"] + 1
    BY <2>1, <2>2
  <2> QED
    BY <2>1, <2>2, <2>3, <2>6, <2>7, CommandIs
<1> QED
  BY <1>1, <1>2, <1>3, <1>4, <1>5, <1>6, <1>7, <1>8, <1>9,
     <1>10, <1>11, <1>12, <1>13, <1>14, <1>15, <1>16 DEF Others

(* Nothing is left over when the guest may begin. *)
LEMMA ReadyIs ==
  ASSUME AttendedInv, Ready
  PROVE  todo = << >> /\ fdc.left = 0 /\ fdc.phase = 1 /\ "run" \in fdc.dor
<1>1. todo = << >> /\ fdc.phase = 1 /\ "run" \in fdc.dor
  BY DEF Ready
<1>2. fdc.left \in Nat
  BY MachineHas DEF AttendedInv, IsFdc
<1>3. ~(fdc.left > 0)
  <2>1. fdc.left > 0 => Len(todo) = fdc.left
    BY <1>1 DEF AttendedInv, TodoInv
  <2> QED
    BY <1>1, <1>2, <2>1
<1> QED
  BY <1>1, <1>2, <1>3

LEMMA TransferBegins ==
  ASSUME AttendedInv, begin_transfer
  PROVE  /\ AttendedInv' /\ IsTransfer(asked') /\ todo' = Script(asked')
         /\ Programmed(chan', asked'.to) /\ fdc' = fdc /\ quiet' = ~fdc.sra
<1>1. PICK c \in Transfers, a \in Addresses, t \in Targets :
        /\ chan' = Program(chan, t)
        /\ asked' = [cmd |-> c, at |-> a, to |-> t]
        /\ todo' = <<c, a.drive, a.track, a.head, a.sect, 2, a.eot, 0, 0>>
  BY DEF begin_transfer
<1>2. Ready /\ fdc' = fdc /\ drives' = drives /\ mem' = mem /\ quiet' = ~fdc.sra
  BY DEF begin_transfer, Begin
<1>3. /\ IsFdc(fdc) /\ chan \in Channels /\ DOMAIN mem = 0 .. MemSize - 1
      /\ drives = [n \in 0 .. 1 |-> drives[n]] /\ IsDrive(drives[0]) /\ IsDrive(drives[1])
  BY MachineHas DEF AttendedInv
<1>4. chan' \in Channels /\ Programmed(chan', t)
  BY <1>1, <1>3, ProgramProps
<1>5. Parts(fdc, drives, chan, mem)'
  BY <1>2, <1>3, <1>4 DEF Parts
<1>6. IsMachine(Machine)'
  BY <1>5, MachineMade
<1>7. IsTransfer(asked') /\ todo' = Script(asked') /\ asked'.to = t
  BY <1>1 DEF IsTransfer, Script
<1>8. IsCommand(todo') /\ todo' \in Seq(Values)
  BY <1>7, ScriptIsCommand
<1>9. todo = << >> /\ fdc.left = 0 /\ fdc.phase = 1 /\ "run" \in fdc.dor
  BY <1>2, ReadyIs
<1>10. TodoInv'
  BY <1>2, <1>8, <1>9 DEF TodoInv, IsCommand
<1>11. Turn(fdc')
  BY <1>2 DEF AttendedInv
<1> QED
  BY <1>2, <1>4, <1>6, <1>7, <1>10, <1>11 DEF AttendedInv

LEMMA OtherBegins ==
  ASSUME AttendedInv, begin_other
  PROVE  /\ AttendedInv' /\ todo' \in Others /\ fdc' = fdc /\ quiet' = ~fdc.sra
<1>1. todo' \in Others /\ chan' = chan
  BY DEF begin_other
<1>2. Ready /\ fdc' = fdc /\ drives' = drives /\ mem' = mem /\ quiet' = ~fdc.sra
  BY DEF begin_other, Begin
<1>3. /\ IsFdc(fdc) /\ chan \in Channels /\ DOMAIN mem = 0 .. MemSize - 1
      /\ drives = [n \in 0 .. 1 |-> drives[n]] /\ IsDrive(drives[0]) /\ IsDrive(drives[1])
  BY MachineHas DEF AttendedInv
<1>5. Parts(fdc, drives, chan, mem)'
  BY <1>1, <1>2, <1>3 DEF Parts
<1>6. IsMachine(Machine)'
  BY <1>5, MachineMade
<1>8. IsCommand(todo') /\ todo' \in Seq(Values)
  BY <1>1, OthersAreCommands
<1>9. todo = << >> /\ fdc.left = 0 /\ fdc.phase = 1 /\ "run" \in fdc.dor
  BY <1>2, ReadyIs
<1>10. TodoInv'
  BY <1>2, <1>8, <1>9 DEF TodoInv, IsCommand
<1>11. Turn(fdc')
  BY <1>2 DEF AttendedInv
<1> QED
  BY <1>1, <1>2, <1>6, <1>10, <1>11 DEF AttendedInv

(* What the guest writes next is what the controller expects. *)
LEMMA NextByte ==
  ASSUME AttendedInv, write_byte
  PROVE  LET t == write_reg_fifo(Machine, Head(todo))
         IN  /\ Fits(fdc, Head(todo)) /\ fdc.phase = 1 /\ todo # << >> /\ "run" \in fdc.dor
             /\ Show(t) /\ todo' = Tail(todo) /\ todo \in Seq(Values)
             /\ fdc.left \in Nat /\ IsMachine(Machine) /\ Turn(fdc)
<1>1. IsMachine(Machine) /\ Turn(fdc) /\ TodoInv
  BY DEF AttendedInv
<1>2. todo # << >> /\ "run" \in fdc.dor /\ todo' = Tail(todo)
  BY DEF write_byte
<1>3. todo \in Seq(Values) /\ fdc.phase = 1
  BY <1>1, <1>2 DEF TodoInv
<1>4. Machine.f = fdc /\ IsFdc(fdc)
  BY <1>1, MachineHas
<1>5. read_reg_msr(Machine) = Machine
  BY <1>1, <1>2, <1>4, StatusRead
<1>6. Show(write_reg_fifo(Machine, Head(todo)))
  BY <1>5 DEF write_byte
<1>7. fdc.left \in Nat
  BY <1>4 DEF IsFdc
<1>8. Fits(fdc, Head(todo))
  <2>1. CASE fdc.left = 0
    <3>1. IsCommand(todo)
      BY <1>1, <1>2, <2>1 DEF TodoInv
    <3>2. Head(todo) = todo[1]
      BY <1>2, <1>3
    <3> QED
      BY <2>1, <3>1, <3>2 DEF Fits, IsCommand, Orders
  <2>2. CASE fdc.left > 0
    <3>1. /\ Len(todo) = fdc.left /\ Len(fdc.args) + fdc.left = Argc[fdc.cmd]
          /\ \A i \in 1 .. Len(todo) : todo[i] \in Nat
      BY <1>1, <1>2, <2>2 DEF TodoInv
    <3>2. Head(todo) = todo[1] /\ Len(todo) > 0
      BY <1>2, <1>3
    <3>3. todo[1] \in Nat
      BY <1>7, <2>2, <3>1
    <3> QED
      BY <2>2, <3>1, <3>2, <3>3 DEF Fits
  <2> QED
    BY <1>7, <2>1, <2>2
<1> QED
  BY <1>1, <1>2, <1>3, <1>6, <1>7, <1>8

(* A byte of a command that is not its last one. *)
LEMMA TodoGoesOn ==
  ASSUME AttendedInv, write_byte, AfterByte(fdc, Head(todo)).left > 0,
         fdc' = AfterByte(fdc, Head(todo))
  PROVE  TodoInv'
<1> DEFINE b == Head(todo)
           g == AfterByte(fdc, b)
<1>1. /\ Fits(fdc, b) /\ fdc.phase = 1 /\ todo # << >> /\ "run" \in fdc.dor
      /\ todo' = Tail(todo) /\ todo \in Seq(Values) /\ fdc.left \in Nat
      /\ Turn(fdc) /\ IsMachine(Machine)
  BY NextByte
<1>2. /\ IsFdc(g) /\ g.phase = 1 /\ g.dor = fdc.dor /\ Len(g.args) + g.left = Argc[g.cmd]
      /\ fdc.left = 0 => g.cmd = b /\ g.args = << >> /\ g.left = Argc[b]
      /\ fdc.left > 0 => g.cmd = fdc.cmd /\ g.args = Append(fdc.args, b) /\ g.left = fdc.left - 1
  BY <1>1, MachineHas, AfterByteProps
<1>3. fdc' = g /\ g.left > 0
  OBVIOUS
<1>4. /\ Tail(todo) \in Seq(Values) /\ Len(Tail(todo)) = Len(todo) - 1 /\ b = todo[1]
      /\ \A i \in 1 .. Len(Tail(todo)) : Tail(todo)[i] = todo[i + 1]
      /\ Len(todo) \in Nat
  BY <1>1
<1> HIDE DEF g
<1>5. Len(todo') = g.left /\ \A i \in 1 .. Len(todo') : todo'[i] \in Nat
  <2>1. CASE fdc.left = 0
    <3>1. IsCommand(todo)
      BY <1>1, <2>1 DEF AttendedInv, TodoInv
    <3>2. Len(todo) = g.left + 1 /\ \A i \in 2 .. Len(todo) : todo[i] \in Nat
      BY <1>2, <1>4, <2>1, <3>1 DEF IsCommand
    <3>3. g.left \in Nat
      BY <1>2 DEF IsFdc
    <3> HIDE DEF b
    <3> QED
      BY <1>1, <1>4, <3>2, <3>3
  <2>2. CASE fdc.left > 0
    <3>1. Len(todo) = fdc.left /\ \A i \in 1 .. Len(todo) : todo[i] \in Nat
      BY <1>1, <2>2 DEF AttendedInv, TodoInv
    <3> HIDE DEF b
    <3> QED
      BY <1>1, <1>2, <1>4, <2>2, <3>1
  <2> QED
    BY <1>1, <2>1, <2>2
<1> HIDE DEF b
<1>6. g.left # 0 /\ g.left \in Nat
  BY <1>2, <1>3 DEF IsFdc
<1> QED
  BY <1>1, <1>2, <1>3, <1>4, <1>5, <1>6 DEF TodoInv

(* The last byte of a command leaves none. *)
LEMMA TodoEnds ==
  ASSUME AttendedInv, write_byte, AfterByte(fdc, Head(todo)).left = 0
  PROVE  todo' = << >>
<1> DEFINE b == Head(todo)
           g == AfterByte(fdc, b)
<1>1. /\ Fits(fdc, b) /\ fdc.phase = 1 /\ todo # << >> /\ "run" \in fdc.dor
      /\ todo' = Tail(todo) /\ todo \in Seq(Values) /\ fdc.left \in Nat
      /\ Turn(fdc) /\ IsMachine(Machine)
  BY NextByte
<1>2. /\ fdc.left = 0 => g.left = Argc[b]
      /\ fdc.left > 0 => g.left = fdc.left - 1
  BY <1>1, MachineHas, AfterByteProps
<1>3. g.left = 0
  OBVIOUS
<1>4. b = todo[1] /\ Len(todo) \in Nat
  BY <1>1
<1> HIDE DEF g
<1>5. Len(todo) = 1
  <2>1. CASE fdc.left = 0
    <3>1. IsCommand(todo)
      BY <1>1, <2>1 DEF AttendedInv, TodoInv
    <3> QED
      BY <1>2, <1>3, <1>4, <2>1, <3>1 DEF IsCommand
  <2>2. CASE fdc.left > 0
    <3>1. Len(todo) = fdc.left
      BY <1>1, <2>2 DEF AttendedInv, TodoInv
    <3> QED
      BY <1>1, <1>2, <1>3, <2>2, <3>1
  <2> QED
    BY <1>1, <2>1, <2>2
<1> QED
  BY <1>1, <1>5

LEMMA ByteWritten ==
  ASSUME AttendedInv, write_byte
  PROVE  AttendedInv'
<1> DEFINE b == Head(todo)
           g == AfterByte(fdc, b)
           t == write_reg_fifo(Machine, b)
<1>1. /\ Fits(fdc, b) /\ fdc.phase = 1 /\ todo # << >> /\ "run" \in fdc.dor
      /\ Show(t) /\ todo' = Tail(todo) /\ todo \in Seq(Values)
      /\ IsMachine(Machine) /\ Turn(fdc)
  BY NextByte
<1>2. Machine.f = fdc
  BY <1>1, MachineHas
<1>3. /\ IsMachine(t) /\ Turn(t.f) /\ g.left \in Nat
      /\ g.left > 0 => t.f = g
      /\ g.left = 0 => t.f.left = 0
  BY <1>1, <1>2, ByteTaken
<1>4. IsMachine(Machine)' /\ fdc' = t.f
  BY <1>1, <1>3, Shown
<1>5. TodoInv'
  <2>1. CASE g.left > 0
    <3>1. fdc' = g
      BY <1>3, <1>4, <2>1
    <3> QED
      BY <2>1, <3>1, TodoGoesOn
  <2>2. CASE g.left = 0
    <3>1. todo' = << >>
      BY <2>2, TodoEnds
    <3>2. fdc'.left = 0
      BY <1>3, <1>4, <2>2
    <3> QED
      BY <3>1, <3>2 DEF TodoInv
  <2> QED
    BY <1>3, <2>1, <2>2
<1> HIDE DEF t
<1>6. Turn(fdc')
  BY <1>3, <1>4
<1> QED
  BY <1>4, <1>5, <1>6 DEF AttendedInv

LEMMA ByteRead ==
  ASSUME AttendedInv, read_byte
  PROVE  /\ AttendedInv' /\ todo = << >> /\ todo' = todo /\ asked' = asked /\ quiet' = quiet
         /\ chan' = chan
<1> DEFINE t == read_reg_fifo(Machine)
<1>1. IsMachine(Machine) /\ Turn(fdc) /\ TodoInv
  BY DEF AttendedInv
<1>2. /\ {"rqm", "dio"} \subseteq fdc.msr /\ "run" \in fdc.dor /\ todo' = todo
      /\ asked' = asked /\ quiet' = quiet
  BY DEF read_byte, guestVars
<1>3. Machine.f = fdc /\ Machine.chan = chan
  BY <1>1, MachineHas
<1>4. Show(t)
  <2>1. read_reg_msr(Machine) = Machine
    BY <1>1, <1>2, <1>3, StatusRead
  <2> QED
    BY <2>1 DEF read_byte
<1>5. IsMachine(t) /\ Turn(t.f) /\ SameWorld(Machine, t) /\ t.f.left = 0
  BY <1>1, <1>2, <1>3, ResponseRead
<1> HIDE DEF t
<1>6. IsMachine(Machine)' /\ fdc' = t.f /\ chan' = t.chan
  BY <1>4, <1>5, Shown
<1>7. fdc.phase = 3
  BY <1>1, <1>2 DEF Turn
<1>8. todo = << >>
  BY <1>1, <1>7 DEF TodoInv
<1>9. TodoInv'
  BY <1>2, <1>5, <1>6, <1>8, <1>1 DEF TodoInv
<1>10. Turn(fdc')
  BY <1>5, <1>6
<1>11. chan' = chan
  BY <1>3, <1>5, <1>6 DEF SameWorld
<1> QED
  BY <1>2, <1>6, <1>8, <1>9, <1>10, <1>11 DEF AttendedInv

LEMMA OutputChanged ==
  ASSUME AttendedInv, write_dor
  PROVE  /\ AttendedInv' /\ asked' = asked /\ quiet' = quiet /\ chan' = chan
         /\ todo' # << >> =>
              /\ todo' = todo /\ fdc'.left = fdc.left /\ fdc'.args = fdc.args
              /\ fdc'.cmd = fdc.cmd /\ fdc'.status0 = fdc.status0 /\ fdc'.sra = fdc.sra
<1>1. IsMachine(Machine) /\ Turn(fdc) /\ TodoInv
  BY DEF AttendedInv
<1>2. PICK bits \in Dors :
        /\ Show(write_reg_dor(Machine, bits, 0))
        /\ todo' = IF "run" \in fdc.dor \cap bits THEN todo ELSE << >>
  BY DEF write_dor, Dors
<1>3. asked' = asked /\ quiet' = quiet
  BY DEF write_dor
<1> DEFINE t == write_reg_dor(Machine, bits, 0)
<1>4. Machine.f = fdc /\ Machine.chan = chan
  BY <1>1, MachineHas
<1>5. 0 \in 0 .. 1
  OBVIOUS
<1>6. /\ IsMachine(t) /\ Turn(t.f) /\ t.chan = chan /\ t.f.dor = bits
      /\ IF "run" \notin fdc.dor /\ "run" \in bits THEN t.f.left = 0 /\ t.f.sense = 4
         ELSE /\ t.f.left = fdc.left /\ t.f.phase = fdc.phase /\ t.f.args = fdc.args
              /\ t.f.cmd = fdc.cmd /\ t.f.status0 = fdc.status0 /\ t.f.sra = fdc.sra
  BY <1>1, <1>4, <1>5, OutputWritten
<1>7. Show(t)
  BY <1>2
<1> HIDE DEF t
<1>8. IsMachine(Machine)' /\ fdc' = t.f /\ chan' = t.chan
  BY <1>6, <1>7, Shown
<1>9. TodoInv'
  <2>1. CASE "run" \in fdc.dor \cap bits
    <3>1. todo' = todo /\ "run" \in fdc.dor /\ "run" \in bits
      BY <1>2, <2>1
    <3>2. /\ fdc'.left = fdc.left /\ fdc'.phase = fdc.phase /\ fdc'.args = fdc.args
          /\ fdc'.cmd = fdc.cmd /\ fdc'.dor = bits
      BY <1>6, <1>8, <3>1
    <3> QED
      BY <1>1, <3>1, <3>2 DEF TodoInv
  <2>2. CASE "run" \notin fdc.dor \cap bits
    <3>1. todo' = << >>
      BY <1>2, <2>2
    <3>2. "run" \in fdc'.dor => fdc'.left = 0
      BY <1>6, <1>8, <2>2
    <3>3. todo' \in Seq(Values)
      BY <3>1
    <3> QED
      BY <3>1, <3>2, <3>3 DEF TodoInv
  <2> QED
    BY <2>1, <2>2
<1>10. Turn(fdc')
  BY <1>6, <1>8
<1>11. todo' # << >> => "run" \in fdc.dor /\ "run" \in bits /\ todo' = todo
  BY <1>2
<1> QED
  BY <1>3, <1>6, <1>8, <1>9, <1>10, <1>11 DEF AttendedInv

LEMMA RateChanged ==
  ASSUME AttendedInv, write_dsr
  PROVE  AttendedInv' /\ asked' = asked /\ quiet' = quiet /\ chan' = chan /\ todo' = << >>
<1> DEFINE t == reset_fdc(Machine)
<1>1. IsMachine(Machine) /\ Turn(fdc) /\ TodoInv
  BY DEF AttendedInv
<1>2. "run" \in fdc.dor /\ todo' = << >> /\ asked' = asked /\ quiet' = quiet
  BY DEF write_dsr
<1>3. Machine.f = fdc /\ Machine.chan = chan
  BY <1>1, MachineHas
<1>4. Show(t)
  BY <1>2, <1>3 DEF write_dsr, write_reg_dsr
<1>5. IsMachine(t) /\ Turn(t.f) /\ t.f.left = 0 /\ t.chan = chan
  BY <1>1, <1>3, ResetProps
<1> HIDE DEF t
<1>6. IsMachine(Machine)' /\ fdc' = t.f /\ chan' = t.chan
  BY <1>4, <1>5, Shown
<1>7. TodoInv'
  <2>1. todo' \in Seq(Values)
    BY <1>2
  <2> QED
    BY <1>2, <1>5, <1>6, <2>1 DEF TodoInv
<1>8. Turn(fdc')
  BY <1>5, <1>6
<1> QED
  BY <1>2, <1>5, <1>6, <1>7, <1>8 DEF AttendedInv

(* The page and other readers of the channel leave the controller alone. *)
LEMMA OthersStep ==
  ASSUME AttendedInv, read_dma \/ set_fda \/ eject_fda
  PROVE  /\ AttendedInv' /\ fdc' = fdc /\ todo' = todo /\ asked' = asked /\ quiet' = quiet
         /\ todo # << >> => chan' = chan
<1>1. IsMachine(Machine) /\ Turn(fdc) /\ TodoInv
  BY DEF AttendedInv
<1>2. /\ IsFdc(fdc) /\ chan \in Channels /\ DOMAIN mem = 0 .. MemSize - 1
      /\ drives = [n \in 0 .. 1 |-> drives[n]] /\ IsDrive(drives[0]) /\ IsDrive(drives[1])
  BY <1>1, MachineHas
<1>3. /\ fdc' = fdc /\ todo' = todo /\ asked' = asked /\ quiet' = quiet /\ mem' = mem
  BY DEF read_dma, set_fda, eject_fda, Swap, guestVars
<1>4. chan' \in Channels /\ (todo # << >> => chan' = chan)
  <2>1. CASE read_dma
    <3>1. chan' = port_read(chan) /\ todo = << >>
      BY <2>1 DEF read_dma, Ready
    <3>2. port_read(chan) \in Channels
      BY <1>2 DEF port_read, Channels
    <3> QED
      BY <3>1, <3>2
  <2>2. CASE set_fda \/ eject_fda
    BY <1>2, <2>2 DEF set_fda, eject_fda, Swap
  <2> QED
    BY <2>1, <2>2
<1>5. drives' = [n \in 0 .. 1 |-> drives'[n]] /\ IsDrive(drives'[0]) /\ IsDrive(drives'[1])
  <2>1. CASE read_dma
    <3>1. drives' = drives
      BY <2>1 DEF read_dma
    <3> QED
      BY <1>2, <3>1
  <2>2. CASE set_fda
    <3>1. PICK n \in Sizes : drives' = [drives EXCEPT ![0] = insert_disk(@, Image(n), FALSE)]
      BY <2>2 DEF set_fda
    <3> DEFINE q == insert_disk(drives[0], Image(n), FALSE)
    <3>2. Sizes \subseteq Nat
      BY FloppyAssumption
    <3>3. IsDrive(q)
      BY <1>2, <3>2, Inserted
    <3>4. drives' = [drives EXCEPT ![0] = q]
      BY <3>1
    <3> HIDE DEF q
    <3>5. drives' = [k \in 0 .. 1 |-> drives'[k]] /\ drives'[0] = q /\ drives'[1] = drives[1]
      <4>1. DOMAIN drives = 0 .. 1
        BY <1>2
      <4>2. drives' = [k \in 0 .. 1 |-> IF k = 0 THEN q ELSE drives[k]]
        BY <3>4, <4>1
      <4> QED
        BY <4>2
    <3> QED
      BY <1>2, <3>3, <3>5
  <2>3. CASE eject_fda
    <3> DEFINE q == eject_disk(drives[0])
    <3>3. IsDrive(q)
      BY <1>2, Ejected
    <3>4. drives' = [drives EXCEPT ![0] = q]
      BY <2>3 DEF eject_fda
    <3> HIDE DEF q
    <3>5. drives' = [k \in 0 .. 1 |-> drives'[k]] /\ drives'[0] = q /\ drives'[1] = drives[1]
      <4>1. DOMAIN drives = 0 .. 1
        BY <1>2
      <4>2. drives' = [k \in 0 .. 1 |-> IF k = 0 THEN q ELSE drives[k]]
        BY <3>4, <4>1
      <4> QED
        BY <4>2
    <3> QED
      BY <1>2, <3>3, <3>5
  <2> QED
    BY <2>1, <2>2, <2>3
<1>6. Parts(fdc, drives, chan, mem)'
  BY <1>2, <1>3, <1>4, <1>5 DEF Parts
<1>7. IsMachine(Machine)'
  BY <1>6, MachineMade
<1>8. TodoInv' /\ Turn(fdc')
  BY <1>1, <1>3 DEF TodoInv
<1> QED
  BY <1>3, <1>4, <1>7, <1>8 DEF AttendedInv

(* A stutter. *)
LEMMA FloppyIdle ==
  ASSUME AttendedInv, UNCHANGED floppyVars
  PROVE  /\ AttendedInv' /\ fdc' = fdc /\ todo' = todo /\ asked' = asked /\ quiet' = quiet
         /\ chan' = chan
<1>1. /\ fdc' = fdc /\ drives' = drives /\ chan' = chan /\ mem' = mem /\ todo' = todo
      /\ asked' = asked /\ quiet' = quiet
  BY DEF floppyVars, devVars, guestVars
<1>2. Machine' = Machine /\ (TodoInv <=> TodoInv')
  BY <1>1 DEF Machine, TodoInv
<1> QED
  BY <1>1, <1>2 DEF AttendedInv

(* Whose turn it is, after any step. *)
LEMMA AttendedNext == AttendedInv /\ [FloppyNext]_floppyVars => AttendedInv'
<1> SUFFICES ASSUME AttendedInv, [FloppyNext]_floppyVars PROVE AttendedInv'
  OBVIOUS
<1>1. CASE begin_transfer
  BY <1>1, TransferBegins
<1>2. CASE begin_other
  BY <1>2, OtherBegins
<1>3. CASE write_byte
  BY <1>3, ByteWritten
<1>4. CASE read_byte
  BY <1>4, ByteRead
<1>5. CASE write_dor
  BY <1>5, OutputChanged
<1>6. CASE write_dsr
  BY <1>6, RateChanged
<1>7. CASE read_dma \/ set_fda \/ eject_fda
  BY <1>7, OthersStep
<1>8. CASE UNCHANGED floppyVars
  BY <1>8, FloppyIdle
<1> QED
  BY <1>1, <1>2, <1>3, <1>4, <1>5, <1>6, <1>7, <1>8 DEF FloppyNext

(* Whose turn it is, and what the guest has still to write: registers and  *)
(* guest never wait for each other (write_reg_fifo, read_reg_fifo and all  *)
(* handlers of commands).                                                  *)
THEOREM AttendedIsInductive == FloppySpec => []AttendedInv
<1> QED
  BY AttendedInit, AttendedNext, PTL DEF FloppySpec

(* The controller and the guest agree on whose turn it is.                 *)
THEOREM FloppyProtocolHolds == FloppySpec => []FdcProtocol
<1>1. AttendedInv => FdcProtocol
  <2> SUFFICES ASSUME AttendedInv PROVE FdcProtocol
    OBVIOUS
  <2>1. /\ IsFdc(fdc) /\ chan \in Channels /\ DOMAIN mem = 0 .. MemSize - 1
        /\ IsDrive(drives[0]) /\ IsDrive(drives[1])
    BY MachineHas DEF AttendedInv
  <2>2. FloppyTypeOK
    <3>1. fdc.dor \in Dors /\ fdc.msr \in Msrs /\ fdc.phase \in Phases /\ fdc.sense \in Senses
          /\ fdc.drive \in 0 .. 1
      BY <2>1 DEF IsFdc
    <3>2. chan.addr \in Words /\ chan.count \in Words
      BY <2>1 DEF Channels
    <3> QED
      BY <2>1, <3>1, <3>2 DEF FloppyTypeOK, Dors, Msrs, Phases, Senses, Words
  <2>3. Turn(fdc)
    BY DEF AttendedInv
  <2>4. fdc.msr \in Msrs /\ fdc.phase \in Phases
    BY <2>1 DEF IsFdc
  <2>5. /\ (fdc.phase = 3) = ({"rqm", "dio"} \subseteq fdc.msr)
        /\ fdc.phase = 3 => fdc.rcur < fdc.rlen
        /\ fdc.phase = 1 => "rqm" \in fdc.msr /\ ("busy" \in fdc.msr) = (fdc.left > 0)
        /\ fdc.phase = 2 => fdc.cmd \in Transfers
        /\ fdc.irq6 = fdc.sra
        /\ fdc.phase = 1 /\ ~fdc.sra => fdc.status0 = {}
    BY <2>3 DEF Turn
  <2>6. \A n \in 0 .. 1 :
          Len(drives[n].buffer) = drives[n].max_track * drives[n].max_head * drives[n].max_sect
    BY <2>1 DEF IsDrive
  <2> QED
    BY <2>2, <2>5, <2>6 DEF FdcProtocol
<1> QED
  BY <1>1, AttendedIsInductive, PTL

-----------------------------------------------------------------------------
(* The command that is being written is the guest's. *)

(* A byte that is written was asked for. *)
LEMMA AskedWritten ==
  ASSUME FloppyInv, write_byte
  PROVE  AskedInv' /\ SeekInv'
<1> DEFINE b == Head(todo)
           g == AfterByte(fdc, b)
           t == write_reg_fifo(Machine, b)
<1>1. /\ Fits(fdc, b) /\ fdc.phase = 1 /\ todo # << >> /\ "run" \in fdc.dor
      /\ Show(t) /\ todo' = Tail(todo) /\ todo \in Seq(Values)
      /\ IsMachine(Machine) /\ Turn(fdc) /\ fdc.left \in Nat
  BY NextByte DEF FloppyInv
<1>2. Machine.f = fdc /\ Machine.chan = chan
  BY <1>1, MachineHas
<1>3. /\ IsMachine(t) /\ g.left \in Nat
      /\ g.left > 0 => t.f = g /\ SameWorld(Machine, t)
  BY <1>1, <1>2, ByteTaken
<1>4. fdc' = t.f /\ chan' = t.chan
  BY <1>1, <1>3, Shown
<1>5. CASE g.left = 0
  <2>1. todo' = << >>
    BY <1>5, TodoEnds DEF FloppyInv
  <2> QED
    BY <2>1 DEF AskedInv, SeekInv
<1>6. CASE g.left > 0
  <2>1. fdc' = g /\ chan' = chan
    BY <1>2, <1>3, <1>4, <1>6 DEF SameWorld
  <2>2. /\ IsFdc(g) /\ SameStatus(fdc, g) /\ Len(g.args) + g.left = Argc[g.cmd]
        /\ fdc.left = 0 => g.cmd = b /\ g.args = << >> /\ g.left = Argc[b]
        /\ fdc.left > 0 => g.cmd = fdc.cmd /\ g.args = Append(fdc.args, b) /\ g.left = fdc.left - 1
    BY <1>1, MachineHas, AfterByteProps
  <2>3. asked' = asked /\ quiet' = quiet
    BY DEF write_byte
  <2>4. /\ Len(todo') = Len(todo) - 1 /\ b = todo[1] /\ Len(todo) \in Nat /\ Len(todo) > 0
        /\ \A i \in 1 .. Len(todo) - 1 : todo'[i] = todo[i + 1]
    BY <1>1
  <2>5. fdc.args \in Seq(Nat)
    BY <1>1, MachineHas DEF IsFdc, Arguments
  <2> HIDE DEF g, b, t
  <2>6. AskedInv'
    <3>1. fdc'.left # 0
      BY <1>3, <1>6, <2>1
    <3>2. todo' # << >> /\ quiet' => fdc'.status0 = {} /\ ~fdc'.sra
      BY <1>1, <2>1, <2>2, <2>3 DEF FloppyInv, AskedInv, SameStatus
    <3>3. ASSUME todo' # << >>, g.cmd \in Transfers
          PROVE  /\ IsTransfer(asked) /\ Programmed(chan, asked.to) /\ g.cmd = asked.cmd
                 /\ \A i \in 1 .. Len(g.args) : g.args[i] = Script(asked)[i + 1]
                 /\ \A i \in 1 .. Len(todo') : todo'[i] = Script(asked)[9 - Len(todo') + i]
      <4>1. CASE fdc.left = 0
        <5>1. todo[1] \in Transfers /\ g.cmd = todo[1] /\ g.args = << >>
          BY <2>2, <2>4, <3>3, <4>1
        <5>2. IsTransfer(asked) /\ todo = Script(asked) /\ Programmed(chan, asked.to)
          BY <1>1, <4>1, <5>1 DEF FloppyInv, AskedInv
        <5>3. Len(todo) = 9 /\ todo[1] = asked.cmd
          BY <5>2 DEF Script
        <5>4. \A i \in 1 .. 8 : todo'[i] = Script(asked)[i + 1]
          BY <2>4, <5>2, <5>3
        <5> QED
          BY <2>4, <5>1, <5>2, <5>3, <5>4
      <4>2. CASE fdc.left > 0
        <5>1. g.cmd = fdc.cmd /\ g.args = Append(fdc.args, b)
          BY <2>2, <4>2
        <5>2. /\ IsTransfer(asked) /\ Programmed(chan, asked.to) /\ fdc.cmd = asked.cmd
              /\ \A i \in 1 .. Len(fdc.args) : fdc.args[i] = Script(asked)[i + 1]
              /\ \A i \in 1 .. Len(todo) : todo[i] = Script(asked)[9 - Len(todo) + i]
          BY <1>1, <3>3, <4>2, <5>1 DEF FloppyInv, AskedInv
        <5>3. Len(todo) = fdc.left /\ Len(fdc.args) + fdc.left = Argc[fdc.cmd]
          BY <1>1, <4>2 DEF FloppyInv, AttendedInv, TodoInv
        <5>4. Argc[fdc.cmd] = 8
          BY <3>3, <5>1 DEF Transfers, Argc
        <5>5. Len(fdc.args) \in Nat /\ 9 - Len(todo) + 1 = Len(fdc.args) + 2
          BY <2>5, <1>1, <5>3, <5>4
        <5>6. b = Script(asked)[Len(fdc.args) + 2]
          BY <2>4, <5>2, <5>5
        <5>7. /\ Len(g.args) = Len(fdc.args) + 1 /\ g.args[Len(fdc.args) + 1] = b
              /\ \A i \in 1 .. Len(fdc.args) : g.args[i] = fdc.args[i]
          <6> DEFINE n == Len(fdc.args)
          <6>1. b \in Nat
            BY <1>1, <4>2 DEF Fits
          <6> QED
            BY <2>5, <5>1, <6>1
        <5>8. \A i \in 1 .. Len(g.args) : g.args[i] = Script(asked)[i + 1]
          BY <5>2, <5>5, <5>6, <5>7
        <5>9. \A i \in 1 .. Len(todo') : todo'[i] = Script(asked)[9 - Len(todo') + i]
          <6> SUFFICES ASSUME NEW i \in 1 .. Len(todo')
                       PROVE  todo'[i] = Script(asked)[9 - Len(todo') + i]
            OBVIOUS
          <6>1. i \in 1 .. Len(todo) - 1 /\ i + 1 \in 1 .. Len(todo)
            BY <2>4
          <6>2. todo[i + 1] = Script(asked)[9 - Len(todo) + (i + 1)]
            BY <5>2, <6>1
          <6>3. 9 - Len(todo) + (i + 1) = 9 - Len(todo') + i
            BY <2>4, <6>1
          <6> QED
            BY <2>4, <6>1, <6>2, <6>3
        <5> QED
          BY <5>1, <5>2, <5>8, <5>9
      <4>3. fdc.left = 0 \/ fdc.left > 0
        BY <1>1
      <4> QED
        BY <4>1, <4>2, <4>3
    <3> QED
      BY <2>1, <2>3, <3>1, <3>2, <3>3 DEF AskedInv
  <2>7. SeekInv'
    <3>1. fdc'.left # 0
      BY <1>3, <1>6, <2>1
    <3>2. ASSUME g.left = 2, g.cmd = "SEEK" PROVE todo'[1] \in 0 .. 1
      <4>1. fdc.left = 0
        <5>1. ~(fdc.left > 0)
          <6> SUFFICES ASSUME fdc.left > 0 PROVE FALSE
            OBVIOUS
          <6>1. fdc.left = 3 /\ fdc.cmd = "SEEK"
            BY <1>1, <2>2, <3>2
          <6>2. Len(fdc.args) + fdc.left = Argc["SEEK"]
            BY <1>1, <6>1 DEF FloppyInv, AttendedInv, TodoInv
          <6>3. Argc["SEEK"] = 2 /\ Len(fdc.args) \in Nat
            BY <2>5 DEF Argc
          <6> QED
            BY <6>1, <6>2, <6>3
        <5> QED
          BY <1>1, <5>1
      <4>2. todo[1] = "SEEK"
        BY <2>2, <2>4, <3>2, <4>1
      <4>3. todo[2] \in 0 .. 1
        BY <1>1, <4>1, <4>2 DEF FloppyInv, SeekInv
      <4>4. Len(todo) = 3
        <5>1. IsCommand(todo)
          BY <1>1, <4>1 DEF FloppyInv, AttendedInv, TodoInv
        <5>2. Argc["SEEK"] = 2
          BY DEF Argc
        <5> QED
          BY <4>2, <5>1, <5>2 DEF IsCommand
      <4> QED
        BY <2>4, <4>3, <4>4
    <3>3. ASSUME g.left = 1, g.cmd = "SEEK" PROVE g.args[1] \in 0 .. 1
      <4>1. Argc["SEEK"] = 2
        BY DEF Argc
      <4>2. fdc.left > 0
        BY <1>1, <2>2, <3>3, <4>1
      <4>3. fdc.left = 2 /\ fdc.cmd = "SEEK" /\ g.args = Append(fdc.args, b)
        BY <1>1, <2>2, <3>3, <4>2
      <4>4. todo[1] \in 0 .. 1
        BY <1>1, <4>3 DEF FloppyInv, SeekInv
      <4>5. Len(fdc.args) + fdc.left = Argc["SEEK"]
        BY <1>1, <4>2, <4>3 DEF FloppyInv, AttendedInv, TodoInv
      <4>6. fdc.args = << >>
        BY <2>5, <4>1, <4>3, <4>5
      <4> QED
        BY <2>4, <4>3, <4>4, <4>6
    <3> QED
      BY <2>1, <3>1, <3>2, <3>3 DEF SeekInv
  <2> QED
    BY <2>6, <2>7
<1> QED
  BY <1>3, <1>5, <1>6

(* No other command is a transfer. *)
LEMMA FirstWords ==
  ASSUME NEW t \in Others
  PROVE  t[1] \notin Transfers /\ (t[1] = "SEEK" => t[2] \in 0 .. 1)
<1>1. CASE \E n \in 0 .. 1, k \in {1, 3} : t = <<"SEEK", n, k>>
  BY <1>1 DEF Transfers
<1>2. CASE t \in {<<"RECALIBRATE", 0>>, <<"READ_ID", 4>>, <<"FORMAT", 0, 2, 1, 0, 0>>,
                  <<"SPECIFY", 0, 0>>, <<"SPECIFY", 0, 1>>, <<"SENSE_DRIVE", 1>>,
                  <<"PERPENDICULAR", 0>>}
  BY <1>2 DEF Transfers
<1>3. CASE t \in {<<"CONFIGURE", 0, 0, 0>>, <<"SENSE">>, <<"LOCK">>, <<"DUMP_REGS">>,
                  <<"VERSION">>, <<"PART_ID">>, <<"UNKNOWN">>,
                  <<"READ_TRACK", 0, 0, 0, 1, 2, 1, 0, 0>>}
  BY <1>3 DEF Transfers
<1> QED
  BY <1>1, <1>2, <1>3 DEF Others

(* The whole invariant, after any step. *)
LEMMA FloppyNextInv == FloppyInv /\ [FloppyNext]_floppyVars => FloppyInv'
<1> SUFFICES ASSUME FloppyInv, [FloppyNext]_floppyVars PROVE FloppyInv'
  OBVIOUS
<1>a. AttendedInv /\ AttendedInv'
  BY AttendedNext DEF FloppyInv
<1>b. fdc.phase = 1 /\ ~fdc.sra => fdc.status0 = {}
  BY <1>a DEF AttendedInv, Turn
<1>c. ASSUME todo' = todo, asked' = asked, quiet' = quiet,
             todo # << >> =>
               /\ chan' = chan /\ fdc'.left = fdc.left /\ fdc'.args = fdc.args
               /\ fdc'.cmd = fdc.cmd /\ fdc'.status0 = fdc.status0 /\ fdc'.sra = fdc.sra
      PROVE  AskedInv' /\ SeekInv'
  BY <1>c DEF FloppyInv, AskedInv, SeekInv
<1>1. CASE begin_transfer
  <2>1. /\ IsTransfer(asked') /\ todo' = Script(asked') /\ Programmed(chan', asked'.to)
        /\ fdc' = fdc /\ quiet' = ~fdc.sra
    BY <1>a, <1>1, TransferBegins
  <2>2. fdc.left = 0 /\ fdc.phase = 1
    BY <1>a, <1>1, ReadyIs DEF begin_transfer, Begin
  <2>3. todo'[1] # "SEEK"
    BY <2>1 DEF Script, IsTransfer, Transfers
  <2>a. quiet' => ~fdc.sra
    BY <2>1, Zenon
  <2>b. quiet' => fdc'.status0 = {} /\ ~fdc'.sra
    BY <1>b, <2>1, <2>2, <2>a
  <2>4. AskedInv'
    BY <2>1, <2>2, <2>b DEF AskedInv
  <2>5. SeekInv'
    BY <2>1, <2>2, <2>3 DEF SeekInv
  <2> QED
    BY <1>a, <2>4, <2>5 DEF FloppyInv
<1>2. CASE begin_other
  <2>1. todo' \in Others /\ fdc' = fdc /\ quiet' = ~fdc.sra
    BY <1>a, <1>2, OtherBegins
  <2>2. fdc.left = 0 /\ fdc.phase = 1
    BY <1>a, <1>2, ReadyIs DEF begin_other, Begin
  <2>3. todo'[1] \notin Transfers /\ (todo'[1] = "SEEK" => todo'[2] \in 0 .. 1)
    BY <2>1, FirstWords
  <2>a. quiet' => ~fdc.sra
    BY <2>1, Zenon
  <2>b. quiet' => fdc'.status0 = {} /\ ~fdc'.sra
    BY <1>b, <2>1, <2>2, <2>a
  <2>4. AskedInv'
    BY <2>1, <2>2, <2>3, <2>b DEF AskedInv
  <2>5. SeekInv'
    BY <2>1, <2>2, <2>3 DEF SeekInv
  <2> QED
    BY <1>a, <2>4, <2>5 DEF FloppyInv
<1>3. CASE write_byte
  BY <1>a, <1>3, AskedWritten DEF FloppyInv
<1>4. CASE read_byte
  <2>1. todo = << >> /\ todo' = todo /\ asked' = asked /\ quiet' = quiet
    BY <1>a, <1>4, ByteRead
  <2> QED
    BY <1>a, <1>c, <2>1 DEF FloppyInv
<1>5. CASE write_dor
  <2>1. /\ asked' = asked /\ quiet' = quiet /\ chan' = chan
        /\ todo' # << >> =>
              /\ todo' = todo /\ fdc'.left = fdc.left /\ fdc'.args = fdc.args
              /\ fdc'.cmd = fdc.cmd /\ fdc'.status0 = fdc.status0 /\ fdc'.sra = fdc.sra
    BY <1>a, <1>5, OutputChanged
  <2>2. CASE todo' = << >>
    BY <1>a, <2>2 DEF FloppyInv, AskedInv, SeekInv
  <2>3. CASE todo' # << >>
    BY <1>a, <1>c, <2>1, <2>3 DEF FloppyInv
  <2> QED
    BY <2>2, <2>3
<1>6. CASE write_dsr
  <2>1. todo' = << >>
    BY <1>a, <1>6, RateChanged
  <2> QED
    BY <1>a, <2>1 DEF FloppyInv, AskedInv, SeekInv
<1>7. CASE read_dma \/ set_fda \/ eject_fda
  <2>1. /\ fdc' = fdc /\ todo' = todo /\ asked' = asked /\ quiet' = quiet
        /\ todo # << >> => chan' = chan
    BY <1>a, <1>7, OthersStep
  <2> QED
    BY <1>a, <1>c, <2>1 DEF FloppyInv
<1>8. CASE UNCHANGED floppyVars
  <2>1. /\ fdc' = fdc /\ todo' = todo /\ asked' = asked /\ quiet' = quiet /\ chan' = chan
    BY <1>a, <1>8, FloppyIdle
  <2> QED
    BY <1>a, <1>c, <2>1 DEF FloppyInv
<1> QED
  BY <1>1, <1>2, <1>3, <1>4, <1>5, <1>6, <1>7, <1>8 DEF FloppyNext

(* The whole invariant, at first. *)
LEMMA FloppyInitInv == FloppyInit => FloppyInv
<1> SUFFICES ASSUME FloppyInit PROVE FloppyInv
  OBVIOUS
<1>1. AttendedInv /\ todo = << >>
  BY AttendedInit DEF FloppyInit
<1> QED
  BY <1>1 DEF FloppyInv, AskedInv, SeekInv

(* The invariant of the controller: a transfer or a seek that is being     *)
(* written byte by byte is still the one that was asked for, and the DMA   *)
(* channel is still programmed for it.                                     *)
THEOREM FloppyInvariant == FloppySpec => []FloppyInv
<1> QED
  BY FloppyInitInv, FloppyNextInv, PTL DEF FloppySpec

-----------------------------------------------------------------------------
(* A seek arrives. *)

-----------------------------------------------------------------------------
(* A seek arrives. *)

(* Two tracks at the same side and sector are not the same place. *)
LEMMA OtherTrack ==
  ASSUME NEW d, IsDrive(d), d.max_head > 0, d.max_sect > 0, NEW t \in Int, t # d.track
  PROVE  chs2lba(d, d.track, d.head, d.sect) # chs2lba(d, t, d.head, d.sect)
<1> DEFINE h == d.max_head
           m == d.max_sect
           u == d.track
           x == u * h + d.head
           y == t * h + d.head
<1>1. h \in Nat /\ m \in Nat /\ h > 0 /\ m > 0 /\ u \in Int /\ d.head \in Int /\ d.sect \in Int
  BY DEF IsDrive
<1>2. u # t
  OBVIOUS
<1>3. chs2lba(d, u, d.head, d.sect) = x * m + d.sect - 1
  BY DEF chs2lba
<1>4. chs2lba(d, t, d.head, d.sect) = y * m + d.sect - 1
  BY DEF chs2lba
<1> HIDE DEF h, m, u
<1>5. u * h \in Int /\ t * h \in Int /\ (u < t => u * h < t * h) /\ (t < u => t * h < u * h)
  BY <1>1, MultiplesOrdered
<1>6. x \in Int /\ y \in Int /\ (x < y \/ y < x)
  BY <1>1, <1>2, <1>5
<1> HIDE DEF x, y
<1>7. x * m \in Int /\ y * m \in Int /\ (x < y => x * m < y * m) /\ (y < x => y * m < x * m)
  BY <1>1, <1>6, MultiplesOrdered
<1>8. x * m + d.sect - 1 # y * m + d.sect - 1
  BY <1>1, <1>6, <1>7
<1> QED
  BY <1>3, <1>4, <1>8 DEF u

(* seek, to a track of the disk. *)
LEMMA SeekMoves ==
  ASSUME NEW d, IsDrive(d), NEW t \in Nat, d.buffer # NoDisk, t < d.max_track,
         d.head < d.max_head, d.sect <= d.max_sect
  PROVE  LET q == seek(d, d.head, t, d.sect)
         IN  q.track = t /\ q.media_changed = (d.media_changed /\ d.track = q.track)
<1> DEFINE q == seek(d, d.head, t, d.sect)
<1>1. /\ d.max_track \in Nat /\ d.max_head \in 0 .. 2 /\ d.max_sect \in Nat /\ d.head \in Nat
      /\ d.track \in Int /\ d.sect \in Int /\ d.media_changed \in BOOLEAN
  BY DEF IsDrive
<1>2. d.max_head > 0
  BY <1>1
<1>3. d.max_sect > 0
  <2>1. Len(d.buffer) = d.max_track * d.max_head * d.max_sect /\ IsBuffer(d.buffer)
    BY DEF IsDrive
  <2>2. Len(d.buffer) # 0
    <3> SUFFICES ASSUME Len(d.buffer) = 0 PROVE FALSE
      OBVIOUS
    <3> DEFINE b == d.buffer
    <3>1. b = [i \in 1 .. Len(b) |-> b[i]] /\ Len(b) = 0
      BY <2>1 DEF IsBuffer
    <3> HIDE DEF b
    <3>2. b = << >>
      BY <3>1
    <3> QED
      BY <3>2 DEF b, NoDisk
  <2> DEFINE p == d.max_track * d.max_head
             m == d.max_sect
  <2>3. p \in Int /\ Len(d.buffer) = p * m /\ m \in Nat
    BY <1>1, <2>1
  <2> HIDE DEF p
  <2>4. p * 0 = 0
    BY <2>3
  <2>5. m # 0
    BY <2>2, <2>3, <2>4
  <2> QED
    BY <1>1, <2>5
<1>4. CASE d.track = t
  <2>1. ~Moves(d, d.head, t, d.sect)
    BY <1>4 DEF Moves
  <2>2. q = d
    BY <2>1 DEF seek
  <2> HIDE DEF q
  <2> QED
    BY <1>1, <1>4, <2>2 DEF q
<1>5. CASE d.track # t
  <2>1. Moves(d, d.head, t, d.sect)
    <3>1. ~(t > d.max_track \/ (d.head # 0 /\ d.max_head = 1)) /\ d.sect <= d.max_sect
      BY <1>1
    <3>2. chs2lba(d, d.track, d.head, d.sect) # chs2lba(d, t, d.head, d.sect)
      BY <1>2, <1>3, <1>5, OtherTrack
    <3> QED
      BY <3>1, <3>2 DEF Moves
  <2> DEFINE mc == d.media_changed /\ ~(d.track # t /\ d.buffer # NoDisk)
             e == [d EXCEPT !.head = d.head, !.track = t, !.sect = d.sect, !.media_changed = mc]
  <2>2. q = e
    BY <2>1 DEF seek
  <2>3. mc = FALSE
    BY <1>5
  <2> HIDE DEF mc
  <2>4. e.track = t /\ e.media_changed = mc
    BY DEF IsDrive
  <2> HIDE DEF e, q
  <2> QED
    BY <1>5, <2>2, <2>3, <2>4 DEF q
<1> QED
  BY <1>4, <1>5

(* SEEK is a seek. *)
LEMMA SeekIs ==
  ASSUME NEW s, NEW a, s.f.cmd = "SEEK", a # << >>
  PROVE  LET here == [s EXCEPT !.f.drive = a[1] % 2]
         IN  Execute(s, a) = EndSeek(Seek(here, Drive(here).head, a[2], Drive(here).sect))
<1> DEFINE k == a[1] % 2
           here == [s EXCEPT !.f.drive = k]
           e == EndSeek(Seek(here, Drive(here).head, a[2], Drive(here).sect))
<1>1. (IF a = << >> THEN s ELSE here) = here
  OBVIOUS
<1> QED
  BY <1>1 DEF Execute

(* What SEEK does to the drive that it names. *)
LEMMA SeekExecuted ==
  ASSUME NEW s, Executing(s), s.f.cmd = "SEEK", NEW k \in 0 .. 1, NEW x \in Nat,
         NEW a, a # << >>, a[1] = k, a[2] = x
  PROVE  LET t == Execute(s, a)
             d == s.drives[k]
         IN  IsMachine(t) /\ t.drives[k] = seek(d, d.head, x, d.sect)
<1> DEFINE here == [s EXCEPT !.f.drive = k]
           d == s.drives[k]
           u == Seek(here, Drive(here).head, x, Drive(here).sect)
           t == Execute(s, a)
<1>1. k % 2 = k
  OBVIOUS
<1>2. t = EndSeek(u)
  <2>1. t = LET h == [s EXCEPT !.f.drive = a[1] % 2]
            IN  EndSeek(Seek(h, Drive(h).head, a[2], Drive(h).sect))
    BY <1>1, SeekIs
  <2> QED
    BY <1>1, <2>1
<1>3. /\ Executing(here) /\ here.f.drive = k /\ Drive(here) = d /\ SameWorld(s, here)
  BY Chosen
<1> HIDE DEF here, t
<1>4. IsMachine(here) /\ IsDrive(d)
  BY <1>3, DriveIs DEF Executing
<1>5. d.head \in Nat /\ d.sect \in Int /\ x \in Int
  BY <1>4 DEF IsDrive
<1>6. IsMachine(u) /\ u.f = here.f /\ Drive(u) = seek(d, d.head, x, d.sect)
  <2>1. u = Seek(here, d.head, x, d.sect)
    BY <1>3
  <2> HIDE DEF u, d
  <2>2. Drive(u) = seek(Drive(here), d.head, x, d.sect) /\ IsMachine(u) /\ u.f = here.f
    BY <1>4, <1>5, <2>1, SeekProps
  <2>3. Drive(here) = d
    BY <1>3
  <2> QED
    BY <2>2, <2>3
<1>7. u.drives[k] = seek(d, d.head, x, d.sect)
  BY <1>3, <1>6 DEF Drive
<1> HIDE DEF u
<1>8. IsMachine(EndSeek(u)) /\ SameWorld(u, EndSeek(u))
  BY <1>6, SeekEnds
<1>9. EndSeek(u).drives[k] = u.drives[k]
  BY <1>8 DEF SameWorld
<1> QED
  BY <1>2, <1>7, <1>8, <1>9 DEF t

(* A seek to a track of the disk that is in the drive moves the head there *)
(* (exec_seek, seek), unless the drive stands where that disk has nothing. *)
THEOREM SeekArrivesHolds == FloppySpec => SeekArrives
<1> DEFINE A == (fdc.cmd = "SEEK" /\ fdc.left = 1 /\ fdc'.left = 0 /\ fdc'.sense = 0) =>
       LET d == drives[fdc.args[1]]
           q == drives'[fdc.args[1]]
       IN  (d.buffer # NoDisk /\ Head(todo) < d.max_track /\ d.head < d.max_head
             /\ d.sect <= d.max_sect) =>
             q.track = Head(todo) /\ q.media_changed = (d.media_changed /\ d.track = q.track)
<1>1. FloppyInv /\ [FloppyNext]_floppyVars => A
  <2> SUFFICES ASSUME FloppyInv, [FloppyNext]_floppyVars,
                      fdc.cmd = "SEEK", fdc.left = 1, fdc'.left = 0, fdc'.sense = 0
               PROVE  LET d == drives[fdc.args[1]]
                          q == drives'[fdc.args[1]]
                      IN  (d.buffer # NoDisk /\ Head(todo) < d.max_track /\ d.head < d.max_head
                             /\ d.sect <= d.max_sect) =>
                            /\ q.track = Head(todo)
                            /\ q.media_changed = (d.media_changed /\ d.track = q.track)
    OBVIOUS
  <2>a. AttendedInv /\ IsMachine(Machine)
    BY DEF FloppyInv, AttendedInv
  <2>1. write_byte
    <3>1. ~begin_transfer /\ ~begin_other
      BY <2>a, ReadyIs DEF begin_transfer, begin_other, Begin
    <3>2. ~read_byte
      <4>1. read_byte => fdc.phase = 3
        BY DEF read_byte, FloppyInv, AttendedInv, Turn
      <4>2. fdc.phase # 1 => fdc.left = 0
        BY DEF FloppyInv, AttendedInv, Turn
      <4> QED
        BY <4>1, <4>2
    <3>3. ~write_dor
      <4> SUFFICES ASSUME write_dor PROVE FALSE
        OBVIOUS
      <4>1. PICK bits \in Dors : Show(write_reg_dor(Machine, bits, 0))
        BY DEF write_dor, Dors
      <4> DEFINE t == write_reg_dor(Machine, bits, 0)
      <4>2. 0 \in 0 .. 1 /\ Machine.f = fdc /\ Turn(fdc)
        BY <2>a, MachineHas DEF AttendedInv
      <4>3. /\ IsMachine(t)
            /\ IF "run" \notin fdc.dor /\ "run" \in bits THEN t.f.left = 0 /\ t.f.sense = 4
               ELSE t.f.left = fdc.left
        BY <2>a, <4>2, OutputWritten
      <4>4. Show(t)
        BY <4>1
      <4> HIDE DEF t
      <4>5. fdc' = t.f
        BY <4>3, <4>4, Shown
      <4> QED
        BY <4>3, <4>5
    <3>4. ~write_dsr
      <4> SUFFICES ASSUME write_dsr PROVE FALSE
        OBVIOUS
      <4>1. Machine.f = fdc
        BY <2>a, MachineHas
      <4>2. Show(reset_fdc(Machine))
        BY <4>1 DEF write_dsr, write_reg_dsr
      <4>3. IsMachine(reset_fdc(Machine)) /\ reset_fdc(Machine).f.sense = 4
        BY <2>a, ResetProps
      <4>4. fdc' = reset_fdc(Machine).f
        BY <4>2, <4>3, Shown
      <4> QED
        BY <4>3, <4>4
    <3>5. ~(read_dma \/ set_fda \/ eject_fda)
      BY <2>a, OthersStep
    <3>6. ~UNCHANGED floppyVars
      BY <2>a, FloppyIdle
    <3> QED
      BY <3>1, <3>2, <3>3, <3>4, <3>5, <3>6 DEF FloppyNext
  <2> DEFINE b == Head(todo)
             g == AfterByte(fdc, b)
             s == Begun(Machine, b)
             t == write_reg_fifo(Machine, b)
             k == fdc.args[1]
             d == drives[k]
  <2>2. /\ Fits(fdc, b) /\ fdc.phase = 1 /\ todo # << >> /\ "run" \in fdc.dor
        /\ Show(t) /\ IsMachine(Machine) /\ Turn(fdc)
    BY <2>1, <2>a, NextByte
  <2>3. Machine.f = fdc /\ Machine.drives = drives /\ IsFdc(fdc)
    BY <2>2, MachineHas
  <2>4. g.left = 0 /\ g.args = Append(fdc.args, b) /\ g.cmd = "SEEK"
    BY <2>2, <2>3, AfterByteProps
  <2>5. /\ IsMachine(t) /\ t = Execute(s, g.args) /\ Executing(s) /\ SameWorld(Machine, s)
        /\ s.f.cmd = g.cmd
    BY <2>2, <2>3, <2>4, ByteTaken
  <2>6. k \in 0 .. 1
    BY <2>2 DEF FloppyInv, SeekInv
  <2>7. b \in Nat
    BY <2>2 DEF Fits
  <2>8. g.args # << >> /\ g.args[1] = k /\ g.args[2] = b
    <3>1. Len(fdc.args) + fdc.left = Argc["SEEK"]
      BY <2>2 DEF FloppyInv, AttendedInv, TodoInv
    <3>2. Argc["SEEK"] = 2
      BY DEF Argc
    <3>3. fdc.args \in Seq(Nat)
      BY <2>3 DEF IsFdc, Arguments
    <3> HIDE DEF b, g
    <3> DEFINE m == Len(fdc.args)
    <3>a. m \in Nat
      BY <3>3
    <3>b. m + 1 = 2
      BY <3>1, <3>2
    <3> HIDE DEF m
    <3>4. m = 1
      BY <3>a, <3>b
    <3> HIDE DEF k
    <3>5. g.args = Append(fdc.args, b) /\ k = fdc.args[1]
      BY <2>4 DEF k
    <3> QED
      BY <2>7, <3>3, <3>4, <3>5 DEF m
  <2>9. s.drives = drives
    BY <2>3, <2>5 DEF SameWorld
  <2> HIDE DEF g, s, k, b, t
  <2>10. t.drives[k] = seek(d, d.head, b, d.sect)
    <3> DEFINE a == g.args
    <3>1. a # << >> /\ a[1] = k /\ a[2] = b /\ s.f.cmd = "SEEK" /\ t = Execute(s, a)
      BY <2>4, <2>5, <2>8
    <3> HIDE DEF a
    <3>2. t.drives[k] = seek(s.drives[k], s.drives[k].head, b, s.drives[k].sect)
      BY <2>5, <2>6, <2>7, <3>1, SeekExecuted
    <3> QED
      BY <2>9, <3>2
  <2>11. drives'[k] = seek(d, d.head, b, d.sect)
    BY <2>2, <2>5, <2>10, Shown
  <2>12. IsDrive(d)
    BY <2>2, <2>6, MachineHas
  <2> HIDE DEF d
  <2>13. (d.buffer # NoDisk /\ b < d.max_track /\ d.head < d.max_head /\ d.sect <= d.max_sect) =>
           /\ drives'[k].track = b
           /\ drives'[k].media_changed = (d.media_changed /\ d.track = drives'[k].track)
    <3> SUFFICES ASSUME d.buffer # NoDisk, b < d.max_track, d.head < d.max_head,
                        d.sect <= d.max_sect
                 PROVE  /\ drives'[k].track = b
                        /\ drives'[k].media_changed = (d.media_changed /\ d.track = drives'[k].track)
      OBVIOUS
    <3> DEFINE q == seek(d, d.head, b, d.sect)
    <3>1. q.track = b /\ q.media_changed = (d.media_changed /\ d.track = q.track)
      BY <2>7, <2>12, SeekMoves
    <3> HIDE DEF q
    <3> QED
      BY <2>11, <3>1 DEF q
  <2> QED
    BY <2>13 DEF k, b, d
<1>2. FloppyInv /\ [FloppyNext]_floppyVars => [A]_floppyVars
  BY <1>1
<1> HIDE DEF A
<1>3. FloppySpec => [][A]_floppyVars
  BY <1>2, FloppyInvariant, PTL DEF FloppySpec
<1> QED
  BY <1>3 DEF SeekArrives, A

-----------------------------------------------------------------------------
(* What a run of do_write leaves in the image: n sectors from b on, from   *)
(* the channel's memory, over and over again.                              *)

Held(buffer, d, memory, image, b, n) ==
  \A i \in 1 .. Len(image) :
    buffer[i] = IF i \in b + 1 .. b + n THEN memory[d.addr + ((i - b - 1) % (d.count + 1))]
                ELSE image[i]

Written(d, c) == IF d.auto \/ c < d.count + 1 THEN c ELSE d.count + 1

Restarted(e, d) ==
  /\ e.addr = d.addr /\ e.count = d.count /\ e.addr_init = d.addr /\ e.count_init = d.count
  /\ e.auto = d.auto

IsMultiple(n, h) == \E j \in Nat : n = j * h

SameImage(new, image) == \A i \in 1 .. Len(image) : new[i] = image[i]

(* Some whole passes, not all. *)
Partly(new, d, memory, image, b, c) ==
  /\ d.auto
  /\ \E j \in 1 .. c : /\ j * (d.count + 1) < c
                      /\ Held(new, d, memory, image, b, j * (d.count + 1))

PassInv(x, k, d, memory, image, b, c) ==
  /\ x \in Writing(memory, image, c)
  /\ x.failed => SameImage(x.image, image) \/ Partly(x.image, d, memory, image, b, c)
  /\ ~x.failed /\ x.left = 0 => Held(x.image, d, memory, image, b, Written(d, c))
  /\ ~x.failed /\ x.left > 0 =>
       /\ Restarted(x.chan, d) /\ x.left <= c - k /\ (~d.auto => x.left = c)
       /\ IsMultiple(c - x.left, d.count + 1)
       /\ Held(x.image, d, memory, image, b, c - x.left)

(* Counting past a multiple leaves the rest. *)
LEMMA RemainderIs ==
  ASSUME NEW n \in Nat, NEW h \in Nat, IsMultiple(n, h), NEW y \in Nat, y < h
  PROVE  (n + y) % h = y
<1>1. PICK j \in Nat : n = j * h
  BY DEF IsMultiple
<1> DEFINE x == n + y
           q == x \div h
           r == x % h
<1>2. h > 0 /\ x \in Nat
  OBVIOUS
<1>3. q \in Nat /\ r \in Nat /\ r < h /\ q * h + r = x
  BY <1>2, DivProps
<1>4. x = j * h + y
  BY <1>1
<1> HIDE DEF q, r, x
<1>5. /\ q < j => q * h + h <= j * h
      /\ j < q => j * h + h <= q * h
      /\ q * h \in Int /\ j * h \in Int
  BY <1>1, <1>2, <1>3, MultiplesOrdered
<1>6. ~(q < j) /\ ~(j < q)
  BY <1>1, <1>3, <1>4, <1>5
<1>7. q = j
  BY <1>1, <1>3, <1>6
<1>8. r = y
  BY <1>3, <1>4, <1>5, <1>7
<1> QED
  BY <1>8 DEF r, x

(* One more pass. *)
LEMMA HeldMore ==
  ASSUME NEW d, NEW memory, NEW image, NEW b \in Int, NEW old, NEW new, NEW D \in Nat,
         NEW n \in Nat, d.count \in Nat, n <= d.count + 1, Len(image) \in Nat,
         IsMultiple(D, d.count + 1), d.addr \in Int,
         Held(old, d, memory, image, b, D),
         \A i \in 1 .. Len(image) :
           new[i] = IF i \in b + D + 1 .. b + D + n THEN memory[d.addr + i - (b + D) - 1]
                    ELSE old[i]
  PROVE  Held(new, d, memory, image, b, D + n)
<1> DEFINE h == d.count + 1
<1> SUFFICES ASSUME NEW i \in 1 .. Len(image)
             PROVE  new[i] = IF i \in b + 1 .. b + (D + n)
                             THEN memory[d.addr + ((i - b - 1) % h)]
                             ELSE image[i]
  BY DEF Held
<1>1. /\ new[i] = IF i \in b + D + 1 .. b + D + n THEN memory[d.addr + i - (b + D) - 1]
                  ELSE old[i]
      /\ old[i] = IF i \in b + 1 .. b + D THEN memory[d.addr + ((i - b - 1) % h)]
                  ELSE image[i]
  BY DEF Held
<1>2. i \in Int
  OBVIOUS
<1>3. CASE i \in b + D + 1 .. b + D + n
  <2> DEFINE y == i - b - D - 1
  <2>1. y \in Nat /\ y < h /\ h \in Nat
    BY <1>2, <1>3
  <2>2. (D + y) % h = y
    BY <2>1, RemainderIs
  <2>3. D + y = i - b - 1
    BY <1>2
  <2>4. (i - b - 1) % h = y
    BY <2>2, <2>3
  <2>5. d.addr + i - (b + D) - 1 = d.addr + y
    BY <1>2
  <2>6. i \in b + 1 .. b + (D + n)
    BY <1>2, <1>3
  <2> HIDE DEF y
  <2>7. new[i] = memory[d.addr + y]
    BY <1>1, <1>3, <2>5
  <2> QED
    BY <2>4, <2>6, <2>7
<1>4. CASE i \notin b + D + 1 .. b + D + n
  <2>1. new[i] = old[i]
    BY <1>1, <1>4
  <2>2. i \in b + 1 .. b + (D + n) <=> i \in b + 1 .. b + D
    BY <1>2, <1>4
  <2> QED
    BY <1>1, <2>1, <2>2
<1> QED
  BY <1>3, <1>4

(* The channel was programmed for a transfer of at most 64 kB less one. *)
Fresh(d) == d \in Channels /\ Restarted(d, d) /\ d.count + 1 \in Words

(* What a channel is that was just programmed. *)
LEMMA FreshIs ==
  ASSUME NEW d, Fresh(d)
  PROVE  /\ d.addr \in Int /\ d.count \in Nat /\ d.auto \in BOOLEAN /\ d \in Channels
         /\ Wrap(d.count + 1) = d.count + 1
<1>1. d \in Channels /\ d.count + 1 \in Words
  BY DEF Fresh
<1>2. d.addr \in Words /\ d.count \in Words /\ d.auto \in BOOLEAN
  BY <1>1 DEF Channels
<1>3. \A x \in Words : x \in Nat
  BY DmaAssumption DEF Words
<1>4. d.addr \in Int /\ d.count \in Nat /\ d.count + 1 \in Int
  BY <1>2, <1>3
<1> QED
  BY <1>1, <1>2, <1>4, WrapProps

(* One more pass keeps what the passes maintain. *)
LEMMA NextPass ==
  ASSUME NEW d, Fresh(d), NEW memory, NEW image, IsBuffer(image), NEW b \in Int,
         NEW c \in Nat, NEW k \in Nat, NEW x, PassInv(x, k, d, memory, image, b, c)
  PROVE  PassInv(WriteStep(d.auto, memory, b, c, x), k + 1, d, memory, image, b, c)
<1> DEFINE t == WriteStep(d.auto, memory, b, c, x)
           h == d.count + 1
           m == x.left
           D == c - m
           P == b + c - m
           w == WritePass(x.chan, memory, x.image, P, m)
           left == IF d.auto THEN m - w.done ELSE 0
           u == [chan |-> w.chan, image |-> w.image, failed |-> w.failed, left |-> left]
<1>1. t = IF x.failed \/ m = 0 THEN x ELSE u
  BY DEF WriteStep
<1>2. /\ d.addr \in Int /\ d.count \in Nat /\ d.auto \in BOOLEAN /\ d \in Channels
      /\ Wrap(h) = h
  BY FreshIs
<1>3. x \in Writing(memory, image, c)
  BY DEF PassInv
<1>4. m \in 0 .. c /\ x.failed \in BOOLEAN /\ x.chan \in Channels
      /\ x.image \in [1 .. Len(image) -> Contents(memory, image)]
  BY <1>3 DEF Writing
<1>5. t \in Writing(memory, image, c)
  BY <1>2, <1>3, StepWrites
<1>6. CASE x.failed \/ m = 0
  <2>1. t = x
    BY <1>1, <1>6
  <2> HIDE DEF t
  <2>2. CASE x.failed
    BY <1>3, <2>1, <2>2 DEF PassInv, t
  <2>3. CASE ~x.failed /\ x.left = 0
    BY <1>3, <2>1, <2>3 DEF PassInv, t
  <2> QED
    BY <1>6, <2>2, <2>3
<1>7. CASE ~x.failed /\ m > 0
  <2>1. /\ Restarted(x.chan, d) /\ m <= c - k /\ (~d.auto => m = c)
        /\ IsMultiple(D, h) /\ Held(x.image, d, memory, image, b, D)
    BY <1>7 DEF PassInv
  <2>2. t = u
    BY <1>1, <1>4, <1>7
  <2>3. P = b + D /\ D \in Nat /\ b + D \in Int /\ Len(image) \in Nat /\ m \in Nat
    BY <1>4 DEF IsBuffer
  <2> HIDE DEF D
  <2>4. x.chan.count + 1 = h /\ x.chan.auto = d.auto /\ x.chan.addr = d.addr
        /\ x.chan.addr_init = d.addr /\ x.chan.count_init = d.count
    BY <2>1 DEF Restarted
  <2> HIDE DEF t, u, m, left, P
  <2>6. /\ w.chan \in Channels /\ w.failed \in BOOLEAN
        /\ w.done = (IF m < Wrap(x.chan.count + 1) THEN m ELSE Wrap(x.chan.count + 1))
        /\ w.done \in 0 .. m
        /\ ~w.failed => \A i \in 1 .. Len(image) :
             w.image[i] = IF i \in P + 1 .. P + w.done
                          THEN memory[x.chan.addr + i - P - 1] ELSE x.image[i]
        /\ w.failed => w.image = x.image
        /\ ~w.failed /\ m >= Wrap(x.chan.count + 1) /\ x.chan.auto =>
             /\ w.chan.addr = x.chan.addr_init /\ w.chan.count = x.chan.count_init
             /\ w.chan.addr_init = x.chan.addr_init /\ w.chan.count_init = x.chan.count_init
             /\ w.chan.page = x.chan.page /\ w.chan.auto = x.chan.auto
    <3>1. P \in Int
      BY <2>3
    <3>2. x.chan \in Channels /\ m \in Nat
      BY <1>4, <2>3
    <3>3. IsPass(w, x.chan, memory, image, x.image, P, m)
      BY <1>4, <3>1, <3>2, PassProps
    <3> HIDE DEF w
    <3> QED
      BY <3>3 DEF IsPass
  <2> HIDE DEF w
  <2> DEFINE n == w.done
  <2>7. /\ n = (IF m < h THEN m ELSE h) /\ n \in 0 .. m /\ n <= h
        /\ ~w.failed => \A i \in 1 .. Len(image) :
             w.image[i] = IF i \in b + D + 1 .. b + D + n
                          THEN memory[d.addr + i - (b + D) - 1] ELSE x.image[i]
        /\ ~w.failed /\ m >= h /\ d.auto => Restarted(w.chan, d)
    <3>1. n = (IF m < h THEN m ELSE h) /\ n \in 0 .. m
      BY <1>2, <2>4, <2>6
    <3>2. n <= h
      BY <1>2, <2>3, <3>1
    <3>3. ~w.failed => \A i \in 1 .. Len(image) :
             w.image[i] = IF i \in b + D + 1 .. b + D + n
                          THEN memory[d.addr + i - (b + D) - 1] ELSE x.image[i]
      BY <2>3, <2>4, <2>6
    <3>4. ~w.failed /\ m >= h /\ d.auto => Restarted(w.chan, d)
      BY <1>2, <2>4, <2>6 DEF Restarted
    <3> QED
      BY <3>1, <3>2, <3>3, <3>4
  <2>8. t.chan = w.chan /\ t.image = w.image /\ t.failed = w.failed /\ t.left = left
    BY <2>2 DEF u
  <2>9. h \in Nat /\ h > 0 /\ m > 0 /\ c \in Nat /\ D + m = c
    BY <1>2, <1>7, <2>3 DEF D, m
  <2>10. t.failed => SameImage(t.image, image) \/ Partly(t.image, d, memory, image, b, c)
    <3> SUFFICES ASSUME t.failed
                 PROVE  SameImage(t.image, image) \/ Partly(t.image, d, memory, image, b, c)
      OBVIOUS
    <3>1. t.image = x.image
      BY <2>6, <2>8
    <3>2. Held(t.image, d, memory, image, b, D) /\ D < c
      BY <2>1, <2>3, <2>9, <3>1
    <3>3. PICK j \in Nat : D = j * h
      BY <2>1 DEF IsMultiple
    <3>4. CASE D = 0
      <4> SUFFICES ASSUME NEW i \in 1 .. Len(image)
                   PROVE  t.image[i] = image[i]
        BY DEF SameImage
      <4>1. t.image[i] = IF i \in b + 1 .. b + D
                         THEN memory[d.addr + ((i - b - 1) % h)] ELSE image[i]
        BY <3>2 DEF Held
      <4>2. i \notin b + 1 .. b + D
        BY <3>4
      <4> QED
        BY <4>1, <4>2
    <3>5. CASE D # 0
      <4>1. d.auto
        BY <1>2, <2>1, <2>3, <2>9, <3>5
      <4> HIDE DEF h
      <4>2. j # 0
        BY <2>9, <3>3, <3>5
      <4>3. 1 * j <= h * j
        BY <2>9, <4>2, MultiplesOrdered
      <4>4. j <= D /\ j * h < c
        BY <2>9, <3>2, <3>3, <4>3
      <4>5. j \in 1 .. c
        BY <2>3, <2>9, <3>2, <4>2, <4>4
      <4>6. Held(t.image, d, memory, image, b, j * h)
        BY <3>2, <3>3
      <4>7. \E i \in 1 .. c : i * h < c /\ Held(t.image, d, memory, image, b, i * h)
        BY <4>4, <4>5, <4>6
      <4> QED
        BY <4>1, <4>7 DEF Partly, h
    <3> QED
      BY <3>4, <3>5
  <2>11. ~t.failed => Held(t.image, d, memory, image, b, D + n)
    <3> SUFFICES ASSUME ~w.failed PROVE Held(w.image, d, memory, image, b, D + n)
      BY <2>8
    <3> DEFINE new == w.image
               old == x.image
    <3>1. \A i \in 1 .. Len(image) :
            new[i] = IF i \in b + D + 1 .. b + D + n THEN memory[d.addr + i - (b + D) - 1]
                     ELSE old[i]
      BY <2>7
    <3>2. Held(old, d, memory, image, b, D)
      BY <2>1
    <3>3. n \in Nat /\ n <= d.count + 1 /\ IsMultiple(D, d.count + 1)
      BY <2>1, <2>7
    <3> HIDE DEF new, old, n
    <3>4. Held(new, d, memory, image, b, D + n)
      BY <1>2, <2>3, <3>1, <3>2, <3>3, HeldMore
    <3> QED
      BY <3>4 DEF new
  <2>12. left = 0 => D + n = Written(d, c)
    <3>1. CASE d.auto
      BY <2>3, <2>7, <2>9, <3>1 DEF left, Written
    <3>2. CASE ~d.auto
      <4>1. m = c
        BY <2>1, <3>2
      <4>2. D = 0
        BY <2>3, <2>9, <4>1
      <4>3. n = IF c < h THEN c ELSE h
        BY <2>7, <4>1
      <4> QED
        BY <2>9, <3>2, <4>2, <4>3 DEF Written
    <3> QED
      BY <3>1, <3>2
  <2>13. ASSUME ~w.failed, left > 0
         PROVE  /\ Restarted(w.chan, d) /\ left <= c - (k + 1) /\ d.auto
                /\ IsMultiple(c - left, h) /\ c - left = D + n
    <3>1. d.auto /\ left = m - n
      BY <2>13 DEF left
    <3>2. n = h /\ m >= h
      BY <2>3, <2>7, <2>9, <2>13, <3>1
    <3>3. Restarted(w.chan, d)
      BY <2>7, <2>13, <3>1, <3>2
    <3>4. c - left = D + h
      BY <2>3, <2>9, <3>1, <3>2
    <3>5. IsMultiple(D + h, h)
      <4>1. PICK j \in Nat : D = j * h
        BY <2>1 DEF IsMultiple
      <4>2. (j + 1) * h = j * h + h
        BY <2>9, MultiplesOrdered
      <4>3. j + 1 \in Nat /\ D + h = (j + 1) * h
        BY <4>1, <4>2
      <4> QED
        BY <4>3 DEF IsMultiple
    <3>6. left <= c - (k + 1)
      BY <2>1, <2>3, <2>9, <3>1, <3>2
    <3> HIDE DEF left, h, n
    <3> QED
      BY <3>1, <3>2, <3>3, <3>4, <3>5, <3>6
  <2>14. left \in Nat
    BY <1>2, <2>7, <2>3 DEF left
  <2> HIDE DEF left, h, n
  <2>15. ~t.failed /\ t.left = 0 => Held(t.image, d, memory, image, b, Written(d, c))
    BY <2>8, <2>11, <2>12
  <2>16. ~t.failed /\ t.left > 0 =>
           /\ Restarted(t.chan, d) /\ t.left <= c - (k + 1) /\ (~d.auto => t.left = c)
           /\ IsMultiple(c - t.left, h)
           /\ Held(t.image, d, memory, image, b, c - t.left)
    BY <2>8, <2>11, <2>13
  <2> QED
    BY <1>5, <2>10, <2>15, <2>16 DEF PassInv, t, h
<1> QED
  BY <1>4, <1>6, <1>7

(* do_write, from the first pass to the last. *)
LEMMA WriteIs ==
  ASSUME NEW d, Fresh(d), NEW memory, NEW image, IsBuffer(image), NEW b \in Int,
         NEW c \in Nat, c > 0
  PROVE  LET x == do_write(d, memory, image, b, c)
         IN  /\ ~x.failed => Held(x.image, d, memory, image, b, Written(d, c))
             /\ x.failed => x.image = image \/ Partly(x.image, d, memory, image, b, c)
<1> DEFINE x == do_write(d, memory, image, b, c)
           Inv(y, k) == PassInv(y, k, d, memory, image, b, c)
<1>1. /\ d.addr \in Int /\ d.count \in Nat /\ d.auto \in BOOLEAN /\ d \in Channels
      /\ Restarted(d, d)
  BY FreshIs DEF Fresh
<1>2. PICK r : IsWriteRun(r, d, memory, image, b, c)
  BY <1>1, WriteRun
<1>3. /\ r \in [0 .. c -> Writing(memory, image, c)] /\ r[0] = FirstWrite(d, image, c)
      /\ \A k \in 1 .. c : r[k] = WriteStep(d.auto, memory, b, c, r[k - 1])
      /\ x = [chan |-> r[c].chan, mem |-> memory, image |-> r[c].image, failed |-> r[c].failed]
  BY <1>2 DEF IsWriteRun
<1> HIDE DEF x
<1>4. Inv(r[0], 0)
  <2> DEFINE y == r[0]
  <2>1. y \in Writing(memory, image, c)
    BY <1>3
  <2>2. y.chan = d /\ y.image = image /\ y.failed = FALSE /\ y.left = c
    BY <1>3 DEF FirstWrite
  <2> HIDE DEF y
  <2>3. IsMultiple(c - c, d.count + 1)
    <3>1. c - c = 0 * (d.count + 1)
      BY <1>1
    <3> QED
      BY <3>1 DEF IsMultiple
  <2>4. Held(image, d, memory, image, b, c - c)
    <3> SUFFICES ASSUME NEW i \in 1 .. Len(image)
                 PROVE  i \notin b + 1 .. b + (c - c)
      BY DEF Held
    <3> QED
      OBVIOUS
  <2>5. c <= c - 0 /\ (~d.auto => c = c)
    OBVIOUS
  <2> QED
    BY <1>1, <2>1, <2>2, <2>3, <2>4, <2>5 DEF PassInv, y
<1> DEFINE P == {k \in Nat : k <= c => Inv(r[k], k)}
<1>5. \A k \in P \cap Nat : k + 1 \in P
  <2> SUFFICES ASSUME NEW k \in Nat, k + 1 <= c, Inv(r[k], k)
               PROVE  Inv(r[k + 1], k + 1)
    OBVIOUS
  <2>1. k + 1 \in 1 .. c /\ (k + 1) - 1 = k
    OBVIOUS
  <2>2. r[k + 1] = WriteStep(d.auto, memory, b, c, r[k])
    BY <1>3, <2>1
  <2> DEFINE y == r[k]
  <2>3. PassInv(y, k, d, memory, image, b, c)
    OBVIOUS
  <2> HIDE DEF y
  <2>4. PassInv(WriteStep(d.auto, memory, b, c, y), k + 1, d, memory, image, b, c)
    BY <2>3, NextPass
  <2> QED
    BY <2>2, <2>4 DEF y
<1>6. Inv(r[c], c)
  <2>1. 0 \in P
    BY <1>4
  <2> HIDE DEF Inv
  <2> DEFINE Q == P
  <2>2. 0 \in Q /\ \A k \in Q \cap Nat : k + 1 \in Q
    BY <1>5, <2>1
  <2> HIDE DEF Q
  <2>3. c \in Q
    BY <2>2, SetInduction
  <2> QED
    BY <2>3 DEF Q
<1> DEFINE z == r[c]
<1>7. PassInv(z, c, d, memory, image, b, c)
  BY <1>6
<1>8. x.failed = z.failed /\ x.image = z.image
  BY <1>3
<1> HIDE DEF z
<1>9. z \in Writing(memory, image, c)
  BY <1>7 DEF PassInv
<1>10. /\ z.left \in 0 .. c /\ z.failed \in BOOLEAN
       /\ z.image \in [1 .. Len(image) -> Contents(memory, image)]
  BY <1>9 DEF Writing
<1>11. ~z.failed => Held(z.image, d, memory, image, b, Written(d, c))
  <2> SUFFICES ASSUME ~z.failed PROVE Held(z.image, d, memory, image, b, Written(d, c))
    OBVIOUS
  <2>1. z.left > 0 => z.left <= c - c
    BY <1>7 DEF PassInv
  <2>2. z.left = 0
    BY <1>10, <2>1
  <2> QED
    BY <1>7, <2>2 DEF PassInv
<1>12. z.failed => SameImage(z.image, image) \/ Partly(z.image, d, memory, image, b, c)
  BY <1>7 DEF PassInv
<1>13. SameImage(z.image, image) => z.image = image
  <2> SUFFICES ASSUME SameImage(z.image, image) PROVE z.image = image
    OBVIOUS
  <2>1. \A i \in 1 .. Len(image) : z.image[i] = image[i]
    BY DEF SameImage
  <2>2. image = [i \in 1 .. Len(image) |-> image[i]]
    BY DEF IsBuffer
  <2>3. z.image = [i \in 1 .. Len(image) |-> z.image[i]]
    BY <1>10
  <2> QED
    BY <2>1, <2>2, <2>3, Zenon
<1> QED
  BY <1>8, <1>11, <1>12, <1>13 DEF x

(* Counting in two digits keeps the order. *)
LEMMA Lexical ==
  ASSUME NEW H \in Nat, NEW a \in Nat, NEW c \in Nat, NEW b \in 0 .. H - 1,
         NEW d \in 0 .. H - 1
  PROVE  /\ a * H \in Nat /\ c * H \in Nat
         /\ a * H + b < c * H + d <=> a < c \/ (a = c /\ b < d)
         /\ a * H + b = c * H + d <=> a = c /\ b = d
<1>0. H > 0 /\ b \in Nat /\ d \in Nat /\ b < H /\ d < H
  OBVIOUS
<1>1. a < c => a * H + H <= c * H
  BY <1>0, MultiplesOrdered
<1>2. c < a => c * H + H <= a * H
  BY <1>0, MultiplesOrdered
<1>3. a * H \in Nat /\ c * H \in Nat
  OBVIOUS
<1>4. a = c => a * H = c * H
  OBVIOUS
<1> DEFINE u == a * H
           v == c * H
<1>5. u \in Nat /\ v \in Nat /\ (a < c => u + H <= v) /\ (c < a => v + H <= u) /\ (a = c => u = v)
  BY <1>1, <1>2, <1>3, <1>4
<1> HIDE DEF u, v
<1>6. /\ u + b < v + d <=> a < c \/ (a = c /\ b < d)
      /\ u + b = v + d <=> a = c /\ b = d
  BY <1>0, <1>5
<1> QED
  BY <1>3, <1>6 DEF u, v

(* The places before the one with the numbers t, h and e. *)
Before(T, H, M, t, h, e) ==
  {x \in (0 .. T) \X (0 .. H - 1) \X (1 .. M) :
     \/ x[1] < t
     \/ x[1] = t /\ x[2] < h
     \/ x[1] = t /\ x[2] = h /\ x[3] < e}

(* There are as many places before one as its numbers say. *)
LEMMA BeforeCounted ==
  ASSUME NEW T \in Nat, NEW H \in Nat, NEW M \in Nat, NEW t \in 0 .. T, NEW h \in 0 .. H - 1,
         NEW e \in 1 .. M
  PROVE  Cardinality(Before(T, H, M, t, h, e)) = (t * H + h) * M + e - 1
<1> DEFINE S == Before(T, H, M, t, h, e)
           q == t * H + h
           N == q * M + (e - 1)
           F == [x \in S |-> (x[1] * H + x[2]) * M + x[3]]
<1>1. /\ t \in Nat /\ t <= T /\ h \in Nat /\ H > 0 /\ e - 1 \in 0 .. M - 1 /\ M > 0
      /\ e \in Nat /\ q \in Nat /\ N \in Nat
  <2>1. q \in Nat
    BY Lexical
  <2> HIDE DEF q
  <2>2. q * M \in Nat
    BY <2>1, MultiplesOrdered
  <2> QED
    BY <2>1, <2>2
<1>2. ASSUME NEW x \in S
      PROVE  /\ x[1] \in Nat /\ x[2] \in 0 .. H - 1 /\ x[3] - 1 \in 0 .. M - 1
             /\ x[1] * H + x[2] \in Nat /\ (x[1] * H + x[2]) * M \in Nat
             /\ F[x] = (x[1] * H + x[2]) * M + x[3] /\ F[x] \in 1 .. N
             /\ x = <<x[1], x[2], x[3]>>
  <2> DEFINE a == x[1]
             b == x[2]
             c == x[3]
             p == a * H + b
  <2>1. /\ a \in Nat /\ b \in 0 .. H - 1 /\ c \in 1 .. M /\ x = <<a, b, c>>
        /\ a < t \/ (a = t /\ b < h) \/ (a = t /\ b = h /\ c < e)
    BY DEF Before
  <2>2. c - 1 \in 0 .. M - 1
    BY <2>1
  <2>3. F[x] = p * M + c
    OBVIOUS
  <2> HIDE DEF a, b, c, F, S
  <2>4. /\ p \in Nat
        /\ p < q <=> a < t \/ (a = t /\ b < h)
        /\ p = q <=> a = t /\ b = h
    BY <1>1, <2>1, Lexical
  <2>5. p < q \/ (p = q /\ c - 1 < e - 1)
    BY <1>1, <2>1, <2>4
  <2> HIDE DEF p, q
  <2>6. p * M \in Nat /\ (p * M + (c - 1) < q * M + (e - 1) <=> p < q \/ (p = q /\ c - 1 < e - 1))
    <3> DEFINE u == c - 1
               v == e - 1
    <3>1. u \in 0 .. M - 1 /\ v \in 0 .. M - 1
      BY <1>1, <2>2
    <3> HIDE DEF u, v
    <3>2. p \in Nat /\ q \in Nat
      BY <1>1, <2>4
    <3>3. p * M \in Nat /\ (p * M + u < q * M + v <=> p < q \/ (p = q /\ u < v))
      BY <3>1, <3>2, Lexical
    <3> QED
      BY <3>3 DEF u, v
  <2>7. F[x] \in 1 .. N
    BY <1>1, <2>1, <2>3, <2>5, <2>6
  <2> QED
    BY <2>1, <2>2, <2>3, <2>4, <2>6, <2>7 DEF a, b, c, p
<1>3. F \in [S -> 1 .. N]
  <2>1. \A x \in S : F[x] \in 1 .. N
    BY <1>2
  <2> HIDE DEF S, N
  <2> QED
    BY <2>1
<1>4. ASSUME NEW x \in S, NEW y \in S, F[x] = F[y]
      PROVE  x = y
  <2> DEFINE p == x[1] * H + x[2]
             r == y[1] * H + y[2]
  <2>1. /\ x[1] \in Nat /\ x[2] \in 0 .. H - 1 /\ x[3] - 1 \in 0 .. M - 1
        /\ y[1] \in Nat /\ y[2] \in 0 .. H - 1 /\ y[3] - 1 \in 0 .. M - 1
        /\ p \in Nat /\ r \in Nat /\ p * M \in Nat /\ r * M \in Nat
        /\ F[x] = p * M + x[3] /\ F[y] = r * M + y[3]
        /\ x = <<x[1], x[2], x[3]>> /\ y = <<y[1], y[2], y[3]>>
        /\ x[3] \in Int /\ y[3] \in Int
    <3>1. x[3] \in Int /\ y[3] \in Int
      BY DEF Before
    <3> HIDE DEF F, S
    <3> QED
      BY <1>2, <3>1
  <2>2. p = r <=> x[1] = y[1] /\ x[2] = y[2]
    BY <2>1, Lexical
  <2> HIDE DEF p, r, F, S
  <2>3. p * M + (x[3] - 1) = r * M + (y[3] - 1)
    <3> DEFINE u == p * M
               v == r * M
    <3>1. u \in Nat /\ v \in Nat /\ F[x] = u + x[3] /\ F[y] = v + y[3]
      BY <2>1
    <3> HIDE DEF u, v
    <3>2. u + x[3] = v + y[3]
      BY <1>4, <3>1
    <3>3. u + (x[3] - 1) = v + (y[3] - 1)
      BY <2>1, <3>1, <3>2
    <3> QED
      BY <3>3 DEF u, v
  <2>4. p = r /\ x[3] - 1 = y[3] - 1
    <3> DEFINE u == x[3] - 1
               v == y[3] - 1
    <3> HIDE DEF u, v
    <3>1. u \in 0 .. M - 1 /\ v \in 0 .. M - 1 /\ p * M + u = r * M + v
      BY <2>1, <2>3 DEF u, v
    <3> QED
      BY <2>1, <3>1, Lexical DEF u, v
  <2>5. x[3] = y[3]
    BY <2>1, <2>4
  <2> QED
    BY <2>1, <2>2, <2>4, <2>5
<1>5. ASSUME NEW n \in 1 .. N
      PROVE  \E x \in S : F[x] = n
  <2> DEFINE p == (n - 1) \div M
             c == (n - 1) % M
             a == p \div H
             b == p % H
             x == <<a, b, c + 1>>
  <2>0. n - 1 \in Nat /\ n \in Int
    OBVIOUS
  <2>1. p \in Nat /\ c \in Nat /\ c < M /\ p * M + c = n - 1
    BY <1>1, <2>0, DivProps
  <2>a. n - 1 < N
    BY <1>1
  <2> HIDE DEF p, c
  <2>2. a \in Nat /\ b \in Nat /\ b < H /\ a * H + b = p
    BY <1>1, <2>1, DivProps
  <2> HIDE DEF a, b
  <2>3. p < q \/ (p = q /\ c < e - 1)
    <3>1. c \in 0 .. M - 1
      BY <1>1, <2>1
    <3> HIDE DEF q
    <3>2. p * M + c < q * M + (e - 1) <=> p < q \/ (p = q /\ c < e - 1)
      BY <1>1, <2>1, <3>1, Lexical
    <3> QED
      BY <2>1, <2>a, <3>2
  <2>4. /\ p < q <=> a < t \/ (a = t /\ b < h)
        /\ p = q <=> a = t /\ b = h
    <3>1. b \in 0 .. H - 1
      BY <1>1, <2>2
    <3> QED
      BY <1>1, <2>2, <3>1, Lexical
  <2>5. a < t \/ (a = t /\ b < h) \/ (a = t /\ b = h /\ c + 1 < e)
    BY <1>1, <2>1, <2>3, <2>4
  <2>6. a \in 0 .. T /\ b \in 0 .. H - 1 /\ c + 1 \in 1 .. M
    BY <1>1, <2>1, <2>2, <2>5
  <2>7. x \in S
    BY <2>5, <2>6 DEF Before
  <2>8. F[x] = (a * H + b) * M + (c + 1)
    BY <2>7
  <2>9. F[x] = n
    <3>1. F[x] = p * M + (c + 1)
      BY <2>2, <2>8
    <3>2. p * M \in Nat
      BY <1>1, <2>1, MultiplesOrdered
    <3> HIDE DEF x, F
    <3> QED
      BY <2>0, <2>1, <3>1, <3>2
  <2> QED
    BY <2>7, <2>9
<1> HIDE DEF F, S, N
<1>6. F \in Bijection(S, 1 .. N)
  BY <1>3, <1>4, <1>5, Fun_IsBij
<1>7. ExistsBijection(1 .. N, S)
  BY <1>6, Fun_ExistsBij, Fun_ExistsBijSymmetric
<1>8. Cardinality(S) = N
  BY <1>1, <1>7, FS_CountingElements
<1> QED
  BY <1>1, <1>8 DEF S, N

(* The logical address of a sector is the number of sectors before it. *)
LEMMA PlaceIs ==
  ASSUME NEW d, IsDrive(d), NEW a, a.track \in 0 .. d.max_track,
         a.head \in 0 .. d.max_head - 1, a.sect \in 1 .. d.max_sect
  PROVE  Place(d, a) = chs2lba(d, a.track, a.head, a.sect)
<1> DEFINE T == d.max_track
           H == d.max_head
           M == d.max_sect
           t == a.track
           h == a.head
           e == a.sect
<1>1. T \in Nat /\ H \in Nat /\ M \in Nat
  BY DEF IsDrive
<1>2. Place(d, a) = Cardinality(Before(T, H, M, t, h, e))
  BY DEF Place, Before
<1>3. chs2lba(d, t, h, e) = (t * H + h) * M + e - 1
  BY DEF chs2lba
<1>4. t \in 0 .. T /\ h \in 0 .. H - 1 /\ e \in 1 .. M
  OBVIOUS
<1> HIDE DEF T, H, M, t, h, e
<1>5. Cardinality(Before(T, H, M, t, h, e)) = (t * H + h) * M + e - 1
  BY <1>1, <1>4, BeforeCounted
<1> QED
  BY <1>2, <1>3, <1>5 DEF t, h, e

(* The four commands that move sectors. *)
LEMMA TransferIs ==
  ASSUME NEW s, NEW a, s.f.cmd \in Transfers
  PROVE  Execute(s, a) = start_read_write(s, a, s.f.cmd \in {"WRITE", "WRITE_MT"},
                                          s.f.cmd \in {"READ_MT", "WRITE_MT"})
<1> DEFINE c == s.f.cmd
           write == c \in {"WRITE", "WRITE_MT"}
           mt == c \in {"READ_MT", "WRITE_MT"}
<1>1. CASE c \in {"READ", "READ_MT"}
  <2>1. Execute(s, a) = start_read_write(s, a, FALSE, c = "READ_MT")
    BY <1>1 DEF Execute
  <2>2. write = FALSE /\ mt = (c = "READ_MT")
    BY <1>1
  <2> QED
    BY <2>1, <2>2
<1>2. CASE c \in {"WRITE", "WRITE_MT"}
  <2>1. Execute(s, a) = start_read_write(s, a, TRUE, c = "WRITE_MT")
    BY <1>2 DEF Execute
  <2>2. write = TRUE /\ mt = (c = "WRITE_MT")
    BY <1>2
  <2> QED
    BY <2>1, <2>2
<1> QED
  BY <1>1, <1>2 DEF Transfers

-----------------------------------------------------------------------------
(* What a transfer moves. *)

Reads(c)  == c \in {"READ", "READ_MT"}
Writes(c) == c \in {"WRITE", "WRITE_MT"}

Sent(d, to, p, before, after) ==
  \A i \in 0 .. MemSize - 1 :
    after[i] = IF i \in to.addr .. to.addr + to.count THEN d.buffer[p + i - to.addr + 1]
               ELSE before[i]

Kept(d, to, p, n, new, memory) ==
  \A i \in 1 .. Len(d.buffer) :
    new[i] = IF i \in p + 1 .. p + n THEN memory[to.addr + ((i - p - 1) % (to.count + 1))]
                  ELSE d.buffer[i]

PartlyKept(d, to, p, n, new, memory) ==
  /\ to.auto
  /\ \E k \in 1 .. n : /\ k * (to.count + 1) < n
                      /\ Kept(d, to, p, k * (to.count + 1), new, memory)

Sectored(at, c) == (IF c = "WRITE_MT" THEN 2 * at.eot ELSE at.eot) - at.sect + 1

(* The status of the transfer c says what t has of it, after s. *)
Truth(s, t, at, to, c) ==
  LET d == s.drives[at.drive]
      q == t.drives[at.drive]
      n == Sectored(at, c)
      normal == t.f.st0 \cap Errors = {}
  IN  /\ normal /\ Reads(c) => Sent(d, to, Place(d, at), s.mem, t.mem) /\ q.buffer = d.buffer
      /\ normal /\ Writes(c) =>
           /\ t.mem = s.mem
           /\ Kept(d, to, Place(d, at), IF to.auto \/ n < to.count + 1 THEN n ELSE to.count + 1,
                   q.buffer, s.mem)
      /\ ~normal =>
           /\ t.mem = s.mem
           /\ \/ q.buffer = d.buffer
              \/ Writes(c) /\ PartlyKept(d, to, Place(d, at), n, q.buffer, s.mem)

(* The guest has programmed the channel. *)
LEMMA TargetIsFresh ==
  ASSUME NEW c \in Channels, NEW to \in Targets, Programmed(c, to)
  PROVE  Fresh(c)
<1>1. to.count \in 0 .. Base * Base - 2
  BY FloppyAssumption
<1>2. Base * Base \in Int
  BY DmaAssumption
<1> DEFINE w == Base * Base
<1>3. w \in Int /\ to.count \in 0 .. w - 2
  BY <1>1, <1>2
<1> HIDE DEF w
<1>4. to.count + 1 \in 0 .. w - 1
  BY <1>3
<1>5. c.count = to.count
  BY DEF Programmed
<1>6. c.count + 1 \in Words
  BY <1>4, <1>5 DEF w, Words
<1>7. Restarted(c, c)
  BY DEF Programmed, Restarted
<1> QED
  BY <1>6, <1>7 DEF Fresh

(* seek finds only places that are on the disk. *)
LEMMA FoundIsOnDisk ==
  ASSUME NEW d, IsDrive(d), NEW head \in 0 .. 1, NEW track \in Nat, NEW sect \in Nat \ {0},
         SeekResult(d, head, track, sect) \notin {2, 3}
  PROVE  /\ track \in 0 .. d.max_track /\ head \in 0 .. d.max_head - 1
         /\ sect \in 1 .. d.max_sect
<1>1. /\ d.max_track \in Nat /\ d.max_head \in 0 .. 2 /\ d.max_sect \in Nat
      /\ IsBuffer(d.buffer) /\ Len(d.buffer) = d.max_track * d.max_head * d.max_sect
  BY DEF IsDrive
<1>2. /\ ~(track > d.max_track \/ (head # 0 /\ d.max_head = 1)) /\ ~(sect > d.max_sect)
      /\ d.buffer # NoDisk
  BY DEF SeekResult
<1>3. d.max_head # 0
  <2> SUFFICES ASSUME d.max_head = 0 PROVE d.buffer = << >>
    BY <1>2 DEF NoDisk
  <2>1. Len(d.buffer) = 0
    BY <1>1
  <2>2. d.buffer = [i \in 1 .. 0 |-> d.buffer[i]]
    BY <1>1, <2>1 DEF IsBuffer
  <2> QED
    BY <2>2
<1> QED
  BY <1>1, <1>2, <1>3

(* do_read delivers. *)
LEMMA ReadMoves ==
  ASSUME NEW c \in Channels, NEW to \in Targets, Programmed(c, to), NEW d, IsBuffer(d.buffer),
         NEW memory, DOMAIN memory = 0 .. MemSize - 1, NEW b \in Int
  PROVE  LET x == do_read(c, memory, d.buffer, b)
         IN  /\ x.image = d.buffer /\ (x.failed => x.mem = memory)
             /\ ~x.failed => Sent(d, to, b, memory, x.mem)
<1> DEFINE x == do_read(c, memory, d.buffer, b)
           image == d.buffer
<1>1. IsRead(x, c, memory, image, b)
  BY ReadProps
<1> HIDE DEF x
<1>2. /\ x.image = image /\ x.failed \in BOOLEAN
      /\ x.mem = IF x.failed THEN memory ELSE Blob(memory, c.addr, image, b, c.count + 1)
  BY <1>1 DEF IsRead
<1>3. to.addr \in Int /\ to.count \in Int /\ c.addr = to.addr /\ c.count = to.count
  BY FloppyAssumption, DmaAssumption DEF Programmed
<1>4. ASSUME ~x.failed PROVE Sent(d, to, b, memory, x.mem)
  <2>1. x.mem = Blob(memory, to.addr, image, b, to.count + 1)
    BY <1>2, <1>3, <1>4
  <2>2. x.mem = [i \in 0 .. MemSize - 1 |->
                   IF i \in to.addr .. to.addr + (to.count + 1) - 1
                   THEN image[b + i - to.addr + 1] ELSE memory[i]]
    BY <2>1 DEF Blob
  <2>3. to.addr + (to.count + 1) - 1 = to.addr + to.count
    BY <1>3
  <2> QED
    BY <2>2, <2>3 DEF Sent
<1> QED
  BY <1>2, <1>4 DEF x

(* What do_write returns. *)
IsWritten(x, d, to, b, n, memory) ==
  /\ x.mem = memory
  /\ x.failed => x.image = d.buffer \/ PartlyKept(d, to, b, n, x.image, memory)
  /\ ~x.failed => Kept(d, to, b, IF to.auto \/ n < to.count + 1 THEN n ELSE to.count + 1,
                       x.image, memory)

(* do_write stores. *)
LEMMA WriteMoves ==
  ASSUME NEW c \in Channels, NEW to \in Targets, Programmed(c, to), NEW d, IsBuffer(d.buffer),
         NEW memory, NEW b \in Int, NEW n \in Nat, n > 0
  PROVE  IsWritten(do_write(c, memory, d.buffer, b, n), d, to, b, n, memory)
<1> DEFINE x == do_write(c, memory, d.buffer, b, n)
           image == d.buffer
<1>1. /\ c.addr = to.addr /\ c.count = to.count /\ c.auto = to.auto
  BY DEF Programmed
<1>2. x.mem = memory /\ x.failed \in BOOLEAN
  BY WriteProps
<1>3. /\ ~x.failed => Held(x.image, c, memory, image, b, Written(c, n))
      /\ x.failed => x.image = image \/ Partly(x.image, c, memory, image, b, n)
  BY TargetIsFresh, WriteIs
<1> HIDE DEF x
<1>4. Written(c, n) = IF to.auto \/ n < to.count + 1 THEN n ELSE to.count + 1
  BY <1>1 DEF Written
<1>5. ~x.failed => Kept(d, to, b, IF to.auto \/ n < to.count + 1 THEN n ELSE to.count + 1,
                        x.image, memory)
  BY <1>1, <1>3, <1>4 DEF Held, Kept
<1>6. ASSUME Partly(x.image, c, memory, image, b, n)
      PROVE  PartlyKept(d, to, b, n, x.image, memory)
  <2>1. PICK k \in 1 .. n : /\ k * (c.count + 1) < n
                            /\ Held(x.image, c, memory, image, b, k * (c.count + 1))
    BY <1>6 DEF Partly
  <2> DEFINE w == k * (c.count + 1)
  <2>2. w = k * (to.count + 1)
    BY <1>1
  <2> HIDE DEF w
  <2>3. w < n /\ Held(x.image, c, memory, image, b, w)
    BY <2>1 DEF w
  <2>4. Kept(d, to, b, w, x.image, memory)
    BY <1>1, <2>3 DEF Held, Kept
  <2>5. c.auto
    BY <1>6 DEF Partly
  <2> QED
    BY <1>1, <2>2, <2>3, <2>4, <2>5 DEF PartlyKept
<1> QED
  BY <1>2, <1>3, <1>5, <1>6 DEF x, IsWritten

(* A transfer that ends with a response tells the truth in it. *)
LEMMA TransferMoves ==
  ASSUME NEW s, Executing(s), s.f.cmd \in Transfers, s.f.status0 = {}, NEW at \in Addresses,
         NEW to \in Targets, Programmed(s.chan, to), NEW a, a[1] = at.drive, a[2] = at.track,
         a[3] = at.head, a[4] = at.sect, a[5] = 2, a[6] = at.eot
  PROVE  LET t == Execute(s, a)
         IN  t.f.phase = 3 => t.f.cmd = s.f.cmd /\ Truth(s, t, at, to, s.f.cmd)
<1> DEFINE t == Execute(s, a)
           c == s.f.cmd
           k == at.drive
           d == s.drives[k]
           q == t.drives[k]
           write == Writes(c)
           mt == c \in {"READ_MT", "WRITE_MT"}
           r == SeekResult(d, at.head, at.track, at.sect)
           n == (IF mt THEN 2 * at.eot ELSE at.eot) - at.sect + 1
           b == chs2lba(d, at.track, at.head, at.sect)
           w == do_write(s.chan, s.mem, d.buffer, b, n)
           u == do_read(s.chan, s.mem, d.buffer, b)
           x == IF write THEN w ELSE u
           no == t.f.st0 \cap Errors # {} /\ t.mem = s.mem /\ q.buffer = d.buffer
<1>1. /\ k \in 0 .. 1 /\ at.head \in 0 .. 1 /\ at.track \in Nat /\ at.sect \in Nat \ {0}
      /\ at.eot \in Nat /\ k % 2 = k
  BY FloppyAssumption
<1>2. t = start_read_write(s, a, write, mt)
  BY TransferIs DEF Writes
<1>3. t.f.cmd = c /\ (t.f.phase = 3 => no \/ (r \notin {2, 3} /\ n > 0 /\ Outcome(s, t, k, x)))
  <2>1. \A i \in 1 .. 6 : a[i] \in Nat
    BY <1>1
  <2>2. write \in BOOLEAN /\ mt \in BOOLEAN
    BY DEF Writes
  <2> HIDE DEF t, write, mt
  <2> QED
    BY <1>1, <1>2, <2>1, <2>2, ReadOrWrite
<1> HIDE DEF t
<1>4. IsMachine(s)
  BY DEF Executing
<1>5. /\ IsDrive(d) /\ IsBuffer(d.buffer) /\ s.chan \in Channels
      /\ DOMAIN s.mem = 0 .. MemSize - 1
  <2>1. /\ IsDrive(s.drives[0]) /\ IsDrive(s.drives[1]) /\ s.chan \in Channels
        /\ DOMAIN s.mem = 0 .. MemSize - 1
    BY <1>4 DEF IsMachine
  <2>2. k = 0 \/ k = 1
    BY <1>1
  <2>3. IsDrive(d)
    BY <2>1, <2>2
  <2> HIDE DEF d
  <2> QED
    BY <2>1, <2>3 DEF IsDrive
<1>6. b \in Int
  <2>1. d.max_head \in Int /\ d.max_sect \in Int
    BY <1>5 DEF IsDrive
  <2> QED
    BY <1>1, <2>1 DEF chs2lba
<1>7. n \in Int /\ (Writes(c) => n = Sectored(at, c))
  BY <1>1 DEF Writes, Sectored
<1>8. c \in Transfers /\ (Reads(c) <=> ~Writes(c))
  BY DEF Transfers, Reads, Writes
<1> HIDE DEF c, n, b, r, mt
<1> SUFFICES ASSUME t.f.phase = 3 PROVE Truth(s, t, at, to, c)
  BY <1>3 DEF t, c
<1> DEFINE normal == t.f.st0 \cap Errors = {}
           m == IF to.auto \/ n < to.count + 1 THEN n ELSE to.count + 1
           place == Place(d, at)
<1>9. CASE no
  <2>1. ~normal
    BY <1>9
  <2>2. t.mem = s.mem /\ q.buffer = d.buffer
    BY <1>9
  <2> QED
    BY <2>1, <2>2 DEF Truth
<1>10. CASE ~no
  <2>1. r \notin {2, 3} /\ n > 0 /\ Outcome(s, t, k, x)
    BY <1>3, <1>10
  <2>2. place = b
    <3>1. /\ at.track \in 0 .. d.max_track /\ at.head \in 0 .. d.max_head - 1
          /\ at.sect \in 1 .. d.max_sect
      BY <1>1, <1>5, <2>1, FoundIsOnDisk DEF r
    <3> QED
      BY <1>5, <3>1, PlaceIs DEF b
  <2> HIDE DEF place
  <2>3. \/ ~normal /\ t.mem = s.mem /\ q.buffer = d.buffer
        \/ x.failed /\ ~normal /\ t.mem = x.mem /\ q.buffer = x.image
        \/ ~x.failed /\ t.mem = x.mem /\ q.buffer = x.image
    BY <2>1 DEF Outcome
  <2>4. CASE ~normal /\ t.mem = s.mem /\ q.buffer = d.buffer
    BY <2>4 DEF Truth
  <2>5. CASE ~(~normal /\ t.mem = s.mem /\ q.buffer = d.buffer)
    <3>1. t.mem = x.mem /\ q.buffer = x.image /\ (x.failed => ~normal) /\ (~x.failed => normal)
      <4>1. s.f.status0 \cap Errors = {}
        OBVIOUS
      <4> QED
        BY <2>1, <2>5, <4>1 DEF Outcome
    <3>2. CASE Reads(c)
      <4>1. x = u /\ ~Writes(c)
        BY <1>8, <3>2
      <4>2. /\ u.image = d.buffer /\ (u.failed => u.mem = s.mem)
            /\ ~u.failed => Sent(d, to, b, s.mem, u.mem)
        BY <1>5, <1>6, ReadMoves
      <4> HIDE DEF u, x, normal
      <4>3. q.buffer = d.buffer /\ (~normal => t.mem = s.mem)
            /\ (normal => Sent(d, to, place, s.mem, t.mem))
        BY <2>2, <3>1, <4>1, <4>2
      <4> QED
        BY <4>1, <4>3 DEF Truth, normal, place
    <3>3. CASE Writes(c)
      <4>1. x = w /\ ~Reads(c) /\ n = Sectored(at, c)
        BY <1>7, <1>8, <3>3
      <4>2. n \in Nat /\ n > 0
        BY <1>7, <2>1
      <4>3. /\ w.mem = s.mem
            /\ w.failed => q.buffer = d.buffer \/ PartlyKept(d, to, b, n, q.buffer, s.mem)
            /\ ~w.failed => Kept(d, to, b, m, q.buffer, s.mem)
        <5> DEFINE e == s.chan
                   g == s.mem
        <5>1. w = do_write(e, g, d.buffer, b, n) /\ Programmed(e, to) /\ e \in Channels
          BY <1>5
        <5> HIDE DEF w, d, e, g
        <5>2. IsWritten(w, d, to, b, n, g)
          BY <1>5, <1>6, <4>2, <5>1, WriteMoves
        <5>3. q.buffer = w.image
          BY <3>1, <4>1
        <5> HIDE DEF q
        <5> QED
          BY <5>2, <5>3 DEF g, IsWritten
      <4> HIDE DEF w, x, normal
      <4>4. /\ t.mem = s.mem
            /\ ~normal => q.buffer = d.buffer \/ PartlyKept(d, to, place, n, q.buffer, s.mem)
            /\ (normal => Kept(d, to, place, m, q.buffer, s.mem))
        BY <2>2, <3>1, <4>1, <4>3
      <4>5. ~normal => \/ q.buffer = d.buffer
                       \/ PartlyKept(d, to, Place(d, at), Sectored(at, c), q.buffer, s.mem)
        BY <4>1, <4>4 DEF place
      <4>6. m = (IF to.auto \/ Sectored(at, c) < to.count + 1 THEN Sectored(at, c)
                 ELSE to.count + 1)
        BY <4>1
      <4>7. normal => Kept(d, to, Place(d, at),
                           IF to.auto \/ Sectored(at, c) < to.count + 1 THEN Sectored(at, c)
                           ELSE to.count + 1, q.buffer, s.mem)
        BY <4>4, <4>6 DEF place
      <4> QED
        BY <3>3, <4>1, <4>4, <4>5, <4>7 DEF Truth, normal
    <3> QED
      BY <1>8, <3>2, <3>3
  <2> QED
    BY <2>4, <2>5
<1> QED
  BY <1>9, <1>10

(* The result of a transfer is the truth (start_read_write, do_read,       *)
(* do_write, end_read_write): a normal status means that from the named    *)
(* sector on a READ moved what the channel counts and a WRITE what was     *)
(* asked for or counted, between the disk in the drive and the memory that *)
(* the guest programmed; any other, that nothing was moved, or some of the *)
(* whole passes of a WRITE of a channel that starts over.                  *)
THEOREM TransferTruthfulHolds == FloppySpec => TransferTruthful
<1> DEFINE A == LET a == asked.at
                    to == asked.to
                    d == drives[a.drive]
                    q == drives'[a.drive]
                    last == IF asked.cmd = "WRITE_MT" THEN 2 * a.eot ELSE a.eot
                    n == last - a.sect + 1
                IN  (fdc.phase = 1 /\ fdc'.phase = 3 /\ fdc'.cmd \in Transfers /\ quiet) =>
           CASE fdc'.st0 \cap {"ic0", "ic1"} = {} /\ fdc'.cmd \in {"READ", "READ_MT"} ->
                  Delivered(d, to, Place(d, a)) /\ q.buffer = d.buffer
             [] fdc'.st0 \cap {"ic0", "ic1"} = {} /\ fdc'.cmd \in {"WRITE", "WRITE_MT"} ->
                  /\ mem' = mem
                  /\ Stored(d, to, Place(d, a),
                            IF to.auto \/ n < to.count + 1 THEN n ELSE to.count + 1, q)
             [] OTHER -> \/ Unmoved(d, q)
                         \/ /\ fdc'.cmd \in {"WRITE", "WRITE_MT"}
                            /\ Begins(d, to, Place(d, a), n, q)
<1>1. FloppyInv /\ [FloppyNext]_floppyVars => A
  <2> SUFFICES ASSUME FloppyInv, [FloppyNext]_floppyVars,
                      fdc.phase = 1, fdc'.phase = 3, fdc'.cmd \in Transfers, quiet
               PROVE  A
    BY Zenon
  <2> HIDE DEF A
  <2>a. AttendedInv /\ IsMachine(Machine)
    BY DEF FloppyInv, AttendedInv
  <2>1. write_byte
    <3>1. ~begin_transfer /\ ~begin_other
      BY DEF begin_transfer, begin_other, Begin
    <3>2. ~read_byte
      <4>1. read_byte => fdc.phase = 3
        BY DEF read_byte, FloppyInv, AttendedInv, Turn
      <4> QED
        BY <4>1
    <3>3. ~write_dor
      <4> SUFFICES ASSUME write_dor PROVE FALSE
        OBVIOUS
      <4>1. PICK bits \in Dors : Show(write_reg_dor(Machine, bits, 0))
        BY DEF write_dor, Dors
      <4> DEFINE t == write_reg_dor(Machine, bits, 0)
      <4>2. 0 \in 0 .. 1 /\ Machine.f = fdc /\ Turn(fdc)
        BY <2>a, MachineHas DEF AttendedInv
      <4>3. IsMachine(t) /\ t.f.phase \in {1, fdc.phase}
        BY <2>a, <4>2, OutputWritten
      <4>4. Show(t)
        BY <4>1
      <4> HIDE DEF t
      <4>5. fdc' = t.f
        BY <4>3, <4>4, Shown
      <4> QED
        BY <4>3, <4>5
    <3>4. ~write_dsr
      <4> SUFFICES ASSUME write_dsr PROVE FALSE
        OBVIOUS
      <4>1. Machine.f = fdc
        BY <2>a, MachineHas
      <4>2. Show(reset_fdc(Machine))
        BY <4>1 DEF write_dsr, write_reg_dsr
      <4>3. IsMachine(reset_fdc(Machine)) /\ reset_fdc(Machine).f.phase = 1
        BY <2>a, ResetProps
      <4>4. fdc' = reset_fdc(Machine).f
        BY <4>2, <4>3, Shown
      <4> QED
        BY <4>3, <4>4
    <3>5. ~(read_dma \/ set_fda \/ eject_fda)
      <4>1. read_dma \/ set_fda \/ eject_fda => fdc' = fdc
        BY <2>a, OthersStep
      <4> QED
        BY <4>1
    <3>6. ~UNCHANGED floppyVars
      <4>1. UNCHANGED floppyVars => fdc' = fdc
        BY <2>a, FloppyIdle
      <4> QED
        BY <4>1
    <3> QED
      BY <3>1, <3>2, <3>3, <3>4, <3>5, <3>6 DEF FloppyNext
  <2> DEFINE b == Head(todo)
             g == AfterByte(fdc, b)
             s == Begun(Machine, b)
             t == write_reg_fifo(Machine, b)
             at == asked.at
             to == asked.to
  <2>2. /\ Fits(fdc, b) /\ fdc.phase = 1 /\ todo # << >> /\ "run" \in fdc.dor
        /\ Show(t) /\ IsMachine(Machine) /\ Turn(fdc) /\ todo \in Seq(Values)
        /\ fdc.left \in Nat
    BY <2>1, <2>a, NextByte
  <2>3. /\ Machine.f = fdc /\ Machine.drives = drives /\ Machine.chan = chan
        /\ Machine.mem = mem /\ IsFdc(fdc)
    BY <2>2, MachineHas
  <2>4. /\ g.phase = 1 /\ g.left \in Nat
        /\ fdc.left = 0 => g.cmd = b /\ g.args = << >> /\ g.left = Argc[b]
        /\ fdc.left > 0 => g.cmd = fdc.cmd /\ g.args = Append(fdc.args, b) /\ g.left = fdc.left - 1
    BY <2>2, <2>3, AfterByteProps DEF IsFdc
  <2>5. /\ IsMachine(t) /\ t.f.cmd = g.cmd /\ (g.left > 0 => t.f = g)
        /\ g.left = 0 =>
             /\ t = Execute(s, g.args) /\ Executing(s) /\ SameWorld(Machine, s)
             /\ s.f.cmd = g.cmd /\ s.f.status0 = fdc.status0
    BY <2>2, <2>3, ByteTaken
  <2>6. fdc' = t.f /\ drives' = t.drives /\ mem' = t.mem
    BY <2>2, <2>5, Shown
  <2> HIDE DEF g, s, t
  <2>7. g.left = 0 /\ g.cmd \in Transfers
    BY <2>4, <2>5, <2>6
  <2>8. fdc.left > 0 /\ fdc.cmd \in Transfers /\ g.args = Append(fdc.args, b) /\ fdc.left = 1
    <3>1. fdc.left # 0
      <4> SUFFICES ASSUME fdc.left = 0 PROVE FALSE
        OBVIOUS
      <4>1. g.cmd = b /\ Argc[b] = 0
        BY <2>4, <2>7
      <4>2. b \in Transfers
        BY <2>7, <4>1
      <4> HIDE DEF b
      <4>3. Argc[b] = 8
        BY <4>2 DEF Transfers, Argc
      <4> QED
        BY <4>1, <4>3
    <3> QED
      BY <2>2, <2>4, <2>7, <3>1
  <2>9. /\ IsTransfer(asked) /\ Programmed(chan, to) /\ g.cmd = asked.cmd
        /\ \A i \in 1 .. Len(fdc.args) : fdc.args[i] = Script(asked)[i + 1]
    BY <2>2, <2>4, <2>8 DEF FloppyInv, AskedInv
  <2>10. fdc.status0 = {}
    BY <2>2 DEF FloppyInv, AskedInv
  <2>11. at \in Addresses /\ to \in Targets
    BY <2>9 DEF IsTransfer
  <2> DEFINE a == g.args
  <2>12. /\ a[1] = at.drive /\ a[2] = at.track /\ a[3] = at.head /\ a[4] = at.sect /\ a[5] = 2
         /\ a[6] = at.eot
    <3>1. Len(fdc.args) + fdc.left = Argc[fdc.cmd]
      BY <2>2, <2>8 DEF FloppyInv, AttendedInv, TodoInv
    <3>2. Argc[fdc.cmd] = 8
      BY <2>8 DEF Transfers, Argc
    <3>3. fdc.args \in Seq(Nat) /\ b \in Nat
      BY <2>2, <2>3, <2>8 DEF IsFdc, Arguments, Fits
    <3> HIDE DEF b
    <3> DEFINE m == Len(fdc.args)
    <3>4. m \in Nat /\ m + 1 = 8
      BY <2>8, <3>1, <3>2, <3>3
    <3> HIDE DEF m
    <3>5. m = 7
      BY <3>4
    <3>6. \A i \in 1 .. 7 : a[i] = fdc.args[i]
      BY <2>8, <3>3, <3>5 DEF m
    <3>7. \A i \in 1 .. 7 : a[i] = Script(asked)[i + 1]
      BY <2>9, <3>5, <3>6 DEF m
    <3> HIDE DEF a
    <3>8. /\ a[1] = Script(asked)[2] /\ a[2] = Script(asked)[3] /\ a[3] = Script(asked)[4]
          /\ a[4] = Script(asked)[5] /\ a[5] = Script(asked)[6] /\ a[6] = Script(asked)[7]
      BY <3>7
    <3> QED
      BY <3>8 DEF Script
  <2>13. /\ Executing(s) /\ t = Execute(s, a) /\ s.drives = drives /\ s.chan = chan /\ s.mem = mem
         /\ s.f.cmd = asked.cmd /\ s.f.status0 = {} /\ s.f.cmd \in Transfers
    BY <2>3, <2>5, <2>7, <2>9, <2>10 DEF SameWorld
  <2> HIDE DEF a, at, to, b
  <2>14. fdc'.cmd = asked.cmd /\ Truth(s, t, at, to, asked.cmd)
    <3>1. t.f.phase = 3 => t.f.cmd = s.f.cmd /\ Truth(s, t, at, to, s.f.cmd)
      BY <2>9, <2>11, <2>12, <2>13, TransferMoves
    <3> QED
      BY <2>6, <2>13, <3>1
  <2> DEFINE d == drives[at.drive]
             q == drives'[at.drive]
             c == asked.cmd
             n == Sectored(at, c)
             m == IF to.auto \/ n < to.count + 1 THEN n ELSE to.count + 1
             normal == fdc'.st0 \cap Errors = {}
  <2>15. /\ normal /\ Reads(c) => Sent(d, to, Place(d, at), mem, mem') /\ q.buffer = d.buffer
         /\ normal /\ Writes(c) => mem' = mem /\ Kept(d, to, Place(d, at), m, q.buffer, mem)
         /\ ~normal =>
              /\ mem' = mem
              /\ \/ q.buffer = d.buffer
                 \/ Writes(c) /\ PartlyKept(d, to, Place(d, at), n, q.buffer, mem)
    BY <2>6, <2>13, <2>14 DEF Truth
  <2>16. c \in Transfers
    BY <2>13
  <2>17. /\ Sent(d, to, Place(d, at), mem, mem') = Delivered(d, to, Place(d, at))
         /\ Kept(d, to, Place(d, at), m, q.buffer, mem) = Stored(d, to, Place(d, at), m, q)
    BY DEF Sent, Delivered, Kept, Stored
  <2>21. mem' = mem /\ PartlyKept(d, to, Place(d, at), n, q.buffer, mem) =>
           Begins(d, to, Place(d, at), n, q)
    <3> DEFINE p == Place(d, at)
    <3> HIDE DEF p, n, d, q
    <3>1. \A k : Kept(d, to, p, k, q.buffer, mem) = Stored(d, to, p, k, q)
      BY DEF Kept, Stored
    <3>2. mem' = mem /\ PartlyKept(d, to, p, n, q.buffer, mem) => Begins(d, to, p, n, q)
      BY <3>1 DEF PartlyKept, Begins
    <3> QED
      BY <3>2 DEF p
  <2> HIDE DEF d, q, m, n, c
  <2>18. CASE normal /\ Reads(c)
    <3>1. ~Writes(c) /\ fdc'.cmd \in {"READ", "READ_MT"} /\ fdc'.st0 \cap {"ic0", "ic1"} = {}
      BY <2>14, <2>18 DEF Reads, Writes, Errors, c
    <3>2. Delivered(d, to, Place(d, at)) /\ q.buffer = d.buffer
      BY <2>15, <2>17, <2>18
    <3> QED
      BY <3>1, <3>2 DEF A, d, q, at, to
  <2>19. CASE normal /\ Writes(c)
    <3>1. /\ fdc'.cmd \in {"WRITE", "WRITE_MT"} /\ fdc'.cmd \notin {"READ", "READ_MT"}
          /\ fdc'.st0 \cap {"ic0", "ic1"} = {}
      BY <2>14, <2>19 DEF Writes, Errors, c
    <3>2. mem' = mem /\ Stored(d, to, Place(d, at), m, q)
      BY <2>15, <2>17, <2>19
    <3> QED
      BY <3>1, <3>2 DEF A, d, q, at, to, m, n, c, Sectored
  <2>20. CASE ~normal
    <3>1. fdc'.st0 \cap {"ic0", "ic1"} # {}
      BY <2>20 DEF Errors
    <3>2. \/ Unmoved(d, q)
          \/ Writes(c) /\ Begins(d, to, Place(d, at), n, q)
      BY <2>15, <2>20, <2>21 DEF Unmoved
    <3>3. Writes(c) => fdc'.cmd \in {"WRITE", "WRITE_MT"}
      BY <2>14 DEF Writes, c
    <3> QED
      BY <3>1, <3>2, <3>3 DEF A, d, q, at, to, n, c, Sectored
  <2> QED
    BY <2>16, <2>18, <2>19, <2>20 DEF Transfers, Reads, Writes
<1>2. FloppyInv /\ [FloppyNext]_floppyVars => [A]_floppyVars
  BY <1>1
<1> HIDE DEF A
<1>3. FloppySpec => [][A]_floppyVars
  BY <1>2, FloppyInvariant, PTL DEF FloppySpec
<1> QED
  BY <1>3 DEF TransferTruthful, A

=============================================================================
