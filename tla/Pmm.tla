-------------------------------- MODULE Pmm --------------------------------
(***************************************************************************)
(* The physical frame allocator of mm/pmm.c, from the memory map it is     *)
(* built from to the frames it hands out.                                  *)
(*                                                                         *)
(* The bitmap is the set used of frames whose bit is 1.  pmm_init runs     *)
(* with interrupts off; its loop over the regions is one step per region.  *)
(* owned is what callers know: frames pmm_alloc_frame returned and nobody  *)
(* has passed to pmm_free_frame since.                                     *)
(***************************************************************************)
EXTENDS Memmap, FiniteSetsExt

CONSTANTS
  FrameSize,     \* PMM_FRAME_SIZE, 4096
  ByteBits,      \* frames per byte of the bitmap, 8
  KernelEnds,    \* possible addresses of the linker symbol kernel_end
  BiosMaps       \* possible tables left by the boot loader

WordBytes == 4
WordBits  == WordBytes * ByteBits

total_frames == TotalMemory \div FrameSize
Frames       == 0 .. total_frames - 1
bitmap_size  == total_frames \div ByteBits

(* The bitmap consists of whole words and covers memory exactly. *)
ASSUME PmmAssumption ==
  /\ FrameSize \in Nat /\ FrameSize > 0
  /\ ByteBits \in Nat /\ ByteBits > 0
  /\ LowMemory % FrameSize = 0
  /\ total_frames * FrameSize = TotalMemory
  /\ (total_frames \div WordBits) * WordBits = total_frames
  /\ (bitmap_size \div WordBytes) * WordBits = total_frames
  /\ KernelEnds \subseteq LowMemory + 1 .. TotalMemory
  /\ BiosMaps \subseteq Seq(Region)

VARIABLES
  entries,      \* the memory map
  kernel_end,   \* linker symbol
  pc,           \* where kernel_main is in the set-up of physical memory
  region,       \* loop variable i of pmm_init
  bitmap,       \* address of the bitmap
  used,         \* frames whose bit is set
  free_count,
  panic,
  owned         \* frames handed out and not returned

vars == <<entries, kernel_end, pc, region, bitmap, used, free_count, panic, owned>>

TypeOK ==
  /\ entries \in Seq(Region)
  /\ kernel_end \in KernelEnds
  /\ pc \in {"supplement", "bitmap", "regions", "ready"}
  /\ region \in Nat
  /\ bitmap \in Nat
  /\ used \subseteq Frames
  /\ free_count \in Nat
  /\ panic \in {"none", "out of phys mem", "inconsistent bitmap",
                "invalid frame address", "double free"}
  /\ owned \subseteq Frames

-----------------------------------------------------------------------------
Align4(n) == IF n % 4 = 0 THEN n ELSE n + (4 - (n % 4))

(* bump_alloc: the first call places the bitmap right after the kernel. *)
BumpStart(kend) == Align4(kend)

SpanRoundedDown(start, length) ==
  {f \in Frames : /\ f >= start \div FrameSize
                  /\ f < start \div FrameSize + length \div FrameSize}

bitmap_set(u, frame)   == u \cup {frame}
bitmap_clear(u, frame) == u \ {frame}

(* The frames that mark_used and mark_free touch: the length is rounded up *)
(* to whole frames, in 32 bits, and counted from the frame of start.       *)
Span(start, length) ==
  LET count == ((length + FrameSize - 1) % Word) \div FrameSize
  IN  {f \in Frames : /\ f >= start \div FrameSize
                      /\ f < start \div FrameSize + count}

mark_free(m, start, length) ==
  [used |-> m.used \ Span(start, length),
   free |-> m.free + Cardinality(Span(start, length) \cap m.used)]

(* Without the bitmap_test: a frame that is already used is counted again. *)
mark_used_untested(m, start, length) ==
  [used |-> m.used \cup Span(start, length),
   free |-> IF m.free >= Cardinality(Span(start, length))
            THEN m.free - Cardinality(Span(start, length)) ELSE 0]

mark_used(m, start, length) ==
  LET n == Cardinality(Span(start, length) \ m.used)
  IN  [used |-> m.used \cup Span(start, length),
       free |-> IF m.free >= n THEN m.free - n ELSE 0]

-----------------------------------------------------------------------------
Init ==
  /\ entries \in BiosMaps
  /\ kernel_end \in KernelEnds
  /\ pc = "supplement"
  /\ region = 1
  /\ bitmap = 0
  /\ used = {}
  /\ free_count = 0
  /\ panic = "none"
  /\ owned = {}

memmap_supplement ==
  /\ pc = "supplement"
  /\ pc' = "bitmap"
  /\ entries' = Supplemented(entries)
  /\ UNCHANGED <<kernel_end, region, bitmap, used, free_count, panic, owned>>

(* Place the bitmap and mark every frame as used. *)
pmm_init_bitmap ==
  /\ pc = "bitmap"
  /\ pc' = "regions"
  /\ bitmap' = BumpStart(kernel_end)
  /\ used' = 0 .. (bitmap_size \div WordBytes) * WordBits - 1
  /\ free_count' = 0
  /\ region' = 1
  /\ UNCHANGED <<entries, kernel_end, panic, owned>>

(* One pass of the loop over the regions; base and length are cut to 32 bits. *)
pmm_init_region ==
  /\ pc = "regions"
  /\ region <= Len(entries)
  /\ LET r == entries[region]
         m == [used |-> used, free |-> free_count]
         n == IF r.type = "usable"
              THEN mark_free(m, r.base % Word, r.length % Word)
              ELSE m
     IN  used' = n.used /\ free_count' = n.free
  /\ region' = region + 1
  /\ UNCHANGED <<entries, kernel_end, pc, bitmap, panic, owned>>

(* Low memory, then the kernel, then the bitmap. *)
pmm_init_reserve ==
  /\ pc = "regions"
  /\ region > Len(entries)
  /\ pc' = "ready"
  /\ LET a == mark_used([used |-> used, free |-> free_count], 0, LowMemory)
         b == mark_used(a, LowMemory, kernel_end - LowMemory)
         c == mark_used(b, bitmap, bitmap_size)
     IN  used' = c.used /\ free_count' = c.free
  /\ UNCHANGED <<entries, kernel_end, region, bitmap, panic, owned>>

-----------------------------------------------------------------------------
(* The frames that the word-by-word scan looks at. *)
Scanned == 0 .. (total_frames \div WordBits) * WordBits - 1

FirstClearNextWord(u) == Min(Scanned \ u) + WordBits

(* The first clear bit of the first word that is not full. *)
FirstClear(u) == Min(Scanned \ u)

pmm_alloc_frame ==
  /\ pc = "ready"
  /\ panic = "none"
  /\ \/ /\ free_count = 0
        /\ panic' = "out of phys mem"
        /\ UNCHANGED <<used, free_count, owned>>
     \/ /\ free_count # 0
        /\ Scanned \subseteq used
        /\ panic' = "inconsistent bitmap"
        /\ UNCHANGED <<used, free_count, owned>>
     \/ /\ free_count # 0
        /\ ~(Scanned \subseteq used)
        /\ used' = bitmap_set(used, FirstClear(used))
        /\ free_count' = free_count - 1
        /\ owned' = owned \cup {FirstClear(used)}
        /\ UNCHANGED panic
  /\ UNCHANGED <<entries, kernel_end, pc, region, bitmap>>

(* The test that stands between a second free and the bitmap. *)
IsDoubleFree(frame) == frame \notin used

pmm_free_frame(addr) ==
  LET frame == addr \div FrameSize
  IN  /\ pc = "ready"
      /\ panic = "none"
      /\ \/ /\ frame >= total_frames
            /\ panic' = "invalid frame address"
            /\ UNCHANGED <<used, free_count, owned>>
         \/ /\ frame < total_frames
            /\ IsDoubleFree(frame)
            /\ panic' = "double free"
            /\ UNCHANGED <<used, free_count, owned>>
         \/ /\ frame < total_frames
            /\ ~IsDoubleFree(frame)
            /\ used' = bitmap_clear(used, frame)
            /\ free_count' = free_count + 1
            /\ owned' = owned \ {frame}
            /\ UNCHANGED panic
      /\ UNCHANGED <<entries, kernel_end, pc, region, bitmap>>

(* Callers return what they were given, or (by mistake) a frame that is    *)
(* free, or an address beyond memory.                                      *)
FreeArguments ==
  {f * FrameSize : f \in owned \cup (Frames \ used)} \cup {TotalMemory}

Next ==
  \/ memmap_supplement
  \/ pmm_init_bitmap
  \/ pmm_init_region
  \/ pmm_init_reserve
  \/ pmm_alloc_frame
  \/ \E addr \in FreeArguments : pmm_free_frame(addr)

Spec == Init /\ [][Next]_vars

-----------------------------------------------------------------------------
(* free_count, which the pmm command prints and pmm_alloc_frame trusts, is *)
(* the number of clear bits, at every step of pmm_init and of every later  *)
(* sequence of calls, although regions overlap each other and the reserved *)
(* ranges.                                                                 *)
CountMatches ==
  pc \in {"regions", "ready"} => free_count = Cardinality(Frames \ used)

(* The panic "PMM: inconsistent bitmap" is unreachable: whenever the count *)
(* says a frame is free, the scan by words finds one.                      *)
NeverInconsistent == panic # "inconsistent bitmap"

(* A frame that somebody owns is marked, so it cannot be handed out twice. *)
OwnedMarked == owned \subseteq used

(* After pmm_init no call creates or loses a frame, or gives one to two    *)
(* owners: the frames that are free or owned are the same before and after *)
(* every step, and a call that takes a frame off the count gives away one  *)
(* that was free and had no owner.                                         *)
FramesConserved ==
  [][pc = "ready" =>
       /\ owned' \cup (Frames \ used') = owned \cup (Frames \ used)
       /\ free_count' < free_count =>
            \E f \in Frames \ (used \cup owned) : owned' = owned \cup {f}]_vars

(* What is given away is memory that may be used (pmm_init, mark_free,     *)
(* mark_used): a frame that is free or has an owner lies above low memory  *)
(* and the kernel image, the kernel's last frame included, and shares a    *)
(* byte with a region that the map calls usable, if bases are read, as the *)
(* code does, in 32 bits.  (It need not lie inside one, because mark_free  *)
(* rounds lengths up.)                                                     *)
GivenFramesUsable ==
  pc = "ready" =>
    \A f \in (Frames \ used) \cup owned :
      /\ kernel_end <= f * FrameSize
      /\ \E i \in 1 .. Len(entries) :
           /\ entries[i].type = "usable"
           /\ entries[i].base % Word < (f + 1) * FrameSize
           /\ f * FrameSize < (entries[i].base % Word) + entries[i].length

-----------------------------------------------------------------------------
(* "mark low memory, kernel, bitmap as used": every frame that holds a     *)
(* byte of the bitmap is marked once pmm_init has returned.                *)
BitmapReserved ==
  pc = "ready" /\ owned = {} =>
    \A f \in Frames :
      /\ f * FrameSize < bitmap + bitmap_size
      /\ (f + 1) * FrameSize > bitmap
      => f \in used

=============================================================================
