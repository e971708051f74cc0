----------------------------- MODULE HeapProof -----------------------------
(***************************************************************************)
(* Proofs about Heap.tla and HeapTest.tla, for every heap size, base       *)
(* address and word size that HeapAssumption allows.                       *)
(***************************************************************************)
EXTENDS HeapTest, Lemmas

(* The walk of malloc stops at a block that fits, or runs off the list. *)
LEMMA FirstFit ==
  ASSUME NEW h \in Seq(Block), NEW n \in Nat
  PROVE  LET i == SelectInSeq(h, LAMBDA b : Fits(b, n))
         IN  i # 0 => i \in 1 .. Len(h) /\ Fits(h[i], n)
<1> DEFINE I == {k \in 1 .. Len(h) : Fits(h[k], n)}
<1>1. SelectInSeq(h, LAMBDA b : Fits(b, n)) = IF I # {} THEN Min(I) ELSE 0
  BY DEF SelectInSeq
<1>2. I # {} => Min(I) \in I
  BY MinProps
<1> QED
  BY <1>1, <1>2

-----------------------------------------------------------------------------
(* The parts of the inductive invariant, for any block list.  Ordered is   *)
(* Tiling closed under transitivity: without it a step cannot tell that    *)
(* two blocks far apart on the list have different addresses.              *)
Tiles(h) ==
  /\ Len(h) >= 1
  /\ h[1].addr = HeapBase
  /\ \A i \in 1 .. Len(h) - 1 : h[i + 1].addr = End(h[i])
  /\ End(h[Len(h)]) = HeapBase + HEAP_MAX_SIZE

Ordered(h) ==
  \A i, j \in 1 .. Len(h) : i < j => End(h[i]) <= h[j].addr

Shape(h) == h \in Seq(Block) /\ Tiles(h) /\ Ordered(h)

(* Neighbours are not both free, except possibly blocks j and j + 1. *)
CoalescedBut(h, j) ==
  \A i \in 1 .. Len(h) - 1 : h[i].free /\ h[i + 1].free => i = j

(* Every allocated block of list h is, unchanged, on list g. *)
Survives(h, g) ==
  \A k \in 1 .. Len(h) : ~h[k].free => \E m \in 1 .. Len(g) : g[m] = h[k]

(* The operations on one block return blocks. *)
LEMMA BlockOps ==
  ASSUME NEW b \in Block, NEW c \in Block, NEW n \in Nat
  PROVE  /\ Taken(b, n) \in Block
         /\ Joined(b, c) \in Block
         /\ Freed(b) \in Block
         /\ b.size >= n + HeaderSize => Rest(b, n) \in Block
         /\ b.addr \in Nat /\ b.size \in Nat /\ b.free \in BOOLEAN
BY DEF Block, Taken, Joined, Freed, Rest, HeaderSize

(* What Merge returns, block by block. *)
LEMMA MergeProps ==
  ASSUME NEW h \in Seq(Block), NEW i \in 1 .. Len(h) - 1
  PROVE  /\ Merge(h, i) \in Seq(Block)
         /\ Len(Merge(h, i)) = Len(h) - 1
         /\ \A k \in 1 .. i - 1 : Merge(h, i)[k] = h[k]
         /\ Merge(h, i)[i] = Joined(h[i], h[i + 1])
         /\ \A k \in i + 1 .. Len(h) - 1 : Merge(h, i)[k] = h[k + 1]
<1> DEFINE b == Joined(h[i], h[i + 1])
<1>1. b \in Block
  <2>1. h[i] \in Block /\ h[i + 1] \in Block
    OBVIOUS
  <2> QED
    BY <2>1, BlockOps
<1>2. Merge(h, i) = Join(h, i, b)
  BY DEF Merge, Join
<1> HIDE DEF b
<1>3. IsJoin(Block, h, i, b)
  BY <1>1, JoinProps
<1> QED
  BY <1>2, <1>3, Zenon DEF IsJoin, b

(* What Place returns, block by block: the chosen block is allocated, and *)
(* when it is split the remainder is a free block right behind it.        *)
LEMMA PlaceProps ==
  ASSUME NEW h \in Seq(Block), NEW i \in 1 .. Len(h), NEW n \in Nat
  PROVE  /\ h[i].size >= n + HeaderSize + MinSplit =>
              /\ Place(h, i, n) \in Seq(Block)
              /\ Len(Place(h, i, n)) = Len(h) + 1
              /\ \A k \in 1 .. i - 1 : Place(h, i, n)[k] = h[k]
              /\ Place(h, i, n)[i] = Taken(h[i], n)
              /\ Place(h, i, n)[i + 1] = Rest(h[i], n)
              /\ \A k \in i + 2 .. Len(h) + 1 : Place(h, i, n)[k] = h[k - 1]
         /\ ~(h[i].size >= n + HeaderSize + MinSplit) =>
              /\ Place(h, i, n) \in Seq(Block)
              /\ Len(Place(h, i, n)) = Len(h)
              /\ Place(h, i, n)[i] = Taken(h[i], h[i].size)
              /\ \A k \in 1 .. Len(h) : k # i => Place(h, i, n)[k] = h[k]
<1>0. ASSUME NEW b \in Block, NEW r \in Block
      PROVE  /\ Split(h, i, b, r) \in Seq(Block)
             /\ Len(Split(h, i, b, r)) = Len(h) + 1
             /\ \A k \in 1 .. i - 1 : Split(h, i, b, r)[k] = h[k]
             /\ Split(h, i, b, r)[i] = b
             /\ Split(h, i, b, r)[i + 1] = r
             /\ \A k \in i + 2 .. Len(h) + 1 : Split(h, i, b, r)[k] = h[k - 1]
  <2>1. Split(h, i, b, r) \in Seq(Block) /\ Len(Split(h, i, b, r)) = Len(h) + 1
    BY SplitProps
  <2>2. \A k \in 1 .. i - 1 : Split(h, i, b, r)[k] = h[k]
    BY SplitProps
  <2>3. Split(h, i, b, r)[i] = b /\ Split(h, i, b, r)[i + 1] = r
    BY SplitProps
  <2>4. \A k \in i + 2 .. Len(h) + 1 : Split(h, i, b, r)[k] = h[k - 1]
    BY SplitProps
  <2> QED
    BY <2>1, <2>2, <2>3, <2>4, Zenon
<1>1. h[i] \in Block
  OBVIOUS
<1>2. ASSUME h[i].size >= n + HeaderSize + MinSplit
      PROVE  /\ Place(h, i, n) \in Seq(Block)
             /\ Len(Place(h, i, n)) = Len(h) + 1
             /\ \A k \in 1 .. i - 1 : Place(h, i, n)[k] = h[k]
             /\ Place(h, i, n)[i] = Taken(h[i], n)
             /\ Place(h, i, n)[i + 1] = Rest(h[i], n)
             /\ \A k \in i + 2 .. Len(h) + 1 : Place(h, i, n)[k] = h[k - 1]
  <2> DEFINE b == Taken(h[i], n)
             r == Rest(h[i], n)
  <2>1. b \in Block /\ r \in Block
    BY <1>1, <1>2, SMTT(30) DEF Block, Taken, Rest, HeaderSize, MinSplit
  <2>2. Place(h, i, n) = Split(h, i, b, r)
    BY <1>2 DEF Place, Split
  <2> HIDE DEF b, r
  <2>3. /\ Split(h, i, b, r) \in Seq(Block)
        /\ Len(Split(h, i, b, r)) = Len(h) + 1
        /\ \A k \in 1 .. i - 1 : Split(h, i, b, r)[k] = h[k]
        /\ Split(h, i, b, r)[i] = b
        /\ Split(h, i, b, r)[i + 1] = r
        /\ \A k \in i + 2 .. Len(h) + 1 : Split(h, i, b, r)[k] = h[k - 1]
    BY <1>0, <2>1, ZenonT(40)
  <2> QED
    BY <2>2, <2>3, Zenon DEF b, r
<1>3. ASSUME ~(h[i].size >= n + HeaderSize + MinSplit)
      PROVE  /\ Place(h, i, n) \in Seq(Block)
             /\ Len(Place(h, i, n)) = Len(h)
             /\ Place(h, i, n)[i] = Taken(h[i], h[i].size)
             /\ \A k \in 1 .. Len(h) : k # i => Place(h, i, n)[k] = h[k]
  <2> DEFINE b == Taken(h[i], h[i].size)
  <2>1. b \in Block
    BY <1>1 DEF Block, Taken
  <2>2. Place(h, i, n) = [h EXCEPT ![i] = b]
    BY <1>3 DEF Place
  <2> HIDE DEF b
  <2>3. /\ [h EXCEPT ![i] = b] \in Seq(Block)
        /\ Len([h EXCEPT ![i] = b]) = Len(h)
        /\ [h EXCEPT ![i] = b][i] = b
        /\ \A k \in 1 .. Len(h) : k # i => [h EXCEPT ![i] = b][k] = h[k]
    BY <2>1, ExceptSeq
  <2> QED
    BY <2>2, <2>3, Zenon DEF b
<1> QED
  BY <1>2, <1>3, Zenon

(* Merging two free neighbours keeps the list's shape and touches no       *)
(* allocated block.                                                        *)
LEMMA MergeShape ==
  ASSUME NEW h, Shape(h), NEW i \in 1 .. Len(h) - 1, h[i].free, h[i + 1].free
  PROVE  /\ Shape(Merge(h, i))
         /\ Len(Merge(h, i)) = Len(h) - 1
         /\ Merge(h, i)[i].free
         /\ \A k \in 1 .. i - 1 : Merge(h, i)[k] = h[k]
         /\ \A k \in i + 1 .. Len(h) - 1 : Merge(h, i)[k] = h[k + 1]
         /\ Survives(h, Merge(h, i))
         /\ Survives(Merge(h, i), h)
<1> DEFINE n == Len(h)
           M == Merge(h, i)
           b == Joined(h[i], h[i + 1])
<1>1. /\ h \in Seq(Block)
      /\ n \in Nat
      /\ i \in 1 .. n - 1
      /\ \A k \in 1 .. n : h[k] \in Block
  BY DEF Shape
<1>2. b \in Block
  BY <1>1, BlockOps
<1>3. /\ M \in Seq(Block)
      /\ Len(M) = n - 1
      /\ \A k \in 1 .. i - 1 : M[k] = h[k]
      /\ M[i] = b
      /\ \A k \in i + 1 .. n - 1 : M[k] = h[k + 1]
  BY <1>1, MergeProps
<1>4. /\ \A k \in 1 .. n : h[k].addr \in Nat /\ h[k].size \in Nat
      /\ h[1].addr = HeapBase
      /\ \A k \in 1 .. n - 1 : h[k + 1].addr = End(h[k])
      /\ End(h[n]) = HeapBase + HEAP_MAX_SIZE
      /\ \A k, l \in 1 .. n : k < l => End(h[k]) <= h[l].addr
  BY <1>1, BlockOps DEF Shape, Tiles, Ordered
<1>5. b.addr = h[i].addr /\ b.free /\ End(b) = End(h[i + 1])
  <2>1. h[i + 1].addr = End(h[i])
    BY <1>1, <1>4
  <2>2. b.addr = h[i].addr /\ b.free
    BY DEF Joined
  <2>3. b.size = h[i].size + h[i + 1].size + HeaderSize
    BY DEF Joined
  <2>4. /\ h[i].addr \in Nat /\ h[i].size \in Nat
        /\ h[i + 1].addr \in Nat /\ h[i + 1].size \in Nat
    BY <1>1, <1>4
  <2> HIDE DEF b
  <2>5. b.addr + HeaderSize + b.size
          = (h[i].addr + HeaderSize + h[i].size) + HeaderSize + h[i + 1].size
    BY <2>2, <2>3, <2>4, SMTT(30) DEF HeaderSize
  <2> QED
    BY <2>1, <2>2, <2>5, Zenon DEF End
<1> HIDE DEF n, b, M
<1>6. Tiles(M)
  <2>1. Len(M) >= 1 /\ M[1].addr = HeapBase
    BY <1>1, <1>3, <1>4, <1>5
  <2>2. ASSUME NEW k \in 1 .. n - 2
        PROVE  M[k + 1].addr = End(M[k])
    <3>1. CASE k < i - 1
      <4>1. M[k] = h[k] /\ M[k + 1] = h[k + 1]
        BY <1>1, <1>3, <3>1
      <4>2. h[k + 1].addr = End(h[k])
        BY <1>1, <1>4
      <4> QED
        BY <4>1, <4>2, Zenon
    <3>2. CASE k = i - 1
      <4>1. M[k] = h[k] /\ M[k + 1] = b
        BY <1>1, <1>3, <3>2
      <4>2. h[k + 1].addr = End(h[k])
        BY <1>1, <1>4
      <4> QED
        BY <1>1, <1>5, <3>2, <4>1, <4>2
    <3>3. CASE k = i
      <4>1. M[k] = b /\ M[k + 1] = h[k + 2]
        BY <1>1, <1>3, <3>3
      <4>2. h[k + 2].addr = End(h[k + 1])
        BY <1>1, <1>4, <3>3
      <4> QED
        BY <1>5, <3>3, <4>1, <4>2, Zenon
    <3>4. CASE k > i
      <4>1. M[k] = h[k + 1] /\ M[k + 1] = h[k + 2]
        <5>1. /\ k \in i + 1 .. n - 1
              /\ k + 1 \in i + 1 .. n - 1
              /\ (k + 1) + 1 = k + 2
          BY <1>1, <3>4
        <5>2. M[k] = h[k + 1] /\ M[k + 1] = h[(k + 1) + 1]
          BY <1>3, <5>1, Zenon
        <5> QED
          BY <5>1, <5>2, Zenon
      <4>2. h[k + 2].addr = End(h[k + 1])
        BY <1>1, <1>4, <3>4
      <4> QED
        BY <4>1, <4>2, Zenon
    <3> QED
      BY <1>1, <3>1, <3>2, <3>3, <3>4
  <2>3. End(M[n - 1]) = HeapBase + HEAP_MAX_SIZE
    BY <1>1, <1>3, <1>4, <1>5
  <2> QED
    BY <1>1, <1>3, <2>1, <2>2, <2>3 DEF Tiles
<1>7. Ordered(M)
  <2> SUFFICES ASSUME NEW k \in 1 .. n - 1, NEW l \in 1 .. n - 1, k < l
               PROVE  End(M[k]) <= M[l].addr
    BY <1>3 DEF Ordered
  <2>1. CASE l < i
    <3>1. M[k] = h[k] /\ M[l] = h[l]
      BY <1>1, <1>3, <2>1
    <3> QED
      BY <1>1, <1>4, <2>1, <3>1
  <2>2. CASE l = i
    <3>1. M[k] = h[k]
      BY <1>1, <1>3, <2>2
    <3>2. M[l].addr = h[i].addr
      BY <1>3, <1>5, <2>2, Zenon
    <3>3. End(h[k]) <= h[i].addr
      BY <1>1, <1>4, <2>2
    <3> QED
      BY <3>1, <3>2, <3>3, Zenon
  <2>3. CASE l > i /\ k < i
    <3>1. M[k] = h[k] /\ M[l] = h[l + 1]
      BY <1>1, <1>3, <2>3
    <3>2. End(h[k]) <= h[l + 1].addr
      BY <1>1, <1>4, <2>3
    <3> QED
      BY <3>1, <3>2, Zenon
  <2>4. CASE l > i /\ k = i
    <3>1. End(M[k]) = End(h[i + 1]) /\ M[l] = h[l + 1]
      BY <1>1, <1>3, <1>5, <2>4
    <3> QED
      BY <1>1, <1>4, <2>4, <3>1
  <2>5. CASE l > i /\ k > i
    <3>1. M[k] = h[k + 1] /\ M[l] = h[l + 1]
      BY <1>1, <1>3, <2>5
    <3> QED
      BY <1>1, <1>4, <2>5, <3>1
  <2> QED
    BY <1>1, <2>1, <2>2, <2>3, <2>4, <2>5
<1>8. Survives(h, M)
  <2> SUFFICES ASSUME NEW k \in 1 .. n, ~h[k].free
               PROVE  \E m \in 1 .. n - 1 : M[m] = h[k]
    BY <1>3 DEF Survives, n
  <2>1. k # i /\ k # i + 1
    OBVIOUS
  <2>2. CASE k < i
    BY <1>1, <1>3, <2>2
  <2>3. CASE k > i + 1
    <3>1. k - 1 \in i + 1 .. n - 1 /\ (k - 1) + 1 = k
      BY <1>1, <2>3
    <3>2. k - 1 \in 1 .. n - 1 /\ M[k - 1] = h[k]
      BY <1>1, <1>3, <3>1
    <3> QED
      BY <3>2
  <2> QED
    BY <1>1, <2>1, <2>2, <2>3
<1>9. Survives(M, h)
  <2> SUFFICES ASSUME NEW k \in 1 .. n - 1, ~M[k].free
               PROVE  \E m \in 1 .. n : h[m] = M[k]
    BY <1>3 DEF Survives, n
  <2>1. k # i
    BY <1>3, <1>5
  <2>2. CASE k < i
    BY <1>1, <1>3, <2>2
  <2>3. CASE k > i
    <3>1. k + 1 \in 1 .. n /\ M[k] = h[k + 1]
      BY <1>1, <1>3, <2>3
    <3> QED
      BY <3>1
  <2> QED
    BY <1>1, <2>1, <2>2, <2>3
<1> QED
  BY <1>3, <1>5, <1>6, <1>7, <1>8, <1>9 DEF Shape, n, M

(* Taking a free block, split or not, keeps the list's shape, leaves every *)
(* other allocated block alone and makes no two free neighbours.           *)
LEMMA PlaceShape ==
  ASSUME NEW h, Shape(h), CoalescedBut(h, 0),
         NEW i \in 1 .. Len(h), h[i].free,
         NEW n \in Nat, n <= h[i].size
  PROVE  /\ Shape(Place(h, i, n))
         /\ CoalescedBut(Place(h, i, n), 0)
         /\ i \in 1 .. Len(Place(h, i, n))
         /\ Place(h, i, n)[i].addr = h[i].addr
         /\ ~Place(h, i, n)[i].free
         /\ n <= Place(h, i, n)[i].size
         /\ Survives(h, Place(h, i, n))
         /\ \A m \in 1 .. Len(Place(h, i, n)) : ~Place(h, i, n)[m].free /\ m # i
              => \E k \in 1 .. Len(h) : h[k] = Place(h, i, n)[m]
<1> DEFINE P == Place(h, i, n)
           L == Len(h)
           t == P[i]
<1>1. /\ h \in Seq(Block)
      /\ L \in Nat /\ L >= 1
      /\ i \in 1 .. L
      /\ \A k \in 1 .. L : h[k] \in Block
  BY DEF Shape, Tiles
<1>2. /\ \A k \in 1 .. L : h[k].addr \in Nat /\ h[k].size \in Nat
      /\ h[1].addr = HeapBase
      /\ \A k \in 1 .. L - 1 : h[k + 1].addr = End(h[k])
      /\ End(h[L]) = HeapBase + HEAP_MAX_SIZE
      /\ \A k, l \in 1 .. L : k < l => End(h[k]) <= h[l].addr
      /\ \A k \in 1 .. L - 1 : ~(h[k].free /\ h[k + 1].free)
  <2>1. \A k \in 1 .. L : h[k].addr \in Nat /\ h[k].size \in Nat
    BY <1>1 DEF Block
  <2>2. ASSUME NEW k \in 1 .. L - 1
        PROVE  ~(h[k].free /\ h[k + 1].free)
    <3>1. k # 0
      BY <1>1
    <3> QED
      BY <3>1, Zenon DEF CoalescedBut
  <2> QED
    BY <2>1, <2>2 DEF Shape, Tiles, Ordered
<1>3. h[i].addr \in Nat /\ h[i].size \in Nat
  BY <1>1, <1>2
<1>4. CASE h[i].size >= n + HeaderSize + MinSplit
  <2> DEFINE r == P[i + 1]
  <2>1. /\ P \in Seq(Block)
        /\ Len(P) = L + 1
        /\ \A k \in 1 .. i - 1 : P[k] = h[k]
        /\ P[i] = Taken(h[i], n)
        /\ P[i + 1] = Rest(h[i], n)
        /\ \A k \in i + 2 .. L + 1 : P[k] = h[k - 1]
    BY <1>1, <1>4, PlaceProps, ZenonT(90)
  <2> HIDE DEF P, L
  <2>2. t.addr = h[i].addr /\ ~t.free /\ t.size = n
    BY <2>1 DEF Taken
  <2>3. /\ r.addr = h[i].addr + HeaderSize + n
        /\ r.size = h[i].size - n - HeaderSize
        /\ r.free
    BY <2>1 DEF Rest
  <2>4. r.addr = End(t) /\ End(r) = End(h[i]) /\ End(t) <= End(h[i])
    BY <1>3, <1>4, <2>2, <2>3 DEF End, HeaderSize, MinSplit
  <2>5. End(t) <= End(h[i]) /\ End(t) <= r.addr
    BY <1>3, <2>2, <2>4 DEF End, HeaderSize
  <2> HIDE DEF t, r
  <2>6. P[i] = t /\ P[i + 1] = r
    BY DEF t, r
  <2>7. Tiles(P)
    <3>1. Len(P) >= 1 /\ P[1].addr = HeapBase
      BY <1>1, <1>2, <2>1, <2>2, <2>6
    <3>2. ASSUME NEW k \in 1 .. L
          PROVE  P[k + 1].addr = End(P[k])
      <4>1. CASE k < i - 1
        <5>1. P[k] = h[k] /\ P[k + 1] = h[k + 1] /\ h[k + 1].addr = End(h[k])
          BY <1>1, <1>2, <2>1, <4>1
        <5> QED
          BY <5>1, Zenon
      <4>2. CASE k = i - 1
        <5>1. P[k] = h[k] /\ P[k + 1] = t /\ h[i].addr = End(h[k])
          BY <1>1, <1>2, <2>1, <2>6, <4>2
        <5> QED
          BY <2>2, <5>1, Zenon
      <4>3. CASE k = i
        BY <2>4, <2>6, <4>3
      <4>4. CASE k = i + 1
        <5>1. P[k] = r /\ P[k + 1] = h[i + 1] /\ h[i + 1].addr = End(h[i])
          BY <1>1, <1>2, <2>1, <2>6, <4>4
        <5> QED
          BY <2>4, <5>1, Zenon
      <4>5. CASE k > i + 1
        <5>1. P[k] = h[k - 1] /\ P[k + 1] = h[k]
          <6>1. /\ k \in i + 2 .. L + 1
                /\ k + 1 \in i + 2 .. L + 1
                /\ (k + 1) - 1 = k
            BY <1>1, <4>5
          <6>2. P[k] = h[k - 1] /\ P[k + 1] = h[(k + 1) - 1]
            BY <2>1, <6>1, Zenon
          <6> QED
            BY <6>1, <6>2, Zenon
        <5>2. k - 1 \in 1 .. L - 1 /\ (k - 1) + 1 = k
          BY <1>1, <4>5
        <5>3. h[(k - 1) + 1].addr = End(h[k - 1])
          BY <1>2, <5>2
        <5> QED
          BY <5>1, <5>2, <5>3, Zenon
      <4> QED
        BY <1>1, <4>1, <4>2, <4>3, <4>4, <4>5
    <3>3. End(P[L + 1]) = HeapBase + HEAP_MAX_SIZE
      <4>1. CASE i = L
        BY <1>2, <2>4, <2>6, <4>1
      <4>2. CASE i < L
        <5>1. P[L + 1] = h[L]
          BY <1>1, <2>1, <4>2
        <5> QED
          BY <1>2, <5>1
      <4> QED
        BY <1>1, <4>1, <4>2
    <3> QED
      BY <1>1, <2>1, <3>1, <3>2, <3>3 DEF Tiles
  <2>8. Ordered(P)
    <3> SUFFICES ASSUME NEW k \in 1 .. L + 1, NEW l \in 1 .. L + 1, k < l
                 PROVE  End(P[k]) <= P[l].addr
      BY <2>1 DEF Ordered
    <3>1. CASE l < i
      <4>0. /\ k \in 1 .. i - 1 /\ l \in 1 .. i - 1
            /\ k \in 1 .. L /\ l \in 1 .. L
        BY <1>1, <3>1
      <4>1. P[k] = h[k] /\ P[l] = h[l]
        BY <2>1, <4>0, Zenon
      <4>2. End(h[k]) <= h[l].addr
        BY <1>2, <4>0, Zenon
      <4> QED
        BY <4>1, <4>2, Zenon
    <3>2. CASE l = i
      <4>1. P[k] = h[k] /\ P[l] = t /\ End(h[k]) <= h[i].addr
        BY <1>1, <1>2, <2>1, <2>6, <3>2
      <4> QED
        BY <2>2, <4>1, Zenon
    <3>3. CASE l = i + 1 /\ k < i
      <4>1. P[k] = h[k] /\ P[l] = r
        BY <1>1, <2>1, <2>6, <3>3
      <4>2. End(h[k]) <= h[i].addr /\ h[k].addr \in Nat /\ h[k].size \in Nat
        <5>1. k \in 1 .. L /\ i \in 1 .. L /\ k < i
          BY <1>1, <3>3
        <5> QED
          BY <1>2, <5>1, Zenon
      <4>3. End(h[k]) \in Nat
        BY <4>2, SMTT(30) DEF End, HeaderSize
      <4>4. End(h[k]) <= r.addr
        BY <1>3, <2>3, <4>2, <4>3 DEF HeaderSize
      <4> QED
        BY <4>1, <4>4, Zenon
    <3>4. CASE l = i + 1 /\ k = i
      BY <2>5, <2>6, <3>4
    <3>5. CASE l > i + 1
      <4>1. P[l] = h[l - 1] /\ l - 1 \in i + 1 .. L
        BY <1>1, <2>1, <3>5
      <4>2. CASE k < i
        <5>1. P[k] = h[k]
          BY <1>1, <2>1, <4>2
        <5>2. End(h[k]) <= h[l - 1].addr
          BY <1>1, <1>2, <4>1, <4>2
        <5> QED
          BY <4>1, <5>1, <5>2, Zenon
      <4>3. CASE k = i \/ k = i + 1
        <5>1. End(h[i]) <= h[l - 1].addr
          BY <1>1, <1>2, <4>1
        <5>3. End(h[i]) \in Nat
          BY <1>3, SMTT(30) DEF End, HeaderSize
        <5>2. End(P[k]) <= End(h[i]) /\ End(P[k]) \in Nat
          <6>1. End(t) \in Nat
            BY <1>3, <2>2 DEF End, HeaderSize
          <6>2. CASE k = i
            BY <2>5, <2>6, <6>1, <6>2, Zenon
          <6>3. CASE k = i + 1
            <7>1. End(P[k]) = End(h[i])
              BY <2>4, <2>6, <6>3, Zenon
            <7> QED
              BY <5>3, <7>1
          <6> QED
            BY <4>3, <6>2, <6>3
        <5>4. h[l - 1].addr \in Nat
          BY <1>1, <1>2, <4>1
        <5> QED
          BY <4>1, <5>1, <5>2, <5>3, <5>4
      <4>4. CASE k > i + 1
        <5>1. P[k] = h[k - 1]
          <6>1. k \in i + 2 .. L + 1
            BY <1>1, <4>4
          <6> QED
            BY <2>1, <6>1, Zenon
        <5>2. End(h[k - 1]) <= h[l - 1].addr
          BY <1>1, <1>2, <4>1, <4>4
        <5> QED
          BY <4>1, <5>1, <5>2, Zenon
      <4> QED
        BY <1>1, <4>2, <4>3, <4>4
    <3> QED
      BY <1>1, <3>1, <3>2, <3>3, <3>4, <3>5
  <2>9. CoalescedBut(P, 0)
    <3> SUFFICES ASSUME NEW k \in 1 .. L, P[k].free, P[k + 1].free
                 PROVE  FALSE
      BY <1>1, <2>1 DEF CoalescedBut
    <3>1. k # i /\ k + 1 # i
      BY <2>2, <2>6
    <3>2. CASE k < i - 1
      <4>1. P[k] = h[k] /\ P[k + 1] = h[k + 1]
        BY <1>1, <2>1, <3>2
      <4> QED
        BY <1>1, <1>2, <3>2, <4>1
    <3>3. CASE k = i + 1
      <4>1. P[k + 1] = h[i + 1] /\ i \in 1 .. L - 1
        BY <1>1, <2>1, <3>3
      <4> QED
        BY <1>2, <4>1
    <3>4. CASE k > i + 1
      <4>1. P[k] = h[k - 1] /\ P[k + 1] = h[k] /\ k - 1 \in 1 .. L - 1
            /\ (k - 1) + 1 = k
        BY <1>1, <2>1, <3>4
      <4> QED
        BY <1>2, <4>1
    <3> QED
      BY <1>1, <3>1, <3>2, <3>3, <3>4
  <2>10. Survives(h, P)
    <3> SUFFICES ASSUME NEW k \in 1 .. L, ~h[k].free
                 PROVE  \E m \in 1 .. L + 1 : P[m] = h[k]
      BY <2>1 DEF Survives, L
    <3>1. k # i
      OBVIOUS
    <3>2. CASE k < i
      <4>1. k \in 1 .. L + 1 /\ P[k] = h[k]
        BY <1>1, <2>1, <3>2
      <4> QED
        BY <4>1
    <3>3. CASE k > i
      <4>1. k + 1 \in 1 .. L + 1 /\ P[k + 1] = h[k]
        BY <1>1, <2>1, <3>3
      <4> QED
        BY <4>1
    <3> QED
      BY <1>1, <3>1, <3>2, <3>3
  <2>11. ASSUME NEW m \in 1 .. L + 1, ~P[m].free, m # i
         PROVE  \E k \in 1 .. L : h[k] = P[m]
    <3>1. m # i + 1
      BY <2>3, <2>6, <2>11
    <3>2. CASE m < i
      BY <1>1, <2>1, <3>2
    <3>3. CASE m > i + 1
      <4>1. m - 1 \in 1 .. L /\ (m - 1) + 1 = m /\ m - 1 > i
        BY <1>1, <3>3
      <4>2. P[(m - 1) + 1] = h[m - 1]
        BY <2>1, <4>1
      <4> QED
        BY <4>1, <4>2
    <3> QED
      BY <1>1, <2>11, <3>1, <3>2, <3>3
  <2>12. i \in 1 .. Len(P) /\ n <= t.size
    BY <1>1, <2>1, <2>2
  <2> QED
    BY <2>1, <2>2, <2>7, <2>8, <2>9, <2>10, <2>11, <2>12 DEF Shape, P, L, t
<1>5. CASE ~(h[i].size >= n + HeaderSize + MinSplit)
  <2>1. /\ P \in Seq(Block)
        /\ Len(P) = L
        /\ P[i] = Taken(h[i], h[i].size)
        /\ \A k \in 1 .. L : k # i => P[k] = h[k]
    BY <1>1, <1>5, PlaceProps, ZenonT(90)
  <2> HIDE DEF P, L
  <2>2. t.addr = h[i].addr /\ ~t.free /\ t.size = h[i].size
    BY <2>1 DEF Taken
  <2>3. End(t) = End(h[i])
    BY <2>2 DEF End
  <2> HIDE DEF t
  <2>4. P[i] = t
    BY DEF t
  <2>5. \A k \in 1 .. L : End(P[k]) = End(h[k]) /\ P[k].addr = h[k].addr
    BY <2>1, <2>2, <2>3, <2>4, Zenon
  <2>6. Tiles(P) /\ Ordered(P)
    <3>1. P[1].addr = HeapBase /\ End(P[L]) = HeapBase + HEAP_MAX_SIZE
      BY <1>1, <1>2, <2>5
    <3>2. \A k \in 1 .. L - 1 : P[k + 1].addr = End(P[k])
      BY <1>1, <1>2, <2>5
    <3>3. \A k, l \in 1 .. L : k < l => End(P[k]) <= P[l].addr
      BY <1>2, <2>5
    <3> QED
      BY <1>1, <2>1, <3>1, <3>2, <3>3 DEF Tiles, Ordered
  <2>7. CoalescedBut(P, 0)
    <3> SUFFICES ASSUME NEW k \in 1 .. L - 1, P[k].free, P[k + 1].free
                 PROVE  FALSE
      BY <1>1, <2>1 DEF CoalescedBut
    <3>1. P[k] = h[k] /\ P[k + 1] = h[k + 1]
      BY <1>1, <2>1, <2>2, <2>4
    <3> QED
      BY <1>2, <3>1
  <2>8. Survives(h, P)
    BY <2>1 DEF Survives, L
  <2>9. ASSUME NEW m \in 1 .. L, m # i
        PROVE  \E k \in 1 .. L : h[k] = P[m]
    BY <2>1, <2>9
  <2>10. i \in 1 .. Len(P) /\ n <= t.size
    BY <1>1, <2>1, <2>2
  <2> QED
    BY <2>1, <2>2, <2>6, <2>7, <2>8, <2>9, <2>10 DEF Shape, P, L, t
<1> QED
  BY <1>4, <1>5, Zenon

(* Surviving one list operation after another. *)
LEMMA SurvivesTrans ==
  ASSUME NEW f, NEW g, NEW h, Survives(f, g), Survives(g, h)
  PROVE  Survives(f, h)
<1> SUFFICES ASSUME NEW k \in 1 .. Len(f), ~f[k].free
             PROVE  \E m \in 1 .. Len(h) : h[m] = f[k]
  BY DEF Survives
<1>1. PICK l \in 1 .. Len(g) : g[l] = f[k]
  BY DEF Survives
<1>2. ~g[l].free
  BY <1>1
<1>3. PICK m \in 1 .. Len(h) : h[m] = g[l]
  BY <1>2 DEF Survives
<1> QED
  BY <1>1, <1>3

(* header->free = 1 moves no block; the only free neighbours it can make  *)
(* are the freed block and the one before or after it.                    *)
LEMMA FreedShape ==
  ASSUME NEW h, Shape(h), CoalescedBut(h, 0), NEW i \in 1 .. Len(h),
         NEW g, g = [h EXCEPT ![i] = Freed(h[i])]
  PROVE  /\ Shape(g)
         /\ Len(g) = Len(h)
         /\ g[i].free
         /\ \A k \in 1 .. Len(h) : k # i => g[k] = h[k]
         /\ \A k \in 1 .. Len(g) - 1 :
              g[k].free /\ g[k + 1].free => k = i \/ k = i - 1
<1> DEFINE L == Len(h)
           b == Freed(h[i])
<1>1. /\ h \in Seq(Block)
      /\ L \in Nat /\ L >= 1
      /\ i \in 1 .. L
      /\ h[i] \in Block
  BY DEF Shape, Tiles
<1>2. b \in Block
  BY <1>1 DEF Block, Freed
<1>3. b.addr = h[i].addr /\ b.free /\ b.size = h[i].size
  BY DEF Freed
<1>4. End(b) = End(h[i])
  BY <1>3 DEF End
<1> HIDE DEF b
<1>5. /\ g \in Seq(Block)
      /\ Len(g) = L
      /\ g[i] = b
      /\ \A k \in 1 .. L : k # i => g[k] = h[k]
  BY <1>1, <1>2, ExceptSeq DEF b
<1> HIDE DEF L
<1>6. \A k \in 1 .. L : End(g[k]) = End(h[k]) /\ g[k].addr = h[k].addr
  BY <1>3, <1>4, <1>5, Zenon
<1>7. /\ h[1].addr = HeapBase
      /\ \A k \in 1 .. L - 1 : h[k + 1].addr = End(h[k])
      /\ End(h[L]) = HeapBase + HEAP_MAX_SIZE
      /\ \A k, l \in 1 .. L : k < l => End(h[k]) <= h[l].addr
  BY DEF Shape, Tiles, Ordered, L
<1>8. Tiles(g) /\ Ordered(g)
  <2>1. g[1].addr = HeapBase /\ End(g[L]) = HeapBase + HEAP_MAX_SIZE
    BY <1>1, <1>6, <1>7
  <2>2. \A k \in 1 .. L - 1 : g[k + 1].addr = End(g[k])
    BY <1>1, <1>6, <1>7
  <2>3. \A k, l \in 1 .. L : k < l => End(g[k]) <= g[l].addr
    BY <1>6, <1>7
  <2> QED
    BY <1>1, <1>5, <2>1, <2>2, <2>3 DEF Tiles, Ordered
<1>9. ASSUME NEW k \in 1 .. L - 1, g[k].free, g[k + 1].free,
             k # i, k # i - 1
      PROVE  FALSE
  <2>1. k # 0 /\ k \in 1 .. L /\ k + 1 \in 1 .. L /\ k + 1 # i
    BY <1>1, <1>9
  <2>2. h[k].free /\ h[k + 1].free
    BY <1>5, <1>9, <2>1
  <2> QED
    BY <2>1, <2>2, Zenon DEF CoalescedBut, L
<1> QED
  BY <1>3, <1>5, <1>8, <1>9 DEF Shape, L

(* Merging with a free successor. *)
LEMMA MergeNextShape ==
  ASSUME NEW g, Shape(g), NEW i \in 1 .. Len(g), g[i].free,
         \A k \in 1 .. Len(g) - 1 :
           g[k].free /\ g[k + 1].free => k = i \/ k = i - 1
  PROVE  /\ Shape(MergeNext(g, i))
         /\ i \in 1 .. Len(MergeNext(g, i))
         /\ MergeNext(g, i)[i].free
         /\ CoalescedBut(MergeNext(g, i), i - 1)
         /\ Survives(g, MergeNext(g, i))
         /\ Survives(MergeNext(g, i), g)
<1> DEFINE L == Len(g)
<1>1. L \in Nat /\ i \in 1 .. L
  BY DEF Shape
<1>2. CASE i < L /\ g[i + 1].free
  <2> DEFINE M == Merge(g, i)
  <2>1. MergeNext(g, i) = M
    BY <1>2 DEF MergeNext
  <2>2. i \in 1 .. L - 1
    BY <1>1, <1>2
  <2>3. /\ Shape(M)
        /\ Len(M) = L - 1
        /\ M[i].free
        /\ \A k \in 1 .. i - 1 : M[k] = g[k]
        /\ \A k \in i + 1 .. L - 1 : M[k] = g[k + 1]
        /\ Survives(g, M)
        /\ Survives(M, g)
    BY <1>2, <2>2, MergeShape
  <2> HIDE DEF M
  <2>4. ASSUME NEW k \in 1 .. L - 2, M[k].free, M[k + 1].free, k # i - 1
        PROVE  FALSE
    <3>1. CASE k < i - 1
      <4>1. M[k] = g[k] /\ M[k + 1] = g[k + 1] /\ k \in 1 .. L - 1 /\ k # i
        BY <1>1, <2>3, <3>1
      <4> QED
        BY <2>4, <4>1
    <3>2. CASE k >= i
      <4>1. M[k + 1] = g[k + 2]
        BY <1>1, <2>3, <3>2
      <4>2. k + 1 \in 1 .. L - 1 /\ (k + 1) + 1 = k + 2 /\ k + 1 # i /\ k + 1 # i - 1
        BY <1>1, <3>2
      <4>3. g[k + 1].free
        <5>1. CASE k = i
          BY <1>2, <5>1
        <5>2. CASE k > i
          <6>1. M[k] = g[k + 1]
            BY <1>1, <2>3, <5>2
          <6> QED
            BY <2>4, <6>1
        <5> QED
          BY <1>1, <3>2, <5>1, <5>2
      <4> QED
        BY <2>4, <4>1, <4>2, <4>3
    <3> QED
      BY <1>1, <2>4, <3>1, <3>2
  <2>5. i \in 1 .. Len(M)
    BY <1>1, <2>2, <2>3
  <2>6. CoalescedBut(M, i - 1)
    BY <1>1, <2>3, <2>4 DEF CoalescedBut
  <2> QED
    BY <2>1, <2>3, <2>5, <2>6, Zenon
<1>3. CASE ~(i < L /\ g[i + 1].free)
  <2>1. MergeNext(g, i) = g
    BY <1>3 DEF MergeNext
  <2>2. CoalescedBut(g, i - 1)
    <3> SUFFICES ASSUME NEW k \in 1 .. L - 1, g[k].free, g[k + 1].free
                 PROVE  k = i - 1
      BY DEF CoalescedBut
    <3>1. k # i
      BY <1>1, <1>3
    <3> QED
      BY <3>1
  <2>3. Survives(g, g)
    BY DEF Survives
  <2> QED
    BY <2>1, <2>2, <2>3, Zenon
<1> QED
  BY <1>2, <1>3, Zenon

(* Merging into a free predecessor. *)
LEMMA MergePrevShape ==
  ASSUME NEW g, Shape(g), NEW i \in 1 .. Len(g), g[i].free,
         CoalescedBut(g, i - 1)
  PROVE  /\ Shape(MergePrev(g, i))
         /\ CoalescedBut(MergePrev(g, i), 0)
         /\ Survives(g, MergePrev(g, i))
         /\ Survives(MergePrev(g, i), g)
<1> DEFINE L == Len(g)
<1>1. L \in Nat /\ i \in 1 .. L
  BY DEF Shape
<1>0. ASSUME NEW k \in 1 .. L - 1, g[k].free, g[k + 1].free
      PROVE  k = i - 1
  BY <1>0, Zenon DEF CoalescedBut
<1>2. CASE i > 1 /\ g[i - 1].free
  <2> DEFINE j == i - 1
             M == Merge(g, j)
  <2>1. MergePrev(g, i) = M
    BY <1>2 DEF MergePrev
  <2>2. j \in 1 .. L - 1 /\ j + 1 = i
    BY <1>1, <1>2
  <2>3. /\ Shape(M)
        /\ Len(M) = L - 1
        /\ M[j].free
        /\ \A k \in 1 .. j - 1 : M[k] = g[k]
        /\ \A k \in j + 1 .. L - 1 : M[k] = g[k + 1]
        /\ Survives(g, M)
        /\ Survives(M, g)
    <3> HIDE DEF j
    <3>1. g[j].free /\ g[j + 1].free
      BY <1>2, <2>2 DEF j
    <3> QED
      BY <2>2, <3>1, MergeShape
  <2> HIDE DEF M
  <2>4. ASSUME NEW k \in 1 .. L - 2, M[k].free, M[k + 1].free
        PROVE  FALSE
    <3>1. CASE k < j
      <4>1. M[k] = g[k] /\ k \in 1 .. L - 1 /\ k # i - 1
        BY <1>1, <2>2, <2>3, <3>1
      <4>2. g[k + 1].free
        <5>1. CASE k + 1 = j
          BY <1>2, <5>1
        <5>2. CASE k + 1 < j
          <6>1. M[k + 1] = g[k + 1]
            BY <1>1, <2>2, <2>3, <5>2
          <6> QED
            BY <2>4, <6>1
        <5> QED
          BY <1>1, <2>2, <3>1, <5>1, <5>2
      <4> QED
        BY <1>0, <2>4, <4>1, <4>2
    <3>2. CASE k >= j
      <4>1. M[k + 1] = g[k + 2]
        BY <1>1, <2>2, <2>3, <3>2
      <4>2. k + 1 \in 1 .. L - 1 /\ (k + 1) + 1 = k + 2 /\ k + 1 # i - 1
        BY <1>1, <2>2, <3>2
      <4>3. g[k + 1].free
        <5>1. CASE k = j
          BY <2>2, <5>1
        <5>2. CASE k > j
          <6>1. M[k] = g[k + 1]
            BY <1>1, <2>2, <2>3, <5>2
          <6> QED
            BY <2>4, <6>1
        <5> QED
          BY <1>1, <2>2, <3>2, <5>1, <5>2
      <4> QED
        BY <1>0, <2>4, <4>1, <4>2, <4>3
    <3> QED
      BY <1>1, <2>2, <3>1, <3>2
  <2>5. CoalescedBut(M, 0)
    BY <1>1, <2>3, <2>4 DEF CoalescedBut
  <2> QED
    BY <2>1, <2>3, <2>5, Zenon
<1>3. CASE ~(i > 1 /\ g[i - 1].free)
  <2>1. MergePrev(g, i) = g
    BY <1>3 DEF MergePrev
  <2>2. CoalescedBut(g, 0)
    <3> SUFFICES ASSUME NEW k \in 1 .. L - 1, g[k].free, g[k + 1].free
                 PROVE  FALSE
      BY DEF CoalescedBut
    <3>1. k = i - 1
      BY <1>0
    <3> QED
      BY <1>1, <1>3, <3>1
  <2>3. Survives(g, g)
    BY DEF Survives
  <2> QED
    BY <2>1, <2>2, <2>3, Zenon
<1> QED
  BY <1>2, <1>3, Zenon

(* free(ptr) on an allocated block: the list keeps its shape, no two free  *)
(* neighbours remain, and exactly the freed block stops being allocated.   *)
LEMMA FreeShape ==
  ASSUME NEW h, Shape(h), CoalescedBut(h, 0), NEW i \in 1 .. Len(h),
         NEW F, F = MergePrev(MergeNext([h EXCEPT ![i] = Freed(h[i])], i), i)
  PROVE  /\ Shape(F)
         /\ CoalescedBut(F, 0)
         /\ \A k \in 1 .. Len(h) : ~h[k].free /\ k # i
              => \E m \in 1 .. Len(F) : F[m] = h[k]
         /\ \A m \in 1 .. Len(F) : ~F[m].free
              => \E k \in 1 .. Len(h) : k # i /\ h[k] = F[m]
<1> DEFINE g == [h EXCEPT ![i] = Freed(h[i])]
           f == MergeNext(g, i)
<1>1. /\ Shape(g)
      /\ Len(g) = Len(h)
      /\ g[i].free
      /\ \A k \in 1 .. Len(h) : k # i => g[k] = h[k]
      /\ \A k \in 1 .. Len(g) - 1 :
           g[k].free /\ g[k + 1].free => k = i \/ k = i - 1
  BY FreedShape
<1>0. F = MergePrev(f, i)
  OBVIOUS
<1> HIDE DEF g
<1>2. i \in 1 .. Len(g)
  BY <1>1
<1>3. /\ Shape(f)
      /\ i \in 1 .. Len(f)
      /\ f[i].free
      /\ CoalescedBut(f, i - 1)
      /\ Survives(g, f)
      /\ Survives(f, g)
  BY <1>1, <1>2, MergeNextShape
<1> HIDE DEF f
<1>4. /\ Shape(F)
      /\ CoalescedBut(F, 0)
      /\ Survives(f, F)
      /\ Survives(F, f)
  BY <1>0, <1>3, MergePrevShape
<1>5. Survives(g, F) /\ Survives(F, g)
  BY <1>3, <1>4, SurvivesTrans
<1>6. ASSUME NEW k \in 1 .. Len(h), ~h[k].free, k # i
      PROVE  \E m \in 1 .. Len(F) : F[m] = h[k]
  <2>1. g[k] = h[k] /\ k \in 1 .. Len(g)
    BY <1>1, <1>6
  <2>2. ~g[k].free
    BY <1>6, <2>1
  <2>3. PICK m \in 1 .. Len(F) : F[m] = g[k]
    BY <1>5, <2>1, <2>2, Zenon DEF Survives
  <2> QED
    BY <2>1, <2>3, Zenon
<1>7. ASSUME NEW m \in 1 .. Len(F), ~F[m].free
      PROVE  \E k \in 1 .. Len(h) : k # i /\ h[k] = F[m]
  <2>1. PICK k \in 1 .. Len(g) : g[k] = F[m]
    BY <1>5, <1>7, Zenon DEF Survives
  <2>2. ~g[k].free
    BY <1>7, <2>1
  <2>3. k # i /\ k \in 1 .. Len(h)
    BY <1>1, <2>2
  <2>4. h[k] = F[m]
    BY <1>1, <2>1, <2>3
  <2> QED
    BY <2>3, <2>4
<1> QED
  BY <1>4, <1>6, <1>7, Zenon

-----------------------------------------------------------------------------
(* The inductive invariant.  ListInv is about the block list alone;        *)
(* OwnerInv ties it to the pointers callers hold, in both directions.      *)
ListInv == Shape(heap) /\ CoalescedBut(heap, 0)

AllHeld ==
  \A i \in 1 .. Len(heap) : ~heap[i].free
    => \E e \in held : e.ptr = Ptr(heap[i])

OwnerInv == HeldInBlocks /\ AllHeld

HeapInv == TypeOK /\ ListInv

(* No request is so close to 2^32 that rounding it up wraps. *)
NoWrap == \A size \in Sizes : size <= Word - Alignment

LEMMA SizesNat == Sizes \subseteq Nat
BY HeapAssumption

(* Rounding up gives a number, at least the request if that does not wrap. *)
LEMMA AlignUpProps ==
  ASSUME NEW size \in Nat
  PROVE  /\ AlignUp(size) \in Nat
         /\ size <= Word - Alignment => size <= AlignUp(size)
<1>1. Word \in Nat /\ Word > 0
  BY HeapAssumption DEF HeaderSize, MinSplit
<1>2. CASE size % 4 = 0
  BY <1>1, <1>2 DEF AlignUp, Alignment
<1>3. CASE size % 4 # 0
  <2> DEFINE up == size + (4 - (size % 4))
  <2>1. AlignUp(size) = up % Word
    BY <1>3 DEF AlignUp, Alignment
  <2>2. up \in Nat /\ up > size /\ up <= size + 3
    BY <1>1, <1>3
  <2>3. up % Word \in Nat
    BY <1>1, <2>2
  <2>4. ASSUME size <= Word - Alignment
        PROVE  size <= up % Word
    <3>1. size <= Word - 4
      BY <2>4 DEF Alignment
    <3>2. up < Word
      BY <1>1, <2>2, <3>1
    <3>3. up % Word = up
      BY <1>1, <2>2, <3>2
    <3> QED
      BY <1>1, <2>2, <3>3
  <2> QED
    BY <2>1, <2>3, <2>4
<1> QED
  BY <1>2, <1>3

(* A malloc step either panics or places the request in a free block. *)
LEMMA MallocStep ==
  ASSUME TypeOK, NEW size \in Nat, malloc(size)
  PROVE  \/ panic' = "out of memory" /\ UNCHANGED <<heap, heap_used, held>>
         \/ \E i \in 1 .. Len(heap) :
              /\ heap[i].free
              /\ AlignUp(size) <= heap[i].size
              /\ heap' = Place(heap, i, AlignUp(size))
              /\ heap_used' = (heap_used + heap'[i].size + HeaderSize) % Word
              /\ held' = held \cup {[ptr |-> Ptr(heap'[i]), len |-> size]}
              /\ UNCHANGED panic
<1> DEFINE n == AlignUp(size)
           i == SelectInSeq(heap, LAMBDA b : Fits(b, n))
<1>1. n \in Nat
  BY AlignUpProps
<1>2. heap \in Seq(Block)
  BY DEF TypeOK
<1>3. i # 0 => i \in 1 .. Len(heap) /\ Fits(heap[i], n)
  <2> HIDE DEF n
  <2> QED
    BY <1>1, <1>2, FirstFit
<1>4. CASE i = 0
  BY <1>4 DEF malloc
<1>5. CASE i # 0
  <2>1. /\ heap' = Place(heap, i, n)
        /\ heap_used' = (heap_used + Place(heap, i, n)[i].size + HeaderSize) % Word
        /\ held' = held \cup {[ptr |-> Ptr(Place(heap, i, n)[i]), len |-> size]}
        /\ UNCHANGED panic
    BY <1>5, Zenon DEF malloc
  <2>2. i \in 1 .. Len(heap) /\ heap[i].free /\ heap[i].size >= n
    BY <1>3, <1>5 DEF Fits
  <2> HIDE DEF n, i
  <2>3. heap[i].size \in Nat
    <3>1. heap[i] \in Block
      BY <1>2, <2>2
    <3> QED
      BY <3>1 DEF Block
  <2>4. n <= heap[i].size
    BY <1>1, <2>2, <2>3
  <2>5. /\ heap_used' = (heap_used + heap'[i].size + HeaderSize) % Word
        /\ held' = held \cup {[ptr |-> Ptr(heap'[i]), len |-> size]}
    BY <2>1, Zenon
  <2> QED
    BY <2>1, <2>2, <2>4, <2>5, Zenon DEF n
<1> QED
  BY <1>4, <1>5

(* The list that memory_init builds. *)
LEMMA InitInv ==
  Init => HeapInv /\ OwnerInv
<1> SUFFICES ASSUME Init
             PROVE  HeapInv /\ OwnerInv
  OBVIOUS
<1> DEFINE b == [addr |-> HeapBase, size |-> HEAP_MAX_SIZE - HeaderSize,
                 free |-> TRUE]
<1>1. heap = <<b>> /\ heap_used = 0 /\ panic = "none" /\ held = {}
  BY DEF Init, memory_init, WholeHeap
<1>2. HeapBase \in Nat /\ HEAP_MAX_SIZE \in Nat /\ HEAP_MAX_SIZE > HeaderSize
      /\ Word \in Nat /\ Word > 0
  BY HeapAssumption DEF HeaderSize, MinSplit
<1>3. b \in Block
  BY <1>2 DEF Block, HeaderSize
<1>4. b.addr = HeapBase /\ End(b) = HeapBase + HEAP_MAX_SIZE /\ b.free
  BY <1>2 DEF End, HeaderSize
<1> HIDE DEF b
<1>5. heap \in Seq(Block) /\ Len(heap) = 1 /\ heap[1] = b
  BY <1>1, <1>3
<1>6. TypeOK
  BY <1>1, <1>2, <1>5 DEF TypeOK, Panics
<1>7. Shape(heap) /\ CoalescedBut(heap, 0)
  BY <1>4, <1>5 DEF Shape, Tiles, Ordered, CoalescedBut
<1>8. HeldInBlocks
  BY <1>1 DEF HeldInBlocks
<1>9. AllHeld
  BY <1>4, <1>5 DEF AllHeld
<1> QED
  BY <1>6, <1>7, <1>8, <1>9 DEF HeapInv, ListInv, OwnerInv

(* malloc keeps the type and the block list's shape. *)
LEMMA MallocKeeps ==
  ASSUME HeapInv, NEW size \in Nat, malloc(size)
  PROVE  HeapInv'
<1>1. /\ TypeOK /\ Shape(heap) /\ CoalescedBut(heap, 0)
      /\ Word \in Nat /\ Word > 0
  BY HeapAssumption DEF HeapInv, ListInv, HeaderSize, MinSplit
<1>2. CASE panic' = "out of memory" /\ UNCHANGED <<heap, heap_used, held>>
  BY <1>1, <1>2 DEF HeapInv, ListInv, TypeOK, Panics, Shape, Tiles, Ordered,
    CoalescedBut
<1>3. ASSUME NEW i \in 1 .. Len(heap),
             heap[i].free,
             AlignUp(size) <= heap[i].size,
             heap' = Place(heap, i, AlignUp(size)),
             heap_used' = (heap_used + heap'[i].size + HeaderSize) % Word,
             held' = held \cup {[ptr |-> Ptr(heap'[i]), len |-> size]},
             UNCHANGED panic
      PROVE  HeapInv'
  <2>1. AlignUp(size) \in Nat
    BY AlignUpProps
  <2>2. Shape(heap') /\ CoalescedBut(heap', 0) /\ i \in 1 .. Len(heap')
    BY <1>1, <1>3, <2>1, PlaceShape
  <2>3. heap' \in Seq(Block)
    BY <2>2 DEF Shape
  <2>4. heap'[i] \in Block
    BY <2>2, <2>3
  <2>5. heap'[i].size \in Nat /\ Ptr(heap'[i]) \in Nat
    BY <2>4 DEF Block, Ptr, HeaderSize
  <2>6. size \in Nat
    OBVIOUS
  <2>7. heap_used' \in 0 .. Word - 1
    <3>1. heap_used \in Nat
      BY <1>1 DEF TypeOK
    <3>2. heap_used + heap'[i].size + HeaderSize \in Nat
      BY <2>5, <3>1 DEF HeaderSize
    <3> QED
      BY <1>1, <1>3, <3>2
  <2>8. held' \subseteq [ptr : Nat, len : Nat]
    BY <1>1, <1>3, <2>5, <2>6 DEF TypeOK
  <2>9. TypeOK'
    BY <1>1, <1>3, <2>3, <2>7, <2>8 DEF TypeOK
  <2> QED
    BY <2>2, <2>9 DEF HeapInv, ListInv
<1> QED
  BY <1>1, <1>2, <1>3, MallocStep

(* So does free, of whichever block. *)
LEMMA FreeKeeps ==
  ASSUME HeapInv, NEW i \in 1 .. Len(heap), free(i)
  PROVE  HeapInv'
<1>1. /\ TypeOK /\ Shape(heap) /\ CoalescedBut(heap, 0)
      /\ Word \in Nat /\ Word > 0
  BY HeapAssumption DEF HeapInv, ListInv, HeaderSize, MinSplit
<1>2. CASE heap[i].free
  BY <1>1, <1>2 DEF free, HeapInv, ListInv, TypeOK, Panics, Shape, Tiles,
    Ordered, CoalescedBut
<1>3. CASE ~heap[i].free
  <2>1. /\ heap' = MergePrev(MergeNext([heap EXCEPT ![i] = Freed(heap[i])], i), i)
        /\ heap_used' = (heap_used - Released(heap[i])) % Word
        /\ held' \subseteq held
        /\ UNCHANGED panic
    BY <1>3 DEF free
  <2>2. Shape(heap') /\ CoalescedBut(heap', 0)
    BY <1>1, <2>1, FreeShape
  <2>3. heap' \in Seq(Block)
    BY <2>2 DEF Shape
  <2>4. heap[i] \in Block
    BY <1>1 DEF TypeOK
  <2>5. Released(heap[i]) \in Nat
    BY <2>4 DEF Block, Released, HeaderSize
  <2>6. heap_used' \in 0 .. Word - 1
    BY <1>1, <2>1, <2>5 DEF TypeOK
  <2>7. TypeOK'
    BY <1>1, <2>1, <2>3, <2>6 DEF TypeOK
  <2> QED
    BY <2>2, <2>7 DEF HeapInv, ListInv
<1> QED
  BY <1>2, <1>3

(* Every step keeps the type and the block list's shape. *)
LEMMA StepHeapInv ==
  HeapInv /\ [Next]_vars => HeapInv'
<1> SUFFICES ASSUME HeapInv, [Next]_vars
             PROVE  HeapInv'
  OBVIOUS
<1>1. CASE UNCHANGED vars
  BY <1>1 DEF vars, HeapInv, ListInv, TypeOK, Shape, Tiles, Ordered, CoalescedBut
<1> QED
  BY <1>1, SizesNat, MallocKeeps, FreeKeeps DEF Next

(* Blocks at different places on the list have different pointers. *)
LEMMA DistinctPtrs ==
  ASSUME NEW h, Shape(h), NEW i \in 1 .. Len(h), NEW j \in 1 .. Len(h), i # j
  PROVE  Ptr(h[i]) # Ptr(h[j])
<1>1. ASSUME NEW k \in 1 .. Len(h), NEW l \in 1 .. Len(h), k < l
      PROVE  Ptr(h[k]) # Ptr(h[l])
  <2>1. h[k] \in Block /\ h[l] \in Block
    BY DEF Shape
  <2>2. h[k].addr \in Nat /\ h[k].size \in Nat /\ h[l].addr \in Nat
    BY <2>1 DEF Block
  <2>3. End(h[k]) <= h[l].addr
    BY <1>1 DEF Shape, Ordered
  <2> QED
    BY <2>2, <2>3 DEF End, Ptr, HeaderSize
<1>2. Len(h) \in Nat
  BY DEF Shape
<1>3. i < j \/ j < i
  BY <1>2
<1> QED
  BY <1>1, <1>3

(* Every step keeps callers and allocated blocks matched. *)
LEMMA StepOwnerInv ==
  ASSUME NoWrap, HeapInv, HeapInv', OwnerInv, [Next]_vars
  PROVE  OwnerInv'
<1>1. /\ TypeOK /\ Shape(heap) /\ CoalescedBut(heap, 0)
      /\ Shape(heap')
  BY DEF HeapInv, ListInv
<1>2. /\ \A e \in held : \E j \in 1 .. Len(heap) :
           ~heap[j].free /\ e.ptr = Ptr(heap[j]) /\ e.len <= heap[j].size
      /\ \A e, f \in held : e.ptr = f.ptr => e = f
      /\ \A j \in 1 .. Len(heap) : ~heap[j].free
           => \E e \in held : e.ptr = Ptr(heap[j])
  BY DEF OwnerInv, HeldInBlocks, AllHeld
<1>3. ASSUME NEW size \in Sizes, malloc(size)
      PROVE  OwnerInv'
  <2>1. CASE panic' = "out of memory" /\ UNCHANGED <<heap, heap_used, held>>
    BY <2>1 DEF OwnerInv, HeldInBlocks, AllHeld
  <2>2. ASSUME NEW i \in 1 .. Len(heap),
               heap[i].free,
               AlignUp(size) <= heap[i].size,
               heap' = Place(heap, i, AlignUp(size)),
               heap_used' = (heap_used + heap'[i].size + HeaderSize) % Word,
               held' = held \cup {[ptr |-> Ptr(heap'[i]), len |-> size]},
               UNCHANGED panic
        PROVE  OwnerInv'
    <3> DEFINE new == [ptr |-> Ptr(heap'[i]), len |-> size]
    <3>1. AlignUp(size) \in Nat /\ size <= AlignUp(size) /\ size \in Nat
      BY SizesNat, AlignUpProps DEF NoWrap
    <3>2. /\ i \in 1 .. Len(heap')
          /\ heap'[i].addr = heap[i].addr
          /\ ~heap'[i].free
          /\ AlignUp(size) <= heap'[i].size
          /\ Survives(heap, heap')
          /\ \A m \in 1 .. Len(heap') : ~heap'[m].free /\ m # i
               => \E k \in 1 .. Len(heap) : heap[k] = heap'[m]
      BY <1>1, <2>2, <3>1, PlaceShape
    <3>3. Ptr(heap'[i]) = Ptr(heap[i])
      BY <3>2 DEF Ptr
    <3>4. heap'[i].size \in Nat
      <4>1. heap'[i] \in Block
        BY <1>1, <3>2 DEF Shape
      <4> QED
        BY <4>1 DEF Block
    <3>5. size <= heap'[i].size
      BY <3>1, <3>2, <3>4
    <3>6. ASSUME NEW e \in held'
          PROVE  \E j \in 1 .. Len(heap') :
                   ~heap'[j].free /\ e.ptr = Ptr(heap'[j]) /\ e.len <= heap'[j].size
      <4>1. CASE e = new
        <5>1. e.ptr = Ptr(heap'[i]) /\ e.len = size
          BY <4>1
        <5>2. e.len <= heap'[i].size
          BY <3>5, <5>1, Zenon
        <5> QED
          BY <3>2, <5>1, <5>2, Zenon
      <4>2. CASE e \in held
        <5>1. PICK j \in 1 .. Len(heap) :
                ~heap[j].free /\ e.ptr = Ptr(heap[j]) /\ e.len <= heap[j].size
          BY <1>2, <4>2
        <5>2. PICK m \in 1 .. Len(heap') : heap'[m] = heap[j]
          BY <3>2, <5>1 DEF Survives
        <5> QED
          BY <5>1, <5>2, Zenon
      <4> QED
        BY <2>2, <4>1, <4>2
    <3>7. ASSUME NEW e \in held, e.ptr = new.ptr
          PROVE  FALSE
      <4>1. PICK j \in 1 .. Len(heap) : ~heap[j].free /\ e.ptr = Ptr(heap[j])
        BY <1>2
      <4>2. j # i
        BY <2>2, <4>1
      <4>3. Ptr(heap[j]) # Ptr(heap[i])
        BY <1>1, <4>2, DistinctPtrs
      <4> QED
        BY <3>3, <3>7, <4>1, <4>3
    <3>8. \A e, f \in held' : e.ptr = f.ptr => e = f
      BY <1>2, <2>2, <3>7, Zenon
    <3>9. ASSUME NEW m \in 1 .. Len(heap'), ~heap'[m].free
          PROVE  \E e \in held' : e.ptr = Ptr(heap'[m])
      <4>1. CASE m = i
        <5>1. new \in held' /\ new.ptr = Ptr(heap'[i])
          BY <2>2
        <5> QED
          BY <4>1, <5>1, Zenon
      <4>2. CASE m # i
        <5>1. PICK k \in 1 .. Len(heap) : heap[k] = heap'[m]
          BY <3>2, <3>9, <4>2
        <5>2. PICK e \in held : e.ptr = Ptr(heap[k])
          BY <1>2, <3>9, <5>1
        <5> QED
          BY <2>2, <5>1, <5>2
      <4> QED
        BY <4>1, <4>2
    <3> QED
      BY <3>6, <3>8, <3>9 DEF OwnerInv, HeldInBlocks, AllHeld
  <2> QED
    BY <1>1, <1>3, <2>1, <2>2, SizesNat, MallocStep
<1>4. ASSUME NEW i \in 1 .. Len(heap), free(i)
      PROVE  OwnerInv'
  <2>1. CASE heap[i].free
    BY <1>4, <2>1 DEF free, OwnerInv, HeldInBlocks, AllHeld
  <2>2. CASE ~heap[i].free
    <3>1. /\ heap' = MergePrev(MergeNext([heap EXCEPT ![i] = Freed(heap[i])], i), i)
          /\ held' = {e \in held : e.ptr # Ptr(heap[i])}
      BY <1>4, <2>2 DEF free
    <3>2. /\ \A k \in 1 .. Len(heap) : ~heap[k].free /\ k # i
               => \E m \in 1 .. Len(heap') : heap'[m] = heap[k]
          /\ \A m \in 1 .. Len(heap') : ~heap'[m].free
               => \E k \in 1 .. Len(heap) : k # i /\ heap[k] = heap'[m]
      <4>1. \A k \in 1 .. Len(heap) : ~heap[k].free /\ k # i
              => \E m \in 1 .. Len(heap') : heap'[m] = heap[k]
        BY <1>1, <3>1, FreeShape
      <4>2. \A m \in 1 .. Len(heap') : ~heap'[m].free
              => \E k \in 1 .. Len(heap) : k # i /\ heap[k] = heap'[m]
        BY <1>1, <3>1, FreeShape
      <4> QED
        BY <4>1, <4>2
    <3>3. ASSUME NEW e \in held'
          PROVE  \E j \in 1 .. Len(heap') :
                   ~heap'[j].free /\ e.ptr = Ptr(heap'[j]) /\ e.len <= heap'[j].size
      <4>1. e \in held /\ e.ptr # Ptr(heap[i])
        BY <3>1
      <4>2. PICK j \in 1 .. Len(heap) :
              ~heap[j].free /\ e.ptr = Ptr(heap[j]) /\ e.len <= heap[j].size
        BY <1>2, <4>1
      <4>3. j # i
        BY <4>1, <4>2
      <4>4. PICK m \in 1 .. Len(heap') : heap'[m] = heap[j]
        BY <3>2, <4>2, <4>3
      <4> QED
        BY <4>2, <4>4, Zenon
    <3>4. \A e, f \in held' : e.ptr = f.ptr => e = f
      BY <1>2, <3>1
    <3>5. ASSUME NEW m \in 1 .. Len(heap'), ~heap'[m].free
          PROVE  \E e \in held' : e.ptr = Ptr(heap'[m])
      <4>1. PICK k \in 1 .. Len(heap) : k # i /\ heap[k] = heap'[m]
        BY <3>2, <3>5
      <4>2. PICK e \in held : e.ptr = Ptr(heap[k])
        BY <1>2, <3>5, <4>1
      <4>3. Ptr(heap[k]) # Ptr(heap[i])
        BY <1>1, <4>1, DistinctPtrs
      <4> QED
        BY <3>1, <4>1, <4>2, <4>3
    <3> QED
      BY <3>3, <3>4, <3>5 DEF OwnerInv, HeldInBlocks, AllHeld
  <2> QED
    BY <2>1, <2>2
<1>5. CASE UNCHANGED vars
  BY <1>5 DEF vars, OwnerInv, HeldInBlocks, AllHeld
<1> QED
  BY <1>3, <1>4, <1>5 DEF Next

-----------------------------------------------------------------------------
(* The heap stays well typed: in particular heap_used never leaves         *)
(* uint32_t and every block on the list has a header with a size and flag. *)
THEOREM HeapTypeOK == Spec => []TypeOK
<1>1. Init => HeapInv
  BY InitInv
<1>2. HeapInv /\ [Next]_vars => HeapInv'
  BY StepHeapInv
<1>3. HeapInv => TypeOK
  BY DEF HeapInv
<1> QED
  BY <1>1, <1>2, <1>3, PTL DEF Spec

(* malloc's splits and free's merges keep the blocks tiling the heap,      *)
(* whatever the sizes and the order of the calls.                          *)
THEOREM HeapTiling == Spec => []Tiling
<1>1. Init => HeapInv
  BY InitInv
<1>2. HeapInv /\ [Next]_vars => HeapInv'
  BY StepHeapInv
<1>3. HeapInv => Tiling
  BY DEF HeapInv, ListInv, Shape, Tiles, Tiling
<1> QED
  BY <1>1, <1>2, <1>3, PTL DEF Spec

(* free leaves no two free neighbours on the list. *)
THEOREM HeapCoalesced == Spec => []Coalesced
<1>1. Init => HeapInv
  BY InitInv
<1>2. HeapInv /\ [Next]_vars => HeapInv'
  BY StepHeapInv
<1>3. HeapInv => Coalesced
  <2> SUFFICES ASSUME HeapInv, NEW i \in 1 .. Len(heap) - 1
               PROVE  ~(heap[i].free /\ heap[i + 1].free)
    BY DEF Coalesced
  <2>1. i # 0
    BY DEF HeapInv, TypeOK
  <2> QED
    BY <2>1, Zenon DEF HeapInv, ListInv, CoalescedBut
<1> QED
  BY <1>1, <1>2, <1>3, PTL DEF Spec

(* As long as no request wraps when it is rounded up, what callers hold    *)
(* lies inside allocated blocks, one block per caller.                     *)
THEOREM HeapHeldInBlocks ==
  ASSUME NoWrap
  PROVE  Spec => []HeldInBlocks
<1>1. Init => HeapInv /\ OwnerInv
  BY InitInv
<1>2. HeapInv /\ OwnerInv /\ [Next]_vars => HeapInv' /\ OwnerInv'
  BY StepHeapInv, StepOwnerInv
<1>3. OwnerInv => HeldInBlocks
  BY DEF OwnerInv
<1> QED
  BY <1>1, <1>2, <1>3, PTL DEF Spec

(* Once every pointer has been freed the list is the one free block that   *)
(* memory_init made.                                                       *)
THEOREM HeapNoLeak ==
  ASSUME NoWrap
  PROVE  Spec => []NoLeak
<1>1. Init => HeapInv /\ OwnerInv
  BY InitInv
<1>2. HeapInv /\ OwnerInv /\ [Next]_vars => HeapInv' /\ OwnerInv'
  BY StepHeapInv, StepOwnerInv
<1>3. HeapInv /\ OwnerInv => NoLeak
  <2> SUFFICES ASSUME HeapInv, OwnerInv, held = {}
               PROVE  heap = WholeHeap
    BY DEF NoLeak
  <2> DEFINE b == [addr |-> HeapBase, size |-> HEAP_MAX_SIZE - HeaderSize,
                   free |-> TRUE]
  <2>1. heap \in Seq(Block) /\ Tiles(heap) /\ Len(heap) \in Nat /\ Len(heap) >= 1
    BY DEF HeapInv, ListInv, Shape, Tiles
  <2>2. ASSUME NEW i \in 1 .. Len(heap)
        PROVE  heap[i].free
    BY DEF OwnerInv, AllHeld
  <2>3. Len(heap) = 1
    <3>1. ASSUME Len(heap) > 1
          PROVE  FALSE
      <4>1. 1 \in 1 .. Len(heap) - 1 /\ 1 \in 1 .. Len(heap) /\ 1 + 1 \in 1 .. Len(heap)
        BY <2>1, <3>1
      <4>2. 1 = 0
        BY <2>2, <4>1, Zenon DEF HeapInv, ListInv, CoalescedBut
      <4> QED
        BY <4>2
    <3> QED
      BY <2>1, <3>1
  <2>4. heap[1] \in Block /\ heap[1].free
    BY <2>1, <2>2, <2>3
  <2>5. heap[1].addr = HeapBase /\ End(heap[1]) = HeapBase + HEAP_MAX_SIZE
    BY <2>1, <2>3 DEF Tiles
  <2>6. heap[1].size = HEAP_MAX_SIZE - HeaderSize
    <3>1. heap[1].size \in Nat
      BY <2>4 DEF Block
    <3> QED
      BY <2>5, <3>1, HeapAssumption DEF End, HeaderSize
  <2>7. heap[1] = b
    BY <2>4, <2>5, <2>6 DEF Block
  <2>8. heap = <<heap[1]>>
    BY <2>1, <2>3
  <2> QED
    BY <2>7, <2>8 DEF WholeHeap
<1> QED
  BY <1>1, <1>2, <1>3, PTL DEF Spec

(* Where a block's payload starts and where the block ends. *)
LEMMA BlockEnds ==
  ASSUME NEW b \in Block
  PROVE  /\ b.addr \in Nat /\ b.size \in Nat
         /\ Ptr(b) \in Nat /\ End(b) \in Nat
         /\ b.addr < Ptr(b)
         /\ End(b) = Ptr(b) + b.size
BY DEF Block, Ptr, End, HeaderSize

(* The bounds of an extent that lies in block i of a list. *)
LEMMA BlockBounds ==
  ASSUME NEW h, Shape(h), NEW i \in 1 .. Len(h)
  PROVE  /\ HeapBase <= Ptr(h[i])
         /\ Ptr(h[i]) + h[i].size <= HeapBase + HEAP_MAX_SIZE
         /\ Ptr(h[i]) \in Nat /\ h[i].size \in Nat
<1> DEFINE L == Len(h)
<1>1. /\ \A k \in 1 .. L : h[k] \in Block
      /\ L \in Nat /\ L >= 1
      /\ h[1].addr = HeapBase
      /\ End(h[L]) = HeapBase + HEAP_MAX_SIZE
      /\ \A k, l \in 1 .. L : k < l => End(h[k]) <= h[l].addr
  BY DEF Shape, Tiles, Ordered
<1> HIDE DEF L
<1>2. i \in 1 .. L /\ 1 \in 1 .. L /\ L \in 1 .. L
  BY <1>1 DEF L
<1>3. h[i] \in Block /\ h[L] \in Block /\ h[1] \in Block
  BY <1>1, <1>2
<1>4. HeapBase <= h[i].addr
  <2>1. CASE i = 1
    BY <1>1, <1>3, <2>1, BlockEnds
  <2>2. CASE i # 1
    <3>1. End(h[1]) <= h[i].addr
      BY <1>1, <1>2, <2>2
    <3>2. h[1].addr < End(h[1]) /\ h[1].addr \in Nat /\ End(h[1]) \in Nat
      BY <1>3, BlockEnds
    <3>3. h[i].addr \in Nat /\ h[1].addr = HeapBase
      BY <1>1, <1>3, BlockEnds, Zenon
    <3> QED
      BY <3>1, <3>2, <3>3
  <2> QED
    BY <2>1, <2>2
<1>5. End(h[i]) <= End(h[L])
  <2>1. CASE i = L
    BY <1>3, <2>1, BlockEnds
  <2>2. CASE i # L
    <3>1. End(h[i]) <= h[L].addr
      BY <1>1, <1>2, <2>2
    <3> QED
      BY <1>3, <3>1, BlockEnds
  <2> QED
    BY <2>1, <2>2
<1>6. h[i].addr < Ptr(h[i]) /\ End(h[i]) = Ptr(h[i]) + h[i].size
      /\ h[i].addr \in Nat /\ h[i].size \in Nat /\ Ptr(h[i]) \in Nat
  BY <1>3, BlockEnds
<1>7. HeapBase \in Nat
  BY HeapAssumption
<1>8. HeapBase <= Ptr(h[i])
  BY <1>4, <1>6, <1>7
<1> QED
  BY <1>1, <1>5, <1>6, <1>8

(* Extents in two different blocks of a list share no byte. *)
LEMMA BlocksApart ==
  ASSUME NEW h, Shape(h), NEW i \in 1 .. Len(h), NEW j \in 1 .. Len(h), i # j,
         NEW m \in Nat, NEW n \in Nat, m <= h[i].size, n <= h[j].size
  PROVE  ~(Ptr(h[i]) < Ptr(h[j]) + n /\ Ptr(h[j]) < Ptr(h[i]) + m)
<1>1. h[i] \in Block /\ h[j] \in Block
  BY DEF Shape
<1>2. i < j \/ j < i
  BY DEF Shape
<1>3. End(h[i]) <= h[j].addr \/ End(h[j]) <= h[i].addr
  BY <1>2 DEF Shape, Ordered
<1>4. /\ h[i].addr \in Nat /\ h[i].size \in Nat /\ Ptr(h[i]) \in Nat
      /\ h[i].addr < Ptr(h[i]) /\ End(h[i]) = Ptr(h[i]) + h[i].size
  BY <1>1, BlockEnds
<1>5. /\ h[j].addr \in Nat /\ h[j].size \in Nat /\ Ptr(h[j]) \in Nat
      /\ h[j].addr < Ptr(h[j]) /\ End(h[j]) = Ptr(h[j]) + h[j].size
  BY <1>1, BlockEnds
<1>6. CASE End(h[i]) <= h[j].addr
  BY <1>4, <1>5, <1>6, SMTT(30)
<1>7. CASE End(h[j]) <= h[i].addr
  BY <1>4, <1>5, <1>7, SMTT(30)
<1> QED
  BY <1>3, <1>6, <1>7, Zenon

(* The free list implements the allocator: malloc grants an extent that    *)
(* lies in the heap and overlaps no extent still held, free releases       *)
(* exactly one extent, and the only other thing a call can do is panic.    *)
THEOREM HeapImplements ==
  ASSUME NoWrap
  PROVE  Spec => Implements
<1>1. Init => HeapInv /\ OwnerInv
  BY InitInv
<1>2. HeapInv /\ OwnerInv /\ [Next]_vars => HeapInv' /\ OwnerInv'
  BY StepHeapInv, StepOwnerInv
<1>3. Init => Abs!Init
  BY DEF Init, Abs!Init
<1>4. HeapInv /\ HeapInv' /\ OwnerInv /\ OwnerInv' /\ [Next]_vars
        => [Abs!Next]_(Abs!vars)
  <2> SUFFICES ASSUME HeapInv, HeapInv', OwnerInv, OwnerInv', [Next]_vars
               PROVE  Abs!Next \/ UNCHANGED Abs!vars
    OBVIOUS
  <2>1. TypeOK /\ Shape(heap) /\ Shape(heap') /\ CoalescedBut(heap, 0)
    BY DEF HeapInv, ListInv
  <2>2. ASSUME NEW size \in Sizes, malloc(size)
        PROVE  Abs!Next
    <3>0. panic = "none"
      BY <2>2 DEF malloc
    <3>1. CASE panic' = "out of memory" /\ UNCHANGED <<heap, heap_used, held>>
      BY <3>0, <3>1 DEF Abs!Next, Abs!Panic
    <3>2. ASSUME NEW i \in 1 .. Len(heap),
                 heap[i].free,
                 AlignUp(size) <= heap[i].size,
                 heap' = Place(heap, i, AlignUp(size)),
                 heap_used' = (heap_used + heap'[i].size + HeaderSize) % Word,
                 held' = held \cup {[ptr |-> Ptr(heap'[i]), len |-> size]},
                 UNCHANGED panic
          PROVE  Abs!Next
      <4> DEFINE p == Ptr(heap'[i])
                 new == [ptr |-> p, len |-> size]
      <4>1. AlignUp(size) \in Nat /\ size <= AlignUp(size) /\ size \in Nat
        BY SizesNat, AlignUpProps DEF NoWrap
      <4>2. /\ i \in 1 .. Len(heap')
            /\ heap'[i].addr = heap[i].addr
            /\ AlignUp(size) <= heap'[i].size
        BY <2>1, <3>2, <4>1, PlaceShape
      <4>3. p = Ptr(heap[i])
        BY <4>2 DEF Ptr
      <4>4. /\ HeapBase <= p
            /\ p + heap'[i].size <= HeapBase + HEAP_MAX_SIZE
            /\ p \in Nat /\ heap'[i].size \in Nat
        BY <2>1, <4>2, BlockBounds
      <4>5. size <= heap[i].size /\ heap[i].size \in Nat
        <5>1. heap[i].size \in Nat
          BY <2>1, BlockBounds
        <5> QED
          BY <3>2, <4>1, <5>1
      <4>6. ASSUME NEW f \in held
            PROVE  ~Abs!Overlap(new, f)
        <5>1. PICK j \in 1 .. Len(heap) :
                ~heap[j].free /\ f.ptr = Ptr(heap[j]) /\ f.len <= heap[j].size
          BY DEF OwnerInv, HeldInBlocks
        <5>2. j # i
          BY <3>2, <5>1
        <5>3. f.len \in Nat
          BY <2>1 DEF TypeOK
        <5>4. ~(Ptr(heap[i]) < Ptr(heap[j]) + f.len
                /\ Ptr(heap[j]) < Ptr(heap[i]) + size)
          BY <2>1, <4>1, <4>5, <5>1, <5>2, <5>3, BlocksApart
        <5>5. new.ptr = p /\ new.len = size
          OBVIOUS
        <5> HIDE DEF new, p
        <5> QED
          BY <4>3, <5>1, <5>4, <5>5, Zenon DEF Abs!Overlap
      <4>7. p + size <= HeapBase + HEAP_MAX_SIZE
            /\ p \in HeapBase .. HeapBase + HEAP_MAX_SIZE
        <5>1. HeapBase \in Nat /\ HEAP_MAX_SIZE \in Nat
          BY HeapAssumption
        <5> QED
          BY <4>1, <4>2, <4>4, <5>1
      <4>8. new.ptr = p /\ new.len = size
        OBVIOUS
      <4>9. Abs!Grant(new)
        <5> HIDE DEF new, p
        <5>1. held' = held \cup {new}
          BY <3>2 DEF new, p
        <5>2. (panic # "none")' = (panic # "none")
          BY <3>2
        <5> QED
          BY <3>0, <4>4, <4>6, <4>7, <4>8, <5>1, <5>2 DEF Abs!Grant
      <4> QED
        BY <4>7, <4>9 DEF Abs!Next
    <3> QED
      BY <2>1, <2>2, <3>1, <3>2, SizesNat, MallocStep
  <2>3. ASSUME NEW i \in 1 .. Len(heap), free(i)
        PROVE  Abs!Next
    <3>0. panic = "none"
      BY <2>3 DEF free
    <3>1. CASE heap[i].free
      <4>1. panic' = "double free" /\ held' = held
        BY <2>3, <3>1 DEF free
      <4> QED
        BY <3>0, <4>1 DEF Abs!Next, Abs!Panic
    <3>2. CASE ~heap[i].free
      <4>1. held' = {e \in held : e.ptr # Ptr(heap[i])} /\ panic' = panic
        BY <2>3, <3>2 DEF free
      <4>2. PICK e \in held : e.ptr = Ptr(heap[i])
        BY <3>2 DEF OwnerInv, AllHeld
      <4>3. held' = held \ {e}
        BY <4>1, <4>2 DEF OwnerInv, HeldInBlocks
      <4>4. Abs!Release(e)
        BY <3>0, <4>1, <4>3 DEF Abs!Release
      <4> QED
        BY <4>4 DEF Abs!Next
    <3> QED
      BY <3>1, <3>2
  <2>4. CASE UNCHANGED vars
    BY <2>4 DEF vars, Abs!vars
  <2> QED
    BY <2>2, <2>3, <2>4 DEF Next
<1> QED
  BY <1>1, <1>2, <1>3, <1>4, PTL DEF Spec, Implements, Abs!Spec

-----------------------------------------------------------------------------
(* The sum that heap_used stands for.  FoldLeft is handled as the last of  *)
(* its partial sums, which exist by the lemma on tables of folds.          *)

(* What a block weighs in heap_used. *)
Weight(b) == IF b.free THEN 0 ELSE b.size + HeaderSize

Used(h) ==
  FoldLeft(LAMBDA sum, b : sum + (IF b.free THEN 0 ELSE b.size + HeaderSize), 0, h)

(* r[k] is the weight of the first k blocks. *)
Sums(h, r) ==
  /\ r \in [0 .. Len(h) -> Nat]
  /\ r[0] = 0
  /\ \A k \in 1 .. Len(h) : r[k] = r[k - 1] + Weight(h[k])
  /\ Used(h) = r[Len(h)]

(* Weights are numbers. *)
LEMMA WeightNat ==
  ASSUME NEW b \in Block
  PROVE  Weight(b) \in Nat
BY DEF Block, Weight, HeaderSize

(* heap_used is the last of the partial sums over the list. *)
LEMMA SumsExist ==
  ASSUME NEW h \in Seq(Block)
  PROVE  \E r : Sums(h, r)
<1> DEFINE n == Len(h)
           step == [p \in (1 .. n) \X Nat |-> p[2] + Weight(h[p[1]])]
           F(f) == [i \in SUBSET DOMAIN h |->
                      IF i = {} THEN 0 ELSE f[i \ {Max(i)}] + Weight(h[Max(i)])]
           iter == CHOOSE f : f = F(f)
           r == [k \in 0 .. n |-> iter[1 .. k]]
           P == {k \in Nat : k <= n => r[k] \in Nat}
<1>1. n \in Nat /\ DOMAIN h = 1 .. n /\ \A k \in 1 .. n : Weight(h[k]) \in Nat
  BY WeightNat
<1> HIDE DEF n
<1>2. step \in [(1 .. n) \X Nat -> Nat]
  BY <1>1
<1>3. PICK g \in [SUBSET (1 .. n) -> Nat] : FoldTable(g, n, 0, step)
  BY <1>1, <1>2, FoldTableExists
<1>4. g = F(g)
  <2>1. ASSUME NEW i \in SUBSET (1 .. n), i # {}
        PROVE  g[i] = g[i \ {Max(i)}] + Weight(h[Max(i)])
    <3>1. Max(i) \in 1 .. n
      BY <1>1, <2>1, MaxProps
    <3>2. g[i \ {Max(i)}] \in Nat
      BY <1>3
    <3>3. g[i] = step[<<Max(i), g[i \ {Max(i)}]>>]
      BY <1>3, <2>1 DEF FoldTable
    <3> QED
      BY <3>1, <3>2, <3>3
  <2>2. g[{}] = 0
    BY <1>3 DEF FoldTable
  <2>3. \A i \in SUBSET (1 .. n) : g[i] = F(g)[i]
    BY <1>1, <2>1, <2>2
  <2> HIDE DEF step
  <2> QED
    BY <1>1, <1>3, <2>3
<1>5. iter = F(iter)
  <2> HIDE DEF F
  <2> QED
    BY <1>4
<1>6. Used(h) = iter[1 .. n]
  BY <1>1 DEF Used, Weight, FoldLeft, MapThenFoldSet
<1> HIDE DEF iter, step
<1>7. iter[{}] = 0 /\ \A k \in 1 .. n : iter[1 .. k] = iter[1 .. k - 1] + Weight(h[k])
  <2>1. ASSUME NEW k \in 1 .. n
        PROVE  iter[1 .. k] = iter[1 .. k - 1] + Weight(h[k])
    <3>1. k \in Nat /\ k > 0 /\ 1 .. k \in SUBSET (1 .. n)
      BY <1>1
    <3>2. 1 .. k # {} /\ Max(1 .. k) = k /\ (1 .. k) \ {k} = 1 .. k - 1
      BY <3>1, PrefixProps
    <3> QED
      BY <1>1, <1>5, <3>1, <3>2
  <2>2. iter[{}] = 0
    BY <1>1, <1>5
  <2> QED
    BY <2>1, <2>2
<1>8. r[0] = 0 /\ \A k \in 1 .. n : r[k] = r[k - 1] + Weight(h[k])
  <2>1. 1 .. 0 = {}
    OBVIOUS
  <2> QED
    BY <1>1, <1>7, <2>1
<1>9. r[n] = iter[1 .. n]
  BY <1>1
<1> HIDE DEF r
<1>10. 0 \in P
  BY <1>8
<1>11. \A k \in P \cap Nat : k + 1 \in P
  <2>1. SUFFICES ASSUME NEW k \in Nat, k + 1 <= n, r[k] \in Nat
                 PROVE  r[k + 1] \in Nat
    BY <1>1
  <2>2. k + 1 \in 1 .. n /\ k + 1 - 1 = k
    BY <2>1, <1>1
  <2>3. r[k + 1] = r[k] + Weight(h[k + 1])
    BY <1>8, <2>2
  <2> QED
    BY <2>1, <2>2, <2>3, <1>1
<1>12. Nat \subseteq P
  <2> HIDE DEF P
  <2> QED
    BY <1>10, <1>11, SetInduction
<1>13. r \in [0 .. n -> Nat]
  <2>1. \A k \in 0 .. n : r[k] \in Nat
    BY <1>1, <1>12
  <2> QED
    BY <2>1 DEF r
<1>14. Sums(h, r)
  BY <1>6, <1>8, <1>9, <1>13 DEF Sums, n
<1> QED
  BY <1>14

(* Replacing one block changes the sum by the difference of the weights.   *)
LEMMA UsedReplaced ==
  ASSUME NEW h \in Seq(Block), NEW g \in Seq(Block), Len(g) = Len(h),
         NEW i \in 1 .. Len(h),
         \A k \in 1 .. Len(h) : k # i => Weight(g[k]) = Weight(h[k])
  PROVE  Used(g) = Used(h) + Weight(g[i]) - Weight(h[i])
<1> DEFINE n == Len(h)
           d == Weight(g[i]) - Weight(h[i])
<1>1. PICK r : Sums(h, r)
  BY SumsExist
<1>2. PICK s : Sums(g, s)
  BY SumsExist
<1>3. /\ n \in Nat
      /\ \A k \in 1 .. n : Weight(h[k]) \in Nat /\ Weight(g[k]) \in Nat
  BY WeightNat
<1>4. /\ \A k \in 0 .. n : r[k] \in Nat /\ s[k] \in Nat
      /\ r[0] = 0 /\ s[0] = 0
      /\ \A k \in 1 .. n : r[k] = r[k - 1] + Weight(h[k]) /\ s[k] = s[k - 1] + Weight(g[k])
      /\ Used(h) = r[n] /\ Used(g) = s[n]
  BY <1>1, <1>2 DEF Sums
<1> DEFINE P == {k \in Nat : k <= n => s[k] = IF k < i THEN r[k] ELSE r[k] + d}
<1> HIDE DEF n
<1>5. i \in 1 .. n /\ d \in Int
  BY <1>3 DEF n
<1>6. 0 \in P
  BY <1>4, <1>5
<1>7. \A k \in P \cap Nat : k + 1 \in P
  <2>1. SUFFICES ASSUME NEW k \in Nat, k + 1 <= n, s[k] = IF k < i THEN r[k] ELSE r[k] + d
                 PROVE  s[k + 1] = IF k + 1 < i THEN r[k + 1] ELSE r[k + 1] + d
    BY <1>3
  <2>2. k + 1 \in 1 .. n /\ k \in 0 .. n /\ k + 1 - 1 = k
    BY <2>1, <1>3
  <2>3. /\ r[k + 1] = r[k] + Weight(h[k + 1]) /\ s[k + 1] = s[k] + Weight(g[k + 1])
        /\ r[k] \in Nat /\ Weight(h[k + 1]) \in Nat /\ Weight(g[k + 1]) \in Nat
    BY <2>2, <1>3, <1>4
  <2>4. CASE k + 1 = i
    BY <2>1, <2>3, <2>4, <1>5
  <2>5. CASE k + 1 # i
    <3>1. Weight(g[k + 1]) = Weight(h[k + 1])
      BY <2>2, <2>5 DEF n
    <3> HIDE DEF d
    <3> QED
      BY <2>1, <2>3, <2>5, <3>1, <1>5
  <2> QED
    BY <2>4, <2>5
<1>8. Nat \subseteq P
  <2> HIDE DEF P
  <2> QED
    BY <1>6, <1>7, SetInduction
<1>9. s[n] = r[n] + d
  BY <1>3, <1>5, <1>8
<1> QED
  BY <1>3, <1>4, <1>5, <1>9

(* Inserting a block that weighs nothing leaves the sum alone. *)
LEMMA UsedInserted ==
  ASSUME NEW h \in Seq(Block), NEW g \in Seq(Block), Len(g) = Len(h) + 1,
         NEW i \in 0 .. Len(h),
         \A k \in 1 .. i : Weight(g[k]) = Weight(h[k]),
         Weight(g[i + 1]) = 0,
         \A k \in i + 2 .. Len(g) : Weight(g[k]) = Weight(h[k - 1])
  PROVE  Used(g) = Used(h)
<1> DEFINE n == Len(h)
<1>1. PICK r : Sums(h, r)
  BY SumsExist
<1>2. PICK s : Sums(g, s)
  BY SumsExist
<1>3. /\ n \in Nat /\ Len(g) = n + 1
      /\ \A k \in 1 .. n : Weight(h[k]) \in Nat
  BY WeightNat
<1>4. /\ \A k \in 0 .. n : r[k] \in Nat
      /\ r[0] = 0 /\ s[0] = 0
      /\ \A k \in 1 .. n : r[k] = r[k - 1] + Weight(h[k])
      /\ \A k \in 1 .. n + 1 : s[k] = s[k - 1] + Weight(g[k])
      /\ Used(h) = r[n] /\ Used(g) = s[n + 1]
  BY <1>1, <1>2, <1>3 DEF Sums
<1> DEFINE P == {k \in Nat : k <= n + 1 => s[k] = IF k <= i THEN r[k] ELSE r[k - 1]}
<1> HIDE DEF n
<1>5. i \in 0 .. n
  BY DEF n
<1>6. 0 \in P
  BY <1>4, <1>5
<1>7. \A k \in P \cap Nat : k + 1 \in P
  <2>1. SUFFICES ASSUME NEW k \in Nat, k + 1 <= n + 1,
                        s[k] = IF k <= i THEN r[k] ELSE r[k - 1]
                 PROVE  s[k + 1] = IF k + 1 <= i THEN r[k + 1] ELSE r[k]
    <3>1. \A k \in Nat : k + 1 - 1 = k
      OBVIOUS
    <3> QED
      BY <3>1, <1>3
  <2>2. k + 1 \in 1 .. n + 1 /\ k \in 0 .. n /\ k + 1 - 1 = k
    BY <2>1, <1>3
  <2>3. s[k + 1] = s[k] + Weight(g[k + 1]) /\ r[k] \in Nat
    BY <2>2, <1>4
  <2>4. CASE k + 1 <= i
    <3>1. k + 1 \in 1 .. i /\ k + 1 \in 1 .. n
      BY <2>2, <2>4, <1>3, <1>5
    <3>2. Weight(g[k + 1]) = Weight(h[k + 1]) /\ r[k + 1] = r[k] + Weight(h[k + 1])
      BY <3>1, <2>2, <1>4
    <3> QED
      BY <2>1, <2>3, <2>4, <3>2, <1>5
  <2>5. CASE k = i
    <3>1. Weight(g[k + 1]) = 0
      BY <2>5
    <3> QED
      BY <2>1, <2>3, <2>5, <3>1, <1>5
  <2>6. CASE k > i
    <3>1. k + 1 \in i + 2 .. n + 1 /\ k \in 1 .. n
      BY <2>2, <2>6, <1>3, <1>5
    <3>2. Weight(g[k + 1]) = Weight(h[k])
      <4>1. Weight(g[k + 1]) = Weight(h[(k + 1) - 1])
        BY <3>1, <1>3
      <4> QED
        BY <4>1, <2>2
    <3>3. r[k] = r[k - 1] + Weight(h[k])
      BY <3>1, <1>4
    <3> QED
      BY <2>1, <2>3, <2>6, <3>2, <3>3, <1>5
  <2> QED
    BY <2>4, <2>5, <2>6, <1>5
<1>8. Nat \subseteq P
  <2> HIDE DEF P
  <2> QED
    BY <1>6, <1>7, SetInduction
<1>9. s[n + 1] = r[n]
  BY <1>3, <1>5, <1>8
<1> QED
  BY <1>4, <1>9

(* The allocated blocks fit into the heap, each of them into the sum. *)
LEMMA UsedBounds ==
  ASSUME NEW h, Shape(h)
  PROVE  /\ Used(h) \in Nat /\ Used(h) <= HEAP_MAX_SIZE
         /\ \A i \in 1 .. Len(h) : Weight(h[i]) <= Used(h)
<1> DEFINE n == Len(h)
<1>1. h \in Seq(Block) /\ n \in Nat /\ n >= 1
  BY DEF Shape, Tiles
<1>2. PICK r : Sums(h, r)
  BY <1>1, SumsExist
<1>3. \A k \in 1 .. n : Weight(h[k]) \in Nat /\ h[k] \in Block
  BY <1>1, WeightNat
<1>4. /\ \A k \in 0 .. n : r[k] \in Nat
      /\ r[0] = 0
      /\ \A k \in 1 .. n : r[k] = r[k - 1] + Weight(h[k])
      /\ Used(h) = r[n]
  BY <1>2 DEF Sums
<1>5. /\ h[1].addr = HeapBase
      /\ \A i \in 1 .. n - 1 : h[i + 1].addr = End(h[i])
      /\ End(h[n]) = HeapBase + HEAP_MAX_SIZE
  BY DEF Shape, Tiles
<1>6. HeapBase \in Nat /\ HEAP_MAX_SIZE \in Nat
  BY HeapAssumption
<1>7. \A k \in 1 .. n : End(h[k]) \in Nat /\ h[k].addr \in Nat
                          /\ h[k].addr + Weight(h[k]) <= End(h[k])
  BY <1>3 DEF Block, End, Weight, HeaderSize
<1> HIDE DEF n
<1> DEFINE P == {k \in Nat : k + 1 <= n => r[k + 1] + HeapBase <= End(h[k + 1])}
<1>8. 0 \in P
  <2>1. 1 \in 1 .. n /\ 0 + 1 = 1 /\ 1 - 1 = 0
    BY <1>1
  <2>2. r[1] = Weight(h[1])
    BY <2>1, <1>3, <1>4
  <2>3. r[1] + HeapBase <= End(h[1])
    BY <2>1, <2>2, <1>3, <1>5, <1>6, <1>7
  <2> QED
    BY <2>1, <2>3
<1>9. \A k \in P \cap Nat : k + 1 \in P
  <2>1. SUFFICES ASSUME NEW k \in Nat, k + 1 + 1 <= n, r[k + 1] + HeapBase <= End(h[k + 1])
                 PROVE  r[k + 1 + 1] + HeapBase <= End(h[k + 1 + 1])
    BY <1>1
  <2> DEFINE j == k + 1
  <2>2. j \in 1 .. n - 1 /\ j + 1 \in 1 .. n /\ j + 1 - 1 = j /\ j \in 0 .. n
    BY <2>1, <1>1
  <2> HIDE DEF j
  <2>3. r[j + 1] = r[j] + Weight(h[j + 1]) /\ h[j + 1].addr = End(h[j])
    BY <2>2, <1>4, <1>5
  <2>4. r[j] + HeapBase <= End(h[j])
    BY <2>1 DEF j
  <2>5. /\ r[j] \in Nat /\ End(h[j]) \in Nat /\ End(h[j + 1]) \in Nat
        /\ Weight(h[j + 1]) \in Nat /\ End(h[j]) + Weight(h[j + 1]) <= End(h[j + 1])
    BY <2>2, <2>3, <1>3, <1>4, <1>7
  <2>6. r[j + 1] + HeapBase <= End(h[j + 1])
    BY <2>3, <2>4, <2>5, <1>6
  <2> QED
    BY <2>6 DEF j
<1>10. Nat \subseteq P
  <2> HIDE DEF P
  <2> QED
    BY <1>8, <1>9, SetInduction
<1>11. r[n] + HeapBase <= End(h[n])
  <2>1. n - 1 \in Nat /\ n - 1 + 1 = n
    BY <1>1
  <2>2. n - 1 \in P
    BY <2>1, <1>10
  <2> QED
    BY <2>1, <2>2
<1>12. Used(h) \in Nat /\ Used(h) <= HEAP_MAX_SIZE
  BY <1>1, <1>4, <1>5, <1>6, <1>11
<1>13. ASSUME NEW i \in 1 .. n
       PROVE  Weight(h[i]) <= r[n]
  <2> DEFINE Q == {k \in Nat : i + k <= n => Weight(h[i]) <= r[i + k]}
  <2>1. 0 \in Q
    <3>1. i + 0 = i /\ i - 1 \in 0 .. n
      BY <1>1
    <3> QED
      BY <3>1, <1>3, <1>4
  <2>2. \A k \in Q \cap Nat : k + 1 \in Q
    <3>1. SUFFICES ASSUME NEW k \in Nat, i + (k + 1) <= n, Weight(h[i]) <= r[i + k]
                   PROVE  Weight(h[i]) <= r[i + (k + 1)]
      BY <1>1
    <3>2. i + (k + 1) \in 1 .. n /\ i + (k + 1) - 1 = i + k /\ i + k \in 0 .. n
      BY <3>1, <1>1
    <3>3. r[i + (k + 1)] = r[i + k] + Weight(h[i + (k + 1)])
      BY <3>2, <1>4
    <3> QED
      BY <3>1, <3>2, <3>3, <1>3, <1>4
  <2>3. Nat \subseteq Q
    <3> HIDE DEF Q
    <3> QED
      BY <2>1, <2>2, SetInduction
  <2>4. n - i \in Nat /\ i + (n - i) = n
    BY <1>1
  <2>5. n - i \in Q
    BY <2>3, <2>4
  <2> QED
    BY <1>1, <2>4, <2>5
<1> QED
  BY <1>4, <1>12, <1>13 DEF n

(* A split takes the block out of the free ones and inserts one that is    *)
(* free again: the list weighs more by the block that was taken.           *)
LEMMA PlaceUsed ==
  ASSUME NEW h \in Seq(Block), NEW i \in 1 .. Len(h), h[i].free, NEW n \in Nat,
         Shape(Place(h, i, n)), i \in 1 .. Len(Place(h, i, n))
  PROVE  Used(Place(h, i, n)) = Used(h) + Place(h, i, n)[i].size + HeaderSize
<1> DEFINE P == Place(h, i, n)
           b == P[i]
           g == [h EXCEPT ![i] = b]
<1>8. ASSUME h[i].size >= n + HeaderSize + MinSplit
      PROVE  /\ P \in Seq(Block)
             /\ Len(P) = Len(h) + 1
             /\ \A k \in 1 .. i - 1 : P[k] = h[k]
             /\ P[i] = Taken(h[i], n)
             /\ P[i + 1] = Rest(h[i], n)
             /\ \A k \in i + 2 .. Len(h) + 1 : P[k] = h[k - 1]
  BY <1>8, PlaceProps, ZenonT(90)
<1>9. ASSUME ~(h[i].size >= n + HeaderSize + MinSplit)
      PROVE  /\ P \in Seq(Block)
             /\ Len(P) = Len(h)
             /\ P[i] = Taken(h[i], h[i].size)
             /\ \A k \in 1 .. Len(h) : k # i => P[k] = h[k]
  BY <1>9, PlaceProps, ZenonT(90)
<1>1. P \in Seq(Block) /\ b \in Block
  BY DEF Shape
<1>2. ~b.free
  <2>1. b = Taken(h[i], n) \/ b = Taken(h[i], h[i].size)
    <3>1. CASE h[i].size >= n + HeaderSize + MinSplit
      BY <1>8, <3>1, Zenon
    <3>2. CASE ~(h[i].size >= n + HeaderSize + MinSplit)
      BY <1>9, <3>2, Zenon
    <3> QED
      BY <3>1, <3>2, Zenon
  <2> QED
    <3> HIDE DEF b
    <3> QED
      BY <2>1 DEF Taken
<1>3. Weight(b) = b.size + HeaderSize /\ Weight(h[i]) = 0 /\ b.size \in Nat
  BY <1>1, <1>2 DEF Weight, Block
<1> HIDE DEF b
<1>4. /\ g \in Seq(Block)
      /\ Len(g) = Len(h)
      /\ g[i] = b
      /\ \A k \in 1 .. Len(h) : k # i => g[k] = h[k]
  BY <1>1, ExceptSeq
<1> HIDE DEF g
<1>5. Used(g) = Used(h) + Weight(b) - 0
  BY <1>3, <1>4, UsedReplaced
<1>6. Used(P) = Used(g)
  <2>1. CASE h[i].size >= n + HeaderSize + MinSplit
    <3>1. /\ Len(P) = Len(g) + 1
          /\ \A k \in 1 .. i - 1 : P[k] = h[k]
          /\ P[i + 1] = Rest(h[i], n)
          /\ \A k \in i + 2 .. Len(P) : P[k] = h[k - 1]
      <4>1. /\ Len(P) = Len(h) + 1
            /\ \A k \in 1 .. i - 1 : P[k] = h[k]
            /\ P[i + 1] = Rest(h[i], n)
            /\ \A k \in i + 2 .. Len(h) + 1 : P[k] = h[k - 1]
        BY <1>8, <2>1, Zenon
      <4> HIDE DEF P
      <4> QED
        BY <4>1, <1>4
    <3> HIDE DEF P
    <3>2. \A k \in 1 .. i : P[k] = g[k]
      BY <1>4, <3>1 DEF b
    <3>3. Weight(P[i + 1]) = 0
      BY <3>1 DEF Weight, Rest
    <3>4. \A k \in i + 2 .. Len(P) : P[k] = g[k - 1]
      <4> SUFFICES ASSUME NEW k \in i + 2 .. Len(P)
                   PROVE  P[k] = g[k - 1]
        OBVIOUS
      <4>1. k - 1 \in 1 .. Len(h) /\ k - 1 # i
        BY <1>4, <3>1
      <4> QED
        BY <4>1, <1>4, <3>1
    <3>5. i \in 0 .. Len(g)
      BY <1>4
    <3> QED
      BY <1>1, <1>4, <3>1, <3>2, <3>3, <3>4, <3>5, UsedInserted
  <2>2. CASE ~(h[i].size >= n + HeaderSize + MinSplit)
    <3>1. Len(P) = Len(h) /\ \A k \in 1 .. Len(h) : k # i => P[k] = h[k]
      BY <1>9, <2>2, Zenon
    <3> HIDE DEF P
    <3>2. \A k \in 1 .. Len(g) : P[k] = g[k]
      BY <1>4, <3>1 DEF b
    <3>3. P = g
      BY <1>1, <1>4, <3>1, <3>2
    <3> QED
      BY <3>3
  <2> QED
    BY <2>1, <2>2
<1>7. Used(h) \in Int
  <2>1. PICK r : Sums(h, r)
    BY SumsExist
  <2> QED
    BY <2>1 DEF Sums
<1> QED
  BY <1>3, <1>5, <1>6, <1>7 DEF b, HeaderSize

(* Two free blocks weigh nothing, and neither does the one they become. *)
LEMMA MergeUsed ==
  ASSUME NEW h \in Seq(Block), NEW i \in 1 .. Len(h) - 1, h[i].free, h[i + 1].free
  PROVE  Used(Merge(h, i)) = Used(h)
<1> DEFINE M == Merge(h, i)
<1>1. /\ M \in Seq(Block)
      /\ Len(M) = Len(h) - 1
      /\ \A k \in 1 .. i - 1 : M[k] = h[k]
      /\ M[i] = Joined(h[i], h[i + 1])
      /\ \A k \in i + 1 .. Len(h) - 1 : M[k] = h[k + 1]
  BY MergeProps
<1> HIDE DEF M
<1>2. Weight(M[i]) = 0 /\ Weight(h[i]) = 0 /\ Weight(h[i + 1]) = 0
  BY <1>1 DEF Weight, Joined
<1>3. ASSUME NEW k \in 1 .. i
      PROVE  Weight(h[k]) = Weight(M[k])
  <2>1. CASE k = i
    BY <1>2, <2>1, Zenon
  <2>2. CASE k # i
    <3>1. M[k] = h[k]
      BY <1>1, <2>2
    <3> QED
      BY <3>1, Zenon
  <2> QED
    BY <2>1, <2>2
<1>4. \A k \in i + 2 .. Len(h) : Weight(h[k]) = Weight(M[k - 1])
  <2> SUFFICES ASSUME NEW k \in i + 2 .. Len(h)
               PROVE  h[k] = M[k - 1]
    OBVIOUS
  <2>1. k - 1 \in i + 1 .. Len(h) - 1 /\ (k - 1) + 1 = k
    OBVIOUS
  <2> QED
    BY <2>1, <1>1
<1>5. i \in 0 .. Len(M) /\ Len(h) = Len(M) + 1
  BY <1>1
<1> QED
  BY <1>1, <1>2, <1>3, <1>4, <1>5, UsedInserted DEF M

(* free takes the weight of its block off the list's. *)
LEMMA FreeUsed ==
  ASSUME NEW h, Shape(h), CoalescedBut(h, 0), NEW i \in 1 .. Len(h),
         NEW F, F = MergePrev(MergeNext([h EXCEPT ![i] = Freed(h[i])], i), i)
  PROVE  Used(F) = Used(h) - Weight(h[i])
<1> DEFINE g == [h EXCEPT ![i] = Freed(h[i])]
           f == MergeNext(g, i)
<1>0. F = MergePrev(f, i) /\ h \in Seq(Block)
  BY DEF Shape
<1>1. /\ Shape(g)
      /\ Len(g) = Len(h)
      /\ g[i].free
      /\ \A k \in 1 .. Len(h) : k # i => g[k] = h[k]
      /\ \A k \in 1 .. Len(g) - 1 :
           g[k].free /\ g[k + 1].free => k = i \/ k = i - 1
  BY FreedShape
<1> HIDE DEF g
<1>2. g \in Seq(Block) /\ i \in 1 .. Len(g)
  BY <1>1 DEF Shape
<1>3. Used(g) = Used(h) - Weight(h[i])
  <2>1. Weight(g[i]) = 0
    BY <1>1 DEF Weight
  <2>2. Used(g) = Used(h) + Weight(g[i]) - Weight(h[i])
    BY <1>0, <1>1, <1>2, UsedReplaced
  <2>3. Used(h) \in Nat
    BY UsedBounds
  <2>4. Weight(h[i]) \in Nat
    BY <1>0, WeightNat
  <2> QED
    BY <2>1, <2>2, <2>3, <2>4
<1>4. /\ Shape(f)
      /\ i \in 1 .. Len(f)
      /\ f[i].free
  BY <1>1, <1>2, MergeNextShape
<1>5. Used(f) = Used(g)
  <2>1. CASE i < Len(g) /\ g[i + 1].free
    BY <1>1, <1>2, <2>1, MergeUsed DEF MergeNext
  <2>2. CASE ~(i < Len(g) /\ g[i + 1].free)
    BY <2>2, Zenon DEF MergeNext
  <2> QED
    BY <2>1, <2>2
<1> HIDE DEF f
<1>6. Used(F) = Used(f)
  <2>1. CASE i > 1 /\ f[i - 1].free
    <3> DEFINE j == i - 1
    <3>1. j \in 1 .. Len(f) - 1 /\ j + 1 = i /\ f \in Seq(Block)
      BY <1>4, <2>1 DEF Shape
    <3>2. F = Merge(f, j) /\ f[j].free
      BY <1>0, <2>1 DEF MergePrev
    <3> HIDE DEF j
    <3> QED
      BY <1>4, <3>1, <3>2, MergeUsed
  <2>2. CASE ~(i > 1 /\ f[i - 1].free)
    BY <1>0, <2>2, Zenon DEF MergePrev
  <2> QED
    BY <2>1, <2>2
<1> QED
  BY <1>3, <1>5, <1>6

(* malloc adds to heap_used what the list weighs more ... *)
LEMMA MallocAccounts ==
  ASSUME HeapInv, heap_used = Used(heap), NEW size \in Nat, malloc(size)
  PROVE  heap_used' = Used(heap')
<1>1. TypeOK /\ Shape(heap) /\ CoalescedBut(heap, 0) /\ Shape(heap')
      /\ heap \in Seq(Block)
  BY MallocKeeps DEF HeapInv, ListInv, Shape
<1>2. HEAP_MAX_SIZE \in Nat /\ Word \in Nat /\ HEAP_MAX_SIZE < Word
  BY HeapAssumption DEF HeaderSize, MinSplit
<1>3. Used(heap') \in Nat /\ Used(heap') <= HEAP_MAX_SIZE
  BY <1>1, UsedBounds
<1>4. ASSUME NEW i \in 1 .. Len(heap),
             heap[i].free,
             AlignUp(size) <= heap[i].size,
             heap' = Place(heap, i, AlignUp(size)),
             heap_used' = (heap_used + heap'[i].size + HeaderSize) % Word
      PROVE  heap_used' = Used(heap')
  <2>1. AlignUp(size) \in Nat
    BY AlignUpProps
  <2>2. i \in 1 .. Len(heap')
    BY <1>1, <1>4, <2>1, PlaceShape
  <2>3. Used(heap') = Used(heap) + heap'[i].size + HeaderSize
    BY <1>1, <1>4, <2>1, <2>2, PlaceUsed
  <2>4. heap_used' = Used(heap') % Word
    BY <1>4, <2>3
  <2> QED
    BY <1>2, <1>3, <2>4
<1>5. CASE UNCHANGED <<heap, heap_used>>
  BY <1>5
<1> QED
  BY <1>1, <1>4, <1>5, MallocStep

(* ... and free takes off what it weighs less, without wrapping: what is   *)
(* released is part of the sum.                                            *)
LEMMA FreeAccounts ==
  ASSUME HeapInv, heap_used = Used(heap), NEW i \in 1 .. Len(heap), free(i)
  PROVE  heap_used' = Used(heap')
<1>1. CASE heap[i].free
  BY <1>1 DEF free
<1>2. CASE ~heap[i].free
  <2>1. /\ heap' = MergePrev(MergeNext([heap EXCEPT ![i] = Freed(heap[i])], i), i)
        /\ heap_used' = (heap_used - Released(heap[i])) % Word
    BY <1>2 DEF free
  <2>2. Released(heap[i]) = Weight(heap[i])
    BY <1>2 DEF Released, Weight
  <2>3. Used(heap') = Used(heap) - Weight(heap[i])
    BY <2>1, FreeUsed DEF HeapInv, ListInv
  <2>4. heap_used' = Used(heap') % Word
    BY <2>1, <2>2, <2>3
  <2>5. Used(heap') \in Nat /\ Used(heap') <= HEAP_MAX_SIZE
    BY FreeKeeps, UsedBounds DEF HeapInv, ListInv
  <2>6. HEAP_MAX_SIZE \in Nat /\ Word \in Nat /\ HEAP_MAX_SIZE < Word
    BY HeapAssumption DEF HeaderSize, MinSplit
  <2> QED
    BY <2>4, <2>5, <2>6
<1> QED
  BY <1>1, <1>2

(* A list of one free block weighs nothing. *)
LEMMA InitAccounts == Init => heap_used = Used(heap)
<1> SUFFICES ASSUME Init
             PROVE  heap_used = Used(heap)
  OBVIOUS
<1>1. Shape(heap) /\ Len(heap) = 1 /\ heap[1].free /\ heap_used = 0
  BY InitInv DEF Init, memory_init, WholeHeap, HeapInv, ListInv
<1>2. heap \in Seq(Block)
  BY <1>1 DEF Shape
<1>3. PICK r : Sums(heap, r)
  BY <1>2, SumsExist
<1>4. r[1] = r[1 - 1] + Weight(heap[1]) /\ Used(heap) = r[1] /\ r[0] = 0
  BY <1>1, <1>3 DEF Sums
<1>5. Weight(heap[1]) = 0
  BY <1>1 DEF Weight
<1> QED
  BY <1>1, <1>4, <1>5

(* heap_used is the sum of the allocated blocks with their headers after   *)
(* every call, whatever the sizes and the order of the calls.              *)
THEOREM HeapAccounting == Spec => []Accounting
<1> DEFINE SumInv == heap_used = Used(heap)
<1>1. Init => HeapInv /\ SumInv
  BY InitInv, InitAccounts
<1>2. HeapInv /\ SumInv /\ [Next]_vars => HeapInv' /\ SumInv'
  <2> SUFFICES ASSUME HeapInv, heap_used = Used(heap), [Next]_vars
               PROVE  heap_used' = Used(heap')
    BY StepHeapInv
  <2>1. CASE UNCHANGED vars
    BY <2>1 DEF vars
  <2> QED
    BY <2>1, SizesNat, MallocAccounts, FreeAccounts DEF Next
<1>3. SumInv => Accounting
  BY DEF Accounting, Used
<1> HIDE DEF SumInv
<1> QED
  BY <1>1, <1>2, <1>3, PTL DEF Spec

-----------------------------------------------------------------------------
(* A coalesced list is determined by its allocated blocks.                 *)

(* The allocated blocks of a list. *)
Alloc(h) == {h[k] : k \in {m \in 1 .. Len(h) : ~h[m].free}}

(* The facts about a list that the next lemmas use. *)
LEMMA ShapeFacts ==
  ASSUME NEW h, Shape(h)
  PROVE  /\ h \in Seq(Block) /\ Len(h) \in Nat /\ Len(h) >= 1
         /\ \A k \in 1 .. Len(h) : /\ h[k] \in Block
                                   /\ h[k].addr \in Nat /\ h[k].size \in Nat
                                   /\ End(h[k]) \in Nat /\ h[k].addr < End(h[k])
                                   /\ End(h[k]) <= HeapBase + HEAP_MAX_SIZE
         /\ h[1].addr = HeapBase
         /\ \A k \in 1 .. Len(h) - 1 : h[k + 1].addr = End(h[k])
         /\ End(h[Len(h)]) = HeapBase + HEAP_MAX_SIZE
         /\ \A k, l \in 1 .. Len(h) : k < l => End(h[k]) <= h[l].addr
<1>1. h \in Seq(Block) /\ Len(h) \in Nat /\ Len(h) >= 1
  BY DEF Shape, Tiles
<1>2. \A k \in 1 .. Len(h) : h[k] \in Block
  BY <1>1
<1>3. ASSUME NEW k \in 1 .. Len(h)
      PROVE  /\ h[k].addr \in Nat /\ h[k].size \in Nat
             /\ End(h[k]) \in Nat /\ h[k].addr < End(h[k])
             /\ End(h[k]) <= HeapBase + HEAP_MAX_SIZE
  <2>1. /\ h[k].addr \in Nat /\ h[k].size \in Nat /\ Ptr(h[k]) \in Nat
        /\ End(h[k]) \in Nat /\ h[k].addr < Ptr(h[k])
        /\ End(h[k]) = Ptr(h[k]) + h[k].size
    BY <1>2, BlockEnds
  <2>2. Ptr(h[k]) + h[k].size <= HeapBase + HEAP_MAX_SIZE
    BY BlockBounds
  <2> QED
    BY <2>1, <2>2
<1> QED
  BY <1>1, <1>2, <1>3 DEF Shape, Tiles, Ordered

(* Two blocks that start at the same place, the first not shorter, when    *)
(* the lists have the same allocated blocks: behind a free block is an     *)
(* allocated one, which the other list has in the same place.              *)
LEMMA NotShorter ==
  ASSUME NEW h, Shape(h), CoalescedBut(h, 0), NEW g, Shape(g),
         Alloc(h) \subseteq Alloc(g),
         NEW i \in 1 .. Len(h), NEW j \in 1 .. Len(g),
         h[i].free, h[i].addr = g[j].addr
  PROVE  ~(End(h[i]) < End(g[j]))
<1> SUFFICES ASSUME End(h[i]) < End(g[j])
             PROVE  FALSE
  OBVIOUS
<1>1. /\ h \in Seq(Block) /\ Len(h) \in Nat
      /\ \A k \in 1 .. Len(h) : End(h[k]) \in Nat /\ h[k].addr \in Nat /\ h[k].addr < End(h[k])
      /\ \A k \in 1 .. Len(h) - 1 : h[k + 1].addr = End(h[k])
      /\ End(h[Len(h)]) = HeapBase + HEAP_MAX_SIZE
  BY ShapeFacts
<1>2. /\ Len(g) \in Nat
      /\ \A k \in 1 .. Len(g) : /\ End(g[k]) \in Nat /\ g[k].addr \in Nat
                                /\ g[k].addr < End(g[k])
                                /\ End(g[k]) <= HeapBase + HEAP_MAX_SIZE
      /\ \A k, l \in 1 .. Len(g) : k < l => End(g[k]) <= g[l].addr
  BY ShapeFacts
<1>3. i # Len(h)
  <2> SUFFICES ASSUME i = Len(h)
               PROVE  FALSE
    OBVIOUS
  <2>1. End(h[i]) = HeapBase + HEAP_MAX_SIZE /\ End(g[j]) <= End(h[i])
    BY <1>1, <1>2
  <2>2. End(h[i]) \in Nat /\ End(g[j]) \in Nat
    BY <1>1, <1>2
  <2> QED
    BY <2>1, <2>2
<1>4. i \in 1 .. Len(h) - 1 /\ i + 1 \in 1 .. Len(h) /\ i # 0
  BY <1>1, <1>3
<1>5. ~h[i + 1].free
  BY <1>4, Zenon DEF CoalescedBut
<1>6. h[i + 1] \in Alloc(g)
  BY <1>4, <1>5, Zenon DEF Alloc
<1>7. PICK m \in 1 .. Len(g) : g[m] = h[i + 1]
  BY <1>6 DEF Alloc
<1>8. g[m].addr = End(h[i]) /\ End(h[i]) \in Nat /\ h[i].addr < End(h[i]) /\ h[i].addr \in Nat
  BY <1>1, <1>4, <1>7
<1>9. g[j].addr < g[m].addr /\ g[m].addr < End(g[j])
  BY <1>8
<1>10. CASE m = j
  BY <1>2, <1>9, <1>10
<1>11. CASE j < m
  <2>1. End(g[j]) <= g[m].addr /\ End(g[j]) \in Nat /\ g[m].addr \in Nat
    BY <1>2, <1>11
  <2> QED
    BY <1>9, <2>1
<1>12. CASE m < j
  <2>1. End(g[m]) <= g[j].addr /\ End(g[m]) \in Nat /\ g[m].addr \in Nat /\ g[j].addr \in Nat
        /\ g[m].addr < End(g[m])
    BY <1>2, <1>12
  <2> QED
    BY <1>9, <2>1
<1> QED
  BY <1>2, <1>10, <1>11, <1>12

(* No two blocks of a list start at the same place. *)
LEMMA SameAddrSameIndex ==
  ASSUME NEW g, Shape(g), NEW m \in 1 .. Len(g), NEW j \in 1 .. Len(g),
         g[m].addr = g[j].addr
  PROVE  m = j
<1>1. Ptr(g[m]) = Ptr(g[j])
  BY DEF Ptr
<1> QED
  BY <1>1, DistinctPtrs

(* The same address, the same block. *)
LEMMA SameAddrSameBlock ==
  ASSUME NEW h, Shape(h), CoalescedBut(h, 0), NEW g, Shape(g), CoalescedBut(g, 0),
         Alloc(h) = Alloc(g),
         NEW i \in 1 .. Len(h), NEW j \in 1 .. Len(g),
         h[i].addr = g[j].addr
  PROVE  h[i] = g[j]
<1>1. CASE ~h[i].free
  <2>1. h[i] \in Alloc(g)
    BY <1>1 DEF Alloc
  <2>2. PICK m \in 1 .. Len(g) : g[m] = h[i]
    BY <2>1 DEF Alloc
  <2>3. m = j
    BY <2>2, SameAddrSameIndex
  <2> QED
    BY <2>2, <2>3
<1>2. CASE ~g[j].free
  <2>1. g[j] \in Alloc(h)
    BY <1>2 DEF Alloc
  <2>2. PICK m \in 1 .. Len(h) : h[m] = g[j]
    BY <2>1 DEF Alloc
  <2>3. m = i
    BY <2>2, SameAddrSameIndex
  <2> QED
    BY <2>2, <2>3
<1>3. CASE h[i].free /\ g[j].free
  <2>1. /\ h[i] \in Block /\ g[j] \in Block
        /\ End(h[i]) \in Nat /\ End(g[j]) \in Nat
    BY ShapeFacts
  <2>2. ~(End(h[i]) < End(g[j])) /\ ~(End(g[j]) < End(h[i]))
    BY <1>3, NotShorter
  <2>3. End(h[i]) = End(g[j])
    BY <2>1, <2>2
  <2>4. h[i].size = g[j].size
    BY <2>1, <2>3 DEF End, Block, HeaderSize
  <2>5. h[i].free = TRUE /\ g[j].free = TRUE
    BY <1>3, <2>1 DEF Block
  <2> QED
    BY <2>1, <2>4, <2>5 DEF Block
<1> QED
  BY <1>1, <1>2, <1>3

(* From the front, block by block, the lists agree. *)
LEMMA Prefix ==
  ASSUME NEW h, Shape(h), CoalescedBut(h, 0), NEW g, Shape(g), CoalescedBut(g, 0),
         Alloc(h) = Alloc(g)
  PROVE  \A k \in 1 .. Len(h) : k <= Len(g) /\ h[k] = g[k]
<1>1. /\ Len(h) \in Nat /\ Len(h) >= 1
      /\ \A k \in 1 .. Len(h) : /\ End(h[k]) \in Nat /\ h[k].addr \in Nat
                                /\ h[k].addr < End(h[k])
                                /\ End(h[k]) <= HeapBase + HEAP_MAX_SIZE
      /\ h[1].addr = HeapBase
      /\ \A k \in 1 .. Len(h) - 1 : h[k + 1].addr = End(h[k])
  BY ShapeFacts
<1>2. /\ Len(g) \in Nat /\ Len(g) >= 1
      /\ g[1].addr = HeapBase
      /\ \A k \in 1 .. Len(g) - 1 : g[k + 1].addr = End(g[k])
      /\ End(g[Len(g)]) = HeapBase + HEAP_MAX_SIZE
  BY ShapeFacts
<1> DEFINE P == {k \in Nat : k + 1 <= Len(h) => k + 1 <= Len(g) /\ h[k + 1] = g[k + 1]}
<1>3. 0 \in P
  <2>1. h[1] = g[1]
    BY <1>1, <1>2, SameAddrSameBlock
  <2> QED
    BY <1>2, <2>1
<1>4. \A k \in P \cap Nat : k + 1 \in P
  <2>1. SUFFICES ASSUME NEW k \in Nat, k + 1 + 1 <= Len(h),
                        k + 1 <= Len(g), h[k + 1] = g[k + 1]
                 PROVE  k + 1 + 1 <= Len(g) /\ h[k + 1 + 1] = g[k + 1 + 1]
    BY <1>1
  <2> DEFINE j == k + 1
  <2>2. j \in 1 .. Len(h) - 1 /\ j + 1 \in 1 .. Len(h) /\ j \in 1 .. Len(g) /\ j \in 1 .. Len(h)
    BY <2>1, <1>1, <1>2
  <2>3. h[j] = g[j]
    BY <2>1
  <2> HIDE DEF j
  <2>4. /\ h[j + 1].addr = End(h[j]) /\ End(h[j]) \in Nat /\ h[j + 1].addr < End(h[j + 1])
        /\ End(h[j + 1]) <= HeapBase + HEAP_MAX_SIZE
        /\ End(h[j + 1]) \in Nat
    BY <1>1, <2>2
  <2>5. j # Len(g)
    <3> SUFFICES ASSUME j = Len(g)
                 PROVE  FALSE
      OBVIOUS
    <3>1. End(h[j]) = HeapBase + HEAP_MAX_SIZE
      BY <1>2, <2>3
    <3> QED
      BY <2>4, <3>1
  <2>6. j \in 1 .. Len(g) - 1 /\ j + 1 \in 1 .. Len(g)
    BY <1>2, <2>2, <2>5
  <2>7. g[j + 1].addr = End(g[j])
    BY <1>2, <2>6
  <2>8. h[j + 1].addr = g[j + 1].addr
    BY <2>3, <2>4, <2>7
  <2>9. h[j + 1] = g[j + 1]
    BY <2>2, <2>6, <2>8, SameAddrSameBlock
  <2> QED
    BY <1>2, <2>6, <2>9 DEF j
<1>5. Nat \subseteq P
  <2> HIDE DEF P
  <2> QED
    BY <1>3, <1>4, SetInduction
<1> SUFFICES ASSUME NEW k \in 1 .. Len(h)
             PROVE  k <= Len(g) /\ h[k] = g[k]
  OBVIOUS
<1>6. k - 1 \in Nat /\ k - 1 + 1 = k /\ k <= Len(h)
  BY <1>1
<1>7. k - 1 \in P
  BY <1>5, <1>6
<1> QED
  BY <1>6, <1>7

(* Two coalesced lists with the same allocated blocks are the same list. *)
LEMMA Canonical ==
  ASSUME NEW h, Shape(h), CoalescedBut(h, 0), NEW g, Shape(g), CoalescedBut(g, 0),
         Alloc(h) = Alloc(g)
  PROVE  h = g
<1>1. /\ h \in Seq(Block) /\ g \in Seq(Block)
      /\ Len(h) \in Nat /\ Len(h) >= 1 /\ Len(g) \in Nat /\ Len(g) >= 1
  BY ShapeFacts
<1>2. \A k \in 1 .. Len(h) : k <= Len(g) /\ h[k] = g[k]
  BY Prefix
<1>3. \A k \in 1 .. Len(g) : k <= Len(h) /\ g[k] = h[k]
  BY Prefix
<1>4. Len(h) = Len(g)
  BY <1>1, <1>2, <1>3
<1> QED
  BY <1>1, <1>2, <1>4

(* Every pointer somebody holds is that of an allocated block. *)
PtrsLive == \A e \in held : \E b \in Alloc(heap) : e.ptr = Ptr(b)

(* A malloc that does not panic adds one allocated block, whose pointer    *)
(* names no other, and is what the caller gets.                            *)
LEMMA MallocTakes ==
  ASSUME HeapInv, PtrsLive, NEW size \in Nat, malloc(size), panic' = "none"
  PROVE  \E b : /\ Alloc(heap') = Alloc(heap) \cup {b}
                /\ \A c \in Alloc(heap) : Ptr(c) # Ptr(b)
                /\ held' \ held = {[ptr |-> Ptr(b), len |-> size]}
                /\ Ptr(b) \in Nat
                /\ PtrsLive'
<1>1. TypeOK /\ Shape(heap) /\ CoalescedBut(heap, 0) /\ AlignUp(size) \in Nat
  BY AlignUpProps DEF HeapInv, ListInv
<1>2. PICK i \in 1 .. Len(heap) :
        /\ heap[i].free
        /\ AlignUp(size) <= heap[i].size
        /\ heap' = Place(heap, i, AlignUp(size))
        /\ held' = held \cup {[ptr |-> Ptr(heap'[i]), len |-> size]}
  BY <1>1, MallocStep
<1>3. /\ i \in 1 .. Len(heap')
      /\ heap'[i].addr = heap[i].addr
      /\ ~heap'[i].free
      /\ Survives(heap, heap')
      /\ \A m \in 1 .. Len(heap') : ~heap'[m].free /\ m # i
           => \E k \in 1 .. Len(heap) : heap[k] = heap'[m]
  BY <1>1, <1>2, PlaceShape
<1> DEFINE b == heap'[i]
<1>4. b \in Alloc(heap')
  BY <1>3 DEF Alloc
<1>5. Alloc(heap) \subseteq Alloc(heap')
  <2> SUFFICES ASSUME NEW k \in 1 .. Len(heap), ~heap[k].free
               PROVE  heap[k] \in Alloc(heap')
    BY DEF Alloc
  <2>1. PICK m \in 1 .. Len(heap') : heap'[m] = heap[k]
    BY <1>3 DEF Survives
  <2> QED
    BY <2>1 DEF Alloc
<1>6. Alloc(heap') \subseteq Alloc(heap) \cup {b}
  <2> SUFFICES ASSUME NEW m \in 1 .. Len(heap'), ~heap'[m].free, m # i
               PROVE  heap'[m] \in Alloc(heap)
    BY DEF Alloc
  <2>1. PICK k \in 1 .. Len(heap) : heap[k] = heap'[m]
    BY <1>3
  <2> QED
    BY <2>1 DEF Alloc
<1>7. Ptr(b) = Ptr(heap[i])
  BY <1>3 DEF Ptr
<1>8. ASSUME NEW c \in Alloc(heap)
      PROVE  Ptr(c) # Ptr(b)
  <2>1. PICK k \in 1 .. Len(heap) : ~heap[k].free /\ heap[k] = c
    BY DEF Alloc
  <2>2. k # i
    BY <1>2, <2>1
  <2> QED
    BY <1>1, <1>7, <2>1, <2>2, DistinctPtrs
<1>9. Ptr(b) \in Nat
  <2>1. heap[i] \in Block
    BY <1>1 DEF Shape
  <2> QED
    BY <1>7, <2>1, BlockEnds
<1> DEFINE e == [ptr |-> Ptr(b), len |-> size]
<1>10. e \notin held
  <2> SUFFICES ASSUME e \in held
               PROVE  FALSE
    OBVIOUS
  <2>1. e.ptr = Ptr(b)
    OBVIOUS
  <2> HIDE DEF b, e
  <2> QED
    BY <1>8, <2>1 DEF PtrsLive
<1>11. held' = held \cup {e}
  BY <1>2
<1>12. PtrsLive'
  <2> SUFFICES ASSUME NEW f \in held'
               PROVE  \E c \in Alloc(heap') : f.ptr = Ptr(c)
    BY DEF PtrsLive
  <2>1. CASE f = e
    <3>1. f.ptr = Ptr(b)
      BY <2>1
    <3> QED
      BY <1>4, <3>1
  <2>2. CASE f \in held
    BY <1>5, <2>2 DEF PtrsLive
  <2> QED
    BY <1>11, <2>1, <2>2
<1>13. held' \ held = {e}
  BY <1>10, <1>11
<1>14. Alloc(heap') = Alloc(heap) \cup {b}
  BY <1>4, <1>5, <1>6
<1> QED
  BY <1>8, <1>9, <1>12, <1>13, <1>14

(* A free that does not panic takes one away, and only that one. *)
LEMMA FreeGives ==
  ASSUME HeapInv, PtrsLive, NEW i \in 1 .. Len(heap), free(i), panic' = "none"
  PROVE  /\ heap[i] \in Alloc(heap)
         /\ Alloc(heap') = Alloc(heap) \ {heap[i]}
         /\ \A c \in Alloc(heap) : Ptr(c) = Ptr(heap[i]) => c = heap[i]
         /\ PtrsLive'
<1>1. TypeOK /\ Shape(heap) /\ CoalescedBut(heap, 0)
  BY DEF HeapInv, ListInv
<1>2. /\ ~heap[i].free
      /\ heap' = MergePrev(MergeNext([heap EXCEPT ![i] = Freed(heap[i])], i), i)
      /\ held' = {e \in held : e.ptr # Ptr(heap[i])}
  BY DEF free
<1>3. heap[i] \in Alloc(heap)
  BY <1>2 DEF Alloc
<1>4. ASSUME NEW c \in Alloc(heap), Ptr(c) = Ptr(heap[i])
      PROVE  c = heap[i]
  <2>1. PICK k \in 1 .. Len(heap) : heap[k] = c
    BY DEF Alloc
  <2> QED
    BY <1>1, <1>4, <2>1, DistinctPtrs
<1>5. \A k \in 1 .. Len(heap) : ~heap[k].free /\ k # i
        => \E m \in 1 .. Len(heap') : heap'[m] = heap[k]
  BY <1>1, <1>2, FreeShape
<1>6. \A m \in 1 .. Len(heap') : ~heap'[m].free
        => \E k \in 1 .. Len(heap) : k # i /\ heap[k] = heap'[m]
  BY <1>1, <1>2, FreeShape
<1>7. ASSUME NEW c \in Alloc(heap), c # heap[i]
      PROVE  c \in Alloc(heap')
  <2>1. PICK k \in 1 .. Len(heap) : ~heap[k].free /\ heap[k] = c
    BY DEF Alloc
  <2>2. PICK m \in 1 .. Len(heap') : heap'[m] = heap[k]
    BY <1>5, <1>7, <2>1
  <2> QED
    BY <2>1, <2>2 DEF Alloc
<1>8. ASSUME NEW c \in Alloc(heap')
      PROVE  c \in Alloc(heap) \ {heap[i]}
  <2>1. PICK m \in 1 .. Len(heap') : ~heap'[m].free /\ heap'[m] = c
    BY DEF Alloc
  <2>2. PICK k \in 1 .. Len(heap) : k # i /\ heap[k] = c
    BY <1>6, <2>1
  <2>3. Ptr(heap[k]) # Ptr(heap[i])
    BY <1>1, <2>2, DistinctPtrs
  <2>4. ~heap[k].free
    BY <2>1, <2>2
  <2> QED
    BY <2>2, <2>3, <2>4 DEF Alloc
<1>9. PtrsLive'
  <2> SUFFICES ASSUME NEW e \in held'
               PROVE  \E b \in Alloc(heap') : e.ptr = Ptr(b)
    BY DEF PtrsLive
  <2>1. e \in held /\ e.ptr # Ptr(heap[i])
    BY <1>2
  <2>2. PICK b \in Alloc(heap) : e.ptr = Ptr(b)
    BY <2>1 DEF PtrsLive
  <2>3. b # heap[i]
    BY <2>1, <2>2
  <2> QED
    BY <1>7, <2>2, <2>3
<1> QED
  BY <1>3, <1>4, <1>7, <1>8, <1>9

-----------------------------------------------------------------------------
(* The heaptest command.                                                   *)

(* The variables of cmd_heaptest that hold a block before each of its      *)
(* calls, and after the last one.                                          *)
HoldsAt ==
  << {}, {"a"}, {"a", "b"}, {"a", "b", "c"}, {"a", "c"}, {"a", "c", "d"},
     {"c", "d"}, {"d"} >>
Holds == IF pc[1] = "test" THEN HoldsAt[pc[2]] ELSE {}

Vars == {"a", "b", "c", "d"}

PcInv ==
  /\ pc \in {<<"boot", 1>>, <<"boot", 2>>, <<"boot", 3>>, <<"boot", 4>>, <<"boot", 5>>,
             <<"idle", 1>>, <<"done", 1>>,
             <<"test", 1>>, <<"test", 2>>, <<"test", 3>>, <<"test", 4>>,
             <<"test", 5>>, <<"test", 6>>, <<"test", 7>>, <<"test", 8>>}
  /\ slot \in [Vars -> Nat]

(* While the command runs, the allocated blocks are those it found and the *)
(* ones its variables point to.                                            *)
FoundAndOwn ==
  /\ DOMAIN before = {1, 2}
  /\ Shape(before[1]) /\ CoalescedBut(before[1], 0)
  /\ before = <<before[1], Used(before[1])>>
  /\ Alloc(before[1]) = {b \in Alloc(heap) : \A v \in Holds : Ptr(b) # slot[v]}

HeapPart == HeapInv /\ heap_used = Used(heap) /\ PtrsLive

TestInv ==
  /\ HeapPart
  /\ PcInv
  /\ pc[1] \in {"test", "done"} /\ panic = "none" => FoundAndOwn

(* A call of the script takes a variable that holds nothing, or gives up   *)
(* one that holds a block.                                                 *)
LEMMA ScriptHolds ==
  ASSUME NEW k \in 1 .. 8
  PROVE  LET op   == Script[k]
             next == IF k = 8 THEN {} ELSE HoldsAt[k + 1]
         IN  /\ op.var \in Vars /\ op.size \in Nat
             /\ HoldsAt[k] \subseteq Vars
             /\ op.op = "malloc" =>
                  op.var \notin HoldsAt[k] /\ next = HoldsAt[k] \cup {op.var}
             /\ op.op = "free" =>
                  op.var \in HoldsAt[k] /\ next = HoldsAt[k] \ {op.var}
<1>1. k \in {1, 2, 3, 4, 5, 6, 7, 8}
  OBVIOUS
<1>2. CASE k = 1
  BY <1>2 DEF Script, HoldsAt, Take, Give, Vars
<1>3. CASE k = 2
  BY <1>3 DEF Script, HoldsAt, Take, Give, Vars
<1>4. CASE k = 3
  BY <1>4 DEF Script, HoldsAt, Take, Give, Vars
<1>5. CASE k = 4
  BY <1>5 DEF Script, HoldsAt, Take, Give, Vars
<1>6. CASE k = 5
  BY <1>6 DEF Script, HoldsAt, Take, Give, Vars
<1>7. CASE k = 6
  BY <1>7 DEF Script, HoldsAt, Take, Give, Vars
<1>8. CASE k = 7
  BY <1>8 DEF Script, HoldsAt, Take, Give, Vars
<1>9. CASE k = 8
  BY <1>9 DEF Script, HoldsAt, Take, Give, Vars
<1> QED
  BY <1>1, <1>2, <1>3, <1>4, <1>5, <1>6, <1>7, <1>8, <1>9

(* A call of malloc or free keeps the heap's part of the invariant. *)
LEMMA MallocHeapPart ==
  ASSUME HeapPart, NEW size \in Nat, malloc(size)
  PROVE  HeapPart' /\ (panic' = "none" => panic = "none")
<1>1. HeapInv' /\ heap_used' = Used(heap')
  BY MallocKeeps, MallocAccounts DEF HeapPart
<1>2. PtrsLive'
  <2>1. CASE panic' = "none"
    BY <2>1, MallocTakes DEF HeapPart
  <2>2. CASE panic' # "none"
    BY <2>2 DEF malloc, HeapPart, PtrsLive
  <2> QED
    BY <2>1, <2>2
<1> QED
  BY <1>1, <1>2 DEF HeapPart, malloc

(* The same for free. *)
LEMMA FreeHeapPart ==
  ASSUME HeapPart, NEW i \in 1 .. Len(heap), free(i)
  PROVE  HeapPart' /\ (panic' = "none" => panic = "none")
<1>1. HeapInv' /\ heap_used' = Used(heap')
  BY FreeKeeps, FreeAccounts DEF HeapPart
<1>2. PtrsLive'
  <2>1. CASE panic' = "none"
    BY <2>1, FreeGives DEF HeapPart
  <2>2. CASE panic' # "none"
    BY <2>2 DEF free, HeapPart, PtrsLive
  <2> QED
    BY <2>1, <2>2
<1> QED
  BY <1>1, <1>2 DEF HeapPart, free

(* Every step keeps the invariant of the command and of other clients. *)
LEMMA StepTestInv == TestInv /\ [TestNext]_tvars => TestInv'
<1> SUFFICES ASSUME TestInv, [TestNext]_tvars
             PROVE  TestInv'
  OBVIOUS
<1>0. HeapPart /\ PcInv
  BY DEF TestInv
<1>1. CASE Boot
  <2>1. /\ pc[1] = "boot" /\ pc[2] \in 1 .. 5
        /\ pc' = IF pc[2] = 5 THEN <<"idle", 1>> ELSE <<"boot", pc[2] + 1>>
        /\ slot' = slot /\ malloc(BootAllocs[pc[2]])
    BY <1>0, <1>1 DEF Boot, Advance, BootAllocs, PcInv
  <2>2. BootAllocs[pc[2]] \in Nat
    BY <2>1 DEF BootAllocs, TaskSize, StackSize
  <2>3. HeapPart'
    BY <1>0, <2>1, <2>2, MallocHeapPart
  <2>4. PcInv' /\ pc'[1] \notin {"test", "done"}
    BY <1>0, <2>1 DEF PcInv
  <2> QED
    BY <2>3, <2>4 DEF TestInv
<1>2. CASE Other
  <2>1. pc[1] = "idle" /\ pc' = pc /\ slot' = slot
    BY <1>2 DEF Other
  <2>2. HeapPart'
    <3>1. ASSUME NEW size \in Sizes, malloc(size)
          PROVE  HeapPart'
      BY <1>0, <3>1, SizesNat, MallocHeapPart
    <3>2. ASSUME NEW i \in Len(BootAllocs) + 1 .. Len(heap), free(i)
          PROVE  HeapPart'
      <4>1. i \in 1 .. Len(heap)
        BY <1>0 DEF BootAllocs, HeapPart, HeapInv, TypeOK
      <4> QED
        BY <1>0, <3>2, <4>1, FreeHeapPart
    <3> QED
      BY <1>2, <3>1, <3>2 DEF Other
  <2> QED
    BY <1>0, <2>1, <2>2 DEF TestInv, PcInv
<1>3. CASE Enter
  <2>1. /\ panic = "none" /\ pc' = <<"test", 1>> /\ before' = <<heap, heap_used>>
        /\ UNCHANGED <<heap, heap_used, panic, held, slot>>
    BY <1>3 DEF Enter, vars
  <2>2. HeapPart'
    BY <1>0, <2>1 DEF HeapPart, HeapInv, ListInv, TypeOK, PtrsLive
  <2>3. PcInv'
    BY <1>0, <2>1 DEF PcInv
  <2>4. Holds' = {}
    BY <2>1 DEF Holds, HoldsAt
  <2>5. FoundAndOwn'
    <3>1. before'[1] = heap /\ before'[2] = heap_used /\ DOMAIN before' = {1, 2}
      BY <2>1
    <3>2. Shape(heap) /\ CoalescedBut(heap, 0) /\ heap_used = Used(heap)
      BY <1>0 DEF HeapPart, HeapInv, ListInv
    <3>3. Alloc(heap) = {b \in Alloc(heap') : \A v \in Holds' : Ptr(b) # slot'[v]}
      BY <2>1, <2>4
    <3> QED
      BY <2>1, <3>1, <3>2, <3>3 DEF FoundAndOwn
  <2> QED
    BY <2>2, <2>3, <2>5 DEF TestInv
<1>4. CASE Call
  <2> DEFINE k == pc[2]
             op == Script[k]
  <2>1. /\ pc[1] = "test" /\ k \in 1 .. 8
        /\ pc' = IF k = 8 THEN <<"done", 1>> ELSE <<"test", k + 1>>
        /\ before' = before
        /\ Len(Script) = 8
    BY <1>0, <1>4 DEF Call, Advance, Script, PcInv
  <2>2. /\ op.var \in Vars /\ op.size \in Nat /\ HoldsAt[k] \subseteq Vars
        /\ op.op = "malloc" => op.var \notin HoldsAt[k]
                               /\ (IF k = 8 THEN {} ELSE HoldsAt[k + 1]) = HoldsAt[k] \cup {op.var}
        /\ op.op = "free" => op.var \in HoldsAt[k]
                             /\ (IF k = 8 THEN {} ELSE HoldsAt[k + 1]) = HoldsAt[k] \ {op.var}
    BY <2>1, ScriptHolds
  <2>3. Holds = HoldsAt[k] /\ Holds' = IF k = 8 THEN {} ELSE HoldsAt[k + 1]
    <3>1. CASE k = 8
      BY <2>1, <3>1 DEF Holds
    <3>2. CASE k # 8
      <4>1. pc'[1] = "test" /\ pc'[2] = k + 1
        BY <2>1, <3>2
      <4> QED
        BY <2>1, <3>2, <4>1 DEF Holds
    <3> QED
      BY <3>1, <3>2
  <2>4. pc' \in {<<"done", 1>>, <<"test", 2>>, <<"test", 3>>, <<"test", 4>>,
                 <<"test", 5>>, <<"test", 6>>, <<"test", 7>>, <<"test", 8>>}
    BY <2>1
  <2>5. slot \in [Vars -> Nat]
    BY <1>0 DEF PcInv
  <2>6. \/ /\ op.op = "malloc"
           /\ malloc(op.size)
           /\ slot' = [slot EXCEPT ![op.var] =
                         IF panic' # "none" THEN 0
                         ELSE (CHOOSE e \in held' \ held : TRUE).ptr]
        \/ /\ op.op = "free"
           /\ \E i \in 1 .. Len(heap) : Ptr(heap[i]) = slot[op.var] /\ free(i)
           /\ slot' = slot
    BY <1>4 DEF Call
  <2> DEFINE var == op.var
             L == Holds
             S == before[1]
  <2>7. panic = "none" => FoundAndOwn
    BY <2>1 DEF TestInv
  <2> HIDE DEF k, op
  <2>8. CASE op.op = "malloc"
    <3>1. malloc(op.size)
          /\ slot' = [slot EXCEPT ![var] = IF panic' # "none" THEN 0
                                           ELSE (CHOOSE e \in held' \ held : TRUE).ptr]
      BY <2>6, <2>8
    <3>2. HeapPart' /\ (panic' = "none" => panic = "none")
      BY <1>0, <2>2, <3>1, MallocHeapPart
    <3>3. CASE panic' # "none"
      <4>1. slot' \in [Vars -> Nat]
        BY <2>2, <2>5, <3>1, <3>3
      <4> QED
        BY <2>4, <3>2, <3>3, <4>1 DEF TestInv, PcInv
    <3>4. CASE panic' = "none"
      <4>1. PICK b : /\ Alloc(heap') = Alloc(heap) \cup {b}
                     /\ \A c \in Alloc(heap) : Ptr(c) # Ptr(b)
                     /\ held' \ held = {[ptr |-> Ptr(b), len |-> op.size]}
                     /\ Ptr(b) \in Nat
        BY <1>0, <2>2, <3>1, <3>4, MallocTakes DEF HeapPart
      <4>2. (CHOOSE e \in held' \ held : TRUE).ptr = Ptr(b)
        <5>1. (CHOOSE e \in held' \ held : TRUE) \in held' \ held
          BY <4>1
        <5> QED
          BY <4>1, <5>1
      <4>3. slot' = [slot EXCEPT ![var] = Ptr(b)]
        BY <3>1, <3>4, <4>2
      <4>4. slot' \in [Vars -> Nat]
        BY <2>5, <4>1, <4>3
      <4>5. slot'[var] = Ptr(b) /\ \A v \in L : slot'[v] = slot[v]
        <5>1. var \in Vars /\ var \notin L /\ L \subseteq Vars
          BY <2>2, <2>3, <2>8
        <5> HIDE DEF var, L
        <5> QED
          BY <2>5, <4>3, <5>1
      <4>6. Holds' = L \cup {var}
        BY <2>2, <2>3, <2>8
      <4>7. FoundAndOwn
        BY <2>7, <3>2, <3>4
      <4>8. S = before[1] /\ Alloc(S) = {c \in Alloc(heap) : \A v \in L : Ptr(c) # slot[v]}
        BY <4>7 DEF FoundAndOwn
      <4> HIDE DEF var, L, S
      <4>9. Alloc(S) = {c \in Alloc(heap') : \A v \in Holds' : Ptr(c) # slot'[v]}
        <5>1. ASSUME NEW c \in Alloc(S)
              PROVE  c \in Alloc(heap') /\ \A v \in Holds' : Ptr(c) # slot'[v]
          BY <4>1, <4>5, <4>6, <4>8
        <5>2. ASSUME NEW c \in Alloc(heap'), \A v \in Holds' : Ptr(c) # slot'[v]
              PROVE  c \in Alloc(S)
          <6>1. c # b
            BY <4>5, <4>6, <5>2
          <6> QED
            BY <4>1, <4>5, <4>6, <4>8, <5>2, <6>1
        <5> QED
          BY <5>1, <5>2
      <4>10. FoundAndOwn'
        BY <2>1, <4>7, <4>8, <4>9 DEF FoundAndOwn
      <4> QED
        BY <2>4, <3>2, <4>4, <4>10 DEF TestInv, PcInv
    <3> QED
      BY <3>3, <3>4
  <2>9. CASE op.op = "free"
    <3>1. PICK i \in 1 .. Len(heap) : Ptr(heap[i]) = slot[var] /\ free(i)
      BY <2>6, <2>9
    <3>2. HeapPart' /\ (panic' = "none" => panic = "none")
      BY <1>0, <3>1, FreeHeapPart
    <3>3. slot' = slot
      BY <2>6, <2>9
    <3>4. PcInv'
      BY <2>4, <2>5, <3>3 DEF PcInv
    <3>5. ASSUME panic' = "none"
          PROVE  FoundAndOwn'
      <4>1. /\ heap[i] \in Alloc(heap)
            /\ Alloc(heap') = Alloc(heap) \ {heap[i]}
            /\ \A c \in Alloc(heap) : Ptr(c) = Ptr(heap[i]) => c = heap[i]
        BY <1>0, <3>1, <3>5, FreeGives DEF HeapPart
      <4>2. Holds' = L \ {var} /\ var \in L
        BY <2>2, <2>3, <2>9
      <4>3. FoundAndOwn
        BY <2>7, <3>2, <3>5
      <4>4. S = before[1] /\ Alloc(S) = {c \in Alloc(heap) : \A v \in L : Ptr(c) # slot[v]}
        BY <4>3 DEF FoundAndOwn
      <4> HIDE DEF var, L, S
      <4>5. Alloc(S) = {c \in Alloc(heap') : \A v \in Holds' : Ptr(c) # slot'[v]}
        <5>1. ASSUME NEW c \in Alloc(S)
              PROVE  c \in Alloc(heap') /\ \A v \in Holds' : Ptr(c) # slot'[v]
          BY <3>1, <3>3, <4>1, <4>2, <4>4
        <5>2. ASSUME NEW c \in Alloc(heap'), \A v \in Holds' : Ptr(c) # slot'[v]
              PROVE  c \in Alloc(S)
          <6>1. Ptr(c) # slot[var]
            BY <3>1, <4>1
          <6> QED
            BY <3>3, <4>1, <4>2, <4>4, <5>2, <6>1
        <5> QED
          BY <5>1, <5>2
      <4> QED
        BY <2>1, <4>3, <4>4, <4>5 DEF FoundAndOwn
    <3> QED
      BY <3>2, <3>4, <3>5 DEF TestInv
  <2> QED
    BY <2>6, <2>8, <2>9
<1>5. CASE Leave
  <2>1. /\ pc' = <<"idle", 1>> /\ slot' = NoSlots
        /\ UNCHANGED <<heap, heap_used, panic, held>>
    BY <1>5 DEF Leave, vars
  <2>2. HeapPart'
    BY <1>0, <2>1 DEF HeapPart, HeapInv, ListInv, TypeOK, PtrsLive
  <2>3. PcInv' /\ pc'[1] \notin {"test", "done"}
    BY <2>1 DEF PcInv, NoSlots, Vars
  <2> QED
    BY <2>2, <2>3 DEF TestInv
<1>6. CASE UNCHANGED tvars
  <2>1. UNCHANGED <<heap, heap_used, panic, held, pc, slot, before>>
    BY <1>6 DEF tvars
  <2>2. HeapPart' /\ PcInv'
    BY <1>0, <2>1 DEF HeapPart, HeapInv, ListInv, TypeOK, PtrsLive, PcInv
  <2>3. FoundAndOwn => FoundAndOwn'
    BY <2>1 DEF FoundAndOwn, Holds
  <2> QED
    BY <2>1, <2>2, <2>3 DEF TestInv
<1> QED
  BY <1>1, <1>2, <1>3, <1>4, <1>5, <1>6 DEF TestNext

(* Before the first allocation of task_init. *)
LEMMA InitTestInv == TestInit => TestInv
<1> SUFFICES ASSUME TestInit
             PROVE  TestInv
  OBVIOUS
<1>1. Init /\ pc = <<"boot", 1>> /\ slot = NoSlots
  BY DEF TestInit
<1>2. HeapPart
  BY <1>1, InitInv, InitAccounts DEF HeapPart, PtrsLive, Init
<1>3. PcInv /\ pc[1] \notin {"test", "done"}
  BY <1>1 DEF PcInv, NoSlots, Vars
<1> QED
  BY <1>2, <1>3 DEF TestInv

(* When the command is done its variables hold nothing: the list has the   *)
(* allocated blocks that it had, so it is the list that it was.            *)
LEMMA InvNeutral == TestInv => HeapTestNeutral
<1> SUFFICES ASSUME TestInv, pc[1] = "done", panic = "none"
             PROVE  <<heap, heap_used>> = before
  BY DEF HeapTestNeutral
<1>1. FoundAndOwn /\ HeapPart
  BY DEF TestInv
<1>2. Holds = {}
  BY DEF Holds
<1>3. Alloc(before[1]) = Alloc(heap)
  BY <1>1, <1>2 DEF FoundAndOwn
<1>4. before[1] = heap
  BY <1>1, <1>3, Canonical DEF FoundAndOwn, HeapPart, HeapInv, ListInv
<1> QED
  BY <1>1, <1>4 DEF FoundAndOwn, HeapPart

(* heaptest leaves the heap as it found it, whatever the other clients of  *)
(* the heap have done before and hold: the same list, the same heap_used.  *)
THEOREM HeapTestLeavesNoTrace == TestSpec => []HeapTestNeutral
  BY InitTestInv, StepTestInv, InvNeutral, PTL DEF TestSpec
=============================================================================
