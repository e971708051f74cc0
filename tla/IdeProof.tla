------------------------------ MODULE IdeProof ------------------------------
(***************************************************************************)
(* Proofs about the IDE channel (Ide.tla), for every geometry, every size  *)
(* of memory and of the block cache, every number of outstanding reads and *)
(* every order of their answers: what the drive asks of the guest it can   *)
(* serve, and a reset ends all that was asked before it.                   *)
(*                                                                         *)
(* A handler takes the machine s to a machine t.  IsMachine types the      *)
(* machine, Ids ties the outstanding reads to the drive's list of ids,     *)
(* Busy says that the one read that is wanted fits the drive's state, and  *)
(* Waits adds that offered data are there.  Each handler has a lemma       *)
(* (Leaves, Effect, Keeps) on these; the steps combine them.               *)
(***************************************************************************)
EXTENDS Ide, Lemmas, FiniteSetTheorems

(* What commands ask of a read of the buffer. *)
Wants ==
  [op : {"pio"}, cmd : PioReads, single : BOOLEAN] \cup [op : {"dma"}]
  \cup [op : {"packet"}, limit : Int] \cup [op : {"packet_dma"}]

Words == 0 .. Base * Base - 1

IsDrive(d) ==
  d \in [atapi : BOOLEAN, status : SUBSET S255, count : Int, low : Words, mid : Words,
         high : Words, head : 0 .. HeadBase - 1, is_lba : BOOLEAN, drq : Nat \ {0}, ptr : Int,
         end : Int, len : Int, data : {d.data}, cmd : {d.cmd}, dest : {d.dest},
         last_io_id : Nat, in_progress : SUBSET Nat, cancelled : SUBSET Nat,
         sense : {d.sense}, reason : 0 .. 3, has_disk : BOOLEAN]

IsChannel(c) ==
  c \in [irq : BOOLEAN, dmairq : BOOLEAN, nien : BOOLEAN, start : BOOLEAN, active : BOOLEAN,
         prdt : {c.prdt}]

IsBuffer(b) ==
  /\ b \in [kind : {b.kind}, medium : {b.medium}, image : {b.image}, cache : {b.cache},
            dirty : SUBSET DOMAIN b.cache]

IsMachine(s) ==
  /\ s \in [d : {s.d}, ch : {s.ch}, buf : {s.buf}, out : {s.out}, mem : {s.mem}]
  /\ IsDrive(s.d) /\ IsChannel(s.ch) /\ IsBuffer(s.buf) /\ DOMAIN s.mem = 0 .. MemSize - 1

(* The same but for the interrupt line. *)
SameBus(s, t) ==
  t.ch.start = s.ch.start /\ t.ch.active = s.ch.active /\ t.ch.prdt = s.ch.prdt

SameReads(s, t) ==
  /\ t.d.in_progress = s.d.in_progress /\ t.d.cancelled = s.d.cancelled
  /\ t.d.last_io_id = s.d.last_io_id /\ t.out = s.out

LEMMA PushIrq ==
  ASSUME NEW s, IsMachine(s)
  PROVE  /\ IsMachine(push_irq(s)) /\ SameBus(s, push_irq(s))
         /\ push_irq(s).d = s.d /\ push_irq(s).buf = s.buf /\ push_irq(s).out = s.out
         /\ push_irq(s).mem = s.mem
BY DEF push_irq, IsMachine, IsChannel, SameBus

LEMMA EndProps ==
  ASSUME NEW s, IsMachine(s), NEW st \in SUBSET S255
  PROVE  /\ IsMachine(End(s, st)) /\ SameBus(s, End(s, st))
         /\ End(s, st).d = [s.d EXCEPT !.status = st] /\ End(s, st).buf = s.buf
         /\ End(s, st).out = s.out /\ End(s, st).mem = s.mem
<1> DEFINE t == [s EXCEPT !.d.status = st]
<1>1. /\ t.d = [s.d EXCEPT !.status = st] /\ t.ch = s.ch /\ t.buf = s.buf
      /\ t.out = s.out /\ t.mem = s.mem
      /\ t \in [d : {t.d}, ch : {t.ch}, buf : {t.buf}, out : {t.out}, mem : {t.mem}]
  BY DEF IsMachine
<1>2. IsDrive([s.d EXCEPT !.status = st])
  BY DEF IsMachine, IsDrive
<1>3. IsMachine(t)
  BY <1>1, <1>2 DEF IsMachine
<1>4. SameBus(s, push_irq(t))
  BY <1>1, <1>3, PushIrq DEF SameBus
<1> QED
  BY <1>1, <1>3, <1>4, PushIrq DEF End

-----------------------------------------------------------------------------
(* Registers *)

LEMMA ConstantsTyped ==
  /\ {Base, HeadBase, Heads, Spt, Drq, DiskUnits, CdUnits, Chunk} \subseteq Nat \ {0}
  /\ Spt < Base /\ Heads <= HeadBase /\ CdUnits + 1 < Base * Base
  /\ Base2 \in Nat \ {0} /\ Base3 \in Nat \ {0} /\ Base * Base \in Nat \ {0}
  /\ Heads * Spt \in Nat \ {0}
<1>1. \A x, y \in Nat \ {0} : x * y \in Nat \ {0}
  OBVIOUS
<1>2. /\ {Base, HeadBase, Heads, Spt, Drq, DiskUnits, CdUnits, Chunk} \subseteq Nat \ {0}
      /\ Spt < Base /\ Heads <= HeadBase /\ CdUnits + 1 < Base * Base
  BY IdeAssumption
<1>3. Base2 \in Nat \ {0} /\ Base * Base \in Nat \ {0} /\ Heads * Spt \in Nat \ {0}
  BY <1>1, <1>2 DEF Base2
<1>4. Base3 \in Nat \ {0}
  BY <1>1, <1>2, <1>3 DEF Base3
<1> QED
  BY <1>2, <1>3, <1>4

LEMMA RemainderRange ==
  ASSUME NEW x \in Int, NEW m \in Nat \ {0}
  PROVE  x % m \in 0 .. m - 1 /\ x \div m \in Int
OBVIOUS

LEMMA ByteRange ==
  ASSUME NEW x \in Int
  PROVE  Byte(x) \in 0 .. Base - 1 /\ Byte(x) \in Words
<1>1. Byte(x) \in 0 .. Base - 1
  BY ConstantsTyped, RemainderRange DEF Byte
<1>2. Base <= Base * Base
  BY ConstantsTyped
<1> QED
  BY <1>1, <1>2, ConstantsTyped DEF Words

LEMMA WordRange ==
  ASSUME NEW x \in 0 .. Base - 1, NEW y \in 0 .. Base - 1
  PROVE  x + Base * y \in Words
<1>1. Base \in Nat /\ Base * Base \in Int
  BY ConstantsTyped
<1>2. y <= Base - 1 /\ Base * (Base - 1) = Base * Base - Base
  BY <1>1
<1>3. \A k, l, n \in Nat : k <= l => n * k <= n * l /\ n * k \in Nat
  OBVIOUS
<1>4. Base * y <= Base * (Base - 1) /\ Base * y \in Nat
  BY <1>1, <1>2, <1>3
<1> QED
  BY <1>1, <1>2, <1>4 DEF Words

LEMMA ShiftRange ==
  ASSUME NEW r \in Int, NEW b \in Int
  PROVE  Shift(r, b) \in Words
<1>1. r * Base + b \in Int
  BY ConstantsTyped
<1> QED
  BY <1>1, ConstantsTyped, RemainderRange DEF Shift, Words

LEMMA AddressInt ==
  ASSUME NEW d, IsDrive(d), NEW ext \in BOOLEAN
  PROVE  get_lba(d, ext) \in Int /\ get_count(d, ext) \in Int
<1>1. d.low \in Int /\ d.mid \in Int /\ d.high \in Int /\ d.head \in Int /\ d.count \in Int
      /\ d.is_lba \in BOOLEAN
  BY ConstantsTyped DEF IsDrive, Words
<1>2. \A x \in Int : Byte(x) \in Int
  BY ByteRange
<1>3. d.low \div Base \in Int /\ d.head % HeadBase \in Int
  <2>1. \A x \in Int, m \in Nat \ {0} : x \div m \in Int /\ x % m \in 0 .. m - 1
    BY RemainderRange
  <2>2. \A x \in Int, m \in Nat \ {0} : x \div m \in Int /\ x % m \in Int
    BY <2>1
  <2> QED
    BY <1>1, <2>2, ConstantsTyped
<1>4. \A x, y \in Int : x * y \in Int /\ x + y \in Int
  OBVIOUS
<1>5. get_lba28(d) \in Int /\ get_lba48(d) \in Int
  BY <1>1, <1>2, <1>3, <1>4, ConstantsTyped DEF get_lba28, get_lba48
<1>6. get_chs(d) \in Int
  BY <1>1, <1>2, <1>4, ConstantsTyped DEF get_chs
<1> QED
  BY <1>1, <1>2, <1>5, <1>6, ConstantsTyped DEF get_lba, get_count

(* The same drive but for the address and count registers. *)
SameButAddress(d, e) ==
  /\ e.atapi = d.atapi /\ e.status = d.status /\ e.is_lba = d.is_lba /\ e.drq = d.drq
  /\ e.ptr = d.ptr /\ e.end = d.end /\ e.len = d.len /\ e.data = d.data /\ e.cmd = d.cmd
  /\ e.dest = d.dest /\ e.last_io_id = d.last_io_id /\ e.in_progress = d.in_progress
  /\ e.cancelled = d.cancelled /\ e.sense = d.sense /\ e.reason = d.reason
  /\ e.has_disk = d.has_disk

LEMMA AddressSet ==
  ASSUME NEW d, IsDrive(d)
  PROVE  /\ \A n \in Int : LET e == [d EXCEPT !.count = n] IN IsDrive(e) /\ SameButAddress(d, e)
         /\ \A v \in Words : LET e == [d EXCEPT !.low = v]
                             IN  IsDrive(e) /\ SameButAddress(d, e) /\ e.low = v
         /\ \A v \in Words : LET e == [d EXCEPT !.mid = v] IN IsDrive(e) /\ SameButAddress(d, e)
         /\ \A v \in Words : LET e == [d EXCEPT !.high = v] IN IsDrive(e) /\ SameButAddress(d, e)
         /\ \A h \in 0 .. HeadBase - 1 :
              LET e == [d EXCEPT !.head = h] IN IsDrive(e) /\ SameButAddress(d, e)
<1>1. ASSUME NEW n \in Int
      PROVE  IsDrive([d EXCEPT !.count = n]) /\ SameButAddress(d, [d EXCEPT !.count = n])
  BY DEF IsDrive, SameButAddress
<1>2. ASSUME NEW v \in Words
      PROVE  /\ IsDrive([d EXCEPT !.low = v]) /\ SameButAddress(d, [d EXCEPT !.low = v])
             /\ [d EXCEPT !.low = v].low = v
  BY DEF IsDrive, SameButAddress
<1>3. ASSUME NEW v \in Words
      PROVE  IsDrive([d EXCEPT !.mid = v]) /\ SameButAddress(d, [d EXCEPT !.mid = v])
  BY DEF IsDrive, SameButAddress
<1>4. ASSUME NEW v \in Words
      PROVE  IsDrive([d EXCEPT !.high = v]) /\ SameButAddress(d, [d EXCEPT !.high = v])
  BY DEF IsDrive, SameButAddress
<1>5. ASSUME NEW h \in 0 .. HeadBase - 1
      PROVE  IsDrive([d EXCEPT !.head = h]) /\ SameButAddress(d, [d EXCEPT !.head = h])
  BY DEF IsDrive, SameButAddress
<1> QED
  BY <1>1, <1>2, <1>3, <1>4, <1>5

LEMMA SameAddressChain ==
  ASSUME NEW d, NEW e, NEW f, SameButAddress(d, e), SameButAddress(e, f)
  PROVE  SameButAddress(d, f)
BY DEF SameButAddress

Flat(d, low, mid, high) == [d EXCEPT !.low = low, !.mid = mid, !.high = high]

LEMMA FlatSet ==
  ASSUME NEW d, IsDrive(d), NEW low \in Words, NEW mid \in Words, NEW high \in Words
  PROVE  /\ IsDrive(Flat(d, low, mid, high)) /\ SameButAddress(d, Flat(d, low, mid, high))
         /\ Flat(d, low, mid, high).low = low
<1> DEFINE e1 == [d EXCEPT !.low = low]
           e2 == [e1 EXCEPT !.mid = mid]
           e3 == [e2 EXCEPT !.high = high]
<1>1. IsDrive(e1) /\ SameButAddress(d, e1) /\ e1.low = low
  BY AddressSet
<1>2. e3 = Flat(d, low, mid, high) /\ e2.low = e1.low /\ e3.low = e1.low
  BY DEF Flat
<1> HIDE DEF e1
<1>3. IsDrive(e2) /\ SameButAddress(e1, e2)
  BY <1>1, AddressSet
<1> HIDE DEF e2
<1>4. IsDrive(e3) /\ SameButAddress(e2, e3)
  BY <1>3, AddressSet
<1> HIDE DEF e3
<1>5. SameButAddress(d, e3)
  BY <1>1, <1>3, <1>4, SameAddressChain
<1> QED
  BY <1>1, <1>2, <1>4, <1>5

LEMMA AdvanceTyped ==
  ASSUME NEW d, IsDrive(d), NEW c, NEW n \in Int
  PROVE  IsDrive(ata_advance(d, c, n)) /\ SameButAddress(d, ata_advance(d, c, n))
<1> DEFINE a    == n + get_lba(d, Ext(c))
           left == [d EXCEPT !.count = @ - n]
           low  == Byte(a)
           flat == [left EXCEPT !.low = low, !.mid = Byte(a \div Base),
                                !.high = Byte(a \div Base2)]
<1>1. Ext(c) \in BOOLEAN
  BY DEF Ext
<1>2. a \in Int /\ d.count - n \in Int
  BY <1>1, AddressInt DEF IsDrive
<1>3. /\ a \div Base \in Int /\ a \div Base2 \in Int /\ a \div Base3 \in Int /\ a \div Spt \in Int
      /\ a \div (Heads * Spt) \in Int /\ (a \div (Heads * Spt)) \div Base \in Int
      /\ a % HeadBase \in 0 .. HeadBase - 1 /\ a % Spt \in 0 .. Spt - 1
      /\ (a \div Spt) % Heads \in 0 .. Heads - 1
  <2>1. \A x \in Int, m \in Nat \ {0} : x \div m \in Int /\ x % m \in 0 .. m - 1
    BY RemainderRange
  <2> HIDE DEF a
  <2> QED
    BY <1>2, <2>1, ConstantsTyped
<1>4. \A x \in Int : Byte(x) \in Words /\ Byte(x) \in 0 .. Base - 1
  BY ByteRange
<1>5. /\ Byte(a) + Base * Byte(a \div Base3) \in Words
      /\ (a % Spt) + 1 \in Words /\ (a \div Spt) % Heads \in 0 .. HeadBase - 1
  <2>1. Byte(a) + Base * Byte(a \div Base3) \in Words
    BY <1>2, <1>3, <1>4, WordRange
  <2>2. a % Spt \in Int /\ 0 <= a % Spt /\ a % Spt < Spt
    BY <1>3, ConstantsTyped
  <2>3. (a % Spt) + 1 \in 0 .. Base - 1
    BY <2>2, ConstantsTyped
  <2>4. Base <= Base * Base
    BY ConstantsTyped
  <2>5. (a % Spt) + 1 \in Words
    BY <2>3, <2>4, ConstantsTyped DEF Words
  <2>6. (a \div Spt) % Heads \in 0 .. HeadBase - 1
    BY <1>3, ConstantsTyped
  <2> QED
    BY <2>1, <2>5, <2>6
<1> HIDE DEF a
<1>6. IsDrive(left) /\ SameButAddress(d, left)
  BY <1>2, AddressSet
<1> HIDE DEF left
<1>7. IsDrive(flat) /\ SameButAddress(d, flat) /\ flat.low = low
  <2> DEFINE mid == Byte(a \div Base)
             high == Byte(a \div Base2)
  <2>1. low \in Words /\ mid \in Words /\ high \in Words
    <3>1. a \in Int /\ a \div Base \in Int /\ a \div Base2 \in Int
      BY <1>2, <1>3
    <3>2. \A x \in Int : Byte(x) \in Words
      BY ByteRange
    <3> QED
      BY <3>1, <3>2
  <2> HIDE DEF low, mid, high
  <2>2. /\ IsDrive(Flat(left, low, mid, high)) /\ SameButAddress(left, Flat(left, low, mid, high))
        /\ Flat(left, low, mid, high).low = low
    BY <1>6, <2>1, FlatSet
  <2>3. flat = Flat(left, low, mid, high)
    BY DEF mid, high, Flat
  <2> QED
    BY <1>6, <2>2, <2>3, SameAddressChain
<1>8. CASE Ext(c)
  <2>1. ata_advance(d, c, n) = [flat EXCEPT !.low = low + Base * Byte(a \div Base3)]
    BY <1>7, <1>8 DEF ata_advance, a, left
  <2> HIDE DEF flat
  <2> QED
    BY <1>5, <1>7, <2>1, AddressSet, SameAddressChain
<1>9. CASE ~Ext(c) /\ d.is_lba
  <2>1. ata_advance(d, c, n) = [flat EXCEPT !.head = a % HeadBase]
    BY <1>9 DEF ata_advance, a, left
  <2> HIDE DEF flat
  <2> QED
    BY <1>3, <1>7, <2>1, AddressSet, SameAddressChain
<1>10. CASE ~Ext(c) /\ ~d.is_lba
  <2> DEFINE mid  == Byte(a \div (Heads * Spt))
             high == Byte((a \div (Heads * Spt)) \div Base)
             head == (a \div Spt) % Heads
             low2 == (a % Spt) + 1
             e1   == [left EXCEPT !.mid = mid]
             e2   == [e1 EXCEPT !.high = high]
             e3   == [e2 EXCEPT !.head = head]
             e4   == [e3 EXCEPT !.low = low2]
  <2>1. ata_advance(d, c, n) = e4
    BY <1>10 DEF ata_advance, SetChs, a, left
  <2>2. mid \in Words /\ high \in Words /\ head \in 0 .. HeadBase - 1 /\ low2 \in Words
    BY <1>3, <1>4, <1>5
  <2> HIDE DEF mid, high, head, low2
  <2>3. IsDrive(e1) /\ SameButAddress(d, e1)
    BY <1>6, <2>2, AddressSet, SameAddressChain
  <2> HIDE DEF e1
  <2>4. IsDrive(e2) /\ SameButAddress(d, e2)
    BY <2>2, <2>3, AddressSet, SameAddressChain
  <2> HIDE DEF e2
  <2>5. IsDrive(e3) /\ SameButAddress(d, e3)
    BY <2>2, <2>4, AddressSet, SameAddressChain
  <2> HIDE DEF e3
  <2>6. IsDrive(e4) /\ SameButAddress(d, e4)
    BY <2>2, <2>5, AddressSet, SameAddressChain
  <2> QED
    BY <2>1, <2>6
<1>11. d.is_lba \in BOOLEAN
  BY DEF IsDrive
<1> QED
  BY <1>1, <1>8, <1>9, <1>10, <1>11

-----------------------------------------------------------------------------
(* Data *)

(* A list of n items, or of none. *)
Items(g, n) == g = [i \in 1 .. n |-> g[i]]

LEMMA ItemsLength ==
  ASSUME NEW n \in Int, NEW g, Items(g, n)
  PROVE  /\ Len(g) \in Nat /\ (n >= 0 => Len(g) = n)
         /\ g \in Seq({g[i] : i \in 1 .. n})
<1> DEFINE S == {g[i] : i \in 1 .. n}
<1>1. ASSUME NEW m \in Nat, 1 .. m = 1 .. n
      PROVE  g \in Seq(S) /\ Len(g) = m
  <2>1. g \in [1 .. m -> S]
    BY <1>1 DEF Items
  <2> HIDE DEF S
  <2> QED
    BY <2>1
<1>2. CASE n >= 0
  BY <1>1, <1>2
<1>3. CASE ~(n >= 0)
  <2>1. 1 .. 0 = 1 .. n
    BY <1>3
  <2> QED
    BY <1>1, <1>3, <2>1
<1> QED
  BY <1>2, <1>3

LEMMA FetchLength ==
  ASSUME NEW b, NEW a, NEW n \in Int
  PROVE  Len(Fetch(b, a, n)) \in Nat /\ (n >= 0 => Len(Fetch(b, a, n)) = n)
<1>1. Items(Fetch(b, a, n), n)
  BY DEF Fetch, Items
<1> QED
  BY <1>1, ItemsLength

LEMMA ZerosLength ==
  ASSUME NEW n \in Int
  PROVE  Len([i \in 1 .. n |-> 0]) \in Nat /\ (n >= 0 => Len([i \in 1 .. n |-> 0]) = n)
<1>1. Items([i \in 1 .. n |-> 0], n)
  BY DEF Items
<1> QED
  BY <1>1, ItemsLength

(* The same drive but for the data. *)
SameButData(d, e) ==
  /\ e.atapi = d.atapi /\ e.status = d.status /\ e.is_lba = d.is_lba /\ e.drq = d.drq
  /\ e.low = d.low /\ e.mid = d.mid /\ e.high = d.high /\ e.head = d.head /\ e.count = d.count
  /\ e.cmd = d.cmd /\ e.end = d.end
  /\ e.dest = d.dest /\ e.last_io_id = d.last_io_id /\ e.in_progress = d.in_progress
  /\ e.cancelled = d.cancelled /\ e.sense = d.sense /\ e.reason = d.reason
  /\ e.has_disk = d.has_disk

(* One field of the data is set. *)
LEMMA LengthSet ==
  ASSUME NEW d, IsDrive(d), NEW n \in Int
  PROVE  IsDrive([d EXCEPT !.len = n]) /\ [d EXCEPT !.len = n].len = n
BY DEF IsDrive

LEMMA PointerSet ==
  ASSUME NEW d, IsDrive(d), NEW n \in Int
  PROVE  /\ IsDrive([d EXCEPT !.ptr = n]) /\ [d EXCEPT !.ptr = n].ptr = n
         /\ [d EXCEPT !.ptr = n].len = d.len
BY DEF IsDrive

LEMMA ContentsSet ==
  ASSUME NEW d, IsDrive(d), NEW v
  PROVE  /\ IsDrive([d EXCEPT !.data = v])
         /\ [d EXCEPT !.data = v].ptr = d.ptr /\ [d EXCEPT !.data = v].len = d.len
BY DEF IsDrive

LEMMA SameWhenDataSet ==
  ASSUME NEW d, IsDrive(d), NEW v
  PROVE  /\ SameButData(d, [d EXCEPT !.len = v]) /\ SameButData(d, [d EXCEPT !.ptr = v])
         /\ SameButData(d, [d EXCEPT !.data = v])
<1>1. SameButData(d, [d EXCEPT !.len = v])
  BY DEF IsDrive, SameButData
<1>2. SameButData(d, [d EXCEPT !.ptr = v])
  BY DEF IsDrive, SameButData
<1>3. SameButData(d, [d EXCEPT !.data = v])
  BY DEF IsDrive, SameButData
<1> QED
  BY <1>1, <1>2, <1>3

LEMMA SameDataChain ==
  ASSUME NEW d, NEW e, NEW f, SameButData(d, e), SameButData(e, f)
  PROVE  SameButData(d, f)
BY DEF SameButData

LEMMA DataSet ==
  ASSUME NEW d, IsDrive(d), NEW data, Len(data) \in Nat
  PROVE  /\ IsDrive(data_set(d, data)) /\ SameButData(d, data_set(d, data))
         /\ data_set(d, data).ptr = 0 /\ data_set(d, data).len = Len(data)
<1> DEFINE l  == Len(data)
           v  == data \o SubSeq(d.data, l + 1, Len(d.data))
           z  == 0
           e0 == [d EXCEPT !.len = l]
           e1 == [e0 EXCEPT !.ptr = z]
           e2 == [e1 EXCEPT !.data = v]
<1>1. l \in Int /\ z \in Int
  OBVIOUS
<1>2. data_set(d, data) = e2
  BY DEF data_set
<1> HIDE DEF l, v, z
<1>3. IsDrive(e0) /\ SameButData(d, e0) /\ e0.len = l
  BY <1>1, LengthSet, SameWhenDataSet
<1> HIDE DEF e0
<1>4. IsDrive(e1) /\ SameButData(e0, e1) /\ e1.ptr = z /\ e1.len = e0.len
  BY <1>1, <1>3, PointerSet, SameWhenDataSet
<1> HIDE DEF e1
<1>5. IsDrive(e2) /\ SameButData(e1, e2) /\ e2.ptr = e1.ptr /\ e2.len = e1.len
  BY <1>4, ContentsSet, SameWhenDataSet
<1> HIDE DEF e2
<1>6. SameButData(d, e2)
  BY <1>3, <1>4, <1>5, SameDataChain
<1> QED
  BY <1>2, <1>3, <1>4, <1>5, <1>6 DEF l, z

LEMMA DataAllocated ==
  ASSUME NEW d, IsDrive(d), NEW n \in Int
  PROVE  /\ IsDrive(data_allocate(d, n)) /\ SameButData(d, data_allocate(d, n))
         /\ data_allocate(d, n).ptr = 0 /\ data_allocate(d, n).len \in Nat
         /\ n >= 0 => data_allocate(d, n).len = n
BY ZerosLength, DataSet DEF data_allocate

LEMMA BlobsDomain ==
  ASSUME NEW m, NEW prdt, NEW data
  PROVE  DOMAIN WriteBlobs(m, prdt, data) = DOMAIN m
BY DEF WriteBlobs

LEMMA BufferSetTyped ==
  ASSUME NEW b, IsBuffer(b), NEW a, NEW data
  PROVE  IsBuffer(BufferSet(b, a, data)) /\ BufferSet(b, a, data).medium = b.medium
BY DEF BufferSet, IsBuffer

LEMMA HandleReadTyped ==
  ASSUME NEW b, IsBuffer(b), NEW c
  PROVE  IsBuffer(handle_read(b, c)) /\ handle_read(b, c).medium = b.medium
BY DEF handle_read, IsBuffer

-----------------------------------------------------------------------------
(* What the guest sees of a command's end *)

LEMMA WithDrive ==
  ASSUME NEW s, IsMachine(s), NEW e, IsDrive(e)
  PROVE  /\ IsMachine([s EXCEPT !.d = e]) /\ [s EXCEPT !.d = e].d = e
         /\ [s EXCEPT !.d = e].ch = s.ch /\ [s EXCEPT !.d = e].buf = s.buf
         /\ [s EXCEPT !.d = e].out = s.out /\ [s EXCEPT !.d = e].mem = s.mem
BY DEF IsMachine

(* The reads that are outstanding, and which of them are wanted. *)
SameIds(d, e) ==
  /\ e.in_progress = d.in_progress /\ e.cancelled = d.cancelled /\ e.last_io_id = d.last_io_id

Effect(s, t) ==
  /\ IsMachine(t) /\ SameIds(s.d, t.d) /\ t.out = s.out
  /\ t.ch.start = s.ch.start /\ t.ch.prdt = s.ch.prdt

(* A number of units that two registers can name.                          *)
Piece(n) == n \in 1 .. Base * Base - 1

(* Data are there, and the next piece of a packet's data is not empty.     *)
DataThere(d) ==
  /\ d.ptr < d.end /\ d.end <= d.len
  /\ d.cmd = "PACKET" /\ (d.reason = 1 \/ d.end < d.len) => Piece(d.mid + Base * d.high)

SameButStatus(d, e) == e = [d EXCEPT !.status = e.status]

Ended(s, e, st) == End([s EXCEPT !.d = e], st)

LEMMA EndEffect ==
  ASSUME NEW s, IsMachine(s), NEW e, IsDrive(e), SameIds(s.d, e), NEW st \in SUBSET S255
  PROVE  LET t == Ended(s, e, st)
         IN  /\ Effect(s, t) /\ t.ch.active = s.ch.active
             /\ SameButStatus(e, t.d) /\ t.buf = s.buf /\ t.mem = s.mem
             /\ t.d.status = st /\ t.d.cmd = e.cmd /\ t.d.ptr = e.ptr /\ t.d.end = e.end
             /\ t.d.len = e.len /\ t.d.reason = e.reason /\ t.d.mid = e.mid /\ t.d.high = e.high
<1> DEFINE u == [s EXCEPT !.d = e]
           t == End(u, st)
<1>1. /\ IsMachine(u) /\ u.d = e /\ u.ch = s.ch /\ u.buf = s.buf
      /\ u.out = s.out /\ u.mem = s.mem
  BY WithDrive
<1> HIDE DEF u
<1>2. /\ IsMachine(t) /\ SameBus(u, t) /\ t.d = [u.d EXCEPT !.status = st] /\ t.buf = u.buf
      /\ t.out = u.out /\ t.mem = u.mem
  BY <1>1, EndProps
<1> HIDE DEF t
<1>3. t.d = [e EXCEPT !.status = st]
  BY <1>1, <1>2
<1>4. /\ SameIds(e, t.d) /\ t.d.status = st /\ t.d.cmd = e.cmd /\ t.d.ptr = e.ptr
      /\ t.d.end = e.end /\ t.d.len = e.len /\ t.d.reason = e.reason /\ t.d.mid = e.mid
      /\ t.d.high = e.high /\ SameButStatus(e, t.d)
  BY <1>3 DEF IsDrive, SameIds, SameButStatus
<1>5. Effect(s, t) /\ t.ch.active = s.ch.active
  BY <1>1, <1>2, <1>4 DEF Effect, SameIds, SameBus
<1> QED
  BY <1>1, <1>2, <1>3, <1>4, <1>5 DEF t, u, Ended

LEMMA LeastProps ==
  ASSUME NEW a \in Int, NEW b \in Int
  PROVE  /\ Least(a, b) \in Int /\ Least(a, b) <= a /\ Least(a, b) <= b
         /\ a >= 1 /\ b >= 1 => Least(a, b) >= 1
BY DEF Least

LEMMA Statuses ==
  /\ S80 \in SUBSET S255 /\ S88 \in SUBSET S255 /\ S65 \in SUBSET S255
  /\ S89 \in SUBSET S255 /\ S208 \in SUBSET S255 /\ S255 \in SUBSET S255
BY DEF S80, S88, S65, S89, S208, S255

LEMMA PioComplete ==
  ASSUME NEW s, IsMachine(s), NEW k \in Wants, k.op = "pio", NEW data, Len(data) \in Nat
  PROVE  LET t == Complete(s, k, data)
         IN  /\ Effect(s, t) /\ t.ch.active = s.ch.active /\ t.buf = s.buf /\ t.mem = s.mem
             /\ t.d.status = S88 /\ t.d.cmd = s.d.cmd
             /\ Len(data) >= 1 /\ s.d.cmd # "PACKET" => DataThere(t.d)
<1> DEFINE v  == IF k.single THEN 1 ELSE Least(Len(data), s.d.drq)
           m  == IF k.single THEN 1 ELSE Least(Len(data), Spt)
           d1 == data_set(s.d, data)
           d2 == [d1 EXCEPT !.end = v]
           d3 == ata_advance(d2, k.cmd, m)
           t  == Ended(s, d3, S88)
<1>1. k.single \in BOOLEAN
  BY DEF Wants
<1>2. IsDrive(s.d)
  BY DEF IsMachine
<1>3. IsDrive(d1) /\ SameButData(s.d, d1) /\ d1.ptr = 0 /\ d1.len = Len(data)
  BY <1>2, DataSet
<1>4. v \in Int /\ m \in Int /\ (Len(data) >= 1 => 1 <= v /\ v <= Len(data))
  <2>1. s.d.drq \in Nat \ {0}
    BY <1>2 DEF IsDrive
  <2>2. Spt \in Nat \ {0}
    BY ConstantsTyped
  <2>3. \A a \in Nat, b \in Nat \ {0} :
          /\ Least(a, b) \in Int
          /\ a >= 1 => 1 <= Least(a, b) /\ Least(a, b) <= a
    BY DEF Least
  <2> HIDE DEF d1
  <2>4. CASE k.single
    BY <2>4
  <2>5. CASE ~k.single
    BY <2>1, <2>2, <2>3, <2>5
  <2> QED
    BY <2>4, <2>5
<1>5. t = Complete(s, k, data)
  BY DEF Complete, Ended
<1> HIDE DEF d1, v, m
<1>6. /\ IsDrive(d2) /\ d2.end = v /\ d2.ptr = d1.ptr /\ d2.len = d1.len /\ SameIds(d1, d2)
      /\ d2.cmd = d1.cmd
  BY <1>3, <1>4 DEF IsDrive, SameIds
<1> HIDE DEF d2
<1>7. IsDrive(d3) /\ SameButAddress(d2, d3)
  BY <1>4, <1>6, AdvanceTyped
<1> HIDE DEF d3
<1>8. SameIds(s.d, d3) /\ d3.end = v /\ d3.ptr = 0 /\ d3.len = Len(data) /\ d3.cmd = s.d.cmd
  BY <1>3, <1>6, <1>7 DEF SameIds, SameButAddress, SameButData
<1>9. /\ Effect(s, t) /\ t.ch.active = s.ch.active /\ t.buf = s.buf /\ t.mem = s.mem
      /\ t.d.status = S88 /\ t.d.cmd = s.d.cmd /\ t.d.end = v /\ t.d.ptr = 0
      /\ t.d.len = Len(data)
  BY <1>7, <1>8, EndEffect, Statuses
<1> HIDE DEF t
<1>10. Len(data) >= 1 /\ s.d.cmd # "PACKET" => DataThere(t.d)
  BY <1>4, <1>9 DEF DataThere
<1> QED
  BY <1>5, <1>9, <1>10

(* Data are moved to memory, and the bus master has done. *)
Moved(s, m, e) == [s EXCEPT !.mem = m, !.ch.active = FALSE, !.d = e]

LEMMA MovedProps ==
  ASSUME NEW s, IsMachine(s), NEW e, IsDrive(e), NEW m, DOMAIN m = DOMAIN s.mem
  PROVE  LET t == Moved(s, m, e)
         IN  /\ IsMachine(t) /\ t.d = e /\ t.buf = s.buf /\ t.out = s.out /\ t.mem = m
             /\ t.ch.start = s.ch.start /\ t.ch.prdt = s.ch.prdt /\ ~t.ch.active
<1> DEFINE c  == [s.ch EXCEPT !.active = FALSE]
           s1 == [s EXCEPT !.mem = m]
           s2 == [s1 EXCEPT !.ch = c]
           s3 == [s2 EXCEPT !.d = e]
<1>1. /\ IsMachine(s1) /\ s1.d = s.d /\ s1.buf = s.buf /\ s1.out = s.out /\ s1.mem = m
      /\ s1.ch = s.ch
  BY DEF IsMachine
<1>2. IsChannel(c) /\ c.active = FALSE /\ c.start = s.ch.start /\ c.prdt = s.ch.prdt
  BY DEF IsMachine, IsChannel
<1>3. s3 = Moved(s, m, e)
  BY <1>1 DEF Moved
<1> HIDE DEF c, s1
<1>4. /\ IsMachine(s2) /\ s2.buf = s1.buf /\ s2.out = s1.out /\ s2.mem = s1.mem
      /\ s2.ch = c
  BY <1>1, <1>2 DEF IsMachine
<1> HIDE DEF s2
<1>5. /\ IsMachine(s3) /\ s3.d = e /\ s3.buf = s2.buf /\ s3.out = s2.out /\ s3.mem = s2.mem
      /\ s3.ch = s2.ch
  BY <1>4 DEF IsMachine
<1> QED
  BY <1>1, <1>2, <1>3, <1>4, <1>5

LEMMA DmaComplete ==
  ASSUME NEW s, IsMachine(s), NEW k \in Wants, k.op = "dma", NEW data, Len(data) \in Nat
  PROVE  LET t == Complete(s, k, data)
         IN  /\ Effect(s, t) /\ t.buf = s.buf
             /\ t.d.status = S80 /\ t.d.cmd = "NONE" /\ ~t.ch.active
<1> DEFINE m  == WriteBlobs(s.mem, s.ch.prdt, data)
           n  == Len(data)
           d1 == ata_advance(s.d, s.d.cmd, n)
           d2 == [d1 EXCEPT !.cmd = "NONE"]
           u  == Moved(s, m, d2)
           t  == End(u, S80)
<1>1. n \in Int /\ IsDrive(s.d) /\ DOMAIN m = DOMAIN s.mem
  BY BlobsDomain DEF IsMachine
<1>2. t = Complete(s, k, data)
  BY DEF Complete, Moved
<1>3. IsDrive(d1) /\ SameButAddress(s.d, d1)
  BY <1>1, AdvanceTyped
<1> HIDE DEF d1, m, n
<1>4. IsDrive(d2) /\ SameIds(s.d, d2) /\ d2.cmd = "NONE"
  BY <1>3 DEF IsDrive, SameIds, SameButAddress
<1> HIDE DEF d2
<1>5. /\ IsMachine(u) /\ u.d = d2 /\ u.buf = s.buf /\ u.out = s.out
      /\ u.ch.start = s.ch.start /\ u.ch.prdt = s.ch.prdt /\ ~u.ch.active
  BY <1>1, <1>4, MovedProps
<1> HIDE DEF u
<1>6. /\ IsMachine(t) /\ SameBus(u, t) /\ t.d = [u.d EXCEPT !.status = S80] /\ t.buf = u.buf
      /\ t.out = u.out
  BY <1>5, EndProps, Statuses
<1>7. SameIds(d2, t.d) /\ t.d.status = S80 /\ t.d.cmd = "NONE"
  BY <1>4, <1>5, <1>6 DEF IsDrive, SameIds
<1> QED
  BY <1>2, <1>4, <1>5, <1>6, <1>7 DEF Effect, SameBus, SameIds

LEMMA AtapiDma ==
  ASSUME NEW s, IsMachine(s)
  PROVE  LET t == do_atapi_dma(s)
         IN  /\ Effect(s, t) /\ t.buf = s.buf /\ t.d.cmd = s.d.cmd /\ t.d.len = s.d.len
             /\ \/ t = s
                \/ t.d.status = S80 /\ t.d.reason = 3 /\ ~t.ch.active /\ s.ch.active /\ "DRQ" \in s.d.status
<1>1. CASE ~s.ch.active \/ "DRQ" \notin s.d.status
  BY <1>1 DEF do_atapi_dma, Effect, SameIds
<1>2. CASE ~(~s.ch.active \/ "DRQ" \notin s.d.status)
  <2> DEFINE m == WriteBlobs(s.mem, s.ch.prdt, SubSeq(s.d.data, 1, s.d.len))
             d1 == [s.d EXCEPT !.reason = 3]
             u  == Moved(s, m, d1)
             t  == End(u, S80)
  <2>1. t = do_atapi_dma(s)
    BY <1>2 DEF do_atapi_dma, Moved
  <2>2. IsDrive(s.d) /\ DOMAIN m = DOMAIN s.mem
    BY BlobsDomain DEF IsMachine
  <2> HIDE DEF m
  <2>3. /\ IsDrive(d1) /\ SameIds(s.d, d1) /\ d1.cmd = s.d.cmd /\ d1.len = s.d.len
        /\ d1.reason = 3
    BY <2>2 DEF IsDrive, SameIds
  <2> HIDE DEF d1
  <2>5. /\ IsMachine(u) /\ u.d = d1 /\ u.buf = s.buf /\ u.out = s.out
        /\ u.ch.start = s.ch.start /\ u.ch.prdt = s.ch.prdt /\ ~u.ch.active
    BY <2>2, <2>3, MovedProps
  <2> HIDE DEF u
  <2>6. /\ IsMachine(t) /\ SameBus(u, t) /\ t.d = [u.d EXCEPT !.status = S80] /\ t.buf = u.buf
        /\ t.out = u.out
    BY <2>5, EndProps, Statuses
  <2>7. /\ SameIds(d1, t.d) /\ t.d.status = S80 /\ t.d.cmd = d1.cmd /\ t.d.len = d1.len
        /\ t.d.reason = d1.reason
    BY <2>3, <2>5, <2>6 DEF IsDrive, SameIds
  <2> QED
    BY <1>2, <2>1, <2>3, <2>5, <2>6, <2>7 DEF Effect, SameBus, SameIds
<1> QED
  BY <1>1, <1>2

(* Two bytes say every word. *)
LEMMA TwoBytesSay ==
  ASSUME NEW n \in Words
  PROVE  /\ Byte(n) \in Words /\ Byte(n \div Base) \in Words
         /\ Byte(n) + Base * Byte(n \div Base) = n /\ Byte(n \div Base) = n \div Base
<1>1. n \in Nat /\ n < Base * Base /\ Base \in Nat /\ Base > 0
  BY ConstantsTyped DEF Words
<1>2. n \div Base \in Nat /\ (n \div Base) * Base <= n /\ (n \div Base) * Base + (n % Base) = n
  BY <1>1, DivProps
<1>3. n \div Base < Base
  <2> DEFINE q == n \div Base
  <2>1. q \in Nat /\ q * Base < Base * Base
    BY <1>1, <1>2
  <2> HIDE DEF q
  <2>2. q < Base
    BY <1>1, <2>1, MultiplesOrdered
  <2> QED
    BY <2>2 DEF q
<1>4. Byte(n \div Base) = n \div Base
  <2> DEFINE q == n \div Base
  <2>1. q \in Nat /\ q < Base
    BY <1>2, <1>3
  <2> HIDE DEF q
  <2>2. q % Base = q
    BY <1>1, <2>1, DivProps
  <2> QED
    BY <2>2 DEF q, Byte
<1>5. Byte(n) \in Words /\ Byte(n \div Base) \in Words
  BY <1>1, <1>2, ByteRange
<1>6. \A x, y \in Nat : x * y = y * x
  OBVIOUS
<1>7. Byte(n) = n % Base /\ n % Base \in Nat
  BY <1>1, DivProps DEF Byte
<1>8. Base * (n \div Base) = (n \div Base) * Base
  BY <1>1, <1>2, <1>6
<1> DEFINE q == n \div Base
           r == n % Base
<1>9. q * Base + r = n /\ Byte(q) = q /\ Byte(n) = r /\ Base * q = q * Base
  BY <1>2, <1>4, <1>7, <1>8
<1>10. q \in Nat /\ r \in Nat /\ q * Base \in Nat /\ Base \in Nat
  BY <1>1, <1>2, <1>7
<1> HIDE DEF q, r
<1>11. Byte(n) + Base * Byte(q) = n
  BY <1>9, <1>10
<1> QED
  BY <1>4, <1>5, <1>11 DEF q

LEMMA PacketComplete ==
  ASSUME NEW s, IsMachine(s), NEW k \in Wants, k.op = "packet", NEW data, Len(data) \in Nat \ {0}
  PROVE  LET t == Complete(s, k, data)
         IN  /\ Effect(s, t) /\ t.ch.active = s.ch.active /\ t.buf = s.buf /\ t.mem = s.mem
             /\ t.d.status = S88 /\ t.d.cmd = s.d.cmd /\ t.d.len = Len(data)
             /\ Piece(k.limit) => DataThere(t.d)
<1> DEFINE v  == Least(k.limit, Len(data))
           lo == Byte(v)
           hi == Byte(v \div Base)
           d1 == data_set(s.d, data)
           d2 == [d1 EXCEPT !.end = v]
           d3 == [d2 EXCEPT !.reason = 2]
           d4 == [d3 EXCEPT !.mid = lo]
           d5 == [d4 EXCEPT !.high = hi]
           t  == Ended(s, d5, S88)
<1>1. k.limit \in Int /\ Len(data) \in Nat \ {0}
  BY DEF Wants
<1>2. IsDrive(s.d)
  BY DEF IsMachine
<1>3. IsDrive(d1) /\ SameButData(s.d, d1) /\ d1.ptr = 0 /\ d1.len = Len(data)
  BY <1>2, DataSet
<1> HIDE DEF d1
<1>4. t = Complete(s, k, data)
  BY DEF Complete, Ended, d1
<1>5. v \in Int /\ (Piece(k.limit) => v \in Words /\ Piece(v) /\ v <= Len(data))
  <2>1. \A x \in Int, y \in Nat \ {0} :
          /\ Least(x, y) \in Int /\ Least(x, y) <= x /\ Least(x, y) <= y
          /\ x >= 1 => Least(x, y) >= 1
    BY DEF Least
  <2>2. v \in Int /\ v <= k.limit /\ v <= Len(data) /\ (k.limit >= 1 => v >= 1)
    BY <1>1, <2>1
  <2>3. Base * Base \in Int
    BY ConstantsTyped
  <2> HIDE DEF v
  <2> QED
    BY <1>1, <2>2, <2>3 DEF Words, Piece
<1>6. lo \in Words /\ hi \in Words /\ (v \in Words => lo + Base * hi = v)
  <2>1. v \div Base \in Int
    BY <1>5, RemainderRange, ConstantsTyped
  <2> HIDE DEF v
  <2> QED
    BY <1>5, <2>1, ByteRange, TwoBytesSay
<1> HIDE DEF v, lo, hi
<1>7. /\ IsDrive(d2) /\ d2.end = v /\ d2.ptr = d1.ptr /\ d2.len = d1.len /\ SameIds(d1, d2)
      /\ d2.cmd = d1.cmd
  <2>1. IsDrive(d1) /\ v \in Int
    BY <1>3, <1>5
  <2> QED
    BY <2>1 DEF IsDrive, SameIds
<1> HIDE DEF d2
<1>8. /\ IsDrive(d3) /\ d3.end = d2.end /\ d3.ptr = d2.ptr /\ d3.len = d2.len /\ SameIds(d2, d3)
      /\ d3.cmd = d2.cmd
  BY <1>7 DEF IsDrive, SameIds
<1> HIDE DEF d3
<1>9. /\ IsDrive(d4) /\ d4.end = d3.end /\ d4.ptr = d3.ptr /\ d4.len = d3.len /\ SameIds(d3, d4)
      /\ d4.cmd = d3.cmd /\ d4.mid = lo
  BY <1>6, <1>8 DEF IsDrive, SameIds
<1> HIDE DEF d4
<1>10. /\ IsDrive(d5) /\ d5.end = d4.end /\ d5.ptr = d4.ptr /\ d5.len = d4.len /\ SameIds(d4, d5)
       /\ d5.cmd = d4.cmd /\ d5.mid = d4.mid /\ d5.high = hi
  BY <1>6, <1>9 DEF IsDrive, SameIds
<1> HIDE DEF d5
<1>11. /\ SameIds(s.d, d5) /\ d5.end = v /\ d5.ptr = 0 /\ d5.len = Len(data) /\ d5.cmd = s.d.cmd
       /\ d5.mid = lo /\ d5.high = hi
  BY <1>3, <1>7, <1>8, <1>9, <1>10 DEF SameIds, SameButData
<1>12. /\ Effect(s, t) /\ t.ch.active = s.ch.active /\ t.buf = s.buf /\ t.mem = s.mem
       /\ t.d.status = S88 /\ t.d.cmd = s.d.cmd /\ t.d.end = v /\ t.d.ptr = 0
       /\ t.d.len = Len(data) /\ t.d.mid = lo /\ t.d.high = hi
  BY <1>10, <1>11, EndEffect, Statuses
<1> HIDE DEF t
<1>13. Piece(k.limit) => DataThere(t.d)
  BY <1>5, <1>6, <1>12 DEF DataThere, Words, Piece
<1> QED
  BY <1>4, <1>12, <1>13

LEMMA PacketDmaComplete ==
  ASSUME NEW s, IsMachine(s), NEW k \in Wants, k.op = "packet_dma", NEW data, Len(data) \in Nat
  PROVE  LET t == Complete(s, k, data)
         IN  /\ Effect(s, t) /\ t.buf = s.buf /\ t.d.status \in {S80, S88}
             /\ t.d.cmd = s.d.cmd /\ t.d.len = Len(data) /\ t.d.reason # 1
<1> DEFINE d1 == data_set(s.d, data)
           d2 == [d1 EXCEPT !.status = S88]
           d3 == [d2 EXCEPT !.reason = 2]
           u  == [s EXCEPT !.d = d3]
           t  == do_atapi_dma(u)
<1>1. t = Complete(s, k, data)
  BY DEF Complete
<1>2. IsDrive(d1) /\ SameButData(s.d, d1) /\ d1.ptr = 0 /\ d1.len = Len(data)
  BY DataSet DEF IsMachine
<1> HIDE DEF d1
<1>3. /\ IsDrive(d2) /\ d2.len = d1.len /\ SameIds(d1, d2) /\ d2.cmd = d1.cmd /\ d2.status = S88
  BY <1>2, Statuses DEF IsDrive, SameIds
<1> HIDE DEF d2
<1>4. /\ IsDrive(d3) /\ d3.len = d2.len /\ SameIds(d2, d3) /\ d3.cmd = d2.cmd /\ d3.status = d2.status
      /\ d3.reason = 2
  BY <1>3 DEF IsDrive, SameIds
<1> HIDE DEF d3
<1>5. SameIds(s.d, d3) /\ d3.len = Len(data) /\ d3.cmd = s.d.cmd /\ d3.status = S88
      /\ d3.reason = 2
  BY <1>2, <1>3, <1>4 DEF SameIds, SameButData
<1>6. /\ IsMachine(u) /\ u.d = d3 /\ u.ch = s.ch /\ u.buf = s.buf
      /\ u.out = s.out /\ u.mem = s.mem
  BY <1>4, WithDrive
<1> HIDE DEF u
<1>7. /\ Effect(u, t) /\ t.buf = u.buf /\ t.d.cmd = u.d.cmd /\ t.d.len = u.d.len
      /\ t.d.status \in {u.d.status, S80} /\ (t = u \/ t.d.reason = 3)
  BY <1>6, AtapiDma
<1> QED
  BY <1>1, <1>5, <1>6, <1>7 DEF Effect, SameIds

-----------------------------------------------------------------------------
(* Reads of the buffer *)

IsRead(r) ==
  /\ r \in [id : Nat, a : {r.a}, n : Int, k : Wants, medium : {r.medium}, wait : {r.wait},
            have : {r.have}]
  /\ r.k.op \in {"pio", "packet"} => r.n >= 1

(* Every outstanding read is known, once, and no other.                    *)
Ids(s) ==
  /\ \A r \in s.out : IsRead(r) /\ r.id \in s.d.in_progress \cup s.d.cancelled
  /\ \A i \in s.d.in_progress \cup s.d.cancelled :
       i < s.d.last_io_id /\ \E r \in s.out : r.id = i
  /\ \A r, q \in s.out : r.id = q.id => r = q
  /\ s.d.in_progress \cap s.d.cancelled = {}

(* The state in which the drive waits for a read of kind k.                *)
Fits(k, s) ==
  /\ k.op = "dma" => s.ch.start /\ s.ch.active /\ s.d.cmd \in DmaReads
  /\ k.op = "pio" => s.d.cmd \in PioReads
  /\ k.op \in {"packet", "packet_dma"} => s.d.cmd = "PACKET"
  /\ k.op = "packet" => Piece(k.limit)
  /\ k.op # "dma" <=> s.d.status = S208

(* At most one read is wanted, and the drive is in a state that fits it.   *)
Busy(s) ==
  /\ \A i, j \in s.d.in_progress : i = j
  /\ \A r \in s.out : r.id \in s.d.in_progress => Fits(r.k, s)
  /\ s.d.status = S208 => \E r \in s.out : r.id \in s.d.in_progress /\ r.k.op # "dma"

(* A drive that waits for nothing. *)
LEMMA Idle ==
  ASSUME NEW s, s.d.in_progress = {}, s.d.status # S208
  PROVE  Busy(s)
BY DEF Busy

LEMMA StatusesDiffer ==
  /\ S80 # S88 /\ S80 # S208 /\ S88 # S208 /\ S65 # S208 /\ S65 # S88 /\ S89 # S208 /\ S89 # S88
  /\ S255 # S208 /\ S255 # S88 /\ {} # S208 /\ {} # S88 /\ S80 # S65
  /\ "BSY" \in S208 /\ "BSY" \notin S88 /\ "DRQ" \notin S208 /\ "DRQ" \in S88
BY DEF S80, S88, S65, S89, S208, S255

LEMMA EffectIds ==
  ASSUME NEW s, Ids(s), NEW t, SameIds(s.d, t.d), t.out = s.out
  PROVE  Ids(t)
BY DEF Ids, SameIds

(* What a command makes of the answer. *)
LEMMA CompleteProps ==
  ASSUME NEW s, IsMachine(s), NEW k \in Wants, NEW data, Len(data) \in Nat,
         k.op \in {"pio", "packet"} => Len(data) >= 1
  PROVE  LET t == Complete(s, k, data)
         IN  /\ Effect(s, t) /\ t.buf = s.buf /\ t.d.status \in {S80, S88}
             /\ k.op = "pio" /\ s.d.cmd # "PACKET" => DataThere(t.d)
             /\ k.op = "packet" /\ Piece(k.limit) => DataThere(t.d)
             /\ k.op = "packet_dma" => t.d.reason # 1
             /\ k.op = "dma" => t.d.status = S80
<1>1. CASE k.op = "pio"
  BY <1>1, PioComplete
<1>2. CASE k.op = "dma"
  BY <1>2, DmaComplete
<1>3. CASE k.op = "packet"
  BY <1>3, PacketComplete
<1>4. CASE k.op = "packet_dma"
  BY <1>4, PacketDmaComplete
<1>5. k.op \in {"pio", "dma", "packet", "packet_dma"}
  BY DEF Wants
<1> QED
  BY <1>1, <1>2, <1>3, <1>4, <1>5

(* A read that has to wait. *)
Queued(s, a, n, k) ==
  [[s EXCEPT !.d.last_io_id = @ + 1]
     EXCEPT !.d.in_progress = @ \cup {s.d.last_io_id},
            !.out = @ \cup {[id |-> s.d.last_io_id, a |-> a, n |-> n, k |-> k,
                             medium |-> s.buf.medium, wait |-> Asked(s.buf, a, n),
                             have |-> Copied(s.buf, a, n)]}]

LEMMA QueuedProps ==
  ASSUME NEW s, IsMachine(s), Ids(s), NEW a, NEW n \in Int, NEW k \in Wants,
         k.op \in {"pio", "packet"} => n >= 1
  PROVE  LET t == Queued(s, a, n, k)
         IN  /\ IsMachine(t) /\ Ids(t) /\ t.buf = s.buf /\ t.ch = s.ch
             /\ t.d.status = s.d.status /\ t.d.cmd = s.d.cmd
             /\ s.d.in_progress = {} /\ Fits(k, s) =>
                  Busy(t) /\ \A r \in t.out : r.id \in t.d.in_progress => r.k = k
<1> DEFINE id == s.d.last_io_id
           r  == [id |-> id, a |-> a, n |-> n, k |-> k, medium |-> s.buf.medium,
                  wait |-> Asked(s.buf, a, n), have |-> Copied(s.buf, a, n)]
           p  == s.d.in_progress \cup {id}
           o  == s.out \cup {r}
           d1 == [s.d EXCEPT !.last_io_id = id + 1]
           d2 == [d1 EXCEPT !.in_progress = p]
           s1 == [s EXCEPT !.d = d1]
           s2 == [s1 EXCEPT !.d = d2]
           t  == [s2 EXCEPT !.out = o]
<1>1. IsDrive(s.d) /\ id \in Nat /\ p \in SUBSET Nat
  BY DEF IsMachine, IsDrive
<1>2. IsRead(r) /\ r.id = id /\ r.k = k
  <2> DEFINE w == Asked(s.buf, a, n)
             h == Copied(s.buf, a, n)
             m == s.buf.medium
  <2> HIDE DEF w, h, m, id
  <2> QED
    BY <1>1 DEF IsRead
<1> HIDE DEF r, p
<1>3. IsDrive(d1) /\ d1.last_io_id = id + 1 /\ d1.in_progress = s.d.in_progress
      /\ d1.cancelled = s.d.cancelled /\ d1.status = s.d.status /\ d1.cmd = s.d.cmd
  BY <1>1 DEF IsDrive
<1>4. t = Queued(s, a, n, k)
  BY <1>3 DEF Queued, IsMachine, r, p
<1> HIDE DEF d1
<1>5. IsDrive(d2) /\ d2.last_io_id = id + 1 /\ d2.in_progress = p
      /\ d2.cancelled = s.d.cancelled /\ d2.status = s.d.status /\ d2.cmd = s.d.cmd
  BY <1>1, <1>3 DEF IsDrive
<1> HIDE DEF d2
<1>6. IsMachine(s1) /\ s1.d = d1 /\ s1.buf = s.buf /\ s1.out = s.out /\ s1.mem = s.mem
      /\ s1.ch = s.ch
  BY <1>3, WithDrive
<1> HIDE DEF s1
<1>7. IsMachine(s2) /\ s2.d = d2 /\ s2.buf = s.buf /\ s2.out = s.out /\ s2.mem = s.mem
      /\ s2.ch = s.ch
  BY <1>5, <1>6, WithDrive
<1> HIDE DEF s2, o
<1>8. IsMachine(t) /\ t.d = d2 /\ t.buf = s.buf /\ t.out = o /\ t.mem = s.mem
      /\ t.ch = s.ch
  BY <1>7 DEF IsMachine
<1> HIDE DEF t
<1>9. \A i \in s.d.in_progress \cup s.d.cancelled : i \in Nat /\ i < id
  BY <1>1 DEF Ids, IsDrive
<1>10. Ids(t)
  <2>1. \A q \in o : IsRead(q) /\ q.id \in d2.in_progress \cup d2.cancelled
    BY <1>2, <1>5 DEF o, p, Ids
  <2>2. \A i \in d2.in_progress \cup d2.cancelled : i < d2.last_io_id /\ \E q \in o : q.id = i
    <3>1. TAKE i \in d2.in_progress \cup d2.cancelled
    <3>2. CASE i = id
      BY <1>1, <1>2, <1>5, <3>2 DEF o
    <3>3. CASE i # id
      <4>1. i \in s.d.in_progress \cup s.d.cancelled
        BY <1>5, <3>3 DEF p
      <4>2. i \in Nat /\ i < id /\ i < id + 1
        BY <1>1, <1>9, <4>1
      <4> QED
        BY <1>5, <4>1, <4>2 DEF Ids, o
    <3> QED
      BY <3>2, <3>3
  <2>3. \A q \in s.out : q.id # id
    BY <1>1, <1>9 DEF Ids
  <2>4. \A q1, q2 \in o : q1.id = q2.id => q1 = q2
    BY <1>2, <2>3 DEF Ids, o
  <2>5. d2.in_progress \cap d2.cancelled = {}
    BY <1>1, <1>5, <1>9 DEF Ids, p
  <2> QED
    BY <1>8, <2>1, <2>2, <2>4, <2>5 DEF Ids
<1>11. ASSUME s.d.in_progress = {}, Fits(k, s)
       PROVE  Busy(t) /\ \A q \in t.out : q.id \in t.d.in_progress => q.k = k
  <2>1. t.d.in_progress = {id} /\ t.d.status = s.d.status /\ t.d.cmd = s.d.cmd
    BY <1>5, <1>8, <1>11 DEF p
  <2>2. Fits(k, t)
    BY <1>8, <1>11, <2>1 DEF Fits
  <2>3. \A q \in t.out : q.id \in t.d.in_progress => q = r
    BY <1>2, <1>8, <1>10, <2>1 DEF Ids, o
  <2>4. t.d.status = S208 => k.op # "dma"
    BY <2>2 DEF Fits
  <2>5. r \in t.out /\ r.id \in t.d.in_progress
    BY <1>2, <1>8, <2>1 DEF o
  <2> QED
    BY <1>2, <2>1, <2>2, <2>3, <2>4, <2>5 DEF Busy
<1> QED
  BY <1>4, <1>5, <1>8, <1>10, <1>11

LEMMA ReadBuffer ==
  ASSUME NEW s, IsMachine(s), Ids(s), NEW a, NEW n \in Int, NEW k \in Wants,
         k.op \in {"pio", "packet"} => n >= 1
  PROVE  LET t == read_buffer(s, a, n, k)
         IN  /\ IsMachine(t) /\ Ids(t) /\ t.buf = s.buf
             /\ t.d.status \in {s.d.status, S80, S88}
             /\ s.d.in_progress = {} /\ Fits(k, s) =>
                  /\ Busy(t) /\ \A r \in t.out : r.id \in t.d.in_progress => r.k = k
                  /\ k.op \in {"pio", "packet"} /\ t.d.status = S88 => DataThere(t.d)
                  /\ k.op = "packet_dma" /\ t.d.status = S88 => t.d.reason # 1
                  /\ k.op = "dma" /\ t.d.status = S88 => t.d.cmd # "PACKET"
<1> DEFINE t == read_buffer(s, a, n, k)
           d1 == [s.d EXCEPT !.last_io_id = @ + 1]
           u == [s EXCEPT !.d = d1]
           data == Fetch(s.buf, a, n)
<1>1. CASE Cached(s.buf, a, n)
  <2>1. t = Complete(u, k, data)
    BY <1>1 DEF read_buffer
  <2>2. IsDrive(s.d)
    BY DEF IsMachine
  <2>3. /\ IsDrive(d1) /\ d1.last_io_id = s.d.last_io_id + 1 /\ d1.in_progress = s.d.in_progress
        /\ d1.cancelled = s.d.cancelled /\ d1.status = s.d.status /\ d1.cmd = s.d.cmd
    BY <2>2 DEF IsDrive
  <2> HIDE DEF d1
  <2>4. IsMachine(u) /\ u.d = d1 /\ u.buf = s.buf /\ u.out = s.out /\ u.mem = s.mem
        /\ u.ch = s.ch
    BY <2>3, WithDrive
  <2> HIDE DEF u
  <2>5. Len(data) \in Nat /\ (k.op \in {"pio", "packet"} => Len(data) >= 1)
    BY FetchLength
  <2> HIDE DEF data
  <2>6. /\ Effect(u, t) /\ t.buf = u.buf /\ t.d.status \in {S80, S88}
        /\ k.op = "pio" /\ u.d.cmd # "PACKET" => DataThere(t.d)
        /\ k.op = "packet" /\ Piece(k.limit) => DataThere(t.d)
        /\ k.op = "packet_dma" => t.d.reason # 1
        /\ k.op = "dma" => t.d.status = S80
    BY <2>1, <2>4, <2>5, CompleteProps
  <2> HIDE DEF t
  <2>7. Ids(u)
    <3>1. \A i \in s.d.in_progress \cup s.d.cancelled : i < u.d.last_io_id
      BY <2>2, <2>3, <2>4 DEF Ids, IsDrive
    <3> QED
      BY <3>1, <2>3, <2>4 DEF Ids
  <2>8. Ids(t)
    BY <2>6, <2>7, EffectIds DEF Effect
  <2>9. ASSUME s.d.in_progress = {}, Fits(k, s)
        PROVE  /\ Busy(t) /\ \A r \in t.out : r.id \in t.d.in_progress => r.k = k
               /\ k.op \in {"pio", "packet"} /\ t.d.status = S88 => DataThere(t.d)
               /\ k.op = "packet_dma" /\ t.d.status = S88 => t.d.reason # 1
               /\ k.op = "dma" /\ t.d.status = S88 => t.d.cmd # "PACKET"
    <3>1. t.d.in_progress = {} /\ t.d.status # S208
      BY <2>3, <2>4, <2>6, <2>9, StatusesDiffer DEF Effect, SameIds
    <3>2. k.op = "pio" => u.d.cmd # "PACKET"
      BY <2>3, <2>4, <2>9 DEF Fits, PioReads
    <3> QED
      BY <2>6, <2>9, <3>1, <3>2, Idle, StatusesDiffer DEF Fits
  <2> QED
    BY <2>4, <2>6, <2>8, <2>9 DEF Effect, t
<1>2. CASE ~Cached(s.buf, a, n)
  <2>1. t = Queued(s, a, n, k)
    <3>1. t = IF Cached(s.buf, a, n) THEN Complete(u, k, data) ELSE Queued(s, a, n, k)
      BY DEF read_buffer, Queued
    <3> HIDE DEF t
    <3> QED
      BY <1>2, <3>1
  <2> HIDE DEF t
  <2>2. /\ IsMachine(t) /\ Ids(t) /\ t.buf = s.buf /\ t.ch = s.ch
        /\ t.d.status = s.d.status /\ t.d.cmd = s.d.cmd
        /\ s.d.in_progress = {} /\ Fits(k, s) =>
             Busy(t) /\ \A r \in t.out : r.id \in t.d.in_progress => r.k = k
    <3> DEFINE q == Queued(s, a, n, k)
    <3>1. /\ IsMachine(q) /\ Ids(q) /\ q.buf = s.buf /\ q.ch = s.ch
          /\ q.d.status = s.d.status /\ q.d.cmd = s.d.cmd
          /\ s.d.in_progress = {} /\ Fits(k, s) =>
               Busy(q) /\ \A r \in q.out : r.id \in q.d.in_progress => r.k = k
      BY QueuedProps
    <3> HIDE DEF q
    <3>2. t = q
      BY <2>1 DEF q
    <3> QED
      BY <3>1, <3>2
  <2>3. Fits(k, s) /\ k.op # "dma" => s.d.status # S88
    BY StatusesDiffer DEF Fits
  <2>4. Fits(k, s) /\ k.op = "dma" => t.d.cmd # "PACKET"
    BY <2>2 DEF Fits, DmaReads
  <2> QED
    BY <2>2, <2>3, <2>4 DEF t
<1> QED
  BY <1>1, <1>2

-----------------------------------------------------------------------------
(* Commands *)

(* What is true until a command's transfer ends: the data that the drive   *)
(* offers are there when no bus master moves them, and it can take the     *)
(* packet that it asks for.                                                *)
Offers(d, prdt) == d.status = S88 /\ (prdt = << >> \/ (d.cmd = "PACKET" /\ d.reason = 1))

Waits(s, prdt) ==
  /\ Busy(s)
  /\ Offers(s.d, prdt) => DataThere(s.d)
  /\ prdt = << >> => \A r \in s.out : r.id \in s.d.in_progress => r.k.op \in {"pio", "packet"}

(* What a handler that starts from a drive without reads leaves.           *)
LeavesIf(s, t, prdt, ok) ==
  IsMachine(t) /\ Ids(t) /\ t.buf.medium = s.buf.medium
  /\ (s.d.in_progress = {} /\ ok => Waits(t, prdt))

Leaves(s, t, prdt) ==
  IsMachine(t) /\ Ids(t) /\ t.buf.medium = s.buf.medium
  /\ (s.d.in_progress = {} => Waits(t, prdt))

LEMMA IfLeaves ==
  ASSUME NEW s, NEW t, NEW prdt, NEW ok \in BOOLEAN
  PROVE  /\ Leaves(s, t, prdt) => LeavesIf(s, t, prdt, ok)
         /\ ok /\ LeavesIf(s, t, prdt, ok) => Leaves(s, t, prdt)
BY DEF Leaves, LeavesIf

LEMMA EndIsEnded ==
  ASSUME NEW s, IsMachine(s), NEW st
  PROVE  End(s, st) = Ended(s, s.d, st)
<1>1. [s EXCEPT !.d = s.d] = s
  BY DEF IsMachine
<1> QED
  BY <1>1 DEF Ended

LEMMA EndedLeaves ==
  ASSUME NEW s, IsMachine(s), Ids(s), NEW e, IsDrive(e), SameIds(s.d, e),
         NEW st \in SUBSET S255, st # S208, NEW prdt,
         st = S88 /\ (prdt = << >> \/ (e.cmd = "PACKET" /\ e.reason = 1)) => DataThere(e)
  PROVE  Leaves(s, Ended(s, e, st), prdt)
<1> DEFINE t == Ended(s, e, st)
<1>1. /\ Effect(s, t) /\ t.ch.active = s.ch.active /\ t.buf = s.buf /\ t.mem = s.mem
      /\ t.d.status = st /\ t.d.cmd = e.cmd /\ t.d.ptr = e.ptr /\ t.d.end = e.end
      /\ t.d.len = e.len /\ t.d.reason = e.reason /\ t.d.mid = e.mid /\ t.d.high = e.high
  BY EndEffect
<1> HIDE DEF t
<1>2. IsMachine(t) /\ Ids(t) /\ t.buf.medium = s.buf.medium
  BY <1>1, EffectIds DEF Effect
<1>3. ASSUME s.d.in_progress = {} PROVE Waits(t, prdt)
  <2>1. t.d.in_progress = {}
    BY <1>1, <1>3 DEF Effect, SameIds
  <2>2. Busy(t)
    BY <1>1, <2>1, Idle
  <2>3. Offers(t.d, prdt) => DataThere(t.d)
    BY <1>1 DEF DataThere, Offers
  <2> QED
    BY <2>1, <2>2, <2>3 DEF Waits
<1> QED
  BY <1>2, <1>3 DEF Leaves, t

LEMMA EndLeaves ==
  ASSUME NEW s, IsMachine(s), Ids(s), NEW st \in SUBSET S255, st # S208, st # S88, NEW prdt
  PROVE  Leaves(s, End(s, st), prdt)
<1>1. IsDrive(s.d) /\ SameIds(s.d, s.d)
  BY DEF IsMachine, SameIds
<1> QED
  BY <1>1, EndIsEnded, EndedLeaves

Shown(s, e) == [s EXCEPT !.d = e]

LEMMA ShownLeaves ==
  ASSUME NEW s, IsMachine(s), Ids(s), NEW e, IsDrive(e), SameIds(s.d, e),
         e.status # S208, NEW prdt, Offers(e, prdt) => DataThere(e)
  PROVE  Leaves(s, Shown(s, e), prdt)
<1> DEFINE t == Shown(s, e)
<1>1. /\ IsMachine(t) /\ t.d = e /\ t.ch = s.ch /\ t.buf = s.buf
      /\ t.out = s.out /\ t.mem = s.mem
  BY WithDrive DEF Shown
<1> HIDE DEF t
<1>2. Ids(t)
  BY <1>1, EffectIds
<1>3. ASSUME s.d.in_progress = {} PROVE Waits(t, prdt)
  <2>1. t.d.in_progress = {}
    BY <1>1, <1>3 DEF SameIds
  <2> QED
    BY <1>1, <2>1, Idle DEF Waits
<1> QED
  BY <1>1, <1>2, <1>3 DEF Leaves, t

LEMMA IrqLowered ==
  ASSUME NEW s, IsMachine(s)
  PROVE  LET t == [s EXCEPT !.ch.irq = FALSE]
         IN  /\ IsMachine(t) /\ t.d = s.d /\ t.buf = s.buf /\ t.out = s.out /\ t.mem = s.mem
             /\ SameBus(s, t)
BY DEF IsMachine, IsChannel, SameBus

Lowered(t) == [t EXCEPT !.ch.irq = FALSE]

LEMMA IrqLeaves ==
  ASSUME NEW s, NEW t, NEW prdt, Leaves(s, t, prdt)
  PROVE  Leaves(s, Lowered(t), prdt)
<1> DEFINE u == Lowered(t)
<1>1. /\ IsMachine(u) /\ u.d = t.d /\ u.buf = t.buf /\ u.out = t.out /\ u.mem = t.mem
      /\ SameBus(t, u)
  BY IrqLowered DEF Leaves, Lowered
<1> HIDE DEF u
<1>2. Ids(t) => Ids(u)
  BY <1>1, EffectIds DEF SameIds
<1>3. Busy(t) => Busy(u)
  BY <1>1 DEF Busy, Fits, SameBus
<1> QED
  BY <1>1, <1>2, <1>3 DEF Leaves, Waits, u

LEMMA PushLeaves ==
  ASSUME NEW s, NEW t, NEW prdt, Leaves(s, t, prdt)
  PROVE  Leaves(s, push_irq(t), prdt)
<1> DEFINE u == push_irq(t)
<1>1. /\ IsMachine(u) /\ u.d = t.d /\ u.buf = t.buf /\ u.out = t.out /\ u.mem = t.mem
      /\ SameBus(t, u)
  BY PushIrq DEF Leaves
<1> HIDE DEF u
<1>2. Ids(t) => Ids(u)
  BY <1>1, EffectIds DEF SameIds
<1>3. Busy(t) => Busy(u)
  BY <1>1 DEF Busy, Fits, SameBus
<1> QED
  BY <1>1, <1>2, <1>3 DEF Leaves, Waits, u

LEMMA LeavesFrom ==
  ASSUME NEW s, NEW s1, NEW t, NEW prdt, Leaves(s1, t, prdt),
         s1.d.in_progress = s.d.in_progress, s1.buf.medium = s.buf.medium
  PROVE  Leaves(s, t, prdt)
BY DEF Leaves

(* The signature and other small numbers fit the registers. *)
LEMMA SignatureTyped ==
  20 % Base \in Words /\ 235 % Base \in Words /\ 0 \in Words /\ 1 \in Words
<1>1. Byte(20) \in Words /\ Byte(235) \in Words
  BY ByteRange
<1>2. 0 \in Words /\ 1 \in Words
  BY ConstantsTyped DEF Words
<1> QED
  BY <1>1, <1>2 DEF Byte

(* Cancelling, and a reset of the drive. *)
LEMMA DeviceReset ==
  ASSUME NEW d, IsDrive(d)
  PROVE  LET e == device_reset(d)
         IN  /\ IsDrive(e) /\ e.in_progress = {} /\ e.cancelled = d.cancelled \cup d.in_progress
             /\ e.last_io_id = d.last_io_id /\ e.status \in {{}, S65} /\ e.cmd = d.cmd
<1> DEFINE st == IF d.atapi THEN {} ELSE S65
           lo == IF d.atapi THEN 20 % Base ELSE 0
           hi == IF d.atapi THEN 235 % Base ELSE 0
           d1 == [d EXCEPT !.status = st]
           d2 == [d1 EXCEPT !.low = 1]
           d3 == [d2 EXCEPT !.count = 1]
           d4 == [d3 EXCEPT !.mid = lo]
           d5 == [d4 EXCEPT !.high = hi]
           c  == d5.cancelled \cup d5.in_progress
           d6 == [d5 EXCEPT !.cancelled = c]
           d7 == [d6 EXCEPT !.in_progress = {}]
<1>0. lo \in Words /\ hi \in Words /\ 1 \in Words /\ st \in SUBSET S255 /\ st \in {{}, S65}
  <2>1. 20 % Base \in Words /\ 235 % Base \in Words /\ 0 \in Words /\ 1 \in Words
    BY SignatureTyped
  <2> QED
    BY <2>1, Statuses
<1>1. device_reset(d) = d7
  <2>1. d3 = [d EXCEPT !.status = st, !.low = 1, !.count = 1]
    OBVIOUS
  <2>2. d5 = IF d.atapi THEN Signed(d3) ELSE [d3 EXCEPT !.mid = 0, !.high = 0]
    BY DEF Signed
  <2> HIDE DEF d5
  <2> QED
    BY <2>1, <2>2 DEF device_reset, cancel_io_operations
<1> HIDE DEF st, lo, hi, c
<1>2. IsDrive(d1) /\ SameIds(d, d1) /\ d1.status = st /\ d1.cmd = d.cmd
  BY <1>0 DEF IsDrive, SameIds
<1> HIDE DEF d1
<1>3. IsDrive(d2) /\ SameIds(d1, d2) /\ d2.status = d1.status /\ d2.cmd = d1.cmd
  BY <1>0, <1>2 DEF IsDrive, SameIds
<1> HIDE DEF d2
<1>4. IsDrive(d3) /\ SameIds(d2, d3) /\ d3.status = d2.status /\ d3.cmd = d2.cmd
  BY <1>3 DEF IsDrive, SameIds
<1> HIDE DEF d3
<1>5. IsDrive(d4) /\ SameIds(d3, d4) /\ d4.status = d3.status /\ d4.cmd = d3.cmd
  BY <1>0, <1>4 DEF IsDrive, SameIds
<1> HIDE DEF d4
<1>6. IsDrive(d5) /\ SameIds(d4, d5) /\ d5.status = d4.status /\ d5.cmd = d4.cmd
  BY <1>0, <1>5 DEF IsDrive, SameIds
<1> HIDE DEF d5
<1>7. c \in SUBSET Nat
  BY <1>6 DEF IsDrive, c
<1>8. IsDrive(d6) /\ d6.status = d5.status /\ d6.cmd = d5.cmd /\ d6.cancelled = c
      /\ d6.last_io_id = d5.last_io_id
  BY <1>6, <1>7 DEF IsDrive
<1> HIDE DEF d6
<1>9. IsDrive(d7) /\ d7.status = d6.status /\ d7.cmd = d6.cmd /\ d7.cancelled = d6.cancelled
      /\ d7.last_io_id = d6.last_io_id /\ d7.in_progress = {}
  BY <1>8 DEF IsDrive
<1> HIDE DEF d7
<1>10. c = d.cancelled \cup d.in_progress
  BY <1>2, <1>3, <1>4, <1>5, <1>6 DEF SameIds, c
<1> QED
  BY <1>0, <1>1, <1>2, <1>3, <1>4, <1>5, <1>6, <1>8, <1>9, <1>10 DEF SameIds

(* Whatever was wanted is cancelled. *)
LEMMA CancelledIds ==
  ASSUME NEW s, IsMachine(s), Ids(s), NEW t, t.out = s.out, t.d.in_progress = {},
         t.d.cancelled = s.d.cancelled \cup s.d.in_progress, t.d.last_io_id = s.d.last_io_id
  PROVE  Ids(t)
BY DEF Ids

LEMMA StatusSet ==
  ASSUME NEW s, IsMachine(s), Ids(s), NEW st \in SUBSET S255
  PROVE  LET t == [s EXCEPT !.d.status = st]
         IN  /\ IsMachine(t) /\ Ids(t) /\ t.d.status = st /\ t.d.cmd = s.d.cmd
             /\ t.d.count = s.d.count /\ t.d.in_progress = s.d.in_progress
             /\ t.ch = s.ch /\ t.buf = s.buf
<1> DEFINE e == [s.d EXCEPT !.status = st]
           t == [s EXCEPT !.d = e]
<1>1. IsDrive(e) /\ SameIds(s.d, e) /\ e.status = st /\ e.cmd = s.d.cmd /\ e.count = s.d.count
  BY DEF IsMachine, IsDrive, SameIds
<1> HIDE DEF e
<1>2. /\ IsMachine(t) /\ t.d = e /\ t.ch = s.ch /\ t.buf = s.buf
      /\ t.out = s.out /\ t.mem = s.mem
  BY <1>1, WithDrive
<1> HIDE DEF t
<1>3. Ids(t)
  BY <1>1, <1>2, EffectIds
<1> QED
  BY <1>1, <1>2, <1>3 DEF t, e, SameIds

(* A read on the guest's behalf. *)
LEMMA ReadLeaves ==
  ASSUME NEW s, IsMachine(s), Ids(s), NEW a, NEW n \in Int, NEW k \in Wants,
         k.op \in {"pio", "packet"} => n >= 1,
         NEW prdt, prdt = << >> => k.op \in {"pio", "packet"}
  PROVE  LeavesIf(s, read_buffer(s, a, n, k), prdt, Fits(k, s))
<1> DEFINE t == read_buffer(s, a, n, k)
<1>1. /\ IsMachine(t) /\ Ids(t) /\ t.buf = s.buf
      /\ s.d.in_progress = {} /\ Fits(k, s) =>
           /\ Busy(t) /\ \A r \in t.out : r.id \in t.d.in_progress => r.k = k
           /\ k.op \in {"pio", "packet"} /\ t.d.status = S88 => DataThere(t.d)
           /\ k.op = "packet_dma" /\ t.d.status = S88 => t.d.reason # 1
           /\ k.op = "dma" /\ t.d.status = S88 => t.d.cmd # "PACKET"
  BY ReadBuffer
<1> HIDE DEF t
<1>2. k.op \in {"pio", "dma", "packet", "packet_dma"}
  BY DEF Wants
<1> QED
  BY <1>1, <1>2 DEF LeavesIf, Waits, Offers, t

LEMMA CountOfPio ==
  ASSUME NEW d, IsDrive(d), d.count \in Words, NEW ext \in BOOLEAN
  PROVE  get_count(d, ext) \in Nat \ {0}
<1>1. Byte(d.count) \in Nat /\ d.count \in Nat
  BY ByteRange, ConstantsTyped DEF Words
<1> QED
  BY <1>1, ConstantsTyped DEF get_count

LEMMA ExtBoolean == \A c : Ext(c) \in BOOLEAN
BY DEF Ext

LEMMA ReadSectors ==
  ASSUME NEW s, IsMachine(s), Ids(s), NEW c \in PioReads, s.d.cmd = c, s.d.count \in Words,
         NEW prdt
  PROVE  Leaves(s, ata_read_sectors(s, c), prdt)
<1> DEFINE s1 == [s EXCEPT !.d.status = S208]
           n  == get_count(s.d, Ext(c))
           a  == get_lba(s.d, Ext(c))
           k  == [op |-> "pio", cmd |-> c, single |-> c \in {"READ", "READ_EXT"}]
<1>1. n \in Nat \ {0}
  BY CountOfPio, ExtBoolean DEF IsMachine
<1>2. /\ IsMachine(s1) /\ Ids(s1) /\ s1.d.status = S208 /\ s1.d.cmd = s.d.cmd
      /\ s1.d.in_progress = s.d.in_progress /\ s1.ch = s.ch /\ s1.buf = s.buf
  BY StatusSet, Statuses
<1>3. k \in Wants /\ k.op = "pio"
  BY DEF Wants
<1>4. ata_read_sectors(s, c)
        = IF ~InRange(s.d, Ext(c)) THEN End(s, S255) ELSE read_buffer(s1, a, n, k)
  BY DEF ata_read_sectors
<1> HIDE DEF s1, n, a, k
<1>5. Fits(k, s1)
  BY <1>2, <1>3 DEF Fits
<1>6. Leaves(s1, read_buffer(s1, a, n, k), prdt)
  <2>1. LeavesIf(s1, read_buffer(s1, a, n, k), prdt, Fits(k, s1))
    BY <1>1, <1>2, <1>3, ReadLeaves
  <2> QED
    BY <1>5, <2>1, IfLeaves DEF Fits
<1>7. Leaves(s, read_buffer(s1, a, n, k), prdt)
  BY <1>2, <1>6, LeavesFrom
<1>8. Leaves(s, End(s, S255), prdt)
  BY EndLeaves, Statuses, StatusesDiffer
<1> QED
  BY <1>4, <1>7, <1>8

LEMMA WriteSectors ==
  ASSUME NEW s, IsMachine(s), Ids(s), NEW c \in PioWrites, s.d.cmd = c, s.d.count \in Words,
         NEW prdt
  PROVE  Leaves(s, ata_write_sectors(s, c), prdt)
<1> DEFINE n  == get_count(s.d, Ext(c))
           a  == get_lba(s.d, Ext(c))
           v  == IF c \in {"WRITE", "WRITE_EXT"} THEN 1 ELSE Least(n, s.d.drq)
           d1 == data_allocate(s.d, n)
           d2 == [d1 EXCEPT !.status = S88]
           d3 == [d2 EXCEPT !.end = v]
           d4 == [d3 EXCEPT !.dest = a]
<1>0. IsDrive(s.d)
  BY DEF IsMachine
<1>1. n \in Nat \ {0}
  BY <1>0, CountOfPio, ExtBoolean
<1>2. ata_write_sectors(s, c)
        = IF ~InRange(s.d, Ext(c)) THEN End(s, S255) ELSE Shown(s, d4)
  BY DEF ata_write_sectors, Shown
<1>3. v \in Int /\ 1 <= v /\ v <= n
  <2>1. s.d.drq \in Nat \ {0}
    BY <1>0 DEF IsDrive
  <2>2. \A x, y \in Nat \ {0} : Least(x, y) \in Int /\ 1 <= Least(x, y) /\ Least(x, y) <= x
    BY DEF Least
  <2> HIDE DEF n, d1
  <2> QED
    BY <1>1, <2>1, <2>2
<1> HIDE DEF n, a, v
<1>4. /\ IsDrive(d1) /\ SameButData(s.d, d1) /\ d1.ptr = 0 /\ d1.len = n
  BY <1>0, <1>1, DataAllocated
<1> HIDE DEF d1
<1>5. /\ IsDrive(d2) /\ SameIds(d1, d2) /\ d2.status = S88 /\ d2.ptr = d1.ptr
      /\ d2.len = d1.len /\ d2.cmd = d1.cmd
  BY <1>4, Statuses DEF IsDrive, SameIds
<1> HIDE DEF d2
<1>6. /\ IsDrive(d3) /\ SameIds(d2, d3) /\ d3.status = d2.status /\ d3.ptr = d2.ptr
      /\ d3.len = d2.len /\ d3.cmd = d2.cmd /\ d3.end = v
  BY <1>3, <1>5 DEF IsDrive, SameIds
<1> HIDE DEF d3
<1>7. /\ IsDrive(d4) /\ SameIds(d3, d4) /\ d4.status = d3.status /\ d4.ptr = d3.ptr
      /\ d4.len = d3.len /\ d4.cmd = d3.cmd /\ d4.end = d3.end
  BY <1>6 DEF IsDrive, SameIds
<1> HIDE DEF d4
<1>8. SameIds(s.d, d4) /\ d4.cmd = s.d.cmd
  BY <1>4, <1>5, <1>6, <1>7 DEF SameIds, SameButData
<1>9. DataThere(d4)
  BY <1>1, <1>3, <1>4, <1>5, <1>6, <1>7, <1>8 DEF DataThere, PioWrites
<1>10. d4.status # S208
  BY <1>5, <1>6, <1>7, StatusesDiffer
<1>11. Leaves(s, Shown(s, d4), prdt)
  BY <1>7, <1>8, <1>9, <1>10, ShownLeaves
<1>12. Leaves(s, End(s, S255), prdt)
  BY EndLeaves, Statuses, StatusesDiffer
<1> QED
  BY <1>2, <1>11, <1>12

LEMMA SectorsDma ==
  ASSUME NEW s, IsMachine(s), Ids(s), NEW c, s.d.cmd = c, c # "PACKET", NEW prdt, prdt # << >>
  PROVE  Leaves(s, ata_sectors_dma(s, c), prdt)
<1> DEFINE s1 == [s EXCEPT !.d.status = S88]
           t  == [s1 EXCEPT !.ch.active = TRUE]
<1>1. /\ IsMachine(s1) /\ Ids(s1) /\ s1.d.status = S88 /\ s1.d.cmd = c
      /\ s1.d.in_progress = s.d.in_progress /\ s1.ch = s.ch /\ s1.buf = s.buf
  BY StatusSet, Statuses
<1>2. ata_sectors_dma(s, c) = IF ~InRange(s.d, Ext(c)) THEN End(s, S255) ELSE t
  BY DEF ata_sectors_dma
<1> HIDE DEF s1
<1>3. IsMachine(t) /\ t.d = s1.d /\ t.out = s1.out /\ t.buf = s1.buf
  BY <1>1 DEF IsMachine, IsChannel
<1> HIDE DEF t
<1>4. Ids(t)
  BY <1>1, <1>3, EffectIds DEF SameIds
<1>5. s.d.in_progress = {} => Busy(t)
  BY <1>1, <1>3, Idle, StatusesDiffer
<1>6. Leaves(s, t, prdt)
  BY <1>1, <1>3, <1>4, <1>5 DEF Leaves, Waits, Offers
<1>7. Leaves(s, End(s, S255), prdt)
  BY EndLeaves, Statuses, StatusesDiffer
<1> QED
  BY <1>2, <1>6, <1>7

(* A command is given: its error is forgotten. *)
Given(s, c) == [s EXCEPT !.d.cmd = c, !.d.status = @ \ {"ERR"}]

LEMMA GivenProps ==
  ASSUME NEW s, IsMachine(s), Ids(s), NEW c
  PROVE  LET t == Given(s, c)
         IN  /\ IsMachine(t) /\ Ids(t) /\ t.d.cmd = c /\ t.d.count = s.d.count
             /\ t.d.mid = s.d.mid /\ t.d.high = s.d.high /\ SameIds(s.d, t.d)
             /\ t.ch = s.ch /\ t.buf = s.buf /\ t.out = s.out /\ t.mem = s.mem
<1> DEFINE st == s.d.status \ {"ERR"}
           d1 == [s.d EXCEPT !.cmd = c]
           d2 == [d1 EXCEPT !.status = st]
           t  == [s EXCEPT !.d = d2]
<1>1. IsDrive(s.d) /\ st \in SUBSET S255
  BY DEF IsMachine, IsDrive
<1>2. t = Given(s, c)
  BY <1>1 DEF Given, IsMachine, IsDrive
<1> HIDE DEF st
<1>3. /\ IsDrive(d1) /\ SameIds(s.d, d1) /\ d1.cmd = c /\ d1.count = s.d.count
      /\ d1.mid = s.d.mid /\ d1.high = s.d.high
  BY <1>1 DEF IsDrive, SameIds
<1> HIDE DEF d1
<1>4. /\ IsDrive(d2) /\ SameIds(d1, d2) /\ d2.cmd = d1.cmd /\ d2.count = d1.count
      /\ d2.mid = d1.mid /\ d2.high = d1.high
  BY <1>1, <1>3 DEF IsDrive, SameIds
<1> HIDE DEF d2
<1>5. /\ IsMachine(t) /\ t.d = d2 /\ t.ch = s.ch /\ t.buf = s.buf
      /\ t.out = s.out /\ t.mem = s.mem
  BY <1>4, WithDrive
<1> HIDE DEF t
<1>6. SameIds(s.d, t.d)
  BY <1>3, <1>4, <1>5 DEF SameIds
<1>7. Ids(t)
  BY <1>5, <1>6, EffectIds
<1> QED
  BY <1>2, <1>3, <1>4, <1>5, <1>6, <1>7

LEMMA AbortedLeaves ==
  ASSUME NEW s, IsMachine(s), Ids(s), NEW prdt
  PROVE  Leaves(s, Aborted(s), prdt)
BY EndLeaves, Statuses, StatusesDiffer DEF Aborted

(* A unit of data is offered to the guest, or asked of it. *)
LEMMA OneUnit ==
  ASSUME NEW d, IsDrive(d)
  PROVE  LET e == [data_allocate(d, 1) EXCEPT !.end = 1]
         IN  /\ IsDrive(e) /\ SameIds(d, e) /\ e.ptr = 0 /\ e.end = 1 /\ e.len = 1 /\ e.cmd = d.cmd
             /\ e.mid = d.mid /\ e.high = d.high
<1> DEFINE d1 == data_allocate(d, 1)
           e  == [d1 EXCEPT !.end = 1]
<1>1. IsDrive(d1) /\ SameButData(d, d1) /\ d1.ptr = 0 /\ d1.len = 1
  BY DataAllocated
<1> HIDE DEF d1
<1>2. /\ IsDrive(e) /\ SameIds(d1, e) /\ e.ptr = d1.ptr /\ e.end = 1 /\ e.len = d1.len
      /\ e.cmd = d1.cmd /\ e.mid = d1.mid /\ e.high = d1.high
  BY <1>1 DEF IsDrive, SameIds
<1> HIDE DEF e
<1>3. SameIds(d, e) /\ e.ptr = 0 /\ e.len = 1 /\ e.cmd = d.cmd /\ e.mid = d.mid /\ e.high = d.high
  BY <1>1, <1>2 DEF SameIds, SameButData
<1> QED
  BY <1>2, <1>3 DEF e, d1

LEMMA IdentifyLeaves ==
  ASSUME NEW s, IsMachine(s), Ids(s), s.d.cmd # "PACKET", NEW prdt
  PROVE  Leaves(s, Identify(s), prdt)
<1> DEFINE e == [data_allocate(s.d, 1) EXCEPT !.end = 1]
<1>1. Identify(s) = Ended(s, e, S88)
  BY DEF Identify, Ended
<1>2. /\ IsDrive(e) /\ SameIds(s.d, e) /\ e.ptr = 0 /\ e.end = 1 /\ e.len = 1 /\ e.cmd = s.d.cmd
  BY OneUnit DEF IsMachine
<1> HIDE DEF e
<1>3. DataThere(e)
  BY <1>2 DEF DataThere
<1> QED
  BY <1>1, <1>2, <1>3, EndedLeaves, Statuses, StatusesDiffer

LEMMA PacketLeaves ==
  ASSUME NEW s, IsMachine(s), Ids(s), Piece(s.d.mid + Base * s.d.high), NEW prdt
  PROVE  Leaves(s, End([s EXCEPT !.d = [data_allocate(@, 1) EXCEPT !.end = 1, !.reason = 1]], S88),
                prdt)
<1> DEFINE e == [data_allocate(s.d, 1) EXCEPT !.end = 1]
           f == [e EXCEPT !.reason = 1]
<1>1. End([s EXCEPT !.d = [data_allocate(@, 1) EXCEPT !.end = 1, !.reason = 1]], S88)
        = Ended(s, f, S88)
  BY DEF Ended
<1>2. /\ IsDrive(e) /\ SameIds(s.d, e) /\ e.ptr = 0 /\ e.end = 1 /\ e.len = 1 /\ e.cmd = s.d.cmd
      /\ e.mid = s.d.mid /\ e.high = s.d.high
  BY OneUnit DEF IsMachine
<1> HIDE DEF e
<1>3. /\ IsDrive(f) /\ SameIds(e, f) /\ f.ptr = 0 /\ f.end = 1 /\ f.len = 1
      /\ f.mid = e.mid /\ f.high = e.high
  BY <1>2 DEF IsDrive, SameIds
<1> HIDE DEF f
<1>4. DataThere(f) /\ SameIds(s.d, f)
  BY <1>2, <1>3 DEF DataThere, SameIds
<1>5. Leaves(s, Ended(s, f, S88), prdt)
  BY <1>3, <1>4, EndedLeaves, Statuses, StatusesDiffer
<1> QED
  BY <1>1, <1>5

LEMMA SetMultipleLeaves ==
  ASSUME NEW s, IsMachine(s), Ids(s), Byte(s.d.count) # 0, NEW prdt
  PROVE  Leaves(s, End([s EXCEPT !.d.drq = Byte(s.d.count)], S80), prdt)
<1> DEFINE b == Byte(s.d.count)
           e == [s.d EXCEPT !.drq = b]
<1>1. End([s EXCEPT !.d.drq = b], S80) = Ended(s, e, S80)
  BY DEF Ended
<1>2. IsDrive(s.d) /\ s.d.count \in Int
  BY DEF IsMachine, IsDrive
<1>3. b \in Nat \ {0}
  BY <1>2, ByteRange, ConstantsTyped
<1> HIDE DEF b
<1>4. IsDrive(e) /\ SameIds(s.d, e)
  BY <1>2, <1>3 DEF IsDrive, SameIds
<1> HIDE DEF e
<1>5. Leaves(s, Ended(s, e, S80), prdt)
  BY <1>4, EndedLeaves, Statuses, StatusesDiffer
<1> QED
  BY <1>1, <1>5 DEF b

(* Commands that only write the address registers. *)
LEMMA RefusedLeaves ==
  ASSUME NEW s, IsMachine(s), Ids(s), NEW c, NEW prdt
  PROVE  Leaves(s, Refused(s, c), prdt)
<1> DEFINE e1 == [s.d EXCEPT !.mid = 20 % Base]
           e2 == [e1 EXCEPT !.high = 235 % Base]
           e  == IF c \in {"READ", "IDENTIFY"} THEN e2 ELSE s.d
<1>1. Refused(s, c) = Ended(s, e, S65)
  <2>1. Aborted(s) = Ended(s, s.d, S65)
    BY EndIsEnded DEF Aborted
  <2>2. Aborted([s EXCEPT !.d = Signed(@)]) = Ended(s, e2, S65)
    BY DEF Aborted, Signed, Ended
  <2> HIDE DEF e2
  <2> QED
    BY <2>1, <2>2 DEF Refused
<1>2. IsDrive(s.d) /\ SameIds(s.d, s.d)
  BY DEF IsMachine, SameIds
<1>3. IsDrive(e1) /\ SameIds(s.d, e1)
  BY <1>2, SignatureTyped DEF IsDrive, SameIds
<1> HIDE DEF e1
<1>4. IsDrive(e2) /\ SameIds(s.d, e2)
  BY <1>3, SignatureTyped DEF IsDrive, SameIds
<1> HIDE DEF e2
<1>5. IsDrive(e) /\ SameIds(s.d, e)
  BY <1>2, <1>4
<1> HIDE DEF e
<1>6. Leaves(s, Ended(s, e, S65), prdt)
  BY <1>5, EndedLeaves, Statuses, StatusesDiffer
<1> QED
  BY <1>1, <1>6

LEMMA RecalibrateLeaves ==
  ASSUME NEW s, IsMachine(s), Ids(s), NEW prdt
  PROVE  Leaves(s, End([s EXCEPT !.d.mid = 0], S80), prdt)
<1> DEFINE e == [s.d EXCEPT !.mid = 0]
<1>1. End([s EXCEPT !.d.mid = 0], S80) = Ended(s, e, S80)
  BY DEF Ended
<1>2. IsDrive(s.d)
  BY DEF IsMachine
<1>3. IsDrive(e) /\ SameIds(s.d, e)
  BY <1>2, SignatureTyped DEF IsDrive, SameIds
<1> HIDE DEF e
<1>4. Leaves(s, Ended(s, e, S80), prdt)
  BY <1>3, EndedLeaves, Statuses, StatusesDiffer
<1> QED
  BY <1>1, <1>4

LEMMA NativeMaxLeaves ==
  ASSUME NEW s, IsMachine(s), Ids(s), NEW c, NEW prdt
  PROVE  Leaves(s, End([s EXCEPT !.d = native_max(@, c)], S80), prdt)
<1> DEFINE a  == (IF s.d.atapi THEN (DiskUnits + CdUnits - 1) \div CdUnits ELSE DiskUnits) - 1
           up == IF c = "NATIVE_MAX_EXT" THEN Base * Byte(a \div Base3) ELSE 0
           lo == Byte(a) + up
           mi == Byte(a \div Base)
           hi == Byte(a \div Base2)
           e1 == [s.d EXCEPT !.low = lo]
           e2 == [e1 EXCEPT !.mid = mi]
           e  == [e2 EXCEPT !.high = hi]
<1>1. End([s EXCEPT !.d = native_max(@, c)], S80) = Ended(s, e, S80)
  <2>1. native_max(s.d, c) = e
    BY DEF native_max
  <2> HIDE DEF e
  <2> QED
    BY <2>1 DEF Ended
<1>2. lo \in Words /\ mi \in Words /\ hi \in Words
  <2>1. a \in Int
    <3> DEFINE v == DiskUnits + CdUnits - 1
               w == v \div CdUnits
    <3>1. v \in Int /\ DiskUnits \in Int /\ CdUnits \in Nat \ {0}
      BY ConstantsTyped
    <3> HIDE DEF v
    <3>2. w \in Int
      BY <3>1, RemainderRange
    <3>3. a = (IF s.d.atapi THEN w ELSE DiskUnits) - 1
      BY DEF v
    <3> HIDE DEF w, a
    <3> QED
      BY <3>1, <3>2, <3>3
  <2> HIDE DEF a
  <2>2. a \div Base \in Int /\ a \div Base2 \in Int /\ a \div Base3 \in Int
    BY <2>1, ConstantsTyped, RemainderRange
  <2>3. Byte(a) \in 0 .. Base - 1 /\ mi \in 0 .. Base - 1 /\ hi \in 0 .. Base - 1
    BY <2>1, <2>2, ByteRange, ConstantsTyped
  <2>4. Byte(a \div Base3) \in 0 .. Base - 1
    BY <2>2, ByteRange, ConstantsTyped
  <2>5. Byte(a) + Base * Byte(a \div Base3) \in Words /\ Byte(a) \in Words
        /\ mi \in Words /\ hi \in Words
    BY <2>1, <2>2, <2>3, <2>4, ByteRange, WordRange
  <2>6. Byte(a) + 0 = Byte(a)
    BY <2>3
  <2> HIDE DEF mi, hi
  <2> QED
    BY <2>5, <2>6
<1> HIDE DEF lo, mi, hi
<1>3. IsDrive(s.d)
  BY DEF IsMachine
<1>4. IsDrive(e1) /\ SameIds(s.d, e1)
  BY <1>2, <1>3 DEF IsDrive, SameIds
<1> HIDE DEF e1
<1>5. IsDrive(e2) /\ SameIds(s.d, e2)
  BY <1>2, <1>4 DEF IsDrive, SameIds
<1> HIDE DEF e2
<1>6. IsDrive(e) /\ SameIds(s.d, e)
  BY <1>2, <1>5 DEF IsDrive, SameIds
<1> HIDE DEF e
<1>7. Leaves(s, Ended(s, e, S80), prdt)
  BY <1>6, EndedLeaves, Statuses, StatusesDiffer
<1> QED
  BY <1>1, <1>7

Commands ==
  PioReads \cup PioWrites \cup DmaReads \cup DmaWrites \cup Plain \cup {"PACKET"}

(* What a command needs of the registers. *)
Allowed(d, c, prdt) ==
  /\ c \in Commands /\ (c \in PioReads \cup PioWrites => d.count \in Words)
  /\ c \in DmaReads \cup DmaWrites => prdt # << >>
  /\ c = "SET_MULTIPLE" => Byte(d.count) # 0
  /\ c = "PACKET" => Piece(d.mid + Base * d.high)

(* Any command but a reset. *)
LEMMA AtaCommand ==
  ASSUME NEW s0, IsMachine(s0), Ids(s0), NEW c, NEW prdt, Allowed(s0.d, c, prdt)
  PROVE  Leaves(s0, ata_command(s0, c), prdt)
<1> DEFINE s  == Given(s0, c)
           a  == Aborted(s)
           f  == Refused(s, c)
           b1 == IF s.d.atapi THEN f ELSE ata_read_sectors(s, c)
           b2 == IF s.d.atapi THEN f ELSE ata_write_sectors(s, c)
           b3 == ata_sectors_dma(s, c)
           b4 == End([s EXCEPT !.d.drq = Byte(s.d.count)], S80)
           p  == End([s EXCEPT !.d = [data_allocate(@, 1) EXCEPT !.end = 1, !.reason = 1]], S88)
           b5 == IF ~s.d.atapi THEN a ELSE p
           b6 == IF s.d.atapi THEN f ELSE Identify(s)
           b7 == IF s.d.atapi THEN Identify(s) ELSE a
           b8 == End(s, S80)
           g1 == End([s EXCEPT !.d.mid = 0], S80)
           g2 == End([s EXCEPT !.d = native_max(@, c)], S80)
           r  == push_irq([s EXCEPT !.d = device_reset([@ EXCEPT !.len = 0, !.end = 0, !.ptr = 0])])
           t  == CASE c = "RESET" -> r
                   [] c \in {"READ", "READ_EXT", "READ_MULTIPLE", "READ_MULTIPLE_EXT"} -> b1
                   [] c \in {"WRITE", "WRITE_EXT", "WRITE_MULTIPLE", "WRITE_MULTIPLE_EXT"} -> b2
                   [] c \in {"READ_DMA", "READ_DMA_EXT", "WRITE_DMA", "WRITE_DMA_EXT"} -> b3
                   [] c = "SET_MULTIPLE" -> b4
                   [] c = "PACKET" -> b5
                   [] c = "IDENTIFY" -> b6
                   [] c = "IDENTIFY_PACKET" -> b7
                   [] c = "RECALIBRATE" -> g1
                   [] c \in {"NATIVE_MAX", "NATIVE_MAX_EXT"} -> g2
                   [] c = "NO_DATA" -> b8
                   [] c = "UNKNOWN" -> a
<1>1. ata_command(s0, c) = Lowered(t)
  BY DEF ata_command, Lowered, Given
<1>2. /\ IsMachine(s) /\ Ids(s) /\ s.d.cmd = c /\ s.d.count = s0.d.count
      /\ s.d.mid = s0.d.mid /\ s.d.high = s0.d.high /\ SameIds(s0.d, s.d)
      /\ s.ch = s0.ch /\ s.buf = s0.buf /\ s.out = s0.out /\ s.mem = s0.mem
  BY GivenProps
<1> HIDE DEF s
<1>3. Leaves(s, a, prdt) /\ Leaves(s, f, prdt) /\ Leaves(s, g1, prdt) /\ Leaves(s, g2, prdt)
  BY <1>2, AbortedLeaves, RefusedLeaves, RecalibrateLeaves, NativeMaxLeaves
<1>4. c \in PioReads => Leaves(s, b1, prdt)
  <2>1. c \in PioReads => Leaves(s, ata_read_sectors(s, c), prdt)
    BY <1>2, ReadSectors DEF Allowed
  <2> HIDE DEF f
  <2> QED
    BY <1>3, <2>1
<1>5. c \in PioWrites => Leaves(s, b2, prdt)
  <2>1. c \in PioWrites => Leaves(s, ata_write_sectors(s, c), prdt)
    BY <1>2, WriteSectors DEF Allowed
  <2> HIDE DEF f
  <2> QED
    BY <1>3, <2>1
<1>6. c \in DmaReads \cup DmaWrites => Leaves(s, b3, prdt)
  BY <1>2, SectorsDma DEF Allowed, DmaReads, DmaWrites
<1>7. c = "SET_MULTIPLE" => Leaves(s, b4, prdt)
  BY <1>2, SetMultipleLeaves DEF Allowed
<1>8. c = "PACKET" => Leaves(s, b5, prdt)
  <2>1. c = "PACKET" => Leaves(s, p, prdt)
    BY <1>2, PacketLeaves DEF Allowed
  <2> HIDE DEF a, p
  <2> QED
    BY <1>3, <2>1
<1>9. c # "PACKET" => Leaves(s, Identify(s), prdt)
  BY <1>2, IdentifyLeaves
<1>10. c # "PACKET" => Leaves(s, b6, prdt) /\ Leaves(s, b7, prdt)
  <2> DEFINE i == Identify(s)
  <2> HIDE DEF a, f, i
  <2> QED
    BY <1>3, <1>9 DEF i
<1>11. Leaves(s, b8, prdt)
  BY <1>2, EndLeaves, Statuses, StatusesDiffer
<1> HIDE DEF a, f, g1, g2, b1, b2, b3, b4, b5, b6, b7, b8, r, p
<1>12. c \in Commands
  BY DEF Allowed
<1>13. Leaves(s, t, prdt)
  <2>1. CASE c \in PioReads
    <3>1. t = b1
      BY <2>1 DEF PioReads
    <3> QED
      BY <1>4, <2>1, <3>1
  <2>2. CASE c \in PioWrites
    <3>1. t = b2
      BY <2>2 DEF PioWrites
    <3> QED
      BY <1>5, <2>2, <3>1
  <2>3. CASE c \in DmaReads \cup DmaWrites
    <3>1. t = b3
      BY <2>3 DEF DmaReads, DmaWrites
    <3> QED
      BY <1>6, <2>3, <3>1
  <2>4. CASE c = "SET_MULTIPLE"
    <3>1. t = b4
      BY <2>4
    <3> QED
      BY <1>7, <2>4, <3>1
  <2>5. CASE c = "PACKET"
    <3>1. t = b5
      BY <2>5
    <3> QED
      BY <1>8, <2>5, <3>1
  <2>6. CASE c = "IDENTIFY"
    <3>1. t = b6
      BY <2>6
    <3> QED
      BY <1>10, <2>6, <3>1
  <2>7. CASE c = "IDENTIFY_PACKET"
    <3>1. t = b7
      BY <2>7
    <3> QED
      BY <1>10, <2>7, <3>1
  <2>8. CASE c = "NO_DATA"
    <3>1. t = b8
      BY <2>8
    <3> QED
      BY <1>11, <3>1
  <2>9. CASE c = "UNKNOWN"
    <3>1. t = a
      BY <2>9
    <3> QED
      BY <1>3, <3>1
  <2>10. CASE c = "RECALIBRATE"
    <3>1. t = g1
      BY <2>10
    <3> QED
      BY <1>3, <3>1
  <2>11. CASE c \in {"NATIVE_MAX", "NATIVE_MAX_EXT"}
    <3>1. t = g2
      BY <2>11
    <3> QED
      BY <1>3, <3>1
  <2> HIDE DEF t
  <2> QED
    BY <1>12, <2>1, <2>2, <2>3, <2>4, <2>5, <2>6, <2>7, <2>8, <2>9, <2>10, <2>11
       DEF Commands, Plain
<1> HIDE DEF t
<1>14. Leaves(s, Lowered(t), prdt)
  BY <1>13, IrqLeaves
<1>15. Leaves(s0, Lowered(t), prdt)
  BY <1>2, <1>14, LeavesFrom DEF SameIds
<1> QED
  BY <1>1, <1>15

LEMMA ResetCommand ==
  ASSUME NEW s0, IsMachine(s0), Ids(s0)
  PROVE  LET t == ata_command(s0, "RESET")
         IN  /\ IsMachine(t) /\ Ids(t) /\ t.d.in_progress = {} /\ t.d.status \in {{}, S65}
             /\ t.buf = s0.buf /\ t.mem = s0.mem /\ ~t.ch.irq
<1> DEFINE s  == Given(s0, "RESET")
           d1 == [s.d EXCEPT !.len = 0]
           d2 == [d1 EXCEPT !.end = 0]
           d3 == [d2 EXCEPT !.ptr = 0]
           d4 == device_reset(d3)
           u  == [s EXCEPT !.d = d4]
           v  == push_irq(u)
           t  == Lowered(v)
<1>1. ata_command(s0, "RESET") = t
  BY DEF ata_command, Lowered, Given
<1>2. /\ IsMachine(s) /\ Ids(s) /\ SameIds(s0.d, s.d)
      /\ s.ch = s0.ch /\ s.buf = s0.buf /\ s.out = s0.out /\ s.mem = s0.mem
  BY GivenProps
<1> HIDE DEF s
<1>3. IsDrive(d1) /\ SameIds(s.d, d1)
  <2>1. IsDrive(s.d)
    BY <1>2 DEF IsMachine
  <2> QED
    BY <2>1 DEF IsDrive, SameIds
<1> HIDE DEF d1
<1>4. IsDrive(d2) /\ SameIds(d1, d2)
  BY <1>3 DEF IsDrive, SameIds
<1> HIDE DEF d2
<1>5. IsDrive(d3) /\ SameIds(d2, d3)
  BY <1>4 DEF IsDrive, SameIds
<1> HIDE DEF d3
<1>6. /\ IsDrive(d4) /\ d4.in_progress = {} /\ d4.cancelled = d3.cancelled \cup d3.in_progress
      /\ d4.last_io_id = d3.last_io_id /\ d4.status \in {{}, S65}
  BY <1>5, DeviceReset
<1> HIDE DEF d4
<1>7. IsMachine(u) /\ u.d = d4 /\ u.buf = s.buf /\ u.out = s.out /\ u.mem = s.mem
  BY <1>2, <1>6, WithDrive
<1> HIDE DEF u
<1>8. IsMachine(v) /\ v.d = u.d /\ v.buf = u.buf /\ v.out = u.out /\ v.mem = u.mem
  BY <1>7, PushIrq
<1> HIDE DEF v
<1>9. IsMachine(t) /\ t.d = v.d /\ t.buf = v.buf /\ t.out = v.out /\ t.mem = v.mem /\ ~t.ch.irq
  BY <1>8, IrqLowered DEF Lowered, IsMachine, IsChannel
<1> HIDE DEF t
<1>10. /\ t.out = s.out /\ t.d.in_progress = {} /\ t.d.last_io_id = s.d.last_io_id
       /\ t.d.cancelled = s.d.cancelled \cup s.d.in_progress
  BY <1>3, <1>4, <1>5, <1>6, <1>7, <1>8, <1>9 DEF SameIds
<1>11. Ids(t)
  BY <1>2, <1>10, CancelledIds
<1> QED
  BY <1>1, <1>2, <1>6, <1>7, <1>8, <1>9, <1>10, <1>11

-----------------------------------------------------------------------------
(* Packet commands *)

LEMMA DrqGone ==
  ASSUME NEW st \in SUBSET S255, "BSY" \notin st
  PROVE  /\ st \ {"DRQ"} \in SUBSET S255
         /\ st \ {"DRQ"} # S208 /\ st # S208 /\ st \ {"DRQ"} # S88
BY DEF S208, S88

(* The reason of an interrupt says nothing of the reads. *)
LEMMA ReasonSet ==
  ASSUME NEW s, IsMachine(s), NEW v \in {2, 3}
  PROVE  LET t == [s EXCEPT !.d.reason = v]
         IN  /\ IsMachine(t) /\ SameIds(s.d, t.d) /\ t.ch = s.ch /\ t.buf = s.buf
             /\ t.out = s.out /\ t.mem = s.mem /\ t.d.status = s.d.status /\ t.d.cmd = s.d.cmd
             /\ t.d.ptr = s.d.ptr /\ t.d.end = s.d.end /\ t.d.len = s.d.len
             /\ t.d.mid = s.d.mid /\ t.d.high = s.d.high /\ t.d.reason = v
<1> DEFINE e == [s.d EXCEPT !.reason = v]
           t == [s EXCEPT !.d = e]
<1>1. IsDrive(s.d)
  BY DEF IsMachine
<1>2. /\ IsDrive(e) /\ SameIds(s.d, e) /\ e.status = s.d.status /\ e.cmd = s.d.cmd
      /\ e.ptr = s.d.ptr /\ e.end = s.d.end /\ e.len = s.d.len
      /\ e.mid = s.d.mid /\ e.high = s.d.high /\ e.reason = v
  BY <1>1 DEF IsDrive, SameIds
<1> HIDE DEF e
<1>3. /\ IsMachine(t) /\ t.d = e /\ t.ch = s.ch /\ t.buf = s.buf
      /\ t.out = s.out /\ t.mem = s.mem
  BY <1>2, WithDrive
<1> HIDE DEF t
<1> QED
  BY <1>2, <1>3 DEF t, e

(* The same before the tail of atapi_handle, which takes an offer of no     *)
(* data back and asks for no packet.                                       *)
Nearly(s, prdt) ==
  /\ Busy(s)
  /\ s.d.status = S88 /\ prdt = << >> /\ s.d.len # 0 =>
       /\ s.d.ptr < s.d.end /\ s.d.end <= s.d.len
       /\ s.d.cmd = "PACKET" /\ s.d.end < s.d.len => Piece(s.d.mid + Base * s.d.high)
  /\ prdt = << >> => \A r \in s.out : r.id \in s.d.in_progress => r.k.op \in {"pio", "packet"}

NearlyLeaves(s, t, prdt, ok) ==
  IsMachine(t) /\ Ids(t) /\ t.buf.medium = s.buf.medium
  /\ (s.d.in_progress = {} /\ ok => Nearly(t, prdt))

LEMMA LeavesNearly ==
  ASSUME NEW s, NEW t, NEW prdt, NEW ok, LeavesIf(s, t, prdt, ok)
  PROVE  NearlyLeaves(s, t, prdt, ok)
BY DEF LeavesIf, NearlyLeaves, Waits, Nearly, Offers, DataThere

LEMMA PacketDoneLeaves ==
  ASSUME NEW s, NEW u, NEW prdt, NEW ok, NearlyLeaves(s, u, prdt, ok)
  PROVE  LeavesIf(s, PacketDone(u), prdt, ok)
<1> DEFINE t == [u EXCEPT !.d.reason = 2]
           v == push_irq(t)
           e1 == [v.d EXCEPT !.reason = 3]
           st == v.d.status \ {"DRQ"}
           e2 == [e1 EXCEPT !.status = st]
           w == [v EXCEPT !.d = e2]
           x == PacketDone(u)
<1>1. IsMachine(u) /\ Ids(u) /\ u.buf.medium = s.buf.medium
  BY DEF NearlyLeaves
<1>2. x = IF "BSY" \in u.d.status THEN t ELSE IF v.d.len = 0 THEN w ELSE v
  BY DEF PacketDone
<1>3. /\ IsMachine(t) /\ SameIds(u.d, t.d) /\ t.ch = u.ch /\ t.buf = u.buf
      /\ t.out = u.out /\ t.mem = u.mem /\ t.d.status = u.d.status /\ t.d.cmd = u.d.cmd
      /\ t.d.ptr = u.d.ptr /\ t.d.end = u.d.end /\ t.d.len = u.d.len
      /\ t.d.mid = u.d.mid /\ t.d.high = u.d.high /\ t.d.reason = 2
  BY <1>1, ReasonSet
<1> HIDE DEF t
<1>4. /\ IsMachine(v) /\ SameBus(t, v) /\ v.d = t.d /\ v.buf = t.buf /\ v.out = t.out
      /\ v.mem = t.mem
  BY <1>3, PushIrq
<1> HIDE DEF v
<1>5. IsDrive(v.d) /\ st \in SUBSET S255
  BY <1>4 DEF IsMachine, IsDrive
<1> HIDE DEF st
<1>6. IsDrive(e1) /\ SameIds(v.d, e1) /\ e1.cmd = v.d.cmd
  BY <1>5 DEF IsDrive, SameIds
<1> HIDE DEF e1
<1>7. IsDrive(e2) /\ SameIds(e1, e2) /\ e2.status = st /\ e2.cmd = e1.cmd
  BY <1>5, <1>6 DEF IsDrive, SameIds
<1> HIDE DEF e2
<1>8. IsMachine(w) /\ w.d = e2 /\ w.ch = v.ch /\ w.buf = v.buf /\ w.out = v.out /\ w.mem = v.mem
  BY <1>4, <1>7, WithDrive
<1> HIDE DEF w
<1>9. Ids(t) /\ Ids(v) /\ Ids(w)
  <2>1. Ids(t)
    BY <1>1, <1>3, EffectIds
  <2>2. Ids(v)
    BY <2>1, <1>4, EffectIds DEF SameIds
  <2>3. Ids(w)
    BY <2>2, <1>6, <1>7, <1>8, EffectIds DEF SameIds
  <2> QED
    BY <2>1, <2>2, <2>3
<1>10. ASSUME Nearly(u, prdt) PROVE Nearly(t, prdt)
  <2>1. Busy(t)
    BY <1>3, <1>10 DEF Nearly, Busy, Fits, SameIds
  <2> QED
    BY <1>3, <1>10, <2>1 DEF Nearly, SameIds
<1>11. ASSUME Nearly(t, prdt) PROVE Nearly(v, prdt)
  BY <1>4, <1>11 DEF Nearly, Busy, Fits, SameBus
<1>12. ASSUME Nearly(v, prdt), "BSY" \notin v.d.status PROVE Waits(w, prdt)
  <2>0. st # S208 /\ v.d.status # S208 /\ st # S88
    BY <1>5, <1>12, DrqGone DEF st, IsDrive
  <2>1. /\ w.d.status = st /\ w.d.in_progress = v.d.in_progress /\ w.d.cmd = v.d.cmd
        /\ w.ch = v.ch /\ w.out = v.out
    BY <1>6, <1>7, <1>8 DEF SameIds
  <2>2. Busy(w)
    BY <1>12, <2>0, <2>1 DEF Nearly, Busy, Fits
  <2>3. ~Offers(w.d, prdt)
    BY <2>0, <2>1 DEF Offers
  <2> QED
    BY <1>12, <2>1, <2>2, <2>3 DEF Waits, Nearly
<1>13. IsMachine(x) /\ Ids(x) /\ x.buf = u.buf
  <2> HIDE DEF x
  <2> QED
    BY <1>2, <1>3, <1>4, <1>8, <1>9
<1>14. ASSUME Nearly(u, prdt) PROVE Waits(x, prdt)
  <2>1. Nearly(t, prdt) /\ Nearly(v, prdt)
    BY <1>10, <1>11, <1>14
  <2>2. CASE "BSY" \in u.d.status
    <3>1. ~Offers(t.d, prdt)
      BY <1>3, <2>2, StatusesDiffer DEF Offers
    <3>2. Waits(t, prdt)
      BY <2>1, <3>1 DEF Waits, Nearly
    <3> HIDE DEF x
    <3> QED
      BY <1>2, <2>2, <3>2
  <2>3. CASE "BSY" \notin u.d.status /\ v.d.len = 0
    <3>1. Waits(w, prdt)
      BY <1>3, <1>4, <1>12, <2>1, <2>3
    <3> HIDE DEF x
    <3> QED
      BY <1>2, <2>3, <3>1
  <2>4. CASE "BSY" \notin u.d.status /\ v.d.len # 0
    <3>1. Waits(v, prdt)
      BY <1>3, <1>4, <2>1, <2>4 DEF Waits, Nearly, Offers, DataThere
    <3> HIDE DEF x
    <3> QED
      BY <1>2, <2>4, <3>1
  <2> QED
    BY <2>2, <2>3, <2>4
<1> HIDE DEF x
<1> QED
  BY <1>1, <1>13, <1>14 DEF LeavesIf, NearlyLeaves, x

(* An answer is n units for the guest, who may ask for none. *)
Told(e, n, st, v, sense, disk_in) ==
  [e EXCEPT !.end = n, !.status = st, !.reason = v, !.sense = sense, !.has_disk = disk_in]

LEMMA AnswerLeaves ==
  ASSUME NEW s, IsMachine(s), Ids(s), NEW n \in Nat, NEW st \in {S80, S88, S65}, NEW v \in 0 .. 3,
         NEW e, IsDrive(e), SameButData(s.d, e), e.ptr = 0, e.len = n,
         NEW sense, NEW disk_in \in BOOLEAN, NEW prdt
  PROVE  NearlyLeaves(s, Shown(s, Told(e, n, st, v, sense, disk_in)), prdt, TRUE)
<1> DEFINE e1 == [e EXCEPT !.end = n]
           e2 == [e1 EXCEPT !.status = st]
           e3 == [e2 EXCEPT !.reason = v]
           e4 == [e3 EXCEPT !.sense = sense]
           e5 == [e4 EXCEPT !.has_disk = disk_in]
           t  == Shown(s, e5)
<1>1. Told(e, n, st, v, sense, disk_in) = e5
  BY DEF Told
<1>2. IsDrive(e1) /\ SameIds(e, e1) /\ e1.ptr = e.ptr /\ e1.len = e.len /\ e1.end = n
  BY DEF IsDrive, SameIds
<1> HIDE DEF e1
<1>3. IsDrive(e2) /\ SameIds(e1, e2) /\ e2.ptr = e1.ptr /\ e2.len = e1.len /\ e2.end = e1.end /\ e2.status = st
  BY <1>2, Statuses DEF IsDrive, SameIds
<1> HIDE DEF e2
<1>4. IsDrive(e3) /\ SameIds(e2, e3) /\ e3.ptr = e2.ptr /\ e3.len = e2.len /\ e3.end = e2.end
      /\ e3.status = e2.status /\ e3.reason = v
  BY <1>3 DEF IsDrive, SameIds
<1> HIDE DEF e3
<1>5. IsDrive(e4) /\ SameIds(e3, e4) /\ e4.ptr = e3.ptr /\ e4.len = e3.len /\ e4.end = e3.end
      /\ e4.status = e3.status /\ e4.reason = e3.reason
  BY <1>4 DEF IsDrive, SameIds
<1> HIDE DEF e4
<1>6. IsDrive(e5) /\ SameIds(e4, e5) /\ e5.ptr = e4.ptr /\ e5.len = e4.len /\ e5.end = e4.end
      /\ e5.status = e4.status /\ e5.reason = e4.reason
  BY <1>5 DEF IsDrive, SameIds
<1> HIDE DEF e5
<1>7. SameIds(s.d, e5) /\ e5.ptr = 0 /\ e5.len = n /\ e5.end = n /\ e5.status = st /\ e5.reason = v
  BY <1>2, <1>3, <1>4, <1>5, <1>6 DEF SameIds, SameButData
<1>8. /\ IsMachine(t) /\ t.d = e5 /\ t.ch = s.ch /\ t.buf = s.buf
      /\ t.out = s.out /\ t.mem = s.mem
  BY <1>6, WithDrive DEF Shown
<1> HIDE DEF t
<1>9. Ids(t)
  BY <1>7, <1>8, EffectIds
<1>10. ASSUME s.d.in_progress = {} PROVE Nearly(t, prdt)
  <2>1. Busy(t) /\ t.d.in_progress = {}
    BY <1>7, <1>8, <1>10, Idle, StatusesDiffer DEF SameIds
  <2>2. t.d.ptr = 0 /\ t.d.len = n /\ t.d.end = n
    BY <1>7, <1>8
  <2> QED
    BY <2>1, <2>2 DEF Nearly
<1>11. NearlyLeaves(s, t, prdt, TRUE)
  BY <1>8, <1>9, <1>10 DEF NearlyLeaves
<1> QED
  BY <1>1, <1>11 DEF t

LEMMA AtapiRead ==
  ASSUME NEW s, IsMachine(s), Ids(s), s.d.cmd = "PACKET", NEW p, p.a \in Nat, p.n \in Nat, NEW prdt
  PROVE  LeavesIf(s, atapi_read(s, p), prdt, Piece(s.d.mid + Base * s.d.high))
<1> DEFINE room == s.d.mid + Base * s.d.high
           d1 == [s.d EXCEPT !.len = 0]
           d2 == [d1 EXCEPT !.mid = 0]
           d3 == [d2 EXCEPT !.high = 0]
           t  == [s EXCEPT !.d = d3]
           d4 == [t.d EXCEPT !.status = S80]
           d5 == [d4 EXCEPT !.ptr = 0]
           t2 == [t EXCEPT !.d.status = S208]
           n  == Least(p.n, DiskUnits - p.a)
           k  == [op |-> "packet", limit |-> Least(room, p.n)]
           x  == atapi_read(s, p)
<1>1. x = IF p.a >= DiskUnits THEN End(t, S255)
          ELSE IF p.n = 0 THEN Shown(t, d5) ELSE read_buffer(t2, p.a, n, k)
  <2> DEFINE t0 == [s EXCEPT !.d.len = 0, !.d.mid = 0, !.d.high = 0]
             b1 == End(t0, S255)
             b2 == [t0 EXCEPT !.d.status = S80, !.d.ptr = 0]
             b3 == read_buffer([t0 EXCEPT !.d.status = S208], p.a, n, k)
  <2>1. p.a >= DiskUnits <=> ~(p.a < DiskUnits)
    BY ConstantsTyped
  <2>2. x = CASE p.a >= DiskUnits -> b1
              [] p.a < DiskUnits /\ p.n = 0 -> b2
              [] OTHER -> b3
    BY DEF atapi_read
  <2>3. t0 = t
    OBVIOUS
  <2> HIDE DEF t, t0, x, n, k
  <2>4. b2 = Shown(t, d5)
    BY <2>3 DEF Shown
  <2>5. b1 = End(t, S255) /\ b3 = read_buffer(t2, p.a, n, k)
    BY <2>3
  <2> HIDE DEF b1, b2, b3, t2, d5
  <2>6. x = IF p.a >= DiskUnits THEN b1 ELSE IF p.n = 0 THEN b2 ELSE b3
    BY <2>1, <2>2
  <2> QED
    BY <2>4, <2>5, <2>6
<1>2. IsDrive(s.d) /\ room \in Int /\ 0 \in Words
  <2>1. IsDrive(s.d)
    BY DEF IsMachine
  <2>2. Base \in Nat /\ Base * Base \in Nat \ {0} /\ 0 \in Words
    BY ConstantsTyped DEF Words
  <2>3. s.d.mid \in Int /\ s.d.high \in Int
    BY <2>1, <2>2 DEF IsDrive, Words
  <2> QED
    BY <2>1, <2>2, <2>3
<1> HIDE DEF room
<1>3. IsDrive(d1) /\ SameIds(s.d, d1) /\ d1.cmd = s.d.cmd
  BY <1>2 DEF IsDrive, SameIds
<1> HIDE DEF d1
<1>4. IsDrive(d2) /\ SameIds(d1, d2) /\ d2.cmd = d1.cmd
  BY <1>2, <1>3 DEF IsDrive, SameIds
<1> HIDE DEF d2
<1>5. IsDrive(d3) /\ SameIds(d2, d3) /\ d3.cmd = d2.cmd
  BY <1>2, <1>4 DEF IsDrive, SameIds
<1> HIDE DEF d3
<1>6. /\ IsMachine(t) /\ t.d = d3 /\ t.ch = s.ch /\ t.buf = s.buf
      /\ t.out = s.out /\ t.mem = s.mem
  BY <1>5, WithDrive
<1> HIDE DEF t
<1>7. SameIds(s.d, t.d) /\ t.d.cmd = "PACKET"
  BY <1>3, <1>4, <1>5, <1>6 DEF SameIds
<1>8. Ids(t)
  BY <1>6, <1>7, EffectIds
<1>9. IsDrive(d4) /\ SameIds(t.d, d4) /\ d4.status = S80
  BY <1>5, <1>6, Statuses DEF IsDrive, SameIds
<1> HIDE DEF d4
<1>10. IsDrive(d5) /\ SameIds(d4, d5) /\ d5.status = S80
  BY <1>9 DEF IsDrive, SameIds
<1> HIDE DEF d5
<1>11. /\ IsMachine(t2) /\ Ids(t2) /\ t2.d.status = S208 /\ t2.d.cmd = t.d.cmd
       /\ t2.d.in_progress = t.d.in_progress /\ t2.ch = t.ch /\ t2.buf = t.buf
  BY <1>6, <1>8, StatusSet, Statuses
<1> HIDE DEF t2
<1>12. Leaves(t, End(t, S255), prdt)
  BY <1>6, <1>8, EndLeaves, Statuses, StatusesDiffer
<1>13. Leaves(t, Shown(t, d5), prdt)
  <2>1. SameIds(t.d, d5) /\ ~Offers(d5, prdt) /\ d5.status # S208
    BY <1>9, <1>10, StatusesDiffer DEF SameIds, Offers
  <2> QED
    BY <1>6, <1>8, <1>10, <2>1, ShownLeaves
<1>14. ASSUME p.a < DiskUnits, p.n # 0
       PROVE  /\ n \in Int /\ n >= 1 /\ k \in Wants /\ k.op = "packet"
              /\ Piece(room) => Piece(k.limit)
  <2> DEFINE w == DiskUnits - p.a
             q == p.n
  <2>2. w \in Int /\ w >= 1 /\ q >= 1 /\ q \in Int
    BY <1>14, ConstantsTyped
  <2> HIDE DEF w, q
  <2>1. Least(q, w) \in Int /\ Least(q, w) >= 1
    BY <2>2, LeastProps
  <2>3. n \in Int /\ n >= 1
    BY <2>1 DEF w, q
  <2>4. /\ Least(room, q) \in Int /\ Least(room, q) <= room
        /\ room >= 1 => Least(room, q) >= 1
    BY <1>2, <2>2, LeastProps
  <2> DEFINE m == Least(room, q)
  <2>5. k.limit = m /\ k.op = "packet" /\ k = [op |-> "packet", limit |-> m]
    BY DEF q
  <2> HIDE DEF m, n, k
  <2>6. Piece(room) => Piece(m)
    BY <1>2, <2>4, ConstantsTyped DEF Piece, m
  <2>7. k \in Wants
    BY <2>4, <2>5 DEF Wants, m
  <2> QED
    BY <2>3, <2>5, <2>6, <2>7
<1> HIDE DEF n, k
<1>15. ASSUME p.a < DiskUnits, p.n # 0
       PROVE  LeavesIf(t2, read_buffer(t2, p.a, n, k), prdt, Piece(room))
  <2>1. LeavesIf(t2, read_buffer(t2, p.a, n, k), prdt, Fits(k, t2))
    BY <1>11, <1>14, <1>15, ReadLeaves
  <2>2. Piece(room) => Fits(k, t2)
    BY <1>7, <1>11, <1>14, <1>15 DEF Fits
  <2> QED
    BY <2>1, <2>2 DEF LeavesIf
<1>16. CASE p.a >= DiskUnits
  <2>1. Leaves(t, x, prdt)
    BY <1>1, <1>12, <1>16
  <2> HIDE DEF x
  <2> QED
    BY <1>6, <1>7, <2>1 DEF Leaves, LeavesIf, SameIds, x, room
<1>17. CASE p.a < DiskUnits /\ p.n = 0
  <2>1. Leaves(t, x, prdt)
    BY <1>1, <1>13, <1>17, ConstantsTyped
  <2> HIDE DEF x
  <2> QED
    BY <1>6, <1>7, <2>1 DEF Leaves, LeavesIf, SameIds, x, room
<1>18. CASE p.a < DiskUnits /\ p.n # 0
  <2>1. LeavesIf(t2, x, prdt, Piece(room))
    BY <1>1, <1>15, <1>18, ConstantsTyped
  <2> HIDE DEF x
  <2> QED
    BY <1>6, <1>7, <1>11, <2>1 DEF LeavesIf, SameIds, x, room
<1> QED
  BY <1>16, <1>17, <1>18, ConstantsTyped

LEMMA AtapiReadDma ==
  ASSUME NEW s, IsMachine(s), Ids(s), s.d.cmd = "PACKET", NEW p, p.a \in Nat, p.n \in Nat,
         NEW prdt, prdt # << >>
  PROVE  Leaves(s, atapi_read_dma(s, p), prdt)
<1> DEFINE s1 == [s EXCEPT !.d.status = S208]
           k  == [op |-> "packet_dma"]
<1>1. atapi_read_dma(s, p) = IF p.a >= DiskUnits THEN End(s, S255)
                             ELSE read_buffer(s1, p.a, p.n, k)
  BY DEF atapi_read_dma
<1>2. /\ IsMachine(s1) /\ Ids(s1) /\ s1.d.status = S208 /\ s1.d.cmd = s.d.cmd
      /\ s1.d.in_progress = s.d.in_progress /\ s1.ch = s.ch /\ s1.buf = s.buf
  BY StatusSet, Statuses
<1> HIDE DEF s1
<1>3. k \in Wants /\ k.op = "packet_dma"
  BY DEF Wants
<1> HIDE DEF k
<1>4. Fits(k, s1)
  BY <1>2, <1>3 DEF Fits
<1>5. LeavesIf(s1, read_buffer(s1, p.a, p.n, k), prdt, Fits(k, s1))
  BY <1>2, <1>3, ReadLeaves
<1>6. Leaves(s, read_buffer(s1, p.a, p.n, k), prdt)
  BY <1>2, <1>4, <1>5 DEF Leaves, LeavesIf
<1>7. Leaves(s, End(s, S255), prdt)
  BY EndLeaves, Statuses, StatusesDiffer
<1> QED
  BY <1>1, <1>6, <1>7

Silenced(t) == [t EXCEPT !.d.sense = "none"]
Emptied(t)  == [t EXCEPT !.d.has_disk = FALSE]

LEMMA AnswersTold ==
  ASSUME NEW s, IsMachine(s), NEW n \in Nat, NEW st \in {S80, S88}
  PROVE  LET e == data_allocate(s.d, n)
         IN  /\ Answer(s, n, st) = Shown(s, Told(e, n, st, e.reason, e.sense, e.has_disk))
             /\ Silenced(Answer(s, n, st)) = Shown(s, Told(e, n, st, e.reason, "none", e.has_disk))
             /\ Emptied(Answer(s, n, st)) = Shown(s, Told(e, n, st, e.reason, e.sense, FALSE))
<1> DEFINE e == data_allocate(s.d, n)
           f == [e EXCEPT !.end = n, !.status = st]
           a == Answer(s, n, st)
<1>1. a = [s EXCEPT !.d = f]
  BY DEF Answer
<1>2. IsDrive(e)
  BY DataAllocated DEF IsMachine
<1> HIDE DEF e
<1>3. /\ f = Told(e, n, st, e.reason, e.sense, e.has_disk)
      /\ [f EXCEPT !.sense = "none"] = Told(e, n, st, e.reason, "none", e.has_disk)
      /\ [f EXCEPT !.has_disk = FALSE] = Told(e, n, st, e.reason, e.sense, FALSE)
  BY <1>2 DEF Told, IsDrive
<1> HIDE DEF f
<1>4. a.d = f /\ \A x : [a EXCEPT !.d = x] = [s EXCEPT !.d = x]
  <2> HIDE DEF a
  <2> QED
    BY <1>1 DEF IsMachine
<1>5. /\ Silenced(a) = [a EXCEPT !.d = [f EXCEPT !.sense = "none"]]
      /\ Emptied(a) = [a EXCEPT !.d = [f EXCEPT !.has_disk = FALSE]]
  <2> HIDE DEF a
  <2> QED
    BY <1>4 DEF Silenced, Emptied
<1> HIDE DEF a
<1> QED
  BY <1>1, <1>3, <1>4, <1>5 DEF Shown, a, e

LEMMA AnswersLeave ==
  ASSUME NEW s, IsMachine(s), Ids(s), NEW n \in Nat, NEW st \in {S80, S88}, NEW prdt
  PROVE  /\ NearlyLeaves(s, Answer(s, n, st), prdt, TRUE)
         /\ NearlyLeaves(s, Silenced(Answer(s, n, st)), prdt, TRUE)
         /\ NearlyLeaves(s, Emptied(Answer(s, n, st)), prdt, TRUE)
<1> DEFINE e == data_allocate(s.d, n)
<1>1. /\ Answer(s, n, st) = Shown(s, Told(e, n, st, e.reason, e.sense, e.has_disk))
      /\ Silenced(Answer(s, n, st)) = Shown(s, Told(e, n, st, e.reason, "none", e.has_disk))
      /\ Emptied(Answer(s, n, st)) = Shown(s, Told(e, n, st, e.reason, e.sense, FALSE))
  BY AnswersTold
<1>2. IsDrive(e) /\ SameButData(s.d, e) /\ e.ptr = 0 /\ e.len = n
  BY DataAllocated DEF IsMachine
<1> HIDE DEF e
<1>3. e.reason \in 0 .. 3 /\ e.has_disk \in BOOLEAN /\ FALSE \in BOOLEAN
  BY <1>2 DEF IsDrive
<1>4. \A sense : \A h \in BOOLEAN : NearlyLeaves(s, Shown(s, Told(e, n, st, e.reason, sense, h)), prdt, TRUE)
  BY <1>2, <1>3, AnswerLeaves
<1> QED
  BY <1>1, <1>3, <1>4

(* A packet that fails. *)
LEMMA CheckCondition ==
  ASSUME NEW s, IsMachine(s), Ids(s), NEW sense, NEW prdt
  PROVE  /\ NearlyLeaves(s, check_condition(s, sense), prdt, TRUE)
         /\ check_condition(s, sense).d.status = S65
<1> DEFINE e == data_allocate(s.d, 0)
           f == [e EXCEPT !.end = 0, !.status = S65, !.reason = 3, !.sense = sense]
           c == check_condition(s, sense)
<1>1. c = [s EXCEPT !.d = f]
  BY DEF check_condition
<1>2. IsDrive(e) /\ SameButData(s.d, e) /\ e.ptr = 0 /\ e.len = 0
  BY DataAllocated DEF IsMachine
<1> HIDE DEF e
<1>3. e.has_disk \in BOOLEAN /\ f.status = S65
  BY <1>2 DEF IsDrive
<1>4. f = Told(e, 0, S65, 3, sense, e.has_disk)
  BY <1>2 DEF Told, IsDrive
<1> HIDE DEF f
<1>5. c = Shown(s, Told(e, 0, S65, 3, sense, e.has_disk))
  BY <1>1, <1>4 DEF Shown
<1>6. NearlyLeaves(s, Shown(s, Told(e, 0, S65, 3, sense, e.has_disk)), prdt, TRUE)
  <2> DEFINE n  == 0
             st == S65
             r  == 3
             h  == e.has_disk
  <2>1. r \in 0 .. 3 /\ n \in Nat /\ st \in {S80, S88, S65}
    OBVIOUS
  <2>2. IsMachine(s) /\ Ids(s) /\ IsDrive(e) /\ SameButData(s.d, e) /\ e.len = n /\ e.ptr = 0
    BY <1>2
  <2>3. h \in BOOLEAN
    BY <1>3
  <2> HIDE DEF n, st, r, h
  <2>4. NearlyLeaves(s, Shown(s, Told(e, n, st, r, sense, h)), prdt, TRUE)
    BY <2>1, <2>2, <2>3, AnswerLeaves
  <2> QED
    BY <2>4 DEF n, st, r, h
<1> HIDE DEF c
<1>7. c.d = f
  BY <1>1 DEF IsMachine
<1> QED
  BY <1>3, <1>5, <1>6, <1>7 DEF c

LEMMA NearlyThere ==
  ASSUME NEW s, NEW t, NEW prdt, NearlyLeaves(s, t, prdt, TRUE)
  PROVE  /\ \A ok \in BOOLEAN : NearlyLeaves(s, t, prdt, ok)
         /\ t.d.status # S88 => Leaves(s, t, prdt)
BY DEF NearlyLeaves, Nearly, Leaves, Waits, Offers

(* A packet arrives. *)
Arrived(s0, p) ==
  [s0 EXCEPT !.d.ptr = 0, !.d.sense = IF p.name = "REQUEST_SENSE" THEN @ ELSE "none"]

LEMMA ArrivedProps ==
  ASSUME NEW s0, IsMachine(s0), Ids(s0), NEW p
  PROVE  LET s == Arrived(s0, p)
         IN  /\ IsMachine(s) /\ Ids(s) /\ SameIds(s0.d, s.d) /\ s.d.cmd = s0.d.cmd
             /\ s.d.mid = s0.d.mid /\ s.d.high = s0.d.high /\ s.ch = s0.ch /\ s.buf = s0.buf
<1> DEFINE x == IF p.name = "REQUEST_SENSE" THEN s0.d.sense ELSE "none"
           d1 == [s0.d EXCEPT !.ptr = 0]
           d2 == [d1 EXCEPT !.sense = x]
           s == [s0 EXCEPT !.d = d2]
<1>1. IsDrive(s0.d)
  BY DEF IsMachine
<1>2. s = Arrived(s0, p)
  <2>1. d1.sense = s0.d.sense
    BY <1>1 DEF IsDrive
  <2> QED
    BY <2>1 DEF Arrived
<1> HIDE DEF x
<1>3. IsDrive(d1) /\ SameIds(s0.d, d1) /\ d1.cmd = s0.d.cmd /\ d1.mid = s0.d.mid /\ d1.high = s0.d.high
  BY <1>1 DEF IsDrive, SameIds
<1> HIDE DEF d1
<1>4. IsDrive(d2) /\ SameIds(d1, d2) /\ d2.cmd = d1.cmd /\ d2.mid = d1.mid /\ d2.high = d1.high
  BY <1>3 DEF IsDrive, SameIds
<1> HIDE DEF d2
<1>5. IsMachine(s) /\ s.d = d2 /\ s.ch = s0.ch /\ s.buf = s0.buf /\ s.out = s0.out
  BY <1>4, WithDrive
<1> HIDE DEF s
<1>6. SameIds(s0.d, s.d)
  BY <1>3, <1>4, <1>5 DEF SameIds
<1> QED
  BY <1>2, <1>3, <1>4, <1>5, <1>6, EffectIds

(* Any packet, from the state in which the drive asks for one. *)
LEMMA AtapiHandle ==
  ASSUME NEW s0, IsMachine(s0), Ids(s0), s0.d.cmd = "PACKET", NEW p \in Packets
  PROVE  LeavesIf(s0, atapi_handle(s0, p), p.prdt, Piece(s0.d.mid + Base * s0.d.high))
<1> DEFINE s    == Arrived(s0, p)
           ok   == Piece(s0.d.mid + Base * s0.d.high)
           cc   == push_irq(check_condition(s, "no_medium"))
           ill  == check_condition(s, "illegal")
           dma  == atapi_read_dma(s, p)
           read == atapi_read(s, p)
           one  == IF p.dma THEN dma ELSE read
           a1   == Silenced(Answer(s, p.n, S88))
           a2   == Answer(s, p.n, S88)
           a3   == Answer(s, 0, S80)
           a4   == Emptied(Answer(s, 0, S80))
           t    == CASE p.name = "READ" -> one
                     [] p.name = "REQUEST_SENSE" -> a1
                     [] p.name \in {"READ_CAPACITY", "INQUIRY"} -> a2
                     [] p.name = "TEST_UNIT_READY" -> a3
                     [] p.name = "EJECT" -> a4
                     [] p.name = "UNKNOWN" -> ill
           x    == atapi_handle(s0, p)
           bad  == p.name \in NeedsDisk /\ ~s.d.has_disk
<1>1. x = IF bad THEN cc ELSE PacketDone(t)
  BY DEF atapi_handle, Arrived, Silenced, Emptied
<1>2. /\ IsMachine(s) /\ Ids(s) /\ SameIds(s0.d, s.d) /\ s.d.cmd = s0.d.cmd
      /\ s.d.mid = s0.d.mid /\ s.d.high = s0.d.high /\ s.ch = s0.ch /\ s.buf = s0.buf
  BY ArrivedProps
<1> HIDE DEF s
<1>3. /\ p.a \in Nat /\ p.n \in Nat /\ p.dma \in BOOLEAN /\ (p.dma <=> p.prdt # << >>)
      /\ p.name \in {"READ", "REQUEST_SENSE", "READ_CAPACITY", "INQUIRY", "TEST_UNIT_READY",
                     "EJECT", "UNKNOWN"}
  BY GuestAssumption
<1>4. ok \in BOOLEAN /\ ok = Piece(s.d.mid + Base * s.d.high)
  BY <1>2 DEF Piece
<1> HIDE DEF ok
<1>5. Leaves(s, cc, p.prdt)
  <2> DEFINE c == check_condition(s, "no_medium")
  <2>1. NearlyLeaves(s, c, p.prdt, TRUE) /\ c.d.status = S65
    BY <1>2, CheckCondition
  <2> HIDE DEF c
  <2>2. Leaves(s, c, p.prdt)
    BY <2>1, NearlyThere, StatusesDiffer
  <2>3. Leaves(s, push_irq(c), p.prdt)
    BY <2>2, PushLeaves
  <2> QED
    BY <2>3 DEF c
<1>6. NearlyLeaves(s, ill, p.prdt, ok)
  <2>1. NearlyLeaves(s, ill, p.prdt, TRUE)
    BY <1>2, CheckCondition
  <2> HIDE DEF ill
  <2> QED
    BY <1>4, <2>1, NearlyThere
<1>7. NearlyLeaves(s, one, p.prdt, ok)
  <2>1. CASE p.dma
    <3>1. Leaves(s, dma, p.prdt)
      BY <1>2, <1>3, <2>1, AtapiReadDma
    <3> HIDE DEF dma
    <3>2. NearlyLeaves(s, dma, p.prdt, ok)
      BY <1>4, <3>1, IfLeaves, LeavesNearly
    <3> QED
      BY <2>1, <3>2
  <2>2. CASE ~p.dma
    <3>1. LeavesIf(s, read, p.prdt, ok)
      BY <1>2, <1>3, <1>4, AtapiRead
    <3> HIDE DEF read
    <3>2. NearlyLeaves(s, read, p.prdt, ok)
      BY <3>1, LeavesNearly
    <3> QED
      BY <2>2, <3>2
  <2> QED
    BY <2>1, <2>2
<1>8. /\ NearlyLeaves(s, a1, p.prdt, ok) /\ NearlyLeaves(s, a2, p.prdt, ok)
      /\ NearlyLeaves(s, a3, p.prdt, ok) /\ NearlyLeaves(s, a4, p.prdt, ok)
  <2>0. S80 \in {S80, S88} /\ S88 \in {S80, S88} /\ 0 \in Nat
    OBVIOUS
  <2>1. /\ NearlyLeaves(s, a1, p.prdt, TRUE) /\ NearlyLeaves(s, a2, p.prdt, TRUE)
        /\ NearlyLeaves(s, a3, p.prdt, TRUE) /\ NearlyLeaves(s, a4, p.prdt, TRUE)
    BY <1>2, <1>3, <2>0, AnswersLeave
  <2> HIDE DEF a1, a2, a3, a4
  <2> QED
    BY <1>4, <2>1, NearlyThere
<1> HIDE DEF one, ill, a1, a2, a3, a4, cc, bad
<1>9. NearlyLeaves(s, t, p.prdt, ok)
  <2>1. t \in {one, a1, a2, a3, a4, ill}
    BY <1>3
  <2> HIDE DEF t
  <2> QED
    BY <1>6, <1>7, <1>8, <2>1
<1> HIDE DEF t
<1>10. LeavesIf(s, PacketDone(t), p.prdt, ok)
  BY <1>9, PacketDoneLeaves
<1>11. LeavesIf(s, x, p.prdt, ok)
  <2>1. LeavesIf(s, cc, p.prdt, ok)
    BY <1>4, <1>5, IfLeaves
  <2> HIDE DEF x
  <2> QED
    BY <1>1, <1>10, <2>1
<1> HIDE DEF x
<1>12. LeavesIf(s0, x, p.prdt, ok)
  BY <1>2, <1>11 DEF LeavesIf, SameIds
<1> QED
  BY <1>12 DEF x, ok

-----------------------------------------------------------------------------
(* The data port *)

(* The next piece of the data is offered. *)
LEMMA NextPiece ==
  ASSUME NEW s, IsMachine(s), Ids(s), s.d.cmd = "PACKET", NEW prdt
  PROVE  LET d == s.d
             m == Least(d.mid + Base * d.high, d.len - d.end)
         IN  LeavesIf(s, Ended(s, [d EXCEPT !.reason = 2, !.end = @ + m, !.mid = Byte(m),
                                            !.high = Byte(m \div Base)], S88), prdt,
                      d.ptr = d.end /\ d.end < d.len /\ Piece(d.mid + Base * d.high))
<1> DEFINE d == s.d
           m == Least(d.mid + Base * d.high, d.len - d.end)
           lo == Byte(m)
           hi == Byte(m \div Base)
           v  == d.end + m
           ok == d.ptr = d.end /\ d.end < d.len /\ Piece(d.mid + Base * d.high)
           d1 == [d EXCEPT !.reason = 2]
           d2 == [d1 EXCEPT !.end = v]
           d3 == [d2 EXCEPT !.mid = lo]
           d4 == [d3 EXCEPT !.high = hi]
           t  == Ended(s, d4, S88)
<1>1. IsDrive(d)
  BY DEF IsMachine
<1>2. /\ d.mid \in Int /\ d.high \in Int /\ d.len \in Int /\ d.end \in Int /\ d.ptr \in Int
      /\ Base \in Nat \ {0} /\ Base * Base \in Nat
  <2>1. Base \in Nat \ {0} /\ Base * Base \in Nat
    BY ConstantsTyped
  <2> QED
    BY <1>1, <2>1 DEF IsDrive, Words
<1>3. d1.end = d.end
  BY <1>1 DEF IsDrive
<1>4. [d EXCEPT !.reason = 2, !.end = @ + m, !.mid = lo, !.high = hi] = d4
  <2> HIDE DEF d, m, lo, hi, d1
  <2> QED
    BY <1>1, <1>3 DEF IsDrive, d1
<1> HIDE DEF d
<1>5. m \in Int /\ v \in Int /\ (ok => Piece(m) /\ m \in Words /\ v <= d.len /\ v > d.end)
  <2> DEFINE r == d.mid + Base * d.high
             q == d.len - d.end
  <2>1. r \in Int /\ q \in Int
    BY <1>2
  <2>2. ok => q >= 1 /\ Piece(r)
    BY <1>2
  <2> HIDE DEF r, q, ok
  <2>3. /\ Least(r, q) \in Int /\ Least(r, q) <= r /\ Least(r, q) <= q
        /\ r >= 1 /\ q >= 1 => Least(r, q) >= 1
    BY <2>1, LeastProps
  <2>4. m = Least(r, q)
    BY DEF r, q
  <2> HIDE DEF m
  <2>5. m \in Int /\ m <= r /\ m <= q /\ (r >= 1 /\ q >= 1 => m >= 1)
    BY <2>3, <2>4
  <2>6. ok => Piece(m) /\ m \in Words
    BY <1>2, <2>1, <2>2, <2>5 DEF Piece, Words
  <2>7. m <= d.len - d.end
    BY <2>5 DEF q
  <2>8. ok => m >= 1
    BY <2>6, <1>2 DEF Piece
  <2> QED
    BY <1>2, <2>5, <2>6, <2>7, <2>8
<1> HIDE DEF m, ok
<1>6. lo \in Words /\ hi \in Words /\ (ok => lo + Base * hi = m)
  <2>1. m \div Base \in Int
    BY <1>5, RemainderRange, ConstantsTyped
  <2> QED
    BY <1>5, <2>1, ByteRange, TwoBytesSay
<1> HIDE DEF lo, hi, v
<1>7. IsDrive(d1) /\ SameIds(d, d1) /\ d1.ptr = d.ptr /\ d1.len = d.len /\ d1.reason = 2
  BY <1>1 DEF IsDrive, SameIds
<1> HIDE DEF d1
<1>8. IsDrive(d2) /\ SameIds(d1, d2) /\ d2.ptr = d1.ptr /\ d2.len = d1.len /\ d2.reason = 2 /\ d2.end = v
  BY <1>5, <1>7 DEF IsDrive, SameIds
<1> HIDE DEF d2
<1>9. /\ IsDrive(d3) /\ SameIds(d2, d3) /\ d3.ptr = d2.ptr /\ d3.len = d2.len /\ d3.reason = 2
      /\ d3.end = v /\ d3.mid = lo
  BY <1>6, <1>8 DEF IsDrive, SameIds
<1> HIDE DEF d3
<1>10. /\ IsDrive(d4) /\ SameIds(d3, d4) /\ d4.ptr = d3.ptr /\ d4.len = d3.len /\ d4.reason = 2
       /\ d4.end = v /\ d4.mid = lo /\ d4.high = hi
  BY <1>6, <1>9 DEF IsDrive, SameIds
<1> HIDE DEF d4
<1>11. SameIds(d, d4) /\ d4.ptr = d.ptr /\ d4.len = d.len
  BY <1>7, <1>8, <1>9, <1>10 DEF SameIds
<1>12. ok => DataThere(d4)
  <2>1. ok => /\ d4.ptr = d.end /\ d4.len = d.len /\ d4.end = v /\ Piece(d4.mid + Base * d4.high)
    BY <1>5, <1>6, <1>10, <1>11 DEF ok
  <2> QED
    BY <1>2, <1>5, <2>1 DEF DataThere
<1>13. /\ Effect(s, t) /\ t.buf = s.buf /\ t.d.status = S88 /\ t.d.cmd = d4.cmd
       /\ t.d.ptr = d4.ptr /\ t.d.end = d4.end
       /\ t.d.len = d4.len /\ t.d.reason = d4.reason /\ t.d.mid = d4.mid /\ t.d.high = d4.high
  BY <1>10, <1>11, EndEffect, Statuses DEF d
<1> HIDE DEF t
<1>14. IsMachine(t) /\ Ids(t)
  BY <1>13, EffectIds DEF Effect
<1>15. s.d.in_progress = {} /\ ok => Waits(t, prdt)
  <2>1. ok => DataThere(t.d)
    BY <1>12, <1>13 DEF DataThere
  <2>2. s.d.in_progress = {} => t.d.in_progress = {} /\ Busy(t)
    BY <1>13, Idle, StatusesDiffer DEF Effect, SameIds
  <2> QED
    BY <2>1, <2>2 DEF Waits
<1>16. LeavesIf(s, t, prdt, ok)
  BY <1>13, <1>14, <1>15 DEF LeavesIf
<1> QED
  BY <1>4, <1>16 DEF t, ok, lo, hi, m, d

(* The end of a piece has been read. *)
PieceRead(d) ==
  /\ d.ptr = d.end /\ d.end <= d.len
  /\ d.cmd = "PACKET" /\ d.end < d.len => Piece(d.mid + Base * d.high)

(* The next sectors of a disk are offered. *)
LEMMA NextSectors ==
  ASSUME NEW s, IsMachine(s), Ids(s), s.d.cmd # "PACKET", NEW n \in Int, NEW prdt
  PROVE  LeavesIf(s, Ended(s, [ata_advance(s.d, s.d.cmd, n) EXCEPT !.end = @ + n], S88), prdt,
                  s.d.ptr = s.d.end /\ n >= 1 /\ n <= s.d.len - s.d.end)
<1> DEFINE d1 == ata_advance(s.d, s.d.cmd, n)
           v  == s.d.end + n
           d2 == [d1 EXCEPT !.end = v]
           ok == s.d.ptr = s.d.end /\ n >= 1 /\ n <= s.d.len - s.d.end
           t  == Ended(s, d2, S88)
<1>1. IsDrive(s.d)
  BY DEF IsMachine
<1>2. s.d.len \in Int /\ s.d.end \in Int /\ s.d.ptr \in Int
  BY <1>1 DEF IsDrive
<1>3. v \in Int /\ (ok => v > s.d.end /\ v <= s.d.len)
  BY <1>2
<1>4. IsDrive(d1) /\ SameButAddress(s.d, d1)
  BY <1>1, AdvanceTyped
<1> HIDE DEF d1
<1>5. [d1 EXCEPT !.end = @ + n] = d2
  BY <1>4 DEF SameButAddress, IsDrive
<1> HIDE DEF v
<1>6. /\ IsDrive(d2) /\ SameIds(d1, d2) /\ d2.ptr = d1.ptr /\ d2.len = d1.len /\ d2.cmd = d1.cmd
      /\ d2.end = v
  BY <1>3, <1>4 DEF IsDrive, SameIds
<1> HIDE DEF d2
<1>7. SameIds(s.d, d2) /\ d2.ptr = s.d.ptr /\ d2.len = s.d.len /\ d2.cmd # "PACKET"
  BY <1>4, <1>6 DEF SameIds, SameButAddress
<1>8. /\ Effect(s, t) /\ t.buf = s.buf /\ t.d.status = S88 /\ t.d.cmd = d2.cmd
      /\ t.d.ptr = d2.ptr /\ t.d.end = d2.end /\ t.d.len = d2.len
  BY <1>6, <1>7, EndEffect, Statuses
<1> HIDE DEF t
<1>9. IsMachine(t) /\ Ids(t)
  BY <1>8, EffectIds DEF Effect
<1>10. s.d.in_progress = {} /\ ok => Waits(t, prdt)
  <2>1. ok => DataThere(t.d)
    BY <1>2, <1>3, <1>6, <1>7, <1>8 DEF DataThere
  <2>2. s.d.in_progress = {} => t.d.in_progress = {} /\ Busy(t)
    BY <1>8, Idle, StatusesDiffer DEF Effect, SameIds
  <2> QED
    BY <2>1, <2>2 DEF Waits
<1>11. LeavesIf(s, t, prdt, ok)
  BY <1>8, <1>9, <1>10 DEF LeavesIf
<1> QED
  BY <1>5, <1>11 DEF t, d1

LEMMA ReadEnd ==
  ASSUME NEW s, IsMachine(s), Ids(s), NEW prdt
  PROVE  LeavesIf(s, read_end(s), prdt, PieceRead(s.d))
<1> DEFINE d    == s.d
           rest == d.len - d.end
           n    == IF d.cmd \in {"READ_MULTIPLE", "READ_MULTIPLE_EXT"} THEN Least(d.drq, rest) ELSE 1
           m    == Least(d.mid + Base * d.high, rest)
           e1   == [d EXCEPT !.reason = 3]
           b1   == Ended(s, e1, S80)
           b2   == Ended(s, [d EXCEPT !.reason = 2, !.end = @ + m, !.mid = Byte(m),
                                      !.high = Byte(m \div Base)], S88)
           e3   == [d EXCEPT !.status = S80]
           b3   == Shown(s, e3)
           b4   == Ended(s, [ata_advance(d, d.cmd, n) EXCEPT !.end = @ + n], S88)
           x    == read_end(s)
           ok   == PieceRead(d)
<1>1. IsDrive(d)
  BY DEF IsMachine
<1>2. d.len \in Int /\ d.end \in Int /\ d.ptr \in Int /\ d.drq \in Nat \ {0}
  BY <1>1 DEF IsDrive
<1>3. x = CASE d.cmd = "PACKET" /\ rest = 0 -> b1
            [] d.cmd = "PACKET" /\ rest # 0 -> b2
            [] d.cmd # "PACKET" /\ d.ptr >= d.len -> b3
            [] OTHER -> b4
  <2> DEFINE c1 == End([s EXCEPT !.d.reason = 3], S80)
             c2 == End([s EXCEPT !.d = [d EXCEPT !.reason = 2, !.end = @ + m, !.mid = Byte(m),
                                                 !.high = Byte(m \div Base)]], S88)
             c3 == [s EXCEPT !.d.status = S80]
             c4 == End([s EXCEPT !.d = [ata_advance(d, d.cmd, n) EXCEPT !.end = @ + n]], S88)
  <2>1. c1 = b1
    BY DEF Ended
  <2>12. c3 = b3
    BY DEF Shown
  <2>2. c2 = b2
    <3> HIDE DEF rest, m
    <3> QED
      BY DEF Ended
  <2>3. c4 = b4
    BY DEF Ended
  <2> HIDE DEF b1, b2, b3, b4
  <2>4. x = CASE d.cmd = "PACKET" /\ rest = 0 -> c1
              [] d.cmd = "PACKET" /\ rest # 0 -> c2
              [] d.cmd # "PACKET" /\ d.ptr >= d.len -> c3
              [] OTHER -> c4
    BY Zenon DEF read_end
  <2> HIDE DEF c1, c2, c3, c4, x, rest, d
  <2> QED
    BY <2>1, <2>12, <2>2, <2>3, <2>4
<1>4. LeavesIf(s, b1, prdt, ok)
  <2>1. IsDrive(e1) /\ SameIds(d, e1)
    BY <1>1 DEF IsDrive, SameIds
  <2> HIDE DEF e1
  <2>2. Leaves(s, b1, prdt)
    BY <2>1, EndedLeaves, Statuses, StatusesDiffer
  <2> HIDE DEF b1, ok
  <2> QED
    BY <2>2 DEF Leaves, LeavesIf
<1>5. d.cmd = "PACKET" /\ rest # 0 => LeavesIf(s, b2, prdt, ok)
  <2>1. d.cmd = "PACKET" =>
          LeavesIf(s, b2, prdt, d.ptr = d.end /\ d.end < d.len /\ Piece(d.mid + Base * d.high))
    BY NextPiece
  <2> HIDE DEF b2
  <2>2. d.cmd = "PACKET" /\ rest # 0 /\ ok =>
          d.ptr = d.end /\ d.end < d.len /\ Piece(d.mid + Base * d.high)
    BY <1>2 DEF PieceRead
  <2> HIDE DEF ok, d, rest
  <2> QED
    BY <2>1, <2>2 DEF LeavesIf
<1>6. LeavesIf(s, b3, prdt, ok)
  <2>1. IsDrive(e3) /\ SameIds(d, e3) /\ e3.status = S80
    BY <1>1, Statuses DEF IsDrive, SameIds
  <2> HIDE DEF e3
  <2>2. Leaves(s, b3, prdt)
    BY <2>1, ShownLeaves, StatusesDiffer DEF Offers
  <2> HIDE DEF b3, ok
  <2> QED
    BY <2>2 DEF Leaves, LeavesIf
<1>7. d.cmd # "PACKET" /\ ~(d.ptr >= d.len) => LeavesIf(s, b4, prdt, ok)
  <2>0. rest \in Int
    BY <1>2
  <2>1. n \in Int /\ (rest >= 1 => n >= 1 /\ n <= rest)
    <3> DEFINE w == d.drq
    <3>0. w \in Int /\ w >= 1
      BY <1>2
    <3> HIDE DEF rest, w
    <3>1. /\ Least(w, rest) \in Int /\ Least(w, rest) <= rest
          /\ w >= 1 /\ rest >= 1 => Least(w, rest) >= 1
      BY <2>0, <3>0, LeastProps
    <3>2. n \in {Least(w, rest), 1}
      BY DEF w
    <3> HIDE DEF n
    <3> QED
      BY <2>0, <3>0, <3>1, <3>2
  <2>2. ~(d.ptr >= d.len) /\ ok => d.ptr = d.end /\ rest >= 1
    BY <1>2 DEF PieceRead
  <2> HIDE DEF n, ok
  <2>3. d.cmd # "PACKET" => LeavesIf(s, b4, prdt, d.ptr = d.end /\ n >= 1 /\ n <= rest)
    BY <2>1, NextSectors
  <2> HIDE DEF b4, d, rest
  <2> QED
    BY <2>1, <2>2, <2>3 DEF LeavesIf
<1> HIDE DEF b1, b2, b3, b4, x, ok, rest, d
<1>8. LeavesIf(s, x, prdt, ok)
  <2>1. \/ d.cmd = "PACKET" /\ rest = 0 /\ x = b1
        \/ d.cmd = "PACKET" /\ rest # 0 /\ x = b2
        \/ d.cmd # "PACKET" /\ d.ptr >= d.len /\ x = b3
        \/ d.cmd # "PACKET" /\ ~(d.ptr >= d.len) /\ x = b4
    BY <1>3
  <2> QED
    BY <1>4, <1>5, <1>6, <1>7, <2>1
<1> QED
  BY <1>8 DEF x, ok, d

LEMMA ReadData ==
  ASSUME NEW s, IsMachine(s), Ids(s), NEW prdt
  PROVE  LeavesIf(s, read_data(s), prdt, s.d.status = S88 /\ DataThere(s.d))
<1> DEFINE v  == s.d.ptr + 1
           d1 == [s.d EXCEPT !.ptr = v]
           t  == [s EXCEPT !.d = d1]
           ok == s.d.status = S88 /\ DataThere(s.d)
           x  == read_data(s)
<1>1. IsDrive(s.d)
  BY DEF IsMachine
<1>2. s.d.len \in Int /\ s.d.end \in Int /\ s.d.ptr \in Int /\ v \in Int
  BY <1>1 DEF IsDrive
<1>3. x = IF s.d.ptr < s.d.end /\ t.d.ptr >= t.d.end THEN read_end(t) ELSE t
  BY DEF read_data
<1>4. /\ IsDrive(d1) /\ SameIds(s.d, d1) /\ d1.ptr = v /\ d1.end = s.d.end /\ d1.len = s.d.len
      /\ d1.cmd = s.d.cmd /\ d1.mid = s.d.mid /\ d1.high = s.d.high /\ d1.reason = s.d.reason
      /\ d1.status = s.d.status
  BY <1>1, <1>2 DEF IsDrive, SameIds
<1> HIDE DEF d1
<1>5. IsMachine(t) /\ t.d = d1 /\ t.ch = s.ch /\ t.buf = s.buf /\ t.out = s.out /\ t.mem = s.mem
  BY <1>4, WithDrive
<1> HIDE DEF t
<1>6. Ids(t)
  BY <1>4, <1>5, EffectIds
<1>7. CASE s.d.ptr < s.d.end /\ t.d.ptr >= t.d.end
  <2>1. LeavesIf(t, read_end(t), prdt, PieceRead(t.d))
    BY <1>5, <1>6, ReadEnd
  <2>2. ok => PieceRead(t.d)
    BY <1>2, <1>4, <1>5, <1>7 DEF DataThere, PieceRead, v
  <2>3. x = read_end(t)
    BY <1>3, <1>7
  <2> HIDE DEF x, ok
  <2>4. LeavesIf(s, x, prdt, ok)
    BY <1>4, <1>5, <2>1, <2>2, <2>3 DEF LeavesIf, SameIds
  <2> QED
    BY <2>4 DEF x, ok
<1>8. CASE ~(s.d.ptr < s.d.end /\ t.d.ptr >= t.d.end)
  <2>1. x = t
    BY <1>3, <1>8
  <2>2. ok => DataThere(t.d) /\ t.d.status = S88
    BY <1>2, <1>4, <1>5, <1>8 DEF DataThere, v
  <2> HIDE DEF x, ok
  <2>3. s.d.in_progress = {} /\ ok => Waits(t, prdt)
    <3>1. s.d.in_progress = {} /\ ok => t.d.in_progress = {} /\ Busy(t)
      BY <1>4, <1>5, <2>2, Idle, StatusesDiffer DEF SameIds
    <3> QED
      BY <2>2, <3>1 DEF Waits
  <2>4. LeavesIf(s, x, prdt, ok)
    BY <1>5, <1>6, <2>1, <2>3 DEF LeavesIf
  <2> QED
    BY <2>4 DEF x, ok
<1> QED
  BY <1>7, <1>8

WithBuffer(t, b) == [t EXCEPT !.buf = b]

LEMMA BufferLeaves ==
  ASSUME NEW s, NEW t, NEW b, IsBuffer(b), b.medium = t.buf.medium, NEW prdt, Leaves(s, t, prdt)
  PROVE  Leaves(s, WithBuffer(t, b), prdt)
<1> DEFINE u == WithBuffer(t, b)
<1>1. /\ IsMachine(u) /\ u.d = t.d /\ u.ch = t.ch /\ u.buf = b /\ u.out = t.out /\ u.mem = t.mem
  BY DEF Leaves, IsMachine, WithBuffer
<1> HIDE DEF u
<1>2. Ids(t) => Ids(u)
  BY <1>1, EffectIds DEF SameIds
<1>3. Busy(t) => Busy(u)
  BY <1>1 DEF Busy, Fits
<1> QED
  BY <1>1, <1>2, <1>3 DEF Leaves, Waits, u

(* The data have been written. *)
LEMMA DoWrite ==
  ASSUME NEW s, IsMachine(s), Ids(s), NEW prdt
  PROVE  Leaves(s, do_write(s), prdt)
<1> DEFINE d1 == ata_advance(s.d, s.d.cmd, s.d.len)
           t  == Ended(s, d1, S80)
           b  == BufferSet(t.buf, s.d.dest, SubSeq(s.d.data, 1, s.d.len))
<1>1. IsDrive(s.d)
  BY DEF IsMachine
<1>2. IsDrive(d1) /\ SameIds(s.d, d1)
  <2>1. s.d.len \in Int
    BY <1>1 DEF IsDrive
  <2>2. IsDrive(d1) /\ SameButAddress(s.d, d1)
    BY <1>1, <2>1, AdvanceTyped
  <2> QED
    BY <2>2 DEF SameButAddress, SameIds
<1>3. do_write(s) = WithBuffer(t, b)
  BY DEF do_write, WithBuffer, Ended
<1> HIDE DEF d1
<1>4. Leaves(s, t, prdt)
  BY <1>2, EndedLeaves, Statuses, StatusesDiffer
<1> HIDE DEF t
<1>5. IsBuffer(b) /\ b.medium = t.buf.medium
  BY <1>4, BufferSetTyped DEF Leaves, IsMachine
<1> HIDE DEF b
<1>6. Leaves(s, WithBuffer(t, b), prdt)
  BY <1>4, <1>5, BufferLeaves
<1> QED
  BY <1>3, <1>6

LEMMA WriteDataPort ==
  ASSUME NEW s, IsMachine(s), Ids(s), NEW v, NEW prdt
  PROVE  LeavesIf(s, write_data_port(s, v), prdt, s.d.status = S88 /\ DataThere(s.d))
<1> DEFINE g  == [s.d.data EXCEPT ![s.d.ptr + 1] = v]
           d1 == [s.d EXCEPT !.data = g]
           d2 == [d1 EXCEPT !.ptr = @ + 1]
           t  == [s EXCEPT !.d = d2]
           d3 == [t.d EXCEPT !.end = @ + 1]
           e  == Ended(t, d3, S88)
           w  == do_write(t)
           ok == s.d.status = S88 /\ DataThere(s.d)
           x  == write_data_port(s, v)
<1>1. IsDrive(s.d)
  BY DEF IsMachine
<1>2. s.d.len \in Int /\ s.d.end \in Int /\ s.d.ptr \in Int
  BY <1>1 DEF IsDrive
<1>3. t = [s EXCEPT !.d.data[s.d.ptr + 1] = v, !.d.ptr = @ + 1]
  BY DEF IsMachine
<1>4. x = CASE s.d.ptr >= s.d.end -> s
            [] s.d.ptr < s.d.end /\ t.d.ptr < t.d.end -> t
            [] s.d.ptr < s.d.end /\ t.d.ptr = t.d.end -> IF t.d.ptr >= t.d.len THEN w ELSE e
  BY <1>3 DEF write_data_port, Ended
<1> HIDE DEF g
<1>5. /\ IsDrive(d1) /\ SameIds(s.d, d1) /\ d1.ptr = s.d.ptr /\ d1.end = s.d.end
      /\ d1.len = s.d.len /\ d1.cmd = s.d.cmd /\ d1.mid = s.d.mid /\ d1.high = s.d.high
      /\ d1.reason = s.d.reason /\ d1.status = s.d.status
  BY <1>1 DEF IsDrive, SameIds
<1> HIDE DEF d1
<1>6. /\ IsDrive(d2) /\ SameIds(d1, d2) /\ d2.ptr = d1.ptr + 1 /\ d2.end = d1.end
      /\ d2.len = d1.len /\ d2.cmd = d1.cmd /\ d2.mid = d1.mid /\ d2.high = d1.high
      /\ d2.reason = d1.reason /\ d2.status = d1.status
  BY <1>2, <1>5 DEF IsDrive, SameIds
<1> HIDE DEF d2
<1>7. IsMachine(t) /\ t.d = d2 /\ t.ch = s.ch /\ t.buf = s.buf /\ t.out = s.out /\ t.mem = s.mem
  BY <1>6, WithDrive
<1> HIDE DEF t
<1>8. SameIds(s.d, t.d) /\ Ids(t)
  BY <1>5, <1>6, <1>7, EffectIds DEF SameIds
<1>9. LeavesIf(s, s, prdt, ok)
  <2>1. s.d.in_progress = {} /\ ok => Waits(s, prdt)
    BY Idle, StatusesDiffer DEF Waits
  <2> HIDE DEF ok
  <2> QED
    BY <2>1 DEF LeavesIf
<1>10. s.d.ptr < s.d.end /\ t.d.ptr < t.d.end => LeavesIf(s, t, prdt, ok)
  <2>1. s.d.ptr < s.d.end /\ t.d.ptr < t.d.end /\ ok => DataThere(t.d) /\ t.d.status = S88
    BY <1>2, <1>5, <1>6, <1>7 DEF DataThere
  <2> HIDE DEF ok
  <2>2. s.d.ptr < s.d.end /\ t.d.ptr < t.d.end /\ s.d.in_progress = {} /\ ok => Waits(t, prdt)
    BY <1>8, <2>1, Idle, StatusesDiffer DEF SameIds, Waits
  <2> QED
    BY <1>7, <1>8, <2>2 DEF LeavesIf
<1>11. LeavesIf(s, w, prdt, ok)
  <2>1. Leaves(t, w, prdt)
    BY <1>7, <1>8, DoWrite
  <2> HIDE DEF w, ok
  <2> QED
    BY <1>7, <1>8, <2>1 DEF Leaves, LeavesIf, SameIds
<1>12. s.d.ptr < s.d.end /\ t.d.ptr = t.d.end /\ ~(t.d.ptr >= t.d.len) => LeavesIf(s, e, prdt, ok)
  <2>1. t.d.end \in Int /\ t.d.ptr \in Int /\ t.d.len \in Int
    BY <1>2, <1>5, <1>6, <1>7
  <2>2. /\ IsDrive(d3) /\ SameIds(t.d, d3) /\ d3.ptr = t.d.ptr /\ d3.end = t.d.end + 1
        /\ d3.len = t.d.len /\ d3.cmd = t.d.cmd /\ d3.mid = t.d.mid /\ d3.high = t.d.high
        /\ d3.reason = t.d.reason
    BY <1>6, <1>7, <2>1 DEF IsDrive, SameIds
  <2> HIDE DEF d3
  <2>3. ASSUME t.d.ptr = t.d.end, ~(t.d.ptr >= t.d.len), ok
        PROVE  DataThere(d3)
    <3>1. d3.ptr < d3.end /\ d3.end <= d3.len
      BY <2>1, <2>2, <2>3
    <3>2. s.d.end < s.d.len
      BY <1>2, <1>5, <1>6, <1>7, <2>3
    <3>3. d3.cmd = "PACKET" => Piece(d3.mid + Base * d3.high)
      BY <1>5, <1>6, <1>7, <2>2, <2>3, <3>2 DEF DataThere
    <3> QED
      BY <3>1, <3>3 DEF DataThere
  <2>4. /\ Effect(t, e) /\ e.buf = t.buf /\ e.d.status = S88 /\ e.d.cmd = d3.cmd
        /\ e.d.ptr = d3.ptr /\ e.d.end = d3.end /\ e.d.len = d3.len
        /\ e.d.reason = d3.reason /\ e.d.mid = d3.mid /\ e.d.high = d3.high
    BY <1>7, <2>2, EndEffect, Statuses
  <2> HIDE DEF e, ok
  <2>5. IsMachine(e) /\ Ids(e)
    BY <1>8, <2>4, EffectIds DEF Effect
  <2>6. DataThere(d3) => DataThere(e.d)
    BY <2>4 DEF DataThere
  <2>7. s.d.in_progress = {} => e.d.in_progress = {} /\ Busy(e)
    BY <1>8, <2>4, Idle, StatusesDiffer DEF Effect, SameIds
  <2> QED
    BY <1>7, <2>3, <2>4, <2>5, <2>6, <2>7 DEF LeavesIf, Waits
<1> HIDE DEF e, w, ok, x
<1>13. LeavesIf(s, x, prdt, ok)
  <2>1. t.d.end \in Int /\ t.d.ptr \in Int /\ t.d.len \in Int /\ t.d.ptr = s.d.ptr + 1 /\ t.d.end = s.d.end
    BY <1>2, <1>5, <1>6, <1>7
  <2>2. \/ s.d.ptr >= s.d.end /\ x = s
        \/ s.d.ptr < s.d.end /\ t.d.ptr < t.d.end /\ x = t
        \/ x = w
        \/ s.d.ptr < s.d.end /\ t.d.ptr = t.d.end /\ ~(t.d.ptr >= t.d.len) /\ x = e
    BY <1>2, <1>4, <2>1
  <2> QED
    BY <1>9, <1>10, <1>11, <1>12, <2>2
<1> QED
  BY <1>13 DEF x, ok

-----------------------------------------------------------------------------
(* The bus master *)

WithBus(s, start, active) == [s EXCEPT !.ch.start = start, !.ch.active = active]

LEMMA BusSet ==
  ASSUME NEW s, IsMachine(s), NEW start \in BOOLEAN, NEW active \in BOOLEAN
  PROVE  LET t == WithBus(s, start, active)
         IN  /\ IsMachine(t) /\ t.d = s.d /\ t.buf = s.buf /\ t.out = s.out /\ t.mem = s.mem
             /\ t.ch.start = start /\ t.ch.active = active /\ t.ch.irq = s.ch.irq
<1> DEFINE c1 == [s.ch EXCEPT !.start = start]
           c2 == [c1 EXCEPT !.active = active]
           t  == [s EXCEPT !.ch = c2]
<1>1. t = WithBus(s, start, active)
  BY DEF WithBus, IsMachine
<1>2. IsChannel(s.ch)
  BY DEF IsMachine
<1>3. IsChannel(c1) /\ c1.start = start /\ c1.irq = s.ch.irq
  BY <1>2 DEF IsChannel
<1> HIDE DEF c1
<1>4. IsChannel(c2) /\ c2.start = start /\ c2.active = active /\ c2.irq = s.ch.irq
  BY <1>3 DEF IsChannel
<1> HIDE DEF c2
<1>5. IsMachine(t) /\ t.d = s.d /\ t.buf = s.buf /\ t.out = s.out /\ t.mem = s.mem /\ t.ch = c2
  BY <1>4 DEF IsMachine
<1> QED
  BY <1>1, <1>4, <1>5

(* What a write to the bus master's command register may do.               *)
Keeps(s, t, prdt) ==
  IsMachine(t) /\ Ids(t) /\ (Waits(s, prdt) => Waits(t, prdt))

(* Without a started bus master no read by DMA is wanted. *)
LEMMA NotStarted ==
  ASSUME NEW s, Busy(s), ~s.ch.start, s.d.status # S208 \/ s.d.cmd \notin PioReads \cup {"PACKET"},
         \A r \in s.out : IsRead(r), Ids(s)
  PROVE  s.d.in_progress = {}
<1>1. ASSUME NEW r \in s.out, r.id \in s.d.in_progress
      PROVE  FALSE
  <2>1. r.k \in Wants /\ Fits(r.k, s)
    BY <1>1 DEF IsRead, Busy
  <2>2. r.k.op \in {"pio", "dma", "packet", "packet_dma"}
    BY <2>1 DEF Wants
  <2> QED
    BY <2>1, <2>2 DEF Fits
<1> QED
  BY <1>1 DEF Ids

LEMMA AtapiDmaStart ==
  ASSUME NEW s, IsMachine(s), Ids(s), ~s.ch.start, s.d.cmd = "PACKET", NEW prdt
  PROVE  Keeps(s, do_atapi_dma(WithBus(s, TRUE, TRUE)), prdt)
<1> DEFINE u == WithBus(s, TRUE, TRUE)
           t == do_atapi_dma(u)
<1>1. IsMachine(u) /\ u.d = s.d /\ u.out = s.out
  BY BusSet
<1> HIDE DEF u
<1>2. Ids(u)
  BY <1>1, EffectIds DEF SameIds
<1>3. /\ Effect(u, t) /\ \/ t = u
                         \/ t.d.status = S80 /\ t.d.reason = 3 /\ "DRQ" \in u.d.status
  BY <1>1, AtapiDma
<1> HIDE DEF t
<1>4. IsMachine(t) /\ Ids(t)
  BY <1>2, <1>3, EffectIds DEF Effect
<1>5. Waits(s, prdt) => Waits(u, prdt)
  <2>1. \A r \in s.out : r.k.op = "dma" => ~Fits(r.k, s)
    BY DEF Fits
  <2>2. Busy(s) => Busy(u)
    BY <1>1, <2>1 DEF Busy, Fits
  <2> QED
    BY <1>1, <2>2 DEF Waits
<1>6. Waits(s, prdt) /\ t.d.status = S80 /\ "DRQ" \in u.d.status => Waits(t, prdt)
  <2>1. "DRQ" \in s.d.status => s.d.status # S208
    BY DEF S208
  <2>2. "DRQ" \in s.d.status /\ Busy(s) => s.d.in_progress = {}
    BY <2>1, NotStarted DEF Ids
  <2> QED
    BY <1>1, <1>3, <2>2, Idle, StatusesDiffer DEF Waits, Effect, SameIds, Offers
<1> QED
  BY <1>3, <1>4, <1>5, <1>6 DEF Keeps, t, u

LEMMA DmaReadStart ==
  ASSUME NEW s, IsMachine(s), Ids(s), ~s.ch.start, s.d.cmd \in DmaReads,
         NEW prdt, prdt # << >>
  PROVE  Keeps(s, do_ata_read_sectors_dma(WithBus(s, TRUE, TRUE)), prdt)
<1> DEFINE u == WithBus(s, TRUE, TRUE)
           a == get_lba(u.d, Ext(u.d.cmd))
           n == get_count(u.d, Ext(u.d.cmd))
           k == [op |-> "dma"]
           t == read_buffer(u, a, n, k)
<1>1. IsMachine(u) /\ u.d = s.d /\ u.out = s.out /\ u.ch.start /\ u.ch.active
  BY BusSet
<1>2. t = do_ata_read_sectors_dma(u)
  BY DEF do_ata_read_sectors_dma
<1> HIDE DEF u
<1>3. Ids(u)
  BY <1>1, EffectIds DEF SameIds
<1>4. n \in Int
  BY <1>1, AddressInt, ExtBoolean DEF IsMachine
<1>5. k \in Wants /\ k.op = "dma"
  BY DEF Wants
<1> HIDE DEF a, n, k
<1>6. LeavesIf(u, t, prdt, Fits(k, u))
  BY <1>1, <1>3, <1>4, <1>5, ReadLeaves
<1> HIDE DEF t
<1>7. Waits(s, prdt) => s.d.in_progress = {} /\ Fits(k, u)
  <2>1. s.d.cmd \notin PioReads \cup {"PACKET"}
    BY DEF DmaReads, PioReads
  <2>2. Busy(s) => s.d.in_progress = {}
    BY <2>1, NotStarted DEF Ids
  <2>3. Busy(s) => s.d.status # S208
    BY <2>2 DEF Busy
  <2> QED
    BY <1>1, <1>5, <2>2, <2>3 DEF Waits, Fits
<1> QED
  BY <1>1, <1>2, <1>6, <1>7 DEF LeavesIf, Keeps, t, u

LEMMA DmaWriteStart ==
  ASSUME NEW s, IsMachine(s), Ids(s), ~s.ch.start, s.d.cmd \in DmaWrites,
         NEW prdt
  PROVE  Keeps(s, do_ata_write_sectors_dma(WithBus(s, TRUE, TRUE)), prdt)
<1> DEFINE u  == WithBus(s, TRUE, TRUE)
           c  == u.d.cmd
           n  == get_count(u.d, Ext(c))
           data == [i \in 1 .. n |-> u.mem[Places(u.ch.prdt)[i]]]
           b  == BufferSet(u.buf, get_lba(u.d, Ext(c)), data)
           l  == Len(data)
           d1 == ata_advance(u.d, c, l)
           d2 == [d1 EXCEPT !.cmd = "NONE"]
           u1 == WithBuffer(u, b)
           u2 == Moved(u1, u.mem, d2)
           t  == End(u2, S80)
<1>1. IsMachine(u) /\ u.d = s.d /\ u.out = s.out /\ u.ch.start /\ u.ch.active
  BY BusSet
<1> HIDE DEF u
<1>2. t = do_ata_write_sectors_dma(u)
  <2> DEFINE u3 == [u EXCEPT !.buf = b, !.ch.active = FALSE, !.d = d2]
  <2>1. End(u3, S80) = do_ata_write_sectors_dma(u)
    BY DEF do_ata_write_sectors_dma
  <2> HIDE DEF b, d2
  <2>2. u3 = u2
    BY <1>1 DEF Moved, WithBuffer, IsMachine
  <2> QED
    BY <2>1, <2>2
<1>3. Ids(u)
  BY <1>1, EffectIds DEF SameIds
<1>4. l \in Int
  <2>1. n \in Int
    BY <1>1, AddressInt, ExtBoolean DEF IsMachine
  <2>2. Items(data, n)
    BY DEF Items
  <2> HIDE DEF n, data
  <2> QED
    BY <2>1, <2>2, ItemsLength
<1>5. IsBuffer(b)
  BY <1>1, BufferSetTyped DEF IsMachine
<1> HIDE DEF b, l
<1>6. IsDrive(d1) /\ SameButAddress(u.d, d1)
  BY <1>1, <1>4, AdvanceTyped DEF IsMachine
<1> HIDE DEF d1
<1>7. IsDrive(d2) /\ SameIds(u.d, d2) /\ d2.cmd = "NONE"
  BY <1>6 DEF IsDrive, SameIds, SameButAddress
<1> HIDE DEF d2
<1>8. IsMachine(u1) /\ u1.d = u.d /\ u1.out = u.out /\ u1.mem = u.mem
  BY <1>1, <1>5 DEF IsMachine, WithBuffer
<1> HIDE DEF u1
<1>9. IsMachine(u2) /\ u2.d = d2 /\ u2.out = u1.out
  BY <1>7, <1>8, MovedProps
<1> HIDE DEF u2
<1>10. IsMachine(t) /\ t.d = [u2.d EXCEPT !.status = S80] /\ t.out = u2.out
  BY <1>9, EndProps, Statuses
<1> HIDE DEF t
<1>11. SameIds(s.d, t.d) /\ t.d.status = S80 /\ t.out = s.out
  BY <1>1, <1>7, <1>8, <1>9, <1>10 DEF IsDrive, SameIds
<1>12. Ids(t)
  BY <1>11, EffectIds
<1>13. Waits(s, prdt) => Waits(t, prdt)
  <2>1. s.d.cmd \notin PioReads \cup {"PACKET"}
    BY DEF DmaWrites, PioReads
  <2>2. Busy(s) => s.d.in_progress = {}
    BY <2>1, NotStarted DEF Ids
  <2> QED
    BY <1>11, <2>2, Idle, StatusesDiffer DEF Waits, SameIds, Offers
<1> QED
  BY <1>2, <1>10, <1>12, <1>13 DEF Keeps, u

LEMMA DmaStart ==
  ASSUME NEW s, IsMachine(s), Ids(s), ~s.ch.start,
         s.d.cmd \in DmaReads \cup DmaWrites \cup {"PACKET"}, NEW prdt, prdt # << >>
  PROVE  Keeps(s, dma_write_command8(s, TRUE), prdt)
<1> DEFINE t1 == [s EXCEPT !.ch.start = TRUE]
           u  == [t1 EXCEPT !.ch.active = TRUE]
           t2 == [t1 EXCEPT !.ch.active = FALSE]
           b1 == do_ata_read_sectors_dma(u)
           b2 == do_ata_write_sectors_dma(u)
           b3 == do_atapi_dma(u)
           b4 == push_irq(t2)
           c  == s.d.cmd
           b  == CASE c \in {"READ_DMA", "READ_DMA_EXT"} -> b1
                   [] c \in {"WRITE_DMA", "WRITE_DMA_EXT"} -> b2
                   [] c = "PACKET" -> b3
                   [] OTHER -> b4
           st == s.ch.start
           x  == dma_write_command8(s, TRUE)
<1>1. x = CASE TRUE = st -> t1
            [] TRUE # st /\ ~TRUE -> t2
            [] OTHER -> b
  BY DEF dma_write_command8
<1>2. u = WithBus(s, TRUE, TRUE)
  BY DEF WithBus, IsMachine
<1>3. ~st /\ st \in BOOLEAN
  BY DEF IsMachine, IsChannel
<1> HIDE DEF st, t1, t2, b, x
<1>4. x = b
  BY <1>1, <1>3
<1> HIDE DEF u
<1>5. c \in DmaReads => Keeps(s, b1, prdt)
  BY <1>2, DmaReadStart
<1>6. c \in DmaWrites => Keeps(s, b2, prdt)
  BY <1>2, DmaWriteStart
<1>7. c = "PACKET" => Keeps(s, b3, prdt)
  BY <1>2, AtapiDmaStart
<1> HIDE DEF b1, b2, b3, b4, c
<1>8. \/ c \in DmaReads /\ b = b1
      \/ c \in DmaWrites /\ b = b2
      \/ c = "PACKET" /\ b = b3
  <2>1. c \in DmaReads \cup DmaWrites \cup {"PACKET"}
    BY DEF c
  <2> QED
    BY <2>1 DEF b, DmaReads, DmaWrites
<1>9. Keeps(s, b, prdt)
  BY <1>5, <1>6, <1>7, <1>8
<1> QED
  BY <1>4, <1>9 DEF x

LEMMA DmaStop ==
  ASSUME NEW s, IsMachine(s), Ids(s), NEW prdt
  PROVE  LET t == dma_write_command8(s, FALSE)
         IN  /\ IsMachine(t) /\ Ids(t) /\ t.d = s.d /\ t.buf = s.buf /\ t.out = s.out
             /\ t.mem = s.mem /\ t.ch.irq = s.ch.irq /\ (~s.ch.active => Keeps(s, t, prdt))
<1> DEFINE t == dma_write_command8(s, FALSE)
<1>1. s.ch.start \in BOOLEAN /\ s.ch.active \in BOOLEAN
  BY DEF IsMachine, IsChannel
<1>2. /\ ~s.ch.start => t = [s EXCEPT !.ch.start = FALSE]
      /\ s.ch.start => t = WithBus(s, FALSE, FALSE)
  BY <1>1 DEF dma_write_command8, WithBus, IsMachine
<1>3. [s EXCEPT !.ch.start = FALSE] = WithBus(s, FALSE, s.ch.active)
  BY <1>1 DEF WithBus, IsMachine, IsChannel
<1> HIDE DEF t
<1>4. t = WithBus(s, FALSE, IF s.ch.start THEN FALSE ELSE s.ch.active)
  BY <1>1, <1>2, <1>3
<1>5. /\ IsMachine(t) /\ t.d = s.d /\ t.buf = s.buf /\ t.out = s.out /\ t.mem = s.mem
      /\ t.ch.irq = s.ch.irq
  BY <1>1, <1>4, BusSet, ZenonT(90)
<1>6. Ids(t)
  BY <1>5, EffectIds DEF SameIds
<1>7. ~s.ch.active /\ Busy(s) => Busy(t)
  BY <1>5 DEF Busy, Fits
<1> QED
  BY <1>5, <1>6, <1>7 DEF Keeps, Waits, t

-----------------------------------------------------------------------------
(* Resets *)

LEMMA ControlReset ==
  ASSUME NEW s, IsMachine(s), Ids(s), NEW nien \in BOOLEAN
  PROVE  LET t == write_control(write_control(s, TRUE, nien), FALSE, nien)
         IN  /\ IsMachine(t) /\ Ids(t) /\ t.d.in_progress = {} /\ t.d.status \in {{}, S65}
             /\ t.buf = s.buf /\ t.mem = s.mem /\ ~t.ch.irq
<1> DEFINE s1 == Lowered(s)
           e  == device_reset(s1.d)
           s2 == [s1 EXCEPT !.d = e]
           s3 == [s2 EXCEPT !.ch.nien = nien]
           t  == [s3 EXCEPT !.ch.nien = nien]
<1>1. t = write_control(write_control(s, TRUE, nien), FALSE, nien)
  BY DEF write_control, Lowered, IsMachine
<1>2. /\ IsMachine(s1) /\ s1.d = s.d /\ s1.buf = s.buf /\ s1.out = s.out /\ s1.mem = s.mem
      /\ ~s1.ch.irq
  BY IrqLowered DEF Lowered, IsMachine, IsChannel
<1> HIDE DEF s1
<1>3. /\ IsDrive(e) /\ e.in_progress = {} /\ e.cancelled = s1.d.cancelled \cup s1.d.in_progress
      /\ e.last_io_id = s1.d.last_io_id /\ e.status \in {{}, S65}
  BY <1>2, DeviceReset DEF IsMachine
<1> HIDE DEF e
<1>4. /\ IsMachine(s2) /\ s2.d = e /\ s2.buf = s1.buf /\ s2.out = s1.out /\ s2.mem = s1.mem
      /\ s2.ch = s1.ch
  BY <1>2, <1>3, WithDrive
<1> HIDE DEF s2
<1>5. /\ IsMachine(s3) /\ s3.d = s2.d /\ s3.buf = s2.buf /\ s3.out = s2.out /\ s3.mem = s2.mem
      /\ s3.ch.irq = s2.ch.irq
  BY <1>4 DEF IsMachine, IsChannel
<1> HIDE DEF s3
<1>6. /\ IsMachine(t) /\ t.d = s3.d /\ t.buf = s3.buf /\ t.out = s3.out /\ t.mem = s3.mem
      /\ t.ch.irq = s3.ch.irq
  BY <1>5 DEF IsMachine, IsChannel
<1> HIDE DEF t
<1>7. Ids(t)
  <2>1. /\ t.out = s.out /\ t.d.in_progress = {} /\ t.d.last_io_id = s.d.last_io_id
        /\ t.d.cancelled = s.d.cancelled \cup s.d.in_progress
    BY <1>2, <1>3, <1>4, <1>5, <1>6
  <2> QED
    BY <2>1, CancelledIds
<1> QED
  BY <1>1, <1>2, <1>3, <1>4, <1>5, <1>6, <1>7

-----------------------------------------------------------------------------
(* The registers as the guest writes them *)

LEMMA LowDigit ==
  ASSUME NEW z \in Int, NEW b \in 0 .. Base - 1, z * Base + b \in Nat
  PROVE  (z * Base + b) % Base = b
<1> DEFINE x == z * Base + b
           q == x \div Base
           r == x % Base
<1>1. Base \in Nat /\ Base > 0
  BY ConstantsTyped
<1>2. x \in Nat /\ b \in Int /\ 0 <= b /\ b < Base /\ z * Base \in Int
  BY <1>1
<1>3. q \in Nat /\ r \in Nat /\ r < Base /\ q * Base + r = x
  <2> HIDE DEF x
  <2> QED
    BY <1>1, <1>2, DivProps
<1>4. q * Base \in Int /\ q * Base + r = z * Base + b
  BY <1>1, <1>3
<1> HIDE DEF x, q, r
<1>5. ~(q < z)
  <2>1. q < z => q * Base + Base <= z * Base
    BY <1>1, <1>3, MultiplesOrdered
  <2> QED
    BY <1>1, <1>2, <1>3, <1>4, <2>1
<1>6. ~(z < q)
  <2>1. z < q => z * Base + Base <= q * Base
    BY <1>1, <1>3, MultiplesOrdered
  <2> QED
    BY <1>1, <1>2, <1>3, <1>4, <2>1
<1>7. z = q
  BY <1>3, <1>5, <1>6
<1>8. r = b
  BY <1>2, <1>3, <1>4, <1>7
<1> QED
  BY <1>8 DEF r, x

LEMMA ShiftLow ==
  ASSUME NEW reg \in Int, NEW b \in 0 .. Base - 1
  PROVE  Byte(Shift(reg, b)) = b
<1> DEFINE m == Base * Base
           x == reg * Base + b
           q == x \div m
           y == x % m
           z == reg - Base * q
<1>1. Base \in Nat /\ Base > 0 /\ m \in Nat \ {0}
  BY ConstantsTyped
<1>2. x \in Int /\ b \in Int
  BY <1>1
<1>3. q \in Int /\ y \in Nat /\ x = m * q + y
  <2> HIDE DEF x, m
  <2> QED
    BY <1>1, <1>2
<1> HIDE DEF q
<1>4. m * q = (Base * q) * Base
  <2>1. \A i, j \in Int : (i * i) * j = (i * j) * i
    OBVIOUS
  <2> QED
    BY <1>1, <1>3, <2>1
<1>5. \A i, j, k \in Int : (i - j) * k = i * k - j * k
  OBVIOUS
<1>6. Base * q \in Int /\ z \in Int /\ z * Base = reg * Base - (Base * q) * Base
  BY <1>1, <1>3, <1>5
<1>7. y = z * Base + b
  <2> DEFINE rb == reg * Base
             qb == (Base * q) * Base
             zb == z * Base
  <2>1. rb \in Int /\ qb \in Int /\ zb \in Int
    BY <1>1, <1>6
  <2>2. rb + b = qb + y /\ zb = rb - qb
    BY <1>3, <1>4, <1>6
  <2> HIDE DEF rb, qb, zb, y
  <2>3. y = zb + b
    BY <1>2, <1>3, <2>1, <2>2
  <2> QED
    BY <2>3 DEF zb
<1>8. y % Base = b
  BY <1>3, <1>6, <1>7, LowDigit
<1> QED
  BY <1>8 DEF Shift, Byte, y, x, m

LEMMA FlatCount ==
  ASSUME NEW d, IsDrive(d), NEW low, NEW mid, NEW high
  PROVE  Flat(d, low, mid, high).count = d.count
BY DEF Flat, IsDrive

LEMMA WriteRegsTyped ==
  ASSUME NEW d, IsDrive(d), NEW r \in Requests
  PROVE  LET e == WriteRegs(d, r)
         IN  IsDrive(e) /\ SameIds(d, e) /\ Allowed(e, r.cmd, r.prdt)
<1> DEFINE digit(w) == (r.lba \div w) % Base
           cyl  == r.lba \div (Heads * Spt)
           rb   == r.count % Base
           c1   == Shift(d.count, rb)
           c2   == Shift(r.count \div Base, rb)
           o1   == [d EXCEPT !.count = c1]
           once == [o1 EXCEPT !.is_lba = r.is_lba]
           e1   == [once EXCEPT !.count = c2, !.head = 0,
                                !.low = Shift(digit(Base3), digit(1)), !.mid = digit(Base),
                                !.high = digit(Base2)]
           e2   == [once EXCEPT !.low = Shift(@, digit(1)), !.mid = Shift(@, digit(Base)),
                                !.high = Shift(@, digit(Base2)), !.head = digit(Base3) % HeadBase]
           e3   == [once EXCEPT !.low = Shift(@, (r.lba % Spt) + 1), !.mid = Shift(@, cyl % Base),
                                !.high = Shift(@, cyl \div Base), !.head = (r.lba \div Spt) % Heads]
           e    == WriteRegs(d, r)
<1>1. e = CASE Ext(r.cmd) -> e1 [] ~Ext(r.cmd) /\ r.is_lba -> e2 [] OTHER -> e3
  BY DEF WriteRegs
<1>2. /\ r.lba \in Nat /\ r.count \in 0 .. Base * Base /\ r.is_lba \in BOOLEAN
      /\ r.cmd \in PioReads \cup PioWrites \cup DmaReads \cup DmaWrites
                   \cup Plain
      /\ r.cmd \in DmaReads \cup DmaWrites <=> r.prdt # << >>
      /\ r.cmd = "SET_MULTIPLE" => r.count % Base # 0
  BY GuestAssumption
<1>0. \A x \in Int, w \in Nat \ {0} : x \div w \in Int /\ x % w \in 0 .. w - 1
  BY RemainderRange
<1>3. r.count \in Int /\ r.lba \in Int
  BY <1>2, ConstantsTyped
<1>4. rb \in 0 .. Base - 1 /\ r.count \div Base \in Int
  BY <1>3, ConstantsTyped, RemainderRange
<1>5. /\ d.count \in Int /\ d.low \in Int /\ d.mid \in Int /\ d.high \in Int
  BY ConstantsTyped DEF IsDrive, Words
<1>6. \A w \in Nat \ {0} : digit(w) \in 0 .. Base - 1
  <2>1. TAKE w \in Nat \ {0}
  <2> DEFINE y == r.lba \div w
  <2>2. y \in Int
    BY <1>0, <1>3
  <2> HIDE DEF y
  <2>3. y % Base \in 0 .. Base - 1
    BY <1>0, <2>2, ConstantsTyped
  <2> QED
    BY <2>3 DEF y
<1>7. digit(1) \in Int /\ digit(Base) \in Words /\ digit(Base2) \in Words /\ digit(Base3) \in Int
  <2>1. /\ digit(1) \in 0 .. Base - 1 /\ digit(Base) \in 0 .. Base - 1
        /\ digit(Base2) \in 0 .. Base - 1 /\ digit(Base3) \in 0 .. Base - 1
    BY <1>6, ConstantsTyped
  <2>2. Base \in Nat /\ Base <= Base * Base /\ Base * Base \in Nat
    BY ConstantsTyped
  <2> HIDE DEF digit
  <2> QED
    BY <2>1, <2>2 DEF Words
<1>8. /\ digit(Base3) % HeadBase \in 0 .. HeadBase - 1 /\ (r.lba \div Spt) % Heads \in 0 .. HeadBase - 1
      /\ 0 \in 0 .. HeadBase - 1
  <2>1. digit(Base3) % HeadBase \in 0 .. HeadBase - 1
    <3> HIDE DEF digit
    <3> QED
      BY <1>0, <1>7, ConstantsTyped
  <2> DEFINE y == r.lba \div Spt
  <2>2. y \in Int
    BY <1>0, <1>3, ConstantsTyped
  <2> HIDE DEF y
  <2>3. y % Heads \in 0 .. Heads - 1
    BY <1>0, <2>2, ConstantsTyped
  <2>4. y % Heads \in 0 .. HeadBase - 1 /\ 0 \in 0 .. HeadBase - 1
    BY <2>3, ConstantsTyped
  <2> QED
    BY <2>1, <2>4 DEF y
<1>9. (r.lba % Spt) + 1 \in Int /\ cyl % Base \in Int /\ cyl \div Base \in Int
  <2>1. cyl \in Int /\ r.lba % Spt \in 0 .. Spt - 1
    BY <1>0, <1>3, ConstantsTyped
  <2> HIDE DEF cyl
  <2>2. cyl % Base \in 0 .. Base - 1 /\ cyl \div Base \in Int
    BY <1>0, <2>1, ConstantsTyped
  <2> QED
    BY <2>1, <2>2, ConstantsTyped
<1>10. \A x, b \in Int : Shift(x, b) \in Words
  BY ShiftRange
<1>11. c1 \in Words /\ c2 \in Words /\ Byte(c1) = rb
  <2>0. rb \in Int
    BY <1>4, ConstantsTyped
  <2>1. Byte(c1) = rb
    <3> HIDE DEF rb
    <3> QED
      BY <1>4, <1>5, ShiftLow
  <2> HIDE DEF rb
  <2> QED
    BY <1>4, <1>5, <1>10, <2>0, <2>1
<1>12. c1 \in Int /\ c2 \in Int
  BY <1>11, ConstantsTyped DEF Words
<1>13. Ext(r.cmd) => r.cmd # "SET_MULTIPLE"
  BY DEF Ext
<1>14. IsDrive(o1) /\ SameIds(d, o1) /\ o1.count = c1 /\ o1.low = d.low /\ o1.mid = d.mid /\ o1.high = d.high
  <2> HIDE DEF c1
  <2> QED
    BY <1>12 DEF IsDrive, SameIds
<1> HIDE DEF o1
<1>15. /\ IsDrive(once) /\ SameIds(d, once) /\ once.count = c1 /\ once.low = d.low
       /\ once.mid = d.mid /\ once.high = d.high
  <2> HIDE DEF c1
  <2> QED
    BY <1>2, <1>14 DEF IsDrive, SameIds
<1> HIDE DEF once, c1, c2, rb
<1>16. IsDrive(e1) /\ SameIds(d, e1) /\ e1.count = c2
  <2> DEFINE low == Shift(digit(Base3), digit(1))
             mid == digit(Base)
             high == digit(Base2)
             f1 == [once EXCEPT !.count = c2]
             f2 == [f1 EXCEPT !.head = 0]
             f3 == Flat(f2, low, mid, high)
  <2>1. low \in Words /\ mid \in Words /\ high \in Words
    <3> HIDE DEF digit
    <3> QED
      BY <1>7, <1>10
  <2>2. e1 = f3
    BY DEF Flat
  <2> HIDE DEF low, mid, high, digit
  <2>3. IsDrive(f1) /\ SameIds(once, f1) /\ f1.count = c2
    BY <1>12, <1>15 DEF IsDrive, SameIds
  <2> HIDE DEF f1
  <2>4. IsDrive(f2) /\ SameIds(f1, f2) /\ f2.count = f1.count
    BY <1>8, <2>3 DEF IsDrive, SameIds
  <2> HIDE DEF f2
  <2>5. IsDrive(f3) /\ SameIds(f2, f3) /\ f3.count = f2.count
    BY <2>1, <2>4, FlatSet, FlatCount DEF SameButAddress, SameIds
  <2> QED
    BY <1>15, <2>2, <2>3, <2>4, <2>5 DEF SameIds
<1>17. ASSUME NEW low \in Words, NEW mid \in Words, NEW high \in Words,
              NEW head \in 0 .. HeadBase - 1
       PROVE  LET f == [Flat(once, low, mid, high) EXCEPT !.head = head]
              IN  IsDrive(f) /\ SameIds(d, f) /\ f.count = c1
  <2> DEFINE f3 == Flat(once, low, mid, high)
             f4 == [f3 EXCEPT !.head = head]
  <2>1. IsDrive(f3) /\ SameButAddress(once, f3)
    BY <1>15, FlatSet
  <2>2. SameIds(once, f3) /\ f3.count = once.count
    BY <1>15, <2>1, FlatCount DEF SameButAddress, SameIds
  <2> HIDE DEF f3
  <2>3. IsDrive(f4) /\ SameIds(f3, f4) /\ f4.count = f3.count
    BY <2>1 DEF IsDrive, SameIds
  <2> HIDE DEF f4
  <2>4. SameIds(d, f4) /\ f4.count = c1
    BY <1>15, <2>2, <2>3 DEF SameIds
  <2> QED
    BY <2>1, <2>3, <2>4 DEF f4, f3
<1>18. IsDrive(e2) /\ SameIds(d, e2) /\ e2.count = c1
  <2> DEFINE low  == Shift(d.low, digit(1))
             mid  == Shift(d.mid, digit(Base))
             high == Shift(d.high, digit(Base2))
             head == digit(Base3) % HeadBase
  <2>1. low \in Words /\ mid \in Words /\ high \in Words /\ head \in 0 .. HeadBase - 1
    <3>1. digit(1) \in Int /\ digit(Base) \in Int /\ digit(Base2) \in Int
      BY <1>7, ConstantsTyped DEF Words
    <3> HIDE DEF digit
    <3> QED
      BY <1>5, <1>8, <1>10, <3>1
  <2>2. e2 = [Flat(once, low, mid, high) EXCEPT !.head = head]
    <3> HIDE DEF digit
    <3> QED
      BY <1>15 DEF Flat, IsDrive
  <2> HIDE DEF low, mid, high, head, e2
  <2> QED
    BY <1>17, <2>1, <2>2
<1>19. IsDrive(e3) /\ SameIds(d, e3) /\ e3.count = c1
  <2> DEFINE low  == Shift(d.low, (r.lba % Spt) + 1)
             mid  == Shift(d.mid, cyl % Base)
             high == Shift(d.high, cyl \div Base)
             head == (r.lba \div Spt) % Heads
  <2>1. low \in Words /\ mid \in Words /\ high \in Words /\ head \in 0 .. HeadBase - 1
    <3> HIDE DEF cyl
    <3> QED
      BY <1>5, <1>8, <1>9, <1>10
  <2>2. e3 = [Flat(once, low, mid, high) EXCEPT !.head = head]
    <3> HIDE DEF cyl
    <3> QED
      BY <1>15 DEF Flat, IsDrive
  <2> HIDE DEF low, mid, high, head, e3
  <2> QED
    BY <1>17, <2>1, <2>2
<1> HIDE DEF e1, e2, e3, e
<1>20. IsDrive(e) /\ SameIds(d, e) /\ (e.count = c1 \/ (Ext(r.cmd) /\ e.count = c2))
  <2>1. e = e2 \/ e = e3 \/ (Ext(r.cmd) /\ e = e1)
    BY <1>1, ExtBoolean
  <2> QED
    BY <1>16, <1>18, <1>19, <2>1
<1>21. Allowed(e, r.cmd, r.prdt)
  <2>1. e.count \in Words
    BY <1>11, <1>20
  <2>2. r.cmd = "SET_MULTIPLE" => Byte(e.count) # 0
    BY <1>2, <1>11, <1>13, <1>20 DEF rb
  <2>3. r.cmd \in Commands /\ r.cmd # "PACKET"
    BY <1>2 DEF Commands, Plain, PioReads, PioWrites, DmaReads, DmaWrites
  <2>4. r.cmd \in DmaReads \cup DmaWrites => r.prdt # << >>
    BY <1>2
  <2> QED
    BY <2>1, <2>2, <2>3, <2>4 DEF Allowed
<1> QED
  BY <1>20, <1>21 DEF e

-----------------------------------------------------------------------------
(* Answers *)

Taken(s, r, b) == [s EXCEPT !.out = @ \ {r}, !.buf = b]

LEMMA TakenProps ==
  ASSUME NEW s, IsMachine(s), NEW r, NEW b, IsBuffer(b)
  PROVE  LET t == Taken(s, r, b)
         IN  /\ IsMachine(t) /\ t.d = s.d /\ t.ch = s.ch /\ t.buf = b /\ t.mem = s.mem
             /\ t.out = s.out \ {r}
<1> DEFINE o  == s.out \ {r}
           t1 == [s EXCEPT !.out = o]
           t  == [t1 EXCEPT !.buf = b]
<1>1. t = Taken(s, r, b)
  BY DEF Taken
<1> HIDE DEF o
<1>2. IsMachine(t1) /\ t1.d = s.d /\ t1.ch = s.ch /\ t1.mem = s.mem /\ t1.out = o
  BY DEF IsMachine
<1> HIDE DEF t1
<1>3. IsMachine(t) /\ t.d = t1.d /\ t.ch = t1.ch /\ t.mem = t1.mem /\ t.out = t1.out /\ t.buf = b
  BY <1>2 DEF IsMachine
<1> QED
  BY <1>1, <1>2, <1>3 DEF o

(* One of several answers: the read waits for the others. *)
Partly(s, r, c, all) == [s EXCEPT !.out = @ \cup {[r EXCEPT !.wait = r.wait \ {c}, !.have = all]}]

LEMMA PartlyProps ==
  ASSUME NEW s, IsMachine(s), Ids(s), NEW r \in s.out, NEW b, IsBuffer(b), NEW c, NEW all, NEW prdt
  PROVE  LET t == Partly(Taken(s, r, b), r, c, all)
         IN  /\ Keeps(s, t, prdt) /\ t.d = s.d /\ t.ch = s.ch /\ t.mem = s.mem
<1> DEFINE u == Taken(s, r, b)
           q == [r EXCEPT !.wait = r.wait \ {c}, !.have = all]
           t == [u EXCEPT !.out = @ \cup {q}]
<1>1. /\ IsMachine(u) /\ u.d = s.d /\ u.ch = s.ch /\ u.buf = b /\ u.mem = s.mem
      /\ u.out = s.out \ {r}
  BY TakenProps
<1>2. IsRead(r)
  BY DEF Ids
<1>3. IsRead(q) /\ q.id = r.id /\ q.k = r.k
  BY <1>2 DEF IsRead
<1>4. t = Partly(Taken(s, r, b), r, c, all)
  BY DEF Partly
<1> HIDE DEF u, q
<1>5. /\ IsMachine(t) /\ t.d = s.d /\ t.ch = s.ch /\ t.mem = s.mem
      /\ t.out = (s.out \ {r}) \cup {q}
  BY <1>1 DEF IsMachine
<1> HIDE DEF t
<1>6. Ids(t)
  <2>1. \A x \in t.out : IsRead(x) /\ x.id \in t.d.in_progress \cup t.d.cancelled
    BY <1>3, <1>5 DEF Ids
  <2>2. ASSUME NEW i \in t.d.in_progress \cup t.d.cancelled
        PROVE  i < t.d.last_io_id /\ \E x \in t.out : x.id = i
    <3>1. i < s.d.last_io_id
      BY <1>5, <2>2 DEF Ids
    <3>2. PICK x \in s.out : x.id = i
      BY <1>5, <2>2 DEF Ids
    <3>3. \E y \in t.out : y.id = i
      BY <1>3, <1>5, <3>2
    <3> QED
      BY <1>5, <3>1, <3>3
  <2>3. \A x, y \in t.out : x.id = y.id => x = y
    BY <1>3, <1>5 DEF Ids
  <2>4. t.d.in_progress \cap t.d.cancelled = {}
    BY <1>5 DEF Ids
  <2> QED
    BY <2>1, <2>2, <2>3, <2>4 DEF Ids
<1>7. ASSUME Waits(s, prdt) PROVE Waits(t, prdt)
  <2>1. \A x \in t.out : \E y \in s.out : y.id = x.id /\ y.k = x.k
    BY <1>3, <1>5
  <2>2. \A y \in s.out : \E x \in t.out : y.id = x.id /\ y.k = x.k
    BY <1>3, <1>5
  <2>3. \A k : Fits(k, s) => Fits(k, t)
    BY <1>5 DEF Fits
  <2>4. Busy(t)
    BY <1>5, <1>7, <2>1, <2>2, <2>3 DEF Busy, Waits
  <2> QED
    BY <1>5, <1>7, <2>1, <2>4 DEF Waits
<1> QED
  BY <1>4, <1>5, <1>6, <1>7 DEF Keeps

(* A read that was cancelled is dropped. *)
Dropped(s, r) == [s EXCEPT !.d.cancelled = @ \ {r.id}]

LEMMA DroppedProps ==
  ASSUME NEW s, IsMachine(s), Ids(s), NEW r \in s.out, r.id \in s.d.cancelled,
         NEW b, IsBuffer(b), NEW prdt
  PROVE  LET t == Dropped(Taken(s, r, b), r)
         IN  /\ Keeps(s, t, prdt) /\ t.d = [s.d EXCEPT !.cancelled = @ \ {r.id}]
             /\ t.d.in_progress = s.d.in_progress /\ t.d.status = s.d.status
             /\ t.ch = s.ch /\ t.mem = s.mem
<1> DEFINE u == Taken(s, r, b)
           k == s.d.cancelled \ {r.id}
           e == [s.d EXCEPT !.cancelled = k]
           t == [u EXCEPT !.d = e]
<1>1. /\ IsMachine(u) /\ u.d = s.d /\ u.ch = s.ch /\ u.buf = b /\ u.mem = s.mem
      /\ u.out = s.out \ {r}
  BY TakenProps
<1> HIDE DEF u
<1>2. t = Dropped(u, r)
  BY <1>1 DEF Dropped, IsMachine
<1>3. IsDrive(s.d) /\ k \in SUBSET Nat
  BY DEF IsMachine, IsDrive
<1> HIDE DEF k
<1>4. /\ IsDrive(e) /\ e.in_progress = s.d.in_progress /\ e.cancelled = k
      /\ e.last_io_id = s.d.last_io_id /\ e.status = s.d.status /\ e.cmd = s.d.cmd
      /\ e.ptr = s.d.ptr /\ e.end = s.d.end /\ e.len = s.d.len /\ e.mid = s.d.mid
      /\ e.high = s.d.high /\ e.reason = s.d.reason
  BY <1>3 DEF IsDrive
<1> HIDE DEF e
<1>5. /\ IsMachine(t) /\ t.d = e /\ t.ch = s.ch /\ t.mem = s.mem /\ t.out = s.out \ {r}
  BY <1>1, <1>4, WithDrive
<1> HIDE DEF t
<1>6. r.id \notin s.d.in_progress
  BY DEF Ids
<1>7. Ids(t)
  <2>1. ASSUME NEW x \in t.out
        PROVE  IsRead(x) /\ x.id \in t.d.in_progress \cup t.d.cancelled
    <3>1. x.id # r.id /\ IsRead(x) /\ x.id \in s.d.in_progress \cup s.d.cancelled
      BY <1>5, <2>1 DEF Ids
    <3> QED
      BY <1>4, <1>5, <3>1 DEF k
  <2>2. ASSUME NEW i \in t.d.in_progress \cup t.d.cancelled
        PROVE  i < t.d.last_io_id /\ \E x \in t.out : x.id = i
    <3>1. i \in s.d.in_progress \cup s.d.cancelled /\ i # r.id
      BY <1>4, <1>5, <1>6, <2>2 DEF k
    <3>2. PICK x \in s.out : x.id = i
      BY <3>1 DEF Ids
    <3>3. x \in t.out
      BY <1>5, <3>1, <3>2
    <3> QED
      BY <1>4, <1>5, <3>1, <3>2, <3>3 DEF Ids
  <2>3. \A x, y \in t.out : x.id = y.id => x = y
    BY <1>5 DEF Ids
  <2>4. t.d.in_progress \cap t.d.cancelled = {}
    BY <1>4, <1>5 DEF Ids, k
  <2> QED
    BY <2>1, <2>2, <2>3, <2>4 DEF Ids
<1>8. ASSUME Waits(s, prdt) PROVE Waits(t, prdt)
  <2>1. \A x \in s.out : x.id \in s.d.in_progress => x \in t.out
    BY <1>5, <1>6
  <2>2. \A w : Fits(w, s) => Fits(w, t)
    BY <1>4, <1>5 DEF Fits
  <2>3. Busy(t)
    BY <1>4, <1>5, <1>8, <2>1, <2>2 DEF Busy, Waits
  <2>4. Offers(t.d, prdt) => DataThere(t.d)
    BY <1>4, <1>5, <1>8 DEF Waits, Offers, DataThere
  <2> QED
    BY <1>4, <1>5, <1>8, <2>3, <2>4 DEF Waits
<1>9. t.d = [s.d EXCEPT !.cancelled = @ \ {r.id}]
  BY <1>5 DEF e, k
<1> QED
  BY <1>2, <1>4, <1>5, <1>7, <1>8, <1>9 DEF Keeps, u

(* The last answer to a read that is wanted. *)
Wanted(s, r) == [s EXCEPT !.d.in_progress = @ \ {r.id}]

LEMMA WantedProps ==
  ASSUME NEW s, IsMachine(s), Ids(s), NEW r \in s.out, r.id \notin s.d.cancelled,
         NEW b, IsBuffer(b), NEW data, Items(data, r.n), NEW prdt
  PROVE  Keeps(s, Complete(Wanted(Taken(s, r, b), r), r.k, data), prdt)
<1> DEFINE u == Taken(s, r, b)
           p == s.d.in_progress \ {r.id}
           e == [s.d EXCEPT !.in_progress = p]
           v == [u EXCEPT !.d = e]
           t == Complete(v, r.k, data)
<1>1. /\ IsMachine(u) /\ u.d = s.d /\ u.ch = s.ch /\ u.buf = b /\ u.mem = s.mem
      /\ u.out = s.out \ {r}
  BY TakenProps
<1> HIDE DEF u
<1>2. v = Wanted(u, r)
  BY <1>1 DEF Wanted, IsMachine
<1>3. IsDrive(s.d) /\ p \in SUBSET Nat
  BY DEF IsMachine, IsDrive
<1> HIDE DEF p
<1>4. /\ IsDrive(e) /\ e.in_progress = p /\ e.cancelled = s.d.cancelled
      /\ e.last_io_id = s.d.last_io_id /\ e.cmd = s.d.cmd
  BY <1>3 DEF IsDrive
<1> HIDE DEF e
<1>5. /\ IsMachine(v) /\ v.d = e /\ v.ch = s.ch /\ v.out = s.out \ {r}
  BY <1>1, <1>4, WithDrive
<1> HIDE DEF v
<1>6. IsRead(r) /\ r.id \in s.d.in_progress
  BY DEF Ids
<1>7. Ids(v)
  <2>1. ASSUME NEW x \in v.out
        PROVE  IsRead(x) /\ x.id \in v.d.in_progress \cup v.d.cancelled
    <3>1. x.id # r.id /\ IsRead(x) /\ x.id \in s.d.in_progress \cup s.d.cancelled
      BY <1>5, <2>1 DEF Ids
    <3> QED
      BY <1>4, <1>5, <3>1 DEF p
  <2>2. ASSUME NEW i \in v.d.in_progress \cup v.d.cancelled
        PROVE  i < v.d.last_io_id /\ \E x \in v.out : x.id = i
    <3>1. i \in s.d.in_progress \cup s.d.cancelled /\ i # r.id
      BY <1>4, <1>5, <2>2 DEF p
    <3>2. PICK x \in s.out : x.id = i
      BY <3>1 DEF Ids
    <3>3. x \in v.out
      BY <1>5, <3>1, <3>2
    <3> QED
      BY <1>4, <1>5, <3>1, <3>2, <3>3 DEF Ids
  <2>3. \A x, y \in v.out : x.id = y.id => x = y
    BY <1>5 DEF Ids
  <2>4. v.d.in_progress \cap v.d.cancelled = {}
    BY <1>4, <1>5 DEF Ids, p
  <2> QED
    BY <2>1, <2>2, <2>3, <2>4 DEF Ids
<1>8. r.k \in Wants /\ Len(data) \in Nat /\ (r.k.op \in {"pio", "packet"} => Len(data) >= 1)
  <2>1. r.k \in Wants /\ r.n \in Int /\ (r.k.op \in {"pio", "packet"} => r.n >= 1)
    BY <1>6 DEF IsRead
  <2>2. Len(data) \in Nat /\ (r.n >= 0 => Len(data) = r.n)
    BY <2>1, ItemsLength
  <2> QED
    BY <2>1, <2>2
<1>9. /\ Effect(v, t) /\ t.d.status \in {S80, S88}
      /\ r.k.op = "pio" /\ v.d.cmd # "PACKET" => DataThere(t.d)
      /\ r.k.op = "packet" /\ Piece(r.k.limit) => DataThere(t.d)
      /\ r.k.op = "packet_dma" => t.d.reason # 1
      /\ r.k.op = "dma" => t.d.status = S80
  BY <1>5, <1>8, CompleteProps
<1> HIDE DEF t
<1>10. Ids(t)
  BY <1>7, <1>9, EffectIds DEF Effect
<1>11. ASSUME Waits(s, prdt) PROVE Waits(t, prdt)
  <2>1. Fits(r.k, s) /\ (prdt = << >> => r.k.op \in {"pio", "packet"})
    BY <1>6, <1>11 DEF Waits, Busy
  <2>2. t.d.in_progress = {}
    BY <1>4, <1>5, <1>6, <1>9, <1>11 DEF Waits, Busy, Effect, SameIds, p
  <2>3. Busy(t)
    BY <1>9, <2>2, Idle, StatusesDiffer
  <2>4. r.k.op \in {"pio", "dma", "packet", "packet_dma"}
    BY <1>8 DEF Wants
  <2>5. r.k.op \in {"pio", "packet"} => DataThere(t.d)
    BY <1>4, <1>5, <1>9, <2>1 DEF Fits, PioReads
  <2>6. Offers(t.d, prdt) => DataThere(t.d)
    BY <1>9, <2>1, <2>4, <2>5, StatusesDiffer DEF Offers
  <2> QED
    BY <2>2, <2>3, <2>6 DEF Waits
<1> QED
  BY <1>2, <1>9, <1>10, <1>11 DEF Keeps, Effect, t, u

-----------------------------------------------------------------------------
(* The inductive invariant.  While no medium or read was lost, the drive   *)
(* waits for what the guest asked for; after a reset it waits for nothing. *)

(* A request with a descriptor table is one that moves data by DMA. *)
AskedFits(a) ==
  /\ a.cmd \in PioWrites => a.prdt = << >>
  /\ a.prdt # << >> => a.atapi \/ a.cmd \in DmaReads \cup DmaWrites

StillInv == still => asked = None /\ dev.in_progress = {} /\ dev.status # S88

IdeInv ==
  /\ IsMachine(Machine) /\ Ids(Machine)
  /\ ~torn => Waits(Machine, asked.prdt)
  /\ StillInv
  /\ AskedFits(asked)
  /\ faults \in Nat

LEMMA MachineIs ==
  /\ Machine.d = dev /\ Machine.ch = ch /\ Machine.buf = buf /\ Machine.out = out
  /\ Machine.mem = mem
BY DEF Machine

LEMMA Shows ==
  ASSUME NEW t, IsMachine(t), Show(t)
  PROVE  Machine' = t
BY DEF Show, Machine, IsMachine

(* Where no read is wanted. *)
LEMMA NothingWanted ==
  ASSUME IdeInv, ~torn,
         \/ "BSY" \notin dev.status /\ ~ch.start
         \/ dev.status = S88 /\ asked.prdt = << >>
         \/ dev.status = S88 /\ dev.cmd = "PACKET"
  PROVE  dev.in_progress = {}
<1> DEFINE s == Machine
<1>1. Waits(s, asked.prdt) /\ Ids(s) /\ s.d = dev /\ s.ch = ch
  BY MachineIs DEF IdeInv
<1> HIDE DEF s
<1>2. ASSUME NEW r \in s.out, r.id \in s.d.in_progress
      PROVE  FALSE
  <2>1. Fits(r.k, s) /\ (asked.prdt = << >> => r.k.op \in {"pio", "packet"})
    BY <1>1, <1>2 DEF Waits, Busy
  <2>2. r.k.op = "dma" \/ s.d.status = S208
    BY <2>1 DEF Fits
  <2> QED
    BY <1>1, <2>1, <2>2, StatusesDiffer DEF Fits, DmaReads
<1> QED
  BY <1>1, <1>2 DEF Ids

LEMMA InitInv == Init => IdeInv
<1> SUFFICES ASSUME Init PROVE IdeInv
  OBVIOUS
<1> DEFINE s == Machine
<1>1. PICK atapi \in BOOLEAN : dev = NewDrive(atapi)
  BY DEF Init
<1>2. IsDrive(dev)
  <2>1. Drq \in Nat \ {0} /\ 0 \in 0 .. HeadBase - 1 /\ 0 \in Words
    BY ConstantsTyped DEF Words
  <2>2. S89 \in SUBSET S255 /\ S80 \in SUBSET S255
    BY DEF S89, S80, S255
  <2> DEFINE st == IF atapi THEN S89 ELSE S80
  <2>3. st \in SUBSET S255
    BY <2>2
  <2>4. dev = [atapi |-> atapi, status |-> st, count |-> 0, low |-> 0, mid |-> 0,
               high |-> 0, head |-> 0, is_lba |-> FALSE, drq |-> Drq, ptr |-> 0, end |-> 0,
               len |-> 0, data |-> << >>, cmd |-> "NONE", dest |-> 0, last_io_id |-> 0,
               in_progress |-> {}, cancelled |-> {}, sense |-> "none", reason |-> 0,
               has_disk |-> TRUE]
    BY <1>1 DEF NewDrive
  <2> HIDE DEF st
  <2> QED
    BY <2>1, <2>3, <2>4 DEF IsDrive
<1>3. IsChannel(ch) /\ ch.prdt = << >>
  BY DEF Init, IsChannel
<1>4. IsBuffer(buf)
  <2>1. PICK kind \in Kinds : buf = NewBuffer(kind, 1)
    BY DEF Init
  <2> QED
    BY <2>1 DEF NewBuffer, IsBuffer, NoData
<1>5. IsMachine(s)
  BY <1>2, <1>3, <1>4 DEF Init, Machine, IsMachine
<1>6. /\ dev.in_progress = {} /\ dev.cancelled = {} /\ dev.status \in {S80, S89}
  BY <1>1 DEF NewDrive
<1>7. s.d = dev /\ s.out = {}
  BY MachineIs DEF Init
<1> HIDE DEF s
<1>8. Ids(s)
  BY <1>6, <1>7 DEF Ids
<1>9. Busy(s)
  BY <1>6, <1>7, Idle, StatusesDiffer
<1>10. Waits(s, asked.prdt)
  BY <1>6, <1>7, <1>9, StatusesDiffer DEF Waits, Offers
<1>11. AskedFits(asked) /\ ~still /\ faults \in Nat
  BY DEF Init, None, PioWrites, AskedFits
<1> QED
  BY <1>5, <1>8, <1>10, <1>11 DEF IdeInv, StillInv, s

(* A step to t that goes on with, or begins, the transfer asked'.          *)
LEMMA StepInv ==
  ASSUME NEW t, IsMachine(t), Ids(t), Show(t), ~torn' => Waits(t, asked'.prdt),
         still' => asked' = None /\ t.d.in_progress = {} /\ t.d.status # S88,
         AskedFits(asked'), faults' \in Nat
  PROVE  IdeInv'
<1>1. Machine' = t /\ dev' = t.d
  BY Shows DEF Show
<1> QED
  BY <1>1 DEF IdeInv, StillInv

LEMMA IssueInv == IdeInv /\ issue => IdeInv'
<1> SUFFICES ASSUME IdeInv, issue PROVE IdeInv'
  OBVIOUS
<1>1. PICK r \in Requests :
        /\ Show(ata_command([Machine EXCEPT !.d = WriteRegs(@, r), !.ch.prdt = r.prdt], r.cmd))
        /\ asked' = [cmd |-> r.cmd, atapi |-> FALSE, first |-> r.lba, prdt |-> r.prdt,
                     n |-> IF r.cmd \in PioReads \cup PioWrites \cup DmaReads \cup DmaWrites
                           THEN r.count ELSE 0]
  BY DEF issue
<1> DEFINE e  == WriteRegs(dev, r)
           c  == [ch EXCEPT !.prdt = r.prdt]
           s0 == [Machine EXCEPT !.d = WriteRegs(@, r), !.ch.prdt = r.prdt]
           t  == ata_command(s0, r.cmd)
<1>2. IsMachine(Machine) /\ Ids(Machine) /\ IsDrive(dev) /\ IsChannel(ch)
  BY MachineIs DEF IdeInv, IsMachine
<1>3. IsDrive(e) /\ SameIds(dev, e) /\ Allowed(e, r.cmd, r.prdt)
  BY <1>2, WriteRegsTyped
<1>4. s0 = [d |-> e, ch |-> c, buf |-> buf, out |-> out, mem |-> mem]
  <2>1. s0 = [Machine EXCEPT !.d = e, !.ch = c]
    BY <1>2, MachineIs DEF IsMachine
  <2> HIDE DEF e, c, s0
  <2> QED
    BY <2>1 DEF Machine
<1> HIDE DEF e
<1>5. IsChannel(c)
  BY <1>2 DEF IsChannel
<1> HIDE DEF c, s0
<1>6. IsMachine(s0) /\ s0.d = e /\ s0.out = out
  BY <1>2, <1>3, <1>4, <1>5, MachineIs DEF IsMachine
<1>7. Ids(s0)
  BY <1>2, <1>3, <1>6, MachineIs, EffectIds
<1>8. Leaves(s0, t, r.prdt)
  BY <1>3, <1>6, <1>7, AtaCommand
<1> HIDE DEF t
<1>9. Show(t)
  BY <1>1 DEF t, s0
<1>10. ~torn => dev.in_progress = {}
  BY NothingWanted DEF issue, Ready
<1>11. torn' = torn /\ ~still' /\ faults' = faults
  BY DEF issue
<1>12. asked'.cmd = r.cmd /\ asked'.prdt = r.prdt
  BY <1>1
<1>13. AskedFits(asked')
  <2>1. r.cmd \in DmaReads \cup DmaWrites <=> r.prdt # << >>
    BY GuestAssumption
  <2> QED
    BY <1>12, <2>1 DEF PioWrites, DmaReads, DmaWrites, AskedFits
<1>14. ~torn' => Waits(t, asked'.prdt)
  BY <1>3, <1>6, <1>8, <1>10, <1>11, <1>12 DEF Leaves, SameIds
<1> QED
  BY <1>8, <1>9, <1>11, <1>12, <1>13, <1>14, StepInv DEF Leaves, IdeInv

LEMMA IssuePacketInv == IdeInv /\ issue_packet => IdeInv'
<1> SUFFICES ASSUME IdeInv, issue_packet PROVE IdeInv'
  OBVIOUS
<1>1. PICK limit \in 1 .. CdUnits + 1 :
        Show(ata_command([Machine EXCEPT !.d.mid = limit % Base, !.d.high = limit \div Base], "PACKET"))
  BY DEF issue_packet
<1> DEFINE lo == limit % Base
           hi == limit \div Base
           d1 == [dev EXCEPT !.mid = lo]
           d2 == [d1 EXCEPT !.high = hi]
           s0 == [Machine EXCEPT !.d.mid = lo, !.d.high = hi]
           s1 == [Machine EXCEPT !.d = d2]
           t  == ata_command(s0, "PACKET")
<1>2. IsMachine(Machine) /\ Ids(Machine) /\ IsDrive(dev)
  BY MachineIs DEF IdeInv, IsMachine
<1>3. Piece(limit) /\ limit \in Words
  BY ConstantsTyped DEF Piece, Words
<1>4. lo \in Words /\ hi \in Words /\ lo + Base * hi = limit
  BY <1>3, TwoBytesSay DEF Byte
<1>5. s0 = s1
  BY DEF Machine
<1> HIDE DEF lo, hi, s0
<1>6. IsDrive(d1) /\ SameIds(dev, d1) /\ d1.mid = lo /\ d1.count = dev.count
  BY <1>2, <1>4 DEF IsDrive, SameIds
<1> HIDE DEF d1
<1>7. IsDrive(d2) /\ SameIds(d1, d2) /\ d2.mid = lo /\ d2.high = hi /\ d2.count = d1.count
  BY <1>4, <1>6 DEF IsDrive, SameIds
<1> HIDE DEF d2
<1>8. IsMachine(s1) /\ s1.d = d2 /\ s1.out = out
  BY <1>2, <1>7, WithDrive, MachineIs
<1> HIDE DEF s1
<1>9. Ids(s1)
  BY <1>2, <1>6, <1>7, <1>8, MachineIs, EffectIds DEF SameIds
<1>10. Allowed(s1.d, "PACKET", << >>)
  BY <1>3, <1>4, <1>7, <1>8 DEF Allowed, Commands, PioReads, PioWrites, DmaReads, DmaWrites
<1>11. Leaves(s1, t, << >>)
  BY <1>5, <1>8, <1>9, <1>10, AtaCommand
<1> HIDE DEF t
<1>12. Show(t)
  BY <1>1 DEF t, s0, lo, hi
<1>13. ~torn => dev.in_progress = {}
  BY NothingWanted DEF issue_packet, Ready
<1>14. torn' = torn /\ ~still' /\ faults' = faults /\ asked' = None
  BY DEF issue_packet
<1>15. asked'.prdt = << >> /\ AskedFits(asked')
  BY <1>14 DEF None, PioWrites, AskedFits
<1>16. ~torn' => Waits(t, asked'.prdt)
  BY <1>6, <1>7, <1>8, <1>11, <1>13, <1>14, <1>15 DEF Leaves, SameIds
<1> QED
  BY <1>11, <1>12, <1>14, <1>15, <1>16, StepInv DEF Leaves, IdeInv

LEMMA SendPacketInv == IdeInv /\ send_packet => IdeInv'
<1> SUFFICES ASSUME IdeInv, send_packet PROVE IdeInv'
  OBVIOUS
<1>1. PICK p \in Packets :
        /\ Show(atapi_handle([Machine EXCEPT !.ch.prdt = p.prdt], p))
        /\ asked' = [cmd |-> p.name, atapi |-> TRUE, first |-> p.a, prdt |-> p.prdt,
                     n |-> IF p.name = "READ" /\ p.a < DiskUnits
                           THEN Least(p.n, DiskUnits - p.a) ELSE 0]
  BY DEF send_packet
<1> DEFINE c  == [ch EXCEPT !.prdt = p.prdt]
           s0 == [Machine EXCEPT !.ch.prdt = p.prdt]
           t  == atapi_handle(s0, p)
<1>2. IsMachine(Machine) /\ Ids(Machine) /\ IsChannel(ch)
  BY MachineIs DEF IdeInv, IsMachine
<1>3. s0 = [Machine EXCEPT !.ch = c]
  BY <1>2, MachineIs DEF IsMachine
<1>4. IsChannel(c)
  BY <1>2 DEF IsChannel
<1> HIDE DEF c, s0
<1>5. IsMachine(s0) /\ s0.d = dev /\ s0.out = out
  BY <1>2, <1>3, <1>4, MachineIs DEF IsMachine
<1>6. Ids(s0)
  BY <1>2, <1>5, MachineIs, EffectIds DEF SameIds
<1>7. dev.cmd = "PACKET" /\ dev.status = S88 /\ dev.reason = 1
  BY DEF send_packet
<1>8. LeavesIf(s0, t, p.prdt, Piece(s0.d.mid + Base * s0.d.high))
  BY <1>5, <1>6, <1>7, AtapiHandle
<1> HIDE DEF t
<1>9. Show(t)
  BY <1>1 DEF t, s0
<1>10. ~torn => dev.in_progress = {}
  BY <1>7, NothingWanted
<1>11. ~torn => Piece(dev.mid + Base * dev.high)
  BY <1>7, MachineIs DEF IdeInv, Waits, Offers, DataThere
<1>12. torn' = torn /\ still' = still /\ faults' = faults
  BY DEF send_packet
<1>13. asked'.prdt = p.prdt /\ asked'.cmd = p.name
  BY <1>1
<1>14. AskedFits(asked')
  <2>1. p.name \notin PioWrites
    BY GuestAssumption DEF PioWrites
  <2> QED
    BY <1>1, <2>1 DEF AskedFits
<1>15. ~still
  BY <1>7 DEF IdeInv, StillInv
<1>16. ~torn' => Waits(t, asked'.prdt)
  BY <1>5, <1>8, <1>10, <1>11, <1>12, <1>13 DEF LeavesIf
<1> QED
  BY <1>8, <1>9, <1>12, <1>13, <1>14, <1>15, <1>16, StepInv DEF LeavesIf, IdeInv

(* A piece of a transfer through the data port. *)
LEMMA PortInv ==
  ASSUME IdeInv, dev.status = S88, asked.prdt = << >>, UNCHANGED <<asked, torn, still, faults>>,
         NEW t, Show(t), LeavesIf(Machine, t, << >>, Machine.d.status = S88 /\ DataThere(Machine.d))
  PROVE  IdeInv'
<1>1. ~torn => dev.in_progress = {}
  BY NothingWanted
<1>2. ~torn => DataThere(dev)
  BY MachineIs DEF IdeInv, Waits, Offers
<1>3. ~torn' => Waits(t, asked'.prdt)
  BY <1>1, <1>2, MachineIs DEF LeavesIf
<1>4. ~still
  BY DEF IdeInv, StillInv
<1>5. asked' = asked /\ faults' = faults /\ still' = still
  OBVIOUS
<1> QED
  BY <1>3, <1>4, <1>5, StepInv DEF LeavesIf, IdeInv

LEMMA GuestReadInv == IdeInv /\ guest_read => IdeInv'
<1> SUFFICES ASSUME IdeInv, guest_read PROVE IdeInv'
  OBVIOUS
<1> DEFINE t == read_data(Machine)
<1>1. LeavesIf(Machine, t, << >>, Machine.d.status = S88 /\ DataThere(Machine.d))
  BY ReadData DEF IdeInv
<1> HIDE DEF t
<1>2. Show(t) /\ dev.status = S88 /\ asked.prdt = << >> /\ UNCHANGED <<asked, torn, still, faults>>
  BY DEF guest_read, t
<1> QED
  BY <1>1, <1>2, PortInv

LEMMA GuestWriteInv == IdeInv /\ guest_write => IdeInv'
<1> SUFFICES ASSUME IdeInv, guest_write PROVE IdeInv'
  OBVIOUS
<1> DEFINE v == -(10 * commands + Len(sent))
           t == write_data_port(Machine, v)
<1>1. LeavesIf(Machine, t, << >>, Machine.d.status = S88 /\ DataThere(Machine.d))
  BY WriteDataPort DEF IdeInv
<1> HIDE DEF t
<1>2. Show(t) /\ dev.status = S88 /\ asked.cmd \in PioWrites /\ UNCHANGED <<asked, torn, still, faults>>
  BY DEF guest_write, t
<1>3. asked.prdt = << >>
  BY <1>2 DEF IdeInv, AskedFits
<1> QED
  BY <1>1, <1>2, <1>3, PortInv

(* A step that leaves the transfer to the drive, and the drive idle if it  *)
(* was reset.                                                              *)
LEMMA KeepsInv ==
  ASSUME IdeInv, UNCHANGED <<asked, torn, still, faults>>,
         NEW t, Show(t), Keeps(Machine, t, asked.prdt),
         still => t.d.in_progress = {} /\ t.d.status # S88
  PROVE  IdeInv'
<1>1. ~torn' => Waits(t, asked'.prdt)
  BY DEF IdeInv, Keeps
<1>2. asked' = asked /\ faults' = faults /\ still' = still
  OBVIOUS
<1> QED
  BY <1>1, <1>2, StepInv DEF Keeps, IdeInv, StillInv

LEMMA DmaStartInv == IdeInv /\ guest_dma_start => IdeInv'
<1> SUFFICES ASSUME IdeInv, guest_dma_start PROVE IdeInv'
  OBVIOUS
<1> DEFINE t == dma_write_command8(Machine, TRUE)
<1>1. asked.prdt # << >> /\ ~ch.start /\ UNCHANGED <<asked, torn, still, faults>>
  BY DEF guest_dma_start
<1>2. Show(t)
  BY DEF guest_dma_start
<1>3. CASE dev.cmd \in DmaReads \cup DmaWrites \cup {"PACKET"}
  <2>1. Keeps(Machine, t, asked.prdt)
    BY <1>1, <1>3, MachineIs, DmaStart DEF IdeInv
  <2>2. ~still
    BY <1>1 DEF IdeInv, StillInv, None
  <2> HIDE DEF t
  <2> QED
    BY <1>1, <1>2, <2>1, <2>2, KeepsInv
<1>4. CASE dev.cmd \notin DmaReads \cup DmaWrites \cup {"PACKET"}
  <2>1. ~asked.atapi /\ dev.cmd = asked.cmd
    BY <1>4 DEF guest_dma_start
  <2> QED
    BY <1>1, <1>4, <2>1 DEF IdeInv, AskedFits
<1> QED
  BY <1>3, <1>4

LEMMA DmaStopInv == IdeInv /\ guest_dma_stop => IdeInv'
<1> SUFFICES ASSUME IdeInv, guest_dma_stop PROVE IdeInv'
  OBVIOUS
<1> DEFINE t == dma_write_command8(Machine, FALSE)
<1>1. /\ t.d = Machine.d /\ (~Machine.ch.active => Keeps(Machine, t, asked.prdt))
  BY DmaStop DEF IdeInv
<1> HIDE DEF t
<1>2. Show(t) /\ ~ch.active /\ UNCHANGED <<asked, torn, still, faults>>
  BY DEF guest_dma_stop, t, guestVars
<1> QED
  BY <1>1, <1>2, MachineIs, KeepsInv DEF IdeInv, StillInv

LEMMA StatusReadInv == IdeInv /\ guest_status => IdeInv'
<1> SUFFICES ASSUME IdeInv, guest_status PROVE IdeInv'
  OBVIOUS
<1> DEFINE s == Machine
           t == Lowered(s)
<1>1. s.d = dev /\ s.ch = ch /\ s.buf = buf /\ s.out = out /\ s.mem = mem /\ IsMachine(s) /\ Ids(s)
  BY MachineIs DEF IdeInv
<1> HIDE DEF s
<1>2. /\ IsMachine(t) /\ t.d = s.d /\ t.buf = s.buf /\ t.out = s.out /\ t.mem = s.mem
      /\ SameBus(s, t) /\ t.ch = [s.ch EXCEPT !.irq = FALSE]
  BY <1>1, IrqLowered DEF Lowered, IsMachine
<1> HIDE DEF t
<1>3. Ids(t)
  BY <1>1, <1>2, EffectIds DEF SameIds
<1>4. Waits(s, asked.prdt) => Waits(t, asked.prdt)
  BY <1>2 DEF Waits, Busy, Fits, SameBus
<1>5. Show(t) /\ UNCHANGED <<asked, torn, still, faults>>
  BY <1>1, <1>2 DEF guest_status, Show, guestVars
<1>6. Keeps(Machine, t, asked.prdt)
  BY <1>2, <1>3, <1>4 DEF Keeps, s
<1> QED
  BY <1>1, <1>2, <1>5, <1>6, KeepsInv DEF IdeInv, StillInv

(* After a reset nothing is wanted. *)
LEMMA AbandonInv ==
  ASSUME IdeInv, Fault, Abandon, NEW t, Show(t), IsMachine(t), Ids(t),
         t.d.in_progress = {}, t.d.status \in {{}, S65}
  PROVE  IdeInv'
<1>1. Waits(t, << >>)
  BY Idle, StatusesDiffer DEF Waits, Offers
<1>2. asked' = None /\ asked'.prdt = << >> /\ AskedFits(asked')
  BY DEF Abandon, None, PioWrites, AskedFits
<1>3. faults' \in Nat
  BY DEF Fault, IdeInv
<1> QED
  BY <1>1, <1>2, <1>3, StatusesDiffer, StepInv

LEMMA GuestResetInv == IdeInv /\ guest_reset => IdeInv'
<1> SUFFICES ASSUME IdeInv, guest_reset PROVE IdeInv'
  OBVIOUS
<1> DEFINE u == dma_write_command8(Machine, FALSE)
<1>1. PICK nien \in BOOLEAN :
        Show(write_control(write_control(u, TRUE, nien), FALSE, nien))
  BY DEF guest_reset
<1>2. IsMachine(u) /\ Ids(u)
  BY DmaStop DEF IdeInv
<1> HIDE DEF u
<1> DEFINE t == write_control(write_control(u, TRUE, nien), FALSE, nien)
<1>3. IsMachine(t) /\ Ids(t) /\ t.d.in_progress = {} /\ t.d.status \in {{}, S65}
  BY <1>2, ControlReset
<1>4. Show(t)
  BY <1>1
<1> HIDE DEF t
<1>5. Fault /\ Abandon
  BY DEF guest_reset
<1> QED
  BY <1>3, <1>4, <1>5, AbandonInv

LEMMA DeviceResetInv == IdeInv /\ guest_device_reset => IdeInv'
<1> SUFFICES ASSUME IdeInv, guest_device_reset PROVE IdeInv'
  OBVIOUS
<1> DEFINE u == dma_write_command8(Machine, FALSE)
           t == ata_command(u, "RESET")
<1>1. Show(t) /\ Fault /\ Abandon
  BY DEF guest_device_reset
<1>2. IsMachine(u) /\ Ids(u)
  BY DmaStop DEF IdeInv
<1> HIDE DEF u
<1>3. IsMachine(t) /\ Ids(t) /\ t.d.in_progress = {} /\ t.d.status \in {{}, S65}
  BY <1>2, ResetCommand
<1> HIDE DEF t
<1> QED
  BY <1>1, <1>3, AbandonInv

(* An answer leaves the registers alone unless its read is wanted. *)
(* The registers, the channel and the memory of t are those of this state. *)
Untouched(t) ==
  /\ t.d = [dev EXCEPT !.cancelled = t.d.cancelled] /\ t.d.in_progress = dev.in_progress
  /\ t.d.status = dev.status /\ t.ch = ch /\ t.mem = mem

(* What an answer leads to. *)
Answered(t) ==
  /\ Show(t) /\ Keeps(Machine, t, asked.prdt) /\ UNCHANGED <<asked, torn, still, faults>>
  /\ Untouched(t) \/ dev.in_progress # {}

LEMMA SameDrive ==
  ASSUME NEW d, IsDrive(d)
  PROVE  d = [d EXCEPT !.cancelled = d.cancelled]
BY DEF IsDrive

(* Every answer keeps the machine sound, and ends at most the read it is for. *)
LEMMA CompleteAnswers ==
  ASSUME IdeInv, complete
  PROVE  \E t : Answered(t)
<1> DEFINE S(r, c) == [Machine EXCEPT !.out = @ \ {r},
                         !.buf = IF r.medium = @.medium THEN handle_read(@, c) ELSE @]
           all(r, c) == Received(BufferOf(r), c) @@ r.have
           D(r, c) == [i \in 1 .. r.n |-> all(r, c)[r.a + i - 1]]
           B1(r, c) == [S(r, c) EXCEPT !.out = @ \cup {[r EXCEPT !.wait = r.wait \ {c}, !.have = all(r, c)]}]
           B2(r, c) == [S(r, c) EXCEPT !.d.cancelled = @ \ {r.id}]
           B3(r, c) == Complete([S(r, c) EXCEPT !.d.in_progress = @ \ {r.id}], r.k, D(r, c))
           T(r, c) == CASE r.wait # {c} -> B1(r, c)
                        [] r.wait = {c} /\ r.id \in dev.cancelled -> B2(r, c)
                        [] OTHER -> B3(r, c)
<1>1. PICK r \in out : \E c \in r.wait : Show(T(r, c)) /\ UNCHANGED <<guestVars, commands, faults>>
  BY DEF complete
<1>2. PICK c \in r.wait : Show(T(r, c)) /\ UNCHANGED <<guestVars, commands, faults>>
  BY <1>1
<1> DEFINE b == IF r.medium = Machine.buf.medium THEN handle_read(Machine.buf, c) ELSE Machine.buf
           u == Taken(Machine, r, b)
           al == all(r, c)
           da == D(r, c)
<1>3. IsMachine(Machine) /\ Ids(Machine) /\ r \in Machine.out
  BY MachineIs DEF IdeInv
<1>4. IsBuffer(b)
  BY <1>3, HandleReadTyped DEF IsMachine
<1>5. S(r, c) = u
  BY DEF Taken
<1>6. Items(da, r.n)
  BY DEF Items
<1>7. UNCHANGED <<asked, torn, still, faults>>
  BY <1>2 DEF guestVars
<1>8. B1(r, c) = Partly(u, r, c, al) /\ B2(r, c) = Dropped(u, r)
      /\ B3(r, c) = Complete(Wanted(u, r), r.k, da)
  BY <1>5 DEF Partly, Dropped, Wanted
<1> DEFINE b1 == B1(r, c)
           b2 == B2(r, c)
           b3 == B3(r, c)
           t  == T(r, c)
<1>9. /\ r.wait # {c} => t = b1
      /\ r.wait = {c} /\ r.id \in dev.cancelled => t = b2
      /\ r.wait = {c} /\ r.id \notin dev.cancelled => t = b3
  <2> HIDE DEF b1, b2, b3, B1, B2, B3
  <2>1. r.wait # {c} => t = B1(r, c)
    BY Zenon
  <2>2. r.wait = {c} /\ r.id \in dev.cancelled => t = B2(r, c)
    BY Zenon
  <2>3. r.wait = {c} /\ r.id \notin dev.cancelled => t = B3(r, c)
    BY Zenon
  <2> QED
    BY <2>1, <2>2, <2>3 DEF b1, b2, b3
<1>10. Show(t)
  BY <1>2
<1>11. b1 = Partly(u, r, c, al) /\ b2 = Dropped(u, r) /\ b3 = Complete(Wanted(u, r), r.k, da)
  BY <1>8
<1>12. IsDrive(dev)
  BY <1>3, MachineIs DEF IsMachine
<1> HIDE DEF t, b1, b2, b3, al, da, b
<1>13. CASE r.wait # {c}
  <2>1. t = Partly(u, r, c, al)
    BY <1>9, <1>11, <1>13
  <2>2. Keeps(Machine, t, asked.prdt) /\ t.d = dev /\ t.ch = ch /\ t.mem = mem
    BY <1>3, <1>4, <2>1, MachineIs, PartlyProps
  <2>3. Untouched(t)
    BY <1>12, <2>2, SameDrive DEF Untouched
  <2> QED
    BY <1>7, <1>10, <2>2, <2>3 DEF Answered
<1>14. CASE r.wait = {c} /\ r.id \in dev.cancelled
  <2>1. t = Dropped(u, r)
    BY <1>9, <1>11, <1>14
  <2>2. r.id \in Machine.d.cancelled
    BY <1>14, MachineIs
  <2>3. /\ Keeps(Machine, t, asked.prdt)
        /\ t.d = [Machine.d EXCEPT !.cancelled = @ \ {r.id}]
        /\ t.d.in_progress = Machine.d.in_progress /\ t.d.status = Machine.d.status
        /\ t.ch = Machine.ch /\ t.mem = Machine.mem
    BY <1>3, <1>4, <2>1, <2>2, DroppedProps
  <2>4. t.d = [dev EXCEPT !.cancelled = t.d.cancelled]
    <3>1. t.d = [dev EXCEPT !.cancelled = dev.cancelled \ {r.id}]
      BY <2>3, MachineIs
    <3> QED
      BY <1>12, <3>1 DEF IsDrive
  <2>5. Untouched(t)
    BY <2>3, <2>4, MachineIs DEF Untouched
  <2> QED
    BY <1>7, <1>10, <2>3, <2>5 DEF Answered
<1>15. CASE r.wait = {c} /\ r.id \notin dev.cancelled
  <2>1. t = Complete(Wanted(u, r), r.k, da)
    BY <1>9, <1>11, <1>15
  <2>2. r.id \notin Machine.d.cancelled
    BY <1>15, MachineIs
  <2>3. Keeps(Machine, t, asked.prdt)
    BY <1>3, <1>4, <1>6, <2>1, <2>2, WantedProps DEF u
  <2>4. dev.in_progress # {}
    BY <1>3, <2>2, MachineIs DEF Ids
  <2> QED
    BY <1>7, <1>10, <2>3, <2>4 DEF Answered
<1> QED
  BY <1>13, <1>14, <1>15

LEMMA CompleteInv == IdeInv /\ complete => IdeInv'
<1> SUFFICES ASSUME IdeInv, complete PROVE IdeInv'
  OBVIOUS
<1>1. PICK t : Answered(t)
  BY CompleteAnswers
<1>2. Show(t) /\ Keeps(Machine, t, asked.prdt) /\ UNCHANGED <<asked, torn, still, faults>>
  BY <1>1 DEF Answered
<1>3. still => t.d.in_progress = {} /\ t.d.status # S88
  BY <1>1 DEF Answered, Untouched, IdeInv, StillInv
<1> QED
  BY <1>2, <1>3, KeepsInv

(* The page tells the guest of a change of its medium. *)
LEMMA MediumStatus ==
  ASSUME NEW s, IsMachine(s), Ids(s), NEW disk_in \in BOOLEAN, NEW prdt
  PROVE  /\ Leaves(s, End([s EXCEPT !.d.has_disk = disk_in], S89), prdt)
         /\ End([s EXCEPT !.d.has_disk = disk_in], S89).buf = s.buf
<1> DEFINE e == [s.d EXCEPT !.has_disk = disk_in]
           t == Ended(s, e, S89)
<1>1. End([s EXCEPT !.d.has_disk = disk_in], S89) = t
  BY DEF Ended
<1>2. IsDrive(e) /\ SameIds(s.d, e)
  BY DEF IsMachine, IsDrive, SameIds
<1> HIDE DEF e
<1>3. S89 \in SUBSET S255 /\ S89 # S208 /\ S89 # S88
  BY StatusesDiffer, Statuses
<1>4. Leaves(s, t, prdt)
  BY <1>2, <1>3, EndedLeaves
<1>5. t.buf = s.buf
  BY <1>2, <1>3, EndEffect
<1> QED
  BY <1>1, <1>4, <1>5

LEMMA EjectInv == IdeInv /\ eject => IdeInv'
<1> SUFFICES ASSUME IdeInv, eject PROVE IdeInv'
  OBVIOUS
<1> DEFINE t == End([Machine EXCEPT !.d.has_disk = FALSE], S89)
<1>1. Leaves(Machine, t, asked.prdt)
  BY MediumStatus DEF IdeInv
<1>2. Show(t)
  BY DEF eject
<1> HIDE DEF t
<1>3. ~torn' => dev.in_progress = {}
  BY DEF eject, UnderWay
<1>4. ~still' /\ asked' = asked /\ AskedFits(asked)
  BY DEF eject, IdeInv
<1>5. faults' \in Nat
  BY DEF eject, Fault, IdeInv
<1> QED
  BY <1>1, <1>2, <1>3, <1>4, <1>5, MachineIs, StepInv DEF Leaves

(* Reads of the old medium are still answered, and their ids still known.  *)
Changed(s) == [s EXCEPT !.buf = NewBuffer(s.buf.kind, s.buf.medium + 1)]

LEMMA ChangedProps ==
  ASSUME NEW s, IsMachine(s)
  PROVE  /\ IsMachine(Changed(s)) /\ Changed(s).d = s.d /\ Changed(s).out = s.out
         /\ Changed(s).ch = s.ch
<1> DEFINE b == NewBuffer(s.buf.kind, s.buf.medium + 1)
<1>1. IsBuffer(b)
  BY DEF NewBuffer, IsBuffer, NoData
<1> HIDE DEF b
<1>2. IsMachine([s EXCEPT !.buf = b])
  BY <1>1 DEF IsMachine
<1> QED
  BY <1>2 DEF Changed, IsMachine, b

LEMMA SetCdromInv == IdeInv /\ set_cdrom => IdeInv'
<1> SUFFICES ASSUME IdeInv, set_cdrom PROVE IdeInv'
  OBVIOUS
<1> DEFINE s == Changed(Machine)
           t == End([s EXCEPT !.d.has_disk = TRUE], S89)
<1>1. IsMachine(s) /\ s.d = dev /\ s.out = Machine.out
  BY MachineIs, ChangedProps DEF IdeInv
<1>2. Show(t)
  <2>1. [s EXCEPT !.d.has_disk = TRUE]
          = [Machine EXCEPT !.d.has_disk = TRUE, !.buf = NewBuffer(buf.kind, buf.medium + 1)]
    BY DEF Changed, Machine
  <2> QED
    BY <2>1 DEF set_cdrom
<1> HIDE DEF s
<1>3. Ids(s)
  BY <1>1, MachineIs, EffectIds DEF IdeInv, SameIds
<1>4. Leaves(s, t, << >>)
  BY <1>1, <1>3, MediumStatus
<1> HIDE DEF t
<1>5. ~torn' => dev.in_progress = {}
  BY DEF set_cdrom, UnderWay
<1>6. ~still' /\ asked' = None /\ asked'.prdt = << >> /\ AskedFits(asked')
  BY DEF set_cdrom, None, PioWrites, AskedFits
<1>7. faults' \in Nat
  BY DEF set_cdrom, Fault, IdeInv
<1> QED
  BY <1>1, <1>2, <1>4, <1>5, <1>6, <1>7, StepInv DEF Leaves

(* A restored drive waits for nothing that is outstanding.                 *)
LEMMA RestoreInv == IdeInv /\ restore_state => IdeInv'
<1> SUFFICES ASSUME IdeInv, restore_state PROVE IdeInv'
  OBVIOUS
<1> DEFINE b == BufferRestored(buf)
           e == [dev EXCEPT !.in_progress = {}, !.cancelled = {}, !.last_io_id = 0,
                            !.sense = "none"]
           t == [d |-> e, ch |-> ch, buf |-> b, out |-> {}, mem |-> mem]
<1>1. IsDrive(dev) /\ IsChannel(ch) /\ IsBuffer(buf) /\ DOMAIN mem = 0 .. MemSize - 1
  BY MachineIs DEF IdeInv, IsMachine
<1>2. IsBuffer(b)
  BY <1>1 DEF BufferRestored, IsBuffer
<1>3. /\ IsDrive(e) /\ e.in_progress = {} /\ e.cancelled = {} /\ e.status = dev.status
      /\ e.cmd = dev.cmd /\ e.reason = dev.reason /\ e.ptr = dev.ptr /\ e.end = dev.end
      /\ e.len = dev.len /\ e.mid = dev.mid /\ e.high = dev.high
  <2> DEFINE e1 == [dev EXCEPT !.in_progress = {}]
             e2 == [e1 EXCEPT !.cancelled = {}]
             e3 == [e2 EXCEPT !.last_io_id = 0]
             e4 == [e3 EXCEPT !.sense = "none"]
  <2>1. /\ IsDrive(e1) /\ e1.in_progress = {} /\ e1.status = dev.status
        /\ e1.cmd = dev.cmd /\ e1.reason = dev.reason /\ e1.ptr = dev.ptr /\ e1.end = dev.end
        /\ e1.len = dev.len /\ e1.mid = dev.mid /\ e1.high = dev.high
    BY <1>1 DEF IsDrive
  <2>0. e = e4
    OBVIOUS
  <2> HIDE DEF e1, e
  <2>2. /\ IsDrive(e2) /\ e2.in_progress = e1.in_progress /\ e2.status = e1.status
        /\ e2.cmd = e1.cmd /\ e2.reason = e1.reason /\ e2.ptr = e1.ptr /\ e2.end = e1.end
        /\ e2.len = e1.len /\ e2.mid = e1.mid /\ e2.high = e1.high /\ e2.cancelled = {}
    BY <2>1 DEF IsDrive
  <2> HIDE DEF e2
  <2>3. /\ IsDrive(e3) /\ e3.in_progress = e2.in_progress /\ e3.status = e2.status
        /\ e3.cmd = e2.cmd /\ e3.reason = e2.reason /\ e3.ptr = e2.ptr /\ e3.end = e2.end
        /\ e3.len = e2.len /\ e3.mid = e2.mid /\ e3.high = e2.high /\ e3.cancelled = {}
    BY <2>2 DEF IsDrive
  <2> HIDE DEF e3
  <2>4. /\ IsDrive(e4) /\ e4.in_progress = e3.in_progress /\ e4.status = e3.status
        /\ e4.cmd = e3.cmd /\ e4.reason = e3.reason /\ e4.ptr = e3.ptr /\ e4.end = e3.end
        /\ e4.len = e3.len /\ e4.mid = e3.mid /\ e4.high = e3.high /\ e4.cancelled = {}
    BY <2>3 DEF IsDrive
  <2> HIDE DEF e4
  <2> QED
    BY <2>0, <2>1, <2>2, <2>3, <2>4
<1>4. t.d = e /\ t.out = {} /\ t.ch = ch /\ Show(t)
  BY DEF restore_state, Show
<1>5. IsMachine(t)
  BY <1>1, <1>2, <1>3 DEF IsMachine
<1> HIDE DEF t, e
<1>6. Ids(t)
  BY <1>3, <1>4 DEF Ids
<1>7. ASSUME ~torn' PROVE Waits(t, asked.prdt)
  <2>1. ~torn /\ dev.in_progress = {}
    BY <1>7 DEF restore_state
  <2>2. Waits(Machine, asked.prdt)
    BY <2>1 DEF IdeInv
  <2>3. dev.status # S208 /\ (Offers(dev, asked.prdt) => DataThere(dev))
    BY <2>1, <2>2, MachineIs DEF Waits, Busy
  <2>4. Busy(t)
    BY <1>3, <1>4, <2>3, Idle
  <2> QED
    BY <1>3, <1>4, <2>3, <2>4 DEF Waits, Offers, DataThere
<1>8. ~still' /\ asked' = asked /\ AskedFits(asked)
  BY DEF restore_state, IdeInv
<1>9. faults' \in Nat
  BY DEF restore_state, Fault, IdeInv
<1> QED
  BY <1>4, <1>5, <1>6, <1>7, <1>8, <1>9, StepInv

(* Every step keeps the invariant. *)
LEMMA NextInv == IdeInv /\ [Next]_vars => IdeInv'
<1>1. ASSUME IdeInv, UNCHANGED vars PROVE IdeInv'
  <2>1. Machine' = Machine /\ asked' = asked /\ torn' = torn /\ still' = still /\ dev' = dev
        /\ faults' = faults
    BY <1>1 DEF vars, devVars, guestVars, Machine
  <2> QED
    BY <1>1, <2>1 DEF IdeInv, StillInv
<1> QED
  BY <1>1, IssueInv, IssuePacketInv, SendPacketInv, GuestReadInv, GuestWriteInv, DmaStartInv,
     DmaStopInv, StatusReadInv, GuestResetInv, DeviceResetInv, CompleteInv, EjectInv,
     SetCdromInv, RestoreInv DEF Next

(* The invariant holds in every reachable state. *)
LEMMA AlwaysInv == Spec => []IdeInv
BY InitInv, NextInv, PTL DEF Spec

(* The invariant says what the protocol asks. *)
LEMMA InvProtocol == IdeInv => IdeProtocol
<1> SUFFICES ASSUME IdeInv PROVE IdeProtocol
  OBVIOUS
<1> DEFINE s == Machine
<1>1. s.d = dev /\ s.ch = ch /\ s.buf = buf /\ s.out = out /\ s.mem = mem /\ IsMachine(s)
      /\ Ids(s) /\ (~torn => Waits(s, asked.prdt))
  BY MachineIs DEF IdeInv
<1> HIDE DEF s
<1>2. TypeOK
  BY <1>1 DEF TypeOK, IsMachine, IsDrive, IsBuffer, Words, S255
<1>3. {r.id : r \in out} = dev.in_progress \cup dev.cancelled
  BY <1>1 DEF Ids
<1>4. dev.in_progress \cap dev.cancelled = {}
  BY <1>1 DEF Ids
<1>5. ASSUME ~torn
      PROVE  /\ Cardinality(dev.in_progress) <= 1
             /\ (dev.status = S208) = (\E r \in out : r.id \in dev.in_progress /\ r.k.op # "dma")
             /\ dev.status = S88 /\ asked.prdt = << >> => dev.ptr < dev.end /\ dev.end <= dev.len
  <2>1. Waits(s, asked.prdt) /\ Busy(s)
    BY <1>1, <1>5 DEF Waits
  <2>2. Cardinality(dev.in_progress) <= 1
    <3>1. CASE dev.in_progress = {}
      BY <3>1, FS_EmptySet
    <3>2. CASE dev.in_progress # {}
      <4>1. PICK i : i \in dev.in_progress
        BY <3>2
      <4>2. dev.in_progress = {i}
        BY <1>1, <2>1, <4>1 DEF Busy
      <4>3. Cardinality({i}) = 1
        BY FS_Singleton
      <4> QED
        BY <4>2, <4>3
    <3> QED
      BY <3>1, <3>2
  <2>3. (dev.status = S208) <=> \E r \in out : r.id \in dev.in_progress /\ r.k.op # "dma"
    BY <1>1, <2>1 DEF Busy, Fits
  <2>4. dev.status = S88 /\ asked.prdt = << >> => dev.ptr < dev.end /\ dev.end <= dev.len
    BY <1>1, <2>1 DEF Waits, Offers, DataThere
  <2> QED
    BY <2>2, <2>3, <2>4
<1> QED
  BY <1>2, <1>3, <1>4, <1>5 DEF IdeProtocol

(* Whatever the guest asks, however late and in whatever order the server  *)
(* answers, and whatever the page ejects, inserts or restores, the drive's *)
(* picture of its reads and data is right (read_buffer,                    *)
(* cancel_io_operations, the handlers), for any geometry, memory and cache *)
(* and any number of reads.                                                *)
THEOREM IdeProtocolHolds == Spec => []IdeProtocol
BY AlwaysInv, InvProtocol, PTL

-----------------------------------------------------------------------------
(* After a reset *)

Final ==
  /\ mem' = mem /\ (ch'.irq => ch.irq)
  /\ faults' = faults => dev' = [dev EXCEPT !.cancelled = dev'.cancelled]

(* Another fault, and the line is lowered. *)
LEMMA ResetAgain ==
  ASSUME IdeInv, Fault, NEW t, Show(t), ~t.ch.irq, t.mem = mem
  PROVE  Final
<1>1. faults' # faults
  BY DEF Fault, IdeInv
<1> QED
  BY <1>1 DEF Show, Final

(* No step but a new request wakes a drive that was reset. *)
LEMMA StillFinal ==
  ASSUME IdeInv, [Next]_vars, still, still'
  PROVE  Final
<1>1. asked = None /\ dev.in_progress = {} /\ dev.status # S88
  BY DEF IdeInv, StillInv
<1>2. IsMachine(Machine) /\ Ids(Machine)
  BY DEF IdeInv
<1>3. IsDrive(dev)
  BY <1>2, MachineIs DEF IsMachine
<1>4. dev = [dev EXCEPT !.cancelled = dev.cancelled]
  BY <1>3, SameDrive
<1>5. CASE guest_dma_stop
  <2> DEFINE t == dma_write_command8(Machine, FALSE)
  <2>1. t.d = dev /\ t.mem = mem /\ t.ch.irq = ch.irq
    BY <1>2, DmaStop, MachineIs
  <2> HIDE DEF t
  <2>2. Show(t)
    BY <1>5 DEF guest_dma_stop, t
  <2> QED
    BY <1>4, <2>1, <2>2 DEF Show, Final
<1>6. CASE guest_status
  <2>1. ~ch'.irq
    BY <1>2, <1>6, MachineIs DEF guest_status, IsMachine, IsChannel
  <2> QED
    BY <1>4, <1>6, <2>1 DEF guest_status, Final
<1>7. CASE guest_reset
  <2> DEFINE u == dma_write_command8(Machine, FALSE)
  <2>1. PICK nien \in BOOLEAN :
          Show(write_control(write_control(u, TRUE, nien), FALSE, nien))
    BY <1>7 DEF guest_reset
  <2>2. IsMachine(u) /\ Ids(u) /\ u.mem = mem
    BY <1>2, DmaStop, MachineIs
  <2> HIDE DEF u
  <2> DEFINE t == write_control(write_control(u, TRUE, nien), FALSE, nien)
  <2>3. ~t.ch.irq /\ t.mem = mem
    BY <2>2, ControlReset
  <2>4. Show(t)
    BY <2>1
  <2> HIDE DEF t
  <2>5. Fault
    BY <1>7 DEF guest_reset
  <2> QED
    BY <2>3, <2>4, <2>5, ResetAgain
<1>8. CASE guest_device_reset
  <2> DEFINE u == dma_write_command8(Machine, FALSE)
             t == ata_command(u, "RESET")
  <2>1. IsMachine(u) /\ Ids(u) /\ u.mem = mem
    BY <1>2, DmaStop, MachineIs
  <2>2. Show(t) /\ Fault
    BY <1>8 DEF guest_device_reset
  <2> HIDE DEF u
  <2>3. ~t.ch.irq /\ t.mem = mem
    BY <2>1, ResetCommand
  <2> HIDE DEF t
  <2> QED
    BY <2>2, <2>3, ResetAgain
<1>9. CASE complete
  <2>1. PICK t : Answered(t)
    BY <1>9, CompleteAnswers
  <2>2. Show(t) /\ Untouched(t)
    BY <1>1, <2>1 DEF Answered
  <2> QED
    BY <2>2 DEF Show, Untouched, Final
<1>10. CASE UNCHANGED vars
  BY <1>4, <1>10 DEF vars, devVars, Final
<1>11. ~issue /\ ~issue_packet /\ ~eject /\ ~set_cdrom /\ ~restore_state
  BY DEF issue, issue_packet, eject, set_cdrom, restore_state
<1>12. ~send_packet /\ ~guest_read /\ ~guest_write
  BY <1>1 DEF send_packet, guest_read, guest_write
<1>13. ~guest_dma_start
  BY <1>1 DEF guest_dma_start, None
<1> QED
  BY <1>5, <1>6, <1>7, <1>8, <1>9, <1>10, <1>11, <1>12, <1>13 DEF Next

(* After a reset, until the guest asks again, no answer to an older read   *)
(* moves data, raises the line or changes the drive                        *)
(* (cancel_io_operations), however many reads are still outstanding.       *)
THEOREM ResetIsFinalHolds == Spec => ResetIsFinal
<1>1. IdeInv /\ [Next]_vars
        => [(still /\ still') =>
              /\ mem' = mem /\ (ch.irq' => ch.irq)
              /\ faults' = faults => dev' = [dev EXCEPT !.cancelled = dev'.cancelled]]_vars
  BY StillFinal DEF Final
<1> QED
  BY <1>1, AlwaysInv, PTL DEF Spec, ResetIsFinal

=============================================================================
