------------------------------- MODULE Lemmas -------------------------------
(***************************************************************************)
(* What the list and set operators of the community modules return, in the *)
(* form that the proofs about the kernel's data structures need.           *)
(***************************************************************************)
EXTENDS Integers, Sequences, SequencesExt, SequenceTheorems,
        WellFoundedInduction, TLAPS

(* What InsertAt of the community modules returns, index by index. *)
LEMMA InsertAtProps ==
  ASSUME NEW S, NEW s \in Seq(S), NEW i \in 1 .. Len(s) + 1, NEW e \in S
  PROVE  /\ InsertAt(s, i, e) \in Seq(S)
         /\ Len(InsertAt(s, i, e)) = Len(s) + 1
         /\ \A k \in 1 .. i - 1 : InsertAt(s, i, e)[k] = s[k]
         /\ InsertAt(s, i, e)[i] = e
         /\ \A k \in i + 1 .. Len(s) + 1 : InsertAt(s, i, e)[k] = s[k - 1]
<1> DEFINE n == Len(s)
           p == SubSeq(s, 1, i - 1)
           q == SubSeq(s, i, n)
           a == p \o <<e>>
<1>0. n \in Nat /\ i \in 1 .. n + 1 /\ n = Len(s)
  OBVIOUS
<1>1. /\ p \in Seq(S)
      /\ Len(p) = i - 1
      /\ \A k \in 1 .. i - 1 : p[k] = s[k]
  OBVIOUS
<1>2. /\ q \in Seq(S)
      /\ Len(q) = n + 1 - i
      /\ \A k \in 1 .. n + 1 - i : q[k] = s[k + i - 1]
  OBVIOUS
<1>3. InsertAt(s, i, e) = a \o q
  BY DEF InsertAt
<1> HIDE DEF n, p, q
<1>4. /\ a \in Seq(S)
      /\ Len(a) = i
      /\ \A k \in 1 .. i : a[k] = IF k < i THEN s[k] ELSE e
  <2>1. a \in Seq(S) /\ Len(a) = i
    BY <1>0, <1>1
  <2>2. \A k \in 1 .. i - 1 : a[k] = s[k]
    BY <1>0, <1>1
  <2>3. a[i] = e
    BY <1>0, <1>1
  <2> QED
    BY <1>0, <2>1, <2>2, <2>3
<1> HIDE DEF a
<1>5. a \o q \in Seq(S)
  BY <1>2, <1>4
<1>6. Len(a \o q) = n + 1
  <2>1. a \in Seq(S) /\ q \in Seq(S)
    BY <1>2, <1>4
  <2>2. Len(a \o q) = Len(a) + Len(q)
    BY <2>1, ConcatProperties
  <2>3. Len(a) + Len(q) = n + 1
    BY <1>0, <1>2, <1>4
  <2> QED
    BY <2>2, <2>3
<1>7. ASSUME NEW k \in 1 .. i
      PROVE  (a \o q)[k] = IF k < i THEN s[k] ELSE e
  <2>1. (a \o q)[k] = a[k]
    BY <1>0, <1>2, <1>4
  <2> QED
    BY <1>0, <1>4, <2>1
<1>8. ASSUME NEW k \in i + 1 .. n + 1
      PROVE  (a \o q)[k] = s[k - 1]
  <2>1. k \in Len(a) + 1 .. Len(a) + Len(q) /\ k - i \in 1 .. n + 1 - i
    BY <1>0, <1>2, <1>4
  <2>2. (a \o q)[k] = q[k - Len(a)]
    BY <1>2, <1>4, <2>1
  <2>3. q[k - i] = s[(k - i) + i - 1] /\ (k - i) + i - 1 = k - 1
    BY <1>0, <1>2, <2>1
  <2> QED
    BY <1>4, <2>2, <2>3, Zenon
<1> QED
  BY <1>0, <1>3, <1>5, <1>6, <1>7, <1>8

(* What RemoveAt of the community modules returns, index by index. *)
LEMMA RemoveAtProps ==
  ASSUME NEW S, NEW s \in Seq(S), NEW i \in 1 .. Len(s)
  PROVE  /\ RemoveAt(s, i) \in Seq(S)
         /\ Len(RemoveAt(s, i)) = Len(s) - 1
         /\ \A k \in 1 .. Len(s) - 1 :
              RemoveAt(s, i)[k] = IF k < i THEN s[k] ELSE s[k + 1]
<1> DEFINE n == Len(s)
           p == SubSeq(s, 1, i - 1)
           q == SubSeq(s, i + 1, n)
<1>0. n \in Nat /\ i \in 1 .. n /\ n = Len(s)
  OBVIOUS
<1>1. /\ p \in Seq(S)
      /\ Len(p) = i - 1
      /\ \A k \in 1 .. i - 1 : p[k] = s[k]
  OBVIOUS
<1>2. /\ q \in Seq(S)
      /\ Len(q) = n - i
      /\ \A k \in 1 .. n - i : q[k] = s[k + i]
  OBVIOUS
<1>3. RemoveAt(s, i) = p \o q
  BY DEF RemoveAt
<1> HIDE DEF n, p, q
<1>4. p \o q \in Seq(S)
  BY <1>1, <1>2
<1>5. Len(p \o q) = n - 1
  BY <1>1, <1>2, <1>0
<1>6. ASSUME NEW k \in 1 .. n - 1
      PROVE (p \o q)[k] = IF k < i THEN s[k] ELSE s[k + 1]
  <2>1. CASE k < i
    <3>1. k \in 1 .. Len(p)
      BY <2>1, <1>1, <1>0
    <3>2. (p \o q)[k] = p[k]
      BY <3>1, <1>1, <1>2
    <3> QED
      BY <1>1, <1>0, <2>1, <3>2
  <2>2. CASE k >= i
     <3>0. k - (i - 1) \in 1 .. n - i
       BY <1>0, <2>2
    <3>1. k \in Len(p) + 1 .. Len(p) + Len(q)
      BY <2>2, <1>1, <1>2, <1>0
    <3>2. (p \o q)[k] = q[k - Len(p)]
      BY <3>1, <1>1, <1>2
    <3>3. (p \o q)[k] = q[k - (i - 1)]
      BY <3>2, <1>1, Zenon
    <3>4. q[k - (i - 1)] = s[(k - (i-1)) + i]
      BY <3>0, <1>2
    <3>5. (k - (i-1)) + i = k+1
      BY <1>0
    <3>6. (p \o q)[k] = s[k + 1]
      BY <3>3, <3>4, <3>5, Zenon
    <3> QED
      BY <3>6, <2>2, <1>0
  <2>3. k < i \/ k >= i
    BY <1>0
  <2> QED
    BY <2>1, <2>2, <2>3, Zenon
<1> QED
  BY <1>3, <1>4, <1>5, <1>6, <1>0

(* A nonempty set of numbers has a least element, and Min is that element. *)
LEMMA MinProps ==
  ASSUME NEW I \in SUBSET Nat, I # {}
  PROVE  Min(I) \in I /\ \A k \in I : Min(I) <= k
<1>1. PICK x \in I : \A y \in I : ~(<<y, x>> \in OpToRel(<, Nat))
  <2> I \subseteq Nat
    OBVIOUS
  <2> QED
    BY WFMin, NatLessThanWellFounded, Zenon
<1>2. ASSUME NEW y \in I
      PROVE  x <= y
  <2>1. <<y, x>> \in Nat \X Nat
    OBVIOUS
  <2>2. ~(y < x)
    BY <1>1, <2>1 DEF OpToRel
  <2> QED
    BY <2>2
<1> QED
  BY <1>2 DEF Min

-----------------------------------------------------------------------------
(* Replacing element i and putting a new element behind it. *)
Split(h, i, b, r) == InsertAt([h EXCEPT ![i] = b], i + 1, r)

LEMMA SplitProps ==
  ASSUME NEW S, NEW h \in Seq(S), NEW i \in 1 .. Len(h), NEW b \in S, NEW r \in S
  PROVE  /\ Split(h, i, b, r) \in Seq(S)
         /\ Len(Split(h, i, b, r)) = Len(h) + 1
         /\ \A k \in 1 .. i - 1 : Split(h, i, b, r)[k] = h[k]
         /\ Split(h, i, b, r)[i] = b
         /\ Split(h, i, b, r)[i + 1] = r
         /\ \A k \in i + 2 .. Len(h) + 1 : Split(h, i, b, r)[k] = h[k - 1]
<1> DEFINE g == [h EXCEPT ![i] = b]
           n == Len(h)
           P == Split(h, i, b, r)
<1>0. P = InsertAt(g, i + 1, r)
  BY DEF Split
<1> HIDE DEF P
<1>1. g \in Seq(S) /\ Len(g) = n
  BY ExceptSeq
<1>2. \A k \in 1 .. n : g[k] = IF k = i THEN b ELSE h[k]
  BY ExceptSeq
<1>3. n \in Nat /\ i \in 1 .. n /\ i + 1 \in 1 .. n + 1
  OBVIOUS
<1> HIDE DEF g, n
<1>4. i + 1 \in 1 .. Len(g) + 1
  BY <1>1, <1>3
<1>5. /\ P \in Seq(S)
      /\ Len(P) = n + 1
      /\ \A k \in 1 .. i : P[k] = g[k]
      /\ P[i + 1] = r
      /\ \A k \in i + 2 .. n + 1 : P[k] = g[k - 1]
  <2>1. /\ P \in Seq(S)
        /\ Len(P) = Len(g) + 1
        /\ \A k \in 1 .. (i + 1) - 1 : P[k] = g[k]
        /\ P[i + 1] = r
        /\ \A k \in (i + 1) + 1 .. Len(g) + 1 : P[k] = g[k - 1]
    <3> DEFINE j == i + 1
    <3>1. j \in 1 .. Len(g) + 1 /\ g \in Seq(S)
      BY <1>1, <1>4
    <3> HIDE DEF j
    <3>2. /\ InsertAt(g, j, r) \in Seq(S)
          /\ Len(InsertAt(g, j, r)) = Len(g) + 1
          /\ \A k \in 1 .. j - 1 : InsertAt(g, j, r)[k] = g[k]
          /\ InsertAt(g, j, r)[j] = r
          /\ \A k \in j + 1 .. Len(g) + 1 : InsertAt(g, j, r)[k] = g[k - 1]
      BY <3>1, InsertAtProps
    <3> QED
      BY <1>0, <3>2, Zenon DEF j
  <2>2. (i + 1) - 1 = i /\ (i + 1) + 1 = i + 2
    BY <1>3
  <2> QED
    BY <1>1, <2>1, <2>2, Zenon
<1>6. \A k \in 1 .. i - 1 : P[k] = h[k]
  BY <1>2, <1>3, <1>5
<1>7. P[i] = b
  BY <1>2, <1>3, <1>5
<1>8. P[i + 1] = r
  BY <1>3, <1>5
<1>9. \A k \in i + 2 .. n + 1 : P[k] = h[k - 1]
  BY <1>2, <1>3, <1>5
<1> QED
  BY <1>5, <1>6, <1>7, <1>8, <1>9 DEF n, P

(* Replacing element i and dropping the element behind it. *)
Join(h, i, b) == RemoveAt([h EXCEPT ![i] = b], i + 1)

(* What that returns, element by element. *)
IsJoin(S, h, i, b) ==
  /\ Join(h, i, b) \in Seq(S)
  /\ Len(Join(h, i, b)) = Len(h) - 1
  /\ \A k \in 1 .. i - 1 : Join(h, i, b)[k] = h[k]
  /\ Join(h, i, b)[i] = b
  /\ \A k \in i + 1 .. Len(h) - 1 : Join(h, i, b)[k] = h[k + 1]

LEMMA JoinProps ==
  ASSUME NEW S, NEW h \in Seq(S), NEW i \in 1 .. Len(h) - 1, NEW b \in S
  PROVE  IsJoin(S, h, i, b)
<1> DEFINE g == [h EXCEPT ![i] = b]
           n == Len(h)
           M == Join(h, i, b)
<1>0. M = RemoveAt(g, i + 1)
  BY DEF Join
<1> HIDE DEF M
<1>1. g \in Seq(S) /\ Len(g) = n
  BY ExceptSeq
<1>2. \A k \in 1 .. n : g[k] = IF k = i THEN b ELSE h[k]
  BY ExceptSeq
<1>3. n \in Nat /\ i \in 1 .. n - 1 /\ i + 1 \in 1 .. n
  OBVIOUS
<1> HIDE DEF g, n
<1>4. i + 1 \in 1 .. Len(g)
  BY <1>1, <1>3
<1>5. /\ M \in Seq(S)
      /\ Len(M) = n - 1
      /\ \A k \in 1 .. n - 1 : M[k] = IF k < i + 1 THEN g[k] ELSE g[k + 1]
  <2>1. /\ M \in Seq(S)
        /\ Len(M) = Len(g) - 1
        /\ \A k \in 1 .. Len(g) - 1 :
             M[k] = IF k < i + 1 THEN g[k] ELSE g[k + 1]
    BY <1>0, <1>1, <1>4, RemoveAtProps, Zenon
  <2> QED
    BY <1>1, <2>1, Zenon
<1>6. \A k \in 1 .. i - 1 : M[k] = h[k]
  BY <1>2, <1>3, <1>5
<1>7. M[i] = b
  BY <1>2, <1>3, <1>5
<1>8. \A k \in i + 1 .. n - 1 : M[k] = h[k + 1]
  BY <1>2, <1>3, <1>5
<1> QED
  BY <1>5, <1>6, <1>7, <1>8, Zenon DEF IsJoin, n, M
-----------------------------------------------------------------------------
(* Division rounds down, and multiples of a positive number keep an order. *)
LEMMA DivProps ==
  ASSUME NEW n \in Nat, NEW d \in Nat, d > 0
  PROVE  /\ n \div d \in Nat
         /\ (n \div d) * d <= n
         /\ n < (n \div d) * d + d
         /\ n % d \in Nat
         /\ n % d <= n
         /\ n % d < d
         /\ n < d => n % d = n
         /\ (n \div d) * d + (n % d) = n
<1>1. n \div d \in Nat /\ n % d \in Nat
  OBVIOUS
<1>2. (n \div d) * d + (n % d) = n
  OBVIOUS
<1>3. n % d < d
  OBVIOUS
<1>4. n < d => n % d = n
  OBVIOUS
<1>5. (n \div d) * d \in Nat
  BY <1>1
<1> QED
  BY <1>1, <1>2, <1>3, <1>4, <1>5

LEMMA MultiplesOrdered ==
  ASSUME NEW a \in Int, NEW b \in Int, NEW d \in Nat, d > 0
  PROVE  /\ a * d \in Int /\ b * d \in Int
         /\ a < b <=> a * d < b * d
         /\ a < b => a * d + d <= b * d
         /\ a <= b <=> a * d <= b * d
         /\ (a + 1) * d = a * d + d
         /\ (a + b) * d = a * d + b * d
<1>1. (a + 1) * d = a * d + d
  OBVIOUS
<1>2. a < b => a * d + d <= b * d
  OBVIOUS
<1>3. b < a => b * d + d <= a * d
  OBVIOUS
<1>4. (a + b) * d = a * d + b * d
  OBVIOUS
<1>5. a * d \in Int /\ b * d \in Int
  OBVIOUS
<1>6. a = b => a * d = b * d
  OBVIOUS
<1> QED
  BY <1>1, <1>2, <1>3, <1>4, <1>5, <1>6

LEMMA MultipleDivided ==
  ASSUME NEW a \in Nat, NEW d \in Nat, d > 0
  PROVE  (a * d) \div d = a
OBVIOUS
-----------------------------------------------------------------------------
(* Induction over the natural numbers, for a set instead of a predicate. *)
LEMMA SetInduction ==
  ASSUME NEW P, 0 \in P, \A k \in P \cap Nat : k + 1 \in P
  PROVE  Nat \subseteq P
<1>1. SUFFICES ASSUME Nat \ P # {}
               PROVE  FALSE
  OBVIOUS
<1> DEFINE m == Min(Nat \ P)
<1>2. m \in Nat \ P /\ \A k \in Nat \ P : m <= k
  BY <1>1, MinProps
<1> HIDE DEF m
<1>3. m # 0
  BY <1>2
<1>4. m - 1 \in Nat /\ m - 1 \notin Nat \ P
  BY <1>2, <1>3
<1>5. m - 1 + 1 \in P
  BY <1>4
<1> QED
  BY <1>2, <1>5

(* The greatest element of a set of numbers that has one. *)
LEMMA MaxIs ==
  ASSUME NEW I \in SUBSET Nat, NEW m \in I, \A k \in I : k <= m
  PROVE  Max(I) = m
<1>1. \A x \in I : (\A y \in I : x >= y) => x = m
  <2>1. TAKE x \in I
  <2>2. HAVE \A y \in I : x >= y
  <2>3. x \in Nat /\ m \in Nat /\ x >= m /\ x <= m
    BY <2>1, <2>2
  <2> QED
    BY <2>3
<1>2. \A y \in I : m >= y
  <2>1. TAKE y \in I
  <2> QED
    BY <2>1
<1> QED
  BY <1>1, <1>2, Zenon DEF Max

(* A nonempty set of indices has a greatest one, and Max is that index. *)
LEMMA MaxProps ==
  ASSUME NEW n \in Nat, NEW I \in SUBSET (1 .. n), I # {}
  PROVE  Max(I) \in I /\ \A i \in I : i <= Max(I)
<1> DEFINE J == {n - k : k \in I}
           m == n - Min(J)
<1>1. J \in SUBSET Nat /\ J # {}
  <2>1. \A k \in I : n - k \in Nat
    OBVIOUS
  <2> QED
    BY <2>1
<1>2. Min(J) \in J /\ \A j \in J : Min(J) <= j
  BY <1>1, MinProps
<1>3. PICK k \in I : Min(J) = n - k
  BY <1>2
<1>4. m \in I /\ \A i \in I : n - i >= Min(J)
  BY <1>2, <1>3
<1>5. \A i \in I : i <= m
  <2> HIDE DEF J
  <2>1. Min(J) \in Nat
    BY <1>1, <1>2
  <2>2. TAKE i \in I
  <2>3. n - i >= Min(J) /\ i \in Nat
    BY <1>4, <2>2
  <2> QED
    BY <2>1, <2>3
<1>6. I \in SUBSET Nat
  OBVIOUS
<1> HIDE DEF m
<1>7. Max(I) = m
  BY <1>4, <1>5, <1>6, MaxIs
<1> QED
  BY <1>4, <1>5, <1>7

(* FoldLeft of the community modules goes through the sets of indices; of  *)
(* these only the prefixes matter.                                         *)
LEMMA PrefixProps ==
  ASSUME NEW k \in Nat
  PROVE  /\ k = 0 => 1 .. k = {}
         /\ k > 0 => 1 .. k # {} /\ Max(1 .. k) = k /\ (1 .. k) \ {k} = 1 .. k - 1
<1>1. ASSUME k > 0
      PROVE  Max(1 .. k) = k
  <2>1. 1 .. k \in SUBSET Nat /\ k \in 1 .. k /\ \A j \in 1 .. k : j <= k
    BY <1>1
  <2> QED
    BY <2>1, MaxIs
<1> QED
  BY <1>1

(* g is the table of a fold over the sets of indices up to n. *)
FoldTable(g, n, base, step) ==
  \A s \in SUBSET (1 .. n) :
    g[s] = IF s = {} THEN base ELSE step[<<Max(s), g[s \ {Max(s)}]>>]

(* The recursion that defines FoldLeft has a solution. *)
LEMMA FoldTableExists ==
  ASSUME NEW V, NEW n \in Nat, NEW base \in V, NEW step \in [(1 .. n) \X V -> V]
  PROVE  \E g \in [SUBSET (1 .. n) -> V] : FoldTable(g, n, base, step)
<1> DEFINE Has(k) == \E g \in [SUBSET (1 .. k) -> V] : FoldTable(g, k, base, step)
           P == {k \in Nat : k <= n => Has(k)}
<1>1. Has(0)
  <2> DEFINE g == [s \in SUBSET (1 .. 0) |-> base]
  <2>1. \A s \in SUBSET (1 .. 0) : s = {}
    OBVIOUS
  <2>2. g \in [SUBSET (1 .. 0) -> V] /\ \A s \in SUBSET (1 .. 0) : g[s] = base
    OBVIOUS
  <2> HIDE DEF g
  <2>3. FoldTable(g, 0, base, step)
    BY <2>1, <2>2, Zenon DEF FoldTable
  <2> QED
    BY <2>2, <2>3
<1>2. ASSUME NEW k \in Nat, k + 1 <= n, Has(k)
      PROVE  Has(k + 1)
  <2>1. PICK g \in [SUBSET (1 .. k) -> V] : FoldTable(g, k, base, step)
    BY <1>2
  <2> DEFINE I == 1 .. k + 1
             h == [s \in SUBSET I |-> IF k + 1 \in s
                                      THEN step[<<k + 1, g[s \ {k + 1}]>>]
                                      ELSE g[s]]
  <2>2. \A s \in SUBSET I : s \ {k + 1} \in SUBSET (1 .. k)
    BY <1>2
  <2>3. \A s \in SUBSET (1 .. k) : s \in SUBSET I /\ k + 1 \notin s
    BY <1>2
  <2>4. \A s \in SUBSET I : k + 1 \notin s => s \in SUBSET (1 .. k)
    BY <1>2
  <2>5. \A s \in SUBSET I : k + 1 \in s => Max(s) = k + 1
    <3>1. TAKE s \in SUBSET I
    <3>2. HAVE k + 1 \in s
    <3>3. s \in SUBSET Nat /\ \A j \in s : j <= k + 1
      BY <3>1, <1>2
    <3> QED
      BY <3>2, <3>3, MaxIs
  <2>6. k + 1 \in 1 .. n
    BY <1>2
  <2>7. \A s \in SUBSET I : h[s] \in V
    <3>1. TAKE s \in SUBSET I
    <3>2. CASE k + 1 \in s
      <4>1. <<k + 1, g[s \ {k + 1}]>> \in (1 .. n) \X V
        BY <2>1, <2>2, <2>6
      <4> QED
        BY <3>2, <4>1
    <3>3. CASE k + 1 \notin s
      BY <2>1, <2>4, <3>3
    <3> QED
      BY <3>2, <3>3
  <2>8. h \in [SUBSET I -> V]
    BY <2>7
  <2>9. \A s \in SUBSET (1 .. k) : h[s] = g[s]
    BY <2>3
  <2>10. \A s \in SUBSET I : k + 1 \in s => h[s] = step[<<k + 1, g[s \ {k + 1}]>>]
    OBVIOUS
  <2> HIDE DEF h, I
  <2>11. FoldTable(h, k + 1, base, step)
    <3>1. SUFFICES ASSUME NEW s \in SUBSET I
                   PROVE  h[s] = IF s = {} THEN base
                                 ELSE step[<<Max(s), h[s \ {Max(s)}]>>]
      BY DEF FoldTable, I
    <3>2. CASE k + 1 \in s
      <4>1. s # {} /\ Max(s) = k + 1 /\ h[s \ {k + 1}] = g[s \ {k + 1}]
        BY <3>2, <2>2, <2>5, <2>9
      <4> QED
        BY <4>1, <3>2, <2>10
    <3>3. CASE k + 1 \notin s
      <4>1. s \in SUBSET (1 .. k)
        BY <3>3, <2>4
      <4>2. h[s] = IF s = {} THEN base ELSE step[<<Max(s), g[s \ {Max(s)}]>>]
        BY <4>1, <2>1, <2>9 DEF FoldTable
      <4>3. s \ {Max(s)} \in SUBSET (1 .. k)
        BY <4>1
      <4> QED
        BY <4>2, <4>3, <2>9
    <3> QED
      BY <3>2, <3>3
  <2> QED
    BY <2>8, <2>11 DEF I
<1> HIDE DEF Has
<1>3. 0 \in P
  BY <1>1
<1>4. \A k \in P \cap Nat : k + 1 \in P
  BY <1>2
<1>5. Nat \subseteq P
  <2> HIDE DEF P
  <2> QED
    BY <1>3, <1>4, SetInduction
<1>6. Has(n)
  BY <1>5
<1> QED
  BY <1>6 DEF Has

(* A fold goes through its indices in order: it is the last of the values  *)
(* of a run that takes one step for each.                                  *)
IsRun(r, n, base, step) ==
  r[0] = base /\ \A k \in 1 .. n : r[k] = step[<<k, r[k - 1]>>]

IsFold(h, V, n, base, step) ==
  /\ h[{}] = base
  /\ \A s \in SUBSET (1 .. n) : s # {} /\ h[s \ {Max(s)}] \in V =>
       h[s] = step[<<Max(s), h[s \ {Max(s)}]>>]

LEMMA FoldRun ==
  ASSUME NEW V, NEW n \in Nat, NEW base \in V, NEW step \in [(1 .. n) \X V -> V],
         NEW h, IsFold(h, V, n, base, step)
  PROVE  \E r \in [0 .. n -> V] : r[n] = h[1 .. n] /\ IsRun(r, n, base, step)
<1> DEFINE P == {k \in Nat : k <= n => h[1 .. k] \in V}
           r == [k \in 0 .. n |-> h[1 .. k]]
<1>1. h[1 .. 0] = base
  <2>1. 1 .. 0 = {}
    OBVIOUS
  <2> QED
    BY <2>1 DEF IsFold
<1>2. ASSUME NEW k \in Nat, k + 1 <= n, h[1 .. k] \in V
      PROVE  h[1 .. k + 1] = step[<<k + 1, h[1 .. k]>>] /\ h[1 .. k + 1] \in V
  <2>1. Max(1 .. k + 1) = k + 1 /\ (1 .. k + 1) \ {k + 1} = 1 .. k /\ 1 .. k + 1 # {}
    <3> DEFINE m == k + 1
    <3>1. m \in Nat /\ m > 0 /\ m - 1 = k
      OBVIOUS
    <3> HIDE DEF m
    <3>2. Max(1 .. m) = m /\ (1 .. m) \ {m} = 1 .. k /\ 1 .. m # {}
      BY <3>1, PrefixProps
    <3> QED
      BY <3>2 DEF m
  <2>2. 1 .. k + 1 \in SUBSET (1 .. n) /\ k + 1 \in 1 .. n
    BY <1>2
  <2>3. h[1 .. k + 1] = step[<<k + 1, h[1 .. k]>>]
    BY <1>2, <2>1, <2>2 DEF IsFold
  <2>4. <<k + 1, h[1 .. k]>> \in (1 .. n) \X V
    BY <1>2, <2>2
  <2> QED
    BY <2>3, <2>4
<1>3. 0 \in P
  BY <1>1
<1>4. \A k \in P \cap Nat : k + 1 \in P
  <2>1. SUFFICES ASSUME NEW k \in Nat, k <= n => h[1 .. k] \in V, k + 1 <= n
                 PROVE  h[1 .. k + 1] \in V
    OBVIOUS
  <2>2. k <= n
    BY <2>1
  <2> QED
    BY <1>2, <2>1, <2>2
<1>5. \A k \in 0 .. n : h[1 .. k] \in V
  <2>1. Nat \subseteq P
    <3> HIDE DEF P
    <3> QED
      BY <1>3, <1>4, SetInduction
  <2> QED
    BY <2>1
<1>6. r \in [0 .. n -> V] /\ r[0] = base /\ r[n] = h[1 .. n]
  BY <1>1, <1>5
<1>7. ASSUME NEW k \in 1 .. n
      PROVE  r[k] = step[<<k, r[k - 1]>>]
  <2>1. k - 1 \in 0 .. n /\ k - 1 \in Nat /\ (k - 1) + 1 = k /\ k \in 0 .. n /\ k <= n
    OBVIOUS
  <2>2. h[1 .. k - 1] \in V
    BY <1>5, <2>1
  <2>3. h[1 .. (k - 1) + 1] = step[<<(k - 1) + 1, h[1 .. k - 1]>>]
    BY <1>2, <2>1, <2>2
  <2> QED
    BY <2>1, <2>3
<1> QED
  BY <1>6, <1>7 DEF IsRun

(* Two runs that agree in every step agree at the end. *)
Agreeing(n, r, q) ==
  r[0] = q[0] /\ \A k \in 1 .. n : r[k - 1] = q[k - 1] => r[k] = q[k]

LEMMA RunsAgree ==
  ASSUME NEW n \in Nat, NEW r, NEW q, Agreeing(n, r, q)
  PROVE  \A k \in 0 .. n : r[k] = q[k]
<1> DEFINE P == {k \in Nat : k <= n => r[k] = q[k]}
<1>1. 0 \in P
  BY DEF Agreeing
<1>2. \A k \in P \cap Nat : k + 1 \in P
  <2>1. ASSUME NEW k \in Nat, k + 1 <= n, r[k] = q[k]
        PROVE  r[k + 1] = q[k + 1]
    <3>1. k + 1 \in 1 .. n /\ (k + 1) - 1 = k
      BY <2>1
    <3> QED
      BY <2>1, <3>1 DEF Agreeing
  <2> QED
    BY <2>1
<1>3. Nat \subseteq P
  <2> HIDE DEF P
  <2> QED
    BY <1>1, <1>2, SetInduction
<1> QED
  BY <1>3
(* Induction over the sets of a range, by their greatest elements. *)
LEMMA MaxInduction ==
  ASSUME NEW n \in Nat, NEW S \in SUBSET (1 .. n), NEW P, {} \in P,
         \A s \in SUBSET S : s # {} /\ s \ {Max(s)} \in P => s \in P
  PROVE  SUBSET S \subseteq P
<1> DEFINE Upto(k) == {s \in SUBSET S : \A x \in s : x <= k}
           Q == {k \in Nat : Upto(k) \subseteq P}
<1>1. 0 \in Q
  <2>1. \A s \in Upto(0) : s = {}
    OBVIOUS
  <2> QED
    BY <2>1
<1>2. \A k \in Q \cap Nat : k + 1 \in Q
  <2>1. SUFFICES ASSUME NEW k \in Nat, Upto(k) \subseteq P
                 PROVE  Upto(k + 1) \subseteq P
    OBVIOUS
  <2>2. ASSUME NEW s \in Upto(k + 1), s # {}
        PROVE  s \in P
    <3> DEFINE m == Max(s)
    <3>1. s \in SUBSET (1 .. n) /\ s \in SUBSET S /\ \A x \in s : x <= k + 1
      BY <2>2
    <3>2. m \in s /\ \A x \in s : x <= m
      <4> HIDE DEF Upto
      <4> QED
        BY <2>2, <3>1, MaxProps
    <3> HIDE DEF m
    <3>3. \A x \in s \ {m} : x <= k
      <4>1. TAKE x \in s \ {m}
      <4>2. m \in 1 .. n /\ x \in 1 .. n /\ x # m /\ x <= m /\ m <= k + 1
        BY <3>1, <3>2
      <4> QED
        BY <4>2
    <3>4. s \ {m} \in Upto(k)
      BY <3>1, <3>3
    <3> QED
      BY <2>1, <2>2, <3>1, <3>4 DEF m
  <2>3. \A s \in Upto(k + 1) : s \in P
    BY <2>2
  <2> QED
    BY <2>3
<1>3. n \in Q
  <2> HIDE DEF Q
  <2> QED
    BY <1>1, <1>2, SetInduction
<1>4. \A s \in SUBSET S : s \in Upto(n)
  OBVIOUS
<1> QED
  BY <1>3, <1>4
=============================================================================
