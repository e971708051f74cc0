---------------------------- MODULE DevicesProof ----------------------------
(***************************************************************************)
(* Proofs about two of the emulator's devices: the keyboard and mouse      *)
(* controller with its host adapters (Input.tla), for every size of the    *)
(* queues, every set of keys and every number of steps; and the timer with *)
(* the loop that serves it (Clock.tla), for every size of the timer's      *)
(* bytes, every delay and every number of calls and interrupts.            *)
(***************************************************************************)
EXTENDS Input, Clock, Lemmas, FiniteSetTheorems

(* Queues; what the codes are does not matter for the announcements.       *)
Queues == [cells : [1 .. Size -> Int], at : 0 .. Size - 1, length : 0 .. Size]

Flags == {"command_register", "output_register", "sample", "resolution", "led",
          "scan_code_set", "rate", "mouse", "output_port"}

Controllers ==
  [kbd : Queues, mouse : Queues, ready : BOOLEAN, aux : BOOLEAN, stream : BOOLEAN,
   use_mouse : BOOLEAN, mouse_stream : BOOLEAN, mouse_id : Int, detect : -1 .. 3,
   workaround : BOOLEAN, expect : SUBSET Flags, command_register : SUBSET {1, 2},
   line : SUBSET {1, 12}, pending : SUBSET {1, 12}, enabled : BOOLEAN]

Chosen(p) == IF p.aux THEN p.mouse ELSE p.kbd

(* The part of ByteReady that speaks of the controller. *)
Announced(p) ==
  /\ p.ready <=> (p.kbd.length > 0 \/ p.mouse.length > 0)
  /\ p.ready => Chosen(p).length > 0

(* A controller that is between two handlers, and one within a handler     *)
(* that is about to announce a byte of the keyboard or of the mouse.       *)
Sane == {p \in Controllers : p.pending \subseteq p.line}
Good == {p \in Sane : Announced(p)}

LEMMA SizeOk == Size \in Nat /\ Size > 2
BY Ps2Assumption

-----------------------------------------------------------------------------
(* Queues *)

(* Steps around the ring. *)
LEMMA RingSteps ==
  ASSUME NEW d \in Nat, d > 0, NEW x \in 0 .. d - 1
  PROVE  /\ (x + 1) % d = IF x = d - 1 THEN 0 ELSE x + 1
         /\ (x - 1) % d = IF x = 0 THEN d - 1 ELSE x - 1
         /\ d % d = 0
         /\ x % d = x
<1>1. \A y \in 0 .. d - 1 : y % d = y
  OBVIOUS
<1>2. d % d = 0 /\ (-1) % d = d - 1
  OBVIOUS
<1>3. CASE x = d - 1
  BY <1>1, <1>2, <1>3
<1>4. CASE x = 0
  BY <1>1, <1>2, <1>4
<1> QED
  BY <1>1, <1>2, <1>3, <1>4

LEMMA EmptyQueue == Empty \in Queues /\ Empty.length = 0 /\ Empty.at = 0
BY SizeOk DEF Empty, Queues

LEMMA PushQueue ==
  ASSUME NEW q \in Queues, NEW b \in Int
  PROVE  /\ push(q, b) \in Queues
         /\ push(q, b).length = IF q.length = Size THEN Size ELSE q.length + 1
         /\ push(q, b).length > 0
         /\ push(q, b).cells = [q.cells EXCEPT ![q.at + 1] = b]
         /\ push(q, b).at = IF q.at = Size - 1 THEN 0 ELSE q.at + 1
<1>0. q.at \in 0 .. Size - 1
  BY DEF Queues
<1>1. (q.at + 1) % Size = IF q.at = Size - 1 THEN 0 ELSE q.at + 1
  BY <1>0, SizeOk, RingSteps
<1>2. q.at + 1 \in 1 .. Size
  BY SizeOk DEF Queues
<1>3. [q.cells EXCEPT ![q.at + 1] = b] \in [1 .. Size -> Int]
  BY <1>2 DEF Queues
<1> QED
  BY <1>1, <1>2, <1>3, SizeOk, SMTT(20) DEF push, Queues

(* A queue, rotated by one place. *)
LEMMA Rotated ==
  ASSUME NEW c \in [1 .. Size -> Int]
  PROVE  /\ Append(Tail(c), Head(c)) \in [1 .. Size -> Int]
         /\ \A i \in 1 .. Size - 1 : Append(Tail(c), Head(c))[i] = c[i + 1]
<1>1. c \in Seq(Int) /\ Len(c) = Size /\ c # << >>
  BY SizeOk
<1>2. /\ Tail(c) \in Seq(Int) /\ Len(Tail(c)) = Size - 1 /\ Head(c) \in Int
      /\ \A i \in 1 .. Size - 1 : Tail(c)[i] = c[i + 1]
  BY <1>1, SizeOk
<1> DEFINE t == Tail(c)
<1> HIDE DEF t
<1>3. t \in Seq(Int) /\ Len(t) = Size - 1
  BY <1>2 DEF t
<1>4. /\ Append(t, Head(c)) \in Seq(Int) /\ Len(Append(t, Head(c))) = Size
      /\ \A i \in 1 .. Size - 1 : Append(t, Head(c))[i] = t[i]
  BY <1>2, <1>3, SizeOk
<1>5. Append(t, Head(c)) \in [1 .. Size -> Int]
  BY <1>4, LenProperties
<1> QED
  BY <1>2, <1>4, <1>5 DEF t

LEMMA CleanQueue ==
  ASSUME NEW q \in Queues
  PROVE  /\ Clean(q) \in Queues
         /\ Clean(q).length = q.length /\ Clean(q).at = q.at
         /\ \A i \in 1 .. q.length : Clean(q).cells[i] = q.cells[i]
<1>1. [i \in 1 .. Size |-> IF i <= q.length THEN q.cells[i] ELSE 0] \in [1 .. Size -> Int]
  BY SizeOk DEF Queues
<1> QED
  BY <1>1, SizeOk DEF Clean, Queues

LEMMA ShiftQueue ==
  ASSUME NEW q \in Queues
  PROVE  /\ shift(q) \in Queues
         /\ q.length = 0 => shift(q) = q
         /\ q.length > 0 =>
              /\ shift(q).length = q.length - 1
              /\ shift(q).at = IF q.at = 0 THEN Size - 1 ELSE q.at - 1
              /\ \A i \in 1 .. q.length - 1 : shift(q).cells[i] = q.cells[i + 1]
<1>1. CASE q.length = 0
  BY <1>1 DEF shift
<1>2. CASE q.length # 0
  <2> DEFINE c == Append(Tail(q.cells), Head(q.cells))
             u == [cells |-> c, at |-> (q.at - 1) % Size, length |-> q.length - 1]
  <2>0. q.at \in 0 .. Size - 1
    BY DEF Queues
  <2>1. (q.at - 1) % Size = IF q.at = 0 THEN Size - 1 ELSE q.at - 1
    BY <2>0, SizeOk, RingSteps
  <2>2. c \in [1 .. Size -> Int] /\ \A i \in 1 .. Size - 1 : c[i] = q.cells[i + 1]
    BY Rotated DEF Queues
  <2> HIDE DEF c
  <2>3. u \in Queues
    <3>1. q.length \in 0 .. Size
      BY DEF Queues
    <3>2. q.length - 1 \in 0 .. Size
      BY <1>2, <3>1, SizeOk
    <3>3. (q.at - 1) % Size \in 0 .. Size - 1
      <4> DEFINE next == (q.at - 1) % Size
                 at == q.at
      <4>1. at \in 0 .. Size - 1 /\ next = IF at = 0 THEN Size - 1 ELSE at - 1
        BY <2>0, <2>1
      <4> HIDE DEF next, at
      <4>2. next \in 0 .. Size - 1
        BY <4>1, SizeOk
      <4> QED
        BY <4>2 DEF next
    <3> QED
      BY <2>2, <3>2, <3>3 DEF Queues
  <2>4. shift(q) = Clean(u)
    BY <1>2 DEF shift, c
  <2>5. q.length \in 1 .. Size /\ u.length = q.length - 1
    BY <1>2, SizeOk DEF Queues
  <2>6. \A i \in 1 .. q.length - 1 : u.cells[i] = q.cells[i + 1]
    BY <2>2, <2>5, SizeOk
  <2> HIDE DEF u
  <2>7. u.at = IF q.at = 0 THEN Size - 1 ELSE q.at - 1
    BY <2>1 DEF u
  <2> QED
    BY <1>2, <2>3, <2>4, <2>5, <2>6, <2>7, CleanQueue
<1> QED
  BY <1>1, <1>2 DEF Queues

(* Pushing the bytes of a list is a run of single pushes. *)
LEMMA PushRun ==
  ASSUME NEW q \in Queues, NEW bytes \in Seq(Int)
  PROVE  \E r \in [0 .. Len(bytes) -> Queues] :
           /\ r[0] = q /\ r[Len(bytes)] = Pushes(q, bytes)
           /\ \A k \in 1 .. Len(bytes) : r[k] = push(r[k - 1], bytes[k])
<1> DEFINE n == Len(bytes)
           step == [p \in (1 .. n) \X Queues |-> push(p[2], bytes[p[1]])]
           F(h) == [i \in SUBSET DOMAIN bytes |->
                      IF i = {} THEN q ELSE push(h[i \ {Max(i)}], bytes[Max(i)])]
           iter == CHOOSE h : h = F(h)
<1>1. n \in Nat /\ DOMAIN bytes = 1 .. n /\ \A k \in 1 .. n : bytes[k] \in Int
  OBVIOUS
<1> HIDE DEF n
<1>2. step \in [(1 .. n) \X Queues -> Queues]
  <2>1. \A p \in (1 .. n) \X Queues : push(p[2], bytes[p[1]]) \in Queues
    BY <1>1, PushQueue
  <2> QED
    BY <2>1
<1>3. PICK g \in [SUBSET (1 .. n) -> Queues] : FoldTable(g, n, q, step)
  BY <1>1, <1>2, FoldTableExists
<1>4. g = F(g)
  <2>1. ASSUME NEW i \in SUBSET (1 .. n), i # {}
        PROVE  g[i] = push(g[i \ {Max(i)}], bytes[Max(i)])
    <3>1. Max(i) \in 1 .. n
      BY <1>1, <2>1, MaxProps
    <3>2. g[i \ {Max(i)}] \in Queues
      BY <1>3
    <3>3. g[i] = step[<<Max(i), g[i \ {Max(i)}]>>]
      BY <1>3, <2>1 DEF FoldTable
    <3> QED
      BY <3>1, <3>2, <3>3
  <2>2. g[{}] = q
    BY <1>3 DEF FoldTable
  <2>3. \A i \in SUBSET (1 .. n) : g[i] = F(g)[i]
    BY <1>1, <2>1, <2>2
  <2> HIDE DEF step
  <2> QED
    BY <1>1, <1>3, <2>3
<1>5. iter = F(iter)
  <2> HIDE DEF F
  <2> QED
    BY <1>4
<1>6. Pushes(q, bytes) = iter[1 .. n]
  BY <1>1 DEF Pushes, FoldLeft, MapThenFoldSet
<1> HIDE DEF iter
<1>7. iter[{}] = q
  BY <1>1, <1>5
<1>8. \A i \in SUBSET (1 .. n) : i # {} /\ iter[i \ {Max(i)}] \in Queues =>
        iter[i] = step[<<Max(i), iter[i \ {Max(i)}]>>]
  <2>1. SUFFICES ASSUME NEW i \in SUBSET (1 .. n), i # {}, iter[i \ {Max(i)}] \in Queues
                 PROVE  iter[i] = step[<<Max(i), iter[i \ {Max(i)}]>>]
    OBVIOUS
  <2>2. Max(i) \in 1 .. n
    BY <1>1, <2>1, MaxProps
  <2>3. iter[i] = push(iter[i \ {Max(i)}], bytes[Max(i)])
    BY <1>1, <1>5, <2>1
  <2> QED
    BY <2>1, <2>2, <2>3
<1>9. PICK r \in [0 .. n -> Queues] : r[n] = iter[1 .. n] /\ IsRun(r, n, q, step)
  <2>1. IsFold(iter, Queues, n, q, step)
    BY <1>7, <1>8 DEF IsFold
  <2> HIDE DEF step
  <2> QED
    BY <1>1, <1>2, <2>1, FoldRun
<1>10. \A k \in 1 .. n : r[k] = push(r[k - 1], bytes[k])
  <2>1. TAKE k \in 1 .. n
  <2>2. k - 1 \in 0 .. n
    BY <1>1
  <2>3. r[k - 1] \in Queues /\ r[k] = step[<<k, r[k - 1]>>]
    BY <1>9, <2>2 DEF IsRun
  <2> QED
    BY <2>3
<1> QED
  BY <1>6, <1>9, <1>10 DEF n, IsRun

LEMMA PushesQueue ==
  ASSUME NEW q \in Queues, NEW bytes \in Seq(Int)
  PROVE  /\ Pushes(q, bytes) \in Queues
         /\ bytes # << >> => Pushes(q, bytes).length > 0
<1> DEFINE n == Len(bytes)
<1>1. PICK r \in [0 .. n -> Queues] :
        /\ r[0] = q /\ r[n] = Pushes(q, bytes)
        /\ \A k \in 1 .. n : r[k] = push(r[k - 1], bytes[k])
  BY PushRun
<1>2. n \in Nat /\ (bytes # << >> => n > 0) /\ \A k \in 1 .. n : bytes[k] \in Int
  OBVIOUS
<1> HIDE DEF n
<1>3. Pushes(q, bytes) \in Queues
  BY <1>1, <1>2
<1>4. ASSUME n > 0
      PROVE  Pushes(q, bytes).length > 0
  <2>1. n \in 1 .. n /\ n - 1 \in 0 .. n
    BY <1>2, <1>4
  <2>2. r[n] = push(r[n - 1], bytes[n]) /\ r[n - 1] \in Queues /\ bytes[n] \in Int
    BY <1>1, <1>2, <2>1
  <2>3. push(r[n - 1], bytes[n]).length > 0
    BY <2>2, PushQueue
  <2> QED
    BY <1>1, <2>2, <2>3
<1> QED
  BY <1>2, <1>3, <1>4

-----------------------------------------------------------------------------
(* Announcements *)

LEMMA Lines ==
  ASSUME NEW p \in Sane, NEW i \in {1, 12}
  PROVE  /\ device_lower_irq(p, i) \in Sane
         /\ device_raise_irq(p, i) \in Sane
         /\ \A q \in {device_lower_irq(p, i), device_raise_irq(p, i)} :
              /\ q.kbd = p.kbd /\ q.mouse = p.mouse /\ q.stream = p.stream
              /\ q.ready = p.ready /\ q.aux = p.aux
BY ZenonT(90) DEF device_lower_irq, device_raise_irq, Sane, Controllers

LEMMA PulseSane ==
  ASSUME NEW p \in Sane, NEW i \in {1, 12}, NEW bit
  PROVE  /\ Pulse(p, i, bit) \in Sane
         /\ Pulse(p, i, bit).kbd = p.kbd /\ Pulse(p, i, bit).mouse = p.mouse
         /\ Pulse(p, i, bit).stream = p.stream
         /\ Pulse(p, i, bit).ready = p.ready /\ Pulse(p, i, bit).aux = p.aux
BY Lines DEF Pulse

LEMMA MouseIrq ==
  ASSUME NEW p \in Sane, p.mouse.length > 0
  PROVE  /\ mouse_irq(p) \in Good
         /\ mouse_irq(p).kbd = p.kbd /\ mouse_irq(p).stream = p.stream
<1> DEFINE u == [p EXCEPT !.aux = TRUE, !.ready = TRUE]
<1>1. u \in Sane /\ u.aux = TRUE /\ u.ready = TRUE /\ u.kbd = p.kbd /\ u.mouse = p.mouse
      /\ u.stream = p.stream
  BY DEF Sane, Controllers
<1>2. mouse_irq(p) = Pulse(u, 12, 2)
  BY DEF mouse_irq
<1> HIDE DEF u
<1>3. /\ mouse_irq(p) \in Sane
      /\ mouse_irq(p).kbd = p.kbd /\ mouse_irq(p).mouse = p.mouse /\ mouse_irq(p).stream = p.stream
      /\ mouse_irq(p).ready = TRUE /\ mouse_irq(p).aux = TRUE
  BY <1>1, <1>2, PulseSane
<1> QED
  BY <1>3 DEF Good, Announced, Chosen

LEMMA KbdIrq ==
  ASSUME NEW p \in Sane, p.kbd.length > 0
  PROVE  /\ kbd_irq(p) \in Good
         /\ kbd_irq(p).kbd = p.kbd /\ kbd_irq(p).stream = p.stream
<1> DEFINE u == [p EXCEPT !.aux = FALSE, !.ready = TRUE]
<1>1. u \in Sane /\ u.aux = FALSE /\ u.ready = TRUE /\ u.kbd = p.kbd /\ u.mouse = p.mouse
      /\ u.stream = p.stream
  BY DEF Sane, Controllers
<1>2. kbd_irq(p) = Pulse(u, 1, 1)
  BY DEF kbd_irq
<1> HIDE DEF u
<1>3. /\ kbd_irq(p) \in Sane
      /\ kbd_irq(p).kbd = p.kbd /\ kbd_irq(p).mouse = p.mouse /\ kbd_irq(p).stream = p.stream
      /\ kbd_irq(p).ready = TRUE /\ kbd_irq(p).aux = FALSE
  BY <1>1, <1>2, PulseSane
<1> QED
  BY <1>3 DEF Good, Announced, Chosen

(* What was announced stays so; nothing is left unannounced. *)
LEMMA RaiseIrq ==
  ASSUME NEW p \in Sane, p.ready => Chosen(p).length > 0
  PROVE  /\ raise_irq(p) \in Good
         /\ raise_irq(p).kbd = p.kbd /\ raise_irq(p).stream = p.stream
<1>0. /\ p.kbd.length \in Nat /\ p.mouse.length \in Nat /\ p.ready \in BOOLEAN
  BY SizeOk DEF Sane, Controllers, Queues
<1>1. CASE p.ready
  <2>1. raise_irq(p) = p
    BY <1>1 DEF raise_irq
  <2> QED
    BY <1>1, <2>1 DEF Good, Announced, Chosen
<1>2. CASE ~p.ready /\ p.kbd.length > 0
  <2>1. raise_irq(p) = kbd_irq(p)
    BY <1>2 DEF raise_irq
  <2> QED
    BY <1>2, <2>1, KbdIrq
<1>3. CASE ~p.ready /\ p.kbd.length = 0 /\ p.mouse.length > 0
  <2>1. raise_irq(p) = mouse_irq(p)
    BY <1>3 DEF raise_irq
  <2> QED
    BY <1>3, <2>1, MouseIrq
<1>4. CASE ~p.ready /\ p.kbd.length = 0 /\ p.mouse.length = 0
  <2>1. raise_irq(p) = p
    BY <1>4 DEF raise_irq
  <2> QED
    BY <1>0, <1>4, <2>1 DEF Good, Announced, Chosen
<1> QED
  BY <1>0, <1>1, <1>2, <1>3, <1>4

LEMMA ReadGood ==
  ASSUME NEW p \in Good
  PROVE  /\ port60_read(p) \in Good
         /\ port60_read(p).kbd = IF p.aux /\ p.mouse.length > 0 THEN p.kbd ELSE shift(p.kbd)
         /\ port60_read(p).stream = p.stream
<1>0. /\ p \in Sane /\ p.kbd \in Queues /\ p.mouse \in Queues
      /\ p.kbd.length \in Nat /\ p.mouse.length \in Nat
  BY SizeOk DEF Good, Sane, Controllers, Queues
<1>1. CASE p.kbd.length = 0 /\ p.mouse.length = 0
  <2>1. port60_read(p) = [p EXCEPT !.ready = FALSE] /\ shift(p.kbd) = p.kbd
    BY <1>0, <1>1, ShiftQueue DEF port60_read
  <2>2. p.ready = FALSE
    BY <1>0, <1>1 DEF Good, Announced, Sane, Controllers
  <2>3. port60_read(p) = p
    BY <1>0, <2>1, <2>2 DEF Sane, Controllers
  <2> QED
    BY <1>1, <2>1, <2>3
<1>2. CASE ~(p.kbd.length = 0 /\ p.mouse.length = 0)
  <2>0. p.ready /\ Chosen(p).length > 0
    BY <1>0, <1>2 DEF Good, Announced
  <2>1. CASE p.aux
    <3> DEFINE u == [p EXCEPT !.ready = FALSE, !.mouse = shift(@)]
               d == device_lower_irq(u, 12)
    <3>1. u \in Sane /\ u.kbd = p.kbd /\ u.stream = p.stream /\ u.ready = FALSE
      BY <1>0, ShiftQueue DEF Sane, Controllers
    <3>2. port60_read(p) = raise_irq(d)
      BY <1>2, <2>1 DEF port60_read
    <3> HIDE DEF u
    <3>3. d \in Sane /\ d.kbd = p.kbd /\ d.stream = p.stream /\ d.ready = FALSE
      BY <3>1, Lines
    <3> HIDE DEF d
    <3> QED
      BY <2>0, <2>1, <3>2, <3>3, RaiseIrq DEF Chosen
  <2>2. CASE ~p.aux
    <3> DEFINE u == [p EXCEPT !.ready = FALSE, !.kbd = shift(@)]
               d == device_lower_irq(u, 1)
    <3>1. u \in Sane /\ u.kbd = shift(p.kbd) /\ u.stream = p.stream /\ u.ready = FALSE
      BY <1>0, ShiftQueue DEF Sane, Controllers
    <3>2. port60_read(p) = raise_irq(d)
      BY <1>2, <2>2 DEF port60_read
    <3> HIDE DEF u
    <3>3. d \in Sane /\ d.kbd = shift(p.kbd) /\ d.stream = p.stream /\ d.ready = FALSE
      BY <3>1, Lines
    <3> HIDE DEF d
    <3> QED
      BY <2>2, <3>2, <3>3, RaiseIrq
  <2> QED
    BY <2>1, <2>2
<1> QED
  BY <1>1, <1>2
(* None of the three touches the queues. *)
LEMMA IrqSane ==
  ASSUME NEW p \in Sane
  PROVE  \A q \in {mouse_irq(p), kbd_irq(p), raise_irq(p)} :
           q \in Sane /\ q.kbd = p.kbd /\ q.mouse = p.mouse /\ q.stream = p.stream
<1> DEFINE m == [p EXCEPT !.aux = TRUE, !.ready = TRUE]
           k == [p EXCEPT !.aux = FALSE, !.ready = TRUE]
<1>1. \A q \in {m, k} : q \in Sane /\ q.kbd = p.kbd /\ q.mouse = p.mouse /\ q.stream = p.stream
  BY DEF Sane, Controllers
<1>2. mouse_irq(p) = Pulse(m, 12, 2) /\ kbd_irq(p) = Pulse(k, 1, 1)
  BY DEF mouse_irq, kbd_irq
<1>3. p.ready \in BOOLEAN
  BY DEF Sane, Controllers
<1>4. raise_irq(p) \in {p, kbd_irq(p), mouse_irq(p)}
  BY <1>3 DEF raise_irq
<1> HIDE DEF m, k
<1>5. \A q \in {mouse_irq(p), kbd_irq(p)} :
        q \in Sane /\ q.kbd = p.kbd /\ q.mouse = p.mouse /\ q.stream = p.stream
  BY <1>1, <1>2, PulseSane
<1> QED
  BY <1>4, <1>5

-----------------------------------------------------------------------------
(* What a command leaves in the keyboard's queue: nothing of what was      *)
(* there or all of it, and up to three answers.                            *)
Answers == {b \in Int : b >= 256}
One(q) == {push(q, b) : b \in Answers}
Two(q) == UNION {One(r) : r \in One(q)}
Three(q) == UNION {One(r) : r \in Two(q)}
Answered(q) == {q, Empty} \cup One(q) \cup Two(q) \cup One(Empty) \cup Two(Empty) \cup Three(Empty)

LEMMA PushesOne ==
  ASSUME NEW q \in Queues, NEW b \in Int
  PROVE  Pushes(q, <<b>>) = push(q, b)
<1> DEFINE s == <<b>>
<1>1. s \in Seq(Int) /\ Len(s) = 1 /\ s[1] = b
  OBVIOUS
<1> HIDE DEF s
<1>2. PICK r \in [0 .. Len(s) -> Queues] :
        /\ r[0] = q /\ r[Len(s)] = Pushes(q, s)
        /\ \A k \in 1 .. Len(s) : r[k] = push(r[k - 1], s[k])
  BY <1>1, PushRun
<1>3. r[1] = push(r[1 - 1], s[1]) /\ 1 - 1 = 0
  BY <1>1, <1>2
<1> QED
  BY <1>1, <1>2, <1>3 DEF s

LEMMA PushesTwo ==
  ASSUME NEW q \in Queues, NEW b \in Int, NEW c \in Int
  PROVE  Pushes(q, <<b, c>>) = push(push(q, b), c)
<1> DEFINE s == <<b, c>>
<1>1. s \in Seq(Int) /\ Len(s) = 2 /\ s[1] = b /\ s[2] = c
  OBVIOUS
<1> HIDE DEF s
<1>2. PICK r \in [0 .. Len(s) -> Queues] :
        /\ r[0] = q /\ r[Len(s)] = Pushes(q, s)
        /\ \A k \in 1 .. Len(s) : r[k] = push(r[k - 1], s[k])
  BY <1>1, PushRun
<1>3. r[1] = push(r[0], s[1]) /\ r[2] = push(r[1], s[2])
  <2>1. 1 - 1 = 0 /\ 2 - 1 = 1 /\ 1 \in 1 .. Len(s) /\ 2 \in 1 .. Len(s)
    BY <1>1
  <2>2. r[1] = push(r[1 - 1], s[1]) /\ r[2] = push(r[2 - 1], s[2])
    BY <1>2, <2>1
  <2> QED
    BY <2>1, <2>2
<1> QED
  BY <1>1, <1>2, <1>3 DEF s

LEMMA AnswerInt == \A b \in Nat : Answer(b) \in Answers /\ Answer(b) \in Int
BY DEF Answer, Answers

LEMMA AnsweredQueue ==
  ASSUME NEW q \in Queues
  PROVE  /\ One(q) \subseteq Queues /\ Two(q) \subseteq Queues /\ Three(q) \subseteq Queues
         /\ Answered(q) \subseteq Queues
         /\ \A b \in Nat : push(q, Answer(b)) \in One(q)
<1>0. Answers \subseteq Int
  BY DEF Answers
<1>1. \A r \in Queues : One(r) \subseteq Queues
  <2>1. \A r \in Queues, b \in Answers : push(r, b) \in Queues
    BY <1>0, PushQueue
  <2> QED
    BY <2>1 DEF One
<1>2. \A r \in Queues : Two(r) \subseteq Queues
  BY <1>1 DEF Two
<1>3. \A r \in Queues : Three(r) \subseteq Queues
  BY <1>1, <1>2 DEF Three
<1>4. \A b \in Nat : push(q, Answer(b)) \in One(q)
  BY AnswerInt DEF One
<1> QED
  BY <1>1, <1>2, <1>3, <1>4, EmptyQueue DEF Answered

-----------------------------------------------------------------------------
(* Commands *)

(* What a handler of the ports makes of the controller. *)
Handled(p, q) == q \in Good /\ q.kbd \in Answered(p.kbd)

LEMMA SaneFields ==
  ASSUME NEW p \in Sane
  PROVE  /\ p \in Controllers /\ p.kbd \in Queues /\ p.mouse \in Queues
         /\ p.mouse_id \in Int /\ p.detect \in -1 .. 3 /\ p.expect \in SUBSET Flags
         /\ p.stream \in BOOLEAN /\ p.workaround \in BOOLEAN
         /\ p.kbd \in Answered(p.kbd) /\ Empty \in Answered(p.kbd)
BY DEF Sane, Controllers, Answered

LEMMA SameMouse ==
  ASSUME NEW p \in Sane, NEW q \in Queues
  PROVE  /\ [p EXCEPT !.mouse = q] \in Sane
         /\ [p EXCEPT !.mouse = q].kbd = p.kbd /\ [p EXCEPT !.mouse = q].mouse = q
         /\ [p EXCEPT !.mouse = q].stream = p.stream
         /\ [p EXCEPT !.mouse = q].aux = p.aux /\ [p EXCEPT !.mouse = q].ready = p.ready
         /\ [p EXCEPT !.mouse = q].mouse_id = p.mouse_id
         /\ [p EXCEPT !.mouse = q].detect = p.detect
BY DEF Sane, Controllers

LEMMA SameKbd ==
  ASSUME NEW p \in Sane, NEW q \in Queues
  PROVE  /\ [p EXCEPT !.kbd = q] \in Sane
         /\ [p EXCEPT !.kbd = q].kbd = q /\ [p EXCEPT !.kbd = q].mouse = p.mouse
         /\ [p EXCEPT !.kbd = q].stream = p.stream
         /\ [p EXCEPT !.kbd = q].aux = p.aux /\ [p EXCEPT !.kbd = q].ready = p.ready
BY DEF Sane, Controllers

LEMMA PacketSent ==
  ASSUME NEW p \in Sane
  PROVE  /\ send_mouse_packet(p) \in Sane /\ send_mouse_packet(p).kbd = p.kbd
         /\ send_mouse_packet(p).mouse.length > 0
         /\ send_mouse_packet(p).stream = p.stream
         /\ (p.ready => Chosen(p).length > 0) => send_mouse_packet(p) \in Good
<1> DEFINE bytes == IF p.mouse_id \in {3, 4} THEN <<8, 1, 1, 0>> ELSE <<8, 1, 1>>
           u == [p EXCEPT !.mouse = Pushes(@, bytes)]
<1>0. send_mouse_packet(p) = raise_irq(u)
  BY DEF send_mouse_packet
<1>1. bytes \in Seq(Int) /\ bytes # << >>
  OBVIOUS
<1> HIDE DEF bytes
<1>2. Pushes(p.mouse, bytes) \in Queues /\ Pushes(p.mouse, bytes).length > 0
  BY <1>1, PushesQueue, SaneFields
<1>3. /\ u \in Sane /\ u.kbd = p.kbd /\ u.mouse.length > 0 /\ u.stream = p.stream
      /\ u.aux = p.aux /\ u.ready = p.ready
  BY <1>2, SameMouse
<1> HIDE DEF u
<1>4. (p.ready => Chosen(p).length > 0) => (u.ready => Chosen(u).length > 0)
  BY <1>3 DEF Chosen
<1> QED
  BY <1>0, <1>3, <1>4, IrqSane, RaiseIrq

LEMMA MouseCommandHandled ==
  ASSUME NEW p \in Sane, NEW a \in Int
  PROVE  Handled(p, MouseCommand(p, a)) /\ MouseCommand(p, a).stream = p.stream
<1> DEFINE q == [p EXCEPT !.kbd = Empty, !.mouse = Pushes(Empty, <<250>>)]
           Fine(r) == r \in Sane /\ r.kbd = Empty /\ r.mouse.length > 0 /\ r.stream = p.stream
           c == CASE a = 232 -> [q EXCEPT !.expect = @ \cup {"resolution"}]
                  [] a \in {233, 235} -> send_mouse_packet(q)
                  [] a = 242 -> raise_irq([q EXCEPT !.mouse = push(@, q.mouse_id)])
                  [] a = 243 -> [q EXCEPT !.expect = @ \cup {"sample"}]
                  [] a = 244 -> [q EXCEPT !.use_mouse = TRUE, !.mouse_stream = TRUE, !.enabled = TRUE]
                  [] a \in {245, 246} -> [q EXCEPT !.mouse_stream = FALSE]
                  [] a = 255 -> [q EXCEPT !.mouse = Pushes(@, <<170, 0>>), !.use_mouse = TRUE,
                                          !.enabled = TRUE, !.mouse_stream = FALSE,
                                          !.mouse_id = IF p.workaround THEN @ ELSE 0]
                  [] OTHER -> q
<1>1. Pushes(Empty, <<250>>) \in Queues /\ Pushes(Empty, <<250>>).length > 0
  <2>1. <<250>> \in Seq(Int) /\ <<250>> # << >>
    OBVIOUS
  <2> QED
    BY <2>1, PushesQueue, EmptyQueue
<1>2. Fine(q) /\ q.mouse \in Queues /\ q.mouse_id \in Int
  BY <1>1, EmptyQueue, ZenonT(60) DEF Sane, Controllers
<1>3. MouseCommand(p, a) = mouse_irq(c)
  BY DEF MouseCommand
<1> HIDE DEF q
<1>4. Fine([q EXCEPT !.expect = @ \cup {"resolution"}]) /\ Fine([q EXCEPT !.expect = @ \cup {"sample"}])
  BY <1>2 DEF Sane, Controllers, Flags
<1>5. Fine([q EXCEPT !.use_mouse = TRUE, !.mouse_stream = TRUE, !.enabled = TRUE])
      /\ Fine([q EXCEPT !.mouse_stream = FALSE])
  BY <1>2 DEF Sane, Controllers
<1>6. Fine(send_mouse_packet(q))
  BY <1>2, PacketSent
<1>7. Fine(raise_irq([q EXCEPT !.mouse = push(@, q.mouse_id)]))
  <2> DEFINE u == [q EXCEPT !.mouse = push(q.mouse, q.mouse_id)]
  <2>1. push(q.mouse, q.mouse_id) \in Queues /\ push(q.mouse, q.mouse_id).length > 0
    BY <1>2, PushQueue
  <2>2. Fine(u)
    BY <1>2, <2>1, SameMouse
  <2>3. [q EXCEPT !.mouse = push(@, q.mouse_id)] = u
    OBVIOUS
  <2> HIDE DEF u
  <2> QED
    BY <2>2, <2>3, IrqSane
<1>8. Fine([q EXCEPT !.mouse = Pushes(@, <<170, 0>>), !.use_mouse = TRUE, !.enabled = TRUE,
                    !.mouse_stream = FALSE, !.mouse_id = IF p.workaround THEN @ ELSE 0])
  <2>1. <<170, 0>> \in Seq(Int) /\ <<170, 0>> # << >>
    OBVIOUS
  <2>2. Pushes(q.mouse, <<170, 0>>) \in Queues /\ Pushes(q.mouse, <<170, 0>>).length > 0
    BY <1>2, <2>1, PushesQueue
  <2> DEFINE k == Pushes(q.mouse, <<170, 0>>)
             id == IF p.workaround THEN q.mouse_id ELSE 0
             v == [q EXCEPT !.mouse = k, !.use_mouse = TRUE, !.enabled = TRUE]
             u == [v EXCEPT !.mouse_stream = FALSE, !.mouse_id = id]
  <2>3. k \in Queues /\ k.length > 0 /\ id \in Int
    BY <1>2, <2>2
  <2>4. [q EXCEPT !.mouse = Pushes(@, <<170, 0>>), !.use_mouse = TRUE, !.enabled = TRUE,
                  !.mouse_stream = FALSE, !.mouse_id = IF p.workaround THEN @ ELSE 0] = u
    OBVIOUS
  <2> HIDE DEF k, id
  <2>6. Fine(v)
    BY <1>2, <2>3 DEF Sane, Controllers
  <2> HIDE DEF v
  <2>5. Fine(u)
    BY <2>3, <2>6 DEF Sane, Controllers
  <2> HIDE DEF u
  <2> QED
    BY <2>4, <2>5
<1>9. Fine(c)
  BY <1>2, <1>4, <1>5, <1>6, <1>7, <1>8
<1> HIDE DEF c
<1>10. mouse_irq(c) \in Good /\ mouse_irq(c).kbd = Empty /\ mouse_irq(c).stream = p.stream
  BY <1>9, MouseIrq
<1> QED
  BY <1>3, <1>10, SaneFields DEF Handled

LEMMA KeyboardCommandHandled ==
  ASSUME NEW p \in Sane, NEW a \in Int
  PROVE  Handled(p, KeyboardCommand(p, a))
<1> DEFINE q == [p EXCEPT !.mouse = Empty, !.kbd = Pushes(Empty, <<Answer(250)>>)]
           Fine(r) == r \in Sane /\ r.kbd \in One(Empty) \cup Three(Empty) /\ r.kbd.length > 0
           c == CASE a = 237 -> [q EXCEPT !.expect = @ \cup {"led"}]
                  [] a = 240 -> [q EXCEPT !.expect = @ \cup {"scan_code_set"}]
                  [] a = 242 -> [q EXCEPT !.kbd = Pushes(@, <<Answer(171), Answer(131)>>)]
                  [] a = 243 -> [q EXCEPT !.expect = @ \cup {"rate"}]
                  [] a = 244 -> [q EXCEPT !.stream = TRUE]
                  [] a = 245 -> [q EXCEPT !.stream = FALSE]
                  [] a = 255 -> [q EXCEPT !.kbd = Pushes(@, <<Answer(170), Answer(0)>>)]
                  [] OTHER -> q
<1>1. /\ Pushes(Empty, <<Answer(250)>>) \in Queues /\ Pushes(Empty, <<Answer(250)>>) \in One(Empty)
      /\ Pushes(Empty, <<Answer(250)>>).length > 0
  <2>1. Answer(250) \in Int /\ Pushes(Empty, <<Answer(250)>>) = push(Empty, Answer(250))
    BY AnswerInt, PushesOne, EmptyQueue
  <2>2. push(Empty, Answer(250)) \in One(Empty)
    BY EmptyQueue, AnsweredQueue
  <2> QED
    BY <2>1, <2>2, EmptyQueue, PushQueue, ZenonT(90)
<1>2. Fine(q) /\ q.kbd \in Queues /\ q.kbd \in One(Empty)
  BY <1>1, EmptyQueue, ZenonT(60) DEF Sane, Controllers
<1>3. KeyboardCommand(p, a) = kbd_irq(c)
  BY DEF KeyboardCommand
<1> HIDE DEF q
<1>4. /\ Fine([q EXCEPT !.expect = @ \cup {"led"}])
      /\ Fine([q EXCEPT !.expect = @ \cup {"scan_code_set"}])
      /\ Fine([q EXCEPT !.expect = @ \cup {"rate"}])
  BY <1>2 DEF Sane, Controllers, Flags
<1>5. Fine([q EXCEPT !.stream = TRUE]) /\ Fine([q EXCEPT !.stream = FALSE])
  BY <1>2 DEF Sane, Controllers
<1>6. ASSUME NEW b \in Nat, NEW d \in Nat
      PROVE  Fine([q EXCEPT !.kbd = Pushes(@, <<Answer(b), Answer(d)>>)])
  <2> DEFINE k == Pushes(q.kbd, <<Answer(b), Answer(d)>>)
  <2>1. k = push(push(q.kbd, Answer(b)), Answer(d))
    BY <1>2, AnswerInt, PushesTwo
  <2>2. push(q.kbd, Answer(b)) \in Queues /\ push(q.kbd, Answer(b)) \in Two(Empty)
    BY <1>2, AnswerInt, PushQueue, AnsweredQueue DEF Two
  <2>3. k \in Queues /\ k \in Three(Empty) /\ k.length > 0
    BY <2>1, <2>2, AnswerInt, PushQueue, AnsweredQueue, ZenonT(90) DEF Three
  <2>4. [q EXCEPT !.kbd = Pushes(@, <<Answer(b), Answer(d)>>)] = [q EXCEPT !.kbd = k]
    OBVIOUS
  <2> HIDE DEF k
  <2> DEFINE u == [q EXCEPT !.kbd = k]
  <2>5. u \in Sane /\ u.kbd = k
    BY <1>2, <2>3, SameKbd
  <2> HIDE DEF u
  <2>6. Fine(u)
    BY <2>3, <2>5
  <2> QED
    BY <2>4, <2>6 DEF u
<1>7. Fine(c)
  BY <1>2, <1>4, <1>5, <1>6
<1> HIDE DEF c
<1>8. kbd_irq(c) \in Good /\ kbd_irq(c).kbd \in One(Empty) \cup Three(Empty)
  BY <1>7, KbdIrq
<1> QED
  BY <1>3, <1>8 DEF Handled, Answered
(* The order in which the flags are looked at names all of them. *)
LEMMA FirstFlagKnown ==
  ASSUME NEW E \in SUBSET Flags
  PROVE  FirstFlag(E) \in Flags \cup {"none"}
<1>1. CASE E = {}
  BY <1>1 DEF FirstFlag
<1>2. CASE E # {}
  <2> DEFINE I == {i \in 1 .. 9 : FlagOrder[i] \in E}
             First(i) == FlagOrder[i] \in E /\ \A j \in 1 .. i - 1 : FlagOrder[j] \notin E
             i0 == CHOOSE i \in DOMAIN FlagOrder : First(i)
  <2>1. DOMAIN FlagOrder = 1 .. 9 /\ \A f \in Flags : \E i \in 1 .. 9 : FlagOrder[i] = f
    <3>1. DOMAIN FlagOrder = 1 .. 9
      BY DEF FlagOrder
    <3>2. /\ FlagOrder[1] = "command_register" /\ FlagOrder[2] = "output_register"
          /\ FlagOrder[3] = "sample" /\ FlagOrder[4] = "resolution" /\ FlagOrder[5] = "led"
          /\ FlagOrder[6] = "scan_code_set" /\ FlagOrder[7] = "rate"
          /\ FlagOrder[8] = "mouse" /\ FlagOrder[9] = "output_port"
      BY DEF FlagOrder
    <3>3. ASSUME NEW f \in Flags
          PROVE  \E i \in 1 .. 9 : FlagOrder[i] = f
      <4>1. /\ 1 \in 1 .. 9 /\ 2 \in 1 .. 9 /\ 3 \in 1 .. 9 /\ 4 \in 1 .. 9 /\ 5 \in 1 .. 9
            /\ 6 \in 1 .. 9 /\ 7 \in 1 .. 9 /\ 8 \in 1 .. 9 /\ 9 \in 1 .. 9
        OBVIOUS
      <4> QED
        BY <3>2, <4>1, Zenon DEF Flags
    <3> QED
      BY <3>1, <3>3
  <2>2. I \in SUBSET Nat /\ I # {}
    BY <1>2, <2>1
  <2>3. Min(I) \in I /\ \A k \in I : Min(I) <= k
    <3> HIDE DEF I
    <3> QED
      BY <2>2, MinProps
  <2>4. First(Min(I)) /\ Min(I) \in 1 .. 9
    <3> DEFINE m == Min(I)
    <3>1. m \in I /\ \A k \in I : m <= k
      BY <2>3
    <3> HIDE DEF m
    <3>2. \A j \in 1 .. m - 1 : j \in 1 .. 9 /\ ~(m <= j)
      BY <3>1
    <3>3. First(m) /\ m \in 1 .. 9
      BY <3>1, <3>2
    <3> QED
      BY <3>3 DEF m
  <2>5. First(i0)
    <3> HIDE DEF First
    <3>1. \E i \in DOMAIN FlagOrder : First(i)
      BY <2>1, <2>4
    <3> QED
      BY <3>1
  <2>6. FirstFlag(E) = FlagOrder[i0]
    BY <1>2 DEF FirstFlag
  <2> HIDE DEF i0
  <2> QED
    BY <2>5, <2>6
<1> QED
  BY <1>1, <1>2

(* A rate that the mouse is given changes neither queue. *)
LEMMA DetectSane ==
  ASSUME NEW p \in Sane, NEW a \in Int
  PROVE  /\ Detect(p, a) \in Sane
         /\ Detect(p, a).kbd = p.kbd /\ Detect(p, a).mouse = p.mouse
<1>1. p.detect \in -1 .. 3 /\ p.mouse_id \in Int
  BY SaneFields
<1> DEFINE With(w, d, m) == [p EXCEPT !.workaround = w, !.detect = d, !.mouse_id = m]
           w1 == a = 60
           d1 == IF a = 200 THEN 1 ELSE 0
           d2 == IF a = 100 THEN 2 ELSE IF a = 200 THEN 3 ELSE 0
           m1 == IF a = 80 THEN 3 ELSE p.mouse_id
           m2 == IF a = 80 THEN 4 ELSE p.mouse_id
<1>2. \A w \in BOOLEAN, d \in -1 .. 3, m \in Int :
        /\ With(w, d, m) \in Sane
        /\ With(w, d, m).kbd = p.kbd /\ With(w, d, m).mouse = p.mouse
  BY DEF Sane, Controllers
<1>3. w1 \in BOOLEAN /\ d1 \in -1 .. 3 /\ d2 \in -1 .. 3 /\ m1 \in Int /\ m2 \in Int
      /\ -1 \in -1 .. 3 /\ p.workaround \in BOOLEAN
  BY <1>1, SaneFields
<1>4. Detect(p, a) =
        CASE p.detect = -1 -> [p EXCEPT !.workaround = w1, !.detect = d1]
          [] p.detect = 0  -> [p EXCEPT !.detect = d1]
          [] p.detect = 1  -> [p EXCEPT !.detect = d2]
          [] p.detect = 2  -> [p EXCEPT !.mouse_id = m1, !.detect = -1]
          [] p.detect = 3  -> [p EXCEPT !.mouse_id = m2, !.detect = -1]
  BY DEF Detect
<1> HIDE DEF w1, d1, d2, m1, m2
<1>5. /\ [p EXCEPT !.workaround = w1, !.detect = d1] = With(w1, d1, p.mouse_id)
      /\ [p EXCEPT !.detect = d1] = With(p.workaround, d1, p.mouse_id)
      /\ [p EXCEPT !.detect = d2] = With(p.workaround, d2, p.mouse_id)
      /\ [p EXCEPT !.mouse_id = m1, !.detect = -1] = With(p.workaround, -1, m1)
      /\ [p EXCEPT !.mouse_id = m2, !.detect = -1] = With(p.workaround, -1, m2)
  BY DEF Sane, Controllers
<1> HIDE DEF With
<1>6. Detect(p, a) \in {With(w1, d1, p.mouse_id), With(p.workaround, d1, p.mouse_id),
                       With(p.workaround, d2, p.mouse_id), With(p.workaround, -1, m1),
                       With(p.workaround, -1, m2)}
  BY <1>1, <1>4, <1>5
<1> QED
  BY <1>1, <1>2, <1>3, <1>6

LEMMA Write60Handled ==
  ASSUME NEW p0 \in Good, NEW a \in Nat
  PROVE  Handled(p0, port60_write(p0, a))
<1> DEFINE flag == FirstFlag(p0.expect)
           p == [p0 EXCEPT !.expect = @ \ {flag}]
           pushed == [p EXCEPT !.kbd = push(@, Answer(250))]
           Told(b) == Pushes(Empty, <<b>>)
<1>0. p0 \in Sane
  BY DEF Good
<1>1. flag \in Flags \cup {"none"}
  BY <1>0, SaneFields, FirstFlagKnown
<1>2. p \in Good /\ p.kbd = p0.kbd
  BY <1>0 DEF Good, Sane, Controllers, Announced, Chosen
<1>3. port60_write(p0, a) =
        CASE flag = "command_register" ->
               [p EXCEPT !.command_register = (IF a % 2 = 1 THEN {1} ELSE {})
                                              \cup (IF (a \div 2) % 2 = 1 THEN {2} ELSE {})]
          [] flag = "output_register" -> mouse_irq([p EXCEPT !.mouse = Pushes(Empty, <<a>>)])
          [] flag = "sample" -> mouse_irq(Detect([p EXCEPT !.mouse = Pushes(Empty, <<250>>)], a))
          [] flag = "resolution" -> mouse_irq([p EXCEPT !.mouse = Pushes(Empty, <<250>>)])
          [] flag \in {"led", "rate"} -> kbd_irq(pushed)
          [] flag = "scan_code_set" ->
               IF a = 0 THEN [kbd_irq(pushed) EXCEPT !.kbd = push(@, Answer(1))]
               ELSE kbd_irq(pushed)
          [] flag = "mouse" -> MouseCommand(p, a)
          [] flag = "output_port" -> p
          [] flag = "none" -> KeyboardCommand(p, a)
  BY DEF port60_write
<1> HIDE DEF p, flag
<1>4. p \in Sane /\ p.kbd \in Queues /\ p.kbd \in Answered(p.kbd)
  BY <1>2, SaneFields DEF Good
<1>5. ASSUME NEW b \in Int
      PROVE  /\ [p EXCEPT !.mouse = Told(b)] \in Sane
             /\ [p EXCEPT !.mouse = Told(b)].kbd = p.kbd
             /\ [p EXCEPT !.mouse = Told(b)].mouse.length > 0
  <2>1. <<b>> \in Seq(Int) /\ <<b>> # << >>
    OBVIOUS
  <2>2. Told(b) \in Queues /\ Told(b).length > 0
    BY <2>1, EmptyQueue, PushesQueue
  <2> HIDE DEF Told
  <2> QED
    BY <1>4, <2>2, SameMouse
<1>6. CASE flag = "command_register"
  <2> DEFINE set == (IF a % 2 = 1 THEN {1} ELSE {}) \cup (IF (a \div 2) % 2 = 1 THEN {2} ELSE {})
  <2>1. set \in SUBSET {1, 2}
    OBVIOUS
  <2>2. port60_write(p0, a) = [p EXCEPT !.command_register = set]
    BY <1>3, <1>6
  <2> HIDE DEF set
  <2> QED
    BY <1>2, <1>4, <2>1, <2>2 DEF Good, Sane, Controllers, Announced, Chosen, Handled
<1>7. CASE flag = "output_register"
  <2> DEFINE u == [p EXCEPT !.mouse = Told(a)]
  <2>1. port60_write(p0, a) = mouse_irq(u)
    BY <1>3, <1>7
  <2>2. u \in Sane /\ u.kbd = p.kbd /\ u.mouse.length > 0
    BY <1>5
  <2> HIDE DEF u
  <2> QED
    BY <1>2, <1>4, <2>1, <2>2, MouseIrq DEF Handled
<1>8. CASE flag = "sample"
  <2> DEFINE u == [p EXCEPT !.mouse = Told(250)]
  <2>1. port60_write(p0, a) = mouse_irq(Detect(u, a))
    BY <1>3, <1>8
  <2>2. u \in Sane /\ u.kbd = p.kbd /\ u.mouse.length > 0
    BY <1>5
  <2> HIDE DEF u
  <2>3. /\ Detect(u, a) \in Sane /\ Detect(u, a).kbd = p.kbd
        /\ Detect(u, a).mouse.length > 0
    BY <2>2, DetectSane
  <2> QED
    BY <1>2, <1>4, <2>1, <2>3, MouseIrq DEF Handled
<1>9. CASE flag = "resolution"
  <2> DEFINE u == [p EXCEPT !.mouse = Told(250)]
  <2>1. port60_write(p0, a) = mouse_irq(u)
    BY <1>3, <1>9
  <2>2. u \in Sane /\ u.kbd = p.kbd /\ u.mouse.length > 0
    BY <1>5
  <2> HIDE DEF u
  <2> QED
    BY <1>2, <1>4, <2>1, <2>2, MouseIrq DEF Handled
<1>10. /\ kbd_irq(pushed) \in Good /\ kbd_irq(pushed).kbd \in One(p.kbd)
       /\ kbd_irq(pushed).kbd \in Queues
  <2>1. push(p.kbd, Answer(250)) \in One(p.kbd)
    BY <1>4, AnsweredQueue
  <2>2. push(p.kbd, Answer(250)) \in Queues /\ push(p.kbd, Answer(250)).length > 0
    BY <1>4, AnswerInt, PushQueue, ZenonT(90)
  <2>3. pushed = [p EXCEPT !.kbd = push(p.kbd, Answer(250))]
    OBVIOUS
  <2> HIDE DEF pushed
  <2>4. /\ pushed \in Sane /\ pushed.kbd = push(p.kbd, Answer(250))
    BY <1>4, <2>2, <2>3, SameKbd
  <2> QED
    BY <2>1, <2>2, <2>4, KbdIrq
<1>11. CASE flag \in {"led", "rate"}
  <2>1. port60_write(p0, a) = kbd_irq(pushed)
    BY <1>3, <1>11
  <2> HIDE DEF pushed
  <2> QED
    BY <1>2, <1>10, <2>1 DEF Handled, Answered
<1>12. CASE flag = "scan_code_set"
  <2> DEFINE k == kbd_irq(pushed)
             u == [k EXCEPT !.kbd = push(@, Answer(1))]
  <2>1. port60_write(p0, a) \in {k, u}
    BY <1>3, <1>12
  <2> HIDE DEF k
  <2>2. k \in Good /\ k.kbd \in One(p.kbd) /\ k.kbd \in Queues
    BY <1>10 DEF k
  <2>3. k.kbd.length > 0 /\ k.ready
    <3>1. k.kbd.length > 0
      <4>1. PICK b \in Answers : k.kbd = push(p.kbd, b)
        BY <2>2 DEF One
      <4> QED
        BY <1>4, <4>1, PushQueue DEF Answers
    <3> QED
      BY <2>2, <3>1 DEF Good, Announced
  <2>4. /\ push(k.kbd, Answer(1)) \in Queues /\ push(k.kbd, Answer(1)).length > 0
        /\ push(k.kbd, Answer(1)) \in Two(p.kbd)
    BY <2>2, AnswerInt, PushQueue, AnsweredQueue DEF Two
  <2>5. u = [k EXCEPT !.kbd = push(k.kbd, Answer(1))]
    OBVIOUS
  <2> HIDE DEF u
  <2>6. /\ u \in Sane /\ u.kbd = push(k.kbd, Answer(1)) /\ u.mouse = k.mouse
        /\ u.aux = k.aux /\ u.ready = k.ready
    BY <2>2, <2>4, <2>5, SameKbd DEF Good
  <2>7. u \in Good
    BY <2>2, <2>3, <2>4, <2>6 DEF Good, Announced, Chosen
  <2> QED
    BY <1>2, <2>1, <2>2, <2>4, <2>6, <2>7 DEF Handled, Answered
<1>13. CASE flag = "mouse"
  <2>1. port60_write(p0, a) = MouseCommand(p, a)
    BY <1>3, <1>13
  <2> QED
    BY <1>2, <1>4, <2>1, MouseCommandHandled DEF Handled
<1>14. CASE flag = "output_port"
  <2>1. port60_write(p0, a) = p
    BY <1>3, <1>14
  <2> QED
    BY <1>2, <1>4, <2>1 DEF Handled
<1>15. CASE flag = "none"
  <2>1. port60_write(p0, a) = KeyboardCommand(p, a)
    BY <1>3, <1>15
  <2> QED
    BY <1>2, <1>4, <2>1, KeyboardCommandHandled DEF Handled
<1> QED
  BY <1>1, <1>6, <1>7, <1>8, <1>9, <1>11, <1>12, <1>13, <1>14, <1>15, Zenon DEF Flags

LEMMA ResetSane ==
  ASSUME NEW p \in Sane
  PROVE  /\ reset(p) \in Sane /\ reset(p).kbd = Empty /\ reset(p).mouse = Empty
         /\ reset(p).ready = FALSE
<1> DEFINE u == [p EXCEPT !.kbd = Empty, !.mouse = Empty, !.ready = FALSE, !.aux = FALSE,
                          !.stream = FALSE, !.use_mouse = FALSE]
           v == [u EXCEPT !.mouse_stream = FALSE, !.mouse_id = 0, !.detect = 0]
           w == [v EXCEPT !.workaround = FALSE, !.expect = {}, !.command_register = {1}]
<1>1. reset(p) = w
  BY DEF reset
<1>2. u \in Sane /\ u.kbd = Empty /\ u.mouse = Empty /\ u.ready = FALSE
  BY EmptyQueue DEF Sane, Controllers
<1> HIDE DEF u
<1>3. v \in Sane /\ v.kbd = Empty /\ v.mouse = Empty /\ v.ready = FALSE
  <2>1. 0 \in Int /\ 0 \in -1 .. 3
    OBVIOUS
  <2>2. ASSUME NEW m \in Int, NEW d \in -1 .. 3
        PROVE  LET t == [u EXCEPT !.mouse_stream = FALSE, !.mouse_id = m, !.detect = d]
               IN  t \in Sane /\ t.kbd = Empty /\ t.mouse = Empty /\ t.ready = FALSE
    BY <1>2 DEF Sane, Controllers
  <2> HIDE DEF v
  <2>3. v = [u EXCEPT !.mouse_stream = FALSE, !.mouse_id = 0, !.detect = 0]
    BY DEF v
  <2> QED
    BY <2>1, <2>2, <2>3, Zenon
<1> HIDE DEF v
<1>4. w \in Sane /\ w.kbd = Empty /\ w.mouse = Empty /\ w.ready = FALSE
  BY <1>3 DEF Sane, Controllers
<1> QED
  BY <1>1, <1>4

LEMMA ResetHandled ==
  ASSUME NEW p \in Sane
  PROVE  Handled(p, reset(p)) /\ reset(p).kbd = Empty
<1>1. /\ reset(p) \in Sane /\ reset(p).kbd = Empty /\ reset(p).mouse = Empty
      /\ reset(p).ready = FALSE
  BY ResetSane
<1> QED
  BY <1>1, SaneFields, EmptyQueue DEF Handled, Good, Announced, Chosen

LEMMA RestoredGood ==
  ASSUME NEW p \in Good
  PROVE  Restored(p) \in Good /\ Restored(p).kbd = Empty
<1>1. /\ Restored(p) \in Sane /\ Restored(p).kbd = Empty /\ Restored(p).mouse = Empty
      /\ Restored(p).ready = FALSE
  BY EmptyQueue DEF Restored, Good, Sane, Controllers
<1> QED
  BY <1>1, EmptyQueue DEF Good, Announced, Chosen

LEMMA TellHandled ==
  ASSUME NEW p \in Sane, NEW b \in Nat
  PROVE  Handled(p, Tell(p, b))
<1> DEFINE k == Pushes(Empty, <<Answer(b)>>)
           u == [p EXCEPT !.kbd = k, !.mouse = Empty]
<1>1. k = push(Empty, Answer(b)) /\ Answer(b) \in Int
  BY AnswerInt, EmptyQueue, PushesOne
<1>2. k \in Queues /\ k.length > 0 /\ k \in One(Empty)
  BY <1>1, EmptyQueue, PushQueue, AnsweredQueue
<1>3. Tell(p, b) = kbd_irq(u)
  BY DEF Tell
<1> HIDE DEF k
<1>4. u \in Sane /\ u.kbd = k
  BY <1>2, EmptyQueue DEF Sane, Controllers
<1> HIDE DEF u
<1> QED
  BY <1>2, <1>3, <1>4, KbdIrq DEF Handled, Answered

LEMMA Write64Handled ==
  ASSUME NEW p \in Good, NEW a \in Nat
  PROVE  Handled(p, port64_write(p, a))
<1> DEFINE reg == (IF 1 \in p.command_register THEN 1 ELSE 0)
                  + (IF 2 \in p.command_register THEN 2 ELSE 0)
           Expects(f) == [p EXCEPT !.expect = @ \cup {f}]
<1>1. p \in Sane /\ Handled(p, p)
  BY SaneFields DEF Good, Handled
<1>2. reg \in Nat
  OBVIOUS
<1>3. port64_write(p, a) \in
        {Tell(p, reg), Tell(p, 0), Tell(p, 85), reset(p), p, Expects("command_register"),
         Expects("output_port"), Expects("output_register"), Expects("mouse")}
  BY DEF port64_write
<1> HIDE DEF reg
<1>4. ASSUME NEW f \in Flags
      PROVE  Handled(p, Expects(f))
  <2>1. /\ Expects(f) \in Sane /\ Expects(f).kbd = p.kbd /\ Expects(f).mouse = p.mouse
        /\ Expects(f).ready = p.ready /\ Expects(f).aux = p.aux
    BY <1>1 DEF Sane, Controllers
  <2> HIDE DEF Expects
  <2> QED
    BY <1>1, <2>1 DEF Good, Announced, Chosen, Handled
<1> HIDE DEF Expects
<1>5. /\ Handled(p, Expects("command_register")) /\ Handled(p, Expects("output_port"))
      /\ Handled(p, Expects("output_register")) /\ Handled(p, Expects("mouse"))
  BY <1>4 DEF Flags
<1>6. Handled(p, Tell(p, reg)) /\ Handled(p, Tell(p, 0)) /\ Handled(p, Tell(p, 85))
  BY <1>1, <1>2, TellHandled
<1> QED
  BY <1>1, <1>3, <1>5, <1>6, ResetHandled

(* A byte of a key is put into the queue and announced, unless the         *)
(* keyboard is switched off.                                               *)
LEMMA CodeSent ==
  ASSUME NEW p \in Good, NEW b \in Int
  PROVE  /\ kbd_send_code(p, b) \in Good /\ kbd_send_code(p, b).stream = p.stream
         /\ kbd_send_code(p, b).kbd = IF p.stream THEN push(p.kbd, b) ELSE p.kbd
<1>1. p \in Sane /\ p.kbd \in Queues /\ p.stream \in BOOLEAN
  BY SaneFields DEF Good
<1>2. CASE p.stream
  <2> DEFINE u == [p EXCEPT !.kbd = push(p.kbd, b)]
  <2>1. kbd_send_code(p, b) = raise_irq(u)
    BY <1>2 DEF kbd_send_code
  <2>2. push(p.kbd, b) \in Queues /\ push(p.kbd, b).length > 0
    BY <1>1, PushQueue
  <2>3. /\ u \in Sane /\ u.kbd = push(p.kbd, b) /\ u.mouse = p.mouse /\ u.stream = p.stream
        /\ u.aux = p.aux /\ u.ready = p.ready
    BY <1>1, <2>2, SameKbd
  <2> HIDE DEF u
  <2>4. u.ready => Chosen(u).length > 0
    BY <2>2, <2>3 DEF Good, Announced, Chosen
  <2> QED
    BY <1>2, <2>1, <2>3, <2>4, RaiseIrq
<1>3. CASE ~p.stream
  BY <1>3 DEF kbd_send_code
<1> QED
  BY <1>2, <1>3

LEMMA MouseSent ==
  ASSUME NEW p \in Good
  PROVE  /\ send_mouse_packet(p) \in Good /\ send_mouse_packet(p).kbd = p.kbd
         /\ mouse_send(p) \in Good /\ mouse_send(p).kbd = p.kbd
<1>1. p \in Sane /\ (p.ready => Chosen(p).length > 0)
  BY DEF Good, Announced
<1> QED
  BY <1>1, PacketSent DEF mouse_send

(* Interrupts that are taken, or forgotten by the interrupt controller. *)
LEMMA Taken ==
  ASSUME NEW p \in Good, NEW S \in SUBSET p.pending
  PROVE  /\ [p EXCEPT !.pending = S] \in Good
         /\ [p EXCEPT !.pending = S].kbd = p.kbd /\ [p EXCEPT !.pending = S].mouse = p.mouse
         /\ [p EXCEPT !.pending = S].ready = p.ready /\ [p EXCEPT !.pending = S].aux = p.aux
BY DEF Good, Sane, Controllers, Announced, Chosen

LEMMA StartedGood ==
  ASSUME NEW p \in Started
  PROVE  p \in Good /\ p.kbd = Empty
<1> DEFINE z == [kbd |-> Empty, mouse |-> Empty, ready |-> FALSE, aux |-> FALSE, stream |-> FALSE,
                 use_mouse |-> FALSE, mouse_stream |-> FALSE, mouse_id |-> 0, detect |-> 0,
                 workaround |-> FALSE, expect |-> {}, command_register |-> {1},
                 line |-> {}, pending |-> {}, enabled |-> FALSE]
<1>1. z \in Sane
  BY EmptyQueue DEF Sane, Controllers
<1>2. NewPs2 = reset(z)
  BY DEF NewPs2
<1> HIDE DEF z
<1>3. /\ NewPs2 \in Sane /\ NewPs2.kbd = Empty /\ NewPs2.mouse = Empty /\ NewPs2.ready = FALSE
  BY <1>1, <1>2, ResetSane
<1> DEFINE w == [NewPs2 EXCEPT !.stream = TRUE, !.use_mouse = TRUE, !.mouse_stream = TRUE,
                               !.mouse_id = 3, !.detect = -1, !.command_register = {1, 2},
                               !.enabled = TRUE]
           Fine(q) == q \in Sane /\ q.kbd = Empty /\ q.mouse = Empty /\ q.ready = FALSE
<1>4. p \in {NewPs2, w}
  BY DEF Started
<1>6. Fine(w)
  <2> DEFINE v == [NewPs2 EXCEPT !.stream = TRUE, !.use_mouse = TRUE, !.mouse_stream = TRUE,
                                 !.enabled = TRUE]
  <2>1. w = [v EXCEPT !.mouse_id = 3, !.detect = -1, !.command_register = {1, 2}]
    OBVIOUS
  <2>2. Fine(v)
    BY <1>3 DEF Sane, Controllers
  <2> HIDE DEF v, w
  <2>3. ASSUME NEW m \in Int, NEW d \in -1 .. 3, NEW c \in SUBSET {1, 2}
        PROVE  Fine([v EXCEPT !.mouse_id = m, !.detect = d, !.command_register = c])
    BY <2>2 DEF Sane, Controllers
  <2>4. 3 \in Int /\ -1 \in -1 .. 3 /\ {1, 2} \in SUBSET {1, 2}
    OBVIOUS
  <2>5. Fine([v EXCEPT !.mouse_id = 3, !.detect = -1, !.command_register = {1, 2}])
    BY <2>3, <2>4, Zenon
  <2> QED
    BY <2>1, <2>5
<1>7. Fine(p)
  <2> HIDE DEF w
  <2> QED
    BY <1>3, <1>4, <1>6
<1> QED
  BY <1>7, EmptyQueue DEF Good, Announced, Chosen
(* The bytes of an adapter reach the controller one by one. *)
LEMMA SendRun ==
  ASSUME NEW p \in Good, NEW bytes \in Seq(Int)
  PROVE  \E r \in [0 .. Len(bytes) -> Good] :
           /\ r[0] = p /\ r[Len(bytes)] = FoldLeft(kbd_send_code, p, bytes)
           /\ \A k \in 1 .. Len(bytes) : r[k] = kbd_send_code(r[k - 1], bytes[k])
<1> DEFINE n == Len(bytes)
           step == [x \in (1 .. n) \X Good |-> kbd_send_code(x[2], bytes[x[1]])]
           F(h) == [i \in SUBSET DOMAIN bytes |->
                      IF i = {} THEN p ELSE kbd_send_code(h[i \ {Max(i)}], bytes[Max(i)])]
           iter == CHOOSE h : h = F(h)
<1>1. n \in Nat /\ DOMAIN bytes = 1 .. n /\ \A k \in 1 .. n : bytes[k] \in Int
  OBVIOUS
<1> HIDE DEF n
<1>2. step \in [(1 .. n) \X Good -> Good]
  <2>1. \A x \in (1 .. n) \X Good : kbd_send_code(x[2], bytes[x[1]]) \in Good
    BY <1>1, CodeSent
  <2> QED
    BY <2>1
<1>3. PICK g \in [SUBSET (1 .. n) -> Good] : FoldTable(g, n, p, step)
  BY <1>1, <1>2, FoldTableExists
<1>4. g = F(g)
  <2>1. ASSUME NEW i \in SUBSET (1 .. n), i # {}
        PROVE  g[i] = kbd_send_code(g[i \ {Max(i)}], bytes[Max(i)])
    <3>1. Max(i) \in 1 .. n
      BY <1>1, <2>1, MaxProps
    <3>2. g[i \ {Max(i)}] \in Good
      BY <1>3
    <3>3. g[i] = step[<<Max(i), g[i \ {Max(i)}]>>]
      BY <1>3, <2>1 DEF FoldTable
    <3> QED
      BY <3>1, <3>2, <3>3
  <2>2. g[{}] = p
    BY <1>3 DEF FoldTable
  <2>3. \A i \in SUBSET (1 .. n) : g[i] = F(g)[i]
    BY <1>1, <2>1, <2>2
  <2> HIDE DEF step
  <2> QED
    BY <1>1, <1>3, <2>3
<1>5. iter = F(iter)
  <2> HIDE DEF F
  <2> QED
    BY <1>4
<1>6. FoldLeft(kbd_send_code, p, bytes) = iter[1 .. n]
  BY <1>1 DEF FoldLeft, MapThenFoldSet
<1> HIDE DEF iter
<1>7. iter[{}] = p
  BY <1>1, <1>5
<1>8. \A i \in SUBSET (1 .. n) : i # {} /\ iter[i \ {Max(i)}] \in Good =>
        iter[i] = step[<<Max(i), iter[i \ {Max(i)}]>>]
  <2>1. SUFFICES ASSUME NEW i \in SUBSET (1 .. n), i # {}, iter[i \ {Max(i)}] \in Good
                 PROVE  iter[i] = step[<<Max(i), iter[i \ {Max(i)}]>>]
    OBVIOUS
  <2>2. Max(i) \in 1 .. n
    BY <1>1, <2>1, MaxProps
  <2>3. iter[i] = kbd_send_code(iter[i \ {Max(i)}], bytes[Max(i)])
    BY <1>1, <1>5, <2>1
  <2> QED
    BY <2>1, <2>2, <2>3
<1>9. PICK r \in [0 .. n -> Good] : r[n] = iter[1 .. n] /\ IsRun(r, n, p, step)
  <2>1. IsFold(iter, Good, n, p, step)
    BY <1>7, <1>8 DEF IsFold
  <2> HIDE DEF step
  <2> QED
    BY <1>1, <1>2, <2>1, FoldRun
<1>10. \A k \in 1 .. n : r[k] = kbd_send_code(r[k - 1], bytes[k])
  <2>1. TAKE k \in 1 .. n
  <2>2. k - 1 \in 0 .. n
    BY <1>1
  <2>3. r[k - 1] \in Good /\ r[k] = step[<<k, r[k - 1]>>]
    BY <1>9, <2>2 DEF IsRun
  <2> QED
    BY <2>3
<1> QED
  BY <1>6, <1>9, <1>10 DEF n, IsRun

-----------------------------------------------------------------------------
(* The adapter *)

Held == [down : BOOLEAN, repeat : BOOLEAN, set : BOOLEAN]
Adapters == {a \in [pressed : SUBSET Keys, held : Held, out : Seq(Int)] :
               a.held.set => ControlLeft \in Keys}

LEMMA KeysNat == \A k \in Keys : k \in Nat
BY InputAssumption DEF OneByte, TwoBytes

LEMMA KeysAre == \E n \in Nat : Keys \subseteq 1 .. n
<1> DEFINE m == 57439
<1>1. m \in Nat /\ Keys \subseteq 1 .. m
  BY InputAssumption, SMTT(20) DEF OneByte, TwoBytes
<1> HIDE DEF m
<1> QED
  BY <1>1

LEMMA BytesInt ==
  ASSUME NEW k \in Nat
  PROVE  Bytes(k, TRUE) \in Seq(Int) /\ Bytes(k, FALSE) \in Seq(Int)
<1> DEFINE r == k % 256
           d == k \div 256
<1>1. r \in Int /\ d \in Int
  OBVIOUS
<1>2. /\ Bytes(k, TRUE) = IF k > 255 THEN <<d, r + 0>> ELSE <<r + 0>>
      /\ Bytes(k, FALSE) = IF k > 255 THEN <<d, r + 128>> ELSE <<r + 128>>
  BY DEF Bytes
<1> HIDE DEF r, d
<1>3. \A x \in Int, y \in Int : <<x, y>> \in Seq(Int) /\ <<y>> \in Seq(Int)
  OBVIOUS
<1>4. r + 0 \in Int /\ r + 128 \in Int
  BY <1>1
<1>5. Bytes(k, TRUE) \in Seq(Int)
  <2> DEFINE last == r + 0
  <2>1. last \in Int
    BY <1>4
  <2> HIDE DEF last
  <2>2. <<d, last>> \in Seq(Int) /\ <<last>> \in Seq(Int)
    BY <1>1, <1>3, <2>1
  <2> QED
    BY <1>2, <2>2 DEF last
<1>6. Bytes(k, FALSE) \in Seq(Int)
  <2> DEFINE last == r + 128
  <2>1. last \in Int
    BY <1>4
  <2> HIDE DEF last
  <2>2. <<d, last>> \in Seq(Int) /\ <<last>> \in Seq(Int)
    BY <1>1, <1>3, <2>1
  <2> QED
    BY <1>2, <2>2 DEF last
<1> QED
  BY <1>5, <1>6

LEMMA ConcatInt ==
  ASSUME NEW s \in Seq(Int), NEW t \in Seq(Int)
  PROVE  s \o t \in Seq(Int)
OBVIOUS

LEMMA AdapterFields ==
  ASSUME NEW a \in Adapters
  PROVE  /\ a.pressed \in SUBSET Keys /\ a.held \in Held /\ a.out \in Seq(Int)
         /\ a.held.set => ControlLeft \in Keys
BY DEF Adapters

LEMMA AdapterOut ==
  ASSUME NEW a \in Adapters, NEW b \in Int
  PROVE  /\ [a EXCEPT !.out = Append(@, b)] \in Adapters
         /\ [a EXCEPT !.out = Append(@, b)].pressed = a.pressed
         /\ [a EXCEPT !.out = Append(@, b)].held = a.held
         /\ [a EXCEPT !.out = Append(@, b)].out = Append(a.out, b)
<1> DEFINE o == Append(a.out, b)
<1>1. o \in Seq(Int)
  BY AdapterFields
<1>2. [a EXCEPT !.out = Append(@, b)] = [a EXCEPT !.out = o]
  OBVIOUS
<1> HIDE DEF o
<1>3. /\ [a EXCEPT !.out = o] \in Adapters /\ [a EXCEPT !.out = o].pressed = a.pressed
      /\ [a EXCEPT !.out = o].held = a.held /\ [a EXCEPT !.out = o].out = o
  BY <1>1 DEF Adapters
<1> QED
  BY <1>2, <1>3 DEF o

(* Press and release, and what they leave. *)
Press(a, k) == [a EXCEPT !.pressed = @ \cup {k}, !.out = @ \o Bytes(k, TRUE)]

LEMMA PressTyped ==
  ASSUME NEW a \in Adapters, NEW k \in Keys
  PROVE  /\ Press(a, k) \in Adapters
         /\ Press(a, k).pressed = a.pressed \cup {k}
         /\ Press(a, k).held = a.held
         /\ Press(a, k).out = a.out \o Bytes(k, TRUE)
<1> DEFINE P == a.pressed \cup {k}
           o == a.out \o Bytes(k, TRUE)
<1>1. Bytes(k, TRUE) \in Seq(Int) /\ a.out \in Seq(Int)
  BY BytesInt, KeysNat, AdapterFields
<1>2. o \in Seq(Int)
  BY <1>1, ConcatInt
<1>3. P \in SUBSET Keys
  BY AdapterFields
<1>4. Press(a, k) = [a EXCEPT !.pressed = P, !.out = o]
  BY DEF Press
<1> HIDE DEF P, o
<1> DEFINE w == [a EXCEPT !.pressed = P, !.out = o]
<1>5. w \in Adapters /\ w.pressed = P /\ w.held = a.held /\ w.out = o
  BY <1>2, <1>3 DEF Adapters
<1> QED
  BY <1>4, <1>5 DEF P, o

LEMMA ReleaseTyped ==
  ASSUME NEW a \in Adapters, NEW k \in Nat
  PROVE  /\ Release(a, k) \in Adapters
         /\ Release(a, k).pressed = a.pressed \ {k}
         /\ Release(a, k).held = a.held
         /\ Release(a, k).out = a.out \o Bytes(k, FALSE)
<1> DEFINE P == a.pressed \ {k}
           o == a.out \o Bytes(k, FALSE)
<1>1. Bytes(k, FALSE) \in Seq(Int) /\ a.out \in Seq(Int)
  BY BytesInt, AdapterFields
<1>2. o \in Seq(Int)
  BY <1>1, ConcatInt
<1>3. P \in SUBSET Keys
  BY AdapterFields
<1>4. Release(a, k) = [a EXCEPT !.pressed = P, !.out = o]
  BY DEF Release
<1> HIDE DEF P, o
<1> DEFINE w == [a EXCEPT !.pressed = P, !.out = o]
<1>5. w \in Adapters /\ w.pressed = P /\ w.held = a.held /\ w.out = o
  BY <1>2, <1>3 DEF Adapters
<1> QED
  BY <1>4, <1>5 DEF P, o

(* Whatever Send does is some of these steps. *)
LEMMA SendCases ==
  ASSUME NEW a \in Adapters, NEW k \in Keys, NEW down \in BOOLEAN, NEW repeat \in BOOLEAN
  PROVE  \/ down /\ k \in a.pressed /\ Send(a, k, down, repeat) = Press(Release(a, k), k)
         \/ down /\ (k \in a.pressed => repeat) /\ Send(a, k, down, repeat) = Press(a, k)
         \/ ~down /\ k \in a.pressed /\ Send(a, k, down, repeat) = Release(a, k)
         \/ ~down /\ k \notin a.pressed /\ Send(a, k, down, repeat) = a
<1> DEFINE b == IF k \in a.pressed /\ ~repeat THEN Release(a, k) ELSE a
<1>1. Send(a, k, down, repeat) =
        CASE down -> Press(b, k)
          [] ~down /\ k \in a.pressed -> Release(a, k)
          [] OTHER -> a
  BY DEF Send, Press
<1>2. (b = Release(a, k) /\ k \in a.pressed) \/ (b = a /\ (k \in a.pressed => repeat))
  OBVIOUS
<1> HIDE DEF b
<1> QED
  BY <1>1, <1>2

LEMMA SendTyped ==
  ASSUME NEW a \in Adapters, NEW k \in Keys, NEW down \in BOOLEAN, NEW repeat \in BOOLEAN
  PROVE  Send(a, k, down, repeat) \in Adapters /\ Send(a, k, down, repeat).held = a.held
<1>0. k \in Nat
  BY KeysNat
<1>1. /\ Release(a, k) \in Adapters /\ Release(a, k).held = a.held
  BY <1>0, ReleaseTyped
<1>2. \A b \in {a, Release(a, k)} : Press(b, k) \in Adapters /\ Press(b, k).held = b.held
  BY <1>1, PressTyped
<1>3. Send(a, k, down, repeat) \in {a, Release(a, k), Press(a, k), Press(Release(a, k), k)}
  BY SendCases
<1> QED
  BY <1>1, <1>2, <1>3

LEMMA AltGoneTyped ==
  ASSUME NEW a \in Adapters, NEW altKey \in BOOLEAN
  PROVE  AltGone(a, altKey) \in Adapters
<1>1. a.pressed \in SUBSET Keys
  BY DEF Adapters
<1> QED
  BY <1>1, SendTyped DEF AltGone

LEMMA EventTyped ==
  ASSUME NEW a \in Adapters, NEW k \in Keys, NEW down \in BOOLEAN, NEW repeat \in BOOLEAN,
         NEW altGraph \in BOOLEAN, NEW code \in BOOLEAN
  PROVE  Event(a, k, down, repeat, altGraph, code) \in Adapters
<1> DEFINE false == altGraph /\ a.held.down = down /\ k = AltRight
           b == IF a.held.set /\ ~false
                THEN Send(a, ControlLeft, a.held.down, a.held.repeat) ELSE a
           c == [b EXCEPT !.held = Nothing]
           d == [c EXCEPT !.held = [down |-> down, repeat |-> repeat, set |-> TRUE]]
<1>1. a.held \in Held /\ (a.held.set => ControlLeft \in Keys)
  BY DEF Adapters
<1>2. b \in Adapters
  BY <1>1, SendTyped DEF Held
<1>3. Event(a, k, down, repeat, altGraph, code) =
        CASE ~emu_enabled -> a
          [] emu_enabled /\ windows /\ code /\ k = ControlLeft -> d
          [] OTHER -> Send(IF windows THEN c ELSE a, k, down, repeat)
  BY DEF Event
<1> HIDE DEF b
<1>4. c \in Adapters
  BY <1>2 DEF Adapters, Held, Nothing
<1> HIDE DEF c
<1>5. k = ControlLeft => d \in Adapters
  BY <1>4 DEF Adapters, Held
<1> HIDE DEF d
<1>6. Send(c, k, down, repeat) \in Adapters /\ Send(a, k, down, repeat) \in Adapters
  BY <1>4, SendTyped
<1> QED
  BY <1>3, <1>5, <1>6

LEMMA PressedTyped ==
  ASSUME NEW a \in Adapters, NEW k \in Keys
  PROVE  simulate_press(a, k) \in Adapters
BY EventTyped DEF simulate_press

LEMMA CharTyped ==
  ASSUME NEW a \in Adapters, NEW k \in Keys
  PROVE  simulate_char(a, k) \in Adapters
<1> DEFINE u == [a EXCEPT !.out = Append(@, Shift)]
           w == simulate_press(u, k)
<1>0. Shift \in Int /\ Shift + 128 \in Int
  BY DEF Shift
<1>1. u \in Adapters
  BY <1>0, AdapterOut
<1>2. simulate_char(a, k) = [w EXCEPT !.out = Append(@, Shift + 128)]
  BY DEF simulate_char
<1> HIDE DEF u
<1>3. w \in Adapters
  BY <1>1, PressedTyped
<1> HIDE DEF w
<1> QED
  BY <1>0, <1>2, <1>3, AdapterOut
(* The keys are released one after the other, down from nothing pressed:   *)
(* the table of the values on the way.                                     *)
LEMMA ReleaseTable ==
  ASSUME NEW a \in Adapters
  PROVE  \E h :
           /\ ReleaseAll(a) = h[a.pressed] /\ h[{}] = a
           /\ \A s \in SUBSET a.pressed :
                /\ h[s] \in Adapters /\ h[s].held = a.held
                /\ s # {} => Max(s) \in s /\ h[s] = Release(h[s \ {Max(s)}], Max(s))
<1> DEFINE S == a.pressed
           V == {b \in Adapters : b.held = a.held}
           F(h) == [s \in SUBSET S |->
                      IF s = {} THEN a ELSE Release(h[s \ {Max(s)}], Max(s))]
           iter == CHOOSE h : h = F(h)
<1>1. PICK n \in Nat : Keys \subseteq 1 .. n
  BY KeysAre
<1>2. S \in SUBSET (1 .. n)
  BY <1>1, AdapterFields
<1> DEFINE step == [x \in (1 .. n) \X V |-> Release(x[2], x[1])]
<1>3. step \in [(1 .. n) \X V -> V] /\ a \in V
  <2>1. ASSUME NEW x \in (1 .. n) \X V
        PROVE  Release(x[2], x[1]) \in V
    <3>1. x[1] \in Nat /\ x[2] \in Adapters /\ x[2].held = a.held
      BY <1>1
    <3>2. Release(x[2], x[1]) \in Adapters /\ Release(x[2], x[1]).held = a.held
      BY <3>1, ReleaseTyped
    <3> QED
      BY <3>2
  <2> QED
    BY <2>1
<1>4. PICK g \in [SUBSET (1 .. n) -> V] : FoldTable(g, n, a, step)
  <2> HIDE DEF step, V
  <2> QED
    BY <1>3, FoldTableExists
<1> DEFINE r == [s \in SUBSET S |-> g[s]]
<1> HIDE DEF S
<1>5. \A s \in SUBSET S : s # {} => Max(s) \in s /\ Max(s) \in 1 .. n
  BY <1>2, MaxProps
<1>6. r = F(r)
  <2>1. ASSUME NEW s \in SUBSET S, s # {}
        PROVE  g[s] = Release(g[s \ {Max(s)}], Max(s))
    <3>1. s \in SUBSET (1 .. n) /\ s \ {Max(s)} \in SUBSET (1 .. n) /\ Max(s) \in 1 .. n
      BY <1>2, <1>5, <2>1
    <3>2. g[s \ {Max(s)}] \in V
      BY <1>4, <3>1
    <3>3. g[s] = step[<<Max(s), g[s \ {Max(s)}]>>]
      BY <1>4, <2>1, <3>1 DEF FoldTable
    <3> QED
      BY <3>1, <3>2, <3>3
  <2>2. g[{}] = a
    BY <1>4 DEF FoldTable
  <2>3. \A s \in SUBSET S : s \ {Max(s)} \in SUBSET S
    OBVIOUS
  <2>4. \A s \in SUBSET S : r[s] = F(r)[s]
    BY <2>1, <2>2, <2>3
  <2> HIDE DEF step
  <2> QED
    BY <2>4
<1>7. iter = F(iter)
  <2> HIDE DEF F, r
  <2> QED
    BY <1>6
<1>8. ReleaseAll(a) = iter[a.pressed]
  BY DEF ReleaseAll, MapThenFoldSet, S
<1> HIDE DEF iter, step, r, V
<1>9. iter[{}] = a /\ \A s \in SUBSET S : s # {} => iter[s] = Release(iter[s \ {Max(s)}], Max(s))
  BY <1>7
<1>10. \A s \in SUBSET S : iter[s] \in V
  <2> DEFINE P == {s \in SUBSET S : iter[s] \in V}
  <2>1. {} \in P
    BY <1>3, <1>9
  <2>2. \A s \in SUBSET S : s # {} /\ s \ {Max(s)} \in P => s \in P
    <3>1. SUFFICES ASSUME NEW s \in SUBSET S, s # {}, iter[s \ {Max(s)}] \in V
                   PROVE  iter[s] \in V
      OBVIOUS
    <3> DEFINE b == iter[s \ {Max(s)}]
               m == Max(s)
    <3>2. b \in V /\ m \in Nat /\ iter[s] = Release(b, m)
      BY <1>5, <1>9, <3>1
    <3> HIDE DEF b, m
    <3>3. b \in Adapters /\ b.held = a.held
      BY <3>2 DEF V
    <3>4. Release(b, m) \in Adapters /\ Release(b, m).held = a.held
      BY <3>2, <3>3, ReleaseTyped
    <3> QED
      BY <3>2, <3>4 DEF V
  <2> HIDE DEF P
  <2>3. SUBSET S \subseteq P
    BY <1>2, <2>1, <2>2, MaxInduction
  <2> QED
    BY <2>3 DEF P
<1>11. \A s \in SUBSET S : iter[s] \in Adapters /\ iter[s].held = a.held
  BY <1>10 DEF V
<1> HIDE DEF F
<1> QED
  BY <1>5, <1>8, <1>9, <1>11 DEF S

LEMMA ReleaseAllTyped ==
  ASSUME NEW a \in Adapters
  PROVE  ReleaseAll(a) \in Adapters /\ ReleaseAll(a).held = a.held
<1>1. PICK h :
        /\ ReleaseAll(a) = h[a.pressed] /\ h[{}] = a
        /\ \A s \in SUBSET a.pressed :
             /\ h[s] \in Adapters /\ h[s].held = a.held
             /\ s # {} => Max(s) \in s /\ h[s] = Release(h[s \ {Max(s)}], Max(s))
  BY ReleaseTable
<1> QED
  BY <1>1
-----------------------------------------------------------------------------
(* The steps of the page and of the guest *)

Seens == [down : SUBSET Keys, ext : BOOLEAN]

(* The invariant behind ByteReady. *)
Kept ==
  /\ ps2 \in Good
  /\ pressed \in SUBSET Keys /\ held \in Held /\ (held.set => ControlLeft \in Keys)
  /\ seen \in Seens /\ astray \in BOOLEAN

LEMMA SentGood ==
  ASSUME NEW p \in Good, NEW bytes \in Seq(Int)
  PROVE  FoldLeft(kbd_send_code, p, bytes) \in Good
<1> DEFINE n == Len(bytes)
<1>1. PICK r \in [0 .. n -> Good] :
        /\ r[0] = p /\ r[n] = FoldLeft(kbd_send_code, p, bytes)
        /\ \A k \in 1 .. n : r[k] = kbd_send_code(r[k - 1], bytes[k])
  BY SendRun
<1>2. n \in Nat
  OBVIOUS
<1> HIDE DEF n
<1> QED
  BY <1>1, <1>2

LEMMA TakeTyped ==
  ASSUME NEW s \in Seens, NEW b \in Int
  PROVE  Take(s, b) \in Seens
<1> DEFINE code == (IF s.ext THEN 224 * 256 ELSE 0) + (b % 128)
           x == [s EXCEPT !.ext = TRUE]
           y == [s EXCEPT !.ext = FALSE]
           u == [down |-> s.down \cup {code}, ext |-> FALSE]
           d == [down |-> s.down \ {code}, ext |-> FALSE]
           z == [down |-> IF b < 128 THEN s.down \cup {code} ELSE s.down \ {code}, ext |-> FALSE]
<1>1. Take(s, b) = CASE b >= 256 -> s
                     [] b = 224 -> x
                     [] b < 256 /\ b # 224 /\ code \notin Keys -> y
                     [] OTHER -> z
  BY DEF Take
<1> HIDE DEF code
<1>2. x \in Seens /\ y \in Seens /\ d \in Seens /\ (code \in Keys => u \in Seens)
  BY DEF Seens
<1>3. z \in {u, d}
  OBVIOUS
<1> HIDE DEF x, y, z, u, d
<1>4. CASE b >= 256
  BY <1>1, <1>4
<1>5. CASE ~(b >= 256) /\ b = 224
  BY <1>1, <1>2, <1>5
<1>6. CASE ~(b >= 256) /\ b # 224 /\ code \notin Keys
  BY <1>1, <1>2, <1>6
<1>7. CASE ~(b >= 256) /\ b # 224 /\ code \in Keys
  BY <1>1, <1>2, <1>3, <1>7
<1> QED
  BY <1>4, <1>5, <1>6, <1>7

LEMMA ByteInt ==
  ASSUME NEW p \in Good
  PROVE  ByteAt60(p) \in Int
<1> DEFINE q == IF p.aux THEN p.mouse ELSE p.kbd
<1>1. q \in Queues
  BY SaneFields DEF Good
<1>2. ByteAt60(p) = IF q.length = 0 THEN -1 ELSE Head(q.cells)
  BY DEF ByteAt60
<1> HIDE DEF q
<1>3. q.cells \in [1 .. Size -> Int]
  BY <1>1 DEF Queues
<1>4. q.cells \in Seq(Int) /\ q.cells # << >>
  BY <1>3, SizeOk
<1>5. Head(q.cells) \in Int
  <2> DEFINE c == q.cells
  <2>1. c \in Seq(Int) /\ c # << >>
    BY <1>4
  <2> HIDE DEF c
  <2>2. Head(c) \in Int
    BY <2>1
  <2> QED
    BY <2>2 DEF c
<1> QED
  BY <1>2, <1>5

LEMMA DeliverKept ==
  ASSUME Kept, NEW a \in Adapters, ps2' = FoldLeft(kbd_send_code, ps2, a.out),
         pressed' = a.pressed, held' = a.held, seen' = seen, astray' \in BOOLEAN
  PROVE  Kept'
<1>1. ps2' \in Good
  BY SentGood, AdapterFields DEF Kept
<1> QED
  BY <1>1, AdapterFields DEF Kept

LEMMA AdapterTyped ==
  ASSUME Kept
  PROVE  Adapter \in Adapters
BY DEF Kept, Adapter, Adapters

LEMMA KeptInit ==
  ASSUME Init
  PROVE  Kept
<1>1. ps2 \in Good
  BY StartedGood DEF Init
<1> QED
  BY <1>1 DEF Init, Kept, Held, Seens, Nothing, NothingSeen

LEMMA ScancodeSent ==
  ASSUME NEW p \in Good, NEW k \in Chars, NEW down \in BOOLEAN
  PROVE  \A b \in Range(Bytes(k, down)) : kbd_send_code(p, b) \in Good
<1>1. k \in Nat
  BY InputAssumption, KeysNat
<1> DEFINE bytes == Bytes(k, down)
<1>2. bytes \in Seq(Int)
  BY <1>1, BytesInt
<1> HIDE DEF bytes
<1>3. \A b \in Range(bytes) : b \in Int
  BY <1>2 DEF Range
<1> QED
  BY <1>3, CodeSent DEF bytes

LEMMA KeptStep ==
  ASSUME Kept, [Next]_vars
  PROVE  Kept'
<1>0. Adapter \in Adapters /\ ps2 \in Good /\ astray \in BOOLEAN
  BY AdapterTyped DEF Kept
<1>1. CASE key_event
  <2>1. PICK k \in Keys, down \in BOOLEAN, repeat \in BOOLEAN, altKey \in BOOLEAN,
             altGraph \in BOOLEAN :
          Deliver(Event(AltGone(Adapter, altKey), k, down, repeat /\ down, altGraph, TRUE))
    BY <1>1 DEF key_event
  <2> DEFINE a == Event(AltGone(Adapter, altKey), k, down, repeat /\ down, altGraph, TRUE)
  <2>2. a \in Adapters
    <3>1. AltGone(Adapter, altKey) \in Adapters
      BY <1>0, AltGoneTyped
    <3>2. (repeat /\ down) \in BOOLEAN
      OBVIOUS
    <3> QED
      BY <3>1, <3>2, EventTyped
  <2> HIDE DEF a
  <2>3. Deliver(a) /\ seen' = seen
    BY <1>1, <2>1 DEF key_event, PageEvent, a
  <2> QED
    BY <2>2, <2>3, DeliverKept DEF Deliver
<1>2. CASE blur
  <2> DEFINE a == ReleaseAll(Adapter)
  <2>1. a \in Adapters
    BY <1>0, ReleaseAllTyped
  <2> HIDE DEF a
  <2>2. Deliver(a) /\ seen' = seen
    BY <1>2 DEF blur, PageEvent, a
  <2> QED
    BY <2>1, <2>2, DeliverKept DEF Deliver
<1>3. CASE control_timeout
  <2> DEFINE b == Send(Adapter, ControlLeft, held.down, held.repeat)
             a == [b EXCEPT !.held = Nothing]
  <2>1. b \in Adapters
    BY <1>0, <1>3, SendTyped DEF Kept, Held, control_timeout
  <2> HIDE DEF b
  <2>2. a \in Adapters
    BY <2>1 DEF Adapters, Held, Nothing
  <2> HIDE DEF a
  <2>3. Deliver(a) /\ seen' = seen
    BY <1>3 DEF control_timeout, a, b
  <2> QED
    BY <2>2, <2>3, DeliverKept DEF Deliver
<1>4. CASE keyboard_send_keys
  <2>1. PICK k \in Keys : Deliver(simulate_press(Adapter, k))
    BY <1>4 DEF keyboard_send_keys
  <2> DEFINE a == simulate_press(Adapter, k)
  <2>2. a \in Adapters
    BY <1>0, PressedTyped
  <2> HIDE DEF a
  <2>3. Deliver(a) /\ seen' = seen
    BY <1>4, <2>1 DEF keyboard_send_keys, PageEvent, a
  <2> QED
    BY <2>2, <2>3, DeliverKept DEF Deliver
<1>5. CASE keyboard_send_text
  <2> DEFINE A(k) == simulate_char(Adapter, k)
  <2>1. PICK k \in Chars :
          /\ ps2' = FoldLeft(kbd_send_code, ps2, A(k).out)
          /\ pressed' = A(k).pressed /\ held' = A(k).held
          /\ astray' = (astray \/ ~ps2.stream \/ Shift \in pressed
                               \/ ps2.kbd.length + Len(A(k).out) > Size)
    BY <1>5 DEF keyboard_send_text
  <2>2. A(k) \in Adapters
    BY <1>0, CharTyped, InputAssumption
  <2>3. seen' = seen
    BY <1>5 DEF keyboard_send_text, PageEvent
  <2> HIDE DEF A
  <2> QED
    BY <2>1, <2>2, <2>3, DeliverKept
<1>6. CASE keyboard_set_enabled
  BY <1>6 DEF keyboard_set_enabled, PageEvent, Kept
<1>7. CASE mouse_event
  BY <1>0, <1>7, MouseSent DEF mouse_event, PageEvent, Kept
<1>17. CASE mouse_wheel
  BY <1>0, <1>17, MouseSent DEF mouse_wheel, PageEvent, Kept
<1>18. CASE keyboard_send_scancodes
  <2>1. PICK k \in Chars, down \in BOOLEAN :
          \E b \in Range(Bytes(k, down)) : ps2' = kbd_send_code(ps2, b)
    BY <1>18 DEF keyboard_send_scancodes
  <2>2. ps2' \in Good
    BY <1>0, <2>1, ScancodeSent
  <2> QED
    BY <1>18, <2>2 DEF keyboard_send_scancodes, PageEvent, Kept
<1>8. CASE restart
  BY <1>8 DEF restart, PageEvent, Kept
<1>9. CASE restore_state
  <2>1. ps2' \in Good /\ astray' \in BOOLEAN
    BY <1>0, <1>9, RestoredGood DEF restore_state, Lost
  <2> QED
    BY <1>9, <2>1 DEF restore_state, PageEvent, Kept
<1>10. CASE bios_port60_write
  <2>1. PICK a \in Values : ps2' = port60_write(ps2, a)
    BY <1>10 DEF bios_port60_write
  <2>2. a \in Nat
    BY InputAssumption
  <2>3. ps2' \in Good
    BY <1>0, <2>1, <2>2, Write60Handled DEF Handled
  <2> QED
    BY <1>10, <2>3 DEF bios_port60_write, Bios, adapterVars, Kept
<1>11. CASE bios_port64_write
  <2>1. PICK a \in Orders : ps2' = port64_write(ps2, a)
    BY <1>11 DEF bios_port64_write
  <2>2. a \in Nat
    BY InputAssumption
  <2>3. ps2' \in Good
    BY <1>0, <2>1, <2>2, Write64Handled DEF Handled
  <2> QED
    BY <1>11, <2>3 DEF bios_port64_write, Bios, adapterVars, Kept
<1>12. ASSUME ReadByte
       PROVE  seen' \in Seens
  <2>1. seen' \in {NothingSeen, seen, Take(seen, ByteAt60(ps2))}
    BY <1>12 DEF ReadByte
  <2>2. NothingSeen \in Seens
    BY DEF NothingSeen, Seens
  <2>3. seen \in Seens /\ ByteAt60(ps2) \in Int
    BY <1>0, ByteInt DEF Kept
  <2> QED
    BY <2>1, <2>2, <2>3, TakeTyped
<1>13. CASE bios_read
  <2>1. ps2' \in Good /\ seen' \in Seens
    BY <1>0, <1>12, <1>13, ReadGood DEF bios_read
  <2> QED
    BY <1>13, <2>1 DEF bios_read, ReadByte, adapterVars, Kept
<1>14. CASE boot
  <2>1. [ps2 EXCEPT !.pending = {}] \in Good
    BY <1>0, Taken
  <2>2. ps2' \in Good
    BY <1>14, <2>1 DEF boot
  <2> QED
    BY <1>14, <2>2 DEF boot, adapterVars, Kept
<1>15. CASE keyboard_handler
  <2> DEFINE S == ps2.pending \ {1}
             u == [ps2 EXCEPT !.pending = S]
  <2>1. u \in Good
    BY <1>0, Taken
  <2>2. ps2' = port60_read(u) /\ ReadByte
    BY <1>15 DEF keyboard_handler
  <2> HIDE DEF u
  <2>3. ps2' \in Good /\ seen' \in Seens
    BY <1>12, <2>1, <2>2, ReadGood
  <2> QED
    BY <2>2, <2>3 DEF ReadByte, adapterVars, Kept
<1>16. CASE UNCHANGED vars
  BY <1>16 DEF vars, adapterVars, Kept
<1> QED
  BY <1>1, <1>2, <1>3, <1>4, <1>5, <1>6, <1>7, <1>8, <1>9, <1>10, <1>11, <1>13, <1>14, <1>15,
     <1>16, <1>17, <1>18 DEF Next

(* ByteReady, for every size of the queues, every set of keys and every    *)
(* mixture of keys, mouse packets and commands: a byte is announced        *)
(* exactly while there is one.                                             *)
THEOREM ByteReadyHolds == Spec => []ByteReady
<1>1. ASSUME Kept
      PROVE  ByteReady
  <2>1. ps2 \in Sane /\ Announced(ps2)
    BY <1>1 DEF Kept, Good
  <2>2. /\ ps2.kbd \in Queues /\ ps2.mouse \in Queues /\ ps2.ready \in BOOLEAN
        /\ ps2.pending \subseteq ps2.line /\ ps2.line \subseteq {1, 12}
    BY <2>1 DEF Sane, Controllers
  <2>3. TypeOK
    BY <1>1, <2>2 DEF Kept, Seens, TypeOK, Queues
  <2>4. ps2.ready = (ps2.kbd.length > 0 \/ ps2.mouse.length > 0)
    BY <2>1, <2>2 DEF Announced
  <2> QED
    BY <2>1, <2>3, <2>4 DEF Announced, Chosen, ByteReady
<1> QED
  BY KeptInit, KeptStep, <1>1, PTL DEF Spec
-----------------------------------------------------------------------------
(* Reading *)

(* What the guest makes of a list of bytes. *)
Read(s, bytes) == FoldLeft(Take, s, bytes)

(* A list of bytes is read one by one. *)
LEMMA ReadRun ==
  ASSUME NEW s \in Seens, NEW bytes \in Seq(Int)
  PROVE  \E r \in [0 .. Len(bytes) -> Seens] :
           /\ r[0] = s /\ r[Len(bytes)] = Read(s, bytes)
           /\ \A k \in 1 .. Len(bytes) : r[k] = Take(r[k - 1], bytes[k])
<1> DEFINE n == Len(bytes)
           step == [x \in (1 .. n) \X Seens |-> Take(x[2], bytes[x[1]])]
           F(h) == [i \in SUBSET DOMAIN bytes |->
                      IF i = {} THEN s ELSE Take(h[i \ {Max(i)}], bytes[Max(i)])]
           iter == CHOOSE h : h = F(h)
<1>1. n \in Nat /\ DOMAIN bytes = 1 .. n /\ \A k \in 1 .. n : bytes[k] \in Int
  OBVIOUS
<1> HIDE DEF n
<1>2. step \in [(1 .. n) \X Seens -> Seens]
  <2>1. \A x \in (1 .. n) \X Seens : Take(x[2], bytes[x[1]]) \in Seens
    BY <1>1, TakeTyped
  <2> QED
    BY <2>1
<1>3. PICK g \in [SUBSET (1 .. n) -> Seens] : FoldTable(g, n, s, step)
  BY <1>1, <1>2, FoldTableExists
<1>4. g = F(g)
  <2>1. ASSUME NEW i \in SUBSET (1 .. n), i # {}
        PROVE  g[i] = Take(g[i \ {Max(i)}], bytes[Max(i)])
    <3>1. Max(i) \in 1 .. n
      BY <1>1, <2>1, MaxProps
    <3>2. g[i \ {Max(i)}] \in Seens
      BY <1>3
    <3>3. g[i] = step[<<Max(i), g[i \ {Max(i)}]>>]
      BY <1>3, <2>1 DEF FoldTable
    <3> QED
      BY <3>1, <3>2, <3>3
  <2>2. g[{}] = s
    BY <1>3 DEF FoldTable
  <2>3. \A i \in SUBSET (1 .. n) : g[i] = F(g)[i]
    BY <1>1, <2>1, <2>2
  <2> HIDE DEF step
  <2> QED
    BY <1>1, <1>3, <2>3
<1>5. iter = F(iter)
  <2> HIDE DEF F
  <2> QED
    BY <1>4
<1>6. Read(s, bytes) = iter[1 .. n]
  BY <1>1 DEF Read, FoldLeft, MapThenFoldSet
<1> HIDE DEF iter
<1>7. iter[{}] = s
  BY <1>1, <1>5
<1>8. \A i \in SUBSET (1 .. n) : i # {} /\ iter[i \ {Max(i)}] \in Seens =>
        iter[i] = step[<<Max(i), iter[i \ {Max(i)}]>>]
  <2>1. SUFFICES ASSUME NEW i \in SUBSET (1 .. n), i # {}, iter[i \ {Max(i)}] \in Seens
                 PROVE  iter[i] = step[<<Max(i), iter[i \ {Max(i)}]>>]
    OBVIOUS
  <2>2. Max(i) \in 1 .. n
    BY <1>1, <2>1, MaxProps
  <2>3. iter[i] = Take(iter[i \ {Max(i)}], bytes[Max(i)])
    BY <1>1, <1>5, <2>1
  <2> QED
    BY <2>1, <2>2, <2>3
<1>9. PICK r \in [0 .. n -> Seens] : r[n] = iter[1 .. n] /\ IsRun(r, n, s, step)
  <2>1. IsFold(iter, Seens, n, s, step)
    BY <1>7, <1>8 DEF IsFold
  <2> HIDE DEF step
  <2> QED
    BY <1>1, <1>2, <2>1, FoldRun
<1>10. \A k \in 1 .. n : r[k] = Take(r[k - 1], bytes[k])
  <2>1. TAKE k \in 1 .. n
  <2>2. k - 1 \in 0 .. n
    BY <1>1
  <2>3. r[k - 1] \in Seens /\ r[k] = step[<<k, r[k - 1]>>]
    BY <1>9, <2>2 DEF IsRun
  <2> QED
    BY <2>3
<1> QED
  BY <1>6, <1>9, <1>10 DEF n, IsRun

LEMMA ReadTyped ==
  ASSUME NEW s \in Seens, NEW q \in Seq(Int)
  PROVE  Read(s, q) \in Seens
<1> DEFINE n == Len(q)
<1>1. PICK r \in [0 .. n -> Seens] :
        /\ r[0] = s /\ r[n] = Read(s, q)
        /\ \A k \in 1 .. n : r[k] = Take(r[k - 1], q[k])
  BY ReadRun
<1>2. n \in Nat
  OBVIOUS
<1> HIDE DEF n
<1> QED
  BY <1>1, <1>2

LEMMA ReadNothing ==
  ASSUME NEW s \in Seens
  PROVE  Read(s, << >>) = s
<1> DEFINE q == << >>
<1>1. q \in Seq(Int) /\ Len(q) = 0
  OBVIOUS
<1> HIDE DEF q
<1>2. PICK r \in [0 .. Len(q) -> Seens] :
        /\ r[0] = s /\ r[Len(q)] = Read(s, q)
        /\ \A k \in 1 .. Len(q) : r[k] = Take(r[k - 1], q[k])
  BY <1>1, ReadRun
<1> QED
  BY <1>1, <1>2 DEF q

(* One more byte at the end. *)
LEMMA ReadSnoc ==
  ASSUME NEW s \in Seens, NEW q \in Seq(Int), NEW b \in Int
  PROVE  Read(s, Append(q, b)) = Take(Read(s, q), b)
<1> DEFINE n == Len(q)
           w == Append(q, b)
<1>1. n \in Nat /\ w \in Seq(Int) /\ Len(w) = n + 1 /\ w[n + 1] = b
      /\ \A k \in 1 .. n : w[k] = q[k]
  OBVIOUS
<1>2. PICK r \in [0 .. n -> Seens] :
        /\ r[0] = s /\ r[n] = Read(s, q)
        /\ \A k \in 1 .. n : r[k] = Take(r[k - 1], q[k])
  BY ReadRun
<1> HIDE DEF n, w
<1>3. PICK t \in [0 .. Len(w) -> Seens] :
        /\ t[0] = s /\ t[Len(w)] = Read(s, w)
        /\ \A k \in 1 .. Len(w) : t[k] = Take(t[k - 1], w[k])
  BY <1>1, ReadRun
<1>4. \A k \in 0 .. n : t[k] = r[k]
  <2>1. \A k \in 1 .. n : t[k - 1] = r[k - 1] => t[k] = r[k]
    <3>1. TAKE k \in 1 .. n
    <3>2. k \in 1 .. Len(w)
      BY <1>1
    <3> QED
      BY <1>1, <1>2, <1>3, <3>2
  <2>2. t[0] = r[0]
    BY <1>2, <1>3
  <2>3. Agreeing(n, t, r)
    BY <2>1, <2>2 DEF Agreeing
  <2> QED
    BY <1>1, <2>3, RunsAgree
<1>5. t[n + 1] = Take(t[n], b)
  <2>1. n + 1 \in 1 .. Len(w) /\ n + 1 - 1 = n
    BY <1>1
  <2> QED
    BY <1>1, <1>3, <2>1
<1>6. t[n] = r[n]
  BY <1>1, <1>4
<1> QED
  BY <1>1, <1>2, <1>3, <1>5, <1>6 DEF w

(* The first byte. *)
LEMMA ReadFirst ==
  ASSUME NEW s \in Seens, NEW q \in Seq(Int), NEW w \in Seq(Int), Len(q) = Len(w) + 1,
         \A k \in 1 .. Len(w) : w[k] = q[k + 1]
  PROVE  Read(s, q) = Read(Take(s, q[1]), w)
<1> DEFINE n == Len(w)
<1>1. n \in Nat /\ Len(q) = n + 1 /\ q[1] \in Int
  BY LenProperties
<1>2. PICK r \in [0 .. Len(q) -> Seens] :
        /\ r[0] = s /\ r[Len(q)] = Read(s, q)
        /\ \A k \in 1 .. Len(q) : r[k] = Take(r[k - 1], q[k])
  BY ReadRun
<1>3. Take(s, q[1]) \in Seens
  BY <1>1, TakeTyped
<1>4. PICK t \in [0 .. n -> Seens] :
        /\ t[0] = Take(s, q[1]) /\ t[n] = Read(Take(s, q[1]), w)
        /\ \A k \in 1 .. n : t[k] = Take(t[k - 1], w[k])
  BY <1>3, ReadRun
<1> DEFINE u == [k \in 0 .. n |-> r[k + 1]]
<1>5. \A k \in 1 .. n : w[k] = q[k + 1]
  OBVIOUS
<1> HIDE DEF n
<1>6. u[0] = t[0]
  <2>1. 1 \in 1 .. Len(q) /\ 1 - 1 = 0 /\ 0 \in 0 .. n /\ 0 + 1 = 1
    BY <1>1
  <2>2. r[1] = Take(r[1 - 1], q[1])
    BY <1>2, <2>1
  <2> QED
    BY <1>2, <1>4, <2>1, <2>2
<1>7. \A k \in 1 .. n : u[k - 1] = t[k - 1] => u[k] = t[k]
  <2>1. SUFFICES ASSUME NEW k \in 1 .. n, u[k - 1] = t[k - 1]
                 PROVE  u[k] = t[k]
    OBVIOUS
  <2>2. /\ k + 1 \in 1 .. Len(q) /\ k + 1 - 1 = k /\ k \in 0 .. n /\ k - 1 \in 0 .. n
        /\ (k - 1) + 1 = k
    <3>1. n \in Nat /\ Len(q) = n + 1
      BY <1>1
    <3>2. /\ k + 1 \in 1 .. n + 1 /\ k + 1 - 1 = k /\ k \in 0 .. n /\ k - 1 \in 0 .. n
          /\ (k - 1) + 1 = k
      BY <3>1
    <3> QED
      BY <3>1, <3>2, Zenon
  <2>3. r[k + 1] = Take(r[k], q[k + 1])
    <3> DEFINE m == k + 1
    <3>1. m \in 1 .. Len(q) /\ m - 1 = k
      BY <2>2
    <3> HIDE DEF m
    <3>2. r[m] = Take(r[m - 1], q[m])
      BY <1>2, <3>1
    <3> QED
      BY <3>1, <3>2 DEF m
  <2>4. u[k] = r[k + 1] /\ u[k - 1] = r[k]
    BY <2>2
  <2>5. w[k] = q[k + 1] /\ t[k] = Take(t[k - 1], w[k])
    BY <1>4, <1>5
  <2> QED
    BY <2>1, <2>2, <2>3, <2>4, <2>5
<1>8. u[n] = t[n]
  <2>1. \A k \in 0 .. n : u[k] = t[k]
    <3> HIDE DEF u
    <3>1. Agreeing(n, u, t)
      BY <1>6, <1>7 DEF Agreeing
    <3> QED
      <4>1. n \in Nat
        BY <1>1
      <4> HIDE DEF n, Agreeing
      <4> QED
        BY <3>1, <4>1, RunsAgree
  <2> QED
    BY <1>1, <2>1
<1>9. u[n] = r[n + 1]
  BY <1>1
<1> QED
  BY <1>1, <1>2, <1>4, <1>8, <1>9 DEF n

(* What is added at the end, byte by byte. *)
LEMMA ConcatShort ==
  ASSUME NEW q \in Seq(Int), NEW b \in Int, NEW c \in Int
  PROVE  q \o <<b>> = Append(q, b) /\ q \o <<c, b>> = Append(Append(q, c), b)
OBVIOUS

LEMMA OneByteArith ==
  ASSUME NEW k \in 1 .. 95
  PROVE  /\ k <= 255 /\ k % 256 = k /\ k % 128 = k /\ (k + 128) % 128 = k
         /\ k < 128 /\ k # 224 /\ k + 128 >= 128 /\ k + 128 < 256 /\ k + 128 # 224
OBVIOUS

(* The last byte of a key has the key's number and says whether it goes    *)
(* down; first says whether another byte precedes it.                      *)
Ends(b, k, first, down) ==
  /\ b \in Int /\ b < 256 /\ b # 224 /\ (b < 128 <=> down)
  /\ (IF first THEN 224 * 256 ELSE 0) + (b % 128) = k

Sends(k, first, b, c) ==
  /\ Bytes(k, TRUE) = (IF first THEN <<224, b>> ELSE <<b>>)
  /\ Bytes(k, FALSE) = (IF first THEN <<224, c>> ELSE <<c>>)
  /\ Ends(b, k, first, TRUE) /\ Ends(c, k, first, FALSE)

LEMMA OneByteSent ==
  ASSUME NEW k \in 1 .. 95
  PROVE  Sends(k, FALSE, k, k + 128)
<1>1. ~(k > 255) /\ k % 256 = k /\ k + 0 = k
  BY OneByteArith
<1>2. Bytes(k, TRUE) = <<(k % 256) + 0>> /\ Bytes(k, FALSE) = <<(k % 256) + 128>>
  BY <1>1 DEF Bytes
<1>3. Bytes(k, TRUE) = <<k>> /\ Bytes(k, FALSE) = <<k + 128>>
  BY <1>1, <1>2, Zenon
<1>4. Ends(k, k, FALSE, TRUE) /\ Ends(k + 128, k, FALSE, FALSE)
  BY OneByteArith DEF Ends
<1> QED
  BY <1>3, <1>4, Zenon DEF Sends

(* k is the j-th of the codes that are sent as two bytes. *)
Second(k, j) == j \in 1 .. 95 /\ k = 57344 + j

LEMMA SecondInt ==
  ASSUME NEW k, NEW j, Second(k, j)
  PROVE  j \in Int /\ j + 128 \in Int
BY DEF Second

LEMMA SecondArith ==
  ASSUME NEW k, NEW j, Second(k, j)
  PROVE  /\ k > 255 /\ k \div 256 = 224 /\ (k % 256) + 0 = j /\ (k % 256) + 128 = j + 128
         /\ j \in Int /\ j + 128 \in Int
         /\ Ends(j, k, TRUE, TRUE) /\ Ends(j + 128, k, TRUE, FALSE)
<1>1. j \in 1 .. 95 /\ k = 57344 + j
  BY DEF Second
<1>2. /\ k > 255 /\ k \div 256 = 224 /\ (k % 256) + 0 = j /\ (k % 256) + 128 = j + 128
      /\ j \in Int /\ j + 128 \in Int
  BY <1>1
<1>3. /\ j % 128 = j /\ (j + 128) % 128 = j
      /\ j < 128 /\ j # 224 /\ j + 128 >= 128 /\ j + 128 < 256 /\ j + 128 # 224
  BY <1>1
<1>4. 224 * 256 + j = k
  BY <1>1
<1>5. Ends(j, k, TRUE, TRUE)
  BY <1>2, <1>3, <1>4 DEF Ends
<1>6. Ends(j + 128, k, TRUE, FALSE)
  BY <1>2, <1>3, <1>4 DEF Ends
<1> QED
  BY <1>2, <1>5, <1>6

LEMMA TwoBytesSent ==
  ASSUME NEW k, NEW j, Second(k, j)
  PROVE  Sends(k, TRUE, j, j + 128)
<1>1. /\ k > 255 /\ k \div 256 = 224 /\ (k % 256) + 0 = j /\ (k % 256) + 128 = j + 128
      /\ j \in Int /\ j + 128 \in Int
      /\ Ends(j, k, TRUE, TRUE) /\ Ends(j + 128, k, TRUE, FALSE)
  BY SecondArith
<1>2. Bytes(k, TRUE) = <<k \div 256, (k % 256) + 0>>
  BY <1>1 DEF Bytes
<1>3. Bytes(k, FALSE) = <<k \div 256, (k % 256) + 128>>
  BY <1>1 DEF Bytes
<1>4. Bytes(k, TRUE) = <<224, j>>
  BY <1>1, <1>2, Zenon
<1>5. Bytes(k, FALSE) = <<224, j + 128>>
  BY <1>1, <1>3, Zenon
<1> QED
  BY <1>1, <1>4, <1>5, Zenon DEF Sends

LEMMA KeySent ==
  ASSUME NEW k \in Keys
  PROVE  \E first \in BOOLEAN, b \in Int, c \in Int : Sends(k, first, b, c)
<1>1. k \in OneByte \/ k \in TwoBytes
  BY InputAssumption
<1>2. CASE k \in OneByte
  <2>1. k \in 1 .. 95
    BY <1>2 DEF OneByte
  <2>2. k \in Int /\ k + 128 \in Int
    BY <2>1
  <2>3. Sends(k, FALSE, k, k + 128)
    BY <2>1, OneByteSent
  <2> QED
    BY <2>2, <2>3
<1>3. CASE k \in TwoBytes
  <2>1. PICK j : Second(k, j)
    <3> DEFINE j == k - 57344
    <3>1. j \in 1 .. 95 /\ k = 57344 + j
      BY <1>3 DEF TwoBytes
    <3> HIDE DEF j
    <3>2. Second(k, j)
      BY <3>1 DEF Second
    <3> QED
      BY <3>2, Zenon
  <2>2. j \in Int /\ j + 128 \in Int
    BY <2>1, SecondInt
  <2>3. Sends(k, TRUE, j, j + 128)
    BY <2>1, TwoBytesSent
  <2> QED
    BY <2>2, <2>3
<1> QED
  BY <1>1, <1>2, <1>3

LEMMA TakeAnswer ==
  ASSUME NEW s \in Seens, NEW b \in Answers
  PROVE  Take(s, b) = s
BY DEF Take, Answers

LEMMA TakeFirst ==
  ASSUME NEW s \in Seens
  PROVE  Take(s, 224) = [down |-> s.down, ext |-> TRUE]
<1>1. Take(s, 224) = [s EXCEPT !.ext = TRUE]
  BY DEF Take
<1> QED
  BY <1>1 DEF Seens

LEMMA TakeLast ==
  ASSUME NEW s \in Seens, NEW b, NEW k \in Keys, NEW down \in BOOLEAN,
         Ends(b, k, s.ext, down)
  PROVE  Take(s, b) = [down |-> IF down THEN s.down \cup {k} ELSE s.down \ {k}, ext |-> FALSE]
<1> DEFINE code == (IF s.ext THEN 224 * 256 ELSE 0) + (b % 128)
<1>1. Take(s, b) = CASE b >= 256 -> s
                     [] b = 224 -> [s EXCEPT !.ext = TRUE]
                     [] b < 256 /\ b # 224 /\ code \notin Keys -> [s EXCEPT !.ext = FALSE]
                     [] OTHER -> [down |-> IF b < 128 THEN s.down \cup {code} ELSE s.down \ {code},
                                  ext  |-> FALSE]
  BY DEF Take
<1>2. code = k /\ b \in Int /\ b < 256 /\ b # 224 /\ (b < 128 <=> down)
  BY DEF Ends
<1> HIDE DEF code
<1>3. ~(b >= 256)
  BY <1>2
<1> QED
  BY <1>1, <1>2, <1>3, ZenonT(90)

(* A key that is sent is read as that key. *)
LEMMA ReadKey ==
  ASSUME NEW s \in Seens, NEW q \in Seq(Int), NEW k \in Keys, Read(s, q).ext = FALSE
  PROVE  /\ Read(s, q \o Bytes(k, TRUE)) = [down |-> Read(s, q).down \cup {k}, ext |-> FALSE]
         /\ Read(s, q \o Bytes(k, FALSE)) = [down |-> Read(s, q).down \ {k}, ext |-> FALSE]
<1> DEFINE x == Read(s, q)
           Result(down) == [down |-> IF down THEN x.down \cup {k} ELSE x.down \ {k}, ext |-> FALSE]
<1>1. x \in Seens /\ x.ext = FALSE
  BY ReadTyped
<1>2. PICK first \in BOOLEAN, b \in Int, c \in Int : Sends(k, first, b, c)
  BY KeySent
<1>3. ASSUME NEW d \in Int, NEW down \in BOOLEAN, Ends(d, k, first, down)
      PROVE  Read(s, q \o (IF first THEN <<224, d>> ELSE <<d>>)) = Result(down)
  <2>1. CASE ~first
    <3>1. Read(s, q \o <<d>>) = Take(x, d)
      BY ConcatShort, ReadSnoc, ZenonT(90)
    <3> HIDE DEF x
    <3>2. Ends(d, k, x.ext, down)
      <4>1. x.ext = first
        BY <1>1, <2>1
      <4> QED
        BY <1>3, <4>1
    <3>4. Take(x, d) = Result(down)
      BY <1>1, <3>2, TakeLast
    <3> QED
      BY <2>1, <3>1, <3>4
  <2>2. CASE first
    <3> DEFINE y == [down |-> x.down, ext |-> TRUE]
               w == Append(q, 224)
    <3>1. q \o <<224, d>> = Append(w, d) /\ w \in Seq(Int)
      BY ConcatShort
    <3>2. Read(s, w) = Take(x, 224)
      BY ReadSnoc
    <3> HIDE DEF w
    <3>3. Read(s, q \o <<224, d>>) = Take(Read(s, w), d)
      BY <3>1, ReadSnoc
    <3> HIDE DEF x
    <3>4. Take(x, 224) = y
      BY <1>1, TakeFirst
    <3>5. y \in Seens /\ y.ext = TRUE /\ y.down = x.down
      BY <1>1 DEF Seens
    <3> HIDE DEF y
    <3>6. Ends(d, k, y.ext, down)
      <4>1. y.ext = first
        BY <2>2, <3>5
      <4> QED
        BY <1>3, <4>1
    <3>7. Take(y, d) = Result(down)
      BY <3>5, <3>6, TakeLast
    <3> QED
      BY <2>2, <3>2, <3>3, <3>4, <3>7, ZenonT(60)
  <2> QED
    BY <2>1, <2>2
<1>4. /\ Read(s, q \o Bytes(k, TRUE)) = Result(TRUE)
      /\ Read(s, q \o Bytes(k, FALSE)) = Result(FALSE)
  <2> HIDE DEF Result
  <2> QED
    BY <1>2, <1>3, ZenonT(90) DEF Sends
<1> QED
  BY <1>4

-----------------------------------------------------------------------------
(* Queues whose place to write is the one after their last byte. *)
Tidy(q) == q.at = q.length % Size

LEMMA TidyAt ==
  ASSUME NEW q \in Queues
  PROVE  Tidy(q) <=> q.at = (IF q.length = Size THEN 0 ELSE q.length)
<1> DEFINE n == q.length
<1>1. n \in 0 .. Size
  BY DEF Queues
<1>2. n % Size = IF n = Size THEN 0 ELSE n
  <2> HIDE DEF n
  <2>1. CASE n = Size
    BY <2>1, SizeOk, RingSteps
  <2>2. CASE n # Size
    <3>1. n \in 0 .. Size - 1
      BY <1>1, <2>2, SizeOk
    <3> QED
      BY <2>2, <3>1, SizeOk, RingSteps
  <2> QED
    BY <2>1, <2>2
<1> DEFINE m == n % Size
<1>3. Tidy(q) <=> q.at = m
  BY DEF Tidy
<1>4. m = IF n = Size THEN 0 ELSE n
  BY <1>2
<1> HIDE DEF m, n
<1>5. Tidy(q) <=> q.at = (IF n = Size THEN 0 ELSE n)
  BY <1>3, <1>4
<1> QED
  BY <1>5 DEF n

LEMMA QueueContents ==
  ASSUME NEW q \in Queues
  PROVE  /\ Contents(q) \in Seq(Int) /\ Len(Contents(q)) = q.length
         /\ \A i \in 1 .. q.length : Contents(q)[i] = q.cells[i]
<1> DEFINE c == q.cells
           n == q.length
<1>1. c \in [1 .. Size -> Int] /\ n \in 0 .. Size
  BY DEF Queues
<1>2. Contents(q) = SubSeq(c, 1, n)
  BY DEF Contents
<1> HIDE DEF c, n
<1>3. c \in Seq(Int) /\ Len(c) = Size
  BY <1>1, SizeOk
<1>4. /\ SubSeq(c, 1, n) \in Seq(Int) /\ Len(SubSeq(c, 1, n)) = n
      /\ \A i \in 1 .. n : SubSeq(c, 1, n)[i] = c[i]
  BY <1>1, <1>3, SizeOk
<1> QED
  BY <1>2, <1>4 DEF c, n

(* Two lists of one length with the same elements are the same. *)
LEMMA SameList ==
  ASSUME NEW s \in Seq(Int), NEW t \in Seq(Int), Len(s) = Len(t),
         \A i \in 1 .. Len(s) : s[i] = t[i]
  PROVE  s = t
OBVIOUS

LEMMA TidyPush ==
  ASSUME NEW q \in Queues, NEW b \in Int, Tidy(q), q.length < Size
  PROVE  /\ push(q, b) \in Queues /\ Tidy(push(q, b)) /\ push(q, b).length = q.length + 1
         /\ Contents(push(q, b)) = Append(Contents(q), b)
<1> DEFINE r == push(q, b)
           c == Contents(q)
           n == q.length
<1>1. n \in 0 .. Size - 1 /\ q.at = n
  BY TidyAt, SizeOk DEF Queues
<1>2. /\ r \in Queues /\ r.length = n + 1
      /\ r.at = (IF q.at = Size - 1 THEN 0 ELSE q.at + 1)
      /\ r.cells = [q.cells EXCEPT ![q.at + 1] = b]
  BY <1>1, PushQueue, SizeOk
<1>3. q.cells \in [1 .. Size -> Int]
  BY DEF Queues
<1> HIDE DEF r
<1>4. Tidy(r)
  <2>1. r.at = (IF r.length = Size THEN 0 ELSE r.length)
    BY <1>1, <1>2, SizeOk
  <2> QED
    BY <1>2, <2>1, TidyAt
<1>5. /\ c \in Seq(Int) /\ Len(c) = n /\ \A i \in 1 .. n : c[i] = q.cells[i]
  BY QueueContents
<1>6. /\ Contents(r) \in Seq(Int) /\ Len(Contents(r)) = n + 1
      /\ \A i \in 1 .. n + 1 : Contents(r)[i] = r.cells[i]
  BY <1>2, QueueContents
<1> DEFINE d == Contents(r)
           e == Append(c, b)
<1> HIDE DEF c, d, n
<1>7. e \in Seq(Int) /\ Len(e) = n + 1 /\ e[n + 1] = b /\ \A i \in 1 .. n : e[i] = c[i]
  BY <1>5
<1>8. d \in Seq(Int) /\ Len(d) = n + 1 /\ \A i \in 1 .. n + 1 : d[i] = r.cells[i]
  BY <1>6 DEF d
<1> HIDE DEF e
<1>9. \A i \in 1 .. n + 1 : d[i] = e[i]
  <2>1. TAKE i \in 1 .. n + 1
  <2>2. CASE i = n + 1
    <3>1. r.cells[n + 1] = b
      <4>1. q.at + 1 \in 1 .. Size /\ q.at + 1 = n + 1
        BY <1>1, SizeOk
      <4>2. r.cells[q.at + 1] = b
        BY <1>2, <1>3, <4>1
      <4> QED
        BY <4>1, <4>2
    <3> QED
      BY <1>1, <1>7, <1>8, <2>2, <3>1
  <2>3. CASE i # n + 1
    <3>1. i \in 1 .. n
      BY <1>1, <2>3
    <3>2. r.cells[i] = q.cells[i]
      BY <1>1, <1>2, <1>3, <3>1
    <3> QED
      BY <1>5, <1>7, <1>8, <3>1, <3>2
  <2> QED
    BY <2>2, <2>3
<1>10. d = e
  BY <1>7, <1>8, <1>9, SameList
<1> QED
  BY <1>2, <1>4, <1>10 DEF r, d, e, c, n

LEMMA TidyShift ==
  ASSUME NEW q \in Queues, Tidy(q), q.length > 0
  PROVE  /\ shift(q) \in Queues /\ Tidy(shift(q))
         /\ Len(Contents(q)) = Len(Contents(shift(q))) + 1
         /\ \A i \in 1 .. Len(Contents(shift(q))) : Contents(shift(q))[i] = Contents(q)[i + 1]
         /\ Contents(q)[1] = Head(q.cells)
<1> DEFINE r == shift(q)
           n == q.length
<1>1. n \in 1 .. Size /\ q.at = (IF n = Size THEN 0 ELSE n)
  BY TidyAt, SizeOk DEF Queues
<1>2. /\ r \in Queues /\ r.length = n - 1
      /\ r.at = (IF q.at = 0 THEN Size - 1 ELSE q.at - 1)
      /\ \A i \in 1 .. n - 1 : r.cells[i] = q.cells[i + 1]
  BY ShiftQueue
<1> HIDE DEF r
<1>3. Tidy(r)
  <2>1. r.at = (IF r.length = Size THEN 0 ELSE r.length)
    <3> HIDE DEF n
    <3> QED
      BY <1>1, <1>2, SizeOk
  <2> QED
    BY <1>2, <2>1, TidyAt
<1>4. Len(Contents(q)) = n /\ \A i \in 1 .. n : Contents(q)[i] = q.cells[i]
  BY QueueContents
<1>5. Len(Contents(r)) = n - 1 /\ \A i \in 1 .. n - 1 : Contents(r)[i] = r.cells[i]
  BY <1>2, QueueContents
<1> HIDE DEF n
<1>6. \A i \in 1 .. n - 1 : Contents(r)[i] = Contents(q)[i + 1]
  BY <1>1, <1>2, <1>4, <1>5
<1>7. Contents(q)[1] = q.cells[1]
  BY <1>1, <1>4
<1>8. Head(q.cells) = q.cells[1]
  <2>1. q.cells \in [1 .. Size -> Int]
    BY DEF Queues
  <2>2. q.cells \in Seq(Int) /\ q.cells # << >>
    BY <2>1, SizeOk
  <2> QED
    BY <2>2
<1> QED
  BY <1>1, <1>2, <1>3, <1>4, <1>5, <1>6, <1>7, <1>8 DEF r

LEMMA TidyEmpty == Empty \in Queues /\ Tidy(Empty) /\ Empty.length = 0 /\ Contents(Empty) = << >>
<1>1. Empty \in Queues /\ Empty.length = 0 /\ Empty.at = 0
  BY EmptyQueue
<1>2. Tidy(Empty)
  BY <1>1, TidyAt, SizeOk
<1>3. Contents(Empty) \in Seq(Int) /\ Len(Contents(Empty)) = 0
  BY <1>1, QueueContents
<1> QED
  BY <1>1, <1>2, <1>3

-----------------------------------------------------------------------------
(* Answers are not taken for keys. *)

Quiet(q) == q \in Queues /\ Tidy(q) /\ Read(NothingSeen, Contents(q)) = NothingSeen

LEMMA NothingTyped == NothingSeen \in Seens
BY DEF NothingSeen, Seens

LEMMA EmptyQuiet == Quiet(Empty)
BY TidyEmpty, NothingTyped, ReadNothing DEF Quiet

(* A push on a full queue moves the place to write on. *)
LEMMA FullPush ==
  ASSUME NEW q \in Queues, NEW b \in Int, q.length = Size, q.at \in {0, 1}
  PROVE  push(q, b) \in Queues /\ push(q, b).length = Size /\ push(q, b).at = q.at + 1
<1>1. /\ push(q, b) \in Queues /\ push(q, b).length = Size
      /\ push(q, b).at = (IF q.at = Size - 1 THEN 0 ELSE q.at + 1)
  BY PushQueue
<1>2. q.at # Size - 1
  BY SizeOk
<1> QED
  BY <1>1, <1>2

LEMMA OneQuiet ==
  ASSUME NEW q, Quiet(q), NEW r \in One(q)
  PROVE  /\ q.length < Size => Quiet(r) /\ r.length = q.length + 1
         /\ ~(q.length < Size) => r \in Queues /\ r.length = Size /\ r.at = 1
<1>1. q \in Queues /\ Tidy(q) /\ Read(NothingSeen, Contents(q)) = NothingSeen
  BY DEF Quiet
<1>2. PICK b \in Answers : r = push(q, b)
  BY DEF One
<1>3. b \in Int
  BY DEF Answers
<1>4. ASSUME q.length < Size
      PROVE  Quiet(r) /\ r.length = q.length + 1
  <2>1. /\ r \in Queues /\ Tidy(r) /\ r.length = q.length + 1
        /\ Contents(r) = Append(Contents(q), b)
    BY <1>1, <1>2, <1>3, <1>4, TidyPush
  <2>2. Read(NothingSeen, Contents(r)) = Take(NothingSeen, b)
    BY <1>1, <1>3, <2>1, QueueContents, NothingTyped, ReadSnoc
  <2> QED
    BY <2>1, <2>2, NothingTyped, TakeAnswer DEF Quiet
<1>5. ASSUME ~(q.length < Size)
      PROVE  r \in Queues /\ r.length = Size /\ r.at = 1
  <2>1. q.length = Size
    BY <1>1, <1>5, SizeOk DEF Queues
  <2>2. q.at = 0
    BY <1>1, <2>1, TidyAt
  <2> QED
    BY <1>1, <1>2, <1>3, <2>1, <2>2, FullPush
<1> QED
  BY <1>4, <1>5

LEMMA NotTidy ==
  ASSUME NEW q \in Queues, q.length = Size, q.at \in {1, 2}
  PROVE  ~Tidy(q)
BY TidyAt, SizeOk

LEMMA TwoQuiet ==
  ASSUME NEW q, Quiet(q), NEW r \in Two(q), Tidy(r)
  PROVE  Quiet(r)
<1>1. PICK x \in One(q) : r \in One(x)
  BY DEF Two
<1>2. CASE q.length < Size
  <2>1. Quiet(x)
    BY <1>2, OneQuiet
  <2>2. CASE x.length < Size
    BY <1>1, <2>1, <2>2, OneQuiet
  <2>3. CASE ~(x.length < Size)
    BY <1>1, <2>1, <2>3, OneQuiet, NotTidy
  <2> QED
    BY <2>2, <2>3
<1>3. CASE ~(q.length < Size)
  <2>1. x \in Queues /\ x.length = Size /\ x.at = 1
    BY <1>3, OneQuiet
  <2>2. PICK b \in Answers : r = push(x, b)
    BY <1>1 DEF One
  <2>3. b \in Int
    BY DEF Answers
  <2>4. r \in Queues /\ r.length = Size /\ r.at = 2
    BY <2>1, <2>2, <2>3, FullPush
  <2> QED
    BY <2>4, NotTidy
<1> QED
  BY <1>2, <1>3

LEMMA ThreeQuiet ==
  ASSUME NEW r \in Three(Empty)
  PROVE  Quiet(r)
<1>1. PICK y \in Two(Empty) : r \in One(y)
  BY DEF Three
<1>2. PICK x \in One(Empty) : y \in One(x)
  BY DEF Two
<1>3. Quiet(x) /\ x.length = 1
  BY EmptyQuiet, TidyEmpty, SizeOk, OneQuiet
<1>4. Quiet(y) /\ y.length = 2
  BY <1>2, <1>3, SizeOk, OneQuiet
<1> QED
  BY <1>1, <1>4, SizeOk, OneQuiet

LEMMA AnsweredQuiet ==
  ASSUME NEW q, Quiet(q), NEW r \in Answered(q), Tidy(r)
  PROVE  Quiet(r)
<1>1. CASE r \in One(q)
  BY <1>1, OneQuiet, NotTidy
<1>2. CASE r \in One(Empty)
  BY <1>2, EmptyQuiet, OneQuiet, NotTidy
<1>3. CASE r \in Two(q) \/ r \in Two(Empty)
  BY <1>3, EmptyQuiet, TwoQuiet
<1>4. CASE r \in Three(Empty)
  BY <1>4, ThreeQuiet
<1> QED
  BY <1>1, <1>2, <1>3, <1>4, EmptyQuiet DEF Answered

-----------------------------------------------------------------------------
(* The adapter *)

(* Adapters whose bytes, read after those of c, leave the guest with the   *)
(* keys that are pressed, those of Y aside.                                *)
Faithful(s, c, Y) ==
  {a \in Adapters : /\ Read(s, c \o a.out).ext = FALSE
                    /\ Read(s, c \o a.out).down \ Y = a.pressed \ Y}

LEMMA Assoc ==
  ASSUME NEW c \in Seq(Int), NEW d \in Seq(Int), NEW e \in Seq(Int)
  PROVE  c \o (d \o e) = (c \o d) \o e
OBVIOUS

LEMMA PressFaithful ==
  ASSUME NEW s \in Seens, NEW c \in Seq(Int), NEW Y, NEW a \in Faithful(s, c, Y), NEW k \in Keys
  PROVE  Press(a, k) \in Faithful(s, c, Y)
<1> DEFINE o == a.out
           t == Bytes(k, TRUE)
           q == c \o o
           b == Press(a, k)
<1>1. a \in Adapters /\ Read(s, q).ext = FALSE /\ Read(s, q).down \ Y = a.pressed \ Y
  BY DEF Faithful
<1>2. b \in Adapters /\ b.pressed = a.pressed \cup {k} /\ b.out = o \o t
  BY <1>1, PressTyped
<1>3. t \in Seq(Int)
  BY KeysNat, BytesInt
<1>4. o \in Seq(Int)
  BY <1>1, AdapterFields
<1> HIDE DEF b, o
<1>5. q \in Seq(Int)
  BY <1>4, ConcatInt
<1>6. Read(s, q \o t) = [down |-> Read(s, q).down \cup {k}, ext |-> FALSE]
  <2> HIDE DEF q
  <2> QED
    BY <1>1, <1>5, ReadKey
<1> HIDE DEF t
<1>7. c \o b.out = q \o t
  BY <1>2, <1>3, <1>4, Assoc, SMTT(20)
<1> HIDE DEF q
<1>8. Read(s, c \o b.out) = [down |-> Read(s, q).down \cup {k}, ext |-> FALSE]
  BY <1>6, <1>7
<1>9. /\ Read(s, c \o b.out).ext = FALSE
      /\ Read(s, c \o b.out).down = Read(s, q).down \cup {k}
  BY <1>8
<1>10. b \in Faithful(s, c, Y)
  BY <1>1, <1>2, <1>9 DEF Faithful
<1> QED
  BY <1>10 DEF b

LEMMA ReleaseFaithful ==
  ASSUME NEW s \in Seens, NEW c \in Seq(Int), NEW Y, NEW a \in Faithful(s, c, Y), NEW k \in Keys
  PROVE  Release(a, k) \in Faithful(s, c, Y)
<1> DEFINE o == a.out
           t == Bytes(k, FALSE)
           q == c \o o
           b == Release(a, k)
<1>1. a \in Adapters /\ Read(s, q).ext = FALSE /\ Read(s, q).down \ Y = a.pressed \ Y
  BY DEF Faithful
<1>2. b \in Adapters /\ b.pressed = a.pressed \ {k} /\ b.out = o \o t
  BY <1>1, KeysNat, ReleaseTyped
<1>3. t \in Seq(Int)
  BY KeysNat, BytesInt
<1>4. o \in Seq(Int)
  BY <1>1, AdapterFields
<1> HIDE DEF b, o
<1>5. q \in Seq(Int)
  BY <1>4, ConcatInt
<1>6. Read(s, q \o t) = [down |-> Read(s, q).down \ {k}, ext |-> FALSE]
  <2> HIDE DEF q
  <2> QED
    BY <1>1, <1>5, ReadKey
<1> HIDE DEF t
<1>7. c \o b.out = q \o t
  BY <1>2, <1>3, <1>4, Assoc, SMTT(20)
<1> HIDE DEF q
<1>8. Read(s, c \o b.out) = [down |-> Read(s, q).down \ {k}, ext |-> FALSE]
  BY <1>6, <1>7
<1>9. /\ Read(s, c \o b.out).ext = FALSE
      /\ Read(s, c \o b.out).down = Read(s, q).down \ {k}
  BY <1>8
<1>10. b \in Faithful(s, c, Y)
  BY <1>1, <1>2, <1>9 DEF Faithful
<1> QED
  BY <1>10 DEF b

LEMMA HeldFaithful ==
  ASSUME NEW s, NEW c, NEW Y, NEW a \in Faithful(s, c, Y),
         NEW b \in Adapters, b.out = a.out, b.pressed = a.pressed
  PROVE  b \in Faithful(s, c, Y)
BY DEF Faithful

LEMMA SendFaithful ==
  ASSUME NEW s \in Seens, NEW c \in Seq(Int), NEW Y, NEW a \in Faithful(s, c, Y),
         NEW k \in Keys, NEW down \in BOOLEAN, NEW repeat \in BOOLEAN
  PROVE  Send(a, k, down, repeat) \in Faithful(s, c, Y)
<1>1. a \in Adapters
  BY DEF Faithful
<1>2. Send(a, k, down, repeat) \in {a, Release(a, k), Press(a, k), Press(Release(a, k), k)}
  BY <1>1, SendCases
<1>3. Release(a, k) \in Faithful(s, c, Y)
  BY ReleaseFaithful
<1>4. \A b \in {a, Release(a, k)} : Press(b, k) \in Faithful(s, c, Y)
  BY <1>3, PressFaithful
<1> QED
  BY <1>2, <1>3, <1>4

LEMMA AltGoneFaithful ==
  ASSUME NEW s \in Seens, NEW c \in Seq(Int), NEW Y, NEW a \in Faithful(s, c, Y),
         NEW altKey \in BOOLEAN
  PROVE  AltGone(a, altKey) \in Faithful(s, c, Y)
<1>1. a.pressed \in SUBSET Keys
  BY DEF Adapters, Faithful
<1>2. AltLeft \in Keys => Send(a, AltLeft, FALSE, FALSE) \in Faithful(s, c, Y)
  BY SendFaithful
<1> QED
  BY <1>1, <1>2 DEF AltGone

LEMMA EventFaithful ==
  ASSUME NEW s \in Seens, NEW c \in Seq(Int), NEW Y, NEW a \in Faithful(s, c, Y),
         NEW k \in Keys, NEW down \in BOOLEAN, NEW repeat \in BOOLEAN, NEW altGraph \in BOOLEAN,
         NEW code \in BOOLEAN
  PROVE  Event(a, k, down, repeat, altGraph, code) \in Faithful(s, c, Y)
<1> DEFINE false == altGraph /\ a.held.down = down /\ k = AltRight
           b == IF a.held.set /\ ~false
                THEN Send(a, ControlLeft, a.held.down, a.held.repeat) ELSE a
           f == [b EXCEPT !.held = Nothing]
           e == [f EXCEPT !.held = [down |-> down, repeat |-> repeat, set |-> TRUE]]
<1>1. a \in Adapters /\ a.held \in Held /\ (a.held.set => ControlLeft \in Keys)
  BY DEF Faithful, Adapters
<1>2. b \in Faithful(s, c, Y)
  BY <1>1, SendFaithful DEF Held
<1>3. Event(a, k, down, repeat, altGraph, code) =
        CASE ~emu_enabled -> a
          [] emu_enabled /\ windows /\ code /\ k = ControlLeft -> e
          [] OTHER -> Send(IF windows THEN f ELSE a, k, down, repeat)
  BY DEF Event
<1> HIDE DEF b
<1>4. b \in Adapters
  BY <1>2 DEF Faithful
<1>5. f \in Adapters /\ f.pressed = b.pressed /\ f.out = b.out
  BY <1>4 DEF Adapters, Held, Nothing
<1> HIDE DEF f
<1>6. e.pressed = f.pressed /\ e.out = f.out /\ (k = ControlLeft => e \in Adapters)
  BY <1>5 DEF Adapters, Held
<1> HIDE DEF e
<1>7. f \in Faithful(s, c, Y) /\ (k = ControlLeft => e \in Faithful(s, c, Y))
  BY <1>2, <1>5, <1>6, HeldFaithful
<1>8. /\ Send(f, k, down, repeat) \in Faithful(s, c, Y)
      /\ Send(a, k, down, repeat) \in Faithful(s, c, Y)
  BY <1>7, SendFaithful
<1> QED
  BY <1>3, <1>7, <1>8

LEMMA PressedFaithful ==
  ASSUME NEW s \in Seens, NEW c \in Seq(Int), NEW Y, NEW a \in Faithful(s, c, Y), NEW k \in Keys
  PROVE  simulate_press(a, k) \in Faithful(s, c, Y)
<1>1. Event(a, k, TRUE, FALSE, FALSE, FALSE) \in Faithful(s, c, Y)
  BY EventFaithful
<1> QED
  BY <1>1, EventFaithful DEF simulate_press

LEMMA ReleaseAllFaithful ==
  ASSUME NEW s \in Seens, NEW c \in Seq(Int), NEW Y, NEW a \in Faithful(s, c, Y)
  PROVE  ReleaseAll(a) \in Faithful(s, c, Y)
<1>1. a \in Adapters /\ a.pressed \in SUBSET Keys
  BY DEF Faithful, Adapters
<1>2. PICK h :
        /\ ReleaseAll(a) = h[a.pressed] /\ h[{}] = a
        /\ \A t \in SUBSET a.pressed :
             /\ h[t] \in Adapters /\ h[t].held = a.held
             /\ t # {} => Max(t) \in t /\ h[t] = Release(h[t \ {Max(t)}], Max(t))
  BY <1>1, ReleaseTable
<1> DEFINE P == {t \in SUBSET a.pressed : h[t] \in Faithful(s, c, Y)}
<1>3. PICK n \in Nat : Keys \subseteq 1 .. n
  BY KeysAre
<1>4. {} \in P
  BY <1>2
<1>5. \A t \in SUBSET a.pressed : t # {} /\ t \ {Max(t)} \in P => t \in P
  <2>1. SUFFICES ASSUME NEW t \in SUBSET a.pressed, t # {}, t \ {Max(t)} \in P
                 PROVE  h[t] \in Faithful(s, c, Y)
    OBVIOUS
  <2>2. h[t] = Release(h[t \ {Max(t)}], Max(t)) /\ Max(t) \in Keys
    BY <1>1, <1>2, <2>1
  <2> QED
    BY <2>1, <2>2, ReleaseFaithful
<1>6. a.pressed \in SUBSET (1 .. n)
  BY <1>1, <1>3
<1>7. SUBSET a.pressed \subseteq P
  <2> HIDE DEF P
  <2> QED
    BY <1>3, <1>4, <1>5, <1>6, MaxInduction
<1> QED
  BY <1>2, <1>7

(* Shift around the map. *)
LEMMA SendShift ==
  ASSUME NEW a \in Adapters, NEW k \in Keys, NEW down \in BOOLEAN, NEW repeat \in BOOLEAN
  PROVE  /\ k # Shift /\ Shift \notin a.pressed => Shift \notin Send(a, k, down, repeat).pressed
         /\ k = Shift /\ ~down => Shift \notin Send(a, k, down, repeat).pressed
<1>0. k \in Nat
  BY KeysNat
<1>1. Release(a, k) \in Adapters /\ Release(a, k).pressed = a.pressed \ {k}
  BY <1>0, ReleaseTyped
<1>2. \A b \in {a, Release(a, k)} : Press(b, k).pressed = b.pressed \cup {k}
  BY <1>1, PressTyped
<1>3. ~down => Send(a, k, down, repeat) = Release(a, k)
               \/ (k \notin a.pressed /\ Send(a, k, down, repeat) = a)
  BY SendCases
<1>4. Send(a, k, down, repeat) \in {a, Release(a, k), Press(a, k), Press(Release(a, k), k)}
  BY SendCases
<1> QED
  BY <1>1, <1>2, <1>3, <1>4

LEMMA EventShift ==
  ASSUME NEW a \in Adapters, NEW k \in Keys, NEW down \in BOOLEAN
  PROVE  /\ k # Shift /\ Shift \notin a.pressed =>
              Shift \notin Event(a, k, down, FALSE, FALSE, FALSE).pressed
         /\ k = Shift /\ ~down /\ emu_enabled =>
              Shift \notin Event(a, k, down, FALSE, FALSE, FALSE).pressed
         /\ ~emu_enabled => Event(a, k, down, FALSE, FALSE, FALSE) = a
<1> DEFINE b == IF a.held.set THEN Send(a, ControlLeft, a.held.down, a.held.repeat) ELSE a
           f == [b EXCEPT !.held = Nothing]
<1>1. a.held \in Held /\ (a.held.set => ControlLeft \in Keys)
  BY DEF Adapters
<1>2. b \in Adapters /\ (Shift \notin a.pressed => Shift \notin b.pressed)
  <2>1. ControlLeft # Shift /\ a.held.down \in BOOLEAN /\ a.held.repeat \in BOOLEAN
    BY <1>1 DEF Held, ControlLeft, Shift
  <2>2. ASSUME ControlLeft \in Keys
        PROVE  /\ Send(a, ControlLeft, a.held.down, a.held.repeat) \in Adapters
               /\ Shift \notin a.pressed =>
                    Shift \notin Send(a, ControlLeft, a.held.down, a.held.repeat).pressed
    BY <2>1, <2>2, SendTyped, SendShift
  <2> QED
    BY <1>1, <2>2
<1>3. Event(a, k, down, FALSE, FALSE, FALSE) =
        CASE ~emu_enabled -> a
          [] emu_enabled -> Send(IF windows THEN f ELSE a, k, down, FALSE)
  BY DEF Event
<1> HIDE DEF b
<1>4. f \in Adapters /\ f.pressed = b.pressed
  BY <1>2 DEF Adapters, Held, Nothing
<1> HIDE DEF f
<1>6. \A x \in {a, f} :
        /\ k # Shift /\ Shift \notin x.pressed => Shift \notin Send(x, k, down, FALSE).pressed
        /\ k = Shift /\ ~down => Shift \notin Send(x, k, down, FALSE).pressed
  BY <1>4, SendShift
<1>7. ControlLeft # Shift
  BY DEF ControlLeft, Shift
<1> QED
  BY <1>2, <1>3, <1>4, <1>6, <1>7

LEMMA PressShift ==
  ASSUME NEW a \in Adapters, NEW k \in Keys, Shift \notin a.pressed
  PROVE  Shift \notin simulate_press(a, k).pressed
<1> DEFINE b == Event(a, k, TRUE, FALSE, FALSE, FALSE)
<1>1. b \in Adapters
  BY EventTyped
<1>2. (k # Shift => Shift \notin b.pressed) /\ (~emu_enabled => b = a)
  BY EventShift
<1> HIDE DEF b
<1>3. /\ k # Shift /\ Shift \notin b.pressed =>
           Shift \notin Event(b, k, FALSE, FALSE, FALSE, FALSE).pressed
      /\ k = Shift /\ emu_enabled => Shift \notin Event(b, k, FALSE, FALSE, FALSE, FALSE).pressed
      /\ ~emu_enabled => Event(b, k, FALSE, FALSE, FALSE, FALSE) = b
  BY <1>1, EventShift
<1>4. Shift \notin Event(b, k, FALSE, FALSE, FALSE, FALSE).pressed
  BY <1>2, <1>3
<1> QED
  BY <1>4 DEF simulate_press, b

LEMMA TakeShift ==
  ASSUME NEW s \in Seens, s.ext = FALSE
  PROVE  /\ Take(s, Shift).ext = FALSE /\ Take(s, Shift).down \ {Shift} = s.down \ {Shift}
         /\ Take(s, Shift + 128).ext = FALSE
         /\ Take(s, Shift + 128).down = s.down \ {Shift}
<1>1. Ends(42, 42, s.ext, TRUE) /\ Ends(170, 42, s.ext, FALSE)
  BY DEF Ends
<1>2. CASE 42 \in Keys
  <2>1. Take(s, 42) = [down |-> IF TRUE THEN s.down \cup {42} ELSE s.down \ {42}, ext |-> FALSE]
    BY <1>1, <1>2, TakeLast
  <2>2. Take(s, 170) = [down |-> IF FALSE THEN s.down \cup {42} ELSE s.down \ {42}, ext |-> FALSE]
    BY <1>1, <1>2, TakeLast, ZenonT(60)
  <2> QED
    BY <2>1, <2>2 DEF Shift
<1>3. CASE 42 \notin Keys
  <2>1. 42 % 128 = 42 /\ 170 % 128 = 42
    OBVIOUS
  <2>2. Take(s, 42) = [s EXCEPT !.ext = FALSE] /\ Take(s, 170) = [s EXCEPT !.ext = FALSE]
    BY <1>3, <2>1 DEF Take
  <2>3. 42 \notin s.down
    BY <1>3 DEF Seens
  <2>4. /\ Take(s, 42).ext = FALSE /\ Take(s, 42).down = s.down
        /\ Take(s, 170).ext = FALSE /\ Take(s, 170).down = s.down
    BY <2>2 DEF Seens
  <2> QED
    BY <2>3, <2>4 DEF Shift
<1> QED
  BY <1>2, <1>3

LEMMA AppendTo ==
  ASSUME NEW c \in Seq(Int), NEW d \in Seq(Int), NEW b \in Int
  PROVE  c \o Append(d, b) = Append(c \o d, b)
OBVIOUS

LEMMA ReadLast ==
  ASSUME NEW s \in Seens, NEW c \in Seq(Int), NEW d \in Seq(Int), NEW b \in Int
  PROVE  Read(s, c \o Append(d, b)) = Take(Read(s, c \o d), b)
<1>1. c \o d \in Seq(Int)
  BY ConcatInt
<1>2. c \o Append(d, b) = Append(c \o d, b)
  BY AppendTo
<1> DEFINE q == c \o d
           w == c \o Append(d, b)
<1>3. q \in Seq(Int) /\ w = Append(q, b)
  BY <1>1, <1>2
<1> HIDE DEF q, w
<1>4. Read(s, w) = Take(Read(s, q), b)
  BY <1>3, ReadSnoc
<1> QED
  BY <1>4 DEF q, w

LEMMA CharFaithful ==
  ASSUME NEW s \in Seens, NEW c \in Seq(Int), NEW a \in Faithful(s, c, {}), NEW k \in Keys,
         Shift \notin a.pressed
  PROVE  simulate_char(a, k) \in Faithful(s, c, {})
<1> DEFINE u == [a EXCEPT !.out = Append(@, Shift)]
           w == simulate_press(u, k)
           v == [w EXCEPT !.out = Append(@, Shift + 128)]
           Y == {Shift}
<1>0. Shift \in Int /\ Shift + 128 \in Int
  BY DEF Shift
<1>1. a \in Adapters /\ Read(s, c \o a.out).ext = FALSE /\ Read(s, c \o a.out).down = a.pressed
  BY DEF Faithful
<1>2. u \in Adapters /\ u.pressed = a.pressed /\ u.out = Append(a.out, Shift)
  BY <1>0, <1>1, AdapterOut
<1>3. simulate_char(a, k) = v
  BY DEF simulate_char
<1> HIDE DEF u
<1>4. u \in Faithful(s, c, Y)
  <2>1. Read(s, c \o u.out) = Take(Read(s, c \o a.out), Shift)
    BY <1>0, <1>1, <1>2, AdapterFields, ReadLast
  <2>2. Read(s, c \o a.out) \in Seens
    BY <1>1, AdapterFields, ConcatInt, ReadTyped
  <2>3. /\ Read(s, c \o u.out).ext = FALSE
        /\ Read(s, c \o u.out).down \ Y = Read(s, c \o a.out).down \ Y
    BY <1>1, <2>1, <2>2, TakeShift
  <2> QED
    BY <1>1, <1>2, <2>3 DEF Faithful
<1> HIDE DEF Y
<1>5. w \in Faithful(s, c, Y)
  BY <1>4, PressedFaithful
<1>6. Shift \notin w.pressed
  BY <1>2, PressShift
<1> HIDE DEF w
<1>7. w \in Adapters /\ Read(s, c \o w.out).ext = FALSE
      /\ Read(s, c \o w.out).down \ Y = w.pressed \ Y
  BY <1>5 DEF Faithful
<1>8. v \in Adapters /\ v.pressed = w.pressed /\ v.out = Append(w.out, Shift + 128)
  BY <1>0, <1>7, AdapterOut
<1> HIDE DEF v
<1>9. v \in Faithful(s, c, {})
  <2>1. Read(s, c \o v.out) = Take(Read(s, c \o w.out), Shift + 128)
    BY <1>0, <1>7, <1>8, AdapterFields, ReadLast
  <2>2. Read(s, c \o w.out) \in Seens
    BY <1>7, AdapterFields, ConcatInt, ReadTyped
  <2>3. /\ Read(s, c \o v.out).ext = FALSE
        /\ Read(s, c \o v.out).down = Read(s, c \o w.out).down \ Y
    BY <1>7, <2>1, <2>2, TakeShift DEF Y
  <2>4. Read(s, c \o v.out).down = v.pressed
    BY <1>6, <1>7, <1>8, <2>3 DEF Y
  <2> QED
    BY <1>8, <2>3, <2>4 DEF Faithful
<1> QED
  BY <1>3, <1>9

-----------------------------------------------------------------------------
(* Delivery *)

(* The queue holds c and after it the first k bytes of a list. *)
Appended(q, c, bytes, k) ==
  /\ q \in Queues /\ Tidy(q) /\ Len(Contents(q)) = Len(c) + k
  /\ \A i \in 1 .. Len(c) : Contents(q)[i] = c[i]
  /\ \A i \in 1 .. k : Contents(q)[Len(c) + i] = bytes[i]

LEMMA AppendedStep ==
  ASSUME NEW q, NEW c \in Seq(Int), NEW bytes, NEW k \in Nat, NEW b \in Int,
         Appended(q, c, bytes, k), Len(c) + k < Size, b = bytes[k + 1]
  PROVE  Appended(push(q, b), c, bytes, k + 1)
<1> DEFINE n == Len(c)
           d == Contents(q)
           r == push(q, b)
           e == Contents(r)
<1>1. q \in Queues /\ Tidy(q) /\ n \in Nat
  BY DEF Appended
<1>2. d \in Seq(Int) /\ Len(d) = q.length
  BY <1>1, QueueContents
<1>3. /\ Len(d) = n + k /\ \A i \in 1 .. n : d[i] = c[i]
      /\ \A i \in 1 .. k : d[n + i] = bytes[i]
  BY DEF Appended
<1>4. r \in Queues /\ Tidy(r) /\ e = Append(d, b)
  <2>1. q.length < Size
    <3> HIDE DEF d
    <3> QED
      BY <1>2, <1>3
  <2> QED
    BY <1>1, <2>1, TidyPush
<1> HIDE DEF n, d, r, e
<1>5. Len(e) = n + k + 1 /\ e[n + k + 1] = b /\ \A i \in 1 .. n + k : e[i] = d[i]
  BY <1>2, <1>3, <1>4
<1>6. \A i \in 1 .. n : e[i] = c[i]
  BY <1>1, <1>3, <1>5
<1>7. \A i \in 1 .. k : e[n + i] = bytes[i]
  <2>1. TAKE i \in 1 .. k
  <2>2. n + i \in 1 .. n + k
    BY <1>1
  <2> QED
    BY <1>3, <1>5, <2>2
<1>8. \A i \in 1 .. k + 1 : e[n + i] = bytes[i]
  <2>1. TAKE i \in 1 .. k + 1
  <2>2. CASE i = k + 1
    <3>1. n + i = n + k + 1
      BY <1>1, <2>2
    <3> QED
      BY <1>5, <2>2, <3>1
  <2>3. CASE i # k + 1
    <3>1. i \in 1 .. k
      BY <2>3
    <3> QED
      BY <1>7, <3>1
  <2> QED
    BY <2>2, <2>3
<1>9. Len(e) = n + (k + 1)
  BY <1>1, <1>5
<1> QED
  BY <1>4, <1>6, <1>8, <1>9 DEF Appended, n, e, r

LEMMA AppendedAll ==
  ASSUME NEW q, NEW c \in Seq(Int), NEW bytes \in Seq(Int), Appended(q, c, bytes, Len(bytes))
  PROVE  Contents(q) = c \o bytes
<1> DEFINE d == Contents(q)
           e == c \o bytes
           n == Len(c)
           m == Len(bytes)
<1>1. d \in Seq(Int)
  BY QueueContents DEF Appended
<1>2. /\ Len(d) = n + m /\ \A i \in 1 .. n : d[i] = c[i]
      /\ \A i \in 1 .. m : d[n + i] = bytes[i]
  BY DEF Appended
<1>3. n \in Nat /\ m \in Nat
  OBVIOUS
<1>4. /\ e \in Seq(Int) /\ Len(e) = n + m /\ \A i \in 1 .. n : e[i] = c[i]
      /\ \A i \in 1 .. m : e[n + i] = bytes[i]
  OBVIOUS
<1> HIDE DEF d, e, n, m
<1>5. \A i \in 1 .. n + m : d[i] = e[i]
  <2>1. TAKE i \in 1 .. n + m
  <2>2. CASE i <= n
    <3>1. i \in 1 .. n
      BY <1>3, <2>2
    <3> QED
      BY <1>2, <1>4, <3>1
  <2>3. CASE ~(i <= n)
    <3> DEFINE j == i - n
    <3>1. j \in 1 .. m /\ n + j = i
      BY <1>3, <2>3
    <3> HIDE DEF j
    <3>2. d[n + j] = bytes[j] /\ e[n + j] = bytes[j]
      BY <1>2, <1>4, <3>1
    <3> QED
      BY <3>1, <3>2
  <2> QED
    BY <2>2, <2>3
<1>6. d = e
  BY <1>1, <1>2, <1>4, <1>5, SameList
<1> QED
  BY <1>6 DEF d, e

LEMMA Delivered ==
  ASSUME NEW p \in Good, NEW bytes \in Seq(Int), Tidy(p.kbd),
         p.stream, p.kbd.length + Len(bytes) <= Size
  PROVE  /\ Tidy(FoldLeft(kbd_send_code, p, bytes).kbd)
         /\ Contents(FoldLeft(kbd_send_code, p, bytes).kbd) = Contents(p.kbd) \o bytes
<1> DEFINE n == Len(bytes)
           c == Contents(p.kbd)
<1>1. PICK r \in [0 .. n -> Good] :
        /\ r[0] = p /\ r[n] = FoldLeft(kbd_send_code, p, bytes)
        /\ \A k \in 1 .. n : r[k] = kbd_send_code(r[k - 1], bytes[k])
  BY SendRun
<1>2. n \in Nat /\ \A k \in 1 .. n : bytes[k] \in Int
  OBVIOUS
<1>3. p.kbd \in Queues
  BY SaneFields DEF Good
<1>4. c \in Seq(Int) /\ Len(c) = p.kbd.length
  BY <1>3, QueueContents
<1>5. Len(c) \in Nat /\ Len(c) + n <= Size
  BY <1>4
<1> HIDE DEF n
<1> DEFINE P == {k \in Nat : k <= n => r[k].stream /\ Appended(r[k].kbd, c, bytes, k)}
<1>6. 0 \in P
  <2>1. Appended(p.kbd, c, bytes, 0)
    BY <1>3, <1>4 DEF Appended
  <2> QED
    BY <1>1, <2>1
<1>7. \A k \in P \cap Nat : k + 1 \in P
  <2>1. SUFFICES ASSUME NEW k \in Nat, k + 1 <= n, r[k].stream, Appended(r[k].kbd, c, bytes, k)
                 PROVE  r[k + 1].stream /\ Appended(r[k + 1].kbd, c, bytes, k + 1)
    BY <1>2
  <2> DEFINE m == k + 1
  <2>2. m \in 1 .. n /\ m - 1 = k /\ k \in 0 .. n
    BY <1>2, <2>1
  <2> HIDE DEF m
  <2>3. r[m] = kbd_send_code(r[k], bytes[m]) /\ r[k] \in Good /\ bytes[m] \in Int
    BY <1>1, <1>2, <2>2
  <2>4. r[m].stream /\ r[m].kbd = push(r[k].kbd, bytes[m])
    <3> DEFINE x == r[k]
               y == kbd_send_code(x, bytes[m])
    <3>1. x \in Good /\ x.stream
      BY <2>1, <2>3
    <3> HIDE DEF x
    <3>2. y.stream = x.stream /\ y.kbd = (IF x.stream THEN push(x.kbd, bytes[m]) ELSE x.kbd)
      BY <2>3, <3>1, CodeSent
    <3>3. y.stream /\ y.kbd = push(x.kbd, bytes[m])
      <4> HIDE DEF y
      <4> QED
        BY <3>1, <3>2
    <3> QED
      BY <2>3, <3>3 DEF x
  <2>5. Len(c) + k < Size
    BY <1>2, <1>5, <2>1, SizeOk
  <2> HIDE DEF c
  <2>6. Appended(push(r[k].kbd, bytes[m]), c, bytes, k + 1)
    BY <1>4, <2>1, <2>3, <2>5, AppendedStep DEF m
  <2> QED
    BY <2>4, <2>6 DEF m
<1>8. Nat \subseteq P
  <2> HIDE DEF P
  <2> QED
    BY <1>6, <1>7, SetInduction
<1>9. Appended(r[n].kbd, c, bytes, n)
  BY <1>2, <1>8
<1>10. Tidy(r[n].kbd) /\ Contents(r[n].kbd) = c \o bytes
  <2>1. Tidy(r[n].kbd)
    BY <1>9 DEF Appended
  <2> QED
    BY <1>4, <1>9, <2>1, AppendedAll DEF n
<1> QED
  BY <1>1, <1>10

LEMMA NotDelivered ==
  ASSUME NEW p \in Good, NEW bytes \in Seq(Int), ~p.stream \/ bytes = << >>
  PROVE  FoldLeft(kbd_send_code, p, bytes).kbd = p.kbd
<1> DEFINE n == Len(bytes)
<1>1. PICK r \in [0 .. n -> Good] :
        /\ r[0] = p /\ r[n] = FoldLeft(kbd_send_code, p, bytes)
        /\ \A k \in 1 .. n : r[k] = kbd_send_code(r[k - 1], bytes[k])
  BY SendRun
<1>2. n \in Nat /\ (\A k \in 1 .. n : bytes[k] \in Int) /\ (bytes = << >> => n = 0)
  OBVIOUS
<1> HIDE DEF n
<1> DEFINE P == {k \in Nat : k <= n => r[k].stream = p.stream /\ r[k].kbd = p.kbd}
<1>3. 0 \in P
  BY <1>1
<1>4. \A k \in P \cap Nat : k + 1 \in P
  <2>1. SUFFICES ASSUME NEW k \in Nat, k + 1 <= n, r[k].stream = p.stream, r[k].kbd = p.kbd
                 PROVE  r[k + 1].stream = p.stream /\ r[k + 1].kbd = p.kbd
    BY <1>2
  <2> DEFINE m == k + 1
  <2>2. m \in 1 .. n /\ m - 1 = k /\ k \in 0 .. n
    BY <1>2, <2>1
  <2> HIDE DEF m
  <2>3. r[m] = kbd_send_code(r[k], bytes[m]) /\ r[k] \in Good /\ bytes[m] \in Int
    BY <1>1, <1>2, <2>2
  <2>4. ~p.stream
    BY <1>2, <2>1
  <2>5. r[m].stream = p.stream /\ r[m].kbd = p.kbd
    BY <2>1, <2>3, <2>4, CodeSent, ZenonT(90)
  <2> QED
    BY <2>5 DEF m
<1>5. Nat \subseteq P
  <2> HIDE DEF P
  <2> QED
    BY <1>3, <1>4, SetInduction
<1> QED
  BY <1>1, <1>2, <1>5

(* The invariant behind KeysArrive, beside Kept. *)
Arrive ==
  ~astray => /\ Tidy(ps2.kbd)
             /\ Read(seen, Contents(ps2.kbd)) = [down |-> pressed, ext |-> FALSE]

LEMMA KeptQueue ==
  ASSUME Kept
  PROVE  /\ ps2 \in Good /\ ps2.kbd \in Queues /\ Contents(ps2.kbd) \in Seq(Int)
         /\ seen \in Seens /\ Adapter \in Adapters /\ astray \in BOOLEAN
<1>1. ps2 \in Good /\ seen \in Seens /\ astray \in BOOLEAN
  BY DEF Kept
<1>2. ps2.kbd \in Queues
  BY <1>1, SaneFields DEF Good
<1> QED
  BY <1>1, <1>2, QueueContents, AdapterTyped

LEMMA ConcatNothing ==
  ASSUME NEW c \in Seq(Int)
  PROVE  c \o << >> = c
OBVIOUS

LEMMA AdapterFaithful ==
  ASSUME Kept, Arrive, ~astray
  PROVE  Adapter \in Faithful(seen, Contents(ps2.kbd), {})
<1> DEFINE c == Contents(ps2.kbd)
<1>1. c \in Seq(Int) /\ Adapter \in Adapters
  BY KeptQueue
<1>2. Read(seen, c) = [down |-> pressed, ext |-> FALSE]
  BY DEF Arrive
<1>3. Adapter.out = << >> /\ Adapter.pressed = pressed
  BY DEF Adapter
<1> HIDE DEF c
<1>4. Read(seen, c \o Adapter.out) = Read(seen, c)
  BY <1>1, <1>3, ConcatNothing
<1>5. Read(seen, c \o Adapter.out).ext = FALSE /\ Read(seen, c \o Adapter.out).down = pressed
  BY <1>2, <1>4
<1> QED
  BY <1>1, <1>3, <1>5 DEF Faithful, c

(* What is sent in a faithful manner arrives. *)
LEMMA SentArrives ==
  ASSUME Kept, Arrive, ~astray, NEW a \in Faithful(seen, Contents(ps2.kbd), {}),
         ps2.stream \/ a.out = << >>, ps2.kbd.length + Len(a.out) <= Size,
         ps2' = FoldLeft(kbd_send_code, ps2, a.out), pressed' = a.pressed, seen' = seen
  PROVE  Arrive'
<1> DEFINE c == Contents(ps2.kbd)
           d == Contents(ps2.kbd)'
<1>1. /\ ps2 \in Good /\ c \in Seq(Int) /\ seen \in Seens /\ Tidy(ps2.kbd)
  BY KeptQueue DEF Arrive
<1>2. a \in Adapters /\ a.out \in Seq(Int)
      /\ Read(seen, c \o a.out).ext = FALSE /\ Read(seen, c \o a.out).down = a.pressed
  BY AdapterFields DEF Faithful
<1>3. Tidy(ps2.kbd)' /\ d = c \o a.out
  <2>1. CASE ps2.stream
    BY <1>1, <1>2, <2>1, Delivered
  <2>2. CASE ~ps2.stream
    <3>1. ps2.kbd' = ps2.kbd /\ a.out = << >>
      BY <1>1, <1>2, <2>2, NotDelivered
    <3>2. d = c
      BY <3>1
    <3>3. c \o a.out = c
      <4> HIDE DEF c
      <4> QED
        BY <1>1, <3>1, ConcatNothing
    <3> QED
      BY <1>1, <3>1, <3>2, <3>3
  <2> QED
    BY <2>1, <2>2
<1> DEFINE x == Read(seen, c \o a.out)
<1>4. x \in Seens
  BY <1>1, <1>2, ConcatInt, ReadTyped
<1>5. x.ext = FALSE /\ x.down = a.pressed
  BY <1>2
<1> HIDE DEF x
<1>6. x = [down |-> a.pressed, ext |-> FALSE]
  BY <1>4, <1>5 DEF Seens
<1>7. Read(seen, Contents(ps2.kbd))' = x
  BY <1>3 DEF x
<1> QED
  BY <1>3, <1>6, <1>7 DEF Arrive

LEMMA DeliverArrives ==
  ASSUME Kept, Arrive, NEW a, ~astray => a \in Faithful(seen, Contents(ps2.kbd), {}), Deliver(a),
         seen' = seen
  PROVE  Arrive'
<1>1. CASE astray'
  BY <1>1 DEF Arrive
<1>2. CASE ~astray'
  <2>1. ~astray /\ (ps2.stream \/ a.out = << >>) /\ ~(ps2.kbd.length + Len(a.out) > Size)
    BY <1>2 DEF Deliver
  <2>2. a \in Adapters /\ ps2.kbd \in Queues
    BY <2>1, KeptQueue DEF Faithful
  <2>3. ps2.kbd.length \in Nat /\ Len(a.out) \in Nat
    BY <2>2, SizeOk, AdapterFields DEF Queues
  <2>4. ps2.kbd.length + Len(a.out) <= Size
    BY <2>1, <2>3, SizeOk
  <2> QED
    BY <2>1, <2>4, SentArrives DEF Deliver
<1> QED
  BY <1>1, <1>2

(* A byte that is read leaves the queue for the guest. *)
LEMMA ReadArrives ==
  ASSUME Kept, Arrive, NEW p \in Good, p.kbd = ps2.kbd, p.mouse = ps2.mouse,
         p.aux = ps2.aux, p.ready = ps2.ready, ps2' = port60_read(p), ReadByte
  PROVE  Arrive'
<1>1. CASE astray
  BY <1>1 DEF ReadByte, Arrive
<1>2. CASE ~astray
  <2> DEFINE q == ps2.kbd
  <2>1. /\ ps2 \in Good /\ q \in Queues /\ Contents(q) \in Seq(Int) /\ seen \in Seens /\ Tidy(q)
        /\ Read(seen, Contents(q)) = [down |-> pressed, ext |-> FALSE]
    BY <1>2, KeptQueue DEF Arrive
  <2>2. ps2.aux \in BOOLEAN /\ q.length \in Nat /\ ps2.mouse.length \in Nat
    BY <2>1, SaneFields, SizeOk DEF Good, Sane, Controllers, Queues
  <2>3. ps2.kbd' = IF ps2.aux /\ ps2.mouse.length > 0 THEN q ELSE shift(q)
    BY ReadGood
  <2>4. pressed' = pressed /\ astray' = astray
        /\ seen' = IF ps2.aux \/ q.length = 0 THEN seen ELSE Take(seen, ByteAt60(ps2))
    <3>1. "aux" \in port64_read(ps2) <=> ps2.aux
      BY <2>2 DEF port64_read
    <3> QED
      BY <1>2, <3>1 DEF ReadByte, adapterVars
  <2>5. CASE ps2.aux \/ q.length = 0
    <3>1. ps2.kbd' = q
      <4>1. CASE q.length = 0
        BY <2>1, <2>3, <4>1, ShiftQueue
      <4>2. CASE q.length # 0
        <5>1. ps2.ready
          BY <2>1, <2>2, <4>2 DEF Good, Announced
        <5>2. ps2.mouse.length > 0
          BY <2>1, <2>5, <4>2, <5>1 DEF Good, Announced, Chosen
        <5> QED
          BY <2>3, <2>5, <4>2, <5>2
      <4> QED
        BY <4>1, <4>2
    <3> QED
      BY <2>1, <2>4, <2>5, <3>1 DEF Arrive
  <2>6. CASE ~(ps2.aux \/ q.length = 0)
    <3> DEFINE r == shift(q)
               b == Contents(q)[1]
    <3>1. ps2.kbd' = r /\ q.length > 0
      BY <2>2, <2>3, <2>6
    <3>2. /\ r \in Queues /\ Tidy(r)
          /\ Len(Contents(q)) = Len(Contents(r)) + 1
          /\ \A i \in 1 .. Len(Contents(r)) : Contents(r)[i] = Contents(q)[i + 1]
          /\ b = Head(q.cells)
      BY <2>1, <3>1, TidyShift
    <3>3. ByteAt60(ps2) = b
      BY <2>6, <3>2 DEF ByteAt60
    <3>4. Contents(r) \in Seq(Int)
      BY <3>2, QueueContents
    <3>5. Read(seen, Contents(q)) = Read(Take(seen, b), Contents(r))
      <4> DEFINE x == Contents(q)
                 y == Contents(r)
      <4>1. /\ x \in Seq(Int) /\ y \in Seq(Int) /\ Len(x) = Len(y) + 1
            /\ \A i \in 1 .. Len(y) : y[i] = x[i + 1]
        BY <2>1, <3>2, <3>4
      <4> HIDE DEF x, y
      <4>2. Read(seen, x) = Read(Take(seen, x[1]), y)
        BY <2>1, <4>1, ReadFirst
      <4> QED
        BY <4>2 DEF x, y
    <3>6. seen' = Take(seen, b)
      BY <2>4, <2>6, <3>3
    <3> HIDE DEF b
    <3>7. Read(seen, Contents(ps2.kbd))' = Read(Take(seen, b), Contents(r))
      BY <3>1, <3>6
    <3>8. Tidy(ps2.kbd)'
      BY <3>1, <3>2
    <3> QED
      BY <2>1, <2>4, <3>5, <3>7, <3>8 DEF Arrive
  <2> QED
    BY <2>5, <2>6
<1> QED
  BY <1>1, <1>2, KeptQueue

LEMMA LostNot ==
  ASSUME Kept, Arrive, ~Lost
  PROVE  /\ pressed = {} /\ seen = NothingSeen /\ [down |-> pressed, ext |-> FALSE] = NothingSeen
         /\ ~astray => Quiet(ps2.kbd)
<1>1. /\ pressed = {} /\ seen = NothingSeen /\ [down |-> pressed, ext |-> FALSE] = NothingSeen
  BY DEF Lost, NothingSeen
<1>2. ASSUME ~astray
      PROVE  Quiet(ps2.kbd)
  <2>1. Tidy(ps2.kbd) /\ Read(seen, Contents(ps2.kbd)) = [down |-> pressed, ext |-> FALSE]
    BY <1>2 DEF Arrive
  <2>2. Read(NothingSeen, Contents(ps2.kbd)) = NothingSeen
    BY <1>1, <2>1
  <2> QED
    BY <2>1, <2>2, KeptQueue DEF Quiet
<1> QED
  BY <1>1, <1>2

LEMMA BiosArrives ==
  ASSUME Kept, Arrive, Bios, ps2.kbd' \in Answered(ps2.kbd)
  PROVE  Arrive'
<1>1. CASE ~astray'
  <2>1. ~astray /\ ~Lost /\ Tidy(ps2.kbd)' /\ pressed' = pressed /\ seen' = seen
    BY <1>1 DEF Bios, adapterVars, Tidy
  <2>2. Quiet(ps2.kbd) /\ seen = NothingSeen /\ [down |-> pressed, ext |-> FALSE] = NothingSeen
    BY <2>1, LostNot
  <2> DEFINE r == ps2.kbd'
  <2>3. r \in Answered(ps2.kbd) /\ Tidy(r)
    BY <2>1
  <2> HIDE DEF r
  <2>4. Quiet(r)
    BY <2>2, <2>3, AnsweredQuiet
  <2>5. Read(NothingSeen, Contents(r)) = NothingSeen
    BY <2>4 DEF Quiet
  <2>6. Read(seen, Contents(ps2.kbd))' = NothingSeen
    BY <2>1, <2>2, <2>5 DEF r
  <2> QED
    BY <2>1, <2>2, <2>6 DEF Arrive
<1> QED
  BY <1>1 DEF Arrive

LEMMA ArriveInit ==
  ASSUME Init
  PROVE  Arrive
<1>1. ps2.kbd = Empty
  BY StartedGood DEF Init
<1>2. Tidy(Empty) /\ Read(NothingSeen, Contents(Empty)) = NothingSeen
  BY EmptyQuiet DEF Quiet
<1>3. pressed = {} /\ seen = NothingSeen
  BY DEF Init
<1>4. [down |-> pressed, ext |-> FALSE] = NothingSeen
  BY <1>3 DEF NothingSeen
<1> QED
  BY <1>1, <1>2, <1>3, <1>4 DEF Arrive

LEMMA ArriveStep ==
  ASSUME Kept, Arrive, [Next]_vars
  PROVE  Arrive'
<1> DEFINE c == Contents(ps2.kbd)
           F == Faithful(seen, c, {})
<1>0. ps2 \in Good /\ c \in Seq(Int) /\ seen \in Seens /\ (~astray => Adapter \in F)
  BY KeptQueue, AdapterFaithful
<1> HIDE DEF c
<1>1. CASE key_event
  <2>1. PICK k \in Keys, down \in BOOLEAN, repeat \in BOOLEAN, altKey \in BOOLEAN,
             altGraph \in BOOLEAN :
          Deliver(Event(AltGone(Adapter, altKey), k, down, repeat /\ down, altGraph, TRUE))
    BY <1>1 DEF key_event
  <2> DEFINE a == Event(AltGone(Adapter, altKey), k, down, repeat /\ down, altGraph, TRUE)
  <2>2. ASSUME ~astray
        PROVE  a \in F
    <3>1. AltGone(Adapter, altKey) \in F
      BY <1>0, <2>2, AltGoneFaithful
    <3>2. (repeat /\ down) \in BOOLEAN
      OBVIOUS
    <3> QED
      BY <1>0, <3>1, <3>2, EventFaithful
  <2> HIDE DEF a
  <2>3. Deliver(a) /\ seen' = seen
    BY <1>1, <2>1 DEF key_event, PageEvent, a
  <2> QED
    BY <2>2, <2>3, DeliverArrives DEF c
<1>2. CASE blur
  <2> DEFINE a == ReleaseAll(Adapter)
  <2>1. ~astray => a \in F
    BY <1>0, ReleaseAllFaithful
  <2> HIDE DEF a
  <2>2. Deliver(a) /\ seen' = seen
    BY <1>2 DEF blur, PageEvent, a
  <2> QED
    BY <2>1, <2>2, DeliverArrives DEF c
<1>3. CASE control_timeout
  <2> DEFINE b == Send(Adapter, ControlLeft, held.down, held.repeat)
             a == [b EXCEPT !.held = Nothing]
  <2>0. ControlLeft \in Keys /\ held.down \in BOOLEAN /\ held.repeat \in BOOLEAN
    BY <1>3 DEF Kept, Held, control_timeout
  <2>1. ASSUME ~astray
        PROVE  a \in F
    <3>1. b \in F
      BY <1>0, <2>0, <2>1, SendFaithful
    <3>2. b \in Adapters
      BY <3>1 DEF Faithful
    <3> HIDE DEF b
    <3>3. a \in Adapters /\ a.out = b.out /\ a.pressed = b.pressed
      BY <3>2 DEF Adapters, Held, Nothing
    <3> QED
      BY <3>1, <3>3, HeldFaithful
  <2>2. Deliver(a) /\ seen' = seen
    BY <1>3 DEF control_timeout
  <2> HIDE DEF a
  <2> QED
    BY <2>1, <2>2, DeliverArrives DEF c
<1>4. CASE keyboard_send_keys
  <2>1. PICK k \in Keys : Deliver(simulate_press(Adapter, k))
    BY <1>4 DEF keyboard_send_keys
  <2> DEFINE a == simulate_press(Adapter, k)
  <2>2. ~astray => a \in F
    BY <1>0, PressedFaithful
  <2>3. Deliver(a) /\ seen' = seen
    BY <1>4, <2>1 DEF keyboard_send_keys, PageEvent
  <2> HIDE DEF a
  <2> QED
    BY <2>2, <2>3, DeliverArrives DEF c
<1>5. CASE keyboard_send_text
  <2> DEFINE A(k) == simulate_char(Adapter, k)
  <2>1. PICK k \in Chars :
          /\ ps2' = FoldLeft(kbd_send_code, ps2, A(k).out)
          /\ pressed' = A(k).pressed /\ held' = A(k).held
          /\ astray' = (astray \/ ~ps2.stream \/ Shift \in pressed
                               \/ ps2.kbd.length + Len(A(k).out) > Size)
    BY <1>5 DEF keyboard_send_text
  <2>2. seen' = seen /\ k \in Keys
    BY <1>5, InputAssumption DEF keyboard_send_text, PageEvent
  <2>3. CASE astray'
    BY <2>3 DEF Arrive
  <2>4. CASE ~astray'
    <3>1. Adapter.pressed = pressed
      BY DEF Adapter
    <3>2. ~astray /\ ps2.stream /\ Shift \notin Adapter.pressed
      BY <2>1, <2>4, <3>1
    <3>3. A(k) \in F
      BY <1>0, <2>2, <3>2, CharFaithful
    <3> DEFINE a == A(k)
    <3> HIDE DEF a
    <3>4. a \in F /\ ~(ps2.kbd.length + Len(a.out) > Size)
      BY <2>1, <2>4, <3>3 DEF a
    <3>5. a \in Adapters /\ ps2.kbd \in Queues
      BY <3>4, KeptQueue DEF Faithful
    <3>6. ps2.kbd.length \in Nat /\ Len(a.out) \in Nat
      BY <3>5, SizeOk, AdapterFields DEF Queues
    <3>7. ps2.kbd.length + Len(a.out) <= Size
      BY <3>4, <3>6, SizeOk
    <3>8. ps2' = FoldLeft(kbd_send_code, ps2, a.out) /\ pressed' = a.pressed
      BY <2>1 DEF a
    <3> QED
      BY <2>2, <3>2, <3>4, <3>7, <3>8, SentArrives DEF c
  <2> QED
    BY <2>3, <2>4
<1>6. CASE keyboard_set_enabled
  BY <1>6 DEF keyboard_set_enabled, PageEvent, Arrive
<1>7. CASE mouse_event
  <2>1. ps2.kbd' = ps2.kbd
    BY <1>0, <1>7, MouseSent DEF mouse_event
  <2> QED
    BY <1>7, <2>1 DEF mouse_event, PageEvent, Arrive
<1>16. CASE mouse_wheel
  <2>1. ps2.kbd' = ps2.kbd
    BY <1>0, <1>16, MouseSent DEF mouse_wheel
  <2> QED
    BY <1>16, <2>1 DEF mouse_wheel, PageEvent, Arrive
<1>17. CASE keyboard_send_scancodes
  BY <1>17 DEF keyboard_send_scancodes, Arrive
<1>8. CASE restart
  BY <1>8 DEF restart, PageEvent, Arrive
<1>9. CASE restore_state
  <2>1. ps2.kbd' = Empty
    BY <1>0, <1>9, RestoredGood DEF restore_state
  <2>2. pressed' = pressed /\ seen' = seen /\ astray' = (astray \/ Lost)
    BY <1>9 DEF restore_state, PageEvent
  <2>3. Tidy(Empty) /\ Read(NothingSeen, Contents(Empty)) = NothingSeen
    BY EmptyQuiet DEF Quiet
  <2>4. CASE ~astray'
    <3>1. seen = NothingSeen /\ [down |-> pressed, ext |-> FALSE] = NothingSeen
      BY <2>2, <2>4, LostNot
    <3> QED
      BY <2>1, <2>2, <2>3, <3>1 DEF Arrive
  <2> QED
    BY <2>4 DEF Arrive
<1>10. CASE bios_port60_write
  <2>1. PICK a \in Values : ps2' = port60_write(ps2, a)
    BY <1>10 DEF bios_port60_write
  <2>2. a \in Nat
    BY InputAssumption
  <2>3. ps2.kbd' \in Answered(ps2.kbd)
    BY <1>0, <2>1, <2>2, Write60Handled DEF Handled
  <2> QED
    BY <1>10, <2>3, BiosArrives DEF bios_port60_write
<1>11. CASE bios_port64_write
  <2>1. PICK a \in Orders : ps2' = port64_write(ps2, a)
    BY <1>11 DEF bios_port64_write
  <2>2. a \in Nat
    BY InputAssumption
  <2>3. ps2.kbd' \in Answered(ps2.kbd)
    BY <1>0, <2>1, <2>2, Write64Handled DEF Handled
  <2> QED
    BY <1>11, <2>3, BiosArrives DEF bios_port64_write
<1>12. CASE bios_read
  BY <1>0, <1>12, ReadArrives DEF bios_read
<1>13. CASE boot
  <2>1. ps2.kbd' = ps2.kbd
    BY <1>0, <1>13, Taken DEF boot
  <2>2. pressed' = pressed /\ seen' = seen /\ (~astray' => ~astray)
    BY <1>13 DEF boot, adapterVars
  <2> QED
    BY <2>1, <2>2 DEF Arrive
<1>14. CASE keyboard_handler
  <2> DEFINE S == ps2.pending \ {1}
             u == [ps2 EXCEPT !.pending = S]
  <2>1. /\ u \in Good /\ u.kbd = ps2.kbd /\ u.mouse = ps2.mouse /\ u.ready = ps2.ready
        /\ u.aux = ps2.aux
    BY <1>0, Taken
  <2>2. ps2' = port60_read(u) /\ ReadByte
    BY <1>14 DEF keyboard_handler
  <2> HIDE DEF u
  <2> QED
    BY <2>1, <2>2, ReadArrives
<1>15. CASE UNCHANGED vars
  BY <1>15 DEF vars, adapterVars, Arrive
<1> QED
  BY <1>1, <1>2, <1>3, <1>4, <1>5, <1>6, <1>7, <1>8, <1>9, <1>10, <1>11, <1>12, <1>13, <1>14,
     <1>15, <1>16, <1>17 DEF Next

(* KeysArrive, for every size of the queues and every set of keys of the   *)
(* page's table: whatever the page's events, the focus, the lines and the  *)
(* commands, no key stays down for the guest that the adapter has not      *)
(* pressed, and none is missing.                                           *)
THEOREM KeysArriveHolds == Spec => []KeysArrive
<1>1. ASSUME Arrive
      PROVE  KeysArrive
  <2>1. CASE ~astray
    <3>1. Read(seen, Contents(ps2.kbd)) = [down |-> pressed, ext |-> FALSE]
      BY <1>1, <2>1 DEF Arrive
    <3>2. Read(seen, Contents(ps2.kbd)).down = pressed
      BY <3>1
    <3> QED
      BY <3>2 DEF KeysArrive, Read
  <2> QED
    BY <2>1 DEF KeysArrive
<1> QED
  BY KeptInit, KeptStep, ArriveInit, ArriveStep, <1>1, PTL DEF Spec

-----------------------------------------------------------------------------
ToWorker == [t : Int, newest : BOOLEAN]
ToPage   == [newest : BOOLEAN]
Timeouts == [t : Int, newest : BOOLEAN, set : BOOLEAN]

(* Only the last tick of a queue may be the newest one, and it is. *)
OnlyLast(q) == \A i \in 1 .. Len(q) - 1 : q[i].newest = FALSE
LastIs(q)   == Len(q) > 0 /\ q[Len(q)].newest = TRUE
NoneIs(q)   == \A i \in 1 .. Len(q) : q[i].newest = FALSE

PitRegisters ==
  [enabled : BOOLEAN, mode : Int, read_mode : Int, next_low : BOOLEAN,
   reload : Nat, start_value : Int, latch : Int]

PitInv ==
  /\ pit \in PitRegisters
  /\ elapsed \in Int

TickTypes ==
  /\ toWorker \in Seq(ToWorker) /\ toPage \in Seq(ToPage) /\ timeout \in Timeouts

(* Where the newest tick is: a message to the worker is newer than the     *)
(* timeout that is set, and that is newer than all messages to the page.   *)
TickInv ==
  /\ OnlyLast(toWorker) /\ OnlyLast(toPage)
  /\ Len(toWorker) > 0 => timeout.newest = FALSE /\ NoneIs(toPage)
  /\ timeout.set = TRUE => NoneIs(toPage)
  /\ timeout.newest = TRUE => timeout.set = TRUE

WaitInv == waiting \in {0, 1} /\ (waiting = 1 => running = TRUE)

LoopInv ==
  /\ running \in BOOLEAN /\ stopping \in BOOLEAN /\ idle \in BOOLEAN
  /\ cpu_is_running = running
  /\ idle = FALSE => running = TRUE
  /\ idle = FALSE => NoneIs(toWorker) /\ NoneIs(toPage) /\ timeout.newest = FALSE
  /\ running = TRUE /\ idle = TRUE => LastIs(toWorker) \/ LastIs(toPage) \/ timeout.newest = TRUE

IInv == PitInv /\ TickTypes /\ TickInv /\ WaitInv /\ LoopInv

-----------------------------------------------------------------------------
(* What the queues are after the operations of the loop. *)

LEMMA StaleProps ==
  ASSUME NEW S, S = ToWorker \/ S = ToPage, NEW q \in Seq(S)
  PROVE  Stale(q) \in Seq(S) /\ Len(Stale(q)) = Len(q) /\ NoneIs(Stale(q))
<1> DEFINE f == Stale(q)
<1>1. f = [i \in 1 .. Len(q) |-> [q[i] EXCEPT !.newest = FALSE]] /\ Len(q) \in Nat
  BY DEF Stale
<1>2. \A i \in 1 .. Len(q) : q[i] \in S
  OBVIOUS
<1>3. \A i \in 1 .. Len(q) : [q[i] EXCEPT !.newest = FALSE] \in S
  BY <1>2 DEF ToWorker, ToPage
<1>4. f \in [1 .. Len(q) -> S]
  BY <1>1, <1>3
<1>5. f \in Seq(S) /\ Len(f) = Len(q)
  BY <1>1, <1>4
<1>6. \A i \in 1 .. Len(q) : f[i].newest = FALSE
  BY <1>1, <1>2 DEF ToWorker, ToPage
<1> QED
  BY <1>5, <1>6 DEF NoneIs

LEMMA AppendNewest ==
  ASSUME NEW S, NEW q \in Seq(S), NEW e \in S, NoneIs(q)
  PROVE  /\ Append(q, e) \in Seq(S) /\ Len(Append(q, e)) > 0
         /\ OnlyLast(Append(q, e))
         /\ e.newest = TRUE => LastIs(Append(q, e))
         /\ e.newest = FALSE => NoneIs(Append(q, e))
<1>1. /\ Append(q, e) \in Seq(S) /\ Len(Append(q, e)) = Len(q) + 1 /\ Len(q) \in Nat
      /\ \A i \in 1 .. Len(q) : Append(q, e)[i] = q[i]
      /\ Append(q, e)[Len(q) + 1] = e
  BY AppendProperties
<1> QED
  BY <1>1 DEF OnlyLast, LastIs, NoneIs

LEMMA TailNewest ==
  ASSUME NEW S, NEW q \in Seq(S), q # << >>, OnlyLast(q)
  PROVE  /\ Head(q) \in S /\ Head(q) = q[1] /\ Tail(q) \in Seq(S) /\ Len(q) > 0
         /\ Len(Tail(q)) = Len(q) - 1
         /\ OnlyLast(Tail(q))
         /\ NoneIs(q) => NoneIs(Tail(q)) /\ Head(q).newest = FALSE
         /\ Head(q).newest = TRUE => NoneIs(Tail(q)) /\ Len(q) = 1
         /\ LastIs(q) => Head(q).newest = TRUE \/ LastIs(Tail(q))
         /\ Len(Tail(q)) > 0 => Head(q).newest = FALSE
<1>1. /\ Head(q) \in S /\ Tail(q) \in Seq(S) /\ Len(Tail(q)) = Len(q) - 1
      /\ \A i \in 1 .. Len(Tail(q)) : Tail(q)[i] = q[i + 1]
      /\ Head(q) = q[1] /\ Len(q) \in Nat /\ Len(q) > 0
  BY HeadTailProperties, EmptySeq
<1> QED
  BY <1>1 DEF OnlyLast, LastIs, NoneIs

(* Every tick of a queue says whether it is the newest. *)
LEMMA NewestBoolean ==
  ASSUME NEW S, S = ToWorker \/ S = ToPage, NEW q \in Seq(S)
  PROVE  DOMAIN q = 1 .. Len(q) /\ Len(q) \in Nat
         /\ \A i \in 1 .. Len(q) : q[i].newest \in BOOLEAN
<1>1. DOMAIN q = 1 .. Len(q) /\ Len(q) \in Nat /\ \A i \in 1 .. Len(q) : q[i] \in S
  OBVIOUS
<1>2. CASE S = ToWorker
  BY <1>1, <1>2 DEF ToWorker
<1>3. CASE S = ToPage
  BY <1>1, <1>3 DEF ToPage
<1> QED
  BY <1>2, <1>3

(* The newest ticks are counted by looking at the ends of the queues. *)
LEMMA CountNewest ==
  ASSUME NEW S, S = ToWorker \/ S = ToPage, NEW q \in Seq(S), OnlyLast(q)
  PROVE  Cardinality({i \in DOMAIN q : q[i].newest}) = IF LastIs(q) THEN 1 ELSE 0
<1> DEFINE N == {i \in DOMAIN q : q[i].newest}
<1>1. DOMAIN q = 1 .. Len(q) /\ Len(q) \in Nat /\ \A i \in 1 .. Len(q) : q[i].newest \in BOOLEAN
  BY NewestBoolean
<1>2. CASE LastIs(q)
  <2>1. N = {Len(q)}
    BY <1>1, <1>2 DEF OnlyLast, LastIs
  <2> QED
    BY <1>2, <2>1, FS_Singleton
<1>3. CASE ~LastIs(q)
  <2>1. N = {}
    BY <1>1, <1>3 DEF OnlyLast, LastIs
  <2> QED
    BY <1>3, <2>1, FS_EmptySet
<1> QED
  BY <1>2, <1>3

(* In a queue of which only the last may be the newest, none is or that is. *)
LEMMA NoneOrLast ==
  ASSUME NEW S, S = ToWorker \/ S = ToPage, NEW q \in Seq(S), OnlyLast(q)
  PROVE  NoneIs(q) <=> ~LastIs(q)
<1>1. Len(q) \in Nat /\ \A i \in 1 .. Len(q) : q[i].newest \in BOOLEAN
  BY NewestBoolean
<1> QED
  BY <1>1 DEF OnlyLast, LastIs, NoneIs

(* A time is so many whole clocks and less than one more. *)
LEMMA ClocksProps ==
  ASSUME ClockAssumption, NEW e \in Int
  PROVE  /\ Clocks(e) \in Int
         /\ e >= 0 => /\ Clocks(e) \in Nat /\ e % Grain \in 0 .. Grain - 1
                      /\ Clocks(e) * Grain + (e % Grain) = e
         /\ e = 0 => Clocks(e) = 0
<1>1. Grain \in Nat /\ Grain > 0
  BY DEF ClockAssumption
<1>2. \A x \in Int, y \in Nat : y > 0 => x \div y \in Int
  OBVIOUS
<1>3. Clocks(e) \in Int
  BY <1>1, <1>2 DEF Clocks
<1>4. ASSUME e >= 0
      PROVE  /\ Clocks(e) \in Nat /\ e % Grain \in 0 .. Grain - 1
             /\ Clocks(e) * Grain + (e % Grain) = e
  <2>1. /\ e \div Grain \in Nat /\ e % Grain \in Nat /\ e % Grain < Grain
        /\ (e \div Grain) * Grain + (e % Grain) = e
    BY <1>1, <1>4, DivProps
  <2> QED
    BY <1>1, <2>1 DEF Clocks
<1>5. ASSUME e = 0
      PROVE  Clocks(e) = 0
  <2>1. \A y \in Nat : y > 0 => 0 \div y = 0
    OBVIOUS
  <2> QED
    BY <1>1, <1>5, <2>1 DEF Clocks
<1> QED
  BY <1>3, <1>4, <1>5

(* The timer's registers stay numbers, so delays are numbers. *)
LEMMA CounterIsInt ==
  ASSUME ClockAssumption, NEW p, p \in PitRegisters,
         NEW e \in Int
  PROVE  get_counter_value(p, e) \in Int
<1> DEFINE f == Clocks(e)
<1>0. f \in Int
  BY ClocksProps
<1> HIDE DEF f
<1>1. p.reload \in Nat /\ p.start_value - f \in Int /\ p.start_value \in Int
  BY <1>0 DEF PitRegisters
<1>2. \A x \in Int, y \in Nat : y # 0 => x % y \in Int
  OBVIOUS
<1>3. \A x \in Int, y \in Nat : y # 0 => JsRem(x, y) \in Int
  BY <1>2 DEF JsRem
<1>4. ASSUME p.reload # 0
      PROVE  /\ (p.start_value - f) % p.reload \in Int
             /\ JsRem(p.start_value - f, p.reload) + p.reload \in Int
  BY <1>1, <1>2, <1>3, <1>4
<1>5. CASE ~p.enabled \/ p.reload = 0
  BY <1>5 DEF get_counter_value
<1>6. CASE ~(~p.enabled \/ p.reload = 0)
  BY <1>1, <1>4, <1>6 DEF get_counter_value, f
<1> QED
  BY <1>5, <1>6

LEMMA CounterWriteTypes ==
  ASSUME ClockAssumption, NEW p \in PitRegisters, NEW b \in 0 .. Base - 1
  PROVE  counter_write(p, b) \in PitRegisters
<1> DEFINE low   == p.reload % Base
           high  == p.reload \div Base
           value == IF p.next_low THEN high * Base + b ELSE b * Base + low
           load  == IF value = 0 THEN Base * Base - 1 ELSE value
           low2  == IF p.read_mode = 3 THEN ~p.next_low ELSE p.next_low
<1>1. Base \in Nat /\ Base > 1 /\ p.reload \in Nat /\ b \in Nat
  BY DEF ClockAssumption, PitRegisters
<1>2. low \in Nat /\ high \in Nat
  BY <1>1
<1>3. \A x, y \in Nat : x * y \in Nat
  OBVIOUS
<1>4. value \in Nat
  <2>1. high * Base \in Nat /\ b * Base \in Nat
    BY <1>1, <1>2, <1>3
  <2> QED
    BY <1>1, <1>2, <2>1
<1>5. load \in Nat
  <2>1. Base * Base \in Nat /\ Base * Base >= 1
    BY <1>1, <1>3
  <2> QED
    BY <1>4, <2>1
<1>6. low2 \in BOOLEAN
  BY DEF PitRegisters
<1>7. \/ counter_write(p, b) = [p EXCEPT !.reload = value, !.next_low = low2]
      \/ counter_write(p, b) = [p EXCEPT !.reload = load, !.start_value = load,
                                         !.enabled = TRUE, !.next_low = low2]
  BY DEF counter_write
<1> HIDE DEF value, load, low2
<1>8. [p EXCEPT !.reload = value, !.next_low = low2] \in PitRegisters
  BY <1>4, <1>6 DEF PitRegisters
<1>9. [p EXCEPT !.reload = load, !.start_value = load, !.enabled = TRUE,
                !.next_low = low2] \in PitRegisters
  <2>1. ASSUME NEW q \in PitRegisters, NEW n \in Int, NEW x \in BOOLEAN
        PROVE  [q EXCEPT !.start_value = n, !.enabled = x] \in PitRegisters
    BY DEF PitRegisters
  <2>2. [p EXCEPT !.reload = load, !.next_low = low2] \in PitRegisters
    BY <1>5, <1>6 DEF PitRegisters
  <2>3. [[p EXCEPT !.reload = load, !.next_low = low2]
            EXCEPT !.start_value = load, !.enabled = TRUE] \in PitRegisters
    <3>1. load \in Int /\ TRUE \in BOOLEAN
      BY <1>5
    <3> QED
      BY <2>1, <2>2, <3>1
  <2>4. [p EXCEPT !.reload = load, !.start_value = load, !.enabled = TRUE, !.next_low = low2]
          = [[p EXCEPT !.reload = load, !.next_low = low2]
                EXCEPT !.start_value = load, !.enabled = TRUE]
    BY DEF PitRegisters
  <2> QED
    BY <2>3, <2>4
<1> QED
  BY <1>7, <1>8, <1>9

LEMMA TimerTypes ==
  ASSUME ClockAssumption, PitInv
  PROVE  LET r == timer(pit, elapsed)
         IN  /\ r.pit \in PitRegisters
             /\ r.elapsed \in Int /\ Delay(r) \in Int
<1> DEFINE r == timer(pit, elapsed)
<1>1. get_counter_value(pit, elapsed) \in Int
  BY CounterIsInt DEF PitInv
<1>2. /\ r.pit \in PitRegisters
      /\ r.elapsed \in Int
  <2>1. CASE pit.enabled /\ did_rollover(pit, elapsed)
    <3>1. r = [pit |-> [Reloaded(pit, elapsed) EXCEPT !.enabled = pit.mode # 0],
               elapsed |-> 0, irq0 |-> TRUE]
      BY <2>1 DEF timer
    <3>2. Reloaded(pit, elapsed) \in PitRegisters
      BY <1>1 DEF Reloaded, PitInv, PitRegisters
    <3>3. [Reloaded(pit, elapsed) EXCEPT !.enabled = pit.mode # 0] \in PitRegisters
      BY <3>2 DEF PitRegisters
    <3> QED
      BY <3>1, <3>3
  <2>2. CASE ~(pit.enabled /\ did_rollover(pit, elapsed))
    BY <2>2 DEF timer, PitInv
  <2> QED
    BY <2>1, <2>2
<1> HIDE DEF r
<1>3. Delay(r) \in Int
  <2>1. Clocks(r.elapsed) \in Int
    BY <1>2, ClocksProps
  <2> QED
    BY <1>2, <2>1 DEF Delay, ClockAssumption, PitRegisters
<1> QED
  BY <1>2, <1>3 DEF r

(* A new tick makes all others old, wherever they are. *)
LEMMA NextTick ==
  ASSUME TickTypes, NEW t \in Int, next_tick(t)
  PROVE  /\ TickTypes' /\ TickInv'
         /\ idle' = TRUE /\ LastIs(toWorker')
<1> DEFINE e == [t |-> t, newest |-> TRUE]
<1>1. e \in ToWorker /\ e.newest = TRUE
  BY DEF ToWorker
<1>2. /\ Stale(toWorker) \in Seq(ToWorker) /\ NoneIs(Stale(toWorker))
      /\ Stale(toPage) \in Seq(ToPage) /\ NoneIs(Stale(toPage))
  BY StaleProps DEF TickTypes
<1>3. /\ toWorker' = Append(Stale(toWorker), e) /\ toPage' = Stale(toPage)
      /\ timeout' = [timeout EXCEPT !.newest = FALSE] /\ idle' = TRUE
  BY DEF next_tick
<1> HIDE DEF e
<1>4. /\ toWorker' \in Seq(ToWorker) /\ OnlyLast(toWorker') /\ LastIs(toWorker')
  BY <1>1, <1>2, <1>3, AppendNewest
<1>5. toPage' \in Seq(ToPage) /\ NoneIs(toPage') /\ OnlyLast(toPage')
  BY <1>2, <1>3 DEF NoneIs, OnlyLast
<1>6. timeout' \in Timeouts /\ timeout'.newest = FALSE
  BY <1>3 DEF TickTypes, Timeouts
<1> QED
  BY <1>3, <1>4, <1>5, <1>6 DEF TickTypes, TickInv

-----------------------------------------------------------------------------
(* The invariant is inductive. *)

LEMMA InitIInv == ClockInit => IInv
<1> SUFFICES ASSUME ClockInit PROVE IInv
  OBVIOUS
<1>1. PitInv
  BY DEF ClockInit, PitInv, PitRegisters
<1>2. TickTypes
  BY DEF ClockInit, TickTypes, NoTimeout, Timeouts
<1>3. TickInv
  BY DEF ClockInit, TickInv, NoTimeout, OnlyLast
<1>4. LoopInv
  BY DEF ClockInit, LoopInv
<1>5. WaitInv
  BY DEF ClockInit, WaitInv
<1> QED
  BY <1>1, <1>2, <1>3, <1>4, <1>5 DEF IInv

LEMMA NextIInv == ClockAssumption /\ IInv /\ [ClockNext]_clockVars => IInv'
<1> SUFFICES ASSUME ClockAssumption, IInv, [ClockNext]_clockVars PROVE IInv'
  OBVIOUS
<1> USE DEF IInv
<1>1. CASE worker_message
  <2> DEFINE m == Head(toWorker)
  <2>1. toWorker # << >> /\ OnlyLast(toWorker) /\ toWorker \in Seq(ToWorker)
    BY <1>1 DEF worker_message, TickTypes, TickInv
  <2>2. /\ m \in ToWorker /\ Tail(toWorker) \in Seq(ToWorker) /\ OnlyLast(Tail(toWorker))
        /\ Len(toWorker) > 0 /\ Len(Tail(toWorker)) = Len(toWorker) - 1
        /\ NoneIs(toWorker) => NoneIs(Tail(toWorker)) /\ m.newest = FALSE
        /\ LastIs(toWorker) => m.newest = TRUE \/ LastIs(Tail(toWorker))
        /\ Len(Tail(toWorker)) > 0 => m.newest = FALSE
    BY <2>1, TailNewest
  <2>3. NoneIs(toPage) /\ timeout.newest = FALSE /\ toPage \in Seq(ToPage) /\ ~LastIs(toPage)
    BY <2>2, NoneOrLast DEF TickInv, TickTypes
  <2>4. toWorker' = Tail(toWorker) /\ UNCHANGED <<wakes, loopVars, timerVars>>
    BY <1>1 DEF worker_message
  <2>5. CASE m.t < Millisecond
    <3>1. timeout' = NoTimeout /\ toPage' = Append(toPage, [newest |-> m.newest])
      BY <1>1, <2>5 DEF worker_message
    <3>2. [newest |-> m.newest] \in ToPage
      BY <2>2 DEF ToWorker, ToPage
    <3>3. /\ toPage' \in Seq(ToPage) /\ OnlyLast(toPage')
          /\ m.newest = TRUE => LastIs(toPage')
          /\ m.newest = FALSE => NoneIs(toPage')
      BY <2>3, <3>1, <3>2, AppendNewest
    <3>4. m.newest \in BOOLEAN /\ timeout' \in Timeouts /\ timeout'.newest = FALSE /\ timeout'.set = FALSE
      BY <2>2, <3>1 DEF ToWorker, NoTimeout, Timeouts
    <3>5. TickTypes' /\ TickInv'
      BY <2>2, <2>4, <3>3, <3>4 DEF TickTypes, TickInv
    <3>6. LoopInv'
      BY <2>2, <2>3, <2>4, <3>3, <3>4 DEF LoopInv, loopVars
    <3> QED
      BY <2>4, <3>5, <3>6 DEF PitInv, WaitInv, timerVars, loopVars
  <2>6. CASE ~(m.t < Millisecond)
    <3>1. timeout' = [t |-> m.t * Grain, newest |-> m.newest, set |-> TRUE] /\ toPage' = toPage
      BY <1>1, <2>6 DEF worker_message
    <3>0. m.t * Grain \in Int
      BY <2>2, MultiplesOrdered DEF ToWorker, ClockAssumption
    <3>2. timeout' \in Timeouts /\ timeout'.newest = m.newest /\ timeout'.set = TRUE /\ m.newest \in BOOLEAN
      BY <2>2, <3>0, <3>1 DEF ToWorker, Timeouts
    <3>3. TickTypes' /\ TickInv'
      BY <2>2, <2>3, <2>4, <3>1, <3>2 DEF TickTypes, TickInv
    <3>4. LoopInv'
      BY <2>2, <2>3, <2>4, <3>1, <3>2 DEF LoopInv, loopVars
    <3> QED
      BY <2>4, <3>3, <3>4 DEF PitInv, WaitInv, timerVars, loopVars
  <2> QED
    BY <2>5, <2>6
<1>2. CASE worker_timeout
  <2>1. /\ timeout.set = TRUE /\ toPage' = Append(toPage, [newest |-> timeout.newest])
        /\ timeout' = NoTimeout /\ UNCHANGED <<toWorker, wakes, loopVars, timerVars>>
    BY <1>2 DEF worker_timeout, TickTypes, Timeouts
  <2>2. /\ NoneIs(toPage) /\ toPage \in Seq(ToPage) /\ ~LastIs(toPage)
        /\ toWorker \in Seq(ToWorker) /\ timeout.newest \in BOOLEAN
    BY <2>1, NoneOrLast DEF TickInv, TickTypes, Timeouts
  <2>3. [newest |-> timeout.newest] \in ToPage
    BY <2>2 DEF ToPage
  <2>4. /\ toPage' \in Seq(ToPage) /\ OnlyLast(toPage')
        /\ timeout.newest = TRUE => LastIs(toPage')
        /\ timeout.newest = FALSE => NoneIs(toPage')
    BY <2>1, <2>2, <2>3, AppendNewest
  <2>5. timeout' \in Timeouts /\ timeout'.newest = FALSE /\ timeout'.set = FALSE
    BY <2>1 DEF NoTimeout, Timeouts
  <2>6. TickTypes' /\ TickInv'
    BY <2>1, <2>2, <2>4, <2>5 DEF TickTypes, TickInv
  <2>7. LoopInv'
    BY <2>1, <2>2, <2>4, <2>5 DEF LoopInv, loopVars
  <2> QED
    BY <2>1, <2>6, <2>7 DEF PitInv, WaitInv, timerVars, loopVars
<1>3. CASE yield_callback
  <2> DEFINE m == Head(toPage)
  <2>1. /\ idle /\ toPage # << >> /\ toPage' = Tail(toPage) /\ UNCHANGED <<toWorker, timeout>>
        /\ toPage \in Seq(ToPage) /\ OnlyLast(toPage)
    BY <1>3 DEF yield_callback, TickTypes, TickInv
  <2>2. /\ m \in ToPage /\ toPage' \in Seq(ToPage) /\ OnlyLast(toPage')
        /\ NoneIs(toPage) => NoneIs(toPage') /\ m.newest = FALSE
        /\ m.newest = TRUE => NoneIs(toPage')
        /\ LastIs(toPage) => m.newest = TRUE \/ LastIs(toPage')
    BY <2>1, TailNewest
  <2>3. TickTypes' /\ TickInv'
    BY <2>1, <2>2 DEF TickTypes, TickInv
  <2>4. CASE ~m.newest /\ UNCHANGED <<loopVars, timerVars>>
    <3>1. m.newest = FALSE
      BY <2>2, <2>4 DEF ToPage
    <3>2. LoopInv'
      BY <2>1, <2>2, <2>4, <3>1 DEF LoopInv, loopVars
    <3> QED
      BY <2>3, <2>4, <3>2 DEF PitInv, WaitInv, timerVars, loopVars
  <2>5. CASE m.newest /\ Stopped
    <3>1. running' = FALSE /\ stopping' = FALSE /\ cpu_is_running' = FALSE /\ waiting' = 0 /\ idle' = TRUE
      BY <2>1, <2>5 DEF LoopInv, Stopped
    <3>2. LoopInv'
      BY <3>1 DEF LoopInv
    <3> QED
      BY <2>3, <2>5, <3>2 DEF PitInv, WaitInv, Stopped, timerVars
  <2>6. CASE /\ m.newest /\ Continue /\ idle' = FALSE
             /\ UNCHANGED <<running, stopping, cpu_is_running, waiting, timerVars>>
    <3>1. m.newest = TRUE /\ NoneIs(toPage')
      BY <2>2, <2>6 DEF ToPage
    <3>2. ~NoneIs(toPage)
      BY <2>2, <3>1
    <3>3. Len(toWorker) = 0 /\ timeout.set = FALSE /\ timeout.newest = FALSE
      BY <3>2 DEF TickInv, TickTypes, Timeouts
    <3>4. NoneIs(toWorker)
      BY <3>3 DEF NoneIs
    <3>5. LoopInv'
      BY <2>1, <2>6, <3>1, <3>3, <3>4 DEF LoopInv, Continue
    <3> QED
      BY <2>3, <2>6, <3>5 DEF PitInv, WaitInv, timerVars, loopVars
  <2> QED
    BY <1>3, <2>4, <2>5, <2>6 DEF yield_callback
<1>4. CASE main_loop_return
  <2> DEFINE r == timer(pit, elapsed)
  <2>1. PICK halted \in BOOLEAN : next_tick(IF halted THEN Delay(r) ELSE 0)
    BY <1>4 DEF main_loop_return
  <2>2. /\ r.pit \in PitRegisters
        /\ r.elapsed \in Int /\ Delay(r) \in Int
    BY TimerTypes
  <2>3. /\ pit' = r.pit /\ elapsed' = r.elapsed
        /\ UNCHANGED <<running, stopping, cpu_is_running, waiting>>
    BY <1>4 DEF main_loop_return
  <2> HIDE DEF r
  <2>4. (IF halted THEN Delay(r) ELSE 0) \in Int
    BY <2>2
  <2>5. TickTypes' /\ TickInv' /\ idle' = TRUE /\ LastIs(toWorker')
    BY <2>1, <2>4, NextTick
  <2>6. LoopInv'
    BY <2>3, <2>5 DEF LoopInv
  <2> QED
    BY <2>2, <2>3, <2>5, <2>6 DEF PitInv, WaitInv
<1>5. CASE guest_port43_write
  <2>1. UNCHANGED <<running, stopping, idle, cpu_is_running, waiting, toWorker, timeout, toPage, elapsed>>
    BY <1>5 DEF guest_port43_write, Guest, loopVars, tickVars
  <2>2. PICK mode \in {0, 2, 3}, access \in 0 .. 3 : pit' = port43_write(pit, mode, access)
    BY <1>5 DEF guest_port43_write
  <2>3. PitInv'
    <3>1. [pit EXCEPT !.latch = 2] \in PitRegisters
      BY DEF PitInv, PitRegisters
    <3>2. (access # 2) \in BOOLEAN /\ mode \in Int /\ access \in Int
      OBVIOUS
    <3>3. [pit EXCEPT !.next_low = access # 2, !.mode = mode, !.read_mode = access] \in PitRegisters
      BY <3>2 DEF PitInv, PitRegisters
    <3> QED
      BY <2>1, <2>2, <3>1, <3>3 DEF PitInv, port43_write
  <2> QED
    BY <2>1, <2>3 DEF TickTypes, TickInv, WaitInv, LoopInv
<1>6. CASE guest_counter_write
  <2>1. UNCHANGED <<running, stopping, idle, cpu_is_running, waiting, toWorker, timeout, toPage>>
    BY <1>6 DEF guest_counter_write, Guest, loopVars, tickVars
  <2>2. PICK b \in 0 .. Base - 1 : pit' = counter_write(pit, b)
    BY <1>6 DEF guest_counter_write
  <2>3. pit' \in PitRegisters
    BY <2>2, CounterWriteTypes DEF PitInv
  <2>4. elapsed' \in Int
    BY <1>6 DEF guest_counter_write, PitInv
  <2> QED
    BY <2>1, <2>3, <2>4 DEF PitInv, TickTypes, TickInv, WaitInv, LoopInv
<1>7. CASE guest_counter_read
  <2>1. UNCHANGED <<running, stopping, idle, cpu_is_running, waiting, toWorker, timeout, toPage, elapsed>>
    BY <1>7 DEF guest_counter_read, Guest, loopVars, tickVars
  <2>2. PitInv'
    <3>1. [pit EXCEPT !.latch = @ - 1] \in PitRegisters
      BY DEF PitInv, PitRegisters
    <3>2. (~pit.next_low) \in BOOLEAN
      OBVIOUS
    <3>3. [pit EXCEPT !.next_low = ~@] \in PitRegisters
      BY <3>2 DEF PitInv, PitRegisters
    <3> QED
      BY <1>7, <2>1, <3>1, <3>3 DEF guest_counter_read, counter_read, PitInv
  <2> QED
    BY <2>1, <2>2 DEF TickTypes, TickInv, WaitInv, LoopInv
<1>8. CASE run
  <2>1. TickTypes' /\ TickInv' /\ idle' = TRUE /\ LastIs(toWorker')
    BY <1>8, NextTick, 0 \in Int DEF run
  <2>2. LoopInv'
    BY <1>8, <2>1 DEF run, LoopInv
  <2> QED
    BY <1>8, <2>1, <2>2 DEF run, PitInv, WaitInv, timerVars
<1>9. CASE stop
  <2>1. UNCHANGED <<toWorker, toPage, timeout, pit, elapsed, running, idle, cpu_is_running>>
    BY <1>9 DEF stop, tickVars, timerVars
  <2>2. waiting' = 1 /\ cpu_is_running /\ stopping' \in BOOLEAN
    BY <1>9 DEF stop, LoopInv
  <2>3. LoopInv'
    BY <2>1, <2>2 DEF LoopInv
  <2>4. WaitInv'
    BY <2>1, <2>2 DEF WaitInv, LoopInv
  <2> QED
    BY <2>1, <2>3, <2>4 DEF PitInv, TickTypes, TickInv
<1>10. CASE stop_idling
  <2>1. TickTypes' /\ TickInv' /\ idle' = TRUE /\ LastIs(toWorker')
    BY <1>10, NextTick, 0 \in Int DEF stop_idling
  <2>2. LoopInv'
    BY <1>10, <2>1 DEF stop_idling, LoopInv
  <2> QED
    BY <1>10, <2>1, <2>2 DEF stop_idling, PitInv, WaitInv, timerVars
<1>11. CASE restore_clock
  <2>0. MaxLate * Grain \in Int
    BY MultiplesOrdered DEF ClockAssumption
  <2>1. /\ UNCHANGED <<idle, pit>> /\ idle = TRUE /\ elapsed' \in Int
        /\ running' = FALSE /\ stopping' = FALSE /\ cpu_is_running' = FALSE /\ waiting' = 0
        /\ toWorker' = << >> /\ timeout' = NoTimeout /\ toPage' = << >>
    BY <1>11, <2>0 DEF restore_clock, LoopInv
  <2>2. TickTypes' /\ TickInv'
    BY <2>1 DEF TickTypes, TickInv, NoTimeout, Timeouts, OnlyLast, NoneIs
  <2>3. LoopInv'
    BY <2>1 DEF LoopInv
  <2> QED
    BY <2>1, <2>2, <2>3 DEF PitInv, WaitInv
<1>12. CASE Clock
  <2>1. UNCHANGED <<running, stopping, idle, cpu_is_running, waiting, toWorker, toPage, pit>>
    BY <1>12 DEF Clock, loopVars
  <2>2. elapsed' \in Int /\ timeout' = [timeout EXCEPT !.t = IF @ > 0 THEN @ - 1 ELSE 0]
    BY <1>12 DEF Clock, PitInv
  <2>3. timeout' \in Timeouts /\ timeout'.newest = timeout.newest /\ timeout'.set = timeout.set
    BY <2>2, SMTT(20) DEF TickTypes, Timeouts
  <2>4. TickTypes' /\ TickInv' /\ LoopInv'
    BY <2>1, <2>3 DEF TickTypes, TickInv, WaitInv, LoopInv
  <2> QED
    BY <2>1, <2>2, <2>4 DEF PitInv, WaitInv
<1>13. CASE UNCHANGED clockVars
  BY <1>13 DEF clockVars, loopVars, tickVars, timerVars, PitInv, TickTypes, TickInv, WaitInv, LoopInv
<1> QED
  BY <1>1, <1>2, <1>3, <1>4, <1>5, <1>6, <1>7, <1>8, <1>9, <1>10, <1>11, <1>12, <1>13 DEF ClockNext

LEMMA IInvOneLoop == IInv => OneLoop
<1> SUFFICES ASSUME IInv PROVE OneLoop
  OBVIOUS
<1> USE DEF IInv
<1>1. /\ toWorker \in Seq(ToWorker) /\ OnlyLast(toWorker)
      /\ toPage \in Seq(ToPage) /\ OnlyLast(toPage)
      /\ timeout.newest \in BOOLEAN
  BY DEF TickTypes, TickInv, Timeouts
<1> DEFINE W == Cardinality({i \in DOMAIN toWorker : toWorker[i].newest})
           P == Cardinality({i \in DOMAIN toPage : toPage[i].newest})
<1>2. W = IF LastIs(toWorker) THEN 1 ELSE 0
  BY <1>1, CountNewest
<1>3. P = IF LastIs(toPage) THEN 1 ELSE 0
  BY <1>1, CountNewest
<1>4. (NoneIs(toWorker) <=> ~LastIs(toWorker)) /\ (NoneIs(toPage) <=> ~LastIs(toPage))
  BY <1>1, NoneOrLast
<1>5. LastIs(toWorker) => Len(toWorker) > 0
  BY DEF LastIs
<1>6. Newest = W + P + (IF timeout.newest THEN 1 ELSE 0)
  BY DEF Newest
<1> HIDE DEF W, P
<1>7. running => Newest = (IF idle THEN 1 ELSE 0)
  BY <1>1, <1>2, <1>3, <1>4, <1>5, <1>6 DEF TickInv, LoopInv
<1> QED
  BY <1>7 DEF OneLoop, LoopInv, WaitInv

(* The emulator's loop is neither lost nor doubled, whatever the sizes of  *)
(* the timer's registers and however many runs, stops, interrupts, late    *)
(* timeouts and restored states come (do_tick, next_tick, yield_callback). *)
THEOREM ClockOneLoop == ClockSpec => []OneLoop
  BY ClockAssumption, InitIInv, NextIInv, IInvOneLoop, PTL DEF ClockSpec

-----------------------------------------------------------------------------
(* The phase of the timer. *)

(* n is a whole number of periods d. *)
Multiple(n, d) == \E k \in Int : n = k * d

(* One period more or less. *)
LEMMA MultipleMoved ==
  ASSUME NEW n \in Int, NEW d \in Nat, d > 0, Multiple(n, d)
  PROVE  Multiple(n + d, d) /\ Multiple(n - d, d)
<1>1. PICK k \in Int : n = k * d
  BY DEF Multiple
<1>2. (k + 1) * d = k * d + d /\ ((k - 1) + 1) * d = (k - 1) * d + d /\ (k - 1) * d \in Int
  BY MultiplesOrdered
<1>3. (k - 1) + 1 = k
  OBVIOUS
<1>4. n + d = (k + 1) * d /\ n - d = (k - 1) * d
  BY <1>1, <1>2, <1>3
<1>5. k + 1 \in Int /\ k - 1 \in Int
  OBVIOUS
<1> QED
  BY <1>4, <1>5 DEF Multiple

(* A remainder may be taken anywhere in the sum. *)
LEMMA MultipleOfRest ==
  ASSUME NEW m \in Int, NEW x \in Nat, NEW d \in Nat, d > 0, Multiple(x + m, d)
  PROVE  Multiple((x % d) + m, d)
<1>1. PICK k \in Int : x + m = k * d
  BY DEF Multiple
<1> DEFINE q == x \div d
<1>2. q \in Nat /\ q * d + (x % d) = x /\ x % d \in Nat
  BY DivProps
<1> HIDE DEF q
<1>3. ((k - q) + q) * d = (k - q) * d + q * d /\ (k - q) * d \in Int /\ q * d \in Int
  BY <1>2, MultiplesOrdered
<1>4. (k - q) + q = k /\ k - q \in Int
  BY <1>2
<1>5. (x % d) + m = (k - q) * d
  BY <1>1, <1>2, <1>3, <1>4
<1> QED
  BY <1>4, <1>5 DEF Multiple

LEMMA MultipleLessRest ==
  ASSUME NEW m \in Int, NEW x \in Nat, NEW d \in Nat, d > 0, Multiple(m - x, d)
  PROVE  Multiple(m - (x % d), d)
<1>1. PICK k \in Int : m - x = k * d
  BY DEF Multiple
<1> DEFINE q == x \div d
<1>2. q \in Nat /\ q * d + (x % d) = x /\ x % d \in Nat
  BY DivProps
<1> HIDE DEF q
<1>3. (k + q) * d = k * d + q * d /\ q * d \in Int
  BY <1>2, MultiplesOrdered
<1>4. m - (x % d) = (k + q) * d
  BY <1>1, <1>2, <1>3
<1>5. k + q \in Int
  BY <1>2
<1> QED
  BY <1>4, <1>5 DEF Multiple

(* A whole number of periods leaves nothing. *)
LEMMA MultipleRest ==
  ASSUME NEW n \in Int, NEW d \in Nat, d > 0, Multiple(n, d)
  PROVE  n % d = 0
<1>1. PICK k \in Int : n = k * d
  BY DEF Multiple
<1>2. \A x \in Int, y \in Nat : y > 0 => (x * y) % y = 0
  OBVIOUS
<1> QED
  BY <1>1, <1>2

(* The counter stands within its reload value, at a distance of whole      *)
(* periods from where counting down from its start would have led.         *)
LEMMA CounterInPhase ==
  ASSUME ClockAssumption, NEW p \in PitRegisters, NEW e \in Int, NEW a \in Int,
         p.enabled = TRUE, p.reload > 0,
         Multiple(p.start_value - Clocks(e) + a, p.reload)
  PROVE  /\ get_counter_value(p, e) \in 0 .. p.reload
         /\ Multiple(get_counter_value(p, e) + a, p.reload)
<1> DEFINE b == p.start_value - Clocks(e)
           d == p.reload
           c == get_counter_value(p, e)
<1>1. b \in Int /\ d \in Nat /\ d > 0
  BY ClocksProps DEF PitRegisters
<1>2. c = CASE b >= d -> b % d
            [] b < 0 -> JsRem(b, d) + d
            [] OTHER -> b
  BY DEF get_counter_value
<1>3. Multiple(b + a, d)
  OBVIOUS
<1> HIDE DEF b, d, c
<1>4. CASE b >= d
  <2>1. c = b % d /\ b \in Nat
    BY <1>1, <1>2, <1>4
  <2>2. b % d \in Nat /\ b % d < d
    BY <1>1, <2>1, DivProps
  <2>3. Multiple((b % d) + a, d)
    BY <1>1, <1>3, <2>1, MultipleOfRest
  <2> QED
    BY <1>1, <2>1, <2>2, <2>3 DEF c, d
<1>5. CASE b < 0
  <2> DEFINE x == -b
  <2>1. x \in Nat /\ c = d - (x % d)
    <3>1. ~(b >= d) /\ x \in Nat
      BY <1>1, <1>5
    <3>2. c = JsRem(b, d) + d
      BY <1>2, <1>5, <3>1
    <3>3. x % d \in Nat
      BY <1>1, <3>1, DivProps
    <3>4. JsRem(b, d) = -(x % d)
      BY <1>5 DEF JsRem
    <3> QED
      BY <1>1, <3>1, <3>2, <3>3, <3>4
  <2>2. x % d \in Nat /\ x % d < d
    BY <1>1, <2>1, DivProps
  <2>3. a - x = b + a
    BY <1>1
  <2> HIDE DEF x
  <2>4. Multiple(a - (x % d), d)
    <3>1. Multiple(a - x, d)
      BY <1>3, <2>3
    <3>2. a \in Int /\ x \in Nat /\ d \in Nat /\ d > 0
      BY <1>1, <2>1
    <3> QED
      BY <3>1, <3>2, MultipleLessRest, Zenon
  <2>5. Multiple(a - (x % d) + d, d)
    BY <1>1, <2>2, <2>4, MultipleMoved
  <2>6. a - (x % d) + d = c + a
    BY <1>1, <2>1, <2>2
  <2> QED
    BY <1>1, <2>1, <2>2, <2>5, <2>6 DEF c, d
<1>6. CASE ~(b >= d) /\ ~(b < 0)
  <2>1. c = b
    BY <1>2, <1>6
  <2> QED
    BY <1>1, <1>3, <1>6, <2>1 DEF c, d
<1> QED
  BY <1>4, <1>5, <1>6 DEF c, d

(* Whatever the registers, the counter is no larger than what can be loaded. *)
LEMMA CounterRange ==
  ASSUME ClockAssumption, NEW p \in PitRegisters, NEW e \in Int
  PROVE  get_counter_value(p, e) \in 0 .. p.reload
<1> DEFINE b == p.start_value - Clocks(e)
           d == p.reload
<1>1. b \in Int /\ d \in Nat
  BY ClocksProps DEF PitRegisters
<1>2. CASE ~p.enabled \/ d = 0
  BY <1>1, <1>2 DEF get_counter_value
<1>3. CASE ~(~p.enabled \/ d = 0)
  <2>1. get_counter_value(p, e) = CASE b >= d -> b % d
                                    [] b < 0 -> JsRem(b, d) + d
                                    [] OTHER -> b
    BY <1>3 DEF get_counter_value
  <2>2. \A x \in Nat : x % d \in Nat /\ x % d < d
    BY <1>1, <1>3, DivProps
  <2> HIDE DEF b, d
  <2>3. CASE b >= d
    BY <1>1, <2>1, <2>2, <2>3 DEF d
  <2>4. CASE b < 0
    <3>1. -b \in Nat
      BY <1>1, <2>4
    <3>2. JsRem(b, d) = -((-b) % d)
      BY <2>4 DEF JsRem
    <3>3. ~(b >= d)
      BY <1>1, <2>4
    <3>4. get_counter_value(p, e) = -((-b) % d) + d
      BY <2>1, <2>4, <3>2, <3>3
    <3>5. (-b) % d \in Nat /\ (-b) % d < d
      BY <2>2, <3>1
    <3> QED
      BY <1>1, <3>4, <3>5 DEF d
  <2>5. CASE ~(b >= d) /\ ~(b < 0)
    BY <1>1, <2>1, <2>5 DEF d
  <2> QED
    BY <2>3, <2>4, <2>5
<1> QED
  BY <1>2, <1>3

(* A register of two bytes, whichever of them is written. *)
LEMMA ClockTwoBytes ==
  ASSUME NEW B \in Nat, B > 1, NEW r \in 0 .. B * B - 1, NEW b \in 0 .. B - 1
  PROVE  /\ (r \div B) * B + b \in 0 .. B * B - 1
         /\ b * B + (r % B) \in 0 .. B * B - 1
         /\ B * B - 1 \in 1 .. B * B - 1
<1> DEFINE q == r \div B
           s == B * B
<1>1. s \in Nat /\ s > 1
  BY MultiplesOrdered
<1>2. r \in Nat /\ r < s /\ b \in Nat /\ b < B
  BY <1>1
<1>3. q \in Nat /\ q * B <= r /\ r % B \in Nat /\ r % B < B
  BY <1>2, DivProps
<1> HIDE DEF q
<1>4. ASSUME NEW k \in Nat, k < B
      PROVE  k * B + B <= s /\ k * B \in Nat
  BY <1>4, MultiplesOrdered
<1>5. q < B
  <2>1. q < B <=> q * B < B * B
    BY <1>3, MultiplesOrdered
  <2>2. q * B \in Int
    BY <1>3, MultiplesOrdered
  <2> HIDE DEF s
  <2>3. q * B < s
    BY <1>1, <1>2, <1>3, <2>2
  <2> QED
    BY <2>1, <2>3 DEF s
<1>6. q * B + B <= s /\ q * B \in Nat /\ b * B + B <= s /\ b * B \in Nat
  BY <1>2, <1>3, <1>4, <1>5
<1> HIDE DEF s
<1>7. q * B + b \in 0 .. s - 1 /\ b * B + (r % B) \in 0 .. s - 1 /\ s - 1 \in 1 .. s - 1
  BY <1>1, <1>2, <1>3, <1>6
<1> QED
  BY <1>7 DEF q, s

(* What two bytes hold. *)
InRange(n) == n \in 0 .. Base * Base - 1

(* Writing the counter keeps both registers within two bytes; a write that *)
(* loads it starts it at its reload value, which is not 0.                 *)
LEMMA CounterWriteRange ==
  ASSUME ClockAssumption, NEW p \in PitRegisters, NEW b \in 0 .. Base - 1,
         InRange(p.reload), InRange(p.start_value),
         NEW q, q = counter_write(p, b)
  PROVE  /\ InRange(q.reload) /\ InRange(q.start_value)
         /\ Loads(p) => q.start_value = q.reload /\ q.reload > 0
<1> DEFINE low   == p.reload % Base
           high  == p.reload \div Base
           value == IF p.next_low THEN high * Base + b ELSE b * Base + low
           load  == IF value = 0 THEN Base * Base - 1 ELSE value
           low2  == IF p.read_mode = 3 THEN ~p.next_low ELSE p.next_low
           top   == Base * Base - 1
<1>1. /\ high * Base + b \in 0 .. top /\ b * Base + low \in 0 .. top
      /\ top \in 1 .. top
  BY ClockTwoBytes DEF ClockAssumption, InRange
<1> HIDE DEF top
<1>2. value \in 0 .. top
  <2> HIDE DEF low, high
  <2> QED
    BY <1>1
<1>3. load = (IF value = 0 THEN top ELSE value)
  BY DEF top
<1> HIDE DEF value
<1>4. load \in 0 .. top /\ load > 0
  <2> HIDE DEF load
  <2> QED
    BY <1>1, <1>2, <1>3
<1>5. q = IF ~Loads(p) THEN [p EXCEPT !.reload = value, !.next_low = low2]
          ELSE [p EXCEPT !.reload = load, !.start_value = load, !.enabled = TRUE,
                         !.next_low = low2]
  BY DEF counter_write, Loads, value
<1> HIDE DEF load, low2
<1>6. CASE Loads(p)
  <2>1. q.reload = load /\ q.start_value = load
    BY <1>5, <1>6 DEF PitRegisters
  <2> QED
    BY <1>4, <2>1 DEF InRange, top
<1>7. CASE ~Loads(p)
  <2>1. q.reload = value /\ q.start_value = p.start_value
    BY <1>5, <1>7 DEF PitRegisters
  <2> QED
    BY <1>2, <1>7, <2>1 DEF InRange, top
<1> QED
  BY <1>6, <1>7

-----------------------------------------------------------------------------
(* n is a whole number of periods m, and at most k times less than a clock. *)
Late(n, k, m) == \E d \in 0 .. k * (Grain - 1) : Multiple(n - d, m)

LEMMA LateBound ==
  ASSUME ClockAssumption, NEW k \in Nat
  PROVE  /\ Grain \in Nat /\ Grain > 0 /\ Grain - 1 \in Nat
         /\ k * (Grain - 1) \in Nat
         /\ (k + 1) * (Grain - 1) = k * (Grain - 1) + (Grain - 1)
<1>1. Grain \in Nat /\ Grain > 0 /\ Grain - 1 \in Nat
  BY DEF ClockAssumption
<1>2. \A x, y \in Nat : x * y \in Nat /\ (x + 1) * y = x * y + y
  OBVIOUS
<1> QED
  BY <1>1, <1>2

(* Whole periods change nothing, and less than a clock adds one. *)
LEMMA LateMoved ==
  ASSUME ClockAssumption, NEW n \in Int, NEW k \in Nat, NEW m \in Nat, m > 0, Late(n, k, m),
         NEW j \in Int, NEW r \in 0 .. Grain - 1
  PROVE  Late(n + j * m + r, k + 1, m)
<1> DEFINE top == k * (Grain - 1)
<1>1. Grain \in Nat /\ top \in Nat /\ (k + 1) * (Grain - 1) = top + (Grain - 1)
  BY LateBound
<1>2. PICK d \in 0 .. top : Multiple(n - d, m)
  BY DEF Late
<1> HIDE DEF top
<1>3. PICK i \in Int : n - d = i * m
  BY <1>2 DEF Multiple
<1>4. (i + j) * m = i * m + j * m /\ j * m \in Int /\ i + j \in Int
  BY MultiplesOrdered
<1> DEFINE jm == j * m
<1>5. jm \in Int /\ (i + j) * m = i * m + jm
  BY <1>4
<1> HIDE DEF jm
<1>6. d + r \in 0 .. top + (Grain - 1) /\ d \in Int /\ r \in Int
  BY <1>1
<1>7. (n + jm + r) - (d + r) = (i + j) * m
  BY <1>3, <1>5, <1>6
<1>8. Multiple((n + jm + r) - (d + r), m)
  BY <1>4, <1>7 DEF Multiple
<1> QED
  BY <1>1, <1>6, <1>8 DEF Late, jm

(* The time since the counter was loaded may be taken modulo its period. *)
LEMMA LateOfRest ==
  ASSUME ClockAssumption, NEW n \in Int, NEW x \in Nat, NEW k \in Nat, NEW m \in Nat, m > 0,
         Late(n + x, k, m)
  PROVE  Late(n + (x % m), k, m)
<1>1. PICK d \in 0 .. k * (Grain - 1) : Multiple(n + x - d, m)
  BY DEF Late
<1>2. d \in Int
  BY LateBound
<1>3. x + (n - d) = n + x - d /\ n - d \in Int
  BY <1>2
<1>4. Multiple((x % m) + (n - d), m)
  BY <1>1, <1>3, MultipleOfRest
<1>5. x % m \in Nat
  BY DivProps
<1>6. (x % m) + (n - d) = n + (x % m) - d
  BY <1>2, <1>5
<1> QED
  BY <1>1, <1>4, <1>6 DEF Late

(* What the counter reads is whole clocks: the part of a clock that has    *)
(* passed besides is missing, and no more.                                 *)
LEMMA CounterLate ==
  ASSUME ClockAssumption, NEW p \in PitRegisters, NEW e \in Nat, NEW a \in Nat, NEW k \in Nat,
         p.enabled = TRUE, p.reload > 0,
         Late(p.start_value * Grain - e + a, k, p.reload * Grain)
  PROVE  Late(get_counter_value(p, e) * Grain + a, k + 1, p.reload * Grain)
<1> DEFINE c == get_counter_value(p, e)
           f == Clocks(e)
           r == e % Grain
           v == p.start_value
           d == p.reload
<1>0. e \in Int /\ e >= 0
  OBVIOUS
<1>1. f \in Nat /\ r \in 0 .. Grain - 1 /\ f * Grain + r = e
  BY <1>0, ClocksProps, Zenon
<1>2. v \in Int /\ d \in Nat /\ d > 0 /\ Grain \in Nat /\ Grain > 0
  BY DEF PitRegisters, ClockAssumption
<1>3. Multiple(v - f + (f - v), d) /\ f - v \in Int
  <2>1. v - f + (f - v) = 0 * d /\ f - v \in Int
    BY <1>1, <1>2
  <2> QED
    BY <2>1 DEF Multiple
<1>4. c \in 0 .. d /\ Multiple(c + (f - v), d)
  BY <1>0, <1>3, CounterInPhase, Zenon
<1> HIDE DEF c, f, r, v, d
<1>5. PICK j \in Int : c + (f - v) = j * d
  BY <1>4 DEF Multiple
<1>6. /\ d * Grain \in Nat /\ d * Grain > 0
      /\ (j * d) * Grain = j * (d * Grain)
  <2>1. \A x, y \in Nat : x > 0 /\ y > 0 => x * y \in Nat /\ x * y > 0
    OBVIOUS
  <2>2. \A x \in Int, y, z \in Nat : (x * y) * z = x * (y * z)
    OBVIOUS
  <2> QED
    BY <1>2, <2>1, <2>2
<1>7. c * Grain = v * Grain - f * Grain + j * (d * Grain)
  <2>1. \A x, y, w \in Int, z \in Nat : (x - y + w) * z = x * z - y * z + w * z
    OBVIOUS
  <2>2. c = v - f + j * d /\ j * d \in Int
    BY <1>1, <1>2, <1>4, <1>5
  <2> QED
    BY <1>1, <1>2, <1>6, <2>1, <2>2
<1> DEFINE n == v * Grain - e + a
<1>8. /\ c * Grain \in Int /\ v * Grain \in Int /\ f * Grain \in Int
      /\ j * (d * Grain) \in Int /\ n \in Int
  <2>1. \A x, y \in Int : x * y \in Int
    OBVIOUS
  <2>2. c \in Int /\ d * Grain \in Int
    BY <1>2, <1>4, <1>6
  <2>3. v * Grain \in Int
    BY <1>2, <2>1
  <2> QED
    BY <1>1, <1>2, <2>1, <2>2, <2>3
<1> DEFINE cg == c * Grain
           vg == v * Grain
           fg == f * Grain
           jd == j * (d * Grain)
<1>9. cg = vg - fg + jd /\ fg + r = e /\ n = vg - e + a
      /\ cg \in Int /\ vg \in Int /\ fg \in Int /\ jd \in Int /\ r \in Int
  BY <1>1, <1>2, <1>7, <1>8
<1>10. Late(n, k, d * Grain)
  BY DEF v, d
<1> HIDE DEF cg, vg, fg, jd, n
<1>11. n + jd + r = cg + a
  BY <1>9
<1>12. Late(n + jd + r, k + 1, d * Grain)
  BY <1>1, <1>6, <1>8, <1>10, LateMoved DEF jd
<1> QED
  BY <1>11, <1>12 DEF cg, c, d

(* The counter, as long as reload is the value that was loaded, stands     *)
(* whole periods away from where it would stand had it only counted down,  *)
(* and less than a clock for every rollover that was served.               *)
InPhase ==
  pit.enabled = TRUE /\ fresh = TRUE
    => /\ pit.reload > 0 /\ elapsed >= 0
       /\ Late(pit.start_value * Grain - elapsed + age, served, pit.reload * Grain)

PhaseInv ==
  /\ InRange(pit.reload) /\ InRange(pit.start_value)
  /\ elapsed >= -1 /\ age \in Nat /\ served \in 0 .. MaxServed
  /\ irq0 \in BOOLEAN /\ fresh \in BOOLEAN /\ ops \in 0 .. MaxOps
  /\ InPhase

(* The counter has not been loaded. *)
LEMMA InitPhaseInv == ClockAssumption /\ ClockInit => PhaseInv
<1> SUFFICES ASSUME ClockAssumption, ClockInit
             PROVE  PhaseInv
  OBVIOUS
<1>1. Base * Base - 1 \in 1 .. Base * Base - 1
  <2>1. 0 \in 0 .. Base * Base - 1 /\ 0 \in 0 .. Base - 1
    <3>1. Base * Base \in Int /\ 0 < Base <=> 0 * Base < Base * Base
      BY MultiplesOrdered DEF ClockAssumption
    <3> QED
      BY <3>1 DEF ClockAssumption
  <2> QED
    BY <2>1, ClockTwoBytes DEF ClockAssumption
<1>2. 0 \in 0 .. Base * Base - 1
  <2> DEFINE top == Base * Base - 1
  <2>1. top \in 1 .. top
    BY <1>1
  <2> HIDE DEF top
  <2>2. 0 \in 0 .. top
    BY <2>1
  <2> QED
    BY <2>2 DEF top
<1>3. pit.reload = 0 /\ pit.start_value = 0 /\ pit.enabled = FALSE /\ elapsed = 0
      /\ age = 0 /\ served = 0 /\ irq0 = FALSE /\ fresh = FALSE /\ ops = 0
  BY DEF ClockInit
<1>4. ops \in 0 .. MaxOps /\ served \in 0 .. MaxServed
  BY <1>3 DEF ClockAssumption
<1>5. InRange(pit.reload) /\ InRange(pit.start_value)
  BY <1>2, <1>3, Zenon DEF InRange
<1>6. elapsed >= -1 /\ age \in Nat
  BY <1>3
<1>7. irq0 \in BOOLEAN /\ fresh \in BOOLEAN /\ InPhase
  BY <1>3, Zenon DEF InPhase
<1> QED
  BY <1>4, <1>5, <1>6, <1>7 DEF PhaseInv

(* The timer's turn: a rollover starts the counter where it stands, less   *)
(* the part of a clock that has passed besides.                            *)
LEMMA TimerPhase ==
  ASSUME ClockAssumption, PitInv, PhaseInv,
         NEW r, r = timer(pit, elapsed)
  PROVE  /\ InRange(r.pit.reload) /\ InRange(r.pit.start_value)
         /\ r.elapsed \in Int /\ (r.pit.enabled = TRUE => r.elapsed >= 0)
         /\ r.elapsed >= -1 /\ r.irq0 \in BOOLEAN
         /\ r.pit.enabled = TRUE => Clocks(r.elapsed) <= r.pit.start_value
         /\ r.pit.enabled = TRUE /\ fresh = TRUE
              => /\ r.pit.reload > 0
                 /\ Late(r.pit.start_value * Grain - r.elapsed + age,
                         IF r.irq0 THEN served + 1 ELSE served, r.pit.reload * Grain)
<1> DEFINE c == get_counter_value(pit, elapsed)
<1>1. pit \in PitRegisters /\ elapsed \in Int /\ pit.reload \in Nat /\ age \in Nat
      /\ served \in Nat /\ pit.start_value \in Int /\ pit.enabled \in BOOLEAN
  BY DEF PitInv, PitRegisters, PhaseInv, ClockAssumption
<1>2. CASE pit.enabled = TRUE /\ did_rollover(pit, elapsed)
  <2>1. c \in 0 .. pit.reload
    BY <1>1, CounterRange
  <2>2. fresh = TRUE => pit.reload > 0 /\ Late(c * Grain + age, served + 1, pit.reload * Grain)
    <3>1. fresh = TRUE => elapsed \in Nat
      BY <1>1, <1>2 DEF PhaseInv, InPhase
    <3> QED
      BY <1>1, <1>2, <3>1, CounterLate DEF PhaseInv, InPhase
  <2>3. /\ r.elapsed = 0 /\ r.irq0 = TRUE
        /\ r.pit.reload = pit.reload /\ r.pit.start_value = c
    <3>1. r = [pit |-> [Reloaded(pit, elapsed) EXCEPT !.enabled = pit.mode # 0],
               elapsed |-> 0, irq0 |-> TRUE]
      BY <1>2 DEF timer
    <3>2. Reloaded(pit, elapsed) = [pit EXCEPT !.start_value = c]
      BY DEF Reloaded
    <3>3. ASSUME NEW n, NEW x
          PROVE  /\ [[pit EXCEPT !.start_value = n] EXCEPT !.enabled = x].reload = pit.reload
                 /\ [[pit EXCEPT !.start_value = n] EXCEPT !.enabled = x].start_value = n
      BY <1>1 DEF PitRegisters
    <3> HIDE DEF c
    <3>4. r.pit = [[pit EXCEPT !.start_value = c] EXCEPT !.enabled = pit.mode # 0]
          /\ r.elapsed = 0 /\ r.irq0 = TRUE
      BY <3>1, <3>2
    <3> DEFINE z == [[pit EXCEPT !.start_value = c] EXCEPT !.enabled = pit.mode # 0]
    <3>5. z.reload = pit.reload /\ z.start_value = c
      BY <3>3
    <3> HIDE DEF z
    <3>6. r.pit = z
      BY <3>4 DEF z
    <3> QED
      BY <3>4, <3>5, <3>6
  <2> HIDE DEF c
  <2>4. InRange(c)
    <3> DEFINE top == Base * Base - 1
    <3>1. pit.reload \in 0 .. top
      BY DEF PhaseInv, InRange
    <3>2. top \in Int
      <4>1. Base * Base \in Int
        BY MultiplesOrdered DEF ClockAssumption
      <4> QED
        BY <4>1
    <3> HIDE DEF top
    <3>3. c \in 0 .. top
      BY <2>1, <3>1, <3>2
    <3> QED
      BY <3>3 DEF InRange, top
  <2>5. c * Grain \in Int
    BY <1>1, <2>1, MultiplesOrdered DEF ClockAssumption
  <2>6. c * Grain - 0 + age = c * Grain + age
    BY <1>1, <2>5
  <2>7. fresh = TRUE => Late(r.pit.start_value * Grain - r.elapsed + age, served + 1,
                             r.pit.reload * Grain)
    BY <2>2, <2>3, <2>6
  <2>8. r.elapsed \in Int /\ r.elapsed >= 0 /\ r.elapsed >= -1
    BY <2>3
  <2>9. InRange(r.pit.reload) /\ InRange(r.pit.start_value) /\ r.irq0 \in BOOLEAN
    BY <2>3, <2>4, Zenon DEF PhaseInv
  <2>10. fresh = TRUE => r.pit.reload > 0
    BY <2>2, <2>3
  <2>11. Clocks(r.elapsed) <= r.pit.start_value
    <3>1. Clocks(0) = 0
      BY ClocksProps
    <3> QED
      BY <2>1, <2>3, <3>1
  <2> QED
    BY <2>3, <2>7, <2>8, <2>9, <2>10, <2>11, Zenon
<1>3. CASE ~(pit.enabled = TRUE /\ did_rollover(pit, elapsed))
  <2>1. r = [pit |-> pit, elapsed |-> elapsed, irq0 |-> FALSE]
    BY <1>1, <1>3 DEF timer
  <2>2. r.pit = pit /\ r.elapsed = elapsed /\ r.irq0 = FALSE
    BY <2>1
  <2>3. pit.enabled = TRUE => elapsed >= 0 /\ Clocks(elapsed) <= pit.start_value
    <3>1. Clocks(elapsed) \in Int
      BY <1>1, ClocksProps
    <3> QED
      BY <1>1, <1>3, <3>1 DEF did_rollover
  <2>4. pit.enabled = TRUE /\ fresh = TRUE
          => /\ pit.reload > 0
             /\ Late(pit.start_value * Grain - elapsed + age, served, pit.reload * Grain)
    BY DEF PhaseInv, InPhase
  <2>5. elapsed >= -1 /\ InRange(pit.reload) /\ InRange(pit.start_value)
    BY DEF PhaseInv
  <2> QED
    BY <1>1, <2>2, <2>3, <2>4, <2>5, Zenon
<1> QED
  BY <1>2, <1>3

(* Every step keeps the phase. *)
LEMMA NextPhaseInv ==
  ClockAssumption /\ IInv /\ PhaseInv /\ [ClockNext]_clockVars => PhaseInv'
<1> SUFFICES ASSUME ClockAssumption, IInv, PhaseInv, [ClockNext]_clockVars
             PROVE  PhaseInv'
  OBVIOUS
<1>0. pit \in PitRegisters /\ elapsed \in Int /\ PitInv /\ ops \in Nat /\ MaxOps \in Nat
  BY DEF IInv, PitInv, PhaseInv, ClockAssumption
<1>1. CASE worker_message
  BY <1>1 DEF worker_message, timerVars, PhaseInv, InPhase
<1>2. CASE worker_timeout
  BY <1>2 DEF worker_timeout, timerVars, PhaseInv, InPhase
<1>3. CASE yield_callback
  BY <1>3 DEF yield_callback, Stopped, timerVars, PhaseInv, InPhase
<1>4. CASE main_loop_return
  <2> DEFINE r == timer(pit, elapsed)
             more == IF r.irq0 THEN served + 1 ELSE served
  <2>1. /\ pit' = r.pit /\ elapsed' = r.elapsed /\ irq0' = r.irq0
        /\ fresh' = (fresh /\ (r.irq0 => served < MaxServed))
        /\ served' = IF fresh' /\ r.irq0 THEN served + 1 ELSE served
        /\ UNCHANGED <<ops, age>>
    BY <1>4 DEF main_loop_return
  <2>2. /\ InRange(r.pit.reload) /\ InRange(r.pit.start_value)
        /\ r.pit.enabled = TRUE => r.elapsed >= 0
        /\ r.elapsed >= -1 /\ r.irq0 \in BOOLEAN
        /\ r.pit.enabled = TRUE /\ fresh = TRUE
             => /\ r.pit.reload > 0
                /\ Late(r.pit.start_value * Grain - r.elapsed + age, more, r.pit.reload * Grain)
    BY <1>0, TimerPhase, Zenon
  <2> HIDE DEF r
  <2>3. /\ fresh' = TRUE => fresh = TRUE /\ served' = more
        /\ fresh' \in BOOLEAN /\ served' \in 0 .. MaxServed
    <3>1. served \in 0 .. MaxServed /\ fresh \in BOOLEAN
      BY DEF PhaseInv
    <3>2. CASE r.irq0 = TRUE
      <4>1. fresh' = (fresh /\ served < MaxServed)
        BY <2>1, <3>2, Zenon
      <4>2. CASE fresh = TRUE /\ served < MaxServed
        <5>1. fresh' = TRUE /\ served' = served + 1 /\ more = served + 1
          BY <2>1, <3>2, <4>1, <4>2
        <5> QED
          BY <3>1, <4>2, <5>1
      <4>3. CASE ~(fresh = TRUE /\ served < MaxServed)
        <5>1. fresh' = FALSE
          BY <3>1, <4>1, <4>3
        <5>2. served' = served
          BY <2>1, <5>1
        <5> QED
          BY <3>1, <5>1, <5>2
      <4> QED
        BY <4>2, <4>3
    <3>3. CASE r.irq0 = FALSE
      <4>1. served' = served /\ more = served
        BY <2>1, <3>3
      <4>2. fresh' = fresh
        BY <2>1, <3>1, <3>3, Zenon
      <4> QED
        BY <3>1, <4>1, <4>2
    <3> QED
      BY <2>2, <3>2, <3>3
  <2> HIDE DEF more
  <2>4. InPhase'
    BY <2>1, <2>2, <2>3, Zenon DEF InPhase
  <2> QED
    BY <2>1, <2>2, <2>3, <2>4 DEF PhaseInv
<1>5. CASE guest_port43_write
  <2>1. PICK mode \in {0, 2, 3}, access \in 0 .. 3 :
          pit' = port43_write(pit, mode, access) /\ irq0' = (irq0 /\ access = 0)
    BY <1>5 DEF guest_port43_write
  <2>2. UNCHANGED <<elapsed, age, served, fresh>> /\ ops' = ops + 1 /\ ops < MaxOps
    BY <1>5 DEF guest_port43_write, Guest
  <2>3. /\ pit'.reload = pit.reload /\ pit'.start_value = pit.start_value
        /\ pit'.enabled = pit.enabled
    BY <1>0, <2>1 DEF port43_write, PitRegisters
  <2>4. irq0' \in BOOLEAN /\ ops' \in 0 .. MaxOps
    BY <1>0, <2>1, <2>2 DEF PhaseInv
  <2> QED
    BY <2>2, <2>3, <2>4 DEF PhaseInv, InPhase
<1>6. CASE guest_counter_write
  <2>1. PICK b \in 0 .. Base - 1 : pit' = counter_write(pit, b)
    BY <1>6 DEF guest_counter_write
  <2>2. /\ fresh' = Loads(pit) /\ UNCHANGED irq0 /\ ops' = ops + 1 /\ ops < MaxOps
        /\ Loads(pit) => elapsed' = 0
        /\ ~Loads(pit) => elapsed' = elapsed
        /\ age' = 0 /\ served' = 0 /\ 0 \in 0 .. MaxServed
    BY <1>6 DEF guest_counter_write, Guest, ClockAssumption
  <2>3. /\ InRange(pit'.reload) /\ InRange(pit'.start_value)
        /\ Loads(pit) => pit'.start_value = pit'.reload /\ pit'.reload > 0
    BY <1>0, <2>1, CounterWriteRange DEF PhaseInv
  <2>4. pit' \in PitRegisters
    BY <1>0, <2>1, CounterWriteTypes
  <2>5. CASE Loads(pit)
    <3> DEFINE m == pit'.reload * Grain
    <3>1. m \in Int /\ 0 \in 0 .. 0 * (Grain - 1)
      BY <2>4, MultiplesOrdered DEF PitRegisters, ClockAssumption
    <3>2. pit'.start_value * Grain = m /\ elapsed' = 0 /\ age' = 0 /\ served' = 0
      BY <2>2, <2>3, <2>5
    <3> HIDE DEF m
    <3>3. pit'.start_value * Grain - elapsed' + age' - 0 = 1 * m
      BY <3>1, <3>2
    <3>5. Multiple(pit'.start_value * Grain - elapsed' + age' - 0, m)
      BY <3>3 DEF Multiple
    <3>6. Late(pit'.start_value * Grain - elapsed' + age', served', m)
      BY <3>1, <3>2, <3>5 DEF Late
    <3>7. pit'.reload > 0 /\ elapsed' >= 0
      BY <2>3, <2>5, <3>2
    <3>8. InPhase'
      BY <3>6, <3>7 DEF InPhase, m
    <3>4. fresh' \in BOOLEAN
      BY <2>2 DEF Loads
    <3> QED
      BY <1>0, <2>2, <2>3, <2>5, <3>4, <3>8 DEF PhaseInv
  <2>6. CASE ~Loads(pit)
    <3>1. fresh' = FALSE
      BY <2>2, <2>6
    <3>2. elapsed' >= -1 /\ age' \in Nat /\ served' \in 0 .. MaxServed /\ ops' \in 0 .. MaxOps
      BY <1>0, <2>2, <2>6 DEF PhaseInv
    <3>3. InPhase' /\ fresh' \in BOOLEAN /\ irq0' \in BOOLEAN
      BY <2>2, <3>1, Zenon DEF PhaseInv, InPhase
    <3> QED
      BY <2>3, <3>2, <3>3 DEF PhaseInv
  <2> QED
    BY <2>5, <2>6
<1>7. CASE guest_counter_read
  <2>1. /\ pit' = counter_read(pit) /\ UNCHANGED <<irq0, elapsed, age, served, fresh>>
        /\ ops' = ops + 1 /\ ops < MaxOps
    BY <1>7 DEF guest_counter_read, Guest
  <2>2. /\ pit'.reload = pit.reload /\ pit'.start_value = pit.start_value
        /\ pit'.enabled = pit.enabled
    BY <1>0, <2>1 DEF counter_read, PitRegisters
  <2>3. ops' \in 0 .. MaxOps
    BY <1>0, <2>1
  <2> QED
    BY <2>1, <2>2, <2>3 DEF PhaseInv, InPhase
<1>8. CASE run
  BY <1>8 DEF run, timerVars, PhaseInv, InPhase
<1>9. CASE stop
  BY <1>9 DEF stop, timerVars, PhaseInv, InPhase
<1>10. CASE stop_idling
  BY <1>10 DEF stop_idling, timerVars, PhaseInv, InPhase
<1>11. CASE restore_clock
  <2>1. /\ fresh' = FALSE /\ age' = 0 /\ served' = 0 /\ elapsed' \in {-1, MaxLate * Grain}
        /\ UNCHANGED <<pit, irq0, ops>>
    BY <1>11 DEF restore_clock
  <2>2. elapsed' >= -1 /\ served' \in 0 .. MaxServed /\ age' \in Nat
    <3>1. \A x, y \in Nat : x * y \in Nat
      OBVIOUS
    <3> QED
      BY <2>1, <3>1 DEF ClockAssumption
  <2> QED
    BY <2>1, <2>2 DEF PhaseInv, InPhase
<1>12. CASE Clock
  <2> DEFINE m == pit.reload * Grain
  <2>1. /\ elapsed' = IF pit.enabled THEN elapsed + 1 ELSE elapsed
        /\ age' = IF pit.enabled /\ fresh THEN (age + 1) % m ELSE 0
        /\ UNCHANGED <<pit, irq0, ops, served, fresh>>
    BY <1>12 DEF Clock
  <2>2. /\ pit.reload \in Nat /\ age \in Nat /\ pit.start_value * Grain \in Int
        /\ pit.enabled \in BOOLEAN /\ fresh \in BOOLEAN /\ age + 1 \in Nat /\ served \in Nat
    BY <1>0, MultiplesOrdered DEF PitRegisters, PhaseInv, ClockAssumption
  <2>3. elapsed' >= -1
    BY <1>0, <2>1, <2>2 DEF PhaseInv
  <2>4. CASE pit.enabled = TRUE /\ fresh = TRUE
    <3> DEFINE n == pit.start_value * Grain - (elapsed + 1)
    <3>1. pit.reload > 0 /\ elapsed >= 0 /\ Late(pit.start_value * Grain - elapsed + age, served, m)
      BY <2>4 DEF PhaseInv, InPhase
    <3>2. m \in Nat /\ m > 0
      <4>1. \A x, y \in Nat : x > 0 /\ y > 0 => x * y \in Nat /\ x * y > 0
        OBVIOUS
      <4> QED
        BY <2>2, <3>1, <4>1 DEF ClockAssumption
    <3> HIDE DEF m
    <3>3. n \in Int /\ n + (age + 1) = pit.start_value * Grain - elapsed + age
      BY <1>0, <2>2
    <3>4. elapsed' = elapsed + 1 /\ age' = (age + 1) % m
      BY <2>1, <2>4
    <3> HIDE DEF n
    <3>5. Late(n + ((age + 1) % m), served, m)
      BY <2>2, <3>1, <3>2, <3>3, LateOfRest
    <3>6. n = pit.start_value * Grain - elapsed'
      BY <3>4 DEF n
    <3>7. Late(pit.start_value * Grain - elapsed' + age', served, m)
      BY <3>4, <3>5, <3>6
    <3>8. age' \in Nat /\ elapsed' >= 0
      BY <1>0, <2>2, <3>1, <3>2, <3>4, DivProps
    <3>9. InPhase'
      BY <2>1, <3>1, <3>7, <3>8 DEF InPhase, m
    <3> QED
      BY <2>1, <2>3, <3>8, <3>9 DEF PhaseInv
  <2>5. CASE ~(pit.enabled = TRUE /\ fresh = TRUE)
    <3>1. age' = 0
      BY <2>1, <2>2, <2>5
    <3> QED
      BY <2>1, <2>3, <2>5, <3>1 DEF PhaseInv, InPhase
  <2> QED
    BY <2>4, <2>5
<1>13. CASE UNCHANGED clockVars
  BY <1>13 DEF clockVars, timerVars, PhaseInv, InPhase
<1> QED
  BY <1>1, <1>2, <1>3, <1>4, <1>5, <1>6, <1>7, <1>8, <1>9, <1>10, <1>11, <1>12, <1>13 DEF ClockNext

(* The phase decides the remainder. *)
LEMMA InvPhaseKept == ClockAssumption /\ IInv /\ PhaseInv => PhaseKept
<1> SUFFICES ASSUME ClockAssumption, IInv, PhaseInv
             PROVE  PhaseKept
  OBVIOUS
<1>1. pit \in PitRegisters /\ elapsed \in Int /\ age \in Nat /\ served \in Nat
  BY DEF IInv, PitInv, PhaseInv, ClockAssumption
<1>2. ClockTypeOK
  BY <1>1 DEF IInv, LoopInv, WaitInv, PhaseInv, InRange, ClockTypeOK
<1>3. ASSUME pit.enabled, fresh
      PROVE  \E d \in 0 .. (served + 1) * (Grain - 1) : Behind(d)
  <2> DEFINE n == get_counter_value(pit, elapsed) * Grain + age
             m == pit.reload * Grain
  <2>1. pit.enabled = TRUE /\ fresh = TRUE
    BY <1>1, <1>3 DEF PitRegisters, PhaseInv
  <2>2. pit.reload > 0 /\ pit.reload \in Nat /\ elapsed \in Nat
    BY <1>1, <2>1 DEF PhaseInv, InPhase, PitRegisters
  <2>3. Late(n, served + 1, m)
    BY <1>1, <2>1, <2>2, CounterLate DEF PhaseInv, InPhase
  <2>4. PICK d \in 0 .. (served + 1) * (Grain - 1) : Multiple(n - d, m)
    BY <2>3 DEF Late
  <2>5. n \in Int /\ \A k \in Int : get_counter_value(pit, elapsed) * Grain + age - k = n - k
    <3> DEFINE c == get_counter_value(pit, elapsed)
    <3>1. c \in Int
      BY <1>1, CounterIsInt
    <3> HIDE DEF c
    <3>2. c * Grain \in Int
      BY <3>1, MultiplesOrdered DEF ClockAssumption
    <3> QED
      BY <1>1, <3>2 DEF c
  <2>6. m \in Nat /\ m > 0
    <3>1. \A x, y \in Nat : x > 0 /\ y > 0 => x * y \in Nat /\ x * y > 0
      OBVIOUS
    <3> QED
      BY <2>2, <3>1 DEF ClockAssumption
  <2>7. d \in Int
    BY <1>1, LateBound
  <2> HIDE DEF n, m
  <2>8. (n - d) % m = 0
    <3> DEFINE x == n - d
    <3>1. x \in Int /\ Multiple(x, m)
      BY <2>4, <2>5, <2>7
    <3> HIDE DEF x
    <3>2. x % m = 0
      BY <2>6, <3>1, MultipleRest
    <3> QED
      BY <3>2 DEF x
  <2>9. Behind(d)
    <3> DEFINE x == get_counter_value(pit, elapsed) * Grain + age - d
    <3>1. x = n - d
      BY <2>5, <2>7
    <3>2. Behind(d) <=> x % m = 0
      BY DEF Behind, m
    <3> HIDE DEF x
    <3> QED
      BY <2>8, <3>1, <3>2
  <2> QED
    BY <2>9
<1> QED
  BY <1>2, <1>3 DEF PhaseKept

LEMMA PhaseInitially == ClockInit => IInv /\ PhaseInv
  BY ClockAssumption, InitIInv, InitPhaseInv

LEMMA PhaseAlways == IInv /\ PhaseInv /\ [ClockNext]_clockVars => IInv' /\ PhaseInv'
  BY ClockAssumption, NextIInv, NextPhaseInv

(* The interval timer keeps its phase, whatever the counter is loaded with *)
(* and however late the loop looks at it: each served rollover loses less  *)
(* than one clock (timer, get_counter_value).                              *)
THEOREM ClockPhaseKept == ClockSpec => []PhaseKept
<1>1. IInv /\ PhaseInv => PhaseKept
  BY ClockAssumption, InvPhaseKept
<1> QED
  BY <1>1, PhaseInitially, PhaseAlways, PTL DEF ClockSpec

(* The loop asks for no delay that ends after the counter has passed 0,    *)
(* and leaves no counter that starts in the future (timer, did_rollover).  *)
THEOREM ClockNeverOversleeps == ClockSpec => NeverOversleeps
<1> DEFINE Wakes == (~idle /\ idle' /\ pit'.enabled) =>
                      /\ elapsed' >= 0
                      /\ toWorker'[Len(toWorker')].t \in 0 .. pit'.start_value - Clocks(elapsed')
<1>1. ASSUME IInv, PhaseInv, [ClockNext]_clockVars, ~idle, idle', pit'.enabled
      PROVE  /\ elapsed' >= 0
             /\ toWorker'[Len(toWorker')].t \in 0 .. pit'.start_value - Clocks(elapsed')
  <2>1. main_loop_return
    BY <1>1 DEF ClockNext, clockVars, loopVars, worker_message, worker_timeout, yield_callback,
         guest_port43_write, guest_counter_write, guest_counter_read, Guest, run, stop,
         stop_idling, restore_clock, Clock
  <2> DEFINE r == timer(pit, elapsed)
             z == r.pit.start_value - Clocks(r.elapsed)
  <2>2. PICK halted \in BOOLEAN : next_tick(IF halted THEN Delay(r) ELSE 0)
    BY <2>1 DEF main_loop_return
  <2>3. pit' = r.pit /\ elapsed' = r.elapsed
    BY <2>1 DEF main_loop_return
  <2>4. r.pit \in PitRegisters /\ r.elapsed \in Int /\ PitInv
    BY <1>1, ClockAssumption, TimerTypes DEF IInv
  <2>5. r.pit.enabled = TRUE
    BY <1>1, <2>3, <2>4 DEF PitRegisters
  <2>6. r.elapsed >= 0 /\ Clocks(r.elapsed) <= r.pit.start_value
    BY <1>1, <2>4, <2>5, ClockAssumption, TimerPhase
  <2>7. z \in Nat
    BY <2>4, <2>6, ClockAssumption, ClocksProps DEF PitRegisters
  <2>8. Delay(r) = IF z < MaxSleep THEN z ELSE MaxSleep
    BY <2>5 DEF Delay
  <2> HIDE DEF r, z
  <2>9. (IF halted THEN Delay(r) ELSE 0) \in 0 .. z
    BY <2>7, <2>8, ClockAssumption DEF ClockAssumption
  <2> DEFINE t == IF halted THEN Delay(r) ELSE 0
  <2>10. toWorker' = Append(Stale(toWorker), [t |-> t, newest |-> TRUE])
    BY <2>2 DEF next_tick
  <2>11. Stale(toWorker) \in Seq(ToWorker)
    BY <1>1, StaleProps DEF IInv, TickTypes
  <2>12. [t |-> t, newest |-> TRUE] \in ToWorker /\ t \in 0 .. z
    BY <2>7, <2>9 DEF ToWorker
  <2> HIDE DEF t
  <2>13. toWorker'[Len(toWorker')] = [t |-> t, newest |-> TRUE]
    BY <2>10, <2>11, <2>12, AppendProperties
  <2> QED
    BY <2>3, <2>6, <2>12, <2>13 DEF z
<1>2. IInv /\ PhaseInv /\ [ClockNext]_clockVars => [Wakes]_clockVars
  BY <1>1
<1> QED
  BY <1>2, PhaseInitially, PhaseAlways, PTL DEF ClockSpec, NeverOversleeps
=============================================================================
