---------------------------- MODULE ScreenProof -----------------------------
(***************************************************************************)
(* Proofs about the two text screens: the console in the kernel            *)
(* (Console.tla), for every size of the screen and of the line buffer,     *)
(* every keyboard, prompt and set of commands, whatever they print; and    *)
(* the display that the emulator and its page make of the text             *)
(* (Display.tla), for every memory, every size and every sequence of       *)
(* accesses.                                                               *)
(***************************************************************************)
EXTENDS Console, Display, Lemmas

(* What a cell may hold. *)
Glyphs == STRING \cup {Blank, NUL}

(* Screens, and those on which everything behind the cursor is blank. *)
Screens == [row : 0 .. VGA_ROWS - 1, col : 0 .. VGA_COLS, cells : [Cells -> Glyphs]]

At(x) == x.row * VGA_COLS + x.col

BlankBehind(x) == \A i \in Cells : i >= At(x) => x.cells[i] = Blank

Tidy == {x \in Screens : BlankBehind(x)}

(* The tidy screens with the cursor at the left. *)
TidyLeft == {x \in Tidy : x.col = 0}

LEMMA SizesOk ==
  /\ VGA_ROWS \in Nat /\ VGA_ROWS > 0
  /\ VGA_COLS \in Nat /\ VGA_COLS > 0
  /\ VGA_ROWS * VGA_COLS \in Nat
  /\ Blank \in Glyphs /\ NUL \in Glyphs /\ NUL # Blank
<1>1. Len(Prompt) \in Nat
  BY ConsoleAssumption
<1>2. VGA_COLS > 0 /\ VGA_COLS \in Nat /\ VGA_ROWS \in Nat
  BY <1>1, ConsoleAssumption
<1>3. VGA_ROWS * VGA_COLS \in Int /\ 0 * VGA_COLS <= VGA_ROWS * VGA_COLS /\ 0 * VGA_COLS = 0
  BY <1>2, MultiplesOrdered
<1>4. VGA_ROWS * VGA_COLS \in Nat
  BY <1>3
<1> QED
  BY <1>2, <1>4, ConsoleAssumption DEF Blank, NUL, Glyphs

(* Where rows begin among the cells. *)
LEMMA RowProps ==
  ASSUME NEW row \in 0 .. VGA_ROWS - 1
  PROVE  /\ row * VGA_COLS \in Nat
         /\ row * VGA_COLS + VGA_COLS <= VGA_ROWS * VGA_COLS
         /\ (row + 1) * VGA_COLS = row * VGA_COLS + VGA_COLS
         /\ \A col \in 0 .. VGA_COLS - 1 : row * VGA_COLS + col \in Cells
<1>1. /\ row * VGA_COLS \in Int
      /\ row * VGA_COLS + VGA_COLS <= VGA_ROWS * VGA_COLS
      /\ (row + 1) * VGA_COLS = row * VGA_COLS + VGA_COLS
  BY SizesOk, MultiplesOrdered
<1>2. 0 * VGA_COLS <= row * VGA_COLS /\ 0 * VGA_COLS = 0
  BY SizesOk, MultiplesOrdered
<1> DEFINE b == row * VGA_COLS
           e == VGA_ROWS * VGA_COLS
<1>3. b \in Nat /\ e \in Nat /\ b + VGA_COLS <= e
  BY <1>1, <1>2, SizesOk
<1>4. Cells = 0 .. e - 1
  BY DEF Cells
<1> HIDE DEF b, e
<1>5. \A col \in 0 .. VGA_COLS - 1 : b + col \in Cells
  BY <1>3, <1>4, SizesOk
<1> QED
  BY <1>1, <1>3, <1>5 DEF b

(* Put writes one character at the cursor and steps over it. *)
LEMMA PutTidy ==
  ASSUME NEW x \in Tidy, x.col < VGA_COLS, NEW c \in Glyphs
  PROVE  /\ Put(x, c) \in Tidy
         /\ Put(x, c).row = x.row
         /\ Put(x, c).col = x.col + 1
         /\ Put(x, c).cells = [x.cells EXCEPT ![At(x)] = c]
<1> DEFINE a == x.row * VGA_COLS
           f == [x.cells EXCEPT ![At(x)] = c]
           t == Put(x, c)
<1>1. x \in Screens /\ BlankBehind(x)
  BY DEF Tidy
<1>2. x.row \in 0 .. VGA_ROWS - 1 /\ x.col \in 0 .. VGA_COLS - 1
        /\ x.cells \in [Cells -> Glyphs]
  BY <1>1, SizesOk DEF Screens
<1>3. t = [x EXCEPT !.cells = f, !.col = x.col + 1]
  BY DEF Put, vga_write_char, At
<1>4. a \in Nat /\ a + x.col \in Cells
  BY <1>2, RowProps
<1>5. At(x) = a + x.col
  BY DEF At
<1> HIDE DEF a
<1>6. f \in [Cells -> Glyphs] /\ \A i \in Cells : i # a + x.col => f[i] = x.cells[i]
  BY <1>2, <1>4, <1>5
<1> HIDE DEF f, t
<1>7. t.row = x.row /\ t.col = x.col + 1 /\ t.cells = f
  BY <1>1, <1>3 DEF Screens
<1>8. t \in Screens
  <2> DEFINE A == 0 .. VGA_ROWS - 1
             B == 0 .. VGA_COLS
             C == [Cells -> Glyphs]
  <2>1. x.col + 1 \in B /\ f \in C
    BY <1>2, <1>6, SizesOk
  <2>2. x \in [row : A, col : B, cells : C]
    BY <1>1 DEF Screens
  <2> HIDE DEF A, B, C
  <2>3. t \in [row : A, col : B, cells : C]
    BY <1>3, <2>1, <2>2
  <2> QED
    BY <2>3 DEF Screens, A, B, C
<1>9. At(t) = a + (x.col + 1)
  BY <1>7 DEF At, a
<1>10. Cells \subseteq Nat
  BY SizesOk DEF Cells
<1>11. \A i \in Cells : i >= a + x.col => x.cells[i] = Blank
  BY <1>1, <1>5 DEF BlankBehind
<1>12. \A i \in Cells : i >= a + (x.col + 1) => f[i] = Blank
  BY <1>2, <1>4, <1>6, <1>10, <1>11
<1>13. BlankBehind(t)
  BY <1>7, <1>9, <1>12 DEF BlankBehind
<1> QED
  BY <1>7, <1>8, <1>13 DEF Tidy, f, t

(* A new line starts on a blank row, below or after scrolling. *)
LEMMA NewlineTidy ==
  ASSUME NEW x \in Tidy
  PROVE  newline(x) \in TidyLeft
<1> DEFINE t == newline(x)
<1>1. x \in Screens /\ BlankBehind(x)
  BY DEF Tidy
<1>2. x.row \in 0 .. VGA_ROWS - 1 /\ x.col \in 0 .. VGA_COLS
        /\ x.cells \in [Cells -> Glyphs]
  BY <1>1 DEF Screens
<1>3. Cells \subseteq Nat
  BY SizesOk DEF Cells
<1>4. CASE x.row + 1 >= VGA_ROWS
  <2> DEFINE f == vga_scroll(x.cells)
             last == (VGA_ROWS - 1) * VGA_COLS
  <2>1. t = [row |-> VGA_ROWS - 1, col |-> 0, cells |-> f]
    BY <1>4 DEF newline
  <2>2. \A i \in Cells : i >= last => f[i] = Blank
    BY DEF vga_scroll
  <2>3. f \in [Cells -> Glyphs]
    <3>1. SUFFICES ASSUME NEW i \in Cells
                   PROVE  f[i] \in Glyphs
      BY DEF vga_scroll
    <3>2. VGA_ROWS - 1 \in 0 .. VGA_ROWS - 1
      BY SizesOk
    <3>3. last \in Nat /\ last + VGA_COLS = VGA_ROWS * VGA_COLS
      BY <3>2, SizesOk, RowProps
    <3>4. i < last => i + VGA_COLS \in Cells
      BY <1>3, <3>3, SizesOk DEF Cells
    <3> HIDE DEF last
    <3>5. i \in Nat
      BY <1>3
    <3>6. i >= last \/ i < last
      BY <3>3, <3>5
    <3>7. CASE i >= last
      BY <2>2, <3>7, SizesOk
    <3>8. CASE i < last
      <4>1. f[i] = x.cells[i + VGA_COLS] \/ f[i] = x.cells[i]
        <5>1. ~(i >= (VGA_ROWS - 1) * VGA_COLS)
          BY <3>3, <3>5, <3>8 DEF last
        <5>2. CASE i % VGA_COLS < VGA_COLS - 1
          BY <5>1, <5>2 DEF vga_scroll
        <5>3. CASE ~(i % VGA_COLS < VGA_COLS - 1)
          BY <5>1, <5>3 DEF vga_scroll
        <5> QED
          BY <5>2, <5>3
      <4> QED
        BY <4>1, <3>4, <3>8, <1>2
    <3> QED
      BY <3>6, <3>7, <3>8
  <2>4. At(t) = last
    <3>1. VGA_ROWS - 1 \in 0 .. VGA_ROWS - 1
      BY SizesOk
    <3>2. last \in Nat
      BY <3>1, RowProps
    <3> HIDE DEF last
    <3> QED
      BY <2>1, <3>2 DEF At, last
  <2> HIDE DEF f, t, last
  <2>5. t \in Screens
    BY <2>1, <2>3, SizesOk DEF Screens
  <2> QED
    BY <2>1, <2>2, <2>4, <2>5 DEF TidyLeft, Tidy, BlankBehind, t
<1>5. CASE ~(x.row + 1 >= VGA_ROWS)
  <2> DEFINE a == x.row * VGA_COLS
  <2>1. t = [row |-> x.row + 1, col |-> 0, cells |-> x.cells]
    BY <1>1, <1>5 DEF newline, Screens
  <2>2. a \in Nat /\ (x.row + 1) * VGA_COLS = a + VGA_COLS
    BY <1>2, RowProps
  <2>3. At(x) = a + x.col
    BY DEF At
  <2>4. At(t) = a + VGA_COLS
    BY <2>1, <2>2, SizesOk DEF At
  <2> HIDE DEF a, t
  <2>5. t \in Screens
    BY <1>2, <1>5, <2>1, SizesOk DEF Screens
  <2>6. \A i \in Cells : i >= a + VGA_COLS => t.cells[i] = Blank
    <3>1. \A i \in Cells : i >= a + x.col => x.cells[i] = Blank
      BY <1>1, <2>3 DEF BlankBehind
    <3> QED
      BY <1>2, <1>3, <2>1, <2>2, <3>1, SizesOk
  <2> QED
    BY <2>1, <2>4, <2>5, <2>6 DEF TidyLeft, Tidy, BlankBehind, t
<1> QED
  BY <1>4, <1>5

(* One character of print. *)
PrintOne(t, c) == Put(IF t.col >= VGA_COLS THEN newline(t) ELSE t, c)

LEMMA PrintOneTidy ==
  ASSUME NEW t \in Tidy, NEW c \in Glyphs
  PROVE  PrintOne(t, c) \in Tidy
<1>1. CASE t.col >= VGA_COLS
  <2>1. newline(t) \in Tidy /\ newline(t).col = 0
    BY NewlineTidy DEF TidyLeft
  <2>2. Put(newline(t), c) \in Tidy
    BY <2>1, PutTidy, SizesOk
  <2> QED
    BY <1>1, <2>2 DEF PrintOne
<1>2. CASE ~(t.col >= VGA_COLS)
  <2>1. t.col < VGA_COLS
    BY <1>2, SizesOk DEF Tidy, Screens
  <2>2. Put(t, c) \in Tidy
    BY <2>1, PutTidy
  <2> QED
    BY <1>2, <2>2 DEF PrintOne
<1> QED
  BY <1>1, <1>2

(* print goes from the screen before through one screen for each character. *)
LEMMA PrintSteps ==
  ASSUME NEW x \in Tidy, NEW str \in Seq(Glyphs)
  PROVE  \E r \in [0 .. Len(str) -> Tidy] :
           /\ r[0] = x
           /\ \A k \in 1 .. Len(str) : r[k] = PrintOne(r[k - 1], str[k])
           /\ print(x, str) = r[Len(str)]
<1> DEFINE n == Len(str)
           step == [p \in (1 .. n) \X Tidy |-> PrintOne(p[2], str[p[1]])]
           F(h) == [i \in SUBSET DOMAIN str |->
                      IF i = {} THEN x ELSE PrintOne(h[i \ {Max(i)}], str[Max(i)])]
           iter == CHOOSE h : h = F(h)
           r == [k \in 0 .. n |-> iter[1 .. k]]
<1>1. n \in Nat /\ DOMAIN str = 1 .. n /\ \A k \in 1 .. n : str[k] \in Glyphs
  OBVIOUS
<1> HIDE DEF n
<1>2. step \in [(1 .. n) \X Tidy -> Tidy]
  BY <1>1, PrintOneTidy
<1>3. PICK g \in [SUBSET (1 .. n) -> Tidy] : FoldTable(g, n, x, step)
  BY <1>1, <1>2, FoldTableExists
<1>4. g = F(g)
  <2>1. ASSUME NEW i \in SUBSET (1 .. n), i # {}
        PROVE  g[i] = PrintOne(g[i \ {Max(i)}], str[Max(i)])
    <3>1. Max(i) \in 1 .. n
      BY <1>1, <2>1, MaxProps
    <3>2. g[i \ {Max(i)}] \in Tidy
      BY <1>3
    <3>3. g[i] = step[<<Max(i), g[i \ {Max(i)}]>>]
      BY <1>3, <2>1 DEF FoldTable
    <3> QED
      BY <3>1, <3>2, <3>3
  <2>2. g[{}] = x
    BY <1>3 DEF FoldTable
  <2>3. \A i \in SUBSET (1 .. n) : g[i] = F(g)[i]
    BY <1>1, <2>1, <2>2
  <2> HIDE DEF step
  <2> QED
    BY <1>1, <1>3, <2>3
<1>5. iter = F(iter)
  <2> HIDE DEF F
  <2> QED
    BY <1>4
<1>6. print(x, str) = iter[1 .. n]
  BY <1>1 DEF print, FoldLeft, MapThenFoldSet, PrintOne
<1> HIDE DEF iter, step
<1>7. iter[{}] = x /\ \A k \in 1 .. n : iter[1 .. k] = PrintOne(iter[1 .. k - 1], str[k])
  <2>1. ASSUME NEW k \in 1 .. n
        PROVE  iter[1 .. k] = PrintOne(iter[1 .. k - 1], str[k])
    <3>1. k \in Nat /\ k > 0 /\ 1 .. k \in SUBSET (1 .. n)
      BY <1>1
    <3>2. 1 .. k # {} /\ Max(1 .. k) = k /\ (1 .. k) \ {k} = 1 .. k - 1
      BY <3>1, PrefixProps
    <3> QED
      BY <1>1, <1>5, <3>1, <3>2
  <2>2. iter[{}] = x
    BY <1>1, <1>5
  <2> QED
    BY <2>1, <2>2
<1>8. r[0] = x /\ \A k \in 1 .. n : r[k] = PrintOne(r[k - 1], str[k])
  <2>1. 1 .. 0 = {}
    OBVIOUS
  <2> QED
    BY <1>1, <1>7, <2>1
<1>9. r[n] = iter[1 .. n]
  BY <1>1
<1> DEFINE P == {k \in Nat : k <= n => r[k] \in Tidy}
<1> HIDE DEF r
<1>10. 0 \in P
  BY <1>8
<1>11. \A k \in P \cap Nat : k + 1 \in P
  <2>1. SUFFICES ASSUME NEW k \in Nat, k + 1 <= n, r[k] \in Tidy
                 PROVE  r[k + 1] \in Tidy
    BY <1>1
  <2>2. k + 1 \in 1 .. n /\ k + 1 - 1 = k
    BY <2>1, <1>1
  <2>3. r[k + 1] = PrintOne(r[k], str[k + 1])
    BY <1>8, <2>2
  <2> QED
    BY <2>1, <2>2, <2>3, <1>1, PrintOneTidy
<1>12. Nat \subseteq P
  <2> HIDE DEF P
  <2> QED
    BY <1>10, <1>11, SetInduction
<1>13. r \in [0 .. n -> Tidy]
  <2>1. \A k \in 0 .. n : r[k] \in Tidy
    BY <1>1, <1>12
  <2> QED
    BY <2>1 DEF r
<1> QED
  BY <1>6, <1>8, <1>9, <1>13 DEF n

LEMMA PrintTidy ==
  ASSUME NEW x \in Tidy, NEW str \in Seq(Glyphs)
  PROVE  print(x, str) \in Tidy
<1>1. PICK r \in [0 .. Len(str) -> Tidy] : print(x, str) = r[Len(str)]
  BY PrintSteps
<1>2. Len(str) \in 0 .. Len(str)
  OBVIOUS
<1> QED
  BY <1>1, <1>2

LEMMA PrintlnTidy ==
  ASSUME NEW x \in Tidy, NEW str \in Seq(Glyphs)
  PROVE  println(x, str) \in TidyLeft
BY PrintTidy, NewlineTidy DEF println

(* Several lines leave the cursor at the left, too. *)
LEMMA LinesTidy ==
  ASSUME NEW x \in TidyLeft, NEW lines \in Seq(Seq(Glyphs))
  PROVE  FoldLeft(println, x, lines) \in TidyLeft
<1> DEFINE n == Len(lines)
           step == [p \in (1 .. n) \X TidyLeft |-> println(p[2], lines[p[1]])]
           F(h) == [i \in SUBSET DOMAIN lines |->
                      IF i = {} THEN x ELSE println(h[i \ {Max(i)}], lines[Max(i)])]
           iter == CHOOSE h : h = F(h)
           P == {k \in Nat : k <= n => iter[1 .. k] \in TidyLeft}
<1>1. n \in Nat /\ DOMAIN lines = 1 .. n /\ \A k \in 1 .. n : lines[k] \in Seq(Glyphs)
  OBVIOUS
<1> HIDE DEF n
<1>2. step \in [(1 .. n) \X TidyLeft -> TidyLeft]
  <2>1. \A p \in (1 .. n) \X TidyLeft : println(p[2], lines[p[1]]) \in TidyLeft
    BY <1>1, PrintlnTidy DEF TidyLeft
  <2> QED
    BY <2>1
<1>3. PICK g \in [SUBSET (1 .. n) -> TidyLeft] : FoldTable(g, n, x, step)
  BY <1>1, <1>2, FoldTableExists
<1>4. g = F(g)
  <2>1. ASSUME NEW i \in SUBSET (1 .. n), i # {}
        PROVE  g[i] = println(g[i \ {Max(i)}], lines[Max(i)])
    <3>1. Max(i) \in 1 .. n
      BY <1>1, <2>1, MaxProps
    <3>2. g[i \ {Max(i)}] \in TidyLeft
      BY <1>3
    <3>3. g[i] = step[<<Max(i), g[i \ {Max(i)}]>>]
      BY <1>3, <2>1 DEF FoldTable
    <3> QED
      BY <3>1, <3>2, <3>3
  <2>2. g[{}] = x
    BY <1>3 DEF FoldTable
  <2>3. \A i \in SUBSET (1 .. n) : g[i] = F(g)[i]
    BY <1>1, <2>1, <2>2
  <2> HIDE DEF step
  <2> QED
    BY <1>1, <1>3, <2>3
<1>5. iter = F(iter)
  <2> HIDE DEF F
  <2> QED
    BY <1>4
<1>6. FoldLeft(println, x, lines) = iter[1 .. n]
  BY <1>1 DEF FoldLeft, MapThenFoldSet
<1> HIDE DEF iter, step
<1>7. 0 \in P
  <2>1. 1 .. 0 = {}
    OBVIOUS
  <2>2. iter[1 .. 0] = x
    BY <1>1, <1>5, <2>1
  <2> QED
    BY <2>2
<1>8. \A k \in P \cap Nat : k + 1 \in P
  <2>1. SUFFICES ASSUME NEW k \in Nat, k + 1 <= n, iter[1 .. k] \in TidyLeft
                 PROVE  iter[1 .. k + 1] \in TidyLeft
    BY <1>1
  <2>2. k + 1 \in 1 .. n /\ k + 1 - 1 = k /\ 1 .. k + 1 \in SUBSET (1 .. n)
    BY <2>1, <1>1
  <2>3. 1 .. k + 1 # {} /\ Max(1 .. k + 1) = k + 1 /\ (1 .. k + 1) \ {k + 1} = 1 .. k
    BY <2>2, PrefixProps
  <2>4. iter[1 .. k + 1] = println(iter[1 .. k], lines[k + 1])
    BY <1>1, <1>5, <2>2, <2>3
  <2> QED
    BY <2>1, <2>2, <2>4, <1>1, PrintlnTidy DEF TidyLeft
<1>9. Nat \subseteq P
  <2> HIDE DEF P
  <2> QED
    BY <1>7, <1>8, SetInduction
<1> QED
  BY <1>1, <1>6, <1>9

(* The cursor's row begins with the line, and the cursor stands behind it. *)
Shows(t, line) ==
  /\ t.col = Len(line)
  /\ \A j \in 0 .. Len(line) - 1 : t.cells[t.row * VGA_COLS + j] = line[j + 1]

LEMMA PutShows ==
  ASSUME NEW t \in Tidy, t.col < VGA_COLS, NEW c \in Glyphs,
         NEW line \in Seq(Glyphs), Shows(t, line)
  PROVE  Shows(Put(t, c), Append(line, c))
<1> DEFINE u == Put(t, c)
           a == t.row * VGA_COLS
           n == Len(line)
<1>1. u.row = t.row /\ u.col = t.col + 1 /\ u.cells = [t.cells EXCEPT ![At(t)] = c]
  BY PutTidy
<1>2. t.row \in 0 .. VGA_ROWS - 1 /\ t.cells \in [Cells -> Glyphs]
  BY DEF Tidy, Screens
<1>3. a \in Nat /\ \A col \in 0 .. VGA_COLS - 1 : a + col \in Cells
  BY <1>2, RowProps
<1>4. n \in Nat /\ t.col = n /\ At(t) = a + n
  BY DEF Shows, At
<1>5. /\ Len(Append(line, c)) = n + 1
      /\ Append(line, c)[n + 1] = c
      /\ \A j \in 0 .. n - 1 : Append(line, c)[j + 1] = line[j + 1]
  OBVIOUS
<1>6. \A j \in 0 .. n - 1 : t.cells[a + j] = line[j + 1]
  BY DEF Shows
<1>7. u.row * VGA_COLS = a
  BY <1>1
<1> HIDE DEF u, a, n
<1>8. \A j \in 0 .. n : u.cells[a + j] = Append(line, c)[j + 1]
  <2>1. TAKE j \in 0 .. n
  <2>2. a + j \in Cells /\ j \in Nat
    BY <2>1, <1>3, <1>4, SizesOk
  <2>3. CASE j = n
    BY <2>2, <2>3, <1>1, <1>2, <1>4, <1>5
  <2>4. CASE j # n
    <3>1. j \in 0 .. n - 1 /\ a + j # a + n
      BY <2>1, <2>4, <1>3, <1>4
    <3> QED
      BY <3>1, <2>2, <1>1, <1>2, <1>4, <1>5, <1>6
  <2> QED
    BY <2>3, <2>4
<1> QED
  BY <1>1, <1>4, <1>5, <1>7, <1>8 DEF Shows, u

(* On a row of its own, print shows what it is given if that fits. *)
LEMMA PrintShows ==
  ASSUME NEW x \in TidyLeft, NEW str \in Seq(Glyphs), Len(str) <= VGA_COLS
  PROVE  print(x, str) \in Tidy /\ Shows(print(x, str), str)
<1> DEFINE n == Len(str)
<1>1. PICK r \in [0 .. n -> Tidy] :
           /\ r[0] = x
           /\ \A k \in 1 .. n : r[k] = PrintOne(r[k - 1], str[k])
           /\ print(x, str) = r[n]
  BY PrintSteps DEF TidyLeft
<1> DEFINE P == {k \in Nat : k <= n => Shows(r[k], SubSeq(str, 1, k))}
<1>2. n \in Nat /\ \A k \in 1 .. n : str[k] \in Glyphs
  OBVIOUS
<1>3. 0 \in P
  <2>1. SubSeq(str, 1, 0) = <<>> /\ x.col = 0
    BY DEF TidyLeft
  <2> QED
    BY <1>1, <2>1 DEF Shows
<1>4. \A k \in P \cap Nat : k + 1 \in P
  <2>1. SUFFICES ASSUME NEW k \in Nat, k + 1 <= n, Shows(r[k], SubSeq(str, 1, k))
                 PROVE  Shows(r[k + 1], SubSeq(str, 1, k + 1))
    BY <1>2
  <2>2. k + 1 \in 1 .. n /\ k \in 0 .. n
    BY <2>1, <1>2
  <2>3. r[k + 1] = PrintOne(r[k], str[k + 1]) /\ r[k] \in Tidy
    BY <1>1, <2>2
  <2>4. SubSeq(str, 1, k) \in Seq(Glyphs) /\ Len(SubSeq(str, 1, k)) = k
    BY <2>2
  <2>5. r[k].col = k /\ k < VGA_COLS
    BY <2>1, <2>4, SizesOk DEF Shows
  <2>6. r[k + 1] = Put(r[k], str[k + 1])
    BY <2>3, <2>5, SizesOk DEF PrintOne
  <2>7. SubSeq(str, 1, k + 1) = Append(SubSeq(str, 1, k), str[k + 1])
    BY <2>2
  <2> HIDE DEF n
  <2> QED
    BY <1>2, <2>1, <2>2, <2>3, <2>4, <2>5, <2>6, <2>7, PutShows
<1>5. Nat \subseteq P
  <2> HIDE DEF P
  <2> QED
    BY <1>3, <1>4, SetInduction
<1>6. SubSeq(str, 1, n) = str
  OBVIOUS
<1>7. Shows(r[n], SubSeq(str, 1, n))
  BY <1>2, <1>5
<1>8. print(x, str) \in Tidy
  BY PrintTidy DEF TidyLeft
<1> QED
  BY <1>1, <1>6, <1>7, <1>8
-----------------------------------------------------------------------------
(* The line buffer *)

Bytes == Chars \cup {NUL}
Buffers == [0 .. INPUT_BUFFER_SIZE - 1 -> Bytes]

LEMMA BytesOk ==
  /\ Bytes \subseteq Glyphs
  /\ NUL \in Bytes /\ NUL \notin Chars
  /\ \A key \in Keys : CharOf(key) \in Chars /\ CharOf(key) \in Glyphs
<1>1. Chars \subseteq STRING
  BY ConsoleAssumption DEF Chars
<1>2. \A key \in Keys : CharOf(key) \in Chars
  BY DEF CharOf, Chars
<1> QED
  BY <1>1, <1>2, ConsoleAssumption DEF Bytes, Glyphs

(* The index that SelectInSeq finds, if there is one. *)
LEMMA FirstProps ==
  ASSUME NEW I, NEW n \in Nat, I \subseteq 1 .. n,
         NEW first, first = IF I # {} THEN Min(I) ELSE 0
  PROVE  /\ first \in 0 .. n
         /\ first = 0 <=> I = {}
         /\ I # {} => first \in I /\ \A k \in I : first <= k
<1>1. CASE I # {}
  <2>1. I \in SUBSET Nat
    OBVIOUS
  <2>2. Min(I) \in I /\ \A k \in I : Min(I) <= k
    BY <1>1, <2>1, MinProps
  <2>3. first = Min(I)
    BY <1>1
  <2>4. first \in I /\ first \in 1 .. n /\ \A k \in I : first <= k
    BY <2>2, <2>3
  <2> QED
    BY <1>1, <2>4
<1>2. CASE I = {}
  BY <1>2
<1> QED
  BY <1>1, <1>2

(* Text reads back what stands in front of the first terminator. *)
LEMMA TextIs ==
  ASSUME NEW buf \in Buffers, NEW line \in Seq(Chars), Len(line) <= INPUT_BUFFER_SIZE,
         \A i \in 0 .. Len(line) - 1 : buf[i] = line[i + 1],
         Len(line) < INPUT_BUFFER_SIZE => buf[Len(line)] = NUL
  PROVE  Text(buf) = line
<1> DEFINE n == INPUT_BUFFER_SIZE
           len == Len(line)
           all == [i \in 1 .. n |-> buf[i - 1]]
           I == {i \in 1 .. n : all[i] = NUL}
           first == IF I # {} THEN Min(I) ELSE 0
<1>1. n \in Nat /\ len \in 0 .. n /\ \A i \in 1 .. len : line[i] \in Chars
  BY ConsoleAssumption
<1>2. all \in Seq(Bytes) /\ Len(all) = n
  BY <1>1 DEF Buffers
<1>3. Text(buf) = IF first = 0 THEN all ELSE SubSeq(all, 1, first - 1)
  BY <1>2 DEF Text, SelectInSeq
<1>4. \A i \in 1 .. len : all[i] = line[i] /\ all[i] # NUL
  <2>1. TAKE i \in 1 .. len
  <2>2. i - 1 \in 0 .. len - 1 /\ i - 1 + 1 = i /\ i \in 1 .. n
    BY <2>1, <1>1
  <2>3. buf[i - 1] = line[i]
    BY <2>2
  <2> QED
    BY <2>1, <2>2, <2>3, <1>1, BytesOk
<1>5. len < n => all[len + 1] = NUL
  BY <1>1
<1>6. I \subseteq 1 .. n
  OBVIOUS
<1> HIDE DEF n, len, all
<1>7. first \in 0 .. n /\ (first = 0 <=> I = {})
        /\ (I # {} => first \in I /\ \A k \in I : first <= k)
  <2> HIDE DEF I
  <2> QED
    BY <1>1, <1>6, FirstProps
<1>8. CASE len = n
  <2>1. I = {}
    BY <1>1, <1>4, <1>8
  <2>2. Text(buf) = all
    BY <1>3, <1>7, <2>1
  <2>3. all = line
    BY <1>1, <1>2, <1>4, <1>8 DEF len
  <2> QED
    BY <2>2, <2>3
<1>9. CASE len < n
  <2>1. len + 1 \in I /\ \A i \in I : i >= len + 1
    BY <1>1, <1>4, <1>5, <1>9
  <2>2. first = len + 1
    <3> HIDE DEF I, first
    <3>1. I # {} /\ first \in I /\ first <= len + 1
      BY <1>7, <2>1
    <3> QED
      BY <3>1, <2>1, <1>1, <1>7
  <2>3. Text(buf) = SubSeq(all, 1, len)
    <3> HIDE DEF first
    <3>1. first # 0 /\ first - 1 = len
      BY <1>1, <2>2
    <3> QED
      BY <1>3, <3>1
  <2>4. SubSeq(all, 1, len) \in Seq(Bytes) /\ Len(SubSeq(all, 1, len)) = len
          /\ \A i \in 1 .. len : SubSeq(all, 1, len)[i] = all[i]
    BY <1>1, <1>2
  <2> DEFINE front == SubSeq(all, 1, len)
  <2> HIDE DEF front
  <2>5. line \in Seq(Bytes) /\ Len(line) = len
    BY DEF Bytes, len
  <2>6. \A i \in 1 .. len : front[i] = line[i]
    BY <1>4, <2>4 DEF front
  <2>7. front = line
    BY <2>4, <2>5, <2>6, SeqEqual DEF front
  <2> QED
    BY <2>3, <2>7 DEF front
<1> QED
  BY <1>1, <1>8, <1>9

LEMMA TextTyped ==
  ASSUME NEW buf \in Buffers
  PROVE  Text(buf) \in Seq(Glyphs)
<1> DEFINE n == INPUT_BUFFER_SIZE
           all == [i \in 1 .. n |-> buf[i - 1]]
           I == {i \in 1 .. n : all[i] = NUL}
           first == IF I # {} THEN Min(I) ELSE 0
<1>1. n \in Nat
  BY ConsoleAssumption
<1>2. all \in Seq(Glyphs) /\ Len(all) = n
  BY <1>1, BytesOk DEF Buffers
<1>3. Text(buf) = IF first = 0 THEN all ELSE SubSeq(all, 1, first - 1)
  BY <1>2 DEF Text, SelectInSeq
<1> HIDE DEF n
<1>4. I \subseteq 1 .. n
  OBVIOUS
<1> HIDE DEF I
<1>6. first \in 0 .. n
  BY <1>1, <1>4, FirstProps
<1> HIDE DEF first, all
<1>5. first # 0 => SubSeq(all, 1, first - 1) \in Seq(Glyphs)
  BY <1>1, <1>2, <1>6
<1> QED
  BY <1>2, <1>3, <1>5

LEMMA TrimmedTyped ==
  ASSUME NEW text \in Seq(Glyphs)
  PROVE  Trimmed(text) \in Seq(Glyphs)
<1> DEFINE n == Len(text)
           I == {i \in 1 .. n : text[i] # Blank}
           first == IF I # {} THEN Min(I) ELSE 0
<1>1. n \in Nat /\ I \subseteq 1 .. n
  OBVIOUS
<1>2. Trimmed(text) = IF first = 0 THEN <<>> ELSE SubSeq(text, first, n)
  BY DEF Trimmed, SelectInSeq
<1> HIDE DEF I
<1>3. first \in 0 .. n
  BY <1>1, FirstProps
<1> HIDE DEF first
<1>4. first # 0 => SubSeq(text, first, n) \in Seq(Glyphs)
  BY <1>1, <1>3
<1> QED
  BY <1>2, <1>4

LEMMA WordLenProps ==
  ASSUME NEW text \in Seq(Glyphs)
  PROVE  WordLen(text) \in 0 .. Len(text)
<1> DEFINE n == Len(text)
           I == {i \in 1 .. n : text[i] = Blank}
           first == IF I # {} THEN Min(I) ELSE 0
<1>1. n \in Nat /\ I \subseteq 1 .. n
  OBVIOUS
<1>2. WordLen(text) = IF first = 0 THEN n ELSE first - 1
  BY DEF WordLen, SelectInSeq
<1> HIDE DEF I
<1>3. first \in 0 .. n
  BY <1>1, FirstProps
<1> HIDE DEF first
<1> QED
  BY <1>1, <1>2, <1>3

LEMMA StoredTyped ==
  ASSUME input_buffer \in Buffers, NEW i, NEW c \in Bytes
  PROVE  Stored(i, c) \in Buffers
BY DEF Stored, Buffers

LEMMA CutTyped ==
  ASSUME NEW buf \in Buffers
  PROVE  Cut(buf) \in Buffers /\ [Cut(buf) EXCEPT ![0] = NUL] \in Buffers
<1>1. \A b \in Buffers : \A j : [b EXCEPT ![j] = NUL] \in Buffers
  BY BytesOk DEF Buffers
<1>2. Cut(buf) \in Buffers
  BY <1>1 DEF Cut
<1> QED
  BY <1>1, <1>2

(* Whatever a command prints, the cursor ends at the left of a blank row. *)
LEMMA CommandTidy ==
  ASSUME NEW x \in TidyLeft, NEW input \in Seq(Glyphs), NEW t \in parse_and_run(x, input)
  PROVE  t \in TidyLeft
<1> DEFINE text == Trimmed(input)
           n == WordLen(text)
           cmd == SubSeq(text, 1, n)
           args == SubSeq(text, n + 2, Len(text))
<1>1. text \in Seq(Glyphs)
  BY TrimmedTyped
<1>2. n \in 0 .. Len(text)
  BY <1>1, WordLenProps
<1> HIDE DEF n, text
<1>3. cmd \in Seq(Glyphs) /\ args \in Seq(Glyphs)
  BY <1>1, <1>2
<1> HIDE DEF cmd, args
<1>4. CASE text = <<>>
  BY <1>4 DEF parse_and_run, text
<1>5. CASE text # <<>>
  <2>1. t \in Ran(x, cmd, args)
    BY <1>5 DEF parse_and_run, text, n, cmd, args
  <2>2. CASE cmd \notin DOMAIN Commands
    <3>1. STRING \subseteq Glyphs
      BY DEF Glyphs
    <3>2. Unknown \in Seq(Glyphs)
      BY <3>1, ConsoleAssumption, SeqMonotonic
    <3>3. print(x, Unknown) \in Tidy
      BY <3>2, PrintTidy DEF TidyLeft
    <3>4. t = println(print(x, Unknown), cmd)
      BY <2>1, <2>2 DEF Ran
    <3> QED
      BY <3>3, <3>4, <1>3, PrintlnTidy
  <2>3. CASE cmd \in DOMAIN Commands /\ Commands[cmd] = "clear"
    <3>1. t = [row |-> 0, col |-> 0, cells |-> vga_clear]
      BY <2>1, <2>3 DEF Ran
    <3>2. vga_clear \in [Cells -> Glyphs] /\ \A i \in Cells : vga_clear[i] = Blank
      BY SizesOk DEF vga_clear
    <3> QED
      BY <3>1, <3>2, SizesOk DEF TidyLeft, Tidy, Screens, BlankBehind
  <2>4. CASE cmd \in DOMAIN Commands /\ Commands[cmd] = "echo"
    <3>1. t = println(x, args)
      BY <2>1, <2>4 DEF Ran
    <3> QED
      BY <3>1, <1>3, PrintlnTidy DEF TidyLeft
  <2>5. CASE cmd \in DOMAIN Commands /\ Commands[cmd] \notin {"clear", "echo"}
    <3>1. PICK lines \in Outputs : t = FoldLeft(println, x, lines)
      BY <2>1, <2>5 DEF Ran
    <3>2. STRING \subseteq Glyphs
      BY DEF Glyphs
    <3>3. Seq(STRING) \subseteq Seq(Glyphs)
      BY <3>2, SeqMonotonic
    <3>4. Seq(Seq(STRING)) \subseteq Seq(Seq(Glyphs))
      BY <3>3, SeqMonotonic
    <3>5. lines \in Seq(Seq(Glyphs))
      BY <3>4, ConsoleAssumption
    <3> QED
      BY <3>1, <3>5, LinesTidy
  <2> QED
    BY <2>2, <2>3, <2>4, <2>5
<1> QED
  BY <1>4, <1>5
-----------------------------------------------------------------------------
(* The inductive invariant *)

TypesInv ==
  /\ input_buffer \in Buffers
  /\ input_len \in Nat
  /\ typed \in Seq(Chars)
  /\ wrapped \in BOOLEAN /\ overrun \in BOOLEAN /\ halted \in BOOLEAN
  /\ screen \in Tidy

(* The buffer begins with the line, and has room for it. *)
LineInv ==
  ~overrun /\ ~halted =>
    /\ input_len = Len(typed)
    /\ input_len <= INPUT_BUFFER_SIZE
    /\ \A i \in 0 .. Len(typed) - 1 : input_buffer[i] = typed[i + 1]

(* So does the screen, unless the line has wrapped. *)
ShownInv ==
  ~overrun /\ ~halted =>
    /\ screen.col < VGA_COLS
    /\ ~wrapped => Shows(screen, Prompt \o typed)

ShiftInv == shift_held => down # {}

ConsoleInv == TypesInv /\ LineInv /\ ShownInv /\ ShiftInv

LEMMA ScreenIs ==
  ASSUME NEW x \in Screens
  PROVE  x = [row |-> x.row, col |-> x.col, cells |-> x.cells]
BY DEF Screens

LEMMA ShowIs ==
  ASSUME NEW x \in Tidy, Show(x)
  PROVE  screen' = x
<1>1. x = [row |-> x.row, col |-> x.col, cells |-> x.cells]
  BY ScreenIs DEF Tidy
<1>2. screen' = [row |-> cursor_row', col |-> cursor_col', cells |-> vga']
  BY DEF screen
<1> QED
  BY <1>1, <1>2 DEF Show

LEMMA PromptOk ==
  /\ Prompt \in Seq(Glyphs) /\ Len(Prompt) \in Nat /\ Len(Prompt) < VGA_COLS
  /\ Prompt \o <<>> = Prompt
<1>1. STRING \subseteq Glyphs
  BY DEF Glyphs
<1>2. Seq(STRING) \subseteq Seq(Glyphs)
  BY <1>1, SeqMonotonic
<1> QED
  BY <1>2, ConsoleAssumption

(* Every prompt is printed at the left of a row. *)
LEMMA PromptShown ==
  ASSUME NEW x \in TidyLeft
  PROVE  /\ print(x, Prompt) \in Tidy
         /\ print(x, Prompt).col < VGA_COLS
         /\ Shows(print(x, Prompt), Prompt \o <<>>)
<1>1. print(x, Prompt) \in Tidy /\ Shows(print(x, Prompt), Prompt)
  BY PromptOk, PrintShows, SizesOk
<1>2. print(x, Prompt).col = Len(Prompt)
  BY <1>1 DEF Shows
<1> QED
  BY <1>1, <1>2, PromptOk

LEMMA ConsoleInit == Init => ConsoleInv
<1> SUFFICES ASSUME Init
             PROVE  ConsoleInv
  OBVIOUS
<1> DEFINE zero == [row |-> 0, col |-> 0, cells |-> vga_clear]
           x == newline(FoldLeft(println, zero, Welcome))
<1>1. zero \in TidyLeft
  <2>1. vga_clear \in [Cells -> Glyphs] /\ \A i \in Cells : vga_clear[i] = Blank
    BY SizesOk DEF vga_clear
  <2> QED
    BY <2>1, SizesOk DEF TidyLeft, Tidy, Screens, BlankBehind
<1> HIDE DEF zero
<1>2. Welcome \in Seq(Seq(Glyphs))
  <2>1. STRING \subseteq Glyphs
    BY DEF Glyphs
  <2>2. Seq(STRING) \subseteq Seq(Glyphs)
    BY <2>1, SeqMonotonic
  <2>3. Seq(Seq(STRING)) \subseteq Seq(Seq(Glyphs))
    BY <2>2, SeqMonotonic
  <2> QED
    BY <2>3, ConsoleAssumption
<1>3. FoldLeft(println, zero, Welcome) \in TidyLeft
  BY <1>1, <1>2, LinesTidy
<1>4. x \in TidyLeft
  BY <1>3, NewlineTidy DEF TidyLeft
<1>5. shell_init = print(x, Prompt)
  BY DEF shell_init, zero
<1> HIDE DEF x
<1>6. shell_init \in Tidy /\ shell_init.col < VGA_COLS /\ Shows(shell_init, Prompt \o <<>>)
  BY <1>4, <1>5, PromptShown
<1>7. screen = shell_init
  BY <1>6, ScreenIs DEF Init, screen, Tidy
<1>8. TypesInv
  <2>1. input_buffer \in Buffers
    BY BytesOk DEF Init, Buffers
  <2>2. input_len \in Nat /\ typed \in Seq(Chars)
    BY DEF Init
  <2>3. wrapped \in BOOLEAN /\ overrun \in BOOLEAN /\ halted \in BOOLEAN
    BY DEF Init
  <2>4. screen \in Tidy
    BY <1>6, <1>7
  <2> QED
    BY <2>1, <2>2, <2>3, <2>4 DEF TypesInv
<1>9. LineInv
  BY ConsoleAssumption DEF Init, LineInv
<1>10. ShownInv
  BY <1>6, <1>7 DEF Init, ShownInv
<1>11. ShiftInv
  BY DEF Init, ShiftInv
<1> QED
  BY <1>8, <1>9, <1>10, <1>11 DEF ConsoleInv

(* Keys that only set flags. *)
LEMMA FlagStep ==
  ASSUME ConsoleInv, OnlyFlags, shift_held' => down' # {}
  PROVE  ConsoleInv'
<1>1. screen' = screen
  BY DEF OnlyFlags, screenVars, screen
<1> QED
  BY <1>1 DEF ConsoleInv, TypesInv, LineInv, ShownInv, ShiftInv, OnlyFlags, lineVars, screenVars

LEMMA BackspaceStep ==
  ASSUME ConsoleInv, ~halted, ~overrun, backspace
  PROVE  ConsoleInv'
<1> DEFINE n == Len(typed) - 1
           t == [screen EXCEPT !.col = screen.col - 1]
           u == shell_backspace(screen)
<1>1. /\ typed \in Seq(Chars) /\ input_len = Len(typed) /\ n \in Nat
      /\ input_len' = n /\ typed' = SubSeq(typed, 1, n)
      /\ n < INPUT_BUFFER_SIZE
  <2>1. typed \in Seq(Chars) /\ input_len = Len(typed) /\ input_len <= INPUT_BUFFER_SIZE
    BY DEF ConsoleInv, TypesInv, LineInv
  <2>2. input_len > 0 /\ input_len' = input_len - 1
          /\ typed' = SubSeq(typed, 1, Len(typed) - 1)
    BY DEF backspace, MayErase
  <2>3. Len(typed) \in Nat
    BY <2>1
  <2> QED
    BY <2>1, <2>2, <2>3, ConsoleAssumption
<1>2. /\ typed' \in Seq(Chars) /\ Len(typed') = n
      /\ \A i \in 1 .. n : typed'[i] = typed[i]
  BY <1>1
<1>3. input_buffer' = [input_buffer EXCEPT ![n] = NUL] /\ input_buffer' \in Buffers
  <2>1. n \in DOMAIN input_buffer
    BY <1>1, ConsoleAssumption DEF ConsoleInv, TypesInv, Buffers
  <2>2. input_buffer' = Stored(n, NUL)
    BY <1>1 DEF backspace, Stored
  <2> QED
    BY <2>1, <2>2, StoredTyped, BytesOk DEF Stored, ConsoleInv, TypesInv
<1>4. UNCHANGED <<wrapped, overrun, halted, shift_held, down>>
  BY DEF backspace, shiftVars
<1>5. LineInv'
  <2>1. \A i \in 0 .. n - 1 : input_buffer'[i] = typed'[i + 1]
    <3>1. TAKE i \in 0 .. n - 1
    <3>2. i + 1 \in 1 .. n /\ i # n /\ i \in 0 .. Len(typed) - 1
      BY <1>1, <3>1
    <3>3. input_buffer[i] = typed[i + 1]
      BY <3>2 DEF ConsoleInv, LineInv
    <3>4. i \in DOMAIN input_buffer
      BY <1>1, <3>1, ConsoleAssumption DEF ConsoleInv, TypesInv, Buffers
    <3> QED
      BY <3>2, <3>3, <3>4, <1>2, <1>3
  <2> QED
    BY <2>1, <1>1, <1>2, ConsoleAssumption DEF LineInv
<1>6. screen \in Tidy /\ screen \in Screens
  BY DEF ConsoleInv, TypesInv, Tidy
<1>7. /\ u \in Tidy /\ u.col < VGA_COLS
      /\ screen.col > 0 => /\ u.row = screen.row
                           /\ u.col = screen.col - 1
                           /\ u.cells = [screen.cells EXCEPT ![At(t)] = Blank]
  <2>1. screen.col < VGA_COLS /\ screen.row \in 0 .. VGA_ROWS - 1 /\ screen.col \in Nat
          /\ screen.cells \in [Cells -> Glyphs]
    BY <1>6 DEF ConsoleInv, ShownInv, Screens
  <2>2. CASE screen.col = 0
    BY <2>2, <1>6, SizesOk DEF shell_backspace
  <2>3. CASE screen.col # 0
    <3> DEFINE f == [screen.cells EXCEPT ![At(t)] = Blank]
               a == screen.row * VGA_COLS
               c == screen.col - 1
    <3>1. t.row = screen.row /\ t.col = c /\ t.cells = screen.cells
      BY <1>6 DEF Screens
    <3>2. u = [t EXCEPT !.cells = f]
      BY <2>3, <3>1 DEF shell_backspace, vga_write_char, At
    <3>3. At(t) = a + c /\ At(screen) = a + screen.col
      BY <3>1 DEF At
    <3>4. a \in Nat /\ a + c \in Cells /\ c \in 0 .. VGA_COLS - 1
      <4>1. c \in 0 .. VGA_COLS - 1
        BY <2>1, <2>3, SizesOk
      <4>2. a \in Nat /\ \A col \in 0 .. VGA_COLS - 1 : a + col \in Cells
        BY <2>1, RowProps
      <4> QED
        BY <4>1, <4>2
    <3>5. Cells \subseteq Nat
      BY SizesOk DEF Cells
    <3> HIDE DEF t, a, u, c
    <3>6. f \in [Cells -> Glyphs] /\ f[a + c] = Blank
            /\ \A i \in Cells : i # a + c => f[i] = screen.cells[i]
      BY <2>1, <3>3, <3>4, SizesOk
    <3>7. t \in Screens
      <4> DEFINE C == [Cells -> Glyphs]
      <4>1. screen.col - 1 \in 0 .. VGA_COLS
        BY <2>1, <2>3, <3>4, SizesOk DEF c
      <4>2. screen \in [row : 0 .. VGA_ROWS - 1, col : 0 .. VGA_COLS, cells : C]
        BY <1>6 DEF Screens
      <4> HIDE DEF C
      <4>3. t \in [row : 0 .. VGA_ROWS - 1, col : 0 .. VGA_COLS, cells : C]
        BY <4>1, <4>2 DEF t
      <4> QED
        BY <4>3 DEF Screens, C
    <3> HIDE DEF f
    <3>8. u \in Screens /\ u.row = screen.row /\ u.col = c /\ u.cells = f
      BY <3>1, <3>2, <3>6, <3>7 DEF Screens
    <3>9. \A i \in Cells : i >= a + screen.col => screen.cells[i] = Blank
      BY <1>6, <3>3 DEF Tidy, BlankBehind
    <3>10. \A i \in Cells : i >= a + c => f[i] = Blank
      <4>1. TAKE i \in Cells
      <4>2. HAVE i >= a + c
      <4>3. i \in Nat /\ c \in Nat /\ screen.col = c + 1
        BY <4>1, <2>1, <3>4, <3>5 DEF c
      <4>4. CASE i = a + c
        BY <4>4, <3>6
      <4>5. CASE i # a + c
        <5>1. i >= a + screen.col
          BY <4>2, <4>3, <4>5, <3>4
        <5> QED
          BY <4>1, <4>5, <5>1, <3>6, <3>9
      <4> QED
        BY <4>4, <4>5
    <3>11. At(u) = a + c
      BY <3>8 DEF At, a
    <3>12. u \in Tidy
      BY <3>8, <3>10, <3>11 DEF Tidy, BlankBehind
    <3> QED
      BY <3>4, <3>8, <3>12, SizesOk DEF f, c
  <2> QED
    BY <2>2, <2>3
<1>8. screen' = u
  BY <1>7, ShowIs DEF backspace
<1>9. ShownInv'
  <2>1. SUFFICES ASSUME ~wrapped
                 PROVE  Shows(u, Prompt \o typed')
    BY <1>4, <1>7, <1>8 DEF ShownInv
  <2> DEFINE line == Prompt \o typed
             p == Len(Prompt)
             a == screen.row * VGA_COLS
  <2>2. Shows(screen, line)
    BY <2>1 DEF ConsoleInv, ShownInv
  <2>3. /\ p \in Nat /\ Len(line) = p + n + 1
        /\ Len(Prompt \o typed') = p + n
        /\ \A i \in 1 .. p + n : (Prompt \o typed')[i] = line[i]
    BY <1>1, <1>2, PromptOk
  <2>4. screen.col = p + n + 1 /\ \A j \in 0 .. p + n : screen.cells[a + j] = line[j + 1]
    BY <2>2, <2>3, <1>1 DEF Shows
  <2>5. u.row = screen.row /\ u.col = p + n
          /\ u.cells = [screen.cells EXCEPT ![At(t)] = Blank]
    BY <1>1, <1>7, <2>3, <2>4
  <2>6. screen.row \in 0 .. VGA_ROWS - 1 /\ screen.cells \in [Cells -> Glyphs]
          /\ screen.col <= VGA_COLS
    BY <1>6, SizesOk DEF Screens
  <2>7. a \in Nat /\ \A col \in 0 .. VGA_COLS - 1 : a + col \in Cells
    BY <2>6, RowProps
  <2>8. At(t) = a + (p + n)
    BY <1>1, <1>6, <2>3, <2>4 DEF At, Screens
  <2> HIDE DEF u, t, a, p, line
  <2>9. \A j \in 0 .. p + n - 1 : u.cells[a + j] = (Prompt \o typed')[j + 1]
    <3>1. TAKE j \in 0 .. p + n - 1
    <3>2. /\ j + 1 \in 1 .. p + n /\ j \in 0 .. p + n /\ j \in 0 .. VGA_COLS - 1
          /\ a + j # a + (p + n)
      BY <3>1, <2>3, <2>4, <2>6, <2>7, <1>1, SizesOk
    <3>3. u.cells[a + j] = screen.cells[a + j]
      BY <3>2, <2>5, <2>6, <2>7, <2>8
    <3> QED
      BY <3>2, <3>3, <2>3, <2>4
  <2> QED
    BY <2>3, <2>5, <2>9 DEF Shows, a
<1> HIDE DEF u
<1>10. TypesInv'
  BY <1>1, <1>2, <1>3, <1>4, <1>7, <1>8 DEF ConsoleInv, TypesInv
<1>11. ShiftInv'
  BY <1>4 DEF ConsoleInv, ShiftInv
<1> QED
  BY <1>5, <1>9, <1>10, <1>11 DEF ConsoleInv

LEMMA CharacterStep ==
  ASSUME ConsoleInv, ~halted, ~overrun, NEW key \in Keys, character(key)
  PROVE  ConsoleInv'
<1> DEFINE c == CharOf(key)
           n == Len(typed)
           t == Put(screen, c)
           x == shell_putchar(screen, c)
<1>1. c \in Chars /\ c \in Glyphs /\ c \in Bytes
  BY BytesOk DEF Bytes
<1>2. /\ typed \in Seq(Chars) /\ input_len = n /\ n \in Nat
      /\ \A i \in 0 .. n - 1 : input_buffer[i] = typed[i + 1]
  BY DEF ConsoleInv, TypesInv, LineInv
<1>3. /\ input_buffer' = Stored(n, c) /\ input_len' = n + 1
      /\ overrun' = (n >= INPUT_BUFFER_SIZE)
      /\ typed' = Append(typed, c)
      /\ wrapped' = (wrapped \/ x.col = 0)
      /\ Show(x)
      /\ UNCHANGED <<shift_held, down, halted>>
  BY <1>2 DEF character, shiftVars
<1>4. input_buffer' \in Buffers
  BY <1>1, <1>3, StoredTyped DEF ConsoleInv, TypesInv
<1>5. /\ typed' \in Seq(Chars) /\ Len(typed') = n + 1
      /\ typed'[n + 1] = c /\ \A i \in 1 .. n : typed'[i] = typed[i]
  BY <1>1, <1>2, <1>3
<1>6. LineInv'
  <2>1. SUFFICES ASSUME ~overrun'
                 PROVE  /\ n + 1 <= INPUT_BUFFER_SIZE
                        /\ \A i \in 0 .. n : input_buffer'[i] = typed'[i + 1]
    BY <1>2, <1>3, <1>5 DEF LineInv
  <2>2. n < INPUT_BUFFER_SIZE
    <3>1. ~(n >= INPUT_BUFFER_SIZE)
      BY <2>1, <1>3, Zenon
    <3> QED
      BY <3>1, <1>2, ConsoleAssumption
  <2>3. input_buffer \in Buffers /\ 0 .. INPUT_BUFFER_SIZE - 1 = DOMAIN input_buffer
    BY DEF ConsoleInv, TypesInv, Buffers
  <2>4. n \in DOMAIN input_buffer
    BY <2>2, <2>3, <1>2, ConsoleAssumption
  <2>5. input_buffer' = [input_buffer EXCEPT ![n] = c]
    BY <2>4, <1>3 DEF Stored
  <2> HIDE DEF c, n
  <2>6. \A i \in 0 .. n : input_buffer'[i] = typed'[i + 1]
    <3>1. TAKE i \in 0 .. n
    <3>2. i \in DOMAIN input_buffer /\ i \in Nat
      BY <3>1, <2>2, <2>3, <1>2, ConsoleAssumption
    <3>3. CASE i = n
      BY <3>2, <3>3, <2>5, <1>5
    <3>4. CASE i # n
      <4>1. i \in 0 .. n - 1 /\ i + 1 \in 1 .. n
        BY <3>1, <3>4, <1>2
      <4> QED
        BY <4>1, <3>2, <3>4, <2>5, <1>2, <1>5
    <3> QED
      BY <3>3, <3>4
  <2> QED
    BY <2>2, <2>6, <1>2, ConsoleAssumption
<1>7. screen \in Tidy /\ screen.col < VGA_COLS /\ screen.col \in Nat
  BY DEF ConsoleInv, TypesInv, ShownInv, Tidy, Screens
<1>8. t \in Tidy /\ t.col = screen.col + 1
  BY <1>1, <1>7, PutTidy
<1> HIDE DEF c, n, t
<1>9. x = IF t.col >= VGA_COLS THEN newline(t) ELSE t
  BY DEF shell_putchar, t, c
<1>10. x \in Tidy /\ x.col < VGA_COLS /\ (x.col # 0 => x = t)
  <2>1. newline(t) \in Tidy /\ newline(t).col = 0
    BY <1>8, NewlineTidy DEF TidyLeft
  <2> HIDE DEF x
  <2>2. CASE t.col >= VGA_COLS
    BY <2>1, <2>2, <1>9, SizesOk
  <2>3. CASE ~(t.col >= VGA_COLS)
    BY <2>3, <1>7, <1>8, <1>9, SizesOk
  <2> QED
    BY <2>2, <2>3
<1> HIDE DEF x
<1>11. screen' = x
  BY <1>3, <1>10, ShowIs
<1>12. ShownInv'
  <2>1. SUFFICES ASSUME ~wrapped'
                 PROVE  Shows(x, Prompt \o typed')
    BY <1>10, <1>11 DEF ShownInv
  <2>2. ~wrapped /\ x = t
    BY <2>1, <1>3, <1>10
  <2>3. Shows(screen, Prompt \o typed)
    BY <2>2 DEF ConsoleInv, ShownInv
  <2>4. typed \in Seq(Glyphs)
    <3>1. Chars \subseteq Glyphs
      BY BytesOk DEF Bytes
    <3> QED
      BY <3>1, <1>2, SeqMonotonic
  <2>5. Prompt \o typed \in Seq(Glyphs)
    BY <2>4, PromptOk
  <2>6. Append(Prompt \o typed, c) = Prompt \o typed'
    <3>1. Append(Prompt \o typed, c) = (Prompt \o typed) \o <<c>>
      BY <2>5, <1>1, AppendIsConcat
    <3>2. typed' = typed \o <<c>>
      BY <2>4, <1>1, <1>3, AppendIsConcat
    <3>3. <<c>> \in Seq(Glyphs)
      BY <1>1
    <3>4. (Prompt \o typed) \o <<c>> = Prompt \o (typed \o <<c>>)
      BY <2>4, <3>3, PromptOk, ConcatAssociative
    <3> QED
      BY <3>1, <3>2, <3>4
  <2>7. Shows(t, Append(Prompt \o typed, c))
    BY <2>3, <2>5, <1>1, <1>7, PutShows DEF t
  <2> QED
    BY <2>2, <2>6, <2>7
<1>13. TypesInv'
  <2>1. wrapped' \in BOOLEAN
    BY <1>3
  <2>2. overrun' \in BOOLEAN /\ halted' \in BOOLEAN
    BY <1>3 DEF ConsoleInv, TypesInv
  <2> QED
    BY <2>1, <2>2, <1>2, <1>3, <1>4, <1>5, <1>10, <1>11 DEF TypesInv
<1>14. ShiftInv'
  BY <1>3 DEF ConsoleInv, ShiftInv
<1> QED
  BY <1>6, <1>12, <1>13, <1>14 DEF ConsoleInv

LEMMA EnterStep ==
  ASSUME ConsoleInv, ~halted, ~overrun, enter
  PROVE  ConsoleInv'
<1> DEFINE buf == Stored(input_len, NUL)
           input == Text(buf)
<1>1. buf \in Buffers
  BY StoredTyped, BytesOk DEF ConsoleInv, TypesInv
<1> HIDE DEF buf
<1>2. input \in Seq(Glyphs)
  BY <1>1, TextTyped
<1> HIDE DEF input
<1>3. newline(screen) \in TidyLeft
  BY NewlineTidy DEF ConsoleInv, TypesInv
<1>4. /\ typed' = <<>> /\ wrapped' = FALSE
      /\ UNCHANGED <<shift_held, down>>
  BY DEF enter, shiftVars
<1>5. PICK x \in parse_and_run(newline(screen), input) :
           \/ /\ Show(print(x, Prompt))
              /\ input_buffer' = [Cut(buf) EXCEPT ![0] = NUL]
              /\ input_len' = 0
              /\ halted' = halted
           \/ /\ Show(x)
              /\ input_buffer' = Cut(buf)
              /\ halted' = TRUE
              /\ input_len' = input_len
  BY DEF enter, buf, input, LenAfterEnter
<1>6. x \in TidyLeft /\ x \in Tidy
  BY <1>2, <1>3, <1>5, CommandTidy DEF TidyLeft
<1>7. input_buffer' \in Buffers /\ input_len' \in Nat /\ halted' \in BOOLEAN
  <2>1. input_buffer' \in Buffers
    BY <1>1, <1>5, CutTyped
  <2>2. input_len' \in Nat
    BY <1>5 DEF ConsoleInv, TypesInv
  <2>3. halted' \in BOOLEAN
    BY <1>5 DEF ConsoleInv, TypesInv
  <2> QED
    BY <2>1, <2>2, <2>3
<1>8. screen' \in Tidy
  <2>1. print(x, Prompt) \in Tidy
    BY <1>6, PromptShown
  <2>2. CASE Show(print(x, Prompt))
    BY <2>1, <2>2, ShowIs
  <2>3. CASE Show(x)
    BY <1>6, <2>3, ShowIs
  <2> QED
    BY <2>2, <2>3, <1>5
<1>9. ShownInv'
  <2>1. SUFFICES ASSUME ~halted'
                 PROVE  screen'.col < VGA_COLS /\ Shows(screen', Prompt \o <<>>)
    BY <1>4 DEF ShownInv
  <2>2. Show(print(x, Prompt))
    BY <1>5, <2>1
  <2>3. screen' = print(x, Prompt)
    BY <1>6, <2>2, PromptShown, ShowIs
  <2> QED
    BY <1>6, <2>3, PromptShown
<1>10. LineInv'
  <2>1. ~halted' => input_len' = 0
    BY <1>5
  <2> QED
    BY <2>1, <1>4, ConsoleAssumption DEF LineInv
<1>11. TypesInv'
  <2>1. overrun' \in BOOLEAN
    <3>1. overrun' = (input_len >= INPUT_BUFFER_SIZE)
      BY DEF enter
    <3> QED
      BY <3>1, ConsoleAssumption DEF ConsoleInv, TypesInv
  <2>2. wrapped' \in BOOLEAN
    BY <1>4, Zenon
  <2>3. typed' \in Seq(Chars)
    BY <1>4, EmptySeq
  <2> QED
    BY <2>1, <2>2, <2>3, <1>7, <1>8 DEF TypesInv
<1>12. ShiftInv'
  BY <1>4 DEF ConsoleInv, ShiftInv
<1> QED
  BY <1>9, <1>10, <1>11, <1>12 DEF ConsoleInv

LEMMA ConsoleStep == ConsoleInv /\ [Next]_vars => ConsoleInv'
<1> SUFFICES ASSUME ConsoleInv, [Next]_vars
             PROVE  ConsoleInv'
  OBVIOUS
<1>1. CASE UNCHANGED vars
  <2>1. screen' = screen
    BY <1>1 DEF vars, screenVars, screen
  <2> QED
    BY <1>1, <2>1
    DEF ConsoleInv, TypesInv, LineInv, ShownInv, ShiftInv, vars, lineVars, shiftVars, screenVars
<1>2. CASE Next
  <2>1. ~halted /\ ~overrun
    BY <1>2 DEF Next
  <2>2. ASSUME NEW key, shift_pressed(key)
        PROVE  ConsoleInv'
    <3>1. OnlyFlags /\ down' # {}
      BY <2>2 DEF shift_pressed
    <3> QED
      BY <3>1, FlagStep
  <2>3. ASSUME NEW key, shift_released(key)
        PROVE  ConsoleInv'
    <3>1. OnlyFlags /\ ~shift_held'
      BY <2>3 DEF shift_released, FlagReleased
    <3> QED
      BY <3>1, FlagStep
  <2>4. CASE caps_pressed
    <3>1. OnlyFlags /\ shift_held' = shift_held /\ down' = down
      BY <2>4 DEF caps_pressed
    <3>2. shift_held => down # {}
      BY DEF ConsoleInv, ShiftInv
    <3> QED
      BY <3>1, <3>2, FlagStep
  <2>5. CASE backspace
    BY <2>1, <2>5, BackspaceStep
  <2>6. ASSUME NEW key \in Keys, character(key)
        PROVE  ConsoleInv'
    BY <2>1, <2>6, CharacterStep
  <2>7. CASE enter
    BY <2>1, <2>7, EnterStep
  <2> QED
    BY <1>2, <2>2, <2>3, <2>4, <2>5, <2>6, <2>7 DEF Next, keyboard_handler
<1> QED
  BY <1>1, <1>2

-----------------------------------------------------------------------------
(* Whatever is typed, erased, run and scrolled, the cursor's row shows the *)
(* prompt, the line and nothing else, until the line wraps.                *)
THEOREM ConsoleRowShowsLine == Spec => []RowShowsLine
<1>1. ConsoleInv => RowShowsLine
  <2> SUFFICES ASSUME ConsoleInv, ~wrapped, ~overrun, ~halted
               PROVE  LET line == Prompt \o typed
                      IN  /\ cursor_col = Len(line)
                          /\ \A col \in 0 .. VGA_COLS - 1 :
                               vga[cursor_row * VGA_COLS + col] =
                                 IF col < Len(line) THEN line[col + 1] ELSE Blank
    BY DEF RowShowsLine
  <2> DEFINE line == Prompt \o typed
             n == Len(line)
             a == cursor_row * VGA_COLS
  <2>1. /\ screen \in Screens /\ BlankBehind(screen)
        /\ Shows(screen, line) /\ typed \in Seq(Chars)
    BY DEF ConsoleInv, TypesInv, ShownInv, Tidy
  <2>2. screen.row = cursor_row /\ screen.col = cursor_col /\ screen.cells = vga
    BY DEF screen
  <2>3. n \in Nat
    BY <2>1, PromptOk
  <2>4. cursor_row \in 0 .. VGA_ROWS - 1
    BY <2>1, <2>2 DEF Screens
  <2>5. a \in Nat /\ \A col \in 0 .. VGA_COLS - 1 : a + col \in Cells
    BY <2>4, RowProps
  <2>6. cursor_col = n /\ \A j \in 0 .. n - 1 : vga[a + j] = line[j + 1]
    BY <2>1, <2>2 DEF Shows
  <2>7. \A i \in Cells : i >= a + n => vga[i] = Blank
    BY <2>1, <2>2, <2>6 DEF BlankBehind, At
  <2> HIDE DEF line, n, a
  <2>8. ASSUME NEW col \in 0 .. VGA_COLS - 1
        PROVE  vga[a + col] = IF col < n THEN line[col + 1] ELSE Blank
    <3>1. col \in Nat /\ a + col \in Cells
      BY <2>5, SizesOk
    <3>2. CASE col < n
      BY <3>1, <3>2, <2>3, <2>6
    <3>3. CASE ~(col < n)
      BY <3>1, <3>3, <2>3, <2>5, <2>7
    <3> QED
      BY <3>2, <3>3
  <2> QED
    BY <2>6, <2>8 DEF line, n, a
<1> QED
  BY <1>1, ConsoleInit, ConsoleStep, PTL DEF Spec

(* What enter submits is what was typed and not erased, for every line     *)
(* that fits the buffer, whatever was typed, cut or erased before it.      *)
THEOREM ConsoleSubmitsTyped == Spec => []SubmitsTyped
<1>1. ConsoleInv => SubmitsTyped
  <2> SUFFICES ASSUME ConsoleInv, ~overrun, ~halted
               PROVE  Text(Stored(input_len, NUL)) = typed
    BY DEF SubmitsTyped
  <2> DEFINE buf == Stored(input_len, NUL)
             n == Len(typed)
  <2>1. /\ input_buffer \in Buffers /\ typed \in Seq(Chars) /\ input_len = n /\ n \in Nat
        /\ n <= INPUT_BUFFER_SIZE
        /\ \A i \in 0 .. n - 1 : input_buffer[i] = typed[i + 1]
    BY DEF ConsoleInv, TypesInv, LineInv
  <2>2. buf \in Buffers
    BY <2>1, StoredTyped, BytesOk
  <2>3. DOMAIN input_buffer = 0 .. INPUT_BUFFER_SIZE - 1
    BY <2>1 DEF Buffers
  <2>4. \A i \in 0 .. n - 1 : buf[i] = typed[i + 1]
    <3>1. TAKE i \in 0 .. n - 1
    <3>2. i # n /\ i \in DOMAIN input_buffer
      BY <3>1, <2>1, <2>3, ConsoleAssumption
    <3>3. buf[i] = input_buffer[i]
      BY <3>2, <2>1 DEF Stored
    <3> QED
      BY <3>1, <3>3, <2>1
  <2>5. n < INPUT_BUFFER_SIZE => buf[n] = NUL
    BY <2>1, <2>3, ConsoleAssumption DEF Stored
  <2> HIDE DEF buf
  <2>6. Text(buf) = typed
    BY <2>1, <2>2, <2>4, <2>5, TextIs
  <2> QED
    BY <2>6 DEF buf
<1> QED
  BY <1>1, ConsoleInit, ConsoleStep, PTL DEF Spec

(* The shift flag never outlasts the last shift key. *)
THEOREM ConsoleShiftNotStuck == Spec => []ShiftNotStuck
<1>1. ConsoleInv => ShiftNotStuck
  BY DEF ConsoleInv, ShiftInv, ShiftNotStuck
<1> QED
  BY <1>1, ConsoleInit, ConsoleStep, PTL DEF Spec

-----------------------------------------------------------------------------
Place2  == [row : Int, col : Int]
PictureCells   == [char : Characters, attr : Attrs \cup {-1}, look : Looks \cup {-1}]
Grid(r, c) == [0 .. r - 1 -> [0 .. c - 1 -> PictureCells]]
Grids   == UNION {Grid(r, c) : r \in Nat, c \in Nat}
Memory  == [0 .. Window - 1 -> [char : Characters, attr : Attrs]]
Layouts == (Nat \X Nat \X Nat \X SUBSET {1, 2}) \cup {<< >>}

Devices ==
  [mem : Memory, start_address : Nat, cursor_address : Nat, offset_register : Nat,
   max_cols : Nat \ {0}, max_rows : Nat \ {0},
   horizontal_display_enable_end : Nat, horizontal_blank_start : Nat,
   vertical_display_enable_end : Nat, vertical_blank_start : Nat,
   height : Nat \ {0}, double : BOOLEAN, crtc_mode : SUBSET {1, 2}, line_compare : Nat,
   look : Looks, graphics_bit : BOOLEAN, wide : BOOLEAN, svga_enabled : BOOLEAN,
   graphical_mode : BOOLEAN]

Adapters ==
  [cols : Nat \ {0}, rows : Nat \ {0}, cells : Grids, shown : Grids, dirty : SUBSET Int,
   at : Place2, caret : Place2, touched : SUBSET Int, drawn : Layouts]

Pairs == [d : Devices, a : Adapters]

(* Typing: the cells have the adapter's size. *)
Typed(t) ==
  /\ t \in Pairs
  /\ t.a.cells \in Grid(t.a.rows, t.a.cols)
  /\ t.a.shown \in Grid(t.a.rows, t.a.cols)

(* CleanRowsAreTrue and WaiterOverlooksNothing of a pair. *)
RowTrue(t, i) ==
  /\ t.a.shown[i] = t.a.cells[i]
  /\ (t.a.caret.row = i) = (t.a.at.row = i /\ t.a.at.col < t.a.cols)
  /\ t.a.caret.row = i => t.a.caret = t.a.at

CleanTrue(t) == \A i \in Rows(t) \ t.a.dirty : RowTrue(t, i)

Watched(t) ==
  wait = "waiting" => \A r \in Rows(t) : Matches(t.a.cells[r]) => r \in t.a.touched

Sound(t) == Typed(t) /\ CleanTrue(t) /\ Watched(t)

(* The picture: while the layout is that of the last redraw the adapter    *)
(* has the device's size, and unless the screen is split its cells are     *)
(* those of memory.                                                        *)
Mirrors(t) ==
  \A i \in Rows(t), j \in 0 .. t.a.cols - 1 :
    t.a.cells[i][j] = CellAt(t.d, t.d.start_address + i * Width(t.d) + j)

Pictured(t) ==
  ~t.d.graphical_mode /\ t.a.drawn = Layout(t.d) =>
    /\ t.a.rows = t.d.max_rows /\ t.a.cols = t.d.max_cols
    /\ SplitRow(t.d) >= t.d.max_rows => Mirrors(t)

IsSettled(t) == t.a.drawn \in {Layout(t.d), << >>}

DisplayInv ==
  /\ Sound(s) /\ Pictured(s) /\ IsSettled(s)
  /\ saved \in Devices
  /\ wait \in {"idle", "waiting"}

-----------------------------------------------------------------------------
(* Arithmetic of the device. *)

LEMMA PairMax ==
  ASSUME NEW a \in Nat, NEW b \in Nat
  PROVE  Max({a, b}) \in Nat /\ Max({a, b}) >= a /\ Max({a, b}) >= b
<1>1. CASE a >= b
  BY <1>1, MaxIs
<1>2. CASE b >= a
  BY <1>2, MaxIs
<1> QED
  BY <1>1, <1>2

LEMMA PairMin ==
  ASSUME NEW a \in Nat, NEW b \in Nat
  PROVE  Min({a, b}) \in Nat
BY MinProps

LEMMA WidthIs ==
  ASSUME NEW d \in Devices
  PROVE  Width(d) \in Nat /\ Width(d) >= d.max_cols /\ Width(d) > 0
<1>1. d.max_cols \in Nat /\ d.max_cols > 0 /\ 2 * d.offset_register \in Nat
  BY DEF Devices
<1> QED
  BY <1>1, PairMax DEF Width

LEMMA SplitIs ==
  ASSUME NEW d \in Devices
  PROVE  SplitRow(d) \in Nat
<1> DEFINE n == IF d.double THEN d.line_compare \div 2 ELSE d.line_compare
           h == d.height
<1>1. h \in Nat /\ h > 0 /\ d.line_compare \in Nat
  BY DEF Devices
<1>2. n \in Nat
  BY <1>1, DivProps
<1>3. n + h - 1 \in Nat
  BY <1>1, <1>2
<1>4. (n + h - 1) \div h \in Nat
  BY <1>1, <1>3, DivProps
<1> HIDE DEF n, h
<1>5. SplitRow(d) = ((n + h - 1) \div h)
                      * (IF 1 \in d.crtc_mode THEN 1 ELSE 2) * (IF 2 \in d.crtc_mode THEN 1 ELSE 2)
  BY DEF SplitRow, scan_line_to_screen_row, n, h
<1> QED
  BY <1>4, <1>5

LEMMA LayoutIs ==
  ASSUME NEW d \in Devices
  PROVE  Layout(d) \in Layouts /\ Layout(d) # << >>
<1>1. /\ d.max_cols \in Nat /\ d.max_rows \in Nat /\ d.crtc_mode \in SUBSET {1, 2}
      /\ Width(d) \in Nat
  BY WidthIs DEF Devices
<1> QED
  BY <1>1 DEF Layout, Layouts

LEMMA CellAtIs ==
  ASSUME NEW d \in Devices, NEW i
  PROVE  CellAt(d, i) \in PictureCells
<1>1. 0 \in Characters /\ 0 \in Attrs
  BY DisplayAssumption
<1>2. d.mem \in Memory /\ d.look \in Looks
  BY DEF Devices
<1> QED
  BY <1>1, <1>2 DEF CellAt, PictureCells, Memory

-----------------------------------------------------------------------------
(* What a pair of the right type consists of, and how to build one. *)

LEMMA TypedParts ==
  ASSUME NEW t, Typed(t)
  PROVE  /\ t \in Pairs /\ t.d \in Devices /\ t.a \in Adapters
         /\ t.a.rows \in Nat \ {0} /\ t.a.cols \in Nat \ {0}
         /\ Rows(t) = 0 .. t.a.rows - 1
         /\ \A i \in Rows(t), j \in 0 .. t.a.cols - 1 :
              t.a.cells[i][j] \in PictureCells /\ t.a.shown[i][j] \in PictureCells
         /\ \A i \in Rows(t) :
              /\ t.a.cells[i] = [j \in 0 .. t.a.cols - 1 |-> t.a.cells[i][j]]
              /\ t.a.shown[i] = [j \in 0 .. t.a.cols - 1 |-> t.a.shown[i][j]]
<1>1. t.d \in Devices /\ t.a \in Adapters /\ t \in Pairs
  BY DEF Typed, Pairs
<1>2. t.a.rows \in Nat \ {0} /\ t.a.cols \in Nat \ {0}
  BY <1>1 DEF Adapters
<1>3. Rows(t) = 0 .. t.a.rows - 1
  BY DEF Rows
<1>4. ASSUME NEW i \in Rows(t)
      PROVE  /\ t.a.cells[i] \in [0 .. t.a.cols - 1 -> PictureCells]
             /\ t.a.shown[i] \in [0 .. t.a.cols - 1 -> PictureCells]
  BY <1>3 DEF Typed, Grid
<1> QED
  BY <1>1, <1>2, <1>3, <1>4

LEMMA AdapterFields ==
  ASSUME NEW a \in Adapters
  PROVE  /\ a.dirty \in SUBSET Int /\ a.touched \in SUBSET Int
         /\ a.at \in Place2 /\ a.caret \in Place2 /\ a.drawn \in Layouts
         /\ a.at.row \in Int /\ a.at.col \in Int /\ a.caret.row \in Int
BY DEF Adapters, Place2

LEMMA GridIn ==
  ASSUME NEW r \in Nat, NEW c \in Nat, NEW g \in Grid(r, c)
  PROVE  g \in Grids
BY DEF Grids

(* Any change of the device leaves the adapter as sound as it was. *)
LEMMA DeviceChanged ==
  ASSUME NEW t, Sound(t), NEW u \in Pairs, u.a = t.a
  PROVE  Sound(u)
<1>1. Rows(u) = Rows(t)
  BY DEF Rows
<1> QED
  BY <1>1 DEF Sound, Typed, CleanTrue, RowTrue, Watched

-----------------------------------------------------------------------------
(* put_char *)

Drawn(t, cells, i, j) ==
  IF <<i, j>> \in DOMAIN cells THEN cells[<<i, j>>] ELSE t.a.cells[i][j]

LEMMA PutChar ==
  ASSUME NEW t, Sound(t), NEW cells,
         DOMAIN cells \subseteq Nat \X Nat,
         \A p \in DOMAIN cells : cells[p] \in PictureCells
  PROVE  LET u == put_char(t, cells)
         IN  /\ Sound(u) /\ u.d = t.d
             /\ u.a.rows = t.a.rows /\ u.a.cols = t.a.cols
             /\ u.a.at = t.a.at /\ u.a.drawn = t.a.drawn
             /\ \A i \in Rows(t), j \in 0 .. t.a.cols - 1 :
                  u.a.cells[i][j] = Drawn(t, cells, i, j)
<1> DEFINE u == put_char(t, cells)
           R == {p[1] : p \in DOMAIN cells}
           g == [i \in Rows(t) |-> [j \in 0 .. t.a.cols - 1 |-> Drawn(t, cells, i, j)]]
<1>1. /\ Typed(t) /\ t \in Pairs /\ t.d \in Devices /\ t.a \in Adapters
      /\ t.a.rows \in Nat \ {0} /\ t.a.cols \in Nat \ {0} /\ Rows(t) = 0 .. t.a.rows - 1
  BY TypedParts DEF Sound
<1>2. g \in Grid(t.a.rows, t.a.cols)
  <2>1. \A i \in Rows(t), j \in 0 .. t.a.cols - 1 : Drawn(t, cells, i, j) \in PictureCells
    BY <1>1, TypedParts DEF Drawn
  <2> QED
    BY <2>1, <1>1 DEF Grid
<1>3. R \subseteq Int
  OBVIOUS
<1>4. /\ u \in Pairs /\ u.d = t.d /\ u.a.cols = t.a.cols /\ u.a.rows = t.a.rows
      /\ u.a.cells = g /\ u.a.shown = t.a.shown /\ u.a.dirty = t.a.dirty \cup R
      /\ u.a.at = t.a.at /\ u.a.caret = t.a.caret /\ u.a.drawn = t.a.drawn
      /\ u.a.touched = (IF wait = "waiting" THEN t.a.touched \cup R ELSE t.a.touched)
  <2> DEFINE q == IF wait = "waiting" THEN t.a.touched \cup R ELSE t.a.touched
             w == t.a.dirty \cup R
  <2>1. u = [t EXCEPT !.a.cells = g, !.a.dirty = w, !.a.touched = q]
    BY DEF put_char, Drawn
  <2>2. g \in Grids /\ w \in SUBSET Int /\ q \in SUBSET Int
    BY <1>1, <1>2, <1>3, GridIn, AdapterFields
  <2> HIDE DEF g, w, q, u
  <2>3. [t EXCEPT !.a.cells = g, !.a.dirty = w, !.a.touched = q] \in Pairs
    BY <1>1, <2>2 DEF Pairs, Adapters
  <2> QED
    BY <1>1, <2>1, <2>2, <2>3 DEF w, q, Pairs, Adapters
<1> HIDE DEF u, g, R
<1>5. Typed(u)
  BY <1>1, <1>2, <1>4 DEF Typed
<1>6. Rows(u) = Rows(t)
  BY <1>4 DEF Rows
<1>7. \A i \in Rows(t), j \in 0 .. t.a.cols - 1 : u.a.cells[i][j] = Drawn(t, cells, i, j)
  BY <1>4 DEF g
<1>8. ASSUME NEW i \in Rows(t), i \notin R
      PROVE  u.a.cells[i] = t.a.cells[i]
  <2>1. \A j \in 0 .. t.a.cols - 1 : <<i, j>> \notin DOMAIN cells
    BY <1>8 DEF R
  <2>2. \A j \in 0 .. t.a.cols - 1 : Drawn(t, cells, i, j) = t.a.cells[i][j]
    BY <2>1 DEF Drawn
  <2>3. u.a.cells[i] = [j \in 0 .. t.a.cols - 1 |-> Drawn(t, cells, i, j)]
    BY <1>4 DEF g
  <2>4. t.a.cells[i] = [j \in 0 .. t.a.cols - 1 |-> t.a.cells[i][j]]
    BY <1>1, TypedParts
  <2> QED
    BY <2>2, <2>3, <2>4
<1>9. CleanTrue(u)
  BY <1>4, <1>6, <1>8 DEF Sound, CleanTrue, RowTrue
<1>10. Watched(u)
  <2> SUFFICES ASSUME wait = "waiting", NEW r \in Rows(u), Matches(u.a.cells[r])
               PROVE  r \in u.a.touched
    BY DEF Watched
  <2>1. CASE r \in R
    BY <2>1, <1>4
  <2>2. CASE r \notin R
    BY <2>2, <1>4, <1>6, <1>8 DEF Sound, Watched
  <2> QED
    BY <2>1, <2>2
<1>11. Sound(u)
  BY <1>5, <1>9, <1>10 DEF Sound
<1> QED
  BY <1>4, <1>7, <1>11 DEF u

-----------------------------------------------------------------------------
(* Rendering and the cursor *)

(* Every row that is rendered becomes true; the others stay as they were. *)
LEMMA UpdateRows ==
  ASSUME NEW t, Typed(t), Watched(t), NEW R
  PROVE  LET u == text_update_rows(t, R)
         IN  /\ Typed(u) /\ Watched(u) /\ u.d = t.d
             /\ u.a.rows = t.a.rows /\ u.a.cols = t.a.cols /\ u.a.cells = t.a.cells
             /\ u.a.dirty = t.a.dirty /\ u.a.drawn = t.a.drawn /\ u.a.at = t.a.at
             /\ u.a.touched = t.a.touched
             /\ \A i \in Rows(t) : i \in R \/ RowTrue(t, i) => RowTrue(u, i)
<1> DEFINE u == text_update_rows(t, R)
           g == [i \in Rows(t) |-> IF i \in R THEN t.a.cells[i] ELSE t.a.shown[i]]
           c == IF t.a.at.row \in R /\ t.a.at.col < t.a.cols THEN t.a.at
                ELSE IF t.a.caret.row \in R THEN Nowhere ELSE t.a.caret
<1>1. /\ t \in Pairs /\ t.a \in Adapters /\ Rows(t) = 0 .. t.a.rows - 1
      /\ t.a.rows \in Nat /\ t.a.cols \in Nat
  BY TypedParts
<1>2. g \in Grid(t.a.rows, t.a.cols)
  BY <1>1 DEF Typed, Grid
<1>3. c \in Place2
  BY <1>1, AdapterFields DEF Nowhere, Place2
<1>4. /\ u \in Pairs /\ u.d = t.d /\ u.a.cols = t.a.cols /\ u.a.rows = t.a.rows
      /\ u.a.cells = t.a.cells /\ u.a.shown = g /\ u.a.dirty = t.a.dirty
      /\ u.a.at = t.a.at /\ u.a.caret = c /\ u.a.drawn = t.a.drawn
      /\ u.a.touched = t.a.touched
  <2>1. u = [t EXCEPT !.a.shown = g, !.a.caret = c]
    BY DEF text_update_rows
  <2>2. g \in Grids
    BY <1>1, <1>2, GridIn
  <2> HIDE DEF g, c, u
  <2>3. [t EXCEPT !.a.shown = g, !.a.caret = c] \in Pairs
    BY <1>1, <1>3, <2>2 DEF Pairs, Adapters
  <2> QED
    BY <1>1, <1>3, <2>1, <2>2, <2>3 DEF Pairs, Adapters
<1> HIDE DEF u
<1>5. Typed(u)
  BY <1>2, <1>4 DEF Typed
<1>6. Rows(u) = Rows(t)
  BY <1>4 DEF Rows
<1>7. Watched(u)
  BY <1>4, <1>6 DEF Watched
<1>8. ASSUME NEW i \in Rows(t), i \in R \/ RowTrue(t, i)
      PROVE  RowTrue(u, i)
  <2>1. u.a.shown[i] = u.a.cells[i]
    BY <1>4, <1>8 DEF RowTrue
  <2>2. i # -1
    BY <1>1
  <2>3. CASE t.a.at.row \in R /\ t.a.at.col < t.a.cols
    <3>1. c = t.a.at
      BY <2>3
    <3>2. u.a.caret = u.a.at /\ u.a.at.col < u.a.cols
      BY <1>4, <2>3, <3>1
    <3> QED
      BY <2>1, <3>2 DEF RowTrue
  <2>4. CASE ~(t.a.at.row \in R /\ t.a.at.col < t.a.cols) /\ t.a.caret.row \in R
    <3>1. c = Nowhere
      BY <2>4
    <3>2. u.a.caret.row # i
      BY <1>4, <2>2, <3>1 DEF Nowhere
    <3>3. ~(u.a.at.row = i /\ u.a.at.col < u.a.cols)
      <4>1. CASE i \in R
        BY <4>1, <1>4, <2>4
      <4>2. CASE i \notin R
        BY <4>2, <1>4, <1>8, <2>4 DEF RowTrue
      <4> QED
        BY <4>1, <4>2
    <3> QED
      BY <2>1, <3>2, <3>3 DEF RowTrue
  <2>5. CASE ~(t.a.at.row \in R /\ t.a.at.col < t.a.cols) /\ t.a.caret.row \notin R
    <3>1. c = t.a.caret
      BY <2>5
    <3>2. CASE i \in R
      <4>1. u.a.caret.row # i /\ ~(u.a.at.row = i /\ u.a.at.col < u.a.cols)
        BY <1>4, <2>5, <3>1, <3>2
      <4> QED
        BY <2>1, <4>1 DEF RowTrue
    <3>3. CASE i \notin R
      <4>1. RowTrue(t, i)
        BY <1>8, <3>3
      <4> QED
        BY <1>4, <2>1, <3>1, <4>1 DEF RowTrue
    <3> QED
      BY <3>2, <3>3
  <2> QED
    BY <2>3, <2>4, <2>5
<1> QED
  BY <1>4, <1>5, <1>7, <1>8 DEF u

LEMMA NewSize ==
  ASSUME NEW t, Sound(t), NEW c \in Nat \ {0}, NEW r \in Nat \ {0}
  PROVE  LET u == adapter_set_size_text(t, c, r)
         IN  /\ Sound(u) /\ u.d = t.d
             /\ u.a.cols = c /\ u.a.rows = r
             /\ \/ u = t
                \/ u.a.drawn = << >>
<1>1. CASE c = t.a.cols /\ r = t.a.rows
  BY <1>1 DEF adapter_set_size_text
<1>2. CASE ~(c = t.a.cols /\ r = t.a.rows)
  <2> DEFINE n == NoRows(c, r)
             v == [t EXCEPT !.a.cols = c, !.a.rows = r, !.a.dirty = {}, !.a.drawn = << >>,
                            !.a.cells = n, !.a.shown = n, !.a.caret = Nowhere]
             u == text_update_rows(v, Rows(v))
  <2>1. /\ Typed(t) /\ t \in Pairs /\ t.a \in Adapters
    BY TypedParts DEF Sound
  <2>2. NoCell \in PictureCells
    BY DisplayAssumption DEF NoCell, PictureCells
  <2>3. n \in Grid(r, c)
    BY <2>2 DEF NoRows, Grid
  <2>4. n \in Grids /\ << >> \in Layouts /\ Nowhere \in Place2 /\ {} \in SUBSET Int
    BY <2>3, GridIn DEF Layouts, Nowhere, Place2
  <2> HIDE DEF n
  <2> DEFINE w == [t.a EXCEPT !.cols = c, !.rows = r, !.dirty = {}, !.drawn = << >>,
                              !.cells = n, !.shown = n, !.caret = Nowhere]
  <2>a. /\ w \in Adapters /\ w.cols = c /\ w.rows = r
        /\ w.cells = n /\ w.shown = n /\ w.drawn = << >> /\ w.dirty = {}
    BY <2>1, <2>4 DEF Adapters
  <2>b. v = [t EXCEPT !.a = w]
    BY <2>1 DEF Pairs, Adapters
  <2> HIDE DEF v, w
  <2>5. /\ v \in Pairs /\ v.d = t.d /\ v.a.cols = c /\ v.a.rows = r
        /\ v.a.cells = n /\ v.a.shown = n /\ v.a.drawn = << >> /\ v.a.dirty = {}
    BY <2>1, <2>a, <2>b DEF Pairs
  <2>6. Typed(v)
    BY <2>3, <2>5 DEF Typed
  <2>7. Watched(v)
    <3> SUFFICES ASSUME NEW i \in Rows(v), Matches(v.a.cells[i])
                 PROVE  FALSE
      BY DEF Watched
    <3>1. i \in 0 .. r - 1 /\ 0 \in 0 .. c - 1
      BY <2>5 DEF Rows
    <3>2. v.a.cells[i][0] = NoCell
      BY <2>5, <3>1 DEF n, NoRows
    <3> QED
      BY <3>2, DisplayAssumption DEF Matches, NoCell
  <2>8. /\ Typed(u) /\ Watched(u) /\ u.d = t.d /\ u.a.rows = r /\ u.a.cols = c
        /\ u.a.drawn = << >>
        /\ \A i \in Rows(v) : RowTrue(u, i)
    BY <2>5, <2>6, <2>7, UpdateRows
  <2> HIDE DEF u
  <2>9. Rows(u) = Rows(v)
    BY <2>5, <2>8 DEF Rows
  <2>10. CleanTrue(u)
    BY <2>8, <2>9 DEF CleanTrue
  <2>11. adapter_set_size_text(t, c, r) = u
    BY <1>2 DEF adapter_set_size_text, u, v, n
  <2> QED
    BY <2>8, <2>10, <2>11 DEF Sound
<1> QED
  BY <1>1, <1>2

LEMMA CursorPlaced ==
  ASSUME NEW t, Sound(t), NEW place \in Place2
  PROVE  LET u == adapter_update_cursor(t, place)
         IN  /\ Sound(u) /\ u.d = t.d
             /\ u.a.rows = t.a.rows /\ u.a.cols = t.a.cols /\ u.a.cells = t.a.cells
             /\ u.a.drawn = t.a.drawn
<1> DEFINE u == adapter_update_cursor(t, place)
           D == t.a.dirty \cup ({place.row, t.a.at.row} \cap Rows(t))
<1>1. CASE place = t.a.at
  BY <1>1 DEF adapter_update_cursor
<1>2. CASE place # t.a.at
  <2>1. /\ Typed(t) /\ t \in Pairs /\ t.a \in Adapters /\ Rows(t) = 0 .. t.a.rows - 1
    BY TypedParts DEF Sound
  <2>2. D \in SUBSET Int
    BY <2>1, AdapterFields
  <2>3. u = [t EXCEPT !.a.dirty = D, !.a.at = place]
    BY <1>2 DEF adapter_update_cursor
  <2> HIDE DEF D, u
  <2>4. [t EXCEPT !.a.dirty = D, !.a.at = place] \in Pairs
    BY <2>1, <2>2 DEF Pairs, Adapters
  <2>5. /\ u \in Pairs /\ u.d = t.d /\ u.a.cols = t.a.cols /\ u.a.rows = t.a.rows
        /\ u.a.cells = t.a.cells /\ u.a.shown = t.a.shown /\ u.a.dirty = D
        /\ u.a.at = place /\ u.a.caret = t.a.caret /\ u.a.drawn = t.a.drawn
        /\ u.a.touched = t.a.touched
    BY <2>1, <2>2, <2>3, <2>4 DEF Pairs, Adapters
  <2>6. Rows(u) = Rows(t)
    BY <2>5 DEF Rows
  <2>7. Typed(u) /\ Watched(u)
    BY <2>1, <2>5, <2>6 DEF Typed, Watched, Sound
  <2>8. ASSUME NEW i \in Rows(u) \ u.a.dirty
        PROVE  RowTrue(u, i)
    <3>1. i \in Rows(t) \ t.a.dirty /\ i # place.row /\ i # t.a.at.row
      BY <2>5, <2>6 DEF D
    <3>2. RowTrue(t, i)
      BY <3>1 DEF Sound, CleanTrue
    <3>3. t.a.caret.row # i
      BY <3>1, <3>2 DEF RowTrue
    <3> QED
      BY <2>5, <3>1, <3>2, <3>3 DEF RowTrue
  <2> QED
    BY <2>5, <2>7, <2>8 DEF Sound, CleanTrue, u
<1> QED
  BY <1>1, <1>2

LEMMA PlaceIs ==
  ASSUME NEW d \in Devices, NEW i \in Nat
  PROVE  Place(d, i) \in Place2
<1> DEFINE w == Width(d)
           b == d.start_address
<1>1. w \in Nat /\ w > 0 /\ b \in Nat /\ SplitRow(d) \in Nat
  BY WidthIs, SplitIs DEF Devices
<1> HIDE DEF w, b
<1>2. CASE i >= b
  <2>1. i - b \in Nat
    BY <1>1, <1>2
  <2>2. (i - b) \div w \in Nat /\ (i - b) % w \in Nat
    BY <1>1, <2>1, DivProps
  <2> QED
    BY <1>2, <2>2 DEF Place, Place2, w, b
<1>3. CASE ~(i >= b)
  <2>1. i \div w \in Nat /\ i % w \in Nat
    BY <1>1, DivProps
  <2> QED
    BY <1>1, <1>3, <2>1 DEF Place, Place2, w, b
<1> QED
  BY <1>2, <1>3

LEMMA CursorMoved ==
  ASSUME NEW t, Sound(t)
  PROVE  LET u == update_cursor(t)
         IN  /\ Sound(u) /\ u.d = t.d
             /\ u.a.rows = t.a.rows /\ u.a.cols = t.a.cols /\ u.a.cells = t.a.cells
             /\ u.a.drawn = t.a.drawn
<1>1. t.d \in Devices
  BY TypedParts DEF Sound
<1>2. t.d.cursor_address \in Nat
  BY <1>1 DEF Devices
<1> QED
  BY <1>1, <1>2, PlaceIs, CursorPlaced DEF update_cursor

-----------------------------------------------------------------------------
(* Redraws *)

LEMMA SourceIs ==
  ASSUME NEW d \in Devices, NEW i \in Nat, NEW j \in Nat, i < SplitRow(d)
  PROVE  Source(d, i, j) = d.start_address + i * Width(d) + j
BY DEF Source

(* A redraw into an adapter of the device's size shows the memory. *)
LEMMA Redrawn ==
  ASSUME NEW t, Sound(t)
  PROVE  LET u == text_mode_redraw(t)
         IN  /\ Sound(u) /\ u.d = t.d /\ Pictured(u) /\ IsSettled(u)
             /\ u.a.rows = t.a.rows /\ u.a.cols = t.a.cols
<1> DEFINE d == t.d
           P == (0 .. d.max_rows - 1) \X (0 .. d.max_cols - 1)
           cells == [p \in P |-> CellAt(d, Source(d, p[1], p[2]))]
           v == put_char(t, cells)
           fits == t.a.cols = d.max_cols /\ t.a.rows = d.max_rows
           w == IF fits THEN Layout(d) ELSE << >>
           u == [v EXCEPT !.a.drawn = w]
<1>1. /\ Typed(t) /\ t \in Pairs /\ t.a \in Adapters /\ d \in Devices
      /\ Rows(t) = 0 .. t.a.rows - 1
      /\ t.a.rows \in Nat /\ t.a.cols \in Nat
  BY TypedParts DEF Sound
<1>2. d.max_rows \in Nat /\ d.max_cols \in Nat
  BY <1>1 DEF Devices
<1>3. DOMAIN cells \subseteq Nat \X Nat /\ \A p \in DOMAIN cells : cells[p] \in PictureCells
  <2>1. P \subseteq Nat \X Nat
    BY <1>2
  <2>2. \A p \in P : CellAt(d, Source(d, p[1], p[2])) \in PictureCells
    BY <1>1, CellAtIs
  <2> HIDE DEF P, d
  <2> QED
    BY <2>1, <2>2
<1>4. \A i \in 0 .. d.max_rows - 1, j \in 0 .. d.max_cols - 1 :
        <<i, j>> \in DOMAIN cells /\ cells[<<i, j>>] = CellAt(d, Source(d, i, j))
  OBVIOUS
<1> HIDE DEF d, P, cells
<1>5. /\ Sound(v) /\ v.d = t.d /\ v.a.rows = t.a.rows /\ v.a.cols = t.a.cols
      /\ \A i \in Rows(t), j \in 0 .. t.a.cols - 1 : v.a.cells[i][j] = Drawn(t, cells, i, j)
  BY <1>3, PutChar
<1> HIDE DEF v
<1>6. w \in Layouts
  BY <1>1, LayoutIs DEF Layouts
<1>7. Typed(v) /\ v \in Pairs /\ v.a \in Adapters
  BY <1>5, TypedParts DEF Sound
<1> HIDE DEF w
<1>8. /\ u \in Pairs /\ u.d = t.d /\ u.a.cols = t.a.cols /\ u.a.rows = t.a.rows
      /\ u.a.cells = v.a.cells /\ u.a.shown = v.a.shown /\ u.a.dirty = v.a.dirty
      /\ u.a.at = v.a.at /\ u.a.caret = v.a.caret /\ u.a.touched = v.a.touched
      /\ u.a.drawn = w
  BY <1>5, <1>6, <1>7 DEF Pairs, Adapters
<1> HIDE DEF u
<1>9. Rows(u) = Rows(t) /\ Rows(v) = Rows(t)
  BY <1>5, <1>8 DEF Rows
<1>10. Sound(u)
  BY <1>5, <1>7, <1>8, <1>9 DEF Sound, Typed, CleanTrue, RowTrue, Watched
<1>11. Pictured(u)
  <2> SUFFICES ASSUME u.a.drawn = Layout(u.d)
               PROVE  /\ u.a.rows = u.d.max_rows /\ u.a.cols = u.d.max_cols
                      /\ SplitRow(u.d) >= u.d.max_rows => Mirrors(u)
    BY DEF Pictured
  <2>1. fits
    BY <1>1, <1>8, LayoutIs DEF w, d
  <2>2. u.a.rows = u.d.max_rows /\ u.a.cols = u.d.max_cols
    BY <1>8, <2>1 DEF d
  <2>3. ASSUME SplitRow(u.d) >= u.d.max_rows, NEW i \in Rows(u), NEW j \in 0 .. u.a.cols - 1
        PROVE  u.a.cells[i][j] = CellAt(u.d, u.d.start_address + i * Width(u.d) + j)
    <3>1. i \in 0 .. d.max_rows - 1 /\ j \in 0 .. d.max_cols - 1 /\ i \in Nat /\ j \in Nat
      BY <1>1, <1>2, <1>8, <1>9, <2>1
    <3>2. SplitRow(d) \in Nat /\ i < SplitRow(d)
      BY <1>1, <1>2, <1>8, <2>3, <3>1, SplitIs DEF d
    <3>3. u.a.cells[i][j] = cells[<<i, j>>]
      BY <1>4, <1>5, <1>8, <1>9, <3>1, <2>1 DEF Drawn
    <3>4. cells[<<i, j>>] = CellAt(d, d.start_address + i * Width(d) + j)
      BY <1>1, <1>4, <3>1, <3>2, SourceIs
    <3> QED
      BY <1>8, <3>3, <3>4 DEF d
  <2> QED
    BY <2>2, <2>3 DEF Mirrors
<1>12. IsSettled(u)
  BY <1>8 DEF IsSettled, w, d
<1>13. text_mode_redraw(t) = u
  BY DEF text_mode_redraw, u, w, v, cells, P, d
<1> QED
  BY <1>8, <1>10, <1>11, <1>12, <1>13

LEMMA CompletelyRedrawn ==
  ASSUME NEW t, Sound(t)
  PROVE  /\ Sound(complete_redraw(t)) /\ Pictured(complete_redraw(t))
         /\ complete_redraw(t).d = t.d
         /\ update_layers(t) = complete_redraw(t)
<1>1. CASE t.d.graphical_mode
  BY <1>1 DEF complete_redraw, Pictured, update_layers
<1>2. CASE ~t.d.graphical_mode
  BY <1>2, Redrawn DEF complete_redraw, update_layers
<1> QED
  BY <1>1, <1>2

-----------------------------------------------------------------------------
(* Sizes *)

(* The devices that differ in the layout of the text and in the registers  *)
(* of its size only.                                                       *)
SameText(d, e) ==
  /\ e.mem = d.mem /\ e.look = d.look /\ e.start_address = d.start_address
  /\ e.line_compare = d.line_compare /\ e.height = d.height /\ e.double = d.double
  /\ e.graphical_mode = d.graphical_mode

(* A picture outlives a change of the layout only if it changes nothing. *)
LEMMA PictureKept ==
  ASSUME NEW t, Typed(t), Pictured(t), IsSettled(t),
         NEW u, Typed(u), SameText(t.d, u.d),
         u.a.rows = t.a.rows, u.a.cols = t.a.cols, u.a.cells = t.a.cells, u.a.drawn = t.a.drawn
  PROVE  Pictured(u)
<1> SUFFICES ASSUME ~u.d.graphical_mode, u.a.drawn = Layout(u.d)
             PROVE  /\ u.a.rows = u.d.max_rows /\ u.a.cols = u.d.max_cols
                    /\ SplitRow(u.d) >= u.d.max_rows => Mirrors(u)
  BY DEF Pictured
<1>1. t.d \in Devices /\ u.d \in Devices
  BY TypedParts
<1>2. Layout(u.d) # << >>
  BY <1>1, LayoutIs
<1>3. t.a.drawn = Layout(t.d) /\ Layout(t.d) = Layout(u.d)
  BY <1>2 DEF IsSettled
<1>4. /\ u.d.max_cols = t.d.max_cols /\ u.d.max_rows = t.d.max_rows
      /\ Width(u.d) = Width(t.d) /\ u.d.crtc_mode = t.d.crtc_mode
  BY <1>3 DEF Layout
<1>5. ~t.d.graphical_mode
  BY DEF SameText
<1>6. SplitRow(u.d) = SplitRow(t.d)
  BY <1>4 DEF SameText, SplitRow, scan_line_to_screen_row
<1>7. \A i : CellAt(u.d, i) = CellAt(t.d, i)
  BY DEF SameText, CellAt
<1>8. Rows(u) = Rows(t)
  BY DEF Rows
<1>9. u.d.start_address = t.d.start_address
  BY DEF SameText
<1>10. Mirrors(t) => Mirrors(u)
  BY <1>4, <1>7, <1>8, <1>9 DEF Mirrors
<1> QED
  BY <1>3, <1>4, <1>5, <1>6, <1>10 DEF Pictured

LEMMA TextSized ==
  ASSUME NEW t, Sound(t), NEW c \in Nat \ {0}, NEW r \in Nat \ {0}
  PROVE  LET u == set_size_text(t, c, r)
         IN  /\ Sound(u) /\ SameText(t.d, u.d)
             /\ \/ u.a = t.a
                \/ u.a.drawn = << >>
<1> DEFINE v == [t EXCEPT !.d.max_cols = c, !.d.max_rows = r]
           u == adapter_set_size_text(v, c, r)
<1>1. Typed(t) /\ t \in Pairs /\ t.d \in Devices
  BY TypedParts DEF Sound
<1>2. v \in Pairs /\ v.a = t.a /\ SameText(t.d, v.d)
  BY <1>1 DEF Pairs, Devices, SameText
<1> HIDE DEF v
<1>3. Sound(v)
  BY <1>2, DeviceChanged
<1>4. Sound(u) /\ u.d = v.d /\ (u = v \/ u.a.drawn = << >>)
  BY <1>3, NewSize
<1> QED
  BY <1>2, <1>4 DEF set_size_text, v

LEMMA VgaSized ==
  ASSUME NEW t, Sound(t)
  PROVE  LET u == update_vga_size(t)
         IN  /\ Sound(u) /\ SameText(t.d, u.d)
             /\ \/ u.a = t.a
                \/ u.a.drawn = << >>
<1> DEFINE d == t.d
           c == Min({1 + d.horizontal_display_enable_end, d.horizontal_blank_start})
           b == Min({1 + d.vertical_display_enable_end, d.vertical_blank_start})
           e == IF d.double THEN b \div 2 ELSE b
           r == e \div d.height
<1>1. d \in Devices
  BY TypedParts DEF Sound
<1>2. /\ d.horizontal_display_enable_end \in Nat /\ d.horizontal_blank_start \in Nat
      /\ d.vertical_display_enable_end \in Nat /\ d.vertical_blank_start \in Nat
      /\ d.height \in Nat /\ d.height > 0
  BY <1>1 DEF Devices
<1>3. c \in Nat /\ b \in Nat
  BY <1>2, PairMin
<1>4. e \in Nat
  BY <1>3, DivProps
<1>5. r \in Nat
  BY <1>2, <1>4, DivProps
<1>6. update_vga_size(t) = (IF d.svga_enabled \/ d.graphical_mode \/ c = 0 \/ r = 0 THEN t
                            ELSE set_size_text(t, c, r))
  BY DEF update_vga_size
<1>7. SameText(t.d, t.d)
  BY DEF SameText
<1> HIDE DEF c, r
<1>8. CASE d.svga_enabled \/ d.graphical_mode \/ c = 0 \/ r = 0
  BY <1>6, <1>7, <1>8
<1>9. CASE ~(d.svga_enabled \/ d.graphical_mode \/ c = 0 \/ r = 0)
  <2>1. c \in Nat \ {0} /\ r \in Nat \ {0}
    BY <1>3, <1>5, <1>9
  <2>2. update_vga_size(t) = set_size_text(t, c, r)
    BY <1>6, <1>9, Zenon
  <2> DEFINE u == set_size_text(t, c, r)
  <2>3. Sound(u) /\ SameText(t.d, u.d) /\ (u.a = t.a \/ u.a.drawn = << >>)
    BY <2>1, TextSized, Zenon
  <2> HIDE DEF u
  <2> QED
    BY <2>2, <2>3 DEF u
<1> QED
  BY <1>8, <1>9

(* Hence a register of the layout or of the size keeps the picture, or     *)
(* what counts as one.                                                     *)
Steady(t) == Sound(t) /\ Pictured(t)

LEMMA LaidOut ==
  ASSUME NEW t, Steady(t), IsSettled(t), NEW v \in Pairs, v.a = t.a, SameText(t.d, v.d)
  PROVE  Steady(update_vga_size(v))
<1> DEFINE u == update_vga_size(v)
<1>1. Sound(v)
  BY DeviceChanged DEF Steady
<1>2. Sound(u) /\ SameText(v.d, u.d) /\ (u.a = v.a \/ u.a.drawn = << >>)
  BY <1>1, VgaSized
<1> HIDE DEF u
<1>3. SameText(t.d, u.d)
  BY <1>2 DEF SameText
<1>4. CASE u.a = v.a
  BY <1>2, <1>3, <1>4, PictureKept DEF Steady, Sound, u
<1>5. CASE u.a.drawn = << >>
  <2>1. Layout(u.d) # << >>
    BY <1>2, TypedParts, LayoutIs DEF Sound
  <2> QED
    BY <1>2, <1>5, <2>1 DEF Steady, Pictured, u
<1> QED
  BY <1>2, <1>4, <1>5 DEF u

-----------------------------------------------------------------------------
(* A write to memory *)

(* The place where a write is drawn is the one whose source it is. *)
LEMMA PlaceFound ==
  ASSUME NEW d \in Devices, NEW i \in Nat, NEW a \in Nat, NEW b \in Nat,
         a < d.max_rows, b < d.max_cols, SplitRow(d) >= d.max_rows
  PROVE  (d.start_address + a * Width(d) + b = i) <=> (Place(d, i).row = a /\ Place(d, i).col = b)
<1> DEFINE w == Width(d)
           o == d.start_address
           p == Place(d, i)
<1>1. w \in Nat /\ w > 0 /\ w >= d.max_cols /\ o \in Nat /\ SplitRow(d) \in Nat
  BY WidthIs, SplitIs DEF Devices
<1>2. d.max_rows \in Nat /\ d.max_cols \in Nat
  BY DEF Devices
<1>3. a * w \in Nat
  BY <1>1
<1>4. CASE i >= o
  <2> DEFINE n == i - o
             q == n \div w
             m == n % w
  <2>1. p.row = q /\ p.col = m
    BY <1>4 DEF Place
  <2>2. n \in Nat
    BY <1>1, <1>4
  <2>3. q \in Nat /\ m \in Nat /\ m < w /\ q * w + m = n /\ q * w \in Nat
    <3> HIDE DEF n, w
    <3> QED
      BY <1>1, <2>2, DivProps
  <2>4. n = a * w + b <=> o + a * w + b = i
    <3> HIDE DEF w, o
    <3> QED
      BY <1>1, <1>3, <1>4
  <2> HIDE DEF q, m, n, p, w, o
  <2>5. /\ a < q => a * w + w <= q * w
        /\ q < a => q * w + w <= a * w
    BY <1>1, <2>3, MultiplesOrdered
  <2>6. ASSUME n = a * w + b
        PROVE  q = a /\ m = b
    <3>1. ~(a < q)
      BY <1>1, <1>2, <1>3, <2>3, <2>5, <2>6
    <3>2. ~(q < a)
      BY <1>1, <1>2, <1>3, <2>3, <2>5, <2>6
    <3>3. q = a
      BY <2>3, <3>1, <3>2
    <3> QED
      BY <1>3, <2>3, <2>6, <3>3
  <2>7. ASSUME q = a, m = b
        PROVE  n = a * w + b
    BY <2>3, <2>7
  <2> QED
    BY <2>1, <2>4, <2>6, <2>7 DEF w, o, p
<1>5. CASE ~(i >= o)
  <2>1. o + a * w + b # i
    <3> HIDE DEF w, o
    <3> QED
      BY <1>1, <1>3, <1>5
  <2>2. i \div w \in Nat
    BY <1>1, DivProps
  <2>3. p.row = (i \div w) + SplitRow(d)
    BY <1>5 DEF Place
  <2>4. p.row # a
    <3> HIDE DEF p, w
    <3> QED
      BY <1>1, <1>2, <2>2, <2>3
  <2> QED
    BY <2>1, <2>4
<1> QED
  BY <1>4, <1>5

LEMMA Written ==
  ASSUME NEW t, Steady(t), NEW i \in 0 .. Window - 1, NEW cell \in [char : Characters, attr : Attrs]
  PROVE  Steady(vga_memory_write_text_mode(t, i, cell))
<1> DEFINE v == [t EXCEPT !.d.mem[i] = cell]
           d == v.d
           p == Place(d, i)
           off == p.col >= d.max_cols \/ p.row >= d.max_rows
           cells == [q \in {<<p.row, p.col>>} |-> CellAt(d, i)]
           u == IF off THEN v ELSE put_char(v, cells)
<1>1. Typed(t) /\ t \in Pairs /\ t.d \in Devices /\ t.d.mem \in Memory /\ i \in Nat
  BY TypedParts, DisplayAssumption DEF Steady, Sound, Devices
<1>2. /\ v \in Pairs /\ v.a = t.a
      /\ d.mem = [t.d.mem EXCEPT ![i] = cell]
      /\ d.look = t.d.look /\ d.start_address = t.d.start_address
      /\ d.line_compare = t.d.line_compare /\ d.height = t.d.height /\ d.double = t.d.double
      /\ d.graphical_mode = t.d.graphical_mode
      /\ d.max_cols = t.d.max_cols /\ d.max_rows = t.d.max_rows
      /\ d.offset_register = t.d.offset_register /\ d.crtc_mode = t.d.crtc_mode
  <2> DEFINE m == [t.d.mem EXCEPT ![i] = cell]
  <2>1. m \in Memory
    BY <1>1 DEF Memory
  <2>2. v = [t EXCEPT !.d.mem = m]
    BY <1>1 DEF Pairs, Devices
  <2> HIDE DEF m
  <2> QED
    BY <1>1, <2>1, <2>2 DEF Pairs, Devices, m
<1> HIDE DEF v
<1>3. Width(d) = Width(t.d) /\ SplitRow(d) = SplitRow(t.d) /\ Layout(d) = Layout(t.d)
  BY <1>2 DEF Width, SplitRow, scan_line_to_screen_row, Layout
<1>4. d \in Devices
  BY <1>2 DEF Pairs
<1>5. \A k : k # i => CellAt(d, k) = CellAt(t.d, k)
  BY <1>1, <1>2 DEF CellAt, Memory
<1>6. p.row \in Nat /\ p.col \in Nat
  <2>1. Width(d) \in Nat /\ Width(d) > 0 /\ SplitRow(d) \in Nat /\ d.start_address \in Nat
    BY <1>4, WidthIs, SplitIs DEF Devices
  <2>2. CASE i >= d.start_address
    <3>1. i - d.start_address \in Nat
      BY <1>1, <2>1, <2>2
    <3>2. p.row = (i - d.start_address) \div Width(d) /\ p.col = (i - d.start_address) % Width(d)
      BY <2>2 DEF Place
    <3>3. (i - d.start_address) \div Width(d) \in Nat /\ (i - d.start_address) % Width(d) \in Nat
      BY <2>1, <3>1, DivProps
    <3> QED
      BY <3>2, <3>3
  <2>3. CASE ~(i >= d.start_address)
    <3>1. p.row = (i \div Width(d)) + SplitRow(d) /\ p.col = i % Width(d)
      BY <2>3 DEF Place
    <3>2. i \div Width(d) \in Nat /\ i % Width(d) \in Nat
      BY <1>1, <2>1, DivProps
    <3> QED
      BY <2>1, <3>1, <3>2
  <2> QED
    BY <2>2, <2>3
<1>7. Sound(v)
  BY <1>2, DeviceChanged DEF Steady
<1> HIDE DEF d, p
<1>8. /\ Sound(u) /\ u.d = d
      /\ u.a.rows = t.a.rows /\ u.a.cols = t.a.cols /\ u.a.drawn = t.a.drawn
      /\ \A a \in Rows(t), b \in 0 .. t.a.cols - 1 :
           u.a.cells[a][b] = IF ~off /\ a = p.row /\ b = p.col THEN CellAt(d, i)
                             ELSE t.a.cells[a][b]
  <2>1. CASE off
    BY <1>2, <1>7, <2>1 DEF d
  <2>2. CASE ~off
    <3>1. DOMAIN cells \subseteq Nat \X Nat /\ \A q \in DOMAIN cells : cells[q] \in PictureCells
      BY <1>4, <1>6, CellAtIs
    <3>2. Rows(v) = Rows(t)
      BY <1>2 DEF Rows
    <3>3. \A a, b : <<a, b>> \in DOMAIN cells <=> a = p.row /\ b = p.col
      OBVIOUS
    <3>4. cells[<<p.row, p.col>>] = CellAt(d, i)
      OBVIOUS
    <3>5. u = put_char(v, cells)
      BY <2>2
    <3> HIDE DEF cells, u, off
    <3>6. /\ Sound(u) /\ u.d = v.d /\ u.a.rows = v.a.rows /\ u.a.cols = v.a.cols
          /\ u.a.drawn = v.a.drawn
          /\ \A a \in Rows(v), b \in 0 .. v.a.cols - 1 : u.a.cells[a][b] = Drawn(v, cells, a, b)
      BY <1>7, <3>1, <3>5, PutChar
    <3>7. \A a, b : Drawn(v, cells, a, b) = IF a = p.row /\ b = p.col THEN CellAt(d, i)
                                            ELSE t.a.cells[a][b]
      BY <1>2, <3>3, <3>4 DEF Drawn
    <3> QED
      BY <1>2, <2>2, <3>2, <3>6, <3>7 DEF d
  <2> QED
    BY <2>1, <2>2
<1>9. vga_memory_write_text_mode(t, i, cell) = u
  BY DEF vga_memory_write_text_mode, v, d, p
<1>10. Rows(u) = Rows(t) /\ Rows(t) = 0 .. t.a.rows - 1 /\ t.a.rows \in Nat /\ t.a.cols \in Nat
  BY <1>1, <1>8, TypedParts DEF Rows
<1>11. d.max_rows \in Nat /\ d.max_cols \in Nat
  BY <1>4 DEF Devices
<1> HIDE DEF u
<1>12. Pictured(u)
  <2> SUFFICES ASSUME ~u.d.graphical_mode, u.a.drawn = Layout(u.d)
               PROVE  /\ u.a.rows = u.d.max_rows /\ u.a.cols = u.d.max_cols
                      /\ SplitRow(u.d) >= u.d.max_rows => Mirrors(u)
    BY DEF Pictured
  <2>1. /\ t.a.rows = t.d.max_rows /\ t.a.cols = t.d.max_cols
        /\ SplitRow(t.d) >= t.d.max_rows => Mirrors(t)
    BY <1>2, <1>3, <1>8 DEF Steady, Pictured
  <2>2. u.a.rows = u.d.max_rows /\ u.a.cols = u.d.max_cols
    BY <1>2, <1>8, <2>1
  <2>3. ASSUME SplitRow(d) >= d.max_rows, NEW a \in Rows(u), NEW b \in 0 .. u.a.cols - 1
        PROVE  u.a.cells[a][b] = CellAt(d, d.start_address + a * Width(d) + b)
    <3> DEFINE k == d.start_address + a * Width(d) + b
    <3>1. a \in Nat /\ b \in Nat /\ a < d.max_rows /\ b < d.max_cols
      BY <1>2, <1>8, <1>10, <1>11, <2>1
    <3>2. k = i <=> (p.row = a /\ p.col = b)
      BY <1>1, <1>4, <2>3, <3>1, PlaceFound DEF p
    <3>3. t.a.cells[a][b] = CellAt(t.d, k)
      BY <1>2, <1>3, <1>8, <1>10, <2>1, <2>3 DEF Mirrors
    <3> HIDE DEF k
    <3>4. CASE k = i
      <4>1. ~off
        BY <1>6, <1>11, <3>1, <3>2, <3>4
      <4> QED
        BY <1>8, <1>10, <3>2, <3>4, <4>1 DEF k
    <3>5. CASE k # i
      <4>1. u.a.cells[a][b] = t.a.cells[a][b]
        BY <1>8, <1>10, <3>2, <3>5
      <4> QED
        BY <1>5, <3>3, <3>5, <4>1 DEF k
    <3> QED
      BY <3>4, <3>5
  <2>4. SplitRow(u.d) >= u.d.max_rows => Mirrors(u)
    BY <1>8, <2>3 DEF Mirrors
  <2> QED
    BY <2>2, <2>4
<1> QED
  BY <1>8, <1>9, <1>12 DEF Steady

-----------------------------------------------------------------------------
(* The registers *)

LEMMA BytesAre ==
  ASSUME NEW x \in Nat, NEW y \in Nat
  PROVE  /\ Low(x) \in Nat /\ High(x) \in Nat
         /\ High(x) * Base + y \in Nat /\ y * Base + Low(x) \in Nat
         /\ WithBit8(x, y) \in Nat /\ WithBit9(x, y) \in Nat
<1>1. Base \in Nat /\ Base > 0 /\ 2 * Base \in Nat /\ 2 * Base > 0
  BY DisplayAssumption
<1>2. Low(x) \in Nat /\ High(x) \in Nat
  BY <1>1, DivProps DEF Low, High
<1>3. x \div (2 * Base) \in Nat /\ x % (2 * Base) \in Nat
  BY <1>1, DivProps
<1>4. \A a \in Nat, b \in Nat : a * b \in Nat /\ a + b \in Nat
  OBVIOUS
<1>5. (x \div (2 * Base)) * 2 * Base \in Nat
  BY <1>1, <1>3, <1>4
<1>6. y * Base \in Nat /\ y * 2 * Base \in Nat /\ High(x) * Base \in Nat
  BY <1>1, <1>2, <1>4
<1>7. WithBit8(x, y) \in Nat
  BY <1>2, <1>4, <1>5, <1>6 DEF WithBit8
<1>8. WithBit9(x, y) \in Nat
  BY <1>3, <1>4, <1>6 DEF WithBit9
<1> QED
  BY <1>2, <1>4, <1>6, <1>7, <1>8

LEMMA SizeRegisterSteady ==
  ASSUME NEW t, Steady(t), IsSettled(t), NEW reg \in {1, 2, 18, 21}, NEW v \in Nat
  PROVE  Steady(SizeRegister(t, reg, v))
<1>1. t \in Pairs /\ t.d \in Devices
  BY TypedParts DEF Steady, Sound
<1>2. t.d.vertical_display_enable_end \in Nat /\ t.d.vertical_blank_start \in Nat
  BY <1>1 DEF Devices
<1> DEFINE vend  == High(t.d.vertical_display_enable_end) * Base + v
           blank == High(t.d.vertical_blank_start) * Base + v
<1>3. vend \in Nat /\ blank \in Nat
  BY <1>2, BytesAre
<1> DEFINE u1 == [t EXCEPT !.d.horizontal_display_enable_end = v]
           u2 == [t EXCEPT !.d.horizontal_blank_start = v]
           u3 == [t EXCEPT !.d.vertical_display_enable_end = vend]
           u4 == [t EXCEPT !.d.vertical_blank_start = blank]
<1>4. SizeRegister(t, reg, v) \in
        {t, update_vga_size(u1), update_vga_size(u2), update_vga_size(u3), update_vga_size(u4)}
  BY DEF SizeRegister
<1> HIDE DEF vend, blank
<1>5. u1 \in Pairs /\ u1.a = t.a /\ SameText(t.d, u1.d)
  BY <1>1 DEF Pairs, Devices, SameText
<1>6. u2 \in Pairs /\ u2.a = t.a /\ SameText(t.d, u2.d)
  BY <1>1 DEF Pairs, Devices, SameText
<1>7. u3 \in Pairs /\ u3.a = t.a /\ SameText(t.d, u3.d)
  BY <1>1, <1>3 DEF Pairs, Devices, SameText
<1>8. u4 \in Pairs /\ u4.a = t.a /\ SameText(t.d, u4.d)
  BY <1>1, <1>3 DEF Pairs, Devices, SameText
<1> HIDE DEF u1, u2, u3, u4
<1>9. /\ Steady(update_vga_size(u1)) /\ Steady(update_vga_size(u2))
      /\ Steady(update_vga_size(u3)) /\ Steady(update_vga_size(u4))
  BY <1>5, <1>6, <1>7, <1>8, LaidOut
<1> QED
  BY <1>4, <1>9

LEMMA OffsetSteady ==
  ASSUME NEW t, Steady(t), IsSettled(t), NEW v \in Nat
  PROVE  Steady(Offset(t, v))
<1> DEFINE u == [t EXCEPT !.d.offset_register = v]
<1>1. t \in Pairs /\ t.d \in Devices
  BY TypedParts DEF Steady, Sound
<1>2. u \in Pairs /\ u.a = t.a /\ SameText(t.d, u.d)
  BY <1>1 DEF Pairs, Devices, SameText
<1> HIDE DEF u
<1>3. Steady(update_vga_size(u))
  BY <1>2, LaidOut
<1> QED
  BY <1>3 DEF Offset, u

LEMMA CrtcModeSteady ==
  ASSUME NEW t, Steady(t), IsSettled(t), NEW m \in SUBSET {1, 2}
  PROVE  Steady(CrtcMode(t, m))
<1> DEFINE u == [t EXCEPT !.d.crtc_mode = m]
<1>1. t \in Pairs /\ t.d \in Devices
  BY TypedParts DEF Steady, Sound
<1>2. u \in Pairs /\ u.a = t.a /\ SameText(t.d, u.d)
  BY <1>1 DEF Pairs, Devices, SameText
<1> HIDE DEF u
<1>3. Steady(update_vga_size(u))
  BY <1>2, LaidOut
<1> QED
  BY <1>3 DEF CrtcMode, u

(* The registers that end with a redraw. *)
LEMMA OverflowSteady ==
  ASSUME NEW t, Steady(t), NEW vend \in Nat, NEW split \in Nat, NEW blank \in Nat
  PROVE  Steady(Overflow(t, vend, split, blank))
<1>1. t \in Pairs /\ t.d \in Devices
  BY TypedParts DEF Steady, Sound
<1>2. t.d.vertical_display_enable_end \in Nat
  BY <1>1 DEF Devices
<1> DEFINE x == vend * Base + Low(t.d.vertical_display_enable_end)
           u == [t EXCEPT !.d.vertical_display_enable_end = x]
           u0 == IF u = t THEN t ELSE update_vga_size(u)
           y == WithBit8(u0.d.line_compare, split)
           v == [u0 EXCEPT !.d.line_compare = y]
           z == WithBit8(v.d.vertical_blank_start, blank)
           w == [v EXCEPT !.d.vertical_blank_start = z]
           w0 == IF w = v THEN v ELSE update_vga_size(w)
<1>3. x \in Nat
  BY <1>2, BytesAre
<1> HIDE DEF x
<1>4. u \in Pairs /\ u.a = t.a
  BY <1>1, <1>3 DEF Pairs, Devices
<1> HIDE DEF u
<1>5. Sound(u0)
  BY <1>4, DeviceChanged, VgaSized DEF Steady
<1> HIDE DEF u0
<1>6. u0 \in Pairs /\ u0.d \in Devices /\ u0.d.line_compare \in Nat
  BY <1>5, TypedParts DEF Sound, Devices
<1>7. y \in Nat
  BY <1>6, BytesAre
<1> HIDE DEF y
<1>8. v \in Pairs /\ v.a = u0.a
  BY <1>6, <1>7 DEF Pairs, Devices
<1> HIDE DEF v
<1>9. Sound(v)
  BY <1>5, <1>8, DeviceChanged
<1>10. v.d \in Devices /\ v.d.vertical_blank_start \in Nat
  BY <1>8 DEF Pairs, Devices
<1>11. z \in Nat
  BY <1>10, BytesAre
<1> HIDE DEF z
<1>12. w \in Pairs /\ w.a = v.a
  BY <1>8, <1>10, <1>11 DEF Pairs, Devices
<1> HIDE DEF w
<1>13. Sound(w0)
  BY <1>9, <1>12, DeviceChanged, VgaSized
<1>14. Overflow(t, vend, split, blank) = update_layers(w0)
  BY DEF Overflow, w0, w, z, v, y, u0, u, x
<1> HIDE DEF w0
<1> QED
  BY <1>13, <1>14, CompletelyRedrawn DEF Steady

LEMMA MaxScanLineSteady ==
  ASSUME NEW t, Steady(t), NEW height \in Nat \ {0}, NEW double \in BOOLEAN,
         NEW split \in Nat, NEW blank \in Nat
  PROVE  Steady(MaxScanLine(t, height, double, split, blank))
<1>1. t \in Pairs /\ t.d \in Devices
  BY TypedParts DEF Steady, Sound
<1>2. t.d.line_compare \in Nat /\ t.d.vertical_blank_start \in Nat
  BY <1>1 DEF Devices
<1> DEFINE x == WithBit9(t.d.line_compare, split)
           y == WithBit9(t.d.vertical_blank_start, blank)
           u == [t EXCEPT !.d.height = height, !.d.double = double,
                          !.d.line_compare = x, !.d.vertical_blank_start = y]
           same == height = t.d.height /\ double = t.d.double
                     /\ u.d.vertical_blank_start = t.d.vertical_blank_start
           w == IF same THEN u ELSE update_vga_size(u)
<1>3. x \in Nat /\ y \in Nat
  BY <1>2, BytesAre
<1>4. MaxScanLine(t, height, double, split, blank) = update_layers(w)
  BY DEF MaxScanLine
<1> HIDE DEF x, y
<1>5. u \in Pairs /\ u.a = t.a
  BY <1>1, <1>3 DEF Pairs, Devices
<1> HIDE DEF u, same
<1>6. Sound(w)
  BY <1>5, DeviceChanged, VgaSized DEF Steady
<1> HIDE DEF w
<1> QED
  BY <1>4, <1>6, CompletelyRedrawn DEF Steady

LEMMA StartAddressSteady ==
  ASSUME NEW t, Steady(t), NEW x \in Nat
  PROVE  Steady(StartAddress(t, x))
<1> DEFINE u == [t EXCEPT !.d.start_address = x]
<1>1. t \in Pairs /\ t.d \in Devices
  BY TypedParts DEF Steady, Sound
<1>2. u \in Pairs /\ u.a = t.a
  BY <1>1 DEF Pairs, Devices
<1> HIDE DEF u
<1>3. Steady(update_layers(u))
  BY <1>2, DeviceChanged, CompletelyRedrawn DEF Steady
<1> QED
  BY <1>3 DEF StartAddress, u

LEMMA LineCompareSteady ==
  ASSUME NEW t, Steady(t), NEW v \in Nat
  PROVE  Steady(LineCompare(t, v))
<1> DEFINE x == High(t.d.line_compare) * Base + v
           u == [t EXCEPT !.d.line_compare = x]
<1>1. t \in Pairs /\ t.d \in Devices
  BY TypedParts DEF Steady, Sound
<1>2. x \in Nat
  BY <1>1, BytesAre DEF Devices
<1>3. LineCompare(t, v) = update_layers(u)
  BY DEF LineCompare
<1> HIDE DEF x
<1>4. u \in Pairs /\ u.a = t.a
  BY <1>1, <1>2 DEF Pairs, Devices
<1> HIDE DEF u
<1> QED
  BY <1>3, <1>4, DeviceChanged, CompletelyRedrawn DEF Steady

LEMMA PaletteSteady ==
  ASSUME NEW t, Steady(t), NEW look \in Looks
  PROVE  Steady(Palette(t, look))
<1> DEFINE u == [t EXCEPT !.d.look = look]
<1>1. t \in Pairs
  BY TypedParts DEF Steady, Sound
<1>2. u \in Pairs /\ u.a = t.a
  BY <1>1 DEF Pairs, Devices
<1> HIDE DEF u
<1> QED
  BY <1>2, DeviceChanged, CompletelyRedrawn DEF Steady, Palette, u

(* A map that changes without a redraw leaves no picture to speak of. *)
LEMMA DacMapSteady ==
  ASSUME NEW t, Steady(t), NEW look \in Looks
  PROVE  Steady(DacMap(t, look))
<1> DEFINE u == [t EXCEPT !.d.look = look]
           v == [u EXCEPT !.a.drawn = << >>]
<1>1. Typed(t) /\ t \in Pairs
  BY TypedParts DEF Steady, Sound
<1>2. u \in Pairs /\ u.a = t.a /\ << >> \in Layouts
  BY <1>1 DEF Pairs, Devices, Layouts
<1>3. DacMap(t, look) \in {t, complete_redraw(u), v}
  BY DEF DacMap
<1> HIDE DEF u
<1>4. /\ v \in Pairs /\ v.d = u.d /\ v.a.cols = t.a.cols /\ v.a.rows = t.a.rows
      /\ v.a.cells = t.a.cells /\ v.a.shown = t.a.shown /\ v.a.dirty = t.a.dirty
      /\ v.a.at = t.a.at /\ v.a.caret = t.a.caret /\ v.a.touched = t.a.touched
      /\ v.a.drawn = << >>
  BY <1>2 DEF Pairs, Adapters
<1> HIDE DEF v
<1>5. Rows(v) = Rows(t)
  BY <1>4 DEF Rows
<1>6. Sound(v)
  BY <1>1, <1>4, <1>5 DEF Steady, Sound, Typed, CleanTrue, RowTrue, Watched
<1>7. Layout(v.d) # << >>
  BY DEF Layout
<1>8. Steady(v)
  BY <1>4, <1>6, <1>7 DEF Steady, Pictured
<1> QED
  BY <1>2, <1>3, <1>8, DeviceChanged, CompletelyRedrawn DEF Steady

LEMMA FontPageSteady ==
  ASSUME NEW t, Steady(t), NEW look \in Looks
  PROVE  Steady(set_font_page(t, look))
<1> DEFINE D == IF look = t.d.look THEN t.a.dirty ELSE Rows(t)
           v == [t EXCEPT !.d.look = look]
           u == [v EXCEPT !.a.dirty = D]
<1>1. /\ Typed(t) /\ t \in Pairs /\ t.a \in Adapters /\ Rows(t) = 0 .. t.a.rows - 1
      /\ t.a.rows \in Nat
  BY TypedParts DEF Steady, Sound
<1>2. v \in Pairs /\ v.a = t.a
  BY <1>1 DEF Pairs, Devices
<1>3. set_font_page(t, look) = complete_redraw(u)
  BY DEF set_font_page
<1>4. D \in SUBSET Int
  BY <1>1, AdapterFields
<1>5. \A i \in Rows(t) \ D : i \notin t.a.dirty
  OBVIOUS
<1> HIDE DEF D, v
<1>6. /\ u \in Pairs /\ u.d = v.d /\ u.a.cols = t.a.cols /\ u.a.rows = t.a.rows
      /\ u.a.cells = t.a.cells /\ u.a.shown = t.a.shown /\ u.a.dirty = D
      /\ u.a.at = t.a.at /\ u.a.caret = t.a.caret /\ u.a.touched = t.a.touched
  BY <1>1, <1>2, <1>4 DEF Pairs, Adapters
<1> HIDE DEF u
<1>7. Rows(u) = Rows(t)
  BY <1>6 DEF Rows
<1>8. Sound(u)
  BY <1>1, <1>5, <1>6, <1>7 DEF Steady, Sound, Typed, CleanTrue, RowTrue, Watched
<1> QED
  BY <1>3, <1>8, CompletelyRedrawn DEF Steady

LEMMA AttributeModeSteady ==
  ASSUME NEW t, Steady(t), NEW graphics \in BOOLEAN, NEW wide \in BOOLEAN, NEW look \in Looks
  PROVE  Steady(AttributeMode(t, graphics, wide, look))
<1> DEFINE m == IF t.d.svga_enabled THEN t.d.graphical_mode ELSE graphics
           u == [t EXCEPT !.d.graphics_bit = graphics, !.d.wide = wide, !.d.look = look,
                          !.d.graphical_mode = m]
<1>1. t \in Pairs /\ t.d \in Devices
  BY TypedParts DEF Steady, Sound
<1>2. m \in BOOLEAN
  BY <1>1 DEF Devices
<1>3. AttributeMode(t, graphics, wide, look) \in {t, complete_redraw(update_vga_size(u))}
  BY DEF AttributeMode
<1> HIDE DEF m
<1>4. u \in Pairs /\ u.a = t.a
  BY <1>1, <1>2 DEF Pairs, Devices
<1> HIDE DEF u
<1>5. Sound(update_vga_size(u))
  BY <1>4, DeviceChanged, VgaSized DEF Steady
<1> QED
  BY <1>3, <1>5, CompletelyRedrawn DEF Steady

LEMMA SvgaSteady ==
  ASSUME NEW t, Steady(t), NEW on \in BOOLEAN
  PROVE  Steady(Svga(t, on))
<1>1. t \in Pairs /\ t.d \in Devices
  BY TypedParts DEF Steady, Sound
<1>2. t.d.graphics_bit \in BOOLEAN /\ t.d.svga_enabled \in BOOLEAN
  BY <1>1 DEF Devices
<1>3. CASE on /\ ~t.d.svga_enabled
  <2> DEFINE u == [t EXCEPT !.d.svga_enabled = TRUE, !.d.graphical_mode = TRUE]
  <2>1. u \in Pairs /\ u.a = t.a /\ u.d.graphical_mode
    BY <1>1 DEF Pairs, Devices
  <2>2. Svga(t, on) = u
    BY <1>3 DEF Svga
  <2> HIDE DEF u
  <2> QED
    BY <2>1, <2>2, DeviceChanged DEF Steady, Pictured
<1>4. CASE ~on /\ t.d.svga_enabled
  <2> DEFINE g == t.d.graphics_bit
             u == [t EXCEPT !.d.svga_enabled = FALSE, !.d.graphical_mode = g]
  <2>1. Svga(t, on) = update_layers(complete_redraw(update_vga_size(u)))
    BY <1>4 DEF Svga
  <2>2. g \in BOOLEAN
    BY <1>2
  <2> HIDE DEF g
  <2>3. u \in Pairs /\ u.a = t.a
    BY <1>1, <2>2 DEF Pairs, Devices
  <2> HIDE DEF u
  <2>4. Sound(update_vga_size(u))
    BY <2>3, DeviceChanged, VgaSized DEF Steady
  <2>5. Sound(complete_redraw(update_vga_size(u)))
    BY <2>4, CompletelyRedrawn
  <2> QED
    BY <2>1, <2>5, CompletelyRedrawn DEF Steady
<1>5. CASE ~(on /\ ~t.d.svga_enabled) /\ ~(~on /\ t.d.svga_enabled)
  <2>1. Svga(t, on) = update_layers(t)
    BY <1>5 DEF Svga
  <2> QED
    BY <2>1, CompletelyRedrawn DEF Steady
<1> QED
  BY <1>3, <1>4, <1>5

LEMMA CursorAddressSteady ==
  ASSUME NEW t, Steady(t), NEW x \in Nat
  PROVE  Steady(CursorAddress(t, x))
<1> DEFINE v == [t EXCEPT !.d.cursor_address = x]
           u == update_cursor(v)
<1>1. Typed(t) /\ t \in Pairs /\ t.d \in Devices
  BY TypedParts DEF Steady, Sound
<1>2. /\ v \in Pairs /\ v.a = t.a /\ SameText(t.d, v.d)
      /\ v.d.max_cols = t.d.max_cols /\ v.d.max_rows = t.d.max_rows
      /\ v.d.offset_register = t.d.offset_register /\ v.d.crtc_mode = t.d.crtc_mode
  BY <1>1 DEF Pairs, Devices, SameText
<1> HIDE DEF v
<1>3. Sound(v)
  BY <1>2, DeviceChanged DEF Steady
<1>4. /\ Sound(u) /\ u.d = v.d /\ u.a.rows = t.a.rows /\ u.a.cols = t.a.cols
      /\ u.a.cells = t.a.cells /\ u.a.drawn = t.a.drawn
  BY <1>2, <1>3, CursorMoved
<1> HIDE DEF u
<1>5. Width(u.d) = Width(t.d) /\ Layout(u.d) = Layout(t.d) /\ SplitRow(u.d) = SplitRow(t.d)
  BY <1>2, <1>4 DEF Width, Layout, SplitRow, scan_line_to_screen_row, SameText
<1>6. \A i : CellAt(u.d, i) = CellAt(t.d, i)
  BY <1>2, <1>4 DEF SameText, CellAt
<1>7. Rows(u) = Rows(t)
  BY <1>4 DEF Rows
<1>8. /\ u.d.start_address = t.d.start_address /\ u.d.graphical_mode = t.d.graphical_mode
      /\ u.d.max_cols = t.d.max_cols /\ u.d.max_rows = t.d.max_rows
  BY <1>2, <1>4 DEF SameText
<1>9. Mirrors(t) => Mirrors(u)
  BY <1>4, <1>5, <1>6, <1>7, <1>8 DEF Mirrors
<1>10. Pictured(u)
  BY <1>4, <1>5, <1>8, <1>9 DEF Steady, Pictured
<1> QED
  BY <1>4, <1>10 DEF Steady, CursorAddress, u, v

LEMMA Restored ==
  ASSUME NEW t, Steady(t), NEW d \in Devices
  PROVE  Steady(set_state(t, d))
<1> DEFINE u == [t EXCEPT !.d = d]
<1>1. t \in Pairs
  BY TypedParts DEF Steady, Sound
<1>2. u \in Pairs /\ u.a = t.a /\ u.d = d
  BY <1>1 DEF Pairs
<1>3. set_state(t, d) = (IF d.graphical_mode THEN u
        ELSE complete_redraw(update_cursor(set_size_text(u, d.max_cols, d.max_rows))))
  BY DEF set_state
<1> HIDE DEF u
<1>4. Sound(u)
  BY <1>2, DeviceChanged DEF Steady
<1>5. CASE d.graphical_mode
  BY <1>2, <1>3, <1>4, <1>5 DEF Steady, Pictured
<1>6. CASE ~d.graphical_mode
  <2>1. d.max_cols \in Nat \ {0} /\ d.max_rows \in Nat \ {0}
    BY DEF Devices
  <2>2. Sound(set_size_text(u, d.max_cols, d.max_rows))
    BY <1>4, <2>1, TextSized
  <2>3. Sound(update_cursor(set_size_text(u, d.max_cols, d.max_rows)))
    BY <2>2, CursorMoved
  <2> QED
    BY <1>3, <1>6, <2>3, CompletelyRedrawn DEF Steady
<1> QED
  BY <1>5, <1>6

-----------------------------------------------------------------------------
(* The invariant *)

LEMMA SettledIs ==
  ASSUME NEW t, Steady(t)
  PROVE  Sound(Settled(t)) /\ Pictured(Settled(t)) /\ IsSettled(Settled(t))
<1> DEFINE u == [t EXCEPT !.a.drawn = << >>]
<1>1. CASE t.a.drawn = Layout(t.d)
  BY <1>1 DEF Settled, Steady, IsSettled
<1>2. CASE t.a.drawn # Layout(t.d)
  <2>1. /\ Typed(t) /\ t \in Pairs /\ t.d \in Devices
    BY TypedParts DEF Steady, Sound
  <2>2. << >> \in Layouts
    BY DEF Layouts
  <2>3. /\ u \in Pairs /\ u.d = t.d /\ u.a.cols = t.a.cols /\ u.a.rows = t.a.rows
        /\ u.a.cells = t.a.cells /\ u.a.shown = t.a.shown /\ u.a.dirty = t.a.dirty
        /\ u.a.at = t.a.at /\ u.a.caret = t.a.caret /\ u.a.touched = t.a.touched
        /\ u.a.drawn = << >>
    BY <2>1, <2>2 DEF Pairs, Adapters
  <2>4. Settled(t) = u
    BY <1>2 DEF Settled
  <2> HIDE DEF u
  <2>5. Rows(u) = Rows(t)
    BY <2>3 DEF Rows
  <2>6. Sound(u)
    BY <2>1, <2>3, <2>5 DEF Steady, Sound, Typed, CleanTrue, RowTrue, Watched
  <2>7. Layout(u.d) # << >>
    BY <2>1, <2>3, LayoutIs
  <2> QED
    BY <2>3, <2>4, <2>6, <2>7 DEF Pictured, IsSettled
<1> QED
  BY <1>1, <1>2

LEMMA InitDisplay == DisplayInit => DisplayInv
<1> SUFFICES ASSUME DisplayInit
             PROVE  DisplayInv
  OBVIOUS
<1> DEFINE t == [d |-> Bios, a |-> Adapter]
           u == text_mode_redraw(t)
<1>1. Bios \in Devices
  <2>1. [i \in 0 .. Window - 1 |-> [char |-> 0, attr |-> 0]] \in Memory
    BY DisplayAssumption DEF Memory
  <2>2. 4 * Base - 1 \in Nat /\ 0 \in Looks
    BY DisplayAssumption
  <2> QED
    BY <2>1, <2>2 DEF Bios, Devices
<1>2. NoRows(2, 2) \in Grid(2, 2)
  <2>1. NoCell \in PictureCells
    BY DisplayAssumption DEF NoCell, PictureCells
  <2> QED
    BY <2>1 DEF NoRows, Grid
<1>3. /\ Adapter \in Adapters
      /\ Adapter.cells \in Grid(Adapter.rows, Adapter.cols)
      /\ Adapter.shown \in Grid(Adapter.rows, Adapter.cols)
  <2>1. NoRows(2, 2) \in Grids
    BY <1>2, GridIn
  <2>2. Nowhere \in Place2 /\ << >> \in Layouts
    BY DEF Nowhere, Place2, Layouts
  <2> QED
    BY <1>2, <2>1, <2>2 DEF Adapter, Adapters
<1>4. t \in Pairs /\ t.d = Bios /\ t.a = Adapter
  BY <1>1, <1>3 DEF Pairs
<1> HIDE DEF t
<1>5. Typed(t)
  BY <1>3, <1>4 DEF Typed
<1>6. Watched(t)
  BY DEF DisplayInit, Watched
<1>7. ASSUME NEW i \in Rows(t)
      PROVE  RowTrue(t, i)
  <2>1. i # -1
    BY <1>4 DEF Rows, Adapter
  <2> QED
    BY <1>4, <2>1 DEF RowTrue, Adapter, Nowhere
<1>8. Sound(t)
  BY <1>5, <1>6, <1>7 DEF Sound, CleanTrue
<1>9. Sound(u) /\ Pictured(u) /\ IsSettled(u)
  BY <1>8, Redrawn
<1> HIDE DEF u
<1>10. s = update_cursor(u)
  BY DEF DisplayInit, u, t
<1>11. /\ Sound(s) /\ s.d = u.d /\ s.a.rows = u.a.rows /\ s.a.cols = u.a.cols
       /\ s.a.cells = u.a.cells /\ s.a.drawn = u.a.drawn
  BY <1>9, <1>10, CursorMoved
<1>12. Pictured(s) /\ IsSettled(s)
  BY <1>9, <1>11 DEF Pictured, IsSettled, Mirrors, Rows
<1> QED
  BY <1>1, <1>11, <1>12 DEF DisplayInv, DisplayInit

(* What a step leaves, if it ends in a settled pair. *)
LEMMA StepTo ==
  ASSUME DisplayInv, NEW t, Steady(t), s' = Settled(t), saved' = saved, wait' = wait
  PROVE  DisplayInv'
<1>1. Sound(Settled(t)) /\ Pictured(Settled(t)) /\ IsSettled(Settled(t))
  BY SettledIs
<1>2. Sound(s)'
  BY <1>1 DEF Sound, Typed, CleanTrue, Watched
<1>3. Pictured(s)' /\ IsSettled(s)'
  BY <1>1
<1> QED
  BY <1>2, <1>3 DEF DisplayInv

LEMMA GuestStep ==
  ASSUME DisplayInv, NEW t, Steady(t), Guest(t)
  PROVE  DisplayInv'
BY StepTo DEF Guest

(* A step of the page that touches no picture. *)
LEMMA PageStep ==
  ASSUME DisplayInv,
         s'.d = s.d, s'.a.rows = s.a.rows, s'.a.cols = s.a.cols, s'.a.cells = s.a.cells,
         s'.a.drawn = s.a.drawn, Sound(s)', saved' = saved, wait' \in {"idle", "waiting"}
  PROVE  DisplayInv'
<1>1. Pictured(s)' /\ IsSettled(s)'
  BY DEF DisplayInv, Pictured, IsSettled, Mirrors, Rows
<1> QED
  BY <1>1 DEF DisplayInv

LEMMA GuestSteps ==
  ASSUME DisplayInv,
         \/ vga_memory_write
         \/ port3D5_size \/ port3D5_overflow \/ port3D5_scan \/ port3D5_start
         \/ port3D5_cursor \/ port3D5_offset \/ port3D5_mode \/ port3D5_split
         \/ port3C9_write \/ port3C5_write \/ port3C0_map \/ port3C0_mode \/ port1CF_write
  PROVE  DisplayInv'
<1>1. Steady(s) /\ IsSettled(s)
  BY DEF DisplayInv, Steady
<1>2. s \in Pairs /\ s.d \in Devices
  BY <1>1, TypedParts DEF Steady, Sound
<1>3. /\ s.d.start_address \in Nat /\ s.d.cursor_address \in Nat
      /\ s.d.mem \in Memory
  BY <1>2 DEF Devices
<1>4. CASE vga_memory_write
  <2> PICK i \in 0 .. Window - 1, c \in Characters, x \in Attrs :
        Guest(IF s.d.svga_enabled THEN s
              ELSE IF s.d.graphical_mode THEN [s EXCEPT !.d.mem[i] = [char |-> c, attr |-> x]]
              ELSE vga_memory_write_text_mode(s, i, [char |-> c, attr |-> x]))
    BY <1>4 DEF vga_memory_write
  <2> DEFINE cell == [char |-> c, attr |-> x]
             m == [s.d.mem EXCEPT ![i] = cell]
             u == [s EXCEPT !.d.mem[i] = cell]
  <2>1. cell \in [char : Characters, attr : Attrs]
    OBVIOUS
  <2> HIDE DEF cell
  <2>2. m \in Memory
    BY <1>3, <2>1 DEF Memory
  <2>3. u = [s EXCEPT !.d.mem = m]
    BY <1>2 DEF Pairs, Devices
  <2> HIDE DEF m
  <2>4. u \in Pairs /\ u.a = s.a /\ u.d.graphical_mode = s.d.graphical_mode
    BY <1>2, <2>2, <2>3 DEF Pairs, Devices
  <2>5. s.d.graphical_mode => Steady(u)
    <3> HIDE DEF u
    <3> QED
      BY <1>1, <2>4, DeviceChanged DEF Steady, Pictured
  <2>6. Steady(vga_memory_write_text_mode(s, i, cell))
    BY <1>1, <2>1, Written
  <2>7. Guest(IF s.d.svga_enabled THEN s ELSE IF s.d.graphical_mode THEN u
              ELSE vga_memory_write_text_mode(s, i, cell))
    BY DEF cell
  <2> HIDE DEF u
  <2>8. CASE s.d.svga_enabled
    BY <1>1, <2>7, <2>8, GuestStep
  <2>9. CASE ~s.d.svga_enabled /\ s.d.graphical_mode
    BY <2>5, <2>7, <2>9, GuestStep
  <2>10. CASE ~s.d.svga_enabled /\ ~s.d.graphical_mode
    BY <2>6, <2>7, <2>10, GuestStep
  <2> QED
    BY <2>8, <2>9, <2>10
<1>5. CASE port3D5_size
  <2> PICK reg \in {1, 2, 18, 21}, v \in 1 .. 2 : Guest(SizeRegister(s, reg, v))
    BY <1>5 DEF port3D5_size
  <2> QED
    BY <1>1, SizeRegisterSteady, GuestStep
<1>6. CASE port3D5_overflow
  <2> PICK vend \in 0 .. 1, split \in 0 .. 1, blank \in 0 .. 1 :
        Guest(Overflow(s, vend, split, blank))
    BY <1>6 DEF port3D5_overflow
  <2> QED
    BY <1>1, OverflowSteady, GuestStep
<1>7. CASE port3D5_scan
  <2> PICK height \in 1 .. 2, double \in BOOLEAN, split \in 0 .. 1, blank \in 0 .. 1 :
        Guest(MaxScanLine(s, height, double, split, blank))
    BY <1>7 DEF port3D5_scan
  <2>1. height \in Nat \ {0} /\ split \in Nat /\ blank \in Nat
    OBVIOUS
  <2> QED
    BY <1>1, <2>1, MaxScanLineSteady, GuestStep
<1>8. CASE port3D5_start
  <2> PICK b \in 0 .. Base - 1 :
        \/ Guest(StartAddress(s, b * Base + Low(s.d.start_address)))
        \/ Guest(StartAddress(s, High(s.d.start_address) * Base + b))
    BY <1>8 DEF port3D5_start
  <2>1. b \in Nat
    BY DisplayAssumption
  <2>2. b * Base + Low(s.d.start_address) \in Nat /\ High(s.d.start_address) * Base + b \in Nat
    BY <1>3, <2>1, BytesAre
  <2> QED
    BY <1>1, <2>2, StartAddressSteady, GuestStep
<1>9. CASE port3D5_cursor
  <2> PICK b \in 0 .. Base - 1 :
        \/ Guest(CursorAddress(s, b * Base + Low(s.d.cursor_address)))
        \/ Guest(CursorAddress(s, High(s.d.cursor_address) * Base + b))
    BY <1>9 DEF port3D5_cursor
  <2>1. b \in Nat
    BY DisplayAssumption
  <2>2. b * Base + Low(s.d.cursor_address) \in Nat /\ High(s.d.cursor_address) * Base + b \in Nat
    BY <1>3, <2>1, BytesAre
  <2> QED
    BY <1>1, <2>2, CursorAddressSteady, GuestStep
<1>10. CASE port3D5_offset
  <2> PICK v \in Offsets : Guest(Offset(s, v))
    BY <1>10 DEF port3D5_offset
  <2>1. v \in Nat
    BY DisplayAssumption
  <2> QED
    BY <1>1, <2>1, OffsetSteady, GuestStep
<1>11. CASE port3D5_mode
  <2> PICK m \in SUBSET {1, 2} : Guest(CrtcMode(s, m))
    BY <1>11 DEF port3D5_mode
  <2> QED
    BY <1>1, CrtcModeSteady, GuestStep
<1>12. CASE port3D5_split
  <2> PICK v \in 0 .. Base - 1 : Guest(LineCompare(s, v))
    BY <1>12 DEF port3D5_split
  <2> QED
    BY <1>1, LineCompareSteady, GuestStep
<1>13. CASE port3C9_write
  <2> PICK look \in Looks : Guest(Palette(s, look))
    BY <1>13 DEF port3C9_write
  <2> QED
    BY <1>1, PaletteSteady, GuestStep
<1>14. CASE port3C5_write
  <2> PICK look \in Looks \ {s.d.look} :
        Guest(IF s.d.graphical_mode THEN s ELSE set_font_page(s, look))
    BY <1>14 DEF port3C5_write
  <2>1. CASE s.d.graphical_mode
    BY <1>1, <2>1, GuestStep
  <2>2. CASE ~s.d.graphical_mode
    BY <1>1, <2>2, FontPageSteady, GuestStep
  <2> QED
    BY <2>1, <2>2
<1>15. CASE port3C0_mode
  <2> PICK graphics \in BOOLEAN, wide \in BOOLEAN, look \in Looks :
        Guest(AttributeMode(s, graphics, wide, look))
    BY <1>15 DEF port3C0_mode
  <2> QED
    BY <1>1, AttributeModeSteady, GuestStep
<1>16. CASE port1CF_write
  <2> PICK on \in BOOLEAN : Guest(Svga(s, on))
    BY <1>16 DEF port1CF_write
  <2> QED
    BY <1>1, SvgaSteady, GuestStep
<1>17. CASE port3C0_map
  <2> PICK look \in Looks : Guest(DacMap(s, look))
    BY <1>17 DEF port3C0_map
  <2> QED
    BY <1>1, DacMapSteady, GuestStep
<1> QED
  BY <1>4, <1>5, <1>6, <1>7, <1>8, <1>9, <1>10, <1>11, <1>12, <1>13, <1>14, <1>15, <1>16, <1>17

(* A frame makes every row true. *)
LEMMA FrameStep ==
  ASSUME DisplayInv, update_screen
  PROVE  DisplayInv'
<1>1. CASE paused \/ s.d.graphical_mode
  <2>1. s' = s /\ saved' = saved /\ wait' = wait
    BY <1>1 DEF update_screen
  <2>2. Sound(s)'
    BY <2>1 DEF DisplayInv, Sound, Typed, CleanTrue, RowTrue, Watched, Rows
  <2> QED
    BY <2>1, <2>2, PageStep DEF DisplayInv
<1>2. CASE ~(paused \/ s.d.graphical_mode)
  <2> DEFINE v == text_update_rows(s, s.a.dirty)
             u == [v EXCEPT !.a.dirty = {}]
  <2>1. /\ Typed(v) /\ Watched(v) /\ v.d = s.d
        /\ v.a.rows = s.a.rows /\ v.a.cols = s.a.cols /\ v.a.cells = s.a.cells
        /\ v.a.drawn = s.a.drawn
        /\ \A i \in Rows(s) : i \in s.a.dirty \/ RowTrue(s, i) => RowTrue(v, i)
    BY UpdateRows DEF DisplayInv, Sound
  <2> HIDE DEF v
  <2>2. v \in Pairs /\ {} \in SUBSET Int
    BY <2>1 DEF Typed
  <2>3. /\ u \in Pairs /\ u.d = v.d /\ u.a.cols = v.a.cols /\ u.a.rows = v.a.rows
        /\ u.a.cells = v.a.cells /\ u.a.shown = v.a.shown /\ u.a.dirty = {}
        /\ u.a.at = v.a.at /\ u.a.caret = v.a.caret /\ u.a.touched = v.a.touched
        /\ u.a.drawn = v.a.drawn
    BY <2>2 DEF Pairs, Adapters
  <2>4. s' = u /\ saved' = saved /\ wait' = wait
    BY <1>2 DEF update_screen, v
  <2> HIDE DEF u
  <2>5. Rows(u) = Rows(s) /\ Rows(v) = Rows(s)
    BY <2>1, <2>3 DEF Rows
  <2>6. \A i \in Rows(s) : RowTrue(u, i)
    BY <2>1, <2>3 DEF DisplayInv, Sound, CleanTrue, RowTrue
  <2>7. Sound(s)'
    BY <2>1, <2>3, <2>4, <2>5, <2>6 DEF Sound, Typed, CleanTrue, Watched
  <2> QED
    BY <2>1, <2>3, <2>4, <2>7, PageStep DEF DisplayInv
<1> QED
  BY <1>1, <1>2

(* Whoever waits has seen every row that no longer is to be looked at. *)
LEMMA LookStep ==
  ASSUME DisplayInv, wait_look
  PROVE  DisplayInv'
<1>1. /\ Typed(s) /\ s \in Pairs /\ CleanTrue(s) /\ Watched(s)
  BY TypedParts DEF DisplayInv, Sound
<1>2. {} \in SUBSET Int
  OBVIOUS
<1>3. s' = [s EXCEPT !.a.touched = {}] /\ saved' = saved /\ wait = "waiting"
  BY DEF wait_look
<1>4. /\ s' \in Pairs /\ s'.d = s.d /\ s'.a.cols = s.a.cols /\ s'.a.rows = s.a.rows
      /\ s'.a.cells = s.a.cells /\ s'.a.shown = s.a.shown /\ s'.a.dirty = s.a.dirty
      /\ s'.a.at = s.a.at /\ s'.a.caret = s.a.caret /\ s'.a.drawn = s.a.drawn
  BY <1>1, <1>2, <1>3 DEF Pairs, Adapters
<1>5. Rows(s)' = Rows(s)
  BY <1>4 DEF Rows
<1>6. Typed(s)' /\ CleanTrue(s)'
  BY <1>1, <1>4, <1>5 DEF Typed, CleanTrue, RowTrue
<1>7. wait' \in {"idle", "waiting"}
  BY DEF wait_look
<1>8. Watched(s)'
  <2> SUFFICES ASSUME wait' = "waiting", NEW r \in Rows(s), Matches(s.a.cells[r])
               PROVE  FALSE
    BY <1>4, <1>5 DEF Watched
  <2>1. r \in s.a.touched \cap Rows(s)
    BY <1>1, <1>3 DEF Watched
  <2>2. wait' \in {"idle"}
    BY <2>1 DEF wait_look
  <2> QED
    BY <2>2
<1> QED
  BY <1>3, <1>4, <1>6, <1>7, <1>8, PageStep DEF Sound

LEMMA DisplayStep == DisplayInv /\ [DisplayNext]_displayVars => DisplayInv'
<1> SUFFICES ASSUME DisplayInv, [DisplayNext]_displayVars
             PROVE  DisplayInv'
  OBVIOUS
<1>1. ASSUME s' = s, wait' = wait
      PROVE  Sound(s)'
  BY <1>1 DEF DisplayInv, Sound, Typed, CleanTrue, RowTrue, Watched, Rows
<1>2. CASE UNCHANGED displayVars
  BY <1>1, <1>2, PageStep DEF displayVars, DisplayInv
<1>3. CASE pause \/ continue
  BY <1>1, <1>3, PageStep DEF pause, continue, DisplayInv
<1>4. CASE save_state
  <2>1. s' = s /\ wait' = wait /\ saved' = s.d
    BY <1>4 DEF save_state
  <2>2. s.d \in Devices
    BY TypedParts DEF DisplayInv, Sound
  <2>3. Pictured(s)' /\ IsSettled(s)'
    BY <2>1 DEF DisplayInv, Pictured, IsSettled, Mirrors, Rows
  <2> QED
    BY <1>1, <2>1, <2>2, <2>3 DEF DisplayInv
<1>5. CASE restore_state
  <2>1. Steady(s) /\ saved \in Devices
    BY DEF DisplayInv, Steady
  <2>2. Steady(set_state(s, saved))
    BY <2>1, Restored
  <2> QED
    BY <1>5, <2>2, StepTo DEF restore_state
<1>6. CASE wait_until_vga_screen_contains
  <2>1. s' = s /\ saved' = saved
    BY <1>6 DEF wait_until_vga_screen_contains
  <2>2. wait' \in {"idle", "waiting"}
    BY <1>6 DEF wait_until_vga_screen_contains
  <2>3. wait' = "waiting" => ~\E r \in Rows(s) : Matches(s.a.cells[r])
    BY <1>6 DEF wait_until_vga_screen_contains
  <2>4. Sound(s)'
    BY <2>1, <2>3 DEF DisplayInv, Sound, Typed, CleanTrue, RowTrue, Watched, Rows
  <2> QED
    BY <2>1, <2>2, <2>4, PageStep
<1> QED
  BY <1>2, <1>3, <1>4, <1>5, <1>6, GuestSteps, FrameStep, LookStep DEF DisplayNext

(* Between two redraws the cells are those that a redraw would draw, for   *)
(* any memory, any sizes and any sequence of register writes, modes,       *)
(* restored states and single writes to memory, except while the screen is *)
(* split and after a change of the layout or of the colour map that        *)
(* redraws nothing.                                                        *)
THEOREM DisplayMirrorsMemory == DisplaySpec => []CellsMirrorMemory
<1>1. DisplayInv => CellsMirrorMemory
  BY DEF DisplayInv, Pictured, Mirrors, CellsMirrorMemory
<1> QED
  BY <1>1, InitDisplay, DisplayStep, PTL DEF DisplaySpec

(* A row that is not dirty looks like its cells and shows the caret        *)
(* exactly where the cursor is.                                            *)
THEOREM DisplayCleanRowsAreTrue == DisplaySpec => []CleanRowsAreTrue
<1>1. DisplayInv => CleanRowsAreTrue
  BY DEF DisplayInv, Sound, CleanTrue, RowTrue, CleanRowsAreTrue
<1> QED
  BY <1>1, InitDisplay, DisplayStep, PTL DEF DisplaySpec

(* A page that waits for a text will look at every row that shows it. *)
THEOREM DisplayWaiterOverlooksNothing == DisplaySpec => []WaiterOverlooksNothing
<1>1. DisplayInv => WaiterOverlooksNothing
  BY DEF DisplayInv, Sound, Watched, WaiterOverlooksNothing
<1> QED
  BY <1>1, InitDisplay, DisplayStep, PTL DEF DisplaySpec
=============================================================================
