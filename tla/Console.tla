------------------------------ MODULE Console ------------------------------
(***************************************************************************)
(* The console: the keyboard interrupt handler with its input line         *)
(* (drivers/keyboard.c), the shell's cursor, line editing and dispatch     *)
(* (shell/shell.c), and the text screen (drivers/vga.c).                   *)
(*                                                                         *)
(* One step is one keyboard interrupt, run to its end: it is never         *)
(* interrupted (see IdleIsClean in Kernel.tla).  A screen is a record of   *)
(* the cursor and the cells; colours are left out.  What a command prints  *)
(* is a sequence of lines; which numbers they show does not matter here.   *)
(*                                                                         *)
(* down, typed, wrapped and overrun only observe.                          *)
(***************************************************************************)
EXTENDS Integers, Sequences, SequencesExt

CONSTANTS
  INPUT_BUFFER_SIZE, VGA_ROWS, VGA_COLS,
  Keys,                   \* keys that have a character
  scancode_table,         \* their characters
  scancode_table_shift,   \* and the shifted ones
  Letters,                \* 'a' .. 'z'
  Prompt,                 \* "INPUT> "
  Unknown,                \* "Uknown command: "
  Welcome,                \* the lines that shell_init prints
  Commands,               \* what each command word does
  Outputs                 \* texts, by lines, that the other commands print

Chars == {scancode_table[k] : k \in Keys} \cup {scancode_table_shift[k] : k \in Keys}
NUL   == "NUL"
Blank == " "
Cells == 0 .. VGA_ROWS * VGA_COLS - 1

ASSUME ConsoleAssumption ==
  /\ INPUT_BUFFER_SIZE \in Nat /\ INPUT_BUFFER_SIZE > 0
  /\ VGA_ROWS \in Nat /\ VGA_ROWS > 0 /\ VGA_COLS \in Nat
  /\ scancode_table \in [Keys -> STRING]
  /\ scancode_table_shift \in [Keys -> STRING]
  /\ NUL \notin Chars
  /\ Prompt \in Seq(STRING) /\ Len(Prompt) < VGA_COLS
  /\ Unknown \in Seq(STRING)
  /\ Welcome \in Seq(Seq(STRING)) /\ Outputs \subseteq Seq(Seq(STRING))
  /\ \A cmd \in DOMAIN Commands :
       Commands[cmd] \in {"clear", "echo", "print", "fault"}

VARIABLES
  input_buffer, input_len, shift_held, caps_lock,   \* keyboard.c
  cursor_row, cursor_col,                           \* shell.c
  vga,                                              \* the video memory
  halted,    \* a command has faulted and the kernel has panicked
  down,      \* shift keys that are physically down
  typed,     \* characters typed and not erased since the last prompt
  wrapped,   \* the line that is being typed has left the prompt's row
  overrun    \* the last store was behind input_buffer

lineVars   == <<input_buffer, input_len, typed, overrun>>
shiftVars  == <<shift_held, caps_lock, down>>
screenVars == <<cursor_row, cursor_col, vga, wrapped>>
vars       == <<lineVars, shiftVars, screenVars, halted>>

-----------------------------------------------------------------------------
(* The screen *)

screen == [row |-> cursor_row, col |-> cursor_col, cells |-> vga]

vga_clear == [i \in Cells |-> Blank]

vga_write_char(s, c) == [s.cells EXCEPT ![s.row * VGA_COLS + s.col] = c]

(* The copy leaves the last column alone. *)
vga_scroll(cells) ==
  [i \in Cells |-> IF i >= (VGA_ROWS - 1) * VGA_COLS THEN Blank
                   ELSE IF i % VGA_COLS < VGA_COLS - 1 THEN cells[i + VGA_COLS]
                   ELSE cells[i]]

NewlineUncleared(s) ==
  IF s.row + 1 >= VGA_ROWS
  THEN [s EXCEPT !.row = VGA_ROWS - 1, !.col = 0]
  ELSE [s EXCEPT !.row = s.row + 1, !.col = 0]

newline(s) ==
  IF s.row + 1 >= VGA_ROWS
  THEN [row |-> VGA_ROWS - 1, col |-> 0, cells |-> vga_scroll(s.cells)]
  ELSE [s EXCEPT !.row = s.row + 1, !.col = 0]

(* Write a character at the cursor and step over it. *)
Put(s, c) == [s EXCEPT !.cells = vga_write_char(s, c), !.col = s.col + 1]

(* print wraps before a character, shell_putchar after it. *)
print(s, str) ==
  FoldLeft(LAMBDA t, c : Put(IF t.col >= VGA_COLS THEN newline(t) ELSE t, c), s, str)

println(s, str) == newline(print(s, str))

shell_putchar(s, c) ==
  LET t == Put(s, c) IN IF t.col >= VGA_COLS THEN newline(t) ELSE t

shell_backspace(s) ==
  IF s.col = 0 THEN s
  ELSE LET t == [s EXCEPT !.col = s.col - 1]
       IN  [t EXCEPT !.cells = vga_write_char(t, Blank)]

shell_init ==
  print(newline(FoldLeft(println, [row |-> 0, col |-> 0, cells |-> vga_clear],
                         Welcome)),
        Prompt)

Show(s) == cursor_row' = s.row /\ cursor_col' = s.col /\ vga' = s.cells

-----------------------------------------------------------------------------
(* Commands *)

(* The C string in a buffer; one without a NUL goes on to the buffer's end. *)
Text(buf) ==
  LET all == [i \in 1 .. INPUT_BUFFER_SIZE |-> buf[i - 1]]
      n   == SelectInSeq(all, LAMBDA c : c = NUL)
  IN  IF n = 0 THEN all ELSE SubSeq(all, 1, n - 1)

(* The text from its first character that is not a blank. *)
Trimmed(text) ==
  LET n == SelectInSeq(text, LAMBDA c : c # Blank)
  IN  IF n = 0 THEN <<>> ELSE SubSeq(text, n, Len(text))

(* Length of the command word at the start of a trimmed text. *)
WordLen(text) ==
  LET n == SelectInSeq(text, LAMBDA c : c = Blank)
  IN  IF n = 0 THEN Len(text) ELSE n - 1

(* parse_and_run replaces the blank behind the command by a NUL. *)
Cut(buf) ==
  LET text == Text(buf)
      j    == Len(text) - Len(Trimmed(text)) + WordLen(Trimmed(text))
  IN  IF j < Len(text) THEN [buf EXCEPT ![j] = NUL] ELSE buf

(* What a command leaves on the screen: one screen for each text that it   *)
(* may print.                                                              *)
Ran(s, cmd, args) ==
  IF cmd \notin DOMAIN Commands
  THEN {println(print(s, Unknown), cmd)}
  ELSE CASE Commands[cmd] = "clear" -> {[row |-> 0, col |-> 0, cells |-> vga_clear]}
         [] Commands[cmd] = "echo"  -> {println(s, args)}
         [] OTHER -> {FoldLeft(println, s, lines) : lines \in Outputs}

parse_and_run(s, input) ==
  LET text == Trimmed(input)
      n    == WordLen(text)
  IN  IF text = <<>> THEN {s}
      ELSE Ran(s, SubSeq(text, 1, n), SubSeq(text, n + 2, Len(text)))

Faults(input) ==
  LET cmd == SubSeq(Trimmed(input), 1, WordLen(Trimmed(input)))
  IN  cmd \in DOMAIN Commands /\ Commands[cmd] = "fault"

-----------------------------------------------------------------------------
(* keyboard_handler, one action per kind of scan code *)

OnlyFlags == UNCHANGED <<lineVars, screenVars, halted>>

shift_pressed(key) ==
  /\ shift_held' = TRUE
  /\ down' = down \cup {key}
  /\ UNCHANGED caps_lock
  /\ OnlyFlags

ReleaseIgnored == shift_held

(* shift_held after the release of a shift key, whichever it is. *)
FlagReleased == FALSE

shift_released(key) ==
  /\ key \in down
  /\ shift_held' = FlagReleased
  /\ down' = down \ {key}
  /\ UNCHANGED caps_lock
  /\ OnlyFlags

caps_pressed ==
  /\ caps_lock' = ~caps_lock
  /\ UNCHANGED <<shift_held, down>>
  /\ OnlyFlags

(* The buffer after a store at index i. *)
Stored(i, c) ==
  IF i \in DOMAIN input_buffer THEN [input_buffer EXCEPT ![i] = c] ELSE input_buffer

MayErase == input_len > 0

backspace ==
  /\ MayErase
  /\ input_len' = input_len - 1
  /\ input_buffer' = Stored(input_len', NUL)
  /\ Show(shell_backspace(screen))
  /\ typed' = SubSeq(typed, 1, Len(typed) - 1)
  /\ UNCHANGED <<shiftVars, wrapped, halted, overrun>>

(* The handler's character for a key. *)
CharOf(key) ==
  LET c     == scancode_table[key]
      upper == IF c \in Letters THEN shift_held # caps_lock ELSE shift_held
  IN  IF upper THEN scancode_table_shift[key] ELSE c

character(key) ==
  LET c == CharOf(key)
      s == shell_putchar(screen, c)
  IN  /\ input_buffer' = Stored(input_len, c)
      /\ input_len' = input_len + 1
      /\ overrun' = (input_len >= INPUT_BUFFER_SIZE)
      /\ Show(s)
      /\ typed' = Append(typed, c)
      /\ wrapped' = (wrapped \/ s.col = 0)
      /\ UNCHANGED <<shiftVars, halted>>

LenKept == input_len

(* input_len once the line has been processed. *)
LenAfterEnter == 0

(* The line is passed to the shell, which runs the command and prints the  *)
(* prompt; a command that faults never comes back.                         *)
enter ==
  LET buf   == Stored(input_len, NUL)
      input == Text(buf)
  IN  /\ \E s \in parse_and_run(newline(screen), input) :
           \/ /\ ~Faults(input)
              /\ Show(print(s, Prompt))
              /\ input_buffer' = [Cut(buf) EXCEPT ![0] = NUL]
              /\ input_len' = LenAfterEnter
              /\ UNCHANGED halted
           \/ /\ Faults(input)
              /\ Show(s)
              /\ input_buffer' = Cut(buf)
              /\ halted' = TRUE
              /\ UNCHANGED input_len
      /\ overrun' = (input_len >= INPUT_BUFFER_SIZE)
      /\ typed' = <<>>
      /\ wrapped' = FALSE
      /\ UNCHANGED shiftVars

-----------------------------------------------------------------------------
Init ==
  /\ input_buffer = [i \in 0 .. INPUT_BUFFER_SIZE - 1 |-> NUL]
  /\ input_len = 0
  /\ shift_held = FALSE /\ caps_lock = FALSE
  /\ cursor_row = shell_init.row
  /\ cursor_col = shell_init.col
  /\ vga = shell_init.cells
  /\ halted = FALSE
  /\ down = {}
  /\ typed = <<>>
  /\ wrapped = FALSE
  /\ overrun = FALSE

(* Other scan codes (releases, keys without a character) change nothing. *)
keyboard_handler ==
  \/ \E key \in {"left", "right"} : shift_pressed(key) \/ shift_released(key)
  \/ caps_pressed
  \/ backspace
  \/ \E key \in Keys : character(key)
  \/ enter

(* A fault halts the kernel.  A store behind the buffer hits whatever the  *)
(* build has placed there; the model follows the kernel up to that store.  *)
Next == ~halted /\ ~overrun /\ keyboard_handler

Spec == Init /\ [][Next]_vars

-----------------------------------------------------------------------------
(* While the line has not wrapped, the cursor's row shows the prompt, then *)
(* the characters typed and not erased, then blanks: editing never eats    *)
(* into the prompt, and no old text shows through after scrolling.         *)
RowShowsLine ==
  ~wrapped /\ ~overrun /\ ~halted =>
    LET line == Prompt \o typed
    IN  /\ cursor_col = Len(line)
        /\ \A col \in 0 .. VGA_COLS - 1 :
             vga[cursor_row * VGA_COLS + col] =
               IF col < Len(line) THEN line[col + 1] ELSE Blank

(* What enter would hand to the shell now is what was typed and not        *)
(* erased: nothing of an earlier line, of a cut command or of an erased    *)
(* character is left in front of the terminator.                           *)
SubmitsTyped ==
  ~overrun /\ ~halted => Text(Stored(input_len, NUL)) = typed

(* "check if shift is held or not": shift_held is never stuck, that is,    *)
(* set while no shift key is down.  (It may be clear while one is down:    *)
(* both keys share the flag, and the release of either clears it.)         *)
ShiftNotStuck == shift_held => down # {}

=============================================================================
