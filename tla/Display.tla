------------------------------ MODULE Display ------------------------------
(***************************************************************************)
(* The emulated PC's display in text mode: the VGA device, which keeps the *)
(* text in its memory, and the page's screen adapter, which keeps a copy   *)
(* of the visible cells and renders the rows that changed once per frame.  *)
(*                                                                         *)
(* s.d is the device and s.a the adapter.  A cell of memory has a          *)
(* character and an attribute; look stands for all the registers that      *)
(* decide how an attribute looks (palette, mask, map, blinking, font       *)
(* page).  A register of two bytes is split at Base, which is 256 in the   *)
(* code; the index and the data port of a register are written together.   *)
(* In the graphics modes only what they do to the text is kept.            *)
(***************************************************************************)
EXTENDS Integers, FiniteSets, FiniteSetsExt

CONSTANTS
  Base,       \* values of a byte of an address or of a scan line: 256
  Window,     \* cells of memory that the guest reaches
  Characters, \* characters
  Attrs,      \* attributes
  Looks,      \* settings of the registers that colour the text
  Offsets,    \* values of the offset register that are tried
  MaxSteps,   \* accesses of the guest, resizes and restores
  Target      \* what the page waits for at the beginning of a row

ASSUME DisplayAssumption ==
  /\ Base \in Nat \ {0} /\ Window \in Nat \ {0} /\ MaxSteps \in Nat
  /\ Offsets \subseteq Nat /\ 0 \in Characters /\ 0 \in Attrs /\ 0 \in Looks
  /\ Target \in Characters \ {0}

VARIABLES
  s,        \* the device and the adapter
  saved,    \* the device in the last saved state
  armed,    \* a frame has been requested
  paused,   \* the adapter is paused, because the emulator is stopped
  wait,     \* wait_until_vga_screen_contains: idle or waiting
  steps

displayVars == <<s, saved, armed, paused, wait, steps>>

-----------------------------------------------------------------------------
(* The adapter.  Cells of a new size are empty: they are not those of any  *)
(* memory.  at is the place of the cursor, caret the place of the one      *)
(* element that shows it.                                                  *)

Nowhere == [row |-> -1, col |-> -1]
NoCell  == [char |-> 0, attr |-> -1, look |-> -1]
Rows(t) == 0 .. t.a.rows - 1
NoRows(c, r) == [i \in 0 .. r - 1 |-> [j \in 0 .. c - 1 |-> NoCell]]

(* Renders the rows R: the caret moves to a row that holds the cursor, and *)
(* leaves one that does not.                                               *)
text_update_rows(t, R) ==
  LET a == t.a
  IN  [t EXCEPT
        !.a.shown = [i \in Rows(t) |-> IF i \in R THEN a.cells[i] ELSE @[i]],
        !.a.caret = IF a.at.row \in R /\ a.at.col < a.cols THEN a.at
                    ELSE IF @.row \in R THEN Nowhere ELSE @]

PutSilently(t, cells) ==
  [t EXCEPT !.a.cells = [i \in Rows(t) |-> [j \in 0 .. t.a.cols - 1 |->
                           IF <<i, j>> \in DOMAIN cells THEN cells[<<i, j>>] ELSE @[i][j]]],
            !.a.dirty = @ \cup {p[1] : p \in DOMAIN cells}]

put_char(t, cells) ==
  [t EXCEPT !.a.cells   = [i \in Rows(t) |-> [j \in 0 .. t.a.cols - 1 |->
                             IF <<i, j>> \in DOMAIN cells THEN cells[<<i, j>>] ELSE @[i][j]]],
            !.a.dirty   = @ \cup {p[1] : p \in DOMAIN cells},
            !.a.touched = IF wait = "waiting" THEN @ \cup {p[1] : p \in DOMAIN cells} ELSE @]

adapter_set_size_text(t, c, r) ==
  IF c = t.a.cols /\ r = t.a.rows THEN t
  ELSE LET u == [t EXCEPT !.a.cols = c, !.a.rows = r, !.a.dirty = {}, !.a.drawn = << >>,
                          !.a.cells = NoRows(c, r), !.a.shown = NoRows(c, r),
                          !.a.caret = Nowhere]
       IN  text_update_rows(u, Rows(u))

CursorLeavesTrail(t, place) ==
  IF place = t.a.at THEN t
  ELSE [t EXCEPT !.a.dirty = @ \cup ({place.row} \cap Rows(t)), !.a.at = place]

adapter_update_cursor(t, place) ==
  IF place = t.a.at THEN t
  ELSE [t EXCEPT !.a.dirty = @ \cup ({place.row, t.a.at.row} \cap Rows(t)), !.a.at = place]

-----------------------------------------------------------------------------
(* The device. *)

Width(d) == Max({d.max_cols, 2 * d.offset_register})

scan_line_to_screen_row(d, line) ==
  LET n == IF d.double THEN line \div 2 ELSE line
  IN  ((n + d.height - 1) \div d.height)
        * (IF 1 \in d.crtc_mode THEN 1 ELSE 2) * (IF 2 \in d.crtc_mode THEN 1 ELSE 2)

SplitRow(d) == scan_line_to_screen_row(d, d.line_compare)

(* Memory beyond the window was never written. *)
CellAt(d, i) ==
  LET m == IF i \in DOMAIN d.mem THEN d.mem[i] ELSE [char |-> 0, attr |-> 0]
  IN  [char |-> m.char, attr |-> m.attr, look |-> d.look]

(* The cell of memory that a redraw shows in row i and column j: memory is *)
(* read from its beginning again at the row of the line compare register.  *)
Source(d, i, j) ==
  IF i < SplitRow(d) THEN d.start_address + i * Width(d) + j
  ELSE (i - SplitRow(d)) * Width(d) + j

(* What cannot be rearranged without losing the picture until the next     *)
(* redraw.  A redraw into an adapter of another size shows no picture: a   *)
(* state that is restored in a graphics mode brings its size, and when     *)
(* that mode is left with registers that make no row the adapter keeps its *)
(* own.                                                                    *)
Layout(d) == <<d.max_cols, d.max_rows, Width(d), d.crtc_mode>>

text_mode_redraw(t) ==
  LET d == t.d
      u == put_char(t, [p \in (0 .. d.max_rows - 1) \X (0 .. d.max_cols - 1) |->
                          CellAt(d, Source(d, p[1], p[2]))])
      fits == t.a.cols = d.max_cols /\ t.a.rows = d.max_rows
  IN  [u EXCEPT !.a.drawn = IF fits THEN Layout(d) ELSE << >>]

NarrowPlace(d, i) ==
  IF i >= d.start_address
  THEN [row |-> (i - d.start_address) \div d.max_cols, col |-> (i - d.start_address) % d.max_cols]
  ELSE [row |-> (i \div d.max_cols) + SplitRow(d), col |-> i % d.max_cols]

(* The place on the screen of a cell of memory, for a write and for the    *)
(* cursor.                                                                 *)
Place(d, i) ==
  LET w == Width(d)
  IN  IF i >= d.start_address
      THEN [row |-> (i - d.start_address) \div w, col |-> (i - d.start_address) % w]
      ELSE [row |-> (i \div w) + SplitRow(d), col |-> i % w]

complete_redraw(t) == IF t.d.graphical_mode THEN t ELSE text_mode_redraw(t)

update_layers(t) == complete_redraw(t)

vga_memory_write_text_mode(t, i, cell) ==
  LET u == [t EXCEPT !.d.mem[i] = cell]
      p == Place(u.d, i)
  IN  IF p.col >= u.d.max_cols \/ p.row >= u.d.max_rows THEN u
      ELSE put_char(u, [q \in {<<p.row, p.col>>} |-> CellAt(u.d, i)])

update_cursor(t) == adapter_update_cursor(t, Place(t.d, t.d.cursor_address))

set_size_text(t, c, r) ==
  adapter_set_size_text([t EXCEPT !.d.max_cols = c, !.d.max_rows = r], c, r)

update_vga_size(t) ==
  LET d == t.d
      c == Min({1 + d.horizontal_display_enable_end, d.horizontal_blank_start})
      b == Min({1 + d.vertical_display_enable_end, d.vertical_blank_start})
      r == (IF d.double THEN b \div 2 ELSE b) \div d.height
  IN  IF d.svga_enabled \/ d.graphical_mode \/ c = 0 \/ r = 0 THEN t
      ELSE set_size_text(t, c, r)

-----------------------------------------------------------------------------
(* Registers of the CRT controller, each with the value written to it.     *)

Low(x)  == x % Base
High(x) == x \div Base

(* 1, 2, 18, 21: where the display ends and where it is blanked. *)
SizeRegister(t, reg, v) ==
  CASE reg = 1  -> IF t.d.horizontal_display_enable_end = v THEN t
                   ELSE update_vga_size([t EXCEPT !.d.horizontal_display_enable_end = v])
    [] reg = 2  -> IF t.d.horizontal_blank_start = v THEN t
                   ELSE update_vga_size([t EXCEPT !.d.horizontal_blank_start = v])
    [] reg = 18 -> IF Low(t.d.vertical_display_enable_end) = v THEN t
                   ELSE update_vga_size([t EXCEPT !.d.vertical_display_enable_end =
                                                    High(@) * Base + v])
    [] reg = 21 -> IF Low(t.d.vertical_blank_start) = v THEN t
                   ELSE update_vga_size([t EXCEPT !.d.vertical_blank_start = High(@) * Base + v])

(* The two high bits of a scan line are kept apart: bit 8 comes from       *)
(* register 7 and bit 9 from register 9.                                   *)
WithBit8(x, b) == (x \div (2 * Base)) * 2 * Base + b * Base + Low(x)
WithBit9(x, b) == b * 2 * Base + (x % (2 * Base))

Overflow(t, vend, split, blank) ==
  LET u == [t EXCEPT !.d.vertical_display_enable_end = vend * Base + Low(@)]
      v == [(IF u = t THEN t ELSE update_vga_size(u))
              EXCEPT !.d.line_compare = WithBit8(@, split)]
      w == [v EXCEPT !.d.vertical_blank_start = WithBit8(@, blank)]
  IN  update_layers(IF w = v THEN v ELSE update_vga_size(w))

MaxScanLine(t, height, double, split, blank) ==
  LET u == [t EXCEPT !.d.height = height, !.d.double = double,
                     !.d.line_compare = WithBit9(@, split),
                     !.d.vertical_blank_start = WithBit9(@, blank)]
      same == height = t.d.height /\ double = t.d.double
                /\ u.d.vertical_blank_start = t.d.vertical_blank_start
  IN  update_layers(IF same THEN u ELSE update_vga_size(u))

(* 12 and 13. *)
StartAddress(t, x) ==
  IF x = t.d.start_address THEN t ELSE update_layers([t EXCEPT !.d.start_address = x])

(* 14 and 15. *)
CursorAddress(t, x) == update_cursor([t EXCEPT !.d.cursor_address = x])

(* 19 and 23: a text that is laid out anew is not drawn anew. *)
Offset(t, v) ==
  IF t.d.offset_register = v THEN t ELSE update_vga_size([t EXCEPT !.d.offset_register = v])

CrtcMode(t, m) ==
  IF t.d.crtc_mode = m THEN t ELSE update_vga_size([t EXCEPT !.d.crtc_mode = m])

(* 24. *)
LineCompare(t, v) == update_layers([t EXCEPT !.d.line_compare = High(@) * Base + v])

(* Colours: the mask, the palette and the attribute controller's colour    *)
(* registers redraw what changes.                                          *)
Palette(t, look) == IF look = t.d.look THEN t ELSE complete_redraw([t EXCEPT !.d.look = look])

(* The attribute controller's map redraws, but not while bit 6 of the mode *)
(* register is set: the text keeps the colours in which it was drawn, and  *)
(* counts as lost.                                                         *)
DacMap(t, look) ==
  LET u == [t EXCEPT !.d.look = look]
  IN  IF ~t.d.wide THEN complete_redraw(u)
      ELSE IF look = t.d.look THEN t
      ELSE [u EXCEPT !.a.drawn = << >>]

set_font_page(t, look) ==
  complete_redraw([t EXCEPT !.d.look = look,
                            !.a.dirty = IF look = t.d.look THEN @ ELSE Rows(t)])

(* The mode register of the attribute controller: bits 0 and 6, and those  *)
(* that colour the text.                                                   *)
AttributeMode(t, graphics, wide, look) ==
  IF graphics = t.d.graphics_bit /\ wide = t.d.wide /\ look = t.d.look THEN t
  ELSE complete_redraw(update_vga_size(
         [t EXCEPT !.d.graphics_bit = graphics, !.d.wide = wide, !.d.look = look,
                   !.d.graphical_mode = IF t.d.svga_enabled THEN @ ELSE graphics]))

(* The registers of the Bochs extension switch to its modes and back. *)
Svga(t, on) ==
  CASE on /\ ~t.d.svga_enabled ->
         [t EXCEPT !.d.svga_enabled = TRUE, !.d.graphical_mode = TRUE]
    [] ~on /\ t.d.svga_enabled ->
         update_layers(complete_redraw(update_vga_size(
           [t EXCEPT !.d.svga_enabled = FALSE, !.d.graphical_mode = t.d.graphics_bit])))
    [] OTHER -> update_layers(t)

set_state(t, d) ==
  LET u == [t EXCEPT !.d = d]
  IN  IF d.graphical_mode THEN u
      ELSE complete_redraw(update_cursor(set_size_text(u, d.max_cols, d.max_rows)))

-----------------------------------------------------------------------------
(* The state that the BIOS leaves: two rows of two cells, start address 0, *)
(* the line compare register at its largest value.                         *)

Bios ==
  [mem |-> [i \in 0 .. Window - 1 |-> [char |-> 0, attr |-> 0]],
   start_address |-> 0, cursor_address |-> 0, offset_register |-> 1,
   max_cols |-> 2, max_rows |-> 2,
   horizontal_display_enable_end |-> 1, horizontal_blank_start |-> 2,
   vertical_display_enable_end |-> 1, vertical_blank_start |-> 2,
   height |-> 1, double |-> FALSE, crtc_mode |-> {1, 2}, line_compare |-> 4 * Base - 1,
   look |-> 0, graphics_bit |-> FALSE, wide |-> FALSE, svga_enabled |-> FALSE,
   graphical_mode |-> FALSE]

Adapter ==
  [cols |-> 2, rows |-> 2, cells |-> NoRows(2, 2), shown |-> NoRows(2, 2), dirty |-> {},
   at |-> Nowhere, caret |-> Nowhere, touched |-> {}, drawn |-> << >>]

DisplayInit ==
  /\ wait = "idle" /\ armed = TRUE /\ paused = FALSE /\ steps = 0
  /\ saved = Bios
  /\ s = update_cursor(text_mode_redraw([d |-> Bios, a |-> Adapter]))

(* A picture whose layout changed counts as lost until it is redrawn. *)
Settled(t) == IF t.a.drawn = Layout(t.d) THEN t ELSE [t EXCEPT !.a.drawn = << >>]

Guest(t) ==
  /\ ~paused /\ steps < MaxSteps /\ steps' = steps + 1
  /\ s' = Settled(t)
  /\ UNCHANGED <<saved, armed, paused, wait>>

(* A byte is written: a graphics mode draws nothing of the text, and the   *)
(* extension has a memory of its own.                                      *)
vga_memory_write ==
  \E i \in 0 .. Window - 1, c \in Characters, x \in Attrs :
    /\ c = s.d.mem[i].char \/ x = s.d.mem[i].attr
    /\ Guest(IF s.d.svga_enabled THEN s
             ELSE IF s.d.graphical_mode THEN [s EXCEPT !.d.mem[i] = [char |-> c, attr |-> x]]
             ELSE vga_memory_write_text_mode(s, i, [char |-> c, attr |-> x]))

port3D5_size     == \E reg \in {1, 2, 18, 21}, v \in 1 .. 2 :
                      /\ (reg \in {18, 21} => v < Base)
                      /\ Guest(SizeRegister(s, reg, v))
port3D5_overflow == \E vend \in 0 .. 1, split, blank \in 0 .. 1 :
                      Guest(Overflow(s, vend, split, blank))
port3D5_scan     == \E height \in 1 .. 2, double \in BOOLEAN, split, blank \in 0 .. 1 :
                      Guest(MaxScanLine(s, height, double, split, blank))
port3D5_start    == \E b \in 0 .. Base - 1 :
                      \/ Guest(StartAddress(s, b * Base + Low(s.d.start_address)))
                      \/ Guest(StartAddress(s, High(s.d.start_address) * Base + b))
port3D5_cursor   == \E b \in 0 .. Base - 1 :
                      \/ Guest(CursorAddress(s, b * Base + Low(s.d.cursor_address)))
                      \/ Guest(CursorAddress(s, High(s.d.cursor_address) * Base + b))
port3D5_offset   == \E v \in Offsets : Guest(Offset(s, v))
port3D5_mode     == \E m \in SUBSET {1, 2} : Guest(CrtcMode(s, m))
port3D5_split    == \E v \in 0 .. Base - 1 : Guest(LineCompare(s, v))
port3C9_write    == \E look \in Looks : Guest(Palette(s, look))
port3C5_write    == \E look \in Looks \ {s.d.look} :
                      Guest(IF s.d.graphical_mode THEN s ELSE set_font_page(s, look))
port3C0_map      == \E look \in Looks : Guest(DacMap(s, look))
port3C0_mode     == \E graphics, wide \in BOOLEAN, look \in Looks :
                      Guest(AttributeMode(s, graphics, wide, look))
port1CF_write    == \E on \in BOOLEAN : Guest(Svga(s, on))

-----------------------------------------------------------------------------
(* The page. *)

FrameStopsWhenPaused ==
  /\ armed
  /\ s' = IF paused \/ s.d.graphical_mode THEN s
          ELSE [text_update_rows(s, s.a.dirty) EXCEPT !.a.dirty = {}]
  /\ armed' = ~paused
  /\ UNCHANGED <<saved, paused, wait, steps>>

(* The animation frame.  It asks for the next one even while it is paused. *)
update_screen ==
  /\ armed
  /\ s' = IF paused \/ s.d.graphical_mode THEN s
          ELSE [text_update_rows(s, s.a.dirty) EXCEPT !.a.dirty = {}]
  /\ armed' = TRUE
  /\ UNCHANGED <<saved, paused, wait, steps>>

pause ==
  /\ ~paused /\ paused' = TRUE
  /\ UNCHANGED <<s, saved, armed, wait, steps>>

continue ==
  /\ paused /\ paused' = FALSE
  /\ UNCHANGED <<s, saved, armed, wait, steps>>

save_state ==
  /\ steps < MaxSteps /\ steps' = steps + 1
  /\ saved' = s.d
  /\ UNCHANGED <<s, armed, paused, wait>>

restore_state ==
  /\ steps < MaxSteps /\ steps' = steps + 1
  /\ s' = Settled(set_state(s, saved))
  /\ UNCHANGED <<saved, armed, paused, wait>>

Matches(row) == row[0].char = Target

(* The page waits for a row that begins with Target.  It looks at every    *)
(* row once, and every 100 ms at the rows that were written since, until   *)
(* it finds one or its time is over.                                       *)
wait_until_vga_screen_contains ==
  /\ wait = "idle"
  /\ wait' = IF \E r \in Rows(s) : Matches(s.a.cells[r]) THEN "idle" ELSE "waiting"
  /\ UNCHANGED <<s, saved, armed, paused, steps>>

wait_look ==
  /\ wait = "waiting"
  /\ wait' \in IF \E r \in s.a.touched \cap Rows(s) : Matches(s.a.cells[r]) THEN {"idle"}
               ELSE {"waiting", "idle"}
  /\ s' = [s EXCEPT !.a.touched = {}]
  /\ UNCHANGED <<saved, armed, paused, steps>>

DisplayNext ==
  \/ vga_memory_write
  \/ port3D5_size \/ port3D5_overflow \/ port3D5_scan \/ port3D5_start \/ port3D5_cursor
  \/ port3D5_offset \/ port3D5_mode \/ port3D5_split
  \/ port3C9_write \/ port3C5_write \/ port3C0_map \/ port3C0_mode \/ port1CF_write
  \/ update_screen \/ pause \/ continue \/ save_state \/ restore_state
  \/ wait_until_vga_screen_contains \/ wait_look

DisplaySpec == DisplayInit /\ [][DisplayNext]_displayVars

(* The browser serves a frame that was requested. *)
DisplayFairSpec == DisplaySpec /\ WF_displayVars(update_screen)

-----------------------------------------------------------------------------
(* Every write of the guest to text memory is drawn on its own, and a      *)
(* redraw draws everything.  While the layout is the one of the last       *)
(* redraw and the screen is not split, the adapter's cells are at any time *)
(* the ones a redraw would draw, characters and colours.  The start        *)
(* address, the palette, the font and the mode see to a redraw themselves. *)
(* The attribute controller's map does so only while bit 6 of its mode     *)
(* register is clear: when it changes under that bit the picture has the   *)
(* old colours, and nothing is claimed until the next redraw.              *)
CellsMirrorMemory ==
  ~s.d.graphical_mode /\ s.a.drawn = Layout(s.d) /\ SplitRow(s.d) >= s.d.max_rows =>
    /\ s.a.rows = s.d.max_rows /\ s.a.cols = s.d.max_cols
    /\ \A i \in Rows(s), j \in 0 .. s.a.cols - 1 :
         s.a.cells[i][j] = CellAt(s.d, s.d.start_address + i * Width(s.d) + j)

(* A row that is not marked dirty looks like its cells, and has the caret  *)
(* exactly if the cursor is in it, whatever was resized, scrolled or moved *)
(* since the last frame.                                                   *)
CleanRowsAreTrue ==
  \A i \in Rows(s) \ s.a.dirty :
    /\ s.a.shown[i] = s.a.cells[i]
    /\ (s.a.caret.row = i) = (s.a.at.row = i /\ s.a.at.col < s.a.cols)
    /\ s.a.caret.row = i => s.a.caret = s.a.at

(* A page that waits for a text has not overlooked a row that shows it:    *)
(* the row is among those that it will look at.                            *)
WaiterOverlooksNothing ==
  wait = "waiting" =>
    \A r \in Rows(s) : Matches(s.a.cells[r]) => r \in s.a.touched

(* A dirty row is rendered, or the emulator is stopped or in a graphics    *)
(* mode: pausing and continuing never loses the frames.                    *)
DirtyRowsAreRendered ==
  \A i \in 0 .. Bios.max_rows - 1 :
    (i \in s.a.dirty) ~> (i \notin s.a.dirty \/ paused \/ s.d.graphical_mode)
=============================================================================
