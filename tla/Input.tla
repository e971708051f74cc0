------------------------------- MODULE Input -------------------------------
(***************************************************************************)
(* The way of a key from the page to the guest: the page's keyboard        *)
(* adapter, which turns events into scan codes and remembers which keys    *)
(* it has pressed, the controller, and a guest that is first a BIOS, which *)
(* commands the controller and polls it, and then the kernel, which reads  *)
(* one byte for every keyboard interrupt and writes nothing.               *)
(*                                                                         *)
(* A key is its scan code; a code above 255 is sent as two bytes.  An      *)
(* event says whether Alt and AltGr are held; on Windows AltGr comes with  *)
(* a false ControlLeft before it, so that ControlLeft is held back for a   *)
(* moment.  seen, astray and deaf only observe.                            *)
(***************************************************************************)
EXTENDS Ps2

CONSTANTS
  Keys,          \* the codes of the keys that are used
  Chars,         \* codes of keys that are used by simulate_char with Shift,
                 \* and by keyboard_send_scancodes
  Values,        \* bytes that the BIOS writes to port 60
  Orders,        \* bytes that the BIOS writes to port 64
  MaxSteps       \* bound: events of the page and bytes that the BIOS writes

(* Where the codes of the page's table lie.  Above 95, a byte of a code     *)
(* could be taken for the first of two.                                    *)
OneByte  == 1 .. 95
TwoBytes == 224 * 256 + 1 .. 224 * 256 + 95

ASSUME InputAssumption ==
  /\ Keys \subseteq OneByte \cup TwoBytes /\ Chars \subseteq Keys
  /\ Values \subseteq 0 .. 255 /\ Orders \subseteq 0 .. 255
  /\ MaxSteps \in Nat

VARIABLES
  ps2,
  pressed,       \* n: the keys that the adapter has pressed
  held,          \* p and q: the ControlLeft event that is held back
  windows,       \* Yb
  emu_enabled,
  phase,         \* of the guest: bios or kernel
  steps,
  seen,          \* keys that are down as far as the guest has read, and whether
                 \* the last byte was the first of two
  astray,        \* codes were lost, or the map was bypassed
  deaf           \* when the kernel started, a byte was already announced

adapterVars == <<pressed, held, windows, emu_enabled>>
vars == <<ps2, adapterVars, phase, steps, seen, astray, deaf>>

Shift == 42
AltLeft == 56
AltRight == 57400
ControlLeft == 29
NothingSeen == [down |-> {}, ext |-> FALSE]
Nothing == [down |-> FALSE, repeat |-> FALSE, set |-> FALSE]

-----------------------------------------------------------------------------
(* The adapter.  a has the map and the bytes that are sent.                *)

Bytes(k, down) ==
  LET last == (k % 256) + (IF down THEN 0 ELSE 128)
  IN  IF k > 255 THEN <<k \div 256, last>> ELSE <<last>>

Release(a, k) == [a EXCEPT !.pressed = @ \ {k}, !.out = @ \o Bytes(k, FALSE)]

ReleaseUnseen(a, k, down, repeat) ==
  IF down THEN [a EXCEPT !.pressed = @ \cup {k}, !.out = @ \o Bytes(k, TRUE)]
  ELSE [a EXCEPT !.pressed = @ \ {k}]

(* l: a key that is pressed again without a repeat is released first; the  *)
(* release of a key that is not pressed is dropped.                        *)
Send(a, k, down, repeat) ==
  LET b == IF k \in a.pressed /\ ~repeat THEN Release(a, k) ELSE a
  IN  CASE down -> [b EXCEPT !.pressed = @ \cup {k}, !.out = @ \o Bytes(k, TRUE)]
        [] ~down /\ k \in a.pressed -> Release(a, k)
        [] OTHER -> a

(* The handlers of keydown and keyup begin with a release of Alt that the  *)
(* page did not see.                                                       *)
AltGone(a, altKey) ==
  IF ~altKey /\ AltLeft \in a.pressed THEN Send(a, AltLeft, FALSE, FALSE) ELSE a

(* g: an event, and before it the ControlLeft that was held back, unless   *)
(* it was the false one that comes with AltGr.  Only an event of the       *)
(* browser has a code: one that is simulated is never held back.           *)
Event(a, k, down, repeat, altGraph, code) ==
  LET false == altGraph /\ a.held.down = down /\ k = AltRight
      b     == IF a.held.set /\ ~false
               THEN Send(a, ControlLeft, a.held.down, a.held.repeat) ELSE a
      c     == [b EXCEPT !.held = Nothing]
  IN  CASE ~emu_enabled -> a
        [] emu_enabled /\ windows /\ code /\ k = ControlLeft ->
             [c EXCEPT !.held = [down |-> down, repeat |-> repeat, set |-> TRUE]]
        [] OTHER -> Send(IF windows THEN c ELSE a, k, down, repeat)

(* e: when the window loses the focus, every key is released. *)
ReleaseAll(a) ==
  MapThenFoldSet(LAMBDA k, b : Release(b, k), a, LAMBDA k : k, LAMBDA S : Max(S), a.pressed)

simulate_press(a, k) ==
  Event(Event(a, k, TRUE, FALSE, FALSE, FALSE), k, FALSE, FALSE, FALSE, FALSE)

simulate_char(a, k) ==
  LET b == simulate_press([a EXCEPT !.out = Append(@, Shift)], k)
  IN  [b EXCEPT !.out = Append(@, Shift + 128)]

-----------------------------------------------------------------------------
(* What the guest makes of the bytes that it reads: it knows when it has    *)
(* asked for an answer.                                                    *)

Take(s, b) ==
  LET code == (IF s.ext THEN 224 * 256 ELSE 0) + (b % 128)
  IN  CASE b >= 256 -> s
        [] b = 224 -> [s EXCEPT !.ext = TRUE]
        [] b < 256 /\ b # 224 /\ code \notin Keys -> [s EXCEPT !.ext = FALSE]
        [] OTHER -> [down |-> IF b < 128 THEN s.down \cup {code} ELSE s.down \ {code},
                     ext  |-> FALSE]

(* Bytes reach the controller one by one, as the adapter sends them. *)
Deliver(a) ==
  /\ ps2' = FoldLeft(kbd_send_code, ps2, a.out)
  /\ pressed' = a.pressed
  /\ held' = a.held
  /\ astray' = (astray \/ (a.out # << >> /\ ~ps2.stream)
                       \/ (ps2.kbd.length + Len(a.out) > Size))

Adapter == [pressed |-> pressed, held |-> held, out |-> << >>]

PageEvent ==
  /\ steps < MaxSteps /\ steps' = steps + 1
  /\ UNCHANGED <<windows, seen, deaf>>

key_event ==
  /\ PageEvent /\ UNCHANGED <<emu_enabled, phase>>
  /\ \E k \in Keys, down, repeat, altKey, altGraph \in BOOLEAN :
       Deliver(Event(AltGone(Adapter, altKey), k, down, repeat /\ down, altGraph, TRUE))

blur ==
  /\ PageEvent /\ UNCHANGED <<emu_enabled, phase>>
  /\ Deliver(ReleaseAll(Adapter))

(* The 10 ms for which ControlLeft is held back are over. *)
control_timeout ==
  /\ held.set
  /\ Deliver([Send(Adapter, ControlLeft, held.down, held.repeat) EXCEPT !.held = Nothing])
  /\ UNCHANGED <<windows, emu_enabled, phase, steps, seen, deaf>>

keyboard_send_keys ==
  /\ PageEvent /\ UNCHANGED <<emu_enabled, phase>>
  /\ \E k \in Keys : Deliver(simulate_press(Adapter, k))

(* A character with Shift goes around the map: a Shift that is held comes  *)
(* up for the guest.                                                       *)
keyboard_send_text ==
  /\ PageEvent /\ UNCHANGED <<emu_enabled, phase>>
  /\ \E k \in Chars :
       LET a == simulate_char(Adapter, k)
       IN  /\ ps2' = FoldLeft(kbd_send_code, ps2, a.out)
           /\ pressed' = a.pressed /\ held' = a.held
           /\ astray' = (astray \/ ~ps2.stream \/ Shift \in pressed
                                \/ ps2.kbd.length + Len(a.out) > Size)

(* Codes of the page's choice go to the controller around the adapter. *)
keyboard_send_scancodes ==
  /\ PageEvent /\ UNCHANGED <<emu_enabled, phase, pressed, held>>
  /\ \E k \in Chars, down \in BOOLEAN : \E b \in Range(Bytes(k, down)) :
       ps2' = kbd_send_code(ps2, b)
  /\ astray' = TRUE

keyboard_set_enabled ==
  /\ PageEvent
  /\ emu_enabled' = ~emu_enabled
  /\ UNCHANGED <<ps2, pressed, held, astray, phase>>

mouse_event ==
  /\ PageEvent /\ UNCHANGED <<emu_enabled, pressed, held, astray, phase>>
  /\ ps2' = mouse_send(ps2)

(* The wheel asks only whether the mouse adapter is enabled: a packet is   *)
(* sent even if the guest has turned the mouse's stream off.               *)
mouse_wheel ==
  /\ PageEvent /\ UNCHANGED <<emu_enabled, pressed, held, astray, phase>>
  /\ ps2.enabled /\ ps2' = send_mouse_packet(ps2)

Lost == pressed # {} \/ held.set \/ seen # NothingSeen

(* restart: the CPU is reset, the controller is not. *)
restart ==
  /\ PageEvent /\ UNCHANGED <<emu_enabled, pressed, held, astray, ps2>>
  /\ phase = "kernel" /\ phase' = "bios"

restore_state ==
  /\ PageEvent /\ UNCHANGED <<emu_enabled, pressed, held, phase>>
  /\ ps2' = Restored(ps2)
  /\ astray' = (astray \/ Lost)

-----------------------------------------------------------------------------
(* The guest *)

Bios ==
  /\ phase = "bios"
  /\ steps < MaxSteps /\ steps' = steps + 1
  /\ astray' = (astray \/ Lost \/ ps2'.kbd.at # ps2'.kbd.length % Size)
  /\ UNCHANGED <<adapterVars, phase, seen, deaf>>

bios_port60_write == (\E a \in Values : ps2' = port60_write(ps2, a)) /\ Bios

bios_port64_write == (\E a \in Orders : ps2' = port64_write(ps2, a)) /\ Bios

(* port60_read, of a byte from the keyboard or, as the status says, from   *)
(* the mouse.                                                              *)
ReadByte ==
  /\ seen' = CASE astray -> NothingSeen
               [] ~astray /\ ("aux" \in port64_read(ps2) \/ ps2.kbd.length = 0) -> seen
               [] OTHER -> Take(seen, ByteAt60(ps2))
  /\ UNCHANGED <<adapterVars, steps, astray, deaf, phase>>

bios_read ==
  /\ phase = "bios" /\ "ready" \in port64_read(ps2)
  /\ ps2' = port60_read(ps2)
  /\ ReadByte

(* The kernel sets up the interrupt controller anew, which forgets what is *)
(* pending.  It takes every byte for a scan code.                          *)
boot ==
  /\ phase = "bios"
  /\ phase' = "kernel"
  /\ ps2' = [ps2 EXCEPT !.pending = {}]
  /\ deaf' = ps2.ready
  /\ astray' = (astray \/ \E i \in 1 .. ps2.kbd.length : ps2.kbd.cells[i] >= 256)
  /\ UNCHANGED <<adapterVars, steps, seen>>

keyboard_handler ==
  /\ phase = "kernel" /\ 1 \in ps2.pending
  /\ ps2' = port60_read([ps2 EXCEPT !.pending = @ \ {1}])
  /\ ReadByte

(* The controller after power on, and as commands of a BIOS have left it.  *)
Started ==
  {NewPs2,
   [NewPs2 EXCEPT !.stream = TRUE, !.use_mouse = TRUE, !.mouse_stream = TRUE,
                  !.mouse_id = 3, !.detect = -1, !.command_register = {1, 2}, !.enabled = TRUE]}

Init ==
  /\ ps2 \in Started
  /\ pressed = {} /\ held = Nothing /\ windows \in BOOLEAN /\ emu_enabled = TRUE
  /\ phase = "bios" /\ steps = 0
  /\ seen = NothingSeen /\ astray = FALSE /\ deaf = FALSE

Next ==
  \/ key_event \/ blur \/ control_timeout \/ keyboard_send_keys \/ keyboard_send_text
  \/ keyboard_send_scancodes
  \/ keyboard_set_enabled \/ mouse_event \/ mouse_wheel \/ restart \/ restore_state
  \/ bios_port60_write \/ bios_port64_write \/ bios_read \/ boot \/ keyboard_handler

Spec == Init /\ [][Next]_vars

(* The kernel takes its interrupts. *)
FairSpec == Spec /\ WF_vars(keyboard_handler)

-----------------------------------------------------------------------------
(* Properties *)

TypeOK ==
  /\ pressed \subseteq Keys /\ seen.down \subseteq Keys
  /\ ps2.pending \subseteq ps2.line /\ ps2.line \subseteq {1, 12}
  /\ ps2.kbd.length \in 0 .. Size /\ ps2.mouse.length \in 0 .. Size

(* A byte is announced exactly while there is one, and the queue that it   *)
(* is announced for is not empty (raise_irq, port60_read and every command *)
(* that clears or fills the queues): a poll of the status never misses a   *)
(* byte and never finds one that is not there, whatever mixture of keys,   *)
(* mouse packets and commands with their arguments came.                   *)
ByteReady ==
  /\ TypeOK
  /\ ps2.ready = (ps2.kbd.length > 0 \/ ps2.mouse.length > 0)
  /\ ps2.ready => (IF ps2.aux THEN ps2.mouse ELSE ps2.kbd).length > 0

(* No key gets stuck (l, e, g and the queue): the keys that are down for   *)
(* the guest once it has read what is queued are those that the adapter    *)
(* has pressed, for repeated, unmatched and held back events, two-byte     *)
(* codes and lost focus; unless codes were lost or the map was bypassed.   *)
KeysArrive ==
  ~astray => FoldLeft(Take, seen, Contents(ps2.kbd)).down = pressed

Listening ==
  /\ phase = "kernel" /\ ~deaf
  /\ 1 \in ps2.command_register /\ ~ps2.aux

(* Keys whose first byte is announced as the keyboard's to a kernel that   *)
(* found the controller quiet are all read (kbd_irq, raise_irq,            *)
(* port60_read): the interrupt line is pulsed anew for each byte that is   *)
(* left, and no packet of the mouse comes in between, so one read per      *)
(* interrupt empties the queue.  A byte of the mouse that is announced     *)
(* first, a movement's under the stream or a wheel's without it, is never  *)
(* read by this kernel, which has no handler for the mouse: the keys       *)
(* behind it stay in the queue.                                            *)
KeysServed == (Listening /\ ps2.kbd.length > 0) ~> (ps2.kbd.length = 0 \/ phase = "bios")
=============================================================================
