-------------------------------- MODULE Ps2 --------------------------------
(***************************************************************************)
(* The emulated PC's keyboard and mouse controller.  Everything here is an *)
(* operator on the controller's record.                                    *)
(*                                                                         *)
(* Bytes are the numbers they are in the code, but for the keyboard's      *)
(* answers to commands (Answer).  Of the mouse's packets only the number   *)
(* of bytes is kept, of its settings only those that change that number,   *)
(* and of the command register the two interrupt bits.  enabled is kept by *)
(* the page's mouse adapter: what it was told last, over the bus, of       *)
(* whether the guest has a use for the mouse.                              *)
(* expect is the set of flags that say what the next byte written means.   *)
(***************************************************************************)
EXTENDS Integers, Sequences, SequencesExt, FiniteSets

CONSTANT Size   \* places in a queue: 1024

ASSUME Ps2Assumption == Size \in Nat /\ Size > 2

-----------------------------------------------------------------------------
(* Queues.  cells begins at the place to read next, at is the place to     *)
(* write next.  A push on a full queue overwrites the place where it       *)
(* writes and does not move the place where it reads.                      *)

Empty == [cells |-> [i \in 1 .. Size |-> 0], at |-> 0, length |-> 0]

(* Cells that are written again before they can be read count as 0. *)
Clean(q) ==
  IF q.at # q.length % Size THEN q
  ELSE [q EXCEPT !.cells = [i \in 1 .. Size |-> IF i <= q.length THEN @[i] ELSE 0]]

push(q, b) ==
  [cells  |-> [q.cells EXCEPT ![q.at + 1] = b],
   at     |-> (q.at + 1) % Size,
   length |-> IF q.length = Size THEN Size ELSE q.length + 1]

Pushes(q, bytes) == FoldLeft(push, q, bytes)

shift(q) ==
  IF q.length = 0 THEN q
  ELSE Clean([cells |-> Append(Tail(q.cells), Head(q.cells)),
              at |-> (q.at - 1) % Size, length |-> q.length - 1])

Contents(q) == SubSeq(q.cells, 1, q.length)

(* A byte with which the keyboard or the controller answers a command is   *)
(* told apart from the same byte of a scan code.                           *)
Answer(b) == 256 + b

-----------------------------------------------------------------------------
(* Interrupt lines; pending is the interrupt controller's, which sees only *)
(* a line that goes up.                                                    *)

device_lower_irq(p, i) == [p EXCEPT !.line = @ \ {i}, !.pending = @ \ {i}]

device_raise_irq(p, i) ==
  IF i \in p.line THEN p ELSE [p EXCEPT !.line = @ \cup {i}, !.pending = @ \cup {i}]

HoldUp(p, i, bit) ==
  IF bit \in p.command_register THEN device_raise_irq(p, i) ELSE p

(* The line goes down and up again: a new interrupt even if it was up. *)
Pulse(p, i, bit) ==
  IF bit \in p.command_register THEN device_raise_irq(device_lower_irq(p, i), i) ELSE p

mouse_irq(p) == Pulse([p EXCEPT !.aux = TRUE, !.ready = TRUE], 12, 2)

kbd_irq(p) == Pulse([p EXCEPT !.aux = FALSE, !.ready = TRUE], 1, 1)

raise_irq(p) ==
  CASE p.ready -> p
    [] ~p.ready /\ p.kbd.length > 0 -> kbd_irq(p)
    [] ~p.ready /\ p.kbd.length = 0 /\ p.mouse.length > 0 -> mouse_irq(p)
    [] OTHER -> p

-----------------------------------------------------------------------------
(* Keyboard and mouse *)

(* A reset changes neither the lines nor what the mouse adapter was told. *)
reset(p) ==
  [p EXCEPT !.kbd = Empty, !.mouse = Empty, !.ready = FALSE, !.aux = FALSE,
            !.stream = FALSE, !.use_mouse = FALSE, !.mouse_stream = FALSE, !.mouse_id = 0,
            !.detect = 0, !.workaround = FALSE, !.expect = {}, !.command_register = {1}]

NewPs2 ==
  reset([kbd |-> Empty, mouse |-> Empty, ready |-> FALSE, aux |-> FALSE, stream |-> FALSE,
         use_mouse |-> FALSE, mouse_stream |-> FALSE, mouse_id |-> 0, detect |-> 0,
         workaround |-> FALSE, expect |-> {}, command_register |-> {1},
         line |-> {}, pending |-> {}, enabled |-> FALSE])

(* get_state and set_state: the bytes in the queues are not kept. *)
Restored(p) ==
  [p EXCEPT !.kbd = Empty, !.mouse = Empty, !.ready = FALSE, !.aux = FALSE,
            !.enabled = p.use_mouse]

kbd_send_code(p, b) == IF p.stream THEN raise_irq([p EXCEPT !.kbd = push(@, b)]) ELSE p

(* Three bytes, or four from a mouse with a wheel. *)
send_mouse_packet(p) ==
  raise_irq([p EXCEPT !.mouse = Pushes(@, IF p.mouse_id \in {3, 4}
                                          THEN <<8, 1, 1, 0>> ELSE <<8, 1, 1>>)])

(* Movements and buttons; the wheel's packet is sent without this guard. *)
mouse_send(p) == IF p.use_mouse /\ p.mouse_stream THEN send_mouse_packet(p) ELSE p

-----------------------------------------------------------------------------
(* Ports *)

ReadAndForget(p) ==
  IF p.kbd.length = 0 /\ p.mouse.length = 0 THEN [p EXCEPT !.ready = FALSE]
  ELSE IF p.aux THEN device_lower_irq([p EXCEPT !.ready = FALSE, !.mouse = shift(@)], 12)
  ELSE device_lower_irq([p EXCEPT !.ready = FALSE, !.kbd = shift(@)], 1)

(* The byte that was announced leaves its queue; what is left in either    *)
(* queue is announced, the keyboard's first.                               *)
port60_read(p) ==
  LET q == IF p.aux THEN device_lower_irq([p EXCEPT !.ready = FALSE, !.mouse = shift(@)], 12)
           ELSE device_lower_irq([p EXCEPT !.ready = FALSE, !.kbd = shift(@)], 1)
  IN  IF p.kbd.length = 0 /\ p.mouse.length = 0 THEN [p EXCEPT !.ready = FALSE]
      ELSE raise_irq(q)

(* The status: a byte is announced, and it is the mouse's. *)
port64_read(p) == (IF p.ready THEN {"ready"} ELSE {}) \cup (IF p.aux THEN {"aux"} ELSE {})

(* The byte that port60_read returns; -1 stands for an empty queue's. *)
ByteAt60(p) ==
  LET q == IF p.aux THEN p.mouse ELSE p.kbd
  IN  IF q.length = 0 THEN -1 ELSE Head(q.cells)

(* Sample rates 200, 100, 80 make a wheel mouse, 200, 200, 80 one with     *)
(* five buttons; 60 after one of them turns on a workaround.               *)
Detect(p, a) ==
  CASE p.detect = -1 -> [p EXCEPT !.workaround = a = 60, !.detect = IF a = 200 THEN 1 ELSE 0]
    [] p.detect = 0  -> [p EXCEPT !.detect = IF a = 200 THEN 1 ELSE 0]
    [] p.detect = 1  -> [p EXCEPT !.detect = IF a = 100 THEN 2 ELSE IF a = 200 THEN 3 ELSE 0]
    [] p.detect = 2  -> [p EXCEPT !.mouse_id = IF a = 80 THEN 3 ELSE @, !.detect = -1]
    [] p.detect = 3  -> [p EXCEPT !.mouse_id = IF a = 80 THEN 4 ELSE @, !.detect = -1]

(* A command for the mouse. *)
MouseCommand(p, a) ==
  LET q == [p EXCEPT !.kbd = Empty, !.mouse = Pushes(Empty, <<250>>)]
  IN  mouse_irq(
        CASE a = 232 -> [q EXCEPT !.expect = @ \cup {"resolution"}]
          [] a \in {233, 235} -> send_mouse_packet(q)
          [] a = 242 -> raise_irq([q EXCEPT !.mouse = push(@, q.mouse_id)])
          [] a = 243 -> [q EXCEPT !.expect = @ \cup {"sample"}]
          [] a = 244 -> [q EXCEPT !.use_mouse = TRUE, !.mouse_stream = TRUE, !.enabled = TRUE]
          [] a \in {245, 246} -> [q EXCEPT !.mouse_stream = FALSE]
          [] a = 255 -> [q EXCEPT !.mouse = Pushes(@, <<170, 0>>), !.use_mouse = TRUE,
                                  !.enabled = TRUE, !.mouse_stream = FALSE,
                                  !.mouse_id = IF p.workaround THEN @ ELSE 0]
          [] OTHER -> q)

(* A command for the keyboard. *)
KeyboardCommand(p, a) ==
  LET q == [p EXCEPT !.mouse = Empty, !.kbd = Pushes(Empty, <<Answer(250)>>)]
  IN  kbd_irq(
        CASE a = 237 -> [q EXCEPT !.expect = @ \cup {"led"}]
          [] a = 240 -> [q EXCEPT !.expect = @ \cup {"scan_code_set"}]
          [] a = 242 -> [q EXCEPT !.kbd = Pushes(@, <<Answer(171), Answer(131)>>)]
          [] a = 243 -> [q EXCEPT !.expect = @ \cup {"rate"}]
          [] a = 244 -> [q EXCEPT !.stream = TRUE]
          [] a = 245 -> [q EXCEPT !.stream = FALSE]
          [] a = 255 -> [q EXCEPT !.kbd = Pushes(@, <<Answer(170), Answer(0)>>)]
          [] OTHER -> q)

(* The flags in the order in which port60_write looks at them. *)
FlagOrder == <<"command_register", "output_register", "sample", "resolution", "led",
               "scan_code_set", "rate", "mouse", "output_port">>

FirstFlag(E) ==
  IF E = {} THEN "none"
  ELSE FlagOrder[CHOOSE i \in DOMAIN FlagOrder :
                   FlagOrder[i] \in E /\ \A j \in 1 .. i - 1 : FlagOrder[j] \notin E]

port60_write(p0, a) ==
  LET flag == FirstFlag(p0.expect)
      p    == [p0 EXCEPT !.expect = @ \ {flag}]
      kbd  == [p EXCEPT !.kbd = push(@, Answer(250))]
  IN  CASE flag = "command_register" ->
             [p EXCEPT !.command_register = (IF a % 2 = 1 THEN {1} ELSE {})
                                            \cup (IF (a \div 2) % 2 = 1 THEN {2} ELSE {})]
        [] flag = "output_register" -> mouse_irq([p EXCEPT !.mouse = Pushes(Empty, <<a>>)])
        [] flag = "sample" -> mouse_irq(Detect([p EXCEPT !.mouse = Pushes(Empty, <<250>>)], a))
        [] flag = "resolution" -> mouse_irq([p EXCEPT !.mouse = Pushes(Empty, <<250>>)])
        [] flag \in {"led", "rate"} -> kbd_irq(kbd)
        [] flag = "scan_code_set" ->
             LET q == kbd_irq(kbd) IN IF a = 0 THEN [q EXCEPT !.kbd = push(@, Answer(1))] ELSE q
        [] flag = "mouse" -> MouseCommand(p, a)
        [] flag = "output_port" -> p
        [] flag = "none" -> KeyboardCommand(p, a)

(* An answer of the controller replaces whatever is in the queues. *)
Tell(p, b) == kbd_irq([p EXCEPT !.kbd = Pushes(Empty, <<Answer(b)>>), !.mouse = Empty])

port64_write(p, a) ==
  CASE a = 32  -> Tell(p, (IF 1 \in p.command_register THEN 1 ELSE 0)
                          + (IF 2 \in p.command_register THEN 2 ELSE 0))
    [] a \in {169, 171} -> Tell(p, 0)
    [] a = 170 -> Tell(p, 85)
    [] a = 96  -> [p EXCEPT !.expect = @ \cup {"command_register"}]
    [] a = 209 -> [p EXCEPT !.expect = @ \cup {"output_port"}]
    [] a = 211 -> [p EXCEPT !.expect = @ \cup {"output_register"}]
    [] a = 212 -> [p EXCEPT !.expect = @ \cup {"mouse"}]
    [] a = 254 -> reset(p)
    [] OTHER   -> p
=============================================================================
