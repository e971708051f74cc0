------------------------------- MODULE Clock -------------------------------
(***************************************************************************)
(* The emulated PC of the demo: the loop that runs the emulated CPU, the   *)
(* calls of the page that start and stop it, and channel 0 of the          *)
(* interval timer, from which the kernel gets its ticks.                   *)
(*                                                                         *)
(* The loop sends itself ticks through a worker: the page's messages to    *)
(* the worker and the worker's messages to the page arrive in order, and   *)
(* the worker holds at most one timeout.  Every tick carries the value of  *)
(* tick_counter, which is only ever compared with the newest one: a tick   *)
(* is kept here as whether it is the newest.                               *)
(*                                                                         *)
(* The page's clock is finer than the timer's: time passes in parts, Grain *)
(* of which make a clock of the timer, and the timer counts whole clocks.  *)
(* elapsed is the time since counter_start_time, in parts.  age, served    *)
(* and fresh only observe.                                                 *)
(***************************************************************************)
EXTENDS Integers, Sequences, FiniteSets

CONSTANTS
  Base,          \* values of a byte: 256
  Millisecond,   \* clocks in a millisecond: 1193
  MaxSleep,      \* the longest delay in clocks, 100 ms
  Grain,         \* parts of a clock that the page's time tells apart
  MaxLate,       \* bound: clocks for which a tick may be on its way
  MaxOps,        \* bound: port accesses of the guest
  MaxServed,     \* rollovers over which the phase of a counter is followed
  MaxWakes       \* calls and interrupts that ask for a new tick before one arrives

ASSUME ClockAssumption ==
  /\ Base \in Nat /\ Base > 1
  /\ Millisecond \in Nat /\ MaxSleep \in Nat /\ Millisecond <= MaxSleep
  /\ Grain \in Nat /\ Grain > 0 /\ MaxServed \in Nat
  /\ MaxLate \in Nat /\ MaxOps \in Nat /\ MaxWakes \in Nat

VARIABLES
  running, stopping,      \* the loop
  idle,                   \* it is not inside main_loop
  cpu_is_running,         \* the page's view of it
  waiting,                \* calls of stop that await "emulator-stopped"
  toWorker, timeout, toPage,
  pit,                    \* channel 0 of the timer
  irq0,                   \* its interrupt line
  elapsed,
  ops,                    \* port accesses so far
  wakes,                  \* requests for a new tick since the last one that counted
  age,                    \* parts since the counter was loaded, modulo its period
  served,                 \* rollovers that the loop has seen since then
  fresh                   \* reload is the value loaded, served at most MaxServed

loopVars  == <<running, stopping, idle, cpu_is_running, waiting>>
tickVars  == <<toWorker, timeout, toPage, wakes>>
timerVars == <<pit, irq0, elapsed, ops, age, served, fresh>>
clockVars == <<loopVars, tickVars, timerVars>>

NoTimeout == [t |-> 0, newest |-> FALSE, set |-> FALSE]

-----------------------------------------------------------------------------
(* Ticks *)

Stale(q) == [i \in DOMAIN q |-> [q[i] EXCEPT !.newest = FALSE]]

NextTickReused(t) ==
  /\ toWorker' = Append(toWorker, [t |-> t, newest |-> TRUE])
  /\ idle' = TRUE
  /\ UNCHANGED <<timeout, toPage>>

(* ++tick_counter makes every earlier tick an old one. *)
next_tick(t) ==
  /\ toWorker' = Append(Stale(toWorker), [t |-> t, newest |-> TRUE])
  /\ timeout' = [timeout EXCEPT !.newest = FALSE]
  /\ toPage' = Stale(toPage)
  /\ idle' = TRUE

(* The worker's onmessage: a new tick replaces the timeout that is set. A  *)
(* tick carries its delay in clocks, and the timeout runs in parts.        *)
worker_message ==
  /\ toWorker # << >>
  /\ LET m == Head(toWorker)
     IN  IF m.t < Millisecond
         THEN timeout' = NoTimeout /\ toPage' = Append(toPage, [newest |-> m.newest])
         ELSE timeout' = [t |-> m.t * Grain, newest |-> m.newest, set |-> TRUE] /\ UNCHANGED toPage
  /\ toWorker' = Tail(toWorker)
  /\ UNCHANGED <<wakes, loopVars, timerVars>>

worker_timeout ==
  /\ timeout.set /\ timeout.t = 0
  /\ toPage' = Append(toPage, [newest |-> timeout.newest])
  /\ timeout' = NoTimeout
  /\ UNCHANGED <<toWorker, wakes, loopVars, timerVars>>

-----------------------------------------------------------------------------
(* The interval timer *)

JsRem(x, y) == IF x < 0 THEN -((-x) % y) ELSE x % y

(* The clocks in a time: the code multiplies and takes the floor. *)
Clocks(e) == e \div Grain

(* A remainder by 0 is NaN, which is stored as 0. *)
get_counter_value(p, e) ==
  LET b == p.start_value - Clocks(e)
      a == p.reload
  IN  IF ~p.enabled \/ a = 0 THEN 0
      ELSE CASE b >= a -> b % a
             [] b < 0 -> JsRem(b, a) + a
             [] OTHER -> b

RolloverExact(p, e) == p.start_value + 1 = Clocks(e)

RolloverForward(p, e) == p.start_value < Clocks(e)

(* A start in the future comes from a restored state. *)
did_rollover(p, e) == e < 0 \/ p.start_value < Clocks(e)

Restarted(p, e) == [p EXCEPT !.start_value = p.reload]

(* After a rollover the counter goes on from where it really is, but for   *)
(* the part of a clock that the new start time leaves out.                 *)
Reloaded(p, e) == [p EXCEPT !.start_value = get_counter_value(p, e)]

(* timer: the counter, the time since its start and the line after it. *)
timer(p, e) ==
  IF p.enabled /\ did_rollover(p, e)
  THEN [pit |-> [Reloaded(p, e) EXCEPT !.enabled = p.mode # 0], elapsed |-> 0, irq0 |-> TRUE]
  ELSE [pit |-> p, elapsed |-> e, irq0 |-> FALSE]

(* How long the CPU may sleep: until the counter is at 0. *)
Delay(r) ==
  IF r.pit.enabled THEN LET d == r.pit.start_value - Clocks(r.elapsed)
                        IN  IF d < MaxSleep THEN d ELSE MaxSleep
  ELSE MaxSleep

(* port43_write: latch, or select the mode and which bytes are written. *)
port43_write(p, mode, access) ==
  IF access = 0 THEN [p EXCEPT !.latch = 2]
  ELSE [p EXCEPT !.next_low = access # 2, !.mode = mode, !.read_mode = access]

(* counter_write: the counter starts anew with the last byte. *)
counter_write(p, b) ==
  LET low   == p.reload % Base
      high  == p.reload \div Base
      value == IF p.next_low THEN high * Base + b ELSE b * Base + low
      half  == p.read_mode = 3 /\ p.next_low
      load  == IF value = 0 THEN Base * Base - 1 ELSE value
      low2  == IF p.read_mode = 3 THEN ~p.next_low ELSE p.next_low
  IN  IF half THEN [p EXCEPT !.reload = value, !.next_low = low2]
      ELSE [p EXCEPT !.reload = load, !.start_value = load, !.enabled = TRUE,
                     !.next_low = low2]

(* counter_read: reading without a latch moves on to the other byte.       *)
counter_read(p) ==
  IF p.latch > 0 THEN [p EXCEPT !.latch = @ - 1]
  ELSE IF p.mode = 3 THEN [p EXCEPT !.next_low = ~@] ELSE p

(* counter_write loads the counter, and does not only change half of reload. *)
Loads(p) == ~(p.read_mode = 3 /\ p.next_low)

-----------------------------------------------------------------------------
(* The guest, inside main_loop *)

Guest ==
  /\ ~idle
  /\ ops < MaxOps
  /\ ops' = ops + 1
  /\ UNCHANGED <<loopVars, tickVars>>

guest_port43_write ==
  /\ Guest
  /\ \E mode \in {0, 2, 3}, access \in 0 .. 3 :
       /\ pit' = port43_write(pit, mode, access)
       /\ irq0' = (irq0 /\ access = 0)
  /\ UNCHANGED <<elapsed, age, served, fresh>>

guest_counter_write ==
  /\ Guest
  /\ \E b \in 0 .. Base - 1 : pit' = counter_write(pit, b)
  /\ elapsed' = IF Loads(pit) THEN 0 ELSE elapsed
  /\ fresh' = Loads(pit) /\ age' = 0 /\ served' = 0
  /\ UNCHANGED irq0

guest_counter_read ==
  /\ Guest
  /\ pit' = counter_read(pit)
  /\ UNCHANGED <<irq0, elapsed, age, served, fresh>>

(* main_loop runs the hardware timers and returns: 0 while the guest is    *)
(* busy, the time until the next timer when it has halted.                 *)
main_loop_return ==
  /\ ~idle
  /\ LET r == timer(pit, elapsed)
     IN  /\ pit' = r.pit /\ elapsed' = r.elapsed /\ irq0' = r.irq0
         /\ fresh' = (fresh /\ (r.irq0 => served < MaxServed))
         /\ served' = IF fresh' /\ r.irq0 THEN served + 1 ELSE served
         /\ \E halted \in BOOLEAN : next_tick(IF halted THEN Delay(r) ELSE 0)
  /\ UNCHANGED <<running, stopping, cpu_is_running, waiting, wakes, ops, age>>

-----------------------------------------------------------------------------
(* The loop, and the calls of the page *)

(* The listeners of "emulator-stopped": the page's own, and those of stop. *)
Stopped ==
  /\ running' = FALSE /\ stopping' = FALSE
  /\ cpu_is_running' = FALSE
  /\ waiting' = 0
  /\ UNCHANGED <<idle, timerVars>>

ContinueStopping == running

(* do_tick goes on with the CPU unless it was asked to stop. *)
Continue == running /\ ~stopping

(* yield_callback: an old tick is ignored, the newest one calls do_tick.   *)
yield_callback ==
  /\ idle /\ toPage # << >>
  /\ toPage' = Tail(toPage)
  /\ wakes' = IF Head(toPage).newest THEN 0 ELSE wakes
  /\ UNCHANGED <<toWorker, timeout>>
  /\ \/ ~Head(toPage).newest /\ UNCHANGED <<loopVars, timerVars>>
     \/ /\ Head(toPage).newest
        /\ ~Continue
        /\ Stopped
     \/ /\ Head(toPage).newest
        /\ Continue
        /\ idle' = FALSE
        /\ UNCHANGED <<running, stopping, cpu_is_running, waiting, timerVars>>

run ==
  /\ idle /\ wakes < MaxWakes /\ wakes' = wakes + 1
  /\ stopping' = FALSE /\ running' = TRUE
  /\ cpu_is_running' = TRUE
  /\ next_tick(0)
  /\ UNCHANGED <<waiting, timerVars>>

(* stop of the page: it waits for the loop only when the loop is running.  *)
stop ==
  /\ idle /\ waiting = 0
  /\ cpu_is_running
  /\ waiting' = 1
  /\ stopping' = (stopping \/ running)
  /\ UNCHANGED <<running, idle, cpu_is_running, tickVars, timerVars>>

(* A device raises an interrupt while the CPU sleeps: the callback that    *)
(* the loop passes to the CPU asks for a tick at once.                     *)
stop_idling ==
  /\ idle /\ wakes < MaxWakes /\ wakes' = wakes + 1
  /\ next_tick(0)
  /\ UNCHANGED <<running, stopping, cpu_is_running, waiting, timerVars>>

(* save_state, and restore_state in a new page: the timer's registers come *)
(* back with a start time that means nothing to the new page's clock.      *)
restore_clock ==
  /\ idle /\ pit.enabled
  /\ elapsed' \in {-1, MaxLate * Grain}
  /\ fresh' = FALSE /\ age' = 0 /\ served' = 0
  /\ running' = FALSE /\ stopping' = FALSE /\ cpu_is_running' = FALSE /\ waiting' = 0
  /\ toWorker' = << >> /\ timeout' = NoTimeout /\ toPage' = << >> /\ wakes' = 0
  /\ UNCHANGED <<idle, pit, irq0, ops>>

(* A part of a clock passes. *)
Clock ==
  /\ pit.enabled => elapsed < MaxLate * Grain \/ timeout.t > 0
  /\ elapsed' = IF pit.enabled THEN elapsed + 1 ELSE elapsed
  /\ age' = IF pit.enabled /\ fresh THEN (age + 1) % (pit.reload * Grain) ELSE 0
  /\ timeout' = [timeout EXCEPT !.t = IF @ > 0 THEN @ - 1 ELSE 0]
  /\ UNCHANGED <<loopVars, toWorker, toPage, wakes, pit, irq0, ops, served, fresh>>

ClockInit ==
  /\ running = FALSE /\ stopping = FALSE /\ idle = TRUE
  /\ cpu_is_running = FALSE /\ waiting = 0
  /\ toWorker = << >> /\ timeout = NoTimeout /\ toPage = << >>
  /\ pit = [enabled |-> FALSE, mode |-> 0, read_mode |-> 0, next_low |-> FALSE,
            reload |-> 0, start_value |-> 0, latch |-> 0]
  /\ irq0 = FALSE /\ elapsed = 0
  /\ ops = 0 /\ wakes = 0 /\ age = 0 /\ served = 0 /\ fresh = FALSE

ClockNext ==
  \/ worker_message \/ worker_timeout \/ yield_callback \/ main_loop_return
  \/ guest_port43_write \/ guest_counter_write \/ guest_counter_read
  \/ run \/ stop \/ stop_idling \/ restore_clock \/ Clock

ClockSpec == ClockInit /\ [][ClockNext]_clockVars

(* The browser runs its workers, timeouts and callbacks, main_loop returns *)
(* after a frame's time, and time passes.                                  *)
ClockFairSpec ==
  /\ ClockSpec
  /\ WF_clockVars(worker_message) /\ WF_clockVars(worker_timeout)
  /\ WF_clockVars(yield_callback) /\ WF_clockVars(main_loop_return)
  /\ WF_clockVars(Clock)

-----------------------------------------------------------------------------
(* Properties *)

ClockTypeOK ==
  /\ {running, stopping, idle, cpu_is_running, irq0, fresh} \subseteq BOOLEAN
  /\ waiting \in 0 .. 1 /\ elapsed \in Int /\ elapsed >= -1 /\ ops \in 0 .. MaxOps
  /\ served \in 0 .. MaxServed
  /\ pit.reload \in 0 .. Base * Base - 1 /\ pit.start_value \in 0 .. Base * Base - 1

Newest ==
  Cardinality({i \in DOMAIN toWorker : toWorker[i].newest})
    + Cardinality({i \in DOMAIN toPage : toPage[i].newest})
    + (IF timeout.newest THEN 1 ELSE 0)

(* The loop is never lost and never doubled (do_tick, next_tick,           *)
(* yield_callback): while the machine runs, either main_loop is being      *)
(* executed or exactly one tick is on its way that will be obeyed, in      *)
(* whatever order run, stop, interrupts and timeouts came; and the page    *)
(* and a caller of stop know whether the machine runs.                     *)
OneLoop ==
  /\ running => Newest = (IF idle THEN 1 ELSE 0)
  /\ ~idle => running
  /\ cpu_is_running = running
  /\ waiting > 0 => running

(* The timer keeps its phase (timer, get_counter_value): a rollover that   *)
(* is served, however late, sets the counter back by less than a clock, so *)
(* a late tick does not delay the ones after it.  What the guest would     *)
(* read differs from a counter that was loaded at the same time and has    *)
(* counted down ever since by less than one clock for every rollover       *)
(* served and one for the reading.  A restored timer, whose start time     *)
(* means nothing, and a reload of which half was written are excepted.     *)
Behind(d) ==
  (get_counter_value(pit, elapsed) * Grain + age - d) % (pit.reload * Grain) = 0

PhaseKept ==
  /\ ClockTypeOK
  /\ (pit.enabled /\ fresh) => \E d \in 0 .. (served + 1) * (Grain - 1) : Behind(d)

(* The loop never oversleeps the timer (timer, did_rollover): when         *)
(* main_loop returns, the counter's start lies in the past, and the delay  *)
(* that is asked for ends before the counter has passed 0.  A start time   *)
(* in the future, which a restored state may bring, would silence the      *)
(* timer until that time.                                                  *)
NeverOversleeps ==
  [][(~idle /\ idle' /\ pit'.enabled) =>
        /\ elapsed' >= 0
        /\ toWorker'[Len(toWorker')].t \in 0 .. pit'.start_value - Clocks(elapsed')]_clockVars

Periodic == running /\ ~stopping /\ pit.enabled /\ pit.mode # 0

(* While the machine runs and its timer is programmed, timer interrupts    *)
(* never cease (do_tick, timer): the delays that the loop asks for, the    *)
(* timeouts that newer ticks replace and old ticks that are ignored never  *)
(* leave the kernel without its tick.                                      *)
TicksKeepComing == []<>(irq0 \/ ~Periodic)

(* A stop that no run overtakes comes to an end (stop, do_tick): the       *)
(* machine stops and the promise that stop returned is resolved.           *)
StopResolves == (waiting > 0 /\ stopping) ~> (waiting = 0 \/ ~stopping)
=============================================================================
