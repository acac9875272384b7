------------------------------- MODULE Timer -------------------------------
(***************************************************************************)
(* Time keeping: pit.c programs the timer chip and opens its line, the     *)
(* handler of that line counts ticks in time.c, and sleep_ms of            *)
(* kernel_main.c waits for them.  One thread calls these functions and     *)
(* those of pic.c; interrupts of any line come in between its steps.       *)
(*                                                                         *)
(* The counter has 64 bits and the kernel is built for 32, so reading it   *)
(* takes two loads, between which the timer may tick.  Which half is       *)
(* loaded first is the compiler's choice.                                  *)
(***************************************************************************)
EXTENDS PicDriver

CONSTANTS
  Half,        \* number of values of one half of the counter
  Frequencies, \* what pit_init may be asked for
  Millis,      \* what sleep_ms may be asked for
  MaxTicks     \* bound on the ticks

PIT_BASE_FREQ == 1193182
PIT_MIN_FREQ  == 19
PIT_MAX_FREQ  == 1193182

ASSUME TimerAssumption ==
  /\ Half \in Nat \ {0}
  /\ Frequencies \subseteq Nat /\ Millis \subseteq Nat
  /\ MaxTicks \in Nat

VARIABLES
  low_first,      \* does the compiled code load the low half first?
  current_pit_hz, \* what pit.c believes the frequency to be
  reload,         \* the 16-bit divisor in the chip
  asked,          \* history: the last frequency accepted
  ticks,
  at,             \* where the thread is: "idle", or a point in sleep_ms
  wait,           \* ticks the sleep is to last
  half,           \* the half of ticks loaded first
  target_ticks,
  called,         \* history: ticks at the call of sleep_ms,
  started,        \* when start_ticks had been read,
  seen,           \* and at the last first load
  torn_start      \* history: was the read of start_ticks torn?

pitVars   == <<current_pit_hz, reload, asked>>
sleepVars == <<at, wait, half, target_ticks, called, started, seen, torn_start>>
vars      == <<picVars, low_first, pitVars, ticks, sleepVars>>

Init ==
  /\ PicInit
  /\ low_first \in BOOLEAN
  /\ current_pit_hz = 0 /\ reload = 0 /\ asked = 0
  /\ ticks = 0
  /\ at = "idle" /\ wait = 0 /\ half = 0 /\ target_ticks = 0
  /\ called = 0 /\ started = 0 /\ seen = 0 /\ torn_start = FALSE

-----------------------------------------------------------------------------
\* pit.c.

\* The divisor pit_init computes.
Divisor(hz) ==
  LET capped == IF hz > PIT_MAX_FREQ THEN PIT_MAX_FREQ ELSE hz
      d      == PIT_BASE_FREQ \div capped
  IN  IF d = 0 THEN 1 ELSE d

LowByteOnly(d) == d % 256

\* What the chip holds after the two bytes of d were written to its data port.
Programmed(d) == (d % 256) + 256 * ((d \div 256) % 256)

\* The interrupts the chip then makes in a second: a divisor of 0 counts as 2^16.
Rate(r) == PIT_BASE_FREQ \div (IF r = 0 THEN 65536 ELSE r)

\* The thread runs only while no handler does.
Running(where) == at = where /\ handling = << >>

pit_init(hz) ==
  /\ Running("idle")
  /\ hz # 0
  /\ Unmask(0)
  /\ current_pit_hz' = PIT_BASE_FREQ \div Divisor(hz)
  /\ reload' = Programmed(Divisor(hz))
  /\ asked' = hz
  /\ UNCHANGED <<low_first, ticks, sleepVars>>

\* pit_init(0) only logs an error.
pit_init_zero ==
  /\ Running("idle")
  /\ UNCHANGED vars

-----------------------------------------------------------------------------
\* time.c, read by the thread in two loads.

FirstLoad == IF low_first THEN ticks % Half ELSE ticks \div Half

\* What time_get_ticks returns if its second load happens now.
time_get_ticks ==
  IF low_first THEN (ticks \div Half) * Half + half ELSE half * Half + (ticks % Half)

Carried == seen \div Half # ticks \div Half

LoadFirst(next) ==
  /\ at' = next
  /\ half' = FirstLoad
  /\ seen' = ticks

\* The second load is done: the first half is dead.
LoadSecond(next) ==
  /\ at' = next
  /\ half' = 0
  /\ seen' = 0

-----------------------------------------------------------------------------
\* sleep_ms.

\* The ticks sleep_ms waits for at frequency hz.
TicksFor(ms, hz) == (ms * hz) \div 1000

SleepCall(ms) ==
  /\ Running("idle")
  /\ current_pit_hz # 0
  /\ at' = "start"
  /\ wait' = TicksFor(ms, current_pit_hz)
  /\ called' = ticks
  /\ UNCHANGED <<picVars, low_first, pitVars, ticks, half, target_ticks, started,
                 seen, torn_start>>

\* Without a programmed timer sleep_ms counts in a loop instead.
SleepUntimed ==
  /\ Running("idle")
  /\ current_pit_hz = 0
  /\ UNCHANGED vars

SleepStart ==
  /\ Running("start")
  /\ LoadFirst("started")
  /\ UNCHANGED <<picVars, low_first, pitVars, ticks, wait, target_ticks, called,
                 started, torn_start>>

SleepTargetFromZero ==
  /\ Running("started")
  /\ LoadSecond("test")
  /\ target_ticks' = wait
  /\ started' = ticks /\ torn_start' = Carried
  /\ UNCHANGED <<picVars, low_first, pitVars, ticks, wait, called>>

SleepTarget ==
  /\ Running("started")
  /\ LoadSecond("test")
  /\ target_ticks' = time_get_ticks + wait
  /\ started' = ticks /\ torn_start' = Carried
  /\ UNCHANGED <<picVars, low_first, pitVars, ticks, wait, called>>

SleepTest ==
  /\ Running("test")
  /\ LoadFirst("tested")
  /\ UNCHANGED <<picVars, low_first, pitVars, ticks, wait, target_ticks, called,
                 started, torn_start>>

SleepWhileReached ==
  /\ Running("tested")
  /\ time_get_ticks <= target_ticks
  /\ LoadSecond("hlt")
  /\ UNCHANGED <<picVars, low_first, pitVars, ticks, wait, target_ticks, called,
                 started, torn_start>>

SleepWhile ==
  /\ Running("tested")
  /\ time_get_ticks < target_ticks
  /\ LoadSecond("hlt")
  /\ UNCHANGED <<picVars, low_first, pitVars, ticks, wait, target_ticks, called,
                 started, torn_start>>

SleepReturn ==
  /\ Running("tested")
  /\ time_get_ticks >= target_ticks
  /\ LoadSecond("idle")
  /\ wait' = 0 /\ target_ticks' = 0 /\ called' = 0
  /\ started' = 0 /\ torn_start' = FALSE
  /\ UNCHANGED <<picVars, low_first, pitVars, ticks>>

SleepHlt ==
  /\ Running("hlt")
  /\ at' = "halted"
  /\ UNCHANGED <<picVars, low_first, pitVars, ticks, wait, half, target_ticks,
                 called, started, seen, torn_start>>

-----------------------------------------------------------------------------
\* Interrupts.

\* Taking an interrupt ends a halt.
TimerTake ==
  /\ Take
  /\ at' = IF at = "halted" THEN "test" ELSE at
  /\ UNCHANGED <<low_first, pitVars, ticks, wait, half, target_ticks, called,
                 started, seen, torn_start>>

\* irq0_timer_handler counts the tick with interrupts off, then ends the irq.
TimerEnd ==
  /\ End
  /\ ticks' = IF handling[Len(handling)] = 0 THEN ticks + 1 ELSE ticks
  /\ UNCHANGED <<low_first, pitVars, sleepVars>>

\* A device raises its line; the timer's ticks are bounded.
TimerDevice(irq) ==
  /\ irq = 0 => ticks < MaxTicks
  /\ Device(irq)
  /\ UNCHANGED <<low_first, pitVars, ticks, sleepVars>>

\* The thread calls pic.c.
DriverCall ==
  /\ at = "idle"
  /\ \/ Remap \/ MaskAll \/ UnmaskAll
     \/ \E irq \in Irqs : Mask(irq) \/ Unmask(irq)
  /\ UNCHANGED <<low_first, pitVars, ticks, sleepVars>>

Next ==
  \/ DriverCall \/ TimerTake \/ TimerEnd
  \/ \E irq \in Irqs : TimerDevice(irq)
  \/ \E hz \in Frequencies : pit_init(hz)
  \/ pit_init_zero
  \/ \E ms \in Millis : SleepCall(ms)
  \/ SleepUntimed \/ SleepStart \/ SleepTarget \/ SleepTest \/ SleepWhile
  \/ SleepHlt \/ SleepReturn

Spec == Init /\ [][Next]_vars

-----------------------------------------------------------------------------
(* Properties                                                              *)

\* The variables of this module hold values of their types.
ClockTypeOK ==
  /\ low_first \in BOOLEAN
  /\ current_pit_hz \in Nat /\ asked \in Nat
  /\ reload \in Nat /\ reload < 65536
  /\ ticks \in Nat
  /\ at \in {"idle", "start", "started", "test", "tested", "hlt", "halted"}
  /\ wait \in Nat /\ half \in Nat /\ target_ticks \in Nat
  /\ called \in Nat /\ started \in Nat /\ seen \in Nat /\ torn_start \in BOOLEAN

\* pit.c:56 "Recalculate hz based on actual divisor for accuracy": what
\* pit_get_frequency returns is the rate the chip really has, and no lower
\* than what was asked, capped.  Below PIT_MIN_FREQ, where pit_init only
\* warns, the divisor does not fit the chip's 16 bits and this fails.
FrequencyTrue ==
  asked >= PIT_MIN_FREQ =>
    /\ current_pit_hz = Rate(reload)
    /\ current_pit_hz >= asked \/ current_pit_hz = PIT_MAX_FREQ

\* kernel_main.c:27 "Waits until `ms` milliseconds worth of ticks have passed":
\* when sleep_ms returns that many ticks have been counted since its call.
\* Only a carry into the high half of the counter can cut a sleep short: under
\* the last test when the low half is loaded first, under the read of
\* start_ticks when the high half is.
SleepsLongEnough ==
  [][at = "tested" /\ at' = "idle" =>
       \/ ticks >= called + wait
       \/ low_first /\ Carried
       \/ ~ low_first /\ torn_start]_vars

\* The other half of the same promise: sleep_ms goes back to hlt only while the
\* ticks asked for have not passed since it read start_ticks, so it oversleeps
\* by no more than the interrupt that ends the last hlt.  Again a carry into
\* the high half is the exception.  Under the read of start_ticks, when the low
\* half is loaded first, it moves the target 2^32 ticks away; under the test,
\* when the high half is, it costs one more hlt.
SleepsNoLonger ==
  [][at = "tested" /\ at' = "hlt" =>
       \/ seen < started + wait
       \/ low_first /\ torn_start
       \/ ~ low_first /\ Carried]_vars
=============================================================================
