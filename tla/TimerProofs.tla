---------------------------- MODULE TimerProofs ----------------------------
(***************************************************************************)
(* Proofs about Timer: for the clock, every width of the halves, every     *)
(* frequency and every sleep; for the interrupt controllers, every mask    *)
(* the firmware may leave and every set of devices.  The two do not        *)
(* depend on each other: an action of one is a step that leaves the        *)
(* other's invariant alone.                                                *)
(***************************************************************************)
EXTENDS Timer, HardwareProofs, SequenceTheorems, TLAPS

\* The leaves that name no prover are left to the SMT solver.
USE SMTT(30)

-----------------------------------------------------------------------------
(* Division                                                                *)

\* The quotient and the remainder put a number together again.
LEMMA DivMod ==
  ASSUME NEW a \in Nat, NEW h \in Nat \ {0}
  PROVE  /\ a \div h \in Nat /\ a % h \in 0 .. h - 1
         /\ a = h * (a \div h) + (a % h)
  BY Z3

\* A larger number has a quotient no smaller.
LEMMA DivMono ==
  ASSUME NEW a \in Nat, NEW b \in Nat, NEW h \in Nat \ {0}, a <= b
  PROVE  a \div h <= b \div h
<1> DEFINE p == a \div h
           q == b \div h
<1>1. /\ p \in Nat /\ q \in Nat
      /\ h * p <= a /\ b < h * q + h
  BY DivMod
<1>2. ASSUME q < p PROVE FALSE
  <2>1. h * (q + 1) <= h * p
    BY <1>1, <1>2
  <2> QED BY <1>1, <2>1
<1> QED BY <1>1, <1>2

\* A factor that fits is no larger than the quotient.
LEMMA FactorFits ==
  ASSUME NEW b \in Nat, NEW c \in Nat, NEW d \in Nat \ {0}, d * c <= b
  PROVE  c <= b \div d
<1> DEFINE q == b \div d
<1>1. q \in Nat /\ b < d * q + d
  BY DivMod
<1>2. ASSUME q < c PROVE FALSE
  <2>1. d * (q + 1) <= d * c
    BY <1>1, <1>2
  <2> QED BY <1>1, <2>1
<1> QED BY <1>1, <1>2

-----------------------------------------------------------------------------
(* pit.c                                                                   *)

\* From PIT_MIN_FREQ on the divisor fits the chip, and dividing by it again
\* gives at least the frequency asked for or the highest there is.
LEMMA DivisorFits ==
  ASSUME NEW hz \in Nat, hz >= PIT_MIN_FREQ
  PROVE  /\ Divisor(hz) \in Nat \ {0} /\ Divisor(hz) < 65536
         /\ \/ hz <= PIT_BASE_FREQ \div Divisor(hz)
            \/ PIT_BASE_FREQ \div Divisor(hz) = PIT_MAX_FREQ
<1> DEFINE c == IF hz > PIT_MAX_FREQ THEN PIT_MAX_FREQ ELSE hz
           d == PIT_BASE_FREQ \div c
<1>1. c \in Nat /\ 19 <= c /\ c <= PIT_BASE_FREQ
  BY Z3 DEF PIT_MIN_FREQ, PIT_MAX_FREQ, PIT_BASE_FREQ
<1> HIDE DEF c
<1>2. /\ d \in Nat /\ PIT_BASE_FREQ < c * d + c /\ c * d <= PIT_BASE_FREQ
  <2>1. PIT_BASE_FREQ \in Nat
    BY Z3 DEF PIT_BASE_FREQ
  <2>2. c \in Nat \ {0}
    BY <1>1
  <2>3. /\ d \in Nat /\ PIT_BASE_FREQ % c \in 0 .. c - 1
        /\ PIT_BASE_FREQ = c * d + (PIT_BASE_FREQ % c)
    BY <2>1, <2>2, DivMod, Zenon
  <2> HIDE DEF d
  <2> QED BY <2>1, <2>2, <2>3
<1>3. d # 0
  BY Z3, <1>1, <1>2 DEF PIT_BASE_FREQ
<1>4. d < 65536
  <2>1. 19 * d <= c * d
    BY Z3, <1>1, <1>2
  <2> QED BY Z3, <1>1, <1>2, <2>1 DEF PIT_BASE_FREQ
<1>5. Divisor(hz) = d
  BY Z3, <1>3 DEF Divisor, c
<1>6. c <= PIT_BASE_FREQ \div d
  BY Z3, <1>1, <1>2, <1>3, FactorFits DEF PIT_BASE_FREQ
<1>7. CASE hz <= PIT_MAX_FREQ
  BY Z3, <1>2, <1>3, <1>4, <1>5, <1>6, <1>7 DEF PIT_MAX_FREQ, c
<1>8. CASE hz > PIT_MAX_FREQ
  <2>1. d = 1
    BY Z3, <1>8 DEF PIT_MAX_FREQ, PIT_BASE_FREQ, c
  <2>2. PIT_BASE_FREQ \div Divisor(hz) = PIT_MAX_FREQ
    BY Z3, <1>5, <2>1 DEF PIT_MAX_FREQ, PIT_BASE_FREQ
  <2> QED BY Z3, <1>5, <2>1, <2>2
<1> QED BY Z3, <1>7, <1>8 DEF PIT_MAX_FREQ

\* Every divisor pit_init computes is positive, and the bytes it writes leave
\* a 16-bit number in the chip, the divisor itself if that has 16 bits.
LEMMA ProgrammedBytes ==
  ASSUME NEW hz \in Nat, hz # 0
  PROVE  /\ Divisor(hz) \in Nat \ {0}
         /\ Programmed(Divisor(hz)) \in Nat /\ Programmed(Divisor(hz)) < 65536
         /\ Divisor(hz) < 65536 => Programmed(Divisor(hz)) = Divisor(hz)
<1>1. Divisor(hz) \in Nat \ {0}
  <2> DEFINE c == IF hz > PIT_MAX_FREQ THEN PIT_MAX_FREQ ELSE hz
  <2>1. c \in Nat \ {0}
    BY Z3 DEF PIT_MAX_FREQ
  <2>2. PIT_BASE_FREQ \in Nat
    BY Z3 DEF PIT_BASE_FREQ
  <2>3. PIT_BASE_FREQ \div c \in Nat
    BY <2>1, <2>2, DivMod, Zenon
  <2> QED BY Z3, <2>3 DEF Divisor
<1>2. ASSUME NEW d \in Nat
      PROVE  /\ Programmed(d) \in Nat /\ Programmed(d) < 65536
             /\ d < 65536 => Programmed(d) = d
  BY Z3 DEF Programmed
<1> QED BY Z3, <1>1, <1>2

\* sleep_ms never waits for more ticks than fit into ms milliseconds of the
\* frequency it was given: the comment above it promises rounding to the
\* nearest tick, the code rounds down.
THEOREM SleepRoundsDown ==
  ASSUME NEW ms \in Nat, NEW hz \in Nat
  PROVE  /\ TicksFor(ms, hz) \in Nat
         /\ 1000 * TicksFor(ms, hz) <= ms * hz
         /\ ms * hz < 1000 * TicksFor(ms, hz) + 1000
<1>1. ms * hz \in Nat
  OBVIOUS
<1>2. ASSUME NEW n \in Nat
      PROVE  /\ n \div 1000 \in Nat
             /\ 1000 * (n \div 1000) <= n /\ n < 1000 * (n \div 1000) + 1000
  BY Z3
<1> QED BY Z3, <1>1, <1>2 DEF TicksFor
-----------------------------------------------------------------------------
(* The invariant                                                           *)

\* What a sleep knows: its first load is what that half was; the counter has
\* only grown since; and the target lies as far ahead of the call as asked,
\* unless the high half was loaded first and a carry came in between, and no
\* further ahead of the read of start_ticks, unless the low half was and one did.
SleepInv ==
  /\ at \in {"started", "tested"} =>
       /\ seen <= ticks
       /\ half = IF low_first THEN seen % Half ELSE seen \div Half
  /\ at # "idle" => called <= ticks
  /\ at = "started" => called <= seen
  /\ at \in {"test", "tested", "hlt", "halted"} =>
       /\ target_ticks >= called + wait \/ (~ low_first /\ torn_start)
       /\ target_ticks <= started + wait \/ (low_first /\ torn_start)

ClockInv == ClockTypeOK /\ FrequencyTrue /\ SleepInv

\* In a state of the invariant a read is off by whole halves only.
LEMMA ReadNow ==
  ASSUME ClockTypeOK, SleepInv, at \in {"started", "tested"}
  PROVE  time_get_ticks =
           IF low_first
             THEN seen + Half * ((ticks \div Half) - (seen \div Half))
             ELSE ticks - Half * ((ticks \div Half) - (seen \div Half))
<1> DEFINE hs == seen \div Half
           ht == ticks \div Half
           ls == seen % Half
           lt == ticks % Half
<1>1. Half \in Nat \ {0} /\ seen \in Nat /\ ticks \in Nat
  BY TimerAssumption DEF ClockTypeOK
<1>2. /\ hs \in Nat /\ ls \in Nat /\ seen = Half * hs + ls
      /\ ht \in Nat /\ lt \in Nat /\ ticks = Half * ht + lt
  BY <1>1, DivMod
<1>3. half = IF low_first THEN ls ELSE hs
  BY DEF SleepInv
<1> HIDE DEF hs, ht, ls, lt
<1>4. /\ ht * Half + ls = seen + Half * (ht - hs)
      /\ hs * Half + lt = ticks - Half * (ht - hs)
  BY <1>1, <1>2, Z3
<1>5. time_get_ticks = IF low_first THEN ht * Half + half ELSE half * Half + lt
  BY DEF time_get_ticks, ht, lt
<1> QED BY <1>3, <1>4, <1>5 DEF hs, ht

\* The carries between the two loads are none or some, never negative.
LEMMA Carries ==
  ASSUME ClockTypeOK, SleepInv, at \in {"started", "tested"}
  PROVE  /\ Half \in Nat \ {0}
         /\ (ticks \div Half) - (seen \div Half) \in Nat
         /\ ~ Carried => (ticks \div Half) - (seen \div Half) = 0
<1>1. Half \in Nat \ {0} /\ seen \in Nat /\ ticks \in Nat /\ seen <= ticks
  BY TimerAssumption DEF ClockTypeOK, SleepInv
<1>2. /\ seen \div Half \in Nat /\ ticks \div Half \in Nat
      /\ seen \div Half <= ticks \div Half
  BY <1>1, DivMod, DivMono
<1> QED BY <1>1, <1>2 DEF Carried

\* The value a read returns: never below the first load's when the low half
\* comes first, never above the counter when the high half does, and exact
\* when nothing carried.
LEMMA ReadBounds ==
  ASSUME ClockTypeOK, SleepInv, at \in {"started", "tested"}
  PROVE  /\ time_get_ticks \in Nat
         /\ low_first => time_get_ticks >= seen
         /\ low_first /\ ~ Carried => time_get_ticks = seen
         /\ ~ low_first => time_get_ticks <= ticks
         /\ ~ low_first /\ ~ Carried => time_get_ticks = ticks
<1> DEFINE k == (ticks \div Half) - (seen \div Half)
<1>1. Half \in Nat /\ k \in Nat /\ (~ Carried => k = 0)
  BY Carries
<1>2. time_get_ticks = IF low_first THEN seen + Half * k ELSE ticks - Half * k
  BY ReadNow
<1>3. seen \in Nat /\ ticks \in Nat
  BY DEF ClockTypeOK
<1> HIDE DEF k
<1>4. Half * k \in Nat /\ (k = 0 => Half * k = 0)
  BY <1>1
<1> DEFINE m == Half * k
<1> HIDE DEF m
<1>5. /\ m \in Nat /\ (~ Carried => m = 0)
      /\ time_get_ticks = IF low_first THEN seen + m ELSE ticks - m
  BY <1>1, <1>2, <1>4 DEF m
<1>6. time_get_ticks \in Nat
  <2>1. /\ ticks \div Half \in Nat /\ ticks % Half \in Nat
        /\ Half \in Nat /\ half \in Nat
    <3>1. Half \in Nat \ {0} /\ half \in Nat
      BY Carries DEF ClockTypeOK
    <3> QED BY <1>3, <3>1, DivMod
  <2>2. (ticks \div Half) * Half \in Nat /\ half * Half \in Nat
    BY <2>1
  <2> QED BY <2>1, <2>2 DEF time_get_ticks
<1> QED BY <1>3, <1>5, <1>6

\* The invariant is inductive.
LEMMA ClockStep ==
  ASSUME ClockInv, [Next]_vars
  PROVE  ClockInv'
<1> USE DEF ClockInv
<1>1. CASE DriverCall
  BY <1>1 DEF DriverCall, pitVars, sleepVars, ClockTypeOK, FrequencyTrue, Rate, SleepInv
<1>2. CASE TimerTake
  BY <1>2 DEF TimerTake, pitVars, ClockTypeOK, FrequencyTrue, Rate, SleepInv
<1>3. CASE TimerEnd
  BY <1>3 DEF TimerEnd, pitVars, sleepVars, ClockTypeOK, FrequencyTrue, Rate, SleepInv
<1>4. CASE \E irq \in Irqs : TimerDevice(irq)
  BY <1>4 DEF TimerDevice, pitVars, sleepVars, ClockTypeOK, FrequencyTrue, Rate, SleepInv
<1>5. ASSUME NEW hz \in Frequencies, pit_init(hz)
      PROVE  ClockInv'
  <2>1. hz \in Nat /\ hz # 0
    BY <1>5, TimerAssumption DEF pit_init
  <2>2. /\ current_pit_hz' = PIT_BASE_FREQ \div Divisor(hz)
        /\ reload' = Programmed(Divisor(hz))
        /\ asked' = hz
        /\ UNCHANGED <<low_first, ticks, sleepVars>>
    BY <1>5 DEF pit_init
  <2>3. /\ Divisor(hz) \in Nat \ {0}
        /\ reload' \in Nat /\ reload' < 65536
        /\ Divisor(hz) < 65536 => reload' = Divisor(hz)
    BY <2>1, <2>2, ProgrammedBytes
  <2>4. current_pit_hz' \in Nat
    <3>1. PIT_BASE_FREQ \in Nat
      BY Z3 DEF PIT_BASE_FREQ
    <3>2. ASSUME NEW a \in Nat, NEW d \in Nat \ {0}
          PROVE  a \div d \in Nat
      BY DivMod
    <3>3. PIT_BASE_FREQ \div Divisor(hz) \in Nat
      BY <2>3, <3>1, <3>2
    <3> QED BY <2>2, <3>3
  <2>5. ClockTypeOK'
    BY <2>1, <2>2, <2>3, <2>4 DEF sleepVars, ClockTypeOK
  <2>6. FrequencyTrue'
    <3> SUFFICES ASSUME hz >= PIT_MIN_FREQ
                 PROVE  /\ current_pit_hz' = Rate(reload')
                        /\ current_pit_hz' >= hz \/ current_pit_hz' = PIT_MAX_FREQ
      BY <2>2 DEF FrequencyTrue, Rate
    <3>1. /\ reload' = Divisor(hz) /\ reload' # 0
          /\ \/ hz <= current_pit_hz'
             \/ current_pit_hz' = PIT_MAX_FREQ
      BY <2>1, <2>2, <2>3, DivisorFits
    <3>2. current_pit_hz' = Rate(reload')
      BY <2>2, <3>1, Z3 DEF Rate
    <3> QED BY <2>1, <2>4, <3>1, <3>2
  <2>7. SleepInv'
    BY <2>2 DEF sleepVars, SleepInv
  <2> QED BY <2>5, <2>6, <2>7
<1>6. CASE pit_init_zero \/ SleepUntimed \/ UNCHANGED vars
  BY <1>6 DEF pit_init_zero, SleepUntimed, vars, pitVars, sleepVars, ClockTypeOK,
              FrequencyTrue, Rate, SleepInv
<1>7. ASSUME NEW ms \in Millis, SleepCall(ms)
      PROVE  ClockInv'
  <2>1. ms \in Nat /\ current_pit_hz \in Nat
    BY TimerAssumption DEF ClockTypeOK
  <2>2. wait' \in Nat
    BY <1>7, <2>1, SleepRoundsDown DEF SleepCall
  <2> QED
    BY <1>7, <2>2 DEF SleepCall, pitVars, ClockTypeOK, FrequencyTrue, Rate, SleepInv
<1>8. CASE SleepStart \/ SleepTest
  <2>1. Half \in Nat \ {0} /\ ticks \in Nat
    BY TimerAssumption DEF ClockTypeOK
  <2>2. ticks % Half \in Nat /\ ticks \div Half \in Nat
    BY <2>1, DivMod
  <2>3. CASE SleepStart
    BY <2>2, <2>3 DEF SleepStart, Running, LoadFirst, FirstLoad, pitVars, ClockTypeOK,
                      FrequencyTrue, Rate, SleepInv
  <2>4. CASE SleepTest
    BY <2>2, <2>4 DEF SleepTest, Running, LoadFirst, FirstLoad, pitVars, ClockTypeOK,
                      FrequencyTrue, Rate, SleepInv
  <2> QED BY <1>8, <2>3, <2>4
<1>9. CASE SleepTarget
  <2>1. at = "started"
    BY <1>9 DEF SleepTarget, Running
  <2>2. /\ time_get_ticks \in Nat
        /\ low_first => time_get_ticks >= seen
        /\ low_first /\ ~ Carried => time_get_ticks = seen
        /\ ~ low_first => time_get_ticks <= ticks
        /\ ~ low_first /\ ~ Carried => time_get_ticks = ticks
    BY <2>1, ReadBounds
  <2>3. /\ called \in Nat /\ seen \in Nat /\ ticks \in Nat /\ wait \in Nat
        /\ called <= seen /\ called <= ticks /\ seen <= ticks
    BY <2>1 DEF ClockTypeOK, SleepInv
  <2>4. /\ target_ticks' = time_get_ticks + wait
        /\ started' = ticks /\ torn_start' = Carried
        /\ at' = "test" /\ half' = 0 /\ seen' = 0
        /\ UNCHANGED <<low_first, pitVars, ticks, wait, called>>
    BY <1>9 DEF SleepTarget, LoadSecond
  <2>5. target_ticks' \in Nat
    BY <2>2, <2>3, <2>4
  <2>6. ClockTypeOK'
    BY <2>4, <2>5 DEF pitVars, ClockTypeOK, Carried
  <2>7. target_ticks' >= called + wait \/ (~ low_first /\ torn_start')
    <3>1. CASE low_first \/ ~ Carried
      BY <2>2, <2>3, <2>4, <3>1
    <3>2. CASE ~ low_first /\ Carried
      BY <2>4, <3>2
    <3> QED BY <3>1, <3>2
  <2>a. target_ticks' <= started' + wait \/ (low_first /\ torn_start')
    <3>1. CASE ~ low_first \/ ~ Carried
      BY <2>2, <2>3, <2>4, <3>1
    <3>2. CASE low_first /\ Carried
      BY <2>4, <3>2
    <3> QED BY <3>1, <3>2
  <2>8. SleepInv'
    BY <2>3, <2>4, <2>7, <2>a DEF SleepInv
  <2> QED BY <2>4, <2>6, <2>8 DEF pitVars, FrequencyTrue, Rate
<1>10. CASE SleepWhile
  BY <1>10 DEF SleepWhile, Running, LoadSecond, pitVars, ClockTypeOK, FrequencyTrue,
               Rate, SleepInv
<1>11. CASE SleepHlt
  BY <1>11 DEF SleepHlt, Running, pitVars, ClockTypeOK, FrequencyTrue, Rate, SleepInv
<1>12. CASE SleepReturn
  <2>1. /\ at' = "idle" /\ half' = 0 /\ seen' = 0
        /\ wait' = 0 /\ target_ticks' = 0 /\ called' = 0 /\ started' = 0
        /\ UNCHANGED <<low_first, pitVars, ticks>>
    BY <1>12 DEF SleepReturn, LoadSecond
  <2>2. ClockTypeOK'
    <3>1. torn_start' \in BOOLEAN
      BY <1>12, Zenon DEF SleepReturn
    <3> QED BY <2>1, <3>1 DEF pitVars, ClockTypeOK
  <2>3. FrequencyTrue'
    BY <2>1 DEF pitVars, FrequencyTrue, Rate
  <2>4. SleepInv'
    BY <2>1 DEF SleepInv
  <2> QED BY <2>2, <2>3, <2>4
<1> QED BY <1>1, <1>2, <1>3, <1>4, <1>5, <1>6, <1>7, <1>8, <1>9, <1>10, <1>11, <1>12
        DEF Next

-----------------------------------------------------------------------------
(* The theorems                                                            *)

\* The invariant holds throughout.
LEMMA ClockInvariant == Spec => []ClockInv
<1>1. Init => ClockInv
  <2> SUFFICES ASSUME Init PROVE ClockInv
    OBVIOUS
  <2>1. ClockTypeOK
    <3>1. torn_start \in BOOLEAN
      BY Zenon DEF Init
    <3>2. /\ low_first \in BOOLEAN
          /\ current_pit_hz = 0 /\ reload = 0 /\ asked = 0 /\ ticks = 0
          /\ at = "idle" /\ wait = 0 /\ half = 0 /\ target_ticks = 0
          /\ called = 0 /\ started = 0 /\ seen = 0
      BY DEF Init
    <3> QED BY <3>1, <3>2 DEF ClockTypeOK
  <2>2. FrequencyTrue
    BY Z3 DEF Init, FrequencyTrue, PIT_MIN_FREQ
  <2>3. SleepInv
    BY DEF Init, SleepInv
  <2> QED BY <2>1, <2>2, <2>3 DEF ClockInv
<1>2. ClockInv /\ [Next]_vars => ClockInv'
  BY ClockStep
<1> QED BY <1>1, <1>2, PTL DEF Spec

\* From any sequence of calls of pit_init, what pit.c reports is the rate the
\* chip was programmed with, for every frequency from PIT_MIN_FREQ up.
THEOREM FrequencyIsTrue == Spec => []FrequencyTrue
<1>1. ClockInv => FrequencyTrue
  BY DEF ClockInv
<1> QED BY <1>1, ClockInvariant, PTL

\* sleep_ms returns early only through a carry under the wrong read.
THEOREM SleepsAreLongEnough == Spec => SleepsLongEnough
<1> DEFINE Claim == at = "tested" /\ at' = "idle" =>
                      \/ ticks >= called + wait
                      \/ low_first /\ Carried
                      \/ ~ low_first /\ torn_start
<1>1. ClockInv /\ [Next]_vars => [Claim]_vars
  <2> SUFFICES ASSUME ClockInv, Next, at = "tested", at' = "idle",
                      ~ (low_first /\ Carried), ~ (~ low_first /\ torn_start)
               PROVE  ticks >= called + wait
    OBVIOUS
  <2>1. SleepReturn
    BY DEF Next, DriverCall, TimerTake, TimerEnd, TimerDevice, pit_init,
           pit_init_zero, SleepCall, SleepUntimed, SleepStart, SleepTarget, SleepTest,
           SleepWhile, SleepHlt, LoadFirst, LoadSecond, Running, sleepVars, vars
  <2>2. time_get_ticks >= target_ticks
    BY <2>1 DEF SleepReturn
  <2>3. /\ time_get_ticks \in Nat
        /\ low_first /\ ~ Carried => time_get_ticks = seen
        /\ ~ low_first => time_get_ticks <= ticks
    BY ReadBounds DEF ClockInv
  <2>4. /\ seen \in Nat /\ ticks \in Nat /\ target_ticks \in Nat
        /\ called \in Nat /\ wait \in Nat /\ seen <= ticks
    BY DEF ClockInv, ClockTypeOK, SleepInv
  <2>5. time_get_ticks <= ticks
    BY <2>3, <2>4
  <2>6. target_ticks >= called + wait
    BY DEF ClockInv, SleepInv
  <2> QED BY <2>2, <2>3, <2>4, <2>5, <2>6
<1> QED BY <1>1, ClockInvariant, PTL DEF Spec, SleepsLongEnough

\* sleep_ms goes back to hlt past its time only through a carry under the other
\* read, for every width of the halves, every frequency and every sleep.
THEOREM SleepsAreNoLonger == Spec => SleepsNoLonger
<1> DEFINE Claim == at = "tested" /\ at' = "hlt" =>
                      \/ seen < started + wait
                      \/ low_first /\ torn_start
                      \/ ~ low_first /\ Carried
<1>1. ClockInv /\ [Next]_vars => [Claim]_vars
  <2> SUFFICES ASSUME ClockInv, Next, at = "tested", at' = "hlt",
                      ~ (low_first /\ torn_start), ~ (~ low_first /\ Carried)
               PROVE  seen < started + wait
    OBVIOUS
  <2>1. SleepWhile
    BY DEF Next, DriverCall, TimerTake, TimerEnd, TimerDevice, pit_init,
           pit_init_zero, SleepCall, SleepUntimed, SleepStart, SleepTarget, SleepTest,
           SleepReturn, SleepHlt, LoadFirst, LoadSecond, Running, sleepVars, vars
  <2>2. time_get_ticks < target_ticks
    BY <2>1 DEF SleepWhile
  <2>3. /\ time_get_ticks \in Nat
        /\ low_first => time_get_ticks >= seen
        /\ ~ low_first /\ ~ Carried => time_get_ticks = ticks
    BY ReadBounds DEF ClockInv
  <2>4. /\ seen \in Nat /\ ticks \in Nat /\ target_ticks \in Nat
        /\ started \in Nat /\ wait \in Nat /\ seen <= ticks
    BY DEF ClockInv, ClockTypeOK, SleepInv
  <2>5. time_get_ticks >= seen
    BY <2>3, <2>4
  <2>6. target_ticks <= started + wait
    BY DEF ClockInv, SleepInv
  <2> QED BY <2>2, <2>3, <2>4, <2>5, <2>6
<1> QED BY <1>1, ClockInvariant, PTL DEF Spec, SleepsNoLonger

-----------------------------------------------------------------------------
(* The interrupt controllers                                               *)

\* What nesting comes down to.  The lines in service on each chip are those
\* being handled, the master's through which the slave's arrive included; a
\* handler is only ever interrupted by a line of higher priority on the
\* master, so there is at most one line of the slave among them and the
\* innermost is the one an EOI ends; and no device sits on the cascade line.
Nested ==
  /\ pic.master.isr = {MasterLine(handling[a]) : a \in DOMAIN handling}
  /\ pic.slave.isr = {handling[a] - 8 : a \in {b \in DOMAIN handling : handling[b] >= 8}}
  /\ \A a, b \in DOMAIN handling : a < b => MasterLine(handling[b]) < MasterLine(handling[a])
  /\ \A a \in DOMAIN handling : handling[a] # Cascade
  /\ Cascade \notin pic.master.irr
  /\ ~ Remapped => handling = << >>

PicInv == MasksAsAsked /\ Nested

\* The firmware's masks are the books' first entry, and nothing is handled yet.
LEMMA PicInvInit ==
  ASSUME PicInit
  PROVE  PicInv
<1>1. PICK m \in BootMasks : pic = [master |-> Reset(m[1], 8), slave |-> Reset(m[2], 112)]
  BY DEF PicInit
<1>2. m[1] \in 0 .. 255 /\ m[2] \in 0 .. 255
  BY PicDriverAssumption
<1>3. \A v \in 0 .. 255, base \in 0 .. 255 : Reset(v, base) \in Chip
  BY DEF Reset, Chip, Bits
<1>4. /\ pic \in PicPair /\ pic.master = Reset(m[1], 8) /\ pic.slave = Reset(m[2], 112)
  <2>1. Reset(m[1], 8) \in Chip /\ Reset(m[2], 112) \in Chip
    <3>1. 8 \in 0 .. 255 /\ 112 \in 0 .. 255
      OBVIOUS
    <3> QED BY <1>2, <1>3, <3>1, Zenon
  <2> QED BY <1>1, <2>1 DEF PicPair
<1>5. /\ pic.master.icw = 0 /\ pic.slave.icw = 0 /\ pic.master.isr = {} /\ pic.slave.isr = {}
      /\ pic.master.irr = {}
  BY <1>4 DEF Reset
<1>6. handling = << >> /\ handling \in Seq(0 .. 15) /\ DOMAIN handling = {}
  BY DEF PicInit
<1>7. enabled = Unmasked(pic) /\ enabled \subseteq 0 .. 15
  BY DEF PicInit, Unmasked
<1> QED BY <1>4, <1>5, <1>6, <1>7 DEF PicInv, MasksAsAsked, PicTypeOK, Nested

\* A step that changes only masks and requests keeps the nesting.
LEMMA ServiceUnchanged ==
  ASSUME Nested, handling' = handling,
         pic'.master.isr = pic.master.isr, pic'.slave.isr = pic.slave.isr,
         pic'.master.base = pic.master.base, Cascade \notin pic'.master.irr
  PROVE  Nested'
BY DEF Nested, Remapped

\* The lines whose mask bit is clear, chip by chip.
LEMMA Masks ==
  ASSUME NEW p, NEW irq \in 0 .. 15
  PROVE  irq \in Unmasked(p) <=> IF irq < 8 THEN irq \notin p.master.imr
                                            ELSE irq - 8 \notin p.slave.imr
BY DEF Unmasked

\* pic_init puts the masks back that it read.
LEMMA RemapStep ==
  ASSUME PicInv, Remap
  PROVE  PicInv'
<1>1. pic' = [master |-> Fresh(32, pic.master.imr, 0), slave |-> Fresh(40, pic.slave.imr, 0)]
  BY RemapKeepsMasks DEF Remap, PicInv, MasksAsAsked, PicTypeOK
<1>2. /\ pic'.master = Fresh(32, pic.master.imr, 0) /\ pic'.slave = Fresh(40, pic.slave.imr, 0)
  BY <1>1
<1>3. handling = << >> /\ UNCHANGED <<handling, enabled>>
  BY DEF Remap, Remapped, PicInv, Nested
<1>4. pic.master.imr \in SUBSET Lines /\ pic.slave.imr \in SUBSET Lines
  BY DEF PicInv, MasksAsAsked, PicTypeOK, PicPair, Chip
<1>5. pic' \in PicPair /\ pic'.master.icw = 0 /\ pic'.slave.icw = 0
  BY <1>1, <1>4 DEF Fresh, PicPair, Chip
<1>6. pic'.master.imr = pic.master.imr /\ pic'.slave.imr = pic.slave.imr
  BY <1>2 DEF Fresh
<1>7. MasksAsAsked'
  BY <1>3, <1>5, <1>6 DEF PicInv, MasksAsAsked, PicTypeOK, Unmasked
<1>8. Nested'
  BY <1>2, <1>3 DEF Nested, Fresh, Remapped
<1> QED BY <1>7, <1>8 DEF PicInv

\* A call that only changes masks, and keeps the books on them.
LEMMA MaskStep ==
  ASSUME PicInv, NEW M \in SUBSET Lines, NEW S \in SUBSET Lines,
         pic'.master = [pic.master EXCEPT !.imr = M],
         pic'.slave = [pic.slave EXCEPT !.imr = S],
         pic' = [master |-> pic'.master, slave |-> pic'.slave],
         handling' = handling,
         enabled' \subseteq 0 .. 15,
         \A j \in 0 .. 15 : j \in enabled' <=> IF j < 8 THEN j \notin M ELSE j - 8 \notin S
  PROVE  PicInv'
<1>1. pic.master \in Chip /\ pic.slave \in Chip /\ pic.master.icw = 0 /\ pic.slave.icw = 0
  BY DEF PicInv, MasksAsAsked, PicTypeOK, PicPair
<1>2. /\ pic'.master \in Chip /\ pic'.slave \in Chip
      /\ pic'.master.icw = 0 /\ pic'.slave.icw = 0
      /\ pic'.master.isr = pic.master.isr /\ pic'.slave.isr = pic.slave.isr
      /\ pic'.master.irr = pic.master.irr /\ pic'.master.base = pic.master.base
      /\ pic'.master.imr = M /\ pic'.slave.imr = S
  BY <1>1 DEF Chip
<1>3. pic' \in PicPair
  BY <1>2 DEF PicPair
<1>4. Unmasked(pic') = enabled'
  <2>1. \A j \in 0 .. 15 : j \in Unmasked(pic') <=> j \in enabled'
    BY <1>2, Masks, Zenon
  <2>2. Unmasked(pic') \subseteq 0 .. 15
    BY DEF Unmasked
  <2> QED BY <2>1, <2>2
<1>5. MasksAsAsked'
  BY <1>2, <1>3, <1>4 DEF PicInv, MasksAsAsked, PicTypeOK
<1>6. Nested'
  BY <1>2, ServiceUnchanged DEF PicInv, Nested
<1> QED BY <1>5, <1>6 DEF PicInv
\* pic_mask_irq and pic_unmask_irq change the one bit.
LEMMA MaskCallStep ==
  ASSUME PicInv, NEW irq \in 0 .. 15, Mask(irq) \/ Unmask(irq)
  PROVE  PicInv'
<1> DEFINE m == pic.master.imr
           s == pic.slave.imr
<1>1. pic \in PicPair /\ Operating(pic) /\ pic.master \in Chip /\ pic.slave \in Chip
  BY DEF PicInv, MasksAsAsked, PicTypeOK, Operating, PicPair
<1>2. m \in SUBSET Lines /\ s \in SUBSET Lines
  BY <1>1 DEF Chip
<1>3. enabled \subseteq 0 .. 15 /\ \A j \in 0 .. 15 :
        j \in enabled <=> IF j < 8 THEN j \notin m ELSE j - 8 \notin s
  BY Masks DEF PicInv, MasksAsAsked, PicTypeOK
<1>4. pic.master = [pic.master EXCEPT !.imr = m] /\ pic.slave = [pic.slave EXCEPT !.imr = s]
  BY <1>1 DEF Chip
<1> HIDE DEF m, s
<1>5. CASE Mask(irq)
  <2>1. pic' = pic_mask_irq(pic, irq) /\ enabled' = enabled \ {irq} /\ handling' = handling
    BY <1>5 DEF Mask
  <2>2. CASE irq < 8
    <3>1. /\ pic'.master = [pic.master EXCEPT !.imr = m \cup {irq}]
          /\ pic'.slave = [pic.slave EXCEPT !.imr = s]
          /\ pic' = [master |-> pic'.master, slave |-> pic'.slave]
      BY <1>1, <1>4, <2>1, <2>2, IrqMasked, Zenon DEF m
    <3>2. m \cup {irq} \in SUBSET Lines
      BY <1>2, <2>2 DEF Lines
    <3>3. enabled' \subseteq 0 .. 15 /\ \A j \in 0 .. 15 :
            j \in enabled' <=> IF j < 8 THEN j \notin m \cup {irq} ELSE j - 8 \notin s
      BY <1>3, <2>1, <2>2
    <3> QED BY <1>2, <2>1, <3>1, <3>2, <3>3, MaskStep, Zenon
  <2>3. CASE ~ (irq < 8)
    <3>1. /\ pic'.master = [pic.master EXCEPT !.imr = m]
          /\ pic'.slave = [pic.slave EXCEPT !.imr = s \cup {irq - 8}]
          /\ pic' = [master |-> pic'.master, slave |-> pic'.slave]
      BY <1>1, <1>4, <2>1, <2>3, IrqMasked, Zenon DEF s
    <3>2. s \cup {irq - 8} \in SUBSET Lines
      BY <1>2, <2>3 DEF Lines
    <3>3. enabled' \subseteq 0 .. 15 /\ \A j \in 0 .. 15 :
            j \in enabled' <=> IF j < 8 THEN j \notin m ELSE j - 8 \notin s \cup {irq - 8}
      BY <1>3, <2>1, <2>3
    <3> QED BY <1>2, <2>1, <3>1, <3>2, <3>3, MaskStep, Zenon
  <2> QED BY <2>2, <2>3
<1>6. CASE Unmask(irq)
  <2>1. pic' = pic_unmask_irq(pic, irq) /\ enabled' = enabled \cup {irq} /\ handling' = handling
    BY <1>6 DEF Unmask
  <2>2. CASE irq < 8
    <3>1. /\ pic'.master = [pic.master EXCEPT !.imr = m \ {irq}]
          /\ pic'.slave = [pic.slave EXCEPT !.imr = s]
          /\ pic' = [master |-> pic'.master, slave |-> pic'.slave]
      BY <1>1, <1>4, <2>1, <2>2, IrqUnmasked, Zenon DEF m
    <3>2. m \ {irq} \in SUBSET Lines
      BY <1>2
    <3>3. enabled' \subseteq 0 .. 15 /\ \A j \in 0 .. 15 :
            j \in enabled' <=> IF j < 8 THEN j \notin m \ {irq} ELSE j - 8 \notin s
      BY <1>3, <2>1, <2>2
    <3> QED BY <1>2, <2>1, <3>1, <3>2, <3>3, MaskStep, Zenon
  <2>3. CASE ~ (irq < 8)
    <3>1. /\ pic'.master = [pic.master EXCEPT !.imr = m]
          /\ pic'.slave = [pic.slave EXCEPT !.imr = s \ {irq - 8}]
          /\ pic' = [master |-> pic'.master, slave |-> pic'.slave]
      BY <1>1, <1>4, <2>1, <2>3, IrqUnmasked, Zenon DEF s
    <3>2. s \ {irq - 8} \in SUBSET Lines
      BY <1>2
    <3>3. enabled' \subseteq 0 .. 15 /\ \A j \in 0 .. 15 :
            j \in enabled' <=> IF j < 8 THEN j \notin m ELSE j - 8 \notin s \ {irq - 8}
      BY <1>3, <2>1, <2>3
    <3> QED BY <1>2, <2>1, <3>1, <3>2, <3>3, MaskStep, Zenon
  <2> QED BY <2>2, <2>3
<1> QED BY <1>5, <1>6

\* pic_mask_all and pic_unmask_all change every bit.
LEMMA MaskAllStep ==
  ASSUME PicInv, MaskAll \/ UnmaskAll
  PROVE  PicInv'
<1>1. pic \in PicPair /\ Operating(pic)
  BY DEF PicInv, MasksAsAsked, PicTypeOK, Operating
<1>2. Bits(255) = Lines /\ Bits(0) = {} /\ Lines \in SUBSET Lines /\ {} \in SUBSET Lines
  BY BitsOfConstants
<1>3. CASE MaskAll
  <2>1. pic' = ToBoth(pic, 255, 255) /\ enabled' = {} /\ handling' = handling
    BY <1>3 DEF MaskAll, pic_mask_all
  <2>2. /\ pic'.master = [pic.master EXCEPT !.imr = Lines]
        /\ pic'.slave = [pic.slave EXCEPT !.imr = Lines]
        /\ pic' = [master |-> pic'.master, slave |-> pic'.slave]
    BY <1>1, <1>2, <2>1, BothMasksWritten
  <2>3. enabled' \subseteq 0 .. 15 /\ \A j \in 0 .. 15 :
            j \in enabled' <=> IF j < 8 THEN j \notin Lines ELSE j - 8 \notin Lines
    BY <2>1 DEF Lines
  <2> QED BY <1>2, <2>1, <2>2, <2>3, MaskStep
<1>4. CASE UnmaskAll
  <2>1. pic' = ToBoth(pic, 0, 0) /\ enabled' = 0 .. 15 /\ handling' = handling
    BY <1>4 DEF UnmaskAll, pic_unmask_all
  <2>2. /\ pic'.master = [pic.master EXCEPT !.imr = {}]
        /\ pic'.slave = [pic.slave EXCEPT !.imr = {}]
        /\ pic' = [master |-> pic'.master, slave |-> pic'.slave]
    BY <1>1, <1>2, <2>1, BothMasksWritten
  <2>3. enabled' \subseteq 0 .. 15 /\ \A j \in 0 .. 15 :
            j \in enabled' <=> IF j < 8 THEN j \notin {} ELSE j - 8 \notin {}
    BY <2>1
  <2> QED BY <1>2, <2>1, <2>2, <2>3, MaskStep
<1> QED BY <1>3, <1>4

\* A step that leaves the masks alone keeps the books on them.
LEMMA MasksUnchanged ==
  ASSUME PicInv, pic' \in PicPair,
         pic'.master.icw = 0, pic'.slave.icw = 0,
         pic'.master.imr = pic.master.imr, pic'.slave.imr = pic.slave.imr,
         handling' \in Seq(0 .. 15), enabled' = enabled
  PROVE  MasksAsAsked'
BY DEF PicInv, MasksAsAsked, PicTypeOK, Unmasked

\* A request touches neither masks nor nesting.
LEMMA DeviceStep ==
  ASSUME PicInv, NEW irq \in Irqs, Device(irq)
  PROVE  PicInv'
<1>1. /\ pic \in PicPair /\ pic.master.icw = 0 /\ pic.slave.icw = 0
      /\ handling \in Seq(0 .. 15) /\ Cascade \notin pic.master.irr
  BY DEF PicInv, MasksAsAsked, PicTypeOK, Nested
<1>2. irq \in 0 .. 15 /\ irq # Cascade
  BY PicDriverAssumption
<1>3. pic' = Raise(pic, irq) /\ UNCHANGED <<handling, enabled>>
  BY DEF Device
<1>4. /\ pic' \in PicPair
      /\ pic'.master.irr = IF irq < 8 THEN pic.master.irr \cup {irq} ELSE pic.master.irr
      /\ pic'.master.isr = pic.master.isr /\ pic'.slave.isr = pic.slave.isr
      /\ pic'.master.imr = pic.master.imr /\ pic'.slave.imr = pic.slave.imr
      /\ pic'.master.base = pic.master.base
      /\ pic'.master.icw = pic.master.icw /\ pic'.slave.icw = pic.slave.icw
  BY <1>1, <1>2, <1>3, Raised, Zenon
<1>5. MasksAsAsked'
  BY <1>1, <1>3, <1>4, MasksUnchanged
<1>6. Nested'
  BY <1>1, <1>2, <1>3, <1>4, ServiceUnchanged DEF PicInv
<1> QED BY <1>5, <1>6 DEF PicInv


\* The interrupt taken is of higher priority than all being handled.
LEMMA TakeStep ==
  ASSUME PicInv, Take
  PROVE  PicInv'
<1> DEFINE irq == NextIrq(pic)
           n == Len(handling)
<1>1. /\ pic \in PicPair /\ pic.master.icw = 0 /\ pic.slave.icw = 0
      /\ pic.master \in Chip /\ pic.slave \in Chip
      /\ handling \in Seq(0 .. 15) /\ Cascade \notin pic.master.irr
  BY DEF PicInv, MasksAsAsked, PicTypeOK, Nested, PicPair
<1>2. /\ Remapped /\ INTR(pic) /\ pic' = Acknowledge(pic)
      /\ handling' = Append(handling, irq) /\ enabled' = enabled
  BY DEF Take
<1>3. /\ irq \in 0 .. 15 /\ irq # Cascade
      /\ \A s \in pic.master.isr : MasterLine(irq) < s
      /\ pic'.master = Served(pic.master, MasterLine(irq))
      /\ pic'.slave = IF irq >= 8 THEN Served(pic.slave, irq - 8) ELSE pic.slave
      /\ pic' = [master |-> pic'.master, slave |-> pic'.slave]
  BY <1>1, <1>2, Taken
<1> HIDE DEF irq
<1>4. MasterLine(irq) \in Lines /\ (irq >= 8 => irq - 8 \in Lines)
  BY <1>3 DEF MasterLine, Lines, Cascade
<1>5. /\ pic'.master \in Chip /\ pic'.master.isr = pic.master.isr \cup {MasterLine(irq)}
      /\ pic'.master.irr \subseteq pic.master.irr
      /\ pic'.master.imr = pic.master.imr /\ pic'.master.icw = pic.master.icw
      /\ pic'.master.base = pic.master.base
  BY <1>1, <1>3, <1>4, ChipServed
<1>6. /\ pic'.slave \in Chip
      /\ pic'.slave.isr = IF irq >= 8 THEN pic.slave.isr \cup {irq - 8} ELSE pic.slave.isr
      /\ pic'.slave.imr = pic.slave.imr /\ pic'.slave.icw = pic.slave.icw
  <2>1. CASE irq >= 8
    <3>1. irq - 8 \in Lines /\ pic'.slave = Served(pic.slave, irq - 8)
      BY <1>3, <1>4, <2>1
    <3>2. /\ pic'.slave \in Chip /\ pic'.slave.isr = pic.slave.isr \cup {irq - 8}
          /\ pic'.slave.imr = pic.slave.imr /\ pic'.slave.icw = pic.slave.icw
      BY <1>1, <3>1, ChipServed
    <3> QED BY <2>1, <3>2
  <2>2. CASE ~ (irq >= 8)
    BY <1>1, <1>3, <2>2
  <2> QED BY <2>1, <2>2
<1>7. pic' \in PicPair
  BY <1>3, <1>5, <1>6 DEF PicPair
<1>8. /\ handling' \in Seq(0 .. 15) /\ n \in Nat
      /\ DOMAIN handling = 1 .. n /\ DOMAIN handling' = 1 .. n + 1
      /\ handling'[n + 1] = irq /\ \A a \in 1 .. n : handling'[a] = handling[a]
  BY <1>1, <1>2, <1>3
<1>9. MasksAsAsked'
  BY <1>1, <1>2, <1>5, <1>6, <1>7, <1>8, MasksUnchanged
<1> HIDE DEF n
<1>10. \A a \in 1 .. n : MasterLine(handling[a]) \in pic.master.isr
  BY <1>8 DEF PicInv, Nested
<1>11. pic'.master.isr = {MasterLine(handling'[a]) : a \in DOMAIN handling'}
  <2>1. pic.master.isr = {MasterLine(handling[a]) : a \in 1 .. n}
    BY <1>8 DEF PicInv, Nested
  <2>2. 1 .. n + 1 = (1 .. n) \cup {n + 1}
    BY <1>8
  <2> QED BY <1>5, <1>8, <2>1, <2>2
<1>12. pic'.slave.isr = {handling'[a] - 8 : a \in {b \in DOMAIN handling' : handling'[b] >= 8}}
  <2>1. pic.slave.isr = {handling[a] - 8 : a \in {b \in 1 .. n : handling[b] >= 8}}
    BY <1>8 DEF PicInv, Nested
  <2>2. 1 .. n + 1 = (1 .. n) \cup {n + 1}
    BY <1>8
  <2> QED BY <1>3, <1>6, <1>8, <2>1, <2>2
<1>13. \A a, b \in DOMAIN handling' :
         a < b => MasterLine(handling'[b]) < MasterLine(handling'[a])
  <2> SUFFICES ASSUME NEW a \in 1 .. n + 1, NEW b \in 1 .. n + 1, a < b
               PROVE  MasterLine(handling'[b]) < MasterLine(handling'[a])
    BY <1>8
  <2>1. a \in 1 .. n /\ handling'[a] = handling[a]
    BY <1>8
  <2>2. CASE b = n + 1
    BY <1>3, <1>8, <1>10, <2>1, <2>2
  <2>3. CASE b # n + 1
    <3>1. b \in 1 .. n /\ handling'[b] = handling[b]
      BY <1>8, <2>3
    <3> QED BY <1>8, <2>1, <3>1 DEF PicInv, Nested
  <2> QED BY <2>2, <2>3
<1>14. \A a \in DOMAIN handling' : handling'[a] # Cascade
  BY <1>3, <1>8 DEF PicInv, Nested
<1>15. Cascade \notin pic'.master.irr /\ Remapped'
  BY <1>1, <1>2, <1>5 DEF Remapped
<1> QED BY <1>9, <1>11, <1>12, <1>13, <1>14, <1>15 DEF PicInv, Nested

\* The innermost handler's line is the one EOI ends, on each chip it uses.
LEMMA EndStep ==
  ASSUME PicInv, End
  PROVE  PicInv'
<1> DEFINE n == Len(handling)
           irq == handling[Len(handling)]
           ml(a) == MasterLine(handling[a])
<1>1. /\ pic \in PicPair /\ pic.master.icw = 0 /\ pic.slave.icw = 0
      /\ pic.master \in Chip /\ pic.slave \in Chip
      /\ handling \in Seq(0 .. 15) /\ Cascade \notin pic.master.irr
  BY DEF PicInv, MasksAsAsked, PicTypeOK, Nested, PicPair
<1>2. /\ handling # << >> /\ pic' = pic_send_eoi(pic, irq)
      /\ handling' = SubSeq(handling, 1, Len(handling) - 1) /\ enabled' = enabled
  BY DEF End
<1>3. n \in Nat \ {0} /\ DOMAIN handling = 1 .. n /\ irq = handling[n] /\ irq \in 0 .. 15
  BY <1>1, <1>2
<1>4. /\ handling' \in Seq(0 .. 15) /\ DOMAIN handling' = 1 .. n - 1
      /\ \A a \in 1 .. n - 1 : handling'[a] = handling[a]
  BY <1>1, <1>2, <1>3
<1> HIDE DEF n, irq
<1>5. /\ pic'.master = [pic.master EXCEPT !.isr = Ended(pic.master.isr)]
      /\ pic'.slave = IF irq >= 8 THEN [pic.slave EXCEPT !.isr = Ended(pic.slave.isr)]
                                  ELSE pic.slave
      /\ pic' = [master |-> pic'.master, slave |-> pic'.slave]
  BY <1>1, <1>2, <1>3, EoiSent, Zenon
<1>6. /\ pic'.master \in Chip /\ pic'.master.isr = Ended(pic.master.isr)
      /\ pic'.master.irr = pic.master.irr /\ pic'.master.imr = pic.master.imr
      /\ pic'.master.icw = pic.master.icw /\ pic'.master.base = pic.master.base
  BY <1>1, <1>5, ChipEnded
<1>7. /\ pic'.slave \in Chip
      /\ pic'.slave.isr = IF irq >= 8 THEN Ended(pic.slave.isr) ELSE pic.slave.isr
      /\ pic'.slave.imr = pic.slave.imr /\ pic'.slave.icw = pic.slave.icw
  BY <1>1, <1>5, ChipEnded
<1>8. pic' \in PicPair
  BY <1>5, <1>6, <1>7 DEF PicPair
<1>9. MasksAsAsked'
  BY <1>1, <1>2, <1>4, <1>6, <1>7, <1>8, MasksUnchanged
<1>10. /\ pic.master.isr = {ml(a) : a \in 1 .. n}
       /\ pic.slave.isr = {handling[a] - 8 : a \in {b \in 1 .. n : handling[b] >= 8}}
       /\ \A a, b \in 1 .. n : a < b => ml(b) < ml(a)
       /\ \A a \in 1 .. n : handling[a] # Cascade /\ handling[a] \in 0 .. 15
  BY <1>1, <1>3 DEF PicInv, Nested
<1>11. \A a \in 1 .. n : ml(a) \in Lines /\ ml(a) \in Int
  BY <1>10 DEF MasterLine, Lines, Cascade
<1>12. Min(pic.master.isr) = ml(n) /\ pic.master.isr # {}
  <2>1. pic.master.isr \in SUBSET Lines /\ ml(n) \in pic.master.isr
    BY <1>3, <1>10, <1>11
  <2>2. \A l \in pic.master.isr : ml(n) <= l
    BY <1>3, <1>10, <1>11
  <2> HIDE DEF ml
  <2> QED BY <2>1, <2>2, LeastLine
<1>13. pic'.master.isr = {MasterLine(handling'[a]) : a \in DOMAIN handling'}
  <2>1. pic'.master.isr = {ml(a) : a \in 1 .. n} \ {ml(n)}
    BY <1>6, <1>10, <1>12 DEF Ended
  <2>2. \A a \in 1 .. n - 1 : ml(a) # ml(n)
    BY <1>3, <1>10, <1>11
  <2>3. 1 .. n = (1 .. n - 1) \cup {n}
    BY <1>3
  <2>4. \A a \in 1 .. n - 1 : MasterLine(handling'[a]) = ml(a)
    BY <1>4
  <2> HIDE DEF ml
  <2> QED BY <1>4, <2>1, <2>2, <2>3, <2>4
<1>14. pic'.slave.isr = {handling'[a] - 8 : a \in {b \in DOMAIN handling' : handling'[b] >= 8}}
  <2>1. 1 .. n = (1 .. n - 1) \cup {n}
    BY <1>3
  <2>2. CASE irq >= 8
    <3>1. \A a \in 1 .. n - 1 : ~ (handling[a] >= 8)
      <4> SUFFICES ASSUME NEW a \in 1 .. n - 1, handling[a] >= 8
                   PROVE  FALSE
        OBVIOUS
      <4>1. ml(n) < ml(a)
        BY <1>3, <1>10
      <4>2. ml(n) = Cascade /\ ml(a) = Cascade
        BY <1>3, <1>10, <2>2 DEF MasterLine
      <4> QED BY <4>1, <4>2 DEF Cascade
    <3>2. pic.slave.isr = {irq - 8}
      BY <1>3, <1>10, <2>1, <2>2, <3>1
    <3>3. pic'.slave.isr = {}
      <4>1. pic.slave.isr \in SUBSET Lines
        BY <1>1 DEF Chip
      <4>2. Min(pic.slave.isr) = irq - 8
        BY <3>2, <4>1, LeastLine
      <4> QED BY <1>7, <2>2, <3>2, <4>2 DEF Ended
    <3> QED BY <1>4, <3>1, <3>3
  <2>3. CASE ~ (irq >= 8)
    <3>1. {b \in 1 .. n : handling[b] >= 8} = {b \in 1 .. n - 1 : handling[b] >= 8}
      BY <1>3, <2>1, <2>3
    <3> QED BY <1>4, <1>7, <1>10, <2>3, <3>1
  <2> QED BY <2>2, <2>3
<1>15. /\ \A a, b \in DOMAIN handling' :
            a < b => MasterLine(handling'[b]) < MasterLine(handling'[a])
       /\ \A a \in DOMAIN handling' : handling'[a] # Cascade
  BY <1>3, <1>4, <1>10
<1>16. Cascade \notin pic'.master.irr /\ Remapped'
  BY <1>1, <1>2, <1>6 DEF Remapped, PicInv, Nested
<1> QED BY <1>9, <1>13, <1>14, <1>15, <1>16 DEF PicInv, Nested


\* What is in service is what is being handled.
LEMMA ServiceMatches ==
  ASSUME PicInv
  PROVE  EoiMatches
<1> DEFINE D == DOMAIN handling
           R == Range(handling)
<1>1. /\ handling \in Seq(0 .. 15) /\ \A a \in D : handling[a] \in 0 .. 15
      /\ R = {handling[a] : a \in D}
  BY DEF PicInv, MasksAsAsked, PicTypeOK, Range
<1>2. /\ pic.master.isr = {MasterLine(handling[a]) : a \in D}
      /\ pic.slave.isr = {handling[a] - 8 : a \in {b \in D : handling[b] >= 8}}
  BY DEF PicInv, Nested
<1> HIDE DEF D, R
<1>3. /\ R \subseteq 0 .. 15
      /\ pic.master.isr = {MasterLine(r) : r \in R}
      /\ pic.slave.isr = {r - 8 : r \in {i \in R : i >= 8}}
  BY <1>1, <1>2
<1> DEFINE C == IF \E irq \in R : irq >= 8 THEN {Cascade} ELSE {}
<1>4. \A r \in R : r \in Int /\ (r < 8 \/ r >= 8)
  BY <1>3
<1>5. pic.master.isr \subseteq R \cup C /\ C \subseteq pic.master.isr
  <2>1. \A r \in R : MasterLine(r) \in R \cup C
    BY <1>4 DEF MasterLine
  <2>2. \A r \in R : r >= 8 => MasterLine(r) = Cascade
    BY <1>4 DEF MasterLine
  <2>3. C \subseteq {MasterLine(r) : r \in R}
    BY <2>2
  <2> HIDE DEF C
  <2> QED BY <1>3, <2>1, <2>3
<1>6. {8 + l : l \in pic.slave.isr} = {r \in R : r >= 8}
  <2>1. \A r \in R : 8 + (r - 8) = r
    BY <1>4
  <2>2. \A l \in pic.slave.isr : \E r \in R : r >= 8 /\ l = r - 8
    BY <1>3
  <2>3. \A r \in R : r >= 8 => r - 8 \in pic.slave.isr
    BY <1>3
  <2> HIDE DEF C
  <2>4. {8 + l : l \in pic.slave.isr} \subseteq {r \in R : r >= 8}
    BY <2>1, <2>2
  <2>5. {r \in R : r >= 8} \subseteq {8 + l : l \in pic.slave.isr}
    BY <2>1, <2>3
  <2> QED BY <2>4, <2>5
<1>7. {r \in R : r < 8} \subseteq pic.master.isr
  BY <1>3, <1>4, Zenon DEF MasterLine
<1>8. InService(pic) = R \cup C
  <2>1. R = {r \in R : r < 8} \cup {r \in R : r >= 8}
    BY <1>4
  <2> HIDE DEF C
  <2> QED BY <1>5, <1>6, <1>7, <2>1 DEF InService
<1> QED BY <1>8 DEF EoiMatches, R

\* With nothing in service an enabled line gets through.
LEMMA EnabledInterrupts ==
  ASSUME PicInv
  PROVE  EnabledLinesInterrupt
<1> SUFFICES ASSUME NEW irq \in Irqs \cap enabled, Remapped, handling = << >>,
                    irq < 8 \/ Cascade \in enabled
             PROVE  INTR(Raise(pic, irq))
  BY DEF EnabledLinesInterrupt
<1> DEFINE q == Raise(pic, irq)
<1>1. /\ pic \in PicPair /\ pic.master \in Chip /\ pic.slave \in Chip
      /\ pic.master.isr = {} /\ pic.slave.isr = {}
      /\ irq \in 0 .. 15 /\ Unmasked(pic) = enabled
  BY PicDriverAssumption DEF PicInv, MasksAsAsked, PicTypeOK, Nested, PicPair
<1>2. /\ q.master \in Chip /\ q.slave \in Chip
      /\ q.master.isr = {} /\ q.slave.isr = {}
      /\ q.master.imr = pic.master.imr /\ q.slave.imr = pic.slave.imr
      /\ irq < 8 => irq \in q.master.irr
      /\ irq >= 8 => irq - 8 \in q.slave.irr
  <2>1. /\ q \in PicPair
        /\ q.master.irr = IF irq < 8 THEN pic.master.irr \cup {irq} ELSE pic.master.irr
        /\ q.slave.irr = IF irq < 8 THEN pic.slave.irr ELSE pic.slave.irr \cup {irq - 8}
        /\ q.master.isr = {} /\ q.slave.isr = {}
        /\ q.master.imr = pic.master.imr /\ q.slave.imr = pic.slave.imr
    BY <1>1, Raised, Zenon
  <2> HIDE DEF q
  <2>2. q.master \in Chip /\ q.slave \in Chip
    BY <2>1 DEF PicPair
  <2> QED BY <1>1, <2>1, <2>2
<1> HIDE DEF q
<1> DEFINE m == [q.master EXCEPT !.irr = q.master.irr \cup {Cascade}]
<1>5. m.irr = q.master.irr \cup {Cascade} /\ m.isr = {} /\ m.imr = pic.master.imr
  BY <1>2, ChipRequested DEF Cascade, Lines
<1>6. /\ irq \in Unmasked(pic)
      /\ irq % 8 = IF irq < 8 THEN irq ELSE irq - 8
  BY <1>1
<1>7. irq % 8 \notin (IF irq < 8 THEN pic.master.imr ELSE pic.slave.imr)
  BY <1>6 DEF Unmasked
<1>8. Wired(q) = IF Pending(q.slave) # {} THEN m ELSE q.master
  BY DEF Wired
<1> HIDE DEF m
<1>3. CASE irq < 8
  <2>1. irq \in Pending(q.master) /\ irq \in Pending(m)
    BY <1>2, <1>3, <1>5, <1>6, <1>7 DEF Pending
  <2>2. irq \in Pending(Wired(q))
    BY <1>8, <2>1
  <2> QED BY <2>2 DEF INTR, q
<1>4. CASE irq >= 8
  <2>1. irq - 8 \in Pending(q.slave)
    <3>1. irq - 8 \notin q.slave.imr
      <4>1. ~ (irq < 8)
        BY <1>1, <1>4
      <4>2. irq % 8 = irq - 8 /\ irq % 8 \notin pic.slave.imr
        BY <1>6, <1>7, <4>1, Zenon
      <4> QED BY <1>2, <4>2, Zenon
    <3> QED BY <1>2, <1>4, <3>1 DEF Pending
  <2>2. Cascade \notin pic.master.imr
    <3>1. Cascade \in Unmasked(pic)
      BY <1>1, <1>4
    <3> QED BY <3>1 DEF Unmasked, Cascade
  <2>3. Cascade \in Pending(m)
    BY <1>5, <2>2 DEF Pending
  <2>4. Cascade \in Pending(Wired(q))
    BY <1>8, <2>1, <2>3
  <2> QED BY <2>4 DEF INTR, q
<1> QED BY <1>1, <1>3, <1>4

\* Every step of Timer is a step of pic.c, of a device or of the CPU on the
\* chips, or leaves them alone.
LEMMA PicStep ==
  ASSUME PicInv, [Next]_vars
  PROVE  PicInv'
<1> DEFINE Still == UNCHANGED picVars
<1>1. \/ Remap \/ MaskAll \/ UnmaskAll \/ Take \/ End \/ Still
      \/ \E irq \in Irqs : Mask(irq) \/ Unmask(irq) \/ Device(irq)
      \/ Unmask(0)
  BY Zenon DEF Next, DriverCall, TimerTake, TimerEnd, TimerDevice, pit_init, pit_init_zero,
         SleepCall, SleepUntimed, SleepStart, SleepTarget, SleepTest, SleepWhile,
         SleepHlt, SleepReturn, vars
<1>2. \A irq \in Irqs : irq \in 0 .. 15 /\ irq # Cascade
  BY PicDriverAssumption
<1>3. CASE Still
  BY <1>3 DEF picVars, PicInv, MasksAsAsked, PicTypeOK, Nested, Remapped
<1>4. CASE \E irq \in Irqs : Mask(irq) \/ Unmask(irq) \/ Device(irq)
  BY <1>2, <1>4, MaskCallStep, DeviceStep
<1>5. CASE Unmask(0)
  BY <1>5, MaskCallStep
<1>6. CASE Remap \/ MaskAll \/ UnmaskAll \/ Take \/ End
  BY <1>6, RemapStep, MaskAllStep, TakeStep, EndStep
<1> QED BY <1>1, <1>3, <1>4, <1>5, <1>6

\* The invariant holds throughout.
LEMMA PicInvariant == Spec => []PicInv
<1>1. Init => PicInv
  BY PicInvInit DEF Init
<1>2. PicInv /\ [Next]_vars => PicInv'
  BY PicStep
<1> QED BY <1>1, <1>2, PTL DEF Spec

\* For every firmware mask, every set of devices and every interleaving of
\* drivers' calls with nested interrupts, exactly the lines the callers of
\* pic.c left enabled are unmasked, and no chip is left waiting for a
\* configuration word.
THEOREM MasksAreAsAsked == Spec => []MasksAsAsked
<1>1. PicInv => MasksAsAsked
  BY DEF PicInv
<1> QED BY <1>1, PicInvariant, PTL

\* For every nesting the priorities allow, pic_send_eoi's non-specific EOI
\* ends the interrupt it was called for, on both chips.
THEOREM EoisMatch == Spec => []EoiMatches
<1>1. PicInv => EoiMatches
  BY ServiceMatches
<1> QED BY <1>1, PicInvariant, PTL

\* After any nesting of handlers no enabled line is left blocked.
THEOREM EnabledLinesDoInterrupt == Spec => []EnabledLinesInterrupt
<1>1. PicInv => EnabledLinesInterrupt
  BY EnabledInterrupts
<1> QED BY <1>1, PicInvariant, PTL
=============================================================================
