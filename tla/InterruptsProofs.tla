-------------------------- MODULE InterruptsProofs --------------------------
(***************************************************************************)
(* Proofs about the running kernel: for every length of its output, every  *)
(* number of sleeps and every set of devices, exceptions and EAX values,   *)
(* the console lock has one owner, no timer interrupt is lost or counted   *)
(* twice, the drivers end their own interrupts, no interrupt finds the     *)
(* kernel unprepared, and a panic is final.                                *)
(*                                                                         *)
(* The inductive invariant KernelInv says which activation may be where on *)
(* the stack, what kernel_main's progress implies about the tables, and    *)
(* what a handler's progress implies about the controllers, the lock and   *)
(* the counter.  Most steps change only the innermost activation, so each  *)
(* part of the invariant has one lemma about such a step.                  *)
(***************************************************************************)
EXTENDS Interrupts, HardwareProofs, TLAPS

\* The leaves that name no prover are left to the SMT solver.
USE SMTT(30)

\* The operations kernel_main is made of.
MainOps ==
  {"log", "gdt_init", "pic_init", "idt_init", "keyboard_init", "pit_init", "sti", "cli",
   "sleep_start", "sleep_while", "hlt", "sleep_halted", "idle_halted"}

\* The handlers, and all there is to run.
HandlerFns ==
  {"irq0_timer_handler", "keyboard_handler", "isr_unhandled_interrupt", "kernel_panic"}

Fns == {"kernel_main"} \cup HandlerFns

\* The operations that take vga_lock.
Printing == {"log", "putc", "set_colors"}

\* What an interrupt leaves on the stack.
Words == {<< >>} \cup {Pushed(v, v, eax) : v \in Vectors, eax \in EaxValues}

Activation ==
  [fn : Fns, at : Nat, locks : 0 .. LogChars, holds : BOOLEAN, irq : 0 .. NoIrq,
   words : Words, saved_IF : BOOLEAN]

\* An activation is at an operation of its program, and is inside the console
\* code only at one that prints.
Proper(a) ==
  /\ a \in Activation /\ a.at \in DOMAIN Program(a.fn)
  /\ a.holds => a.locks > 0
  /\ a.locks > 0 => OpOf(a) \in Printing

\* kernel_main is the outermost activation and no other.
StackInv ==
  /\ stack \in Seq(Activation) /\ Len(stack) > 0
  /\ \A i \in 1 .. Len(stack) :
       Proper(stack[i]) /\ (stack[i].fn = "kernel_main" <=> i = 1)

\* Only kernel_main runs with IF set, so that a hardware interrupt's handler is
\* always the second activation, and has the handler of its line.
IrqInv ==
  /\ IF_flag \in BOOLEAN
  /\ Len(stack) > 1 => ~ IF_flag
  /\ \A i \in 1 .. Len(stack) :
       /\ i > 2 => stack[i].irq = NoIrq /\ ~ stack[i].saved_IF
       /\ i = 1 => stack[i].irq = NoIrq /\ stack[i].words = << >>
       /\ stack[i].irq = 0 <=> stack[i].fn = "irq0_timer_handler"
       /\ stack[i].fn = "keyboard_handler" => stack[i].irq = 1
       /\ stack[i].irq # NoIrq =>
            \E eax \in EaxValues :
              stack[i].words = Pushed(32 + stack[i].irq, 32 + stack[i].irq, eax)

\* How far kernel_main has got says what is set up.
BootInv ==
  LET p == stack[1].at IN
  /\ gdt_loaded \in BOOLEAN /\ idt_loaded \in BOOLEAN
  /\ gdt_loaded <=> p > 2
  /\ p > 4 => pic.master.base = 32 /\ pic.slave.base = 40
  /\ idt_loaded <=> p > 6
  /\ p > 6 => isr_handlers \in {Handlers, [Handlers EXCEPT ![33] = "keyboard_handler"]}
  /\ IF_flag \/ Len(stack) > 1 => p > 6

\* Both chips are operating, and nothing pulls the cascade line but the slave.
ChipsInv ==
  /\ pic \in PicPair /\ pic.master.icw = 0 /\ pic.slave.icw = 0
  /\ Cascade \notin pic.master.irr

\* Without exceptions there is at most the one handler, and the lines of the
\* timer and the keyboard are in service from its entry to its EOI.
AckInv ==
  /\ events \in [key : Nat, other : Nat, exception : Nat]
  /\ events.exception = 0 =>
       /\ Len(stack) = 1 \/ (Len(stack) = 2 /\ stack[2].irq # NoIrq)
       /\ 0 \in pic.master.isr => Len(stack) = 2 /\ stack[2].irq = 0
       /\ Len(stack) = 2 /\ stack[2].fn \in {"irq0_timer_handler", "keyboard_handler"} =>
            (stack[2].irq \in pic.master.isr <=> OpOf(stack[2]) # "iret")

\* Is the timer's handler still before its increment?
Owed == Len(stack) > 1 /\ stack[2].irq = 0 /\ OpOf(stack[2]) = "tick"

\* The counter trails the interrupts by the one owed.
CountInv ==
  /\ ticks \in Nat /\ acks \in Nat
  /\ acks = ticks + (IF Owed THEN 1 ELSE 0)

\* The lock is taken exactly when one activation is inside.
LockInv ==
  /\ vga_lock \in BOOLEAN
  /\ vga_lock <=> \E i \in 1 .. Len(stack) : stack[i].holds
  /\ \A i, j \in 1 .. Len(stack) : stack[i].holds /\ stack[j].holds => i = j

\* The inductive invariant.
KernelInv ==
  /\ StackInv /\ IrqInv /\ BootInv /\ ChipsInv /\ AckInv /\ CountInv /\ LockInv
  /\ kbd \in {"empty", "char", "special", "release"}

-----------------------------------------------------------------------------
(* The programs                                                            *)

\* What concatenation does to two sequences.
LEMMA Joined ==
  ASSUME NEW S, NEW s \in Seq(S), NEW t \in Seq(S), NEW z, z = s \o t
  PROVE  /\ z \in Seq(S) /\ Len(z) = Len(s) + Len(t) /\ DOMAIN z = 1 .. Len(s) + Len(t)
         /\ \A i \in 1 .. Len(s) : z[i] = s[i]
         /\ \A i \in 1 .. Len(t) : z[Len(s) + i] = t[i]
OBVIOUS

\* and what its elements are.
LEMMA Elements ==
  ASSUME NEW S, NEW s \in Seq(S)
  PROVE  \A k \in 1 .. Len(s) : s[k] \in S
OBVIOUS

\* The rounds of the loop that watches the ticks.
LEMMA WatchOps ==
  /\ Watch \in Seq(MainOps) /\ Len(Watch) = 5 * Sleeps
  /\ \A k \in 1 .. 5 * Sleeps :
       Watch[k] = IF (k - 1) % 5 = 0 THEN "sleep_start"
                  ELSE IF (k - 1) % 5 = 1 THEN "sleep_while"
                  ELSE IF (k - 1) % 5 = 2 THEN "hlt"
                  ELSE IF (k - 1) % 5 = 3 THEN "sleep_halted"
                  ELSE "log"
<1> DEFINE l == <<"log">>
           round == sleep_ms \o l
<1>1. sleep_ms \in Seq(MainOps) /\ l \in Seq(MainOps)
  BY DEF sleep_ms, MainOps
<1>2. Len(sleep_ms) = 4 /\ Len(l) = 1
  BY Zenon DEF sleep_ms
<1>3. l[1] = "log"
  BY Zenon
<1> HIDE DEF l
<1>4. round = sleep_ms \o l
  BY Zenon
<1>5. Watch = [k \in 1 .. Len(round) * Sleeps |-> round[((k - 1) % Len(round)) + 1]]
  BY Zenon DEF Watch, l
<1> HIDE DEF round
<1>6. /\ round \in Seq(MainOps) /\ Len(round) = Len(sleep_ms) + Len(l)
      /\ \A i \in 1 .. Len(sleep_ms) : round[i] = sleep_ms[i]
      /\ \A i \in 1 .. Len(l) : round[Len(sleep_ms) + i] = l[i]
  BY <1>1, <1>4, Joined
<1>7. Len(round) = 5 /\ (\A i \in 1 .. 4 : round[i] = sleep_ms[i]) /\ round[5] = l[1]
  BY <1>2, <1>6
<1>8. \A i \in 1 .. Len(round) : round[i] \in MainOps
  BY <1>6, Elements, Zenon
<1>9. /\ round[1] = "sleep_start" /\ round[2] = "sleep_while" /\ round[3] = "hlt"
      /\ round[4] = "sleep_halted" /\ round[5] = "log"
  BY <1>3, <1>7 DEF sleep_ms
<1>10. 5 * Sleeps \in Nat /\ \A k \in 1 .. 5 * Sleeps : (k - 1) % 5 \in 0 .. 4
  BY InterruptsAssumption
<1>11. Watch = [k \in 1 .. 5 * Sleeps |-> round[((k - 1) % 5) + 1]]
  BY <1>5, <1>7, Zenon
<1>12. \A k \in 1 .. 5 * Sleeps : Watch[k] \in MainOps
  BY <1>7, <1>8, <1>10, <1>11
<1>13. Watch \in Seq(MainOps) /\ Len(Watch) = 5 * Sleeps
  BY <1>10, <1>11, <1>12
<1> QED BY <1>9, <1>10, <1>11, <1>13

\* kernel_main before and after that loop.
Boot ==
  <<"log", "gdt_init", "log", "pic_init", "log", "idt_init", "log", "keyboard_init", "log",
    "pit_init", "log", "sti", "log">>

Idle == <<"cli", "sti", "log", "hlt", "idle_halted">>

\* kernel_main's operations by their number.
LEMMA MainOpsAre ==
  /\ 5 * Sleeps \in Nat /\ DOMAIN kernel_main = 1 .. 18 + 5 * Sleeps
  /\ \A p \in 1 .. 13 : kernel_main[p] = Boot[p]
  /\ \A k \in 1 .. 5 * Sleeps : kernel_main[13 + k] = Watch[k]
  /\ \A k \in 1 .. 5 : kernel_main[13 + 5 * Sleeps + k] = Idle[k]
<1> DEFINE b == Boot \o Watch
           n == 5 * Sleeps
<1>1. Watch \in Seq(MainOps) /\ Boot \in Seq(MainOps) /\ Idle \in Seq(MainOps)
  BY WatchOps DEF Boot, Idle, MainOps
<1>2. Len(Boot) = 13 /\ Len(Idle) = 5
  BY Zenon DEF Boot, Idle
<1>3. Len(Watch) = n /\ n \in Nat
  BY WatchOps, InterruptsAssumption
<1>4. kernel_main = b \o Idle /\ b = Boot \o Watch
  BY Zenon DEF kernel_main, Boot, Idle
<1> HIDE DEF b, n
<1>5. b \in Seq(MainOps)
  BY <1>1, <1>4, Joined, Zenon
<1>6. /\ Len(b) = Len(Boot) + Len(Watch)
      /\ \A p \in 1 .. Len(Boot) : b[p] = Boot[p]
      /\ \A k \in 1 .. Len(Watch) : b[Len(Boot) + k] = Watch[k]
  BY <1>1, <1>4, Joined
<1>7. /\ DOMAIN kernel_main = 1 .. Len(b) + Len(Idle)
      /\ \A p \in 1 .. Len(b) : kernel_main[p] = b[p]
      /\ \A k \in 1 .. Len(Idle) : kernel_main[Len(b) + k] = Idle[k]
  BY <1>1, <1>4, <1>5, Joined
<1>8. \A p \in 1 .. 13 : kernel_main[p] = Boot[p]
  BY <1>2, <1>3, <1>6, <1>7
<1>9. \A k \in 1 .. n : kernel_main[13 + k] = Watch[k]
  BY <1>2, <1>3, <1>6, <1>7
<1>10. DOMAIN kernel_main = 1 .. 18 + n /\ \A k \in 1 .. 5 : kernel_main[13 + n + k] = Idle[k]
  BY <1>2, <1>3, <1>6, <1>7
<1> QED BY <1>3, <1>8, <1>9, <1>10, Zenon DEF n

\* Where kernel_main goes from each of its operations.
LEMMA MainSteps ==
  ASSUME NEW p \in DOMAIN kernel_main, NEW op, op = kernel_main[p]
  PROVE  /\ p \in Nat /\ p > 0 /\ op \in MainOps
         /\ op # "idle_halted" => p + 1 \in DOMAIN kernel_main
         /\ op = "sleep_while" => p > 13 /\ p + 3 \in DOMAIN kernel_main
         /\ op = "sleep_halted" => p > 13 /\ p - 2 \in DOMAIN kernel_main
         /\ op = "idle_halted" => p > 13 /\ p - 1 \in DOMAIN kernel_main
         /\ op = "gdt_init" <=> p = 2
         /\ op = "pic_init" <=> p = 4
         /\ op = "idt_init" <=> p = 6
         /\ op = "keyboard_init" <=> p = 8
         /\ op = "pit_init" <=> p = 10
         /\ op \in {"sti", "cli", "hlt", "sleep_start"} => p > 10
<1> DEFINE n == 5 * Sleeps
<1>1. /\ n \in Nat /\ DOMAIN kernel_main = 1 .. 18 + n
      /\ \A i \in 1 .. 13 : kernel_main[i] = Boot[i]
      /\ \A k \in 1 .. n : kernel_main[13 + k] = Watch[k]
      /\ \A k \in 1 .. 5 : kernel_main[13 + n + k] = Idle[k]
  BY MainOpsAre, Zenon
<1>2. \A k \in 1 .. n :
       Watch[k] = IF (k - 1) % 5 = 0 THEN "sleep_start"
                  ELSE IF (k - 1) % 5 = 1 THEN "sleep_while"
                  ELSE IF (k - 1) % 5 = 2 THEN "hlt"
                  ELSE IF (k - 1) % 5 = 3 THEN "sleep_halted"
                  ELSE "log"
  BY WatchOps, Zenon
<1>6. n % 5 = 0
  BY InterruptsAssumption
<1> HIDE DEF n
<1>7. n \in Nat /\ p \in 1 .. 18 + n
  BY <1>1, Zenon
<1>8. \A q \in 1 .. 18 + n : q \in DOMAIN kernel_main
  BY <1>1, Zenon
<1>3. CASE p <= 13
  <2>1. p \in 1 .. 13 /\ \A q \in 1 .. 14 : q \in 1 .. 18 + n
    BY <1>3, <1>7
  <2>2. op = Boot[p] /\ \A q \in 1 .. 14 : q \in DOMAIN kernel_main
    BY <1>1, <1>8, <2>1, Zenon
  <2> QED BY <2>1, <2>2 DEF Boot, MainOps
<1>4. CASE p > 13 /\ p <= 13 + n
  <2> DEFINE k == p - 13
  <2>5. k \in 1 .. n /\ p = 13 + k
    BY <1>4, <1>7
  <2>1. k \in 1 .. n /\ op = Watch[k]
    BY <1>1, <2>5, Zenon
  <2>a. /\ p + 1 \in 1 .. 18 + n /\ p + 3 \in 1 .. 18 + n
        /\ p - 1 \in 1 .. 18 + n /\ p - 2 \in 1 .. 18 + n
    BY <1>4, <1>7
  <2>2. p + 1 \in DOMAIN kernel_main /\ p + 3 \in DOMAIN kernel_main
    BY <1>8, <2>a, Zenon
  <2>3. p - 1 \in DOMAIN kernel_main /\ p - 2 \in DOMAIN kernel_main
    BY <1>8, <2>a, Zenon
  <2> HIDE DEF k
  <2>4. op \in {"sleep_start", "sleep_while", "hlt", "sleep_halted", "log"}
    BY <1>2, <2>1, Zenon
  <2>6. p \in Nat /\ p > 13
    BY <1>4, <1>7
  <2> QED BY <2>2, <2>3, <2>4, <2>6 DEF MainOps
<1>5. CASE p > 13 + n
  <2> DEFINE k == p - (13 + n)
  <2>1. k \in 1 .. 5 /\ p = 13 + n + k
    BY <1>5, <1>7
  <2>2. op = Idle[k]
    BY <1>1, <2>1, Zenon
  <2>a. /\ p > 13 /\ p \in Nat /\ p - 1 \in 1 .. 18 + n
        /\ k < 5 => p + 1 \in 1 .. 18 + n
    BY <1>5, <1>7
  <2>3. /\ p > 13 /\ p \in Nat /\ p - 1 \in DOMAIN kernel_main
        /\ k < 5 => p + 1 \in DOMAIN kernel_main
    BY <1>8, <2>a, Zenon
  <2> HIDE DEF k
  <2> QED BY <2>1, <2>2, <2>3 DEF Idle, MainOps
<1> QED BY <1>1, <1>3, <1>4, <1>5

\* Where a handler goes from each of its operations.
LEMMA HandlerSteps ==
  ASSUME NEW fn \in HandlerFns, NEW i \in DOMAIN Program(fn), NEW op, op = Program(fn)[i]
  PROVE  /\ i \in Nat /\ i > 0
         /\ op \in {"tick", "eoi_timer", "iret", "inb", "log", "putc", "eoi_keyboard",
                    "eoi_if_irq", "cli", "set_colors", "hlt", "panic_halted"}
         /\ op \notin {"iret", "panic_halted"} => i + 1 \in DOMAIN Program(fn)
         /\ op = "panic_halted" => i - 1 \in DOMAIN Program(fn)
         /\ op = "inb" => fn = "keyboard_handler"
         /\ op = "tick" <=> fn = "irq0_timer_handler" /\ i = 1
         /\ op = "eoi_timer" => fn = "irq0_timer_handler"
         /\ op = "eoi_keyboard" => fn = "keyboard_handler"
         /\ op = "eoi_if_irq" => fn = "isr_unhandled_interrupt"
         /\ op \in {"eoi_timer", "eoi_keyboard"} => Program(fn)[i + 1] = "iret"
         /\ fn \in {"irq0_timer_handler", "keyboard_handler"}
              /\ op \notin {"eoi_timer", "eoi_keyboard", "iret"}
              => Program(fn)[i + 1] # "iret"
         /\ op = "iret" => fn # "kernel_panic"
<1>1. CASE fn = "irq0_timer_handler"
  <2>1. Program(fn) = irq0_timer_handler
    BY <1>1, Zenon DEF Program
  <2> QED BY <1>1, <2>1 DEF irq0_timer_handler
<1>2. CASE fn = "keyboard_handler"
  <2>1. Program(fn) = keyboard_handler
    BY <1>2, Zenon DEF Program
  <2> QED BY <1>2, <2>1 DEF keyboard_handler
<1>3. CASE fn = "isr_unhandled_interrupt"
  <2>1. Program(fn) = isr_unhandled_interrupt
    BY <1>3, Zenon DEF Program
  <2> QED BY <1>3, <2>1 DEF isr_unhandled_interrupt
<1>4. CASE fn = "kernel_panic"
  <2>1. Program(fn) = kernel_panic
    BY <1>4, Zenon DEF Program
  <2> QED BY <1>4, <2>1 DEF kernel_panic
<1> QED BY <1>1, <1>2, <1>3, <1>4, Zenon DEF HandlerFns

\* Where they start, and where keyboard_handler goes with the byte it reads.
LEMMA HandlerStarts ==
  /\ \A fn \in Fns : 1 \in DOMAIN Program(fn)
  /\ Program("kernel_main") = kernel_main
  /\ Program("irq0_timer_handler")[1] = "tick" /\ Program("keyboard_handler")[1] = "inb"
  /\ \A k \in {"char", "special", "release"} :
       /\ KeyPath(k) \in DOMAIN Program("keyboard_handler")
       /\ Program("keyboard_handler")[KeyPath(k)] # "iret"
<1>1. Program("kernel_main") = kernel_main
  BY Zenon DEF Program
<1>2. 1 \in DOMAIN kernel_main
  BY MainOpsAre
<1>3. /\ Program("irq0_timer_handler") = irq0_timer_handler
      /\ Program("keyboard_handler") = keyboard_handler
      /\ Program("isr_unhandled_interrupt") = isr_unhandled_interrupt
      /\ Program("kernel_panic") = kernel_panic
  BY Zenon DEF Program
<1>4. /\ 1 \in DOMAIN irq0_timer_handler /\ 1 \in DOMAIN keyboard_handler
      /\ 1 \in DOMAIN isr_unhandled_interrupt /\ 1 \in DOMAIN kernel_panic
      /\ irq0_timer_handler[1] = "tick" /\ keyboard_handler[1] = "inb"
  BY DEF irq0_timer_handler, keyboard_handler, isr_unhandled_interrupt, kernel_panic
<1>5. \A k \in {"char", "special", "release"} :
         KeyPath(k) \in DOMAIN keyboard_handler /\ keyboard_handler[KeyPath(k)] # "iret"
  BY DEF keyboard_handler, KeyPath
<1> QED BY <1>1, <1>2, <1>3, <1>4, <1>5, Zenon DEF Fns, HandlerFns

\* How often an operation takes vga_lock.
LEMMA LocksOf ==
  ASSUME NEW op
  PROVE  Locks(op) \in 0 .. LogChars /\ (Locks(op) > 0 <=> op \in Printing)
BY InterruptsAssumption DEF Locks, Printing

-----------------------------------------------------------------------------
(* Activations                                                             *)

\* What a step of an activation leaves alone.
Same(b, a) ==
  b.fn = a.fn /\ b.irq = a.irq /\ b.words = a.words /\ b.saved_IF = a.saved_IF

\* One field of an activation changes.
LEMMA AtChanged ==
  ASSUME NEW a \in Activation, NEW i \in Nat, NEW b, b = [a EXCEPT !.at = i]
  PROVE  b \in Activation /\ Same(b, a) /\ b.at = i /\ b.locks = a.locks /\ b.holds = a.holds
BY Zenon DEF Activation, Same

LEMMA LocksChanged ==
  ASSUME NEW a \in Activation, NEW l \in 0 .. LogChars, NEW b, b = [a EXCEPT !.locks = l]
  PROVE  b \in Activation /\ Same(b, a) /\ b.at = a.at /\ b.locks = l /\ b.holds = a.holds
BY Zenon DEF Activation, Same

LEMMA HoldsChanged ==
  ASSUME NEW a \in Activation, NEW h \in BOOLEAN, NEW b, b = [a EXCEPT !.holds = h]
  PROVE  b \in Activation /\ Same(b, a) /\ b.at = a.at /\ b.locks = a.locks /\ b.holds = h
BY Zenon DEF Activation, Same

\* Programs are numbered from 1.
LEMMA Positions ==
  ASSUME NEW fn \in Fns, NEW i \in DOMAIN Program(fn)
  PROVE  i \in Nat /\ i > 0
<1>1. CASE fn = "kernel_main"
  BY <1>1, HandlerStarts, MainSteps, Zenon
<1>2. CASE fn \in HandlerFns
  BY <1>2, HandlerSteps, Zenon
<1> QED BY <1>1, <1>2, Zenon DEF Fns

\* An activation outside the console code moves to another operation.
LEMMA Moved ==
  ASSUME NEW a, Proper(a), ~ a.holds, NEW i \in DOMAIN Program(a.fn), NEW b, b = At(a, i)
  PROVE  Proper(b) /\ Same(b, a) /\ ~ b.holds /\ b.at = i /\ OpOf(b) = Program(a.fn)[i]
<1> DEFINE op == Program(a.fn)[i]
           l == Locks(op)
           c == [a EXCEPT !.at = i]
<1>1. a \in Activation /\ a.fn \in Fns
  BY Zenon DEF Proper, Activation
<1>2. i \in Nat
  BY <1>1, Positions, Zenon
<1>3. l \in 0 .. LogChars /\ (l > 0 <=> op \in Printing)
  BY LocksOf, Zenon
<1>4. c = [a EXCEPT !.at = i]
  BY Zenon
<1>5. b = [c EXCEPT !.locks = l]
  BY <1>1, Zenon DEF At, Activation
<1> HIDE DEF op, l, c
<1>6. c \in Activation /\ Same(c, a) /\ c.at = i /\ c.holds = a.holds
  BY <1>1, <1>2, <1>4, AtChanged
<1>7. b \in Activation /\ Same(b, c) /\ b.at = c.at /\ b.locks = l /\ b.holds = c.holds
  BY <1>3, <1>5, <1>6, LocksChanged
<1>8. Same(b, a) /\ ~ b.holds /\ b.at = i
  BY <1>6, <1>7, Zenon DEF Same
<1>9. OpOf(b) = op
  BY <1>8, Zenon DEF OpOf, Same, op
<1> QED BY <1>3, <1>7, <1>8, <1>9, Zenon DEF Proper, Same, op

\* It enters the console code.
LEMMA Acquired ==
  ASSUME NEW a, Proper(a), a.locks > 0, NEW b, b = [a EXCEPT !.holds = TRUE]
  PROVE  Proper(b) /\ Same(b, a) /\ b.holds /\ b.at = a.at
<1>1. a \in Activation
  BY Zenon DEF Proper
<1>2. b \in Activation /\ Same(b, a) /\ b.at = a.at /\ b.locks = a.locks /\ b.holds = TRUE
  <2>1. TRUE \in BOOLEAN
    BY Zenon
  <2> QED BY <1>1, <2>1, HoldsChanged, Zenon
<1>3. OpOf(b) = OpOf(a)
  BY <1>2, Zenon DEF OpOf, Same
<1> QED BY <1>2, <1>3, Zenon DEF Proper, Same

\* It leaves it, and after the last character goes on to the next operation.
LEMMA Released ==
  ASSUME NEW a, Proper(a), a.holds,
         NEW d \in Activation, Same(d, a), d.at = a.at, ~ d.holds, d.locks = a.locks - 1,
         NEW b, b = IF d.locks = 0 THEN At(d, d.at + 1) ELSE d
  PROVE  /\ Proper(b) /\ Same(b, a) /\ ~ b.holds /\ OpOf(a) \in Printing
         /\ b.at = a.at \/ (b.at = a.at + 1 /\ a.at + 1 \in DOMAIN Program(a.fn))
<1>1. a \in Activation /\ a.fn \in Fns /\ a.locks > 0 /\ OpOf(a) \in Printing
  BY Zenon DEF Proper, Activation
<1>2. OpOf(d) = OpOf(a)
  BY Zenon DEF OpOf, Same
<1>3. Proper(d)
  BY <1>1, <1>2, Zenon DEF Proper, Same
<1>4. a.at + 1 \in DOMAIN Program(a.fn)
  <2>1. a.at \in DOMAIN Program(a.fn) /\ Program(a.fn)[a.at] \in Printing
    BY <1>1, Zenon DEF Proper, OpOf
  <2>2. CASE a.fn = "kernel_main"
    BY <2>1, <2>2, HandlerStarts, MainSteps, Zenon DEF Printing
  <2>3. CASE a.fn \in HandlerFns
    BY <2>1, <2>3, HandlerSteps DEF Printing
  <2> QED BY <1>1, <2>2, <2>3, Zenon DEF Fns
<1>5. CASE d.locks = 0
  <2>1. b = At(d, a.at + 1) /\ a.at + 1 \in DOMAIN Program(d.fn)
    BY <1>4, <1>5, Zenon DEF Same
  <2>2. Proper(b) /\ Same(b, d) /\ ~ b.holds /\ b.at = a.at + 1
    BY <1>3, <2>1, Moved
  <2> QED BY <1>1, <1>4, <2>2, Zenon DEF Same
<1>6. CASE d.locks # 0
  BY <1>1, <1>3, <1>6, Zenon
<1> QED BY <1>5, <1>6, Zenon

-----------------------------------------------------------------------------
(* The stack                                                               *)

\* The innermost activation changes.
LEMMA TopChanged ==
  ASSUME StackInv, NEW b, Proper(b), Same(b, Top), Becomes(b)
  PROVE  /\ StackInv' /\ Len(stack') = Len(stack) /\ stack'[Len(stack)] = b
         /\ \A i \in 1 .. Len(stack) : i # Len(stack) => stack'[i] = stack[i]
         /\ Top = stack[Len(stack)] /\ Proper(Top)
         /\ (Top.fn = "kernel_main" <=> Len(stack) = 1)
<1> DEFINE n == Len(stack)
<1>1. stack \in Seq(Activation) /\ n \in Nat /\ n > 0 /\ Top = stack[n]
  BY DEF StackInv, Top
<1>2. b \in Activation
  BY Zenon DEF Proper
<1>3. stack' = [stack EXCEPT ![n] = b]
  BY Zenon DEF Becomes
<1>4. /\ stack' \in Seq(Activation) /\ Len(stack') = n /\ stack'[n] = b
      /\ \A i \in 1 .. n : i # n => stack'[i] = stack[i]
  BY <1>1, <1>2, <1>3
<1>5. Proper(stack[n]) /\ (stack[n].fn = "kernel_main" <=> n = 1)
  <2>1. n \in 1 .. Len(stack)
    BY <1>1
  <2> QED BY <2>1, Zenon DEF StackInv
<1> HIDE DEF n
<1>6. ASSUME NEW i \in 1 .. n
      PROVE  Proper(stack'[i]) /\ (stack'[i].fn = "kernel_main" <=> i = 1)
  <2>1. CASE i = n
    BY <1>1, <1>4, <1>5, <2>1, Zenon DEF Same
  <2>2. CASE i # n
    BY <1>4, <2>2, Zenon DEF StackInv, n
  <2> QED BY <2>1, <2>2, Zenon
<1>7. StackInv'
  <2>1. Len(stack') > 0
    BY <1>1, <1>4, Zenon
  <2> QED BY <1>4, <1>6, <2>1, Zenon DEF StackInv, Proper, OpOf
<1> QED BY <1>1, <1>4, <1>5, <1>7, Zenon DEF n

\* What each part of the invariant needs of a step of the innermost activation:
\* one that lets no handler run with IF set.
LEMMA IrqTop ==
  ASSUME StackInv, IrqInv, NEW b, Proper(b), Same(b, Top), Becomes(b),
         IF_flag' \in BOOLEAN, Len(stack) > 1 => ~ IF_flag'
  PROVE  IrqInv'
<1>1. /\ Len(stack') = Len(stack) /\ stack'[Len(stack)] = b
      /\ \A i \in 1 .. Len(stack) : i # Len(stack) => stack'[i] = stack[i]
      /\ Top = stack[Len(stack)]
  BY TopChanged, Zenon
<1>2. \A i \in 1 .. Len(stack) : Same(stack'[i], stack[i])
  BY <1>1, Zenon DEF Same
<1> QED BY <1>1, <1>2 DEF IrqInv, Same

\* The lock is taken by the innermost activation, given back by it, or left.
LEMMA LockTop ==
  ASSUME StackInv, LockInv, NEW b, Proper(b), Same(b, Top), Becomes(b),
         \/ vga_lock' = vga_lock /\ ~ b.holds /\ ~ Top.holds
         \/ vga_lock' = FALSE /\ ~ b.holds /\ Top.holds
         \/ vga_lock' = TRUE /\ b.holds /\ ~ vga_lock
  PROVE  LockInv'
<1> DEFINE n == Len(stack)
<1>1. /\ n \in Nat /\ n > 0 /\ Len(stack') = n /\ stack'[n] = b
      /\ \A i \in 1 .. n : i # n => stack'[i] = stack[i]
      /\ Top = stack[n]
  BY TopChanged DEF StackInv
<1> HIDE DEF n
<1>2. /\ vga_lock <=> \E i \in 1 .. n : stack[i].holds
      /\ \A i, j \in 1 .. n : stack[i].holds /\ stack[j].holds => i = j
      /\ vga_lock \in BOOLEAN /\ n \in 1 .. n
  BY <1>1 DEF LockInv, n
<1>3. CASE vga_lock' = vga_lock /\ ~ b.holds /\ ~ Top.holds
  <2>1. \A i \in 1 .. n : stack'[i].holds <=> stack[i].holds
    BY <1>1, <1>3, Zenon
  <2> QED BY <1>1, <1>2, <1>3, <2>1, Zenon DEF LockInv
<1>4. CASE vga_lock' = FALSE /\ ~ b.holds /\ Top.holds
  <2>1. \A i \in 1 .. n : ~ stack'[i].holds
    BY <1>1, <1>2, <1>4, Zenon
  <2> QED BY <1>1, <1>4, <2>1, Zenon DEF LockInv
<1>5. CASE vga_lock' = TRUE /\ b.holds /\ ~ vga_lock
  <2>1. \A i \in 1 .. n : stack'[i].holds <=> i = n
    BY <1>1, <1>2, <1>5, Zenon
  <2> QED BY <1>1, <1>2, <1>5, <2>1, Zenon DEF LockInv
<1> QED BY <1>3, <1>4, <1>5, Zenon

\* A step that does not start from the timer's increment owes no tick it did
\* not owe.
LEMMA CountTop ==
  ASSUME StackInv, IrqInv, CountInv, NEW b, Proper(b), Same(b, Top), Becomes(b),
         b.at = Top.at \/ b.at > 1 \/ Top.fn = "kernel_main", acks' = acks,
         ticks' = IF OpOf(Top) = "tick" /\ b.at > 1 THEN ticks + 1 ELSE ticks
  PROVE  CountInv'
<1> DEFINE n == Len(stack)
<1>1. /\ n \in Nat /\ n > 0 /\ Len(stack') = n /\ stack'[n] = b
      /\ \A i \in 1 .. n : i # n => stack'[i] = stack[i]
      /\ Top = stack[n] /\ Proper(Top) /\ (Top.fn = "kernel_main" <=> n = 1)
  BY TopChanged DEF StackInv
<1>2. \A i \in 1 .. n : stack[i].irq = 0 <=> stack[i].fn = "irq0_timer_handler"
  BY Zenon DEF IrqInv
<1>3. \A i \in 1 .. n : i # 2 => stack[i].irq # 0
  BY <1>1 DEF IrqInv, NoIrq
<1>4. acks = ticks + (IF n > 1 /\ stack[2].irq = 0 /\ OpOf(stack[2]) = "tick" THEN 1 ELSE 0)
      /\ ticks \in Nat /\ acks \in Nat
  BY Zenon DEF CountInv, Owed
<1>5. \A a : Proper(a) /\ OpOf(a) = "tick" => a.fn = "irq0_timer_handler" /\ a.at = 1
  <2> TAKE a
  <2> SUFFICES ASSUME Proper(a), OpOf(a) = "tick"
               PROVE  a.fn = "irq0_timer_handler" /\ a.at = 1
    BY Zenon
  <2>1. a.fn \in Fns /\ a.at \in DOMAIN Program(a.fn) /\ Program(a.fn)[a.at] = "tick"
    BY Zenon DEF Proper, Activation, OpOf
  <2>2. a.fn # "kernel_main"
    BY <2>1, HandlerStarts, MainSteps DEF MainOps
  <2> QED BY <2>1, <2>2, HandlerSteps DEF Fns
<1>6. \A a : Proper(a) /\ a.fn = "irq0_timer_handler" /\ a.at = 1 => OpOf(a) = "tick"
  BY HandlerStarts, Zenon DEF OpOf
<1> HIDE DEF n
<1>7. CASE n = 2
  <2>1. stack[2] = Top /\ stack'[2] = b
    BY <1>1, <1>7, Zenon
  <2>2. b.fn = Top.fn /\ b.irq = Top.irq /\ Top.fn # "kernel_main"
    BY <1>1, <1>7 DEF Same
  <2>3. CASE OpOf(Top) = "tick"
    <3>1. Top.at = 1 /\ Top.fn = "irq0_timer_handler" /\ Top.irq = 0
      BY <1>1, <1>2, <1>5, <1>7, <2>1, <2>3
    <3>2. CASE b.at > 1
      <4>1. OpOf(b) # "tick"
        BY <1>5, <3>2
      <4> QED BY <1>1, <1>4, <1>7, <2>1, <2>3, <3>1, <3>2, <4>1 DEF CountInv, Owed, OpOf
    <3>3. CASE ~ (b.at > 1)
      <4>1. b.at = 1 /\ OpOf(b) = "tick"
        BY <1>6, <2>2, <3>1, <3>3, Zenon
      <4> QED BY <1>1, <1>4, <1>7, <2>1, <2>2, <2>3, <3>1, <3>3, <4>1, Zenon DEF CountInv, Owed, OpOf
    <3> QED BY <3>2, <3>3, Zenon
  <2>4. CASE OpOf(Top) # "tick"
    <3>1. OpOf(b) # "tick"
      BY <1>1, <1>5, <1>6, <2>2, <2>4
    <3> QED BY <1>1, <1>4, <1>7, <2>1, <2>4, <3>1, Zenon DEF CountInv, Owed, OpOf
  <2> QED BY <2>3, <2>4, Zenon
<1>8. CASE n # 2
  <2>1. n > 1 => stack'[2] = stack[2]
    BY <1>1, <1>8
  <2>2. OpOf(Top) # "tick"
    BY <1>1, <1>2, <1>3, <1>5, <1>8
  <2> QED BY <1>1, <1>4, <2>1, <2>2, Zenon DEF CountInv, Owed, OpOf
<1> QED BY <1>7, <1>8, Zenon

\* kernel_main goes on without passing an initialisation.
LEMMA BootTop ==
  ASSUME StackInv, BootInv, NEW b, Proper(b), Same(b, Top), Becomes(b),
         Top.fn = "kernel_main" =>
           /\ Top.at \notin {2, 4, 6}
           /\ b.at = Top.at \/ b.at = Top.at + 1 \/ (Top.at > 10 /\ b.at > 10),
         pic'.master.base = pic.master.base, pic'.slave.base = pic.slave.base,
         UNCHANGED <<gdt_loaded, idt_loaded>>,
         \/ isr_handlers' = isr_handlers
         \/ isr_handlers' = [Handlers EXCEPT ![33] = "keyboard_handler"],
         IF_flag' => IF_flag \/ stack[1].at > 10
  PROVE  BootInv'
<1> DEFINE n == Len(stack)
           p == stack[1].at
           q == stack'[1].at
<1>1. /\ n \in Nat /\ n > 0 /\ Len(stack') = n /\ stack'[n] = b
      /\ \A i \in 1 .. n : i # n => stack'[i] = stack[i]
      /\ Top = stack[n] /\ (Top.fn = "kernel_main" <=> n = 1)
  BY TopChanged DEF StackInv
<1>2. p \in Nat /\ q \in Nat
  <2>1. 1 \in 1 .. n
    BY <1>1
  <2>2. stack[1] \in Activation /\ stack'[1] \in Activation
    <3>1. Proper(stack[1])
      BY <2>1, Zenon DEF StackInv
    <3> QED BY <1>1, <2>1, <3>1, Zenon DEF Proper
  <2> QED BY <2>2, Zenon DEF Activation
<1>3. /\ gdt_loaded \in BOOLEAN /\ idt_loaded \in BOOLEAN
      /\ gdt_loaded <=> p > 2
      /\ p > 4 => pic.master.base = 32 /\ pic.slave.base = 40
      /\ idt_loaded <=> p > 6
      /\ p > 6 => isr_handlers \in {Handlers, [Handlers EXCEPT ![33] = "keyboard_handler"]}
      /\ IF_flag \/ n > 1 => p > 6
  BY Zenon DEF BootInv
<1>4. q = p \/ (n = 1 /\ p \notin {2, 4, 6} /\ (q = p + 1 \/ (p > 10 /\ q > 10)))
  BY <1>1
<1> HIDE DEF n, p, q
<1>5. (q > 2 <=> p > 2) /\ (q > 4 <=> p > 4) /\ (q > 6 <=> p > 6)
  BY <1>2, <1>4
<1>6. IF_flag' \/ n > 1 => p > 6
  BY <1>2, <1>3 DEF p
<1>7. /\ gdt_loaded' \in BOOLEAN /\ idt_loaded' \in BOOLEAN
      /\ gdt_loaded' <=> q > 2
      /\ idt_loaded' <=> q > 6
      /\ q > 4 => pic'.master.base = 32 /\ pic'.slave.base = 40
  BY <1>3, <1>5, Zenon
<1>8. q > 6 => isr_handlers' \in {Handlers, [Handlers EXCEPT ![33] = "keyboard_handler"]}
  BY <1>3, <1>5, Zenon
<1>9. IF_flag' \/ n > 1 => q > 6
  BY <1>5, <1>6, Zenon
<1> QED BY <1>1, <1>7, <1>8, <1>9, Zenon DEF BootInv, n, q

\* Nothing but the interrupt's own EOI makes its handler reach its iret, and
\* nothing else ends the timer's line.
LEMMA AckTop ==
  ASSUME StackInv, IrqInv, AckInv, NEW b, Proper(b), Same(b, Top), Becomes(b),
         events' = events,
         \/ /\ pic'.master.isr = pic.master.isr
            /\ Top.fn \in {"irq0_timer_handler", "keyboard_handler"} =>
                 (OpOf(b) # "iret" <=> OpOf(Top) # "iret")
         \/ /\ Top.fn \notin {"irq0_timer_handler", "keyboard_handler"}
            /\ pic'.master.isr \subseteq pic.master.isr
         \/ /\ Top.fn \in {"irq0_timer_handler", "keyboard_handler"}
            /\ OpOf(b) = "iret"
            /\ pic'.master.isr \subseteq pic.master.isr
            /\ events.exception = 0 => Top.irq \notin pic'.master.isr
  PROVE  AckInv'
<1> DEFINE n == Len(stack)
<1>1. /\ n \in Nat /\ n > 0 /\ Len(stack') = n /\ stack'[n] = b
      /\ \A i \in 1 .. n : i # n => stack'[i] = stack[i]
      /\ Top = stack[n] /\ (Top.fn = "kernel_main" <=> n = 1)
  BY TopChanged DEF StackInv
<1> HIDE DEF n
<1>2. events \in [key : Nat, other : Nat, exception : Nat]
  BY Zenon DEF AckInv
<1> SUFFICES ASSUME events.exception = 0
             PROVE  /\ n = 1 \/ (n = 2 /\ stack'[2].irq # NoIrq)
                    /\ 0 \in pic'.master.isr => n = 2 /\ stack'[2].irq = 0
                    /\ n = 2 /\ stack'[2].fn \in {"irq0_timer_handler", "keyboard_handler"} =>
                         (stack'[2].irq \in pic'.master.isr <=> OpOf(stack'[2]) # "iret")
  BY <1>1, <1>2, Zenon DEF AckInv, OpOf
<1>3. /\ n = 1 \/ (n = 2 /\ stack[2].irq # NoIrq)
      /\ 0 \in pic.master.isr => n = 2 /\ stack[2].irq = 0
      /\ n = 2 /\ stack[2].fn \in {"irq0_timer_handler", "keyboard_handler"} =>
           (stack[2].irq \in pic.master.isr <=> OpOf(stack[2]) # "iret")
  BY Zenon DEF AckInv, n
<1>4. CASE n = 1
  BY <1>1, <1>3, <1>4
<1>5. CASE n = 2
  <2>1. stack[2] = Top /\ stack'[2] = b /\ b.irq = Top.irq /\ b.fn = Top.fn
    BY <1>1, <1>5, Zenon DEF Same
  <2> QED BY <1>3, <1>5, <2>1, Zenon
<1> QED BY <1>3, <1>4, <1>5, Zenon

-----------------------------------------------------------------------------
(* Steps of the innermost activation                                       *)

\* What the operation of the innermost activation says about it.
LEMMA Running ==
  ASSUME StackInv, NEW op, op = OpOf(Top)
  PROVE  /\ Proper(Top) /\ Top.fn \in Fns /\ Top.at \in DOMAIN Program(Top.fn)
         /\ Len(stack) \in Nat /\ Len(stack) > 0 /\ Top = stack[Len(stack)]
         /\ Len(stack) \in 1 .. Len(stack)
         /\ (Top.fn = "kernel_main" <=> Len(stack) = 1)
         /\ Top.fn # "kernel_main" => Top.fn \in HandlerFns
         /\ op = Program(Top.fn)[Top.at]
         /\ op \notin Printing => ~ Top.holds /\ Top.locks = 0
<1>1. Len(stack) \in Nat /\ Len(stack) > 0 /\ Top = stack[Len(stack)]
  BY DEF StackInv, Top
<1>2. Len(stack) \in 1 .. Len(stack)
  BY <1>1
<1>3. Proper(Top) /\ (Top.fn = "kernel_main" <=> Len(stack) = 1)
  BY <1>1, <1>2, Zenon DEF StackInv
<1>4. Top.fn \in Fns /\ Top.locks \in Nat /\ Top.at \in DOMAIN Program(Top.fn)
  BY <1>3, InterruptsAssumption DEF Proper, Activation
<1>5. op \notin Printing => ~ Top.holds /\ Top.locks = 0
  BY <1>3, <1>4 DEF Proper
<1> QED BY <1>1, <1>2, <1>3, <1>4, <1>5, Zenon DEF Fns, OpOf

\* It goes on to the next operation.
LEMMA Advanced ==
  ASSUME StackInv, NEW op, op = OpOf(Top), Advance,
         op \notin Printing \cup {"iret", "panic_halted", "idle_halted"}
  PROVE  \E b : /\ Proper(b) /\ Same(b, Top) /\ Becomes(b) /\ ~ b.holds /\ ~ Top.holds
                /\ b.at = Top.at + 1 /\ b.at > 1 /\ Top.at \in Nat
                /\ OpOf(b) = Program(Top.fn)[Top.at + 1]
<1> DEFINE b == At(Top, Top.at + 1)
           i == Top.at + 1
<1>1. /\ Proper(Top) /\ Top.fn \in Fns /\ Top.at \in DOMAIN Program(Top.fn)
      /\ Top.fn # "kernel_main" => Top.fn \in HandlerFns
      /\ op = Program(Top.fn)[Top.at] /\ ~ Top.holds
  BY Running, Zenon
<1>2. Top.at \in Nat /\ Top.at > 0
  BY <1>1, Positions, Zenon
<1>3. i \in DOMAIN Program(Top.fn)
  <2>1. CASE Top.fn = "kernel_main"
    BY <1>1, <2>1, HandlerStarts, MainSteps, Zenon
  <2>2. CASE Top.fn \in HandlerFns
    BY <1>1, <2>2, HandlerSteps, Zenon
  <2> QED BY <1>1, <2>1, <2>2, Zenon
<1>4. Becomes(b)
  BY Zenon DEF Advance
<1>5. b = At(Top, i)
  BY Zenon
<1>6. i = Top.at + 1 /\ i > 1
  BY <1>2
<1> HIDE DEF b, i
<1>7. Proper(b) /\ Same(b, Top) /\ ~ b.holds /\ b.at = i /\ OpOf(b) = Program(Top.fn)[i]
  BY <1>1, <1>3, <1>5, Moved
<1> QED BY <1>1, <1>2, <1>4, <1>6, <1>7, Zenon

\* A step of the innermost activation, given what it does to the tables and
\* the chips.
LEMMA TopStep ==
  ASSUME KernelInv, NEW b, Proper(b), Same(b, Top), Becomes(b),
         BootInv', ChipsInv', kbd' \in {"empty", "char", "special", "release"},
         IF_flag' \in BOOLEAN, Len(stack) > 1 => ~ IF_flag',
         \/ vga_lock' = vga_lock /\ ~ b.holds /\ ~ Top.holds
         \/ vga_lock' = FALSE /\ ~ b.holds /\ Top.holds
         \/ vga_lock' = TRUE /\ b.holds /\ ~ vga_lock,
         b.at = Top.at \/ b.at > 1 \/ Top.fn = "kernel_main", acks' = acks,
         ticks' = IF OpOf(Top) = "tick" /\ b.at > 1 THEN ticks + 1 ELSE ticks,
         events' = events,
         \/ /\ pic'.master.isr = pic.master.isr
            /\ Top.fn \in {"irq0_timer_handler", "keyboard_handler"} =>
                 (OpOf(b) # "iret" <=> OpOf(Top) # "iret")
         \/ /\ Top.fn \notin {"irq0_timer_handler", "keyboard_handler"}
            /\ pic'.master.isr \subseteq pic.master.isr
         \/ /\ Top.fn \in {"irq0_timer_handler", "keyboard_handler"}
            /\ OpOf(b) = "iret"
            /\ pic'.master.isr \subseteq pic.master.isr
            /\ events.exception = 0 => Top.irq \notin pic'.master.isr
  PROVE  KernelInv'
<1>1. StackInv /\ IrqInv /\ CountInv /\ LockInv /\ AckInv
  BY Zenon DEF KernelInv
<1>2. StackInv'
  BY <1>1, TopChanged, Zenon
<1>3. IrqInv'
  BY <1>1, IrqTop, Zenon
<1>4. LockInv'
  BY <1>1, LockTop, Zenon
<1>5. CountInv'
  BY <1>1, CountTop, Zenon
<1>6. AckInv'
  BY <1>1, AckTop, Zenon
<1> QED BY <1>2, <1>3, <1>4, <1>5, <1>6, Zenon DEF KernelInv

\* One that only goes on to the next operation, may change IF, count the tick,
\* register the keyboard's handler or open a mask.
LEMMA PlainStep ==
  ASSUME KernelInv, NEW op, op = OpOf(Top), Advance,
         op \in {"hlt", "cli", "sti", "sleep_start", "keyboard_init", "pit_init", "tick"},
         ChipsInv', pic'.master.isr = pic.master.isr,
         pic'.master.base = pic.master.base, pic'.slave.base = pic.slave.base,
         UNCHANGED <<gdt_loaded, idt_loaded, vga_lock, kbd, events, acks>>,
         \/ isr_handlers' = isr_handlers
         \/ isr_handlers' = [Handlers EXCEPT ![33] = "keyboard_handler"],
         IF_flag' \in BOOLEAN, Len(stack) > 1 => ~ IF_flag',
         IF_flag' => IF_flag \/ stack[1].at > 10,
         ticks' = IF op = "tick" THEN ticks + 1 ELSE ticks
  PROVE  KernelInv'
<1>1. StackInv /\ IrqInv /\ BootInv /\ kbd \in {"empty", "char", "special", "release"}
  BY Zenon DEF KernelInv
<1>2. PICK b : /\ Proper(b) /\ Same(b, Top) /\ Becomes(b) /\ ~ b.holds /\ ~ Top.holds
               /\ b.at = Top.at + 1 /\ b.at > 1 /\ Top.at \in Nat
               /\ OpOf(b) = Program(Top.fn)[Top.at + 1]
  BY <1>1, Advanced, Zenon DEF Printing
<1>3. /\ Top.fn \in Fns /\ Top.at \in DOMAIN Program(Top.fn)
      /\ Top.fn # "kernel_main" => Top.fn \in HandlerFns
      /\ op = Program(Top.fn)[Top.at]
  BY <1>1, Running, Zenon
<1>4. Top.fn = "kernel_main" => Top.at \notin {2, 4, 6}
  BY <1>3, HandlerStarts, MainSteps
<1>5. BootInv'
  BY <1>1, <1>2, <1>4, BootTop, Zenon
<1>6. Top.fn \in {"irq0_timer_handler", "keyboard_handler"} =>
        (OpOf(b) # "iret" <=> OpOf(Top) # "iret")
  BY <1>2, <1>3, HandlerSteps
<1>7. ticks' = IF OpOf(Top) = "tick" /\ b.at > 1 THEN ticks + 1 ELSE ticks
  BY <1>2, Zenon
<1> QED BY <1>1, <1>2, <1>5, <1>6, <1>7, TopStep, Zenon

\* Only kernel_main initialises and sleeps, and it is then the one activation.
LEMMA InMain ==
  ASSUME StackInv, NEW op, op = OpOf(Top),
         op \in {"gdt_init", "pic_init", "idt_init", "keyboard_init", "pit_init", "sti",
                 "sleep_start", "sleep_while"}
  PROVE  /\ Len(stack) = 1 /\ Top.fn = "kernel_main" /\ Top = stack[1]
         /\ Top.at \in DOMAIN kernel_main /\ op = kernel_main[Top.at]
<1>1. /\ Len(stack) \in Nat /\ Len(stack) > 0 /\ Top = stack[Len(stack)]
      /\ Top.fn \in Fns /\ Top.at \in DOMAIN Program(Top.fn)
      /\ (Top.fn = "kernel_main" <=> Len(stack) = 1)
      /\ Top.fn # "kernel_main" => Top.fn \in HandlerFns
      /\ op = Program(Top.fn)[Top.at]
  BY Running, Zenon
<1>2. ASSUME Top.fn \in HandlerFns
      PROVE  FALSE
  <2> DEFINE f == Top.fn
             i == Top.at
  <2>2. f \in HandlerFns /\ i \in DOMAIN Program(f) /\ op = Program(f)[i]
    BY <1>1, <1>2, Zenon
  <2> HIDE DEF f, i
  <2>1. op \in {"tick", "eoi_timer", "iret", "inb", "log", "putc", "eoi_keyboard",
               "eoi_if_irq", "cli", "set_colors", "hlt", "panic_halted"}
    BY <2>2, HandlerSteps, Zenon
  <2> QED BY <2>1, Zenon
<1> QED BY <1>1, <1>2, HandlerStarts, Zenon

\* Halting, the interrupt flag, the start of a sleep and the tick.
LEMMA HltStep ==
  ASSUME KernelInv, hlt \/ cli \/ sti \/ SleepStart \/ Tick
  PROVE  KernelInv'
<1> DEFINE op == OpOf(Top)
<1>1. StackInv /\ IrqInv /\ ChipsInv
  BY Zenon DEF KernelInv
<1>2. /\ op \in {"hlt", "cli", "sti", "sleep_start", "tick"} /\ Advance
      /\ UNCHANGED <<gdt_loaded, idt_loaded, isr_handlers, pic, vga_lock, kbd, events, acks>>
      /\ ticks' = IF op = "tick" THEN ticks + 1 ELSE ticks
      /\ IF_flag' = IF_flag \/ IF_flag' = FALSE \/ (IF_flag' = TRUE /\ op = "sti")
  BY Zenon DEF hlt, cli, sti, SleepStart, Tick, Executing, tables
<1> HIDE DEF op
<1>3. op = OpOf(Top)
  BY Zenon DEF op
<1>4. ChipsInv'
  BY <1>1, <1>2, Zenon DEF ChipsInv
<1>5. op = "sti" => Len(stack) = 1 /\ stack[1].at > 10
  BY <1>1, <1>3, InMain, MainSteps
<1>6. IF_flag' \in BOOLEAN /\ (Len(stack) > 1 => ~ IF_flag')
  <2>1. IF_flag \in BOOLEAN /\ (Len(stack) > 1 => ~ IF_flag)
    BY <1>1, Zenon DEF IrqInv
  <2>2. CASE IF_flag' = TRUE /\ op = "sti"
    <3>1. Len(stack) = 1
      BY <1>5, <2>2, Zenon
    <3> QED BY <2>2, <3>1
  <2>3. CASE IF_flag' = IF_flag
    BY <2>1, <2>3, Zenon
  <2>4. CASE IF_flag' = FALSE
    BY <2>4, Zenon
  <2> QED BY <1>2, <2>2, <2>3, <2>4, Zenon
<1>7. IF_flag' => IF_flag \/ stack[1].at > 10
  BY <1>2, <1>5, Zenon
<1>8. op \in {"hlt", "cli", "sti", "sleep_start", "keyboard_init", "pit_init", "tick"}
  BY <1>2, Zenon
<1> QED BY <1>2, <1>3, <1>4, <1>6, <1>7, <1>8, PlainStep, Zenon

\* The drivers' initialisation.
LEMMA DriverInitStep ==
  ASSUME KernelInv, keyboard_init \/ pit_init
  PROVE  KernelInv'
<1> DEFINE op == OpOf(Top)
<1>1. StackInv /\ IrqInv /\ BootInv /\ ChipsInv
  BY Zenon DEF KernelInv
<1>2. /\ op \in {"keyboard_init", "pit_init"} /\ Advance
      /\ UNCHANGED <<gdt_loaded, idt_loaded, vga_lock, kbd, events, acks, ticks, IF_flag>>
      /\ \/ isr_handlers' = isr_handlers /\ pic' = pic_unmask_irq(pic, 0)
         \/ isr_handlers' = [isr_handlers EXCEPT ![33] = "keyboard_handler"] /\ pic' = pic
  BY Zenon DEF keyboard_init, pit_init, Executing, tables, TimerUnmasked
<1> HIDE DEF op
<1>3. op = OpOf(Top)
  BY Zenon DEF op
<1>4. Len(stack) = 1 /\ stack[1].at > 6
  BY <1>1, <1>2, <1>3, InMain, MainSteps
<1>5. \/ isr_handlers' = isr_handlers
      \/ isr_handlers' = [Handlers EXCEPT ![33] = "keyboard_handler"]
  <2>1. isr_handlers \in {Handlers, [Handlers EXCEPT ![33] = "keyboard_handler"]}
    BY <1>1, <1>4, Zenon DEF BootInv
  <2>2. [[Handlers EXCEPT ![33] = "keyboard_handler"] EXCEPT ![33] = "keyboard_handler"]
          = [Handlers EXCEPT ![33] = "keyboard_handler"]
    BY Zenon DEF Handlers
  <2> QED BY <1>2, <2>1, <2>2, Zenon
<1>6. /\ ChipsInv' /\ pic'.master.isr = pic.master.isr
      /\ pic'.master.base = pic.master.base /\ pic'.slave.base = pic.slave.base
  <2>1. CASE pic' = pic
    BY <1>1, <2>1, Zenon DEF ChipsInv
  <2>2. CASE pic' = pic_unmask_irq(pic, 0)
    <3> DEFINE m == pic.master
               S == m.imr \ {0}
               d == [m EXCEPT !.imr = S]
    <3>1. pic \in PicPair /\ Operating(pic) /\ 0 \in 0 .. 15
      BY <1>1 DEF ChipsInv, Operating
    <3>2. m \in Chip /\ pic.slave \in Chip
      BY <3>1, Zenon DEF PicPair
    <3>3. pic' = [master |-> d, slave |-> pic.slave]
      <4> DEFINE q == pic_unmask_irq(pic, 0)
      <4>1. /\ q.master = IF 0 < 8 THEN [m EXCEPT !.imr = m.imr \ {0}] ELSE m
            /\ q.slave = IF 0 < 8 THEN pic.slave
                         ELSE [pic.slave EXCEPT !.imr = pic.slave.imr \ {0 - 8}]
            /\ q = [master |-> q.master, slave |-> q.slave]
        BY <3>1, IrqUnmasked, Zenon
      <4>2. 0 < 8
        OBVIOUS
      <4> HIDE DEF q
      <4>3. q.master = d /\ q.slave = pic.slave
        BY <4>1, <4>2, Zenon
      <4>4. pic' = q
        BY <2>2, Zenon DEF q
      <4> QED BY <4>1, <4>3, <4>4, Zenon
    <3>4. S \subseteq Lines
      BY <3>2, Zenon DEF Chip
    <3> HIDE DEF S
    <3>5. d \in Chip /\ d.isr = m.isr /\ d.irr = m.irr /\ d.base = m.base /\ d.icw = m.icw
      BY <3>2, <3>4, Zenon DEF Chip
    <3> HIDE DEF d
    <3>6. pic'.master = d /\ pic'.slave = pic.slave /\ pic' \in PicPair
      BY <3>2, <3>3, <3>5, Zenon DEF PicPair
    <3> QED BY <1>1, <3>5, <3>6, Zenon DEF ChipsInv
  <2> QED BY <1>2, <2>1, <2>2, Zenon
<1>7. IF_flag' \in BOOLEAN /\ (Len(stack) > 1 => ~ IF_flag')
  BY <1>1, <1>2, Zenon DEF IrqInv
<1>8. /\ op \in {"hlt", "cli", "sti", "sleep_start", "keyboard_init", "pit_init", "tick"}
      /\ ticks' = IF op = "tick" THEN ticks + 1 ELSE ticks
  BY <1>2, Zenon
<1> QED BY <1>2, <1>3, <1>5, <1>6, <1>7, <1>8, PlainStep, Zenon

\* The test in sleep_ms.
LEMMA WhileStep ==
  ASSUME KernelInv, SleepWhile
  PROVE  KernelInv'
<1> DEFINE i == Top.at + (IF ticks < target_ticks THEN 1 ELSE 3)
           b == At(Top, i)
<1>1. StackInv /\ IrqInv /\ BootInv /\ ChipsInv /\ kbd \in {"empty", "char", "special", "release"}
  BY Zenon DEF KernelInv
<1>2. /\ OpOf(Top) = "sleep_while" /\ Becomes(b)
      /\ UNCHANGED <<IF_flag, gdt_loaded, idt_loaded, isr_handlers, pic, vga_lock, ticks, kbd,
                     events, acks>>
  BY Zenon DEF SleepWhile, Executing, tables
<1>3. /\ Len(stack) = 1 /\ Top.fn = "kernel_main" /\ Top = stack[1]
      /\ Top.at \in DOMAIN kernel_main /\ kernel_main[Top.at] = "sleep_while"
  BY <1>1, <1>2, InMain, Zenon
<1>4. /\ Top.at \in Nat /\ Top.at > 13 /\ Top.at + 1 \in DOMAIN kernel_main
      /\ Top.at + 3 \in DOMAIN kernel_main
  BY <1>3, MainSteps, Zenon
<1>5. b = At(Top, i)
  BY Zenon
<1>6. i \in DOMAIN Program(Top.fn) /\ i > 10
  BY <1>3, <1>4, HandlerStarts
<1> HIDE DEF b, i
<1>7. Proper(Top) /\ ~ Top.holds
  BY <1>1, <1>2, Running, Zenon DEF Printing
<1>8. Proper(b) /\ Same(b, Top) /\ ~ b.holds /\ b.at = i
  BY <1>5, <1>6, <1>7, Moved
<1>9. BootInv'
  <2>1. b.at > 10 /\ Top.at > 10 /\ Top.at \notin {2, 4, 6} /\ stack[1].at > 10
    BY <1>3, <1>4, <1>6, <1>8
  <2> QED BY <1>1, <1>2, <1>8, <2>1, BootTop, Zenon
<1>10. ChipsInv'
  BY <1>1, <1>2, Zenon DEF ChipsInv
<1>11. IF_flag' \in BOOLEAN /\ (Len(stack) > 1 => ~ IF_flag')
  BY <1>1, <1>2, Zenon DEF IrqInv
<1>12. ticks' = IF OpOf(Top) = "tick" /\ b.at > 1 THEN ticks + 1 ELSE ticks
  BY <1>2, Zenon
<1>13. Top.fn \notin {"irq0_timer_handler", "keyboard_handler"}
  BY <1>3, Zenon
<1> QED BY <1>1, <1>2, <1>3, <1>7, <1>8, <1>9, <1>10, <1>11, <1>12, <1>13, TopStep, Zenon

\* Where the innermost activation prints, it neither counts, acknowledges nor
\* initialises.
LEMMA AtPrinting ==
  ASSUME StackInv, OpOf(Top) \in Printing
  PROVE  /\ Top.fn = "kernel_main" => Top.at \notin {2, 4, 6}
         /\ OpOf(Top) \notin {"tick", "iret", "eoi_timer", "eoi_keyboard"}
<1> DEFINE op == OpOf(Top)
<1>1. Top.at \in DOMAIN Program(Top.fn) /\ op = Program(Top.fn)[Top.at]
  BY Running, Zenon
<1>2. op \in {"log", "putc", "set_colors"}
  BY Zenon DEF Printing
<1> HIDE DEF op
<1>3. Top.fn = "kernel_main" => Top.at \notin {2, 4, 6}
  BY <1>1, <1>2, HandlerStarts, MainSteps
<1>4. op \notin {"tick", "iret", "eoi_timer", "eoi_keyboard"}
  BY <1>2, Zenon
<1> QED BY <1>3, <1>4, Zenon DEF op

\* The console lock is taken.
LEMMA AcquireStep ==
  ASSUME KernelInv, spinlock_acquire
  PROVE  KernelInv'
<1> DEFINE b == [Top EXCEPT !.holds = TRUE]
<1>1. StackInv /\ IrqInv /\ BootInv /\ ChipsInv /\ kbd \in {"empty", "char", "special", "release"}
  BY Zenon DEF KernelInv
<1>2. /\ Top.locks > 0 /\ ~ Top.holds /\ ~ vga_lock /\ vga_lock' = TRUE /\ Becomes(b)
      /\ UNCHANGED <<IF_flag, gdt_loaded, idt_loaded, isr_handlers, pic, ticks, kbd, events,
                     acks>>
  BY Zenon DEF spinlock_acquire, LockFree, tables
<1>3. b = [Top EXCEPT !.holds = TRUE]
  BY Zenon
<1> HIDE DEF b
<1>4. Proper(Top)
  BY <1>1, Running, Zenon
<1>5. Proper(b) /\ Same(b, Top) /\ b.holds /\ b.at = Top.at
  BY <1>2, <1>3, <1>4, Acquired, Zenon
<1>6. OpOf(b) = OpOf(Top)
  BY <1>5, Zenon DEF OpOf, Same
<1>7. OpOf(Top) \in Printing
  BY <1>2, <1>4, Zenon DEF Proper
<1>8. (Top.fn = "kernel_main" => Top.at \notin {2, 4, 6}) /\ OpOf(Top) # "tick"
  BY <1>1, <1>7, AtPrinting, Zenon
<1>9. BootInv'
  BY <1>1, <1>2, <1>5, <1>8, BootTop, Zenon
<1>10. ChipsInv'
  BY <1>1, <1>2, Zenon DEF ChipsInv
<1>11. IF_flag' \in BOOLEAN /\ (Len(stack) > 1 => ~ IF_flag')
  BY <1>1, <1>2, Zenon DEF IrqInv
<1> QED BY <1>1, <1>2, <1>5, <1>6, <1>8, <1>9, <1>10, <1>11, TopStep, Zenon

\* A character is written and the lock given back.
LEMMA ReleaseStep ==
  ASSUME KernelInv, WriteAndRelease
  PROVE  KernelInv'
<1> DEFINE l == Top.locks - 1
           c == [Top EXCEPT !.holds = FALSE]
           d == [c EXCEPT !.locks = l]
           b == IF d.locks = 0 THEN At(d, d.at + 1) ELSE d
<1>1. StackInv /\ IrqInv /\ BootInv /\ ChipsInv /\ kbd \in {"empty", "char", "special", "release"}
  BY Zenon DEF KernelInv
<1>2. Proper(Top) /\ Top \in Activation
  BY <1>1, Running, Zenon DEF Proper
<1>3. d = [Top EXCEPT !.holds = FALSE, !.locks = @ - 1]
  BY <1>2, Zenon DEF Activation
<1>4. /\ Top.holds /\ vga_lock' = FALSE /\ Becomes(b)
      /\ UNCHANGED <<IF_flag, gdt_loaded, idt_loaded, isr_handlers, pic, ticks, kbd, events,
                     acks>>
  BY <1>3, Zenon DEF WriteAndRelease, tables
<1>5. l \in 0 .. LogChars
  BY <1>2, <1>4, InterruptsAssumption DEF Proper, Activation
<1>6. c = [Top EXCEPT !.holds = FALSE] /\ d = [c EXCEPT !.locks = l] /\ l = Top.locks - 1
  BY Zenon
<1>7. b = IF d.locks = 0 THEN At(d, d.at + 1) ELSE d
  BY Zenon
<1> HIDE DEF l, c, d, b
<1>8. d \in Activation /\ Same(d, Top) /\ d.at = Top.at /\ ~ d.holds /\ d.locks = Top.locks - 1
  <2>1. c \in Activation /\ Same(c, Top) /\ c.at = Top.at /\ ~ c.holds
    BY <1>2, <1>6, Zenon DEF Activation, Same
  <2>2. d \in Activation /\ Same(d, c) /\ d.at = c.at /\ d.locks = l /\ d.holds = c.holds
    BY <1>5, <1>6, <2>1, Zenon DEF Activation, Same
  <2> QED BY <1>6, <2>1, <2>2, Zenon DEF Same
<1>9. /\ Proper(b) /\ Same(b, Top) /\ ~ b.holds /\ OpOf(Top) \in Printing
      /\ b.at = Top.at \/ (b.at = Top.at + 1 /\ Top.at + 1 \in DOMAIN Program(Top.fn))
  BY <1>2, <1>4, <1>7, <1>8, Released, Zenon
<1>10. /\ Top.fn = "kernel_main" => Top.at \notin {2, 4, 6}
       /\ OpOf(Top) \notin {"tick", "iret", "eoi_timer", "eoi_keyboard"}
  BY <1>1, <1>9, AtPrinting, Zenon
<1>11. BootInv'
  BY <1>1, <1>4, <1>9, <1>10, BootTop, Zenon
<1>12. ChipsInv'
  BY <1>1, <1>4, Zenon DEF ChipsInv
<1>13. IF_flag' \in BOOLEAN /\ (Len(stack) > 1 => ~ IF_flag')
  BY <1>1, <1>4, Zenon DEF IrqInv
<1>14. Top.at \in Nat /\ Top.at > 0
  BY <1>2, Positions, Zenon DEF Proper, Activation
<1>15. Top.fn \in {"irq0_timer_handler", "keyboard_handler"} =>
         (OpOf(b) # "iret" <=> OpOf(Top) # "iret")
  <2>1. CASE b.at = Top.at
    BY <1>9, <2>1, Zenon DEF OpOf, Same
  <2>2. CASE b.at = Top.at + 1
    <3>1. OpOf(b) = Program(Top.fn)[Top.at + 1]
      BY <1>9, <2>2, Zenon DEF OpOf, Same
    <3>2. /\ Top.at \in DOMAIN Program(Top.fn) /\ OpOf(Top) = Program(Top.fn)[Top.at]
      BY <1>1, Running, Zenon
    <3>3. Top.fn \in {"irq0_timer_handler", "keyboard_handler"} => Top.fn \in HandlerFns
      BY Zenon DEF HandlerFns
    <3> QED BY <1>10, <3>1, <3>2, <3>3, HandlerSteps
  <2> QED BY <1>9, <2>1, <2>2, Zenon
<1>16. b.at = Top.at \/ b.at > 1
  BY <1>9, <1>14
<1>17. ticks' = IF OpOf(Top) = "tick" /\ b.at > 1 THEN ticks + 1 ELSE ticks
  BY <1>4, <1>10, Zenon
<1> QED BY <1>1, <1>4, <1>9, <1>11, <1>12, <1>13, <1>15, <1>16, <1>17, TopStep, Zenon

\* The keyboard handler reads its byte.
LEMMA ReadStep ==
  ASSUME KernelInv, ReadKey
  PROVE  KernelInv'
<1> DEFINE i == KeyPath(kbd)
           b == At(Top, i)
<1>1. StackInv /\ IrqInv /\ BootInv /\ ChipsInv /\ kbd \in {"empty", "char", "special", "release"}
  BY Zenon DEF KernelInv
<1>2. /\ OpOf(Top) = "inb" /\ kbd # "empty" /\ kbd' = "empty" /\ Becomes(b)
      /\ UNCHANGED <<IF_flag, gdt_loaded, idt_loaded, isr_handlers, pic, vga_lock, ticks, events,
                     acks>>
  BY Zenon DEF ReadKey, Executing, tables
<1>3. /\ Proper(Top) /\ ~ Top.holds /\ Top.at \in DOMAIN Program(Top.fn)
      /\ Top.fn # "kernel_main" => Top.fn \in HandlerFns
      /\ OpOf(Top) = Program(Top.fn)[Top.at]
  BY <1>1, <1>2, Running, Zenon DEF Printing
<1>4. Top.fn = "keyboard_handler"
  <2>1. Top.fn # "kernel_main"
    BY <1>2, <1>3, HandlerStarts, MainSteps DEF MainOps
  <2> QED BY <1>2, <1>3, <2>1, HandlerSteps, Zenon
<1>5. kbd \in {"char", "special", "release"}
  BY <1>1, <1>2, Zenon
<1>6. i \in DOMAIN Program(Top.fn) /\ Program(Top.fn)[i] # "iret"
  BY <1>4, <1>5, HandlerStarts, Zenon
<1>7. i > 1
  BY <1>5 DEF KeyPath
<1>8. b = At(Top, i)
  BY Zenon
<1> HIDE DEF b, i
<1>9. Proper(b) /\ Same(b, Top) /\ ~ b.holds /\ b.at = i /\ OpOf(b) # "iret"
  BY <1>3, <1>6, <1>8, Moved
<1>10. BootInv'
  BY <1>1, <1>2, <1>4, <1>9, BootTop, Zenon
<1>11. ChipsInv'
  BY <1>1, <1>2, Zenon DEF ChipsInv
<1>12. IF_flag' \in BOOLEAN /\ (Len(stack) > 1 => ~ IF_flag')
  BY <1>1, <1>2, Zenon DEF IrqInv
<1>13. ticks' = IF OpOf(Top) = "tick" /\ b.at > 1 THEN ticks + 1 ELSE ticks
  BY <1>2, Zenon
<1>14. OpOf(Top) # "iret" /\ kbd' \in {"empty", "char", "special", "release"}
  BY <1>2, Zenon
<1> QED BY <1>2, <1>3, <1>7, <1>9, <1>10, <1>11, <1>12, <1>13, <1>14, TopStep, Zenon

\* Ending a line touches nothing but what is in service.
LEMMA EoiChips ==
  ASSUME ChipsInv, NEW irq \in 0 .. 15, pic' = pic_send_eoi(pic, irq)
  PROVE  /\ ChipsInv' /\ pic'.master.isr = Ended(pic.master.isr)
         /\ pic'.master.base = pic.master.base /\ pic'.slave.base = pic.slave.base
<1> DEFINE m == pic.master
           s == pic.slave
           q == pic_send_eoi(pic, irq)
           d == [m EXCEPT !.isr = Ended(m.isr)]
           e == [s EXCEPT !.isr = Ended(s.isr)]
<1>1. pic \in PicPair
  BY Zenon DEF ChipsInv
<1>2. m \in Chip /\ s \in Chip
  BY <1>1, Zenon DEF PicPair
<1>3. /\ q.master = d /\ q.slave = (IF irq >= 8 THEN e ELSE s)
      /\ q = [master |-> q.master, slave |-> q.slave]
  BY <1>1, EoiSent, Zenon
<1>4. /\ d \in Chip /\ d.isr = Ended(m.isr) /\ d.irr = m.irr /\ d.icw = m.icw /\ d.base = m.base
      /\ e \in Chip /\ e.icw = s.icw /\ e.base = s.base
  BY <1>2, ChipEnded, Zenon
<1>5. m.icw = 0 /\ s.icw = 0 /\ Cascade \notin m.irr
  BY Zenon DEF ChipsInv
<1>6. pic' = q
  BY Zenon
<1> HIDE DEF q, d, e
<1>7. q.slave \in Chip /\ q.slave.icw = s.icw /\ q.slave.base = s.base
  BY <1>2, <1>3, <1>4, Zenon
<1>8. q \in PicPair
  BY <1>3, <1>4, <1>7, Zenon DEF PicPair
<1> QED BY <1>3, <1>4, <1>5, <1>6, <1>7, <1>8, Zenon DEF ChipsInv, m, s

\* isr.c:109, keyboard.c:46: the timer and the keyboard handler end their own
\* interrupt, although EOI names no line.
LEMMA OwnEoi ==
  ASSUME StackInv, IrqInv, ChipsInv, AckInv, events.exception = 0,
         Top.fn \in {"irq0_timer_handler", "keyboard_handler"}, OpOf(Top) # "iret"
  PROVE  Top.irq \notin Ended(pic.master.isr)
<1> DEFINE n == Len(stack)
           S == pic.master.isr
<1>1. n \in Nat /\ n > 0 /\ Top = stack[n] /\ n \in 1 .. n /\ n # 1
  BY Running, Zenon
<1>2. n = 2
  BY <1>1, Zenon DEF AckInv
<1>3. /\ Top.fn = "irq0_timer_handler" => Top.irq = 0
      /\ Top.fn = "keyboard_handler" => Top.irq = 1
  BY <1>1, Zenon DEF IrqInv
<1>4. Top.irq \in S /\ (0 \in S => Top.irq = 0)
  BY <1>1, <1>2, Zenon DEF AckInv
<1>5. S \in SUBSET Lines
  BY Zenon DEF ChipsInv, PicPair, Chip
<1> HIDE DEF S
<1>6. \A l \in S : Top.irq <= l
  <2>1. \A l \in S : l \in Nat
    BY <1>5 DEF Lines
  <2>2. Top.irq = 0 \/ Top.irq = 1
    BY <1>3, Zenon
  <2> QED BY <1>4, <2>1, <2>2
<1>7. Min(S) = Top.irq
  BY <1>4, <1>5, <1>6, LeastLine, Zenon
<1> QED BY <1>4, <1>7, Zenon DEF Ended, S

\* An interrupt is acknowledged.
LEMMA EoiStep ==
  ASSUME KernelInv, Eoi
  PROVE  KernelInv'
<1> DEFINE op == OpOf(Top)
           int_no == Field(registers_t, "int_no", Top.words)
<1>1. /\ StackInv /\ IrqInv /\ BootInv /\ ChipsInv /\ AckInv
      /\ kbd \in {"empty", "char", "special", "release"}
  BY Zenon DEF KernelInv
<1>2. /\ op \in {"eoi_timer", "eoi_keyboard", "eoi_if_irq"} /\ Advance
      /\ UNCHANGED <<IF_flag, gdt_loaded, idt_loaded, isr_handlers, vga_lock, ticks, kbd, events,
                     acks>>
  BY Zenon DEF Eoi, Executing, tables
<1>3. \/ op = "eoi_timer" /\ pic' = pic_send_eoi(pic, 0)
      \/ op = "eoi_keyboard" /\ pic' = pic_send_eoi(pic, 1)
      \/ op = "eoi_if_irq" /\ pic' = pic
      \/ op = "eoi_if_irq" /\ int_no \in 32 .. 47 /\ pic' = pic_send_eoi(pic, int_no - 32)
  <2>1. outb(pic, PIC1_CMD, PIC_EOI) = pic_send_eoi(pic, 1)
    BY DEF pic_send_eoi
  <2>2. EoiIfIrq(pic, Top.words) =
          IF int_no \in 32 .. 47 THEN pic_send_eoi(pic, int_no - 32) ELSE pic
    BY Zenon DEF EoiIfIrq
  <2> HIDE DEF int_no
  <2> QED BY <2>1, <2>2, Zenon DEF Eoi, Executing
<1> HIDE DEF op, int_no
<1>4. op = OpOf(Top)
  BY Zenon DEF op
<1>5. PICK b : /\ Proper(b) /\ Same(b, Top) /\ Becomes(b) /\ ~ b.holds /\ ~ Top.holds
               /\ b.at = Top.at + 1 /\ b.at > 1 /\ Top.at \in Nat
               /\ OpOf(b) = Program(Top.fn)[Top.at + 1]
  BY <1>1, <1>2, <1>4, Advanced, Zenon DEF Printing
<1>6. /\ Top.at \in DOMAIN Program(Top.fn) /\ op = Program(Top.fn)[Top.at]
      /\ Top.fn # "kernel_main" => Top.fn \in HandlerFns
  BY <1>1, <1>4, Running, Zenon
<1>7. Top.fn # "kernel_main"
  BY <1>2, <1>6, HandlerStarts, MainSteps DEF MainOps
<1>8. /\ op = "eoi_timer" => Top.fn = "irq0_timer_handler" /\ OpOf(b) = "iret"
      /\ op = "eoi_keyboard" => Top.fn = "keyboard_handler" /\ OpOf(b) = "iret"
      /\ op = "eoi_if_irq" => Top.fn = "isr_unhandled_interrupt"
  BY <1>5, <1>6, <1>7, HandlerSteps
<1>9. /\ ChipsInv' /\ pic'.master.base = pic.master.base /\ pic'.slave.base = pic.slave.base
      /\ pic'.master.isr = Ended(pic.master.isr) \/ (op = "eoi_if_irq" /\ pic' = pic)
  <2>1. CASE pic' = pic /\ op = "eoi_if_irq"
    BY <1>1, <2>1, Zenon DEF ChipsInv
  <2>2. CASE pic' = pic_send_eoi(pic, 0)
    <3>1. 0 \in 0 .. 15
      OBVIOUS
    <3> QED BY <1>1, <2>2, <3>1, EoiChips, Zenon
  <2>3. CASE pic' = pic_send_eoi(pic, 1)
    <3>1. 1 \in 0 .. 15
      OBVIOUS
    <3> QED BY <1>1, <2>3, <3>1, EoiChips, Zenon
  <2>4. CASE int_no \in 32 .. 47 /\ pic' = pic_send_eoi(pic, int_no - 32)
    <3> DEFINE irq == int_no - 32
    <3>1. irq \in 0 .. 15 /\ pic' = pic_send_eoi(pic, irq)
      BY <2>4
    <3> HIDE DEF irq
    <3> QED BY <1>1, <3>1, EoiChips, Zenon
  <2> QED BY <1>3, <2>1, <2>2, <2>3, <2>4, Zenon
<1>10. pic'.master.isr \subseteq pic.master.isr
  BY <1>9, Zenon DEF Ended
<1>11. BootInv'
  BY <1>1, <1>2, <1>5, <1>7, <1>9, BootTop, Zenon
<1>12. IF_flag' \in BOOLEAN /\ (Len(stack) > 1 => ~ IF_flag')
  BY <1>1, <1>2, Zenon DEF IrqInv
<1>13. ticks' = IF OpOf(Top) = "tick" /\ b.at > 1 THEN ticks + 1 ELSE ticks
  BY <1>2, <1>4, Zenon
<1>14. CASE op = "eoi_if_irq"
  <2>1. Top.fn \notin {"irq0_timer_handler", "keyboard_handler"}
    BY <1>8, <1>14, Zenon
  <2> QED BY <1>1, <1>2, <1>5, <1>9, <1>10, <1>11, <1>12, <1>13, <2>1, TopStep, Zenon
<1>15. CASE op # "eoi_if_irq"
  <2>1. /\ Top.fn \in {"irq0_timer_handler", "keyboard_handler"} /\ OpOf(b) = "iret"
        /\ OpOf(Top) # "iret"
    BY <1>2, <1>4, <1>8, <1>15, Zenon
  <2>2. events.exception = 0 => Top.irq \notin pic'.master.isr
    BY <1>1, <1>9, <1>15, <2>1, OwnEoi, Zenon
  <2> QED BY <1>1, <1>2, <1>5, <1>9, <1>10, <1>11, <1>12, <1>13, <2>1, <2>2, TopStep, Zenon
<1> QED BY <1>14, <1>15, Zenon

\* The tables and the controllers are set up.
LEMMA TableStep ==
  ASSUME KernelInv, gdt_init \/ PicInit \/ idt_init
  PROVE  KernelInv'
<1> DEFINE op == OpOf(Top)
<1>1. /\ StackInv /\ IrqInv /\ BootInv /\ ChipsInv
      /\ kbd \in {"empty", "char", "special", "release"}
  BY Zenon DEF KernelInv
<1>2. /\ op \in {"gdt_init", "pic_init", "idt_init"} /\ Advance
      /\ UNCHANGED <<vga_lock, ticks, kbd, events, acks>>
  BY Zenon DEF gdt_init, PicInit, idt_init, Executing, tables
<1>3. /\ gdt_loaded' = (gdt_loaded \/ op = "gdt_init")
      /\ idt_loaded' = (idt_loaded \/ op = "idt_init")
      /\ IF_flag' = (IF_flag \/ op = "idt_init")
      /\ isr_handlers' = IF op = "idt_init" THEN Handlers ELSE isr_handlers
      /\ pic' = IF op = "pic_init" THEN pic_init(pic) ELSE pic
  <2>1. gdt_loaded \in BOOLEAN /\ idt_loaded \in BOOLEAN /\ IF_flag \in BOOLEAN
    BY <1>1, Zenon DEF BootInv, IrqInv
  <2>2. CASE gdt_init
    BY <2>1, <2>2, Zenon DEF gdt_init, Executing
  <2>3. CASE PicInit
    BY <2>1, <2>3, Zenon DEF PicInit, Executing, tables
  <2>4. CASE idt_init
    BY <2>1, <2>4, Zenon DEF idt_init, Executing
  <2> QED BY <2>2, <2>3, <2>4, Zenon
<1> HIDE DEF op
<1>4. op = OpOf(Top)
  BY Zenon DEF op
<1>5. /\ Len(stack) = 1 /\ Top.fn = "kernel_main" /\ Top = stack[1]
      /\ Top.at \in DOMAIN kernel_main /\ op = kernel_main[Top.at]
  BY <1>1, <1>2, <1>4, InMain, Zenon
<1>6. /\ op = "gdt_init" <=> Top.at = 2
      /\ op = "pic_init" <=> Top.at = 4
      /\ op = "idt_init" <=> Top.at = 6
  BY <1>5, MainSteps
<1>7. PICK b : /\ Proper(b) /\ Same(b, Top) /\ Becomes(b) /\ ~ b.holds /\ ~ Top.holds
               /\ b.at = Top.at + 1 /\ b.at > 1 /\ Top.at \in Nat
               /\ OpOf(b) = Program(Top.fn)[Top.at + 1]
  BY <1>1, <1>2, <1>4, Advanced, Zenon DEF Printing
<1>8. Len(stack') = 1 /\ stack'[1] = b
  BY <1>1, <1>5, <1>7, TopChanged, Zenon
<1>9. /\ ChipsInv' /\ pic'.master.isr \subseteq pic.master.isr
      /\ op = "pic_init" => pic'.master.base = 32 /\ pic'.slave.base = 40
  <2>1. CASE op # "pic_init"
    BY <1>1, <1>3, <2>1, Zenon DEF ChipsInv
  <2>2. CASE op = "pic_init"
    <3> DEFINE m == pic.master.imr
               s == pic.slave.imr
    <3>1. pic \in PicPair
      BY <1>1, Zenon DEF ChipsInv
    <3>2. pic' = [master |-> Fresh(32, m, 0), slave |-> Fresh(40, s, 0)]
      BY <1>3, <2>2, <3>1, RemapKeepsMasks, Zenon
    <3>3. m \subseteq Lines /\ s \subseteq Lines
      BY <3>1, Zenon DEF PicPair, Chip
    <3> HIDE DEF m, s
    <3>4. pic' \in PicPair
      BY <3>2, <3>3 DEF PicPair, Chip, Fresh
    <3>5. /\ pic'.master.irr = {} /\ pic'.master.isr = {} /\ pic'.master.icw = 0
          /\ pic'.slave.icw = 0 /\ pic'.master.base = 32 /\ pic'.slave.base = 40
      BY <3>2, Zenon DEF Fresh
    <3> QED BY <3>4, <3>5, Zenon DEF ChipsInv
  <2> QED BY <2>1, <2>2, Zenon
<1>10. BootInv'
  <2> DEFINE p == Top.at
  <2>1. /\ gdt_loaded \in BOOLEAN /\ idt_loaded \in BOOLEAN /\ IF_flag \in BOOLEAN
        /\ gdt_loaded <=> p > 2
        /\ p > 4 => pic.master.base = 32 /\ pic.slave.base = 40
        /\ idt_loaded <=> p > 6
        /\ IF_flag => p > 6
    BY <1>1, <1>5, Zenon DEF BootInv, IrqInv
  <2>2. p = 2 \/ p = 4 \/ p = 6
    BY <1>2, <1>6, Zenon
  <2>3. b.at = p + 1
    BY <1>7, Zenon
  <2> HIDE DEF p
  <2>4. (op = "gdt_init" <=> p = 2) /\ (op = "pic_init" <=> p = 4) /\ (op = "idt_init" <=> p = 6)
    BY <1>6, Zenon DEF p
  <2>5. /\ gdt_loaded' \in BOOLEAN /\ idt_loaded' \in BOOLEAN
        /\ gdt_loaded' <=> b.at > 2
        /\ idt_loaded' <=> b.at > 6
        /\ IF_flag' => b.at > 6
    <3>1. b.at > 2 /\ (b.at > 6 <=> p = 6) /\ (p > 2 \/ p = 2) /\ ~ (p > 6)
      BY <2>2, <2>3
    <3> QED BY <1>3, <2>1, <2>4, <3>1, Zenon
  <2>6. b.at > 4 => pic'.master.base = 32 /\ pic'.slave.base = 40
    <3>1. CASE p = 4
      BY <1>9, <2>4, <3>1, Zenon
    <3>2. CASE p # 4
      BY <1>3, <2>1, <2>2, <2>3, <2>4, <3>2
    <3> QED BY <3>1, <3>2, Zenon
  <2>7. b.at > 6 => isr_handlers' = Handlers
    BY <1>3, <2>2, <2>3, <2>4
  <2> QED BY <1>8, <2>5, <2>6, <2>7 DEF BootInv
<1>11. IF_flag' \in BOOLEAN /\ ~ (Len(stack) > 1)
  BY <1>1, <1>3, <1>5 DEF IrqInv
<1>12. /\ ticks' = IF OpOf(Top) = "tick" /\ b.at > 1 THEN ticks + 1 ELSE ticks
       /\ Top.fn \notin {"irq0_timer_handler", "keyboard_handler"}
  BY <1>2, <1>4, <1>5, Zenon
<1> QED BY <1>1, <1>2, <1>7, <1>9, <1>10, <1>11, <1>12, TopStep, Zenon

-----------------------------------------------------------------------------
(* The devices                                                             *)

\* A request leaves the CPU and what is in service alone.
LEMMA RequestStep ==
  ASSUME KernelInv, NEW irq \in 0 .. 15, irq # Cascade, pic' = Raise(pic, irq),
         UNCHANGED <<stack, IF_flag, gdt_loaded, idt_loaded, isr_handlers, vga_lock, ticks, acks>>,
         kbd' \in {"empty", "char", "special", "release"},
         events' \in [key : Nat, other : Nat, exception : Nat],
         events'.exception = events.exception
  PROVE  KernelInv'
<1>1. /\ StackInv /\ IrqInv /\ BootInv /\ ChipsInv /\ AckInv /\ CountInv /\ LockInv
      /\ pic \in PicPair
  BY Zenon DEF KernelInv, ChipsInv
<1>2. /\ pic' \in PicPair
      /\ pic'.master.irr = IF irq < 8 THEN pic.master.irr \cup {irq} ELSE pic.master.irr
      /\ pic'.master.isr = pic.master.isr
      /\ pic'.master.base = pic.master.base /\ pic'.slave.base = pic.slave.base
      /\ pic'.master.icw = pic.master.icw /\ pic'.slave.icw = pic.slave.icw
  BY <1>1, Raised, Zenon
<1>3. StackInv' /\ IrqInv' /\ CountInv' /\ LockInv'
  BY <1>1, Zenon DEF StackInv, Proper, OpOf, IrqInv, CountInv, Owed, LockInv
<1>4. BootInv'
  BY <1>1, <1>2, Zenon DEF BootInv
<1>5. AckInv'
  BY <1>1, <1>2, Zenon DEF AckInv, OpOf
<1>6. ChipsInv'
  BY <1>1, <1>2, Zenon DEF ChipsInv
<1> QED BY <1>3, <1>4, <1>5, <1>6, Zenon DEF KernelInv

\* The devices.
LEMMA DeviceStep ==
  ASSUME KernelInv,
         \/ PitEdge
         \/ \E k \in {"char", "special", "release"} : Key(k)
         \/ \E irq \in OtherIrqs : OtherDevice(irq)
  PROVE  KernelInv'
<1>1. kbd \in {"empty", "char", "special", "release"}
  BY Zenon DEF KernelInv
<1>2. events \in [key : Nat, other : Nat, exception : Nat]
  BY Zenon DEF KernelInv, AckInv
<1>3. CASE PitEdge
  <2>1. 0 \in 0 .. 15 /\ 0 # Cascade
    BY DEF Cascade
  <2>2. /\ pic' = Raise(pic, 0) /\ kbd' = kbd /\ events' = events
        /\ UNCHANGED <<stack, IF_flag, gdt_loaded, idt_loaded, isr_handlers, vga_lock, ticks, acks>>
    BY <1>3, Zenon DEF PitEdge, tables
  <2> QED BY <1>1, <1>2, <2>1, <2>2, RequestStep, Zenon
<1>4. ASSUME NEW k \in {"char", "special", "release"}, Key(k)
      PROVE  KernelInv'
  <2>1. 1 \in 0 .. 15 /\ 1 # Cascade
    BY DEF Cascade
  <2>2. /\ pic' = Raise(pic, 1) /\ kbd' = k /\ events' = [events EXCEPT !.key = @ + 1]
        /\ UNCHANGED <<stack, IF_flag, gdt_loaded, idt_loaded, isr_handlers, vga_lock, ticks, acks>>
    BY <1>4, Zenon DEF Key, tables
  <2>3. /\ events' \in [key : Nat, other : Nat, exception : Nat]
        /\ events'.exception = events.exception
    BY <1>2, <2>2
  <2>4. kbd' \in {"empty", "char", "special", "release"}
    BY <1>4, <2>2, Zenon
  <2> QED BY <2>1, <2>2, <2>3, <2>4, RequestStep, Zenon
<1>5. ASSUME NEW irq \in OtherIrqs, OtherDevice(irq)
      PROVE  KernelInv'
  <2>1. irq \in 0 .. 15 /\ irq # Cascade
    BY InterruptsAssumption DEF Cascade
  <2>2. /\ pic' = Raise(pic, irq) /\ kbd' = kbd /\ events' = [events EXCEPT !.other = @ + 1]
        /\ UNCHANGED <<stack, IF_flag, gdt_loaded, idt_loaded, isr_handlers, vga_lock, ticks, acks>>
    BY <1>5, Zenon DEF OtherDevice, tables
  <2>3. /\ events' \in [key : Nat, other : Nat, exception : Nat]
        /\ events'.exception = events.exception
    BY <1>2, <2>2
  <2> QED BY <1>1, <2>1, <2>2, <2>3, RequestStep, Zenon
<1> QED BY <1>3, <1>4, <1>5, Zenon

\* Nothing changes.
LEMMA KernelStutter ==
  ASSUME KernelInv, UNCHANGED vars
  PROVE  KernelInv'
<1>1. UNCHANGED <<stack, IF_flag, gdt_loaded, idt_loaded, isr_handlers, pic, vga_lock, ticks, kbd,
                  events, acks>>
  BY Zenon DEF vars, tables
<1>2. StackInv' /\ IrqInv' /\ CountInv' /\ LockInv'
  BY <1>1, Zenon DEF KernelInv, StackInv, Proper, OpOf, IrqInv, CountInv, Owed, LockInv
<1>3. BootInv' /\ AckInv' /\ ChipsInv'
  BY <1>1 DEF KernelInv, BootInv, AckInv, OpOf, ChipsInv
<1> QED BY <1>1, <1>2, <1>3, Zenon DEF KernelInv

-----------------------------------------------------------------------------
(* Entry and return                                                        *)

\* A handler returns to what it interrupted.
LEMMA IretStep ==
  ASSUME KernelInv, iret
  PROVE  KernelInv'
<1> DEFINE n == Len(stack)
<1>1. /\ StackInv /\ IrqInv /\ BootInv /\ ChipsInv /\ AckInv /\ CountInv /\ LockInv
      /\ kbd \in {"empty", "char", "special", "release"}
  BY Zenon DEF KernelInv
<1>2. /\ OpOf(Top) = "iret" /\ stack' = SubSeq(stack, 1, Len(stack) - 1) /\ IF_flag' = Top.saved_IF
      /\ UNCHANGED <<gdt_loaded, idt_loaded, isr_handlers, pic, vga_lock, ticks, kbd, events, acks>>
  BY Zenon DEF iret, Executing, tables
<1>3. /\ n \in Nat /\ n > 0 /\ Top = stack[n] /\ n \in 1 .. n /\ Proper(Top) /\ ~ Top.holds
      /\ (Top.fn = "kernel_main" <=> n = 1)
      /\ Top.at \in DOMAIN Program(Top.fn) /\ OpOf(Top) = Program(Top.fn)[Top.at]
  BY <1>1, <1>2, Running, Zenon DEF Printing
<1>4. n > 1
  <2>1. "iret" \notin MainOps
    BY Zenon DEF MainOps
  <2>2. Top.fn # "kernel_main"
    <3> SUFFICES ASSUME Top.fn = "kernel_main"
                 PROVE  FALSE
      BY Zenon
    <3>1. Top.at \in DOMAIN kernel_main /\ kernel_main[Top.at] = "iret"
      BY <1>2, <1>3, HandlerStarts, Zenon
    <3>2. "iret" \in MainOps
      BY <3>1, MainSteps, Zenon
    <3> QED BY <2>1, <3>2, Zenon
  <2> QED BY <1>3, <2>2
<1>5. /\ stack' \in Seq(Activation) /\ Len(stack') = n - 1
      /\ \A i \in 1 .. n - 1 : stack'[i] = stack[i]
  <2>1. stack \in Seq(Activation)
    BY <1>1, Zenon DEF StackInv
  <2>2. stack' = SubSeq(stack, 1, n - 1)
    BY <1>2, Zenon
  <2>3. n = Len(stack)
    BY Zenon
  <2> HIDE DEF n
  <2> QED BY <1>3, <1>4, <2>1, <2>2, <2>3
<1>6. \A i \in 1 .. n - 1 : i \in 1 .. n
  BY <1>3
<1> HIDE DEF n
<1>7. StackInv'
  <2>1. \A i \in 1 .. n : Proper(stack[i]) /\ (stack[i].fn = "kernel_main" <=> i = 1)
    BY <1>1, Zenon DEF StackInv, n
  <2>2. \A i \in 1 .. n - 1 : Proper(stack'[i]) /\ (stack'[i].fn = "kernel_main" <=> i = 1)
    BY <1>5, <1>6, <2>1, Zenon
  <2>3. Len(stack') > 0
    BY <1>3, <1>4, <1>5
  <2> QED BY <1>5, <2>2, <2>3, Zenon DEF StackInv, Proper, OpOf
<1>8. IrqInv'
  <2>1. Top.saved_IF \in BOOLEAN /\ (n > 2 => ~ Top.saved_IF)
    BY <1>1, <1>3, Zenon DEF IrqInv, n, Proper, Activation
  <2>2. IF_flag' \in BOOLEAN /\ (n - 1 > 1 => ~ IF_flag')
    BY <1>2, <1>3, <2>1
  <2>3. \A i \in 1 .. n :
          /\ i > 2 => stack[i].irq = NoIrq /\ ~ stack[i].saved_IF
          /\ i = 1 => stack[i].irq = NoIrq /\ stack[i].words = << >>
          /\ stack[i].irq = 0 <=> stack[i].fn = "irq0_timer_handler"
          /\ stack[i].fn = "keyboard_handler" => stack[i].irq = 1
          /\ stack[i].irq # NoIrq =>
               \E eax \in EaxValues :
                 stack[i].words = Pushed(32 + stack[i].irq, 32 + stack[i].irq, eax)
    BY <1>1, Zenon DEF IrqInv, n
  <2>4. 1 .. Len(stack') = 1 .. n - 1 /\ (Len(stack') > 1 => ~ IF_flag')
    BY <1>5, <2>2, Zenon
  <2> QED BY <1>5, <1>6, <2>2, <2>3, <2>4, ZenonT(30) DEF IrqInv
<1>9. 1 \in 1 .. n - 1 /\ stack'[1] = stack[1]
  BY <1>3, <1>4, <1>5
<1>10. BootInv'
  BY <1>1, <1>2, <1>4, <1>9, Zenon DEF BootInv, n
<1>11. ChipsInv'
  BY <1>1, <1>2, Zenon DEF ChipsInv
<1>12. AckInv'
  <2>1. events \in [key : Nat, other : Nat, exception : Nat]
    BY <1>1, Zenon DEF AckInv
  <2> SUFFICES ASSUME events.exception = 0
               PROVE  n - 1 = 1 /\ 0 \notin pic.master.isr
    <3>1. events' = events /\ pic' = pic /\ Len(stack') = n - 1
      BY <1>2, <1>5, Zenon
    <3> QED BY <2>1, <3>1 DEF AckInv
  <2>2. n = 2 /\ (0 \in pic.master.isr => Top.irq = 0)
    BY <1>1, <1>3, <1>4 DEF AckInv, n
  <2>3. Top.irq = 0 => Top.fn = "irq0_timer_handler"
    BY <1>1, <1>3, Zenon DEF IrqInv, n
  <2>4. Top.fn = "irq0_timer_handler" => Top.irq \notin pic.master.isr
    BY <1>1, <1>2, <1>3, <2>2, Zenon DEF AckInv, n
  <2> QED BY <2>2, <2>3, <2>4
<1>13. CountInv'
  <2>1. CASE n = 2
    <3>1. ~ Owed /\ ~ Owed'
      BY <1>2, <1>3, <1>5, <2>1 DEF Owed
    <3> QED BY <1>1, <1>2, <3>1, Zenon DEF CountInv
  <2>2. CASE n # 2
    <3>1. 2 \in 1 .. n - 1 /\ n - 1 > 1 /\ stack'[2] = stack[2]
      BY <1>3, <1>4, <1>5, <2>2
    <3>2. Owed' <=> Owed
      BY <1>4, <1>5, <3>1, Zenon DEF Owed, OpOf, n
    <3> QED BY <1>1, <1>2, <3>2, Zenon DEF CountInv
  <2> QED BY <2>1, <2>2, Zenon
<1>14. LockInv'
  <2>1. /\ vga_lock \in BOOLEAN
        /\ vga_lock <=> \E i \in 1 .. n : stack[i].holds
        /\ \A i, j \in 1 .. n : stack[i].holds /\ stack[j].holds => i = j
    BY <1>1, Zenon DEF LockInv, n
  <2>2. \A i \in 1 .. n : stack[i].holds => i \in 1 .. n - 1
    BY <1>3
  <2>3. vga_lock <=> \E i \in 1 .. n - 1 : stack'[i].holds
    BY <1>5, <1>6, <2>1, <2>2, Zenon
  <2>4. \A i, j \in 1 .. n - 1 : stack'[i].holds /\ stack'[j].holds => i = j
    BY <1>5, <1>6, <2>1, Zenon
  <2>5. 1 .. Len(stack') = 1 .. n - 1
    BY <1>5, Zenon
  <2>6. vga_lock' = vga_lock
    BY <1>2, Zenon
  <2>7. vga_lock' \in BOOLEAN /\ (vga_lock' <=> \E i \in 1 .. Len(stack') : stack'[i].holds)
    BY <2>1, <2>3, <2>5, <2>6, Zenon
  <2>8. \A i, j \in 1 .. Len(stack') : stack'[i].holds /\ stack'[j].holds => i = j
    BY <2>4, <2>5, Zenon
  <2> QED BY <2>7, <2>8, Zenon DEF LockInv
<1> QED BY <1>1, <1>2, <1>7, <1>8, <1>10, <1>11, <1>12, <1>13, <1>14, Zenon DEF KernelInv

\* idt.c:128: an exception the CPU raises here, and every irq, clears IF.
LEMMA ClearsIF ==
  ASSUME NEW v \in Vectors, v \notin 22 .. 31, v \notin {1, 3}
  PROVE  GateClearsIF(v)
<1>1. Gates[v] = idt_set_entry(StubAddress(v), SEG_KERNEL_CODE, IDT_KERNEL_INTERRUPT)
  BY DEF Gates
<1>2. Gates[v].type_attr = IDT_KERNEL_INTERRUPT
  BY <1>1 DEF idt_set_entry
<1> QED BY <1>2 DEF GateClearsIF, GateType, IDT_KERNEL_INTERRUPT, IDT_GATE_INTERRUPT_32

FrameNames ==
  {"ds", "edi", "esi", "ebp", "esp", "ebx", "edx", "ecx", "eax", "int_no", "err_code", "eip",
   "cs", "eflags"}

\* isr_stubs.asm:41: CPU and stub together push one error code for every vector, so
\* that the vector and the return address are where interrupt_frame_t has them.
LEMMA FrameRead ==
  ASSUME NEW v \in Vectors, NEW eax, NEW w, w = Pushed(v, v, eax)
  PROVE  /\ Field(interrupt_frame_t, "int_no", w) = v
         /\ Field(interrupt_frame_t, "eip", w) = ReturnAddress
<1> DEFINE r == <<"ds", "edi", "esi", "ebp", "esp", "ebx", "edx", "ecx", "eax", "int_no">>
           d == IF v \in StubPushesDummy THEN <<"err_code">> ELSE << >>
           e == IF v \in CpuPushesError THEN <<"err_code">> ELSE << >>
           t == <<"eip", "cs", "eflags">>
           order == PushOrder(v, v)
           s1 == r \o d
           s2 == s1 \o e
<1>1. order = s2 \o t /\ s2 = s1 \o e /\ s1 = r \o d
  BY Zenon DEF PushOrder
<1>2. /\ r \in Seq(FrameNames) /\ d \in Seq(FrameNames) /\ e \in Seq(FrameNames)
      /\ t \in Seq(FrameNames)
  <2>1. r \in Seq(FrameNames)
    BY DEF FrameNames
  <2>2. t \in Seq(FrameNames)
    BY DEF FrameNames
  <2>3. <<"err_code">> \in Seq(FrameNames)
    BY DEF FrameNames
  <2>4. << >> \in Seq(FrameNames)
    OBVIOUS
  <2>5. d \in Seq(FrameNames) /\ e \in Seq(FrameNames)
    BY <2>3, <2>4, Zenon
  <2> QED BY <2>1, <2>2, <2>5, Zenon
<1>3. Len(r) = 10 /\ r[10] = "int_no" /\ Len(t) = 3 /\ t[1] = "eip"
  BY Zenon
<1>4. Len(d) + Len(e) = 1 /\ Len(d) \in Nat /\ Len(e) \in Nat
  BY DEF StubPushesDummy, CpuPushesError
<1> HIDE DEF r, d, e, t, s1, s2, order
<1>5. s1 \in Seq(FrameNames) /\ Len(s1) = Len(r) + Len(d) /\ \A i \in 1 .. Len(r) : s1[i] = r[i]
  BY <1>1, <1>2, Joined
<1>6. s2 \in Seq(FrameNames) /\ Len(s2) = Len(s1) + Len(e) /\ \A i \in 1 .. Len(s1) : s2[i] = s1[i]
  BY <1>1, <1>2, <1>5, Joined
<1>7. /\ DOMAIN order = 1 .. Len(s2) + Len(t) /\ \A i \in 1 .. Len(s2) : order[i] = s2[i]
      /\ \A i \in 1 .. Len(t) : order[Len(s2) + i] = t[i]
  BY <1>1, <1>2, <1>6, Joined
<1>8. Len(s2) = 11
  BY <1>3, <1>4, <1>5, <1>6
<1>9. 10 \in DOMAIN order /\ 12 \in DOMAIN order
  BY <1>3, <1>7, <1>8
<1>10. order[10] = "int_no"
  BY <1>3, <1>4, <1>5, <1>6, <1>7
<1>11. order[12] = "eip"
  BY <1>3, <1>7, <1>8
<1>12. w = [i \in DOMAIN order |->
              CASE order[i] = "eax"    -> eax
                [] order[i] = "int_no" -> v
                [] order[i] = "eip"    -> ReturnAddress
                [] OTHER               -> 0]
  BY Zenon DEF Pushed, order
<1>13. w[10] = v
  BY <1>9, <1>10, <1>12, Zenon
<1>14. w[12] = ReturnAddress
  BY <1>9, <1>11, <1>12, Zenon
<1>15. /\ DOMAIN interrupt_frame_t = 1 .. 16
       /\ \A i \in 1 .. 16 : interrupt_frame_t[i] = "int_no" <=> i = 10
       /\ \A i \in 1 .. 16 : interrupt_frame_t[i] = "eip" <=> i = 12
  BY DEF interrupt_frame_t
<1>16. 10 \in 1 .. 16 /\ 12 \in 1 .. 16
  OBVIOUS
<1>17. (CHOOSE i \in DOMAIN interrupt_frame_t : interrupt_frame_t[i] = "int_no") = 10
  BY <1>15, <1>16, Zenon
<1>18. (CHOOSE i \in DOMAIN interrupt_frame_t : interrupt_frame_t[i] = "eip") = 12
  BY <1>15, <1>16, Zenon
<1> QED BY <1>13, <1>14, <1>17, <1>18, Zenon DEF Field

\* What isr_common_handler calls once the tables are filled.
LEMMA HandlerOf ==
  ASSUME BootInv, idt_loaded, NEW v \in Vectors, NEW eax, NEW w, w = Pushed(v, v, eax),
         NEW fn, fn = isr_common_handler(w)
  PROVE  /\ fn \in HandlerFns
         /\ fn = "irq0_timer_handler" <=> v = 32
         /\ fn = "keyboard_handler" => v = 33
<1>1. isr_handlers \in {Handlers, [Handlers EXCEPT ![33] = "keyboard_handler"]}
  BY Zenon DEF BootInv
<1>2. /\ Handlers[v] \in HandlerFns /\ Handlers[v] # "keyboard_handler"
      /\ Handlers[v] = "irq0_timer_handler" <=> v = 32
  BY DEF Handlers, HandlerFns
<1>3. DOMAIN Handlers = Vectors
  BY Zenon DEF Handlers
<1>4. /\ isr_handlers[v] \in HandlerFns
      /\ isr_handlers[v] = "irq0_timer_handler" <=> v = 32
      /\ isr_handlers[v] = "keyboard_handler" => v = 33
  <2>1. CASE isr_handlers = Handlers
    BY <1>2, <2>1, Zenon
  <2>2. CASE isr_handlers = [Handlers EXCEPT ![33] = "keyboard_handler"]
    <3>1. isr_handlers[v] = IF v = 33 THEN "keyboard_handler" ELSE Handlers[v]
      BY <1>3, <2>2, Zenon
    <3>2. "keyboard_handler" \in HandlerFns /\ "keyboard_handler" # "irq0_timer_handler"
      BY Zenon DEF HandlerFns
    <3> QED BY <1>2, <3>1, <3>2
  <2> QED BY <1>1, <2>1, <2>2, Zenon
<1>5. Field(interrupt_frame_t, "int_no", w) = v
  BY FrameRead, Zenon
<1>6. fn = isr_handlers[v]
  <2>1. isr_handlers[v] # "none"
    BY <1>4, Zenon DEF HandlerFns
  <2> QED BY <1>5, <2>1, Zenon DEF isr_common_handler
<1> QED BY <1>4, <1>6, Zenon

\* The interrupted activation: a halt is over, otherwise it stays where it is.
LEMMA ResumedTop ==
  ASSUME StackInv, NEW a, a = Resumed(Top)
  PROVE  /\ Proper(a) /\ Same(a, Top) /\ (a.holds <=> Top.holds)
         /\ Top.fn \notin {"kernel_main", "kernel_panic"} => a = Top
         /\ Top.fn = "kernel_main" => a.at = Top.at \/ (Top.at > 10 /\ a.at > 10)
<1> DEFINE op == OpOf(Top)
<1>1. /\ Proper(Top) /\ Top.fn \in Fns /\ Top.at \in DOMAIN Program(Top.fn)
      /\ Top.fn # "kernel_main" => Top.fn \in HandlerFns
      /\ op = Program(Top.fn)[Top.at]
      /\ op \notin Printing => ~ Top.holds
  BY Running, Zenon
<1>2. a = IF op = "sleep_halted" THEN At(Top, Top.at - 2)
          ELSE IF op \in {"idle_halted", "panic_halted"} THEN At(Top, Top.at - 1)
          ELSE Top
  BY Zenon DEF Resumed
<1> HIDE DEF op
<1>3. CASE op = "sleep_halted" \/ op \in {"idle_halted", "panic_halted"}
  <2> DEFINE i == IF op = "sleep_halted" THEN Top.at - 2 ELSE Top.at - 1
  <2>1. a = At(Top, i)
    BY <1>2, <1>3, Zenon
  <2>2. /\ i \in DOMAIN Program(Top.fn) /\ Top.fn \in {"kernel_main", "kernel_panic"}
        /\ Top.fn = "kernel_main" => Top.at > 10 /\ i > 10
    <3>1. CASE Top.fn = "kernel_main"
      <4>1. op # "panic_halted"
        BY <1>1, <3>1, HandlerStarts, MainSteps DEF MainOps
      <4>2. /\ Top.at \in Nat /\ Top.at > 13
            /\ op = "sleep_halted" => Top.at - 2 \in DOMAIN kernel_main
            /\ op = "idle_halted" => Top.at - 1 \in DOMAIN kernel_main
        BY <1>1, <1>3, <3>1, <4>1, HandlerStarts, MainSteps, Zenon
      <4> QED BY <1>3, <3>1, <4>1, <4>2, HandlerStarts
    <3>2. CASE Top.fn \in HandlerFns
      <4> DEFINE f == Top.fn
                 j == Top.at
      <4>1. f \in HandlerFns /\ j \in DOMAIN Program(f) /\ op = Program(f)[j]
        BY <1>1, <3>2, Zenon
      <4> HIDE DEF f, j
      <4>2. /\ op \in {"tick", "eoi_timer", "iret", "inb", "log", "putc", "eoi_keyboard",
                     "eoi_if_irq", "cli", "set_colors", "hlt", "panic_halted"}
            /\ op = "panic_halted" => j - 1 \in DOMAIN Program(f)
        BY <4>1, HandlerSteps
      <4>3. op = "panic_halted"
        BY <1>3, <4>2, Zenon
      <4>4. f = "kernel_panic"
        BY <4>1, <4>3 DEF HandlerFns, Program, irq0_timer_handler, keyboard_handler,
                          isr_unhandled_interrupt
      <4> QED BY <4>2, <4>3, <4>4, Zenon DEF f, j
    <3> QED BY <1>1, <3>1, <3>2, Zenon
  <2>3. ~ Top.holds
    BY <1>1, <1>3, Zenon DEF Printing
  <2> HIDE DEF i
  <2>4. Proper(a) /\ Same(a, Top) /\ ~ a.holds /\ a.at = i
    BY <1>1, <2>1, <2>2, <2>3, Moved
  <2> QED BY <2>2, <2>3, <2>4, Zenon
<1>4. CASE ~ (op = "sleep_halted" \/ op \in {"idle_halted", "panic_halted"})
  BY <1>1, <1>2, <1>4, Zenon DEF Same
<1> QED BY <1>3, <1>4, Zenon

\* What Append does to a sequence.
LEMMA Pushing ==
  ASSUME NEW S, NEW s \in Seq(S), NEW b \in S, NEW z, z = Append(s, b)
  PROVE  /\ z \in Seq(S) /\ Len(z) = Len(s) + 1 /\ z[Len(s) + 1] = b
         /\ \A i \in 1 .. Len(s) : z[i] = s[i]
OBVIOUS

\* A handler is entered, through a gate that clears IF.
LEMMA EnterStep ==
  ASSUME KernelInv, idt_loaded, NEW a, Proper(a), Same(a, Top), a.holds <=> Top.holds,
         Top.fn = "kernel_main" => a.at = Top.at \/ (Top.at > 10 /\ a.at > 10),
         NEW b, Proper(b), ~ b.holds, b.fn \in HandlerFns,
         stack' = Append([stack EXCEPT ![Len(stack)] = a], b), IF_flag' = FALSE,
         Len(stack) > 1 => b.irq = NoIrq /\ ~ b.saved_IF,
         b.irq = 0 <=> b.fn = "irq0_timer_handler",
         b.fn = "keyboard_handler" => b.irq = 1,
         b.irq # NoIrq => \E eax \in EaxValues : b.words = Pushed(32 + b.irq, 32 + b.irq, eax),
         pic'.master.base = pic.master.base, pic'.slave.base = pic.slave.base,
         UNCHANGED <<gdt_loaded, idt_loaded, isr_handlers, vga_lock>>
  PROVE  /\ StackInv' /\ IrqInv' /\ BootInv' /\ LockInv'
         /\ Len(stack') = Len(stack) + 1 /\ stack'[Len(stack) + 1] = b
         /\ stack'[Len(stack)] = a
         /\ \A i \in 1 .. Len(stack) : i # Len(stack) => stack'[i] = stack[i]
<1> DEFINE n == Len(stack)
<1>1. /\ StackInv /\ IrqInv /\ BootInv /\ LockInv
  BY Zenon DEF KernelInv
<1>2. /\ n \in Nat /\ n > 0 /\ Top = stack[n] /\ n \in 1 .. n /\ Proper(Top)
      /\ (Top.fn = "kernel_main" <=> n = 1)
  BY <1>1, Running, Zenon
<1>3. stack \in Seq(Activation) /\ a \in Activation /\ b \in Activation
  BY <1>1, Zenon DEF StackInv, Proper
<1>4. /\ stack' \in Seq(Activation) /\ Len(stack') = n + 1 /\ stack'[n + 1] = b /\ stack'[n] = a
      /\ \A i \in 1 .. n : i # n => stack'[i] = stack[i]
  <2> DEFINE s == [stack EXCEPT ![n] = a]
  <2>1. /\ s \in Seq(Activation) /\ Len(s) = n /\ s[n] = a
        /\ \A i \in 1 .. n : i # n => s[i] = stack[i]
    BY <1>2, <1>3
  <2>2. stack' = Append(s, b)
    BY Zenon
  <2> HIDE DEF s
  <2>3. /\ stack' \in Seq(Activation) /\ Len(stack') = Len(s) + 1 /\ stack'[Len(s) + 1] = b
        /\ \A i \in 1 .. Len(s) : stack'[i] = s[i]
    <3>1. s \in Seq(Activation) /\ b \in Activation
      BY <1>3, <2>1, ZenonT(30)
    <3>2. \A z : z = Append(s, b) =>
            /\ z \in Seq(Activation) /\ Len(z) = Len(s) + 1 /\ z[Len(s) + 1] = b
            /\ \A i \in 1 .. Len(s) : z[i] = s[i]
      BY <3>1, Pushing
    <3> QED BY <2>2, <3>2, Zenon
  <2> QED BY <1>2, <2>1, <2>3, ZenonT(30)
<1> HIDE DEF n
<1>5. \A i \in 1 .. n : Same(stack'[i], stack[i]) /\ (stack'[i].holds <=> stack[i].holds)
  <2> TAKE i \in 1 .. n
  <2>1. CASE i = n
    BY <1>2, <1>4, <2>1, Zenon
  <2>2. CASE i # n
    BY <1>4, <2>2, ZenonT(30) DEF Same
  <2> QED BY <2>1, <2>2, Zenon
<1>6. \A i \in 1 .. n + 1 : i \in 1 .. n \/ i = n + 1
  BY <1>2
<1>7. StackInv'
  <2>1. ASSUME NEW i \in 1 .. n + 1
        PROVE  Proper(stack'[i]) /\ (stack'[i].fn = "kernel_main" <=> i = 1)
    <3>1. CASE i = n + 1
      <4>1. b.fn # "kernel_main" /\ i # 1
        BY <1>2, <3>1 DEF HandlerFns
      <4> QED BY <1>4, <3>1, <4>1, Zenon
    <3>2. CASE i \in 1 .. n
      <4>1. Proper(stack[i]) /\ (stack[i].fn = "kernel_main" <=> i = 1)
        BY <1>1, <3>2, Zenon DEF StackInv, n
      <4>2. Proper(stack'[i])
        BY <1>2, <1>4, <3>2, <4>1, ZenonT(30)
      <4> QED BY <1>5, <3>2, <4>1, <4>2, Zenon DEF Same
    <3> QED BY <1>6, <3>1, <3>2, ZenonT(30)
  <2>2. Len(stack') > 0
    BY <1>2, <1>4
  <2> QED BY <1>4, <2>1, <2>2, Zenon DEF StackInv, Proper, OpOf
<1>8. IrqInv'
  <2>1. ASSUME NEW i \in 1 .. n + 1
        PROVE  /\ i > 2 => stack'[i].irq = NoIrq /\ ~ stack'[i].saved_IF
               /\ i = 1 => stack'[i].irq = NoIrq /\ stack'[i].words = << >>
               /\ stack'[i].irq = 0 <=> stack'[i].fn = "irq0_timer_handler"
               /\ stack'[i].fn = "keyboard_handler" => stack'[i].irq = 1
               /\ stack'[i].irq # NoIrq =>
                    \E eax \in EaxValues :
                      stack'[i].words = Pushed(32 + stack'[i].irq, 32 + stack'[i].irq, eax)
    <3>1. CASE i = n + 1
      <4>1. i # 1 /\ (i > 2 => n > 1) /\ stack'[i] = b
        BY <1>2, <1>4, <3>1
      <4>2. i > 2 => b.irq = NoIrq /\ ~ b.saved_IF
        BY <4>1, ZenonT(30) DEF n
      <4>3. \A x : x = b =>
                /\ x.irq = 0 <=> x.fn = "irq0_timer_handler"
                /\ x.fn = "keyboard_handler" => x.irq = 1
                /\ x.irq # NoIrq =>
                     \E eax \in EaxValues : x.words = Pushed(32 + x.irq, 32 + x.irq, eax)
        OBVIOUS
      <4> QED BY <4>1, <4>2, <4>3, ZenonT(30)
    <3>2. CASE i \in 1 .. n
      <4>1. /\ i > 2 => stack[i].irq = NoIrq /\ ~ stack[i].saved_IF
            /\ i = 1 => stack[i].irq = NoIrq /\ stack[i].words = << >>
            /\ stack[i].irq = 0 <=> stack[i].fn = "irq0_timer_handler"
            /\ stack[i].fn = "keyboard_handler" => stack[i].irq = 1
            /\ stack[i].irq # NoIrq =>
                 \E eax \in EaxValues :
                   stack[i].words = Pushed(32 + stack[i].irq, 32 + stack[i].irq, eax)
        BY <1>1, <3>2, Zenon DEF IrqInv, n
      <4>2. Same(stack'[i], stack[i])
        BY <1>5, <3>2, Zenon
      <4> QED BY <4>1, <4>2, Zenon DEF Same
    <3> QED BY <1>6, <3>1, <3>2, Zenon
  <2>2. IF_flag' \in BOOLEAN /\ ~ IF_flag' /\ 1 .. Len(stack') = 1 .. n + 1
    BY <1>4, Zenon
  <2> QED BY <2>1, <2>2, Zenon DEF IrqInv
<1>9. BootInv'
  <2> DEFINE p == stack[1].at
             q == stack'[1].at
  <2>1. q = p \/ (p > 10 /\ q > 10)
    <3>1. CASE n = 1
      BY <1>2, <1>4, <3>1, Zenon
    <3>2. CASE n # 1
      <4>1. 1 \in 1 .. n
        BY <1>2
      <4> QED BY <1>4, <3>2, <4>1, Zenon
    <3> QED BY <3>1, <3>2, Zenon
  <2>2. p \in Nat /\ q \in Nat
    <3>1. Proper(stack[1]) /\ Proper(stack'[1])
      <4>1. 1 \in 1 .. Len(stack) /\ 1 \in 1 .. n + 1
        BY <1>2 DEF n
      <4>2. Proper(stack[1])
        BY <1>1, <4>1, Zenon DEF StackInv
      <4> QED BY <1>2, <1>4, <4>2
    <3> QED BY <3>1, ZenonT(30) DEF Proper, Activation
  <2>3. /\ gdt_loaded \in BOOLEAN /\ idt_loaded \in BOOLEAN
        /\ gdt_loaded <=> p > 2
        /\ p > 4 => pic.master.base = 32 /\ pic.slave.base = 40
        /\ idt_loaded <=> p > 6
        /\ p > 6 => isr_handlers \in {Handlers, [Handlers EXCEPT ![33] = "keyboard_handler"]}
    BY <1>1, Zenon DEF BootInv
  <2> HIDE DEF p, q
  <2>4. p > 6 /\ q > 6 /\ p > 4 /\ q > 4 /\ p > 2 /\ q > 2
    BY <2>1, <2>2, <2>3
  <2>5. /\ gdt_loaded' \in BOOLEAN /\ idt_loaded' \in BOOLEAN
        /\ gdt_loaded' /\ idt_loaded'
        /\ pic'.master.base = 32 /\ pic'.slave.base = 40
        /\ isr_handlers' \in {Handlers, [Handlers EXCEPT ![33] = "keyboard_handler"]}
    BY <2>3, <2>4, Zenon
  <2> QED BY <2>4, <2>5, ZenonT(30) DEF BootInv, q
<1>10. LockInv'
  <2>1. /\ vga_lock \in BOOLEAN
        /\ vga_lock <=> \E i \in 1 .. n : stack[i].holds
        /\ \A i, j \in 1 .. n : stack[i].holds /\ stack[j].holds => i = j
    BY <1>1, ZenonT(30) DEF LockInv, n
  <2>2. \A i \in 1 .. n : i \in 1 .. n + 1
    BY <1>2
  <2>3. \A i \in 1 .. n + 1 : stack'[i].holds => i \in 1 .. n /\ stack[i].holds
    BY <1>4, <1>5, <1>6, Zenon
  <2>4. vga_lock <=> \E i \in 1 .. n + 1 : stack'[i].holds
    BY <1>5, <2>1, <2>2, <2>3, Zenon
  <2>5. \A i, j \in 1 .. n + 1 : stack'[i].holds /\ stack'[j].holds => i = j
    BY <2>1, <2>3, ZenonT(30)
  <2>6. vga_lock' = vga_lock /\ 1 .. Len(stack') = 1 .. n + 1
    BY <1>4, Zenon
  <2>9. (\E i \in 1 .. n + 1 : stack'[i].holds)
          <=> (\E i \in 1 .. Len(stack') : stack'[i].holds)
    BY <2>6, Zenon
  <2>7. vga_lock' \in BOOLEAN /\ (vga_lock' <=> \E i \in 1 .. Len(stack') : stack'[i].holds)
    <3>1. CASE vga_lock = TRUE
      <4>1. vga_lock' = TRUE
        BY <2>6, <3>1, Zenon
      <4> QED BY <2>4, <2>9, <3>1, <4>1, ZenonT(30)
    <3>2. CASE vga_lock = FALSE
      <4>1. vga_lock' = FALSE
        BY <2>6, <3>2, Zenon
      <4> QED BY <2>4, <2>9, <3>2, <4>1, ZenonT(30)
    <3> QED BY <2>1, <3>1, <3>2, Zenon
  <2>8. \A i, j \in 1 .. Len(stack') : stack'[i].holds /\ stack'[j].holds => i = j
    BY <2>5, <2>6, Zenon
  <2> QED BY <2>7, <2>8, Zenon DEF LockInv
<1> QED BY <1>4, <1>7, <1>8, <1>9, <1>10, Zenon DEF n

\* What Enter makes.
LEMMA NewActivation ==
  ASSUME IF_flag \in BOOLEAN, NEW fn \in HandlerFns, NEW irq \in 0 .. NoIrq, NEW words \in Words,
         NEW b, b = Enter(fn, irq, words)
  PROVE  /\ Proper(b) /\ ~ b.holds /\ b.fn = fn /\ b.irq = irq /\ b.words = words /\ b.at = 1
         /\ b.saved_IF = IF_flag /\ OpOf(b) = Program(fn)[1]
<1> DEFINE op == Program(fn)[1]
           l == Locks(op)
<1>1. fn \in Fns /\ 1 \in DOMAIN Program(fn)
  BY HandlerStarts, Zenon DEF Fns
<1>2. l \in 0 .. LogChars /\ (l > 0 <=> op \in Printing)
  BY LocksOf, Zenon
<1>3. b = [fn |-> fn, at |-> 1, locks |-> l, holds |-> FALSE, irq |-> irq, words |-> words,
           saved_IF |-> IF_flag]
  BY Zenon DEF Enter
<1> HIDE DEF l
<1>4. /\ b \in Activation /\ b.holds = FALSE /\ b.fn = fn /\ b.irq = irq /\ b.words = words
      /\ b.at = 1 /\ b.saved_IF = IF_flag /\ b.locks = l
  BY <1>1, <1>2, <1>3 DEF Activation
<1>5. OpOf(b) = op
  BY <1>4, Zenon DEF OpOf
<1> QED BY <1>1, <1>2, <1>4, <1>5, Zenon DEF Proper

\* Vector v enters its own handler, as b, on top of the resumed activation a.
Entry(v, irq, a, b) ==
  /\ idt_loaded /\ IF_flag' = FALSE
  /\ a = Resumed(Top) /\ stack' = Append([stack EXCEPT ![Len(stack)] = a], b)
  /\ Proper(b) /\ ~ b.holds /\ b.fn \in HandlerFns /\ b.irq = irq
  /\ \E eax \in EaxValues : b.words = Pushed(v, v, eax)
  /\ b.saved_IF = IF_flag
  /\ OpOf(b) = Program(b.fn)[1]
  /\ b.fn = "irq0_timer_handler" <=> v = 32
  /\ b.fn = "keyboard_handler" => v = 33

\* Every entry through the IDT is of that kind.
LEMMA Dispatched ==
  ASSUME KernelInv, NEW v \in Vectors, v \notin 22 .. 31, v \notin {1, 3},
         NEW irq \in 0 .. NoIrq, Dispatch(v, irq)
  PROVE  \E a, b : Entry(v, irq, a, b)
<1>1. StackInv /\ IrqInv /\ BootInv /\ IF_flag \in BOOLEAN
  BY Zenon DEF KernelInv, IrqInv
<1>2. Stub[v] = v
  <2>1. v \in Nat /\ v < 48 /\ (v < 22 \/ v > 31)
    BY DEF Vectors
  <2> QED BY <2>1, EntersOwnStub, Zenon
<1>3. PICK eax \in EaxValues :
        stack' = Append([stack EXCEPT ![Len(stack)] = Resumed(Top)],
                        Enter(isr_common_handler(Pushed(v, v, eax)), irq, Pushed(v, v, eax)))
  BY <1>2, Zenon DEF Dispatch
<1>4. idt_loaded
  BY Zenon DEF Dispatch, Enterable
<1>5. IF_flag' = FALSE
  <2>1. GateClearsIF(v)
    BY ClearsIF, Zenon
  <2> QED BY <2>1, Zenon DEF Dispatch
<1> DEFINE w == Pushed(v, v, eax)
           fn == isr_common_handler(w)
           b == Enter(fn, irq, w)
<1>6. /\ fn \in HandlerFns
      /\ fn = "irq0_timer_handler" <=> v = 32
      /\ fn = "keyboard_handler" => v = 33
  <2>1. w = Pushed(v, v, eax) /\ fn = isr_common_handler(w)
    BY Zenon
  <2> HIDE DEF w, fn
  <2> QED BY <1>1, <1>4, <2>1, HandlerOf
<1>7. w \in Words
  BY DEF Words
<1>8. b = Enter(fn, irq, w) /\ w = Pushed(v, v, eax)
  BY Zenon
<1>9. stack' = Append([stack EXCEPT ![Len(stack)] = Resumed(Top)], b)
  BY <1>3, Zenon
<1> HIDE DEF w, fn, b
<1>10. /\ Proper(b) /\ ~ b.holds /\ b.fn = fn /\ b.irq = irq /\ b.words = w /\ b.at = 1
       /\ b.saved_IF = IF_flag /\ OpOf(b) = Program(fn)[1]
  BY <1>1, <1>6, <1>7, <1>8, NewActivation
<1>11. /\ Proper(b) /\ ~ b.holds /\ b.fn \in HandlerFns /\ b.irq = irq
       /\ b.words = Pushed(v, v, eax) /\ b.saved_IF = IF_flag
       /\ OpOf(b) = Program(b.fn)[1]
       /\ b.fn = "irq0_timer_handler" <=> v = 32
       /\ b.fn = "keyboard_handler" => v = 33
  BY <1>6, <1>8, <1>10, Zenon
<1>12. Entry(v, irq, Resumed(Top), b)
  BY <1>4, <1>5, <1>9, <1>11, Zenon DEF Entry
<1> QED BY <1>12, ZenonT(30)

\* The chips after the acknowledge cycle.
LEMMA AckCycle ==
  ASSUME ChipsInv, INTR(pic), NEW irq, irq = NextIrq(pic), pic' = Acknowledge(pic)
  PROVE  /\ irq \in 0 .. 15 /\ ChipsInv'
         /\ pic'.master.isr = pic.master.isr \cup {MasterLine(irq)}
         /\ pic'.master.base = pic.master.base /\ pic'.slave.base = pic.slave.base
<1> DEFINE m == pic.master
           s == pic.slave
           l == MasterLine(irq)
           k == irq - 8
           q == Acknowledge(pic)
<1>1. pic \in PicPair /\ Cascade \notin m.irr /\ m.icw = 0 /\ s.icw = 0
  BY Zenon DEF ChipsInv
<1>2. m \in Chip /\ s \in Chip
  BY <1>1, Zenon DEF PicPair
<1>3. /\ irq \in 0 .. 15
      /\ q.master = Served(m, l)
      /\ q.slave = (IF irq >= 8 THEN Served(s, k) ELSE s)
      /\ q = [master |-> q.master, slave |-> q.slave]
  BY <1>1, Taken, Zenon
<1>4. l \in Lines /\ (irq >= 8 => k \in Lines)
  BY <1>3 DEF MasterLine, Cascade, Lines
<1>5. pic' = q
  BY Zenon
<1> HIDE DEF q, l, k
<1>6. /\ q.master \in Chip
      /\ q.master.isr = m.isr \cup {l} /\ q.master.irr = m.irr \ {l}
      /\ q.master.icw = m.icw /\ q.master.base = m.base
  BY <1>2, <1>3, <1>4, ChipServed
<1>7. q.slave \in Chip /\ q.slave.icw = s.icw /\ q.slave.base = s.base
  <2>1. CASE irq >= 8
    BY <1>2, <1>3, <1>4, <2>1, ChipServed
  <2>2. CASE ~ (irq >= 8)
    BY <1>2, <1>3, <2>2, Zenon
  <2> QED BY <2>1, <2>2, Zenon
<1>8. q \in PicPair
  BY <1>3, <1>6, <1>7, Zenon DEF PicPair
<1> QED BY <1>1, <1>3, <1>5, <1>6, <1>7, <1>8, Zenon DEF ChipsInv, l

\* A hardware interrupt is taken.
LEMMA InterruptStep ==
  ASSUME KernelInv, Interrupt
  PROVE  KernelInv'
<1> DEFINE irq == NextIrq(pic)
           v == 32 + irq
<1>1. /\ StackInv /\ IrqInv /\ BootInv /\ ChipsInv /\ AckInv /\ CountInv
      /\ kbd \in {"empty", "char", "special", "release"}
  BY Zenon DEF KernelInv
<1>2. /\ IF_flag /\ INTR(pic) /\ Dispatch(VectorOf(pic, irq), irq) /\ pic' = Acknowledge(pic)
      /\ acks' = acks + (IF irq = 0 THEN 1 ELSE 0)
      /\ UNCHANGED <<gdt_loaded, idt_loaded, isr_handlers, vga_lock, ticks, kbd, events>>
  BY Zenon DEF Interrupt, tables
<1>3. irq = NextIrq(pic) /\ v = 32 + irq
  BY Zenon
<1> HIDE DEF irq, v
<1>4. /\ irq \in 0 .. 15 /\ ChipsInv'
      /\ pic'.master.isr = pic.master.isr \cup {MasterLine(irq)}
      /\ pic'.master.base = pic.master.base /\ pic'.slave.base = pic.slave.base
  BY <1>1, <1>2, <1>3, AckCycle, Zenon
<1>5. Len(stack) = 1 /\ pic.master.base = 32 /\ pic.slave.base = 40 /\ Top = stack[1]
  <2>1. Len(stack) \in Nat /\ Len(stack) > 0 /\ Top = stack[Len(stack)]
    BY <1>1, Running, Zenon
  <2>5. ~ (Len(stack) > 1)
    BY <1>1, <1>2, Zenon DEF IrqInv
  <2>2. Len(stack) = 1
    BY <2>1, <2>5
  <2>3. stack[1].at > 6 /\ stack[1] \in Activation
    <3>1. 1 \in 1 .. Len(stack)
      BY <2>2
    <3> QED BY <1>1, <1>2, <3>1, Zenon DEF BootInv, StackInv, Proper
  <2>4. stack[1].at > 4
    BY <2>3 DEF Activation
  <2> QED BY <1>1, <2>1, <2>2, <2>4, Zenon DEF BootInv
<1>6. VectorOf(pic, irq) = v /\ v \in Vectors /\ v \notin 22 .. 31 /\ v \notin {1, 3}
  BY <1>3, <1>4, <1>5 DEF VectorOf, Vectors
<1>7. irq \in 0 .. NoIrq /\ irq # NoIrq
  BY <1>4 DEF NoIrq
<1>8. PICK a, b : Entry(v, irq, a, b)
  <2>1. Dispatch(v, irq)
    BY <1>2, <1>6, Zenon
  <2> QED BY <1>6, <1>7, <2>1, Dispatched, Zenon
<1>9. /\ idt_loaded /\ IF_flag' = FALSE
      /\ a = Resumed(Top) /\ stack' = Append([stack EXCEPT ![Len(stack)] = a], b)
      /\ Proper(b) /\ ~ b.holds /\ b.fn \in HandlerFns /\ b.irq = irq
      /\ \E eax \in EaxValues : b.words = Pushed(v, v, eax)
      /\ OpOf(b) = Program(b.fn)[1]
      /\ b.fn = "irq0_timer_handler" <=> v = 32
      /\ b.fn = "keyboard_handler" => v = 33
  BY <1>8, Zenon DEF Entry
<1>10. /\ Proper(a) /\ Same(a, Top) /\ (a.holds <=> Top.holds)
       /\ Top.fn = "kernel_main" => a.at = Top.at \/ (Top.at > 10 /\ a.at > 10)
  BY <1>1, <1>9, ResumedTop, Zenon
<1>11. /\ b.irq = irq /\ OpOf(b) = Program(b.fn)[1] /\ Proper(b) /\ ~ b.holds /\ b.fn \in HandlerFns
       /\ b.fn = "irq0_timer_handler" <=> irq = 0
       /\ b.fn = "keyboard_handler" => irq = 1
       /\ \E eax \in EaxValues : b.words = Pushed(32 + b.irq, 32 + b.irq, eax)
  <2>1. (v = 32 <=> irq = 0) /\ (v = 33 <=> irq = 1)
    BY <1>3, <1>4
  <2> QED BY <1>3, <1>9, <2>1, Zenon
<1>12. ~ (Len(stack) > 1)
  BY <1>5
<1>13. /\ StackInv' /\ IrqInv' /\ BootInv' /\ LockInv'
       /\ Len(stack') = Len(stack) + 1 /\ stack'[Len(stack) + 1] = b
  <2>1. /\ Len(stack) > 1 => b.irq = NoIrq /\ ~ b.saved_IF
        /\ b.irq = 0 <=> b.fn = "irq0_timer_handler"
        /\ b.fn = "keyboard_handler" => b.irq = 1
        /\ b.irq # NoIrq =>
             \E eax \in EaxValues : b.words = Pushed(32 + b.irq, 32 + b.irq, eax)
    BY <1>11, <1>12, Zenon
  <2>2. /\ stack' = Append([stack EXCEPT ![Len(stack)] = a], b) /\ IF_flag' = FALSE
        /\ UNCHANGED <<gdt_loaded, idt_loaded, isr_handlers, vga_lock>>
    BY <1>2, <1>9, Zenon
  <2>3. idt_loaded
    BY <1>9, Zenon
  <2>4. pic'.master.base = pic.master.base /\ pic'.slave.base = pic.slave.base
    BY <1>4, Zenon
  <2>5. Proper(b) /\ ~ b.holds /\ b.fn \in HandlerFns
    BY <1>11, Zenon
  <2> QED BY <1>10, <2>1, <2>2, <2>3, <2>4, <2>5, EnterStep, Zenon
<1>14. Len(stack') = 2 /\ stack'[2] = b
  BY <1>5, <1>13
<1>15. AckInv'
  <2>1. events \in [key : Nat, other : Nat, exception : Nat]
    BY <1>1, Zenon DEF AckInv
  <2>2. events.exception = 0 => 0 \notin pic.master.isr
    BY <1>1, <1>5 DEF AckInv
  <2>3. /\ irq = 0 => MasterLine(irq) = 0
        /\ irq = 1 => MasterLine(irq) = 1
        /\ MasterLine(irq) = 0 => irq = 0
    BY <1>4 DEF MasterLine, Cascade
  <2>4. b.fn \in {"irq0_timer_handler", "keyboard_handler"} => OpOf(b) \in {"tick", "inb"}
    BY <1>11, HandlerStarts, Zenon
  <2>5. events.exception = 0 => (0 \in pic'.master.isr => b.irq = 0)
    BY <1>4, <1>11, <2>2, <2>3, Zenon
  <2>6. b.fn \in {"irq0_timer_handler", "keyboard_handler"} =>
          b.irq \in pic'.master.isr /\ OpOf(b) # "iret"
    BY <1>4, <1>11, <2>3, <2>4, Zenon
  <2> QED BY <1>2, <1>7, <1>11, <1>14, <2>1, <2>5, <2>6, Zenon DEF AckInv, OpOf
<1>16. CountInv'
  <2>1. ~ Owed
    BY <1>5 DEF Owed
  <2>2. Owed' <=> irq = 0
    <3>1. irq = 0 => OpOf(b) = "tick"
      BY <1>11, HandlerStarts, Zenon
    <3> QED BY <1>11, <1>14, <3>1 DEF Owed, OpOf
  <2>3. ticks \in Nat /\ acks \in Nat /\ acks = ticks
    BY <1>1, <2>1 DEF CountInv
  <2>4. ticks' = ticks /\ acks' = acks + (IF Owed' THEN 1 ELSE 0)
    BY <1>2, <2>2, Zenon
  <2> QED BY <2>3, <2>4 DEF CountInv
<1> QED BY <1>1, <1>2, <1>4, <1>13, <1>15, <1>16 DEF KernelInv

\* The CPU raises an exception.
LEMMA ExceptionStep ==
  ASSUME KernelInv, NEW v \in Exceptions, Exception(v)
  PROVE  KernelInv'
<1> DEFINE n == Len(stack)
<1>1. /\ StackInv /\ IrqInv /\ BootInv /\ ChipsInv /\ AckInv /\ CountInv
      /\ kbd \in {"empty", "char", "special", "release"}
      /\ events \in [key : Nat, other : Nat, exception : Nat]
  BY Zenon DEF KernelInv, AckInv
<1>2. /\ Dispatch(v, NoIrq) /\ events' = [events EXCEPT !.exception = @ + 1]
      /\ UNCHANGED <<gdt_loaded, idt_loaded, isr_handlers, pic, vga_lock, ticks, kbd, acks>>
  BY Zenon DEF Exception, tables
<1>3. v \in Vectors /\ v \notin 22 .. 31 /\ v \notin {1, 3} /\ v # 32 /\ v # 33
  BY InterruptsAssumption DEF Vectors
<1>4. NoIrq \in 0 .. NoIrq /\ NoIrq # 0
  BY DEF NoIrq
<1>5. PICK a, b : Entry(v, NoIrq, a, b)
  BY <1>2, <1>3, <1>4, Dispatched, Zenon
<1>6. /\ idt_loaded /\ IF_flag' = FALSE
      /\ a = Resumed(Top) /\ stack' = Append([stack EXCEPT ![Len(stack)] = a], b)
      /\ Proper(b) /\ ~ b.holds /\ b.fn \in HandlerFns /\ b.irq = NoIrq
      /\ b.saved_IF = IF_flag
      /\ b.fn # "irq0_timer_handler" /\ b.fn # "keyboard_handler"
  BY <1>3, <1>5, Zenon DEF Entry
<1>7. /\ Proper(a) /\ Same(a, Top) /\ (a.holds <=> Top.holds)
      /\ Top.fn \notin {"kernel_main", "kernel_panic"} => a = Top
      /\ Top.fn = "kernel_main" => a.at = Top.at \/ (Top.at > 10 /\ a.at > 10)
  BY <1>1, <1>6, ResumedTop, Zenon
<1>8. /\ StackInv' /\ IrqInv' /\ BootInv' /\ LockInv'
      /\ Len(stack') = Len(stack) + 1 /\ stack'[Len(stack) + 1] = b
      /\ stack'[Len(stack)] = a
      /\ \A i \in 1 .. Len(stack) : i # Len(stack) => stack'[i] = stack[i]
  <2>1. Len(stack) > 1 => b.irq = NoIrq /\ ~ b.saved_IF
    BY <1>1, <1>6, Zenon DEF IrqInv
  <2>2. /\ b.irq = 0 <=> b.fn = "irq0_timer_handler"
        /\ b.fn = "keyboard_handler" => b.irq = 1
        /\ b.irq # NoIrq =>
             \E eax \in EaxValues : b.words = Pushed(32 + b.irq, 32 + b.irq, eax)
    BY <1>4, <1>6, Zenon
  <2>3. /\ stack' = Append([stack EXCEPT ![Len(stack)] = a], b) /\ IF_flag' = FALSE
        /\ UNCHANGED <<gdt_loaded, idt_loaded, isr_handlers, vga_lock>>
        /\ pic'.master.base = pic.master.base /\ pic'.slave.base = pic.slave.base
    BY <1>2, <1>6, Zenon
  <2>4. idt_loaded /\ Proper(b) /\ ~ b.holds /\ b.fn \in HandlerFns
    BY <1>6, Zenon
  <2>5. /\ Proper(a) /\ Same(a, Top) /\ (a.holds <=> Top.holds)
        /\ Top.fn = "kernel_main" => a.at = Top.at \/ (Top.at > 10 /\ a.at > 10)
    BY <1>7, Zenon
  <2> QED BY <2>1, <2>2, <2>3, <2>4, <2>5, EnterStep, Zenon
<1>9. ChipsInv'
  BY <1>1, <1>2, Zenon DEF ChipsInv
<1>10. AckInv'
  <2>1. events' \in [key : Nat, other : Nat, exception : Nat] /\ events'.exception # 0
    BY <1>1, <1>2
  <2> QED BY <2>1, Zenon DEF AckInv
<1>11. n \in Nat /\ n > 0 /\ Top = stack[n] /\ n \in 1 .. n
  BY <1>1, Running, Zenon
<1>12. Owed' <=> Owed
  <2>1. CASE n = 1
    BY <1>4, <1>6, <1>8, <2>1 DEF Owed
  <2>2. CASE n = 2
    <3>1. stack'[2] = a /\ stack[2] = Top /\ Len(stack') > 1 /\ Len(stack) > 1
      BY <1>8, <1>11, <2>2
    <3>2. a.irq = Top.irq /\ (Top.irq = 0 => a = Top)
      <4>1. Top.irq = 0 => Top.fn = "irq0_timer_handler"
        BY <1>1, <1>11, Zenon DEF IrqInv
      <4> QED BY <1>7, <4>1, Zenon DEF Same
    <3> QED BY <3>1, <3>2, Zenon DEF Owed, OpOf
  <2>3. CASE n > 2
    <3>1. stack'[2] = stack[2] /\ Len(stack') > 1 /\ Len(stack) > 1
      BY <1>8, <1>11, <2>3
    <3> QED BY <3>1, Zenon DEF Owed, OpOf
  <2> HIDE DEF n
  <2>4. n = 1 \/ n = 2 \/ n > 2
    BY <1>11
  <2> QED BY <2>1, <2>2, <2>3, <2>4, ZenonT(30)
<1>13. CountInv'
  BY <1>1, <1>2, <1>12, Zenon DEF CountInv
<1> QED BY <1>1, <1>2, <1>8, <1>9, <1>10, <1>13 DEF KernelInv

-----------------------------------------------------------------------------
(* The invariant                                                           *)

\* The invariant holds at power-on,
LEMMA KernelInit == Init => KernelInv
<1> SUFFICES ASSUME Init PROVE KernelInv
  BY Zenon
<1> DEFINE a == [fn |-> "kernel_main", at |-> 1, locks |-> LogChars, holds |-> FALSE,
                 irq |-> NoIrq, words |-> << >>, saved_IF |-> FALSE]
<1>1. stack = <<a>>
  BY Zenon DEF Init
<1>2. /\ a \in Activation /\ a.at = 1 /\ a.fn = "kernel_main" /\ a.holds = FALSE
      /\ a.irq = NoIrq /\ a.words = << >>
  <2>1. LogChars \in 0 .. LogChars /\ NoIrq \in 0 .. NoIrq /\ "kernel_main" \in Fns
    BY InterruptsAssumption DEF NoIrq, Fns
  <2>2. << >> \in Words
    BY DEF Words
  <2> QED BY <2>1, <2>2, Zenon DEF Activation
<1>3. OpOf(a) = "log" /\ 1 \in DOMAIN Program(a.fn)
  <2>1. Program(a.fn) = kernel_main /\ 1 \in DOMAIN kernel_main
    BY <1>2, HandlerStarts, Zenon DEF Fns
  <2>2. kernel_main[1] = Boot[1]
    BY MainOpsAre
  <2>3. Boot[1] = "log"
    BY Zenon DEF Boot
  <2> QED BY <1>2, <2>1, <2>2, <2>3, Zenon DEF OpOf
<1> HIDE DEF a
<1>4. Proper(a)
  BY <1>2, <1>3, Zenon DEF Proper, Printing
<1>5. Len(stack) = 1 /\ stack[1] = a /\ stack \in Seq(Activation)
  BY <1>1, <1>2
<1>6. \A i \in 1 .. Len(stack) : i = 1
  BY <1>5
<1>7. StackInv
  BY <1>2, <1>4, <1>5, <1>6 DEF StackInv
<1>8. IrqInv
  <2>1. IF_flag = FALSE /\ NoIrq # 0 /\ ~ (Len(stack) > 1) /\ ~ (1 > 2)
    BY <1>5 DEF Init, NoIrq
  <2>2. "kernel_main" # "irq0_timer_handler" /\ "kernel_main" # "keyboard_handler"
    BY Zenon
  <2> QED BY <1>2, <1>5, <1>6, <2>1, <2>2, ZenonT(30) DEF IrqInv
<1>9. BootInv
  <2>1. gdt_loaded = FALSE /\ idt_loaded = FALSE /\ IF_flag = FALSE
    BY Zenon DEF Init
  <2>2. /\ ~ (stack[1].at > 2) /\ ~ (stack[1].at > 4) /\ ~ (stack[1].at > 6)
        /\ ~ (Len(stack) > 1)
    BY <1>2, <1>5
  <2> QED BY <2>1, <2>2, ZenonT(30) DEF BootInv
<1>10. ChipsInv
  <2>1. Bits(BootMask[1]) \subseteq Lines /\ Bits(BootMask[2]) \subseteq Lines
    BY Zenon DEF Bits
  <2> DEFINE m == [irr |-> {}, isr |-> {}, imr |-> Bits(BootMask[1]), base |-> 8, icw |-> 0]
             s == [irr |-> {}, isr |-> {}, imr |-> Bits(BootMask[2]), base |-> 112, icw |-> 0]
  <2>2. m \in Chip /\ s \in Chip
    BY <2>1 DEF Chip
  <2>3. m.icw = 0 /\ s.icw = 0 /\ m.irr = {}
    BY Zenon
  <2>4. pic = [master |-> m, slave |-> s]
    BY Zenon DEF Init
  <2> HIDE DEF m, s
  <2>5. pic \in PicPair /\ pic.master = m /\ pic.slave = s
    BY <2>2, <2>4, Zenon DEF PicPair
  <2> QED BY <2>3, <2>5, Zenon DEF ChipsInv
<1>11. AckInv
  <2>1. events = [key |-> 0, other |-> 0, exception |-> 0] /\ pic.master.isr = {}
    BY Zenon DEF Init
  <2>2. events \in [key : Nat, other : Nat, exception : Nat]
    BY <2>1, Zenon
  <2> QED BY <1>5, <2>1, <2>2 DEF AckInv
<1>12. CountInv
  <2>1. ~ Owed
    BY <1>5 DEF Owed
  <2> QED BY <2>1 DEF CountInv, Init
<1>13. LockInv
  <2>1. vga_lock = FALSE
    BY Zenon DEF Init
  <2> QED BY <1>2, <1>5, <1>6, <2>1, ZenonT(30) DEF LockInv
<1>14. kbd \in {"empty", "char", "special", "release"}
  BY Zenon DEF Init
<1> QED BY <1>7, <1>8, <1>9, <1>10, <1>11, <1>12, <1>13, <1>14, Zenon DEF KernelInv

\* every step preserves it,
LEMMA KernelStep == KernelInv /\ [Next]_vars => KernelInv'
<1> SUFFICES ASSUME KernelInv, [Next]_vars PROVE KernelInv'
  BY Zenon
<1>1. CASE hlt \/ cli \/ sti \/ SleepStart \/ Tick
  BY <1>1, HltStep, Zenon
<1>2. CASE keyboard_init \/ pit_init
  BY <1>2, DriverInitStep, Zenon
<1>3. CASE gdt_init \/ PicInit \/ idt_init
  BY <1>3, TableStep, Zenon
<1>4. CASE iret
  BY <1>4, IretStep, Zenon
<1>5. CASE spinlock_acquire
  BY <1>5, AcquireStep
<1>6. CASE WriteAndRelease
  BY <1>6, ReleaseStep, Zenon
<1>7. CASE SleepWhile
  BY <1>7, WhileStep, Zenon
<1>8. CASE ReadKey
  BY <1>8, ReadStep, Zenon
<1>9. CASE Eoi
  BY <1>9, EoiStep, Zenon
<1>10. CASE Spin \/ Halted \/ UNCHANGED vars
  <2>1. UNCHANGED vars
    BY <1>10, Zenon DEF Spin, Halted
  <2> QED BY <2>1, KernelStutter, Zenon
<1>11. CASE Interrupt
  BY <1>11, InterruptStep, Zenon
<1>12. CASE \E v \in Exceptions : Exception(v)
  BY <1>12, ExceptionStep, Zenon
<1>13. CASE \/ PitEdge
            \/ \E k \in {"char", "special", "release"} : Key(k)
            \/ \E irq \in OtherIrqs : OtherDevice(irq)
  BY <1>13, DeviceStep, Zenon
<1> QED BY <1>1, <1>2, <1>3, <1>4, <1>5, <1>6, <1>7, <1>8, <1>9, <1>10, <1>11, <1>12, <1>13,
           Zenon DEF Next, Execute

\* and so it always holds.
LEMMA KernelInvariant == Spec => []KernelInv
BY KernelInit, KernelStep, PTL DEF Spec

-----------------------------------------------------------------------------
(* What follows from it                                                    *)

\* The sets counted below are this small.
LEMMA SmallSets ==
  ASSUME NEW x
  PROVE  Cardinality({}) = 0 /\ Cardinality({x}) = 1
<1> DEFINE Body(S, f) == [T \in SUBSET S |-> IF T = {} THEN 0 ELSE 1 + f[T \ {CHOOSE y : y \in T}]]
<1>1. \A S : Cardinality(S) = (CHOOSE f : f = Body(S, f))[S]
  BY Zenon DEF Cardinality
<1>2. Cardinality({}) = 0
  <2> DEFINE g == [T \in SUBSET {} |-> 0]
  <2>1. g = Body({}, g)
    BY Zenon
  <2> DEFINE h == CHOOSE f : f = Body({}, f)
  <2> HIDE DEF g
  <2>2. h = Body({}, h)
    <3> HIDE DEF Body
    <3> QED BY <2>1, Zenon
  <2> HIDE DEF h
  <2>3. h[{}] = 0
    BY <2>2, Zenon
  <2> QED BY <1>1, <2>3, Zenon DEF h
<1>3. Cardinality({x}) = 1
  <2> DEFINE g == [T \in SUBSET {x} |-> IF T = {} THEN 0 ELSE 1]
  <2>0. \A T \in SUBSET {x} : T = {} \/ T = {x}
    BY Zenon
  <2>1. g = Body({x}, g)
    BY <2>0
  <2> DEFINE h == CHOOSE f : f = Body({x}, f)
  <2> HIDE DEF g
  <2>2. h = Body({x}, h)
    <3> HIDE DEF Body
    <3> QED BY <2>1, Zenon
  <2> HIDE DEF h
  <2>3. {x} \ {CHOOSE y : y \in {x}} = {} /\ {x} # {}
    BY Zenon
  <2>4. h[{}] = 0 /\ h[{x}] = 1 + h[{x} \ {CHOOSE y : y \in {x}}]
    BY <2>2, Zenon
  <2>5. h[{x}] = 1
    BY <2>3, <2>4
  <2> QED BY <1>1, <2>5, Zenon DEF h
<1> QED BY <1>2, <1>3, Zenon

\* A set with at most the one element.
LEMMA AtMost ==
  ASSUME NEW S, NEW x, \A y \in S : y = x
  PROVE  Cardinality(S) = IF x \in S THEN 1 ELSE 0
<1>1. CASE x \in S
  <2>1. S = {x}
    BY <1>1, Zenon
  <2> QED BY <1>1, <2>1, SmallSets, Zenon
<1>2. CASE x \notin S
  <2>1. S = {}
    BY <1>2, Zenon
  <2> QED BY <1>2, <2>1, SmallSets, Zenon
<1> QED BY <1>1, <1>2, Zenon

\* spinlock.h:13: of kernel_main and the handlers that interrupt it at any point,
\* one is inside the console code exactly when vga_lock is taken.
THEOREM ConsoleHasOneOwner == Spec => []LockHasOneOwner
<1>1. KernelInv => LockHasOneOwner
  <2> SUFFICES ASSUME KernelInv PROVE LockHasOneOwner
    BY Zenon
  <2> DEFINE S == {i \in DOMAIN stack : stack[i].holds}
  <2>1. DOMAIN stack = 1 .. Len(stack)
    BY DEF KernelInv, StackInv
  <2>2. /\ vga_lock \in BOOLEAN
        /\ vga_lock <=> \E i \in 1 .. Len(stack) : stack[i].holds
        /\ \A i, j \in 1 .. Len(stack) : stack[i].holds /\ stack[j].holds => i = j
    BY Zenon DEF KernelInv, LockInv
  <2>3. CASE vga_lock
    <3>1. PICK x \in 1 .. Len(stack) : stack[x].holds
      BY <2>2, <2>3, Zenon
    <3>2. x \in S /\ \A y \in S : y = x
      BY <2>1, <2>2, <3>1, Zenon
    <3> HIDE DEF S
    <3>3. Cardinality(S) = 1
      BY <3>2, AtMost, Zenon
    <3> QED BY <2>3, <3>3, Zenon DEF LockHasOneOwner, S
  <2>4. CASE ~ vga_lock
    <3>1. S = {}
      BY <2>1, <2>2, <2>4, Zenon
    <3>2. Cardinality(S) = 0
      BY <3>1, SmallSets, Zenon
    <3> QED BY <2>4, <3>2, Zenon DEF LockHasOneOwner
  <2> QED BY <2>3, <2>4, Zenon
<1> QED BY <1>1, KernelInvariant, PTL

\* isr.c:106: every timer interrupt the CPU takes is counted once.
THEOREM EveryTickIsCounted == Spec => []TicksCounted
<1>1. KernelInv => TicksCounted
  <2> SUFFICES ASSUME KernelInv PROVE TicksCounted
    BY Zenon
  <2> DEFINE S == {i \in DOMAIN stack : stack[i].irq = 0 /\ OpOf(stack[i]) = "tick"}
  <2>1. DOMAIN stack = 1 .. Len(stack) /\ Len(stack) \in Nat
    BY DEF KernelInv, StackInv
  <2>2. \A i \in 1 .. Len(stack) : stack[i].irq = 0 => i = 2
    <3>1. \A i \in 1 .. Len(stack) : i = 1 \/ i = 2 \/ i > 2
      BY <2>1
    <3> QED BY <3>1 DEF KernelInv, IrqInv, NoIrq
  <2>3. \A i \in S : i = 2
    BY <2>1, <2>2, Zenon
  <2>4. 2 \in S <=> Owed
    BY <2>1 DEF Owed
  <2> HIDE DEF S
  <2>5. Cardinality(S) = IF 2 \in S THEN 1 ELSE 0
    BY <2>3, AtMost, Zenon
  <2>6. acks = ticks + (IF Owed THEN 1 ELSE 0)
    BY Zenon DEF KernelInv, CountInv
  <2>7. acks = ticks + Cardinality(S)
    BY <2>4, <2>5, <2>6, Zenon
  <2> QED BY <2>7, Zenon DEF TicksCounted, S
<1> QED BY <1>1, KernelInvariant, PTL

\* isr.c:109, keyboard.c:46, isr.c:20: no two hardware interrupts are handled
\* at once, and as long as no exception is raised the timer's and the
\* keyboard's line is in service exactly until its own handler's EOI.
THEOREM DriversDoAcknowledge == Spec => []DriversAcknowledge
<1>1. KernelInv => DriversAcknowledge
  <2> SUFFICES ASSUME KernelInv PROVE DriversAcknowledge
    BY Zenon
  <2> DEFINE S == {i \in DOMAIN stack : stack[i].irq # NoIrq}
             n == Len(stack)
  <2>1. DOMAIN stack = 1 .. n /\ n \in Nat
    BY DEF KernelInv, StackInv
  <2>2. \A i \in 1 .. n : stack[i].irq # NoIrq => i = 2
    <3>1. \A i \in 1 .. n : i = 1 \/ i = 2 \/ i > 2
      BY <2>1
    <3> QED BY <3>1, Zenon DEF KernelInv, IrqInv
  <2>3. \A i \in S : i = 2
    BY <2>1, <2>2, Zenon
  <2> HIDE DEF S
  <2>4. Cardinality(S) <= 1
    BY <2>3, AtMost
  <2> SUFFICES ASSUME events.exception = 0
               PROVE  /\ \A a \in Activations :
                           a.fn \in {"irq0_timer_handler", "keyboard_handler"} =>
                             (a.irq \in InService(pic) <=> OpOf(a) # "iret")
                      /\ 0 \in InService(pic) => \E a \in Activations : a.irq = 0
    BY <2>4, Zenon DEF DriversAcknowledge, S
  <2>5. \A a : a \in Activations <=> \E i \in 1 .. n : a = stack[i]
    BY <2>1, Zenon DEF Activations, Range
  <2>6. \A irq \in {0, 1} : irq \in InService(pic) <=> irq \in pic.master.isr
    <3>1. pic.slave.isr \subseteq Lines
      BY Zenon DEF KernelInv, ChipsInv, PicPair, Chip
    <3>2. \A l \in pic.slave.isr : 8 + l # 0 /\ 8 + l # 1
      BY <3>1 DEF Lines
    <3> QED BY <3>2, Zenon DEF InService
  <2> HIDE DEF n
  <2>7. /\ 0 \in pic.master.isr => n = 2 /\ stack[2].irq = 0
        /\ n = 2 /\ stack[2].fn \in {"irq0_timer_handler", "keyboard_handler"} =>
             (stack[2].irq \in pic.master.isr <=> OpOf(stack[2]) # "iret")
        /\ n = 1 \/ n = 2
    BY Zenon DEF KernelInv, AckInv, n
  <2>8. ASSUME NEW a \in Activations, a.fn \in {"irq0_timer_handler", "keyboard_handler"}
        PROVE  a.irq \in InService(pic) <=> OpOf(a) # "iret"
    <3>1. PICK i \in 1 .. n : a = stack[i]
      BY <2>5, Zenon
    <3>2. /\ stack[i].irq = 0 <=> stack[i].fn = "irq0_timer_handler"
          /\ stack[i].fn = "keyboard_handler" => stack[i].irq = 1
      BY Zenon DEF KernelInv, IrqInv, n
    <3>3. a.irq = 0 \/ a.irq = 1
      BY <2>8, <3>1, <3>2, Zenon
    <3>4. i = 2
      BY <2>2, <3>1, <3>3 DEF NoIrq
    <3>5. n = 2
      BY <2>7, <3>1, <3>4
    <3> QED BY <2>6, <2>7, <2>8, <3>1, <3>3, <3>4, <3>5
  <2>9. 0 \in InService(pic) => \E a \in Activations : a.irq = 0
    <3>1. 0 \in {0, 1} /\ (n = 2 => 2 \in 1 .. n)
      OBVIOUS
    <3> QED BY <2>5, <2>6, <2>7, <3>1, Zenon
  <2> QED BY <2>8, <2>9, Zenon
<1> QED BY <1>1, KernelInvariant, PTL

\* idt.c:107, pic.c:60, isr_stubs.asm:41: whenever the CPU may take an interrupt, the
\* controllers are remapped, both tables loaded and a handler registered for
\* it, and each frame on the stack is laid out as the C code reads it.
THEOREM AlwaysPreparedForIrqs == Spec => []PreparedForIrqs
<1>1. KernelInv => PreparedForIrqs
  <2> SUFFICES ASSUME KernelInv PROVE PreparedForIrqs
    BY Zenon
  <2> DEFINE n == Len(stack)
  <2>1. DOMAIN stack = 1 .. n /\ n \in Nat /\ n > 0
    BY DEF KernelInv, StackInv
  <2>2. \A a : a \in Activations <=> \E i \in 1 .. n : a = stack[i]
    BY <2>1, Zenon DEF Activations, Range
  <2>3. \A i \in 1 .. n : Proper(stack[i])
    BY Zenon DEF KernelInv, StackInv
  <2>4. TypeOK
    <3>1. ASSUME NEW a \in Activations
          PROVE  /\ a.at \in DOMAIN Program(a.fn)
                 /\ a.locks \in 0 .. LogChars
                 /\ a.holds \in BOOLEAN /\ a.saved_IF \in BOOLEAN
                 /\ a.irq \in 0 .. NoIrq
      <4>1. Proper(a)
        BY <2>2, <2>3, Zenon
      <4> QED BY <4>1, Zenon DEF Proper, Activation
    <3>2. /\ IF_flag \in BOOLEAN /\ gdt_loaded \in BOOLEAN /\ idt_loaded \in BOOLEAN
          /\ pic \in PicPair /\ vga_lock \in BOOLEAN /\ ticks \in Nat /\ acks \in Nat
          /\ kbd \in {"empty", "char", "special", "release"}
      BY Zenon DEF KernelInv, IrqInv, BootInv, ChipsInv, LockInv, CountInv
    <3> QED BY <3>1, <3>2, Zenon DEF TypeOK
  <2>5. ASSUME IF_flag, INTR(pic)
        PROVE  /\ VectorOf(pic, NextIrq(pic)) = 32 + NextIrq(pic)
               /\ gdt_loaded /\ idt_loaded
               /\ Stub[VectorOf(pic, NextIrq(pic))] = VectorOf(pic, NextIrq(pic))
               /\ isr_handlers[VectorOf(pic, NextIrq(pic))] # "none"
    <3> DEFINE irq == NextIrq(pic)
               v == 32 + irq
               p == stack[1].at
    <3>1. irq \in 0 .. 15
      BY <2>5, Taken, Zenon DEF KernelInv, ChipsInv
    <3> HIDE DEF irq
    <3>2. p > 6 /\ p \in Nat
      <4>1. 1 \in 1 .. n
        BY <2>1
      <4>2. p \in Nat
        BY <2>3, <4>1, Zenon DEF Proper, Activation
      <4> QED BY <2>5, <4>2, Zenon DEF KernelInv, BootInv
    <3>3. p > 4 /\ p > 2
      BY <3>2
    <3> HIDE DEF p
    <3>4. /\ gdt_loaded /\ idt_loaded /\ pic.master.base = 32 /\ pic.slave.base = 40
          /\ isr_handlers \in {Handlers, [Handlers EXCEPT ![33] = "keyboard_handler"]}
      BY <3>2, <3>3, Zenon DEF KernelInv, BootInv, p
    <3>5. VectorOf(pic, irq) = v /\ v \in Vectors /\ v \in Nat /\ v < 48 /\ v > 31
      BY <3>1, <3>4 DEF VectorOf, Vectors
    <3>6. Stub[v] = v
      BY <3>5, EntersOwnStub, Zenon
    <3>7. isr_handlers[v] # "none"
      <4> HIDE DEF v
      <4>1. DOMAIN Handlers = Vectors /\ Handlers[v] # "none"
        BY <3>5, Zenon DEF Handlers
      <4>2. CASE isr_handlers = Handlers
        BY <4>1, <4>2, Zenon
      <4>3. CASE isr_handlers = [Handlers EXCEPT ![33] = "keyboard_handler"]
        <5>1. isr_handlers[v] = IF v = 33 THEN "keyboard_handler" ELSE Handlers[v]
          BY <3>5, <4>1, <4>3, Zenon
        <5> QED BY <4>1, <5>1, Zenon
      <4> QED BY <3>4, <4>2, <4>3, Zenon
    <3> QED BY <3>4, <3>5, <3>6, <3>7, Zenon DEF irq
  <2>6. ASSUME NEW a \in Activations, a.words # << >>
        PROVE  /\ Field(interrupt_frame_t, "eip", a.words) = ReturnAddress
               /\ a.irq # NoIrq => Field(interrupt_frame_t, "int_no", a.words) = 32 + a.irq
    <3>1. PICK i \in 1 .. n : a = stack[i]
      BY <2>2, Zenon
    <3>2. Proper(a)
      BY <2>3, <3>1, Zenon
    <3>3. a.words \in Words /\ a.irq \in 0 .. NoIrq
      BY <3>2, Zenon DEF Proper, Activation
    <3>4. PICK v \in Vectors, eax \in EaxValues : a.words = Pushed(v, v, eax)
      BY <2>6, <3>3 DEF Words
    <3>5. Field(interrupt_frame_t, "eip", a.words) = ReturnAddress
      BY <3>4, FrameRead
    <3>6. ASSUME a.irq # NoIrq
          PROVE  Field(interrupt_frame_t, "int_no", a.words) = 32 + a.irq
      <4> DEFINE w == a.words
                 u == 32 + a.irq
      <4>1. PICK e \in EaxValues : w = Pushed(u, u, e)
        BY <3>1, <3>6, Zenon DEF KernelInv, IrqInv
      <4>2. u \in Vectors
        <5>1. \A x \in 0 .. NoIrq : x # NoIrq => 32 + x \in Vectors
          BY DEF NoIrq, Vectors
        <5> QED BY <3>3, <3>6, <5>1, Zenon
      <4> HIDE DEF w, u
      <4>3. Field(interrupt_frame_t, "int_no", w) = u
        BY <4>1, <4>2, FrameRead, Zenon
      <4> QED BY <4>3, Zenon DEF w, u
    <3> QED BY <3>5, <3>6, Zenon
  <2> QED BY <2>4, <2>5, <2>6, Zenon DEF PreparedForIrqs
<1> QED BY <1>1, KernelInvariant, PTL

\* An operation of the innermost activation leaves its function and the
\* activations below it alone, and only the timer's handler counts.
LEMMA OwnSteps ==
  ASSUME StackInv,
         \/ hlt \/ spinlock_acquire \/ WriteAndRelease
         \/ gdt_init \/ PicInit \/ idt_init \/ keyboard_init \/ pit_init \/ cli \/ sti
         \/ SleepStart \/ SleepWhile \/ Tick \/ ReadKey \/ Eoi
  PROVE  /\ \E b : b.fn = Top.fn /\ Becomes(b)
         /\ acks' = acks /\ (ticks' = ticks \/ OpOf(Top) = "tick")
<1> DEFINE a == Top
<1>1. a \in Activation
  BY Running, Zenon DEF Proper
<1> HIDE DEF a
<1>2. \A x \in Activation : \A i : At(x, i).fn = x.fn
  BY Zenon DEF At, Activation
<1>3. [a EXCEPT !.holds = TRUE].fn = a.fn
  BY <1>1, Zenon DEF Activation
<1> DEFINE d == [a EXCEPT !.holds = FALSE, !.locks = @ - 1]
<1>4. d.fn = a.fn /\ \A i : At(d, i).fn = d.fn
  BY <1>1, Zenon DEF Activation, At
<1> HIDE DEF d
<1>5. /\ acks' = acks /\ (ticks' = ticks \/ OpOf(Top) = "tick")
  BY Zenon DEF hlt, spinlock_acquire, WriteAndRelease, gdt_init, PicInit, idt_init, keyboard_init,
         pit_init, cli, sti, SleepStart, SleepWhile, Tick, ReadKey, Eoi, Executing
<1>6. CASE WriteAndRelease
  <2>1. Becomes(IF d.locks = 0 THEN At(d, d.at + 1) ELSE d)
    BY <1>6, Zenon DEF WriteAndRelease, d, a
  <2> QED BY <1>4, <1>5, <2>1, Zenon DEF a
<1>7. CASE spinlock_acquire
  <2>1. Becomes([a EXCEPT !.holds = TRUE])
    BY <1>7, Zenon DEF spinlock_acquire, a
  <2> QED BY <1>3, <1>5, <2>1, Zenon DEF a
<1>8. CASE \/ hlt \/ gdt_init \/ PicInit \/ idt_init \/ keyboard_init \/ pit_init \/ cli \/ sti
           \/ SleepStart \/ SleepWhile \/ Tick \/ ReadKey \/ Eoi
  <2>1. \E i : Becomes(At(a, i))
    BY <1>8, Zenon DEF hlt, gdt_init, PicInit, idt_init, keyboard_init, pit_init, cli, sti,
            SleepStart, SleepWhile, Tick, ReadKey, Eoi, Advance, a
  <2> QED BY <1>1, <1>2, <1>5, <2>1, Zenon DEF a
<1> QED BY <1>6, <1>7, <1>8, Zenon

\* panic.c:19: once kernel_panic runs it is never left, and nothing it
\* interrupted goes on: no tick is counted, no timer interrupt taken and
\* kernel_main stays where it was.
THEOREM PanicStays == Spec => PanicIsFinal
<1> DEFINE Final == Panicking => /\ Panicking'
                                 /\ UNCHANGED <<ticks, acks>>
                                 /\ stack'[1] = stack[1]
<1>1. KernelInv /\ [Next]_vars => [Final]_vars
  <2> SUFFICES ASSUME KernelInv, Next, Panicking PROVE Final
    BY Zenon
  <2> DEFINE n == Len(stack)
  <2>1. StackInv /\ IrqInv /\ DOMAIN stack = 1 .. n
    BY DEF KernelInv, StackInv
  <2>2. n \in Nat /\ n > 0 /\ Top = stack[n] /\ n \in 1 .. n
    BY <2>1, Running, Zenon
  <2>3. PICK k \in 1 .. n : stack[k].fn = "kernel_panic"
    BY <2>1, Zenon DEF Panicking, Activations, Range
  <2>4. k # 1 /\ n > 1 /\ ~ IF_flag
    <3>1. k # 1
      BY <2>1, <2>3, Zenon DEF StackInv
    <3>2. n > 1
      BY <2>2, <2>3, <3>1
    <3> QED BY <2>1, <3>1, <3>2, Zenon DEF IrqInv
  <2>5. ASSUME NEW j \in 1 .. Len(stack'), stack'[j].fn = "kernel_panic", stack' \in Seq(Activation),
               ticks' = ticks, acks' = acks, stack'[1] = stack[1]
        PROVE  Final
    <3>1. j \in DOMAIN stack'
      BY <2>5
    <3>2. Panicking'
      BY <2>5, <3>1, Zenon DEF Panicking, Activations, Range
    <3> QED BY <2>5, <3>2, Zenon
  <2> HIDE DEF Final
  <2>6. StackInv'
    BY KernelStep, Zenon DEF KernelInv
  <2>7. stack' \in Seq(Activation) /\ stack \in Seq(Activation)
    BY <2>1, <2>6, Zenon DEF StackInv
  <2>8. CASE \/ hlt \/ spinlock_acquire \/ WriteAndRelease
             \/ gdt_init \/ PicInit \/ idt_init \/ keyboard_init \/ pit_init \/ cli \/ sti
             \/ SleepStart \/ SleepWhile \/ Tick \/ ReadKey \/ Eoi
    <3>1. PICK b : b.fn = Top.fn /\ Becomes(b)
      BY <2>1, <2>8, OwnSteps, Zenon
    <3>2. acks' = acks /\ (ticks' = ticks \/ OpOf(Top) = "tick")
      BY <2>1, <2>8, OwnSteps, Zenon
    <3>3. /\ Len(stack') = n /\ stack'[n] = b
          /\ \A i \in 1 .. n : i # n => stack'[i] = stack[i]
      BY <2>2, <2>7, <3>1 DEF Becomes
    <3>4. OpOf(Top) # "tick"
      <4> SUFFICES ASSUME OpOf(Top) = "tick" PROVE FALSE
        BY Zenon
      <4>1. /\ Top.at \in DOMAIN Program(Top.fn) /\ Program(Top.fn)[Top.at] = "tick"
            /\ Top.fn # "kernel_main" => Top.fn \in HandlerFns
        BY <2>1, Running, Zenon
      <4>2. Top.fn # "kernel_main"
        BY <2>1, <2>2, <2>4, Running
      <4>3. Top.fn = "irq0_timer_handler"
        <5> DEFINE f == Top.fn
                   i == Top.at
        <5>1. f \in HandlerFns /\ i \in DOMAIN Program(f) /\ "tick" = Program(f)[i]
          BY <4>1, <4>2, ZenonT(30)
        <5> HIDE DEF f, i
        <5>2. f = "irq0_timer_handler"
          BY <5>1, HandlerSteps
        <5> QED BY <5>2, Zenon DEF f
      <4>4. Top.irq = 0 /\ (n > 2 => Top.irq = NoIrq)
        BY <2>1, <2>2, <4>3, Zenon DEF IrqInv
      <4>5. n = 2
        BY <2>2, <2>4, <4>4 DEF NoIrq
      <4>6. k = n
        BY <2>3, <2>4, <4>5
      <4> QED BY <2>2, <2>3, <4>3, <4>6, Zenon
    <3>5. stack'[k].fn = "kernel_panic" /\ stack'[1] = stack[1]
      <4>1. CASE k = n
        BY <2>2, <2>3, <2>4, <3>1, <3>3, <4>1
      <4>2. CASE k # n
        BY <2>2, <2>3, <2>4, <3>3, <4>2
      <4> QED BY <4>1, <4>2, Zenon
    <3> QED BY <2>3, <2>5, <2>7, <3>2, <3>3, <3>4, <3>5, Zenon
  <2>9. CASE iret
    <3>1. OpOf(Top) = "iret" /\ stack' = SubSeq(stack, 1, n - 1) /\ ticks' = ticks /\ acks' = acks
      BY <2>9, Zenon DEF iret, Executing
    <3>2. Top.fn # "kernel_panic"
      <4>1. Top.at \in DOMAIN Program(Top.fn) /\ Program(Top.fn)[Top.at] = "iret"
        BY <2>1, <3>1, Running, Zenon
      <4>2. "kernel_panic" \in HandlerFns
        BY Zenon DEF HandlerFns
      <4> QED BY <4>1, <4>2, HandlerSteps
    <3>3. k # n
      BY <2>2, <2>3, <3>2, Zenon
    <3>4. Len(stack') = n - 1 /\ \A i \in 1 .. n - 1 : stack'[i] = stack[i]
      <4> HIDE DEF n
      <4>1. n = Len(stack)
        BY Zenon DEF n
      <4> QED BY <2>2, <2>4, <2>7, <3>1, <4>1
    <3>5. k \in 1 .. n - 1 /\ 1 \in 1 .. n - 1
      BY <2>2, <2>3, <2>4, <3>3
    <3> QED BY <2>3, <2>5, <2>7, <3>1, <3>4, <3>5, Zenon
  <2>10. CASE Interrupt
    BY <2>4, <2>10, Zenon DEF Interrupt
  <2>11. CASE \E v \in Exceptions : Exception(v)
    <3>1. PICK v \in Exceptions : Exception(v)
      BY <2>11, Zenon
    <3>2. /\ Dispatch(v, NoIrq) /\ ticks' = ticks /\ acks' = acks
      BY <3>1, Zenon DEF Exception
    <3>3. PICK a, b : a = Resumed(Top) /\ stack' = Append([stack EXCEPT ![n] = a], b)
      BY <3>2, ZenonT(30) DEF Dispatch
    <3>4. a.fn = Top.fn /\ a \in Activation
      BY <2>1, <3>3, ResumedTop, Zenon DEF Same, Proper
    <3>5. /\ Len(stack') = n + 1 /\ stack'[n] = a
          /\ \A i \in 1 .. n : i # n => stack'[i] = stack[i]
      <4> DEFINE s == [stack EXCEPT ![n] = a]
      <4>1. /\ s \in Seq(Activation) /\ Len(s) = n /\ s[n] = a
            /\ \A i \in 1 .. n : i # n => s[i] = stack[i]
        BY <2>2, <2>7, <3>4
      <4>2. stack' = Append(s, b)
        BY <3>3, Zenon
      <4> HIDE DEF s
      <4> QED BY <2>2, <4>1, <4>2
    <3>6. k \in 1 .. n + 1 /\ 1 \in 1 .. n /\ 1 # n
      BY <2>2, <2>3, <2>4
    <3>7. stack'[k].fn = "kernel_panic" /\ stack'[1] = stack[1]
      <4>1. CASE k = n
        BY <2>2, <2>3, <3>4, <3>5, <3>6, <4>1, Zenon
      <4>2. CASE k # n
        BY <2>3, <3>5, <3>6, <4>2, Zenon
      <4> QED BY <4>1, <4>2, Zenon
    <3> QED BY <2>5, <2>7, <3>2, <3>5, <3>6, <3>7
  <2>12. CASE \/ Spin \/ Halted \/ PitEdge
              \/ \E x \in {"char", "special", "release"} : Key(x)
              \/ \E irq \in OtherIrqs : OtherDevice(irq)
    <3>1. stack' = stack /\ ticks' = ticks /\ acks' = acks
      BY <2>12, Zenon DEF Spin, Halted, PitEdge, Key, OtherDevice, vars
    <3> QED BY <2>3, <2>5, <2>7, <3>1, Zenon
  <2> QED BY <2>8, <2>9, <2>10, <2>11, <2>12, Zenon DEF Next, Execute
<1> QED BY <1>1, KernelInvariant, PTL DEF Spec, PanicIsFinal

=============================================================================
