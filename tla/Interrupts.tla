----------------------------- MODULE Interrupts -----------------------------
(***************************************************************************)
(* The running kernel: kernel_main with interrupts arriving at any point   *)
(* of it.  One CPU executes the innermost of a stack of activations, whose *)
(* first is kernel_main and whose others are handlers entered through the  *)
(* IDT.  The pair of 8259s, the timer chip and the keyboard controller run *)
(* beside it.                                                              *)
(*                                                                         *)
(* An activation runs a program of operations.  An operation that writes   *)
(* to the console takes vga_lock for every character, so it is a series of *)
(* acquire and write-and-release steps; every other operation is one step. *)
(***************************************************************************)
EXTENDS Pic, Descriptors

CONSTANTS
  LogChars,   \* characters a stretch of log output writes
  SleepTicks, \* ticks one sleep_ms waits for
  Sleeps,     \* rounds of the loop that watches the ticks
  BootMask,   \* the two mask bytes the firmware leaves
  OtherIrqs,  \* lines with a device the kernel has no driver for
  EaxValues,  \* what EAX may hold when an interrupt arrives
  Exceptions, \* vectors the CPU may raise by itself
  QuietBoot,  \* are the keyboard and the other devices silent until the
              \* kernel idles?
  MaxTicks, MaxKeys, MaxOthers, MaxExceptions  \* bounds on events

ASSUME InterruptsAssumption ==
  /\ LogChars \in Nat \ {0} /\ SleepTicks \in Nat \ {0} /\ Sleeps \in Nat \ {0}
  /\ BootMask \in (0 .. 255) \X (0 .. 255)
  /\ OtherIrqs \subseteq 3 .. 15
  /\ EaxValues \subseteq Nat /\ EaxValues # {}
  /\ Exceptions \subseteq {0, 2, 6, 8, 13, 14}
  /\ QuietBoot \in BOOLEAN
  /\ MaxTicks \in Nat /\ MaxKeys \in Nat /\ MaxOthers \in Nat
  /\ MaxExceptions \in Nat

VARIABLES
  stack,        \* the activations, innermost last
  IF_flag,      \* EFLAGS.IF
  gdt_loaded, idt_loaded,  \* does the CPU use gdt, and idt?
  isr_handlers, \* vector -> C handler
  pic,          \* the pair of 8259s
  vga_lock,     \* the console spinlock
  ticks,        \* the tick counter of time.c
  target_ticks, \* the local of sleep_ms
  kbd,          \* output buffer of the keyboard controller
  events,       \* key, other-device and exception events so far, for the bounds
  acks          \* history: timer interrupts the CPU has taken

tables == <<gdt_loaded, idt_loaded>>

vars == <<stack, IF_flag, tables, isr_handlers, pic, vga_lock, ticks,
          target_ticks, kbd, events, acks>>

-----------------------------------------------------------------------------
(* Programs                                                                *)

\* sleep_ms: compute the target; test it, execute hlt, and test it again when
\* an interrupt has ended the halt.
sleep_ms == <<"sleep_start", "sleep_while", "hlt", "sleep_halted">>

\* The loop that watches the ticks: sleep and log, Sleeps times over.
Watch ==
  LET round == sleep_ms \o <<"log">>
  IN  [k \in 1 .. Len(round) * Sleeps |-> round[((k - 1) % Len(round)) + 1]]

kernel_main_early_sti ==
  <<"log", "gdt_init", "sti", "log", "pic_init", "log", "idt_init", "log", "keyboard_init", "log",
    "pit_init", "log", "sti", "log">>
  \o Watch \o <<"cli", "sti", "log", "hlt", "idle_halted">>

\* kernel_main, with a run of consecutive log lines as one stretch of output
\* and, before the idle loop, the cli and sti of the interrupt-flag test.
kernel_main ==
  <<"log", "gdt_init", "log", "pic_init", "log", "idt_init", "log", "keyboard_init", "log",
    "pit_init", "log", "sti", "log">>
  \o Watch \o <<"cli", "sti", "log", "hlt", "idle_halted">>

irq0_timer_handler_no_eoi == <<"tick", "iret", "iret">>

irq0_timer_handler == <<"tick", "eoi_timer", "iret">>

keyboard_handler_release_no_eoi ==
  <<"inb", "log", "putc", "eoi_keyboard", "iret",
           "log",         "eoi_keyboard", "iret",
                          "iret",         "iret">>

\* The paths of a key with a character, of a special key and of a release.
keyboard_handler ==
  <<"inb", "log", "putc", "eoi_keyboard", "iret",
           "log",         "eoi_keyboard", "iret",
                          "eoi_keyboard", "iret">>

isr_unhandled_interrupt == <<"log", "eoi_if_irq", "iret">>

kernel_panic_returns == <<"cli", "set_colors", "iret", "iret">>

\* The handlers of exceptions 0, 6, 8, 13 and 14 only call kernel_panic.
kernel_panic == <<"cli", "set_colors", "hlt", "panic_halted">>

Program(fn) ==
  CASE fn = "kernel_main"             -> kernel_main
    [] fn = "irq0_timer_handler"      -> irq0_timer_handler
    [] fn = "keyboard_handler"        -> keyboard_handler
    [] fn = "isr_unhandled_interrupt" -> isr_unhandled_interrupt
    [] fn = "kernel_panic"            -> kernel_panic

\* How often operation op takes vga_lock.
Locks(op) ==
  CASE op = "log"                   -> LogChars
    [] op \in {"putc", "set_colors"} -> 1
    [] OTHER                        -> 0

-----------------------------------------------------------------------------
(* Stack frames                                                            *)

\* The vectors for which the CPU pushes an error code, and those whose stub
\* pushes a dummy one.
CpuPushesError == {8, 10, 11, 12, 13, 14, 17}

StubPushesDummy == Vectors \ {8, 10, 11, 12, 13, 14, 17}

\* The words an interrupt of this vector leaves on the stack through this
\* stub, from the lowest address up, as isr_common_stub, the stub and the CPU
\* push them.
PushOrder(vector, stub) ==
  <<"ds", "edi", "esi", "ebp", "esp", "ebx", "edx", "ecx", "eax", "int_no">>
  \o (IF stub \in StubPushesDummy THEN <<"err_code">> ELSE << >>)
  \o (IF vector \in CpuPushesError THEN <<"err_code">> ELSE << >>)
  \o <<"eip", "cs", "eflags">>

\* What the C code takes them for: isr_common_handler sees an
\* interrupt_frame_t, the handlers of cpu/isr.c a registers_t.
interrupt_frame_t ==
  <<"ds", "edi", "esi", "ebp", "esp", "ebx", "edx", "ecx", "eax",
    "int_no", "err_code", "eip", "cs", "eflags", "useresp", "ss">>

registers_t ==
  <<"edi", "esi", "ebp", "esp", "ebx", "edx", "ecx", "eax",
    "int_no", "err_code", "eip", "cs", "eflags", "user_esp", "ss">>

\* Only EAX, the vector and the return address are told apart; the other
\* words are 0.
ReturnAddress == 1

Pushed(vector, stub, eax) ==
  LET order == PushOrder(vector, stub) IN
  [i \in DOMAIN order |->
     CASE order[i] = "eax"    -> eax
       [] order[i] = "int_no" -> stub
       [] order[i] = "eip"    -> ReturnAddress
       [] OTHER               -> 0]

Field(layout, name, words) ==
  words[CHOOSE i \in DOMAIN layout : layout[i] = name]

-----------------------------------------------------------------------------
(* The CPU                                                                 *)

NoIrq == 16

Top == stack[Len(stack)]

OpOf(a) == Program(a.fn)[a.at]

\* Activation a about to execute operation number i of its program.
At(a, i) == [a EXCEPT !.at = i, !.locks = Locks(Program(a.fn)[i])]

Enter(fn, irq, words) ==
  [fn |-> fn, at |-> 1, locks |-> Locks(Program(fn)[1]), holds |-> FALSE,
   irq |-> irq, words |-> words, saved_IF |-> IF_flag]

Becomes(a) == stack' = [stack EXCEPT ![Len(stack)] = a]

Advance == Becomes(At(Top, Top.at + 1))

Executing(op) == OpOf(Top) = op

Init ==
  /\ stack = <<[fn |-> "kernel_main", at |-> 1, locks |-> LogChars,
                holds |-> FALSE, irq |-> NoIrq, words |-> << >>,
                saved_IF |-> FALSE]>>
  /\ IF_flag = FALSE
  /\ gdt_loaded = FALSE /\ idt_loaded = FALSE
  /\ isr_handlers = [v \in Vectors |-> "none"]
  /\ pic = [master |-> [irr |-> {}, isr |-> {}, imr |-> Bits(BootMask[1]),
                        base |-> 8, icw |-> 0],
            slave  |-> [irr |-> {}, isr |-> {}, imr |-> Bits(BootMask[2]),
                        base |-> 112, icw |-> 0]]
  /\ vga_lock = FALSE
  /\ ticks = 0
  /\ target_ticks = 0
  /\ kbd = "empty"
  /\ events = [key |-> 0, other |-> 0, exception |-> 0]
  /\ acks = 0

\* Activation a as an interrupt leaves it: a halt is over and the loop around
\* the hlt goes on.
Resumed(a) ==
  CASE OpOf(a) = "sleep_halted"                    -> At(a, a.at - 2)
    [] OpOf(a) \in {"idle_halted", "panic_halted"} -> At(a, a.at - 1)
    [] OTHER                                       -> a

GateClearsIF(vector) == GateType(Gates[vector]) = IDT_GATE_INTERRUPT_32

\* isr_common_handler's choice of handler.
isr_common_handler(words) ==
  LET fn == isr_handlers[Field(interrupt_frame_t, "int_no", words)] IN
  IF fn # "none" THEN fn ELSE "isr_unhandled_interrupt"

\* Can the CPU enter the kernel through the tables?
Enterable(vector) == gdt_loaded /\ idt_loaded /\ Stub[vector] # NoStub

\* Entry through the IDT.
Dispatch(vector, irq) ==
  /\ Enterable(vector)
  /\ \E eax \in EaxValues :
       LET words == Pushed(vector, Stub[vector], eax) IN
       stack' = Append([stack EXCEPT ![Len(stack)] = Resumed(Top)],
                       Enter(isr_common_handler(words), irq, words))
  /\ IF_flag' = (IF_flag /\ ~ GateClearsIF(vector))

Interrupt ==
  /\ IF_flag /\ INTR(pic)
  /\ Dispatch(VectorOf(pic, NextIrq(pic)), NextIrq(pic))
  /\ pic' = Acknowledge(pic)
  /\ acks' = acks + (IF NextIrq(pic) = 0 THEN 1 ELSE 0)
  /\ UNCHANGED <<tables, isr_handlers, vga_lock, ticks, target_ticks, kbd, events>>

\* The CPU raises an exception, or a non-maskable interrupt arrives, once the
\* IDT is loaded.
Exception(vector) ==
  /\ events.exception < MaxExceptions
  /\ Dispatch(vector, NoIrq)
  /\ events' = [events EXCEPT !.exception = @ + 1]
  /\ UNCHANGED <<tables, isr_handlers, pic, vga_lock, ticks, target_ticks, kbd, acks>>

iret ==
  /\ Executing("iret")
  /\ stack' = SubSeq(stack, 1, Len(stack) - 1)
  /\ IF_flag' = Top.saved_IF
  /\ UNCHANGED <<tables, isr_handlers, pic, vga_lock, ticks, target_ticks, kbd,
                 events, acks>>

hlt ==
  /\ Executing("hlt")
  /\ Advance
  /\ UNCHANGED <<IF_flag, tables, isr_handlers, pic, vga_lock, ticks, target_ticks,
                 kbd, events, acks>>

\* Halted, with no interrupt to end it.
Halted ==
  /\ OpOf(Top) \in {"sleep_halted", "idle_halted", "panic_halted"}
  /\ UNCHANGED vars

-----------------------------------------------------------------------------
(* Console output                                                          *)

LockIgnored == TRUE

LockFree == ~ vga_lock

spinlock_acquire ==
  /\ Top.locks > 0 /\ ~ Top.holds
  /\ LockFree
  /\ vga_lock' = TRUE
  /\ Becomes([Top EXCEPT !.holds = TRUE])
  /\ UNCHANGED <<IF_flag, tables, isr_handlers, pic, ticks, target_ticks, kbd,
                 events, acks>>

\* One more turn of the loop in spinlock_acquire.
Spin ==
  /\ Top.locks > 0 /\ ~ Top.holds
  /\ ~ LockFree
  /\ UNCHANGED vars

\* The write under the lock, then spinlock_release.
WriteAndRelease ==
  LET done == [Top EXCEPT !.holds = FALSE, !.locks = @ - 1] IN
  /\ Top.holds
  /\ vga_lock' = FALSE
  /\ Becomes(IF done.locks = 0 THEN At(done, done.at + 1) ELSE done)
  /\ UNCHANGED <<IF_flag, tables, isr_handlers, pic, ticks, target_ticks, kbd,
                 events, acks>>

-----------------------------------------------------------------------------
(* The operations of kernel_main                                           *)

PicInit ==
  /\ Executing("pic_init")
  /\ pic' = pic_init(pic)
  /\ Advance
  /\ UNCHANGED <<IF_flag, tables, isr_handlers, vga_lock, ticks, target_ticks, kbd,
                 events, acks>>

\* gdt_init fills the table; gdt_flush loads it and every segment register.
gdt_init ==
  /\ Executing("gdt_init")
  /\ gdt_loaded' = TRUE
  /\ Advance
  /\ UNCHANGED <<IF_flag, idt_loaded, isr_handlers, pic, vga_lock, ticks, target_ticks,
                 kbd, events, acks>>

HandlersNoTimer ==
  [v \in Vectors |-> IF v \in {0, 6, 8, 13, 14} THEN "kernel_panic"
                     ELSE "isr_unhandled_interrupt"]

\* The handlers it registers.
Handlers ==
  [v \in Vectors |->
     CASE v \in {0, 6, 8, 13, 14} -> "kernel_panic"
       [] v = 32                  -> "irq0_timer_handler"
       [] OTHER                   -> "isr_unhandled_interrupt"]

\* idt_init fills both tables; idt_flush loads the IDT and executes sti.
idt_init ==
  /\ Executing("idt_init")
  /\ idt_loaded' = TRUE
  /\ isr_handlers' = Handlers
  /\ IF_flag' = TRUE
  /\ Advance
  /\ UNCHANGED <<gdt_loaded, pic, vga_lock, ticks, target_ticks, kbd, events, acks>>

keyboard_init ==
  /\ Executing("keyboard_init")
  /\ isr_handlers' = [isr_handlers EXCEPT ![33] = "keyboard_handler"]
  /\ Advance
  /\ UNCHANGED <<IF_flag, tables, pic, vga_lock, ticks, target_ticks, kbd, events, acks>>

TimerStaysMasked(p) == p

TimerUnmasked(p) == pic_unmask_irq(p, 0)

pit_init ==
  /\ Executing("pit_init")
  /\ pic' = TimerUnmasked(pic)
  /\ Advance
  /\ UNCHANGED <<IF_flag, tables, isr_handlers, vga_lock, ticks, target_ticks, kbd,
                 events, acks>>

cli ==
  /\ Executing("cli")
  /\ IF_flag' = FALSE
  /\ Advance
  /\ UNCHANGED <<tables, isr_handlers, pic, vga_lock, ticks, target_ticks, kbd,
                 events, acks>>

sti ==
  /\ Executing("sti")
  /\ IF_flag' = TRUE
  /\ Advance
  /\ UNCHANGED <<tables, isr_handlers, pic, vga_lock, ticks, target_ticks, kbd,
                 events, acks>>

SleepStart ==
  /\ Executing("sleep_start")
  /\ target_ticks' = ticks + SleepTicks
  /\ Advance
  /\ UNCHANGED <<IF_flag, tables, isr_handlers, pic, vga_lock, ticks, kbd, events, acks>>

SleepWhile ==
  /\ Executing("sleep_while")
  /\ Becomes(At(Top, Top.at + (IF ticks < target_ticks THEN 1 ELSE 3)))
  /\ UNCHANGED <<IF_flag, tables, isr_handlers, pic, vga_lock, ticks, target_ticks,
                 kbd, events, acks>>

-----------------------------------------------------------------------------
(* The operations of the handlers                                          *)

Tick ==
  /\ Executing("tick")
  /\ ticks' = ticks + 1
  /\ Advance
  /\ UNCHANGED <<IF_flag, tables, isr_handlers, pic, vga_lock, target_ticks, kbd,
                 events, acks>>

\* Where keyboard_handler goes on after reading a byte of kind k.
KeyPath(k) ==
  CASE k = "char" -> 2 [] k = "special" -> 6 [] k = "release" -> 9

ReadKey ==
  /\ Executing("inb")
  /\ kbd # "empty"
  /\ kbd' = "empty"
  /\ Becomes(At(Top, KeyPath(kbd)))
  /\ UNCHANGED <<IF_flag, tables, isr_handlers, pic, vga_lock, ticks, target_ticks,
                 events, acks>>

\* isr_unhandled_interrupt acknowledges what its registers_t says is an irq.
EoiIfIrq(p, words) ==
  LET int_no == Field(registers_t, "int_no", words) IN
  IF int_no \in 32 .. 47 THEN pic_send_eoi(p, int_no - 32) ELSE p

Eoi ==
  /\ \/ /\ Executing("eoi_timer")
        /\ pic' = pic_send_eoi(pic, 0)
     \/ /\ Executing("eoi_keyboard")
        /\ pic' = outb(pic, PIC1_CMD, PIC_EOI)
     \/ /\ Executing("eoi_if_irq")
        /\ pic' = EoiIfIrq(pic, Top.words)
  /\ Advance
  /\ UNCHANGED <<IF_flag, tables, isr_handlers, vga_lock, ticks, target_ticks, kbd,
                 events, acks>>

-----------------------------------------------------------------------------
(* The devices                                                             *)

Main == stack[1]

\* The timer chip runs from power-on; an edge while the last request is still
\* latched is lost.  After MaxTicks edges it produces only the ones a sleep
\* waits for.
PitEdge ==
  /\ acks < MaxTicks \/ OpOf(Main) = "sleep_halted"
  /\ 0 \notin pic.master.irr
  /\ pic' = Raise(pic, 0)
  /\ UNCHANGED <<stack, IF_flag, tables, isr_handlers, vga_lock, ticks, target_ticks,
                 kbd, events, acks>>

MayDisturb == QuietBoot => OpOf(Main) = "idle_halted"

\* The keyboard controller has a byte; it sends no other until it is read.
Key(k) ==
  /\ MayDisturb
  /\ kbd = "empty" /\ events.key < MaxKeys
  /\ kbd' = k
  /\ events' = [events EXCEPT !.key = @ + 1]
  /\ pic' = Raise(pic, 1)
  /\ UNCHANGED <<stack, IF_flag, tables, isr_handlers, vga_lock, ticks, target_ticks,
                 acks>>

OtherDevice(irq) ==
  /\ MayDisturb
  /\ events.other < MaxOthers
  /\ events' = [events EXCEPT !.other = @ + 1]
  /\ pic' = Raise(pic, irq)
  /\ UNCHANGED <<stack, IF_flag, tables, isr_handlers, vga_lock, ticks, target_ticks,
                 kbd, acks>>

-----------------------------------------------------------------------------
Execute ==
  \/ iret \/ hlt \/ spinlock_acquire \/ WriteAndRelease
  \/ gdt_init \/ PicInit \/ idt_init \/ keyboard_init \/ pit_init \/ cli \/ sti
  \/ SleepStart \/ SleepWhile
  \/ Tick \/ ReadKey \/ Eoi

Next ==
  \/ Execute \/ Spin \/ Halted
  \/ Interrupt
  \/ \E v \in Exceptions : Exception(v)
  \/ PitEdge
  \/ \E k \in {"char", "special", "release"} : Key(k)
  \/ \E irq \in OtherIrqs : OtherDevice(irq)

Spec == Init /\ [][Next]_vars

\* The CPU executes, takes an interrupt that stays pending with IF set, and
\* the timer chip keeps producing edges.
FairSpec == Spec /\ WF_vars(Execute) /\ WF_vars(Interrupt) /\ WF_vars(PitEdge)

-----------------------------------------------------------------------------
(* Properties                                                              *)

Activations == Range(stack)

Panicking == \E a \in Activations : a.fn = "kernel_panic"

\* Every variable holds a value of its type; in particular no activation
\* runs past the end of its program.
TypeOK ==
  /\ \A a \in Activations :
       /\ a.at \in DOMAIN Program(a.fn)
       /\ a.locks \in 0 .. LogChars
       /\ a.holds \in BOOLEAN /\ a.saved_IF \in BOOLEAN
       /\ a.irq \in 0 .. NoIrq
  /\ IF_flag \in BOOLEAN
  /\ gdt_loaded \in BOOLEAN /\ idt_loaded \in BOOLEAN
  /\ pic \in PicPair
  /\ vga_lock \in BOOLEAN
  /\ ticks \in Nat /\ acks \in Nat
  /\ kbd \in {"empty", "char", "special", "release"}

\* vga_lock is taken exactly when one activation is inside the console code:
\* no interleaving of kernel_main and handlers lets two in, or leaves the
\* lock taken with nobody in.
LockHasOneOwner ==
  Cardinality({i \in DOMAIN stack : stack[i].holds}) = IF vga_lock THEN 1 ELSE 0

\* Every timer interrupt the CPU takes is counted once, from the moment
\* interrupts are on: the counter trails the interrupts taken only by a
\* handler that has not reached its increment.
TicksCounted ==
  acks = ticks + Cardinality({i \in DOMAIN stack :
                    stack[i].irq = 0 /\ OpOf(stack[i]) = "tick"})

\* The timer and keyboard handlers end their own interrupt exactly once on
\* every path, although EOI names no line and lines of other devices may be
\* left in service: a line is in service until its handler's EOI, not after.
\* An exception or NMI voids this: isr_unhandled_interrupt takes EAX for the
\* vector and may then end the interrupt of the handler it interrupted.
\* Handlers of hardware interrupts never nest, exceptions or not: every irq
\* enters through a gate that clears IF and no handler sets it.
DriversAcknowledge ==
  /\ Cardinality({i \in DOMAIN stack : stack[i].irq # NoIrq}) <= 1
  /\ events.exception = 0 =>
    /\ \A a \in Activations :
         a.fn \in {"irq0_timer_handler", "keyboard_handler"} =>
           (a.irq \in InService(pic) <=> OpOf(a) # "iret")
    /\ 0 \in InService(pic) => \E a \in Activations : a.irq = 0

\* With IF set, whatever the 8259s offer next finds its own gate present,
\* leading through a flat kernel code segment to its own stub, and a C handler
\* behind it: no window of the boot sequence takes an interrupt before the
\* controllers are remapped and both tables are filled and loaded.  Whatever
\* the vector, stub and CPU together leave one error code on the stack, so
\* that isr_common_handler reads the right vector and iret the right address.
PreparedForIrqs ==
  /\ TypeOK
  /\ IF_flag /\ INTR(pic) =>
       LET v == VectorOf(pic, NextIrq(pic)) IN
       /\ v = 32 + NextIrq(pic)
       /\ gdt_loaded /\ idt_loaded /\ Stub[v] = v
       /\ isr_handlers[v] # "none"
  /\ \A a \in Activations : a.words # << >> =>
       /\ Field(interrupt_frame_t, "eip", a.words) = ReturnAddress
       /\ a.irq # NoIrq => Field(interrupt_frame_t, "int_no", a.words) = 32 + a.irq

\* A panic is final: kernel_main and the interrupted handlers never run again
\* and no timer interrupt is taken.
PanicIsFinal ==
  [][Panicking => /\ Panicking'
                  /\ UNCHANGED <<ticks, acks>>
                  /\ stack'[1] = stack[1]]_vars

\* The boot sequence reaches the idle loop: every sleep_ms is ended by the
\* timer, whose mask pit_init opens, even when a tick falls between the test
\* of the counter and hlt.  Only with QuietBoot: a device that interrupts
\* console output during boot deadlocks the kernel on vga_lock.
BootCompletes == <>(OpOf(Main) = "idle_halted")

\* The timer is never locked out: every edge the chip can produce is counted,
\* also when an interrupt without a driver was left in service for good.
\* Only with QuietBoot, for the reason given at BootCompletes.
TicksArrive == <>(ticks >= MaxTicks)

\* kernel_main.c:84 "from this point the timer starts ticking and other
\* hardware interrupts (like keyboard) can be processed": once the kernel
\* idles, a key that waits in the controller is read.  Only with QuietBoot: the
\* edge of a key pressed before pic_init is lost when it resets the chips, and
\* the controller sends no other until the byte is read.
KeysAreRead ==
  OpOf(Main) = "idle_halted" /\ Len(stack) = 1 /\ kbd # "empty" ~> kbd = "empty"

\* vga.c:162 "vga_put_char itself is thread-safe (which it will be via the
\* lock)": a handler that writes to the console, whatever it interrupted, gets
\* to its end and returns to kernel_main.
HandlersReturn == Len(stack) > 1 ~> Len(stack) = 1

\* isr.c:19 "If it's a hardware IRQ, we must send EOI": with no handler
\* running, nothing is left in service.
AllAcknowledged == Len(stack) = 1 => InService(pic) = {}
=============================================================================
