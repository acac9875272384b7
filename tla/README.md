# Verification of the kernel

TLA+ models of this kernel's components, checked with TLC on small instances;
for all of them safety is also proved with TLAPS for every value of their constants
(of the self-tests, only that they keep to the contracts of what they call). `PROJECT.json` maps each definition to
source lines and lists runs, mutants, hazards, findings and theorems.

## Inventory

| Part | Source (under `src/`) | Modules | State |
|---|---|---|---|
| kernel heap | `kmalloc.c` | `Kmalloc`, `Allocator`, `Pointers` (NULL), `ProcessProofs` | modelled, proved |
| 8259 interrupt controllers | `pic/pic.c` | `Pic`, `PicDriver`, `HardwareProofs`, `TimerProofs` | modelled, proved |
| timer chip, ticks, `sleep_ms` | `pit/`, `time/`, `kernel/kernel_main.c` | `Timer` (extends `PicDriver`), `TimerProofs` | modelled, proved |
| GDT and IDT | `gdt_and_idt/gdt*`, `gdt_and_idt/idt*` | `Descriptors`, `HardwareProofs` | modelled, proved |
| boot, dispatch, handlers, panic, spinlock | `kernel/kernel_main.c`, `gdt_and_idt/isr_stubs.asm`, `cpu/isr.c`, `kernel/panic.c`, `include/spinlock.h` | `Interrupts` (extends `Pic`, `Descriptors`), `InterruptsProofs` | partly, proved |
| keyboard | `drivers/keyboard/` | `Interrupts`, `InterruptsProofs`, `Log` | partly, proved |
| console | `drivers/vga/vga.c` | `Vga`, `Terminal`, `LibraryProofs` | modelled, proved |
| `printf`, log lines | `lib/printf.c`, `log/log.c` | `Printf`, `Log` (extends `Vga`), `LibraryProofs` | modelled, partly proved |
| memory and string functions | `lib/memory.c` | `Memory`, `LibraryProofs` | modelled, proved |
| self-tests | `kernel/tests.c`, heap test of `kernel_main` | `SelfTests` (extends `Log`, `Memory`, `Kmalloc`) | partly |
| the library layer together | | `Runtime`, `RuntimeProofs` | composition, proved |
| processes, round robin | `scheduler.c`, `pcb.c`, `switch.asm` | `Scheduler`, `ProcessProofs` | modelled, proved |
| physical pages, memory map | `pmm/pmm.c`, `memory_map/` | `Pmm`, `PmmProofs` | modelled / partly, proved |
| page tables | `vmm/vmm.c` | `Vmm`, `AddressSpace`, `VmmProofs` | modelled, proved |

`pmm`, `vmm` and `memory_map` are a hosted simulation that the Makefile does not
link into the kernel. Nothing in the tree calls `schedule` or `create_process`.

## How the models correspond to the code

A C loop is one step per iteration, with its locals as variables and `pc` (in
`Scheduler`, `phase`) naming the running function; straight-line code is one step. Functions keep their
names; a step that is only part of a function has a name of its own.
Definitions that precede a definition and differ from it in one respect
(`KmallocNextWraps` before `KmallocNext`) are its mutants; no specification uses them.

- **Kmalloc**: the block list is a function from header address to header;
  `live` records what callers hold. Callers free NULL or a pointer they hold:
  the code checks nothing else. Addition in the split test wraps at `Word`.
- **Pic**, **PicDriver**: the two chips as records; each function of `pic.c` is the
  sequence of port writes it performs. The chips are external, modelled as far as
  `pic.c` uses them (initialisation words, mask, non-specific EOI, priority, cascade).
- **Timer**: one thread calls `pic.c`, `pit_init` and `sleep_ms`, with interrupts of
  all lines between its steps. The tick counter has two halves of `Half` values,
  and a read is two steps, low or high half first (`low_first`, the compiler's
  choice: the kernel is built for 32 bits). The divisor is computed as in
  `pit_init` and reaches the chip in two bytes.
- **Descriptors**: `gdt_set_entry` and `idt_set_entry` field by field, the tables the
  init functions fill, and how the CPU takes them apart on an interrupt.
  `Stub[v]` is where vector `v` really leads.
- **Interrupts**: one CPU with a stack of activations. `kernel_main` and each
  handler are programs of operations; between any two operations a pending
  interrupt, an exception or an NMI may be taken. Console output takes and
  releases `vga_lock` once per character. An interrupt enters through the tables
  of `Descriptors`; the stack frame is the sequence of words CPU, stub and
  `isr_common_stub` push, read back through the layouts the C code declares.
- **Scheduler**: the ready list by next pointers; insertion walks it node by node.
- **Pmm**: bitmap as the set of clear bits, counters beside it, 64-bit arithmetic
  modulo `U64`. `dirty` tracks zeroing. Callers free pages they hold, or
  addresses `pmm_free` rejects.
- **Vmm**: tables in pages of the physical allocator, walked level by level, with
  other users of that allocator between calls.
- **Vga**: `vga_put_char` and the copy of its logic inside `vga_write`. A char
  with bit 7 set is sign-extended, as `vga_entry` does with a signed `char`.
- **Printf**: `vprintf` as a function from a format and its arguments to the console
  calls it makes, found by iterating its loop; an int has `Digits` hexadecimal
  digits. **Log** executes such
  sequences call by call, and lets handlers that log push theirs on top.
- **Memory**: the loops of `memory.c` on `MemTop` bytes of `Byte` values.
- **SelfTests**: each test function is a program of statements; `kmalloc` and `kfree`
  are the steps of `Kmalloc`, whose constants `TestsAssumption` fixes to the kernel's
  real heap address, size and header.
- **Runtime**: one behaviour has one client of the library layer (console calls,
  memory calls, one `printf`, log lines with handlers, or the self-tests), so
  one run covers them all without multiplying their states.

Abstract specifications: `Allocator` (disjoint ranges), `AddressSpace` (a call
changes the pages it names, each once, in order, to the frames and flags it names, and
no others; it may be refused on the way), `Terminal` (a typewriter page). The
refinement mapping of `Vmm` takes the walk of all pages through the tables for the
mapping, and what is left of the request for the call (`Asked`).

## Runs

| Run | States | Shows |
|---|---|---|
| `kmalloc` | 79,478 | tiling, blocks match callers, complete coalescing, honest NULL, termination, refinement of `Allocator` |
| `timer` | 3,157,024 | masks and EOI stay right under any order of calls and nesting; enabled lines interrupt; the chip runs at the reported frequency; sleeps end neither early nor late but for two torn reads |
| `interrupts_safety` | 3,811,748 | no nesting of IRQ handlers, one lock owner, no lost tick, drivers acknowledge exactly once (without exceptions), no unprepared vector or misread frame, nothing resumes after a panic |
| `interrupts_live` | 44,196 | if only the timer disturbs the boot: it completes, ticks arrive, later keys are read |
| `scheduler` | 41,929 | one ring, one running process, bounded waiting, everyone runs |
| `pmm` | 633,754 | accounting, fresh zeroed pages, first fit, honest refusal, with overlapping and clamped regions too |
| `vmm` | 11,470 | the tables form a tree, the count is right, success means mapped, refinement of `AddressSpace` |
| `runtime` | 883,691 | the console refines `Terminal` and shows its cursor; `printf` renders its arguments; messages keep their colour; memory functions; the self-tests pass and keep the heap usable |

Four runs are expected to find a violation; each states what a comment of the
code says:

| Run | Comment | What happens |
|---|---|---|
| `interrupts_deadlock` | vga.c:162 | a handler that logs spins on the lock of the code it interrupted |
| `interrupts_unhandled` | isr.c:19 | `registers_t` lacks the pushed `ds`, so EAX is taken for the vector and no EOI is sent |
| `scheduler_start` | pcb.c:15 | `context_switch` jumps to the `esp` field |
| `pmm_sliver` | pmm.c:63 | a free region without a page boundary underflows |

Where a passing property has a hypothesis because the code needs it:

- `EnabledLinesInterrupt` assumes the cascade line open for lines of the slave:
  `pic_unmask_irq` (pic.c:146) does not open it, and the property fails without.
- `DriversAcknowledge` assumes no exception or NMI so far. With one, the EAX that
  `isr_unhandled_interrupt` takes for a vector may make it end the interrupt of
  the handler it interrupted; TLC shows this when the hypothesis is dropped.
- All of `interrupts_live` assumes `QuietBoot`: only the timer interrupts before
  the kernel idles. With `QuietBoot = FALSE` each of its three properties fails.
  `BootCompletes` and `TicksArrive` fail by the deadlock of `interrupts_deadlock`:
  an interrupt whose handler logs arrives while `kernel_main` holds `vga_lock`.
  `KeysAreRead` fails because the edge of a key pressed before `pic_init` is lost
  when the chips are reset. So the run shows progress of a boot that no such
  device disturbs, not of every boot.
- The timer interrupts before step 6 (kernel_main.c:84, "from this point the timer
  starts ticking"): `idt_flush` already executes `sti`. No property forbids it;
  `PreparedForIrqs` shows that gates and handlers are in place by then.
- `ImplementsTerminal` is checked with `Eight = {}`. A character with bit 7 set
  (the dashes in the messages of `kernel/tests.c`) overwrites the colour byte.
- `PanicIsFinal` says that nothing resumes, not that `hlt` is reached: a fault
  while `vga_lock` is held leaves `kernel_panic` spinning (against panic.c:47).
- `PageAccounting` has `free_pages` exact only if no page is in two free regions.
- `FrequencyTrue` starts at `PIT_MIN_FREQ`. Below, `pit_init` only warns, the
  divisor loses its upper bits on the way to the chip, and the property fails.
- `SleepsLongEnough` admits a short sleep when a carry into the high half of the
  counter tears the last test (low half loaded first) or the read of
  `start_ticks` (high half first). At 100 Hz the first carry comes after 497 days.
  `SleepsNoLonger` admits the opposite pair: under the read of `start_ticks` (low
  half first) a carry makes the sleep 2^32 ticks too long, under a test (high half
  first) it costs one more `hlt`. Both count ticks: `sleep_ms` rounds milliseconds down to ticks where its comment
  (kernel_main.c:28) says "nearest"; the theorem `SleepRoundsDown` states that.
- `InkOfLine` is about messages and line ends, and exempts two things. The rest of
  a message behind a handler's line may be white: the handler resets the colour to
  white, not to what it found. And the front of a handler's line, its timestamp up
  to the level's escape sequence, has the colour the handler found: white, or that
  of a line it interrupts in the middle of its message. The property is about
  handlers between two console calls; one inside a call deadlocks
  (`interrupts_deadlock`).
- `PrintfRenders` covers formats with an argument per directive that do not end in
  a single `%`, as all of the kernel's are.
- `CallsDoAsAsked` exempts a `memcpy` that overtakes itself, which its contract
  excludes, and lets callers pass only ranges in memory and terminated strings.
- `SuiteSurvives` rests on `kernel_main` keeping the first block (its third test
  allocation takes it again and is never freed): the mutant that frees it fails.

### Bounds

- `Kmalloc`: 13 bytes, headers of 2, sizes 0, 1, 2, 4 and 15: several blocks,
  remainders of exactly one header, and a size whose addition wraps at 16.
- `Timer`: two lines of each chip (`Irqs`), two firmware masks, a frequency below,
  between and above the limits of `pit_init`, sleeps of no tick and of some, and
  halves of `Half` = 2 values, so that the carry happens within `MaxTicks` = 3.
- `Interrupts`: 1 character per stretch of output (the lock matters, not the
  length). `interrupts_safety`: 1 sleep, 1 tick, 1 key, 1 driverless interrupt
  (irq 8), 2 exceptions or NMIs. `interrupts_live`: 2 sleeps, 4 ticks, 2 keys, 2
  driverless interrupts (irqs 6 and 8), no exceptions. `MaxTicks`, `MaxKeys`,
  `MaxOthers` and `MaxExceptions` name them.
  After `MaxTicks` the timer produces only edges a sleep waits for.
- `Scheduler`: 4 processes; `waited` saturates at `MaxWait`.
- `Pmm`: 6 pages of 4 bytes, maps of up to 3 entries: unaligned, overlapping,
  reaching beyond memory (where `pmm_init` clamps) and wholly beyond it.
- `Vmm`: tables of 2 entries, 6 pages, so memory runs out inside a walk; the
  virtual addresses are chosen to share tables, to need new ones, and to alias
  past the top as the index macros do.
- `Runtime`: a 3 by 2 screen with tab stops of 2: every line end, tab stop and
  scroll is a few keys away. Ints of two hexadecimal digits: every value is
  printed with every directive, and all pairs of format pieces that reach the
  branches of the parser; the expected text is found by search, not by division.
  Memory of 5 bytes of 3 values: all contents, calls and overlaps. At most
  `MaxNest` handlers at a time and `MaxLines` of their lines; one of the tick counts
  exceeds an int, so that the cast in `print_timestamp` shows. The self-tests run on
  the real heap; their arrays shrink to 1 and 2 bytes.

### Fairness

Weak fairness of a call in progress (`Kmalloc`, the walk of `Scheduler`): nothing
preempts these loops for good. `Scheduler` also assumes that `schedule` keeps being called. `Interrupts` assumes that the CPU executes,
takes an interrupt that stays pending with IF set, and that the timer chip keeps
running; nothing is assumed of the keyboard or of other devices. `QuietBoot`
keeps devices other than the timer silent until the kernel idles in
`interrupts_live`; the list above says what goes wrong without it.

## Proofs

Eight modules hold proofs. Except for the constant tables and the operators of
`HardwareProofs`, they follow Init => Inv, Inv /\ [Next] => Inv', Inv => property,
and take the actions one at a time.

**ProcessProofs**, first for every heap position and size, header size, word width
and set of request sizes allowed by `HeapAssumption`: `HeapTypeOK`, `HeapTiled`,
`LiveBlocks`, `LiveDisjoint`, `FullyCoalesced`, `AllFreedIsWhole`,
`NullMeansNoRoom` and `ImplementsAllocator`. The tiling alone does not survive a
merge: `HeapInv` adds that the heap starts with a block once initialised, that the
blocks in use are the callers', that a search has passed only blocks that do not
fit (for the NULL result), and that the coalescing pass leaves no free
neighbours behind its cursor. Disjointness, the single-block heap and the
refinement follow from `HeapInv`.
Then, for every finite set of processes: `OneRunning`, `BoundedWait`, `ReadyRing` and
`RingIntact`. `ReadyRing` names a numbering of the queued processes from the head
that follows `next`. An insertion extends the numbering by one; `schedule` moves one
number on. Waiting is bounded by the distance on the ring (`Waits`), so an insertion,
which only lengthens distances, cannot break it. `RingIntact` counts steps along the
list; the numbering turns k steps into addition modulo the length.

**HardwareProofs**: packing and unpacking a descriptor or gate gives back every
32-bit address and 20-bit limit; every vector with a gate enters its own stub; a
byte read from a mask register and written back is the same set of lines; and
`pic_init`, from any state of the chips, leaves both operating with their masks
kept (`RemapKeepsMasks`). The modules below use the last two.

**TimerProofs**, for every width of the halves, set of frequencies, lengths of
sleeps, set of lines and firmware masks.
- Clock: `FrequencyTrue`, `SleepsLongEnough`, `SleepsNoLonger`. `ClockInv` adds to
  the types what a sleep knows: its first load, the growth of the counter since,
  and how far ahead its target lies, both ways. What a torn read returns, off by
  `Half` for each carry, is a lemma (`ReadNow`). `SleepRoundsDown` bounds the rounding.
- Controllers: `MasksAsAsked`, `EoiMatches`, `EnabledLinesInterrupt`. An EOI names no
  line, so that it ends the right one is an argument about priority: `PicInv` adds
  that the nested handlers have falling priority from outside to inside (a slave
  line counting as the cascade line on the master), with no line twice. The lines
  in service are then those of the handlers, and the least is the innermost.

**InterruptsProofs**, for every length of output, number of sleeps, set of EAX values
and bound on events: `LockHasOneOwner`, `TicksCounted`, `DriversAcknowledge`,
`PreparedForIrqs` and the action property `PanicIsFinal`. The inductive invariant
`KernelInv` says who may be where on the stack (`kernel_main` outermost, a hardware
interrupt's handler only second, because handlers run with IF clear), what each
position in `kernel_main` implies about tables, vectors and handlers, and what a
handler's progress implies about the lines in service, the tick counter and the
lock. None of these parts is inductive alone: that a tick is counted once needs
that handlers do not nest, which needs IF, which needs the saved flags on the stack.

**PmmProofs**, for every memory map, page size and memory size: `FreshPages` and
`FirstFit` from `ScanInv`, which says what the loop counters mean (no free page,
or no long enough run, below the scan). `RefusalIsHonest`, `ClampedToMemory` and
the balance of the counters need `CountInv` and the hypothesis `NoSlivers`: each
free region's base rounded up does not pass its end rounded down. That is exactly
what `pmm_sliver` violates, so run and theorem together say when `pmm_init` is safe.
`PageAccounting` is proved under `PlainRegions`: `NoSlivers`, and no rounding, end or
sum of lengths wraps 64 bits. `AccountInv` follows the scan of the map entry by
entry: `RamInv` says which pages have been freed so far, `Sums` names partial sums
of the lengths that bound what `total_pages` can have become.

**VmmProofs**, for every number of table entries and pages and every set of requests:
`TablesAreTree`, `MappedCounted`, `ImplementsAddressSpace` and `MapMeansMapped`. That
the tables are a tree does not survive a step by itself. `VInv` names a place for
every table, its level and the indices leading to it (`Places`), and says that the
walk of a call is at the place its address leads to (`AtPlace`). No two tables share
a place, so a write to one entry changes one virtual page: that carries the count
and the refinement, which also follows the request page by page (`AskedNext`). `MapMeansMapped` also needs that the pages done so far stay
mapped (`DoneInv`), and the hypothesis `RangesFit`: no range is longer than the
address space. A longer one wraps and overwrites its own beginning.

**LibraryProofs**. Memory functions, for every memory size and byte width:
`CallsDoAsAsked`, from a loop invariant (`LoopInv`) that says which bytes have their
final value after `k` iterations, in terms of the memory before the call. Console,
for every size of screen and tab, character set and length of string: `CursorShown`
and, with `Eight = {}`, `ImplementsTerminal`. Handling a character leaves the cursor on
the screen or one line below it (`Settling`); scrolling then does what the abstract
page does (`Settles`). Each character is one key of the terminal (`HandledStep`); the
tab needs that a line has one tab stop among the next `TAB_WIDTH` columns.

Numbers, for every width of an int: `print_number` writes every int as a sign and the
shortest decimal digits of its magnitude (`NumbersAreDecimal`; the least int, whose
magnitude is no int, included), `print_hex` and `print_ptr` the hexadecimal ones
(`NumbersAreHexadecimal`). That digits denote a number is stated by the values read
so far (`Denotes`). Formats: whatever a format and its arguments, the calls they come
to are calls of the console, and only an escape sequence changes the colour; hence a
log line changes it exactly twice (`LineShape`). Printing functions interrupted by
others: `StackInv` says that each is inside such a line and that all but the innermost
have been cut, `Ink` what the colour is by the number of changes the innermost has still
to make, and whose it is when a handler's line has not yet set its own (`Below`). A step makes a silent call, a change, returns, or pushes a handler's line.

**RuntimeProofs**: `InkOfLine`, `CursorShown`, `ImplementsTerminal` (with `Eight = {}`) and
`CallsDoAsAsked` for every client of the library layer. `RunInv` joins the invariants
of `LibraryProofs`; that each step of a client is a step they cover is the content.
For the self-tests this means that every call of a memory function is within its
contract, at the statement the program has reached (`TestsInv`). The assumptions are
those of the kernel's callers: every format has an argument for each directive and no
`%` at its end (`FormatFits`), the characters that log lines use are plain ones, and
the buffers of the tests fit in memory. `PrintfAssumption` also states what powers of
16 are, of which the provers know nothing; TLC evaluates it.

Facts by induction on a number (the ring after k steps, partial sums, the digits of a
number, the iterations of `vprintf`) are proved by taking the least counterexample
(`Least`, `Induction`): the library's induction theorems take the induction hypothesis
as an operator, which the provers cannot instantiate.

Only model-checked:
- liveness, which is beyond the prover: `EveryCallReturns`, `EveryoneRuns` and all of
  `interrupts_live`. Termination of the counted loops of `Pmm` and `Vmm` is not
  stated; a walk of `Scheduler` that does not end violates `EveryoneRuns`;
- `PrintfRenders`, which compares whole outputs with reference texts given format by
  format; the theorems above cover its numbers;
- `SuiteSurvives`: the self-tests are one deterministic program on one heap, which TLC
  executes completely; it includes the shape of that heap after the tests have
  overwritten a header. And `TypeOK` of `Runtime`;
- what the four violating runs show, which is a behaviour and not a theorem.

## Not modelled

- Phases 2 and 3 of the self-tests only read registers, the tick counter and the
  frequency. Phase 1's write to screen memory (tests.c:87) bypasses the console.
- `mmap_parse` is nine calls of `mmap_add_entry` with the constants of a 64 MB
  machine; TLC cannot scan its 16384 pages. The proofs of `Pmm` hold for that map:
  its free regions are page-aligned and far from 2^64, so `PlainRegions` holds. (Its comments at memory_map.c:54 give
  other sizes than its calls.)
- The scancode table, a constant lookup; what `kernel_panic` and the statistics
  functions print; `vga_printf`, which ends in a no-op of `kernel/stubs.c`.
- `boot/boot.asm`, the unused `cpu/isr_stub.asm`, empty and no-op files.
- The order of the time stamps on log lines: a handler's line inside another line
  carries a later stamp than the text behind it; nothing promises otherwise.
- Unsafe calls the code does not check (`kfree` of a stray pointer, `pmm_free` of a
  reserved page): no property of the code speaks about them.
