-------------------------------- MODULE Pmm --------------------------------
(***************************************************************************)
(* The physical page allocator (pmm/pmm.c) on the memory map it is built   *)
(* from (memory_map/memory_map.c): a bitmap of pages with counters beside  *)
(* it, scanned linearly from page 0.                                       *)
(*                                                                         *)
(* The loops over map entries and over the bitmap are one step per         *)
(* iteration.  The calls run one at a time.  Callers free pages they hold, *)
(* or addresses that pmm_free rejects.                                     *)
(***************************************************************************)
EXTENDS Integers, Sequences, FiniteSets

CONSTANTS
  PAGE_SIZE,
  PMM_MAX_PAGES,
  U64,              \* number of values of u64
  MMAP_MAX_ENTRIES,
  Regions,          \* the memory regions the firmware may report
  Counts            \* the sizes callers of pmm_alloc_n ask for

Types == {"MMAP_FREE", "MMAP_RESERVED", "MMAP_ACPI", "MMAP_NVS", "MMAP_BADRAM",
          "MMAP_KERNEL"}

PHYS_MEM_SIZE == PAGE_SIZE * PMM_MAX_PAGES

ASSUME PmmAssumption ==
  /\ PAGE_SIZE \in Nat \ {0} /\ PMM_MAX_PAGES \in Nat /\ MMAP_MAX_ENTRIES \in Nat
  /\ U64 \in Nat /\ PHYS_MEM_SIZE < U64
  /\ Regions \subseteq [base : 0 .. U64 - 1, length : 0 .. U64 - 1, type : Types]
  /\ Counts \subseteq Nat

VARIABLES
  mmap,        \* the entries of the memory map and their total_free
  bits_clear,  \* the bits of the bitmap that are 0: the free pages
  total_pages, free_pages, used_pages,
  pc,          \* "boot" until pmm_init, then "idle" or the function running
  n,           \* the argument of pmm_alloc_n
  i,           \* loop counter
  run, start,  \* locals of pmm_alloc_n
  held,        \* pages returned to callers that have not freed them yet
  dirty        \* pages that callers have written to since they were zeroed

vars == <<mmap, bits_clear, total_pages, free_pages, used_pages, pc, n, i, run,
          start, held, dirty>>

Pages == 0 .. PMM_MAX_PAGES - 1

\* Memory is arbitrary at boot.
Init ==
  /\ mmap = [entries |-> << >>, total_free |-> 0]
  /\ bits_clear = {}
  /\ total_pages = 0 /\ free_pages = 0 /\ used_pages = 0
  /\ pc = "boot"
  /\ n = 0 /\ i = 0 /\ run = 0 /\ start = 0
  /\ held = {}
  /\ dirty = Pages

-----------------------------------------------------------------------------
\* memory_map.c.

mmap_add_entry(e) ==
  /\ pc = "boot"
  /\ mmap' = IF Len(mmap.entries) >= MMAP_MAX_ENTRIES THEN mmap
             ELSE [entries |-> Append(mmap.entries, e),
                   total_free |-> IF e.type = "MMAP_FREE"
                                    THEN (mmap.total_free + e.length) % U64
                                    ELSE mmap.total_free]
  /\ UNCHANGED <<bits_clear, total_pages, free_pages, used_pages, pc, n, i, run,
                 start, held, dirty>>

-----------------------------------------------------------------------------
\* pmm_init.

ALIGN_DOWN(x, a) == x - (x % a)
ALIGN_UP(x, a) == ALIGN_DOWN((x + a - 1) % U64, a)

First(e) == ALIGN_UP(e.base, PAGE_SIZE) \div PAGE_SIZE

UsableRoundedOut(e) ==
  LET base == ALIGN_UP(e.base, PAGE_SIZE)
      top  == ALIGN_UP((e.base + e.length) % U64, PAGE_SIZE)
      end  == IF top > PHYS_MEM_SIZE THEN PHYS_MEM_SIZE ELSE top
  IN  IF e.type # "MMAP_FREE" \/ base >= PHYS_MEM_SIZE THEN 0
      ELSE ((end - base) % U64) \div PAGE_SIZE

\* The number of pages entry e contributes; the subtraction is unsigned.
Usable(e) ==
  LET base == ALIGN_UP(e.base, PAGE_SIZE)
      top  == ALIGN_DOWN((e.base + e.length) % U64, PAGE_SIZE)
      end  == IF top > PHYS_MEM_SIZE THEN PHYS_MEM_SIZE ELSE top
  IN  IF e.type # "MMAP_FREE" \/ base >= PHYS_MEM_SIZE THEN 0
      ELSE ((end - base) % U64) \div PAGE_SIZE

pmm_init ==
  /\ pc = "boot"
  /\ pc' = "pmm_init" /\ i' = 0
  /\ bits_clear' = {}
  /\ total_pages' = 0 /\ free_pages' = 0 /\ used_pages' = 0
  /\ UNCHANGED <<mmap, n, run, start, held, dirty>>

InitEntry ==
  LET e == mmap.entries[i + 1] IN
  /\ pc = "pmm_init" /\ i < Len(mmap.entries)
  /\ bits_clear' = bits_clear \cup {First(e) + p : p \in 0 .. Usable(e) - 1}
  /\ free_pages' = free_pages + Usable(e)
  /\ total_pages' = total_pages + Usable(e)
  /\ i' = i + 1
  /\ UNCHANGED <<mmap, used_pages, pc, n, run, start, held, dirty>>

InitDone ==
  /\ pc = "pmm_init" /\ i = Len(mmap.entries)
  /\ used_pages' = 0
  /\ pc' = "idle" /\ i' = 0
  /\ UNCHANGED <<mmap, bits_clear, total_pages, free_pages, n, run, start, held,
                 dirty>>

-----------------------------------------------------------------------------
\* What the two allocation functions do when they found the pages S.
Allocate(S, count) ==
  /\ bits_clear' = bits_clear \ S
  /\ free_pages' = free_pages - count
  /\ used_pages' = used_pages + count
  /\ held' = held \cup S
  /\ dirty' = dirty \ S
  /\ pc' = "idle" /\ n' = 0 /\ i' = 0 /\ run' = 0 /\ start' = 0
  /\ UNCHANGED <<mmap, total_pages>>

\* The function returns -1 after its scan.
GiveUp ==
  /\ i = PMM_MAX_PAGES
  /\ pc' = "idle" /\ n' = 0 /\ i' = 0 /\ run' = 0 /\ start' = 0
  /\ UNCHANGED <<mmap, bits_clear, total_pages, free_pages, used_pages, held, dirty>>

\* pmm_alloc.
pmm_alloc ==
  /\ pc = "idle" /\ free_pages # 0
  /\ pc' = "pmm_alloc"
  /\ UNCHANGED <<mmap, bits_clear, total_pages, free_pages, used_pages, n, i, run,
                 start, held, dirty>>

AllocEmpty ==
  /\ pc = "idle" /\ free_pages = 0
  /\ UNCHANGED vars

AllocUsed ==
  /\ pc = "pmm_alloc" /\ i < PMM_MAX_PAGES /\ i \notin bits_clear
  /\ i' = i + 1
  /\ UNCHANGED <<mmap, bits_clear, total_pages, free_pages, used_pages, pc, n, run,
                 start, held, dirty>>

AllocFound ==
  /\ pc = "pmm_alloc" /\ i < PMM_MAX_PAGES /\ i \in bits_clear
  /\ Allocate({i}, 1)

AllocNone == pc = "pmm_alloc" /\ GiveUp

\* pmm_alloc_n.
EnoughStrict(count) == count # 0 /\ free_pages > count

Enough(count) == count # 0 /\ free_pages >= count

pmm_alloc_n(count) ==
  /\ pc = "idle" /\ Enough(count)
  /\ pc' = "pmm_alloc_n" /\ n' = count
  /\ UNCHANGED <<mmap, bits_clear, total_pages, free_pages, used_pages, i, run,
                 start, held, dirty>>

AllocNShort(count) ==
  /\ pc = "idle" /\ ~ Enough(count)
  /\ UNCHANGED vars

AllocNUsedKeepsRun ==
  /\ pc = "pmm_alloc_n" /\ i < PMM_MAX_PAGES /\ i \notin bits_clear
  /\ i' = i + 1
  /\ UNCHANGED <<mmap, bits_clear, total_pages, free_pages, used_pages, pc, n, run,
                 start, held, dirty>>

AllocNUsedSkips ==
  /\ pc = "pmm_alloc_n" /\ i < PMM_MAX_PAGES /\ i \notin bits_clear
  /\ run' = 0 /\ i' = IF i + 2 > PMM_MAX_PAGES THEN i + 1 ELSE i + 2
  /\ UNCHANGED <<mmap, bits_clear, total_pages, free_pages, used_pages, pc, n,
                 start, held, dirty>>

\* A used page ends the run.
AllocNUsed ==
  /\ pc = "pmm_alloc_n" /\ i < PMM_MAX_PAGES /\ i \notin bits_clear
  /\ run' = 0 /\ i' = i + 1
  /\ UNCHANGED <<mmap, bits_clear, total_pages, free_pages, used_pages, pc, n,
                 start, held, dirty>>

RunStart == IF run = 0 THEN i ELSE start

AllocNFree ==
  /\ pc = "pmm_alloc_n" /\ i < PMM_MAX_PAGES /\ i \in bits_clear
  /\ run + 1 # n
  /\ run' = run + 1 /\ start' = RunStart /\ i' = i + 1
  /\ UNCHANGED <<mmap, bits_clear, total_pages, free_pages, used_pages, pc, n,
                 held, dirty>>

AllocNFound ==
  /\ pc = "pmm_alloc_n" /\ i < PMM_MAX_PAGES /\ i \in bits_clear
  /\ run + 1 = n
  /\ Allocate(RunStart .. RunStart + n - 1, n)

AllocNNone == pc = "pmm_alloc_n" /\ GiveUp

-----------------------------------------------------------------------------
\* pmm_free accepts addr: aligned, in range, and marked used.
Freeable(addr) ==
  /\ addr % PAGE_SIZE = 0
  /\ addr < PHYS_MEM_SIZE
  /\ addr \div PAGE_SIZE \notin bits_clear

\* pmm_free of an address whose page the caller holds, or of one that is
\* rejected.
pmm_free(addr) ==
  LET page == addr \div PAGE_SIZE IN
  /\ pc = "idle"
  /\ IF Freeable(addr)
       THEN /\ bits_clear' = bits_clear \cup {page}
            /\ free_pages' = free_pages + 1
            /\ used_pages' = used_pages - 1
            /\ held' = held \ {page}
       ELSE UNCHANGED <<bits_clear, free_pages, used_pages, held>>
  /\ UNCHANGED <<mmap, total_pages, pc, n, i, run, start, dirty>>

\* pmm_free_n of pages the caller holds.
pmm_free_n(page, count) ==
  LET S == page .. page + count - 1 IN
  /\ pc = "idle"
  /\ S \subseteq held
  /\ bits_clear' = bits_clear \cup S
  /\ free_pages' = free_pages + count
  /\ used_pages' = used_pages - count
  /\ held' = held \ S
  /\ UNCHANGED <<mmap, total_pages, pc, n, i, run, start, dirty>>

\* The holder of a page writes to it.
Write(page) ==
  /\ pc = "idle" /\ page \in held
  /\ dirty' = dirty \cup {page}
  /\ UNCHANGED <<mmap, bits_clear, total_pages, free_pages, used_pages, pc, n, i,
                 run, start, held>>

-----------------------------------------------------------------------------
Reported(e) == \E k \in DOMAIN mmap.entries : mmap.entries[k] = e

\* Callers free what they hold; pmm_free also meets addresses that are not
\* aligned or out of range, and pages that are free already.
CallersFree(addr) ==
  addr % PAGE_SIZE = 0 /\ addr < PHYS_MEM_SIZE =>
    addr \div PAGE_SIZE \in held \cup bits_clear

Scan ==
  \/ InitEntry \/ InitDone
  \/ AllocUsed \/ AllocFound \/ AllocNone
  \/ AllocNUsed \/ AllocNFree \/ AllocNFound \/ AllocNNone

Next ==
  \/ \E e \in Regions : ~ Reported(e) /\ mmap_add_entry(e)
  \/ pmm_init
  \/ pmm_alloc \/ AllocEmpty
  \/ \E count \in Counts : pmm_alloc_n(count) \/ AllocNShort(count)
  \/ Scan
  \/ \E addr \in 0 .. PHYS_MEM_SIZE : CallersFree(addr) /\ pmm_free(addr)
  \/ \E page \in held, count \in Counts : pmm_free_n(page, count)
  \/ \E page \in held : Write(page)

Spec == Init /\ [][Next]_vars

-----------------------------------------------------------------------------
(* Properties                                                              *)

\* Every variable holds a value of its type; the scans stay inside the
\* bitmap and the counters never run below zero.
TypeOK ==
  /\ mmap.entries \in Seq(Regions) /\ Len(mmap.entries) <= MMAP_MAX_ENTRIES
  /\ mmap.total_free \in 0 .. U64 - 1
  /\ bits_clear \subseteq Pages /\ held \subseteq Pages /\ dirty \subseteq Pages
  /\ total_pages \in Nat /\ free_pages \in Nat /\ used_pages \in Nat
  /\ pc \in {"boot", "pmm_init", "idle", "pmm_alloc", "pmm_alloc_n"}
  /\ n \in Nat /\ run \in Nat /\ start \in Nat
  /\ i \in Nat

\* The bytes of page p all lie in region e.
Within(p, e) ==
  e.base <= p * PAGE_SIZE /\ (p + 1) * PAGE_SIZE <= e.base + e.length

\* The pages that may be handed out: those inside one free region.
Ram == {p \in Pages : \E k \in DOMAIN mmap.entries :
          mmap.entries[k].type = "MMAP_FREE" /\ Within(p, mmap.entries[k])}

\* No page is in two free regions.
NoOverlap ==
  \A k, l \in DOMAIN mmap.entries : \A p \in Pages :
    /\ mmap.entries[k].type = "MMAP_FREE" /\ Within(p, mmap.entries[k])
    /\ mmap.entries[l].type = "MMAP_FREE" /\ Within(p, mmap.entries[l])
      => k = l

\* The counters agree with the bitmap and with what callers hold: every page
\* of RAM, and no other, is either free or held by one caller, whatever the
\* alignment and order of the regions and whatever was allocated, refused,
\* freed and freed again.  A page reported twice makes pmm_init count it
\* twice: then free_pages is too high, never too low.
PageAccounting ==
  /\ TypeOK
  /\ pc \notin {"boot", "pmm_init"} =>
    /\ bits_clear \cup held = Ram /\ bits_clear \cap held = {}
    /\ free_pages >= Cardinality(bits_clear)
    /\ NoOverlap => free_pages = Cardinality(bits_clear)
    /\ used_pages = Cardinality(held)
    /\ total_pages = free_pages + used_pages
    /\ total_pages * PAGE_SIZE <= mmap.total_free

\* The pages a step hands out.
New == held' \ held

HandedFresh ==
  New # {} =>
    LET count == IF pc = "pmm_alloc" THEN 1 ELSE n IN
    /\ \E p \in Pages : New = p .. p + count - 1
    /\ New \subseteq bits_clear
    /\ New \cap bits_clear' = {}
    /\ New \cap dirty' = {}

\* Pages handed out are consecutive pages that were free and nobody held, as
\* many as were asked for, and are zeroed.
FreshPages == [][HandedFresh]_vars

\* A run of count free pages exists.
HasRun(count) == \E p \in Pages : p .. p + count - 1 \subseteq bits_clear

ScanRefuses ==
  /\ AllocNNone => ~ HasRun(n)
  /\ AllocNone => bits_clear = {}

CounterRefuses ==
  pc = "idle" =>
    /\ free_pages = 0 => bits_clear = {}
    /\ \A count \in Counts \ {0} : ~ Enough(count) => ~ HasRun(count)

\* An allocation that returns -1 was impossible: no run of free pages of that
\* length exists, neither after the scan nor when the counter, as any step of
\* the allocator leaves it, refuses the call.
RefusalIsHonest == [][ScanRefuses /\ CounterRefuses']_vars

HandedFirst ==
  New # {} =>
    \A p \in Pages :
      p .. p + Cardinality(New) - 1 \subseteq bits_clear => \E q \in New : q <= p

\* Allocation is first fit: nothing below the pages handed out would do.
FirstFit == [][HandedFirst]_vars

\* pmm.c:63 "Clamp to our simulated memory": pmm_init clears only bits of the
\* bitmap.
ClampedToMemory == bits_clear \subseteq Pages
=============================================================================
