----------------------------- MODULE PmmProofs -----------------------------
(***************************************************************************)
(* The scans of pmm_alloc and pmm_alloc_n hand out fresh pages, first fit, *)
(* for every memory map and size.  That a refusal is honest, and that the  *)
(* bitmap is not overrun, needs free regions that are not smaller than the *)
(* rounding of pmm_init, the case the sliver run exhibits.  That every     *)
(* page is accounted for also needs addresses and total_free not to wrap.  *)
(***************************************************************************)
EXTENDS Pmm, FiniteSetTheorems, TLAPS

\* The leaves that name no prover are left to the SMT solver.
USE SMTT(30)

\* What the loop counters mean: pmm_alloc saw no free page below i, and
\* pmm_alloc_n saw exactly run free pages before i and no n of them earlier.
ScanInv ==
  /\ held \cap bits_clear = {} /\ held \subseteq Pages
  /\ pc \in {"boot", "pmm_init"} => held = {}
  /\ pc \in {"boot", "idle"} => i = 0
  /\ pc # "pmm_alloc_n" => run = 0
  /\ pc = "pmm_alloc" =>
       /\ i \in 0 .. PMM_MAX_PAGES
       /\ \A p \in Nat : p \in bits_clear => p >= i
  /\ pc = "pmm_alloc_n" =>
       /\ n \in Nat \ {0} /\ i \in 0 .. PMM_MAX_PAGES
       /\ run \in 0 .. n - 1 /\ run <= i
       /\ run > 0 => start = i - run
       /\ (i - run) .. (i - 1) \subseteq bits_clear
       /\ \A p \in Nat : p .. p + n - 1 \subseteq bits_clear => p >= i - run

LEMMA ScanInit ==
  ASSUME Init
  PROVE  ScanInv
BY Zenon DEF Init, ScanInv

\* The pages of a run that is complete are all free.
LEMMA RunComplete ==
  ASSUME ScanInv, pc = "pmm_alloc_n", i < PMM_MAX_PAGES, i \in bits_clear
  PROVE  /\ RunStart = i - run /\ RunStart \in Pages /\ RunStart \in Nat
         /\ RunStart .. i \subseteq bits_clear
<1>1. /\ n \in Nat \ {0} /\ i \in 0 .. PMM_MAX_PAGES /\ run \in 0 .. n - 1 /\ run <= i
      /\ run > 0 => start = i - run
      /\ (i - run) .. (i - 1) \subseteq bits_clear
  BY Zenon DEF ScanInv
<1>2. RunStart = i - run
  <2>1. i \in Int /\ run \in Nat
    BY <1>1, PmmAssumption
  <2>2. CASE run = 0
    BY <2>1, <2>2 DEF RunStart
  <2>3. CASE run # 0
    BY <1>1, <2>1, <2>3 DEF RunStart
  <2> QED BY <2>2, <2>3, Zenon
<1>3. RunStart \in Pages /\ RunStart \in Nat
  BY <1>1, <1>2, PmmAssumption DEF Pages
<1>4. ASSUME NEW q \in RunStart .. i
      PROVE  q \in bits_clear
  <2>1. q = i \/ q \in (i - run) .. (i - 1)
    BY <1>1, <1>2
  <2> QED BY <1>1, <2>1, Zenon
<1> QED BY <1>2, <1>3, <1>4, Zenon

\* One iteration of a scan that goes on.
LEMMA ScanGoesOn ==
  ASSUME ScanInv, AllocUsed \/ AllocNUsed \/ AllocNFree
  PROVE  ScanInv'
<1>1. CASE AllocUsed
  BY <1>1, PmmAssumption DEF AllocUsed, ScanInv
<1>2. CASE AllocNUsed
  <2>1. /\ n \in Nat \ {0} /\ i \in 0 .. PMM_MAX_PAGES /\ run \in 0 .. n - 1 /\ run <= i
        /\ \A p \in Nat : p .. p + n - 1 \subseteq bits_clear => p >= i - run
        /\ i < PMM_MAX_PAGES /\ i \notin bits_clear
        /\ i' = i + 1 /\ run' = 0 /\ n' = n /\ bits_clear' = bits_clear /\ pc' = "pmm_alloc_n"
    BY <1>2, Zenon DEF AllocNUsed, ScanInv
  <2>2. ASSUME NEW p \in Nat, p .. p + n - 1 \subseteq bits_clear
        PROVE  p >= i + 1
    <3>1. p >= i - run
      BY <2>1, <2>2, Zenon
    <3>2. i \notin p .. p + n - 1
      BY <2>1, <2>2, Zenon
    <3> QED BY <2>1, <3>1, <3>2
  <2>3. /\ run' \in 0 .. n' - 1 /\ run' <= i' /\ ~ (run' > 0)
        /\ i' \in 0 .. PMM_MAX_PAGES /\ i' - run' = i + 1
    BY <2>1, PmmAssumption
  <2>4. (i' - run') .. (i' - 1) = {}
    BY <2>1, PmmAssumption
  <2>5. \A p \in Nat : p .. p + n' - 1 \subseteq bits_clear' => p >= i' - run'
    BY <2>1, <2>2, <2>3, Zenon
  <2> QED BY <1>2, <2>1, <2>3, <2>4, <2>5, Zenon DEF AllocNUsed, ScanInv
<1>3. CASE AllocNFree
  <2>1. /\ n \in Nat \ {0} /\ i \in 0 .. PMM_MAX_PAGES /\ run \in 0 .. n - 1 /\ run <= i
        /\ \A p \in Nat : p .. p + n - 1 \subseteq bits_clear => p >= i - run
        /\ i < PMM_MAX_PAGES /\ i \in bits_clear /\ run + 1 # n
        /\ i' = i + 1 /\ run' = run + 1 /\ n' = n /\ bits_clear' = bits_clear
        /\ start' = RunStart /\ pc' = "pmm_alloc_n" /\ pc = "pmm_alloc_n"
    BY <1>3, Zenon DEF AllocNFree, ScanInv
  <2>2. RunStart = i - run /\ RunStart .. i \subseteq bits_clear
    BY <2>1, RunComplete, Zenon
  <2>3. /\ run' \in 0 .. n' - 1 /\ run' <= i' /\ start' = i' - run'
        /\ i' \in 0 .. PMM_MAX_PAGES /\ i' - run' = i - run /\ i' - 1 = i
    BY <2>1, <2>2, PmmAssumption
  <2>4. /\ (i' - run') .. (i' - 1) \subseteq bits_clear'
        /\ \A p \in Nat : p .. p + n' - 1 \subseteq bits_clear' => p >= i' - run'
    BY <2>1, <2>2, <2>3, Zenon
  <2> QED BY <1>3, <2>1, <2>3, <2>4, Zenon DEF AllocNFree, ScanInv
<1> QED BY <1>1, <1>2, <1>3, Zenon

\* What a scan that succeeds hands out.
LEMMA Found ==
  ASSUME ScanInv, AllocFound \/ AllocNFound
  PROVE  \E p \in Pages : \E count \in Nat \ {0} :
           /\ count = IF pc = "pmm_alloc" THEN 1 ELSE n
           /\ Allocate(p .. p + count - 1, count)
           /\ p .. p + count - 1 \subseteq bits_clear
           /\ p .. p + count - 1 \subseteq Pages
           /\ \A q \in Nat : q .. q + count - 1 \subseteq bits_clear => p <= q
<1>1. CASE AllocFound
  <2>1. /\ pc = "pmm_alloc" /\ i \in 0 .. PMM_MAX_PAGES /\ i < PMM_MAX_PAGES /\ i \in bits_clear
        /\ \A p \in Nat : p \in bits_clear => p >= i
        /\ Allocate({i}, 1)
    BY <1>1, Zenon DEF AllocFound, ScanInv
  <2>2. i \in Pages /\ i .. i + 1 - 1 = {i} /\ \A q \in Nat : q \in q .. q + 1 - 1
    BY <2>1, PmmAssumption DEF Pages
  <2>3. \A q \in Nat : q .. q + 1 - 1 \subseteq bits_clear => i <= q
    BY <2>1, <2>2, PmmAssumption, Zenon
  <2>4. Allocate(i .. i + 1 - 1, 1)
    BY <2>1, <2>2, Zenon
  <2>5. /\ 1 \in Nat \ {0} /\ 1 = IF pc = "pmm_alloc" THEN 1 ELSE n
        /\ i .. i + 1 - 1 \subseteq bits_clear /\ i .. i + 1 - 1 \subseteq Pages
    BY <2>1, <2>2
  <2> QED BY <2>2, <2>3, <2>4, <2>5, Zenon
<1>2. CASE AllocNFound
  <2>1. /\ pc = "pmm_alloc_n" /\ i \in 0 .. PMM_MAX_PAGES /\ i < PMM_MAX_PAGES /\ i \in bits_clear
        /\ n \in Nat \ {0} /\ run + 1 = n /\ run \in 0 .. n - 1
        /\ \A p \in Nat : p .. p + n - 1 \subseteq bits_clear => p >= i - run
        /\ Allocate(RunStart .. RunStart + n - 1, n)
    BY <1>2, Zenon DEF AllocNFound, ScanInv
  <2>2. /\ RunStart = i - run /\ RunStart \in Pages /\ RunStart \in Nat
        /\ RunStart .. i \subseteq bits_clear
    BY <2>1, RunComplete, Zenon
  <2>3. RunStart + n - 1 = i
    BY <2>1, <2>2, PmmAssumption
  <2>4. RunStart .. i \subseteq Pages
    BY <2>1, <2>2, PmmAssumption DEF Pages
  <2>5. \A q \in Nat : q .. q + n - 1 \subseteq bits_clear => RunStart <= q
    BY <2>1, <2>2, PmmAssumption, Zenon
  <2> QED BY <2>1, <2>2, <2>3, <2>4, <2>5, Zenon
<1> QED BY <1>1, <1>2, Zenon

LEMMA ScanInvInductive == ScanInv /\ [Next]_vars => ScanInv'
<1> SUFFICES ASSUME ScanInv, [Next]_vars
             PROVE  ScanInv'
  BY Zenon
<1>1. CASE UNCHANGED vars
  BY <1>1, Zenon DEF vars, ScanInv
<1>2. CASE \E e \in Regions : mmap_add_entry(e)
  BY <1>2, Zenon DEF mmap_add_entry, ScanInv
<1>3. CASE pmm_init
  BY <1>3, Zenon DEF pmm_init, ScanInv
<1>4. CASE InitEntry
  BY <1>4, Zenon DEF InitEntry, ScanInv
<1>5. CASE InitDone
  BY <1>5, Zenon DEF InitDone, ScanInv
<1>6. CASE pmm_alloc
  BY <1>6, PmmAssumption DEF pmm_alloc, ScanInv
<1>7. ASSUME NEW count \in Counts, pmm_alloc_n(count)
      PROVE  ScanInv'
  <2>1. /\ i = 0 /\ i' = 0 /\ run = 0 /\ run' = 0 /\ n' = count /\ count \in Nat \ {0}
        /\ pc' = "pmm_alloc_n" /\ bits_clear' = bits_clear /\ held' = held
    BY <1>7, PmmAssumption, Zenon DEF pmm_alloc_n, ScanInv, Enough
  <2>2. (i' - run') .. (i' - 1) = {}
    BY <2>1
  <2> QED BY <2>1, <2>2, PmmAssumption DEF ScanInv
<1>8. CASE AllocUsed \/ AllocNUsed \/ AllocNFree
  BY <1>8, ScanGoesOn, Zenon
<1>9. CASE AllocFound \/ AllocNFound
  <2>1. PICK p \in Pages : \E count \in Nat \ {0} :
           Allocate(p .. p + count - 1, count) /\ p .. p + count - 1 \subseteq Pages
    BY <1>9, Found, Zenon
  <2>2. PICK count \in Nat \ {0} :
           Allocate(p .. p + count - 1, count) /\ p .. p + count - 1 \subseteq Pages
    BY <2>1, Zenon
  <2> DEFINE S == p .. p + count - 1
  <2>3. /\ bits_clear' = bits_clear \ S /\ held' = held \cup S /\ pc' = "idle" /\ i' = 0 /\ run' = 0
        /\ S \subseteq Pages
    BY <2>2, Zenon DEF Allocate
  <2> HIDE DEF S
  <2> QED BY <2>3, Zenon DEF ScanInv
<1>10. CASE AllocNone \/ AllocNNone
  BY <1>10, Zenon DEF AllocNone, AllocNNone, GiveUp, ScanInv
<1>11. ASSUME NEW addr, pmm_free(addr)
       PROVE  ScanInv'
  BY <1>11, Zenon DEF pmm_free, ScanInv
<1>12. ASSUME NEW page, NEW count, pmm_free_n(page, count)
       PROVE  ScanInv'
  <2> DEFINE S == page .. page + count - 1
  <2>1. /\ S \subseteq held /\ bits_clear' = bits_clear \cup S /\ held' = held \ S
        /\ pc = "idle" /\ UNCHANGED <<pc, i, run>>
    BY <1>12, Zenon DEF pmm_free_n
  <2> HIDE DEF S
  <2> QED BY <2>1, Zenon DEF ScanInv
<1>13. ASSUME NEW page, Write(page)
       PROVE  ScanInv'
  BY <1>13, Zenon DEF Write, ScanInv
<1>14. CASE AllocEmpty \/ \E count \in Counts : AllocNShort(count)
  BY <1>1, <1>14, Zenon DEF AllocEmpty, AllocNShort
<1> QED BY <1>1, <1>2, <1>3, <1>4, <1>5, <1>6, <1>7, <1>8, <1>9, <1>10, <1>11, <1>12, <1>13,
           <1>14, Zenon DEF Next, Scan

-----------------------------------------------------------------------------
\* Only a scan that succeeds hands out pages.
LEMMA OnlyFoundHands ==
  ASSUME [Next]_vars, New # {}
  PROVE  AllocFound \/ AllocNFound
<1>1. CASE UNCHANGED vars
  BY <1>1, Zenon DEF vars, New
<1>2. CASE \/ \E e \in Regions : mmap_add_entry(e)
           \/ pmm_init \/ pmm_alloc \/ AllocEmpty
           \/ \E count \in Counts : pmm_alloc_n(count) \/ AllocNShort(count)
  BY <1>2, Zenon DEF mmap_add_entry, pmm_init, pmm_alloc, AllocEmpty, pmm_alloc_n, AllocNShort,
              vars, New
<1>3. CASE Scan
  BY <1>3, Zenon DEF Scan, InitEntry, InitDone, AllocUsed, AllocNone, AllocNUsed, AllocNFree,
              AllocNNone, GiveUp, New
<1>4. ASSUME NEW addr, pmm_free(addr)
      PROVE  FALSE
  BY <1>4, Zenon DEF pmm_free, New
<1>5. ASSUME NEW page, NEW count, pmm_free_n(page, count)
      PROVE  FALSE
  BY <1>5, Zenon DEF pmm_free_n, New
<1>6. ASSUME NEW page, Write(page)
      PROVE  FALSE
  BY <1>6, Zenon DEF Write, New
<1> QED BY <1>1, <1>2, <1>3, <1>4, <1>5, <1>6, Zenon DEF Next

\* The pages handed out are an interval of free pages, and no lower one of
\* that length is free.
LEMMA Handed ==
  ASSUME ScanInv, [Next]_vars, New # {}
  PROVE  \E p \in Pages : \E count \in Nat \ {0} :
           /\ count = IF pc = "pmm_alloc" THEN 1 ELSE n
           /\ New = p .. p + count - 1
           /\ New \subseteq bits_clear /\ New \cap bits_clear' = {} /\ New \cap dirty' = {}
           /\ \A q \in Nat : q .. q + count - 1 \subseteq bits_clear => p <= q
<1> DEFINE Good(p, count) ==
             /\ count = IF pc = "pmm_alloc" THEN 1 ELSE n
             /\ Allocate(p .. p + count - 1, count)
             /\ p .. p + count - 1 \subseteq bits_clear
             /\ \A q \in Nat : q .. q + count - 1 \subseteq bits_clear => p <= q
<1>1. \E p \in Pages : \E count \in Nat \ {0} : Good(p, count)
  BY OnlyFoundHands, Found, Zenon
<1>2. PICK p \in Pages : \E count \in Nat \ {0} : Good(p, count)
  BY <1>1, Zenon
<1>3. PICK count \in Nat \ {0} : Good(p, count)
  BY <1>2, Zenon
<1> DEFINE S == p .. p + count - 1
<1>4. bits_clear' = bits_clear \ S /\ held' = held \cup S /\ dirty' = dirty \ S /\ S \subseteq bits_clear
  BY <1>3, Zenon DEF Allocate
<1>5. held \cap bits_clear = {}
  BY Zenon DEF ScanInv
<1> HIDE DEF S
<1>6. New = S
  BY <1>4, <1>5, Zenon DEF New
<1>7. New \subseteq bits_clear /\ New \cap bits_clear' = {} /\ New \cap dirty' = {}
  BY <1>4, <1>6, Zenon
<1>8. New = p .. p + count - 1
  BY <1>6, Zenon DEF S
<1> QED BY <1>3, <1>7, <1>8, Zenon

\* What pmm_alloc and pmm_alloc_n hand out are pages whose bits were clear,
\* consecutive, as many as asked for, marked used and zeroed, whatever the
\* memory map and the order of calls.
THEOREM PagesAreFresh == Spec => FreshPages
<1>1. Init => ScanInv
  BY ScanInit, Zenon
<1>2. ScanInv /\ [Next]_vars => [HandedFresh]_vars
  BY Handed, Zenon DEF HandedFresh
<1> QED BY <1>1, <1>2, ScanInvInductive, PTL DEF Spec, FreshPages

\* The scans of pmm_alloc and pmm_alloc_n take the lowest run of clear bits
\* that is long enough.
THEOREM AllocationIsFirstFit == Spec => FirstFit
<1>1. Init => ScanInv
  BY ScanInit, Zenon
<1>2. ScanInv /\ [Next]_vars => [HandedFirst]_vars
  <2> SUFFICES ASSUME ScanInv, [Next]_vars, New # {}, NEW q \in Pages,
                      q .. q + Cardinality(New) - 1 \subseteq bits_clear
               PROVE  \E r \in New : r <= q
    BY Zenon DEF HandedFirst
  <2>1. PICK p \in Pages : \E count \in Nat \ {0} :
          /\ New = p .. p + count - 1
          /\ \A x \in Nat : x .. x + count - 1 \subseteq bits_clear => p <= x
    BY Handed, Zenon
  <2>2. PICK count \in Nat \ {0} :
          /\ New = p .. p + count - 1
          /\ \A x \in Nat : x .. x + count - 1 \subseteq bits_clear => p <= x
    BY <2>1, Zenon
  <2>3. p \in Nat /\ q \in Nat
    BY PmmAssumption DEF Pages
  <2>4. Cardinality(p .. p + count - 1) = count
    <3>1. p \in Int /\ p + count - 1 \in Int /\ p <= p + count - 1
      BY <2>3
    <3>2. Cardinality(p .. p + count - 1) = (p + count - 1) - p + 1
      BY <3>1, FS_Interval
    <3> QED BY <2>3, <3>2
  <2>5. p <= q
    BY <2>2, <2>3, <2>4, Zenon
  <2>6. p \in New
    BY <2>2, <2>3
  <2> QED BY <2>5, <2>6, Zenon
<1> QED BY <1>1, <1>2, ScanInvInductive, PTL DEF Spec, FirstFit

-----------------------------------------------------------------------------
\* Every free region is large enough for the rounding of pmm_init: its base
\* rounded up does not pass its end rounded down.
NoSlivers ==
  \A e \in Regions : e.type = "MMAP_FREE" =>
    ALIGN_UP(e.base, PAGE_SIZE) <= ALIGN_DOWN((e.base + e.length) % U64, PAGE_SIZE)

LEMMA RoundedDown ==
  ASSUME NEW x \in Nat, NEW a \in Nat \ {0}
  PROVE  x \div a \in Nat /\ x - (x % a) = a * (x \div a)
OBVIOUS

LEMMA Divides ==
  ASSUME NEW a \in Nat \ {0}, NEW q \in Nat
  PROVE  (a * q) \div a = q
OBVIOUS

LEMMA Scaled ==
  ASSUME NEW a \in Nat \ {0}, NEW q \in Nat, NEW r \in Nat
  PROVE  /\ a * q <= a * r => q <= r
         /\ a * q < a * r => q < r
         /\ a * q - a * r = a * (q - r)
OBVIOUS

\* A free region large enough stays within the bitmap.
LEMMA EntryInBitmap ==
  ASSUME NoSlivers, NEW e \in Regions
  PROVE  /\ First(e) \in Nat /\ Usable(e) \in Nat
         /\ {First(e) + p : p \in 0 .. Usable(e) - 1} = First(e) .. First(e) + Usable(e) - 1
         /\ First(e) .. First(e) + Usable(e) - 1 \subseteq Pages
<1> DEFINE x == (e.base + PAGE_SIZE - 1) % U64
           y == (e.base + e.length) % U64
           b == x \div PAGE_SIZE
           t == y \div PAGE_SIZE
           base == ALIGN_UP(e.base, PAGE_SIZE)
           top == ALIGN_DOWN(y, PAGE_SIZE)
           end == IF top > PHYS_MEM_SIZE THEN PHYS_MEM_SIZE ELSE top
           m == IF top > PHYS_MEM_SIZE THEN PMM_MAX_PAGES ELSE t
<1>1. /\ PAGE_SIZE \in Nat \ {0} /\ PMM_MAX_PAGES \in Nat /\ U64 \in Nat /\ PHYS_MEM_SIZE < U64
      /\ e.base \in 0 .. U64 - 1 /\ e.length \in 0 .. U64 - 1
  BY PmmAssumption, Zenon
<1>2. x \in Nat /\ y \in Nat /\ x < U64 /\ y < U64
  BY <1>1
<1>3. base = x - (x % PAGE_SIZE) /\ top = y - (y % PAGE_SIZE)
  BY Zenon DEF ALIGN_UP, ALIGN_DOWN
<1> HIDE DEF x, y, base, top
<1>4. /\ b \in Nat /\ base = PAGE_SIZE * b
      /\ t \in Nat /\ top = PAGE_SIZE * t
  BY <1>1, <1>2, <1>3, RoundedDown, Zenon
<1> HIDE DEF b, t
<1>5. First(e) = b
  <2>1. (PAGE_SIZE * b) \div PAGE_SIZE = b
    BY <1>1, <1>4, Divides, Zenon
  <2> QED BY <1>4, <2>1, Zenon DEF First, base
<1>6. m \in Nat /\ end = PAGE_SIZE * m /\ m <= PMM_MAX_PAGES
  <2>1. PHYS_MEM_SIZE = PAGE_SIZE * PMM_MAX_PAGES
    BY Zenon DEF PHYS_MEM_SIZE
  <2>2. CASE top > PHYS_MEM_SIZE
    BY <1>1, <2>1, <2>2
  <2>3. CASE ~ (top > PHYS_MEM_SIZE)
    <3>1. PAGE_SIZE * t <= PAGE_SIZE * PMM_MAX_PAGES
      BY <1>1, <1>4, <2>1, <2>3
    <3>2. t <= PMM_MAX_PAGES
      BY <1>1, <1>4, <3>1, Scaled, Zenon
    <3> QED BY <1>4, <2>3, <3>2, Zenon
  <2> QED BY <2>2, <2>3, Zenon
<1>7. Usable(e) = IF e.type # "MMAP_FREE" \/ base >= PHYS_MEM_SIZE THEN 0
                  ELSE ((end - base) % U64) \div PAGE_SIZE
  BY Zenon DEF Usable, base, top, y
<1>8. Usable(e) \in Nat /\ (Usable(e) = 0 \/ b + Usable(e) = m)
  <2>1. CASE e.type # "MMAP_FREE" \/ base >= PHYS_MEM_SIZE
    BY <1>7, <2>1
  <2>2. CASE e.type = "MMAP_FREE" /\ ~ (base >= PHYS_MEM_SIZE)
    <3>1. base <= top
      BY <2>2, Zenon DEF NoSlivers, base, top, y
    <3>2. base <= end /\ end < U64 /\ base \in Nat /\ end \in Nat
      <4>1. base \in Nat /\ top \in Nat /\ PHYS_MEM_SIZE \in Nat
        BY <1>1, <1>4 DEF PHYS_MEM_SIZE
      <4>2. top < U64
        BY <1>1, <1>2, <1>3
      <4> QED BY <1>1, <2>2, <3>1, <4>1, <4>2
    <3> HIDE DEF end, m
    <3>3. b <= m
      BY <1>1, <1>4, <1>6, <3>2, Scaled, Zenon
    <3>4. end - base = PAGE_SIZE * (m - b) /\ m - b \in Nat
      BY <1>1, <1>4, <1>6, <3>3, Scaled
    <3>5. (end - base) % U64 = end - base
      BY <1>1, <3>2
    <3>6. (PAGE_SIZE * (m - b)) \div PAGE_SIZE = m - b
      BY <1>1, <3>4, Divides, Zenon
    <3>7. Usable(e) = m - b
      BY <1>7, <2>2, <3>4, <3>5, <3>6, Zenon DEF end
    <3> QED BY <1>4, <1>6, <3>4, <3>7
  <2> QED BY <2>1, <2>2, Zenon
<1> DEFINE u == Usable(e)
<1> HIDE DEF u, m, end
<1>9. u \in Nat /\ (u = 0 \/ b + u = m)
  BY <1>8, Zenon DEF u
<1>10. {b + p : p \in 0 .. u - 1} = b .. b + u - 1
  <2>1. \A z \in b .. b + u - 1 : z - b \in 0 .. u - 1 /\ z = b + (z - b)
    BY <1>4, <1>9
  <2>2. \A p \in 0 .. u - 1 : b + p \in b .. b + u - 1
    BY <1>4, <1>9
  <2> QED BY <2>1, <2>2, Zenon
<1>11. b .. b + u - 1 \subseteq Pages
  BY <1>1, <1>4, <1>6, <1>9 DEF Pages
<1> QED BY <1>4, <1>5, <1>9, <1>10, <1>11, Zenon DEF u

\* The counters against the bitmap and the pages held.
Balanced ==
  /\ free_pages \in Int /\ free_pages >= Cardinality(bits_clear)
  /\ used_pages = Cardinality(held)
  /\ total_pages = free_pages + used_pages

CountInv ==
  /\ mmap.entries \in Seq(Regions)
  /\ pc = "pmm_init" => i \in Nat
  /\ bits_clear \subseteq Pages
  /\ Balanced

\* Sets of pages are finite.
LEMMA PagesFinite ==
  ASSUME NEW S, S \subseteq Pages
  PROVE  IsFiniteSet(S) /\ Cardinality(S) \in Nat
<1>1. IsFiniteSet(Pages)
  BY PmmAssumption, FS_Interval DEF Pages
<1>2. IsFiniteSet(S)
  BY <1>1, FS_Subset, Zenon
<1> QED BY <1>2, FS_CardinalityType, Zenon

LEMMA IntervalSize ==
  ASSUME NEW p \in Nat, NEW count \in Nat
  PROVE  IsFiniteSet(p .. p + count - 1) /\ Cardinality(p .. p + count - 1) = count
<1>1. p \in Int /\ p + count - 1 \in Int
  OBVIOUS
<1>2. /\ IsFiniteSet(p .. p + count - 1)
      /\ Cardinality(p .. p + count - 1) =
           IF p > p + count - 1 THEN 0 ELSE (p + count - 1) - p + 1
  BY <1>1, FS_Interval, Zenon
<1>3. count = 0 => p > p + count - 1
  OBVIOUS
<1>4. count # 0 => ~ (p > p + count - 1) /\ (p + count - 1) - p + 1 = count
  OBVIOUS
<1> QED BY <1>2, <1>3, <1>4, Zenon

\* Pages S move from free to held: what an allocation does.
LEMMA MovesOut ==
  ASSUME ScanInv, CountInv, NEW p \in Nat, NEW count \in Nat,
         p .. p + count - 1 \subseteq bits_clear,
         Allocate(p .. p + count - 1, count)
  PROVE  /\ bits_clear' \subseteq Pages /\ Balanced'
         /\ free_pages' - Cardinality(bits_clear') = free_pages - Cardinality(bits_clear)
<1> DEFINE S == p .. p + count - 1
<1>1. IsFiniteSet(S) /\ Cardinality(S) = count
  BY IntervalSize, Zenon
<1>2. /\ bits_clear' = bits_clear \ S /\ held' = held \cup S /\ S \subseteq bits_clear
      /\ free_pages' = free_pages - count /\ used_pages' = used_pages + count
      /\ total_pages' = total_pages
  BY Zenon DEF Allocate
<1> HIDE DEF S
<1>3. /\ bits_clear \subseteq Pages /\ held \subseteq Pages /\ held \cap bits_clear = {}
      /\ free_pages \in Int /\ free_pages >= Cardinality(bits_clear)
      /\ used_pages = Cardinality(held) /\ total_pages = free_pages + used_pages
  BY Zenon DEF ScanInv, CountInv, Balanced
<1>4. IsFiniteSet(bits_clear) /\ IsFiniteSet(held) /\ Cardinality(bits_clear) \in Nat /\ Cardinality(held) \in Nat
  BY <1>3, PagesFinite, Zenon
<1>5. Cardinality(bits_clear \ S) = Cardinality(bits_clear) - count
  <2>1. bits_clear \cap S = S
    BY <1>2, Zenon
  <2> QED BY <1>1, <1>4, <2>1, FS_Difference, Zenon
<1>6. Cardinality(held \cup S) = Cardinality(held) + count
  <2>1. Cardinality(held \cap S) = 0
    <3>1. held \cap S = {}
      BY <1>2, <1>3, Zenon
    <3> QED BY <3>1, FS_EmptySet, Zenon
  <2>2. Cardinality(held \cup S) = Cardinality(held) + Cardinality(S) - Cardinality(held \cap S)
    BY <1>1, <1>4, FS_Union, Zenon
  <2> QED BY <1>1, <1>4, <2>1, <2>2
<1> QED BY <1>2, <1>3, <1>4, <1>5, <1>6 DEF Balanced

\* Pages S move from held to free.
LEMMA MovesIn ==
  ASSUME ScanInv, CountInv, NEW S, NEW count \in Nat,
         IsFiniteSet(S), Cardinality(S) = count, S \cap bits_clear = {}, S \subseteq held,
         bits_clear' = bits_clear \cup S, held' = held \ S,
         free_pages' = free_pages + count, used_pages' = used_pages - count,
         total_pages' = total_pages
  PROVE  /\ bits_clear' \subseteq Pages /\ Balanced'
         /\ free_pages' - Cardinality(bits_clear') = free_pages - Cardinality(bits_clear)
<1>1. /\ bits_clear \subseteq Pages /\ held \subseteq Pages
      /\ free_pages \in Int /\ free_pages >= Cardinality(bits_clear)
      /\ used_pages = Cardinality(held) /\ total_pages = free_pages + used_pages
  BY Zenon DEF ScanInv, CountInv, Balanced
<1>2. IsFiniteSet(bits_clear) /\ IsFiniteSet(held) /\ Cardinality(bits_clear) \in Nat /\ Cardinality(held) \in Nat
  BY <1>1, PagesFinite, Zenon
<1>3. Cardinality(held \ S) = Cardinality(held) - count
  <2>1. held \cap S = S
    BY Zenon
  <2> QED BY <1>2, <2>1, FS_Difference, Zenon
<1>4. Cardinality(bits_clear \cup S) = Cardinality(bits_clear) + count
  <2>1. Cardinality(bits_clear \cap S) = 0
    <3>1. bits_clear \cap S = {}
      BY Zenon
    <3> QED BY <3>1, FS_EmptySet, Zenon
  <2>2. Cardinality(bits_clear \cup S) =
          Cardinality(bits_clear) + Cardinality(S) - Cardinality(bits_clear \cap S)
    BY <1>2, FS_Union, Zenon
  <2> QED BY <1>2, <2>1, <2>2
<1> QED BY <1>1, <1>2, <1>3, <1>4 DEF Balanced

LEMMA CountInit ==
  ASSUME Init
  PROVE  CountInv
BY FS_EmptySet DEF Init, CountInv, Balanced

\* pmm_init clears the bits of one more region.
LEMMA EntryCounted ==
  ASSUME NoSlivers, ScanInv, CountInv, InitEntry
  PROVE  CountInv'
<1> DEFINE e == mmap.entries[i + 1]
           S == {First(e) + p : p \in 0 .. Usable(e) - 1}
<1>1. e \in Regions
  <2>1. mmap.entries \in Seq(Regions) /\ i \in Nat /\ i < Len(mmap.entries)
    BY Zenon DEF CountInv, InitEntry
  <2>2. i + 1 \in 1 .. Len(mmap.entries)
    BY <2>1
  <2> QED BY <2>1, <2>2
<1>2. /\ bits_clear' = bits_clear \cup S
      /\ free_pages' = free_pages + Usable(e) /\ total_pages' = total_pages + Usable(e)
      /\ UNCHANGED <<mmap, pc, used_pages, held>> /\ i' = i + 1 /\ pc = "pmm_init"
  BY Zenon DEF InitEntry
<1> HIDE DEF e
<1>3. /\ Usable(e) \in Nat /\ S \subseteq Pages /\ IsFiniteSet(S) /\ Cardinality(S) = Usable(e)
  BY <1>1, EntryInBitmap, IntervalSize, Zenon
<1> HIDE DEF S
<1>4. /\ bits_clear \subseteq Pages /\ free_pages \in Int /\ free_pages >= Cardinality(bits_clear)
      /\ used_pages = Cardinality(held) /\ total_pages = free_pages + used_pages
      /\ held \subseteq Pages /\ i \in Nat
  BY <1>2, Zenon DEF ScanInv, CountInv, Balanced
<1>5. IsFiniteSet(bits_clear) /\ Cardinality(bits_clear) \in Nat /\ Cardinality(held) \in Nat
      /\ Cardinality(bits_clear \cap S) \in Nat
  BY <1>3, <1>4, PagesFinite, Zenon
<1>6. Cardinality(bits_clear \cup S) =
        Cardinality(bits_clear) + Cardinality(S) - Cardinality(bits_clear \cap S)
  BY <1>3, <1>5, FS_Union, Zenon
<1>7. Balanced'
  BY <1>2, <1>3, <1>4, <1>5, <1>6 DEF Balanced
<1>8. bits_clear' \subseteq Pages
  BY <1>2, <1>3, <1>4, Zenon
<1> QED BY <1>2, <1>4, <1>7, <1>8 DEF CountInv

LEMMA FreeCounted ==
  ASSUME ScanInv, CountInv, NEW addr \in Nat, CallersFree(addr), pmm_free(addr)
  PROVE  CountInv'
<1>1. CASE ~ Freeable(addr)
  BY <1>1, Zenon DEF pmm_free, CountInv, Balanced
<1>2. CASE Freeable(addr)
  <2> DEFINE page == addr \div PAGE_SIZE
  <2>1. page \in held /\ page \notin bits_clear
    BY <1>2, Zenon DEF Freeable, CallersFree
  <2>2. /\ bits_clear' = bits_clear \cup {page} /\ held' = held \ {page}
        /\ free_pages' = free_pages + 1 /\ used_pages' = used_pages - 1
        /\ UNCHANGED <<mmap, total_pages, pc, i>>
    BY <1>2, Zenon DEF pmm_free
  <2> HIDE DEF page
  <2>3. IsFiniteSet({page}) /\ Cardinality({page}) = 1
    BY FS_Singleton, Zenon
  <2>4. bits_clear' \subseteq Pages /\ Balanced'
    BY <2>1, <2>2, <2>3, MovesIn, Zenon
  <2> QED BY <2>2, <2>4, Zenon DEF CountInv
<1> QED BY <1>1, <1>2, Zenon

LEMMA FreeNCounted ==
  ASSUME ScanInv, CountInv, NEW page \in held, NEW count \in Counts, pmm_free_n(page, count)
  PROVE  CountInv'
<1> DEFINE S == page .. page + count - 1
<1>1. page \in Nat /\ count \in Nat
  BY PmmAssumption DEF ScanInv, Pages
<1>2. IsFiniteSet(S) /\ Cardinality(S) = count
  BY <1>1, IntervalSize, Zenon
<1>3. /\ S \subseteq held /\ bits_clear' = bits_clear \cup S /\ held' = held \ S
      /\ free_pages' = free_pages + count /\ used_pages' = used_pages - count
      /\ UNCHANGED <<mmap, total_pages, pc, i>>
  BY Zenon DEF pmm_free_n
<1> HIDE DEF S
<1>4. S \cap bits_clear = {}
  BY <1>3, Zenon DEF ScanInv
<1>5. bits_clear' \subseteq Pages /\ Balanced'
  BY <1>1, <1>2, <1>3, <1>4, MovesIn, Zenon
<1> QED BY <1>3, <1>5, Zenon DEF CountInv

LEMMA CountInvInductive ==
  ASSUME NoSlivers
  PROVE  ScanInv /\ CountInv /\ [Next]_vars => CountInv'
<1> SUFFICES ASSUME ScanInv, CountInv, [Next]_vars
             PROVE  CountInv'
  BY Zenon
<1>1. CASE UNCHANGED vars
  BY <1>1, Zenon DEF vars, CountInv, Balanced
<1>2. ASSUME NEW e \in Regions, mmap_add_entry(e)
      PROVE  CountInv'
  <2>1. mmap.entries \in Seq(Regions)
    BY Zenon DEF CountInv
  <2>2. mmap'.entries \in Seq(Regions)
    <3>1. CASE mmap' = mmap
      BY <2>1, <3>1, Zenon
    <3>2. CASE mmap' # mmap
      <4>1. mmap'.entries = Append(mmap.entries, e)
        BY <1>2, <3>2, Zenon DEF mmap_add_entry
      <4> QED BY <2>1, <4>1
    <3> QED BY <3>1, <3>2, Zenon
  <2> QED BY <1>2, <2>2, Zenon DEF mmap_add_entry, CountInv, Balanced
<1>3. CASE pmm_init
  <2>1. held = {} /\ Cardinality({}) = 0
    BY <1>3, FS_EmptySet, Zenon DEF pmm_init, ScanInv
  <2> QED BY <1>3, <2>1 DEF pmm_init, CountInv, Balanced
<1>4. CASE InitEntry
  BY <1>4, EntryCounted, Zenon
<1>5. CASE InitDone
  <2>1. held = {} /\ Cardinality({}) = 0
    BY <1>5, FS_EmptySet, Zenon DEF InitDone, ScanInv
  <2> QED BY <1>5, <2>1, Zenon DEF InitDone, CountInv, Balanced
<1>6. CASE \/ pmm_alloc \/ AllocUsed \/ AllocNUsed \/ AllocNFree
           \/ \E count \in Counts : pmm_alloc_n(count)
  BY <1>6, Zenon DEF pmm_alloc, AllocUsed, AllocNUsed, AllocNFree, pmm_alloc_n, CountInv, Balanced
<1>7. CASE AllocFound \/ AllocNFound
  <2>1. PICK p \in Pages : \E count \in Nat \ {0} :
          /\ Allocate(p .. p + count - 1, count)
          /\ p .. p + count - 1 \subseteq bits_clear
    BY <1>7, Found, Zenon
  <2>2. PICK count \in Nat \ {0} :
          /\ Allocate(p .. p + count - 1, count)
          /\ p .. p + count - 1 \subseteq bits_clear
    BY <2>1, Zenon
  <2>3. p \in Nat
    BY PmmAssumption DEF Pages
  <2>4. bits_clear' \subseteq Pages /\ Balanced'
    BY <2>2, <2>3, MovesOut, Zenon
  <2>5. mmap' = mmap /\ pc' = "idle"
    BY <2>2, Zenon DEF Allocate
  <2> QED BY <2>4, <2>5, Zenon DEF CountInv
<1>8. CASE AllocNone \/ AllocNNone
  BY <1>8, Zenon DEF AllocNone, AllocNNone, GiveUp, CountInv, Balanced
<1>9. ASSUME NEW addr \in 0 .. PHYS_MEM_SIZE, CallersFree(addr), pmm_free(addr)
      PROVE  CountInv'
  BY <1>9, FreeCounted, PmmAssumption
<1>10. ASSUME NEW page \in held, NEW count \in Counts, pmm_free_n(page, count)
       PROVE  CountInv'
  BY <1>10, FreeNCounted, Zenon
<1>11. ASSUME NEW page, Write(page)
       PROVE  CountInv'
  BY <1>11, Zenon DEF Write, CountInv, Balanced
<1>12. CASE AllocEmpty \/ \E count \in Counts : AllocNShort(count)
  BY <1>1, <1>12, Zenon DEF AllocEmpty, AllocNShort
<1> QED BY <1>1, <1>2, <1>3, <1>4, <1>5, <1>6, <1>7, <1>8, <1>9, <1>10, <1>11, <1>12, Zenon
        DEF Next, Scan

-----------------------------------------------------------------------------
\* A scan that reached the end of the bitmap has seen every run.
LEMMA ScanSaw ==
  ASSUME ScanInv, CountInv
  PROVE  ScanRefuses
<1>1. ASSUME AllocNNone
      PROVE  ~ HasRun(n)
  <2> SUFFICES ASSUME NEW p \in Pages, p .. p + n - 1 \subseteq bits_clear
               PROVE  FALSE
    BY Zenon DEF HasRun
  <2>1. /\ i = PMM_MAX_PAGES /\ n \in Nat \ {0} /\ run \in 0 .. n - 1
        /\ \A q \in Nat : q .. q + n - 1 \subseteq bits_clear => q >= i - run
    BY <1>1, Zenon DEF AllocNNone, GiveUp, ScanInv
  <2>2. p \in Nat /\ p < PMM_MAX_PAGES
    BY PmmAssumption DEF Pages
  <2>3. p >= PMM_MAX_PAGES - run
    BY <2>1, <2>2, Zenon
  <2>4. PMM_MAX_PAGES \in p .. p + n - 1
    BY <2>1, <2>2, <2>3, PmmAssumption
  <2>5. PMM_MAX_PAGES \in Pages
    BY <2>4, Zenon DEF CountInv
  <2> QED BY <2>5, PmmAssumption DEF Pages
<1>2. ASSUME AllocNone
      PROVE  bits_clear = {}
  <2>1. /\ i = PMM_MAX_PAGES /\ \A p \in Nat : p \in bits_clear => p >= i
        /\ bits_clear \subseteq Pages
    BY <1>2, Zenon DEF AllocNone, GiveUp, ScanInv, CountInv
  <2>2. \A p \in Pages : p \in Nat /\ ~ (p >= PMM_MAX_PAGES)
    BY PmmAssumption DEF Pages
  <2> QED BY <2>1, <2>2, Zenon
<1> QED BY <1>1, <1>2, Zenon DEF ScanRefuses

\* free_pages is never less than the length of a run.
LEMMA CounterSaw ==
  ASSUME CountInv
  PROVE  CounterRefuses
<1>1. /\ IsFiniteSet(bits_clear) /\ Cardinality(bits_clear) \in Nat
      /\ free_pages \in Int /\ free_pages >= Cardinality(bits_clear)
  BY PagesFinite, Zenon DEF CountInv, Balanced
<1>2. free_pages = 0 => bits_clear = {}
  <2>1. free_pages = 0 => Cardinality(bits_clear) = 0
    BY <1>1
  <2> QED BY <1>1, <2>1, FS_EmptySet, Zenon
<1>3. ASSUME NEW count \in Counts \ {0}, ~ Enough(count), HasRun(count)
      PROVE  FALSE
  <2>1. PICK p \in Pages : p .. p + count - 1 \subseteq bits_clear
    BY <1>3, Zenon DEF HasRun
  <2>2. p \in Nat /\ count \in Nat
    BY PmmAssumption DEF Pages
  <2>3. Cardinality(p .. p + count - 1) = count
    BY <2>2, IntervalSize, Zenon
  <2>4. Cardinality(p .. p + count - 1) <= Cardinality(bits_clear)
    BY <1>1, <2>1, FS_Subset, Zenon
  <2>5. ~ (free_pages >= count)
    BY <1>3, Zenon DEF Enough
  <2> QED BY <1>1, <2>2, <2>3, <2>4, <2>5
<1> QED BY <1>2, <1>3, Zenon DEF CounterRefuses

LEMMA CountInvHolds ==
  ASSUME NoSlivers
  PROVE  Spec => [](ScanInv /\ CountInv)
<1>1. Init => ScanInv /\ CountInv
  BY ScanInit, CountInit, Zenon
<1>2. ScanInv /\ CountInv /\ [Next]_vars => CountInv'
  BY CountInvInductive, Zenon
<1> QED BY <1>1, <1>2, ScanInvInductive, PTL DEF Spec

\* pmm_init clears no bit outside the bitmap, provided that no free region is
\* smaller than the rounding of its ends.
THEOREM BitmapNotOverrun ==
  ASSUME NoSlivers
  PROVE  Spec => []ClampedToMemory
<1>1. CountInv => ClampedToMemory
  BY Zenon DEF CountInv, ClampedToMemory
<1> QED BY <1>1, CountInvHolds, PTL

\* free_pages, used_pages and total_pages of the allocator agree with its
\* bitmap and with the pages callers hold, under the same proviso.
THEOREM CountersBalance ==
  ASSUME NoSlivers
  PROVE  Spec => []Balanced
<1>1. CountInv => Balanced
  BY Zenon DEF CountInv
<1> QED BY <1>1, CountInvHolds, PTL

\* When pmm_alloc or pmm_alloc_n returns -1, from its counter or after its
\* scan, no run of clear bits of that length exists, under the same proviso.
THEOREM RefusalsAreHonest ==
  ASSUME NoSlivers
  PROVE  Spec => RefusalIsHonest
<1>1. CountInv => CounterRefuses
  BY CounterSaw, Zenon
<1>2. Spec => [](ScanInv /\ CountInv)
  BY CountInvHolds, Zenon
<1>3. ScanInv /\ CountInv /\ CounterRefuses' => [ScanRefuses /\ CounterRefuses']_vars
  BY ScanSaw, Zenon
<1> QED BY <1>1, <1>2, <1>3, PTL DEF RefusalIsHonest
-----------------------------------------------------------------------------
\* A map such as firmware reports: free regions are large enough for the
\* rounding, end a page before the last address, and a full map of them is
\* not longer than total_free can count.
PlainRegions ==
  /\ NoSlivers
  /\ \A e \in Regions : e.type = "MMAP_FREE" =>
       /\ e.base + PAGE_SIZE - 1 < U64 /\ e.base + e.length < U64
       /\ e.length * MMAP_MAX_ENTRIES < U64

\* Rounding down and up to multiples.
LEMMA Floor ==
  ASSUME NEW a \in Nat \ {0}, NEW x \in Nat, NEW q \in Nat
  PROVE  /\ x \div a \in Nat
         /\ q * a <= x <=> q <= x \div a
<1>1. x \div a \in Nat /\ x % a \in 0 .. a - 1 /\ x = a * (x \div a) + (x % a)
  OBVIOUS
<1> DEFINE d == x \div a
           m == x % a
<1>2. d \in Nat /\ m \in 0 .. a - 1 /\ x = a * d + m
  BY <1>1, Zenon
<1> HIDE DEF d, m
<1>3. ASSUME q <= d
      PROVE  q * a <= x
  <2>1. PICK k \in Nat : d = q + k
    <3>1. d - q \in Nat /\ d = q + (d - q)
      BY <1>2, <1>3
    <3> QED BY <3>1, Zenon
  <2>2. a * d = q * a + a * k
    BY <2>1
  <2>3. a * k \in Nat /\ q * a \in Nat
    BY <2>1
  <2> QED BY <1>2, <2>2, <2>3
<1>4. ASSUME ~(q <= d)
      PROVE  ~(q * a <= x)
  <2>1. PICK k \in Nat : q = d + 1 + k
    <3>1. q - d - 1 \in Nat /\ q = d + 1 + (q - d - 1)
      BY <1>2, <1>4
    <3> QED BY <3>1, Zenon
  <2>2. q * a = a * d + a + a * k
    BY <1>2, <2>1
  <2>3. a * k \in Nat /\ q * a \in Nat /\ a * d \in Nat
    BY <1>2, <2>1
  <2> QED BY <1>2, <2>2, <2>3
<1> QED BY <1>1, <1>3, <1>4, Zenon DEF d

LEMMA Ceiling ==
  ASSUME NEW a \in Nat \ {0}, NEW x \in Nat, NEW q \in Nat
  PROVE  /\ (x + a - 1) \div a \in Nat
         /\ x <= q * a <=> (x + a - 1) \div a <= q
<1> DEFINE y == x + a - 1
<1>1. y \in Nat /\ q + 1 \in Nat
  OBVIOUS
<1> DEFINE d == y \div a
<1>2. d \in Nat /\ ((q + 1) * a <= y <=> q + 1 <= d)
  <2> HIDE DEF y
  <2> QED BY <1>1, Floor, Zenon
<1>3. (q + 1) * a = q * a + a /\ q * a \in Nat
  OBVIOUS
<1>4. (q + 1) * a <= y <=> ~(x <= q * a)
  BY <1>3
<1> HIDE DEF y, d
<1>5. x <= q * a <=> d <= q
  BY <1>2, <1>4
<1> QED BY <1>2, <1>5, Zenon DEF y, d

\* What pmm_init takes from a free region: the whole pages between its ends.
LEMMA EntryEnds ==
  ASSUME PlainRegions, NEW e \in Regions, e.type = "MMAP_FREE"
  PROVE  \E b, t \in Nat :
           /\ b = (e.base + PAGE_SIZE - 1) \div PAGE_SIZE
           /\ t = (e.base + e.length) \div PAGE_SIZE
           /\ First(e) = b
           /\ Usable(e) = IF b >= PMM_MAX_PAGES THEN 0
                          ELSE (IF t > PMM_MAX_PAGES THEN PMM_MAX_PAGES ELSE t) - b
           /\ b <= t
<1> DEFINE x == e.base + PAGE_SIZE - 1
           y == e.base + e.length
           b == x \div PAGE_SIZE
           t == y \div PAGE_SIZE
           base == ALIGN_UP(e.base, PAGE_SIZE)
           top == ALIGN_DOWN(y % U64, PAGE_SIZE)
           end == IF top > PHYS_MEM_SIZE THEN PHYS_MEM_SIZE ELSE top
           m == IF t > PMM_MAX_PAGES THEN PMM_MAX_PAGES ELSE t
<1>1. /\ PAGE_SIZE \in Nat \ {0} /\ PMM_MAX_PAGES \in Nat /\ U64 \in Nat /\ PHYS_MEM_SIZE < U64
      /\ e.base \in Nat /\ e.length \in Nat
      /\ PHYS_MEM_SIZE = PAGE_SIZE * PMM_MAX_PAGES /\ PHYS_MEM_SIZE \in Nat
  BY PmmAssumption DEF PHYS_MEM_SIZE
<1>2. x \in Nat /\ y \in Nat /\ x % U64 = x /\ y % U64 = y /\ x < U64 /\ y < U64
  BY <1>1 DEF PlainRegions
<1>3. base = x - (x % PAGE_SIZE) /\ top = y - (y % PAGE_SIZE)
  BY <1>2, Zenon DEF ALIGN_UP, ALIGN_DOWN
<1>4. base <= top
  BY Zenon DEF PlainRegions, NoSlivers
<1>5. First(e) = base \div PAGE_SIZE
  BY Zenon DEF First
<1>6. Usable(e) = IF base >= PHYS_MEM_SIZE THEN 0 ELSE ((end - base) % U64) \div PAGE_SIZE
  BY Zenon DEF Usable
<1> HIDE DEF x, y, base, top
<1>7. /\ b \in Nat /\ base = PAGE_SIZE * b
      /\ t \in Nat /\ top = PAGE_SIZE * t
  BY <1>1, <1>2, <1>3, RoundedDown, Zenon
<1> HIDE DEF b, t
<1>8. First(e) = b
  BY <1>1, <1>5, <1>7, Divides, Zenon
<1>9. b <= t
  BY <1>1, <1>4, <1>7, Scaled, Zenon
<1>10. m \in Nat /\ end = PAGE_SIZE * m
  <2>1. top > PHYS_MEM_SIZE <=> t > PMM_MAX_PAGES
    BY <1>1, <1>7
  <2> QED BY <1>1, <1>7, <2>1, Zenon
<1>11. base >= PHYS_MEM_SIZE <=> b >= PMM_MAX_PAGES
  BY <1>1, <1>7
<1>12. ASSUME ~(b >= PMM_MAX_PAGES)
       PROVE  Usable(e) = m - b
  <2>1. b <= m
    BY <1>1, <1>7, <1>9, <1>12
  <2>2. end < U64 /\ end \in Nat
    <3>1. top < U64 /\ top \in Nat
      BY <1>1, <1>2, <1>3, <1>7
    <3> QED BY <1>1, <3>1, Zenon
  <2> HIDE DEF end, m
  <2>3. end - base = PAGE_SIZE * (m - b) /\ m - b \in Nat
    BY <1>1, <1>7, <1>10, <2>1, Scaled
  <2>4. end - base \in Nat /\ end - base < U64
    <3>1. base \in Nat /\ PAGE_SIZE * (m - b) \in Nat
      BY <1>1, <1>7, <2>3
    <3> QED BY <1>1, <2>2, <2>3, <3>1
  <2>5. (end - base) % U64 = end - base
    BY <1>1, <2>4
  <2>6. (PAGE_SIZE * (m - b)) \div PAGE_SIZE = m - b
    BY <1>1, <2>3, Divides, Zenon
  <2> QED BY <1>6, <1>11, <1>12, <2>3, <2>5, <2>6, Zenon
<1>13. ASSUME b >= PMM_MAX_PAGES
       PROVE  Usable(e) = 0
  BY <1>6, <1>11, <1>13, Zenon
<1>14. Usable(e) = IF b >= PMM_MAX_PAGES THEN 0 ELSE m - b
  BY <1>12, <1>13, Zenon
<1>15. b = (e.base + PAGE_SIZE - 1) \div PAGE_SIZE /\ t = (e.base + e.length) \div PAGE_SIZE
  BY Zenon DEF b, t, x, y
<1> QED BY <1>7, <1>8, <1>9, <1>14, <1>15, Zenon

\* So the pages are those within the region, and they fit in its length.
LEMMA EntryPages ==
  ASSUME PlainRegions, NEW e \in Regions, e.type = "MMAP_FREE"
  PROVE  /\ First(e) .. First(e) + Usable(e) - 1 = {p \in Pages : Within(p, e)}
         /\ Usable(e) * PAGE_SIZE <= e.length
<1>1. /\ PAGE_SIZE \in Nat \ {0} /\ PMM_MAX_PAGES \in Nat
      /\ e.base \in Nat /\ e.length \in Nat
  BY PmmAssumption
<1>2. PICK b, t \in Nat :
           /\ b = (e.base + PAGE_SIZE - 1) \div PAGE_SIZE
           /\ t = (e.base + e.length) \div PAGE_SIZE
           /\ First(e) = b
           /\ Usable(e) = IF b >= PMM_MAX_PAGES THEN 0
                          ELSE (IF t > PMM_MAX_PAGES THEN PMM_MAX_PAGES ELSE t) - b
           /\ b <= t
  BY EntryEnds, Zenon
<1> DEFINE y == e.base + e.length
           u == Usable(e)
<1>3. y \in Nat /\ t = y \div PAGE_SIZE
  BY <1>1, <1>2
<1>4. u \in Nat /\ (u = 0 \/ b + u <= t)
  BY <1>1, <1>2
<1>5. \A p \in Nat : p \in b .. b + u - 1 <=> p < PMM_MAX_PAGES /\ b <= p /\ p + 1 <= t
  BY <1>1, <1>2
<1> HIDE DEF y, u
<1>6. \A q \in Nat : e.base <= q * PAGE_SIZE <=> b <= q
  BY <1>1, <1>2, Ceiling, Zenon
<1>7. \A q \in Nat : q * PAGE_SIZE <= y <=> q <= t
  BY <1>1, <1>3, Floor, Zenon
<1>8. \A p \in Pages : p \in Nat /\ p + 1 \in Nat /\ p < PMM_MAX_PAGES
  BY <1>1 DEF Pages
<1>9. \A p \in Pages : Within(p, e) <=> b <= p /\ p + 1 <= t
  BY <1>6, <1>7, <1>8, Zenon DEF Within, y
<1>10. \A p \in Nat : p < PMM_MAX_PAGES => p \in Pages
  BY <1>1 DEF Pages
<1>11. b .. b + u - 1 \subseteq Nat
  BY <1>2, <1>4
<1>12. b .. b + u - 1 = {p \in Pages : Within(p, e)}
  <2>1. ASSUME NEW p \in b .. b + u - 1
        PROVE  p \in Pages /\ Within(p, e)
    <3>1. p \in Nat
      BY <1>11, Zenon
    <3>2. p < PMM_MAX_PAGES /\ b <= p /\ p + 1 <= t
      BY <1>5, <3>1, Zenon
    <3> QED BY <1>9, <1>10, <3>1, <3>2, Zenon
  <2>2. ASSUME NEW p \in Pages, Within(p, e)
        PROVE  p \in b .. b + u - 1
    BY <1>5, <1>8, <1>9, <2>2, Zenon
  <2> QED BY <2>1, <2>2, Zenon
<1>13. u * PAGE_SIZE <= e.length
  <2>1. CASE u = 0
    BY <1>1, <2>1
  <2>2. CASE u # 0
    <3>1. (b + u) * PAGE_SIZE <= y
      BY <1>2, <1>4, <1>7, <2>2
    <3>2. e.base <= b * PAGE_SIZE
      BY <1>2, <1>6
    <3>3. (b + u) * PAGE_SIZE = b * PAGE_SIZE + u * PAGE_SIZE
      BY <1>1, <1>2, <1>4
    <3>4. b * PAGE_SIZE \in Nat /\ u * PAGE_SIZE \in Nat
      BY <1>1, <1>2, <1>4
    <3> QED BY <1>1, <3>1, <3>2, <3>3, <3>4 DEF y
  <2> QED BY <2>1, <2>2, Zenon
<1> QED BY <1>2, <1>12, <1>13, Zenon DEF u

\* The bytes total_free counts for an entry.
FreeLength(e) == IF e.type = "MMAP_FREE" THEN e.length ELSE 0

\* s[k] is what the first k entries added to total_free, which never wrapped,
\* and pmm_init has not counted more.
Sums(s) ==
  /\ s \in [0 .. Len(mmap.entries) -> Nat]
  /\ s[0] = 0
  /\ \A k \in 1 .. Len(mmap.entries) : s[k] = s[k - 1] + FreeLength(mmap.entries[k])
  /\ s[Len(mmap.entries)] = mmap.total_free
  /\ mmap.total_free * MMAP_MAX_ENTRIES <= Len(mmap.entries) * (U64 - 1)
  /\ pc = "pmm_init" => total_pages * PAGE_SIZE <= s[i]

\* The pages within the first k entries.
Below(k) == {p \in Pages : \E l \in 1 .. k :
               mmap.entries[l].type = "MMAP_FREE" /\ Within(p, mmap.entries[l])}

\* pmm_init has cleared the bits of the entries it has seen, and afterwards
\* pages only move between the bitmap and the callers.
RamInv ==
  /\ pc = "pmm_init" => i \in 0 .. Len(mmap.entries) /\ bits_clear = Below(i)
  /\ pc \notin {"boot", "pmm_init"} =>
       /\ bits_clear \cup held = Below(Len(mmap.entries))
       /\ total_pages * PAGE_SIZE <= mmap.total_free
  /\ pc # "boot" /\ NoOverlap => free_pages = Cardinality(bits_clear)

-----------------------------------------------------------------------------
LEMMA TypesInit ==
  ASSUME Init
  PROVE  TypeOK
<1>1. 0 \in 0 .. U64 - 1
  BY PmmAssumption DEF PHYS_MEM_SIZE
<1>2. << >> \in Seq(Regions) /\ Len(<< >>) = 0
  OBVIOUS
<1> QED BY <1>1, <1>2, PmmAssumption DEF Init, TypeOK

\* The entry mmap_add_entry appends.
LEMMA EntryAdded ==
  ASSUME TypeOK, NEW e \in Regions, mmap_add_entry(e), mmap' # mmap
  PROVE  /\ mmap'.entries = Append(mmap.entries, e)
         /\ mmap'.entries \in Seq(Regions)
         /\ Len(mmap'.entries) = Len(mmap.entries) + 1
         /\ Len(mmap'.entries) <= MMAP_MAX_ENTRIES
         /\ \A k \in 1 .. Len(mmap.entries) : mmap'.entries[k] = mmap.entries[k]
         /\ mmap'.entries[Len(mmap'.entries)] = e
         /\ mmap'.total_free = (mmap.total_free + FreeLength(e)) % U64
<1>1. /\ ~(Len(mmap.entries) >= MMAP_MAX_ENTRIES)
      /\ mmap' = [entries |-> Append(mmap.entries, e),
                  total_free |-> IF e.type = "MMAP_FREE"
                                   THEN (mmap.total_free + e.length) % U64
                                   ELSE mmap.total_free]
  BY Zenon DEF mmap_add_entry
<1> DEFINE q == mmap.entries
           l == Len(q)
<1>2. q \in Seq(Regions) /\ l \in Nat
  BY DEF TypeOK
<1>3. mmap'.entries = Append(q, e)
  BY <1>1, Zenon
<1>4. /\ mmap.total_free \in 0 .. U64 - 1 /\ U64 \in Nat /\ MMAP_MAX_ENTRIES \in Nat
  BY PmmAssumption, Zenon DEF TypeOK
<1>5. mmap'.total_free = (mmap.total_free + FreeLength(e)) % U64
  <2>1. mmap.total_free % U64 = mmap.total_free /\ mmap.total_free + 0 = mmap.total_free
    BY <1>4
  <2>2. CASE e.type = "MMAP_FREE"
    BY <1>1, <2>2, Zenon DEF FreeLength
  <2>3. CASE e.type # "MMAP_FREE"
    BY <1>1, <2>1, <2>3, Zenon DEF FreeLength
  <2> QED BY <2>2, <2>3, Zenon
<1>6. /\ Append(q, e) \in Seq(Regions) /\ Len(Append(q, e)) = l + 1
      /\ \A k \in 1 .. l : Append(q, e)[k] = q[k]
      /\ Append(q, e)[l + 1] = e
  <2> HIDE DEF q
  <2> QED BY <1>2
<1>7. ~(l >= MMAP_MAX_ENTRIES)
  BY <1>1, Zenon
<1> HIDE DEF q, l
<1>8. l + 1 <= MMAP_MAX_ENTRIES
  BY <1>2, <1>4, <1>7
<1> QED BY <1>3, <1>5, <1>6, <1>8, Zenon DEF q, l

LEMMA TypesInductive ==
  ASSUME TypeOK, ScanInv, CountInv, ScanInv', CountInv', [Next]_vars
  PROVE  TypeOK'
<1>1. /\ free_pages' \in Nat /\ used_pages' \in Nat /\ total_pages' \in Nat
      /\ bits_clear' \subseteq Pages /\ held' \subseteq Pages
  <2>1. bits_clear' \subseteq Pages /\ held' \subseteq Pages /\ Balanced'
    BY Zenon DEF ScanInv, CountInv
  <2>2. Cardinality(bits_clear') \in Nat /\ Cardinality(held') \in Nat
    BY <2>1, PagesFinite, Zenon
  <2> QED BY <2>1, <2>2 DEF Balanced
<1> DEFINE Map == /\ mmap.entries \in Seq(Regions) /\ Len(mmap.entries) <= MMAP_MAX_ENTRIES
                  /\ mmap.total_free \in 0 .. U64 - 1
           Locals == /\ dirty \subseteq Pages
                     /\ pc \in {"boot", "pmm_init", "idle", "pmm_alloc", "pmm_alloc_n"}
                     /\ n \in Nat /\ run \in Nat /\ start \in Nat /\ i \in Nat
<1>2. Map /\ Locals
  BY Zenon DEF TypeOK
<1>3. Map'
  <2>1. CASE mmap' = mmap
    BY <1>2, <2>1, Zenon
  <2>2. CASE mmap' # mmap
    <3>1. PICK e \in Regions : mmap_add_entry(e)
      BY <2>2, Zenon DEF Next, vars, Scan, pmm_init, InitEntry, InitDone, pmm_alloc, AllocEmpty, AllocUsed,
                  AllocFound, AllocNone, pmm_alloc_n, AllocNShort, AllocNUsed, AllocNFree, AllocNFound,
                  AllocNNone, Allocate, GiveUp, pmm_free, pmm_free_n, Write
    <3>2. U64 \in Nat \ {0} /\ mmap.total_free \in Nat /\ FreeLength(e) \in Nat
      BY PmmAssumption DEF TypeOK, FreeLength, PHYS_MEM_SIZE
    <3>3. (mmap.total_free + FreeLength(e)) % U64 \in 0 .. U64 - 1
      BY <3>2
    <3>4. mmap'.total_free = (mmap.total_free + FreeLength(e)) % U64
      BY <2>2, <3>1, EntryAdded, Zenon
    <3> QED BY <2>2, <3>1, <3>3, <3>4, EntryAdded, Zenon
  <2> QED BY <2>1, <2>2, Zenon
<1>4. Locals'
  <2>1. CASE UNCHANGED vars
    BY <1>2, <2>1, Zenon DEF vars
  <2>2. CASE \/ \E e \in Regions : mmap_add_entry(e)
             \/ pmm_init \/ pmm_alloc \/ AllocEmpty
             \/ \E count \in Counts : pmm_alloc_n(count) \/ AllocNShort(count)
    BY <1>2, <2>2, PmmAssumption DEF mmap_add_entry, pmm_init, pmm_alloc, AllocEmpty, pmm_alloc_n,
                                     AllocNShort, vars
  <2>3. CASE InitEntry \/ InitDone \/ AllocUsed \/ AllocNUsed
    BY <1>2, <2>3 DEF InitEntry, InitDone, AllocUsed, AllocNUsed
  <2>4. CASE AllocNFree
    BY <1>2, <2>4 DEF AllocNFree, RunStart
  <2>5. CASE AllocFound
    BY <1>2, <2>5, Zenon DEF AllocFound, Allocate
  <2>6. CASE AllocNFound
    BY <1>2, <2>6, Zenon DEF AllocNFound, Allocate
  <2>7. CASE AllocNone \/ AllocNNone
    BY <1>2, <2>7 DEF AllocNone, AllocNNone, GiveUp
  <2>8. ASSUME NEW addr, pmm_free(addr)
        PROVE  Locals'
    BY <1>2, <2>8, Zenon DEF pmm_free
  <2>9. ASSUME NEW page, NEW count, pmm_free_n(page, count)
        PROVE  Locals'
    BY <1>2, <2>9, Zenon DEF pmm_free_n
  <2>10. ASSUME NEW page \in held, Write(page)
         PROVE  Locals'
    BY <1>2, <2>10, Zenon DEF Write, ScanInv
  <2> QED BY <2>1, <2>2, <2>3, <2>4, <2>5, <2>6, <2>7, <2>8, <2>9, <2>10, Zenon DEF Next, Scan
<1> QED BY <1>1, <1>3, <1>4, Zenon DEF TypeOK

\* An entry of the map, while pmm_init goes through it.
LEMMA EntrySeen ==
  ASSUME PlainRegions, TypeOK, RamInv, pc = "pmm_init", i < Len(mmap.entries)
  PROVE  LET e == mmap.entries[i + 1]
             S == {First(e) + p : p \in 0 .. Usable(e) - 1}
         IN  /\ e \in Regions
             /\ Usable(e) \in Nat /\ Usable(e) * PAGE_SIZE <= FreeLength(e)
             /\ IsFiniteSet(S) /\ Cardinality(S) = Usable(e)
             /\ Below(i + 1) = Below(i) \cup S
             /\ NoOverlap => Below(i) \cap S = {}
<1> DEFINE e == mmap.entries[i + 1]
           S == {First(e) + p : p \in 0 .. Usable(e) - 1}
           In(k) == {p \in Pages : /\ mmap.entries[k].type = "MMAP_FREE"
                                   /\ Within(p, mmap.entries[k])}
<1>1. i \in Nat /\ i + 1 \in 1 .. Len(mmap.entries) /\ mmap.entries \in Seq(Regions)
  BY DEF TypeOK
<1>2. e \in Regions
  BY <1>1
<1>3. In(i + 1) = {p \in Pages : e.type = "MMAP_FREE" /\ Within(p, e)}
  BY Zenon
<1> HIDE DEF e
<1>4. NoSlivers
  BY Zenon DEF PlainRegions
<1>5. /\ First(e) \in Nat /\ Usable(e) \in Nat
      /\ S = First(e) .. First(e) + Usable(e) - 1
  BY <1>2, <1>4, EntryInBitmap, Zenon
<1>6. IsFiniteSet(S) /\ Cardinality(S) = Usable(e)
  BY <1>5, IntervalSize, Zenon
<1>7. S = In(i + 1) /\ Usable(e) * PAGE_SIZE <= FreeLength(e)
  <2>1. CASE e.type = "MMAP_FREE"
    <3>1. /\ First(e) .. First(e) + Usable(e) - 1 = {p \in Pages : Within(p, e)}
          /\ Usable(e) * PAGE_SIZE <= e.length
      BY <1>2, <2>1, EntryPages, Zenon
    <3> QED BY <1>3, <1>5, <2>1, <3>1, Zenon DEF FreeLength
  <2>2. CASE e.type # "MMAP_FREE"
    <3>1. Usable(e) = 0
      BY <2>2, Zenon DEF Usable
    <3>2. S = {} /\ In(i + 1) = {}
      BY <1>3, <2>2, <3>1
    <3> QED BY <2>2, <3>1, <3>2, PmmAssumption DEF FreeLength
  <2> QED BY <2>1, <2>2, Zenon
<1> HIDE DEF S
<1>8. Below(i + 1) = Below(i) \cup S
  <2>1. 1 .. i + 1 = (1 .. i) \cup {i + 1}
    BY <1>1
  <2> QED BY <1>7, <2>1, Zenon DEF Below
<1>9. ASSUME NoOverlap
      PROVE  Below(i) \cap S = {}
  <2> SUFFICES ASSUME NEW p \in Below(i), p \in In(i + 1)
               PROVE  FALSE
    BY <1>7, Zenon
  <2>1. PICK l \in 1 .. i : mmap.entries[l].type = "MMAP_FREE" /\ Within(p, mmap.entries[l])
    BY Zenon DEF Below
  <2>2. l \in DOMAIN mmap.entries /\ i + 1 \in DOMAIN mmap.entries /\ l # i + 1 /\ p \in Pages
    BY <1>1 DEF Below
  <2> QED BY <1>9, <2>1, <2>2, Zenon DEF NoOverlap
<1> QED BY <1>2, <1>5, <1>6, <1>7, <1>8, <1>9, Zenon DEF e, S

\* pmm_init sees one more entry.
LEMMA EntryKeeps ==
  ASSUME PlainRegions, TypeOK, CountInv, RamInv, NEW s, Sums(s), InitEntry
  PROVE  RamInv' /\ Sums(s)'
<1> DEFINE e == mmap.entries[i + 1]
           S == {First(e) + p : p \in 0 .. Usable(e) - 1}
<1>1. /\ pc = "pmm_init" /\ pc' = "pmm_init" /\ i < Len(mmap.entries) /\ i' = i + 1
      /\ bits_clear' = bits_clear \cup S
      /\ free_pages' = free_pages + Usable(e) /\ total_pages' = total_pages + Usable(e)
      /\ mmap' = mmap
  BY Zenon DEF InitEntry
<1>2. /\ e \in Regions
      /\ Usable(e) \in Nat /\ Usable(e) * PAGE_SIZE <= FreeLength(e)
      /\ IsFiniteSet(S) /\ Cardinality(S) = Usable(e)
      /\ Below(i + 1) = Below(i) \cup S
      /\ NoOverlap => Below(i) \cap S = {}
  BY <1>1, EntrySeen, Zenon
<1>3. /\ i \in Nat /\ i + 1 \in 1 .. Len(mmap.entries) /\ i + 1 \in 0 .. Len(mmap.entries)
      /\ total_pages \in Nat /\ Len(mmap.entries) \in Nat
  BY <1>1 DEF TypeOK
<1> DEFINE u == Usable(e)
<1>4. u \in Nat /\ u * PAGE_SIZE <= FreeLength(e) /\ FreeLength(e) \in Nat
  BY <1>2, PmmAssumption DEF FreeLength
<1>5. bits_clear = Below(i) /\ (NoOverlap => free_pages = Cardinality(bits_clear))
  BY <1>1, Zenon DEF RamInv
<1>6. s[i + 1] = s[i] + FreeLength(e) /\ s[i] \in Nat /\ total_pages * PAGE_SIZE <= s[i]
  <2>1. s[i + 1] = s[(i + 1) - 1] + FreeLength(mmap.entries[i + 1]) /\ i \in 0 .. Len(mmap.entries)
    BY <1>3 DEF Sums
  <2>2. (i + 1) - 1 = i
    BY <1>3
  <2> QED BY <1>1, <2>1, <2>2, Zenon DEF Sums
<1>7. Below(i)' = Below(i + 1)
  BY <1>1, Zenon DEF Below
<1>8. NoOverlap' = NoOverlap
  BY <1>1, Zenon DEF NoOverlap
<1> HIDE DEF e, S, u
<1>9. (total_pages * PAGE_SIZE)' <= s[i + 1]
  <2>1. total_pages' = total_pages + u
    BY <1>1, Zenon DEF u
  <2>2. (total_pages + u) * PAGE_SIZE = total_pages * PAGE_SIZE + u * PAGE_SIZE
    BY <1>3, <1>4, PmmAssumption
  <2>3. total_pages * PAGE_SIZE \in Nat /\ u * PAGE_SIZE \in Nat
    BY <1>3, <1>4, PmmAssumption
  <2>4. total_pages * PAGE_SIZE + u * PAGE_SIZE <= s[i + 1]
    BY <1>4, <1>6, <2>3
  <2> QED BY <2>1, <2>2, <2>4, Zenon
<1>10. Sums(s)'
  BY <1>1, <1>9, Zenon DEF Sums
<1>11. ASSUME NoOverlap
       PROVE  free_pages' = Cardinality(bits_clear')
  <2>1. IsFiniteSet(bits_clear) /\ Cardinality(bits_clear) \in Nat
    BY PagesFinite, Zenon DEF CountInv
  <2>2. Cardinality(bits_clear \cap S) = 0
    <3>1. bits_clear \cap S = {}
      BY <1>2, <1>5, <1>11, Zenon
    <3> QED BY <3>1, FS_EmptySet, Zenon
  <2>3. Cardinality(bits_clear \cup S) =
          Cardinality(bits_clear) + Cardinality(S) - Cardinality(bits_clear \cap S)
    BY <1>2, <2>1, FS_Union, Zenon
  <2> QED BY <1>1, <1>2, <1>5, <1>11, <2>1, <2>2, <2>3
<1>12. RamInv'
  <2>1. bits_clear' = Below(i + 1)
    BY <1>1, <1>2, <1>5, Zenon
  <2>2. (bits_clear = Below(i))'
    BY <1>7, <2>1, Zenon
  <2>3. i' \in 0 .. Len(mmap'.entries)
    BY <1>1, <1>3, Zenon
  <2> QED BY <1>1, <1>8, <1>11, <2>2, <2>3, Zenon DEF RamInv
<1> QED BY <1>10, <1>12, Zenon

\* mmap_add_entry never wraps total_free.
LEMMA MapGrows ==
  ASSUME PlainRegions, TypeOK, NEW s, Sums(s), NEW e \in Regions, mmap_add_entry(e), mmap' # mmap
  PROVE  \E r : Sums(r)'
<1> DEFINE l == Len(mmap.entries)
           x == mmap.total_free
           f == FreeLength(e)
           M == MMAP_MAX_ENTRIES
           r == [k \in 0 .. l + 1 |-> IF k = l + 1 THEN s[l] + f ELSE s[k]]
<1>1. /\ Len(mmap'.entries) = l + 1 /\ l + 1 <= M
      /\ \A k \in 1 .. l : mmap'.entries[k] = mmap.entries[k]
      /\ mmap'.entries[l + 1] = e
      /\ mmap'.total_free = (x + f) % U64
      /\ pc' = "boot"
  BY EntryAdded, Zenon DEF mmap_add_entry
<1>2. /\ l \in Nat /\ x \in Nat /\ M \in Nat /\ U64 \in Nat \ {0} /\ f \in Nat
      /\ x * M <= l * (U64 - 1)
  BY PmmAssumption DEF TypeOK, Sums, FreeLength, PHYS_MEM_SIZE
<1>3. f * M <= U64 - 1
  <2>1. CASE e.type = "MMAP_FREE"
    BY <1>2, <2>1 DEF PlainRegions, FreeLength
  <2>2. CASE e.type # "MMAP_FREE"
    <3>1. f = 0
      BY <2>2, Zenon DEF FreeLength
    <3> QED BY <1>2, <3>1
  <2> QED BY <2>1, <2>2, Zenon
<1>4. /\ s \in [0 .. l -> Nat] /\ s[0] = 0 /\ s[l] = x
      /\ \A k \in 1 .. l : s[k] = s[k - 1] + FreeLength(mmap.entries[k])
  BY Zenon DEF Sums
<1> HIDE DEF l, x, f, M
<1>5. (x + f) * M <= (l + 1) * (U64 - 1)
  <2>1. (x + f) * M = x * M + f * M /\ (l + 1) * (U64 - 1) = l * (U64 - 1) + (U64 - 1)
    BY <1>2
  <2>2. x * M \in Nat /\ f * M \in Nat /\ l * (U64 - 1) \in Nat
    BY <1>2
  <2> QED BY <1>2, <1>3, <2>1, <2>2
<1>6. (x + f) % U64 = x + f
  <2> DEFINE y == x + f
             v == U64 - 1
  <2>1. y \in Nat /\ v \in Nat /\ y * M <= (l + 1) * v
    BY <1>2, <1>5
  <2> HIDE DEF y, v
  <2>2. (l + 1) * v <= M * v
    <3>1. PICK k \in Nat : M = l + 1 + k
      <4>1. M - (l + 1) \in Nat /\ M = l + 1 + (M - (l + 1))
        BY <1>1, <1>2
      <4> QED BY <4>1, Zenon
    <3>2. M * v = (l + 1) * v + k * v /\ k * v \in Nat /\ (l + 1) * v \in Nat
      BY <1>2, <2>1, <3>1
    <3> QED BY <3>2
  <2>3. M * y <= M * v
    <3>1. y * M = M * y /\ y * M \in Nat /\ (l + 1) * v \in Nat /\ M * v \in Nat
      BY <1>2, <2>1
    <3> QED BY <2>1, <2>2, <3>1
  <2>4. M \in Nat \ {0}
    BY <1>1, <1>2
  <2>5. y <= v
    BY <2>1, <2>3, <2>4, Scaled, Zenon
  <2> QED BY <1>2, <2>5 DEF y, v
<1>7. r \in [0 .. l + 1 -> Nat] /\ r[0] = 0 /\ r[l + 1] = x + f
  BY <1>2, <1>4
<1>8. ASSUME NEW k \in 1 .. l + 1
      PROVE  r[k] = r[k - 1] + FreeLength(mmap'.entries[k])
  <2>1. CASE k = l + 1
    <3>1. k - 1 = l /\ r[l] = s[l]
      BY <1>2, <2>1
    <3>2. r[k] = s[l] + f /\ mmap'.entries[k] = e
      BY <1>1, <2>1
    <3> QED BY <3>1, <3>2, Zenon DEF f
  <2>2. CASE k # l + 1
    <3>1. k \in 1 .. l /\ k - 1 \in 0 .. l /\ k - 1 # l + 1 /\ k \in 0 .. l + 1 /\ k - 1 \in 0 .. l + 1
      BY <1>2, <2>2
    <3>2. r[k] = s[k] /\ r[k - 1] = s[k - 1]
      BY <2>2, <3>1, Zenon
    <3> HIDE DEF r
    <3> QED BY <1>1, <1>4, <3>1, <3>2, Zenon
  <2> QED BY <2>1, <2>2, Zenon
<1> HIDE DEF r
<1>9. PICK q : q = r
  BY Zenon
<1>10. /\ q \in [0 .. l + 1 -> Nat] /\ q[0] = 0 /\ q[l + 1] = x + f
       /\ \A k \in 1 .. l + 1 : q[k] = q[k - 1] + FreeLength(mmap'.entries[k])
  BY <1>7, <1>8, <1>9, Zenon
<1>11. Sums(q)'
  BY <1>1, <1>5, <1>6, <1>10, Zenon DEF Sums, M
<1> QED BY <1>11, Zenon

\* Pages only move between the bitmap and the callers.
LEMMA RamMoves ==
  ASSUME RamInv, CountInv, CountInv',
         mmap' = mmap, total_pages' = total_pages,
         pc \notin {"boot", "pmm_init"}, pc' \notin {"boot", "pmm_init"},
         bits_clear' \cup held' = bits_clear \cup held,
         free_pages' - Cardinality(bits_clear') = free_pages - Cardinality(bits_clear)
  PROVE  RamInv' /\ \A s : Sums(s) => Sums(s)'
<1>1. /\ bits_clear \cup held = Below(Len(mmap.entries))
      /\ total_pages * PAGE_SIZE <= mmap.total_free
      /\ NoOverlap => free_pages = Cardinality(bits_clear)
  BY Zenon DEF RamInv
<1>2. Below(Len(mmap.entries))' = Below(Len(mmap.entries))
  BY Zenon DEF Below
<1>3. NoOverlap' = NoOverlap
  BY Zenon DEF NoOverlap
<1>4. Cardinality(bits_clear) \in Nat /\ Cardinality(bits_clear') \in Nat
  BY PagesFinite, Zenon DEF CountInv
<1>5. free_pages \in Int /\ free_pages' \in Int
  BY Zenon DEF CountInv, Balanced
<1>6. NoOverlap => free_pages' = Cardinality(bits_clear')
  BY <1>1, <1>4, <1>5
<1>7. RamInv'
  BY <1>1, <1>2, <1>3, <1>6, Zenon DEF RamInv
<1>8. ASSUME NEW s, Sums(s)
      PROVE  Sums(s)'
  BY <1>8, Zenon DEF Sums
<1> QED BY <1>7, <1>8, Zenon

LEMMA RamInductive ==
  ASSUME PlainRegions, TypeOK, ScanInv, CountInv, CountInv', RamInv, NEW s, Sums(s), [Next]_vars
  PROVE  RamInv' /\ \E r : Sums(r)'
<1>1. CASE UNCHANGED vars
  <2>1. RamInv'
    BY <1>1, Zenon DEF vars, RamInv, Below, NoOverlap
  <2>2. Sums(s)'
    BY <1>1, Zenon DEF vars, Sums
  <2> QED BY <2>1, <2>2, Zenon
<1>2. ASSUME NEW e \in Regions, mmap_add_entry(e)
      PROVE  RamInv' /\ \E r : Sums(r)'
  <2>1. pc = "boot" /\ pc' = "boot"
    BY <1>2, Zenon DEF mmap_add_entry
  <2>2. RamInv'
    BY <2>1, Zenon DEF RamInv
  <2>3. CASE mmap' = mmap
    <3>1. Sums(s)'
      BY <2>1, <2>3, Zenon DEF Sums
    <3> QED BY <2>2, <3>1, Zenon
  <2>4. CASE mmap' # mmap
    BY <1>2, <2>2, <2>4, MapGrows, Zenon
  <2> QED BY <2>3, <2>4, Zenon
<1>3. CASE pmm_init
  <2>1. /\ pc' = "pmm_init" /\ i' = 0 /\ bits_clear' = {} /\ mmap' = mmap
        /\ total_pages' = 0 /\ free_pages' = 0 /\ Cardinality({}) = 0
    BY <1>3, FS_EmptySet, Zenon DEF pmm_init
  <2>2. Len(mmap.entries) \in Nat /\ 0 \in 0 .. Len(mmap.entries)
    BY DEF TypeOK
  <2>3. Below(i)' = {}
    <3>1. 1 .. 0 = {}
      OBVIOUS
    <3> QED BY <2>1, <3>1, Zenon DEF Below
  <2>4. RamInv'
    BY <2>1, <2>2, <2>3, Zenon DEF RamInv
  <2>5. (total_pages * PAGE_SIZE <= s[i])'
    <3>1. 0 * PAGE_SIZE = 0 /\ s[0] = 0
      BY PmmAssumption DEF Sums
    <3> QED BY <2>1, <3>1
  <2>6. Sums(s)'
    BY <2>1, <2>5, Zenon DEF Sums
  <2> QED BY <2>4, <2>6, Zenon
<1>4. CASE InitEntry
  BY <1>4, EntryKeeps, Zenon
<1>5. CASE InitDone
  <2>1. /\ pc = "pmm_init" /\ pc' = "idle" /\ i = Len(mmap.entries) /\ held = {}
        /\ UNCHANGED <<mmap, bits_clear, total_pages, free_pages, held>>
    BY <1>5, Zenon DEF InitDone, ScanInv
  <2>2. Sums(s)'
    BY <2>1, Zenon DEF Sums
  <2>3. total_pages * PAGE_SIZE <= mmap.total_free
    BY <2>1, Zenon DEF Sums
  <2>4. bits_clear = Below(Len(mmap.entries)) /\ (NoOverlap => free_pages = Cardinality(bits_clear))
    BY <2>1, Zenon DEF RamInv
  <2>5. NoOverlap' = NoOverlap /\ Below(Len(mmap.entries))' = Below(Len(mmap.entries))
    BY <2>1, Zenon DEF NoOverlap, Below
  <2>6. RamInv'
    BY <2>1, <2>3, <2>4, <2>5, Zenon DEF RamInv
  <2> QED BY <2>2, <2>6, Zenon
<1>6. CASE \/ pmm_alloc \/ AllocUsed \/ AllocNUsed \/ AllocNFree \/ AllocNone \/ AllocNNone
           \/ \E count \in Counts : pmm_alloc_n(count)
           \/ \E page \in held : Write(page)
  <2>1. /\ UNCHANGED <<mmap, total_pages, bits_clear, held, free_pages>>
        /\ pc \notin {"boot", "pmm_init"} /\ pc' \notin {"boot", "pmm_init"}
    BY <1>6, Zenon DEF pmm_alloc, AllocUsed, AllocNUsed, AllocNFree, AllocNone, AllocNNone, GiveUp,
                pmm_alloc_n, Write
  <2> QED BY <2>1, RamMoves, Zenon
<1>7. CASE AllocFound \/ AllocNFound
  <2>1. PICK p \in Pages : \E count \in Nat \ {0} :
          /\ Allocate(p .. p + count - 1, count)
          /\ p .. p + count - 1 \subseteq bits_clear
    BY <1>7, Found, Zenon
  <2>2. PICK count \in Nat \ {0} :
          /\ Allocate(p .. p + count - 1, count)
          /\ p .. p + count - 1 \subseteq bits_clear
    BY <2>1, Zenon
  <2>3. p \in Nat
    BY PmmAssumption DEF Pages
  <2>4. free_pages' - Cardinality(bits_clear') = free_pages - Cardinality(bits_clear)
    BY <2>2, <2>3, MovesOut, Zenon
  <2>5. pc \notin {"boot", "pmm_init"}
    BY <1>7, Zenon DEF AllocFound, AllocNFound
  <2>6. /\ UNCHANGED <<mmap, total_pages>> /\ pc' = "idle"
        /\ bits_clear' \cup held' = bits_clear \cup held
    BY <2>2, Zenon DEF Allocate
  <2> QED BY <2>4, <2>5, <2>6, RamMoves, Zenon
<1>8. ASSUME NEW addr \in 0 .. PHYS_MEM_SIZE, CallersFree(addr), pmm_free(addr)
      PROVE  RamInv' /\ \E r : Sums(r)'
  <2>1. pc = "idle" /\ UNCHANGED <<mmap, total_pages, pc>>
    BY <1>8, Zenon DEF pmm_free
  <2>2. CASE ~ Freeable(addr)
    <3>1. UNCHANGED <<bits_clear, held, free_pages>>
      BY <1>8, <2>2, Zenon DEF pmm_free
    <3> QED BY <2>1, <3>1, RamMoves, Zenon
  <2>3. CASE Freeable(addr)
    <3> DEFINE page == addr \div PAGE_SIZE
    <3>1. page \in held /\ page \notin bits_clear
      BY <1>8, <2>3, Zenon DEF Freeable, CallersFree
    <3>2. /\ bits_clear' = bits_clear \cup {page} /\ held' = held \ {page}
          /\ free_pages' = free_pages + 1 /\ used_pages' = used_pages - 1
          /\ total_pages' = total_pages
      BY <1>8, <2>3, Zenon DEF pmm_free
    <3> HIDE DEF page
    <3>3. IsFiniteSet({page}) /\ Cardinality({page}) = 1
      BY FS_Singleton, Zenon
    <3>4. free_pages' - Cardinality(bits_clear') = free_pages - Cardinality(bits_clear)
      BY <3>1, <3>2, <3>3, MovesIn, Zenon
    <3>5. bits_clear' \cup held' = bits_clear \cup held
      BY <3>1, <3>2, Zenon
    <3> QED BY <2>1, <3>4, <3>5, RamMoves, Zenon
  <2> QED BY <2>2, <2>3, Zenon
<1>9. ASSUME NEW page \in held, NEW count \in Counts, pmm_free_n(page, count)
      PROVE  RamInv' /\ \E r : Sums(r)'
  <2> DEFINE S == page .. page + count - 1
  <2>1. page \in Nat /\ count \in Nat
    BY PmmAssumption DEF ScanInv, Pages
  <2>2. IsFiniteSet(S) /\ Cardinality(S) = count
    BY <2>1, IntervalSize, Zenon
  <2>3. /\ S \subseteq held /\ bits_clear' = bits_clear \cup S /\ held' = held \ S
        /\ free_pages' = free_pages + count /\ used_pages' = used_pages - count
        /\ UNCHANGED <<mmap, total_pages, pc>> /\ pc = "idle"
    BY <1>9, Zenon DEF pmm_free_n
  <2> HIDE DEF S
  <2>4. S \cap bits_clear = {}
    BY <2>3, Zenon DEF ScanInv
  <2>5. free_pages' - Cardinality(bits_clear') = free_pages - Cardinality(bits_clear)
    BY <2>1, <2>2, <2>3, <2>4, MovesIn, Zenon
  <2>6. bits_clear' \cup held' = bits_clear \cup held
    BY <2>3, Zenon
  <2> QED BY <2>3, <2>5, <2>6, RamMoves, Zenon
<1>10. CASE AllocEmpty \/ \E count \in Counts : AllocNShort(count)
  BY <1>1, <1>10, Zenon DEF AllocEmpty, AllocNShort
<1> QED BY <1>1, <1>2, <1>3, <1>4, <1>5, <1>6, <1>7, <1>8, <1>9, <1>10, Zenon DEF Next, Scan

\* The map, the bitmap, the counters and the callers' pages together.
AccountInv == TypeOK /\ ScanInv /\ CountInv /\ RamInv /\ \E s : Sums(s)

LEMMA AccountInit ==
  ASSUME Init
  PROVE  AccountInv
<1>1. TypeOK /\ ScanInv /\ CountInv
  BY TypesInit, ScanInit, CountInit, Zenon
<1>2. RamInv
  BY Zenon DEF Init, RamInv
<1> DEFINE s == [k \in 0 .. 0 |-> 0]
<1>3. Len(mmap.entries) = 0 /\ mmap.total_free = 0 /\ pc = "boot"
  BY Zenon DEF Init
<1>4. 0 * MMAP_MAX_ENTRIES <= 0 * (U64 - 1)
  BY PmmAssumption
<1>5. Sums(s)
  BY <1>3, <1>4 DEF Sums
<1> QED BY <1>1, <1>2, <1>5, Zenon DEF AccountInv

\* In every state after pmm_init each page inside a free region of the memory
\* map, and no other, is either clear in the bitmap or held by one caller;
\* free_pages counts the clear bits, exactly when no page was reported twice,
\* used_pages the pages held; and the pages never add up to more than
\* total_free.  The regions are such as firmware reports.
THEOREM PagesAreAccounted ==
  ASSUME PlainRegions
  PROVE  Spec => []PageAccounting
<1>1. Init => AccountInv
  BY AccountInit, Zenon
<1>2. AccountInv /\ [Next]_vars => AccountInv'
  <2> SUFFICES ASSUME AccountInv, [Next]_vars
               PROVE  AccountInv'
    BY Zenon
  <2>1. TypeOK /\ ScanInv /\ CountInv /\ RamInv
    BY Zenon DEF AccountInv
  <2>2. PICK s : Sums(s)
    BY Zenon DEF AccountInv
  <2>3. ScanInv' /\ CountInv'
    BY <2>1, ScanInvInductive, CountInvInductive, Zenon DEF PlainRegions
  <2>4. TypeOK'
    BY <2>1, <2>3, TypesInductive, Zenon
  <2>5. RamInv' /\ \E r : Sums(r)'
    BY <2>1, <2>2, <2>3, RamInductive, Zenon
  <2> QED BY <2>3, <2>4, <2>5, Zenon DEF AccountInv
<1>3. AccountInv => PageAccounting
  <2> SUFFICES ASSUME AccountInv, pc \notin {"boot", "pmm_init"}
               PROVE  PageAccounting
    BY Zenon DEF AccountInv, PageAccounting
  <2>1. TypeOK /\ ScanInv /\ CountInv /\ RamInv
    BY Zenon DEF AccountInv
  <2>2. DOMAIN mmap.entries = 1 .. Len(mmap.entries)
    BY <2>1 DEF TypeOK
  <2>3. bits_clear \cup held = Ram
    BY <2>1, <2>2, Zenon DEF RamInv, Below, Ram
  <2>4. bits_clear \cap held = {}
    BY <2>1, Zenon DEF ScanInv
  <2> QED BY <2>1, <2>3, <2>4, Zenon DEF PageAccounting, RamInv, CountInv, Balanced
<1> QED BY <1>1, <1>2, <1>3, PTL DEF Spec
=============================================================================
