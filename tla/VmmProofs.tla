----------------------------- MODULE VmmProofs -----------------------------
(***************************************************************************)
(* The page tables of vmm.c, for every number of entries and pages and     *)
(* every set of requests: they stay a tree, the count of mapped pages is   *)
(* right, a call that succeeds has mapped its range, and the tables        *)
(* implement the abstract address space.                                   *)
(*                                                                         *)
(* The inductive invariant gives every table a place, its level and the    *)
(* indices that lead to it.  No two tables share a place, so an address    *)
(* has one walk, and what a step does to one entry it does to one virtual  *)
(* page.                                                                   *)
(***************************************************************************)
EXTENDS Vmm, FiniteSetTheorems, FunctionTheorems, TLAPS

\* The leaves that name no prover are left to the SMT solver.
USE SMTT(30)

\* The indices of va above level l as one number, and the virtual page they
\* and the index at level 1 make.
Prefix(va, l) ==
  IF l = 4 THEN 0
  ELSE IF l = 3 THEN IndexAt(va, 4)
  ELSE IF l = 2 THEN IndexAt(va, 4) * Entries + IndexAt(va, 3)
  ELSE (IndexAt(va, 4) * Entries + IndexAt(va, 3)) * Entries + IndexAt(va, 2)

VPageOf(va) == Prefix(va, 1) * Entries + IndexAt(va, 1)

\* Every table has one place: its level, and the indices that lead to it.
Places(lev, pre) ==
  /\ lev \in [DOMAIN tables -> 1 .. 4] /\ pre \in [DOMAIN tables -> Nat]
  /\ pml4 = NULL => DOMAIN tables = {}
  /\ \A t \in DOMAIN tables : lev[t] = 4 <=> t = pml4
  /\ pml4 # NULL => pre[pml4] = 0
  /\ \A t \in DOMAIN tables, x \in Index :
       lev[t] > 1 /\ tables[t][x] # Absent =>
         /\ tables[t][x].page \in DOMAIN tables
         /\ lev[tables[t][x].page] = lev[t] - 1
         /\ pre[tables[t][x].page] = pre[t] * Entries + x
  /\ \A c \in DOMAIN tables : lev[c] < 4 =>
       \E t \in DOMAIN tables, x \in Index :
         lev[t] = lev[c] + 1 /\ tables[t][x] # Absent /\ tables[t][x].page = c
  /\ \A t, u \in DOMAIN tables : lev[t] = lev[u] /\ pre[t] = pre[u] => t = u

\* The walk of a mapping call is at the place its address leads to.
AtPlace(lev, pre) ==
  pc = "map" => /\ level \in 1 .. 4 /\ table \in DOMAIN tables
                /\ lev[table] = level /\ pre[table] = Prefix(VirtAt(i), level)

Request == [virt : Nat, phys : Nat, flags : Flags \cup {"none"}, pages : Nat, ranged : BOOLEAN]

\* The call in progress.
CallInv ==
  /\ req \in Request
  /\ pc = "boot" => pml4 = NULL
  /\ pc \in {"map", "unmap"} =>
       req.virt \in Virts /\ req.pages \in Counts /\ i < req.pages
  /\ pc = "map" => pml4 # NULL /\ req.phys \in Physs /\ req.flags \in Flags
  /\ pc \notin {"map", "unmap"} => req = NoRequest /\ i = 0

\* Every page is a table, free, or another caller's.
PagesInv ==
  /\ DOMAIN tables \cup free \cup held = Pages
  /\ free \cap held = {} /\ DOMAIN tables \cap (free \cup held) = {}

\* The pages of the range done so far are mapped.
DoneInv ==
  pc = "map" => \A k \in 0 .. i - 1 :
    EntryOf(VirtAt(k)) = [page |-> PageOf(PhysAt(k)), flags |-> req.flags]

\* Every nonempty set of naturals has a least element.
LEMMA Least ==
  ASSUME NEW S, S \subseteq Nat, S # {}
  PROVE  \E x \in S : \A y \in S : x <= y
<1>1. \E R : IsWellFoundedOn(R, Nat) /\ \A x, y \in Nat : <<x, y>> \in R <=> x < y
  <2> DEFINE R == OpToRel(<, Nat)
  <2>1. IsWellFoundedOn(R, Nat)
    BY NatLessThanWellFounded, Zenon
  <2>2. \A x, y \in Nat : <<x, y>> \in R <=> x < y
    BY Zenon DEF OpToRel
  <2> HIDE DEF R
  <2> QED BY <2>1, <2>2, Zenon
<1>2. PICK R : IsWellFoundedOn(R, Nat) /\ \A x, y \in Nat : <<x, y>> \in R <=> x < y
  BY <1>1, Zenon
<1>3. IsWellFoundedOn(R, Nat)
  BY <1>2, Zenon
<1>4. \A x, y \in Nat : x < y => <<x, y>> \in R
  BY <1>2, Zenon
<1>5. PICK x \in S : \A y \in S : ~(<<y, x>> \in R)
  BY <1>3, WFMin, Zenon
<1>6. \A y \in S : ~(y < x)
  BY <1>4, <1>5, Zenon
<1> QED BY <1>6

-----------------------------------------------------------------------------
\* Division with remainder.
LEMMA DivMod ==
  ASSUME NEW m \in Nat \ {0}, NEW n \in Nat
  PROVE  n \div m \in Nat /\ n % m \in 0 .. m - 1 /\ n = m * (n \div m) + (n % m)
OBVIOUS

\* Quotient and remainder are unique,
LEMMA QuotientUnique ==
  ASSUME NEW m \in Nat \ {0}, NEW s \in Nat, NEW w \in 0 .. m - 1,
         NEW d \in Nat, NEW e \in 0 .. m - 1, m * d + e = m * s + w
  PROVE  d = s /\ e = w
<1>1. ASSUME NEW a \in Nat, NEW b \in Nat, NEW x \in 0 .. m - 1, NEW y \in 0 .. m - 1,
             m * a + x = m * b + y, a < b
      PROVE  FALSE
  <2>1. PICK k \in Nat : b = a + 1 + k
    <3>1. b - a - 1 \in Nat /\ b = a + 1 + (b - a - 1)
      BY <1>1
    <3> QED BY <3>1, Zenon
  <2>2. m * b = m * a + m + m * k /\ m * k \in Nat /\ m * a \in Nat
    BY <1>1, <2>1
  <2> QED BY <1>1, <2>2
<1>2. ~(d < s) /\ ~(s < d)
  BY <1>1, Zenon
<1>3. d = s
  BY <1>2
<1>4. m * d \in Nat
  OBVIOUS
<1> QED BY <1>3, <1>4

\* so that they can be read off a sum.
LEMMA DivModIs ==
  ASSUME NEW m \in Nat \ {0}, NEW s \in Nat, NEW w \in 0 .. m - 1
  PROVE  (m * s + w) \div m = s /\ (m * s + w) % m = w
<1> DEFINE n == m * s + w
<1>1. n \in Nat
  OBVIOUS
<1>2. n = m * s + w
  BY Zenon
<1> HIDE DEF n
<1>3. n \div m \in Nat /\ n % m \in 0 .. m - 1 /\ n = m * (n \div m) + (n % m)
  BY <1>1, DivMod, Zenon
<1>4. n \div m = s /\ n % m = w
  <2> DEFINE d == n \div m
             e == n % m
  <2>1. d \in Nat /\ e \in 0 .. m - 1 /\ m * d + e = m * s + w
    BY <1>2, <1>3, Zenon
  <2> HIDE DEF d, e
  <2>2. d = s /\ e = w
    BY <2>1, QuotientUnique, Zenon
  <2> QED BY <2>2, Zenon DEF d, e
<1> QED BY <1>4, Zenon DEF n

\* Dividing twice is dividing by the product.
LEMMA DivDiv ==
  ASSUME NEW a \in Nat \ {0}, NEW b \in Nat \ {0}, NEW n \in Nat
  PROVE  (n \div a) \div b = n \div (a * b)
<1> DEFINE q == n \div a
           r == n % a
           s == q \div b
           t == q % b
<1>1. q \in Nat /\ r \in 0 .. a - 1 /\ n = a * q + r
  BY DivMod, Zenon
<1> HIDE DEF q, r
<1>2. s \in Nat /\ t \in 0 .. b - 1 /\ q = b * s + t
  BY <1>1, DivMod, Zenon
<1> HIDE DEF s, t
<1>3. n = (a * b) * s + (a * t + r)
  <2>1. a * (b * s + t) = (a * b) * s + a * t
    BY <1>2
  <2> QED BY <1>1, <1>2, <2>1
<1>4. a * t + r \in 0 .. a * b - 1
  <2>1. PICK k \in Nat : b = t + 1 + k
    <3>1. b - t - 1 \in Nat /\ b = t + 1 + (b - t - 1)
      BY <1>2
    <3> QED BY <3>1, Zenon
  <2>2. a * b = a * t + a + a * k /\ a * k \in Nat /\ a * t \in Nat
    BY <1>2, <2>1
  <2> QED BY <1>1, <2>2
<1> DEFINE m == a * b
           w == a * t + r
<1>5. m \in Nat \ {0} /\ w \in 0 .. m - 1 /\ n = m * s + w
  BY <1>3, <1>4
<1> HIDE DEF m, w
<1>6. n \div m = s
  BY <1>2, <1>5, DivModIs, Zenon
<1> QED BY <1>6, Zenon DEF m, s, q

\* The indices of an address are the digits of its page number.
LEMMA Digits ==
  ASSUME NEW va \in Nat
  PROVE  LET n  == PageOf(va)
             n1 == n \div Entries
             n2 == n1 \div Entries
             n3 == n2 \div Entries
         IN  /\ n \in Nat /\ n1 \in Nat /\ n2 \in Nat /\ n3 \in Nat /\ n3 \div Entries \in Nat
             /\ IndexAt(va, 1) = n % Entries /\ IndexAt(va, 2) = n1 % Entries
             /\ IndexAt(va, 3) = n2 % Entries /\ IndexAt(va, 4) = n3 % Entries
<1> DEFINE n  == PageOf(va)
           n1 == n \div Entries
           n2 == n1 \div Entries
           n3 == n2 \div Entries
<1>1. Entries \in Nat \ {0} /\ n \in Nat
  BY VmmAssumption DEF PageOf
<1> DEFINE E2 == Entries * Entries
           E3 == Entries * Entries * Entries
<1>2. E2 \in Nat \ {0} /\ E3 \in Nat \ {0} /\ E3 = E2 * Entries
  BY <1>1
<1>3. /\ PagesPerEntry[1] = 1 /\ PagesPerEntry[2] = Entries
      /\ PagesPerEntry[3] = E2 /\ PagesPerEntry[4] = E3
  BY Zenon DEF PagesPerEntry
<1>4. /\ IndexAt(va, 1) = (n \div 1) % Entries /\ IndexAt(va, 2) = (n \div Entries) % Entries
      /\ IndexAt(va, 3) = (n \div E2) % Entries /\ IndexAt(va, 4) = (n \div E3) % Entries
  BY <1>3, Zenon DEF IndexAt
<1> HIDE DEF n
<1>5. n \div 1 = n
  BY <1>1
<1>6. n1 \in Nat
  BY <1>1
<1>7. n2 = n \div E2
  BY <1>1, DivDiv, Zenon
<1> HIDE DEF n1
<1>8. n2 \in Nat
  BY <1>1, <1>6
<1>9. n3 = n \div E3
  <2> HIDE DEF E2, E3, n2
  <2>1. (n \div E2) \div Entries = n \div (E2 * Entries)
    BY <1>1, <1>2, DivDiv, Zenon
  <2> QED BY <1>2, <1>7, <2>1, Zenon
<1> HIDE DEF n2, E2, E3
<1>10. n3 \in Nat
  BY <1>1, <1>8
<1>11. n3 \div Entries \in Nat
  <2> HIDE DEF n3
  <2> QED BY <1>1, <1>10
<1>12. IndexAt(va, 2) = n1 % Entries
  BY <1>4, Zenon DEF n1
<1> HIDE DEF n3
<1> QED BY <1>1, <1>4, <1>5, <1>6, <1>7, <1>8, <1>9, <1>10, <1>11, <1>12, Zenon DEF n, n1, n2, n3

\* The indices of an address, and the numbers they make.
LEMMA IndexTypes ==
  ASSUME NEW va \in Nat
  PROVE  /\ IndexAt(va, 1) \in Index /\ IndexAt(va, 2) \in Index
         /\ IndexAt(va, 3) \in Index /\ IndexAt(va, 4) \in Index
         /\ Prefix(va, 1) \in Nat /\ Prefix(va, 2) \in Nat
         /\ Prefix(va, 3) \in Nat /\ Prefix(va, 4) = 0
<1> DEFINE a == IndexAt(va, 1)
           b == IndexAt(va, 2)
           c == IndexAt(va, 3)
           d == IndexAt(va, 4)
<1>1. Entries \in Nat \ {0} /\ \A n \in Nat : n % Entries \in Index
  BY VmmAssumption DEF Index
<1>2. a \in Index /\ b \in Index /\ c \in Index /\ d \in Index
  BY <1>1, Digits, Zenon
<1> HIDE DEF a, b, c, d
<1>3. a \in Nat /\ b \in Nat /\ c \in Nat /\ d \in Nat
  BY <1>1, <1>2 DEF Index
<1>4. d * Entries + c \in Nat /\ (d * Entries + c) * Entries + b \in Nat
  BY <1>1, <1>3
<1> QED BY <1>2, <1>3, <1>4, Zenon DEF Prefix, a, b, c, d

\* One more index of the prefix.
LEMMA PrefixStep ==
  ASSUME NEW va \in Nat, NEW l \in 2 .. 4
  PROVE  /\ Prefix(va, l) \in Nat /\ IndexAt(va, l) \in Index
         /\ Prefix(va, l - 1) = Prefix(va, l) * Entries + IndexAt(va, l)
<1>1. CASE l = 4
  <2>1. Prefix(va, 4) = 0 /\ Prefix(va, 3) = IndexAt(va, 4) /\ IndexAt(va, 4) \in Index
    BY IndexTypes DEF Prefix
  <2>2. 0 * Entries + IndexAt(va, 4) = IndexAt(va, 4)
    BY <2>1, VmmAssumption DEF Index
  <2> QED BY <1>1, <2>1, <2>2
<1>2. CASE l = 3
  BY <1>2, IndexTypes DEF Prefix
<1>3. CASE l = 2
  BY <1>3, IndexTypes DEF Prefix
<1> QED BY <1>1, <1>2, <1>3

\* Two numbers are equal digit by digit.
LEMMA SameDigits ==
  ASSUME NEW p \in Nat, NEW q \in Nat, NEW x \in Index, NEW y \in Index,
         p * Entries + x = q * Entries + y
  PROVE  p = q /\ x = y
<1>1. Entries \in Nat \ {0} /\ x \in 0 .. Entries - 1 /\ y \in 0 .. Entries - 1
  BY VmmAssumption, Zenon DEF Index
<1>2. Entries * p + x = Entries * q + y
  BY <1>1
<1> QED BY <1>1, <1>2, QuotientUnique, Zenon

\* Addresses of one virtual page are those with the same indices.
LEMMA SameVPage ==
  ASSUME NEW va \in Nat, NEW vb \in Nat
  PROVE  VPageOf(va) = VPageOf(vb) <=>
           Prefix(va, 1) = Prefix(vb, 1) /\ IndexAt(va, 1) = IndexAt(vb, 1)
<1>1. ASSUME VPageOf(va) = VPageOf(vb)
      PROVE  Prefix(va, 1) = Prefix(vb, 1) /\ IndexAt(va, 1) = IndexAt(vb, 1)
  <2> DEFINE p == Prefix(va, 1)
             q == Prefix(vb, 1)
             x == IndexAt(va, 1)
             y == IndexAt(vb, 1)
  <2>1. p \in Nat /\ q \in Nat /\ x \in Index /\ y \in Index
    BY IndexTypes, Zenon
  <2>2. p * Entries + x = q * Entries + y
    BY <1>1, Zenon DEF VPageOf
  <2> HIDE DEF p, q, x, y
  <2>3. p = q /\ x = y
    BY <2>1, <2>2, SameDigits
  <2> QED BY <2>3, Zenon DEF p, q, x, y
<1> QED BY <1>1, Zenon DEF VPageOf

\* An address beyond the last page has the indices of its page modulo the
\* number of pages.
LEMMA Wraps ==
  ASSUME NEW va \in Nat
  PROVE  /\ VPageOf(va) \in VPages
         /\ \E k \in Nat : PageOf(va) = (Entries * Entries * Entries * Entries) * k + VPageOf(va)
<1> DEFINE N == Entries
           n == PageOf(va)
           n1 == n \div N
           n2 == n1 \div N
           n3 == n2 \div N
           n4 == n3 \div N
           a == IndexAt(va, 1)
           b == IndexAt(va, 2)
           c == IndexAt(va, 3)
           d == IndexAt(va, 4)
<1>1. /\ N \in Nat \ {0} /\ n \in Nat /\ n1 \in Nat /\ n2 \in Nat /\ n3 \in Nat /\ n4 \in Nat
      /\ a = n % N /\ b = n1 % N /\ c = n2 % N /\ d = n3 % N
  BY Digits, VmmAssumption, Zenon
<1>2. /\ a \in 0 .. N - 1 /\ b \in 0 .. N - 1 /\ c \in 0 .. N - 1 /\ d \in 0 .. N - 1
  BY IndexTypes, Zenon DEF Index
<1>3. VPageOf(va) = ((d * N + c) * N + b) * N + a
  BY DEF VPageOf, Prefix
<1> HIDE DEF a, b, c, d, N, n
<1>4. n = N * n1 + a
  BY <1>1, DivMod, Zenon
<1> HIDE DEF n1
<1>5. n1 = N * n2 + b
  BY <1>1, DivMod, Zenon
<1> HIDE DEF n2
<1>6. n2 = N * n3 + c
  BY <1>1, DivMod, Zenon
<1> HIDE DEF n3
<1>7. n3 = N * n4 + d
  BY <1>1, DivMod, Zenon
<1> HIDE DEF n4
<1>8. n = (N * N * N * N) * n4 + (((d * N + c) * N + b) * N + a)
  <2>1. n2 = (N * N) * n4 + (d * N + c)
    BY <1>1, <1>2, <1>6, <1>7
  <2> DEFINE e == d * N + c
  <2>2. e \in Nat /\ n2 = (N * N) * n4 + e
    BY <1>1, <1>2, <2>1
  <2> HIDE DEF e
  <2>3. n1 = (N * N * N) * n4 + (e * N + b)
    BY <1>1, <1>2, <1>5, <2>2
  <2> DEFINE f == e * N + b
  <2>4. f \in Nat /\ n1 = (N * N * N) * n4 + f
    BY <1>1, <1>2, <2>2, <2>3
  <2> HIDE DEF f
  <2>5. n = (N * N * N * N) * n4 + (f * N + a)
    BY <1>1, <1>2, <1>4, <2>4
  <2> QED BY <2>5, Zenon DEF f, e
<1>9. ((d * N + c) * N + b) * N + a \in 0 .. N * N * N * N - 1
  <2>1. ASSUME NEW m \in Nat \ {0}, NEW x \in 0 .. m - 1, NEW y \in 0 .. N - 1
        PROVE  x * N + y \in 0 .. m * N - 1 /\ m * N \in Nat \ {0}
    <3>1. PICK k \in Nat : m = x + 1 + k
      <4>1. m - x - 1 \in Nat /\ m = x + 1 + (m - x - 1)
        BY <2>1
      <4> QED BY <4>1, Zenon
    <3>2. m * N = x * N + N + k * N /\ k * N \in Nat /\ x * N \in Nat
      BY <1>1, <2>1, <3>1
    <3> QED BY <1>1, <2>1, <3>2
  <2>2. d * N + c \in 0 .. N * N - 1 /\ N * N \in Nat \ {0}
    BY <1>1, <1>2, <2>1, Zenon
  <2> DEFINE e == d * N + c
             m == N * N
  <2> HIDE DEF e, m
  <2>3. e * N + b \in 0 .. m * N - 1 /\ m * N \in Nat \ {0}
    BY <1>1, <1>2, <2>1, <2>2, Zenon DEF e, m
  <2> DEFINE f == e * N + b
             o == m * N
  <2> HIDE DEF f, o
  <2>4. f * N + a \in 0 .. o * N - 1
    BY <1>1, <1>2, <2>1, <2>3, Zenon DEF f, o
  <2> QED BY <2>4, Zenon DEF f, o, e, m
<1> QED BY <1>1, <1>3, <1>8, <1>9, Zenon DEF n, N, VPages

\* The address of a page leads back to it.
LEMMA PageOfPage ==
  ASSUME NEW v \in Nat
  PROVE  v * PAGE_SIZE \in Nat /\ PageOf(v * PAGE_SIZE) = v
<1>1. PAGE_SIZE \in Nat \ {0} /\ 0 \in 0 .. PAGE_SIZE - 1
  BY VmmAssumption
<1>2. (PAGE_SIZE * v + 0) \div PAGE_SIZE = v
  BY <1>1, DivModIs, Zenon
<1>3. v * PAGE_SIZE = PAGE_SIZE * v + 0 /\ v * PAGE_SIZE \in Nat
  BY <1>1
<1> QED BY <1>2, <1>3, Zenon DEF PageOf

\* A page number within the address space is its own virtual page.
LEMMA OwnVPage ==
  ASSUME NEW v \in VPages
  PROVE  v \in Nat /\ v * PAGE_SIZE \in Nat /\ VPageOf(v * PAGE_SIZE) = v
<1> DEFINE va == v * PAGE_SIZE
           m == Entries * Entries * Entries * Entries
           w == VPageOf(va)
<1>1. m \in Nat \ {0} /\ v \in 0 .. m - 1
  BY VmmAssumption DEF VPages
<1>2. v \in Nat /\ va \in Nat /\ PageOf(va) = v
  BY <1>1, PageOfPage
<1> HIDE DEF va
<1>3. w \in 0 .. m - 1 /\ \E k \in Nat : v = m * k + w
  BY <1>2, Wraps, Zenon DEF VPages
<1>4. PICK k \in Nat : v = m * k + w
  BY <1>3, Zenon
<1> HIDE DEF w, m
<1>5. m * k + w = m * 0 + v
  BY <1>1, <1>4
<1>6. w = v
  BY <1>1, <1>3, <1>5, QuotientUnique, Zenon
<1> QED BY <1>2, <1>6, Zenon DEF w, va

-----------------------------------------------------------------------------
\* NULL is no table, and an entry that is present names a page.
LEMMA NullIsNoTable ==
  ASSUME TypeOK
  PROVE  /\ NULL \notin DOMAIN tables
         /\ \A t \in DOMAIN tables, x \in Index :
              /\ tables[t][x] \in Entry
              /\ tables[t][x] # Absent => tables[t][x].page \in Nat
BY VmmAssumption DEF TypeOK, NULL, Pages, Entry

\* The table at a place, or NULL.
Leads(t, lev, pre, va, l) ==
  /\ t \in DOMAIN tables \cup {NULL}
  /\ t # NULL => lev[t] = l /\ pre[t] = Prefix(va, l)
  /\ \A u \in DOMAIN tables : lev[u] = l /\ pre[u] = Prefix(va, l) => u = t

\* One level of walk_table.
LEMMA BelowLeads ==
  ASSUME TypeOK, NEW lev, NEW pre, Places(lev, pre), NEW va \in Nat, NEW l \in 2 .. 4,
         NEW t, Leads(t, lev, pre, va, l)
  PROVE  Leads(Below(t, va, l), lev, pre, va, l - 1)
<1> DEFINE x == IndexAt(va, l)
           p == Prefix(va, l)
           c == Below(t, va, l)
<1>1. x \in Index /\ p \in Nat /\ Prefix(va, l - 1) = p * Entries + x
  BY PrefixStep, Zenon
<1>2. c = IF t = NULL THEN NULL ELSE IF tables[t][x] = Absent THEN NULL ELSE tables[t][x].page
  BY Zenon DEF Below
<1>3. /\ t \in DOMAIN tables \cup {NULL} /\ (t # NULL => lev[t] = l /\ pre[t] = p)
      /\ \A u \in DOMAIN tables : lev[u] = l /\ pre[u] = p => u = t
  BY Zenon DEF Leads
<1>4. NULL \notin DOMAIN tables
  BY NullIsNoTable, Zenon
<1> HIDE DEF c, x, p
<1>5. c \in DOMAIN tables \cup {NULL} /\ (c # NULL => lev[c] = l - 1 /\ pre[c] = p * Entries + x)
  <2>1. CASE t = NULL
    BY <1>2, <2>1, Zenon
  <2>2. CASE t # NULL /\ tables[t][x] = Absent
    BY <1>2, <2>2, Zenon
  <2>3. CASE t # NULL /\ tables[t][x] # Absent
    <3>1. t \in DOMAIN tables /\ lev[t] > 1 /\ lev[t] = l /\ pre[t] = p /\ c = tables[t][x].page
      BY <1>2, <1>3, <2>3
    <3>2. c \in DOMAIN tables /\ lev[c] = l - 1 /\ pre[c] = p * Entries + x
      BY <1>1, <2>3, <3>1 DEF Places
    <3> QED BY <3>2, Zenon
  <2> QED BY <2>1, <2>2, <2>3, Zenon
<1>6. ASSUME NEW u \in DOMAIN tables, lev[u] = l - 1, pre[u] = p * Entries + x
      PROVE  u = c
  <2>1. lev[u] < 4 /\ lev[u] + 1 = l
    BY <1>6
  <2>2. PICK w \in DOMAIN tables, y \in Index :
          lev[w] = l /\ tables[w][y] # Absent /\ tables[w][y].page = u
    BY <2>1 DEF Places
  <2>3. pre[u] = pre[w] * Entries + y /\ pre[w] \in Nat
    BY <2>2 DEF Places
  <2>4. pre[w] = p /\ y = x
    BY <1>1, <1>6, <2>3, SameDigits
  <2>5. w = t
    BY <1>3, <2>2, <2>4, Zenon
  <2> QED BY <1>2, <1>4, <2>2, <2>4, <2>5, Zenon
<1> QED BY <1>1, <1>5, <1>6, Zenon DEF Leads, c

\* The entry of an address is in the table at its place, if there is one.
EntryFact ==
  \A lev, pre : TypeOK /\ Places(lev, pre) =>
    \A va \in Nat :
      /\ \A t \in DOMAIN tables : lev[t] = 1 /\ pre[t] = Prefix(va, 1) =>
           walk_table(va) = t /\ EntryOf(va) = tables[t][IndexAt(va, 1)]
      /\ (\A t \in DOMAIN tables : ~(lev[t] = 1 /\ pre[t] = Prefix(va, 1))) =>
           walk_table(va) = NULL /\ EntryOf(va) = Absent

\* The walk of vmm_translate finds the last-level table at the place of the
\* address, or that there is none.
LEMMA Walk == EntryFact
<1> SUFFICES ASSUME NEW lev, NEW pre, TypeOK, Places(lev, pre), NEW va \in Nat
             PROVE  /\ \A t \in DOMAIN tables : lev[t] = 1 /\ pre[t] = Prefix(va, 1) =>
                         walk_table(va) = t /\ EntryOf(va) = tables[t][IndexAt(va, 1)]
                    /\ (\A t \in DOMAIN tables : ~(lev[t] = 1 /\ pre[t] = Prefix(va, 1))) =>
                         walk_table(va) = NULL /\ EntryOf(va) = Absent
  BY DEF EntryFact
<1> DEFINE t3 == Below(pml4, va, 4)
           t2 == Below(t3, va, 3)
           t1 == Below(t2, va, 2)
<1>1. NULL \notin DOMAIN tables
  BY NullIsNoTable, Zenon
<1>2. Leads(pml4, lev, pre, va, 4)
  <2>1. pml4 \in DOMAIN tables \cup {NULL} /\ Prefix(va, 4) = 0
    BY Zenon DEF TypeOK, Prefix
  <2> QED BY <2>1, Zenon DEF Leads, Places
<1>3. Leads(t3, lev, pre, va, 3)
  <2>1. 4 \in 2 .. 4 /\ 4 - 1 = 3
    OBVIOUS
  <2> QED BY <1>2, <2>1, BelowLeads, Zenon
<1> HIDE DEF t3
<1>4. Leads(t2, lev, pre, va, 2)
  <2>1. 3 \in 2 .. 4 /\ 3 - 1 = 2
    OBVIOUS
  <2> QED BY <1>3, <2>1, BelowLeads, Zenon
<1> HIDE DEF t2
<1>5. Leads(t1, lev, pre, va, 1)
  <2>1. 2 \in 2 .. 4 /\ 2 - 1 = 1
    OBVIOUS
  <2> QED BY <1>4, <2>1, BelowLeads, Zenon
<1>6. walk_table(va) = t1
  BY Zenon DEF walk_table, t2, t3
<1>7. EntryOf(va) = IF t1 = NULL THEN Absent ELSE tables[t1][IndexAt(va, 1)]
  BY <1>6, Zenon DEF EntryOf
<1> HIDE DEF t1
<1> QED BY <1>1, <1>5, <1>6, <1>7, Zenon DEF Leads

\* The same after a step.
LEMMA WalkNext == EntryFact'
BY Walk, PTL

-----------------------------------------------------------------------------
\* pmm_alloc gives a free page.
LEMMA AllocIsFree ==
  ASSUME TypeOK, PagesInv, free # {}
  PROVE  /\ pmm_alloc \in free /\ pmm_alloc \in Pages /\ pmm_alloc \in Nat
         /\ pmm_alloc \notin DOMAIN tables /\ pmm_alloc # NULL /\ pmm_alloc # pml4
<1>1. free \subseteq Nat
  BY VmmAssumption DEF TypeOK, Pages
<1>2. \E p \in free : \A q \in free : p <= q
  BY <1>1, Least, Zenon
<1>3. pmm_alloc \in free
  BY <1>2, Zenon DEF pmm_alloc
<1> HIDE DEF pmm_alloc
<1>4. pmm_alloc \in Pages /\ pmm_alloc \in Nat /\ pmm_alloc \notin DOMAIN tables /\ pmm_alloc # NULL
  BY <1>1, <1>3 DEF TypeOK, PagesInv, NULL
<1> QED BY <1>3, <1>4, Zenon DEF TypeOK

\* A new entry in a table.
LEMMA Written ==
  ASSUME TypeOK, NEW t \in DOMAIN tables, NEW x \in Index, NEW e \in Entry
  PROVE  LET T == [tables EXCEPT ![t][x] = e] IN
         /\ DOMAIN T = DOMAIN tables
         /\ T \in [DOMAIN tables -> [Index -> Entry]]
         /\ \A u \in DOMAIN tables, y \in Index :
              T[u][y] = IF u = t /\ y = x THEN e ELSE tables[u][y]
<1>1. tables \in [DOMAIN tables -> [Index -> Entry]]
  BY Zenon DEF TypeOK
<1> DEFINE D == DOMAIN tables
<1>2. tables \in [D -> [Index -> Entry]] /\ t \in D
  BY <1>1, Zenon
<1> HIDE DEF D, Entry, Index
<1> QED BY <1>2, Zenon DEF D

\* A new table.
LEMMA Extended ==
  ASSUME TypeOK, NEW p, p \notin DOMAIN tables
  PROVE  /\ DOMAIN WithTable(p) = DOMAIN tables \cup {p}
         /\ WithTable(p) \in [DOMAIN tables \cup {p} -> [Index -> Entry]]
         /\ \A u \in DOMAIN tables : WithTable(p)[u] = tables[u]
         /\ \A y \in Index : WithTable(p)[p][y] = Absent
<1>1. tables \in [DOMAIN tables -> [Index -> Entry]]
  BY Zenon DEF TypeOK
<1>2. Zeroed \in [Index -> Entry] /\ \A y \in Index : Zeroed[y] = Absent
  BY Zenon DEF Zeroed, Entry
<1> QED BY <1>1, <1>2, Zenon DEF WithTable

\* A new table linked into a free slot.
Link(p) == [page |-> p, flags |-> LinkFlags]

WithLink(p, t, x) == [WithTable(p) EXCEPT ![t][x] = Link(p)]

\* What linking a new, empty table into a slot does to each entry.
LEMMA CreatedIs ==
  ASSUME TypeOK, NEW p \in Nat, p \notin DOMAIN tables, NEW t \in DOMAIN tables, NEW x \in Index
  PROVE  /\ Link(p) \in Entry /\ Link(p) # Absent /\ Link(p).page = p
         /\ DOMAIN WithLink(p, t, x) = DOMAIN tables \cup {p}
         /\ WithLink(p, t, x) \in [DOMAIN tables \cup {p} -> [Index -> Entry]]
         /\ \A u \in DOMAIN tables, y \in Index :
              WithLink(p, t, x)[u][y] = IF u = t /\ y = x THEN Link(p) ELSE tables[u][y]
         /\ \A y \in Index : WithLink(p, t, x)[p][y] = Absent
<1> DEFINE W == WithTable(p)
           D == DOMAIN tables \cup {p}
           e == Link(p)
           T == WithLink(p, t, x)
<1>1. e \in Entry /\ e # Absent /\ e.page = p
  BY DEF Entry, Absent, NULL, Link
<1>2. /\ DOMAIN W = D /\ W \in [D -> [Index -> Entry]] /\ t \in D /\ t # p
      /\ \A u \in DOMAIN tables : W[u] = tables[u] /\ u # p /\ u \in D
      /\ \A y \in Index : W[p][y] = Absent
      /\ p \in D
  BY Extended, Zenon
<1>3. T = [W EXCEPT ![t][x] = e]
  BY Zenon DEF WithLink
<1> HIDE DEF W, D, e, T, Entry, Index
<1>4. /\ DOMAIN T = D /\ T \in [D -> [Index -> Entry]]
      /\ \A u \in D, y \in Index : T[u][y] = IF u = t /\ y = x THEN e ELSE W[u][y]
  BY <1>1, <1>2, <1>3, Zenon
<1>5. /\ \A u \in DOMAIN tables, y \in Index : T[u][y] = IF u = t /\ y = x THEN e ELSE tables[u][y]
      /\ \A y \in Index : T[p][y] = Absent
  BY <1>2, <1>4
<1> QED BY <1>1, <1>4, <1>5, Zenon DEF D, e, T

-----------------------------------------------------------------------------
\* A step that leaves the tables alone leaves every entry alone.
LEMMA Untouched ==
  ASSUME tables' = tables, pml4' = pml4
  PROVE  /\ \A lev, pre : Places(lev, pre) => Places(lev, pre)'
         /\ \A va : EntryOf(va)' = EntryOf(va)
<1>1. \A lev, pre : Places(lev, pre) => Places(lev, pre)'
  BY DEF Places
<1>2. \A va : EntryOf(va)' = EntryOf(va)
  BY DEF EntryOf, walk_table, Below
<1> QED BY <1>1, <1>2, Zenon

\* A write to a last-level table changes the entry of one virtual page.
WithEntry(t, x, e) == [tables EXCEPT ![t][x] = e]

\* The tables keep their places, and no other virtual page is touched.
LEMMA LeafWritten ==
  ASSUME TypeOK, TypeOK', NEW lev, NEW pre, Places(lev, pre),
         NEW t \in DOMAIN tables, NEW va \in Nat, lev[t] = 1, pre[t] = Prefix(va, 1),
         NEW e \in Entry, tables' = WithEntry(t, IndexAt(va, 1), e),
         pml4' = pml4
  PROVE  /\ Places(lev, pre)'
         /\ \A vb \in Nat :
              EntryOf(vb)' = IF VPageOf(vb) = VPageOf(va) THEN e ELSE EntryOf(vb)
<1> DEFINE x == IndexAt(va, 1)
<1>1. x \in Index
  BY IndexTypes, Zenon
<1>2. /\ DOMAIN tables' = DOMAIN tables
      /\ \A u \in DOMAIN tables, y \in Index :
           tables'[u][y] = IF u = t /\ y = x THEN e ELSE tables[u][y]
  BY <1>1, Written DEF WithEntry
<1> HIDE DEF x
<1>3. \A u \in DOMAIN tables, y \in Index : lev[u] > 1 => tables'[u][y] = tables[u][y]
  BY <1>2
<1>4. Places(lev, pre)'
  <2>1. /\ lev \in [DOMAIN tables' -> 1 .. 4] /\ pre \in [DOMAIN tables' -> Nat]
        /\ pml4' = NULL => DOMAIN tables' = {}
        /\ \A u \in DOMAIN tables' : lev[u] = 4 <=> u = pml4'
        /\ pml4' # NULL => pre[pml4'] = 0
        /\ \A u, w \in DOMAIN tables' : lev[u] = lev[w] /\ pre[u] = pre[w] => u = w
    BY <1>2, Zenon DEF Places
  <2>2. ASSUME NEW u \in DOMAIN tables', NEW y \in Index, lev[u] > 1, tables'[u][y] # Absent
        PROVE  /\ tables'[u][y].page \in DOMAIN tables'
               /\ lev[tables'[u][y].page] = lev[u] - 1
               /\ pre[tables'[u][y].page] = pre[u] * Entries + y
    <3>1. tables'[u][y] = tables[u][y] /\ u \in DOMAIN tables
      BY <1>2, <1>3, <2>2, Zenon
    <3>2. /\ tables[u][y].page \in DOMAIN tables
          /\ lev[tables[u][y].page] = lev[u] - 1
          /\ pre[tables[u][y].page] = pre[u] * Entries + y
      BY <2>2, <3>1 DEF Places
    <3> QED BY <1>2, <3>1, <3>2, Zenon
  <2>3. ASSUME NEW c \in DOMAIN tables', lev[c] < 4
        PROVE  \E u \in DOMAIN tables', y \in Index :
                 lev[u] = lev[c] + 1 /\ tables'[u][y] # Absent /\ tables'[u][y].page = c
    <3>1. c \in DOMAIN tables
      BY <1>2, Zenon
    <3>2. PICK u \in DOMAIN tables, y \in Index :
             lev[u] = lev[c] + 1 /\ tables[u][y] # Absent /\ tables[u][y].page = c
      BY <2>3, <3>1, Zenon DEF Places
    <3>a. lev[c] \in 1 .. 4
      BY <3>1 DEF Places
    <3>3. lev[u] > 1
      BY <3>2, <3>a
    <3>4. tables'[u][y] = tables[u][y]
      BY <1>3, <3>3, Zenon
    <3> QED BY <1>2, <3>2, <3>4, Zenon
  <2> QED BY <2>1, <2>2, <2>3 DEF Places
<1>5. ASSUME NEW vb \in Nat
      PROVE  EntryOf(vb)' = IF VPageOf(vb) = VPageOf(va) THEN e ELSE EntryOf(vb)
  <2> DEFINE y == IndexAt(vb, 1)
  <2>1. VPageOf(vb) = VPageOf(va) <=> Prefix(vb, 1) = Prefix(va, 1) /\ y = x
    BY SameVPage, Zenon DEF x
  <2>2. y \in Index
    BY IndexTypes, Zenon
  <2>3. CASE \E u \in DOMAIN tables : lev[u] = 1 /\ pre[u] = Prefix(vb, 1)
    <3>1. PICK u \in DOMAIN tables : lev[u] = 1 /\ pre[u] = Prefix(vb, 1)
      BY <2>3, Zenon
    <3>2. EntryOf(vb) = tables[u][y]
      BY <3>1, Walk, Zenon DEF EntryFact
    <3>3. EntryOf(vb)' = tables'[u][y]
      BY <1>2, <1>4, <3>1, WalkNext DEF EntryFact
    <3>4. u = t <=> Prefix(vb, 1) = Prefix(va, 1)
      BY <3>1 DEF Places
    <3> HIDE DEF y
    <3>5. tables'[u][y] = IF u = t /\ y = x THEN e ELSE tables[u][y]
      BY <1>2, <2>2, Zenon
    <3> QED BY <2>1, <3>2, <3>3, <3>4, <3>5, Zenon
  <2>4. CASE ~ \E u \in DOMAIN tables : lev[u] = 1 /\ pre[u] = Prefix(vb, 1)
    <3>1. EntryOf(vb) = Absent
      BY <2>4, Walk DEF EntryFact
    <3>2. EntryOf(vb)' = Absent
      BY <1>2, <1>4, <2>4, WalkNext DEF EntryFact
    <3>3. Prefix(vb, 1) # Prefix(va, 1)
      BY <2>4, Zenon
    <3> QED BY <2>1, <3>1, <3>2, <3>3, Zenon
  <2> QED BY <2>3, <2>4, Zenon
<1> QED BY <1>4, <1>5, Zenon

\* A new table at a free place changes no entry.
LEMMA TableLinked ==
  ASSUME TypeOK, TypeOK', NEW lev, NEW pre, Places(lev, pre),
         NEW p \in Nat, p \notin DOMAIN tables, p # pml4,
         NEW t \in DOMAIN tables, lev[t] > 1, NEW x \in Index, tables[t][x] = Absent,
         tables' = WithLink(p, t, x),
         pml4' = pml4,
         NEW lev1, NEW pre1,
         lev1 \in [DOMAIN tables \cup {p} -> 1 .. 4], pre1 \in [DOMAIN tables \cup {p} -> Nat],
         lev1[p] = lev[t] - 1, pre1[p] = pre[t] * Entries + x,
         \A u \in DOMAIN tables : lev1[u] = lev[u] /\ pre1[u] = pre[u]
  PROVE  /\ Places(lev1, pre1)'
         /\ \A va \in Nat : EntryOf(va)' = EntryOf(va)
<1>1. /\ Link(p) # Absent /\ Link(p).page = p
      /\ DOMAIN tables' = DOMAIN tables \cup {p}
      /\ \A u \in DOMAIN tables, y \in Index :
           tables'[u][y] = IF u = t /\ y = x THEN Link(p) ELSE tables[u][y]
      /\ \A y \in Index : tables'[p][y] = Absent
  <2>1. /\ Link(p) # Absent /\ Link(p).page = p
        /\ DOMAIN WithLink(p, t, x) = DOMAIN tables \cup {p}
        /\ \A u \in DOMAIN tables, y \in Index :
             WithLink(p, t, x)[u][y] = IF u = t /\ y = x THEN Link(p) ELSE tables[u][y]
        /\ \A y \in Index : WithLink(p, t, x)[p][y] = Absent
    BY CreatedIs
  <2> QED BY <2>1, Zenon
<1>2. /\ lev1[p] = lev[t] - 1 /\ pre1[p] = pre[t] * Entries + x
      /\ \A u \in DOMAIN tables : u # p /\ lev1[u] = lev[u] /\ pre1[u] = pre[u]
  BY Zenon
<1>3. /\ lev \in [DOMAIN tables -> 1 .. 4] /\ pre \in [DOMAIN tables -> Nat]
      /\ lev[t] \in 2 .. 4 /\ pre[t] \in Nat /\ x \in Nat /\ Entries \in Nat
  BY VmmAssumption DEF Places, Index
<1>4. lev1 \in [DOMAIN tables' -> 1 .. 4] /\ pre1 \in [DOMAIN tables' -> Nat]
  BY <1>1, Zenon
<1>5. \A u \in DOMAIN tables' : lev1[u] = 4 <=> u = pml4'
  BY <1>1, <1>2, <1>3 DEF Places
<1>6. pml4' # NULL /\ pre1[pml4'] = 0
  <2>1. pml4 # NULL /\ pml4 \in DOMAIN tables /\ pre[pml4] = 0
    BY Zenon DEF TypeOK, Places
  <2> QED BY <1>2, <2>1, Zenon
<1>7. ASSUME NEW u \in DOMAIN tables', NEW y \in Index, lev1[u] > 1, tables'[u][y] # Absent
      PROVE  /\ tables'[u][y].page \in DOMAIN tables'
             /\ lev1[tables'[u][y].page] = lev1[u] - 1
             /\ pre1[tables'[u][y].page] = pre1[u] * Entries + y
  <2>1. u \in DOMAIN tables /\ lev[u] > 1
    BY <1>1, <1>2, <1>7
  <2>2. CASE u = t /\ y = x
    BY <1>1, <1>2, <2>1, <2>2, Zenon
  <2>3. CASE ~(u = t /\ y = x)
    <3>1. tables'[u][y] = tables[u][y]
      BY <1>1, <2>1, <2>3, Zenon
    <3>2. /\ tables[u][y].page \in DOMAIN tables
          /\ lev[tables[u][y].page] = lev[u] - 1
          /\ pre[tables[u][y].page] = pre[u] * Entries + y
      BY <1>7, <2>1, <3>1 DEF Places
    <3> QED BY <1>1, <1>2, <2>1, <3>1, <3>2
  <2> QED BY <2>2, <2>3, Zenon
<1>8. ASSUME NEW c \in DOMAIN tables', lev1[c] < 4
      PROVE  \E u \in DOMAIN tables', y \in Index :
               lev1[u] = lev1[c] + 1 /\ tables'[u][y] # Absent /\ tables'[u][y].page = c
  <2>1. CASE c = p
    <3>1. t \in DOMAIN tables' /\ lev1[t] = lev1[c] + 1 /\ tables'[t][x] = Link(p)
      BY <1>1, <1>2, <1>3, <2>1
    <3> QED BY <1>1, <2>1, <3>1
  <2>2. CASE c # p
    <3>1. c \in DOMAIN tables /\ lev[c] < 4
      BY <1>1, <1>2, <1>8, <2>2, Zenon
    <3>2. PICK u \in DOMAIN tables, y \in Index :
             lev[u] = lev[c] + 1 /\ tables[u][y] # Absent /\ tables[u][y].page = c
      BY <3>1, Zenon DEF Places
    <3>3. tables'[u][y] = tables[u][y]
      BY <1>1, <3>2, Zenon
    <3> QED BY <1>1, <1>2, <3>1, <3>2, <3>3
  <2> QED BY <2>1, <2>2, Zenon
<1>9. ASSUME NEW u \in DOMAIN tables
      PROVE  ~(lev[u] = lev[t] - 1 /\ pre[u] = pre[t] * Entries + x)
  <2> SUFFICES ASSUME lev[u] = lev[t] - 1, pre[u] = pre[t] * Entries + x
               PROVE  FALSE
    BY Zenon
  <2>1. lev[u] < 4 /\ lev[u] + 1 = lev[t]
    BY <1>3
  <2>2. PICK w \in DOMAIN tables, y \in Index :
          lev[w] = lev[u] + 1 /\ tables[w][y] # Absent /\ tables[w][y].page = u
    BY <2>1, Zenon DEF Places
  <2>3. pre[u] = pre[w] * Entries + y /\ pre[w] \in Nat
    BY <1>3, <2>1, <2>2 DEF Places
  <2>4. pre[w] = pre[t] /\ y = x
    BY <1>3, <2>3, SameDigits
  <2>5. w = t
    BY <2>1, <2>2, <2>4 DEF Places
  <2> QED BY <2>2, <2>4, <2>5, Zenon
<1>10. \A u, w \in DOMAIN tables' : lev1[u] = lev1[w] /\ pre1[u] = pre1[w] => u = w
  <2> SUFFICES ASSUME NEW u \in DOMAIN tables', NEW w \in DOMAIN tables',
                      lev1[u] = lev1[w], pre1[u] = pre1[w]
               PROVE  u = w
    BY Zenon
  <2>1. CASE u = p \/ w = p
    BY <1>1, <1>2, <1>9, <2>1
  <2>2. CASE u # p /\ w # p
    <3>1. u \in DOMAIN tables /\ w \in DOMAIN tables /\ lev[u] = lev[w] /\ pre[u] = pre[w]
      BY <1>1, <1>2, <2>2, Zenon
    <3> QED BY <3>1, Zenon DEF Places
  <2> QED BY <2>1, <2>2, Zenon
<1>11. Places(lev1, pre1)'
  BY <1>4, <1>5, <1>6, <1>7, <1>8, <1>10 DEF Places
<1>12. ASSUME NEW va \in Nat
       PROVE  EntryOf(va)' = EntryOf(va)
  <2> DEFINE y == IndexAt(va, 1)
  <2>1. y \in Index
    BY IndexTypes, Zenon
  <2> HIDE DEF y
  <2>2. CASE \E u \in DOMAIN tables : lev[u] = 1 /\ pre[u] = Prefix(va, 1)
    <3>1. PICK u \in DOMAIN tables : lev[u] = 1 /\ pre[u] = Prefix(va, 1)
      BY <2>2, Zenon
    <3>2. EntryOf(va) = tables[u][y]
      BY <3>1, Walk DEF EntryFact, y
    <3>3. u \in DOMAIN tables' /\ lev1[u] = 1 /\ pre1[u] = Prefix(va, 1)
      BY <1>1, <1>2, <3>1, Zenon
    <3>4. EntryOf(va)' = tables'[u][y]
      BY <1>11, <3>3, WalkNext DEF EntryFact, y
    <3>5. tables'[u][y] = tables[u][y]
      BY <1>1, <2>1, <3>1
    <3> QED BY <3>2, <3>4, <3>5, Zenon
  <2>3. CASE ~ \E u \in DOMAIN tables : lev[u] = 1 /\ pre[u] = Prefix(va, 1)
    <3>1. EntryOf(va) = Absent
      BY <2>3, Walk DEF EntryFact
    <3>2. CASE lev1[p] = 1 /\ pre1[p] = Prefix(va, 1)
      <4>1. p \in DOMAIN tables' /\ tables'[p][y] = Absent
        BY <1>1, <2>1, Zenon
      <4>2. EntryOf(va)' = tables'[p][y]
        BY <1>11, <3>2, <4>1, WalkNext DEF EntryFact, y
      <4> QED BY <3>1, <4>1, <4>2, Zenon
    <3>3. CASE ~(lev1[p] = 1 /\ pre1[p] = Prefix(va, 1))
      <4>1. \A u \in DOMAIN tables' : ~(lev1[u] = 1 /\ pre1[u] = Prefix(va, 1))
        BY <1>1, <1>2, <2>3, <3>3, Zenon
      <4>2. EntryOf(va)' = Absent
        BY <1>11, <4>1, WalkNext DEF EntryFact
      <4> QED BY <3>1, <4>2, Zenon
    <3> QED BY <3>2, <3>3, Zenon
  <2> QED BY <2>2, <2>3, Zenon
<1> QED BY <1>11, <1>12, Zenon

-----------------------------------------------------------------------------
\* Virtual pages have one entry each.
LEMMA EntryOfVPage ==
  ASSUME TypeOK, NEW lev, NEW pre, Places(lev, pre),
         NEW va \in Nat, NEW vb \in Nat, VPageOf(va) = VPageOf(vb)
  PROVE  EntryOf(va) = EntryOf(vb)
<1>1. Prefix(va, 1) = Prefix(vb, 1) /\ IndexAt(va, 1) = IndexAt(vb, 1)
  BY SameVPage, Zenon
<1>2. CASE \E t \in DOMAIN tables : lev[t] = 1 /\ pre[t] = Prefix(va, 1)
  <2>1. PICK t \in DOMAIN tables : lev[t] = 1 /\ pre[t] = Prefix(va, 1)
    BY <1>2, Zenon
  <2>2. EntryOf(va) = tables[t][IndexAt(va, 1)]
    BY <2>1, Walk, Zenon DEF EntryFact
  <2>3. EntryOf(vb) = tables[t][IndexAt(vb, 1)]
    BY <1>1, <2>1, Walk DEF EntryFact
  <2> QED BY <1>1, <2>2, <2>3, Zenon
<1>3. CASE ~ \E t \in DOMAIN tables : lev[t] = 1 /\ pre[t] = Prefix(va, 1)
  <2>1. EntryOf(va) = Absent
    BY <1>3, Walk DEF EntryFact
  <2>2. EntryOf(vb) = Absent
    BY <1>1, <1>3, Walk DEF EntryFact
  <2> QED BY <2>1, <2>2, Zenon
<1> QED BY <1>2, <1>3, Zenon

\* The mapping of the abstract address space, entry by entry.
LEMMA MappedIs ==
  /\ DOMAIN Mapping = {v \in VPages : EntryOf(v * PAGE_SIZE) # Absent}
  /\ \A v \in DOMAIN Mapping : Mapping[v] = EntryOf(v * PAGE_SIZE)
BY Zenon DEF Mapping

\* Its size is a number.
LEMMA MappedFinite ==
  IsFiniteSet(DOMAIN Mapping) /\ Cardinality(DOMAIN Mapping) \in Nat
<1>1. Entries * Entries * Entries * Entries - 1 \in Int /\ 0 \in Int
  BY VmmAssumption
<1>2. IsFiniteSet(VPages)
  BY <1>1, FS_Interval, Zenon DEF VPages
<1>3. DOMAIN Mapping \subseteq VPages
  BY MappedIs, Zenon
<1>4. IsFiniteSet(DOMAIN Mapping)
  BY <1>2, <1>3, FS_Subset, Zenon
<1> QED BY <1>4, FS_CardinalityType, Zenon

\* The entries decide the mapping.
LEMMA MappingSame ==
  ASSUME \A va \in Nat : EntryOf(va)' = EntryOf(va)
  PROVE  Mapping' = Mapping
<1>1. \A v \in VPages : EntryOf(v * PAGE_SIZE)' = EntryOf(v * PAGE_SIZE)
  <2> SUFFICES ASSUME NEW v \in VPages
               PROVE  EntryOf(v * PAGE_SIZE)' = EntryOf(v * PAGE_SIZE)
    BY Zenon
  <2>1. v * PAGE_SIZE \in Nat
    BY OwnVPage, Zenon
  <2> QED BY <2>1, Zenon
<1> QED BY <1>1, Zenon DEF Mapping

\* One entry of it changes.
LEMMA MappingWritten ==
  ASSUME TypeOK, NEW lev, NEW pre, Places(lev, pre), NEW va \in Nat, NEW e,
         \A vb \in Nat : EntryOf(vb)' = IF VPageOf(vb) = VPageOf(va) THEN e ELSE EntryOf(vb)
  PROVE  LET w == VPageOf(va) IN
         /\ w \in VPages
         /\ w \in DOMAIN Mapping <=> EntryOf(va) # Absent
         /\ e # Absent =>
              Mapping' = [v \in DOMAIN Mapping \cup {w} |-> IF v = w THEN e ELSE Mapping[v]]
         /\ e = Absent => Mapping' = [v \in DOMAIN Mapping \ {w} |-> Mapping[v]]
<1> DEFINE w == VPageOf(va)
           M == Mapping
           M1 == Mapping'
           D == {v \in VPages : EntryOf(v * PAGE_SIZE) # Absent}
           D1 == {v \in VPages : EntryOf(v * PAGE_SIZE)' # Absent}
<1>1. w \in VPages
  BY Wraps, Zenon
<1>2. EntryOf(w * PAGE_SIZE) = EntryOf(va)
  <2>1. w * PAGE_SIZE \in Nat /\ VPageOf(w * PAGE_SIZE) = VPageOf(va)
    BY <1>1, OwnVPage, Zenon
  <2> HIDE DEF w
  <2> QED BY <2>1, EntryOfVPage, Zenon
<1>3. \A v \in VPages :
        EntryOf(v * PAGE_SIZE)' = IF v = w THEN e ELSE EntryOf(v * PAGE_SIZE)
  <2> SUFFICES ASSUME NEW v \in VPages
               PROVE  EntryOf(v * PAGE_SIZE)' = IF v = w THEN e ELSE EntryOf(v * PAGE_SIZE)
    BY Zenon
  <2>1. v * PAGE_SIZE \in Nat /\ VPageOf(v * PAGE_SIZE) = v
    BY OwnVPage, Zenon
  <2> QED BY <2>1, Zenon
<1>4. M = [v \in D |-> EntryOf(v * PAGE_SIZE)] /\ M1 = [v \in D1 |-> EntryOf(v * PAGE_SIZE)']
  BY Zenon DEF Mapping
<1> HIDE DEF w, M, M1
<1>5. w \in DOMAIN M <=> EntryOf(va) # Absent
  BY <1>1, <1>2, <1>4, Zenon
<1>6. ASSUME e # Absent
      PROVE  M1 = [v \in DOMAIN M \cup {w} |-> IF v = w THEN e ELSE M[v]]
  <2>1. D1 = D \cup {w}
    BY <1>1, <1>3, <1>6, Zenon
  <2>2. \A v \in D1 : EntryOf(v * PAGE_SIZE)' = IF v = w THEN e ELSE EntryOf(v * PAGE_SIZE)
    BY <1>3, Zenon
  <2>3. DOMAIN M = D /\ \A v \in D : M[v] = EntryOf(v * PAGE_SIZE)
    BY <1>4, Zenon
  <2> HIDE DEF D, D1
  <2> QED BY <1>4, <2>1, <2>2, <2>3, Zenon
<1>7. ASSUME e = Absent
      PROVE  M1 = [v \in DOMAIN M \ {w} |-> M[v]]
  <2>1. D1 = D \ {w}
    BY <1>1, <1>3, <1>7, Zenon
  <2>2. \A v \in D1 : EntryOf(v * PAGE_SIZE)' = IF v = w THEN e ELSE EntryOf(v * PAGE_SIZE)
    BY <1>3, Zenon
  <2>3. DOMAIN M = D /\ \A v \in D : M[v] = EntryOf(v * PAGE_SIZE)
    BY <1>4, Zenon
  <2> HIDE DEF D, D1
  <2> QED BY <1>4, <2>1, <2>2, <2>3, Zenon
<1> QED BY <1>1, <1>5, <1>6, <1>7, Zenon DEF w, M, M1

\* And the count of mapped pages with it.
LEMMA CountWritten ==
  ASSUME NEW w, NEW e,
         \/ DOMAIN Mapping' = DOMAIN Mapping \cup {w} /\ e # Absent
         \/ DOMAIN Mapping' = DOMAIN Mapping \ {w} /\ e = Absent
  PROVE  Cardinality(DOMAIN Mapping') =
           IF e # Absent /\ w \notin DOMAIN Mapping THEN Cardinality(DOMAIN Mapping) + 1
           ELSE IF e = Absent /\ w \in DOMAIN Mapping THEN Cardinality(DOMAIN Mapping) - 1
           ELSE Cardinality(DOMAIN Mapping)
<1> DEFINE D == DOMAIN Mapping
           D1 == DOMAIN Mapping'
<1>1. IsFiniteSet(D) /\ Cardinality(D) \in Nat
  BY MappedFinite, Zenon
<1>2. \/ D1 = D \cup {w} /\ e # Absent
      \/ D1 = D \ {w} /\ e = Absent
  BY Zenon
<1> HIDE DEF D, D1
<1>3. w \notin D => Cardinality(D \cup {w}) = Cardinality(D) + 1
  BY <1>1, FS_AddElement, Zenon
<1>4. w \in D => D \cup {w} = D /\ Cardinality(D \ {w}) = Cardinality(D) - 1
  BY <1>1, FS_RemoveElement
<1>5. w \notin D => D \ {w} = D
  BY Zenon
<1> QED BY <1>2, <1>3, <1>4, <1>5, Zenon DEF D, D1

-----------------------------------------------------------------------------
\* The inductive invariant.
Placed == \E lev, pre : Places(lev, pre) /\ AtPlace(lev, pre)

VInv == TypeOK /\ CallInv /\ PagesInv /\ MappedCounted /\ Placed

\* The address at hand.
LEMMA AtHand ==
  ASSUME TypeOK, CallInv
  PROVE  /\ \A k \in Nat : VirtAt(k) \in Nat /\ PhysAt(k) \in Nat
         /\ VirtAt(i) \in Nat
         /\ \A k \in Nat : PageOf(PhysAt(k)) \in Nat
<1>1. req.virt \in Nat /\ req.phys \in Nat /\ i \in Nat
  BY Zenon DEF CallInv, Request, TypeOK
<1>2. \A k \in Nat : k * PAGE_SIZE \in Nat
  BY VmmAssumption
<1>3. \A k \in Nat : VirtAt(k) \in Nat /\ PhysAt(k) \in Nat
  BY <1>1, <1>2 DEF VirtAt, PhysAt
<1>4. \A n \in Nat : PageOf(n) \in Nat
  BY VmmAssumption DEF PageOf
<1> QED BY <1>1, <1>3, <1>4, Zenon

\* The slot the walk looks at is the index of the address at hand.
LEMMA SlotIs ==
  ASSUME TypeOK, CallInv, level \in 1 .. 4
  PROVE  Slot \in Index /\ Slot = IndexAt(VirtAt(i), level)
<1>1. VirtAt(i) \in Nat
  BY AtHand, Zenon
<1> DEFINE va == VirtAt(i)
<1> HIDE DEF va
<1>2. /\ IndexAt(va, 1) \in Index /\ IndexAt(va, 2) \in Index
      /\ IndexAt(va, 3) \in Index /\ IndexAt(va, 4) \in Index
  BY <1>1, IndexTypes, Zenon DEF va
<1>3. level = 1 \/ level = 2 \/ level = 3 \/ level = 4
  OBVIOUS
<1>4. Slot = IndexAt(va, level)
  BY Zenon DEF Slot, va
<1> QED BY <1>2, <1>3, <1>4, Zenon DEF va

\* What is written for a mapped page is an entry.
LEMMA LeafEntry ==
  ASSUME TypeOK, CallInv, pc = "map"
  PROVE  LET e == [page |-> PageOf(PhysAt(i)), flags |-> req.flags]
         IN  e \in Entry /\ e # Absent
<1>1. PageOf(PhysAt(i)) \in Nat /\ req.flags \in Flags
  BY AtHand, Zenon DEF TypeOK, CallInv
<1> QED BY <1>1 DEF Entry, Absent, NULL

\* A mapped page is counted.
LEMMA MappedHere ==
  ASSUME TypeOK, Placed, NEW va \in Nat
  PROVE  EntryOf(va) # Absent =>
           VPageOf(va) \in DOMAIN Mapping /\ Cardinality(DOMAIN Mapping) > 0
<1>1. PICK lev, pre : Places(lev, pre)
  BY Zenon DEF Placed
<1> DEFINE w == VPageOf(va)
<1>2. w \in VPages
  BY Wraps, Zenon
<1>3. w * PAGE_SIZE \in Nat /\ VPageOf(w * PAGE_SIZE) = VPageOf(va)
  BY <1>2, OwnVPage, Zenon
<1> HIDE DEF w
<1>4. EntryOf(w * PAGE_SIZE) = EntryOf(va)
  BY <1>1, <1>3, EntryOfVPage, Zenon
<1> SUFFICES ASSUME EntryOf(va) # Absent
             PROVE  w \in DOMAIN Mapping /\ Cardinality(DOMAIN Mapping) > 0
  BY Zenon DEF w
<1>5. w \in DOMAIN Mapping
  BY <1>2, <1>4, MappedIs, Zenon
<1>6. Cardinality(DOMAIN Mapping) # 0
  BY <1>5, MappedFinite, FS_EmptySet, Zenon
<1> QED BY <1>5, <1>6, MappedFinite

\* The table that unmapping writes to.
LEMMA WalkedTo ==
  ASSUME TypeOK, NEW lev, NEW pre, Places(lev, pre), NEW va \in Nat, EntryOf(va) # Absent
  PROVE  /\ walk_table(va) \in DOMAIN tables
         /\ lev[walk_table(va)] = 1 /\ pre[walk_table(va)] = Prefix(va, 1)
<1>1. PICK t \in DOMAIN tables : lev[t] = 1 /\ pre[t] = Prefix(va, 1)
  BY Walk DEF EntryFact
<1>2. walk_table(va) = t
  BY <1>1, Walk, Zenon DEF EntryFact
<1> QED BY <1>1, <1>2, Zenon

\* A step down the tree stays in it.
LEMMA Descends ==
  ASSUME TypeOK, CallInv, NEW lev, NEW pre, Places(lev, pre), AtPlace(lev, pre),
         pc = "map", level > 1, tables[table][Slot] # Absent
  PROVE  LET c == tables[table][Slot].page IN
         /\ c \in DOMAIN tables /\ lev[c] = level - 1
         /\ pre[c] = Prefix(VirtAt(i), level - 1)
<1>1. /\ level \in 2 .. 4 /\ table \in DOMAIN tables
      /\ lev[table] = level /\ pre[table] = Prefix(VirtAt(i), level)
  BY DEF AtPlace
<1>2. Slot \in Index /\ Slot = IndexAt(VirtAt(i), level)
  BY <1>1, SlotIs
<1>3. Prefix(VirtAt(i), level - 1) = Prefix(VirtAt(i), level) * Entries + Slot
  BY <1>1, <1>2, AtHand, PrefixStep, Zenon
<1> HIDE DEF Slot
<1> DEFINE c == tables[table][Slot].page
<1>4. c \in DOMAIN tables /\ lev[c] = lev[table] - 1 /\ pre[c] = pre[table] * Entries + Slot
  BY <1>1, <1>2 DEF Places
<1> QED BY <1>1, <1>3, <1>4, Zenon

-----------------------------------------------------------------------------
\* Every step keeps the types, the call and the account of the pages.
TypesInv == TypeOK /\ CallInv /\ PagesInv

\* At the start there is no table,
LEMMA TypesInit ==
  ASSUME Init
  PROVE  TypeOK /\ PagesInv
<1>1. free \subseteq Pages /\ held \subseteq Pages /\ DOMAIN tables = {}
  BY Zenon DEF Init
<1>2. tables \in [DOMAIN tables -> [Index -> Entry]]
  BY <1>1, Zenon DEF Init
<1>3. TypeOK
  BY <1>1, <1>2 DEF Init, TypeOK
<1>4. PagesInv
  BY <1>1, Zenon DEF Init, PagesInv
<1> QED BY <1>3, <1>4, Zenon

\* and no call.
LEMMA RequestInit ==
  ASSUME Init
  PROVE  CallInv
<1>1. NoRequest \in Request
  BY Zenon DEF NoRequest, Request
<1> QED BY <1>1, Zenon DEF Init, CallInv

\* Of the steps that leave the tables alone.
LEMMA TypesQuiet ==
  ASSUME VInv, tables' = tables, pml4' = pml4
  PROVE  /\ MapNoRoot => TypesInv'
         /\ \A virt \in Virts, phys \in Physs, flags \in Flags, pages \in Counts :
              MapCall(virt, phys, flags, pages) => TypesInv'
         /\ \A virt \in Virts, pages \in Counts, ranged \in BOOLEAN :
              UnmapCall(virt, pages, ranged) => TypesInv'
         /\ MapDescend => TypesInv'
         /\ MapNoMemory => TypesInv'
         /\ OtherAlloc => TypesInv'
         /\ \A p \in held : OtherFree(p) => TypesInv'
<1>1. TypeOK /\ CallInv /\ PagesInv
  BY Zenon DEF VInv
<1>2. NoRequest \in Request
  BY Zenon DEF NoRequest, Request
<1>3. NULL \notin DOMAIN tables
  BY <1>1, NullIsNoTable, Zenon
<1>4. MapNoRoot => TypesInv'
  BY <1>1, Zenon DEF MapNoRoot, TypesInv, TypeOK, CallInv, PagesInv
<1>5. ASSUME NEW virt \in Virts, NEW phys \in Physs, NEW flags \in Flags, NEW pages \in Counts,
             MapCall(virt, phys, flags, pages)
      PROVE  TypesInv'
  <2>1. req' \in Request /\ 0 < pages
    BY <1>5, VmmAssumption DEF MapCall, Request
  <2>2. TypeOK'
    BY <1>1, <1>5 DEF MapCall, TypeOK
  <2>3. CallInv'
    BY <1>1, <1>5, <2>1, Zenon DEF MapCall, CallInv
  <2>4. PagesInv'
    BY <1>1, <1>5, Zenon DEF MapCall, PagesInv
  <2> QED BY <2>2, <2>3, <2>4, Zenon DEF TypesInv
<1>6. ASSUME NEW virt \in Virts, NEW pages \in Counts, NEW ranged \in BOOLEAN,
             UnmapCall(virt, pages, ranged)
      PROVE  TypesInv'
  <2>a. req' = [virt |-> virt, phys |-> 0, flags |-> "none", pages |-> pages, ranged |-> ranged]
    BY <1>6, Zenon DEF UnmapCall, NoRequest
  <2>b. virt \in Nat /\ pages \in Nat /\ 0 < pages
    BY VmmAssumption
  <2>1. /\ req' \in Request /\ 0 < pages
        /\ req'.virt = virt /\ req'.pages = pages
    BY <2>a, <2>b, Zenon DEF Request
  <2>2. TypeOK'
    BY <1>1, <1>6, Zenon DEF UnmapCall, TypeOK
  <2>3. CallInv'
    BY <1>1, <1>6, <2>1, Zenon DEF UnmapCall, CallInv
  <2>4. PagesInv'
    BY <1>1, <1>6, Zenon DEF UnmapCall, PagesInv
  <2> QED BY <2>2, <2>3, <2>4, Zenon DEF TypesInv
<1>7. ASSUME MapDescend
      PROVE  TypesInv'
  <2>1. PICK lev, pre : Places(lev, pre) /\ AtPlace(lev, pre)
    BY Zenon DEF VInv, Placed
  <2>2. table' \in DOMAIN tables
    BY <1>1, <1>7, <2>1, Descends, Zenon DEF MapDescend
  <2>3. TypeOK'
    BY <1>1, <1>3, <1>7, <2>2 DEF MapDescend, TypeOK
  <2>4. CallInv' /\ PagesInv'
    BY <1>1, <1>7, Zenon DEF MapDescend, CallInv, PagesInv
  <2> QED BY <2>3, <2>4, Zenon DEF TypesInv
<1>8. ASSUME MapNoMemory
      PROVE  TypesInv'
  <2>1. TypeOK'
    BY <1>1, <1>8 DEF MapNoMemory, Return, TypeOK
  <2>2. CallInv' /\ PagesInv'
    BY <1>1, <1>2, <1>8, Zenon DEF MapNoMemory, Return, CallInv, PagesInv
  <2> QED BY <2>1, <2>2, Zenon DEF TypesInv
<1>9. ASSUME OtherAlloc
      PROVE  TypesInv'
  <2>1. pmm_alloc \in free
    BY <1>1, <1>9, AllocIsFree, Zenon DEF OtherAlloc
  <2>2. TypeOK'
    BY <1>1, <1>9, <2>1, Zenon DEF OtherAlloc, TypeOK
  <2>3. CallInv'
    BY <1>1, <1>9, Zenon DEF OtherAlloc, CallInv
  <2>4. PagesInv'
    BY <1>1, <1>9, <2>1, Zenon DEF OtherAlloc, PagesInv
  <2> QED BY <2>2, <2>3, <2>4, Zenon DEF TypesInv
<1>10. ASSUME NEW p \in held, OtherFree(p)
       PROVE  TypesInv'
  <2>1. TypeOK'
    BY <1>1, <1>10, Zenon DEF OtherFree, TypeOK
  <2>2. CallInv'
    BY <1>1, <1>10, Zenon DEF OtherFree, CallInv
  <2>3. PagesInv'
    BY <1>1, <1>10, Zenon DEF OtherFree, PagesInv
  <2> QED BY <2>1, <2>2, <2>3, Zenon DEF TypesInv
<1> QED BY <1>4, <1>5, <1>6, <1>7, <1>8, <1>9, <1>10, Zenon

\* Of the steps that take a page for a table.
LEMMA TypesTaken ==
  ASSUME VInv
  PROVE  /\ vmm_init => TypesInv'
         /\ MapCreate => TypesInv'
<1>1. TypeOK /\ CallInv /\ PagesInv
  BY Zenon DEF VInv
<1>2. ASSUME vmm_init
      PROVE  TypesInv'
  <2>1. CASE free = {}
    <3>1. TypeOK'
      BY <1>1, <1>2, <2>1, Zenon DEF vmm_init, TypeOK
    <3>2. CallInv' /\ PagesInv'
      BY <1>1, <1>2, <2>1, Zenon DEF vmm_init, CallInv, PagesInv
    <3> QED BY <3>1, <3>2, Zenon DEF TypesInv
  <2>2. CASE free # {}
    <3> DEFINE p == pmm_alloc
    <3>1. p \in free /\ p \in Pages /\ p \notin DOMAIN tables /\ p # NULL
      BY <1>1, <2>2, AllocIsFree, Zenon
    <3>2. tables' = WithTable(p) /\ pml4' = p /\ free' = free \ {p}
      BY <1>2, <2>2, Zenon DEF vmm_init
    <3> HIDE DEF p
    <3>3. DOMAIN tables' = DOMAIN tables \cup {p}
          /\ tables' \in [DOMAIN tables' -> [Index -> Entry]]
      BY <1>1, <3>1, <3>2, Extended, Zenon
    <3>4. UNCHANGED <<held, req, i, level, table, result>> /\ pc = "boot" /\ pc' = "idle" /\ mapped' = 0
      BY <1>2, Zenon DEF vmm_init
    <3>5. TypeOK'
      BY <1>1, <3>1, <3>2, <3>3, <3>4, Zenon DEF TypeOK
    <3>6. CallInv'
      BY <1>1, <3>4, Zenon DEF CallInv
    <3>7. PagesInv'
      BY <1>1, <3>1, <3>2, <3>3, <3>4 DEF PagesInv
    <3> QED BY <3>5, <3>6, <3>7, Zenon DEF TypesInv
  <2> QED BY <2>1, <2>2, Zenon
<1>3. ASSUME MapCreate
      PROVE  TypesInv'
  <2> DEFINE p == pmm_alloc
  <2>1. PICK lev, pre : Places(lev, pre) /\ AtPlace(lev, pre)
    BY Zenon DEF VInv, Placed
  <2>2. table \in DOMAIN tables /\ level \in 2 .. 4 /\ Slot \in Index
    BY <1>1, <1>3, <2>1, SlotIs DEF MapCreate, AtPlace
  <2>3. p \in free /\ p \in Pages /\ p \in Nat /\ p \notin DOMAIN tables /\ p # NULL
    BY <1>1, <1>3, AllocIsFree, Zenon DEF MapCreate
  <2>4. /\ tables' = WithLink(p, table, Slot) /\ free' = free \ {p} /\ table' = p
        /\ level' = level - 1 /\ pc = "map"
        /\ UNCHANGED <<held, pml4, mapped, pc, req, i, result>>
    BY <1>3, Zenon DEF MapCreate, Created, WithLink, Link
  <2> HIDE DEF p, Slot
  <2>5. DOMAIN tables' = DOMAIN tables \cup {p}
        /\ tables' \in [DOMAIN tables' -> [Index -> Entry]]
    BY <1>1, <2>2, <2>3, <2>4, CreatedIs
  <2>6. TypeOK'
    BY <1>1, <2>2, <2>3, <2>4, <2>5 DEF TypeOK
  <2>7. CallInv'
    BY <1>1, <2>4, Zenon DEF CallInv
  <2>8. PagesInv'
    BY <1>1, <2>3, <2>4, <2>5, Zenon DEF PagesInv
  <2> QED BY <2>6, <2>7, <2>8, Zenon DEF TypesInv
<1> QED BY <1>2, <1>3, Zenon

\* Of the steps that write an entry.
LEMMA TypesWritten ==
  ASSUME VInv
  PROVE  /\ MapSet => TypesInv'
         /\ UnmapPage => TypesInv'
<1>1. TypeOK /\ CallInv /\ PagesInv /\ Placed
  BY Zenon DEF VInv
<1>2. PICK lev, pre : Places(lev, pre) /\ AtPlace(lev, pre)
  BY <1>1, Zenon DEF Placed
<1>3. NoRequest \in Request
  BY Zenon DEF NoRequest, Request
<1>4. ASSUME MapSet
      PROVE  TypesInv'
  <2> DEFINE e == [page |-> PageOf(PhysAt(i)), flags |-> req.flags]
  <2>1. table \in DOMAIN tables /\ Slot \in Index
    BY <1>1, <1>2, <1>4, SlotIs, Zenon DEF MapSet, AtPlace
  <2>2. e \in Entry
    BY <1>1, <1>4, LeafEntry, Zenon DEF MapSet
  <2>3. tables' = [tables EXCEPT ![table][Slot] = e]
    BY <1>4, Zenon DEF MapSet
  <2> HIDE DEF e, Slot
  <2>4. DOMAIN tables' = DOMAIN tables /\ tables' \in [DOMAIN tables' -> [Index -> Entry]]
    BY <1>1, <2>1, <2>2, <2>3, Written, Zenon
  <2>5. mapped' \in Nat
    BY <1>1, <1>4 DEF MapSet, Counted, TypeOK
  <2>6. UNCHANGED <<free, held, pml4>> /\ pc = "map"
    BY <1>4, Zenon DEF MapSet
  <2>7. PagesInv'
    BY <1>1, <2>4, <2>6, Zenon DEF PagesInv
  <2>8. CASE i + 1 < req.pages
    <3>1. i' = i + 1 /\ level' = 4 /\ table' = pml4 /\ UNCHANGED <<pc, req, result>>
      BY <1>4, <2>8, Zenon DEF MapSet
    <3>2. pml4 # NULL
      BY <1>1, <2>6, Zenon DEF CallInv
    <3>3. TypeOK'
      BY <1>1, <2>4, <2>5, <2>6, <3>1, <3>2 DEF TypeOK
    <3>4. CallInv'
      BY <1>1, <2>6, <2>8, <3>1, Zenon DEF CallInv
    <3> QED BY <2>7, <3>3, <3>4, Zenon DEF TypesInv
  <2>9. CASE ~(i + 1 < req.pages)
    <3>1. Return(0)
      BY <1>4, <2>9, Zenon DEF MapSet
    <3>2. TypeOK'
      BY <1>1, <2>4, <2>5, <2>6, <3>1 DEF TypeOK, Return
    <3>3. CallInv'
      BY <1>3, <3>1, Zenon DEF CallInv, Return
    <3> QED BY <2>7, <3>2, <3>3, Zenon DEF TypesInv
  <2> QED BY <2>8, <2>9, Zenon
<1>5. ASSUME UnmapPage
      PROVE  TypesInv'
  <2> DEFINE va == VirtAt(i)
             there == EntryOf(va) # Absent
  <2>1. va \in Nat
    BY <1>1, AtHand, Zenon
  <2>2. /\ pc = "unmap" /\ UNCHANGED <<free, held, pml4>>
        /\ tables' = (IF there THEN Cleared(va) ELSE tables) /\ mapped' = Discounted(there)
    BY <1>5, Zenon DEF UnmapPage, vmm_unmap
  <2>3. \/ i + 1 < req.pages /\ i' = i + 1 /\ UNCHANGED <<pc, req, level, table, result>>
        \/ Return(0) \/ Return(-1)
    BY <1>5, Zenon DEF UnmapPage, vmm_unmap
  <2> HIDE DEF va
  <2>4. DOMAIN tables' = DOMAIN tables /\ tables' \in [DOMAIN tables' -> [Index -> Entry]]
    <3>1. CASE there
      <4>1. walk_table(va) \in DOMAIN tables /\ IndexAt(va, 1) \in Index /\ Absent \in Entry
        BY <1>1, <1>2, <2>1, <3>1, WalkedTo, IndexTypes, Zenon DEF Entry
      <4>2. tables' = [tables EXCEPT ![walk_table(va)][IndexAt(va, 1)] = Absent]
        BY <2>2, <3>1, Zenon DEF Cleared
      <4> QED BY <1>1, <4>1, <4>2, Written
    <3>2. CASE ~there
      BY <1>1, <2>2, <3>2, Zenon DEF TypeOK
    <3> QED BY <3>1, <3>2, Zenon
  <2>5. mapped' \in Nat
    <3>1. there => mapped > 0
      BY <1>1, <2>1, MappedHere, Zenon DEF VInv, MappedCounted
    <3> HIDE DEF there
    <3> QED BY <1>1, <2>2, <3>1 DEF TypeOK, Discounted
  <2> HIDE DEF there
  <2>6. PagesInv'
    BY <1>1, <2>2, <2>4, Zenon DEF PagesInv
  <2>7. CASE i + 1 < req.pages /\ i' = i + 1 /\ UNCHANGED <<pc, req, level, table, result>>
    <3>1. TypeOK'
      BY <1>1, <2>2, <2>4, <2>5, <2>7 DEF TypeOK
    <3>2. CallInv'
      BY <1>1, <2>2, <2>7, Zenon DEF CallInv
    <3> QED BY <2>6, <3>1, <3>2, Zenon DEF TypesInv
  <2>8. CASE Return(0) \/ Return(-1)
    <3>1. TypeOK'
      BY <1>1, <2>2, <2>4, <2>5, <2>8 DEF TypeOK, Return
    <3>2. CallInv'
      BY <1>3, <2>8, Zenon DEF CallInv, Return
    <3> QED BY <2>6, <3>1, <3>2, Zenon DEF TypesInv
  <2> QED BY <2>3, <2>7, <2>8, Zenon
<1> QED BY <1>4, <1>5, Zenon

-----------------------------------------------------------------------------
\* What a step does to the entries and to the count.
Same == (\A va \in Nat : EntryOf(va)' = EntryOf(va)) /\ mapped' = mapped

Wrote(va, e) ==
  /\ \A vb \in Nat : EntryOf(vb)' = IF VPageOf(vb) = VPageOf(va) THEN e ELSE EntryOf(vb)
  /\ mapped' = IF e # Absent THEN (IF EntryOf(va) = Absent THEN mapped + 1 ELSE mapped)
                             ELSE (IF EntryOf(va) = Absent THEN mapped ELSE mapped - 1)

\* The steps that leave the tables alone.
LEMMA StepQuiet ==
  ASSUME VInv, UNCHANGED <<tables, pml4, mapped>>,
         \/ pc' # "map"
         \/ pml4 # NULL /\ level' = 4 /\ table' = pml4
         \/ UNCHANGED <<pc, req, i, level, table>>
         \/ MapDescend
  PROVE  Placed' /\ Same
<1>1. TypeOK /\ CallInv
  BY Zenon DEF VInv
<1>2. PICK lev, pre : Places(lev, pre) /\ AtPlace(lev, pre)
  BY Zenon DEF VInv, Placed
<1>3. Places(lev, pre)' /\ Same
  BY <1>2, Untouched, Zenon DEF Same
<1>4. CASE pc' # "map"
  BY <1>3, <1>4, Zenon DEF Placed, AtPlace
<1>5. CASE pml4 # NULL /\ level' = 4 /\ table' = pml4
  <2>1. pml4 \in DOMAIN tables /\ lev[pml4] = 4 /\ pre[pml4] = 0
    BY <1>1, <1>2, <1>5, Zenon DEF TypeOK, Places
  <2>2. AtPlace(lev, pre)'
    BY <1>5, <2>1 DEF AtPlace, Prefix
  <2> QED BY <1>3, <2>2, Zenon DEF Placed
<1>6. CASE UNCHANGED <<pc, req, i, level, table>>
  <2>1. AtPlace(lev, pre)'
    BY <1>2, <1>6, Zenon DEF AtPlace, VirtAt
  <2> QED BY <1>3, <2>1, Zenon DEF Placed
<1>7. CASE MapDescend
  <2>1. /\ pc = "map" /\ level > 1 /\ tables[table][Slot] # Absent
        /\ table' = tables[table][Slot].page /\ level' = level - 1
        /\ UNCHANGED <<pc, req, i>>
    BY <1>7, Zenon DEF MapDescend
  <2>2. /\ table' \in DOMAIN tables /\ lev[table'] = level - 1
        /\ pre[table'] = Prefix(VirtAt(i), level - 1)
    BY <1>1, <1>2, <2>1, Descends, Zenon
  <2>3. level' \in 1 .. 4
    BY <1>2, <2>1 DEF AtPlace
  <2>4. VirtAt(i)' = VirtAt(i)
    BY <2>1, Zenon DEF VirtAt
  <2>5. AtPlace(lev, pre)'
    BY <2>1, <2>2, <2>3, <2>4, Zenon DEF AtPlace
  <2> QED BY <1>3, <2>5, Zenon DEF Placed
<1> QED BY <1>4, <1>5, <1>6, <1>7, Zenon

\* No root table, no entries.
LEMMA NothingMapped ==
  ASSUME TypeOK, Placed, pml4 = NULL
  PROVE  /\ \A va \in Nat : EntryOf(va) = Absent
         /\ DOMAIN Mapping = {} /\ Cardinality(DOMAIN Mapping) = 0
<1>1. PICK lev, pre : Places(lev, pre)
  BY Zenon DEF Placed
<1>2. DOMAIN tables = {}
  BY <1>1, Zenon DEF Places
<1>3. \A va \in Nat : EntryOf(va) = Absent
  BY <1>1, <1>2, Walk, Zenon DEF EntryFact
<1>4. \A v \in VPages : v * PAGE_SIZE \in Nat
  BY OwnVPage, Zenon
<1>5. DOMAIN Mapping = {}
  BY <1>3, <1>4, MappedIs, Zenon
<1> QED BY <1>3, <1>5, FS_EmptySet, Zenon

\* vmm_init makes the root, which maps nothing.
LEMMA StepInit ==
  ASSUME VInv, TypeOK', vmm_init
  PROVE  Placed' /\ Same
<1>1. TypeOK /\ CallInv /\ PagesInv /\ MappedCounted /\ Placed /\ pml4 = NULL /\ pc = "boot"
  BY Zenon DEF VInv, CallInv, vmm_init
<1>2. /\ \A va \in Nat : EntryOf(va) = Absent
      /\ mapped = 0
  BY <1>1, NothingMapped, Zenon DEF MappedCounted
<1>3. mapped' = mapped /\ pc' = "idle"
  BY <1>2, Zenon DEF vmm_init
<1>4. CASE free = {}
  <2>1. tables' = tables /\ pml4' = pml4
    BY <1>4, Zenon DEF vmm_init
  <2> QED BY <1>3, <2>1, StepQuiet, Zenon
<1>5. CASE free # {}
  <2> DEFINE p == pmm_alloc
  <2>1. DOMAIN tables = {}
    BY <1>1, Zenon DEF Placed, Places
  <2>2. p \notin DOMAIN tables /\ p # NULL
    BY <1>1, <1>5, AllocIsFree, Zenon
  <2>3. tables' = WithTable(p) /\ pml4' = p
    BY <1>5, Zenon DEF vmm_init
  <2> HIDE DEF p
  <2>4. DOMAIN tables' = {p} /\ \A y \in Index : tables'[p][y] = Absent
    BY <1>1, <2>1, <2>2, <2>3, Extended, Zenon
  <2>5. PICK lev, pre : lev = [t \in {p} |-> 4] /\ pre = [t \in {p} |-> 0]
    BY Zenon
  <2>6. lev[p] = 4 /\ pre[p] = 0 /\ lev \in [{p} -> 1 .. 4] /\ pre \in [{p} -> Nat]
    BY <2>5
  <2>7. Places(lev, pre)'
    BY <2>2, <2>3, <2>4, <2>6 DEF Places
  <2>8. AtPlace(lev, pre)'
    BY <1>3, Zenon DEF AtPlace
  <2>9. \A va \in Nat : EntryOf(va)' = Absent
    BY <2>4, <2>6, <2>7, WalkNext DEF EntryFact
  <2> QED BY <1>2, <1>3, <2>7, <2>8, <2>9, Zenon DEF Placed, Same
<1> QED BY <1>4, <1>5, Zenon

\* A new table gets its place and maps nothing.
LEMMA StepCreate ==
  ASSUME VInv, TypeOK', MapCreate
  PROVE  Placed' /\ Same
<1> DEFINE p == pmm_alloc
<1>1. TypeOK /\ CallInv /\ PagesInv
  BY Zenon DEF VInv
<1>2. PICK lev, pre : Places(lev, pre) /\ AtPlace(lev, pre)
  BY Zenon DEF VInv, Placed
<1>3. /\ pc = "map" /\ level > 1 /\ tables[table][Slot] = Absent /\ free # {}
      /\ tables' = WithLink(p, table, Slot) /\ table' = p /\ level' = level - 1
      /\ UNCHANGED <<pml4, mapped, pc, req, i>>
  BY Zenon DEF MapCreate, Created, WithLink, Link
<1>4. p \in Nat /\ p \notin DOMAIN tables /\ p # NULL /\ p # pml4
  BY <1>1, <1>3, AllocIsFree, Zenon
<1>5. /\ level \in 2 .. 4 /\ table \in DOMAIN tables
      /\ lev[table] = level /\ pre[table] = Prefix(VirtAt(i), level)
  BY <1>2, <1>3 DEF AtPlace
<1>6. Slot \in Index /\ Slot = IndexAt(VirtAt(i), level)
  BY <1>1, <1>5, SlotIs
<1>7. /\ Prefix(VirtAt(i), level) \in Nat
      /\ Prefix(VirtAt(i), level - 1) = Prefix(VirtAt(i), level) * Entries + Slot
  BY <1>1, <1>5, <1>6, AtHand, PrefixStep, Zenon
<1>8. Prefix(VirtAt(i), level - 1) \in Nat
  BY <1>6, <1>7, VmmAssumption DEF Index
<1> DEFINE D == DOMAIN tables \cup {p}
<1>9. PICK q : q = Prefix(VirtAt(i), level - 1)
  BY Zenon
<1>10. PICK l : l = level - 1
  BY Zenon
<1>11. PICK lev1, pre1 : /\ lev1 = [u \in D |-> IF u = p THEN l ELSE lev[u]]
                         /\ pre1 = [u \in D |-> IF u = p THEN q ELSE pre[u]]
  BY Zenon
<1> HIDE DEF p, Slot
<1>12. lev \in [DOMAIN tables -> 1 .. 4] /\ pre \in [DOMAIN tables -> Nat]
  BY <1>2, Zenon DEF Places
<1>13. /\ lev1 \in [DOMAIN tables \cup {p} -> 1 .. 4]
       /\ pre1 \in [DOMAIN tables \cup {p} -> Nat]
       /\ lev1[p] = lev[table] - 1 /\ pre1[p] = pre[table] * Entries + Slot
       /\ lev1[p] = l /\ pre1[p] = q
       /\ \A u \in DOMAIN tables : lev1[u] = lev[u] /\ pre1[u] = pre[u]
  <2>1. l \in 1 .. 4 /\ q \in Nat
    BY <1>5, <1>8, <1>9, <1>10
  <2>2. lev1[p] = l /\ pre1[p] = q
    BY <1>11, Zenon
  <2>3. \A u \in DOMAIN tables : lev1[u] = lev[u] /\ pre1[u] = pre[u]
    BY <1>4, <1>11, Zenon
  <2>4. lev1 \in [D -> 1 .. 4] /\ pre1 \in [D -> Nat]
    BY <1>11, <1>12, <2>1, Zenon
  <2>5. lev[table] - 1 = l /\ pre[table] * Entries + Slot = q
    BY <1>5, <1>7, <1>9, <1>10, Zenon
  <2> QED BY <2>2, <2>3, <2>4, <2>5, Zenon
<1>a. PICK t \in DOMAIN tables, x \in Index : t = table /\ x = Slot
  BY <1>5, <1>6, Zenon
<1>b. /\ tables[t][x] = Absent /\ tables' = WithLink(p, t, x) /\ pml4' = pml4
      /\ lev[t] > 1 /\ lev1[p] = lev[t] - 1 /\ pre1[p] = pre[t] * Entries + x
  BY <1>3, <1>5, <1>13, <1>a, Zenon
<1>c. /\ lev1 \in [DOMAIN tables \cup {p} -> 1 .. 4]
      /\ pre1 \in [DOMAIN tables \cup {p} -> Nat]
      /\ \A u \in DOMAIN tables : lev1[u] = lev[u] /\ pre1[u] = pre[u]
  BY <1>13, Zenon
<1>d. TypeOK /\ Places(lev, pre) /\ p \in Nat /\ p \notin DOMAIN tables /\ p # pml4
  BY <1>1, <1>2, <1>4, Zenon
<1>14. Places(lev1, pre1)' /\ \A va \in Nat : EntryOf(va)' = EntryOf(va)
  BY <1>b, <1>c, <1>d, TableLinked
<1>15. p \in DOMAIN tables'
  <2>1. DOMAIN WithLink(p, t, x) = DOMAIN tables \cup {p}
    BY <1>d, CreatedIs, Zenon
  <2> QED BY <1>b, <2>1, Zenon
<1>16. VirtAt(i)' = VirtAt(i)
  BY <1>3, Zenon DEF VirtAt
<1>17. AtPlace(lev1, pre1)'
  BY <1>3, <1>5, <1>9, <1>10, <1>13, <1>15, <1>16 DEF AtPlace
<1> QED BY <1>3, <1>14, <1>17, Zenon DEF Placed, Same

\* MapSet writes the entry of the page at hand,
LEMMA StepSet ==
  ASSUME VInv, TypeOK', MapSet
  PROVE  /\ Placed'
         /\ Wrote(VirtAt(i), [page |-> PageOf(PhysAt(i)), flags |-> req.flags])
<1> DEFINE va == VirtAt(i)
           e == [page |-> PageOf(PhysAt(i)), flags |-> req.flags]
<1>1. TypeOK /\ CallInv /\ pc = "map" /\ pml4 # NULL
  BY Zenon DEF VInv, MapSet, CallInv
<1>2. PICK lev, pre : Places(lev, pre) /\ AtPlace(lev, pre)
  BY Zenon DEF VInv, Placed
<1>3. /\ level = 1 /\ tables' = [tables EXCEPT ![table][Slot] = e]
      /\ mapped' = Counted /\ pml4' = pml4
  BY Zenon DEF MapSet
<1>4. va \in Nat /\ e \in Entry /\ e # Absent
  BY <1>1, AtHand, LeafEntry, Zenon
<1>5. table \in DOMAIN tables /\ lev[table] = 1 /\ pre[table] = Prefix(va, 1)
  BY <1>1, <1>2, <1>3, Zenon DEF AtPlace
<1>6. Slot = IndexAt(va, 1)
  BY <1>3, Zenon DEF Slot
<1>7. pc' = "map" => level' = 4 /\ table' = pml4
  BY Zenon DEF MapSet, Return
<1>8. mapped' = IF tables[table][IndexAt(va, 1)] = Absent THEN mapped + 1 ELSE mapped
  BY <1>3, <1>6, Zenon DEF Counted
<1> HIDE DEF va, e
<1>9. EntryOf(va) = tables[table][IndexAt(va, 1)]
  BY <1>1, <1>2, <1>4, <1>5, Walk, Zenon DEF EntryFact
<1>10. /\ Places(lev, pre)'
       /\ \A vb \in Nat : EntryOf(vb)' = IF VPageOf(vb) = VPageOf(va) THEN e ELSE EntryOf(vb)
  <2>1. PICK t \in DOMAIN tables : t = table
    BY <1>5, Zenon
  <2>2. /\ tables' = WithEntry(t, IndexAt(va, 1), e) /\ pml4' = pml4
        /\ lev[t] = 1 /\ pre[t] = Prefix(va, 1)
    BY <1>3, <1>5, <1>6, <2>1, Zenon DEF WithEntry
  <2> QED BY <1>1, <1>2, <1>4, <2>2, LeafWritten
<1>11. AtPlace(lev, pre)'
  <2>1. pml4 \in DOMAIN tables /\ lev[pml4] = 4 /\ pre[pml4] = 0
    BY <1>1, <1>2, Zenon DEF TypeOK, Places
  <2>2. pml4 \in DOMAIN tables'
    BY <1>1, <1>3, Zenon DEF TypeOK, CallInv
  <2> QED BY <1>7, <2>1, <2>2 DEF AtPlace, Prefix
<1> QED BY <1>4, <1>8, <1>9, <1>10, <1>11, Zenon DEF Placed, Wrote, va, e

\* and UnmapPage clears it.
LEMMA StepUnmap ==
  ASSUME VInv, TypeOK', UnmapPage
  PROVE  /\ Placed'
         /\ Wrote(VirtAt(i), Absent)
         /\ EntryOf(VirtAt(i)) = Absent => Same
<1> DEFINE va == VirtAt(i)
<1>1. TypeOK /\ CallInv /\ pc' # "map"
  BY Zenon DEF VInv, UnmapPage, vmm_unmap, Return
<1>2. PICK lev, pre : Places(lev, pre) /\ AtPlace(lev, pre)
  BY Zenon DEF VInv, Placed
<1>3. /\ tables' = (IF EntryOf(va) # Absent THEN Cleared(va) ELSE tables) /\ pml4' = pml4
      /\ mapped' = IF EntryOf(va) # Absent THEN mapped - 1 ELSE mapped
  BY Zenon DEF UnmapPage, vmm_unmap, Discounted
<1>4. va \in Nat
  BY <1>1, AtHand, Zenon
<1> HIDE DEF va
<1>5. CASE EntryOf(va) = Absent
  <2>1. UNCHANGED <<tables, pml4, mapped>>
    BY <1>3, <1>5, Zenon
  <2>2. Placed' /\ Same
    BY <1>1, <2>1, StepQuiet, Zenon
  <2>3. \A vb \in Nat : VPageOf(vb) = VPageOf(va) => EntryOf(vb) = Absent
    BY <1>1, <1>2, <1>4, <1>5, EntryOfVPage, Zenon
  <2>4. Wrote(va, Absent)
    BY <1>5, <2>2, <2>3, Zenon DEF Wrote, Same
  <2> QED BY <2>2, <2>4, Zenon DEF va
<1>6. CASE EntryOf(va) # Absent
  <2>1. PICK t \in DOMAIN tables :
           t = walk_table(va) /\ lev[t] = 1 /\ pre[t] = Prefix(va, 1)
    BY <1>1, <1>2, <1>4, <1>6, WalkedTo, Zenon
  <2>2. tables' = WithEntry(t, IndexAt(va, 1), Absent) /\ pml4' = pml4
    BY <1>3, <1>6, <2>1, Zenon DEF Cleared, WithEntry
  <2>3. Absent \in Entry
    BY Zenon DEF Entry
  <2>a. TypeOK /\ Places(lev, pre) /\ lev[t] = 1 /\ pre[t] = Prefix(va, 1)
    BY <1>1, <1>2, <2>1, Zenon
  <2>4. /\ Places(lev, pre)'
        /\ \A vb \in Nat : EntryOf(vb)' = IF VPageOf(vb) = VPageOf(va) THEN Absent ELSE EntryOf(vb)
    BY <1>4, <2>2, <2>3, <2>a, LeafWritten
  <2>5. AtPlace(lev, pre)'
    BY <1>1, Zenon DEF AtPlace
  <2> QED BY <1>3, <1>6, <2>4, <2>5, Zenon DEF Placed, Wrote, va
<1> QED BY <1>5, <1>6, Zenon

-----------------------------------------------------------------------------
\* What each step does.
Leaf == [page |-> PageOf(PhysAt(i)), flags |-> req.flags]

Effect ==
  \/ Same
  \/ MapSet /\ Wrote(VirtAt(i), Leaf)
  \/ UnmapPage /\ Wrote(VirtAt(i), Absent) /\ EntryOf(VirtAt(i)) # Absent

\* Every step keeps the invariant and has one of these effects.
LEMMA StepEffect ==
  ASSUME VInv, [Next]_vars
  PROVE  TypesInv' /\ Placed' /\ Effect
<1>1. TypeOK /\ CallInv /\ PagesInv
  BY Zenon DEF VInv
<1>2. CASE vmm_init
  BY <1>2, TypesTaken, StepInit, Zenon DEF TypesInv, Effect
<1>3. CASE MapNoRoot
  <2>1. UNCHANGED <<tables, pml4, mapped, pc, req, i, level, table>>
    BY <1>3, Zenon DEF MapNoRoot
  <2> QED BY <1>3, <2>1, TypesQuiet, StepQuiet, Zenon DEF Effect
<1>4. ASSUME NEW virt \in Virts, NEW pages \in Counts, NEW phys \in Physs, NEW flags \in Flags,
             MapCall(virt, phys, flags, pages)
      PROVE  TypesInv' /\ Placed' /\ Effect
  <2>1. UNCHANGED <<tables, pml4, mapped>> /\ pml4 # NULL /\ level' = 4 /\ table' = pml4
    BY <1>4, Zenon DEF MapCall
  <2>2. TypesInv'
    BY <1>4, <2>1, TypesQuiet, Zenon
  <2> QED BY <2>1, <2>2, StepQuiet, Zenon DEF Effect
<1>5. ASSUME NEW virt \in Virts, NEW pages \in Counts, NEW ranged \in BOOLEAN,
             UnmapCall(virt, pages, ranged)
      PROVE  TypesInv' /\ Placed' /\ Effect
  <2>1. UNCHANGED <<tables, pml4, mapped>> /\ pc' # "map"
    BY <1>5, Zenon DEF UnmapCall
  <2>2. TypesInv'
    BY <1>5, <2>1, TypesQuiet, Zenon
  <2> QED BY <2>1, <2>2, StepQuiet, Zenon DEF Effect
<1>6. CASE MapDescend
  <2>1. UNCHANGED <<tables, pml4, mapped>>
    BY <1>6, Zenon DEF MapDescend
  <2> QED BY <1>6, <2>1, TypesQuiet, StepQuiet, Zenon DEF Effect
<1>7. CASE MapCreate
  BY <1>7, TypesTaken, StepCreate, Zenon DEF TypesInv, Effect
<1>8. CASE MapNoMemory
  <2>1. UNCHANGED <<tables, pml4, mapped>> /\ pc' # "map"
    BY <1>8, Zenon DEF MapNoMemory, Return
  <2> QED BY <1>8, <2>1, TypesQuiet, StepQuiet, Zenon DEF Effect
<1>9. CASE MapSet
  BY <1>9, TypesWritten, StepSet, Zenon DEF TypesInv, Effect, Leaf
<1>10. CASE UnmapPage
  BY <1>10, TypesWritten, StepUnmap, Zenon DEF TypesInv, Effect
<1>11. CASE OtherAlloc
  <2>1. UNCHANGED <<tables, pml4, mapped, pc, req, i, level, table>>
    BY <1>11, Zenon DEF OtherAlloc
  <2> QED BY <1>11, <2>1, TypesQuiet, StepQuiet, Zenon DEF Effect
<1>12. ASSUME NEW p \in held, OtherFree(p)
       PROVE  TypesInv' /\ Placed' /\ Effect
  <2>1. UNCHANGED <<tables, pml4, mapped, pc, req, i, level, table>>
    BY <1>12, Zenon DEF OtherFree
  <2>2. TypesInv'
    BY <1>12, <2>1, TypesQuiet, Zenon
  <2> QED BY <2>1, <2>2, StepQuiet, Zenon DEF Effect
<1>13. CASE UNCHANGED vars
  <2>1. UNCHANGED <<tables, pml4, mapped, pc, req, i, level, table>>
    BY <1>13, Zenon DEF vars
  <2>2. TypesInv'
    BY <1>1, <1>13, Zenon DEF TypesInv, TypeOK, CallInv, PagesInv, vars
  <2> QED BY <2>1, <2>2, StepQuiet, Zenon DEF Effect
<1>14. CASE Next
  BY <1>2, <1>3, <1>4, <1>5, <1>6, <1>7, <1>8, <1>9, <1>10, <1>11, <1>12, <1>14, Zenon
     DEF Next, Call
<1> QED BY <1>13, <1>14, Zenon

\* An entry written for a page is a present one.
LEMMA LeafPresent ==
  ASSUME TypeOK, CallInv, pc = "map"
  PROVE  Leaf # Absent
BY LeafEntry, Zenon DEF Leaf

\* So the count stays right: it goes up or down with the one entry.
LEMMA CountStep ==
  ASSUME VInv, Effect
  PROVE  MappedCounted'
<1>1. TypeOK /\ CallInv /\ Placed /\ mapped = Cardinality(DOMAIN Mapping)
  BY Zenon DEF VInv, MappedCounted
<1>2. VirtAt(i) \in Nat
  BY <1>1, AtHand, Zenon
<1>3. PICK lev, pre : Places(lev, pre)
  BY <1>1, Zenon DEF Placed
<1>4. CASE Same
  BY <1>1, <1>4, MappingSame, Zenon DEF Same, MappedCounted
<1>5. ASSUME NEW e, Wrote(VirtAt(i), e)
      PROVE  MappedCounted'
  <2> DEFINE va == VirtAt(i)
             w == VPageOf(va)
  <2> HIDE DEF va
  <2>1. /\ w \in DOMAIN Mapping <=> EntryOf(va) # Absent
        /\ e # Absent =>
              Mapping' = [v \in DOMAIN Mapping \cup {w} |-> IF v = w THEN e ELSE Mapping[v]]
        /\ e = Absent => Mapping' = [v \in DOMAIN Mapping \ {w} |-> Mapping[v]]
    <3>1. va \in Nat
      BY <1>2, Zenon DEF va
    <3>2. \A vb \in Nat : EntryOf(vb)' = IF VPageOf(vb) = VPageOf(va) THEN e ELSE EntryOf(vb)
      BY <1>5, Zenon DEF Wrote, va
    <3> QED BY <1>1, <1>3, <3>1, <3>2, MappingWritten, Zenon
  <2>2. mapped' = IF e # Absent THEN (IF EntryOf(va) = Absent THEN mapped + 1 ELSE mapped)
                                ELSE (IF EntryOf(va) = Absent THEN mapped ELSE mapped - 1)
    BY <1>5, Zenon DEF Wrote, va
  <2> HIDE DEF w
  <2>3. \/ DOMAIN Mapping' = DOMAIN Mapping \cup {w} /\ e # Absent
        \/ DOMAIN Mapping' = DOMAIN Mapping \ {w} /\ e = Absent
    BY <2>1, Zenon
  <2>4. Cardinality(DOMAIN Mapping') =
           IF e # Absent /\ w \notin DOMAIN Mapping THEN Cardinality(DOMAIN Mapping) + 1
           ELSE IF e = Absent /\ w \in DOMAIN Mapping THEN Cardinality(DOMAIN Mapping) - 1
           ELSE Cardinality(DOMAIN Mapping)
    BY <2>3, CountWritten, Zenon
  <2>5. mapped' = Cardinality(DOMAIN Mapping')
    <3>1. w \in DOMAIN Mapping <=> EntryOf(va) # Absent
      BY <2>1, Zenon
    <3> QED BY <1>1, <2>2, <2>4, <3>1, Zenon
  <2> QED BY <2>5, Zenon DEF MappedCounted
<1> QED BY <1>4, <1>5, Zenon DEF Effect

\* The invariant holds initially,
LEMMA VInvInit ==
  ASSUME Init
  PROVE  VInv
<1>1. TypeOK /\ PagesInv /\ CallInv
  BY TypesInit, RequestInit, Zenon
<1>2. DOMAIN tables = {} /\ pml4 = NULL /\ mapped = 0 /\ pc = "boot"
  BY Zenon DEF Init
<1>3. PICK lev, pre : lev = [t \in {} |-> 1] /\ pre = [t \in {} |-> 0]
  BY Zenon
<1>4. Places(lev, pre) /\ AtPlace(lev, pre)
  BY <1>2, <1>3, Zenon DEF Places, AtPlace
<1>5. Placed
  BY <1>4, Zenon DEF Placed
<1>6. MappedCounted
  BY <1>1, <1>2, <1>5, NothingMapped, Zenon DEF MappedCounted
<1> QED BY <1>1, <1>5, <1>6, Zenon DEF VInv

\* is kept by every step,
LEMMA VInvStep ==
  ASSUME VInv, [Next]_vars
  PROVE  VInv'
BY StepEffect, CountStep, Zenon DEF VInv, TypesInv

\* and so holds always.
LEMMA VInvHolds == Spec => []VInv
<1>1. Init => VInv
  BY VInvInit, Zenon
<1>2. VInv /\ [Next]_vars => VInv'
  BY VInvStep, Zenon
<1> QED BY <1>1, <1>2, PTL DEF Spec

\* The count vmm_map and vmm_unmap keep is the number of virtual pages that
\* translate, for every page-table size and every sequence of calls.
THEOREM PagesAreCounted == Spec => []MappedCounted
<1>1. VInv => MappedCounted
  BY Zenon DEF VInv
<1> QED BY <1>1, VInvHolds, PTL

-----------------------------------------------------------------------------
\* The tables of one level.
AtLevel(lev, l) == {t \in DOMAIN tables : lev[t] = l}

\* The pages linked from the tables of a level are the tables of the next.
LEMMA LevelBelow ==
  ASSUME TypeOK, NEW lev, NEW pre, Places(lev, pre), NEW l \in 2 .. 4
  PROVE  LinkedFrom(AtLevel(lev, l)) = AtLevel(lev, l - 1)
<1> DEFINE S == AtLevel(lev, l)
           T == AtLevel(lev, l - 1)
<1>0. S \subseteq DOMAIN tables /\ \A t \in S : lev[t] = l
  BY Zenon DEF AtLevel
<1>1. ASSUME NEW c \in LinkedFrom(S)
      PROVE  c \in T
  <2>1. PICK k \in LinksOf(S) : c = tables[k[1]][k[2]].page
    BY Zenon DEF LinkedFrom
  <2>2. k[1] \in S /\ k[2] \in Index /\ tables[k[1]][k[2]] # Absent
    BY <2>1, Zenon DEF LinksOf
  <2> HIDE DEF S
  <2>3. PICK t, x : t = k[1] /\ x = k[2]
    BY Zenon
  <2>4. /\ t \in DOMAIN tables /\ x \in Index /\ tables[t][x] # Absent
        /\ c = tables[t][x].page /\ lev[t] = l
    BY <1>0, <2>1, <2>2, <2>3, Zenon
  <2>5. lev[t] > 1
    BY <2>4
  <2>6. c \in DOMAIN tables /\ lev[c] = lev[t] - 1
    BY <2>4, <2>5, Zenon DEF Places
  <2> QED BY <2>4, <2>6, Zenon DEF AtLevel
<1>2. ASSUME NEW c \in T
      PROVE  c \in LinkedFrom(S)
  <2>1. c \in DOMAIN tables /\ lev[c] = l - 1 /\ lev[c] < 4
    BY DEF AtLevel
  <2>2. PICK t \in DOMAIN tables, x \in Index :
           lev[t] = lev[c] + 1 /\ tables[t][x] # Absent /\ tables[t][x].page = c
    BY <2>1, Zenon DEF Places
  <2>3. t \in S
    BY <2>1, <2>2 DEF AtLevel
  <2>4. <<t, x>> \in LinksOf(S)
    BY <2>2, <2>3, Zenon DEF LinksOf
  <2> QED BY <2>2, <2>4 DEF LinkedFrom
<1> QED BY <1>1, <1>2, Zenon

\* Every table but the root is linked from one slot.
LEMMA OneLinkEach ==
  ASSUME TypeOK, NEW lev, NEW pre, Places(lev, pre),
         NEW S, S = {t \in DOMAIN tables : lev[t] > 1}
  PROVE  ExistsBijection(LinksOf(S), DOMAIN tables \ AtLevel(lev, 4))
<1> DEFINE L == LinksOf(S)
           T == DOMAIN tables \ AtLevel(lev, 4)
           F == [k \in L |-> tables[k[1]][k[2]].page]
<1>1. \A k \in L : /\ k = <<k[1], k[2]>> /\ k[1] \in DOMAIN tables /\ lev[k[1]] > 1
                   /\ k[2] \in Index /\ tables[k[1]][k[2]] # Absent
  BY DEF LinksOf
<1>2. lev \in [DOMAIN tables -> 1 .. 4] /\ pre \in [DOMAIN tables -> Nat]
  BY Zenon DEF Places
<1>3. \A k \in L : /\ F[k] \in DOMAIN tables /\ lev[F[k]] = lev[k[1]] - 1
                   /\ pre[F[k]] = pre[k[1]] * Entries + k[2]
  <2> SUFFICES ASSUME NEW k \in L
               PROVE  /\ tables[k[1]][k[2]].page \in DOMAIN tables
                      /\ lev[tables[k[1]][k[2]].page] = lev[k[1]] - 1
                      /\ pre[tables[k[1]][k[2]].page] = pre[k[1]] * Entries + k[2]
    BY Zenon
  <2>1. /\ k[1] \in DOMAIN tables /\ lev[k[1]] > 1
        /\ k[2] \in Index /\ tables[k[1]][k[2]] # Absent
    BY <1>1, Zenon
  <2> HIDE DEF L
  <2>2. PICK t \in DOMAIN tables, x \in Index : t = k[1] /\ x = k[2]
    BY <2>1, Zenon
  <2>3. /\ tables[t][x].page \in DOMAIN tables
        /\ lev[tables[t][x].page] = lev[t] - 1
        /\ pre[tables[t][x].page] = pre[t] * Entries + x
    <3>1. lev[t] > 1 /\ tables[t][x] # Absent
      BY <2>1, <2>2, Zenon
    <3> QED BY <3>1 DEF Places
  <2> QED BY <2>2, <2>3, Zenon
<1>4. F \in [L -> T]
  <2>1. \A k \in L : F[k] \in T
    <3> SUFFICES ASSUME NEW k \in L
                 PROVE  F[k] \in T
      BY Zenon
    <3>1. F[k] \in DOMAIN tables /\ lev[F[k]] = lev[k[1]] - 1 /\ lev[k[1]] \in 1 .. 4
      BY <1>1, <1>2, <1>3, Zenon
    <3> HIDE DEF F
    <3> QED BY <3>1 DEF AtLevel
  <2> HIDE DEF T, L
  <2> QED BY <2>1, Zenon
<1>5. ASSUME NEW a \in L, NEW b \in L, F[a] = F[b]
      PROVE  a = b
  <2> HIDE DEF F, L, T
  <2>1. /\ a[1] \in DOMAIN tables /\ b[1] \in DOMAIN tables
        /\ a[2] \in Index /\ b[2] \in Index
        /\ a = <<a[1], a[2]>> /\ b = <<b[1], b[2]>>
    BY <1>1, Zenon
  <2>2. /\ lev[a[1]] - 1 = lev[b[1]] - 1
        /\ pre[a[1]] * Entries + a[2] = pre[b[1]] * Entries + b[2]
    BY <1>3, <1>5, Zenon
  <2>3. /\ lev[a[1]] \in 1 .. 4 /\ lev[b[1]] \in 1 .. 4
        /\ pre[a[1]] \in Nat /\ pre[b[1]] \in Nat
    BY <1>2, <2>1, Zenon
  <2>4. pre[a[1]] = pre[b[1]] /\ a[2] = b[2]
    BY <2>1, <2>2, <2>3, SameDigits
  <2>5. lev[a[1]] = lev[b[1]]
    BY <2>2, <2>3
  <2>6. a[1] = b[1]
    BY <2>1, <2>4, <2>5 DEF Places
  <2> QED BY <2>1, <2>4, <2>6, Zenon
<1>6. ASSUME NEW c \in T
      PROVE  \E k \in L : F[k] = c
  <2>1. c \in DOMAIN tables /\ lev[c] \in 1 .. 4 /\ lev[c] < 4
    BY <1>2 DEF AtLevel
  <2>2. PICK t \in DOMAIN tables, x \in Index :
           lev[t] = lev[c] + 1 /\ tables[t][x] # Absent /\ tables[t][x].page = c
    BY <2>1, Zenon DEF Places
  <2>3. t \in S
    BY <2>1, <2>2
  <2>4. <<t, x>> \in L
    BY <2>2, <2>3, Zenon DEF LinksOf
  <2>5. F[<<t, x>>] = c
    BY <2>2, <2>4, Zenon
  <2> QED BY <2>4, <2>5, Zenon
<1> HIDE DEF F, L, T
<1>7. F \in Bijection(L, T)
  BY <1>4, <1>5, <1>6, Fun_IsBij, Zenon
<1>8. ExistsBijection(L, T)
  BY <1>7, Fun_ExistsBij, Zenon
<1> QED BY <1>8, Zenon DEF L, T

\* Places make a tree: each level is linked from the one above, each table from
\* one slot.
LEMMA TreeHolds ==
  ASSUME VInv
  PROVE  TablesAreTree
<1> DEFINE T4 == {pml4} \ {NULL}
           T3 == LinkedFrom(T4)
           T2 == LinkedFrom(T3)
           T1 == LinkedFrom(T2)
           D == DOMAIN tables
<1>1. TypeOK /\ PagesInv
  BY Zenon DEF VInv
<1>2. PICK lev, pre : Places(lev, pre)
  BY Zenon DEF VInv, Placed
<1>3. lev \in [DOMAIN tables -> 1 .. 4]
  BY <1>2, Zenon DEF Places
<1>4. T4 = AtLevel(lev, 4)
  BY <1>1, <1>2 DEF TypeOK, Places, AtLevel
<1> HIDE DEF T4
<1>5. T3 = AtLevel(lev, 3)
  <2>1. LinkedFrom(AtLevel(lev, 4)) = AtLevel(lev, 4 - 1)
    BY <1>1, <1>2, LevelBelow
  <2> QED BY <1>4, <2>1
<1> HIDE DEF T3
<1>6. T2 = AtLevel(lev, 2)
  <2>1. LinkedFrom(AtLevel(lev, 3)) = AtLevel(lev, 3 - 1)
    BY <1>1, <1>2, LevelBelow
  <2> QED BY <1>5, <2>1
<1> HIDE DEF T2
<1>7. T1 = AtLevel(lev, 1)
  <2>1. LinkedFrom(AtLevel(lev, 2)) = AtLevel(lev, 2 - 1)
    BY <1>1, <1>2, LevelBelow
  <2> QED BY <1>6, <2>1
<1> HIDE DEF T1
<1>8. D = T4 \cup T3 \cup T2 \cup T1
  BY <1>3, <1>4, <1>5, <1>6, <1>7 DEF AtLevel
<1>9. T4 \cup T3 \cup T2 = {t \in DOMAIN tables : lev[t] > 1}
  BY <1>3, <1>4, <1>5, <1>6 DEF AtLevel
<1>10. IsFiniteSet(D)
  <2>1. D \subseteq 0 .. NPages - 1 /\ 0 \in Int /\ NPages - 1 \in Int
    BY <1>1, VmmAssumption DEF TypeOK, Pages
  <2>2. IsFiniteSet(0 .. NPages - 1)
    BY <2>1, FS_Interval, Zenon
  <2> QED BY <2>1, <2>2, FS_Subset, Zenon
<1>11. Cardinality(D \ T4) = Cardinality(LinksOf(T4 \cup T3 \cup T2))
  <2>1. ExistsBijection(LinksOf(T4 \cup T3 \cup T2), D \ T4)
    BY <1>1, <1>2, <1>4, <1>9, OneLinkEach, Zenon
  <2>2. ExistsBijection(D \ T4, LinksOf(T4 \cup T3 \cup T2))
    BY <2>1, Fun_ExistsBijSymmetric, Zenon
  <2>3. IsFiniteSet(D \ T4)
    BY <1>10, FS_Difference, Zenon
  <2> QED BY <2>2, <2>3, FS_Bijection, Zenon
<1>12. Cardinality(D \ T4) = Cardinality(D) - Cardinality(T4)
  <2>1. D \cap T4 = T4
    BY <1>8, Zenon
  <2> QED BY <1>10, <2>1, FS_Difference, Zenon
<1>13. Cardinality(D) \in Nat /\ Cardinality(T4) \in Nat
  <2>1. T4 \subseteq D
    BY <1>8, Zenon
  <2>2. IsFiniteSet(T4)
    BY <1>10, <2>1, FS_Subset, Zenon
  <2> QED BY <1>10, <2>2, FS_CardinalityType, Zenon
<1>14. Cardinality(D) = Cardinality(T4) + Cardinality(LinksOf(T4 \cup T3 \cup T2))
  BY <1>11, <1>12, <1>13
<1> QED BY <1>1, <1>8, <1>14, Zenon DEF TablesAreTree, PagesInv, T4, T3, T2, T1

\* The pages get_or_create_table takes form a tree of four levels under the
\* root, each linked from one slot, none lost, shared, free or another
\* caller's, through calls that fail half way and unmappings.
THEOREM TablesStayTree == Spec => []TablesAreTree
<1>1. VInv => TablesAreTree
  BY TreeHolds, Zenon
<1> QED BY <1>1, VInvHolds, PTL

-----------------------------------------------------------------------------
\* The pages of a range follow one another.
LEMMA PageOfOffset ==
  ASSUME NEW a \in Nat, NEW k \in Nat
  PROVE  PageOf(a + k * PAGE_SIZE) = PageOf(a) + k /\ PageOf(a) \in Nat
<1> DEFINE q == a \div PAGE_SIZE
           r == a % PAGE_SIZE
<1>1. PAGE_SIZE \in Nat \ {0}
  BY VmmAssumption, Zenon
<1>2. q \in Nat /\ r \in 0 .. PAGE_SIZE - 1 /\ a = PAGE_SIZE * q + r
  BY <1>1, DivMod, Zenon
<1> HIDE DEF q, r
<1>3. a + k * PAGE_SIZE = PAGE_SIZE * (q + k) + r
  BY <1>1, <1>2
<1>4. (PAGE_SIZE * (q + k) + r) \div PAGE_SIZE = q + k
  <2>1. q + k \in Nat
    BY <1>2
  <2> HIDE DEF q, r
  <2> QED BY <1>1, <1>2, <2>1, DivModIs, Zenon
<1> QED BY <1>2, <1>3, <1>4, Zenon DEF PageOf, q

\* The k-th page of a request goes to the k-th frame.
LEMMA FrameAtHand ==
  ASSUME TypeOK, CallInv, NEW k \in Nat
  PROVE  PageOf(PhysAt(k)) = PageOf(req.phys) + k
<1>1. req.phys \in Nat
  BY Zenon DEF CallInv, Request
<1> QED BY <1>1, PageOfOffset, Zenon DEF PhysAt

\* The refinement: at the start nothing is mapped.
LEMMA AbstractInit ==
  ASSUME Init
  PROVE  Mapping = [v \in {} |-> 0]
<1>1. TypeOK /\ Placed /\ pml4 = NULL
  BY VInvInit, Zenon DEF VInv, Init
<1>2. DOMAIN Mapping = {}
  BY <1>1, NothingMapped, Zenon
<1>3. Mapping = [v \in DOMAIN Mapping |-> EntryOf(v * PAGE_SIZE)]
  BY Zenon DEF Mapping
<1> HIDE DEF Mapping
<1> QED BY <1>2, <1>3, Zenon

\* The virtual page an address leads to, as the abstract specification has it.
LEMMA VPageIs ==
  ASSUME NEW va \in Nat
  PROVE  PageOf(va) % (Entries * Entries * Entries * Entries) = VPageOf(va)
<1> DEFINE m == Entries * Entries * Entries * Entries
           w == VPageOf(va)
<1>1. m \in Nat \ {0}
  BY VmmAssumption
<1>2. PICK k \in Nat : PageOf(va) = m * k + w
  BY Wraps, Zenon
<1>3. w \in 0 .. m - 1
  BY Wraps, Zenon DEF VPages
<1> HIDE DEF m, w
<1>4. (m * k + w) % m = w
  BY <1>1, <1>3, DivModIs, Zenon
<1> QED BY <1>2, <1>4, Zenon DEF m, w

\* Its page at hand is the one the tables are walked for.
LEMMA PageAtHand ==
  ASSUME TypeOK, CallInv
  PROVE  Abstract!Page = VPageOf(VirtAt(i))
<1>1. VirtAt(i) \in Nat
  BY AtHand, Zenon
<1>2. Abstract!Page = PageOf(VirtAt(i)) % (Entries * Entries * Entries * Entries)
  BY Zenon DEF Abstract!Page, Asked
<1> QED BY <1>1, <1>2, VPageIs, Zenon

\* Between calls nothing is asked for,
LEMMA NothingAsked ==
  /\ CallInv /\ pc \notin {"map", "unmap"} => Asked = Abstract!NoCall
  /\ CallInv' /\ pc' \notin {"map", "unmap"} => Asked' = Abstract!NoCall
<1>1. PageOf(0 + 0 * PAGE_SIZE) = 0
  BY VmmAssumption DEF PageOf
<1>2. /\ NoRequest.virt = 0 /\ NoRequest.phys = 0 /\ NoRequest.flags = "none"
      /\ NoRequest.pages - 0 = 0 /\ NoRequest.ranged = FALSE
  BY DEF NoRequest
<1>3. ASSUME CallInv, pc \notin {"map", "unmap"}
      PROVE  Asked = Abstract!NoCall
  <2>1. req = NoRequest /\ i = 0
    BY <1>3, Zenon DEF CallInv
  <2> QED BY <1>1, <1>2, <1>3, <2>1, Zenon DEF Asked, VirtAt, PhysAt, Abstract!NoCall
<1>4. ASSUME CallInv', pc' \notin {"map", "unmap"}
      PROVE  Asked' = Abstract!NoCall
  <2>1. req' = NoRequest /\ i' = 0
    BY <1>4, Zenon DEF CallInv
  <2> QED BY <1>1, <1>2, <1>4, <2>1, Zenon DEF Asked, VirtAt, PhysAt, PageOf, Abstract!NoCall
<1> QED BY <1>3, <1>4, Zenon

\* a call asks for pages and frames,
LEMMA AskedAtFirst ==
  ASSUME CallInv', pc' \in {"map", "unmap"}, i' = 0
  PROVE  Asked' = [op |-> pc', page |-> PageOf(req.virt'), frame |-> PageOf(req.phys'),
                   flags |-> req.flags', left |-> req.pages', ranged |-> req.ranged']
<1>1. req.virt' \in Nat /\ req.phys' \in Nat /\ req.pages' \in Nat
  BY Zenon DEF CallInv, Request
<1>2. /\ req.virt' + 0 * PAGE_SIZE = req.virt' /\ req.phys' + 0 * PAGE_SIZE = req.phys'
      /\ req.pages' - 0 = req.pages'
  BY <1>1, VmmAssumption
<1> QED BY <1>2, Zenon DEF Asked, VirtAt, PhysAt, PageOf

\* and goes on to the next of them.
LEMMA AskedNext ==
  ASSUME TypeOK, CallInv, UNCHANGED <<pc, req>>, i' = i + 1
  PROVE  Asked' = [Asked EXCEPT !.page = @ + 1, !.frame = @ + 1, !.left = @ - 1]
<1>1. req.virt \in Nat /\ req.phys \in Nat /\ req.pages \in Nat /\ i \in Nat /\ i + 1 \in Nat
  BY DEF CallInv, Request, TypeOK
<1> DEFINE p == PageOf(req.virt)
           f == PageOf(req.phys)
<1>2. /\ PageOf(VirtAt(i)) = p + i /\ PageOf(VirtAt(i + 1)) = p + (i + 1)
      /\ PageOf(PhysAt(i)) = f + i /\ PageOf(PhysAt(i + 1)) = f + (i + 1)
      /\ p \in Nat /\ f \in Nat
  BY <1>1, PageOfOffset, Zenon DEF VirtAt, PhysAt
<1> HIDE DEF p, f
<1>3. /\ p + (i + 1) = (p + i) + 1 /\ f + (i + 1) = (f + i) + 1
      /\ req.pages - (i + 1) = (req.pages - i) - 1
  BY <1>1, <1>2
<1>4. PageOf(VirtAt(i))' = PageOf(VirtAt(i + 1)) /\ PageOf(PhysAt(i))' = PageOf(PhysAt(i + 1))
  BY Zenon DEF PageOf, VirtAt, PhysAt
<1>5. Asked' = [op |-> Asked.op, page |-> (p + i) + 1, frame |-> (f + i) + 1, flags |-> req.flags,
                left |-> (req.pages - i) - 1, ranged |-> req.ranged]
  BY <1>2, <1>3, <1>4, Zenon DEF Asked
<1>6. Asked = [op |-> Asked.op, page |-> p + i, frame |-> f + i, flags |-> req.flags,
               left |-> req.pages - i, ranged |-> req.ranged]
  BY <1>2, Zenon DEF Asked
<1>7. ASSUME NEW s, s = Asked
      PROVE  Asked' = [s EXCEPT !.page = @ + 1, !.frame = @ + 1, !.left = @ - 1]
  <2> DEFINE op == Asked.op
             x == p + i
             y == f + i
             n == req.pages - i
             fl == req.flags
             r == req.ranged
  <2>1. s = [op |-> op, page |-> x, frame |-> y, flags |-> fl, left |-> n, ranged |-> r]
    BY <1>6, <1>7, Zenon
  <2>2. Asked' = [op |-> op, page |-> x + 1, frame |-> y + 1, flags |-> fl, left |-> n - 1,
                  ranged |-> r]
    BY <1>5, Zenon
  <2> HIDE DEF op, x, y, n, fl, r
  <2> DEFINE a == [s EXCEPT !.page = x + 1]
             b == [a EXCEPT !.frame = y + 1]
             c == [b EXCEPT !.left = n - 1]
  <2>3. /\ s.page = x /\ s.frame = y /\ s.left = n
        /\ a = [op |-> op, page |-> x + 1, frame |-> y, flags |-> fl, left |-> n, ranged |-> r]
    BY <2>1
  <2> HIDE DEF a
  <2>4. b = [op |-> op, page |-> x + 1, frame |-> y + 1, flags |-> fl, left |-> n, ranged |-> r]
    BY <2>3
  <2> HIDE DEF b
  <2>5. c = [op |-> op, page |-> x + 1, frame |-> y + 1, flags |-> fl, left |-> n - 1,
             ranged |-> r]
    BY <2>4
  <2> QED BY <2>2, <2>3, <2>5, Zenon DEF a, b
<1> QED BY <1>7, Zenon

\* The end of a page: the call goes on, or returns r.
LEMMA AbstractGoesOn ==
  ASSUME TypeOK, CallInv, CallInv', pc \in {"map", "unmap"}, NEW r,
         IF i + 1 < req.pages THEN i' = i + 1 /\ UNCHANGED <<pc, req, result>> ELSE Return(r)
  PROVE  Abstract!GoOn(r)
<1>1. Asked.left = req.pages - i
  BY Zenon DEF Asked
<1>2. Asked.left > 1 <=> i + 1 < req.pages
  <2>1. req.pages \in Nat /\ i \in Nat
    BY Zenon DEF CallInv, Request, TypeOK
  <2> QED BY <1>1, <2>1
<1>3. CASE i + 1 < req.pages
  <2>1. Asked' = [Asked EXCEPT !.page = @ + 1, !.frame = @ + 1, !.left = @ - 1]
    BY <1>3, AskedNext, Zenon
  <2> QED BY <1>2, <1>3, <2>1, Zenon DEF Abstract!GoOn
<1>4. CASE ~(i + 1 < req.pages)
  <2>1. pc' = "idle" /\ result' = r
    BY <1>4, Zenon DEF Return
  <2>2. Asked' = Abstract!NoCall
    BY <2>1, NothingAsked, Zenon
  <2> QED BY <1>2, <1>4, <2>1, <2>2, Zenon DEF Abstract!GoOn
<1> QED BY <1>3, <1>4, Zenon

\* Steps other than these two change no translation.
LEMMA MappingKept ==
  ASSUME VInv, [Next]_vars, ~MapSet, ~UnmapPage
  PROVE  Mapping' = Mapping
<1>1. Same
  BY StepEffect, Zenon DEF Effect
<1> QED BY <1>1, MappingSame, Zenon DEF Same

\* Those that leave the call as it is are stuttering steps.
LEMMA AbstractStutter ==
  ASSUME Mapping' = Mapping, UNCHANGED <<pc, req, i, result>>
  PROVE  UNCHANGED <<Mapping, Asked, result>>
<1>1. Asked' = Asked
  BY Zenon DEF Asked, VirtAt, PhysAt, PageOf
<1> QED BY <1>1, Zenon

\* A call begins,
LEMMA AbstractBegin ==
  ASSUME VInv, CallInv', Mapping' = Mapping, result' = result, pc = "idle",
         \/ \E virt \in Virts, pages \in Counts, phys \in Physs, flags \in Flags :
              MapCall(virt, phys, flags, pages)
         \/ \E virt \in Virts, pages \in Counts, ranged \in BOOLEAN :
              UnmapCall(virt, pages, ranged)
  PROVE  Abstract!Begin
<1>1. Asked = Abstract!NoCall
  BY NothingAsked, Zenon DEF VInv
<1>2. ASSUME NEW virt \in Virts, NEW pages \in Counts, NEW phys \in Physs, NEW flags \in Flags,
             MapCall(virt, phys, flags, pages)
      PROVE  Asked' \in Abstract!MapRequests
  <2>1. /\ pc' = "map" /\ i' = 0
        /\ req' = [virt |-> virt, phys |-> phys, flags |-> flags, pages |-> pages, ranged |-> TRUE]
    BY <1>2, Zenon DEF MapCall
  <2>2. /\ req.virt' = virt /\ req.phys' = phys /\ req.flags' = flags
        /\ req.pages' = pages /\ req.ranged' = TRUE
    BY <2>1, Zenon
  <2>3. Asked' = [op |-> "map", page |-> PageOf(virt), frame |-> PageOf(phys), flags |-> flags,
                  left |-> pages, ranged |-> TRUE]
    BY <2>1, <2>2, AskedAtFirst, Zenon
  <2> QED BY <2>3, Zenon DEF Abstract!MapRequests
<1>3. ASSUME NEW virt \in Virts, NEW pages \in Counts, NEW ranged \in BOOLEAN,
             UnmapCall(virt, pages, ranged)
      PROVE  Asked' \in Abstract!UnmapRequests
  <2>1. /\ pc' = "unmap" /\ i' = 0
        /\ req' = [NoRequest EXCEPT !.virt = virt, !.pages = pages, !.ranged = ranged]
    BY <1>3, Zenon DEF UnmapCall
  <2>2. /\ req.virt' = virt /\ req.phys' = 0 /\ req.flags' = "none"
        /\ req.pages' = pages /\ req.ranged' = ranged
    BY <2>1 DEF NoRequest
  <2>3. PageOf(0) = 0
    BY VmmAssumption DEF PageOf
  <2>4. Asked' = [op |-> "unmap", page |-> PageOf(virt), frame |-> 0, flags |-> "none",
                  left |-> pages, ranged |-> ranged]
    BY <2>1, <2>2, <2>3, AskedAtFirst, Zenon
  <2> QED BY <2>4, Zenon DEF Abstract!UnmapRequests
<1> QED BY <1>1, <1>2, <1>3, Zenon DEF Abstract!Begin

\* is refused,
LEMMA AbstractRefuse ==
  ASSUME VInv, CallInv', Mapping' = Mapping, MapNoRoot \/ MapNoMemory
  PROVE  Abstract!Refuse
<1>1. pc' = "idle" /\ result' = -1 /\ pc \in {"idle", "map"}
  BY Zenon DEF MapNoRoot, MapNoMemory, Return
<1>2. Asked.op \in {"none", "map"}
  BY <1>1, Zenon DEF Asked
<1>3. Asked' = Abstract!NoCall
  BY <1>1, NothingAsked, Zenon
<1> QED BY <1>1, <1>2, <1>3, Zenon DEF Abstract!Refuse

\* maps the page at hand,
LEMMA AbstractMap ==
  ASSUME VInv, [Next]_vars, MapSet
  PROVE  Abstract!Map
<1>1. TypeOK /\ CallInv /\ TypeOK' /\ CallInv' /\ pc = "map"
  BY StepEffect, Zenon DEF VInv, TypesInv, MapSet
<1>2. PICK lev, pre : Places(lev, pre)
  BY Zenon DEF VInv, Placed
<1> DEFINE va == VirtAt(i)
           w == VPageOf(va)
<1>3. va \in Nat
  BY <1>1, AtHand, Zenon
<1>4. \A vb \in Nat : EntryOf(vb)' = IF VPageOf(vb) = VPageOf(va) THEN Leaf ELSE EntryOf(vb)
  BY <1>1, StepSet, Zenon DEF Leaf, Wrote
<1> HIDE DEF va
<1>5. Mapping' = [v \in DOMAIN Mapping \cup {w} |-> IF v = w THEN Leaf ELSE Mapping[v]]
  BY <1>1, <1>2, <1>3, <1>4, LeafPresent, MappingWritten, Zenon
<1>6. Abstract!Page = w
  BY <1>1, PageAtHand, Zenon DEF va
<1>7. Asked.op = "map" /\ Leaf = [page |-> Asked.frame, flags |-> Asked.flags]
  BY <1>1, Zenon DEF Asked, Leaf
<1>8. IF i + 1 < req.pages THEN i' = i + 1 /\ UNCHANGED <<pc, req, result>> ELSE Return(0)
  BY Zenon DEF MapSet
<1>9. Abstract!GoOn(0)
  BY <1>1, <1>8, AbstractGoesOn, Zenon
<1> QED BY <1>5, <1>6, <1>7, <1>9, Zenon DEF Abstract!Map

\* or unmaps it.
LEMMA AbstractUnmap ==
  ASSUME VInv, [Next]_vars, UnmapPage
  PROVE  Abstract!Unmap
<1>1. TypeOK /\ CallInv /\ TypeOK' /\ CallInv' /\ pc = "unmap"
  BY StepEffect, Zenon DEF VInv, TypesInv, UnmapPage, vmm_unmap
<1>2. PICK lev, pre : Places(lev, pre)
  BY Zenon DEF VInv, Placed
<1> DEFINE va == VirtAt(i)
           w == VPageOf(va)
<1>3. va \in Nat
  BY <1>1, AtHand, Zenon
<1>4. \A vb \in Nat : EntryOf(vb)' = IF VPageOf(vb) = VPageOf(va) THEN Absent ELSE EntryOf(vb)
  BY <1>1, StepUnmap, Zenon DEF Wrote
<1>5. IF i + 1 < req.pages THEN i' = i + 1 /\ UNCHANGED <<pc, req, result>>
      ELSE Return(IF req.ranged \/ EntryOf(va) # Absent THEN 0 ELSE -1)
  BY Zenon DEF UnmapPage, vmm_unmap
<1> HIDE DEF va
<1>6. /\ Mapping' = [v \in DOMAIN Mapping \ {w} |-> Mapping[v]]
      /\ w \in DOMAIN Mapping <=> EntryOf(va) # Absent
  BY <1>1, <1>2, <1>3, <1>4, MappingWritten, Zenon
<1>7. Abstract!Page = w
  BY <1>1, PageAtHand, Zenon DEF va
<1>8. Asked.op = "unmap" /\ Asked.ranged = req.ranged
  BY <1>1, Zenon DEF Asked
<1>9. Abstract!GoOn(IF req.ranged \/ EntryOf(va) # Absent THEN 0 ELSE -1)
  BY <1>1, <1>5, AbstractGoesOn, Zenon
<1>10. (IF req.ranged \/ EntryOf(va) # Absent THEN 0 ELSE -1) =
       (IF Asked.ranged \/ w \in DOMAIN Mapping THEN 0 ELSE -1)
  BY <1>6, <1>8, Zenon
<1>11. Abstract!GoOn(IF Asked.ranged \/ w \in DOMAIN Mapping THEN 0 ELSE -1)
  BY <1>9, <1>10, Zenon
<1> QED BY <1>6, <1>7, <1>8, <1>11, Zenon DEF Abstract!Unmap

\* Each step does to the mapping what the call in progress asks for.
LEMMA AbstractStep ==
  ASSUME VInv, [Next]_vars
  PROVE  [Abstract!Next]_<<Mapping, Asked, result>>
<1>1. VInv' /\ CallInv'
  BY VInvStep, Zenon DEF VInv
<1>2. CASE MapSet
  BY <1>2, AbstractMap, Zenon DEF Abstract!Next
<1>3. CASE UnmapPage
  BY <1>3, AbstractUnmap, Zenon DEF Abstract!Next
<1>4. CASE ~MapSet /\ ~UnmapPage
  <2>1. Mapping' = Mapping
    BY <1>4, MappingKept, Zenon
  <2>2. CASE vmm_init
    <3>1. Asked = Abstract!NoCall /\ Asked' = Abstract!NoCall /\ result' = result
      BY <1>1, <2>2, NothingAsked, Zenon DEF VInv, vmm_init
    <3> QED BY <2>1, <3>1, Zenon
  <2>3. CASE MapNoRoot \/ MapNoMemory
    BY <1>1, <2>1, <2>3, AbstractRefuse, Zenon DEF Abstract!Next
  <2>4. ASSUME \/ \E virt \in Virts, pages \in Counts, phys \in Physs, flags \in Flags :
                    MapCall(virt, phys, flags, pages)
               \/ \E virt \in Virts, pages \in Counts, ranged \in BOOLEAN :
                    UnmapCall(virt, pages, ranged)
        PROVE  Abstract!Next
    <3>1. pc = "idle" /\ result' = result
      BY <2>4, Zenon DEF MapCall, UnmapCall
    <3> QED BY <1>1, <2>1, <2>4, <3>1, AbstractBegin, Zenon DEF Abstract!Next
  <2>5. ASSUME MapDescend \/ MapCreate \/ OtherAlloc \/ (\E p \in held : OtherFree(p))
                 \/ UNCHANGED vars
        PROVE  UNCHANGED <<Mapping, Asked, result>>
    <3>1. UNCHANGED <<pc, req, i, result>>
      BY <2>5, Zenon DEF MapDescend, MapCreate, OtherAlloc, OtherFree, vars
    <3> QED BY <2>1, <3>1, AbstractStutter, Zenon
  <2> QED BY <1>4, <2>2, <2>3, <2>4, <2>5, Zenon DEF Next, Call
<1> QED BY <1>2, <1>3, <1>4, Zenon

\* The page tables implement the address space, for every size of table, page
\* and memory: a call changes the translation of the pages it names and of no
\* others, each once and in order, to what it asks for, however many tables it
\* has to build, wherever memory runs out, and whatever the other users of the
\* physical allocator do; and vmm_unmap reports whether its page was mapped.
THEOREM TablesImplementAddressSpace == Spec => ImplementsAddressSpace
<1>1. Init => Abstract!Init
  <2> SUFFICES ASSUME Init
               PROVE  Abstract!Init
    BY Zenon
  <2>1. Mapping = [v \in {} |-> 0]
    BY AbstractInit, Zenon
  <2>2. Asked = Abstract!NoCall /\ result = 0
    BY RequestInit, NothingAsked, Zenon DEF Init
  <2> QED BY <2>1, <2>2, Zenon DEF Abstract!Init
<1>2. VInv /\ [Next]_vars => [Abstract!Next]_<<Mapping, Asked, result>>
  BY AbstractStep, Zenon
<1> QED BY <1>1, <1>2, VInvHolds, PTL DEF Spec, ImplementsAddressSpace, Abstract!Spec

-----------------------------------------------------------------------------
\* No range is longer than the address space (2^36 pages).
RangesFit == \A c \in Counts : c <= Entries * Entries * Entries * Entries

\* So its pages are different ones.
LEMMA Apart ==
  ASSUME RangesFit, TypeOK, CallInv, req.pages \in Counts,
         NEW j \in Nat, NEW k \in Nat, j < k, k < req.pages
  PROVE  VPageOf(VirtAt(j)) # VPageOf(VirtAt(k))
<1> DEFINE m == Entries * Entries * Entries * Entries
           n == PageOf(req.virt)
           v == VPageOf(VirtAt(j))
           w == VPageOf(VirtAt(k))
<1>a. m \in Nat \ {0}
  BY VmmAssumption
<1>b. req.pages <= m
  BY Zenon DEF RangesFit
<1>c. req.pages \in Nat
  BY VmmAssumption, Zenon
<1>1. m \in Nat \ {0} /\ req.pages <= m /\ req.pages \in Nat
  BY <1>a, <1>b, <1>c, Zenon
<1>2. PageOf(VirtAt(j)) = n + j /\ PageOf(VirtAt(k)) = n + k /\ n \in Nat
  <2>1. req.virt \in Nat
    BY Zenon DEF CallInv, Request
  <2> QED BY <2>1, PageOfOffset, Zenon DEF VirtAt
<1>3. VirtAt(j) \in Nat /\ VirtAt(k) \in Nat
  BY AtHand, Zenon
<1> SUFFICES ASSUME v = w
             PROVE  FALSE
  BY Zenon
<1>4. PICK a \in Nat : n + j = m * a + v
  BY <1>2, <1>3, Wraps, Zenon
<1>5. PICK b \in Nat : n + k = m * b + w
  BY <1>2, <1>3, Wraps, Zenon
<1>6. v \in Nat /\ w \in Nat
  <2>1. v \in VPages /\ w \in VPages
    BY <1>3, Wraps, Zenon
  <2> HIDE DEF v, w
  <2> QED BY <1>1, <2>1 DEF VPages
<1> HIDE DEF m, n, v, w
<1>7. m * b - m * a = k - j
  <2>1. m * a \in Nat /\ m * b \in Nat
    BY <1>1
  <2> QED BY <1>2, <1>4, <1>5, <1>6, <2>1
<1>8. k - j \in 1 .. m - 1
  BY <1>1
<1>9. CASE b <= a
  <2>1. m * b <= m * a
    BY <1>1, <1>9
  <2> QED BY <1>1, <1>7, <1>8, <2>1
<1>10. CASE b >= a + 1
  <2>1. m * b >= m * (a + 1) /\ m * (a + 1) = m * a + m
    BY <1>1, <1>10
  <2> QED BY <1>1, <1>7, <1>8, <2>1
<1> QED BY <1>9, <1>10

\* The entry a page of the range gets, and the pages done after MapSet.
LeafFor(k) == [page |-> PageOf(PhysAt(k)), flags |-> req.flags]

\* MapSet completes the page at hand and, since the range does not reach round
\* to itself, leaves those before it as they are.
LEMMA DoneSet ==
  ASSUME RangesFit, VInv, DoneInv, MapSet, Wrote(VirtAt(i), Leaf)
  PROVE  \A k \in 0 .. i : \A va : va = VirtAt(k) => EntryOf(va)' = LeafFor(k)
<1> SUFFICES ASSUME NEW k \in 0 .. i, NEW va, va = VirtAt(k)
             PROVE  EntryOf(va)' = LeafFor(k)
  BY Zenon
<1>1. /\ TypeOK /\ CallInv /\ pc = "map" /\ i \in Nat /\ k \in Nat
      /\ req.pages \in Counts /\ i < req.pages
  BY DEF VInv, MapSet, CallInv, TypeOK
<1>2. va \in Nat
  BY <1>1, AtHand, Zenon
<1>3. EntryOf(va)' = IF VPageOf(va) = VPageOf(VirtAt(i)) THEN Leaf ELSE EntryOf(va)
  BY <1>2, Zenon DEF Wrote
<1>4. CASE k = i
  BY <1>3, <1>4, Zenon DEF LeafFor, Leaf
<1>5. CASE k < i
  <2>1. VPageOf(va) # VPageOf(VirtAt(i))
    BY <1>1, <1>5, Apart, Zenon
  <2>2. k \in 0 .. i - 1
    BY <1>1, <1>5
  <2>3. EntryOf(VirtAt(k)) = LeafFor(k)
    BY <1>1, <2>2, Zenon DEF DoneInv, LeafFor
  <2> QED BY <1>3, <2>1, <2>3, Zenon
<1>6. k = i \/ k < i
  BY <1>1
<1> QED BY <1>4, <1>5, <1>6, Zenon

\* The call goes on at the same page.
LEMMA DoneKept ==
  ASSUME TypeOK, CallInv, DoneInv, \A va \in Nat : EntryOf(va)' = EntryOf(va),
         UNCHANGED <<pc, req, i>>
  PROVE  DoneInv'
<1> SUFFICES ASSUME pc = "map", NEW k \in 0 .. i - 1
             PROVE  EntryOf(VirtAt(k))' = LeafFor(k)
  BY Zenon DEF DoneInv, LeafFor, PhysAt
<1>1. k \in Nat /\ i \in Nat
  BY DEF TypeOK
<1>2. PICK va : va = VirtAt(k)
  BY Zenon
<1>3. va \in Nat /\ VirtAt(k)' = va
  BY <1>1, <1>2, AtHand, Zenon DEF VirtAt
<1>4. EntryOf(va) = LeafFor(k)
  BY <1>2, Zenon DEF DoneInv, LeafFor
<1>5. EntryOf(va)' = LeafFor(k)
  BY <1>3, <1>4
<1>6. EntryOf(VirtAt(k))' = EntryOf(va)'
  BY <1>3, Zenon DEF EntryOf, walk_table, Below, IndexAt, PageOf
<1> QED BY <1>5, <1>6, Zenon

\* Every step keeps the pages done.
LEMMA DoneStep ==
  ASSUME RangesFit, VInv, DoneInv, [Next]_vars
  PROVE  DoneInv'
<1>1. TypeOK /\ CallInv /\ TypeOK'
  BY StepEffect, Zenon DEF VInv, TypesInv
<1>2. CASE pc' # "map"
  BY <1>2, Zenon DEF DoneInv
<1>3. CASE i' = 0
  BY <1>3 DEF DoneInv
<1>4. CASE MapDescend
  <2>1. UNCHANGED <<tables, pml4, pc, req, i>>
    BY <1>4, Zenon DEF MapDescend
  <2> QED BY <1>1, <2>1, Untouched, DoneKept, Zenon
<1>5. CASE MapCreate
  <2>1. UNCHANGED <<pc, req, i>>
    BY <1>5, Zenon DEF MapCreate
  <2> QED BY <1>1, <1>5, <2>1, StepCreate, DoneKept, Zenon DEF Same
<1>6. CASE UNCHANGED vars
  <2>1. UNCHANGED <<tables, pml4, pc, req, i>>
    BY <1>6, Zenon DEF vars
  <2> QED BY <1>1, <2>1, Untouched, DoneKept, Zenon
<1>7. CASE MapSet /\ pc' = "map"
  <2>1. i' = i + 1 /\ req' = req /\ i \in Nat
    BY <1>1, <1>7, Zenon DEF MapSet, Return, TypeOK
  <2>2. Wrote(VirtAt(i), Leaf)
    BY <1>1, <1>7, StepSet, Zenon DEF Leaf
  <2>3. \A k \in 0 .. i : \A va : va = VirtAt(k) => EntryOf(va)' = LeafFor(k)
    BY <1>7, <2>2, DoneSet, Zenon
  <2> SUFFICES ASSUME NEW k \in 0 .. i
               PROVE  EntryOf(VirtAt(k))' = LeafFor(k)
    BY <2>1 DEF DoneInv, LeafFor, PhysAt
  <2>4. PICK va : va = VirtAt(k)
    BY Zenon
  <2>5. VirtAt(k)' = va
    BY <2>1, <2>4, Zenon DEF VirtAt
  <2>6. EntryOf(va)' = LeafFor(k)
    BY <2>3, <2>4
  <2>7. EntryOf(VirtAt(k))' = EntryOf(va)'
    BY <2>5, Zenon DEF EntryOf, walk_table, Below, IndexAt, PageOf
  <2> QED BY <2>6, <2>7, Zenon
<1>8. CASE Next
  <2>1. vmm_init \/ MapNoRoot \/ MapNoMemory \/ UnmapPage \/ OtherAlloc => pc' # "map"
    BY Zenon DEF vmm_init, MapNoRoot, MapNoMemory, UnmapPage, vmm_unmap, OtherAlloc, Return
  <2>2. \A p \in held : OtherFree(p) => pc' # "map"
    BY Zenon DEF OtherFree
  <2>3. \A virt \in Virts, pages \in Counts, phys \in Physs, flags \in Flags :
          MapCall(virt, phys, flags, pages) => i' = 0
    BY Zenon DEF MapCall
  <2>4. \A virt \in Virts, pages \in Counts, ranged \in BOOLEAN :
          UnmapCall(virt, pages, ranged) => i' = 0
    BY Zenon DEF UnmapCall
  <2> QED BY <1>2, <1>3, <1>4, <1>5, <1>7, <1>8, <2>1, <2>2, <2>3, <2>4, Zenon DEF Next, Call
<1> QED BY <1>6, <1>8, Zenon

\* What a call that returns has done.
LEMMA ReturnStep ==
  ASSUME RangesFit, VInv, DoneInv, [Next]_vars, pc = "map", pc' = "idle"
  PROVE  IF result' = 0
           THEN \A k \in 0 .. req.pages - 1 : \E va \in {VirtAt(k)} :
                  vmm_translate(va)'
                    = (PageOf(req.phys) + k) * PAGE_SIZE + (va % PAGE_SIZE)
           ELSE free = {}
<1>1. /\ TypeOK /\ CallInv /\ TypeOK' /\ i \in Nat
      /\ req.pages \in Counts /\ i < req.pages
  BY StepEffect, Zenon DEF VInv, TypesInv, TypeOK, CallInv
<1>2. MapNoMemory \/ MapSet
  <2>1. Next
    BY Zenon DEF vars
  <2>2. ~vmm_init /\ ~MapNoRoot /\ ~UnmapPage /\ ~OtherAlloc
    BY Zenon DEF vmm_init, MapNoRoot, UnmapPage, vmm_unmap, OtherAlloc
  <2>3. ~MapDescend /\ ~MapCreate
    BY Zenon DEF MapDescend, MapCreate
  <2>4. \A p \in held : ~OtherFree(p)
    BY Zenon DEF OtherFree
  <2>5. /\ \A virt \in Virts, pages \in Counts, phys \in Physs, flags \in Flags :
             ~MapCall(virt, phys, flags, pages)
        /\ \A virt \in Virts, pages \in Counts, ranged \in BOOLEAN :
             ~UnmapCall(virt, pages, ranged)
    BY Zenon DEF MapCall, UnmapCall
  <2> QED BY <2>1, <2>2, <2>3, <2>4, <2>5, Zenon DEF Next, Call
<1>3. CASE MapNoMemory
  BY <1>3 DEF MapNoMemory, Return
<1>4. CASE MapSet
  <2>1. result' = 0 /\ ~(i + 1 < req.pages)
    BY <1>4, Zenon DEF MapSet, Return
  <2>2. req.pages \in Nat
    BY <1>1, VmmAssumption, Zenon
  <2>3. Wrote(VirtAt(i), Leaf)
    BY <1>1, <1>4, StepSet, Zenon DEF Leaf
  <2>4. \A k \in 0 .. i : \A va : va = VirtAt(k) => EntryOf(va)' = LeafFor(k)
    BY <1>4, <2>3, DoneSet, Zenon
  <2>5. ASSUME NEW k \in 0 .. req.pages - 1
        PROVE  \E va \in {VirtAt(k)} :
                  vmm_translate(va)'
                    = (PageOf(req.phys) + k) * PAGE_SIZE + (va % PAGE_SIZE)
    <3>1. k \in 0 .. i /\ k \in Nat
      BY <1>1, <2>1, <2>2
    <3>2. PICK va : va = VirtAt(k)
      BY Zenon
    <3>3. EntryOf(va)' = LeafFor(k)
      BY <2>4, <3>1, <3>2, Zenon
    <3>4. PageOf(PhysAt(k)) = PageOf(req.phys) + k /\ PageOf(PhysAt(k)) \in Nat
      BY <1>1, <3>1, FrameAtHand, AtHand, Zenon
    <3>5. LeafFor(k).page = PageOf(req.phys) + k /\ LeafFor(k) # Absent
      BY <3>4 DEF LeafFor, Absent, NULL
    <3>6. vmm_translate(va)' = EntryOf(va)'.page * PAGE_SIZE + (va % PAGE_SIZE)
      BY <3>3, <3>5, Zenon DEF vmm_translate
    <3> QED BY <3>2, <3>3, <3>5, <3>6, Zenon
  <2> QED BY <2>1, <2>5, Zenon
<1> QED BY <1>2, <1>3, <1>4, Zenon

\* vmm_map_range returns 0 only when every page of the range translates to the
\* frame asked for, offsets included, and -1 only when no page was left for a
\* table, for every length of range that fits the address space.
THEOREM MapSucceeds ==
  ASSUME RangesFit
  PROVE  Spec => MapMeansMapped
<1>1. Init => VInv /\ DoneInv
  BY VInvInit, Zenon DEF Init, DoneInv
<1>2. VInv /\ DoneInv /\ [Next]_vars => (VInv /\ DoneInv)'
  BY VInvStep, DoneStep, Zenon
<1>3. VInv /\ DoneInv /\ [Next]_vars =>
        [pc = "map" /\ pc' = "idle" =>
           IF result' = 0
             THEN \A k \in 0 .. req.pages - 1 : \E va \in {VirtAt(k)} :
                    vmm_translate(va)'
                      = (PageOf(req.phys) + k) * PAGE_SIZE + (va % PAGE_SIZE)
             ELSE free = {}]_vars
  <2> SUFFICES ASSUME VInv, DoneInv, [Next]_vars, pc = "map", pc' = "idle"
               PROVE  IF result' = 0
                        THEN \A k \in 0 .. req.pages - 1 : \E va \in {VirtAt(k)} :
                               vmm_translate(va)'
                                 = (PageOf(req.phys) + k) * PAGE_SIZE + (va % PAGE_SIZE)
                        ELSE free = {}
    BY Zenon
  <2> QED BY ReturnStep, Zenon
<1> QED BY <1>1, <1>2, <1>3, PTL DEF Spec, MapMeansMapped
=============================================================================
