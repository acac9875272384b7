--------------------------- MODULE LibraryProofs ---------------------------
(***************************************************************************)
(* Proofs about the library layer: the seven functions of lib/memory.c,    *)
(* the console of drivers/vga/vga.c, printf and log lines.                 *)
(*                                                                         *)
(* Memory, for every size of memory and byte width.  The loop invariant    *)
(* says which bytes have their final value after so many iterations.       *)
(*                                                                         *)
(* The console, for every size of the screen.  Handling a character gives  *)
(* a screen whose cursor may be one line below its end; scrolling brings   *)
(* it back exactly as the abstract terminal moves its page.                *)
(*                                                                         *)
(* printf, for every format, argument and width of an int: numbers are     *)
(* written as they should be; what a format comes to are calls of the      *)
(* console, and only an escape sequence among them changes the colour.  A  *)
(* log line therefore changes it twice, to the colour of its level before  *)
(* the message and to white behind it (LineShape).                         *)
(*                                                                         *)
(* The functions that are printing, for every depth of handlers that print *)
(* inside each other: how many changes of colour the innermost has still   *)
(* to make decides the colour at any time (Ink), and a handler that cuts   *)
(* in leaves white to the one it has cut.                                  *)
(***************************************************************************)
EXTENDS Memory, Log, WellFoundedInduction, TLAPS

\* The leaves that name no prover are left to the SMT solver.
USE SMTT(30)

\* In contents c, bytes lo to hi - 1 at d hold what m had at s, and the others
\* are as in m.
CopiedTo(c, d, s, lo, hi, m) ==
  \A x \in Addr : c[x] = IF d + lo <= x /\ x < d + hi THEN m[s + x - d] ELSE m[x]

NonZero(m, a, n) == \A j \in Nat : j < n => m[a + j] # 0

\* What the loop of fn has done.
LoopInv ==
  /\ fn \in {"memcpy", "memmove", "memset", "memcmp"} => k <= len
  /\ fn = "memcpy" /\ ~ Overtakes => CopiedTo(mem, dest, src, 0, k, before)
  /\ fn = "memmove" /\ dest < src => CopiedTo(mem, dest, src, 0, k, before)
  /\ fn = "memmove" /\ ~ (dest < src) => CopiedTo(mem, dest, src, k, len, before)
  /\ fn = "memset" =>
       \A x \in Addr : mem[x] = IF dest <= x /\ x < dest + k THEN src % Byte ELSE before[x]
  /\ fn = "strcpy" => CopiedTo(mem, dest, src, 0, k, before) /\ NonZero(before, src, k)
  /\ fn \in Measures \cup {"none"} => mem = before
  /\ fn = "strlen" => NonZero(mem, src, k)
  /\ fn = "strcmp" => NonZero(mem, dest, k) /\ NonZero(mem, src, k)
  /\ fn \in {"strcmp", "memcmp"} => \A j \in Nat : j < k => mem[dest + j] = mem[src + j]

MemInv ==
  /\ MemTypeOK
  /\ fn # "none" => Allowed(fn, dest, src, len, before)
  /\ LoopInv

-----------------------------------------------------------------------------
\* Strings have one length.
LEMMA LengthIs ==
  ASSUME NEW m, NEW a \in Nat, NEW n \in 0 .. MemTop, StringOf(m, a, n)
  PROVE  LengthIn(m, a) = n
<1> DEFINE c == LengthIn(m, a)
<1>1. c \in 0 .. MemTop /\ StringOf(m, a, c)
  <2>1. \E x \in 0 .. MemTop : StringOf(m, a, x)
    BY Zenon
  <2>2. \A Q : (\E x \in Q : StringOf(m, a, x)) =>
              /\ (CHOOSE x \in Q : StringOf(m, a, x)) \in Q
              /\ StringOf(m, a, CHOOSE x \in Q : StringOf(m, a, x))
    BY Zenon
  <2> QED BY <2>1, <2>2, Zenon DEF LengthIn
<1> HIDE DEF c
<1>2. ~ (c < n) /\ ~ (n < c)
  BY <1>1, MemoryAssumption DEF StringOf
<1> QED BY <1>1, <1>2, MemoryAssumption DEF c

\* A prefix without a terminator ends inside the string.
LEMMA WithinString ==
  ASSUME NEW m, NEW a \in Nat, IsString(m, a), NEW n \in Nat, NonZero(m, a, n)
  PROVE  /\ LengthIn(m, a) \in 0 .. MemTop
         /\ StringOf(m, a, LengthIn(m, a))
         /\ n <= LengthIn(m, a)
         /\ a + n \in Addr
<1>1. PICK l \in 0 .. MemTop : StringOf(m, a, l)
  BY Zenon DEF IsString
<1>2. LengthIn(m, a) = l
  BY <1>1, LengthIs, Zenon
<1>3. l \in Nat /\ a + l < MemTop /\ m[a + l] = 0
  BY <1>1, MemoryAssumption DEF StringOf
<1>4. ~ (l < n)
  BY <1>3, Zenon DEF NonZero
<1> QED BY <1>1, <1>2, <1>3, <1>4, MemoryAssumption DEF Addr

\* A call that returns leaves nothing to show.
LEMMA Returned ==
  ASSUME MemReturn, mem' \in Contents
  PROVE  MemInv'
<1>1. fn' = "none" /\ dest' = 0 /\ src' = 0 /\ len' = 0 /\ k' = 0 /\ before' = mem'
  BY Zenon DEF MemReturn
<1>2. MemTypeOK'
  BY <1>1, MemoryAssumption DEF MemTypeOK, Addr
<1>3. LoopInv'
  BY <1>1, Zenon DEF LoopInv, Measures
<1> QED BY <1>1, <1>2, <1>3, Zenon DEF MemInv

\* A call starts with nothing done.
LEMMA Started ==
  ASSUME MemInv,
         NEW f \in Copies \cup Measures, NEW d \in Addr, NEW s \in Nat,
         NEW n \in 0 .. MemTop,
         Allowed(f, d, s, n, mem), MemCall(f, d, s, n)
  PROVE  MemInv'
<1>1. /\ fn' = f /\ dest' = d /\ src' = s /\ len' = n /\ before' = mem /\ mem' = mem
      /\ k' = IF f = "memmove" /\ ~ (d < s) THEN n ELSE 0
  BY Zenon DEF MemCall, Descending
<1>2. d \in Nat /\ s \in Nat /\ n \in Nat /\ MemTop \in Nat
  BY MemoryAssumption DEF Addr
<1>3. MemTypeOK'
  BY <1>1, <1>2 DEF MemInv, MemTypeOK, Addr
<1>4. ASSUME NEW x \in Addr, NEW lo \in Nat
      PROVE  ~ (d + lo <= x /\ x < d + lo)
  BY <1>2 DEF Addr
<1>5. CopiedTo(mem, d, s, 0, 0, mem) /\ CopiedTo(mem, d, s, n, n, mem)
  BY <1>2, <1>4, Zenon DEF CopiedTo
<1>6. LoopInv'
  <2>1. \A a : NonZero(mem, a, 0)
    BY DEF NonZero
  <2>2. \A x \in Addr : ~ (d <= x /\ x < d + 0)
    BY <1>2 DEF Addr
  <2>3. k' \in Nat /\ k' <= n /\ \A x \in Addr : ~ (d + k' <= x /\ x < d + k')
    BY <1>1, <1>2, <1>4
  <2>4. f = "strcpy" \/ f \in Measures => k' = 0
    BY <1>1, Zenon DEF Measures
  <2> QED BY <1>1, <1>2, <1>5, <2>1, <2>2, <2>3, <2>4 DEF LoopInv, CopiedTo, NonZero, Overtakes, Measures
<1>7. Allowed(fn, dest, src, len, before)'
  BY <1>1, Zenon DEF Allowed, IsString, LengthIn, StringOf
<1> QED BY <1>3, <1>6, <1>7, Zenon DEF MemInv

\* One more byte of an ascending copy: the byte read is not one already written.
LEMMA CopyUpOne ==
  ASSUME NEW c \in Contents, NEW m \in Contents, NEW d \in Nat, NEW s \in Nat, NEW v \in Nat,
         d + v \in Addr, s + v \in Addr, d <= s \/ s + v < d,
         CopiedTo(c, d, s, 0, v, m)
  PROVE  /\ c[s + v] = m[s + v]
         /\ CopiedTo([c EXCEPT ![d + v] = c[s + v]], d, s, 0, v + 1, m)
<1>1. c[s + v] = m[s + v]
  BY DEF CopiedTo, Addr
<1>2. ASSUME NEW x \in Addr
      PROVE  [c EXCEPT ![d + v] = c[s + v]][x] =
               IF d + 0 <= x /\ x < d + (v + 1) THEN m[s + x - d] ELSE m[x]
  <2>1. CASE x = d + v
    BY <1>1, <2>1, MemoryAssumption DEF Contents, Addr
  <2>2. CASE x # d + v
    <3>1. x < d + (v + 1) <=> x < d + v
      BY <2>2, MemoryAssumption DEF Addr
    <3> QED BY <2>2, <3>1, Zenon DEF CopiedTo, Contents
  <2> QED BY <2>1, <2>2, Zenon
<1> QED BY <1>1, <1>2, Zenon DEF CopiedTo

\* One more byte of a descending copy.
LEMMA CopyDownOne ==
  ASSUME NEW c \in Contents, NEW m \in Contents, NEW d \in Nat, NEW s \in Nat, NEW v \in Nat,
         NEW n \in Nat, v < n, d + v \in Addr, s + v \in Addr, s <= d,
         CopiedTo(c, d, s, v + 1, n, m)
  PROVE  CopiedTo([c EXCEPT ![d + v] = c[s + v]], d, s, v, n, m)
<1>1. c[s + v] = m[s + v]
  BY DEF CopiedTo, Addr
<1>2. ASSUME NEW x \in Addr
      PROVE  [c EXCEPT ![d + v] = c[s + v]][x] =
               IF d + v <= x /\ x < d + n THEN m[s + x - d] ELSE m[x]
  <2>1. CASE x = d + v
    BY <1>1, <2>1, MemoryAssumption DEF Contents, Addr
  <2>2. CASE x # d + v
    <3>1. d + (v + 1) <= x <=> d + v <= x
      BY <2>2, MemoryAssumption DEF Addr
    <3> QED BY <2>2, <3>1, Zenon DEF CopiedTo, Contents
  <2> QED BY <2>1, <2>2, Zenon
<1> QED BY <1>2, Zenon DEF CopiedTo

\* Storing a byte of memory keeps the memory one.
LEMMA Stored ==
  ASSUME NEW c \in Contents, NEW x \in Addr, NEW b \in 0 .. Byte - 1
  PROVE  [c EXCEPT ![x] = b] \in Contents
BY Zenon DEF Contents

\* The invariant gives the types of everything a step uses.
LEMMA Typed ==
  ASSUME MemInv
  PROVE  /\ dest \in Nat /\ src \in Nat /\ len \in Nat /\ k \in Nat /\ MemTop \in Nat
         /\ Byte \in Nat /\ Byte > 0 /\ mem \in Contents /\ before \in Contents
BY MemoryAssumption DEF MemInv, MemTypeOK, Addr

\* The ranges that the copies, memset and memcmp are given lie in the memory.
LEMMA InRange ==
  ASSUME MemInv, NEW v \in Nat, v < len
  PROVE  /\ fn \in {"memcpy", "memmove", "memcmp", "memset"} => dest + v \in Addr
         /\ fn \in {"memcpy", "memmove", "memcmp"} => src + v \in Addr
<1>1. fn \in {"memcpy", "memmove", "memcmp", "memset"} => dest + len <= MemTop
  BY Zenon DEF MemInv, Allowed
<1>2. fn \in {"memcpy", "memmove", "memcmp"} => src + len <= MemTop
  BY Zenon DEF MemInv, Allowed
<1> QED BY <1>1, <1>2, Typed DEF Addr

LEMMA CopyUpKeeps ==
  ASSUME MemInv, CopyUp
  PROVE  MemInv'
<1>1. /\ fn \in {"memcpy", "memmove"} /\ k < len /\ (fn = "memmove" => dest < src)
      /\ mem' = [mem EXCEPT ![dest + k] = mem[src + k]] /\ k' = k + 1
      /\ fn' = fn /\ dest' = dest /\ src' = src /\ len' = len /\ before' = before
  BY Zenon DEF CopyUp, Descending, memArgs
<1>2. dest + k \in Addr /\ src + k \in Addr
  BY <1>1, InRange, Typed, Zenon
<1>3. mem' \in Contents
  BY <1>1, <1>2, Stored, Typed, Zenon DEF Contents
<1>4. MemTypeOK'
  BY <1>1, <1>3, Typed DEF MemInv, MemTypeOK
<1>5. Allowed(fn, dest, src, len, before)'
  BY <1>1, Zenon DEF MemInv, Allowed, IsString, LengthIn, StringOf
<1>6. ~ Overtakes => CopiedTo(mem', dest, src, 0, k + 1, before)
  <2> SUFFICES ASSUME ~ Overtakes PROVE CopiedTo(mem', dest, src, 0, k + 1, before)
    BY Zenon
  <2>1. CopiedTo(mem, dest, src, 0, k, before)
    BY <1>1, Zenon DEF MemInv, LoopInv
  <2>2. dest <= src \/ src + k < dest
    BY <1>1, Typed DEF Overtakes
  <2> QED BY <1>1, <1>2, <2>1, <2>2, Typed, CopyUpOne, Zenon
<1>7. LoopInv'
  BY <1>1, <1>6, Typed DEF LoopInv, Overtakes, Measures, CopiedTo
<1> QED BY <1>4, <1>5, <1>7, Zenon DEF MemInv

LEMMA CopyDownKeeps ==
  ASSUME MemInv, CopyDown
  PROVE  MemInv'
<1>1. /\ fn = "memmove" /\ ~ (dest < src) /\ k > 0
      /\ mem' = [mem EXCEPT ![dest + k - 1] = mem[src + k - 1]] /\ k' = k - 1
      /\ fn' = fn /\ dest' = dest /\ src' = src /\ len' = len /\ before' = before
  BY Zenon DEF CopyDown, Descending, memArgs
<1>2. k <= len /\ CopiedTo(mem, dest, src, k, len, before)
  BY <1>1, Zenon DEF MemInv, LoopInv
<1> DEFINE v == k - 1
<1>3. v \in Nat /\ v < len /\ k = v + 1 /\ dest + k - 1 = dest + v /\ src + k - 1 = src + v
  BY <1>1, <1>2, Typed
<1> HIDE DEF v
<1>4. dest + v \in Addr /\ src + v \in Addr
  BY <1>1, <1>3, InRange, Zenon
<1>5. mem' = [mem EXCEPT ![dest + v] = mem[src + v]] /\ k' = v
  BY <1>1, <1>3, Zenon DEF v
<1>6. mem' \in Contents
  BY <1>5, <1>4, Stored, Typed, Zenon DEF Contents
<1>7. MemTypeOK'
  BY <1>1, <1>3, <1>5, <1>6, Typed DEF MemInv, MemTypeOK
<1>8. Allowed(fn, dest, src, len, before)'
  BY <1>1, Zenon DEF MemInv, Allowed, IsString, LengthIn, StringOf
<1>9. CopiedTo(mem', dest, src, v, len, before)
  <2>1. src <= dest
    BY <1>1, Typed
  <2> QED BY <1>2, <1>3, <1>4, <1>5, <2>1, Typed, CopyDownOne, Zenon
<1>10. LoopInv'
  BY <1>1, <1>3, <1>5, <1>9, Typed DEF LoopInv, Measures, CopiedTo
<1> QED BY <1>7, <1>8, <1>10, Zenon DEF MemInv

LEMMA FillKeeps ==
  ASSUME MemInv, Fill
  PROVE  MemInv'
<1>1. /\ fn = "memset" /\ k < len
      /\ mem' = [mem EXCEPT ![dest + k] = src % Byte] /\ k' = k + 1
      /\ fn' = fn /\ dest' = dest /\ src' = src /\ len' = len /\ before' = before
  BY Zenon DEF Fill, memArgs
<1>2. dest + k \in Addr
  BY <1>1, InRange, Typed, Zenon
<1>3. src % Byte \in 0 .. Byte - 1
  BY Typed
<1>4. mem' \in Contents
  BY <1>1, <1>2, <1>3, Stored, Typed, Zenon
<1>5. MemTypeOK'
  BY <1>1, <1>4, Typed DEF MemInv, MemTypeOK
<1>6. Allowed(fn, dest, src, len, before)'
  BY <1>1, Zenon DEF MemInv, Allowed, IsString, LengthIn, StringOf
<1>7. ASSUME NEW x \in Addr
      PROVE  mem'[x] = IF dest <= x /\ x < dest + (k + 1) THEN src % Byte ELSE before[x]
  <2>1. mem[x] = IF dest <= x /\ x < dest + k THEN src % Byte ELSE before[x]
    BY <1>1, Zenon DEF MemInv, LoopInv
  <2> DEFINE b == src % Byte
  <2> HIDE DEF b
  <2>2. mem' = [mem EXCEPT ![dest + k] = b]
    BY <1>1, Zenon DEF b
  <2>3. CASE x = dest + k
    BY <2>2, <2>3, Typed DEF Contents, b
  <2>4. CASE x # dest + k
    <3>1. x < dest + (k + 1) <=> x < dest + k
      BY <2>4, Typed DEF Addr
    <3>2. mem'[x] = mem[x]
      BY <2>2, <2>4, Typed, Zenon DEF Contents
    <3> QED BY <2>1, <3>1, <3>2, Zenon
  <2> QED BY <2>3, <2>4, Zenon
<1>8. LoopInv'
  BY <1>1, <1>7, Typed DEF LoopInv, Measures
<1> QED BY <1>5, <1>6, <1>8, Zenon DEF MemInv

\* What strcpy knows before it copies byte k: it is within the string, the
\* byte it will read is still the caller's, and the copy can be extended.
LEMMA StringCopyReads ==
  ASSUME MemInv, fn = "strcpy"
  PROVE  /\ LengthIn(before, src) \in Nat /\ StringOf(before, src, LengthIn(before, src))
         /\ k <= LengthIn(before, src)
         /\ dest + k \in Addr /\ src + k \in Addr
         /\ mem[src + k] = before[src + k]
         /\ CopiedTo([mem EXCEPT ![dest + k] = mem[src + k]], dest, src, 0, k + 1, before)
<1> DEFINE l == LengthIn(before, src)
<1>1. /\ CopiedTo(mem, dest, src, 0, k, before) /\ NonZero(before, src, k)
      /\ IsString(before, src) /\ dest + l < MemTop /\ (dest <= src \/ src + l < dest)
  BY Zenon DEF MemInv, LoopInv, Allowed
<1>2. l \in 0 .. MemTop /\ StringOf(before, src, l) /\ k <= l /\ src + k \in Addr
  BY <1>1, Typed, WithinString, Zenon
<1> HIDE DEF l
<1>3. dest + k \in Addr /\ (dest <= src \/ src + k < dest) /\ l \in Nat
  BY <1>1, <1>2, Typed DEF Addr
<1> QED BY <1>1, <1>2, <1>3, Typed, CopyUpOne DEF l

LEMMA StringCopyKeeps ==
  ASSUME MemInv, StringCopy
  PROVE  MemInv'
<1>1. fn = "strcpy" /\ mem' = [mem EXCEPT ![dest + k] = mem[src + k]]
  BY Zenon DEF StringCopy
<1>2. mem' \in Contents
  BY <1>1, StringCopyReads, Stored, Typed, Zenon DEF Contents
<1>3. CASE mem[src + k] = 0
  BY <1>2, <1>3, Returned, Zenon DEF StringCopy
<1>4. CASE mem[src + k] # 0
  <2>1. /\ k' = k + 1
        /\ fn' = fn /\ dest' = dest /\ src' = src /\ len' = len /\ before' = before
    BY <1>4, Zenon DEF StringCopy, memArgs
  <2>2. k + 1 \in 0 .. MemTop
    BY <1>1, StringCopyReads, Typed DEF Addr
  <2>3. MemTypeOK'
    BY <1>2, <2>1, <2>2, Zenon DEF MemInv, MemTypeOK
  <2>4. Allowed(fn, dest, src, len, before)'
    BY <1>1, <2>1, Zenon DEF MemInv, Allowed, IsString, LengthIn, StringOf
  <2>5. NonZero(before, src, k + 1)
    <3>1. NonZero(before, src, k)
      BY <1>1, Zenon DEF MemInv, LoopInv
    <3>2. \A j \in Nat : j < k + 1 => j < k \/ j = k
      BY Typed
    <3> QED BY <1>1, <1>4, <3>1, <3>2, StringCopyReads, Zenon DEF NonZero
  <2>6. CopiedTo(mem', dest, src, 0, k + 1, before)
    BY <1>1, StringCopyReads, Zenon
  <2>7. LoopInv'
    BY <1>1, <2>1, <2>5, <2>6, Zenon DEF LoopInv, Measures, CopiedTo, NonZero
  <2> QED BY <2>3, <2>4, <2>7, Zenon DEF MemInv
<1> QED BY <1>3, <1>4, Zenon

\* What the functions that only read know of byte k.
LEMMA MeasureReads ==
  ASSUME MemInv, fn \in Measures
  PROVE  /\ mem = before
         /\ fn = "strlen" => IsString(mem, src) /\ NonZero(mem, src, k) /\ src + k \in Addr
         /\ fn = "strcmp" =>
              /\ IsString(mem, src) /\ NonZero(mem, src, k) /\ src + k \in Addr
              /\ IsString(mem, dest) /\ NonZero(mem, dest, k) /\ dest + k \in Addr
         /\ fn \in {"strcmp", "memcmp"} => \A j \in Nat : j < k => mem[dest + j] = mem[src + j]
<1>1. mem = before
  BY Zenon DEF MemInv, LoopInv
<1>2. CASE fn = "strlen"
  <2>1. IsString(mem, src) /\ NonZero(mem, src, k)
    BY <1>1, <1>2, Zenon DEF MemInv, LoopInv, Allowed
  <2> QED BY <1>1, <1>2, <2>1, Typed, WithinString, Zenon
<1>3. CASE fn = "strcmp"
  <2>1. /\ IsString(mem, src) /\ NonZero(mem, src, k)
        /\ IsString(mem, dest) /\ NonZero(mem, dest, k)
    BY <1>1, <1>3, Zenon DEF MemInv, LoopInv, Allowed
  <2>2. src + k \in Addr
    BY <2>1, Typed, WithinString, Zenon
  <2>3. dest + k \in Addr
    BY <2>1, Typed, WithinString, Zenon
  <2> QED BY <1>1, <1>3, <2>1, <2>2, <2>3, Zenon DEF MemInv, LoopInv
<1>4. CASE fn = "memcmp"
  BY <1>1, <1>4, Zenon DEF MemInv, LoopInv
<1> QED BY <1>2, <1>3, <1>4, Zenon DEF Measures

LEMMA MeasureKeeps ==
  ASSUME MemInv, Measure
  PROVE  MemInv'
<1>1. fn \in Measures /\ mem' = mem
  BY Zenon DEF Measure
<1>2. CASE ~ GoesOn
  BY <1>1, <1>2, Returned, Typed, Zenon DEF Measure
<1>3. CASE GoesOn
  <2>1. /\ k' = k + 1
        /\ fn' = fn /\ dest' = dest /\ src' = src /\ len' = len /\ before' = before
    BY <1>3, Zenon DEF Measure, memArgs
  <2>2. \A j \in Nat : j < k + 1 => j < k \/ j = k
    BY Typed
  <2>3. /\ fn = "strlen" => mem[src + k] # 0
        /\ fn = "strcmp" => mem[dest + k] # 0 /\ mem[dest + k] = mem[src + k]
        /\ fn = "memcmp" => k < len /\ mem[dest + k] = mem[src + k]
    BY <1>3, Zenon DEF GoesOn
  <2>4. k + 1 \in 0 .. MemTop
    <3>1. CASE fn \in {"strlen", "strcmp"}
      BY <1>1, <3>1, MeasureReads, Typed DEF Addr
    <3>2. CASE fn = "memcmp"
      BY <2>3, <3>2, Typed DEF MemInv, MemTypeOK
    <3> QED BY <1>1, <3>1, <3>2, Zenon DEF Measures
  <2>5. MemTypeOK'
    BY <1>1, <2>1, <2>4, Zenon DEF MemInv, MemTypeOK
  <2>6. Allowed(fn, dest, src, len, before)'
    BY <1>1, <2>1, Zenon DEF MemInv, Allowed, IsString, LengthIn, StringOf, Measures
  <2>7. fn = "strlen" => NonZero(mem, src, k + 1)
    BY <1>1, <2>2, <2>3, MeasureReads, Zenon DEF NonZero
  <2>8. fn = "strcmp" => NonZero(mem, dest, k + 1) /\ NonZero(mem, src, k + 1)
    BY <1>1, <2>2, <2>3, MeasureReads, Zenon DEF NonZero
  <2>9. fn \in {"strcmp", "memcmp"} =>
          \A j \in Nat : j < k + 1 => mem[dest + j] = mem[src + j]
    BY <1>1, <2>2, <2>3, MeasureReads, Zenon
  <2>10. fn = "memcmp" => k + 1 <= len
    BY <2>3, Typed
  <2>11. LoopInv'
    BY <1>1, <2>1, <2>7, <2>8, <2>9, <2>10, MeasureReads, Zenon DEF LoopInv, Measures, NonZero
  <2> QED BY <2>5, <2>6, <2>11, Zenon DEF MemInv
<1> QED BY <1>2, <1>3, Zenon

LEMMA MemInvInductive ==
  ASSUME MemInv, [MemNext]_memVars
  PROVE  MemInv'
<1>1. CASE fn = "none" /\ \E f \in Copies \cup Measures, d \in Addr, s \in Addr, n \in 0 .. MemTop :
             Allowed(f, d, s, n, mem) /\ MemCall(f, d, s, n)
  <2>1. Addr \subseteq Nat
    BY DEF Addr
  <2> QED BY <1>1, <2>1, Started, Zenon
<1>2. CASE CopyUp
  BY <1>2, CopyUpKeeps, Zenon
<1>3. CASE CopyDown
  BY <1>3, CopyDownKeeps, Zenon
<1>4. CASE Fill
  BY <1>4, FillKeeps, Zenon
<1>5. CASE CopyEnd
  BY <1>5, Returned, Typed, Zenon DEF CopyEnd
<1>6. CASE StringCopy
  BY <1>6, StringCopyKeeps, Zenon
<1>7. CASE Measure
  BY <1>7, MeasureKeeps, Zenon
<1>8. CASE UNCHANGED memVars
  <2>1. /\ fn' = fn /\ dest' = dest /\ src' = src /\ len' = len /\ before' = before
        /\ k' = k /\ mem' = mem
    BY <1>8, Zenon DEF memVars, memArgs
  <2>2. MemTypeOK'
    BY <2>1, Zenon DEF MemInv, MemTypeOK
  <2>3. fn # "none" => Allowed(fn, dest, src, len, before)'
    BY <2>1, Zenon DEF MemInv, Allowed, IsString, LengthIn, StringOf
  <2>4. LoopInv'
    BY <2>1, Zenon DEF MemInv, LoopInv, Overtakes, CopiedTo, NonZero
  <2> QED BY <2>1, <2>2, <2>3, <2>4, Zenon DEF MemInv
<1> QED BY <1>1, <1>2, <1>3, <1>4, <1>5, <1>6, <1>7, <1>8, Zenon DEF MemNext, MemLoop

-----------------------------------------------------------------------------
\* The first difference decides the order, and without one there is no order.
LEMMA OrderByFirst ==
  ASSUME NEW d \in Nat, NEW s \in Nat, NEW v \in Nat, NEW n \in Nat,
         mem[d + v] \in Int, mem[s + v] \in Int, v < n,
         \A j \in Nat : j < v => mem[d + j] = mem[s + j] /\ mem[d + j] \in Int,
         mem[d + v] # mem[s + v]
  PROVE  Less(d, s, n) <=> mem[d + v] < mem[s + v]
<1>1. ASSUME Less(d, s, n) PROVE mem[d + v] < mem[s + v]
  <2>1. PICK j \in 0 .. n - 1 :
          (\A l \in 0 .. j - 1 : mem[d + l] = mem[s + l]) /\ mem[d + j] < mem[s + j]
    BY <1>1, Zenon DEF Less
  <2>2. ~ (v < j)
    BY <2>1
  <2>3. ASSUME j < v PROVE FALSE
    <3>1. mem[d + j] = mem[s + j] /\ mem[d + j] \in Int
      BY <2>3
    <3> QED BY <2>1, <3>1
  <2>4. v = j
    BY <2>2, <2>3
  <2> QED BY <2>1, <2>4, Zenon
<1>2. ASSUME mem[d + v] < mem[s + v] PROVE Less(d, s, n)
  <2>1. v \in 0 .. n - 1 /\ \A l \in 0 .. v - 1 : l \in Nat /\ l < v
    OBVIOUS
  <2> QED BY <1>2, <2>1, Zenon DEF Less
<1> QED BY <1>1, <1>2, Zenon

LEMMA NoOrder ==
  ASSUME NEW d \in Nat, NEW s \in Nat, NEW n \in Nat,
         \A j \in Nat : j < n => mem[d + j] = mem[s + j] /\ mem[d + j] \in Int
  PROVE  ~ Less(d, s, n)
<1> SUFFICES ASSUME NEW j \in 0 .. n - 1, mem[d + j] < mem[s + j]
             PROVE  FALSE
  BY Zenon DEF Less
<1>1. mem[d + j] = mem[s + j] /\ mem[d + j] \in Int
  OBVIOUS
<1> QED BY <1>1

LEMMA ByteInt ==
  ASSUME MemInv, NEW x \in Addr
  PROVE  mem[x] \in Int
<1>1. mem[x] \in 0 .. Byte - 1
  BY Typed, Zenon DEF Contents
<1> QED BY <1>1

\* The copies and memset return the memory as asked.
LEMMA CopyReturns ==
  ASSUME MemInv, CopyEnd, ~ Overtakes
  PROVE  mem' = Result(fn, dest, src, len, before)
<1>1. mem' = mem /\ fn \in {"memcpy", "memmove", "memset"}
  BY Zenon DEF CopyEnd
<1>2. ASSUME NEW x \in Addr PROVE mem[x] = Result(fn, dest, src, len, before)[x]
  <2>1. x \in Nat /\ (x \in dest .. dest + len - 1 <=> dest <= x /\ x < dest + len)
    BY Typed DEF Addr
  <2>2. CASE fn = "memset"
    <3>1. k = len
      BY <2>2, Zenon DEF CopyEnd, Descending
    <3>2. mem[x] = IF dest <= x /\ x < dest + len THEN src % Byte ELSE before[x]
      BY <2>2, <3>1, Zenon DEF MemInv, LoopInv
    <3> QED BY <2>1, <2>2, <3>2, Zenon DEF Result
  <2>3. CASE fn \in {"memcpy", "memmove"}
    <3>1. CopiedTo(mem, dest, src, 0, len, before)
      BY <2>3, Typed, Zenon DEF MemInv, LoopInv, CopyEnd, Descending
    <3>2. mem[x] = IF dest <= x /\ x < dest + len THEN before[src + x - dest] ELSE before[x]
      BY <3>1, Typed DEF CopiedTo
    <3> QED BY <2>1, <2>3, <3>2, Zenon DEF Result
  <2> QED BY <1>1, <2>2, <2>3, Zenon
<1>3. mem = [x \in Addr |-> mem[x]]
  BY Typed, Zenon DEF Contents
<1> QED BY <1>1, <1>2, <1>3, Zenon DEF Result

LEMMA StringCopyReturns ==
  ASSUME MemInv, StringCopy, fn' = "none"
  PROVE  mem' = Result(fn, dest, src, len, before)
<1>1. fn = "strcpy" /\ mem' = [mem EXCEPT ![dest + k] = mem[src + k]] /\ mem[src + k] = 0
  BY Zenon DEF StringCopy, memArgs
<1>2. /\ CopiedTo(mem', dest, src, 0, k + 1, before) /\ before[src + k] = 0
      /\ src + k < MemTop /\ k \in 0 .. MemTop
  BY <1>1, StringCopyReads, Typed DEF Addr
<1>3. LengthIn(before, src) = k
  <2>1. NonZero(before, src, k)
    BY <1>1, Zenon DEF MemInv, LoopInv
  <2>2. \A j \in 0 .. k - 1 : before[src + j] # 0
    BY <2>1, Typed DEF NonZero
  <2>3. StringOf(before, src, k)
    BY <1>2, <2>2, Zenon DEF StringOf
  <2> QED BY <1>2, <2>3, Typed, LengthIs, Zenon
<1>4. ASSUME NEW x \in Addr PROVE mem'[x] = Result(fn, dest, src, len, before)[x]
  <2>1. x \in dest .. dest + LengthIn(before, src) <=> dest + 0 <= x /\ x < dest + (k + 1)
    BY <1>3, Typed DEF Addr
  <2> QED BY <1>1, <1>2, <2>1, Zenon DEF Result, CopiedTo
<1>5. mem' = [x \in Addr |-> mem'[x]]
  BY <1>1, Typed, Zenon DEF Contents
<1> QED BY <1>4, <1>5, Zenon DEF Result

\* strlen returns the length, and the sign of strcmp and memcmp is the order.
LEMMA MeasureReturns ==
  ASSUME MemInv, Measure, fn' = "none"
  PROVE  /\ mem' = Result(fn, dest, src, len, before)
         /\ fn = "strlen" => Measured = LengthIn(mem, src)
         /\ fn \in {"strcmp", "memcmp"} =>
              /\ Measured < 0 <=> Less(dest, src, Compared)
              /\ Measured > 0 <=> Less(src, dest, Compared)
<1>1. fn \in Measures /\ mem' = mem /\ ~ GoesOn
  BY Zenon DEF Measure, Measures, memArgs
<1>2. mem' = Result(fn, dest, src, len, before)
  <2>1. mem = [x \in Addr |-> mem[x]] /\ mem = before
    BY <1>1, MeasureReads, Typed, Zenon DEF Contents
  <2> QED BY <1>1, <2>1, Zenon DEF Result, Measures
<1>3. ASSUME fn = "strlen" PROVE Measured = LengthIn(mem, src)
  <2>1. mem[src + k] = 0 /\ Measured = k
    BY <1>1, <1>3, Zenon DEF GoesOn, Measured
  <2>2. NonZero(mem, src, k) /\ src + k \in Addr
    BY <1>1, <1>3, MeasureReads, Zenon
  <2>3. StringOf(mem, src, k) /\ k \in 0 .. MemTop
    BY <2>1, <2>2, Typed DEF StringOf, NonZero, Addr
  <2> QED BY <2>1, <2>3, Typed, LengthIs, Zenon
<1>4. ASSUME fn \in {"strcmp", "memcmp"}, Compared \in Nat, k < Compared,
             dest + k \in Addr, src + k \in Addr, mem[dest + k] # mem[src + k],
             Measured = mem[dest + k] - mem[src + k],
             \A j \in Nat : j < k => mem[dest + j] \in Int
      PROVE  /\ Measured < 0 <=> Less(dest, src, Compared)
             /\ Measured > 0 <=> Less(src, dest, Compared)
  <2>1. \A j \in Nat : j < k => mem[dest + j] = mem[src + j] /\ mem[dest + j] \in Int
    BY <1>1, <1>4, MeasureReads, Zenon
  <2>2. mem[dest + k] \in Int /\ mem[src + k] \in Int
    BY <1>4, ByteInt, Zenon
  <2> DEFINE n == Compared
  <2> HIDE DEF n
  <2>3. Less(dest, src, n) <=> mem[dest + k] < mem[src + k]
    BY <1>4, <2>1, <2>2, Typed, OrderByFirst, Zenon DEF n
  <2>4. Less(src, dest, n) <=> mem[src + k] < mem[dest + k]
    BY <1>4, <2>1, <2>2, Typed, OrderByFirst, Zenon DEF n
  <2>5. /\ Measured < 0 <=> mem[dest + k] < mem[src + k]
        /\ Measured > 0 <=> mem[src + k] < mem[dest + k]
    BY <1>4, <2>2
  <2> QED BY <2>3, <2>4, <2>5, Zenon DEF n
<1>5. ASSUME Compared \in Nat, Measured = 0,
             \A j \in Nat : j < Compared => mem[dest + j] = mem[src + j] /\ mem[dest + j] \in Int
      PROVE  /\ Measured < 0 <=> Less(dest, src, Compared)
             /\ Measured > 0 <=> Less(src, dest, Compared)
  <2> DEFINE n == Compared
  <2> HIDE DEF n
  <2>1. ~ Less(dest, src, n)
    BY <1>5, Typed, NoOrder, Zenon DEF n
  <2>2. ~ Less(src, dest, n)
    BY <1>5, Typed, NoOrder, Zenon DEF n
  <2> QED BY <1>5, <2>1, <2>2 DEF n
<1>6. CASE fn = "strcmp"
  <2>1. /\ IsString(mem, dest) /\ NonZero(mem, dest, k) /\ dest + k \in Addr /\ src + k \in Addr
        /\ \A j \in Nat : j < k => mem[dest + j] = mem[src + j]
    BY <1>1, <1>6, MeasureReads, Zenon
  <2>2. Compared = LengthIn(mem, dest) + 1 /\ Measured = mem[dest + k] - mem[src + k]
    BY <1>6, Zenon DEF Compared, Measured
  <2>3. Compared \in Nat /\ k < Compared
    BY <2>1, <2>2, Typed, WithinString
  <2>4. \A j \in Nat : j <= k => mem[dest + j] \in Int
    BY <2>1, Typed, ByteInt DEF Addr
  <2>5. CASE mem[dest + k] # mem[src + k]
    BY <1>2, <1>4, <1>6, <2>1, <2>2, <2>3, <2>4, <2>5, Typed
  <2>6. CASE mem[dest + k] = mem[src + k]
    <3>1. mem[dest + k] = 0
      BY <1>1, <1>6, <2>6, Zenon DEF GoesOn
    <3>2. StringOf(mem, dest, k) /\ k \in 0 .. MemTop
      BY <2>1, <3>1, Typed DEF StringOf, NonZero, Addr
    <3>3. LengthIn(mem, dest) = k
      BY <3>2, Typed, LengthIs, Zenon
    <3>4. Compared = k + 1 /\ Measured = 0
      BY <2>2, <2>6, <3>1, <3>3
    <3>5. \A j \in Nat : j < k + 1 => j <= k /\ (j < k \/ j = k)
      BY Typed
    <3>6. \A j \in Nat : j < Compared => mem[dest + j] = mem[src + j] /\ mem[dest + j] \in Int
      BY <2>1, <2>4, <2>6, <3>4, <3>5, Zenon
    <3> QED BY <1>2, <1>5, <1>6, <2>3, <3>4, <3>6, Zenon
  <2> QED BY <1>2, <1>6, <2>5, <2>6, Zenon
<1>7. CASE fn = "memcmp"
  <2>1. /\ Compared = len /\ k <= len
        /\ \A j \in Nat : j < k => mem[dest + j] = mem[src + j]
    BY <1>1, <1>7, MeasureReads, Zenon DEF Compared, MemInv, LoopInv
  <2>2. \A j \in Nat : j < len => mem[dest + j] \in Int
    BY <1>7, InRange, ByteInt, Zenon
  <2>3. CASE k = len
    <3>1. Measured = 0
      BY <1>7, <2>3, Zenon DEF Measured
    <3> QED BY <1>2, <1>5, <1>7, <2>1, <2>2, <2>3, <3>1, Typed, Zenon
  <2>4. CASE k # len
    <3>1. k < len
      BY <2>1, <2>4, Typed
    <3>2. mem[dest + k] # mem[src + k] /\ Measured = mem[dest + k] - mem[src + k]
      BY <1>1, <1>7, <2>4, <3>1, Zenon DEF GoesOn, Measured
    <3>3. dest + k \in Addr /\ src + k \in Addr
      BY <1>7, <3>1, InRange, Typed, Zenon
    <3>4. \A j \in Nat : j < k => mem[dest + j] \in Int
      BY <2>2, <3>1, Typed
    <3> QED BY <1>2, <1>4, <1>7, <2>1, <3>1, <3>2, <3>3, <3>4, Typed, Zenon
  <2> QED BY <2>3, <2>4, Zenon
<1> QED BY <1>1, <1>2, <1>3, <1>6, <1>7, Zenon DEF Measures

-----------------------------------------------------------------------------
\* The loops of lib/memory.c keep the invariant, whatever they are called with.
THEOREM LoopsKeepTrack == MemSpec => []MemInv
<1>1. ASSUME MemInit PROVE MemInv
  <2>1. fn = "none" /\ dest = 0 /\ src = 0 /\ len = 0 /\ k = 0 /\ before = mem /\ mem \in Contents
    BY <1>1, Zenon DEF MemInit, MemIdle
  <2>2. MemTypeOK
    BY <2>1, MemoryAssumption DEF MemTypeOK, Addr
  <2>3. LoopInv
    BY <2>1, Zenon DEF LoopInv, Measures
  <2> QED BY <2>1, <2>2, <2>3, Zenon DEF MemInv
<1>2. MemInv /\ [MemNext]_memVars => MemInv'
  BY MemInvInductive, Zenon
<1> QED BY <1>1, <1>2, PTL DEF MemSpec

\* What CallsDoAsAsked asks of a step.
Right ==
  fn' = "none" /\ fn # "none" /\ ~ Overtakes =>
    /\ mem' = Result(fn, dest, src, len, before)
    /\ fn = "strlen" => Measured = LengthIn(mem, src)
    /\ fn \in {"strcmp", "memcmp"} =>
         /\ Measured < 0 <=> Less(dest, src, Compared)
         /\ Measured > 0 <=> Less(src, dest, Compared)

LEMMA LoopIsRight ==
  ASSUME MemInv, MemLoop
  PROVE  Right
<1> SUFFICES ASSUME fn' = "none", fn # "none", ~ Overtakes
             PROVE  Right
  BY Zenon DEF Right
<1>1. CASE CopyUp \/ CopyDown \/ Fill
  BY <1>1, Zenon DEF CopyUp, CopyDown, Fill, memArgs
<1>2. CASE CopyEnd
  <2>1. fn \notin {"strlen", "strcmp", "memcmp"}
    BY <1>2, Zenon DEF CopyEnd
  <2> QED BY <1>2, <2>1, CopyReturns, Zenon DEF Right
<1>3. CASE StringCopy
  <2>1. fn = "strcpy"
    BY <1>3, Zenon DEF StringCopy
  <2> QED BY <1>3, <2>1, StringCopyReturns, Zenon DEF Right
<1>4. CASE Measure
  BY <1>4, MeasureReturns, Zenon DEF Right
<1> QED BY <1>1, <1>2, <1>3, <1>4, Zenon DEF MemLoop

\* memory.c:20: for every memory, byte size and call within the contracts,
\* each function of lib/memory.c returns what it was asked for; only memcpy
\* of ranges it overtakes is excepted.
THEOREM CallsAreRight == MemSpec => CallsDoAsAsked
<1>1. MemInv /\ [MemNext]_memVars => [Right]_memVars
  <2> SUFFICES ASSUME MemInv, MemNext
               PROVE  Right
    BY Zenon
  <2>1. CASE fn = "none"
    BY <2>1, Zenon DEF Right
  <2>2. CASE MemLoop
    BY <2>2, LoopIsRight, Zenon
  <2> QED BY <2>1, <2>2, Zenon DEF MemNext
<1>2. MemSpec => [][Right]_memVars
  BY <1>1, LoopsKeepTrack, PTL DEF MemSpec
<1> QED BY <1>2, Zenon DEF CallsDoAsAsked, Right

-----------------------------------------------------------------------------
(* The console                                                             *)

Cell == [char : Plain \cup Eight \cup {Space}, colour : 0 .. 255]

\* A console on whose screen a character has been handled, before scrolling.
Settling == [mem : [Cells -> Cell], row : 0 .. VGA_HEIGHT, col : 0 .. VGA_WIDTH - 1]

\* A row and a column make a cell of the screen, unless the row is past its end.
LEMMA OnScreen ==
  ASSUME NEW w \in Nat \ {0}, NEW h \in Nat \ {0}, NEW r \in 0 .. h, NEW c \in 0 .. w - 1
  PROVE  /\ r * w + c \in Nat /\ w * h \in Nat
         /\ r < h <=> r * w + c < w * h
         /\ r = h => r * w + c = w * h + c
<1>1. r * w \in Nat /\ w * h \in Nat
  OBVIOUS
<1>2. CASE r = h
  <2>1. r * w = w * h
    BY <1>2
  <2> QED BY <1>1, <1>2, <2>1
<1>3. CASE r < h
  <2>1. PICK q \in Nat : h = r + 1 + q
    <3>1. h - r - 1 \in Nat /\ h = r + 1 + (h - r - 1)
      BY <1>3
    <3> QED BY <3>1, Zenon
  <2>2. w * h = r * w + w + w * q /\ w * q \in Nat
    BY <2>1
  <2> QED BY <1>1, <1>3, <2>2
<1> QED BY <1>2, <1>3

\* Division with remainder.
LEMMA DivMod ==
  ASSUME NEW m \in Nat \ {0}, NEW n \in Nat
  PROVE  n \div m \in Nat /\ n % m \in 0 .. m - 1 /\ n = m * (n \div m) + (n % m)
OBVIOUS

\* Different multiples of m are at least m apart.
LEMMA OneMultiple ==
  ASSUME NEW m \in Nat \ {0}, NEW a \in Nat, NEW b \in Nat, m * a < m * b
  PROVE  m * a + m <= m * b
<1>1. a < b
  <2> SUFFICES ASSUME b <= a PROVE FALSE
    OBVIOUS
  <2>1. PICK q \in Nat : a = b + q
    <3>1. a - b \in Nat /\ a = b + (a - b)
      OBVIOUS
    <3> QED BY <3>1, Zenon
  <2>2. m * a = m * b + m * q /\ m * q \in Nat /\ m * b \in Nat
    BY <2>1
  <2> QED BY <2>2
<1>2. PICK q \in Nat : b = a + 1 + q
  <2>1. b - a - 1 \in Nat /\ b = a + 1 + (b - a - 1)
    BY <1>1
  <2> QED BY <2>1, Zenon
<1>3. m * b = m * a + m + m * q /\ m * q \in Nat /\ m * a \in Nat
  BY <1>2
<1> QED BY <1>3

\* The column is the rest of the cell by the width.
LEMMA LineOf ==
  ASSUME NEW w \in Nat \ {0}, NEW r \in Nat, NEW c \in 0 .. w - 1
  PROVE  (r * w + c) % w = c
<1> DEFINE n == r * w + c
           d == n \div w
           e == n % w
<1>1. n \in Nat /\ r * w = w * r /\ w * r \in Nat
  OBVIOUS
<1>2. d \in Nat /\ e \in 0 .. w - 1 /\ n = w * d + e
  BY <1>1, DivMod, Zenon
<1>3. n = w * r + c
  BY <1>1, Zenon
<1> HIDE DEF n, d, e
<1>4. w * d \in Nat
  BY <1>2
<1>5. ~(w * d < w * r)
  <2> SUFFICES ASSUME w * d < w * r PROVE FALSE
    BY Zenon
  <2>1. w * d + w <= w * r
    BY <1>2, OneMultiple, Zenon
  <2> QED BY <1>1, <1>2, <1>3, <1>4, <2>1
<1>6. ~(w * r < w * d)
  <2> SUFFICES ASSUME w * r < w * d PROVE FALSE
    BY Zenon
  <2>1. w * r + w <= w * d
    BY <1>2, OneMultiple, Zenon
  <2> QED BY <1>1, <1>2, <1>3, <1>4, <2>1
<1>7. e = c
  BY <1>1, <1>2, <1>3, <1>4, <1>5, <1>6
<1> QED BY <1>7, Zenon DEF n, e

\* TabStop is the one multiple of TAB_WIDTH in the TAB_WIDTH columns after col.
LEMMA TabStops ==
  ASSUME NEW t \in Nat \ {0}, NEW c \in Nat, NEW s, s = ((c + t) \div t) * t
  PROVE  /\ s \in c + 1 .. c + t /\ s % t = 0
         /\ \A u \in c + 1 .. c + t : u % t = 0 => u = s
<1> DEFINE d == (c + t) \div t
           e == (c + t) % t
<1>1. c + t \in Nat
  OBVIOUS
<1>2. d \in Nat /\ e \in 0 .. t - 1 /\ c + t = t * d + e
  BY <1>1, DivMod, Zenon
<1>3. s = d * t
  BY Zenon
<1> HIDE DEF d, e
<1>4. d * t = t * d /\ t * d \in Nat
  BY <1>2
<1>5. s \in c + 1 .. c + t /\ s \in Nat
  BY <1>2, <1>3, <1>4
<1>6. s % t = 0
  <2>1. (d * t + 0) % t = 0
    BY <1>2, LineOf
  <2>2. d * t + 0 = s
    BY <1>3, <1>4
  <2> QED BY <2>1, <2>2, Zenon
<1>7. ASSUME NEW u \in c + 1 .. c + t, u % t = 0
      PROVE  u = s
  <2>1. PICK b \in Nat : u = t * b
    <3>1. u \in Nat
      OBVIOUS
    <3>2. u \div t \in Nat /\ u = t * (u \div t) + (u % t)
      BY <3>1, DivMod, Zenon
    <3>3. t * (u \div t) \in Nat
      BY <3>2
    <3>4. u = t * (u \div t)
      BY <1>7, <3>2, <3>3
    <3> QED BY <3>2, <3>4, Zenon
  <2>2. ~(t * b < t * d)
    <3> SUFFICES ASSUME t * b < t * d PROVE FALSE
      BY Zenon
    <3>1. t * b + t <= t * d
      BY <1>2, <2>1, OneMultiple, Zenon
    <3> QED BY <1>3, <1>4, <1>5, <2>1, <3>1
  <2>3. ~(t * d < t * b)
    <3> SUFFICES ASSUME t * d < t * b PROVE FALSE
      BY Zenon
    <3>1. t * d + t <= t * b
      BY <1>2, <2>1, OneMultiple, Zenon
    <3> QED BY <1>3, <1>4, <1>5, <2>1, <3>1
  <2>4. t * b \in Nat
    BY <2>1
  <2> QED BY <1>3, <1>4, <2>1, <2>2, <2>3, <2>4
<1> QED BY <1>5, <1>6, <1>7, Zenon
-----------------------------------------------------------------------------
\* With characters of seven bits an entry has the colour asked for.
LEMMA FreshIsBlank ==
  ASSUME Eight = {}
  PROVE  /\ vga_entry(Space, current_color_byte) = Abstract!Blank
         /\ \A c : vga_entry(c, current_color_byte) = [char |-> c, colour |-> current_color_byte]
<1>1. \A c : vga_entry(c, current_color_byte) = [char |-> c, colour |-> current_color_byte]
  BY Zenon DEF vga_entry
<1>2. Abstract!Blank = [char |-> Space, colour |-> current_color_byte]
  BY Zenon DEF Abstract!Blank, Space
<1> QED BY <1>1, <1>2, Zenon

\* Scrolling puts the cursor back on the screen, which is what the abstract
\* terminal does when its position leaves the page.
LEMMA Settles ==
  ASSUME NEW s \in Settling, NEW z, z = Scrolled(s),
         VGA_MEMORY' = z.mem, cursor_row' = z.row, cursor_col' = z.col, Eight = {}
  PROVE  Abstract!Settle(s.mem, At(s))
<1> DEFINE w == VGA_WIDTH
           h == VGA_HEIGHT
<1>1. PICK r \in 0 .. h, c \in 0 .. w - 1 : r = s.row /\ c = s.col
  BY Zenon DEF Settling
<1>2. w \in Nat \ {0} /\ h \in Nat \ {0} /\ Cells = 0 .. w * h - 1
  BY VgaAssumption, Zenon DEF Cells
<1>3. At(s) = r * w + c
  BY <1>1, Zenon DEF At
<1>4. /\ r * w + c \in Nat /\ w * h \in Nat
      /\ r < h <=> r * w + c < w * h
      /\ r = h => r * w + c = w * h + c
  BY <1>2, OnScreen, Zenon
<1>5. CASE r < h
  <2>1. z = s
    BY <1>1, <1>2, <1>5 DEF Scrolled
  <2>2. VGA_MEMORY' = s.mem /\ cursor_row' = r /\ cursor_col' = c
    BY <1>1, <2>1, Zenon
  <2>3. At(s) < w * h
    BY <1>3, <1>4, <1>5, Zenon
  <2>4. cursor_row' * w + cursor_col' = At(s)
    BY <1>3, <2>2, Zenon
  <2> QED BY <2>2, <2>3, <2>4, Zenon DEF Abstract!Settle
<1>6. CASE r = h
  <2>1. z = scroll(s)
    BY <1>1, <1>2, <1>6 DEF Scrolled
  <2>2. /\ VGA_MEMORY' = [x \in Cells |-> IF x + w \in Cells THEN s.mem[x + w]
                                         ELSE vga_entry(Space, current_color_byte)]
        /\ cursor_row' = h - 1 /\ cursor_col' = c
    BY <1>1, <2>1 DEF scroll
  <2>3. cursor_row' * w + cursor_col' = At(s) - w
    <3>1. (h - 1) * w = w * h - w
      BY <1>2
    <3>2. (h - 1) * w + c = (r * w + c) - w
      BY <1>2, <1>4, <1>6, <3>1
    <3> DEFINE P(a, b) == a * w + b
    <3>3. P(h - 1, c) = At(s) - w
      BY <1>3, <3>2, Zenon
    <3> HIDE DEF P
    <3>4. P(cursor_row', cursor_col') = At(s) - w
      BY <2>2, <3>3, Zenon
    <3> QED BY <3>4, Zenon DEF P
  <2>4. \A x \in Cells : x + w \in Cells <=> x < w * h - w
    BY <1>2, <1>4
  <2>5. vga_entry(Space, current_color_byte) = Abstract!Blank
    BY FreshIsBlank, Zenon
  <2>6. VGA_MEMORY' = [x \in Cells |-> IF x < w * h - w THEN s.mem[x + w] ELSE Abstract!Blank]
    BY <2>2, <2>4, <2>5, Zenon
  <2>7. Abstract!Cells = Cells
    BY Zenon DEF Abstract!Cells, Cells
  <2>8. ~(At(s) < w * h)
    BY <1>2, <1>3, <1>4, <1>6
  <2> QED BY <2>3, <2>6, <2>7, <2>8, Zenon DEF Abstract!Settle
<1> QED BY <1>2, <1>5, <1>6

\* A fresh cell is a cell.
LEMMA EntryType ==
  ASSUME NEW c \in Plain \cup Eight \cup {Space}, current_color_byte \in 0 .. 255
  PROVE  vga_entry(c, current_color_byte) \in Cell
BY DEF vga_entry, Cell

\* Scrolling leaves a screen with the cursor on it.
LEMMA SettledType ==
  ASSUME NEW s \in Settling, NEW z, z = Scrolled(s), current_color_byte \in 0 .. 255
  PROVE  /\ z.mem \in [Cells -> Cell]
         /\ z.row \in 0 .. VGA_HEIGHT - 1 /\ z.col \in 0 .. VGA_WIDTH - 1
         /\ z.row * VGA_WIDTH + z.col \in Cells
<1>1. VGA_WIDTH \in Nat \ {0} /\ VGA_HEIGHT \in Nat \ {0}
  BY VgaAssumption, Zenon
<1>2. vga_entry(Space, current_color_byte) \in Cell
  BY EntryType, Zenon
<1>3. /\ z.mem \in [Cells -> Cell]
      /\ z.row \in 0 .. VGA_HEIGHT - 1 /\ z.col \in 0 .. VGA_WIDTH - 1
  <2>1. CASE s.row < VGA_HEIGHT
    <3>1. z = s
      BY <1>1, <2>1 DEF Scrolled, Settling
    <3> QED BY <1>1, <2>1, <3>1 DEF Settling
  <2>2. CASE s.row = VGA_HEIGHT
    <3>1. z = scroll(s)
      BY <1>1, <2>2 DEF Scrolled
    <3>2. z.row = VGA_HEIGHT - 1 /\ z.col = s.col
      BY <3>1 DEF scroll
    <3>3. z.mem = [x \in Cells |-> IF x + VGA_WIDTH \in Cells THEN s.mem[x + VGA_WIDTH]
                                   ELSE vga_entry(Space, current_color_byte)]
      BY <3>1 DEF scroll
    <3>4. z.mem \in [Cells -> Cell]
      BY <1>2, <3>3 DEF Settling
    <3> QED BY <1>1, <3>2, <3>4 DEF Settling
  <2> QED BY <1>1, <2>1, <2>2 DEF Settling
<1>4. z.row * VGA_WIDTH + z.col \in Cells
  <2>1. PICK a \in 0 .. VGA_HEIGHT, b \in 0 .. VGA_WIDTH - 1 :
          a = z.row /\ b = z.col /\ a < VGA_HEIGHT
    BY <1>1, <1>3
  <2>2. a * VGA_WIDTH + b \in Nat /\ VGA_WIDTH * VGA_HEIGHT \in Nat
        /\ a * VGA_WIDTH + b < VGA_WIDTH * VGA_HEIGHT
    BY <1>1, <2>1, OnScreen
  <2>3. a * VGA_WIDTH + b \in Cells
    BY <2>2 DEF Cells
  <2> QED BY <2>1, <2>3, Zenon
<1> QED BY <1>3, <1>4, Zenon

-----------------------------------------------------------------------------
\* The console between characters.
HereType ==
  /\ VGA_MEMORY \in [Cells -> Cell]
  /\ cursor_row \in 0 .. VGA_HEIGHT - 1 /\ cursor_col \in 0 .. VGA_WIDTH - 1
  /\ current_color_byte \in 0 .. 255

\* Where the cursor is, on the screen and as the terminal's position.
LEMMA Position ==
  ASSUME HereType
  PROVE  /\ VGA_WIDTH \in Nat \ {0} /\ VGA_HEIGHT \in Nat \ {0}
         /\ cursor_row \in Nat /\ cursor_col \in Nat /\ cursor_row * VGA_WIDTH \in Nat
         /\ cursor_row * VGA_WIDTH + cursor_col \in Cells
         /\ cursor_row * VGA_WIDTH + cursor_col < VGA_WIDTH * VGA_HEIGHT
         /\ VGA_WIDTH * VGA_HEIGHT \in Nat
         /\ Abstract!Line = cursor_row * VGA_WIDTH
<1>1. VGA_WIDTH \in Nat \ {0} /\ VGA_HEIGHT \in Nat \ {0}
  BY VgaAssumption, Zenon
<1>2. PICK r \in 0 .. VGA_HEIGHT, c \in 0 .. VGA_WIDTH - 1 :
        r = cursor_row /\ c = cursor_col /\ r < VGA_HEIGHT
  BY <1>1 DEF HereType
<1>3. /\ r * VGA_WIDTH + c \in Nat /\ VGA_WIDTH * VGA_HEIGHT \in Nat
      /\ r * VGA_WIDTH + c < VGA_WIDTH * VGA_HEIGHT
  BY <1>1, <1>2, OnScreen, Zenon
<1>4. r \in Nat /\ c \in Nat /\ r * VGA_WIDTH \in Nat
  BY <1>1
<1>5. r * VGA_WIDTH + c \in Cells
  BY <1>3 DEF Cells
<1>6. (r * VGA_WIDTH + c) % VGA_WIDTH = c
  BY <1>1, <1>4, LineOf, Zenon
<1>7. (r * VGA_WIDTH + c) - ((r * VGA_WIDTH + c) % VGA_WIDTH) = r * VGA_WIDTH
  BY <1>4, <1>6
<1>8. Abstract!Line = r * VGA_WIDTH
  <2> DEFINE L(a, b) == (a * VGA_WIDTH + b) - ((a * VGA_WIDTH + b) % VGA_WIDTH)
  <2>1. L(r, c) = r * VGA_WIDTH
    BY <1>7, Zenon
  <2>2. Abstract!Line = L(cursor_row, cursor_col)
    BY Zenon DEF Abstract!Line
  <2> HIDE DEF L
  <2> QED BY <1>2, <2>1, <2>2, Zenon
<1> QED BY <1>1, <1>2, <1>3, <1>4, <1>5, <1>8, Zenon

\* A new line.
LEMMA NewLineIs ==
  ASSUME NEW m, NEW r \in Nat, NEW c \in Nat
  PROVE  NewLine([mem |-> m, row |-> r, col |-> c]) = [mem |-> m, row |-> r + 1, col |-> 0]
BY Zenon DEF NewLine

\* What handling a character leaves: the terminal's new position and page.
LEMMA PrintedIs ==
  ASSUME HereType, NEW c \in Plain \cup Eight
  PROVE  \E s \in Settling :
           /\ Printed(Here, c) = s
           /\ s.mem = [VGA_MEMORY EXCEPT ![cursor_row * VGA_WIDTH + cursor_col] =
                         vga_entry(c, current_color_byte)]
           /\ At(s) = cursor_row * VGA_WIDTH + cursor_col + 1
<1> DEFINE pos == cursor_row * VGA_WIDTH + cursor_col
           m == [VGA_MEMORY EXCEPT ![pos] = vga_entry(c, current_color_byte)]
           wraps == cursor_col + 1 >= VGA_WIDTH
           s == [mem |-> m, row |-> IF wraps THEN cursor_row + 1 ELSE cursor_row,
                 col |-> IF wraps THEN 0 ELSE cursor_col + 1]
<1>1. VGA_WIDTH \in Nat \ {0} /\ VGA_HEIGHT \in Nat \ {0} /\ pos \in Cells
  BY Position, Zenon
<1>2. vga_entry(c, current_color_byte) \in Cell
  BY EntryType, Zenon DEF HereType
<1>3. m \in [Cells -> Cell]
  BY <1>1, <1>2, Zenon DEF HereType
<1>4. s \in Settling
  <2> HIDE DEF m
  <2> QED BY <1>1, <1>3 DEF HereType, Settling
<1>5. Here = [mem |-> VGA_MEMORY, row |-> cursor_row, col |-> cursor_col]
  BY Zenon DEF Here
<1>6. At(Here) = pos
  BY <1>5, Zenon DEF At
<1>7. [Here EXCEPT !.mem[At(Here)] = vga_entry(c, current_color_byte)]
        = [mem |-> m, row |-> cursor_row, col |-> cursor_col]
  BY <1>5, <1>6
<1>8. Printed(Here, c) = s
  <2> DEFINE t == [mem |-> m, row |-> cursor_row, col |-> cursor_col]
  <2> HIDE DEF m
  <2>1. NewLine(t) = [mem |-> m, row |-> cursor_row + 1, col |-> 0]
    BY NewLineIs, Position, Zenon
  <2>2. [t EXCEPT !.col = @ + 1] = [mem |-> m, row |-> cursor_row, col |-> cursor_col + 1]
    OBVIOUS
  <2>3. Here.col = cursor_col
    BY <1>5, Zenon
  <2>4. Printed(Here, c) = IF wraps THEN NewLine(t) ELSE [t EXCEPT !.col = @ + 1]
    BY <1>7, <2>3, Zenon DEF Printed
  <2> QED BY <2>1, <2>2, <2>4, Zenon
<1>9. At(s) = pos + 1
  <2>1. cursor_row \in Nat /\ cursor_col \in 0 .. VGA_WIDTH - 1 /\ cursor_row * VGA_WIDTH \in Nat
    BY Position, Zenon DEF HereType
  <2>2. (cursor_row + 1) * VGA_WIDTH = cursor_row * VGA_WIDTH + VGA_WIDTH
    BY <1>1, <2>1
  <2>3. At(s) = s.row * VGA_WIDTH + s.col
    BY Zenon DEF At
  <2>4. CASE wraps
    <3>1. s.row = cursor_row + 1 /\ s.col = 0 /\ cursor_col + 1 = VGA_WIDTH
      BY <1>1, <2>1, <2>4
    <3> HIDE DEF s
    <3> QED BY <2>1, <2>2, <2>3, <3>1
  <2>5. CASE ~ wraps
    <3>1. s.row = cursor_row /\ s.col = cursor_col + 1
      BY <2>5, Zenon
    <3> HIDE DEF s
    <3> QED BY <2>1, <2>3, <3>1
  <2> QED BY <2>4, <2>5, Zenon
<1>10. s.mem = m
  BY Zenon
<1> HIDE DEF s, m
<1> QED BY <1>4, <1>8, <1>9, <1>10, Zenon DEF m

\* A newline, a carriage return, a tab, a backspace and a printed character: the
\* screen each leaves, and the key of the terminal it is.
LEMMA NewLineStep ==
  ASSUME HereType
  PROVE  \E s \in Settling :
           NewLine(Here) = s /\ s.mem = VGA_MEMORY /\ At(s) = Abstract!NextLine
<1> DEFINE s == [mem |-> VGA_MEMORY, row |-> cursor_row + 1, col |-> 0]
<1>1. /\ VGA_WIDTH \in Nat \ {0} /\ VGA_HEIGHT \in Nat \ {0} /\ cursor_row \in Nat
      /\ cursor_col \in Nat /\ Abstract!Line = cursor_row * VGA_WIDTH
  BY Position, Zenon
<1>2. s \in Settling
  BY <1>1 DEF HereType, Settling
<1>3. NewLine(Here) = s
  BY <1>1, NewLineIs, Zenon DEF Here
<1>4. At(s) = (cursor_row + 1) * VGA_WIDTH + 0
  BY Zenon DEF At
<1>5. (cursor_row + 1) * VGA_WIDTH + 0 = cursor_row * VGA_WIDTH + VGA_WIDTH
  BY <1>1
<1>6. At(s) = Abstract!NextLine
  BY <1>1, <1>4, <1>5, Zenon DEF Abstract!NextLine
<1>7. s.mem = VGA_MEMORY
  BY Zenon
<1> HIDE DEF s
<1> QED BY <1>2, <1>3, <1>6, <1>7, Zenon

\* The carriage return.
LEMMA ReturnStep ==
  ASSUME HereType
  PROVE  \E s \in Settling :
           [Here EXCEPT !.col = 0] = s /\ s.mem = VGA_MEMORY /\ At(s) = Abstract!Line
<1> DEFINE s == [mem |-> VGA_MEMORY, row |-> cursor_row, col |-> 0]
<1>1. /\ VGA_WIDTH \in Nat \ {0} /\ VGA_HEIGHT \in Nat \ {0} /\ cursor_row \in Nat
      /\ cursor_row * VGA_WIDTH \in Nat /\ Abstract!Line = cursor_row * VGA_WIDTH
  BY Position, Zenon
<1>2. s \in Settling
  BY <1>1 DEF HereType, Settling
<1>3. [Here EXCEPT !.col = 0] = s
  BY DEF Here
<1>4. At(s) = cursor_row * VGA_WIDTH + 0
  BY Zenon DEF At
<1>5. At(s) = Abstract!Line
  BY <1>1, <1>4
<1>6. s.mem = VGA_MEMORY
  BY Zenon
<1> HIDE DEF s
<1> QED BY <1>2, <1>3, <1>5, <1>6, Zenon

\* The terminal's next tab stop is the column TabStop of the line.
LEMMA StopIs ==
  ASSUME HereType
  PROVE  /\ TabStop(cursor_col) \in Nat /\ TabStop(cursor_col) > cursor_col
         /\ (CHOOSE p \in cursor_row * VGA_WIDTH + cursor_col + 1
                         .. cursor_row * VGA_WIDTH + cursor_col + TAB_WIDTH :
               (p - Abstract!Line) % TAB_WIDTH = 0) = Abstract!Line + TabStop(cursor_col)
<1>1. PICK b \in Nat : b = Abstract!Line /\ b = cursor_row * VGA_WIDTH
  BY Position, Zenon
<1>2. cursor_col \in Nat /\ TAB_WIDTH \in Nat \ {0}
  BY Position, VgaAssumption, Zenon
<1>3. PICK c \in Nat : c = cursor_col
  BY <1>2, Zenon
<1>4. PICK s : s = ((c + TAB_WIDTH) \div TAB_WIDTH) * TAB_WIDTH
  BY Zenon
<1>5. /\ s \in c + 1 .. c + TAB_WIDTH /\ s % TAB_WIDTH = 0
      /\ \A u \in c + 1 .. c + TAB_WIDTH : u % TAB_WIDTH = 0 => u = s
  BY <1>2, <1>4, TabStops, Zenon
<1>6. TabStop(cursor_col) = s
  BY <1>3, <1>4, Zenon DEF TabStop
<1> DEFINE Range == b + c + 1 .. b + c + TAB_WIDTH
           Stop(p) == (p - b) % TAB_WIDTH = 0
<1>7. b + s \in Range /\ (b + s) - b = s
  BY <1>2, <1>5
<1>8. Stop(b + s)
  BY <1>5, <1>7, Zenon
<1>9. ASSUME NEW p \in Range, Stop(p)
      PROVE  p = b + s
  <2>1. p - b \in c + 1 .. c + TAB_WIDTH
    BY <1>2
  <2>2. p - b = s
    BY <1>5, <1>9, <2>1, Zenon
  <2> QED BY <1>2, <1>5, <2>2
<1>10. (CHOOSE p \in Range : Stop(p)) = b + s
  <2> HIDE DEF Range, Stop
  <2> QED BY <1>7, <1>8, <1>9, Zenon
<1>11. (CHOOSE p \in Range : Stop(p)) = (CHOOSE p \in cursor_row * VGA_WIDTH + cursor_col + 1
                         .. cursor_row * VGA_WIDTH + cursor_col + TAB_WIDTH :
               (p - Abstract!Line) % TAB_WIDTH = 0)
  BY <1>1, <1>3, Zenon
<1>12. s \in Nat /\ s > cursor_col
  BY <1>2, <1>3, <1>5
<1> QED BY <1>1, <1>6, <1>10, <1>11, <1>12, Zenon

\* The tab.
LEMMA TabStep ==
  ASSUME HereType
  PROVE  \E s \in Settling :
           /\ handle_tab(Here) = s /\ s.mem = VGA_MEMORY
           /\ Abstract!Settle(s.mem, At(s)) => Abstract!TabKey
<1>1. PICK t \in Nat : t = TabStop(cursor_col) /\ t > cursor_col
  BY StopIs, Zenon
<1>2. PICK b \in Nat : b = Abstract!Line /\ b = cursor_row * VGA_WIDTH
  BY Position, Zenon
<1>3. /\ VGA_WIDTH \in Nat \ {0} /\ VGA_HEIGHT \in Nat \ {0}
      /\ cursor_row \in Nat /\ cursor_col \in Nat
  BY Position, Zenon
<1>4. Abstract!TabKey <=>
        Abstract!Settle(VGA_MEMORY, IF b + t < b + VGA_WIDTH THEN b + t ELSE b + VGA_WIDTH)
  <2>1. Abstract!NextLine = b + VGA_WIDTH
    BY <1>2, Zenon DEF Abstract!NextLine
  <2>2. (CHOOSE p \in cursor_row * VGA_WIDTH + cursor_col + 1
                         .. cursor_row * VGA_WIDTH + cursor_col + TAB_WIDTH :
               (p - Abstract!Line) % TAB_WIDTH = 0) = b + t
    BY <1>1, <1>2, StopIs, Zenon
  <2> QED BY <2>1, <2>2, Zenon DEF Abstract!TabKey
<1>5. Here.col = cursor_col
  BY Zenon DEF Here
<1>6. CASE t >= VGA_WIDTH
  <2>1. PICK s \in Settling :
          NewLine(Here) = s /\ s.mem = VGA_MEMORY /\ At(s) = Abstract!NextLine
    BY NewLineStep, Zenon
  <2>2. handle_tab(Here) = s
    BY <1>1, <1>5, <1>6, <2>1, Zenon DEF handle_tab
  <2>3. ~(b + t < b + VGA_WIDTH)
    BY <1>3, <1>6
  <2>4. At(s) = b + VGA_WIDTH
    BY <1>2, <2>1, Zenon DEF Abstract!NextLine
  <2>5. Abstract!Settle(s.mem, At(s)) => Abstract!TabKey
    BY <1>4, <2>1, <2>3, <2>4, Zenon
  <2> QED BY <2>1, <2>2, <2>5, Zenon
<1>7. CASE ~(t >= VGA_WIDTH)
  <2> DEFINE s == [mem |-> VGA_MEMORY, row |-> cursor_row, col |-> t]
  <2>1. s \in Settling
    BY <1>3, <1>7 DEF HereType, Settling
  <2>2. [Here EXCEPT !.col = TabStop(@)] = s
    BY <1>1 DEF Here
  <2>3. handle_tab(Here) = s
    BY <1>1, <1>5, <1>7, <2>2, Zenon DEF handle_tab
  <2>4. At(s) = b + t
    BY <1>2, Zenon DEF At
  <2>5. b + t < b + VGA_WIDTH
    BY <1>3, <1>7
  <2>6. s.mem = VGA_MEMORY
    BY Zenon
  <2> HIDE DEF s
  <2>7. Abstract!Settle(s.mem, At(s)) => Abstract!TabKey
    BY <1>4, <2>4, <2>5, <2>6, Zenon
  <2> QED BY <2>1, <2>3, <2>6, <2>7, Zenon
<1> QED BY <1>6, <1>7, Zenon

\* The backspace, over a line end too.
LEMMA BackspaceStep ==
  ASSUME HereType
  PROVE  \E s \in Settling :
           /\ handle_backspace(Here) = s
           /\ Eight = {} /\ Abstract!Settle(s.mem, At(s)) => Abstract!Backspace
<1> DEFINE pos == cursor_row * VGA_WIDTH + cursor_col
           back == IF pos = 0 THEN 0 ELSE pos - 1
           blank == vga_entry(Space, current_color_byte)
<1>1. /\ VGA_WIDTH \in Nat \ {0} /\ VGA_HEIGHT \in Nat \ {0} /\ cursor_row \in Nat
      /\ cursor_col \in Nat /\ cursor_row * VGA_WIDTH \in Nat
  BY Position, Zenon
<1>2. Here = [mem |-> VGA_MEMORY, row |-> cursor_row, col |-> cursor_col]
  BY Zenon DEF Here
<1>3. blank \in Cell
  BY EntryType, Zenon DEF HereType
<1>4. \E t \in Settling :
        /\ t.mem = VGA_MEMORY /\ t.row < VGA_HEIGHT /\ At(t) = back
        /\ handle_backspace(Here) = [t EXCEPT !.mem[At(t)] = blank]
  <2>1. CASE cursor_col > 0
    <3> DEFINE t == [mem |-> VGA_MEMORY, row |-> cursor_row, col |-> cursor_col - 1]
    <3>1. t \in Settling /\ t.row < VGA_HEIGHT /\ t.mem = VGA_MEMORY
      BY <1>1, <2>1 DEF HereType, Settling
    <3>2. Here.col > 0 /\ [Here EXCEPT !.col = @ - 1] = t
      BY <1>2, <2>1
    <3>3. handle_backspace(Here) = [t EXCEPT !.mem[At(t)] = blank]
      BY <1>1, <1>2, <2>1, <3>2 DEF handle_backspace
    <3>4. At(t) = cursor_row * VGA_WIDTH + (cursor_col - 1)
      BY Zenon DEF At
    <3> HIDE DEF t
    <3>5. At(t) = back
      BY <1>1, <2>1, <3>4
    <3> QED BY <3>1, <3>3, <3>5, Zenon
  <2>2. CASE cursor_col = 0 /\ cursor_row > 0
    <3> DEFINE t == [mem |-> VGA_MEMORY, row |-> cursor_row - 1, col |-> VGA_WIDTH - 1]
    <3>1. t \in Settling /\ t.row < VGA_HEIGHT /\ t.mem = VGA_MEMORY
      BY <1>1, <2>2 DEF HereType, Settling
    <3>2. [mem |-> Here.mem, row |-> Here.row - 1, col |-> VGA_WIDTH - 1] = t
      BY <1>2, Zenon
    <3>3. handle_backspace(Here) = [t EXCEPT !.mem[At(t)] = blank]
      BY <1>1, <1>2, <2>2, <3>2 DEF handle_backspace
    <3>4. At(t) = (cursor_row - 1) * VGA_WIDTH + (VGA_WIDTH - 1)
      BY Zenon DEF At
    <3>5. (cursor_row - 1) * VGA_WIDTH = cursor_row * VGA_WIDTH - VGA_WIDTH
      BY <1>1
    <3>6. cursor_row * VGA_WIDTH # 0
      BY <1>1, <2>2
    <3> HIDE DEF t
    <3>7. At(t) = back
      BY <1>1, <2>2, <3>4, <3>5, <3>6
    <3> QED BY <3>1, <3>3, <3>7, Zenon
  <2>3. CASE cursor_col = 0 /\ cursor_row = 0
    <3> DEFINE t == [mem |-> VGA_MEMORY, row |-> cursor_row, col |-> cursor_col]
    <3>1. t \in Settling /\ t.row < VGA_HEIGHT /\ t.mem = VGA_MEMORY
      BY <1>1, <2>3 DEF HereType, Settling
    <3>2. handle_backspace(Here) = [t EXCEPT !.mem[At(t)] = blank]
      BY <1>1, <1>2, <2>3 DEF handle_backspace
    <3>3. At(t) = cursor_row * VGA_WIDTH + cursor_col
      BY Zenon DEF At
    <3> HIDE DEF t
    <3>4. At(t) = back
      BY <1>1, <2>3, <3>3
    <3> QED BY <3>1, <3>2, <3>4, Zenon
  <2>4. cursor_col > 0 \/ (cursor_col = 0 /\ cursor_row > 0)
        \/ (cursor_col = 0 /\ cursor_row = 0)
    BY <1>1
  <2> QED BY <2>1, <2>2, <2>3, <2>4, Zenon
<1>5. PICK t \in Settling :
        /\ t.mem = VGA_MEMORY /\ t.row < VGA_HEIGHT /\ At(t) = back
        /\ handle_backspace(Here) = [t EXCEPT !.mem[At(t)] = blank]
  BY <1>4, Zenon
<1> DEFINE m == [VGA_MEMORY EXCEPT ![back] = blank]
           s == [mem |-> m, row |-> t.row, col |-> t.col]
<1>6. m \in [Cells -> Cell]
  BY <1>3, Zenon DEF HereType
<1>7. [t EXCEPT !.mem[At(t)] = blank] = s
  BY <1>5, Zenon DEF Settling
<1> HIDE DEF m
<1>8. s \in Settling
  BY <1>6, Zenon DEF Settling
<1>9. At(s) = back
  BY <1>5, Zenon DEF At
<1>10. s.mem = m
  BY Zenon
<1> HIDE DEF s
<1>11. Eight = {} /\ Abstract!Settle(s.mem, At(s)) => Abstract!Backspace
  <2> SUFFICES ASSUME Eight = {}, Abstract!Settle(s.mem, At(s))
               PROVE  Abstract!Backspace
    BY Zenon
  <2>1. blank = Abstract!Blank
    BY FreshIsBlank, Zenon
  <2> HIDE DEF blank
  <2>2. Abstract!Settle([VGA_MEMORY EXCEPT ![back] = Abstract!Blank], back)
    BY <1>9, <1>10, <2>1, Zenon DEF m
  <2> QED BY <2>2, Zenon DEF Abstract!Backspace
<1> QED BY <1>5, <1>7, <1>8, <1>11, Zenon

\* The printed character.
LEMMA TypeStep ==
  ASSUME HereType, NEW c \in Plain \cup Eight
  PROVE  \E s \in Settling :
           /\ Printed(Here, c) = s
           /\ Eight = {} /\ Abstract!Settle(s.mem, At(s)) => Abstract!Type(c)
<1>1. PICK s \in Settling :
           /\ Printed(Here, c) = s
           /\ s.mem = [VGA_MEMORY EXCEPT ![cursor_row * VGA_WIDTH + cursor_col] =
                         vga_entry(c, current_color_byte)]
           /\ At(s) = cursor_row * VGA_WIDTH + cursor_col + 1
  BY PrintedIs, Zenon
<1>2. ASSUME Eight = {}, Abstract!Settle(s.mem, At(s))
      PROVE  Abstract!Type(c)
  <2>1. vga_entry(c, current_color_byte) = [char |-> c, colour |-> current_color_byte]
    BY <1>2, FreshIsBlank, Zenon
  <2> QED BY <1>1, <1>2, <2>1, Zenon DEF Abstract!Type
<1> QED BY <1>1, <1>2, Zenon

-----------------------------------------------------------------------------
\* Handling a character is one key of the terminal.
Key ==
  \/ \E c \in Plain \cup Eight : Abstract!Type(c)
  \/ Abstract!Newline \/ Abstract!CarriageReturn \/ Abstract!TabKey \/ Abstract!Backspace
  \/ Abstract!Clear

\* Whatever the character.
LEMMA HandledStep ==
  ASSUME HereType, NEW c \in AnyChar
  PROVE  \E s \in Settling :
           /\ Handled(Here, c) = s
           /\ Eight = {} /\ Abstract!Settle(s.mem, At(s)) => Key
<1>1. CASE c = "newline"
  <2>1. PICK s \in Settling :
          NewLine(Here) = s /\ s.mem = VGA_MEMORY /\ At(s) = Abstract!NextLine
    BY NewLineStep, Zenon
  <2>2. Handled(Here, c) = s
    BY <1>1, <2>1, Zenon DEF Handled
  <2>3. Abstract!Settle(s.mem, At(s)) => Abstract!Newline
    BY <2>1, Zenon DEF Abstract!Newline
  <2> QED BY <2>2, <2>3, Zenon DEF Key
<1>2. CASE c = "backspace"
  <2>1. Handled(Here, c) = handle_backspace(Here)
    BY <1>2, Zenon DEF Handled
  <2> QED BY <2>1, BackspaceStep, Zenon DEF Key
<1>3. CASE c = "tab"
  <2>1. Handled(Here, c) = handle_tab(Here)
    BY <1>3, Zenon DEF Handled
  <2> QED BY <2>1, TabStep, Zenon DEF Key
<1>4. CASE c = "return"
  <2>1. Handled(Here, c) = [Here EXCEPT !.col = 0]
    BY <1>4, Zenon DEF Handled
  <2>2. PICK s \in Settling :
          [Here EXCEPT !.col = 0] = s /\ s.mem = VGA_MEMORY /\ At(s) = Abstract!Line
    BY ReturnStep, Zenon
  <2>3. Abstract!Settle(s.mem, At(s)) => Abstract!CarriageReturn
    BY <2>2, Zenon DEF Abstract!CarriageReturn
  <2> QED BY <2>1, <2>2, <2>3, Zenon DEF Key
<1>5. CASE c \notin {"newline", "backspace", "tab", "return"}
  <2>1. c \in Plain \cup Eight
    BY <1>5, Zenon DEF AnyChar, Controls
  <2>2. Handled(Here, c) = Printed(Here, c)
    BY <1>5, Zenon DEF Handled
  <2> QED BY <2>1, <2>2, TypeStep, Zenon DEF Key
<1> QED BY <1>1, <1>2, <1>3, <1>4, <1>5, Zenon

\* The inductive invariant: the types and the cursor.
VgaInv == VgaTypeOK /\ CursorShown

\* The part of the types these lemmas need.
LEMMA TypesHere ==
  ASSUME VgaTypeOK
  PROVE  HereType
BY Zenon DEF VgaTypeOK, HereType, Cell

\* What a handled character does to the state.
LEMMA CharStep ==
  ASSUME VgaTypeOK, NEW c \in AnyChar, Becomes(Scrolled(Handled(Here, c)))
  PROVE  /\ VGA_MEMORY' \in [Cells -> Cell]
         /\ cursor_row' \in 0 .. VGA_HEIGHT - 1 /\ cursor_col' \in 0 .. VGA_WIDTH - 1
         /\ cursor_row' * VGA_WIDTH + cursor_col' \in Cells
         /\ Eight = {} => Key
<1>1. HereType
  BY TypesHere, Zenon
<1>2. PICK s \in Settling :
           /\ Handled(Here, c) = s
           /\ Eight = {} /\ Abstract!Settle(s.mem, At(s)) => Key
  BY <1>1, HandledStep, Zenon
<1>3. PICK z : z = Scrolled(s)
  BY Zenon
<1>4. Becomes(z)
  BY <1>2, <1>3, Zenon
<1>5. VGA_MEMORY' = z.mem /\ cursor_row' = z.row /\ cursor_col' = z.col
  BY <1>4, Zenon DEF Becomes
<1>6. /\ z.mem \in [Cells -> Cell]
      /\ z.row \in 0 .. VGA_HEIGHT - 1 /\ z.col \in 0 .. VGA_WIDTH - 1
      /\ z.row * VGA_WIDTH + z.col \in Cells
  BY <1>1, <1>3, SettledType, Zenon DEF HereType
<1>7. ASSUME Eight = {}
      PROVE  Key
  <2>1. Abstract!Settle(s.mem, At(s))
    BY <1>3, <1>5, <1>7, Settles, Zenon
  <2> QED BY <1>2, <1>7, <2>1, Zenon
<1> QED BY <1>5, <1>6, <1>7, Zenon

\* After vga_init the invariant holds.
LEMMA VgaInitially ==
  ASSUME VgaInit
  PROVE  VgaInv
<1>1. VGA_WIDTH \in Nat \ {0} /\ VGA_HEIGHT \in Nat \ {0} /\ MaxStr \in Nat
  BY VgaAssumption, Zenon
<1>2. vga_entry(Space, 15) \in Cell
  BY DEF vga_entry, Cell
<1>3. VGA_MEMORY \in [Cells -> Cell]
  BY <1>2, Zenon DEF VgaInit
<1>4. 0 \in Cells
  <2>1. 0 * VGA_WIDTH + 0 < VGA_WIDTH * VGA_HEIGHT /\ VGA_WIDTH * VGA_HEIGHT \in Nat
    BY <1>1, OnScreen
  <2> QED BY <1>1, <2>1 DEF Cells
<1>5. VgaTypeOK
  BY <1>1, <1>3, <1>4 DEF VgaInit, VgaTypeOK, Cell
<1>6. CursorShown
  BY <1>1 DEF VgaInit, CursorShown
<1> QED BY <1>5, <1>6, Zenon DEF VgaInv

\* What any client may do to the console, with any character and colour.
ConsoleStep ==
  \/ \E c \in AnyChar : vga_put_char(c) \/ WriteChar(c)
  \/ \E n \in 0 .. MaxStr : WriteCall(n)
  \/ WriteReturn
  \/ vga_clear
  \/ \E fg \in 0 .. 15, bg \in 0 .. 15 : vga_set_colors(fg, bg)
  \/ \E c \in 0 .. 15 : vga_set_color(c)
  \/ UNCHANGED vgaVars

\* The calls of the console are such steps.
LEMMA VgaSteps ==
  ASSUME [VgaNext]_vgaVars
  PROVE  ConsoleStep
<1>1. Chars \subseteq AnyChar /\ Fore \subseteq 0 .. 15 /\ Back \subseteq 0 .. 15
  BY VgaAssumption, Zenon DEF Chars, AnyChar
<1> QED BY <1>1, Zenon DEF VgaNext, ConsoleStep

\* Every step keeps the invariant.
LEMMA VgaStep ==
  ASSUME VgaInv, ConsoleStep
  PROVE  VgaInv'
<1>1. VgaTypeOK /\ CursorShown
  BY Zenon DEF VgaInv
<1>2. /\ VGA_WIDTH \in Nat \ {0} /\ VGA_HEIGHT \in Nat \ {0} /\ MaxStr \in Nat
  BY VgaAssumption, Zenon
<1>3. ASSUME NEW c \in AnyChar, vga_put_char(c)
      PROVE  VgaInv'
  <2>1. /\ VGA_MEMORY' \in [Cells -> Cell]
        /\ cursor_row' \in 0 .. VGA_HEIGHT - 1 /\ cursor_col' \in 0 .. VGA_WIDTH - 1
        /\ cursor_row' * VGA_WIDTH + cursor_col' \in Cells
    BY <1>1, <1>3, CharStep, Zenon DEF vga_put_char
  <2>2. /\ hw_cursor' = cursor_row' * VGA_WIDTH + cursor_col'
        /\ current_color_byte' = current_color_byte /\ left' = left
    BY <1>3, Zenon DEF vga_put_char, update_cursor
  <2>3. VgaTypeOK'
    BY <1>1, <2>1, <2>2, Zenon DEF VgaTypeOK, Cell
  <2>4. CursorShown'
    BY <2>2, Zenon DEF CursorShown
  <2> QED BY <2>3, <2>4, Zenon DEF VgaInv
<1>4. ASSUME NEW c \in AnyChar, WriteChar(c)
      PROVE  VgaInv'
  <2>1. /\ VGA_MEMORY' \in [Cells -> Cell]
        /\ cursor_row' \in 0 .. VGA_HEIGHT - 1 /\ cursor_col' \in 0 .. VGA_WIDTH - 1
    BY <1>1, <1>4, CharStep, Zenon DEF WriteChar
  <2>2. /\ hw_cursor' = hw_cursor /\ current_color_byte' = current_color_byte
        /\ left > 0 /\ left' = left - 1
    BY <1>4, Zenon DEF WriteChar
  <2>3. left' \in -1 .. MaxStr /\ left' # -1
    <3>1. left \in -1 .. MaxStr
      BY <1>1, Zenon DEF VgaTypeOK
    <3> QED BY <1>2, <2>2, <3>1
  <2>4. VgaTypeOK'
    BY <1>1, <2>1, <2>2, <2>3, Zenon DEF VgaTypeOK, Cell
  <2>5. CursorShown'
    BY <2>3, Zenon DEF CursorShown
  <2> QED BY <2>4, <2>5, Zenon DEF VgaInv
<1>5. ASSUME NEW n \in 0 .. MaxStr, WriteCall(n)
      PROVE  VgaInv'
  <2>1. /\ left' = n
        /\ UNCHANGED <<VGA_MEMORY, cursor_row, cursor_col, current_color_byte, hw_cursor>>
    BY <1>5, Zenon DEF WriteCall
  <2>2. left' \in -1 .. MaxStr /\ left' # -1
    BY <1>2, <2>1
  <2>3. VgaTypeOK'
    BY <1>1, <2>1, <2>2, Zenon DEF VgaTypeOK
  <2>4. CursorShown'
    BY <2>2, Zenon DEF CursorShown
  <2> QED BY <2>3, <2>4, Zenon DEF VgaInv
<1>6. ASSUME WriteReturn
      PROVE  VgaInv'
  <2>1. /\ hw_cursor' = cursor_row' * VGA_WIDTH + cursor_col' /\ left' = -1
        /\ UNCHANGED <<VGA_MEMORY, cursor_row, cursor_col, current_color_byte>>
    BY <1>6, Zenon DEF WriteReturn, update_cursor
  <2>2. cursor_row * VGA_WIDTH + cursor_col \in Cells
    BY <1>1, TypesHere, Position, Zenon
  <2>3. hw_cursor' \in Cells /\ left' \in -1 .. MaxStr
    BY <1>2, <2>1, <2>2
  <2>4. VgaTypeOK'
    BY <1>1, <2>1, <2>3, Zenon DEF VgaTypeOK
  <2>5. CursorShown'
    BY <2>1, Zenon DEF CursorShown
  <2> QED BY <2>4, <2>5, Zenon DEF VgaInv
<1>7. ASSUME vga_clear
      PROVE  VgaInv'
  <2>1. VGA_MEMORY' = Blanked /\ cursor_row' = 0 /\ cursor_col' = 0
    BY <1>7, Zenon DEF vga_clear, Becomes
  <2>2. /\ hw_cursor' = cursor_row' * VGA_WIDTH + cursor_col'
        /\ current_color_byte' = current_color_byte /\ left' = left
    BY <1>7, Zenon DEF vga_clear, update_cursor
  <2>3. vga_entry(Space, current_color_byte) \in Cell
    BY <1>1, EntryType, Zenon DEF VgaTypeOK
  <2>4. VGA_MEMORY' \in [Cells -> Cell]
    BY <2>1, <2>3, Zenon DEF Blanked
  <2>5. hw_cursor' \in Cells
    <3>1. hw_cursor' = 0
      BY <1>2, <2>1, <2>2
    <3>2. 0 * VGA_WIDTH + 0 < VGA_WIDTH * VGA_HEIGHT /\ VGA_WIDTH * VGA_HEIGHT \in Nat
      BY <1>2, OnScreen
    <3> QED BY <1>2, <3>1, <3>2 DEF Cells
  <2>a. cursor_row' \in 0 .. VGA_HEIGHT - 1 /\ cursor_col' \in 0 .. VGA_WIDTH - 1
    BY <1>2, <2>1
  <2>6. VgaTypeOK'
    BY <1>1, <2>2, <2>4, <2>5, <2>a, Zenon DEF VgaTypeOK, Cell
  <2>7. CursorShown'
    BY <2>2, Zenon DEF CursorShown
  <2> QED BY <2>6, <2>7, Zenon DEF VgaInv
<1>8. ASSUME current_color_byte' \in 0 .. 255,
             UNCHANGED <<VGA_MEMORY, cursor_row, cursor_col, hw_cursor, left>>
      PROVE  VgaInv'
  BY <1>1, <1>8, Zenon DEF VgaTypeOK, CursorShown, VgaInv
<1>9. ASSUME NEW fg \in 0 .. 15, NEW bg \in 0 .. 15, vga_set_colors(fg, bg)
      PROVE  VgaInv'
  <2>1. current_color_byte' \in 0 .. 255
    BY <1>9 DEF vga_set_colors
  <2> QED BY <1>8, <1>9, <2>1, Zenon DEF vga_set_colors
<1>10. ASSUME NEW c \in 0 .. 15, vga_set_color(c)
       PROVE  VgaInv'
  <2>1. current_color_byte \in 0 .. 255
    BY <1>1, Zenon DEF VgaTypeOK
  <2>2. current_color_byte' \in 0 .. 255
    BY <1>10, <2>1 DEF vga_set_color
  <2> QED BY <1>8, <1>10, <2>2, Zenon DEF vga_set_color
<1>11. ASSUME UNCHANGED vgaVars
       PROVE  VgaInv'
  BY <1>8, <1>11, <1>1, Zenon DEF vgaVars, VgaTypeOK
<1> QED BY <1>3, <1>4, <1>5, <1>6, <1>7, <1>9, <1>10, <1>11, Zenon DEF ConsoleStep

\* For every size of the screen, tab width, character set and length of string:
\* between calls the hardware cursor is where the next character goes, although
\* vga_write updates it only when it returns.
THEOREM CursorIsShown == VgaSpec => []CursorShown
<1>1. VgaInit => VgaInv
  BY VgaInitially, Zenon
<1>2. VgaInv /\ [VgaNext]_vgaVars => VgaInv'
  BY VgaStep, VgaSteps, Zenon
<1>3. VgaInv => CursorShown
  BY Zenon DEF VgaInv
<1> QED BY <1>1, <1>2, <1>3, PTL DEF VgaSpec

\* With characters of seven bits, the only ones whose colour the code keeps,
\* the console starts as the terminal does and every step is a step of it.
LEMMA TerminalInitially ==
  ASSUME Eight = {}, VgaInit
  PROVE  Abstract!Init
<1>1. VGA_WIDTH \in Nat
  BY VgaAssumption, Zenon
<1>2. current_color_byte = 15 /\ cursor_row = 0 /\ cursor_col = 0
  BY Zenon DEF VgaInit
<1>3. cursor_row * VGA_WIDTH + cursor_col = 0
  BY <1>1, <1>2
<1>4. vga_entry(Space, 15) = Abstract!Blank
  BY <1>2, FreshIsBlank, Zenon
<1>5. VGA_MEMORY = [x \in Abstract!Cells |-> Abstract!Blank]
  BY <1>4, Zenon DEF VgaInit, Cells, Abstract!Cells
<1> QED BY <1>3, <1>5, Zenon DEF Abstract!Init

LEMMA TerminalStep ==
  ASSUME Eight = {}, VgaInv, ConsoleStep
  PROVE  Abstract!Next
<1>1. ASSUME Key, UNCHANGED current_color_byte
      PROVE  Abstract!Next
  BY <1>1, Zenon DEF Key, Abstract!Next
<1>2. ASSUME UNCHANGED <<VGA_MEMORY, cursor_row, cursor_col>>
      PROVE  Abstract!Next
  BY <1>2, Zenon DEF Abstract!Next
<1>3. ASSUME NEW c \in AnyChar, vga_put_char(c)
      PROVE  Abstract!Next
  BY <1>1, <1>3, CharStep, Zenon DEF vga_put_char, VgaInv
<1>4. ASSUME NEW c \in AnyChar, WriteChar(c)
      PROVE  Abstract!Next
  BY <1>1, <1>4, CharStep, Zenon DEF WriteChar, VgaInv
<1>5. ASSUME vga_clear
      PROVE  Abstract!Next
  <2>1. VGA_MEMORY' = Blanked /\ cursor_row' = 0 /\ cursor_col' = 0
    BY <1>5, Zenon DEF vga_clear, Becomes
  <2>2. cursor_row' * VGA_WIDTH + cursor_col' = 0
    BY <2>1, VgaAssumption
  <2>3. VGA_MEMORY' = [x \in Abstract!Cells |-> Abstract!Blank]
    BY <2>1, FreshIsBlank, Zenon DEF Blanked, Cells, Abstract!Cells
  <2>4. Abstract!Clear
    BY <2>2, <2>3, Zenon DEF Abstract!Clear
  <2> QED BY <1>1, <1>5, <2>4, Zenon DEF Key, vga_clear
<1>6. ASSUME \/ \E n \in 0 .. MaxStr : WriteCall(n)
             \/ WriteReturn
             \/ \E fg \in 0 .. 15, bg \in 0 .. 15 : vga_set_colors(fg, bg)
             \/ \E c \in 0 .. 15 : vga_set_color(c)
             \/ UNCHANGED vgaVars
      PROVE  Abstract!Next
  BY <1>2, <1>6, Zenon DEF WriteCall, WriteReturn, vga_set_colors, vga_set_color, vgaVars
<1> QED BY <1>3, <1>4, <1>5, <1>6, Zenon DEF ConsoleStep

\* With characters of seven bits, the only ones whose colour the code keeps,
\* every character handled, by vga_put_char or inside vga_write, is one key of
\* the abstract terminal: wrapping, tab stops, backspacing over a line end and
\* scrolling included.
THEOREM ConsoleIsTerminal ==
  ASSUME Eight = {}
  PROVE  VgaSpec => ImplementsTerminal
<1>1. VgaInit => VgaInv
  BY VgaInitially, Zenon
<1>2. VgaInv /\ [VgaNext]_vgaVars => VgaInv'
  BY VgaStep, VgaSteps, Zenon
<1>3. VgaInit => Abstract!Init
  BY TerminalInitially, Zenon
<1>4. VgaInv /\ [VgaNext]_vgaVars => [Abstract!Next]_(Abstract!vars)
  BY TerminalStep, VgaSteps, Zenon
<1> QED BY <1>1, <1>2, <1>3, <1>4, PTL DEF VgaSpec, ImplementsTerminal, Abstract!Spec

-----------------------------------------------------------------------------
(* printf and log lines                                                    *)

\* A set of numbers that is not empty has a least one.
LEMMA Least ==
  ASSUME NEW D, D \subseteq Nat, D # {}
  PROVE  \E x \in D : \A y \in D : x <= y
<1>1. \E R : IsWellFoundedOn(R, Nat) /\ \A x, y \in Nat : <<x, y>> \in R <=> x < y
  <2> DEFINE R == OpToRel(<, Nat)
  <2>1. IsWellFoundedOn(R, Nat)
    BY NatLessThanWellFounded, Zenon
  <2>2. \A x, y \in Nat : <<x, y>> \in R <=> x < y
    BY Zenon DEF OpToRel
  <2> HIDE DEF R
  <2> QED BY <2>1, <2>2, Zenon
<1>2. PICK R : IsWellFoundedOn(R, Nat) /\ \A x, y \in Nat : <<x, y>> \in R <=> x < y
  BY <1>1, Zenon
<1>3. IsWellFoundedOn(R, Nat)
  BY <1>2, Zenon
<1>4. \A x, y \in Nat : x < y => <<x, y>> \in R
  BY <1>2, Zenon
<1>5. PICK x \in D : \A y \in D : ~(<<y, x>> \in R)
  BY <1>3, WFMin, Zenon
<1>6. \A y \in D : ~(y < x)
  BY <1>4, <1>5, Zenon
<1> QED BY <1>6

\* The same as a principle for sets that 0 starts and a step extends.
LEMMA Induction ==
  ASSUME NEW T, 0 \in T, \A m \in Nat : m \in T => m + 1 \in T
  PROVE  Nat \subseteq T
<1> DEFINE D == {m \in Nat : m \notin T}
<1> SUFFICES ASSUME D # {}
             PROVE  FALSE
  BY Zenon
<1>1. D \subseteq Nat
  BY Zenon
<1>2. PICK m \in D : \A y \in D : m <= y
  <2> HIDE DEF D
  <2> QED BY <1>1, Least, Zenon
<1>3. m # 0 /\ m \in Nat /\ m \notin T
  BY Zenon
<1>4. m - 1 \in Nat /\ ~(m <= m - 1) /\ (m - 1) + 1 = m
  BY <1>3
<1>5. m - 1 \in T
  BY <1>2, <1>4, Zenon
<1> QED BY <1>3, <1>4, <1>5, Zenon

-----------------------------------------------------------------------------
\* The characters of digits.
Numerals == {Numeral[d] : d \in 0 .. 15}

\* The recursion of DecimalDigits on the numbers up to m.
Decimal(g, m) ==
  g = [u \in 0 .. m |-> IF u = 0 THEN << >> ELSE Append(g[u \div 10], Numeral[u % 10])]

\* The recursion of DecimalDigits is well founded: each step divides by ten.
LEMMA DecimalExists ==
  ASSUME NEW n \in Nat
  PROVE  \E g : Decimal(g, n)
<1> DEFINE T == {m \in Nat : \E g : Decimal(g, m)}
<1>1. 0 \in T
  <2> DEFINE g == [u \in 0 .. 0 |-> << >>]
  <2>1. Decimal(g, 0)
    BY DEF Decimal
  <2> QED BY <2>1, Zenon
<1>2. ASSUME NEW m \in Nat, m \in T
      PROVE  m + 1 \in T
  <2>1. PICK g : Decimal(g, m)
    BY <1>2, Zenon
  <2> DEFINE h == [u \in 0 .. m + 1 |-> IF u = m + 1 THEN Append(g[u \div 10], Numeral[u % 10])
                                       ELSE g[u]]
  <2>2. ASSUME NEW u \in 0 .. m + 1
        PROVE  h[u] = IF u = 0 THEN << >> ELSE Append(h[u \div 10], Numeral[u % 10])
    <3>1. CASE u = 0
      BY <2>1, <3>1 DEF Decimal
    <3>2. CASE u # 0
      <4>1. u \div 10 \in 0 .. m
        BY <3>2
      <4>2. h[u \div 10] = g[u \div 10]
        BY <4>1
      <4>3. CASE u = m + 1
        BY <3>2, <4>2, <4>3, Zenon
      <4>4. CASE u # m + 1
        <5>1. u \in 0 .. m /\ h[u] = g[u]
          BY <4>4
        <5>2. g[u] = Append(g[u \div 10], Numeral[u % 10])
          BY <2>1, <3>2, <5>1, Zenon DEF Decimal
        <5> QED BY <3>2, <4>2, <5>1, <5>2, Zenon
      <4> QED BY <4>3, <4>4, Zenon
    <3> QED BY <3>1, <3>2, Zenon
  <2>3. h = [u \in 0 .. m + 1 |-> h[u]]
    BY Zenon
  <2> HIDE DEF h
  <2>4. Decimal(h, m + 1)
    BY <2>2, <2>3, Zenon DEF Decimal
  <2> QED BY <2>4
<1> HIDE DEF T
<1>3. Nat \subseteq T
  BY <1>1, <1>2, Induction, Zenon
<1> QED BY <1>3, Zenon DEF T

\* DecimalDigits is that recursion.
LEMMA DecimalIs ==
  \A u \in 0 .. UIntCount - 1 :
    DecimalDigits[u] = IF u = 0 THEN << >>
                       ELSE Append(DecimalDigits[u \div 10], Numeral[u % 10])
<1>1. UIntCount - 1 \in Nat
  BY PrintfAssumption
<1>2. Decimal(DecimalDigits, UIntCount - 1)
  BY <1>1, DecimalExists, Zenon DEF Decimal, DecimalDigits
<1> QED BY <1>2, Zenon DEF Decimal

\* Its digits are numerals.
LEMMA DecimalDigitsAre ==
  ASSUME NEW n \in 0 .. UIntCount - 1
  PROVE  DecimalDigits[n] \in Seq(Numerals)
<1>1. UIntCount - 1 \in Nat
  BY PrintfAssumption
<1> DEFINE D == {u \in 0 .. UIntCount - 1 : DecimalDigits[u] \notin Seq(Numerals)}
<1> SUFFICES ASSUME D # {}
             PROVE  FALSE
  BY Zenon
<1>4. D \subseteq Nat
  BY <1>1
<1>5. PICK u \in D : \A y \in D : u <= y
  <2> HIDE DEF D
  <2> QED BY <1>4, Least, Zenon
<1>6. u \in 0 .. UIntCount - 1 /\ DecimalDigits[u] \notin Seq(Numerals)
  BY Zenon
<1>7. CASE u = 0
  <2>1. DecimalDigits[u] = << >>
    BY <1>6, <1>7, DecimalIs, Zenon
  <2> QED BY <1>6, <2>1
<1>8. CASE u # 0
  <2>1. u \div 10 \in 0 .. UIntCount - 1 /\ ~(u <= u \div 10) /\ u % 10 \in 0 .. 15
    BY <1>1, <1>6, <1>8
  <2>2. DecimalDigits[u \div 10] \in Seq(Numerals)
    BY <1>5, <2>1, Zenon
  <2>3. Numeral[u % 10] \in Numerals
    BY <2>1, Zenon DEF Numerals
  <2>4. DecimalDigits[u] = Append(DecimalDigits[u \div 10], Numeral[u % 10])
    BY <1>6, <1>8, DecimalIs, Zenon
  <2> QED BY <1>6, <2>2, <2>3, <2>4
<1> QED BY <1>7, <1>8, Zenon

\* print_hex skips the leading zeros.
LEMMA HexShape ==
  ASSUME NEW n \in 0 .. UIntCount - 1
  PROVE  \E digit \in [1 .. Digits -> 0 .. 15], first \in 1 .. Digits :
           /\ \A x \in 1 .. Digits : digit[x] = (n \div 16^(Digits - x)) % 16
           /\ digit[first] # 0 \/ first = Digits
           /\ \A j \in 1 .. first - 1 : digit[j] = 0
           /\ HexDigits(n) = [x \in 1 .. Digits - first + 1 |-> Numeral[digit[first + x - 1]]]
<1>1. Digits \in Nat \ {0} /\ \A x \in 0 .. Digits : 16^x \in Nat \ {0}
  BY PrintfAssumption, Zenon
<1>2. n \in Nat
  BY PrintfAssumption
<1> DEFINE D(x) == (n \div 16^(Digits - x)) % 16
           digit == [x \in 1 .. Digits |-> D(x)]
           First(x) == (digit[x] # 0 \/ x = Digits) /\ \A j \in 1 .. x - 1 : digit[j] = 0
           first == CHOOSE x \in 1 .. Digits : First(x)
<1>3. ASSUME NEW x \in 1 .. Digits
      PROVE  D(x) \in 0 .. 15
  <2>1. PICK p \in Nat \ {0} : p = 16^(Digits - x)
    <3>1. Digits - x \in 0 .. Digits
      BY <1>1
    <3> QED BY <1>1, <3>1, Zenon
  <2>2. (n \div p) % 16 \in 0 .. 15
    BY <1>2
  <2> QED BY <2>1, <2>2, Zenon
<1>4. HexDigits(n) = [x \in 1 .. Digits - first + 1 |-> Numeral[digit[first + x - 1]]]
  BY Zenon DEF HexDigits
<1>5. \A x \in 1 .. Digits : digit[x] = (n \div 16^(Digits - x)) % 16
  BY Zenon
<1> HIDE DEF D
<1>6. digit \in [1 .. Digits -> 0 .. 15]
  BY <1>3, Zenon
<1> HIDE DEF digit
<1>7. \E x \in 1 .. Digits : First(x)
  <2> DEFINE E == {x \in 1 .. Digits : digit[x] # 0 \/ x = Digits}
  <2>1. E \subseteq Nat /\ E # {}
    BY <1>1
  <2>2. PICK x \in E : \A y \in E : x <= y
    <3> HIDE DEF E
    <3> QED BY <2>1, Least, Zenon
  <2>3. x \in 1 .. Digits /\ (digit[x] # 0 \/ x = Digits)
    BY Zenon
  <2>4. ASSUME NEW j \in 1 .. x - 1
        PROVE  digit[j] = 0
    <3>1. j \in 1 .. Digits /\ ~(x <= j)
      BY <1>1, <2>3
    <3> QED BY <2>2, <3>1, Zenon
  <2> QED BY <2>3, <2>4, Zenon
<1>8. first \in 1 .. Digits /\ First(first)
  <2> HIDE DEF First
  <2> QED BY <1>7, Zenon
<1> HIDE DEF first
<1> QED BY <1>4, <1>5, <1>6, <1>8, Zenon

\* The digits of print_hex and print_ptr are numerals too.
LEMMA HexDigitsAre ==
  ASSUME NEW n \in 0 .. UIntCount - 1
  PROVE  HexDigits(n) \in Seq(Numerals)
<1>1. PICK digit \in [1 .. Digits -> 0 .. 15], first \in 1 .. Digits :
        HexDigits(n) = [x \in 1 .. Digits - first + 1 |-> Numeral[digit[first + x - 1]]]
  BY HexShape, Zenon
<1> DEFINE count == Digits - first + 1
<1>2. count \in Nat /\ \A x \in 1 .. count : first + x - 1 \in 1 .. Digits
  BY PrintfAssumption
<1>3. ASSUME NEW x \in 1 .. count
      PROVE  Numeral[digit[first + x - 1]] \in Numerals
  <2>1. digit[first + x - 1] \in 0 .. 15
    BY <1>2, Zenon
  <2> QED BY <2>1, Zenon DEF Numerals
<1> HIDE DEF count
<1>4. [x \in 1 .. count |-> Numeral[digit[first + x - 1]]] \in [1 .. count -> Numerals]
  BY <1>3, Zenon
<1>5. [1 .. count -> Numerals] \subseteq Seq(Numerals)
  BY <1>2
<1> QED BY <1>1, <1>4, <1>5, Zenon DEF count

-----------------------------------------------------------------------------
\* Reading s from the left in the base given yields u.
Denotes(s, base, u) ==
  \E v \in [0 .. Len(s) -> Nat] :
    /\ v[0] = 0 /\ v[Len(s)] = u
    /\ \A i \in 1 .. Len(s) :
         \E d \in 0 .. base - 1 : s[i] = Numeral[d] /\ v[i] = base * v[i - 1] + d

\* There are digits, and the first is not 0 unless it is the only one.
Shortest(s) == Len(s) # 0 /\ (s[1] = "0" => Len(s) = 1)

\* What print_number collects in buf.
LEMMA DecimalDenotes ==
  ASSUME NEW n \in 0 .. UIntCount - 1
  PROVE  /\ Denotes(DecimalDigits[n], 10, n)
         /\ n # 0 => Len(DecimalDigits[n]) # 0 /\ DecimalDigits[n][1] # "0"
<1> DEFINE P(u) == /\ Denotes(DecimalDigits[u], 10, u)
                   /\ u # 0 => Len(DecimalDigits[u]) # 0 /\ DecimalDigits[u][1] # "0"
           D == {u \in 0 .. UIntCount - 1 : ~ P(u)}
<1> SUFFICES ASSUME D # {}
             PROVE  FALSE
  BY Zenon
<1>1. UIntCount - 1 \in Nat /\ D \subseteq Nat
  BY PrintfAssumption
<1>2. PICK u \in D : \A y \in D : u <= y
  <2> HIDE DEF D
  <2> QED BY <1>1, Least, Zenon
<1>3. u \in 0 .. UIntCount - 1 /\ ~ P(u)
  BY Zenon
<1>4. CASE u = 0
  <2>1. DecimalDigits[u] = << >>
    BY <1>3, <1>4, DecimalIs, Zenon
  <2> DEFINE v == [i \in 0 .. 0 |-> 0]
  <2>2. v \in [0 .. 0 -> Nat] /\ v[0] = 0 /\ Len(<< >>) = 0 /\ \A i \in 1 .. 0 : FALSE
    OBVIOUS
  <2> HIDE DEF v
  <2>3. Denotes(<< >>, 10, 0)
    BY <2>2, Zenon DEF Denotes
  <2> QED BY <1>3, <1>4, <2>1, <2>3, Zenon
<1>5. CASE u # 0
  <2>1. PICK q \in 0 .. UIntCount - 1, r \in 0 .. 9 :
          /\ q = u \div 10 /\ r = u % 10 /\ u = 10 * q + r /\ ~(u <= q) /\ u \in Nat
          /\ q = 0 => r # 0
    BY <1>1, <1>3, <1>5
  <2>2. P(q)
    BY <1>2, <2>1, Zenon
  <2>3. DecimalDigits[u] = Append(DecimalDigits[q], Numeral[r])
    BY <1>3, <1>5, <2>1, DecimalIs, Zenon
  <2>4. PICK s \in Seq(Numerals) : s = DecimalDigits[q]
    BY DecimalDigitsAre, Zenon
  <2>5. PICK l \in Nat : l = Len(s)
    OBVIOUS
  <2>6. PICK t : t = Append(s, Numeral[r])
    BY Zenon
  <2>7. /\ Len(t) = l + 1 /\ t[l + 1] = Numeral[r]
        /\ \A i \in 1 .. l : t[i] = s[i]
    BY <2>5, <2>6
  <2>8. PICK v \in [0 .. l -> Nat] :
          /\ v[0] = 0 /\ v[l] = q
          /\ \A i \in 1 .. l :
               \E d \in 0 .. 10 - 1 : s[i] = Numeral[d] /\ v[i] = 10 * v[i - 1] + d
    BY <2>2, <2>4, <2>5, Zenon DEF Denotes
  <2> DEFINE w == [i \in 0 .. l + 1 |-> IF i = l + 1 THEN u ELSE v[i]]
  <2>9. w \in [0 .. l + 1 -> Nat] /\ w[0] = 0 /\ w[l + 1] = u
    BY <2>1, <2>8
  <2>10. ASSUME NEW i \in 1 .. l + 1
         PROVE  \E d \in 0 .. 10 - 1 : t[i] = Numeral[d] /\ w[i] = 10 * w[i - 1] + d
    <3>1. CASE i = l + 1
      <4>1. r \in 0 .. 10 - 1 /\ w[i] = u /\ w[i - 1] = q
        BY <2>8, <3>1
      <4>2. w[i] = 10 * w[i - 1] + r
        BY <2>1, <4>1, Zenon
      <4> QED BY <2>7, <3>1, <4>1, <4>2, Zenon
    <3>2. CASE i # l + 1
      <4>1. i \in 1 .. l /\ w[i] = v[i] /\ w[i - 1] = v[i - 1]
        BY <3>2
      <4> QED BY <2>7, <2>8, <4>1, Zenon
    <3> QED BY <3>1, <3>2, Zenon
  <2> HIDE DEF w
  <2>11. Denotes(t, 10, u)
    <3>1. /\ w \in [0 .. Len(t) -> Nat] /\ w[0] = 0 /\ w[Len(t)] = u
          /\ 1 .. Len(t) = 1 .. l + 1
      BY <2>7, <2>9, Zenon
    <3>2. \A i \in 1 .. Len(t) :
            \E d \in 0 .. 10 - 1 : t[i] = Numeral[d] /\ w[i] = 10 * w[i - 1] + d
      BY <2>10, <3>1, Zenon
    <3> QED BY <3>1, <3>2, Zenon DEF Denotes
  <2>12. Len(t) # 0 /\ t[1] # "0"
    <3>1. CASE q = 0
      <4>1. l = 0 /\ r \in 1 .. 9
        <5>1. DecimalDigits[q] = << >>
          BY <3>1, DecimalIs, Zenon
        <5>2. s = << >>
          BY <2>4, <5>1, Zenon
        <5>3. l = 0
          BY <2>5, <5>2
        <5> QED BY <2>1, <3>1, <5>3
      <4>2. Len(t) # 0 /\ t[1] = Numeral[r]
        BY <2>7, <4>1
      <4> QED BY <4>1, <4>2 DEF Numeral, hex
    <3>2. CASE q # 0
      <4>1. l # 0 /\ s[1] # "0"
        BY <2>2, <2>4, <2>5, <3>2, Zenon
      <4>2. 1 \in 1 .. l /\ Len(t) # 0
        BY <2>7, <4>1
      <4> QED BY <2>7, <4>1, <4>2, Zenon
    <3> QED BY <3>1, <3>2, Zenon
  <2> QED BY <1>3, <2>3, <2>4, <2>6, <2>11, <2>12, Zenon
<1> QED BY <1>4, <1>5, Zenon

\* printf.c:6: print_number writes every int in decimal, the least one included,
\* whose magnitude is no int: a sign if it is negative and the digits of its
\* magnitude without leading zeros.
THEOREM NumbersAreDecimal ==
  ASSUME NEW num \in Ints
  PROVE  \E s \in Seq(Numerals) :
           /\ Denotes(s, 10, IF num < 0 THEN -num ELSE num) /\ Shortest(s)
           /\ print_number(num) = Puts(IF num < 0 THEN <<"-">> \o s ELSE s)
<1>1. PICK c \in Nat \ {0} : c = UIntCount
  BY PrintfAssumption, Zenon
<1>2. num \in Int /\ -(c \div 2) <= num /\ num <= (c \div 2) - 1
  BY <1>1 DEF Ints
<1>3. CASE num = 0
  <2> DEFINE s == <<"0">>
             v == [i \in 0 .. 1 |-> 0]
  <2>1. s \in Seq(Numerals) /\ Len(s) = 1 /\ s[1] = Numeral[0]
    <3>1. "0" = Numeral[0] /\ 0 \in 0 .. 15
      BY DEF Numeral, hex
    <3>2. "0" \in Numerals
      BY <3>1, Zenon DEF Numerals
    <3> QED BY <3>1, <3>2
  <2>2. /\ v \in [0 .. 1 -> Nat] /\ v[0] = 0 /\ v[1] = 0
        /\ \A i \in 1 .. 1 : i = 1 /\ v[i] = 10 * v[i - 1] + 0
        /\ 0 \in 0 .. 10 - 1
    OBVIOUS
  <2> HIDE DEF v
  <2>3. Denotes(s, 10, 0) /\ Shortest(s)
    <3> HIDE DEF s
    <3>1. /\ v \in [0 .. Len(s) -> Nat] /\ v[0] = 0 /\ v[Len(s)] = 0
          /\ 1 .. Len(s) = 1 .. 1
      BY <2>1, <2>2, Zenon
    <3>2. \A i \in 1 .. Len(s) :
            \E d \in 0 .. 10 - 1 : s[i] = Numeral[d] /\ v[i] = 10 * v[i - 1] + d
      BY <2>1, <2>2, <3>1, Zenon
    <3>3. Len(s) # 0
      BY <2>1
    <3> QED BY <2>1, <3>1, <3>2, <3>3, Zenon DEF Denotes, Shortest
  <2>4. print_number(num) = Puts(s)
    BY <1>3 DEF print_number
  <2>5. ~(num < 0) /\ num = 0
    BY <1>3
  <2> QED BY <2>1, <2>3, <2>4, <2>5, Zenon
<1>4. ASSUME NEW m \in 0 .. UIntCount - 1, m # 0
      PROVE  DecimalDigits[m] \in Seq(Numerals) /\ Denotes(DecimalDigits[m], 10, m)
             /\ Shortest(DecimalDigits[m])
  BY <1>4, DecimalDigitsAre, DecimalDenotes, Zenon DEF Shortest
<1>5. CASE num > 0
  <2>1. num % c = num /\ num \in 0 .. c - 1 /\ num # 0 /\ ~(num < 0)
    BY <1>2, <1>5
  <2>2. print_number(num) = Puts(DecimalDigits[num])
    BY <1>1, <2>1, Zenon DEF print_number
  <2> QED BY <1>1, <1>4, <2>1, <2>2, Zenon
<1>6. CASE num < 0
  <2>1. ((c - 1 - (num % c)) + 1) % c = -num /\ -num \in 0 .. c - 1 /\ -num # 0 /\ num # 0
    <3>1. num % c = num + c
      BY <1>2, <1>6
    <3> QED BY <1>2, <1>6, <3>1
  <2>2. print_number(num) = Puts(<<"-">> \o DecimalDigits[-num])
    BY <1>1, <1>6, <2>1, Zenon DEF print_number
  <2> QED BY <1>1, <1>4, <1>6, <2>1, <2>2, Zenon
<1> QED BY <1>2, <1>3, <1>5, <1>6

\* A quotient and its remainder.
LEMMA Quotient ==
  ASSUME NEW a \in Nat, NEW h \in Nat \ {0}
  PROVE  /\ a \div h \in Nat /\ a % h \in 0 .. h - 1
         /\ a = h * (a \div h) + (a % h)
  BY Z3

\* A digit more divides by 16 once more.
LEMMA QuotientBy16 ==
  ASSUME NEW n \in Nat, NEW p \in Nat \ {0}
  PROVE  n \div p = 16 * (n \div (16 * p)) + ((n \div p) % 16)
<1>1. PICK q \in Nat, r \in 0 .. p - 1 : q = n \div p /\ n = p * q + r
  BY Quotient, Zenon
<1>2. PICK s \in Nat, t \in 0 .. 15 : s = q \div 16 /\ t = q % 16 /\ q = 16 * s + t
  BY <1>1
<1>3. PICK m \in Nat \ {0} : m = 16 * p
  OBVIOUS
<1>4. PICK x \in Nat, y \in 0 .. m - 1 : x = n \div m /\ n = m * x + y
  BY Quotient, Zenon
<1>5. p * q = m * s + p * t
  BY <1>2, <1>3
<1>6. p * t \in Nat /\ p * t <= 15 * p
  BY <1>2
<1>7. PICK z \in Nat : z = p * t + r /\ z < m /\ n = m * s + z
  BY <1>1, <1>3, <1>5, <1>6
<1>8. ~(x < s)
  <2> SUFFICES ASSUME x < s PROVE FALSE
    BY Zenon
  <2>1. m * (x + 1) <= m * s
    OBVIOUS
  <2>2. m * (x + 1) = m * x + m
    OBVIOUS
  <2>3. m * x \in Nat /\ m * s \in Nat
    OBVIOUS
  <2> QED BY <1>4, <1>7, <2>1, <2>2, <2>3
<1>9. ~(s < x)
  <2> SUFFICES ASSUME s < x PROVE FALSE
    BY Zenon
  <2>1. m * (s + 1) <= m * x
    OBVIOUS
  <2>2. m * (s + 1) = m * s + m
    OBVIOUS
  <2>3. m * x \in Nat /\ m * s \in Nat
    OBVIOUS
  <2> QED BY <1>4, <1>7, <2>1, <2>2, <2>3
<1>10. x = s
  BY <1>8, <1>9
<1> QED BY <1>1, <1>2, <1>3, <1>4, <1>10, Zenon

\* printf.c:34, printf.c:51: print_hex and print_ptr write every unsigned value in
\* hexadecimal, without leading zeros.
THEOREM NumbersAreHexadecimal ==
  ASSUME NEW n \in 0 .. UIntCount - 1
  PROVE  Denotes(HexDigits(n), 16, n) /\ Shortest(HexDigits(n))
<1>1. PICK digit \in [1 .. Digits -> 0 .. 15], first \in 1 .. Digits :
        /\ \A x \in 1 .. Digits : digit[x] = (n \div 16^(Digits - x)) % 16
        /\ digit[first] # 0 \/ first = Digits
        /\ \A j \in 1 .. first - 1 : digit[j] = 0
        /\ HexDigits(n) = [x \in 1 .. Digits - first + 1 |-> Numeral[digit[first + x - 1]]]
  BY HexShape, Zenon
<1>2. /\ Digits \in Nat \ {0} /\ \A x \in 0 .. Digits : 16^x \in Nat \ {0}
      /\ 16^0 = 1 /\ \A x \in 1 .. Digits : 16^x = 16 * 16^(x - 1)
      /\ UIntCount = 16^Digits
  BY PrintfAssumption, Zenon DEF UIntCount
<1>3. n \in Nat /\ n < UIntCount
  BY <1>2
<1> DEFINE V(x) == n \div 16^(Digits - x)
<1>4. ASSUME NEW x \in 0 .. Digits
      PROVE  V(x) \in Nat
  <2>1. Digits - x \in 0 .. Digits
    BY <1>2
  <2>2. PICK p \in Nat \ {0} : p = 16^(Digits - x)
    BY <1>2, <2>1, Zenon
  <2>3. n \div p \in Nat
    BY <1>3, Quotient, Zenon
  <2> QED BY <2>2, <2>3, Zenon
<1>5. ASSUME NEW x \in 1 .. Digits
      PROVE  V(x) = 16 * V(x - 1) + digit[x]
  <2>1. /\ Digits - x \in 0 .. Digits /\ Digits - (x - 1) \in 1 .. Digits
        /\ (Digits - (x - 1)) - 1 = Digits - x
    BY <1>2
  <2>2. PICK p \in Nat \ {0} : p = 16^(Digits - x)
    BY <1>2, <2>1, Zenon
  <2>3. 16^(Digits - (x - 1)) = 16 * p
    BY <1>2, <2>1, <2>2, Zenon
  <2>4. n \div p = 16 * (n \div (16 * p)) + ((n \div p) % 16)
    BY <1>3, QuotientBy16, Zenon
  <2> QED BY <1>1, <2>2, <2>3, <2>4, Zenon
<1>6. V(0) = 0 /\ V(Digits) = n
  <2>1. Digits - 0 = Digits /\ Digits - Digits = 0
    BY <1>2
  <2>2. PICK c \in Nat \ {0} : c = UIntCount
    BY PrintfAssumption, Zenon
  <2>3. n \div c = 0 /\ n \div 1 = n
    BY <1>3, <2>2
  <2> QED BY <1>2, <2>1, <2>2, <2>3, Zenon
<1> HIDE DEF V
<1>7. V(first - 1) = 0
  <2> DEFINE T == {m \in Nat : m <= first - 1 => V(m) = 0}
  <2>1. 0 \in T
    BY <1>6
  <2>2. ASSUME NEW m \in Nat, m \in T
        PROVE  m + 1 \in T
    <3> SUFFICES ASSUME m + 1 <= first - 1
                 PROVE  V(m + 1) = 0
      OBVIOUS
    <3>1. m <= first - 1 /\ m + 1 \in 1 .. Digits /\ m + 1 \in 1 .. first - 1 /\ (m + 1) - 1 = m
      BY <1>2
    <3>2. V(m) = 0 /\ digit[m + 1] = 0
      BY <1>1, <2>2, <3>1, Zenon
    <3>3. V(m + 1) = 16 * 0 + 0
      BY <1>5, <3>1, <3>2, Zenon
    <3> QED BY <3>3
  <2> HIDE DEF T
  <2>3. Nat \subseteq T
    BY <2>1, <2>2, Induction, Zenon
  <2>4. first - 1 \in Nat /\ first - 1 <= first - 1
    BY <1>2
  <2> QED BY <2>3, <2>4, Zenon DEF T
<1> DEFINE count == Digits - first + 1
           s == [x \in 1 .. count |-> Numeral[digit[first + x - 1]]]
           w == [x \in 0 .. count |-> V(first - 1 + x)]
<1>8. /\ count \in Nat \ {0} /\ first - 1 + 0 = first - 1 /\ first - 1 + count = Digits
      /\ \A x \in 0 .. count : first - 1 + x \in 0 .. Digits
      /\ \A x \in 1 .. count : /\ first + x - 1 \in 1 .. Digits /\ x \in 0 .. count
                               /\ x - 1 \in 0 .. count
                               /\ first - 1 + x = first + x - 1
                               /\ first - 1 + (x - 1) = (first + x - 1) - 1
      /\ 0 \in 0 .. count /\ count \in 0 .. count /\ 1 \in 1 .. count /\ first + 1 - 1 = first
  BY <1>2
<1> HIDE DEF count
<1>9. s \in Seq(Numerals) /\ Len(s) = count /\ HexDigits(n) = s
  <2>1. HexDigits(n) = s
    BY <1>1, Zenon DEF count
  <2>2. s \in [1 .. count -> {Numeral[digit[first + x - 1]] : x \in 1 .. count}]
    BY Zenon
  <2> HIDE DEF s
  <2>3. Len(s) = count
    BY <1>8, <2>2
  <2> QED BY <2>1, <2>3, HexDigitsAre, Zenon
<1>10. \A x \in 1 .. count : s[x] = Numeral[digit[first + x - 1]]
  BY Zenon
<1> HIDE DEF s
<1>11. w \in [0 .. count -> Nat] /\ w[0] = 0 /\ w[count] = n
  BY <1>4, <1>6, <1>7, <1>8, Zenon
<1>12. ASSUME NEW x \in 1 .. count
       PROVE  \E d \in 0 .. 16 - 1 : s[x] = Numeral[d] /\ w[x] = 16 * w[x - 1] + d
  <2>1. digit[first + x - 1] \in 0 .. 15 /\ 16 - 1 = 15
    BY <1>8
  <2>2. w[x] = V(first + x - 1) /\ w[x - 1] = V((first + x - 1) - 1)
    BY <1>8, Zenon
  <2>3. w[x] = 16 * w[x - 1] + digit[first + x - 1]
    BY <1>5, <1>8, <2>2, Zenon
  <2> QED BY <1>10, <2>1, <2>3, Zenon
<1> HIDE DEF w
<1>13. Denotes(s, 16, n)
  BY <1>9, <1>11, <1>12, Zenon DEF Denotes
<1>14. Shortest(s)
  <2>1. s[1] = Numeral[digit[first]] /\ digit[first] \in 0 .. 15
    BY <1>8, <1>10, Zenon
  <2>2. s[1] = "0" => digit[first] = 0
    BY <2>1 DEF Numeral, hex
  <2>3. first = Digits => count = 1
    BY <1>2 DEF count
  <2>4. Len(s) # 0
    BY <1>8, <1>9
  <2> QED BY <1>1, <1>9, <2>2, <2>3, <2>4, Zenon DEF Shortest
<1> QED BY <1>9, <1>13, <1>14, Zenon

-----------------------------------------------------------------------------
\* What callers may print, the calls of the console it comes to, and those of
\* them that leave the colour alone.
ConsoleCall ==
  {call \in [op : {"put", "write", "colour"}, text : Seq(AnyChar), ink : -1 .. 15] :
     /\ call.op = "put" => Len(call.text) = 1
     /\ call.op = "write" => Len(call.text) <= MaxStr
     /\ call.op = "colour" => call.ink # -1}

Silent == {call \in ConsoleCall : call.op # "colour"}

\* The calls printf makes, one by one.
LEMMA OneCall ==
  /\ \A c \in AnyChar : Put(c) \in Silent
  /\ \A s \in Seq(AnyChar) : Len(s) <= MaxStr => Write(s) \in Silent
  /\ \A n \in 0 .. 15 : Colour(n) \in ConsoleCall /\ Colour(n).op = "colour"
                        /\ Colour(n).ink = n
<1>1. ASSUME NEW c \in AnyChar
      PROVE  Put(c) \in Silent
  <2>1. <<c>> \in Seq(AnyChar) /\ Len(<<c>>) = 1
    OBVIOUS
  <2> QED BY <2>1 DEF Put, Silent, ConsoleCall, NoInk
<1>2. ASSUME NEW s \in Seq(AnyChar), Len(s) <= MaxStr
      PROVE  Write(s) \in Silent
  BY <1>2 DEF Write, Silent, ConsoleCall, NoInk
<1>3. ASSUME NEW n \in 0 .. 15
      PROVE  Colour(n) \in ConsoleCall /\ Colour(n).op = "colour" /\ Colour(n).ink = n
  <2>1. << >> \in Seq(AnyChar)
    OBVIOUS
  <2> QED BY <2>1 DEF Colour, ConsoleCall
<1> QED BY <1>1, <1>2, <1>3, Zenon

\* Printing a string character by character leaves the colour alone.
LEMMA PutsAre ==
  ASSUME NEW s \in Seq(AnyChar)
  PROVE  Puts(s) \in Seq(Silent)
<1>1. \A n \in 1 .. Len(s) : Put(s[n]) \in Silent
  BY OneCall
<1>2. Puts(s) = [n \in 1 .. Len(s) |-> Put(s[n])]
  BY DEF Puts
<1>3. Puts(s) \in [1 .. Len(s) -> Silent]
  BY <1>1, <1>2, Zenon
<1>4. [1 .. Len(s) -> Silent] \subseteq Seq(Silent)
  OBVIOUS
<1> QED BY <1>3, <1>4, Zenon

\* Digits, the sign and the prefix of hexadecimal numbers can be printed.
LEMMA NumeralsPrint ==
  /\ Numerals \subseteq AnyChar /\ Seq(Numerals) \subseteq Seq(AnyChar)
  /\ "-" \in AnyChar /\ "x" \in AnyChar /\ "0" \in Numerals
<1>1. Numerals \subseteq Plain /\ "-" \in Plain /\ "x" \in Plain
  BY LogAssumption, Zenon DEF Numerals
<1>2. Numerals \subseteq AnyChar
  BY <1>1, Zenon DEF AnyChar, Controls
<1>3. Seq(Numerals) \subseteq Seq(AnyChar)
  BY <1>2
<1>4. Numeral[0] = "0"
  BY DEF Numeral, hex
<1> QED BY <1>1, <1>2, <1>3, <1>4 DEF AnyChar, Controls, Numerals

\* A directive makes no change of colour.
LEMMA DirectiveCalls ==
  ASSUME NEW d \in Directives, NEW arg \in Arg, MaxStr >= 2
  PROVE  Directive(d, arg) \in Seq(Silent)
<1>1. /\ UIntCount \in Nat \ {0} /\ arg.n \in Int
      /\ arg.s \in Seq(AnyChar) /\ Len(arg.s) <= MaxStr
  BY PrintfAssumption, Zenon DEF Arg
<1>2. \A n \in Int : n % UIntCount \in 0 .. UIntCount - 1
  BY <1>1
<1>3. \A n \in 0 .. UIntCount - 1 : Puts(HexDigits(n)) \in Seq(Silent)
  BY HexDigitsAre, NumeralsPrint, PutsAre, Zenon
<1>4. CASE d = "d"
  <2> DEFINE num == arg.n
             unum == num % UIntCount
             neg == ((UIntCount - 1 - unum) + 1) % UIntCount
  <2>1. unum \in 0 .. UIntCount - 1 /\ neg \in 0 .. UIntCount - 1
    <3>1. unum \in 0 .. UIntCount - 1
      BY <1>1, <1>2, Zenon
    <3>2. (UIntCount - 1 - unum) + 1 \in Int
      BY <1>1, <3>1
    <3> QED BY <1>2, <3>1, <3>2, Zenon
  <2>2. DecimalDigits[unum] \in Seq(AnyChar) /\ DecimalDigits[neg] \in Seq(AnyChar)
    BY <2>1, DecimalDigitsAre, NumeralsPrint, Zenon
  <2>3. <<"0">> \in Seq(AnyChar) /\ <<"-">> \in Seq(AnyChar)
    BY NumeralsPrint
  <2>4. <<"-">> \o DecimalDigits[neg] \in Seq(AnyChar)
    BY <2>2, <2>3
  <2>5. Directive(d, arg) = print_number(num)
    BY <1>4, Zenon DEF Directive
  <2>6. print_number(num) \in {Puts(<<"0">>), Puts(<<"-">> \o DecimalDigits[neg]),
                               Puts(DecimalDigits[unum])}
    <3>1. num = 0 \/ num < 0 \/ (num # 0 /\ ~(num < 0))
      BY <1>1, Zenon
    <3>2. CASE num = 0
      BY <3>2, Zenon DEF print_number
    <3>3. CASE num < 0
      <4>1. num # 0
        BY <1>1, <3>3
      <4> QED BY <3>3, <4>1, Zenon DEF print_number
    <3>4. CASE num # 0 /\ ~(num < 0)
      BY <3>4, Zenon DEF print_number
    <3> QED BY <3>1, <3>2, <3>3, <3>4, Zenon
  <2> HIDE DEF neg, unum, num
  <2> QED BY <2>2, <2>3, <2>4, <2>5, <2>6, PutsAre, Zenon
<1>5. CASE d = "x"
  <2>1. Directive(d, arg) = Puts(HexDigits(arg.n % UIntCount))
    BY <1>5, Zenon DEF Directive, print_hex
  <2> QED BY <1>1, <1>2, <1>3, <2>1, Zenon
<1>6. CASE d = "p"
  <2>1. Directive(d, arg) = <<Write(<<"0", "x">>)>> \o Puts(HexDigits(arg.n % UIntCount))
    BY <1>6, Zenon DEF Directive, print_ptr
  <2>2. Puts(HexDigits(arg.n % UIntCount)) \in Seq(Silent)
    BY <1>1, <1>2, <1>3, Zenon
  <2>3. <<"0", "x">> \in Seq(AnyChar) /\ Len(<<"0", "x">>) = 2
    BY NumeralsPrint
  <2>4. Write(<<"0", "x">>) \in Silent
    BY <2>3, OneCall, Zenon
  <2>5. <<Write(<<"0", "x">>)>> \in Seq(Silent)
    BY <2>4
  <2> QED BY <2>1, <2>2, <2>5
<1>7. CASE d = "s"
  <2>1. Directive(d, arg) = <<Write(arg.s)>>
    BY <1>7, Zenon DEF Directive
  <2>2. Write(arg.s) \in Silent
    BY <1>1, OneCall, Zenon
  <2> QED BY <2>1, <2>2
<1>8. CASE d = "c"
  <2>1. Directive(d, arg) = Puts(arg.s)
    BY <1>8, Zenon DEF Directive
  <2> QED BY <1>1, <2>1, PutsAre, Zenon
<1> QED BY <1>4, <1>5, <1>6, <1>7, <1>8, Zenon DEF Directives

-----------------------------------------------------------------------------
\* Where the loop of vprintf starts.
Start == [at |-> 1, used |-> 0, calls |-> << >>]

\* The first m iterations of the loop of vprintf.
Iterates(f, fmt, args, m) ==
  f = [n \in 0 .. m |-> IF n = 0 THEN Start ELSE Iteration(fmt, args, f[n - 1])]

\* The loop of vprintf can be followed for any number of iterations.
LEMMA IteratesExist ==
  ASSUME NEW fmt, NEW args, NEW last \in Nat
  PROVE  \E f : Iterates(f, fmt, args, last)
<1> DEFINE T == {m \in Nat : \E f : Iterates(f, fmt, args, m)}
<1>1. 0 \in T
  <2> DEFINE f == [n \in 0 .. 0 |-> Start]
  <2>1. Iterates(f, fmt, args, 0)
    BY DEF Iterates
  <2> QED BY <2>1, Zenon
<1>2. ASSUME NEW m \in Nat, m \in T
      PROVE  m + 1 \in T
  <2>1. PICK f : Iterates(f, fmt, args, m)
    BY <1>2, Zenon
  <2> DEFINE h == [n \in 0 .. m + 1 |-> IF n = m + 1 THEN Iteration(fmt, args, f[m]) ELSE f[n]]
  <2>2. ASSUME NEW n \in 0 .. m + 1
        PROVE  h[n] = IF n = 0 THEN Start ELSE Iteration(fmt, args, h[n - 1])
    <3>1. CASE n = 0
      BY <2>1, <3>1 DEF Iterates
    <3>2. CASE n = m + 1
      <4>1. h[n] = Iteration(fmt, args, f[m]) /\ h[m] = f[m] /\ n - 1 = m /\ n # 0
        BY <3>2
      <4> QED BY <4>1, Zenon
    <3>3. CASE n \in 1 .. m
      <4>1. h[n] = f[n] /\ h[n - 1] = f[n - 1] /\ n # 0 /\ n \in 0 .. m
        BY <3>3
      <4>2. f[n] = Iteration(fmt, args, f[n - 1])
        BY <2>1, <4>1, Zenon DEF Iterates
      <4> QED BY <4>1, <4>2, Zenon
    <3> QED BY <3>1, <3>2, <3>3
  <2>3. h = [n \in 0 .. m + 1 |-> h[n]]
    BY Zenon
  <2> HIDE DEF h
  <2>4. Iterates(h, fmt, args, m + 1)
    BY <2>2, <2>3, Zenon DEF Iterates
  <2> QED BY <2>4
<1> HIDE DEF T
<1>3. Nat \subseteq T
  BY <1>1, <1>2, Induction, Zenon
<1> QED BY <1>3, Zenon DEF T

\* Iterations is that loop.
LEMMA LoopIs ==
  ASSUME NEW fmt \in Seq(AnyChar), NEW args
  PROVE  /\ Iterations(fmt, args)[0] = Start
         /\ \A n \in 1 .. Len(fmt) :
              Iterations(fmt, args)[n] = Iteration(fmt, args, Iterations(fmt, args)[n - 1])
<1>1. Len(fmt) \in Nat
  OBVIOUS
<1>2. Iterates(Iterations(fmt, args), fmt, args, Len(fmt))
  <2>1. \E f : Iterates(f, fmt, args, Len(fmt))
    BY <1>1, IteratesExist, Zenon
  <2>2. Iterations(fmt, args) = CHOOSE f : Iterates(f, fmt, args, Len(fmt))
    BY Zenon DEF Iterates, Iterations, Start
  <2> QED BY <2>1, <2>2, Zenon
<1>3. \A n \in 0 .. Len(fmt) :
        Iterations(fmt, args)[n] = IF n = 0 THEN Start
                             ELSE Iteration(fmt, args, Iterations(fmt, args)[n - 1])
  BY <1>2, Zenon DEF Iterates
<1> QED BY <1>1, <1>3

\* A state of the loop.
LoopState == [at : Nat \ {0}, used : Nat, calls : Seq(ConsoleCall)]

\* Beyond the first n of them, calls leaves the colour alone.
SilentFrom(calls, n) == \A j \in 1 .. Len(calls) : j > n => calls[j] \in Silent

\* The colours of the escape codes are colours of the console.
LEMMA CodeColoursAre ==
  ASSUME NEW code \in DOMAIN CodeColours
  PROVE  CodeColours[code] \in 0 .. 15
<1>1. code \in {0} \cup 30 .. 37
  BY Zenon DEF CodeColours
<1>2. CASE code = 0
  BY <1>2 DEF CodeColours
<1>3. CASE code \in 30 .. 37
  <2>1. code - 29 \in 1 .. 8
    BY <1>3
  <2>2. \A j \in 1 .. 8 : <<0, 4, 2, 6, 1, 5, 3, 7>>[j] \in 0 .. 15
    OBVIOUS
  <2>3. CodeColours[code] = <<0, 4, 2, 6, 1, 5, 3, 7>>[code - 29]
    BY <1>3 DEF CodeColours
  <2> QED BY <2>1, <2>2, <2>3, Zenon
<1> QED BY <1>1, <1>2, <1>3, Zenon

\* An escape code comes to one call or none.
LEMMA CodeCallsAre ==
  ASSUME NEW code
  PROVE  CodeCalls(code) \in Seq(ConsoleCall)
<1>1. CASE code \in DOMAIN CodeColours
  <2>1. CodeCalls(code) = <<Colour(CodeColours[code])>>
    BY <1>1, Zenon DEF CodeCalls
  <2>2. Colour(CodeColours[code]) \in ConsoleCall
    BY <1>1, CodeColoursAre, OneCall, Zenon
  <2> QED BY <2>1, <2>2
<1>2. CASE code \notin DOMAIN CodeColours
  <2>1. CodeCalls(code) = << >>
    BY <1>2, Zenon DEF CodeCalls
  <2> QED BY <2>1
<1> QED BY <1>1, <1>2, Zenon

\* handle_ansi consumes characters and makes calls, whatever follows the escape.
LEMMA AnsiCalls ==
  ASSUME NEW fmt \in Seq(AnyChar)
  PROVE  /\ handle_ansi(fmt).len \in Nat
         /\ handle_ansi(fmt).calls \in Seq(ConsoleCall)
<1> DEFINE ends == {n \in 3 .. Len(fmt) : /\ fmt[n] \notin Decimals
                                          /\ \A j \in 3 .. n - 1 : fmt[j] \in Decimals}
           m == CHOOSE n \in ends : TRUE
           failed == [calls |-> << >>, len |-> 0]
           found == [calls |-> CodeCalls(CodeOf(SubSeq(fmt, 3, m - 1))), len |-> m]
<1>1. handle_ansi(fmt) = failed
      \/ (handle_ansi(fmt) = found /\ \E n \in ends : fmt[n] = "m")
  BY Zenon DEF handle_ansi
<1>2. CASE handle_ansi(fmt) = failed
  BY <1>2
<1>3. CASE handle_ansi(fmt) = found /\ \E n \in ends : fmt[n] = "m"
  <2>1. m \in ends
    <3> HIDE DEF ends
    <3> QED BY <1>3, Zenon
  <2>2. m \in Nat
    <3> HIDE DEF m
    <3> QED BY <2>1
  <2> HIDE DEF m
  <2>3. found.len = m /\ found.calls = CodeCalls(CodeOf(SubSeq(fmt, 3, m - 1)))
    BY Zenon
  <2> HIDE DEF found
  <2> QED BY <1>3, <2>2, <2>3, CodeCallsAre, Zenon
<1> QED BY <1>1, <1>2, <1>3, Zenon

\* One iteration.
LEMMA IterationIs ==
  ASSUME NEW fmt \in Seq(AnyChar), NEW args \in Seq(Arg), NEW s \in LoopState, MaxStr >= 2,
         s.at <= Len(fmt),
         fmt[s.at] = "%" =>
           s.at < Len(fmt) /\ (fmt[s.at + 1] \in Directives => s.used < Len(args))
  PROVE  \E n \in Nat \ {0}, u \in Nat, e \in Seq(ConsoleCall) :
           /\ Iteration(fmt, args, s) = On(s, n, u, e)
           /\ fmt[s.at] # "ESC" => e \in Seq(Silent)
<1> DEFINE c == fmt[s.at]
           d == fmt[s.at + 1]
           ansi == handle_ansi(Rest(fmt, s.at - 1))
<1>1. s.at \in Nat \ {0} /\ s.used \in Nat /\ s.calls \in Seq(ConsoleCall)
  BY Zenon DEF LoopState
<1>2. c \in AnyChar
  BY <1>1
<1>3. ~(s.at > Len(fmt))
  BY <1>1
<1>4. Seq(Silent) \subseteq Seq(ConsoleCall)
  <2>1. Silent \subseteq ConsoleCall
    BY Zenon DEF Silent
  <2> QED BY <2>1
<1>5. CASE c = "ESC" /\ ansi.len > 0
  <2>1. Rest(fmt, s.at - 1) \in Seq(AnyChar)
    BY <1>1 DEF Rest
  <2>2. ansi.len \in Nat /\ ansi.calls \in Seq(ConsoleCall)
    BY <2>1, AnsiCalls, Zenon
  <2>3. Iteration(fmt, args, s) = On(s, ansi.len, 0, ansi.calls)
    BY <1>3, <1>5, Zenon DEF Iteration
  <2>4. ansi.len \in Nat \ {0} /\ 0 \in Nat
    BY <1>5, <2>2
  <2> HIDE DEF ansi
  <2> QED BY <1>5, <2>2, <2>3, <2>4, Zenon
<1>6. CASE c = "%" /\ d \in Directives
  <2> DEFINE e == Directive(d, args[s.used + 1])
  <2>1. args[s.used + 1] \in Arg
    BY <1>1, <1>6
  <2>2. e \in Seq(Silent)
    BY <1>6, <2>1, DirectiveCalls, Zenon
  <2>3. Iteration(fmt, args, s) = On(s, 2, 1, e)
    <3>1. ~(c = "ESC")
      BY <1>6, Zenon
    <3> QED BY <1>3, <1>6, <3>1, Zenon DEF Iteration
  <2>4. 2 \in Nat \ {0} /\ 1 \in Nat
    OBVIOUS
  <2> HIDE DEF e
  <2> QED BY <1>4, <2>2, <2>3, <2>4, Zenon
<1>7. CASE c = "%" /\ d \notin Directives
  <2>1. d \in AnyChar
    BY <1>1, <1>7
  <2>2. <<Put(d)>> \in Seq(Silent)
    <3>1. Put(d) \in Silent
      BY <2>1, OneCall, Zenon
    <3> QED BY <3>1
  <2>3. Iteration(fmt, args, s) = On(s, 2, 0, <<Put(d)>>)
    <3>1. ~(c = "ESC")
      BY <1>7, Zenon
    <3> QED BY <1>3, <1>7, <3>1, Zenon DEF Iteration
  <2>4. 2 \in Nat \ {0} /\ 0 \in Nat
    OBVIOUS
  <2> QED BY <1>4, <2>2, <2>3, <2>4, Zenon
<1>8. CASE c # "%" /\ ~(c = "ESC" /\ ansi.len > 0)
  <2>1. <<Put(c)>> \in Seq(Silent)
    <3>1. Put(c) \in Silent
      BY <1>2, OneCall, Zenon
    <3> QED BY <3>1
  <2>2. Iteration(fmt, args, s) = On(s, 1, 0, <<Put(c)>>)
    BY <1>3, <1>8, Zenon DEF Iteration
  <2>3. 1 \in Nat \ {0} /\ 0 \in Nat
    OBVIOUS
  <2> QED BY <1>4, <2>1, <2>2, <2>3, Zenon
<1>9. \/ c = "ESC" /\ ansi.len > 0
      \/ c = "%" /\ d \in Directives
      \/ c = "%" /\ d \notin Directives
      \/ c # "%" /\ ~(c = "ESC" /\ ansi.len > 0)
  BY Zenon
<1> QED BY <1>5, <1>6, <1>7, <1>8, <1>9, Zenon

\* Appending keeps calls what they are.
LEMMA AppendCalls ==
  ASSUME NEW a \in Seq(ConsoleCall), NEW b \in Seq(ConsoleCall), NEW m \in 0 .. Len(a)
  PROVE  /\ a \o b \in Seq(ConsoleCall) /\ Len(a) <= Len(a \o b)
         /\ \A j \in 1 .. m : (a \o b)[j] = a[j]
         /\ SilentFrom(a, m) /\ b \in Seq(Silent) => SilentFrom(a \o b, m)
<1>1. a \o b \in Seq(ConsoleCall) /\ Len(a \o b) = Len(a) + Len(b)
  OBVIOUS
<1>2. \A j \in 1 .. Len(a \o b) : (a \o b)[j] = IF j <= Len(a) THEN a[j] ELSE b[j - Len(a)]
  OBVIOUS
<1>3. \A j \in 1 .. m : (a \o b)[j] = a[j]
  BY <1>1, <1>2
<1>4. ASSUME SilentFrom(a, m), b \in Seq(Silent)
      PROVE  SilentFrom(a \o b, m)
  <2> SUFFICES ASSUME NEW j \in 1 .. Len(a \o b), j > m
               PROVE  (a \o b)[j] \in Silent
    BY Zenon DEF SilentFrom
  <2>1. CASE j <= Len(a)
    BY <1>2, <1>4, <2>1 DEF SilentFrom
  <2>2. CASE ~(j <= Len(a))
    <3>1. j - Len(a) \in 1 .. Len(b)
      BY <1>1, <2>2
    <3>2. b[j - Len(a)] \in Silent
      BY <1>4, <3>1
    <3> QED BY <1>2, <2>2, <3>2, Zenon
  <2> QED BY <2>1, <2>2, Zenon
<1> QED BY <1>1, <1>3, <1>4

\* From iteration m on, as long as no escape character comes, the calls stay
\* what they were and only silent ones are added.
LEMMA LoopCalls ==
  ASSUME NEW fmt \in Seq(AnyChar), NEW args \in Seq(Arg), FormatFits(fmt, args), MaxStr >= 2,
         NEW m \in 0 .. Len(fmt), Iterations(fmt, args)[m] \in LoopState
  PROVE  /\ vprintf(fmt, args) \in Seq(ConsoleCall)
         /\ Len(Iterations(fmt, args)[m].calls) <= Len(vprintf(fmt, args))
         /\ \A j \in 1 .. Len(Iterations(fmt, args)[m].calls) :
              vprintf(fmt, args)[j] = Iterations(fmt, args)[m].calls[j]
         /\ (\A j \in Iterations(fmt, args)[m].at .. Len(fmt) : fmt[j] # "ESC") =>
              SilentFrom(vprintf(fmt, args), Len(Iterations(fmt, args)[m].calls))
<1> DEFINE L(n) == Iterations(fmt, args)[n]
           a == L(m).calls
           Quiet == \A j \in L(m).at .. Len(fmt) : fmt[j] # "ESC"
           Good(n) == /\ L(n) \in LoopState /\ L(m).at <= L(n).at
                      /\ Len(a) <= Len(L(n).calls)
                      /\ \A j \in 1 .. Len(a) : L(n).calls[j] = a[j]
                      /\ Quiet => SilentFrom(L(n).calls, Len(a))
<1>1. Len(fmt) \in Nat /\ m \in Nat /\ L(m).at \in Nat /\ a \in Seq(ConsoleCall)
  BY DEF LoopState
<1>2. Good(m)
  BY <1>1 DEF SilentFrom
<1>3. ASSUME NEW n \in m .. Len(fmt) - 1, Good(n)
      PROVE  Good(n + 1)
  <2> DEFINE s == L(n)
  <2>1. L(n + 1) = Iteration(fmt, args, s)
    <3>1. n + 1 \in 1 .. Len(fmt) /\ (n + 1) - 1 = n
      BY <1>1
    <3>2. L(n + 1) = Iteration(fmt, args, L((n + 1) - 1))
      BY <3>1, LoopIs, Zenon
    <3> QED BY <3>1, <3>2, Zenon
  <2>2. CASE s.at > Len(fmt)
    <3>1. L(n + 1) = s
      BY <2>1, <2>2, Zenon DEF Iteration
    <3> QED BY <1>3, <3>1, Zenon
  <2>3. CASE ~(s.at > Len(fmt))
    <3> HIDE DEF L
    <3>1. /\ s \in LoopState /\ s.at \in Nat \ {0} /\ s.used \in Nat
          /\ s.calls \in Seq(ConsoleCall) /\ s.at <= Len(fmt)
      BY <1>1, <1>3, <2>3 DEF LoopState
    <3>2. fmt[s.at] = "%" =>
            s.at < Len(fmt) /\ (fmt[s.at + 1] \in Directives => s.used < Len(args))
      <4>1. n \in 0 .. Len(fmt) /\ s.at \in DOMAIN fmt
        BY <1>1, <3>1
      <4> QED BY <3>1, <4>1, Zenon DEF FormatFits, L
    <3>3. PICK x \in Nat \ {0}, u \in Nat, e \in Seq(ConsoleCall) :
             /\ Iteration(fmt, args, s) = On(s, x, u, e)
             /\ fmt[s.at] # "ESC" => e \in Seq(Silent)
      BY <3>1, <3>2, IterationIs, Zenon
    <3>4. L(n + 1) = [at |-> s.at + x, used |-> s.used + u, calls |-> s.calls \o e]
      BY <2>1, <3>3, Zenon DEF On
    <3>5. /\ L(n + 1).at = s.at + x /\ L(n + 1).used = s.used + u
          /\ L(n + 1).calls = s.calls \o e
      BY <3>4
    <3>6. Len(a) \in 0 .. Len(s.calls)
      BY <1>1, <1>3, <3>1
    <3>7. /\ s.calls \o e \in Seq(ConsoleCall) /\ Len(s.calls) <= Len(s.calls \o e)
          /\ \A j \in 1 .. Len(a) : (s.calls \o e)[j] = s.calls[j]
          /\ SilentFrom(s.calls, Len(a)) /\ e \in Seq(Silent)
               => SilentFrom(s.calls \o e, Len(a))
      BY <3>1, <3>3, <3>6, AppendCalls, Zenon
    <3>8. L(n + 1) \in LoopState
      <4>1. PICK p \in Nat \ {0}, q \in Nat, c \in Seq(ConsoleCall) :
              p = s.at /\ q = s.used /\ c = s.calls \o e
        BY <3>1, <3>7, Zenon
      <4>2. p + x \in Nat \ {0} /\ q + u \in Nat
        OBVIOUS
      <4>3. L(n + 1) = [at |-> p + x, used |-> q + u, calls |-> c]
        BY <3>4, <4>1, Zenon
      <4>4. [at |-> p + x, used |-> q + u, calls |-> c] \in LoopState
        BY <4>2, Zenon DEF LoopState
      <4> QED BY <4>3, <4>4, Zenon
    <3>9. L(m).at <= L(n + 1).at
      BY <1>1, <1>3, <3>1, <3>5
    <3>10. Len(a) <= Len(L(n + 1).calls)
      <4>1. Len(a) \in Nat /\ Len(s.calls) \in Nat /\ Len(s.calls \o e) \in Nat
        BY <1>1, <3>1
      <4>2. Len(a) <= Len(s.calls)
        BY <1>3, Zenon
      <4>3. Len(a) <= Len(s.calls \o e)
        BY <3>7, <4>1, <4>2
      <4> QED BY <3>5, <4>3, Zenon
    <3>11. \A j \in 1 .. Len(a) : L(n + 1).calls[j] = a[j]
      BY <1>3, <3>5, <3>7, Zenon
    <3>12. ASSUME Quiet
           PROVE  SilentFrom(L(n + 1).calls, Len(a))
      <4>1. s.at \in L(m).at .. Len(fmt)
        BY <1>1, <1>3, <3>1
      <4>2. fmt[s.at] # "ESC"
        BY <3>12, <4>1, Zenon
      <4> QED BY <1>3, <3>3, <3>5, <3>7, <3>12, <4>2, Zenon
    <3> QED BY <3>8, <3>9, <3>10, <3>11, <3>12, Zenon
  <2> QED BY <2>2, <2>3, Zenon
<1> HIDE DEF Good
<1> DEFINE T == {x \in Nat : m + x <= Len(fmt) => Good(m + x)}
<1>4. 0 \in T
  BY <1>1, <1>2
<1>5. ASSUME NEW x \in Nat, x \in T
      PROVE  x + 1 \in T
  <2> SUFFICES ASSUME m + (x + 1) <= Len(fmt)
               PROVE  Good(m + (x + 1))
    OBVIOUS
  <2>1. m + x \in m .. Len(fmt) - 1 /\ m + (x + 1) = (m + x) + 1
    BY <1>1
  <2>2. Good(m + x)
    BY <1>1, <1>5, <2>1
  <2> QED BY <1>3, <2>1, <2>2, Zenon
<1>6. Nat \subseteq T
  <2> HIDE DEF T
  <2> QED BY <1>4, <1>5, Induction, Zenon
<1>7. Good(Len(fmt))
  <2>1. Len(fmt) - m \in Nat /\ m + (Len(fmt) - m) = Len(fmt)
    BY <1>1
  <2>2. Len(fmt) - m \in T
    BY <1>6, <2>1, Zenon
  <2> QED BY <2>1, <2>2
<1>8. vprintf(fmt, args) = L(Len(fmt)).calls
  BY Zenon DEF vprintf
<1> QED BY <1>7, <1>8, Zenon DEF Good, LoopState

-----------------------------------------------------------------------------
\* The loop starts in a state.
LEMMA StartState ==
  /\ Start \in LoopState /\ Start.at = 1 /\ Start.used = 0 /\ Start.calls = << >>
  /\ Len(Start.calls) = 0
<1>1. << >> \in Seq(ConsoleCall)
  OBVIOUS
<1> QED BY <1>1 DEF Start, LoopState

\* A format without escape character comes to silent calls.
LEMMA MessageCalls ==
  ASSUME NEW fmt \in Seq(AnyChar), NEW args \in Seq(Arg), FormatFits(fmt, args), MaxStr >= 2,
         \A j \in 1 .. Len(fmt) : fmt[j] # "ESC"
  PROVE  vprintf(fmt, args) \in Seq(Silent)
<1>1. Iterations(fmt, args)[0] = Start /\ 0 \in 0 .. Len(fmt)
  BY LoopIs
<1>2. Iterations(fmt, args)[0] \in LoopState
  BY <1>1, StartState, Zenon
<1>3. Iterations(fmt, args)[0].at = 1 /\ Len(Iterations(fmt, args)[0].calls) = 0
  BY <1>1, StartState, Zenon
<1>4. /\ vprintf(fmt, args) \in Seq(ConsoleCall)
      /\ SilentFrom(vprintf(fmt, args), 0)
  BY <1>1, <1>2, <1>3, LoopCalls, Zenon
<1>5. PICK v \in Seq(ConsoleCall) : v = vprintf(fmt, args)
  BY <1>4, Zenon
<1>6. \A j \in 1 .. Len(v) : v[j] \in Silent
  BY <1>4, <1>5 DEF SilentFrom
<1> QED BY <1>5, <1>6

\* Text that has no directive needs no argument.
LEMMA TextFits ==
  ASSUME NEW fmt \in Seq(AnyChar), NEW args, \A j \in 1 .. Len(fmt) : fmt[j] # "%"
  PROVE  FormatFits(fmt, args)
<1>1. \A j \in DOMAIN fmt : fmt[j] # "%"
  OBVIOUS
<1> QED BY <1>1, Zenon DEF FormatFits

\* What an iteration at a directive does to the position.
LEMMA DirectiveMoves ==
  ASSUME NEW fmt \in Seq(AnyChar), NEW args, NEW s, NEW p \in Nat, s.at = p, p < Len(fmt),
         fmt[p] = "%", fmt[p + 1] \in Directives
  PROVE  /\ Iteration(fmt, args, s).at = p + 2
         /\ Iteration(fmt, args, s).used = s.used + 1
<1>1. ~(s.at > Len(fmt)) /\ fmt[s.at] # "ESC"
  OBVIOUS
<1>2. Iteration(fmt, args, s) = On(s, 2, 1, Directive(fmt[s.at + 1], args[s.used + 1]))
  BY <1>1, Zenon DEF Iteration
<1> QED BY <1>2 DEF On

\* A format of one directive.
LEMMA DirectiveFits ==
  ASSUME NEW d \in Directives \cap AnyChar, NEW arg, "%" \in AnyChar
  PROVE  FormatFits(<<"%", d>>, <<arg>>)
<1> DEFINE fmt == <<"%", d>>
           args == <<arg>>
           L(n) == Iterations(fmt, args)[n]
<1>1. fmt \in Seq(AnyChar) /\ Len(fmt) = 2 /\ fmt[1] = "%" /\ fmt[2] = d /\ Len(args) = 1
      /\ DOMAIN fmt = 1 .. 2
  OBVIOUS
<1> HIDE DEF fmt, args
<1>2. L(0) = Start /\ L(1) = Iteration(fmt, args, L(0)) /\ L(2) = Iteration(fmt, args, L(1))
  <2>1. /\ Iterations(fmt, args)[0] = Start
        /\ \A n \in 1 .. Len(fmt) :
              Iterations(fmt, args)[n] = Iteration(fmt, args, Iterations(fmt, args)[n - 1])
    BY <1>1, LoopIs, Zenon
  <2> QED BY <1>1, <2>1
<1>3. L(0).at = 1 /\ L(0).used = 0
  BY <1>2, StartState, Zenon
<1>4. L(1).at = 3
  <2>1. fmt \in Seq(AnyChar) /\ 1 \in Nat /\ 1 < Len(fmt) /\ fmt[1] = "%" /\ fmt[1 + 1] \in Directives
    BY <1>1
  <2>2. Iteration(fmt, args, L(0)).at = 1 + 2
    BY <1>3, <2>1, DirectiveMoves
  <2> QED BY <1>2, <2>2
<1>5. L(2).at = 3
  <2>1. L(1).at > Len(fmt)
    BY <1>1, <1>4
  <2> QED BY <1>2, <1>4, <2>1, Zenon DEF Iteration
<1>6. ASSUME NEW n \in 0 .. Len(fmt), L(n).at \in DOMAIN fmt, fmt[L(n).at] = "%"
      PROVE  L(n).at < Len(fmt) /\ (fmt[L(n).at + 1] \in Directives => L(n).used < Len(args))
  <2>1. n = 0 \/ n = 1 \/ n = 2
    BY <1>1
  <2>2. n = 0
    BY <1>1, <1>4, <1>5, <1>6, <2>1
  <2> QED BY <1>1, <1>3, <2>2
<1>7. FormatFits(fmt, args)
  BY <1>6, Zenon DEF FormatFits
<1> QED BY <1>7, Zenon DEF fmt, args

\* The format of keyboard_handler.
LEMMA KeyFits ==
  ASSUME NEW arg1, NEW arg2, {"%", "c", "x"} \subseteq AnyChar
  PROVE  FormatFits(<<"%", "c", "%", "x">>, <<arg1, arg2>>)
<1> DEFINE fmt == <<"%", "c", "%", "x">>
           args == <<arg1, arg2>>
           L(n) == Iterations(fmt, args)[n]
<1>1. fmt \in Seq(AnyChar) /\ Len(fmt) = 4 /\ fmt[1] = "%" /\ fmt[2] = "c" /\ fmt[3] = "%"
      /\ fmt[4] = "x" /\ Len(args) = 2 /\ DOMAIN fmt = 1 .. 4
  OBVIOUS
<1> HIDE DEF fmt, args
<1>2. /\ L(0) = Start /\ L(1) = Iteration(fmt, args, L(0))
      /\ L(2) = Iteration(fmt, args, L(1)) /\ L(3) = Iteration(fmt, args, L(2))
      /\ L(4) = Iteration(fmt, args, L(3))
  <2>1. /\ Iterations(fmt, args)[0] = Start
        /\ \A n \in 1 .. Len(fmt) :
              Iterations(fmt, args)[n] = Iteration(fmt, args, Iterations(fmt, args)[n - 1])
    BY <1>1, LoopIs, Zenon
  <2> QED BY <1>1, <2>1
<1>3. L(0).at = 1 /\ L(0).used = 0
  BY <1>2, StartState, Zenon
<1>4. L(1).at = 3 /\ L(1).used = 1
  <2>1. fmt \in Seq(AnyChar) /\ 1 \in Nat /\ 1 < Len(fmt) /\ fmt[1] = "%" /\ fmt[1 + 1] \in Directives
    BY <1>1 DEF Directives
  <2>2. /\ Iteration(fmt, args, L(0)).at = 1 + 2
        /\ Iteration(fmt, args, L(0)).used = L(0).used + 1
    BY <1>3, <2>1, DirectiveMoves
  <2> QED BY <1>2, <1>3, <2>2
<1>5. L(2).at = 5
  <2>1. fmt \in Seq(AnyChar) /\ 3 \in Nat /\ 3 < Len(fmt) /\ fmt[3] = "%" /\ fmt[3 + 1] \in Directives
    BY <1>1 DEF Directives
  <2>2. Iteration(fmt, args, L(1)).at = 3 + 2
    BY <1>4, <2>1, DirectiveMoves
  <2> QED BY <1>2, <2>2
<1>6. L(3).at = 5 /\ L(4).at = 5
  <2>1. ASSUME NEW s, s.at = 5
        PROVE  Iteration(fmt, args, s).at = 5
    <3>1. s.at > Len(fmt)
      BY <1>1, <2>1
    <3> QED BY <2>1, <3>1, Zenon DEF Iteration
  <2> QED BY <1>2, <1>5, <2>1, Zenon
<1>7. ASSUME NEW n \in 0 .. Len(fmt), L(n).at \in DOMAIN fmt, fmt[L(n).at] = "%"
      PROVE  L(n).at < Len(fmt) /\ (fmt[L(n).at + 1] \in Directives => L(n).used < Len(args))
  <2>1. n = 0 \/ n = 1 \/ n = 2 \/ n = 3 \/ n = 4
    BY <1>1
  <2>2. n = 0 \/ n = 1
    BY <1>1, <1>5, <1>6, <1>7, <2>1
  <2> QED BY <1>1, <1>3, <1>4, <2>2
<1>8. FormatFits(fmt, args)
  BY <1>7, Zenon DEF FormatFits
<1> QED BY <1>8, Zenon DEF fmt, args

-----------------------------------------------------------------------------
\* The numerals of digits differ.
LEMMA NumeralsDiffer ==
  /\ \A a, b \in 0 .. 9 : Numeral[a] = Numeral[b] => a = b
  /\ \A a \in 0 .. 9 : Numeral[a] \in Decimals /\ Numeral[a] # "m"
  /\ Numeral[0] = "0" /\ Numeral[1] = "1" /\ Numeral[2] = "2" /\ Numeral[3] = "3"
<1>1. /\ Numeral[0] = "0" /\ Numeral[1] = "1" /\ Numeral[2] = "2" /\ Numeral[3] = "3"
      /\ Numeral[4] = "4" /\ Numeral[5] = "5" /\ Numeral[6] = "6" /\ Numeral[7] = "7"
      /\ Numeral[8] = "8" /\ Numeral[9] = "9"
  BY DEF Numeral, hex
<1>2. \A a \in 0 .. 9 : a = 0 \/ a = 1 \/ a = 2 \/ a = 3 \/ a = 4 \/ a = 5 \/ a = 6 \/ a = 7
                        \/ a = 8 \/ a = 9
  OBVIOUS
<1> QED BY <1>1, <1>2 DEF Decimals

\* The digit a character stands for.
DigitOf(c) == CHOOSE x \in 0 .. 9 : Numeral[x] = c

\* DigitOf is the inverse of Numeral.
LEMMA DigitIs ==
  ASSUME NEW a \in 0 .. 9
  PROVE  DigitOf(Numeral[a]) = a
<1>1. DigitOf(Numeral[a]) \in 0 .. 9 /\ Numeral[DigitOf(Numeral[a])] = Numeral[a]
  BY Zenon DEF DigitOf
<1> QED BY <1>1, NumeralsDiffer, Zenon

\* Codes of one and of two digits.
LEMMA ShortCodes ==
  ASSUME NEW ds, NEW a \in 0 .. 9, ds[1] = Numeral[a]
  PROVE  /\ Len(ds) = 1 => CodeOf(ds) = a
         /\ \A b \in 0 .. 9 : Len(ds) = 2 /\ ds[2] = Numeral[b] => CodeOf(ds) = a * 10 + b
<1> DEFINE Code(f) == [n \in 0 .. Len(ds) |-> IF n = 0 THEN 0 ELSE f[n - 1] * 10 + DigitOf(ds[n])]
           code == CHOOSE f : f = Code(f)
<1>1. CodeOf(ds) = code[Len(ds)]
  BY Zenon DEF CodeOf, DigitOf
<1>2. DigitOf(ds[1]) = a
  BY DigitIs, Zenon
<1>3. ASSUME Len(ds) = 1
      PROVE  CodeOf(ds) = a
  <2> DEFINE g == [n \in 0 .. 1 |-> IF n = 0 THEN 0 ELSE 0 * 10 + DigitOf(ds[1])]
  <2>1. g = Code(g)
    BY <1>3
  <2>2. code = Code(code)
    <3> HIDE DEF Code, g
    <3> QED BY <2>1, Zenon
  <2> HIDE DEF code
  <2>3. code[0] = 0 /\ code[1] = code[0] * 10 + DigitOf(ds[1])
    BY <1>3, <2>2
  <2> QED BY <1>1, <1>2, <1>3, <2>3
<1>4. ASSUME NEW b \in 0 .. 9, Len(ds) = 2, ds[2] = Numeral[b]
      PROVE  CodeOf(ds) = a * 10 + b
  <2> DEFINE g == [n \in 0 .. 2 |-> IF n = 0 THEN 0 ELSE IF n = 1 THEN 0 * 10 + DigitOf(ds[1])
                                    ELSE (0 * 10 + DigitOf(ds[1])) * 10 + DigitOf(ds[2])]
  <2>1. g = Code(g)
    BY <1>4
  <2>2. code = Code(code)
    <3> HIDE DEF Code, g
    <3> QED BY <2>1, Zenon
  <2> HIDE DEF code
  <2>3. /\ code[0] = 0 /\ code[1] = code[0] * 10 + DigitOf(ds[1])
        /\ code[2] = code[1] * 10 + DigitOf(ds[2])
    BY <1>4, <2>2
  <2>4. DigitOf(ds[2]) = b
    BY <1>4, DigitIs, Zenon
  <2> QED BY <1>1, <1>2, <1>4, <2>3, <2>4
<1> QED BY <1>3, <1>4, Zenon

\* handle_ansi on an escape sequence that ends at k.
LEMMA EscapeIs ==
  ASSUME NEW fmt \in Seq(AnyChar), NEW e \in 3 .. Len(fmt), fmt[2] = "[", fmt[e] = "m",
         \A j \in 3 .. e - 1 : fmt[j] \in Decimals
  PROVE  /\ handle_ansi(fmt).len = e
         /\ handle_ansi(fmt).calls = CodeCalls(CodeOf(SubSeq(fmt, 3, e - 1)))
<1> DEFINE ends == {n \in 3 .. Len(fmt) : /\ fmt[n] \notin Decimals
                                          /\ \A j \in 3 .. n - 1 : fmt[j] \in Decimals}
           m == CHOOSE n \in ends : TRUE
<1>1. "m" \notin Decimals
  BY NumeralsDiffer, Zenon DEF Decimals
<1>2. e \in ends
  BY <1>1, Zenon
<1>3. \A n \in ends : n = e
  <2> TAKE n \in ends
  <2>1. CASE n < e
    BY <2>1
  <2>2. CASE e < n
    BY <1>1, <2>2
  <2> QED BY <2>1, <2>2
<1>4. ~(Len(fmt) < 2 \/ fmt[2] # "[")
  OBVIOUS
<1>5. handle_ansi(fmt) = IF Len(fmt) < 2 \/ fmt[2] # "[" THEN [calls |-> << >>, len |-> 0]
                         ELSE IF \E n \in ends : fmt[n] = "m"
                           THEN [calls |-> CodeCalls(CodeOf(SubSeq(fmt, 3, m - 1))), len |-> m]
                         ELSE [calls |-> << >>, len |-> 0]
  BY Zenon DEF handle_ansi
<1> HIDE DEF ends
<1>6. m = e
  BY <1>2, <1>3, Zenon
<1> HIDE DEF m
<1>7. handle_ansi(fmt) = [calls |-> CodeCalls(CodeOf(SubSeq(fmt, 3, e - 1))), len |-> e]
  BY <1>2, <1>4, <1>5, <1>6, Zenon
<1> QED BY <1>7

\* A format that starts with an escape sequence for colour c and has neither
\* another one nor a directive behind it.
OpensWith(v, c) ==
  v \in Seq(ConsoleCall) /\ Len(v) >= 1 /\ v[1] = Colour(c) /\ SilentFrom(v, 1)

\* A format that starts with an escape sequence and has no other starts by
\* setting that colour and then leaves it alone.
LEMMA EscapeFirst ==
  ASSUME NEW fmt \in Seq(AnyChar), NEW e \in 3 .. Len(fmt), MaxStr >= 2,
         fmt[1] = "ESC", fmt[2] = "[", fmt[e] = "m",
         \A j \in 3 .. e - 1 : fmt[j] \in Decimals,
         \A j \in 1 .. Len(fmt) : fmt[j] # "%",
         \A j \in e + 1 .. Len(fmt) : fmt[j] # "ESC",
         NEW code \in DOMAIN CodeColours, CodeOf(SubSeq(fmt, 3, e - 1)) = code
  PROVE  OpensWith(printf(fmt), CodeColours[code])
<1> DEFINE args == << >>
           L(n) == Iterations(fmt, args)[n]
           call == Colour(CodeColours[code])
<1>1. Len(fmt) \in Nat /\ e \in Nat /\ 1 \in 0 .. Len(fmt) /\ 1 \in 1 .. Len(fmt)
  OBVIOUS
<1>2. args \in Seq(Arg)
  OBVIOUS
<1>3. FormatFits(fmt, args)
  BY TextFits, Zenon
<1>4. L(0) = Start /\ L(1) = Iteration(fmt, args, L(0))
  BY <1>1, LoopIs
<1>5. Rest(fmt, Start.at - 1) = fmt
  <2>1. SubSeq(fmt, 1, Len(fmt)) = fmt
    OBVIOUS
  <2>2. Start.at - 1 + 1 = 1
    BY StartState
  <2> QED BY <2>1, <2>2, Zenon DEF Rest
<1>6. handle_ansi(fmt).len = e /\ handle_ansi(fmt).calls = CodeCalls(code)
  BY EscapeIs, Zenon
<1>7. CodeCalls(code) = <<call>>
  BY Zenon DEF CodeCalls
<1>8. call \in ConsoleCall
  BY CodeColoursAre, OneCall, Zenon
<1>9. Iteration(fmt, args, Start) = On(Start, e, 0, <<call>>)
  <2>1. ~(Start.at > Len(fmt)) /\ fmt[Start.at] = "ESC"
    BY <1>1, StartState
  <2>2. handle_ansi(Rest(fmt, Start.at - 1)).len = e
    BY <1>5, <1>6, Zenon
  <2>3. handle_ansi(Rest(fmt, Start.at - 1)).calls = <<call>>
    BY <1>5, <1>6, <1>7, Zenon
  <2>4. e > 0
    OBVIOUS
  <2> HIDE DEF call, args
  <2> QED BY <2>1, <2>2, <2>3, <2>4, Zenon DEF Iteration
<1> HIDE DEF call
<1>10. << >> \o <<call>> = <<call>>
  BY <1>8
<1>11. L(1) = [at |-> 1 + e, used |-> 0, calls |-> <<call>>]
  BY <1>1, <1>4, <1>9, <1>10, StartState DEF On
<1>12. <<call>> \in Seq(ConsoleCall) /\ Len(<<call>>) = 1 /\ <<call>>[1] = call
  BY <1>8
<1>13. L(1) \in LoopState /\ L(1).at = e + 1 /\ L(1).calls = <<call>>
  <2> DEFINE s == [at |-> 1 + e, used |-> 0, calls |-> <<call>>]
  <2>1. 1 + e \in Nat \ {0} /\ 1 + e = e + 1 /\ 0 \in Nat
    BY <1>1
  <2>2. s \in LoopState
    BY <1>12, <2>1, Zenon DEF LoopState
  <2>3. s.at = e + 1 /\ s.calls = <<call>>
    BY <2>1, Zenon
  <2> HIDE DEF s
  <2> QED BY <1>11, <2>2, <2>3, Zenon DEF s
<1>14. \A j \in L(1).at .. Len(fmt) : fmt[j] # "ESC"
  BY <1>13, Zenon
<1>15. /\ vprintf(fmt, args) \in Seq(ConsoleCall)
       /\ Len(L(1).calls) <= Len(vprintf(fmt, args))
       /\ \A j \in 1 .. Len(L(1).calls) : vprintf(fmt, args)[j] = L(1).calls[j]
       /\ SilentFrom(vprintf(fmt, args), Len(L(1).calls))
  <2> HIDE DEF args
  <2> QED BY <1>1, <1>2, <1>3, <1>13, <1>14, LoopCalls, Zenon
<1>16. printf(fmt) = vprintf(fmt, args)
  BY Zenon DEF printf
<1> HIDE DEF L, args
<1>17. PICK v \in Seq(ConsoleCall) : v = vprintf(fmt, args)
  BY <1>15, Zenon
<1>18. Len(v) >= 1 /\ v[1] = call /\ SilentFrom(v, 1)
  <2>1. Len(L(1).calls) = 1 /\ L(1).calls[1] = call
    BY <1>12, <1>13, Zenon
  <2>2. 1 <= Len(v) /\ SilentFrom(v, 1) /\ \A j \in 1 .. 1 : v[j] = L(1).calls[j]
    BY <1>15, <1>17, <2>1, Zenon
  <2> HIDE DEF call
  <2> QED BY <2>1, <2>2
<1> QED BY <1>16, <1>17, <1>18, Zenon DEF OpensWith, call

\* The characters of the formats of log.c.
LEMMA FormatChars ==
  /\ {"ESC", "%", "[", "]", "-", "c", "d", "m", "x", Space, "0", "newline"} \subseteq AnyChar
  /\ \A level \in DOMAIN Levels : Levels[level].tag \in AnyChar
  /\ \A n \in 0 .. 9 : Numeral[n] \in AnyChar
<1>1. "0" \in AnyChar
  BY NumeralsPrint, Zenon
<1>2. \A n \in 0 .. 9 : Numeral[n] \in AnyChar
  BY NumeralsPrint DEF Numerals
<1> QED BY <1>1, <1>2, LogAssumption DEF AnyChar, Controls

\* The end of a line is white.
LEMMA LineEndIs ==
  ASSUME MaxStr >= 2
  PROVE  OpensWith(LineEnd, 15)
<1> DEFINE fmt == <<"ESC", "[", "0", "m", "newline">>
<1>1. /\ Len(fmt) = 5 /\ fmt[1] = "ESC" /\ fmt[2] = "[" /\ fmt[3] = "0" /\ fmt[4] = "m"
      /\ fmt[5] = "newline"
  BY Zenon
<1>2. fmt \in Seq(AnyChar)
  BY FormatChars
<1>3. LineEnd = printf(fmt)
  BY Zenon DEF LineEnd
<1> HIDE DEF fmt
<1>4. \A j \in 1 .. 5 : j = 1 \/ j = 2 \/ j = 3 \/ j = 4 \/ j = 5
  OBVIOUS
<1>5. \A j \in 1 .. Len(fmt) : fmt[j] # "%"
  BY <1>1, <1>4, Zenon
<1>6. \A j \in 4 + 1 .. Len(fmt) : fmt[j] # "ESC"
  BY <1>1, <1>4
<1>7. \A j \in 3 .. 4 - 1 : fmt[j] \in Decimals
  BY <1>1, NumeralsDiffer
<1>8. CodeOf(SubSeq(fmt, 3, 4 - 1)) = 0
  <2> DEFINE ds == SubSeq(fmt, 3, 3)
  <2>1. Len(ds) = 1 /\ ds[1] = Numeral[0]
    BY <1>1, <1>2, NumeralsDiffer
  <2> HIDE DEF ds
  <2>2. CodeOf(ds) = 0
    BY <2>1, ShortCodes
  <2> QED BY <2>2 DEF ds
<1>9. 0 \in DOMAIN CodeColours /\ CodeColours[0] = 15 /\ 4 \in 3 .. Len(fmt)
  BY <1>1 DEF CodeColours
<1>10. OpensWith(printf(fmt), CodeColours[0])
  BY <1>1, <1>2, <1>5, <1>6, <1>7, <1>8, <1>9, EscapeFirst, Zenon
<1> QED BY <1>3, <1>9, <1>10, Zenon

\* The levels.
LEMMA LevelIs ==
  ASSUME NEW level \in DOMAIN Levels
  PROVE  /\ \E b \in 1 .. 3 : /\ Levels[level].code = <<Numeral[3], Numeral[b]>>
                              /\ 30 + b \in DOMAIN CodeColours
                              /\ CodeColours[30 + b] = Levels[level].shade
         /\ Levels[level].tag \notin {"ESC", "%"} /\ Levels[level].shade \in 0 .. 15
<1>1. level \in {"info", "warn", "error"}
  BY Zenon DEF Levels
<1>2. /\ Levels["info"] = [code |-> <<"3", "2">>, shade |-> 2, tag |-> "I"]
      /\ Levels["warn"] = [code |-> <<"3", "3">>, shade |-> 6, tag |-> "W"]
      /\ Levels["error"] = [code |-> <<"3", "1">>, shade |-> 4, tag |-> "E"]
  BY Zenon DEF Levels
<1>3. /\ CodeColours[30 + 1] = 4 /\ CodeColours[30 + 2] = 2 /\ CodeColours[30 + 3] = 6
      /\ 30 + 1 \in DOMAIN CodeColours /\ 30 + 2 \in DOMAIN CodeColours
      /\ 30 + 3 \in DOMAIN CodeColours
  BY DEF CodeColours
<1>4. Numeral[1] = "1" /\ Numeral[2] = "2" /\ Numeral[3] = "3"
  BY NumeralsDiffer, Zenon
<1>5. 1 \in 1 .. 3 /\ 2 \in 1 .. 3 /\ 3 \in 1 .. 3
  OBVIOUS
<1>6. CASE level = "info"
  <2>1. /\ Levels[level].code = <<"3", "2">> /\ Levels[level].shade = 2
        /\ Levels[level].tag = "I"
    BY <1>2, <1>6
  <2>2. Levels[level].code = <<Numeral[3], Numeral[2]>>
    BY <1>4, <2>1, Zenon
  <2>3. Levels[level].tag \notin {"ESC", "%"} /\ Levels[level].shade \in 0 .. 15
    BY <2>1
  <2> QED BY <1>3, <1>5, <2>1, <2>2, <2>3, Zenon
<1>7. CASE level = "warn"
  <2>1. /\ Levels[level].code = <<"3", "3">> /\ Levels[level].shade = 6
        /\ Levels[level].tag = "W"
    BY <1>2, <1>7
  <2>2. Levels[level].code = <<Numeral[3], Numeral[3]>>
    BY <1>4, <2>1, Zenon
  <2>3. Levels[level].tag \notin {"ESC", "%"} /\ Levels[level].shade \in 0 .. 15
    BY <2>1
  <2> QED BY <1>3, <1>5, <2>1, <2>2, <2>3, Zenon
<1>8. CASE level = "error"
  <2>1. /\ Levels[level].code = <<"3", "1">> /\ Levels[level].shade = 4
        /\ Levels[level].tag = "E"
    BY <1>2, <1>8
  <2>2. Levels[level].code = <<Numeral[3], Numeral[1]>>
    BY <1>4, <2>1, Zenon
  <2>3. Levels[level].tag \notin {"ESC", "%"} /\ Levels[level].shade \in 0 .. 15
    BY <2>1
  <2> QED BY <1>3, <1>5, <2>1, <2>2, <2>3, Zenon
<1> QED BY <1>1, <1>6, <1>7, <1>8, Zenon

\* Two sequences one behind the other.
LEMMA Concatenation ==
  ASSUME NEW D, NEW a \in Seq(D), NEW b \in Seq(D)
  PROVE  /\ a \o b \in Seq(D) /\ Len(a \o b) = Len(a) + Len(b)
         /\ \A j \in 1 .. Len(a) : (a \o b)[j] = a[j]
         /\ \A j \in 1 .. Len(b) : (a \o b)[Len(a) + j] = b[j]
OBVIOUS

\* The two digits of a code in a sequence.
LEMMA TwoInside ==
  ASSUME NEW D, NEW s \in Seq(D), Len(s) = 7
  PROVE  /\ Len(SubSeq(s, 3, 4)) = 2
         /\ SubSeq(s, 3, 4)[1] = s[3] /\ SubSeq(s, 3, 4)[2] = s[4]
OBVIOUS

\* A space is text.
LEMMA SpaceIs == Space \in AnyChar /\ Space # "ESC" /\ Space # "%"
<1>1. Space # "ESC" /\ Space # "%"
  BY Zenon DEF Space
<1> QED BY <1>1, FormatChars, Zenon

\* A line starts by setting its colour.
LEMMA LineStartIs ==
  ASSUME NEW level \in DOMAIN Levels, MaxStr >= 2
  PROVE  OpensWith(LineStart(level), Levels[level].shade)
<1> DEFINE tag == Levels[level].tag
<1>1. PICK b \in 1 .. 3 : /\ Levels[level].code = <<Numeral[3], Numeral[b]>>
                          /\ 30 + b \in DOMAIN CodeColours
                          /\ CodeColours[30 + b] = Levels[level].shade
  BY LevelIs, Zenon
<1>2. PICK x, y \in AnyChar : x = Numeral[3] /\ y = Numeral[b]
  BY FormatChars
<1>3. tag \in AnyChar /\ tag \notin {"ESC", "%"}
  BY LevelIs, FormatChars, Zenon
<1>4. /\ x \notin {"ESC", "%"} /\ y \notin {"ESC", "%"} /\ x \in Decimals /\ y \in Decimals
  <2>1. b = 1 \/ b = 2 \/ b = 3
    OBVIOUS
  <2>2. x = "3" /\ (y = "1" \/ y = "2" \/ y = "3")
    BY <1>2, <2>1, NumeralsDiffer, Zenon
  <2>3. x \in Decimals /\ y \in Decimals
    BY <1>2, NumeralsDiffer
  <2> QED BY <2>2, <2>3, Zenon
<1> DEFINE head == <<"ESC", "[">>
           digits == <<x, y>>
           tail == <<"m", tag, Space>>
           fmt == head \o digits \o tail
<1>5. head \in Seq(AnyChar) /\ Len(head) = 2 /\ head[1] = "ESC" /\ head[2] = "["
  BY FormatChars
<1>6. digits \in Seq(AnyChar) /\ Len(digits) = 2 /\ digits[1] = x /\ digits[2] = y
  BY <1>2
<1>7. /\ tail \in Seq(AnyChar) /\ Len(tail) = 3 /\ tail[1] = "m" /\ tail[2] = tag
      /\ tail[3] = Space
  BY <1>3, SpaceIs, FormatChars
<1>8. LineStart(level) = printf(fmt)
  BY <1>1, <1>2, Zenon DEF LineStart
<1> HIDE DEF head, digits, tail, tag
<1>9. /\ fmt \in Seq(AnyChar) /\ Len(fmt) = 7
      /\ fmt[1] = "ESC" /\ fmt[2] = "[" /\ fmt[3] = x /\ fmt[4] = y /\ fmt[5] = "m"
      /\ fmt[6] = tag /\ fmt[7] = Space
  <2> DEFINE front == head \o digits
  <2>1. /\ front \in Seq(AnyChar) /\ Len(front) = 4
        /\ front[1] = "ESC" /\ front[2] = "[" /\ front[3] = x /\ front[4] = y
    <3>1. /\ front \in Seq(AnyChar) /\ Len(front) = Len(head) + Len(digits)
          /\ \A j \in 1 .. Len(head) : front[j] = head[j]
          /\ \A j \in 1 .. Len(digits) : front[Len(head) + j] = digits[j]
      <4>1. head \in Seq(AnyChar) /\ digits \in Seq(AnyChar)
        BY <1>5, <1>6, Zenon
      <4> QED BY <4>1, Concatenation
    <3> HIDE DEF front
    <3>2. front[1] = head[1] /\ front[2] = head[2]
      BY <1>5, <3>1
    <3>3. front[2 + 1] = digits[1] /\ front[2 + 2] = digits[2]
      BY <1>5, <1>6, <3>1
    <3> QED BY <1>5, <1>6, <3>1, <3>2, <3>3
  <2> HIDE DEF front
  <2>2. /\ front \o tail \in Seq(AnyChar) /\ Len(front \o tail) = 7
        /\ \A j \in 1 .. 4 : (front \o tail)[j] = front[j]
        /\ \A j \in 1 .. 3 : (front \o tail)[4 + j] = tail[j]
    <3>1. /\ front \o tail \in Seq(AnyChar) /\ Len(front \o tail) = Len(front) + Len(tail)
          /\ \A j \in 1 .. Len(front) : (front \o tail)[j] = front[j]
          /\ \A j \in 1 .. Len(tail) : (front \o tail)[Len(front) + j] = tail[j]
      <4>1. front \in Seq(AnyChar) /\ tail \in Seq(AnyChar)
        BY <1>7, <2>1, Zenon
      <4> QED BY <4>1, Concatenation
    <3> QED BY <1>7, <2>1, <3>1
  <2>3. /\ (front \o tail)[5] = tail[1] /\ (front \o tail)[6] = tail[2]
        /\ (front \o tail)[7] = tail[3]
    BY <2>2
  <2>4. fmt = front \o tail
    BY Zenon DEF front
  <2> QED BY <1>7, <2>1, <2>2, <2>3, <2>4
<1> HIDE DEF fmt
<1>10. \A j \in 1 .. 7 : j = 1 \/ j = 2 \/ j = 3 \/ j = 4 \/ j = 5 \/ j = 6 \/ j = 7
  OBVIOUS
<1>11. \A j \in 1 .. Len(fmt) : fmt[j] # "%"
  BY <1>3, <1>4, <1>9, <1>10, SpaceIs, Zenon
<1>12. \A j \in 5 + 1 .. Len(fmt) : fmt[j] # "ESC"
  BY <1>3, <1>9, SpaceIs
<1>13. \A j \in 3 .. 5 - 1 : fmt[j] \in Decimals
  BY <1>4, <1>9
<1>14. CodeOf(SubSeq(fmt, 3, 5 - 1)) = 30 + b
  <2> DEFINE ds == SubSeq(fmt, 3, 4)
  <2>1. Len(ds) = 2 /\ ds[1] = fmt[3] /\ ds[2] = fmt[4]
    BY <1>9, TwoInside, Zenon
  <2> HIDE DEF ds
  <2>2. b \in 0 .. 9 /\ 3 \in 0 .. 9
    OBVIOUS
  <2>3. CodeOf(ds) = 3 * 10 + b
    BY <1>2, <1>9, <2>1, <2>2, ShortCodes, Zenon
  <2> QED BY <2>3 DEF ds
<1>15. 5 \in 3 .. Len(fmt)
  BY <1>9
<1>16. OpensWith(printf(fmt), CodeColours[30 + b])
  BY <1>1, <1>9, <1>11, <1>12, <1>13, <1>14, <1>15, EscapeFirst, Zenon
<1> QED BY <1>1, <1>8, <1>16, Zenon

-----------------------------------------------------------------------------
\* The changes of colour in calls: none, one to c, or one to c and one to d.
Quiet(v) == v \in Seq(ConsoleCall) /\ \A j \in 1 .. Len(v) : v[j] \in Silent

One(v, c) ==
  /\ v \in Seq(ConsoleCall)
  /\ \E a \in 1 .. Len(v) : v[a] = Colour(c) /\ \A j \in 1 .. Len(v) : j # a => v[j] \in Silent

Two(v, c, d) ==
  /\ v \in Seq(ConsoleCall)
  /\ \E a, b \in 1 .. Len(v) :
       /\ a < b /\ v[a] = Colour(c) /\ v[b] = Colour(d)
       /\ \A j \in 1 .. Len(v) : j # a /\ j # b => v[j] \in Silent

\* The colours of two sequences one behind the other.
LEMMA Joined ==
  ASSUME NEW v \in Seq(ConsoleCall), NEW w \in Seq(ConsoleCall), NEW c, NEW d
  PROVE  /\ Quiet(v) /\ Quiet(w) => Quiet(v \o w)
         /\ Quiet(v) /\ One(w, c) => One(v \o w, c)
         /\ One(v, c) /\ Quiet(w) => One(v \o w, c)
         /\ One(v, c) /\ One(w, d) => Two(v \o w, c, d)
         /\ Two(v, c, d) /\ Quiet(w) => Two(v \o w, c, d)
<1> DEFINE z == v \o w
<1>1. /\ z \in Seq(ConsoleCall) /\ Len(z) = Len(v) + Len(w)
      /\ \A j \in 1 .. Len(v) : z[j] = v[j]
      /\ \A j \in 1 .. Len(w) : z[Len(v) + j] = w[j]
  BY Concatenation
<1>2. Len(v) \in Nat /\ Len(w) \in Nat
  OBVIOUS
<1> HIDE DEF z
<1>3. ASSUME NEW j \in 1 .. Len(z), j > Len(v)
      PROVE  j - Len(v) \in 1 .. Len(w) /\ z[j] = w[j - Len(v)]
  <2>1. j - Len(v) \in 1 .. Len(w) /\ Len(v) + (j - Len(v)) = j
    BY <1>1, <1>2, <1>3
  <2> QED BY <1>1, <2>1, Zenon
<1>9. ASSUME NEW j \in 1 .. Len(z), ~(j > Len(v))
      PROVE  j \in 1 .. Len(v) /\ z[j] = v[j]
  BY <1>1, <1>2, <1>9
<1>4. ASSUME Quiet(v), Quiet(w)
      PROVE  Quiet(z)
  <2>1. ASSUME NEW j \in 1 .. Len(z)
        PROVE  z[j] \in Silent
    <3>1. CASE j > Len(v)
      BY <1>3, <1>4, <3>1, Zenon DEF Quiet
    <3>2. CASE ~(j > Len(v))
      BY <1>4, <1>9, <3>2, Zenon DEF Quiet
    <3> QED BY <3>1, <3>2, Zenon
  <2> QED BY <1>1, <2>1, Zenon DEF Quiet
<1>5. ASSUME Quiet(v), One(w, c)
      PROVE  One(z, c)
  <2>1. PICK a \in 1 .. Len(w) : w[a] = Colour(c) /\ \A j \in 1 .. Len(w) : j # a => w[j] \in Silent
    BY <1>5, Zenon DEF One
  <2>2. Len(v) + a \in 1 .. Len(z) /\ z[Len(v) + a] = Colour(c)
    BY <1>1, <1>2, <2>1
  <2>3. ASSUME NEW j \in 1 .. Len(z), j # Len(v) + a
        PROVE  z[j] \in Silent
    <3>1. CASE j > Len(v)
      <4>1. j - Len(v) # a
        BY <1>2, <2>3
      <4> QED BY <1>3, <2>1, <3>1, <4>1, Zenon
    <3>2. CASE ~(j > Len(v))
      BY <1>5, <1>9, <3>2, Zenon DEF Quiet
    <3> QED BY <3>1, <3>2, Zenon
  <2> QED BY <1>1, <2>2, <2>3, Zenon DEF One
<1>6. ASSUME One(v, c), Quiet(w)
      PROVE  One(z, c)
  <2>1. PICK a \in 1 .. Len(v) : v[a] = Colour(c) /\ \A j \in 1 .. Len(v) : j # a => v[j] \in Silent
    BY <1>6, Zenon DEF One
  <2>2. a \in 1 .. Len(z) /\ z[a] = Colour(c)
    BY <1>1, <1>2, <2>1
  <2>3. ASSUME NEW j \in 1 .. Len(z), j # a
        PROVE  z[j] \in Silent
    <3>1. CASE j > Len(v)
      BY <1>3, <1>6, <3>1, Zenon DEF Quiet
    <3>2. CASE ~(j > Len(v))
      BY <1>9, <2>1, <2>3, <3>2, Zenon
    <3> QED BY <3>1, <3>2, Zenon
  <2> QED BY <1>1, <2>2, <2>3, Zenon DEF One
<1>7. ASSUME One(v, c), One(w, d)
      PROVE  Two(z, c, d)
  <2>1. PICK a \in 1 .. Len(v) : v[a] = Colour(c) /\ \A j \in 1 .. Len(v) : j # a => v[j] \in Silent
    BY <1>7, Zenon DEF One
  <2>2. PICK b \in 1 .. Len(w) : w[b] = Colour(d) /\ \A j \in 1 .. Len(w) : j # b => w[j] \in Silent
    BY <1>7, Zenon DEF One
  <2>3. /\ a \in 1 .. Len(z) /\ Len(v) + b \in 1 .. Len(z) /\ a < Len(v) + b
        /\ z[a] = Colour(c) /\ z[Len(v) + b] = Colour(d)
    BY <1>1, <1>2, <2>1, <2>2
  <2>4. ASSUME NEW j \in 1 .. Len(z), j # a, j # Len(v) + b
        PROVE  z[j] \in Silent
    <3>1. CASE j > Len(v)
      <4>1. j - Len(v) # b
        BY <1>2, <2>4
      <4> QED BY <1>3, <2>2, <3>1, <4>1, Zenon
    <3>2. CASE ~(j > Len(v))
      BY <1>9, <2>1, <2>4, <3>2, Zenon
    <3> QED BY <3>1, <3>2, Zenon
  <2> QED BY <1>1, <2>3, <2>4, Zenon DEF Two
<1>8. ASSUME Two(v, c, d), Quiet(w)
      PROVE  Two(z, c, d)
  <2>1. PICK a, b \in 1 .. Len(v) : /\ a < b /\ v[a] = Colour(c) /\ v[b] = Colour(d)
                                   /\ \A j \in 1 .. Len(v) : j # a /\ j # b => v[j] \in Silent
    BY <1>8, Zenon DEF Two
  <2>2. a \in 1 .. Len(z) /\ b \in 1 .. Len(z) /\ z[a] = Colour(c) /\ z[b] = Colour(d)
    BY <1>1, <1>2, <2>1
  <2>3. ASSUME NEW j \in 1 .. Len(z), j # a, j # b
        PROVE  z[j] \in Silent
    <3>1. CASE j > Len(v)
      BY <1>3, <1>8, <3>1, Zenon DEF Quiet
    <3>2. CASE ~(j > Len(v))
      BY <1>9, <2>1, <2>3, <3>2, Zenon
    <3> QED BY <3>1, <3>2, Zenon
  <2> QED BY <1>1, <2>1, <2>2, <2>3, Zenon DEF Two
<1> QED BY <1>4, <1>5, <1>6, <1>7, <1>8, Zenon DEF z

\* The colours that are left after the first call.
LEMMA Rests ==
  ASSUME NEW v \in Seq(ConsoleCall), v # << >>, NEW c \in 0 .. 15, NEW d \in 0 .. 15
  PROVE  /\ Tail(v) \in Seq(ConsoleCall) /\ v[1] \in ConsoleCall
         /\ Quiet(v) => v[1] \in Silent /\ Quiet(Tail(v))
         /\ One(v, c) /\ v[1] \in Silent => One(Tail(v), c)
         /\ One(v, c) /\ v[1] \notin Silent => v[1].ink = c /\ Quiet(Tail(v))
         /\ Two(v, c, d) /\ v[1] \in Silent => Two(Tail(v), c, d)
         /\ Two(v, c, d) /\ v[1] \notin Silent => v[1].ink = c /\ One(Tail(v), d)
<1> DEFINE z == Tail(v)
<1>1. /\ z \in Seq(ConsoleCall) /\ Len(v) \in Nat \ {0} /\ Len(z) = Len(v) - 1
      /\ \A j \in 1 .. Len(z) : j + 1 \in 1 .. Len(v) /\ z[j] = v[j + 1]
      /\ 1 \in 1 .. Len(v) /\ v[1] \in ConsoleCall
  OBVIOUS
<1> HIDE DEF z
<1>2. ASSUME NEW a \in 1 .. Len(v), a # 1
      PROVE  a - 1 \in 1 .. Len(z) /\ z[a - 1] = v[a]
  <2>1. a - 1 \in 1 .. Len(z) /\ a - 1 + 1 = a
    BY <1>1, <1>2
  <2> QED BY <1>1, <2>1, Zenon
<1>3. \A n \in 0 .. 15 : Colour(n) \notin Silent /\ Colour(n).ink = n
  BY OneCall, Zenon DEF Silent
<1>4. ASSUME Quiet(v)
      PROVE  v[1] \in Silent /\ Quiet(z)
  BY <1>1, <1>4, Zenon DEF Quiet
<1>5. ASSUME One(v, c)
      PROVE  /\ v[1] \in Silent => One(z, c)
             /\ v[1] \notin Silent => v[1].ink = c /\ Quiet(z)
  <2>1. PICK a \in 1 .. Len(v) : v[a] = Colour(c) /\ \A j \in 1 .. Len(v) : j # a => v[j] \in Silent
    BY <1>5, Zenon DEF One
  <2>2. ASSUME v[1] \in Silent
        PROVE  One(z, c)
    <3>1. a # 1
      BY <1>3, <2>1, <2>2, Zenon
    <3>2. a - 1 \in 1 .. Len(z) /\ z[a - 1] = Colour(c)
      BY <1>2, <2>1, <3>1, Zenon
    <3>3. \A j \in 1 .. Len(z) : j # a - 1 => z[j] \in Silent
      BY <1>1, <2>1
    <3> QED BY <1>1, <3>2, <3>3, Zenon DEF One
  <2>3. ASSUME v[1] \notin Silent
        PROVE  v[1].ink = c /\ Quiet(z)
    <3>1. a = 1
      BY <1>1, <2>1, <2>3, Zenon
    <3>2. \A j \in 1 .. Len(z) : z[j] \in Silent
      BY <1>1, <2>1, <3>1
    <3> QED BY <1>1, <1>3, <2>1, <3>1, <3>2, Zenon DEF Quiet
  <2> QED BY <2>2, <2>3, Zenon
<1>6. ASSUME Two(v, c, d)
      PROVE  /\ v[1] \in Silent => Two(z, c, d)
             /\ v[1] \notin Silent => v[1].ink = c /\ One(z, d)
  <2>1. PICK a, b \in 1 .. Len(v) : /\ a < b /\ v[a] = Colour(c) /\ v[b] = Colour(d)
                                   /\ \A j \in 1 .. Len(v) : j # a /\ j # b => v[j] \in Silent
    BY <1>6, Zenon DEF Two
  <2>2. b # 1 /\ b - 1 \in 1 .. Len(z) /\ z[b - 1] = Colour(d)
    <3>1. b # 1
      BY <2>1
    <3> QED BY <1>2, <2>1, <3>1, Zenon
  <2>3. ASSUME v[1] \in Silent
        PROVE  Two(z, c, d)
    <3>1. a # 1
      BY <1>3, <2>1, <2>3, Zenon
    <3>2. a - 1 \in 1 .. Len(z) /\ z[a - 1] = Colour(c) /\ a - 1 < b - 1
      BY <1>2, <2>1, <3>1
    <3>3. \A j \in 1 .. Len(z) : j # a - 1 /\ j # b - 1 => z[j] \in Silent
      BY <1>1, <2>1
    <3> QED BY <1>1, <2>2, <3>2, <3>3, Zenon DEF Two
  <2>4. ASSUME v[1] \notin Silent
        PROVE  v[1].ink = c /\ One(z, d)
    <3>1. a = 1
      BY <1>1, <2>1, <2>2, <2>4, Zenon
    <3>2. \A j \in 1 .. Len(z) : j # b - 1 => z[j] \in Silent
      BY <1>1, <2>1, <3>1
    <3> QED BY <1>1, <1>3, <2>1, <2>2, <3>1, <3>2, Zenon DEF One
  <2> QED BY <2>3, <2>4, Zenon
<1> QED BY <1>1, <1>4, <1>5, <1>6, Zenon DEF z

\* How many changes of colour there are.
LEMMA HowMany ==
  ASSUME NEW v \in Seq(ConsoleCall), NEW c \in 0 .. 15, NEW d \in 0 .. 15,
         NEW N, N = {n \in DOMAIN v : v[n].op = "colour"}
  PROVE  /\ Quiet(v) => N = {}
         /\ One(v, c) => N # {} /\ \E n \in DOMAIN v : N = {n}
         /\ Two(v, c, d) => N # {} /\ ~ \E n \in DOMAIN v : N = {n}
<1>1. DOMAIN v = 1 .. Len(v) /\ Len(v) \in Nat /\ \A j \in 1 .. Len(v) : v[j] \in ConsoleCall
  OBVIOUS
<1>2. \A j \in 1 .. Len(v) : v[j] \in Silent => j \notin N
  BY Zenon DEF Silent
<1>3. \A j \in 1 .. Len(v), n \in 0 .. 15 : v[j] = Colour(n) => j \in N
  BY <1>1, OneCall, Zenon
<1>4. N \subseteq 1 .. Len(v)
  BY <1>1, Zenon
<1>5. Quiet(v) => N = {}
  BY <1>2, <1>4, Zenon DEF Quiet
<1>6. ASSUME One(v, c)
      PROVE  N # {} /\ \E n \in DOMAIN v : N = {n}
  <2>1. PICK a \in 1 .. Len(v) : v[a] = Colour(c) /\ \A j \in 1 .. Len(v) : j # a => v[j] \in Silent
    BY <1>6, Zenon DEF One
  <2>2. N = {a}
    BY <1>2, <1>3, <1>4, <2>1, Zenon
  <2> QED BY <1>1, <2>2, Zenon
<1>7. ASSUME Two(v, c, d)
      PROVE  N # {} /\ ~ \E n \in DOMAIN v : N = {n}
  <2>1. PICK a, b \in 1 .. Len(v) : a < b /\ v[a] = Colour(c) /\ v[b] = Colour(d)
    BY <1>7, Zenon DEF Two
  <2>2. a \in N /\ b \in N
    BY <1>3, <2>1, Zenon
  <2>3. a # b
    BY <2>1
  <2> QED BY <2>2, <2>3, Zenon
<1> QED BY <1>5, <1>6, <1>7, Zenon

\* Opening with a colour is one change of colour.
LEMMA Opening ==
  ASSUME NEW v, NEW c, OpensWith(v, c)
  PROVE  One(v, c)
<1>1. v \in Seq(ConsoleCall) /\ 1 \in 1 .. Len(v) /\ v[1] = Colour(c) /\ SilentFrom(v, 1)
  BY DEF OpensWith
<1>2. \A j \in 1 .. Len(v) : j # 1 => v[j] \in Silent
  BY <1>1 DEF SilentFrom
<1> QED BY <1>1, <1>2, Zenon DEF One

\* Silent calls change no colour.
LEMMA SilentIsQuiet ==
  ASSUME NEW v \in Seq(Silent)
  PROVE  Quiet(v)
<1>1. Silent \subseteq ConsoleCall
  BY Zenon DEF Silent
<1>2. v \in Seq(ConsoleCall) /\ \A j \in 1 .. Len(v) : v[j] \in Silent
  BY <1>1
<1> QED BY <1>2, Zenon DEF Quiet

\* One directive, and the format of keyboard_handler.
LEMMA DirectivePrints ==
  ASSUME NEW d \in {"c", "d", "x"}, NEW arg \in Arg, MaxStr >= 2
  PROVE  Quiet(vprintf(<<"%", d>>, <<arg>>))
<1> DEFINE fmt == <<"%", d>>
<1>1. d \in Directives \cap AnyChar /\ "%" \in AnyChar
  BY FormatChars, Zenon DEF Directives
<1>2. fmt \in Seq(AnyChar) /\ <<arg>> \in Seq(Arg)
  BY <1>1
<1>3. FormatFits(fmt, <<arg>>)
  BY <1>1, DirectiveFits, Zenon
<1>4. \A j \in 1 .. Len(fmt) : fmt[j] # "ESC"
  <2>1. Len(fmt) = 2 /\ fmt[1] = "%" /\ fmt[2] = d /\ d # "ESC"
    BY Zenon
  <2>2. \A j \in 1 .. 2 : j = 1 \/ j = 2
    OBVIOUS
  <2> QED BY <2>1, <2>2, Zenon
<1> HIDE DEF fmt
<1>5. vprintf(fmt, <<arg>>) \in Seq(Silent)
  BY <1>2, <1>3, <1>4, MessageCalls, Zenon
<1> QED BY <1>5, SilentIsQuiet, Zenon DEF fmt

\* keyboard_handler prints no change of colour.
LEMMA KeyPrints ==
  ASSUME NEW arg1 \in Arg, NEW arg2 \in Arg, MaxStr >= 2
  PROVE  Quiet(vprintf(<<"%", "c", "%", "x">>, <<arg1, arg2>>))
<1> DEFINE fmt == <<"%", "c", "%", "x">>
<1>1. {"%", "c", "x"} \subseteq AnyChar
  BY FormatChars, Zenon
<1>2. fmt \in Seq(AnyChar) /\ <<arg1, arg2>> \in Seq(Arg)
  BY <1>1
<1>3. FormatFits(fmt, <<arg1, arg2>>)
  BY <1>1, KeyFits, Zenon
<1>4. \A j \in 1 .. Len(fmt) : fmt[j] # "ESC"
  <2>1. Len(fmt) = 4 /\ fmt[1] = "%" /\ fmt[2] = "c" /\ fmt[3] = "%" /\ fmt[4] = "x"
    BY Zenon
  <2>2. \A j \in 1 .. 4 : j = 1 \/ j = 2 \/ j = 3 \/ j = 4
    OBVIOUS
  <2> QED BY <2>1, <2>2, Zenon
<1> HIDE DEF fmt
<1>5. vprintf(fmt, <<arg1, arg2>>) \in Seq(Silent)
  BY <1>2, <1>3, <1>4, MessageCalls, Zenon
<1> QED BY <1>5, SilentIsQuiet, Zenon DEF fmt

\* Text without escape character or directive.
LEMMA TextPrints ==
  ASSUME NEW fmt \in Seq(AnyChar), MaxStr >= 2,
         \A j \in 1 .. Len(fmt) : fmt[j] # "ESC" /\ fmt[j] # "%"
  PROVE  Quiet(vprintf(fmt, << >>))
<1>1. << >> \in Seq(Arg)
  OBVIOUS
<1>2. FormatFits(fmt, << >>)
  BY TextFits, Zenon
<1>3. vprintf(fmt, << >>) \in Seq(Silent)
  BY <1>1, <1>2, MessageCalls, Zenon
<1> QED BY <1>3, SilentIsQuiet, Zenon

\* Numbers are arguments.
LEMMA NumberArg ==
  ASSUME NEW n \in Int
  PROVE  Number(n) \in Arg
<1>1. << >> \in Seq(AnyChar) /\ Len(<< >>) = 0
  OBVIOUS
<1> QED BY <1>1, VgaAssumption DEF Number, Arg

\* So is a string of one character.
LEMMA CharArg ==
  ASSUME NEW c \in AnyChar, MaxStr >= 2
  PROVE  Text(<<c>>) \in Arg
<1>1. <<c>> \in Seq(AnyChar) /\ Len(<<c>>) = 1
  OBVIOUS
<1> QED BY <1>1, VgaAssumption DEF Text, Arg

\* A timestamp is text.
LEMMA TimestampIs ==
  ASSUME NEW t \in Nat, MaxStr >= 2
  PROVE  Quiet(print_timestamp(t))
<1> DEFINE v1 == printf(<<"[">>)
           v2 == vprintf(<<"%", "d">>, <<Number(IntOf(t))>>)
           v3 == printf(<<"]", Space>>)
<1>1. Quiet(v1)
  <2> DEFINE fmt == <<"[">>
  <2>1. fmt \in Seq(AnyChar) /\ Len(fmt) = 1 /\ fmt[1] = "["
    BY FormatChars
  <2> HIDE DEF fmt
  <2>2. \A j \in 1 .. Len(fmt) : fmt[j] # "ESC" /\ fmt[j] # "%"
    BY <2>1
  <2>3. Quiet(vprintf(fmt, << >>))
    BY <2>1, <2>2, TextPrints, Zenon
  <2> QED BY <2>3, Zenon DEF fmt, printf
<1>2. Quiet(v2)
  <2>1. PICK c \in Nat \ {0} : c = UIntCount
    BY PrintfAssumption, Zenon
  <2>2. IntOf(t) = IF t % c < c \div 2 THEN t % c ELSE (t % c) - c
    BY <2>1, Zenon DEF IntOf
  <2>3. IntOf(t) \in Int
    BY <2>2
  <2>4. Number(IntOf(t)) \in Arg
    BY <2>3, NumberArg, Zenon
  <2> QED BY <2>4, DirectivePrints, Zenon
<1>3. Quiet(v3)
  <2> DEFINE fmt == <<"]", Space>>
  <2>1. fmt \in Seq(AnyChar) /\ Len(fmt) = 2 /\ fmt[1] = "]" /\ fmt[2] = Space
    BY FormatChars
  <2> HIDE DEF fmt
  <2>2. \A j \in 1 .. Len(fmt) : fmt[j] # "ESC" /\ fmt[j] # "%"
    <3>1. \A j \in 1 .. 2 : j = 1 \/ j = 2
      OBVIOUS
    <3> QED BY <2>1, <3>1, SpaceIs, Zenon
  <2>3. Quiet(vprintf(fmt, << >>))
    BY <2>1, <2>2, TextPrints, Zenon
  <2> QED BY <2>3, Zenon DEF fmt, printf
<1> HIDE DEF v1, v2, v3
<1>4. \A v, w : Quiet(v) /\ Quiet(w) => Quiet(v \o w)
  BY Joined, Zenon DEF Quiet
<1>5. Quiet(v1 \o v2 \o v3)
  BY <1>1, <1>2, <1>3, <1>4, Zenon
<1> QED BY <1>5, Zenon DEF print_timestamp, v1, v2, v3

\* log.c:22: a line whose message has no escape sequence changes the colour
\* exactly twice, to that of its level before the message and to white behind
\* it, for every level, tick count and message.
THEOREM LineShape ==
  ASSUME NEW level \in DOMAIN Levels, NEW t \in Nat, NEW fmt, NEW args, NEW after,
         Quiet(vprintf(fmt, args)), Quiet(after), MaxStr >= 2
  PROVE  Two(Line(level, t, fmt, args, after).calls, Levels[level].shade, 15)
<1> DEFINE c == Levels[level].shade
           v1 == print_timestamp(t)
           v2 == LineStart(level)
           v3 == vprintf(fmt, args)
<1>1. Quiet(v1)
  BY TimestampIs, Zenon
<1>2. One(v2, c)
  BY LineStartIs, Opening, Zenon
<1>3. Quiet(v3) /\ Quiet(after)
  BY Zenon
<1>4. One(LineEnd, 15)
  BY LineEndIs, Opening, Zenon
<1>5. Line(level, t, fmt, args, after).calls = v1 \o v2 \o v3 \o LineEnd \o after
  BY Zenon DEF Line
<1> HIDE DEF c, v1, v2, v3
<1>6. One(v1 \o v2, c)
  BY <1>1, <1>2, Joined, Zenon DEF Quiet, One
<1>7. One(v1 \o v2 \o v3, c)
  BY <1>3, <1>6, Joined, Zenon DEF Quiet, One
<1>8. Two(v1 \o v2 \o v3 \o LineEnd, c, 15)
  BY <1>4, <1>7, Joined, Zenon DEF One
<1>9. Two(v1 \o v2 \o v3 \o LineEnd \o after, c, 15)
  <2>1. v1 \o v2 \o v3 \o LineEnd \in Seq(ConsoleCall) /\ after \in Seq(ConsoleCall)
    BY <1>3, <1>8, Zenon DEF Quiet, Two
  <2>2. PICK w \in Seq(ConsoleCall) : w = v1 \o v2 \o v3 \o LineEnd
    BY <2>1, Zenon
  <2>3. Two(w, c, 15) /\ Quiet(after)
    BY <1>3, <1>8, <2>2, Zenon
  <2>4. \A d, e : Two(w, d, e) /\ Quiet(after) => Two(w \o after, d, e)
    BY <2>1, Joined, Zenon
  <2> QED BY <2>2, <2>3, <2>4, Zenon
<1> QED BY <1>5, <1>9, Zenon DEF c

-----------------------------------------------------------------------------
(* The functions that are printing                                         *)

\* What a function that is printing has still to do.
Frame == [calls : Seq(ConsoleCall), shade : -1 .. 15, cut : BOOLEAN]

\* A function that prints a line, at its start and at any time.
Fresh(f) ==
  f \in Frame /\ f.shade \in 0 .. 15 /\ Two(f.calls, f.shade, White) /\ f.cut = FALSE

LineFrame(f) ==
  /\ f.shade \in 0 .. 15
  /\ Quiet(f.calls) \/ One(f.calls, White) \/ Two(f.calls, f.shade, White)

\* A line whose message and ending are quiet is fresh.
LEMMA LineIs ==
  ASSUME NEW level \in DOMAIN Levels, NEW t \in Nat, NEW fmt, NEW args, NEW after,
         Quiet(vprintf(fmt, args)), Quiet(after)
  PROVE  Fresh(Line(level, t, fmt, args, after))
<1> DEFINE f == Line(level, t, fmt, args, after)
           calls == print_timestamp(t) \o LineStart(level) \o vprintf(fmt, args) \o LineEnd
                    \o after
<1>1. f = [calls |-> calls, shade |-> Levels[level].shade, cut |-> FALSE]
  BY Zenon DEF Line
<1>2. Two(f.calls, Levels[level].shade, 15)
  BY LineShape, LogAssumption, Zenon
<1>3. Levels[level].shade \in 0 .. 15
  BY LevelIs, Zenon
<1> HIDE DEF calls
<1>4. f.calls = calls /\ f.shade = Levels[level].shade /\ f.cut = FALSE
  BY <1>1
<1>5. calls \in Seq(ConsoleCall)
  BY <1>2, <1>4, Zenon DEF Two
<1>6. f \in Frame
  BY <1>1, <1>3, <1>5 DEF Frame
<1> HIDE DEF f
<1>7. Fresh(f)
  BY <1>2, <1>3, <1>4, <1>6, Zenon DEF Fresh, White
<1> QED BY <1>7, Zenon DEF f

\* Printing nothing changes no colour.
LEMMA NothingIsQuiet == Quiet(<< >>)
BY DEF Quiet

\* The lines of the handlers and of kernel_main.
LEMMA HandlerLines ==
  ASSUME NEW t \in Ticks
  PROVE  /\ \A c \in DOMAIN Keys :
              Fresh(Line("info", t, <<"%", "c", "%", "x">>, <<Text(<<c>>), Number(Keys[c])>>,
                         <<Put(c)>>))
         /\ \A level \in DOMAIN Levels, n \in Nat :
              Fresh(Line(level, t, <<"%", "x">>, <<Number(n)>>, << >>))
<1>1. t \in Nat /\ MaxStr >= 2
  BY LogAssumption, Zenon
<1>2. "info" \in DOMAIN Levels
  BY Zenon DEF Levels
<1>3. ASSUME NEW c \in DOMAIN Keys
      PROVE  Fresh(Line("info", t, <<"%", "c", "%", "x">>, <<Text(<<c>>), Number(Keys[c])>>,
                        <<Put(c)>>))
  <2>1. c \in AnyChar /\ Keys[c] \in Int
    BY LogAssumption DEF AnyChar
  <2>2. Text(<<c>>) \in Arg /\ Number(Keys[c]) \in Arg
    BY <1>1, <2>1, CharArg, NumberArg, Zenon
  <2>3. Quiet(vprintf(<<"%", "c", "%", "x">>, <<Text(<<c>>), Number(Keys[c])>>))
    BY <1>1, <2>2, KeyPrints, Zenon
  <2>4. Put(c) \in Silent
    BY <2>1, OneCall, Zenon
  <2>5. <<Put(c)>> \in Seq(Silent)
    BY <2>4
  <2>6. Quiet(<<Put(c)>>)
    BY <2>5, SilentIsQuiet, Zenon
  <2> QED BY <1>1, <1>2, <2>3, <2>6, LineIs, Zenon
<1>4. ASSUME NEW level \in DOMAIN Levels, NEW n \in Nat
      PROVE  Fresh(Line(level, t, <<"%", "x">>, <<Number(n)>>, << >>))
  <2>1. n \in Int
    OBVIOUS
  <2>2. Number(n) \in Arg
    BY <2>1, NumberArg, Zenon
  <2>3. "x" \in {"c", "d", "x"}
    BY Zenon
  <2>4. Quiet(vprintf(<<"%", "x">>, <<Number(n)>>))
    BY <1>1, <2>2, <2>3, DirectivePrints, Zenon
  <2> QED BY <1>1, <2>4, LineIs, NothingIsQuiet, Zenon
<1> QED BY <1>3, <1>4, Zenon

\* A message of one character that printf just prints.
Message == AnyChar \ {"ESC", "%"}

\* A line of one message is fresh.
LEMMA MessageLines ==
  ASSUME NEW t \in Ticks, NEW level \in DOMAIN Levels, NEW m \in Message
  PROVE  Fresh(Line(level, t, <<m>>, << >>, << >>))
<1>1. t \in Nat /\ MaxStr >= 2
  BY LogAssumption, Zenon
<1> DEFINE fmt == <<m>>
<1>2. fmt \in Seq(AnyChar) /\ Len(fmt) = 1 /\ fmt[1] = m
  <2>1. m \in AnyChar
    BY Zenon DEF Message
  <2> QED BY <2>1
<1> HIDE DEF fmt
<1>3. \A j \in 1 .. Len(fmt) : fmt[j] # "ESC" /\ fmt[j] # "%"
  BY <1>2 DEF Message
<1>4. Quiet(vprintf(fmt, << >>))
  BY <1>1, <1>2, <1>3, TextPrints, Zenon
<1> QED BY <1>1, <1>4, LineIs, NothingIsQuiet, Zenon DEF fmt

-----------------------------------------------------------------------------
\* The stack of functions that are printing.  Inside vga_write, the innermost
\* is making that call and no more characters are left than it has.
OutInv ==
  /\ output \in Seq(Frame)
  /\ left # -1 => Printing /\ Call.op = "write" /\ left <= Len(Call.text)

\* All print lines, all but the innermost have been cut, and the background
\* stays black.
StackInv ==
  /\ \A n \in 1 .. Len(output) : LineFrame(output[n])
  /\ \A n \in 1 .. Len(output) - 1 : output[n].cut
  /\ current_color_byte \in 0 .. 15

\* The colour is that of a line below the innermost that is in its message.
Below ==
  \E n \in 1 .. Len(output) - 1 :
    One(output[n].calls, White) /\ current_color_byte = output[n].shade

\* The colour, by what the innermost has still to do.
Ink ==
  \/ output = << >> /\ current_color_byte = White
  \/ /\ output # << >>
     /\ \/ Quiet(Top.calls) /\ current_color_byte = White
        \/ /\ One(Top.calls, White)
           /\ current_color_byte = Top.shade \/ (Top.cut /\ current_color_byte = White)
        \/ /\ Two(Top.calls, Top.shade, White)
           /\ current_color_byte = White \/ Below

\* The innermost function and its next call.
LEMMA TopIs ==
  ASSUME OutInv, output # << >>
  PROVE  /\ Top \in Frame /\ Top.calls \in Seq(ConsoleCall) /\ Top.shade \in -1 .. 15
         /\ Len(output) \in Nat \ {0} /\ Len(output) \in 1 .. Len(output)
         /\ Printing => Top.calls # << >> /\ Call \in ConsoleCall
<1>1. output \in Seq(Frame) /\ Len(output) \in Nat \ {0} /\ Len(output) \in 1 .. Len(output)
  BY DEF OutInv
<1>2. Top \in Frame
  BY <1>1 DEF Top
<1>3. Top.calls \in Seq(ConsoleCall) /\ Top.shade \in -1 .. 15
  BY <1>2, Zenon DEF Frame
<1>4. ASSUME Printing
      PROVE  Top.calls # << >> /\ Call \in ConsoleCall
  <2>1. Top.calls # << >>
    BY <1>4, Zenon DEF Printing
  <2>2. PICK v \in Seq(ConsoleCall) : v = Top.calls
    BY <1>3, Zenon
  <2>3. v[1] \in ConsoleCall
    BY <2>1, <2>2
  <2> QED BY <2>1, <2>2, <2>3, Zenon DEF Call
<1> QED BY <1>1, <1>2, <1>3, <1>4, Zenon

\* The innermost function has made its next call.
LEMMA MadeIs ==
  ASSUME OutInv, Printing, Made
  PROVE  /\ output' \in Seq(Frame) /\ Len(output') = Len(output) /\ output' # << >>
         /\ \A n \in 1 .. Len(output) - 1 : output'[n] = output[n]
         /\ Top'.calls = Tail(Top.calls) /\ Top'.shade = Top.shade /\ Top'.cut = Top.cut
<1>1. output # << >>
  BY Zenon DEF Printing
<1>2. /\ Top \in Frame /\ Top.calls \in Seq(ConsoleCall) /\ Top.calls # << >>
      /\ Len(output) \in Nat \ {0}
  BY <1>1, TopIs, Zenon
<1>3. PICK f : f = [Top EXCEPT !.calls = Tail(@)]
  BY Zenon
<1>4. /\ f \in Frame /\ f.calls = Tail(Top.calls) /\ f.shade = Top.shade /\ f.cut = Top.cut
  <2>1. Tail(Top.calls) \in Seq(ConsoleCall)
    BY <1>2
  <2> QED BY <1>2, <1>3, <2>1, Zenon DEF Frame
<1>5. output \in Seq(Frame)
  BY Zenon DEF OutInv
<1>6. output' = [output EXCEPT ![Len(output)] = f]
  BY <1>3, Zenon DEF Made, Top
<1>7. /\ output' \in Seq(Frame) /\ Len(output') = Len(output)
      /\ output'[Len(output)] = f
      /\ \A n \in 1 .. Len(output) - 1 : output'[n] = output[n]
  BY <1>2, <1>4, <1>5, <1>6
<1>8. Top' = f
  BY <1>7, Zenon DEF Top
<1>9. output' # << >>
  BY <1>2, <1>7, Zenon
<1> QED BY <1>4, <1>7, <1>8, <1>9, Zenon

\* The console sees a step of a client, and the stack stays one.
LEMMA Emits ==
  ASSUME OutInv, VgaTypeOK, Emit
  PROVE  OutInv' /\ ConsoleStep
<1>1. left \in -1 .. MaxStr /\ MaxStr \in Nat
  BY VgaAssumption, Zenon DEF VgaTypeOK
<1>2. ASSUME Printing
      PROVE  Call \in ConsoleCall
  BY <1>2, TopIs, Zenon DEF Printing
<1>3. ASSUME Printing, Made, left' = -1
      PROVE  OutInv'
  BY <1>3, MadeIs, Zenon DEF OutInv
<1>4. CASE EmitPut
  <2>1. PICK c \in AnyChar : c = Call.text[1]
    BY <1>2, <1>4 DEF EmitPut, ConsoleCall
  <2>2. vga_put_char(c)
    BY <1>4, <2>1, Zenon DEF EmitPut
  <2>3. left' = -1
    BY <2>2, Zenon DEF vga_put_char
  <2> QED BY <1>3, <1>4, <2>2, <2>3, Zenon DEF EmitPut, ConsoleStep
<1>5. CASE EmitColour
  <2>1. Call.ink \in 0 .. 15
    BY <1>2, <1>5 DEF EmitColour, ConsoleCall
  <2>2. vga_set_color(Call.ink)
    BY <1>5, Zenon DEF EmitColour
  <2>3. left' = -1
    BY <2>2, Zenon DEF vga_set_color
  <2> QED BY <1>3, <1>5, <2>1, <2>2, <2>3, Zenon DEF EmitColour, ConsoleStep
<1>6. CASE EmitWrite
  <2>1. Len(Call.text) \in 0 .. MaxStr
    BY <1>1, <1>2, <1>6 DEF EmitWrite, ConsoleCall
  <2>2. WriteCall(Len(Call.text)) /\ output' = output
    BY <1>6, Zenon DEF EmitWrite, logVars
  <2>3. left' = Len(Call.text)
    BY <2>2, Zenon DEF WriteCall
  <2>4. Printing' /\ Call' = Call
    BY <1>6, <2>2, Zenon DEF EmitWrite, Printing, Call, Top
  <2>5. left' <= Len(Call.text)
    BY <2>1, <2>3
  <2>6. OutInv'
    BY <1>6, <2>2, <2>4, <2>5, Zenon DEF OutInv, EmitWrite
  <2> QED BY <2>1, <2>2, <2>6, Zenon DEF ConsoleStep
<1>7. CASE EmitChar
  <2> DEFINE at == Len(Call.text) - left + 1
  <2>1. left > 0 /\ Call.op = "write" /\ left <= Len(Call.text) /\ Printing
    BY <1>1, <1>7 DEF EmitChar, OutInv
  <2>2. Call.text \in Seq(AnyChar)
    BY <1>2, <2>1, Zenon DEF ConsoleCall
  <2>3. PICK c \in AnyChar : c = Call.text[at]
    BY <1>1, <2>1, <2>2
  <2>4. WriteChar(c) /\ output' = output
    BY <1>7, <2>3, Zenon DEF EmitChar
  <2>5. left' = left - 1
    BY <2>4, Zenon DEF WriteChar
  <2>6. Printing' /\ Call' = Call
    BY <2>1, <2>4, Zenon DEF Printing, Call, Top
  <2>7. left' <= Len(Call.text)
    BY <1>1, <2>1, <2>2, <2>5
  <2>8. OutInv'
    BY <2>1, <2>4, <2>6, <2>7, Zenon DEF OutInv
  <2> QED BY <2>4, <2>8, Zenon DEF ConsoleStep
<1>8. CASE EmitReturn
  <2>1. WriteReturn /\ left' = -1
    BY <1>8, Zenon DEF EmitReturn, WriteReturn
  <2> QED BY <1>3, <1>8, <2>1, Zenon DEF EmitReturn, ConsoleStep
<1>9. CASE Finish
  <2>1. left = -1
    BY <1>9, Zenon DEF OutInv, Finish, Printing
  <2>2. UNCHANGED vgaVars /\ left' = -1
    BY <1>9, <2>1, Zenon DEF Finish, vgaVars
  <2>3. output' \in Seq(Frame)
    BY <1>9, TopIs DEF OutInv, Finish
  <2> QED BY <2>2, <2>3, Zenon DEF OutInv, ConsoleStep
<1> QED BY <1>4, <1>5, <1>6, <1>7, <1>8, <1>9, Zenon DEF Emit

\* A call that leaves the colour alone.
LEMMA SilentMade ==
  ASSUME OutInv, StackInv, Ink, Printing, Made, Call \in Silent,
         current_color_byte' = current_color_byte
  PROVE  StackInv' /\ Ink'
<1> DEFINE v == Top.calls
           c == Top.shade
<1>1. output # << >>
  BY Zenon DEF Printing
<1>2. v \in Seq(ConsoleCall) /\ v # << >> /\ Len(output) \in 1 .. Len(output)
  BY <1>1, TopIs, Zenon
<1>3. LineFrame(Top)
  BY <1>2, Zenon DEF StackInv, Top
<1>4. c \in 0 .. 15 /\ White \in 0 .. 15
  BY <1>3 DEF LineFrame, White
<1>5. v[1] \in Silent
  BY Zenon DEF Call
<1>6. /\ output' \in Seq(Frame) /\ Len(output') = Len(output) /\ output' # << >>
      /\ \A n \in 1 .. Len(output) - 1 : output'[n] = output[n]
      /\ Top'.calls = Tail(v) /\ Top'.shade = c /\ Top'.cut = Top.cut
  BY MadeIs, Zenon
<1>7. /\ Quiet(v) => Quiet(Top'.calls)
      /\ One(v, White) => One(Top'.calls, White)
      /\ Two(v, c, White) => Two(Top'.calls, Top'.shade, White)
  <2> HIDE DEF v, c
  <2>1. /\ Quiet(v) => Quiet(Tail(v))
        /\ One(v, White) => One(Tail(v), White)
        /\ Two(v, c, White) => Two(Tail(v), c, White)
    BY <1>2, <1>4, <1>5, Rests, Zenon
  <2> QED BY <1>6, <2>1, Zenon
<1>8. LineFrame(Top')
  BY <1>3, <1>4, <1>6, <1>7, Zenon DEF LineFrame
<1>9. StackInv'
  <2>1. \A n \in 1 .. Len(output) : n = Len(output) \/ n \in 1 .. Len(output) - 1
    BY <1>2
  <2>2. output'[Len(output)] = Top'
    BY <1>6, Zenon DEF Top
  <2>3. \A n \in 1 .. Len(output') : LineFrame(output'[n])
    BY <1>2, <1>6, <1>8, <2>1, <2>2, Zenon DEF StackInv
  <2> QED BY <1>6, <2>3, Zenon DEF StackInv
<1>10. Below => Below'
  <2> SUFFICES ASSUME NEW n \in 1 .. Len(output) - 1,
                      One(output[n].calls, White), current_color_byte = output[n].shade
               PROVE  Below'
    BY Zenon DEF Below
  <2>1. n \in 1 .. Len(output') - 1 /\ output'[n] = output[n]
    BY <1>6, Zenon
  <2> QED BY <2>1, Zenon DEF Below
<1>11. Ink'
  BY <1>1, <1>6, <1>7, <1>10, Zenon DEF Ink
<1> QED BY <1>9, <1>11, Zenon

\* A change of colour: the one of the line, or the one to white.
LEMMA ColourMade ==
  ASSUME OutInv, StackInv, Ink, EmitColour
  PROVE  StackInv' /\ Ink'
<1> DEFINE v == Top.calls
           c == Top.shade
<1>1. output # << >> /\ Printing /\ Made
  BY Zenon DEF Printing, EmitColour
<1>2. v \in Seq(ConsoleCall) /\ v # << >> /\ Len(output) \in 1 .. Len(output)
  BY <1>1, TopIs, Zenon
<1>3. LineFrame(Top)
  BY <1>2, Zenon DEF StackInv, Top
<1>4. c \in 0 .. 15 /\ White \in 0 .. 15
  BY <1>3 DEF LineFrame, White
<1>5. v[1] = Call /\ v[1] \notin Silent
  BY Zenon DEF Call, EmitColour, Silent
<1>6. /\ output' \in Seq(Frame) /\ Len(output') = Len(output) /\ output' # << >>
      /\ \A n \in 1 .. Len(output) - 1 : output'[n] = output[n]
      /\ Top'.calls = Tail(v) /\ Top'.shade = c /\ Top'.cut = Top.cut
  BY <1>1, MadeIs, Zenon
<1>7. \/ One(v, White) /\ v[1].ink = White /\ Quiet(Tail(v))
      \/ Two(v, c, White) /\ v[1].ink = c /\ One(Tail(v), White)
  <2>1. Quiet(v) \/ One(v, White) \/ Two(v, c, White)
    BY <1>3, Zenon DEF LineFrame
  <2> HIDE DEF v, c
  <2> QED BY <1>2, <1>4, <1>5, <2>1, Rests, Zenon
<1>8. current_color_byte' = v[1].ink
  <2>1. PICK n \in 0 .. 15 : n = v[1].ink
    BY <1>4, <1>7, Zenon
  <2>2. current_color_byte' = (n % 16) + (current_color_byte - (current_color_byte % 16))
    BY <1>5, <2>1, Zenon DEF EmitColour, vga_set_color
  <2>3. current_color_byte \in 0 .. 15
    BY Zenon DEF StackInv
  <2> QED BY <2>1, <2>2, <2>3
<1>9. \/ current_color_byte' = White /\ Quiet(Top'.calls)
      \/ current_color_byte' = Top'.shade /\ One(Top'.calls, White)
  BY <1>6, <1>7, <1>8, Zenon
<1>10. LineFrame(Top') /\ current_color_byte' \in 0 .. 15
  <2>1. Top'.shade \in 0 .. 15
    BY <1>4, <1>6, Zenon
  <2> QED BY <1>4, <1>9, <2>1, Zenon DEF LineFrame
<1>11. StackInv'
  <2>1. \A n \in 1 .. Len(output) : n = Len(output) \/ n \in 1 .. Len(output) - 1
    BY <1>2
  <2>2. output'[Len(output)] = Top'
    BY <1>6, Zenon DEF Top
  <2>3. \A n \in 1 .. Len(output') : LineFrame(output'[n])
    BY <1>2, <1>6, <1>10, <2>1, <2>2, Zenon DEF StackInv
  <2> QED BY <1>6, <1>10, <2>3, Zenon DEF StackInv
<1>12. Ink'
  BY <1>6, <1>9, Zenon DEF Ink
<1> QED BY <1>11, <1>12, Zenon

\* A stack without its top.
LEMMA FrontIs ==
  ASSUME NEW D, NEW s \in Seq(D), Len(s) # 0
  PROVE  /\ SubSeq(s, 1, Len(s) - 1) \in Seq(D)
         /\ Len(SubSeq(s, 1, Len(s) - 1)) = Len(s) - 1
         /\ \A n \in 1 .. Len(s) - 1 : SubSeq(s, 1, Len(s) - 1)[n] = s[n]
<1>1. PICK m \in Nat : Len(s) = m + 1
  <2>1. Len(s) - 1 \in Nat /\ Len(s) = Len(s) - 1 + 1
    OBVIOUS
  <2> QED BY <2>1, Zenon
<1>2. Len(s) - 1 = m
  BY <1>1
<1>3. /\ SubSeq(s, 1, m) \in Seq(D) /\ Len(SubSeq(s, 1, m)) = m
      /\ \A n \in 1 .. m : SubSeq(s, 1, m)[n] = s[n]
  BY <1>1
<1> QED BY <1>2, <1>3, Zenon

\* A function returns: the one it has cut goes on in white.
LEMMA Finished ==
  ASSUME OutInv, StackInv, Ink, Finish
  PROVE  StackInv' /\ Ink'
<1>1. output # << >> /\ Top.calls = << >> /\ current_color_byte' = current_color_byte
  BY Zenon DEF Finish, vgaVars
<1>2. Len(output) \in Nat \ {0} /\ output \in Seq(Frame)
  BY <1>1, TopIs, Zenon DEF OutInv
<1>3. current_color_byte = White
  <2>1. ASSUME NEW d
        PROVE  ~ One(<< >>, d) /\ \A e : ~ Two(<< >>, e, d)
    BY DEF One, Two
  <2> QED BY <1>1, <2>1, Zenon DEF Ink
<1>4. /\ Len(output') = Len(output) - 1
      /\ \A n \in 1 .. Len(output) - 1 : output'[n] = output[n]
  <2>1. Len(output) # 0
    BY <1>2, Zenon
  <2> QED BY <1>2, <2>1, FrontIs, Zenon DEF Finish
<1>5. \A n \in 1 .. Len(output) - 1 : n \in 1 .. Len(output)
  BY <1>2
<1>6. StackInv'
  <2>1. \A n \in 1 .. Len(output') : LineFrame(output'[n])
    BY <1>4, <1>5, Zenon DEF StackInv
  <2>2. \A n \in 1 .. Len(output') - 1 : n \in 1 .. Len(output) - 1
    BY <1>2, <1>4
  <2>3. \A n \in 1 .. Len(output') - 1 : output'[n].cut
    BY <1>4, <2>2, Zenon DEF StackInv
  <2> QED BY <1>1, <2>1, <2>3, Zenon DEF StackInv
<1>7. Ink'
  <2>1. CASE output' = << >>
    BY <1>1, <1>3, <2>1, Zenon DEF Ink
  <2>2. CASE output' # << >>
    <3>1. output' \in Seq(Frame)
      BY <1>2 DEF Finish
    <3>2. Len(output') \in 1 .. Len(output') /\ Len(output') \in 1 .. Len(output) - 1
      BY <1>2, <1>4, <2>2, <3>1
    <3>3. Top'.cut
      BY <1>4, <3>2, Zenon DEF StackInv, Top
    <3>4. LineFrame(Top')
      BY <1>6, <3>2, Zenon DEF StackInv, Top
    <3> QED BY <1>1, <1>3, <2>2, <3>3, <3>4, Zenon DEF Ink, LineFrame
  <2> QED BY <2>1, <2>2, Zenon
<1> QED BY <1>6, <1>7, Zenon

\* Whatever call is made, and when a function returns, the colour is right.
LEMMA EmitsInk ==
  ASSUME OutInv, StackInv, Ink, VgaTypeOK, Emit
  PROVE  StackInv' /\ Ink'
<1>1. ASSUME Printing
      PROVE  Call \in ConsoleCall
  BY <1>1, TopIs, Zenon DEF Printing
<1>2. CASE EmitPut
  <2>1. Call \in Silent /\ current_color_byte' = current_color_byte
    BY <1>1, <1>2, Zenon DEF EmitPut, vga_put_char, Silent
  <2> QED BY <1>2, <2>1, SilentMade, Zenon DEF EmitPut
<1>3. CASE EmitColour
  BY <1>3, ColourMade, Zenon
<1>4. CASE EmitWrite \/ EmitChar
  <2>1. output' = output /\ current_color_byte' = current_color_byte
    BY <1>4, Zenon DEF EmitWrite, EmitChar, WriteCall, WriteChar, logVars
  <2> QED BY <2>1, Zenon DEF StackInv, Ink, Below, Top
<1>5. CASE EmitReturn
  <2>1. Call.op = "write"
    BY <1>5 DEF EmitReturn, WriteReturn, OutInv
  <2>2. Call \in Silent /\ current_color_byte' = current_color_byte
    BY <1>1, <1>5, <2>1, Zenon DEF EmitReturn, WriteReturn, Silent
  <2> QED BY <1>5, <2>2, SilentMade, Zenon DEF EmitReturn
<1>6. CASE Finish
  BY <1>6, Finished, Zenon
<1> QED BY <1>2, <1>3, <1>4, <1>5, <1>6, Zenon DEF Emit

\* A handler's line on top of what is printing, or of nothing.
LEMMA Pushed ==
  ASSUME OutInv, StackInv, Ink, NEW f, Fresh(f), Push(f), left = -1, UNCHANGED vgaVars
  PROVE  OutInv' /\ StackInv' /\ Ink'
<1>1. f \in Frame /\ f.shade \in 0 .. 15 /\ Two(f.calls, f.shade, White)
  BY Zenon DEF Fresh
<1>2. left' = -1 /\ current_color_byte' = current_color_byte
  BY Zenon DEF vgaVars
<1>3. output \in Seq(Frame) /\ Len(output) \in Nat /\ DOMAIN output = 1 .. Len(output)
  BY DEF OutInv
<1> DEFINE cut(g) == [g EXCEPT !.cut = TRUE]
           below == [n \in 1 .. Len(output) |-> cut(output[n])]
<1>4. output' = Append(below, f)
  BY <1>3, Zenon DEF Push
<1>5. ASSUME NEW g \in Frame
      PROVE  cut(g) \in Frame /\ cut(g).calls = g.calls /\ cut(g).shade = g.shade /\ cut(g).cut
  BY Zenon DEF Frame
<1> HIDE DEF cut
<1>6. \A n \in 1 .. Len(output) : below[n] \in Frame
  BY <1>3, <1>5
<1>7. below \in Seq(Frame) /\ Len(below) = Len(output)
  <2>1. below \in [1 .. Len(output) -> Frame]
    BY <1>6, Zenon
  <2> HIDE DEF below
  <2> QED BY <1>3, <2>1
<1>8. \A n \in 1 .. Len(output) : below[n] = cut(output[n]) /\ output[n] \in Frame
  BY <1>3
<1> HIDE DEF below
<1>9. /\ output' \in Seq(Frame) /\ Len(output') = Len(output) + 1
      /\ output'[Len(output) + 1] = f
      /\ \A n \in 1 .. Len(output) : output'[n] = below[n]
  BY <1>1, <1>3, <1>4, <1>7
<1>10. Top' = f /\ output' # << >>
  <2>1. output' # << >>
    BY <1>3, <1>9
  <2> QED BY <1>9, <2>1, Zenon DEF Top
<1>11. OutInv'
  BY <1>2, <1>9, Zenon DEF OutInv
<1>12. StackInv'
  <2>1. ASSUME NEW n \in 1 .. Len(output)
        PROVE  LineFrame(output'[n]) /\ output'[n].cut
    <3>1. output'[n] = cut(output[n]) /\ output[n] \in Frame /\ LineFrame(output[n])
      BY <1>8, <1>9, Zenon DEF StackInv
    <3>2. /\ output'[n].calls = output[n].calls /\ output'[n].shade = output[n].shade
          /\ output'[n].cut
      BY <1>5, <3>1, Zenon
    <3> QED BY <3>1, <3>2, Zenon DEF LineFrame
  <2>2. LineFrame(f)
    BY <1>1, Zenon DEF LineFrame
  <2>3. \A n \in 1 .. Len(output') : n \in 1 .. Len(output) \/ n = Len(output) + 1
    BY <1>3, <1>9
  <2>4. Len(output') - 1 = Len(output)
    BY <1>3, <1>9
  <2>5. \A n \in 1 .. Len(output') : LineFrame(output'[n])
    BY <1>9, <2>1, <2>2, <2>3, Zenon
  <2> QED BY <1>2, <2>1, <2>4, <2>5, Zenon DEF StackInv
<1>13. ASSUME NEW n \in 1 .. Len(output), One(output[n].calls, White),
              current_color_byte = output[n].shade
       PROVE  Below'
  <2>1. n \in 1 .. Len(output') - 1
    BY <1>3, <1>9
  <2>2. output'[n] = cut(output[n]) /\ output[n] \in Frame
    BY <1>8, <1>9, Zenon
  <2>3. output'[n].calls = output[n].calls /\ output'[n].shade = output[n].shade
    BY <1>5, <2>2, Zenon
  <2> QED BY <1>2, <1>13, <2>1, <2>3, Zenon DEF Below
<1>14. current_color_byte' = White \/ Below'
  <2>1. CASE current_color_byte = White
    BY <1>2, <2>1, Zenon
  <2>2. CASE output # << >> /\ One(Top.calls, White) /\ current_color_byte = Top.shade
    <3>1. Len(output) \in 1 .. Len(output)
      BY <1>3, <2>2
    <3> QED BY <1>13, <2>2, <3>1, Zenon DEF Top
  <2>3. CASE Below
    <3>1. PICK n \in 1 .. Len(output) - 1 :
            One(output[n].calls, White) /\ current_color_byte = output[n].shade
      BY <2>3, Zenon DEF Below
    <3>2. n \in 1 .. Len(output)
      BY <1>3
    <3> QED BY <1>13, <3>1, <3>2, Zenon
  <2> QED BY <2>1, <2>2, <2>3, Zenon DEF Ink
<1>15. Ink'
  BY <1>1, <1>10, <1>14, Zenon DEF Ink
<1> QED BY <1>11, <1>12, <1>15, Zenon

\* A line starts when nothing is printing.
LEMMA LineStarts ==
  ASSUME OutInv, StackInv, Ink, NEW f, Fresh(f), output = << >>, output' = <<f>>,
         UNCHANGED vgaVars
  PROVE  OutInv' /\ StackInv' /\ Ink'
<1>1. f \in Frame /\ f.shade \in 0 .. 15 /\ Two(f.calls, f.shade, White)
  BY Zenon DEF Fresh
<1>2. left = -1
  BY Zenon DEF OutInv, Printing
<1>3. left' = -1 /\ current_color_byte' = current_color_byte /\ current_color_byte = White
  BY <1>2, Zenon DEF vgaVars, Ink
<1>4. /\ output' \in Seq(Frame) /\ Len(output') = 1 /\ output'[1] = f /\ output' # << >>
  BY <1>1
<1>5. Top' = f
  BY <1>4, Zenon DEF Top
<1>6. OutInv'
  BY <1>3, <1>4, Zenon DEF OutInv
<1>7. StackInv'
  <2>1. LineFrame(f)
    BY <1>1, Zenon DEF LineFrame
  <2>2. \A n \in 1 .. 1 : n = 1
    OBVIOUS
  <2>3. \A n \in 1 .. Len(output') : LineFrame(output'[n])
    BY <1>4, <2>1, <2>2, Zenon
  <2>4. \A n \in 1 .. Len(output') - 1 : FALSE
    BY <1>4
  <2> QED BY <1>3, <2>3, <2>4, Zenon DEF StackInv
<1>8. Ink'
  BY <1>1, <1>3, <1>4, <1>5, Zenon DEF Ink
<1> QED BY <1>6, <1>7, <1>8, Zenon

\* A handler prints its line, whatever it interrupts.
LEMMA HandlersInk ==
  ASSUME OutInv, StackInv, Ink, Handlers
  PROVE  OutInv' /\ StackInv' /\ Ink' /\ UNCHANGED vgaVars
<1>1. ASSUME NEW f, Fresh(f), LogFrom(f)
      PROVE  OutInv' /\ StackInv' /\ Ink' /\ UNCHANGED vgaVars
  BY <1>1, Pushed, Zenon DEF LogFrom, Calm
<1>2. "info" \in DOMAIN Levels /\ "warn" \in DOMAIN Levels /\ 0 \in Nat
  BY Zenon DEF Levels
<1>3. Special \subseteq Nat
  BY LogAssumption
<1>4. PICK t \in Ticks :
        \/ \E c \in DOMAIN Keys : keyboard_handler(c, t)
        \/ \E scancode \in Special : keyboard_handler_special(scancode, t)
        \/ isr_unhandled_interrupt(t)
  BY Zenon DEF Handlers
<1>5. ASSUME NEW c \in DOMAIN Keys, keyboard_handler(c, t)
      PROVE  OutInv' /\ StackInv' /\ Ink' /\ UNCHANGED vgaVars
  BY <1>1, <1>5, HandlerLines, Zenon DEF keyboard_handler
<1>6. ASSUME NEW scancode \in Special, keyboard_handler_special(scancode, t)
      PROVE  OutInv' /\ StackInv' /\ Ink' /\ UNCHANGED vgaVars
  BY <1>1, <1>2, <1>3, <1>6, HandlerLines, Zenon DEF keyboard_handler_special
<1>7. ASSUME isr_unhandled_interrupt(t)
      PROVE  OutInv' /\ StackInv' /\ Ink' /\ UNCHANGED vgaVars
  BY <1>1, <1>2, <1>7, HandlerLines, Zenon DEF isr_unhandled_interrupt
<1> QED BY <1>4, <1>5, <1>6, <1>7, Zenon

\* kernel_main or a test prints a line.
LEMMA LogCallInk ==
  ASSUME OutInv, StackInv, Ink, NEW level \in DOMAIN Levels, NEW t \in Ticks,
         NEW m \in Message, LogCall(level, t, <<m>>)
  PROVE  OutInv' /\ StackInv' /\ Ink' /\ UNCHANGED vgaVars
<1>1. Fresh(Line(level, t, <<m>>, << >>, << >>))
  BY MessageLines, Zenon
<1> QED BY <1>1, LineStarts, Zenon DEF LogCall

=============================================================================
