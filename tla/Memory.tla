------------------------------- MODULE Memory -------------------------------
(***************************************************************************)
(* The memory and string functions (lib/memory.c) on a small memory, one   *)
(* step per byte.  Callers pass ranges inside the memory, and strings that *)
(* end in it.                                                              *)
(***************************************************************************)
EXTENDS Integers

CONSTANTS
  MemTop,  \* number of bytes of memory
  Byte     \* number of values of unsigned char

ASSUME MemoryAssumption == MemTop \in Nat \ {0} /\ Byte \in Nat \ {0}

VARIABLES
  mem,      \* address -> byte
  fn,       \* the function running, or "none"
  dest, src, len,  \* its arguments: memset's value is src; strcmp and memcmp
                   \* compare dest with src; strlen measures src
  k,        \* its loop counter
  before    \* history: the memory when it was called

memArgs == <<fn, dest, src, len, before>>
memVars == <<mem, memArgs, k>>

Addr == 0 .. MemTop - 1

Contents == [Addr -> 0 .. Byte - 1]

Copies == {"memcpy", "memmove", "memset", "strcpy"}
Measures == {"strlen", "strcmp", "memcmp"}

MemIdle ==
  /\ fn = "none" /\ dest = 0 /\ src = 0 /\ len = 0 /\ k = 0
  /\ before = mem

MemInit == mem \in Contents /\ MemIdle

-----------------------------------------------------------------------------
\* memmove copies from the end unless the destination lies lower.
Descending(f, d, s) == f = "memmove" /\ ~ (d < s)

MemCall(f, d, s, n) ==
  /\ fn = "none"
  /\ fn' = f /\ dest' = d /\ src' = s /\ len' = n
  /\ k' = IF Descending(f, d, s) THEN n ELSE 0
  /\ before' = mem
  /\ UNCHANGED mem

MemReturn ==
  /\ fn' = "none" /\ dest' = 0 /\ src' = 0 /\ len' = 0 /\ k' = 0
  /\ before' = mem'

CopyUp ==
  /\ fn \in {"memcpy", "memmove"} /\ ~ Descending(fn, dest, src) /\ k < len
  /\ mem' = [mem EXCEPT ![dest + k] = mem[src + k]]
  /\ k' = k + 1
  /\ UNCHANGED memArgs

CopyDownAscending ==
  /\ Descending(fn, dest, src) /\ k > 0
  /\ mem' = [mem EXCEPT ![dest + len - k] = mem[src + len - k]]
  /\ k' = k - 1
  /\ UNCHANGED memArgs

CopyDown ==
  /\ Descending(fn, dest, src) /\ k > 0
  /\ mem' = [mem EXCEPT ![dest + k - 1] = mem[src + k - 1]]
  /\ k' = k - 1
  /\ UNCHANGED memArgs

Fill ==
  /\ fn = "memset" /\ k < len
  /\ mem' = [mem EXCEPT ![dest + k] = src % Byte]
  /\ k' = k + 1
  /\ UNCHANGED memArgs

CopyEnd ==
  /\ fn \in {"memcpy", "memmove", "memset"}
  /\ k = IF Descending(fn, dest, src) THEN 0 ELSE len
  /\ UNCHANGED mem
  /\ MemReturn

\* strcpy copies the terminator too.
StringCopy ==
  /\ fn = "strcpy"
  /\ mem' = [mem EXCEPT ![dest + k] = mem[src + k]]
  /\ IF mem[src + k] = 0 THEN MemReturn
     ELSE k' = k + 1 /\ UNCHANGED memArgs

\* Does the loop of a function that only reads go on?
GoesOn ==
  CASE fn = "strlen" -> mem[src + k] # 0
    [] fn = "strcmp" -> mem[dest + k] # 0 /\ mem[dest + k] = mem[src + k]
    [] fn = "memcmp" -> k < len /\ mem[dest + k] = mem[src + k]

\* What it returns once the loop has ended.
Measured ==
  CASE fn = "strlen"              -> k
    [] fn = "memcmp" /\ k = len  -> 0
    [] OTHER                      -> mem[dest + k] - mem[src + k]

Measure ==
  /\ fn \in Measures
  /\ UNCHANGED mem
  /\ IF GoesOn THEN k' = k + 1 /\ UNCHANGED memArgs ELSE MemReturn

MemLoop == CopyUp \/ CopyDown \/ Fill \/ CopyEnd \/ StringCopy \/ Measure

-----------------------------------------------------------------------------
\* A string of length n starts at a in contents m.
StringOf(m, a, n) ==
  a + n < MemTop /\ m[a + n] = 0 /\ \A j \in 0 .. n - 1 : m[a + j] # 0

IsString(m, a) == \E n \in 0 .. MemTop : StringOf(m, a, n)
LengthIn(m, a) == CHOOSE n \in 0 .. MemTop : StringOf(m, a, n)

\* The contracts of the functions in contents m.
Allowed(f, d, s, n, m) ==
  CASE f = "memset" -> d + n <= MemTop
    [] f \in {"memcpy", "memmove", "memcmp"} -> d + n <= MemTop /\ s + n <= MemTop
    [] f = "strlen" -> IsString(m, s)
    [] f = "strcmp" -> IsString(m, s) /\ IsString(m, d)
    [] f = "strcpy" -> /\ IsString(m, s) /\ d + LengthIn(m, s) < MemTop
                       /\ d <= s \/ s + LengthIn(m, s) < d

MemNext ==
  \/ /\ fn = "none"
     /\ \E f \in Copies \cup Measures, d \in Addr, s \in Addr, n \in 0 .. MemTop :
          Allowed(f, d, s, n, mem) /\ MemCall(f, d, s, n)
  \/ MemLoop

MemSpec == MemInit /\ [][MemNext]_memVars

-----------------------------------------------------------------------------
(* Properties                                                              *)

MemTypeOK ==
  /\ mem \in Contents /\ before \in Contents
  /\ fn \in {"none"} \cup Copies \cup Measures
  /\ dest \in Addr /\ src \in Nat /\ len \in 0 .. MemTop /\ k \in 0 .. MemTop

\* The bytes f leaves in memory that had contents m.
Result(f, d, s, n, m) ==
  [x \in Addr |->
     CASE f = "memset" /\ x \in d .. d + n - 1             -> s % Byte
       [] f \in {"memcpy", "memmove"} /\ x \in d .. d + n - 1 -> m[s + x - d]
       [] f = "strcpy" /\ x \in d .. d + LengthIn(m, s)    -> m[s + x - d]
       [] OTHER                                            -> m[x]]

\* Do the bytes copied overlap so that an ascending copy overtakes itself?
Overtakes == fn = "memcpy" /\ src < dest /\ dest < src + len

\* How many bytes strcmp and memcmp may look at.
Compared == IF fn = "memcmp" THEN len ELSE LengthIn(mem, dest) + 1

\* The bytes at dest come before those at src in the order of their first
\* difference.
Less(d, s, n) ==
  \E j \in 0 .. n - 1 :
    (\A l \in 0 .. j - 1 : mem[d + l] = mem[s + l]) /\ mem[d + j] < mem[s + j]

\* memory.c:20: by choosing its direction memmove copies right whatever the
\* overlap; memcpy does unless it overtakes itself; memset and strcpy write
\* what they were asked to; and none touches any other byte.  strlen counts up
\* to the terminator, and the sign of strcmp and memcmp is that of the order
\* of the two strings or ranges.
CallsDoAsAsked ==
  [][fn' = "none" /\ fn # "none" /\ ~ Overtakes =>
       /\ mem' = Result(fn, dest, src, len, before)
       /\ fn = "strlen" => Measured = LengthIn(mem, src)
       /\ fn \in {"strcmp", "memcmp"} =>
            /\ Measured < 0 <=> Less(dest, src, Compared)
            /\ Measured > 0 <=> Less(src, dest, Compared)]_memVars
=============================================================================
