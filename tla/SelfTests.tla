------------------------------ MODULE SelfTests ------------------------------
(***************************************************************************)
(* The heap test of kernel_main and the test suite behind it               *)
(* (kernel/tests.c, phases 1, 4 and 5), run on the memory functions, the   *)
(* heap with its real addresses and sizes, and the log.  Phase 4 writes    *)
(* over the first header of the heap that phase 5 goes on to use.          *)
(*                                                                         *)
(* A test is a program of statements.  The arrays of phase 1 shrink to     *)
(* BufLen and CopyLen bytes.  Left out are what only reads hardware        *)
(* registers (phases 2 and 3), the write to screen memory in phase 1, and  *)
(* log lines that report neither PASS nor FAIL.                            *)
(***************************************************************************)
EXTENDS Log, Memory, Kmalloc

VARIABLES
  step,       \* statement being executed
  ptr,        \* pointer variables of kernel_main (k_) and of phase 5
  ptrs, i,    \* its array and loop counter
  result,     \* what memcmp returned
  total_pass, total_fail,
  failures    \* history: FAIL lines, the ones kernel_main does not count too

totals == <<total_pass, total_fail, failures>>
testVars == <<step, ptr, ptrs, i, result, totals>>

\* buf, src and dst of phase 1.
BufLen == 1
CopyLen == 2
Buf == 0
Src == BufLen
Dst == BufLen + CopyLen

-----------------------------------------------------------------------------
\* Statements: an operation, its operand and its size or value.
S(op, x, n) == [op |-> op, x |-> x, n |-> n]

heap_test_frees_c ==
  << S("kmalloc_init", "", 0),
     S("kmalloc", "k_a", 16), S("say", "k_a given", 0),
     S("say", "memory works", 0),
     S("kmalloc", "k_b", 16), S("say", "k_b given, not k_a", 0),
     S("kfree", "k_a", 0), S("kmalloc", "k_c", 16), S("kfree", "k_c", 0) >>

heap_test ==
  << S("kmalloc_init", "", 0),
     S("kmalloc", "k_a", 16), S("say", "k_a given", 0),
     S("say", "memory works", 0),
     S("kmalloc", "k_b", 16), S("say", "k_b given, not k_a", 0),
     S("kfree", "k_a", 0), S("kmalloc", "k_c", 16) >>

test_phase1_stdlib ==
  << S("memset", "", 171), S("check", "buf filled", 0),
     S("arrays", "", 0),
     S("memcpy", "", 0), S("check", "dst copied", 0),
     S("memcmp", "", 0), S("check", "equal", 0),
     S("store", "", 99),
     S("memcmp", "", 0), S("check", "different", 0) >>

\* Paging is off: the kernel never turns it on.
test_phase4_memory ==
  << S("check", "either way", 0),
     S("poke", "low", 305419896), S("poke", "high", 0),
     S("check", "low read back", 0), S("check", "memory works", 0) >>

test_phase5_allocator ==
  << S("kmalloc", "a", 64), S("need", "a given", 0),
     S("check", "memory works", 0),
     S("kmalloc", "b", 64), S("need_quietly", "b given", 0),
     S("check", "b not a", 0), S("check", "gap", 0),
     S("kfree", "a", 0), S("kmalloc", "c", 64), S("need_quietly", "c given", 0),
     S("check", "either way", 0),
     S("kmalloc_all", "", 32), S("check", "all given", 0), S("check", "all differ", 0),
     S("kfree_all", "", 0), S("kfree", "b", 0), S("kfree", "c", 0),
     S("kmalloc", "big", 512), S("check", "big given", 0), S("kfree", "big", 0) >>

run_all_tests ==
  <<S("reset", "", 0)>> \o test_phase1_stdlib \o test_phase4_memory
  \o test_phase5_allocator \o <<S("results", "", 0)>>

Script == heap_test \o run_all_tests

\* kmalloc_init(0x00200000, 0x00100000), with headers of three words; no sum of
\* the tests exceeds 31 bits.  The arrays fit in the memory and their bytes in a
\* char, the values passed on are natural numbers, and the letters of the
\* verdicts are characters.
ASSUME TestsAssumption ==
  /\ HeapStart = 2097152 /\ HeapSize = 1048576 /\ Hdr = 12
  /\ Dst + CopyLen <= MemTop /\ CopyLen < Byte
  /\ \A n \in DOMAIN Script : Script[n].n \in Nat
  /\ {"P", "F"} \subseteq Plain

PtrVars == {"k_a", "k_b", "k_c", "a", "b", "c", "big"}

TestsInit ==
  /\ HeapInit
  /\ step = 1
  /\ ptr = [x \in PtrVars |-> 0]
  /\ ptrs = [n \in 0 .. 7 |-> 0] /\ i = 0
  /\ result = 0
  /\ total_pass = 0 /\ total_fail = 0 /\ failures = 0

-----------------------------------------------------------------------------
Now == Script[step]

\* The tests run while no line is being printed.
Running == step \in DOMAIN Script /\ output = << >>

Doing(op) == Running /\ Now.op = op

Done == step' = step + 1

\* The end of phase 5, where its early returns go.
PhaseEnd == CHOOSE n \in DOMAIN Script : Script[n].op = "results"

HeapStarts ==
  /\ Doing("kmalloc_init")
  /\ kmalloc_init
  /\ Done
  /\ UNCHANGED <<vgaVars, logVars, memVars, ptr, ptrs, i, result, totals>>

\* A call of the allocator starts.
HeapCall ==
  /\ \/ /\ Doing("kmalloc") \/ (Doing("kmalloc_all") /\ i < 8)
        /\ KmallocCall(Now.n)
     \/ /\ Doing("kfree") /\ ptr[Now.x] # 0
        /\ KfreeCall(ptr[Now.x])
     \/ /\ Doing("kfree_all") /\ i < 8 /\ ptrs[i] # 0
        /\ KfreeCall(ptrs[i])
  /\ UNCHANGED <<vgaVars, logVars, memVars, testVars>>

HeapLoop ==
  /\ Running
  /\ KmallocNext \/ KfreeMerge \/ KfreeNext
  /\ UNCHANGED <<vgaVars, logVars, memVars, testVars>>

\* kmalloc returns p: the loop over ptrs stops at NULL.
Assigned(p) ==
  IF Now.op = "kmalloc"
    THEN ptr' = [ptr EXCEPT ![Now.x] = p] /\ Done /\ UNCHANGED <<ptrs, i>>
  ELSE /\ ptrs' = [ptrs EXCEPT ![i] = p]
       /\ i' = IF p = 0 THEN 8 ELSE i + 1
       /\ UNCHANGED <<step, ptr>>

KmallocDone ==
  /\ Running
  /\ \/ KmallocFound /\ Assigned(Payload(current))
     \/ KmallocNull /\ Assigned(0)
  /\ UNCHANGED <<vgaVars, logVars, memVars, result, totals>>

KfreeDone ==
  /\ Running
  /\ KfreeReturn
  /\ IF Now.op = "kfree" THEN Done /\ UNCHANGED i ELSE i' = i + 1 /\ UNCHANGED step
  /\ UNCHANGED <<vgaVars, logVars, memVars, ptr, ptrs, result, totals>>

\* kfree(NULL), and the ends of the two loops.
HeapSkip ==
  /\ pc = "idle"
  /\ \/ Doing("kfree") /\ ptr[Now.x] = 0 /\ Done /\ UNCHANGED i
     \/ Doing("kfree_all") /\ i < 8 /\ ptrs[i] = 0 /\ i' = i + 1 /\ UNCHANGED step
     \/ (Doing("kmalloc_all") \/ Doing("kfree_all")) /\ i = 8 /\ i' = 0 /\ Done
  /\ UNCHANGED <<vgaVars, logVars, memVars, heapVars, ptr, ptrs, result, totals>>

-----------------------------------------------------------------------------
MemoryCall ==
  /\ \/ Doing("memset") /\ MemCall("memset", Buf, Now.n, BufLen)
     \/ Doing("memcpy") /\ MemCall("memcpy", Dst, Src, CopyLen)
     \/ Doing("memcmp") /\ MemCall("memcmp", Src, Dst, CopyLen)
  /\ UNCHANGED <<vgaVars, logVars, heapVars, testVars>>

MemoryLoop ==
  /\ Running
  /\ MemLoop
  /\ IF fn' = "none"
       THEN Done /\ result' = IF fn = "memcmp" THEN Measured ELSE result
       ELSE UNCHANGED <<step, result>>
  /\ UNCHANGED <<vgaVars, logVars, heapVars, ptr, ptrs, i, totals>>

\* src = {1, 2, ...} and dst = {0}; dst[0] = 99.
Assign ==
  /\ \/ /\ Doing("arrays")
        /\ mem' = [x \in Addr |-> CASE x \in Src .. Src + CopyLen - 1 -> x - Src + 1
                                   [] x \in Dst .. Dst + CopyLen - 1 -> 0
                                   [] OTHER -> mem[x]]
     \/ /\ Doing("store")
        /\ mem' = [mem EXCEPT ![Dst] = Now.n % Byte]
  /\ before' = mem'
  /\ Done
  /\ UNCHANGED <<vgaVars, logVars, fn, dest, src, len, k, heapVars, ptr, ptrs, i, result,
                 totals>>

\* *low is the size field of the first header; *high lies in a payload.
Poke ==
  /\ Doing("poke")
  /\ heap' = IF Now.x = "low" THEN [heap EXCEPT ![HeapStart].size = Now.n] ELSE heap
  /\ Done
  /\ UNCHANGED <<vgaVars, logVars, memVars, heap_start, pc, current, size, live, ptr,
                 ptrs, i, result, totals>>

Reset ==
  /\ Doing("reset")
  /\ total_pass' = 0 /\ total_fail' = 0
  /\ Done
  /\ UNCHANGED <<vgaVars, logVars, memVars, heapVars, ptr, ptrs, i, result, failures>>

-----------------------------------------------------------------------------
\* What a test looks at.  Bytes written to a payload are read back as they
\* were written, and some tests pass either way.  The gap is unsigned: below
\* zero it is a large number.
Holds(x) ==
  CASE x = "k_a given"          -> ptr["k_a"] # 0
    [] x = "k_b given, not k_a" -> ptr["k_b"] \notin {0, ptr["k_a"]}
    [] x = "buf filled"    -> \A n \in 0 .. BufLen - 1 : mem[Buf + n] = 171 % Byte
    [] x = "dst copied"    -> \A n \in 0 .. CopyLen - 1 : mem[Dst + n] = mem[Src + n]
    [] x = "equal"         -> result = 0
    [] x = "different"     -> result # 0
    [] x = "low read back" -> heap[HeapStart].size = 305419896
    [] x = "a given"       -> ptr["a"] # 0
    [] x = "b given"       -> ptr["b"] # 0
    [] x = "b not a"       -> ptr["b"] # ptr["a"]
    [] x = "gap"           -> ptr["b"] - ptr["a"] \notin 0 .. 63
    [] x = "c given"       -> ptr["c"] # 0
    [] x = "all given"     -> \A n \in 0 .. 7 : ptrs[n] # 0
    [] x = "all differ"    -> \A n, m \in 0 .. 7 : n # m => ptrs[n] # ptrs[m]
    [] x = "big given"     -> ptr["big"] # 0
    [] OTHER               -> TRUE

\* PASS and FAIL log a line and count; say only logs; need returns from the
\* phase on FAIL, and need_quietly logs nothing on PASS.
Verdict ==
  LET ok == Holds(Now.x)
      counted == Now.op # "say"
  IN
  /\ \E op \in {"say", "check", "need", "need_quietly"} : Doing(op)
  /\ IF ok /\ Now.op = "need_quietly" THEN UNCHANGED <<vgaVars, logVars>>
     ELSE \E t \in Ticks : LogCall("info", t, IF ok THEN <<"P">> ELSE <<"F">>)
  /\ total_pass' = total_pass + (IF ok /\ Now.op \in {"check", "need"} THEN 1 ELSE 0)
  /\ total_fail' = total_fail + (IF ~ ok /\ counted THEN 1 ELSE 0)
  /\ failures' = failures + (IF ok THEN 0 ELSE 1)
  /\ step' = IF ~ ok /\ Now.op \in {"need", "need_quietly"} THEN PhaseEnd ELSE step + 1
  /\ UNCHANGED <<memVars, heapVars, ptr, ptrs, i, result>>

\* The closing lines, as one that gives the verdict on the suite.
Results ==
  /\ Doing("results")
  /\ \E t \in Ticks :
       LogCall("info", t, IF total_fail = 0 THEN <<"P">> ELSE <<"F">>)
  /\ Done
  /\ UNCHANGED <<memVars, heapVars, ptr, ptrs, i, result, totals>>

TestsNext ==
  \/ HeapStarts \/ HeapCall \/ HeapLoop \/ KmallocDone \/ KfreeDone \/ HeapSkip
  \/ MemoryCall \/ MemoryLoop \/ Assign \/ Poke \/ Reset \/ Verdict \/ Results

-----------------------------------------------------------------------------
(* Properties                                                              *)

TestsTypeOK ==
  /\ step \in 1 .. Len(Script) + 1
  /\ pc \in {"idle", "kmalloc", "kfree"}
  /\ ptr \in [PtrVars -> Nat] /\ ptrs \in [0 .. 7 -> Nat] /\ i \in 0 .. 8
  /\ total_pass \in Nat /\ total_fail \in Nat /\ failures \in Nat

Overwritten == heap[HeapStart].size = 305419896

\* tests.c:238: phase 4 writes over the size of the first block of the heap
\* and puts nothing back.  No test fails for it, and the heap survives: that
\* block stays in use, so neither the search nor the coalescing ever reads its
\* size, the other blocks still tile the rest of the heap, and at the end the
\* suite has given back all it took.
SuiteSurvives ==
  /\ failures = 0
  /\ heap_start # 0 /\ Overwritten =>
       ~ heap[HeapStart].is_free /\ heap[HeapStart].next = HeapStart + Hdr + 16
  /\ \A a \in DOMAIN heap :
       (a = HeapStart /\ Overwritten)
       \/ EndOf(a) = IF heap[a].next = 0 THEN HeapEnd ELSE heap[a].next
  /\ step > Len(Script) => DOMAIN live = {ptr["k_b"], ptr["k_c"]}
=============================================================================
