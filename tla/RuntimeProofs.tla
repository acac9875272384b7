---------------------------- MODULE RuntimeProofs ----------------------------
(***************************************************************************)
(* Proofs about Runtime: whichever client uses the library layer, its      *)
(* console, memory functions and log lines keep their invariants.  The     *)
(* invariants themselves, and the steps that keep them, are in             *)
(* LibraryProofs; here each client is shown to make only steps of that     *)
(* kind.                                                                   *)
(***************************************************************************)
EXTENDS Runtime, LibraryProofs

\* The leaves that name no prover are left to the SMT solver.
USE SMTT(30)

-----------------------------------------------------------------------------
(* The self-tests                                                          *)

\* The tests are at the statement whose call is running.
TestsInv ==
  /\ fn # "none" => Now.op = fn
  /\ pc = "kmalloc" => Now.op \in {"kmalloc", "kmalloc_all"}
  /\ pc = "kfree" => Now.op \in {"kfree", "kfree_all"}
  /\ pc \in {"idle", "kmalloc", "kfree"}

\* A loop of a memory function stays in that function until it returns.
LEMMA LoopGoesOn ==
  ASSUME MemLoop, fn' # "none"
  PROVE  fn' = fn
BY Zenon DEF MemLoop, CopyUp, CopyDown, Fill, CopyEnd, StringCopy, Measure, MemReturn, memArgs

\* The calls that the tests make keep to the contracts.
LEMMA TestsMemory ==
  ASSUME MemInv, MemoryCall
  PROVE  MemInv' /\ fn = "none" /\ fn' = Now.op /\ UNCHANGED <<step, pc>>
<1>1. step \in DOMAIN Script
  BY Zenon DEF MemoryCall, Doing, Running
<1>2. Now.n \in Nat
  BY <1>1, TestsAssumption DEF Now
<1>3. 5 <= MemTop /\ MemTop \in Nat
  BY TestsAssumption, MemoryAssumption DEF Dst, CopyLen, BufLen
<1>4. UNCHANGED <<step, pc>>
  BY Zenon DEF MemoryCall, heapVars, testVars
<1>5. ASSUME NEW f \in Copies \cup Measures, NEW d \in Addr, NEW s \in Nat, NEW n \in 0 .. MemTop,
             Allowed(f, d, s, n, mem), MemCall(f, d, s, n)
      PROVE  MemInv' /\ fn = "none" /\ fn' = f
  BY <1>5, Started DEF MemCall
<1>6. CASE Doing("memset") /\ MemCall("memset", Buf, Now.n, BufLen)
  <2>1. Buf \in Addr /\ BufLen \in 0 .. MemTop /\ "memset" \in Copies \cup Measures
    BY <1>3 DEF Buf, BufLen, Addr, Copies
  <2>2. Allowed("memset", Buf, Now.n, BufLen, mem)
    BY <1>3 DEF Allowed, Buf, BufLen
  <2>3. MemInv' /\ fn = "none" /\ fn' = "memset"
    BY <1>2, <1>5, <1>6, <2>1, <2>2
  <2> QED BY <1>4, <1>6, <2>3 DEF Doing
<1>7. CASE Doing("memcpy") /\ MemCall("memcpy", Dst, Src, CopyLen)
  <2>1. /\ Dst \in Addr /\ Src \in Nat /\ CopyLen \in 0 .. MemTop
        /\ "memcpy" \in Copies \cup Measures
    BY <1>3 DEF Dst, Src, BufLen, CopyLen, Addr, Copies
  <2>2. Allowed("memcpy", Dst, Src, CopyLen, mem)
    BY <1>3 DEF Allowed, Dst, Src, BufLen, CopyLen
  <2>3. MemInv' /\ fn = "none" /\ fn' = "memcpy"
    BY <1>5, <1>7, <2>1, <2>2
  <2> QED BY <1>4, <1>7, <2>3 DEF Doing
<1>8. CASE Doing("memcmp") /\ MemCall("memcmp", Src, Dst, CopyLen)
  <2>1. /\ Src \in Addr /\ Dst \in Nat /\ CopyLen \in 0 .. MemTop
        /\ "memcmp" \in Copies \cup Measures
    BY <1>3 DEF Dst, Src, BufLen, CopyLen, Addr, Measures
  <2>2. Allowed("memcmp", Src, Dst, CopyLen, mem)
    BY <1>3 DEF Allowed, Dst, Src, BufLen, CopyLen
  <2>3. MemInv' /\ fn = "none" /\ fn' = "memcmp"
    BY <1>5, <1>8, <2>1, <2>2
  <2> QED BY <1>4, <1>8, <2>3 DEF Doing
<1> QED BY <1>6, <1>7, <1>8 DEF MemoryCall

\* Between calls the tests write bytes.
LEMMA TestsAssign ==
  ASSUME MemInv, TestsInv, Assign
  PROVE  MemInv' /\ fn = "none" /\ fn' = "none" /\ pc = "idle" /\ pc' = "idle"
<1>1. /\ mem \in Contents /\ fn \in {"none"} \cup Copies \cup Measures /\ dest \in Addr
      /\ src \in Nat /\ len \in 0 .. MemTop /\ k \in 0 .. MemTop
  BY Zenon DEF MemInv, MemTypeOK
<1>2. /\ UNCHANGED <<fn, dest, src, len, k, pc>> /\ before' = mem'
      /\ Now.op = "arrays" \/ Now.op = "store"
  BY Zenon DEF Assign, heapVars, Doing
<1>3. fn = "none" /\ pc = "idle"
  BY <1>1, <1>2 DEF TestsInv, Copies, Measures
<1>4. mem' \in Contents
  <2>1. Byte \in Nat \ {0} /\ 2 < Byte
    BY TestsAssumption, MemoryAssumption DEF CopyLen
  <2>2. CASE Doing("arrays")
    <3>1. mem' = [x \in Addr |-> CASE x \in Src .. Src + CopyLen - 1 -> x - Src + 1
                                  [] x \in Dst .. Dst + CopyLen - 1 -> 0
                                  [] OTHER -> mem[x]]
      BY <2>2, Zenon DEF Assign, Doing
    <3>2. \A x \in Addr : mem'[x] \in 0 .. Byte - 1
      BY <1>1, <2>1, <3>1 DEF Contents, Src, Dst, BufLen, CopyLen
    <3> QED BY <3>1, <3>2 DEF Contents
  <2>3. CASE Doing("store")
    <3>1. mem' = [mem EXCEPT ![Dst] = Now.n % Byte] /\ step \in DOMAIN Script
      BY <2>3 DEF Assign, Doing, Running
    <3>2. Now.n \in Nat
      BY <3>1, TestsAssumption DEF Now
    <3>3. Now.n % Byte \in 0 .. Byte - 1
      BY <2>1, <3>2
    <3> QED BY <1>1, <3>1, <3>3, Zenon DEF Contents
  <2> QED BY <2>2, <2>3 DEF Assign
<1>5. MemInv'
  <2>1. /\ fn' = "none" /\ dest' \in Addr /\ src' \in Nat /\ len' \in 0 .. MemTop
        /\ k' \in 0 .. MemTop
    BY <1>1, <1>2, <1>3
  <2>2. MemTypeOK'
    BY <1>2, <1>4, <2>1 DEF MemTypeOK
  <2>3. LoopInv'
    BY <1>2, <2>1 DEF LoopInv, Measures
  <2> QED BY <2>1, <2>2, <2>3 DEF MemInv
<1> QED BY <1>2, <1>3, <1>5

\* Steps that leave a part alone.
LEMMA PrintingSame ==
  ASSUME OutInv, UNCHANGED <<vgaVars, logVars>>
  PROVE  OutInv' /\ (StackInv /\ Ink => StackInv' /\ Ink')
<1>1. output' = output /\ left' = left /\ current_color_byte' = current_color_byte
  BY Zenon DEF vgaVars, logVars
<1>2. OutInv'
  BY <1>1, Zenon DEF OutInv, Printing, Call, Top
<1>3. StackInv /\ Ink => StackInv' /\ Ink'
  BY <1>1, Zenon DEF StackInv, Ink, Below, Top
<1> QED BY <1>2, <1>3

LEMMA MemorySame ==
  ASSUME MemInv, UNCHANGED memVars
  PROVE  MemInv' /\ fn' = fn
BY MemInvInductive, Zenon DEF memVars, memArgs

LEMMA ConsoleSame ==
  ASSUME VgaInv, UNCHANGED vgaVars
  PROVE  VgaInv' /\ ConsoleStep
BY VgaStep, Zenon DEF ConsoleStep

\* A statement of the tests that is neither a call of the memory functions nor
\* one of the allocator runs between such calls.
LEMMA BetweenCalls ==
  ASSUME MemInv, TestsInv,
         Now.op \in {"kmalloc_init", "poke", "reset", "say", "check", "need", "need_quietly",
                     "results"}
  PROVE  fn = "none" /\ pc = "idle"
<1>1. fn \in {"none"} \cup Copies \cup Measures
  BY Zenon DEF MemInv, MemTypeOK
<1> QED BY <1>1, Zenon DEF TestsInv, Copies, Measures

\* The statements that use the allocator.
LEMMA TestsHeap ==
  ASSUME MemInv, TestsInv,
         HeapStarts \/ HeapCall \/ HeapLoop \/ KmallocDone \/ KfreeDone \/ HeapSkip
  PROVE  TestsInv' /\ UNCHANGED <<vgaVars, logVars, memVars>>
<1>1. fn \in {"none"} \cup Copies \cup Measures
  BY Zenon DEF MemInv, MemTypeOK
<1>2. ASSUME UNCHANGED memVars
      PROVE  fn' = fn
  BY <1>2, Zenon DEF memVars, memArgs
<1>3. ASSUME fn' = "none", pc' = "idle"
      PROVE  TestsInv'
  BY <1>3, Zenon DEF TestsInv
<1>4. CASE HeapStarts
  <2>1. Now.op = "kmalloc_init" /\ pc' = pc /\ UNCHANGED <<vgaVars, logVars, memVars>>
    BY <1>4, Zenon DEF HeapStarts, Doing, kmalloc_init
  <2>2. fn = "none" /\ pc = "idle"
    BY <2>1, BetweenCalls
  <2> QED BY <1>2, <1>3, <2>1, <2>2
<1>5. CASE HeapCall
  <2>1. UNCHANGED <<vgaVars, logVars, memVars>> /\ step' = step
    BY <1>5, Zenon DEF HeapCall, testVars
  <2>2. Now' = Now
    BY <2>1, Zenon DEF Now
  <2>3. \/ pc' = "kmalloc" /\ Now.op \in {"kmalloc", "kmalloc_all"}
        \/ pc' = "kfree" /\ Now.op \in {"kfree", "kfree_all"}
    BY <1>5, Zenon DEF HeapCall, Doing, KmallocCall, KfreeCall
  <2> QED BY <1>2, <2>1, <2>2, <2>3 DEF TestsInv
<1>6. CASE HeapLoop
  <2>1. UNCHANGED <<vgaVars, logVars, memVars>> /\ step' = step
    BY <1>6 DEF HeapLoop, testVars
  <2>2. Now' = Now
    BY <2>1, Zenon DEF Now
  <2>3. pc' = pc
    BY <1>6, Zenon DEF HeapLoop, KmallocNext, KfreeMerge, KfreeNext
  <2> QED BY <1>2, <2>1, <2>2, <2>3 DEF TestsInv
<1>7. CASE KmallocDone
  <2>1. UNCHANGED <<vgaVars, logVars, memVars>> /\ pc = "kmalloc" /\ pc' = "idle"
    BY <1>7, Zenon DEF KmallocDone, KmallocFound, KmallocNull
  <2>2. fn = "none"
    BY <1>1, <2>1 DEF TestsInv, Copies, Measures
  <2> QED BY <1>2, <1>3, <2>1, <2>2
<1>8. CASE KfreeDone
  <2>1. UNCHANGED <<vgaVars, logVars, memVars>> /\ pc = "kfree" /\ pc' = "idle"
    BY <1>8, Zenon DEF KfreeDone, KfreeReturn
  <2>2. fn = "none"
    BY <1>1, <2>1 DEF TestsInv, Copies, Measures
  <2> QED BY <1>2, <1>3, <2>1, <2>2
<1>9. CASE HeapSkip
  <2>1. UNCHANGED <<vgaVars, logVars, memVars>> /\ pc = "idle" /\ pc' = pc
    BY <1>9, Zenon DEF HeapSkip, heapVars
  <2>2. Now.op \in {"kfree", "kfree_all", "kmalloc_all"}
    BY <1>9, Zenon DEF HeapSkip, Doing
  <2>3. fn = "none"
    BY <1>1, <2>2 DEF TestsInv, Copies, Measures
  <2> QED BY <1>2, <1>3, <2>1, <2>3
<1> QED BY <1>4, <1>5, <1>6, <1>7, <1>8, <1>9

\* The messages of kernel_main and of the tests are their letters.
LEMMA Letters == {"m", "P", "F"} \subseteq Message
<1>1. {"m", "P", "F"} \subseteq AnyChar
  BY FormatChars, TestsAssumption DEF AnyChar
<1> QED BY <1>1 DEF Message

\* Every statement of the tests.
LEMMA TestsStep ==
  ASSUME MemInv, TestsInv, OutInv, StackInv, Ink, TestsNext
  PROVE  /\ MemInv' /\ TestsInv' /\ OutInv' /\ StackInv' /\ Ink'
         /\ UNCHANGED vgaVars /\ Right
<1>1. ASSUME UNCHANGED <<vgaVars, logVars>>
      PROVE  OutInv' /\ StackInv' /\ Ink' /\ UNCHANGED vgaVars
  BY <1>1, PrintingSame
<1>2. ASSUME UNCHANGED memVars
      PROVE  MemInv' /\ fn' = fn /\ Right
  BY <1>2, MemorySame DEF Right
<1>3. ASSUME fn' = "none", pc' = "idle"
      PROVE  TestsInv'
  BY <1>3, Zenon DEF TestsInv
<1>4. CASE HeapStarts \/ HeapCall \/ HeapLoop \/ KmallocDone \/ KfreeDone \/ HeapSkip
  BY <1>1, <1>2, <1>4, TestsHeap
<1>5. CASE MemoryCall
  <2>1. MemInv' /\ fn = "none" /\ fn' = Now.op /\ UNCHANGED <<step, pc>>
    BY <1>5, TestsMemory
  <2>2. Now' = Now
    BY <2>1 DEF Now
  <2>3. TestsInv'
    BY <2>1, <2>2 DEF TestsInv
  <2>4. UNCHANGED <<vgaVars, logVars>>
    BY <1>5 DEF MemoryCall
  <2> QED BY <1>1, <2>1, <2>3, <2>4 DEF Right
<1>6. CASE MemoryLoop
  <2>1. MemLoop /\ UNCHANGED <<vgaVars, logVars>> /\ pc' = pc
    BY <1>6, Zenon DEF MemoryLoop, heapVars
  <2>2. MemInv' /\ Right
    BY <2>1, MemInvInductive, LoopIsRight DEF MemNext
  <2>3. fn # "none" /\ fn \in Copies \cup Measures
    BY <2>1, Zenon DEF MemLoop, CopyUp, CopyDown, Fill, CopyEnd, StringCopy, Measure, Descending,
                Copies, Measures
  <2>4. TestsInv'
    <3>1. pc = "idle"
      BY <2>3, Zenon DEF TestsInv, Copies, Measures
    <3>2. CASE fn' = "none"
      BY <1>3, <2>1, <3>1, <3>2
    <3>3. CASE fn' # "none"
      <4>1. fn' = fn /\ step' = step
        BY <1>6, <2>1, <3>3, LoopGoesOn DEF MemoryLoop
      <4>2. Now' = Now
        BY <4>1, Zenon DEF Now
      <4> QED BY <2>1, <4>1, <4>2 DEF TestsInv
    <3> QED BY <3>2, <3>3
  <2> QED BY <1>1, <2>1, <2>2, <2>4
<1>7. CASE Assign
  <2>1. MemInv' /\ fn = "none" /\ fn' = "none" /\ pc = "idle" /\ pc' = "idle"
    BY <1>7, TestsAssign
  <2>2. UNCHANGED <<vgaVars, logVars>>
    BY <1>7 DEF Assign
  <2> QED BY <1>1, <1>3, <2>1, <2>2 DEF Right
<1>8. CASE Poke \/ Reset
  <2>1. UNCHANGED <<vgaVars, logVars>> /\ UNCHANGED memVars /\ pc' = pc
    BY <1>8 DEF Poke, Reset, heapVars
  <2>2. fn = "none" /\ pc = "idle"
    BY <1>8, BetweenCalls DEF Poke, Reset, Doing
  <2> QED BY <1>1, <1>2, <1>3, <2>1, <2>2
<1>9. CASE Verdict \/ Results
  <2>1. UNCHANGED memVars /\ pc' = pc
    BY <1>9 DEF Verdict, Results, heapVars
  <2>2. Now.op \in {"say", "check", "need", "need_quietly", "results"}
    BY <1>9 DEF Verdict, Results, Doing
  <2>3. fn = "none" /\ pc = "idle"
    BY <2>2, BetweenCalls
  <2>4. \/ UNCHANGED <<vgaVars, logVars>>
        \/ \E t \in Ticks, m \in {"m", "P", "F"} : LogCall("info", t, <<m>>)
    BY <1>9, Zenon DEF Verdict, Results
  <2>5. "info" \in DOMAIN Levels
    BY Zenon DEF Levels
  <2>6. OutInv' /\ StackInv' /\ Ink' /\ UNCHANGED vgaVars
    BY <1>1, <2>4, <2>5, Letters, LogCallInk, Zenon
  <2> QED BY <1>2, <1>3, <2>1, <2>3, <2>6
<1> QED BY <1>4, <1>5, <1>6, <1>7, <1>8, <1>9 DEF TestsNext

-----------------------------------------------------------------------------
(* The library layer, whichever client runs                                *)

\* The inductive invariant: the console and the memory functions keep theirs
\* for every client, what is printing makes calls of the console, and it
\* prints lines unless the client is a printf.
RunInv ==
  /\ VgaInv /\ MemInv
  /\ client \in {"printf", "log", "tests"} => OutInv
  /\ client \in {"log", "tests"} => StackInv /\ Ink
  /\ client = "tests" => TestsInv

\* The kernel starts with it, whichever client runs.
LEMMA RunInitially ==
  ASSUME Init
  PROVE  RunInv
<1>1. VgaInit /\ TestsInit
  BY Zenon DEF Init
<1>2. VgaInv
  BY <1>1, VgaInitially
<1>3. left = -1 /\ current_color_byte = White /\ current_color_byte \in 0 .. 15
  BY <1>1 DEF VgaInit, White
<1>4. MemInv
  <2>1. mem \in Contents /\ MemIdle
    <3>1. MemTop \in Nat \ {0} /\ Byte \in Nat \ {0}
      BY MemoryAssumption
    <3>2. \A b \in 0 .. Byte - 1 : [x \in Addr |-> b] \in Contents
      BY Zenon DEF Contents
    <3>3. 0 \in 0 .. Byte - 1
      BY <3>1
    <3> QED BY <3>2, <3>3, Zenon DEF Init, MemInit, Zeroed
  <2>2. fn = "none" /\ dest = 0 /\ src = 0 /\ len = 0 /\ k = 0 /\ before = mem
    BY <2>1 DEF MemIdle
  <2>3. MemTypeOK
    BY <2>1, <2>2, MemoryAssumption DEF MemTypeOK, Addr
  <2>4. LoopInv
    BY <2>2, Zenon DEF LoopInv, Measures
  <2> QED BY <2>2, <2>3, <2>4 DEF MemInv
<1>5. ASSUME output = << >>
      PROVE  OutInv /\ StackInv /\ Ink
  <2>1. output \in Seq(Frame) /\ Len(output) = 0
    BY <1>5
  <2>2. OutInv
    BY <1>3, <2>1 DEF OutInv
  <2>3. StackInv
    BY <1>3, <2>1 DEF StackInv
  <2> QED BY <1>3, <1>5, <2>2, <2>3, Zenon DEF Ink
<1>6. client # "printf" => output = << >>
  BY Zenon DEF Init
<1>7. client = "printf" => OutInv
  <2> SUFFICES ASSUME client = "printf"
               PROVE  OutInv
    BY Zenon
  <2>1. PICK f \in Formats :
          output = <<[calls |-> vprintf(f.fmt, f.args), shade |-> NoInk, cut |-> FALSE]>>
    BY Zenon DEF Init
  <2>2. f.fmt \in Seq(AnyChar) /\ f.args \in Seq(Arg) /\ FormatFits(f.fmt, f.args)
    BY RuntimeAssumption
  <2>3. vprintf(f.fmt, f.args) \in Seq(ConsoleCall)
    <3>1. Iterations(f.fmt, f.args)[0] = Start /\ 0 \in 0 .. Len(f.fmt) /\ MaxStr >= 2
      BY <2>2, LoopIs, LogAssumption
    <3>2. Iterations(f.fmt, f.args)[0] \in LoopState
      BY <3>1, StartState, Zenon
    <3> QED BY <2>2, <3>1, <3>2, LoopCalls, Zenon
  <2>4. PICK v \in Seq(ConsoleCall) : v = vprintf(f.fmt, f.args)
    BY <2>3, Zenon
  <2>5. output = <<[calls |-> v, shade |-> -1, cut |-> FALSE]>>
    BY <2>1, <2>4, Zenon DEF NoInk
  <2>6. output \in Seq(Frame)
    BY <2>5 DEF Frame
  <2> QED BY <1>3, <2>6 DEF OutInv
<1>8. TestsInv
  BY <1>1, <1>4, <1>5 DEF TestsInit, HeapInit, TestsInv, Init, MemIdle, MemInit
<1> QED BY <1>2, <1>4, <1>5, <1>6, <1>7, <1>8, Zenon DEF RunInv

\* Every step keeps it, is a step of the console, and returns what a memory
\* function was asked for.
LEMMA RunStep ==
  ASSUME RunInv, [Next]_vars
  PROVE  RunInv' /\ ConsoleStep /\ [Right]_memVars
<1>1. VgaInv /\ MemInv /\ VgaTypeOK
  BY Zenon DEF RunInv, VgaInv
<1>2. ASSUME UNCHANGED vgaVars
      PROVE  VgaInv' /\ ConsoleStep
  BY <1>1, <1>2, ConsoleSame
<1>3. ASSUME UNCHANGED memVars
      PROVE  MemInv' /\ [Right]_memVars
  BY <1>1, <1>3, MemorySame
<1>4. ASSUME UNCHANGED <<heapVars, testVars, memVars>>
      PROVE  TestsInv => TestsInv'
  <2>1. fn' = fn /\ pc' = pc /\ step' = step
    BY <1>4, Zenon DEF heapVars, testVars, memVars, memArgs
  <2> QED BY <2>1, Zenon DEF TestsInv, Now
<1>5. CASE Console
  <2>1. client = "console" /\ client' = client /\ VgaNext /\ UNCHANGED memVars
    BY <1>5 DEF Console
  <2>2. VgaInv' /\ ConsoleStep
    BY <1>1, <2>1, VgaStep, VgaSteps
  <2> QED BY <1>3, <2>1, <2>2 DEF RunInv
<1>6. CASE MemoryFunctions
  <2>1. client = "memory" /\ client' = client /\ MemNext /\ UNCHANGED vgaVars
    BY <1>6 DEF MemoryFunctions
  <2>2. MemInv' /\ Right
    <3>1. CASE fn = "none"
      BY <1>1, <2>1, <3>1, MemInvInductive DEF Right
    <3>2. CASE MemLoop
      BY <1>1, <2>1, <3>2, MemInvInductive, LoopIsRight
    <3> QED BY <2>1, <3>1, <3>2 DEF MemNext
  <2> QED BY <1>2, <2>1, <2>2 DEF RunInv
<1>7. CASE Output
  <2>1. /\ client \in {"printf", "log", "tests"} /\ client' = client /\ Emit
        /\ UNCHANGED memVars /\ UNCHANGED <<heapVars, testVars, memVars>>
    BY <1>7, Zenon DEF Output
  <2>2. OutInv' /\ ConsoleStep
    BY <1>1, <2>1, Emits DEF RunInv
  <2>3. VgaInv'
    BY <1>1, <2>2, VgaStep
  <2>4. client \in {"log", "tests"} => StackInv' /\ Ink'
    BY <1>1, <2>1, EmitsInk DEF RunInv
  <2> QED BY <1>3, <1>4, <2>1, <2>2, <2>3, <2>4, Zenon DEF RunInv
<1>8. CASE LogLines \/ Interrupted
  <2>1. client = "log" /\ client' = client /\ UNCHANGED memVars
    BY <1>8 DEF LogLines, Interrupted
  <2>2. OutInv /\ StackInv /\ Ink
    BY <2>1 DEF RunInv
  <2>3. OutInv' /\ StackInv' /\ Ink' /\ UNCHANGED vgaVars
    <3>1. CASE LogLines
      BY <2>2, <3>1, Letters, LogCallInk DEF LogLines
    <3>2. CASE Interrupted
      BY <2>2, <3>2, HandlersInk DEF Interrupted
    <3> QED BY <1>8, <3>1, <3>2
  <2> QED BY <1>2, <1>3, <2>1, <2>3 DEF RunInv
<1>9. CASE Tests
  <2>1. client = "tests" /\ client' = client /\ TestsNext
    BY <1>9 DEF Tests
  <2>2. /\ MemInv' /\ TestsInv' /\ OutInv' /\ StackInv' /\ Ink'
        /\ UNCHANGED vgaVars /\ Right
    BY <1>1, <2>1, TestsStep DEF RunInv
  <2> QED BY <1>2, <2>1, <2>2 DEF RunInv
<1>10. CASE UNCHANGED vars
  <2>1. /\ UNCHANGED vgaVars /\ UNCHANGED memVars /\ UNCHANGED <<vgaVars, logVars>>
        /\ UNCHANGED <<heapVars, testVars, memVars>> /\ client' = client
    BY <1>10 DEF vars
  <2>2. /\ OutInv => OutInv'
        /\ OutInv /\ StackInv /\ Ink => StackInv' /\ Ink'
    BY <2>1, PrintingSame
  <2> QED BY <1>2, <1>3, <1>4, <2>1, <2>2, Zenon DEF RunInv
<1>11. CASE Idle
  BY <1>10, <1>11 DEF Idle
<1> QED BY <1>5, <1>6, <1>7, <1>8, <1>9, <1>10, <1>11 DEF Next

\* The invariant implies InkOfLine: what the innermost function has still to do
\* shows in the number of its colour changes.
LEMMA InkIsRight ==
  ASSUME RunInv
  PROVE  InkOfLine
<1> SUFFICES ASSUME client \in {"log", "tests"}
             PROVE  InkOfLine
  BY Zenon DEF InkOfLine
<1>1. OutInv /\ StackInv /\ Ink
  BY Zenon DEF RunInv
<1>2. CASE output = << >>
  BY <1>1, <1>2, Zenon DEF Ink, InkOfLine
<1>3. CASE output # << >>
  <2>1. Top.calls \in Seq(ConsoleCall) /\ Len(output) \in 1 .. Len(output)
    BY <1>1, <1>3, TopIs
  <2>2. LineFrame(Top)
    BY <1>1, <2>1 DEF StackInv, Top
  <2>3. Top.shade \in 0 .. 15 /\ White \in 0 .. 15
    BY <2>2 DEF LineFrame, White
  <2>4. PICK v \in Seq(ConsoleCall) : v = Top.calls
    BY <2>1, Zenon
  <2>5. PICK N : N = {n \in DOMAIN v : v[n].op = "colour"}
    BY Zenon
  <2>6. ColoursLeft(Top) = N
    BY <2>4, <2>5, Zenon DEF ColoursLeft
  <2>7. /\ Quiet(v) => N = {}
        /\ One(v, White) => N # {} /\ \E n \in DOMAIN v : N = {n}
        /\ Two(v, Top.shade, White) => N # {} /\ ~ \E n \in DOMAIN v : N = {n}
    <3> HIDE DEF Top
    <3> QED BY <2>3, <2>5, HowMany, Zenon
  <2>8. \/ /\ N = {} /\ current_color_byte = White
        \/ /\ N # {} /\ \E n \in DOMAIN Top.calls : N = {n}
           /\ current_color_byte = Top.shade \/ (Top.cut /\ current_color_byte = White)
        \/ /\ N # {} /\ ~ \E n \in DOMAIN Top.calls : N = {n}
           /\ current_color_byte = White \/ Below
    BY <1>1, <1>3, <2>4, <2>7, Zenon DEF Ink
  <2>9. Below => \E m \in 1 .. Len(output) - 1 :
                   /\ \E n \in DOMAIN output[m].calls : ColoursLeft(output[m]) = {n}
                   /\ current_color_byte = output[m].shade
    <3> SUFFICES ASSUME NEW m \in 1 .. Len(output) - 1, One(output[m].calls, White)
                 PROVE  \E n \in DOMAIN output[m].calls : ColoursLeft(output[m]) = {n}
      BY Zenon DEF Below
    <3>1. output[m] \in Frame
      BY <1>1 DEF OutInv
    <3>2. PICK w \in Seq(ConsoleCall) : w = output[m].calls
      BY <3>1, Zenon DEF Frame
    <3>3. \E n \in DOMAIN w : {j \in DOMAIN w : w[j].op = "colour"} = {n}
      BY <2>3, <3>2, HowMany, Zenon
    <3> QED BY <3>2, <3>3, Zenon DEF ColoursLeft
  <2> QED BY <1>3, <2>6, <2>8, <2>9, Zenon DEF InkOfLine
<1> QED BY <1>2, <1>3

\* The library layer keeps its invariant for every client: the console's
\* cursor and colour stay in range, a memory function has done the part of
\* its work that its loop has passed, and whatever a printf or a log call has
\* still to write is a sequence of console calls.
THEOREM ClientsKeepTrack == Spec => []RunInv
<1>1. Init => RunInv
  BY RunInitially, Zenon
<1>2. RunInv /\ [Next]_vars => RunInv'
  BY RunStep, Zenon
<1> QED BY <1>1, <1>2, PTL DEF Spec

\* log.c:22: for every set of keys, ticks and lines, and however deep handlers
\* print inside each other, no message is in the colour of another line and every
\* line ends in white.  The front of a handler's line is left out: it is white or
\* in the colour of a line below it that is in its message.
THEOREM MessagesKeepTheirColour == Spec => []InkOfLine
<1>1. RunInv => InkOfLine
  BY InkIsRight, Zenon
<1> QED BY <1>1, ClientsKeepTrack, PTL

\* vga.c:205: between console calls the hardware cursor is where the next
\* character goes, whoever prints: a caller of the console, printf, log lines,
\* handlers that print in the middle of one, and the self-tests.
THEOREM CursorIsShownToAll == Spec => []CursorShown
<1>1. RunInv => CursorShown
  BY Zenon DEF RunInv, VgaInv
<1> QED BY <1>1, ClientsKeepTrack, PTL

\* vga.c:90: with characters of seven bits, the only ones whose colour
\* vga_entry keeps, the screen is the page of the abstract terminal whatever
\* the clients print, printf's digits and escapes and interrupted log lines
\* included.
THEOREM OutputIsTyped ==
  ASSUME Eight = {}
  PROVE  Spec => ImplementsTerminal
<1>1. Init => Abstract!Init
  BY TerminalInitially, Zenon DEF Init
<1>2. RunInv /\ [Next]_vars => [Abstract!Next]_(Abstract!vars)
  BY RunStep, TerminalStep DEF RunInv
<1> QED BY <1>1, <1>2, ClientsKeepTrack, PTL DEF Spec, ImplementsTerminal, Abstract!Spec

\* memory.c:20: a memory function that returns has done what its caller asked,
\* for every caller: the clients that keep to the contracts, and the
\* self-tests, whose every call is shown to keep to them.
THEOREM ClientsGetWhatTheyAsk == Spec => CallsDoAsAsked
<1>1. RunInv /\ [Next]_vars => [Right]_memVars
  BY RunStep, Zenon
<1>2. Spec => [][Right]_memVars
  BY <1>1, ClientsKeepTrack, PTL DEF Spec
<1> QED BY <1>2, Zenon DEF CallsDoAsAsked, Right
====
