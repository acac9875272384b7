------------------------------ MODULE Kmalloc ------------------------------
(***************************************************************************)
(* The kernel heap (kmalloc.c): a singly linked list of blocks, each a     *)
(* header followed by its payload, searched first-fit, split on            *)
(* allocation and coalesced on every free.                                 *)
(*                                                                         *)
(* The two loops of the code, the search of kmalloc and the coalescing     *)
(* pass of kfree, are one step per iteration, so every intermediate list   *)
(* is a state.  Nothing runs beside them: no interrupt handler allocates.  *)
(* Callers obey the contract the code relies on without checking it: they  *)
(* free NULL or a pointer they hold.                                       *)
(***************************************************************************)
EXTENDS Integers, Pointers

CONSTANTS
  HeapStart,  \* start_addr of kmalloc_init
  HeapSize,   \* size of kmalloc_init, in bytes
  Hdr,        \* sizeof(block_header_t)
  Word,       \* number of values of uint32_t
  Sizes       \* the sizes callers ask for

HeapEnd == HeapStart + HeapSize

ASSUME HeapAssumption ==
  /\ Hdr \in Nat \ {0}
  /\ HeapStart \in Nat \ {0}
  /\ HeapSize \in Nat /\ HeapSize >= Hdr
  /\ Word \in Nat /\ HeapEnd <= Word
  /\ Sizes \subseteq 0 .. Word - 1

VARIABLES
  heap_start, \* NULL until kmalloc_init
  heap,       \* header address -> header, for the blocks of the list
  pc,         \* "idle", or the function being executed
  current,    \* its cursor in the list
  size,       \* the argument of kmalloc
  live        \* pointer -> size asked for: what kmalloc returned to callers
              \* that have not freed it yet

heapVars == <<heap_start, heap, pc, current, size, live>>

HeapInit ==
  /\ heap_start = NULL
  /\ heap = [a \in {} |-> NULL]
  /\ pc = "idle"
  /\ current = NULL
  /\ size = 0
  /\ live = [p \in {} |-> 0]

-----------------------------------------------------------------------------
\* The block at a: its payload pointer and the first address after it.
Payload(a) == a + Hdr

EndOf(a) == a + Hdr + heap[a].size

\* kmalloc_init, which kernel_main calls once.
kmalloc_init ==
  /\ pc = "idle" /\ heap_start = NULL
  /\ heap_start' = HeapStart
  /\ heap' = [a \in {HeapStart} |->
                [size |-> HeapSize - Hdr, is_free |-> TRUE, next |-> NULL]]
  /\ UNCHANGED <<pc, current, size, live>>

-----------------------------------------------------------------------------
\* kmalloc.

FitsReused(a) == heap[a].size >= size
FitsIfSplit(a) == heap[a].is_free /\ heap[a].size > (size + Hdr) % Word

Fits(a) == heap[a].is_free /\ heap[a].size >= size

Splits(a) == heap[a].size > (size + Hdr) % Word

\* The list after the block at a is allocated whole.
Taken(a) == [heap EXCEPT ![a].is_free = FALSE]

\* The list after the block at a is cut down to size bytes and allocated,
\* the rest of it being a free block of its own.
Split(a) ==
  LET new_block == a + Hdr + size IN
  [b \in DOMAIN heap \cup {new_block} |->
     IF b = new_block
       THEN [size |-> heap[a].size - size - Hdr, is_free |-> TRUE,
             next |-> heap[a].next]
     ELSE IF b = a
       THEN [size |-> size, is_free |-> FALSE, next |-> new_block]
     ELSE heap[b]]

KmallocCall(n) ==
  /\ pc = "idle"
  /\ pc' = "kmalloc"
  /\ size' = n
  /\ current' = heap_start
  /\ UNCHANGED <<heap_start, heap, live>>

KmallocNextWraps ==
  /\ pc = "kmalloc" /\ current # NULL
  /\ ~ Fits(current)
  /\ current' = IF heap[current].next = NULL THEN heap_start ELSE heap[current].next
  /\ UNCHANGED <<heap_start, heap, pc, size, live>>

KmallocNext ==
  /\ pc = "kmalloc" /\ current # NULL
  /\ ~ Fits(current)
  /\ current' = heap[current].next
  /\ UNCHANGED <<heap_start, heap, pc, size, live>>

KmallocFound ==
  /\ pc = "kmalloc" /\ current # NULL
  /\ Fits(current)
  /\ heap' = IF Splits(current) THEN Split(current) ELSE Taken(current)
  /\ live' = [p \in DOMAIN live \cup {Payload(current)} |->
                IF p = Payload(current) THEN size ELSE live[p]]
  /\ pc' = "idle" /\ current' = NULL /\ size' = 0
  /\ UNCHANGED heap_start

KmallocNull ==
  /\ pc = "kmalloc" /\ current = NULL
  /\ pc' = "idle" /\ size' = 0
  /\ UNCHANGED <<heap_start, heap, current, live>>

-----------------------------------------------------------------------------
\* kfree.

KfreeCallFromBlock(p) ==
  /\ pc = "idle"
  /\ pc' = "kfree"
  /\ heap' = [heap EXCEPT ![p - Hdr].is_free = TRUE]
  /\ live' = [q \in DOMAIN live \ {p} |-> live[q]]
  /\ current' = p - Hdr
  /\ UNCHANGED <<heap_start, size>>

\* kfree on a pointer the caller holds: mark the block, start coalescing.
KfreeCall(p) ==
  /\ pc = "idle"
  /\ pc' = "kfree"
  /\ heap' = [heap EXCEPT ![p - Hdr].is_free = TRUE]
  /\ live' = [q \in DOMAIN live \ {p} |-> live[q]]
  /\ current' = heap_start
  /\ UNCHANGED <<heap_start, size>>

\* kfree(NULL) returns at once.
KfreeNull ==
  /\ pc = "idle"
  /\ UNCHANGED heapVars

MergesBlindly(a) == heap[a].is_free

Merges(a) == heap[a].is_free /\ heap[heap[a].next].is_free

MergedNoHeader(a) ==
  [b \in DOMAIN heap \ {heap[a].next} |->
     IF b = a
       THEN [heap[a] EXCEPT !.size = @ + heap[heap[a].next].size,
                            !.next = heap[heap[a].next].next]
     ELSE heap[b]]

\* The list after the block at a absorbs its successor.
Merged(a) ==
  [b \in DOMAIN heap \ {heap[a].next} |->
     IF b = a
       THEN [size    |-> heap[a].size + Hdr + heap[heap[a].next].size,
             is_free |-> heap[a].is_free,
             next    |-> heap[heap[a].next].next]
     ELSE heap[b]]

KfreeMergeOnce ==
  /\ pc = "kfree" /\ heap[current].next # NULL
  /\ Merges(current)
  /\ heap' = Merged(current)
  /\ pc' = "idle" /\ current' = NULL
  /\ UNCHANGED <<heap_start, size, live>>

\* One iteration of the coalescing loop.  A block that absorbed its
\* successor is looked at again: the next one may be free too.
KfreeMerge ==
  /\ pc = "kfree" /\ heap[current].next # NULL
  /\ Merges(current)
  /\ heap' = Merged(current)
  /\ UNCHANGED <<heap_start, pc, current, size, live>>

KfreeNext ==
  /\ pc = "kfree" /\ heap[current].next # NULL
  /\ ~ Merges(current)
  /\ current' = heap[current].next
  /\ UNCHANGED <<heap_start, heap, pc, size, live>>

KfreeReturn ==
  /\ pc = "kfree" /\ heap[current].next = NULL
  /\ pc' = "idle" /\ current' = NULL
  /\ UNCHANGED <<heap_start, heap, size, live>>

-----------------------------------------------------------------------------
HeapStep ==
  \/ KmallocNext \/ KmallocFound \/ KmallocNull
  \/ KfreeMerge \/ KfreeNext \/ KfreeReturn

HeapNext ==
  \/ kmalloc_init
  \/ \E n \in Sizes : KmallocCall(n)
  \/ \E p \in DOMAIN live : KfreeCall(p)
  \/ KfreeNull
  \/ HeapStep

HeapSpec == HeapInit /\ [][HeapNext]_heapVars

\* A call that has started keeps executing: nothing preempts it for good.
HeapFairSpec == HeapSpec /\ WF_heapVars(HeapStep)
-----------------------------------------------------------------------------
(* Properties                                                              *)

\* Every variable holds a value of its type, and the cursor of a running
\* loop is a header of the list (or NULL past its end): kmalloc and kfree
\* never follow a dangling next pointer.
HeapTypeOK ==
  /\ heap_start \in {NULL, HeapStart}
  /\ DOMAIN heap \subseteq HeapStart .. HeapEnd - Hdr
  /\ heap \in [DOMAIN heap -> [size : 0 .. HeapSize, is_free : BOOLEAN,
                                next : DOMAIN heap \cup {NULL}]]
  /\ pc \in {"idle", "kmalloc", "kfree"}
  /\ current \in DOMAIN heap \cup {NULL}
  /\ pc = "kfree" => current # NULL
  /\ size \in 0 .. Word - 1
  /\ DOMAIN live \subseteq HeapStart .. HeapEnd
  /\ live \in [DOMAIN live -> 0 .. Word - 1]

\* Splitting and coalescing keep the list an exact tiling of the heap, in
\* address order: a block ends where its successor starts, the last one ends
\* with the heap, no two overlap, and no byte is lost between them.
HeapTiled ==
  /\ \A a \in DOMAIN heap :
       EndOf(a) = IF heap[a].next = NULL THEN HeapEnd ELSE heap[a].next
  /\ \A a, b \in DOMAIN heap : a < b => EndOf(a) <= b
  /\ heap_start # NULL =>
       \A x \in HeapStart .. HeapEnd - 1 :
          \E a \in DOMAIN heap : a <= x /\ x < EndOf(a)

\* The blocks marked in use are exactly the ones callers hold, and each is
\* as large as its caller asked: neither a split nor a merge takes bytes from
\* a pointer in use, and none is leaked.
LiveBlocks ==
  /\ DOMAIN live = {Payload(a) : a \in {b \in DOMAIN heap : ~ heap[b].is_free}}
  /\ \A p \in DOMAIN live : live[p] <= heap[p - Hdr].size

\* The payloads callers hold lie in the heap, do not overlap each other and
\* hold no header of the list: a caller that keeps to its size never damages
\* another caller's data or the list itself.
LiveDisjoint ==
  \A p \in DOMAIN live :
    /\ HeapStart <= p /\ p + live[p] <= HeapEnd
    /\ \A q \in DOMAIN live \ {p} : p + live[p] <= q \/ q + live[q] <= p
    /\ \A a \in DOMAIN heap : p + live[p] <= a \/ a + Hdr <= p

\* Between calls no two neighbouring blocks are both free: the single pass of
\* kfree coalesces completely, whatever the order of the frees.
FullyCoalesced ==
  pc # "kfree" =>
    \A a \in DOMAIN heap :
      heap[a].is_free /\ heap[a].next # NULL => ~ heap[heap[a].next].is_free

\* Once everything allocated has been freed the heap is one free block of its
\* original size again: no sequence of calls leaks or fragments for good.
AllFreedIsWhole ==
  pc = "idle" /\ heap_start # NULL /\ DOMAIN live = {} =>
    heap = [a \in {HeapStart} |->
              [size |-> HeapSize - Hdr, is_free |-> TRUE, next |-> NULL]]

\* Is the block of live pointer p clear of the n bytes from x on?
ClearOf(p, x, n) == EndOf(p - Hdr) <= x \/ x + n <= p - Hdr

\* kmalloc returns NULL only when the heap really has no room: wherever one
\* puts a header and the bytes asked for, it meets a block in use.
NullMeansNoRoom ==
  [][KmallocNull /\ heap_start # NULL =>
       \A x \in HeapStart .. HeapEnd - Hdr - size :
         \E p \in DOMAIN live : ~ ClearOf(p, x, Hdr + size)]_heapVars

\* Both loops end: the list has no cycle and coalescing never retries forever.
EveryCallReturns == pc # "idle" ~> pc = "idle"

\* kmalloc and kfree implement the abstract allocator.
AbstractHeap == INSTANCE Allocator
              WITH Lo <- HeapStart, Hi <- HeapEnd, Requests <- Sizes

ImplementsAllocator == AbstractHeap!Spec
=============================================================================
