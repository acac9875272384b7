--------------------------- MODULE ProcessProofs ---------------------------
(***************************************************************************)
(* Proofs about the kernel heap and the processes whose control blocks it  *)
(* holds.                                                                  *)
(*                                                                         *)
(* The heap, for every heap, header size and set of request sizes that     *)
(* HeapAssumption admits.                                                  *)
(*                                                                         *)
(* The scheduler, for any number of processes: the ready list is one ring, *)
(* one process runs, and nobody waits longer than the ring is long.  The   *)
(* invariant numbers the ring from its head: node j leads to node j + 1    *)
(* and the last to the first.                                              *)
(***************************************************************************)
EXTENDS Kmalloc, Scheduler, FiniteSetTheorems, TLAPS

\* The leaves that name no prover are left to the SMT solver.
USE SMTT(30)

-----------------------------------------------------------------------------
(* The heap                                                                *)

\* kmalloc_init put the first block where the heap starts.
HeapStarted ==
  /\ heap_start = NULL => DOMAIN heap = {}
  /\ heap_start # NULL => HeapStart \in DOMAIN heap

\* The coalescing loop leaves no two free neighbours behind its cursor.
CoalescedSoFar ==
  pc = "kfree" =>
    \A a \in DOMAIN heap :
      a < current /\ heap[a].is_free /\ heap[a].next # NULL
        => ~ heap[heap[a].next].is_free

\* The search is for a size some caller asked for, and has passed over no
\* block that fits.
SearchedSoFar ==
  pc = "kmalloc" =>
    /\ size \in Sizes
    /\ \A a \in DOMAIN heap : current = NULL \/ a < current => ~ Fits(a)

HeapInv ==
  /\ HeapTypeOK
  /\ HeapStarted
  /\ HeapTiled
  /\ LiveBlocks
  /\ FullyCoalesced
  /\ CoalescedSoFar
  /\ SearchedSoFar

-----------------------------------------------------------------------------
\* Marking a block free or in use, as kmalloc and kfree do, keeps every header
\* a header.
LEMMA MarkedHeaders ==
  ASSUME NEW D, NEW S, NEW N, NEW h \in [D -> [size : S, is_free : BOOLEAN, next : N]],
         NEW a \in D, NEW v \in BOOLEAN
  PROVE  [h EXCEPT ![a].is_free = v] \in [D -> [size : S, is_free : BOOLEAN, next : N]]
<1>1. h[a] \in [size : S, is_free : BOOLEAN, next : N]
  BY Zenon
<1>2. [h[a] EXCEPT !.is_free = v] \in [size : S, is_free : BOOLEAN, next : N]
  BY <1>1, Zenon
<1>3. [h EXCEPT ![a].is_free = v] = [h EXCEPT ![a] = [h[a] EXCEPT !.is_free = v]]
  BY Zenon
<1> QED
  BY <1>2, <1>3, Zenon

-----------------------------------------------------------------------------
\* The initial state, in which kmalloc_init has not run, satisfies HeapInv.
LEMMA InitHeapInv == HeapInit => HeapInv
  BY HeapAssumption
     DEF HeapInit, HeapInv, HeapTypeOK, HeapStarted, HeapTiled, LiveBlocks, FullyCoalesced,
         CoalescedSoFar, SearchedSoFar, HeapEnd, NULL, Payload, EndOf

\* kmalloc_init makes a list of one block that covers the heap.
LEMMA kmalloc_initHeapInv == HeapInv /\ kmalloc_init => HeapInv'
<1> SUFFICES ASSUME HeapInv, kmalloc_init
             PROVE  HeapInv'
  BY Zenon
<1> USE HeapAssumption DEF NULL, HeapEnd
<1>1. /\ DOMAIN heap' = {HeapStart}
      /\ heap'[HeapStart] = [size |-> HeapSize - Hdr, is_free |-> TRUE, next |-> NULL]
      /\ heap_start' = HeapStart
      /\ pc' = "idle"
      /\ current' = current /\ size' = size /\ live' = live
  BY Zenon DEF kmalloc_init
<1>2. DOMAIN heap = {} /\ current = NULL /\ DOMAIN live = {}
  BY Zenon DEF HeapInv, HeapStarted, HeapTypeOK, LiveBlocks, kmalloc_init
<1>3. HeapTypeOK'
  <2>1. heap' \in [DOMAIN heap' -> [size : 0 .. HeapSize, is_free : BOOLEAN,
                                    next : DOMAIN heap' \cup {NULL}]]
    BY DEF kmalloc_init
  <2> QED
    BY <1>1, <1>2, <2>1 DEF HeapInv, HeapTypeOK
<1>4. HeapStarted'
  BY <1>1, Zenon DEF HeapStarted
<1>5. HeapTiled'
  BY <1>1 DEF HeapTiled, EndOf
<1>6. LiveBlocks'
  BY <1>1, <1>2 DEF LiveBlocks
<1>7. FullyCoalesced' /\ CoalescedSoFar' /\ SearchedSoFar'
  BY <1>1 DEF FullyCoalesced, CoalescedSoFar, SearchedSoFar
<1> QED
  BY <1>3, <1>4, <1>5, <1>6, <1>7, Zenon DEF HeapInv

\* Entering kmalloc starts the search at the head of the list.
LEMMA KmallocCallHeapInv ==
  ASSUME HeapInv, NEW n \in Sizes, KmallocCall(n)
  PROVE  HeapInv'
<1> USE HeapAssumption DEF NULL, HeapEnd
<1>1. /\ heap' = heap /\ live' = live /\ heap_start' = heap_start
      /\ pc' = "kmalloc" /\ size' = n /\ current' = heap_start
  BY Zenon DEF KmallocCall
<1>2. HeapTypeOK'
  BY <1>1, Zenon DEF HeapInv, HeapTypeOK, HeapStarted
<1>3. HeapStarted' /\ HeapTiled' /\ LiveBlocks'
  BY <1>1, Zenon DEF HeapInv, HeapStarted, HeapTiled, LiveBlocks, EndOf, Payload
<1>4. FullyCoalesced' /\ CoalescedSoFar'
  BY <1>1, Zenon DEF HeapInv, FullyCoalesced, CoalescedSoFar, KmallocCall
<1>5. SearchedSoFar'
  BY <1>1 DEF HeapInv, SearchedSoFar, HeapTypeOK, HeapStarted
<1> QED
  BY <1>2, <1>3, <1>4, <1>5, Zenon DEF HeapInv

\* A block that does not fit is passed over.
LEMMA KmallocNextHeapInv == HeapInv /\ KmallocNext => HeapInv'
<1> SUFFICES ASSUME HeapInv, KmallocNext
             PROVE  HeapInv'
  BY Zenon
<1> USE HeapAssumption DEF NULL, HeapEnd
<1>1. /\ heap' = heap /\ live' = live /\ heap_start' = heap_start
      /\ pc = "kmalloc" /\ pc' = pc /\ size' = size
      /\ current \in DOMAIN heap /\ current' = heap[current].next
      /\ ~ Fits(current)
  BY Zenon DEF KmallocNext, HeapInv, HeapTypeOK
<1>2. HeapTypeOK'
  BY <1>1, Zenon DEF HeapInv, HeapTypeOK
<1>3. HeapStarted' /\ HeapTiled' /\ LiveBlocks'
  BY <1>1, Zenon DEF HeapInv, HeapStarted, HeapTiled, LiveBlocks, EndOf, Payload
<1>4. FullyCoalesced' /\ CoalescedSoFar'
  BY <1>1, Zenon DEF HeapInv, FullyCoalesced, CoalescedSoFar
<1>5. SearchedSoFar'
  <2> SUFFICES ASSUME NEW a \in DOMAIN heap, current' = NULL \/ a < current'
               PROVE  ~ Fits(a)
    BY <1>1, Zenon DEF HeapInv, SearchedSoFar, Fits
  <2>1. a <= current
    BY <1>1 DEF HeapInv, HeapTiled, EndOf, HeapTypeOK
  <2> QED
    BY <1>1, <2>1 DEF HeapInv, SearchedSoFar, HeapTypeOK
<1> QED
  BY <1>2, <1>3, <1>4, <1>5, Zenon DEF HeapInv

\* When the search ends with NULL the list is as it was.
LEMMA KmallocNullHeapInv == HeapInv /\ KmallocNull => HeapInv'
<1> SUFFICES ASSUME HeapInv, KmallocNull
             PROVE  HeapInv'
  BY Zenon
<1> USE HeapAssumption DEF NULL, HeapEnd
<1>1. /\ heap' = heap /\ live' = live /\ heap_start' = heap_start
      /\ pc = "kmalloc" /\ pc' = "idle" /\ size' = 0 /\ current' = current
  BY Zenon DEF KmallocNull
<1>2. HeapTypeOK'
  BY <1>1 DEF HeapInv, HeapTypeOK
<1>3. HeapStarted' /\ HeapTiled' /\ LiveBlocks'
  BY <1>1, Zenon DEF HeapInv, HeapStarted, HeapTiled, LiveBlocks, EndOf, Payload
<1>4. FullyCoalesced' /\ CoalescedSoFar' /\ SearchedSoFar'
  BY <1>1, Zenon DEF HeapInv, FullyCoalesced, CoalescedSoFar, SearchedSoFar
<1> QED
  BY <1>2, <1>3, <1>4, Zenon DEF HeapInv

\* Allocating the whole block changes one flag and the set of live pointers.
LEMMA TakenHeapInv ==
  ASSUME HeapInv, KmallocFound, ~ Splits(current)
  PROVE  HeapInv'
<1> USE HeapAssumption DEF NULL, HeapEnd
<1>1. /\ heap_start' = heap_start /\ pc = "kmalloc" /\ pc' = "idle"
      /\ size' = 0 /\ current' = NULL /\ current \in DOMAIN heap
      /\ heap[current].is_free /\ heap[current].size >= size
      /\ live' = [p \in DOMAIN live \cup {Payload(current)} |->
                    IF p = Payload(current) THEN size ELSE live[p]]
  BY Zenon DEF KmallocFound, HeapInv, HeapTypeOK, Fits
<1>2. /\ DOMAIN heap' = DOMAIN heap
      /\ heap' = [heap EXCEPT ![current].is_free = FALSE]
      /\ \A a \in DOMAIN heap : heap'[a].size = heap[a].size /\ heap'[a].next = heap[a].next
      /\ \A a \in DOMAIN heap : heap'[a].is_free = (heap[a].is_free /\ a # current)
  BY <1>1, Zenon DEF KmallocFound, Taken, HeapInv, HeapTypeOK
<1>3. HeapTypeOK'
  <2>1. heap' \in [DOMAIN heap' -> [size : 0 .. HeapSize, is_free : BOOLEAN,
                                    next : DOMAIN heap' \cup {NULL}]]
    <3>1. heap \in [DOMAIN heap -> [size : 0 .. HeapSize, is_free : BOOLEAN,
                                    next : DOMAIN heap \cup {NULL}]]
      BY Zenon DEF HeapInv, HeapTypeOK
    <3>2. [heap EXCEPT ![current].is_free = FALSE]
            \in [DOMAIN heap -> [size : 0 .. HeapSize, is_free : BOOLEAN,
                                 next : DOMAIN heap \cup {NULL}]]
      BY <1>1, <3>1, MarkedHeaders, Zenon
    <3> QED
      BY <1>2, <3>2, Zenon
  <2>2. live' \in [DOMAIN live' -> 0 .. Word - 1] /\ DOMAIN live' \subseteq HeapStart .. HeapEnd
    BY <1>1 DEF HeapInv, HeapTypeOK, Payload
  <2> QED
    BY <1>1, <1>2, <2>1, <2>2 DEF HeapInv, HeapTypeOK
<1>4. HeapStarted' /\ HeapTiled'
  BY <1>1, <1>2 DEF HeapInv, HeapStarted, HeapTiled, EndOf
<1>5. LiveBlocks'
  <2>1. DOMAIN live' = {Payload(a) : a \in {b \in DOMAIN heap' : ~ heap'[b].is_free}}
    BY <1>1, <1>2 DEF HeapInv, LiveBlocks, Payload, HeapTypeOK
  <2>2. \A p \in DOMAIN live' : live'[p] <= heap'[p - Hdr].size
    BY <1>1, <1>2 DEF HeapInv, LiveBlocks, Payload, HeapTypeOK
  <2> QED
    BY <2>1, <2>2, Zenon DEF LiveBlocks, Payload
<1>6. FullyCoalesced' /\ CoalescedSoFar' /\ SearchedSoFar'
  BY <1>1, <1>2, Zenon DEF HeapInv, FullyCoalesced, CoalescedSoFar, SearchedSoFar, HeapTypeOK
<1> QED
  BY <1>3, <1>4, <1>5, <1>6, Zenon DEF HeapInv

\* Splitting the block found: the payload asked for, then a new free block
\* with what is left.
LEMMA SplitHeapInv ==
  ASSUME HeapInv, KmallocFound, Splits(current)
  PROVE  HeapInv'
<1> USE HeapAssumption DEF NULL, HeapEnd
<1> DEFINE nb == current + Hdr + size
<1>1. /\ heap_start' = heap_start /\ pc = "kmalloc" /\ pc' = "idle"
      /\ size' = 0 /\ current' = NULL /\ current \in DOMAIN heap
      /\ heap[current].is_free /\ heap[current].size >= size
      /\ live' = [p \in DOMAIN live \cup {Payload(current)} |->
                    IF p = Payload(current) THEN size ELSE live[p]]
  BY Zenon DEF KmallocFound, HeapInv, HeapTypeOK, Fits
<1>2. /\ current \in Nat /\ size \in Nat /\ heap[current].size \in Nat
      /\ current >= HeapStart
      /\ EndOf(current) <= HeapEnd
  BY <1>1 DEF HeapInv, HeapTypeOK, HeapTiled, EndOf
<1>3. size + Hdr < Word
  BY <1>1, <1>2 DEF EndOf
<1>4. (size + Hdr) % Word = size + Hdr
  BY <1>2, <1>3
<1>5. heap[current].size > size + Hdr
  BY <1>4, Zenon DEF Splits
<1>6. current < nb /\ nb + Hdr < EndOf(current) /\ nb \notin DOMAIN heap
  <2>1. current < nb /\ nb + Hdr < EndOf(current)
    BY <1>2, <1>5 DEF EndOf
  <2>2. \A b \in DOMAIN heap : current < b => EndOf(current) <= b
    BY <1>1, Zenon DEF HeapInv, HeapTiled
  <2> QED
    BY <1>2, <2>1, <2>2 DEF EndOf
<1>7. /\ DOMAIN heap' = DOMAIN heap \cup {nb}
      /\ heap'[nb] = [size |-> heap[current].size - size - Hdr,
                      is_free |-> TRUE, next |-> heap[current].next]
      /\ heap'[current] = [size |-> size, is_free |-> FALSE, next |-> nb]
      /\ \A a \in DOMAIN heap \ {current} : heap'[a] = heap[a]
  BY <1>1, <1>2, <1>6, Zenon DEF KmallocFound, Split
<1>8. HeapTypeOK'
  <2>1. \A a \in DOMAIN heap : heap[a] \in [size : 0 .. HeapSize, is_free : BOOLEAN,
                                            next : DOMAIN heap \cup {NULL}]
    BY Zenon DEF HeapInv, HeapTypeOK
  <2>2. \A a \in DOMAIN heap' : heap'[a] \in [size : 0 .. HeapSize, is_free : BOOLEAN,
                                              next : DOMAIN heap' \cup {NULL}]
    <3> SUFFICES ASSUME NEW a \in DOMAIN heap'
                 PROVE  heap'[a] \in [size : 0 .. HeapSize, is_free : BOOLEAN,
                                      next : DOMAIN heap' \cup {NULL}]
      BY Zenon
    <3>1. CASE a = nb
      <4>1. /\ heap[current].size - size - Hdr \in 0 .. HeapSize
            /\ heap[current].next \in DOMAIN heap' \cup {NULL}
        BY <1>1, <1>2, <1>5, <1>7, <2>1
      <4>2. [size |-> heap[current].size - size - Hdr, is_free |-> TRUE,
             next |-> heap[current].next]
              \in [size : 0 .. HeapSize, is_free : BOOLEAN,
                   next : DOMAIN heap' \cup {NULL}]
        BY <4>1, Zenon
      <4> QED
        BY <1>7, <3>1, <4>2, Zenon
    <3>2. CASE a = current
      <4>1. size \in 0 .. HeapSize /\ nb \in DOMAIN heap'
        BY <1>1, <1>2, <1>7, <2>1
      <4>2. [size |-> size, is_free |-> FALSE, next |-> nb]
              \in [size : 0 .. HeapSize, is_free : BOOLEAN,
                   next : DOMAIN heap' \cup {NULL}]
        BY <4>1, Zenon
      <4> QED
        BY <1>7, <3>2, <4>2, Zenon
    <3>3. CASE a # nb /\ a # current
      <4>1. heap'[a] = heap[a] /\ a \in DOMAIN heap /\ DOMAIN heap \subseteq DOMAIN heap'
        BY <1>7, <3>3, Zenon
      <4> QED
        BY <2>1, <4>1, Zenon
    <3> QED
      BY <3>1, <3>2, <3>3, Zenon
  <2>3. heap' \in [DOMAIN heap' -> [size : 0 .. HeapSize, is_free : BOOLEAN,
                                    next : DOMAIN heap' \cup {NULL}]]
    BY <1>1, <2>2, Zenon DEF KmallocFound, Split
  <2>4. DOMAIN heap' \subseteq HeapStart .. HeapEnd - Hdr
    <3>1. nb \in HeapStart .. HeapEnd - Hdr
      BY <1>2, <1>6 DEF EndOf
    <3> QED
      BY <1>7, <3>1, Zenon DEF HeapInv, HeapTypeOK
  <2>5. live' \in [DOMAIN live' -> 0 .. Word - 1] /\ DOMAIN live' \subseteq HeapStart .. HeapEnd
    BY <1>1 DEF HeapInv, HeapTypeOK, Payload
  <2> QED
    BY <1>1, <2>3, <2>4, <2>5 DEF HeapInv, HeapTypeOK
<1>9. HeapStarted'
  BY <1>1, <1>7, Zenon DEF HeapInv, HeapStarted
<1>10. HeapTiled'
  <2> DEFINE End(a) == a + Hdr + heap'[a].size
  <2>1. /\ End(current) = nb /\ End(nb) = EndOf(current)
        /\ \A a \in DOMAIN heap \ {current} : End(a) = EndOf(a)
    BY <1>2, <1>6, <1>7 DEF EndOf
  <2>2. \A a \in DOMAIN heap' :
          End(a) = IF heap'[a].next = NULL THEN HeapEnd ELSE heap'[a].next
    <3>1. \A a \in DOMAIN heap :
            EndOf(a) = IF heap[a].next = NULL THEN HeapEnd ELSE heap[a].next
      BY Zenon DEF HeapInv, HeapTiled
    <3>2. nb # NULL
      BY <1>2
    <3> HIDE DEF End, nb
    <3> QED
      BY <1>1, <1>7, <2>1, <3>1, <3>2
  <2>3. \A a, b \in DOMAIN heap' : a < b => End(a) <= b
    <3>1. \A a, b \in DOMAIN heap : a < b => EndOf(a) <= b
      BY Zenon DEF HeapInv, HeapTiled
    <3>2. \A a \in DOMAIN heap : a \in Nat /\ EndOf(a) \in Nat /\ a < EndOf(a)
      BY DEF HeapInv, HeapTypeOK, EndOf
    <3>3. nb \in Nat
      BY <1>2
    <3> SUFFICES ASSUME NEW a \in DOMAIN heap', NEW b \in DOMAIN heap', a < b
                 PROVE  End(a) <= b
      BY Zenon
    <3> HIDE DEF End, nb
    <3>4. CASE a = nb
      BY <1>1, <1>2, <1>6, <1>7, <2>1, <3>1, <3>2, <3>3, <3>4
    <3>5. CASE a = current
      BY <1>1, <1>2, <1>6, <1>7, <2>1, <3>1, <3>2, <3>3, <3>5
    <3>6. CASE a # nb /\ a # current
      BY <1>1, <1>2, <1>6, <1>7, <2>1, <3>1, <3>2, <3>3, <3>6
    <3> QED
      BY <3>4, <3>5, <3>6, Zenon
  <2>4. heap_start' # NULL =>
          \A x \in HeapStart .. HeapEnd - 1 :
            \E a \in DOMAIN heap' : a <= x /\ x < End(a)
    BY <1>1, <1>2, <1>6, <1>7, <2>1 DEF HeapInv, HeapTiled, HeapTypeOK, EndOf
  <2> QED
    BY <2>2, <2>3, <2>4, Zenon DEF HeapTiled, EndOf
<1>11. LiveBlocks'
  <2>1. DOMAIN live' = {Payload(a) : a \in {b \in DOMAIN heap' : ~ heap'[b].is_free}}
    BY <1>1, <1>6, <1>7 DEF HeapInv, LiveBlocks, Payload, HeapTypeOK
  <2>2. \A p \in DOMAIN live' : live'[p] <= heap'[p - Hdr].size
    BY <1>1, <1>2, <1>6, <1>7 DEF HeapInv, LiveBlocks, Payload, HeapTypeOK
  <2> QED
    BY <2>1, <2>2, Zenon DEF LiveBlocks, Payload
<1>12. FullyCoalesced'
  BY <1>1, <1>2, <1>6, <1>7 DEF HeapInv, FullyCoalesced, HeapTypeOK
<1>13. CoalescedSoFar' /\ SearchedSoFar'
  BY <1>1, Zenon DEF CoalescedSoFar, SearchedSoFar
<1> QED
  BY <1>8, <1>9, <1>10, <1>11, <1>12, <1>13, Zenon DEF HeapInv

\* Marking a block free gives its pointer up and starts the coalescing pass
\* at the head of the list.
LEMMA KfreeCallHeapInv ==
  ASSUME HeapInv, NEW p \in DOMAIN live, KfreeCall(p)
  PROVE  HeapInv'
<1> USE HeapAssumption DEF NULL, HeapEnd
<1>1. PICK b \in DOMAIN heap : p = b + Hdr /\ ~ heap[b].is_free
  BY Zenon DEF HeapInv, LiveBlocks, Payload
<1>2. b \in Nat /\ p - Hdr = b /\ HeapStart <= b
  BY <1>1 DEF HeapInv, HeapTypeOK
<1>3. /\ heap_start' = heap_start /\ size' = size
      /\ pc' = "kfree" /\ current' = heap_start
      /\ heap' = [heap EXCEPT ![b].is_free = TRUE]
      /\ live' = [q \in DOMAIN live \ {p} |-> live[q]]
  BY <1>2, Zenon DEF KfreeCall
<1>4. /\ DOMAIN heap' = DOMAIN heap
      /\ \A a \in DOMAIN heap : heap'[a].size = heap[a].size /\ heap'[a].next = heap[a].next
      /\ \A a \in DOMAIN heap : heap'[a].is_free = (heap[a].is_free \/ a = b)
  BY <1>1, <1>3, Zenon DEF HeapInv, HeapTypeOK
<1>5. heap_start = HeapStart /\ HeapStart \in DOMAIN heap
  BY <1>1, Zenon DEF HeapInv, HeapTypeOK, HeapStarted
<1>6. HeapTypeOK'
  <2>1. heap' \in [DOMAIN heap' -> [size : 0 .. HeapSize, is_free : BOOLEAN,
                                    next : DOMAIN heap' \cup {NULL}]]
    <3>1. heap \in [DOMAIN heap -> [size : 0 .. HeapSize, is_free : BOOLEAN,
                                    next : DOMAIN heap \cup {NULL}]]
      BY Zenon DEF HeapInv, HeapTypeOK
    <3>2. [heap EXCEPT ![b].is_free = TRUE]
            \in [DOMAIN heap -> [size : 0 .. HeapSize, is_free : BOOLEAN,
                                 next : DOMAIN heap \cup {NULL}]]
      BY <1>1, <3>1, MarkedHeaders, Zenon
    <3> QED
      BY <1>3, <1>4, <3>2, Zenon
  <2> QED
    BY <1>3, <1>4, <1>5, <2>1, Zenon DEF HeapInv, HeapTypeOK
<1>7. HeapStarted' /\ HeapTiled'
  BY <1>3, <1>4 DEF HeapInv, HeapStarted, HeapTiled, EndOf
<1>8. LiveBlocks'
  <2>1. DOMAIN live' = {Payload(a) : a \in {c \in DOMAIN heap' : ~ heap'[c].is_free}}
    BY <1>1, <1>2, <1>3, <1>4 DEF HeapInv, LiveBlocks, Payload, HeapTypeOK
  <2>2. \A q \in DOMAIN live' : live'[q] <= heap'[q - Hdr].size
    BY <1>1, <1>2, <1>3, <1>4 DEF HeapInv, LiveBlocks, Payload, HeapTypeOK
  <2> QED
    BY <2>1, <2>2, Zenon DEF LiveBlocks, Payload
<1>9. FullyCoalesced' /\ CoalescedSoFar' /\ SearchedSoFar'
  BY <1>3, <1>4, <1>5 DEF HeapInv, FullyCoalesced, CoalescedSoFar, SearchedSoFar, HeapTypeOK
<1> QED
  BY <1>6, <1>7, <1>8, <1>9, Zenon DEF HeapInv

\* Absorbing the successor keeps the tiling: the bytes of both payloads and
\* of the second header become one payload.
LEMMA KfreeMergeHeapInv == HeapInv /\ KfreeMerge => HeapInv'
<1> SUFFICES ASSUME HeapInv, KfreeMerge
             PROVE  HeapInv'
  BY Zenon
<1> USE HeapAssumption DEF NULL, HeapEnd
<1> DEFINE nx == heap[current].next
<1>1. /\ heap_start' = heap_start /\ pc = "kfree" /\ pc' = pc
      /\ size' = size /\ current' = current /\ live' = live
      /\ current \in DOMAIN heap /\ nx \in DOMAIN heap
      /\ heap[current].is_free /\ heap[nx].is_free
  BY Zenon DEF KfreeMerge, Merges, HeapInv, HeapTypeOK
<1>2. /\ \A a \in DOMAIN heap : a \in Nat /\ heap[a].size \in Nat /\ a < EndOf(a) /\ EndOf(a) \in Nat
      /\ nx = EndOf(current) /\ current < nx
  BY <1>1 DEF HeapInv, HeapTypeOK, HeapTiled, EndOf
<1>3. /\ DOMAIN heap' = DOMAIN heap \ {nx}
      /\ heap'[current] = [size |-> heap[current].size + Hdr + heap[nx].size,
                           is_free |-> TRUE, next |-> heap[nx].next]
      /\ \A a \in DOMAIN heap \ {nx, current} : heap'[a] = heap[a]
  BY <1>1, <1>2 DEF KfreeMerge, Merged, HeapInv, HeapTypeOK
<1>4. \A a \in DOMAIN heap \ {current} : heap[a].next # nx
  BY <1>1, <1>2 DEF HeapInv, HeapTiled
<1>5. heap[nx].next # nx
  BY <1>1, <1>2 DEF HeapInv, HeapTiled
<1> DEFINE End(a) == a + Hdr + heap'[a].size
<1>6. /\ End(current) = EndOf(nx)
      /\ \A a \in DOMAIN heap \ {nx, current} : End(a) = EndOf(a)
  BY <1>1, <1>2, <1>3 DEF EndOf
<1>7. HeapTypeOK'
  <2>1. \A a \in DOMAIN heap : heap[a] \in [size : 0 .. HeapSize, is_free : BOOLEAN,
                                            next : DOMAIN heap \cup {NULL}]
    BY Zenon DEF HeapInv, HeapTypeOK
  <2>2. \A a \in DOMAIN heap' : heap'[a] \in [size : 0 .. HeapSize, is_free : BOOLEAN,
                                              next : DOMAIN heap' \cup {NULL}]
    <3> SUFFICES ASSUME NEW a \in DOMAIN heap'
                 PROVE  heap'[a] \in [size : 0 .. HeapSize, is_free : BOOLEAN,
                                      next : DOMAIN heap' \cup {NULL}]
      BY Zenon
    <3>1. CASE a = current
      <4>1. EndOf(nx) <= HeapEnd /\ HeapStart <= current
        BY <1>1 DEF HeapInv, HeapTiled, HeapTypeOK
      <4>2. /\ heap[current].size + Hdr + heap[nx].size \in 0 .. HeapSize
            /\ heap[nx].next \in DOMAIN heap' \cup {NULL}
        BY <1>1, <1>2, <1>3, <1>5, <2>1, <4>1 DEF EndOf
      <4>3. [size |-> heap[current].size + Hdr + heap[nx].size, is_free |-> TRUE,
             next |-> heap[nx].next]
              \in [size : 0 .. HeapSize, is_free : BOOLEAN,
                   next : DOMAIN heap' \cup {NULL}]
        BY <4>2, Zenon
      <4> QED
        BY <1>3, <3>1, <4>3, Zenon
    <3>2. CASE a # current
      <4>1. heap'[a] = heap[a] /\ a \in DOMAIN heap
        BY <1>3, <3>2, Zenon
      <4>2. heap[a].next \in DOMAIN heap' \cup {NULL}
        BY <1>3, <1>4, <2>1, <3>2, <4>1, Zenon
      <4> QED
        BY <2>1, <4>1, <4>2, Zenon
    <3> QED
      BY <3>1, <3>2, Zenon
  <2>3. heap' \in [DOMAIN heap' -> [size : 0 .. HeapSize, is_free : BOOLEAN,
                                    next : DOMAIN heap' \cup {NULL}]]
    BY <1>1, <2>2, Zenon DEF KfreeMerge, Merged
  <2> QED
    BY <1>1, <1>2, <1>3, <2>3 DEF HeapInv, HeapTypeOK
<1>8. HeapStarted'
  <2>1. heap_start # NULL /\ HeapStart \in DOMAIN heap /\ HeapStart <= current
    BY <1>1 DEF HeapInv, HeapStarted, HeapTypeOK
  <2>2. HeapStart # nx
    BY <1>1, <1>2, <2>1
  <2> QED
    BY <1>1, <1>3, <2>1, <2>2, Zenon DEF HeapStarted
<1>9. HeapTiled'
  <2>1. \A a \in DOMAIN heap' :
          End(a) = IF heap'[a].next = NULL THEN HeapEnd ELSE heap'[a].next
    <3>1. \A a \in DOMAIN heap :
            EndOf(a) = IF heap[a].next = NULL THEN HeapEnd ELSE heap[a].next
      BY Zenon DEF HeapInv, HeapTiled
    <3> HIDE DEF End
    <3> QED
      BY <1>1, <1>3, <1>6, <3>1
  <2>2. \A a, b \in DOMAIN heap' : a < b => End(a) <= b
    <3>1. \A a, b \in DOMAIN heap : a < b => EndOf(a) <= b
      BY Zenon DEF HeapInv, HeapTiled
    <3> HIDE DEF End, nx
    <3> QED
      BY <1>1, <1>2, <1>3, <1>6, <3>1
  <2>3. heap_start' # NULL =>
          \A x \in HeapStart .. HeapEnd - 1 :
            \E a \in DOMAIN heap' : a <= x /\ x < End(a)
    <3> SUFFICES ASSUME heap_start # NULL, NEW x \in HeapStart .. HeapEnd - 1
                 PROVE  \E a \in DOMAIN heap' : a <= x /\ x < End(a)
      BY <1>1, Zenon
    <3>1. PICK a \in DOMAIN heap : a <= x /\ x < EndOf(a)
      BY Zenon DEF HeapInv, HeapTiled
    <3> HIDE DEF End, nx
    <3> QED
      BY <1>1, <1>2, <1>3, <1>6, <3>1
  <2> QED
    BY <2>1, <2>2, <2>3, Zenon DEF HeapTiled, EndOf
<1>10. LiveBlocks'
  <2>1. \A a \in DOMAIN heap : ~ heap[a].is_free <=> a \in DOMAIN heap' /\ ~ heap'[a].is_free
    BY <1>1, <1>3
  <2>2. DOMAIN live' = {Payload(a) : a \in {b \in DOMAIN heap' : ~ heap'[b].is_free}}
    BY <1>1, <1>3, <2>1, Zenon DEF HeapInv, LiveBlocks
  <2>3. \A p \in DOMAIN live' : live'[p] <= heap'[p - Hdr].size
    BY <1>1, <1>2, <1>3, <2>1 DEF HeapInv, LiveBlocks, Payload
  <2> QED
    BY <2>2, <2>3, Zenon DEF LiveBlocks, Payload
<1>11. CoalescedSoFar'
  <2> SUFFICES ASSUME NEW a \in DOMAIN heap', a < current,
                      heap'[a].is_free, heap'[a].next # NULL
               PROVE  ~ heap'[heap'[a].next].is_free
    BY <1>1, Zenon DEF CoalescedSoFar
  <2>1. heap'[a] = heap[a] /\ a \in DOMAIN heap
    BY <1>1, <1>2, <1>3
  <2>2. ~ heap[heap[a].next].is_free
    BY <1>1, <2>1, Zenon DEF HeapInv, CoalescedSoFar
  <2>3. heap[a].next \in DOMAIN heap
    BY <2>1, Zenon DEF HeapInv, HeapTypeOK
  <2> QED
    BY <1>1, <1>3, <2>1, <2>2, <2>3, Zenon
<1>12. FullyCoalesced' /\ SearchedSoFar'
  BY <1>1, Zenon DEF FullyCoalesced, SearchedSoFar
<1> QED
  BY <1>7, <1>8, <1>9, <1>10, <1>11, <1>12, Zenon DEF HeapInv

\* The coalescing pass moves on when the pair at its cursor is not both free.
LEMMA KfreeNextHeapInv == HeapInv /\ KfreeNext => HeapInv'
<1> SUFFICES ASSUME HeapInv, KfreeNext
             PROVE  HeapInv'
  BY Zenon
<1> USE HeapAssumption DEF NULL, HeapEnd
<1>1. /\ heap' = heap /\ live' = live /\ heap_start' = heap_start
      /\ pc = "kfree" /\ pc' = pc /\ size' = size
      /\ current \in DOMAIN heap
      /\ current' = heap[current].next /\ current' \in DOMAIN heap
      /\ ~ (heap[current].is_free /\ heap[heap[current].next].is_free)
  BY Zenon DEF KfreeNext, Merges, HeapInv, HeapTypeOK
<1>2. HeapTypeOK'
  BY <1>1 DEF HeapInv, HeapTypeOK
<1>3. HeapStarted' /\ HeapTiled' /\ LiveBlocks'
  BY <1>1, Zenon DEF HeapInv, HeapStarted, HeapTiled, LiveBlocks, EndOf, Payload
<1>4. FullyCoalesced' /\ SearchedSoFar'
  BY <1>1, Zenon DEF FullyCoalesced, SearchedSoFar
<1>5. CoalescedSoFar'
  <2>1. \A a \in DOMAIN heap : a < current' => a <= current
    BY <1>1 DEF HeapInv, HeapTiled, EndOf, HeapTypeOK
  <2>2. \A a \in DOMAIN heap :
          a < current /\ heap[a].is_free /\ heap[a].next # NULL
            => ~ heap[heap[a].next].is_free
    BY <1>1, Zenon DEF HeapInv, CoalescedSoFar
  <2>3. \A a \in DOMAIN heap : a <= current => a < current \/ a = current
    BY <1>1 DEF HeapInv, HeapTypeOK
  <2> QED
    BY <1>1, <2>1, <2>2, <2>3, Zenon DEF CoalescedSoFar
<1> QED
  BY <1>2, <1>3, <1>4, <1>5, Zenon DEF HeapInv

\* When the cursor has reached the last block, every pair has been looked at.
LEMMA KfreeReturnHeapInv == HeapInv /\ KfreeReturn => HeapInv'
<1> SUFFICES ASSUME HeapInv, KfreeReturn
             PROVE  HeapInv'
  BY Zenon
<1> USE HeapAssumption DEF NULL, HeapEnd
<1>1. /\ heap' = heap /\ live' = live /\ heap_start' = heap_start
      /\ pc = "kfree" /\ pc' = "idle" /\ size' = size
      /\ current \in DOMAIN heap /\ heap[current].next = NULL
      /\ current' = NULL
  BY Zenon DEF KfreeReturn, HeapInv, HeapTypeOK
<1>2. HeapTypeOK'
  BY <1>1, Zenon DEF HeapInv, HeapTypeOK
<1>3. HeapStarted' /\ HeapTiled' /\ LiveBlocks'
  BY <1>1, Zenon DEF HeapInv, HeapStarted, HeapTiled, LiveBlocks, EndOf, Payload
<1>4. CoalescedSoFar' /\ SearchedSoFar'
  BY <1>1, Zenon DEF CoalescedSoFar, SearchedSoFar
<1>5. FullyCoalesced'
  <2>1. \A a \in DOMAIN heap : a <= current
    BY <1>1 DEF HeapInv, HeapTiled, EndOf, HeapTypeOK
  <2>2. \A a \in DOMAIN heap :
          a < current /\ heap[a].is_free /\ heap[a].next # NULL
            => ~ heap[heap[a].next].is_free
    BY <1>1, Zenon DEF HeapInv, CoalescedSoFar
  <2>3. \A a \in DOMAIN heap : a <= current => a < current \/ a = current
    BY <1>1 DEF HeapInv, HeapTypeOK
  <2> QED
    BY <1>1, <2>1, <2>2, <2>3, Zenon DEF FullyCoalesced
<1> QED
  BY <1>2, <1>3, <1>4, <1>5, Zenon DEF HeapInv

-----------------------------------------------------------------------------
\* Every step of the heap preserves HeapInv.
LEMMA NextHeapInv == HeapInv /\ [HeapNext]_heapVars => HeapInv'
<1> SUFFICES ASSUME HeapInv, [HeapNext]_heapVars
             PROVE  HeapInv'
  BY Zenon
<1>1. CASE kmalloc_init
  BY <1>1, kmalloc_initHeapInv, Zenon
<1>2. CASE \E n \in Sizes : KmallocCall(n)
  BY <1>2, KmallocCallHeapInv, Zenon
<1>3. CASE \E p \in DOMAIN live : KfreeCall(p)
  BY <1>3, KfreeCallHeapInv, Zenon
<1>4. CASE KmallocNext
  BY <1>4, KmallocNextHeapInv, Zenon
<1>5. CASE KmallocFound
  BY <1>5, SplitHeapInv, TakenHeapInv, Zenon
<1>6. CASE KmallocNull
  BY <1>6, KmallocNullHeapInv, Zenon
<1>7. CASE KfreeMerge
  BY <1>7, KfreeMergeHeapInv, Zenon
<1>8. CASE KfreeNext
  BY <1>8, KfreeNextHeapInv, Zenon
<1>9. CASE KfreeReturn
  BY <1>9, KfreeReturnHeapInv, Zenon
<1>10. CASE UNCHANGED heapVars
  BY <1>10, Zenon DEF heapVars, HeapInv, HeapTypeOK, HeapStarted, HeapTiled, LiveBlocks, FullyCoalesced,
               CoalescedSoFar, SearchedSoFar, EndOf, Payload, Fits
<1> QED
  BY <1>1, <1>2, <1>3, <1>4, <1>5, <1>6, <1>7, <1>8, <1>9, <1>10, Zenon DEF HeapNext, HeapStep, KfreeNull

\* HeapInv holds in every reachable state of the heap.
THEOREM HeapInvariance == HeapSpec => []HeapInv
  BY InitHeapInv, NextHeapInv, PTL DEF HeapSpec

\* The cursors of kmalloc and kfree are always headers of the list or NULL,
\* and every field has its type.
THEOREM HeapTypeCorrect == HeapSpec => []HeapTypeOK
<1>1. HeapInv => HeapTypeOK
  BY Zenon DEF HeapInv
<1> QED
  BY HeapInvariance, <1>1, PTL

\* Splits and merges keep the list an exact tiling of the heap.
THEOREM AlwaysTiled == HeapSpec => []HeapTiled
<1>1. HeapInv => HeapTiled
  BY Zenon DEF HeapInv
<1> QED
  BY HeapInvariance, <1>1, PTL

\* The blocks in use are the ones callers hold, at least as large as asked.
THEOREM BlocksMatchCallers == HeapSpec => []LiveBlocks
<1>1. HeapInv => LiveBlocks
  BY Zenon DEF HeapInv
<1> QED
  BY HeapInvariance, <1>1, PTL

\* The single pass of kfree leaves no two free neighbours.
THEOREM CoalescingComplete == HeapSpec => []FullyCoalesced
<1>1. HeapInv => FullyCoalesced
  BY Zenon DEF HeapInv
<1> QED
  BY HeapInvariance, <1>1, PTL

\* The tiling keeps the payloads apart from each other and from the headers.
LEMMA DisjointFromTiling == HeapInv => LiveDisjoint
<1> SUFFICES ASSUME HeapInv, NEW p \in DOMAIN live
             PROVE  /\ HeapStart <= p /\ p + live[p] <= HeapEnd
                    /\ \A q \in DOMAIN live \ {p} : p + live[p] <= q \/ q + live[q] <= p
                    /\ \A a \in DOMAIN heap : p + live[p] <= a \/ a + Hdr <= p
  BY Zenon DEF LiveDisjoint
<1> USE HeapAssumption DEF NULL, HeapEnd
<1>1. \A q \in DOMAIN live : \E b \in DOMAIN heap :
        q = b + Hdr /\ live[q] \in Nat /\ q + live[q] <= EndOf(b)
  BY DEF HeapInv, HeapTypeOK, LiveBlocks, Payload, EndOf
<1>2. \A a \in DOMAIN heap : a \in Nat /\ EndOf(a) \in Nat /\ a + Hdr <= EndOf(a)
                            /\ HeapStart <= a /\ EndOf(a) <= HeapEnd
  BY DEF HeapInv, HeapTypeOK, HeapTiled, EndOf
<1>3. \A a, b \in DOMAIN heap : a < b => EndOf(a) <= b
  BY Zenon DEF HeapInv, HeapTiled
<1>4. PICK b \in DOMAIN heap : p = b + Hdr /\ live[p] \in Nat /\ p + live[p] <= EndOf(b)
  BY <1>1, Zenon
<1>5. HeapStart <= p /\ p + live[p] <= HeapEnd
  BY <1>2, <1>4
<1>6. \A a \in DOMAIN heap : p + live[p] <= a \/ a + Hdr <= p
  BY <1>2, <1>3, <1>4
<1>7. ASSUME NEW q \in DOMAIN live \ {p}
      PROVE  p + live[p] <= q \/ q + live[q] <= p
  <2>1. PICK c \in DOMAIN heap : q = c + Hdr /\ live[q] \in Nat /\ q + live[q] <= EndOf(c)
    BY <1>1, Zenon
  <2>2. b < c \/ c < b
    BY <1>2, <1>4, <2>1
  <2> QED
    BY <1>2, <1>3, <1>4, <2>1, <2>2
<1> QED
  BY <1>5, <1>6, <1>7, Zenon

\* No two live allocations overlap, none leaves the heap and none touches a
\* header.
THEOREM AllocationsDisjoint == HeapSpec => []LiveDisjoint
  BY HeapInvariance, DisjointFromTiling, PTL

\* With nothing allocated, a fully coalesced tiling has one block.
LEMMA WholeFromTiling == HeapInv => AllFreedIsWhole
<1> SUFFICES ASSUME HeapInv, pc = "idle", heap_start # NULL, DOMAIN live = {}
             PROVE  heap = [a \in {HeapStart} |->
                              [size |-> HeapSize - Hdr, is_free |-> TRUE, next |-> NULL]]
  BY Zenon DEF AllFreedIsWhole
<1> USE HeapAssumption DEF NULL, HeapEnd
<1>1. HeapStart \in DOMAIN heap
  BY Zenon DEF HeapInv, HeapStarted
<1>2. \A a \in DOMAIN heap : heap[a].is_free
  BY Zenon DEF HeapInv, LiveBlocks
<1>3. heap[HeapStart].next = NULL
  BY <1>1, <1>2, Zenon DEF HeapInv, FullyCoalesced, HeapTypeOK
<1>4. EndOf(HeapStart) = HeapEnd
  BY <1>1, <1>3, Zenon DEF HeapInv, HeapTiled
<1>5. DOMAIN heap = {HeapStart}
  <2>1. ASSUME NEW a \in DOMAIN heap, a # HeapStart
        PROVE  FALSE
    <3>1. a \in HeapStart .. HeapEnd - Hdr
      BY Zenon DEF HeapInv, HeapTypeOK
    <3>2. HeapStart < a
      BY <2>1, <3>1
    <3>3. EndOf(HeapStart) <= a
      BY <1>1, <3>2, Zenon DEF HeapInv, HeapTiled
    <3> QED
      BY <1>4, <3>1, <3>3
  <2> QED
    BY <1>1, <2>1, Zenon
<1>6. /\ heap[HeapStart].size = HeapSize - Hdr
      /\ heap[HeapStart].is_free = TRUE
  <2>1. heap[HeapStart] \in [size : 0 .. HeapSize, is_free : BOOLEAN,
                             next : DOMAIN heap \cup {NULL}]
    BY <1>1, Zenon DEF HeapInv, HeapTypeOK
  <2>2. heap[HeapStart].size = HeapSize - Hdr
    BY <1>4, <2>1 DEF EndOf
  <2> QED
    BY <1>1, <1>2, <2>1, <2>2, Zenon
<1>7. heap[HeapStart] = [size |-> HeapSize - Hdr, is_free |-> TRUE, next |-> NULL]
  BY <1>1, <1>3, <1>6, Zenon DEF HeapInv, HeapTypeOK
<1>8. heap = [a \in DOMAIN heap |-> heap[a]]
  BY Zenon DEF HeapInv, HeapTypeOK
<1> QED
  BY <1>5, <1>7, <1>8, Zenon

\* Freeing everything restores the single block kmalloc_init made.
THEOREM NothingLeaks == HeapSpec => []AllFreedIsWhole
  BY HeapInvariance, WholeFromTiling, PTL

-----------------------------------------------------------------------------
\* A place for a header and size bytes clear of every block in use lies in
\* one free block, since no two free blocks are neighbours; the search would
\* have found it.
LEMMA NoRoomAtNull ==
  ASSUME HeapInv, KmallocNull, heap_start # NULL,
         NEW x \in HeapStart .. HeapEnd - Hdr - size
  PROVE  \E p \in DOMAIN live : ~ ClearOf(p, x, Hdr + size)
<1> USE HeapAssumption DEF NULL, HeapEnd
<1> SUFFICES ASSUME \A p \in DOMAIN live : ClearOf(p, x, Hdr + size)
             PROVE  FALSE
  BY Zenon
<1>1. pc = "kmalloc" /\ current = NULL /\ size \in Nat
  BY DEF KmallocNull, HeapInv, HeapTypeOK
<1>2. /\ \A a \in DOMAIN heap : a \in Nat /\ EndOf(a) \in Nat /\ a + Hdr <= EndOf(a)
      /\ \A a \in DOMAIN heap : heap[a].size \in Nat
      /\ \A a \in DOMAIN heap : heap[a].next \in DOMAIN heap \cup {NULL}
  BY DEF HeapInv, HeapTypeOK, EndOf
<1>3. \A a \in DOMAIN heap : EndOf(a) <= x \/ x + Hdr + size <= a \/ heap[a].is_free
  <2> SUFFICES ASSUME NEW a \in DOMAIN heap, ~ heap[a].is_free
               PROVE  EndOf(a) <= x \/ x + Hdr + size <= a
    BY Zenon
  <2>1. Payload(a) \in DOMAIN live
    BY Zenon DEF HeapInv, LiveBlocks
  <2>2. Payload(a) - Hdr = a
    BY <1>2 DEF Payload
  <2> QED
    BY <1>1, <1>2, <2>1, <2>2 DEF ClearOf
<1>4. PICK b \in DOMAIN heap : b <= x /\ x < EndOf(b)
  BY <1>1 DEF HeapInv, HeapTiled
<1>5. heap[b].is_free
  BY <1>1, <1>2, <1>3, <1>4
<1>6. heap[b].size < size
  BY <1>1, <1>2, <1>4, <1>5 DEF HeapInv, SearchedSoFar, Fits
<1>7. EndOf(b) < x + Hdr + size
  BY <1>1, <1>2, <1>4, <1>6 DEF EndOf
<1>8. heap[b].next # NULL /\ heap[b].next = EndOf(b)
  BY <1>1, <1>2, <1>4, <1>7 DEF HeapInv, HeapTiled
<1>9. heap[heap[b].next].is_free
  BY <1>1, <1>2, <1>3, <1>4, <1>7, <1>8
<1> QED
  BY <1>1, <1>4, <1>5, <1>8, <1>9, Zenon DEF HeapInv, FullyCoalesced

\* kmalloc fails only when the heap has no room left anywhere.
THEOREM NullIsHonest == HeapSpec => NullMeansNoRoom
<1>1. HeapInv /\ [HeapNext]_heapVars =>
        [KmallocNull /\ heap_start # NULL =>
           \A x \in HeapStart .. HeapEnd - Hdr - size :
             \E p \in DOMAIN live : ~ ClearOf(p, x, Hdr + size)]_heapVars
  BY NoRoomAtNull, Zenon
<1> QED
  BY HeapInvariance, <1>1, PTL DEF HeapSpec, NullMeansNoRoom

-----------------------------------------------------------------------------
\* A successful kmalloc is an allocation of the abstract allocator: the block
\* found was free, so its payload meets no live one.
LEMMA FoundIsMalloc ==
  ASSUME HeapInv, HeapInv', KmallocFound
  PROVE  AbstractHeap!Malloc(size, Payload(current))
<1> USE HeapAssumption DEF NULL, HeapEnd
<1>1. /\ current \in DOMAIN heap /\ heap[current].is_free
      /\ live' = [p \in DOMAIN live \cup {Payload(current)} |->
                    IF p = Payload(current) THEN size ELSE live[p]]
  BY Zenon DEF KmallocFound, HeapInv, HeapTypeOK, Fits
<1>2. Payload(current) \notin DOMAIN live
  <2>1. \A a \in DOMAIN heap : a \in Nat
    BY DEF HeapInv, HeapTypeOK
  <2>2. \A a \in DOMAIN heap : a + Hdr = current + Hdr => a = current
    BY <1>1, <2>1
  <2> QED
    BY <1>1, <2>2, Zenon DEF HeapInv, LiveBlocks, Payload
<1>3. LiveDisjoint'
  <2>1. (HeapInv => LiveDisjoint)'
    BY DisjointFromTiling, PTL
  <2> QED
    BY <2>1, Zenon
<1>4. /\ Payload(current) \in DOMAIN live' /\ live'[Payload(current)] = size
      /\ \A q \in DOMAIN live : /\ q \in DOMAIN live' \ {Payload(current)}
                                /\ live'[q] = live[q]
  BY <1>1, <1>2, Zenon
<1>5. HeapStart <= Payload(current) /\ Payload(current) + size <= HeapEnd
  BY <1>3, <1>4, Zenon DEF LiveDisjoint
<1>6. \A q \in DOMAIN live :
        Payload(current) + size <= q \/ q + live[q] <= Payload(current)
  BY <1>3, <1>4, Zenon DEF LiveDisjoint
<1> QED
  BY <1>1, <1>2, <1>5, <1>6, Zenon DEF AbstractHeap!Malloc, AbstractHeap!Disjoint

\* kmalloc and kfree, with their search, splitting and coalescing, implement
\* the abstract allocator.
THEOREM AllocatorRefinement == HeapSpec => ImplementsAllocator
<1>1. HeapInit => AbstractHeap!Init
  BY Zenon DEF HeapInit, AbstractHeap!Init
<1>2. HeapInv /\ HeapInv' /\ [HeapNext]_heapVars => [AbstractHeap!Next]_live
  <2> SUFFICES ASSUME HeapInv, HeapInv', [HeapNext]_heapVars
               PROVE  AbstractHeap!Next \/ live' = live
    BY Zenon
  <2>1. CASE KmallocFound
    <3>1. size \in Sizes /\ Payload(current) \in HeapStart .. HeapEnd
      BY <2>1, HeapAssumption, Zenon
         DEF KmallocFound, HeapInv, SearchedSoFar, HeapTypeOK, Payload, HeapEnd, NULL
    <3> QED
      BY <2>1, <3>1, FoundIsMalloc, Zenon DEF AbstractHeap!Next
  <2>2. ASSUME NEW p \in DOMAIN live, KfreeCall(p)
        PROVE  AbstractHeap!Next
    BY <2>2, Zenon DEF KfreeCall, AbstractHeap!Next, AbstractHeap!Free
  <2>3. CASE kmalloc_init \/ (\E n \in Sizes : KmallocCall(n)) \/ KmallocNext \/ KmallocNull
             \/ KfreeMerge \/ KfreeNext \/ KfreeReturn \/ UNCHANGED heapVars
    BY <2>3, Zenon DEF kmalloc_init, KmallocCall, KmallocNext, KmallocNull, KfreeMerge,
                KfreeNext, KfreeReturn, heapVars
  <2> QED
    BY <2>1, <2>2, <2>3, Zenon DEF HeapNext, HeapStep, KfreeNull
<1> QED
  BY HeapInvariance, <1>1, <1>2, PTL DEF HeapSpec, ImplementsAllocator, AbstractHeap!Spec

-----------------------------------------------------------------------------
(* The scheduler                                                           *)

\* f numbers the ring of n queued processes.
Numbers(n, f) ==
  /\ f \in [0 .. n - 1 -> queued]
  /\ \A p \in queued : \E j \in 0 .. n - 1 : f[j] = p
  /\ \A j, l \in 0 .. n - 1 : f[j] = f[l] => j = l
  /\ \A j \in 0 .. n - 1 : pcb[f[j]].next = f[IF j = n - 1 THEN 0 ELSE j + 1]
  /\ ready_queue_head = IF n = 0 THEN NULL ELSE f[0]

\* The scheduler calls node j may have waited when node c runs: those that
\* took the CPU from j on to c.
Distance(c, j, n) == IF j <= c THEN c - j ELSE c + n - j

Waits(n, f) ==
  /\ current_process = NULL => \A p \in queued : waited[p] = 0
  /\ \A c, j \in 0 .. n - 1 :
       current_process = f[c] => waited[f[j]] <= Distance(c, j, n)

\* The ready list is a ring, numbered from its head, through all that is
\* queued.
ReadyRing == \E n \in Nat : \E f : Numbers(n, f) /\ Waits(n, f)

RingInv ==
  /\ SchedTypeOK
  /\ ReadyRing
  /\ phase = "add" => /\ temp \in queued /\ arg \in DOMAIN pcb \ queued
  /\ OneRunning
  /\ \A p \in DOMAIN pcb : pcb[p].pid < next_pid

-----------------------------------------------------------------------------
LEMMA MaxWaitType == MaxWait \in Nat
BY SchedulerAssumption, FS_CardinalityType, Zenon DEF MaxWait

LEMMA InitInv ==
  ASSUME SchedInit
  PROVE  RingInv
<1>1. DOMAIN pcb = {} /\ queued = {}
  BY Zenon DEF SchedInit
<1>2. SchedTypeOK
  <2>1. pcb \in [DOMAIN pcb ->
                [pid : Nat \ {0}, state : {"READY", "RUNNING"}, esp : Nat,
                 eip : Entries, next : DOMAIN pcb \cup {NULL}]]
    BY <1>1, Zenon DEF SchedInit
  <2>2. waited \in [Pcbs -> 0 .. MaxWait]
    BY MaxWaitType DEF SchedInit
  <2> QED BY <1>1, <2>1, <2>2 DEF SchedInit, SchedTypeOK
<1>3. ReadyRing
  <2> DEFINE f == [j \in 0 .. 0 - 1 |-> 0]
  <2>1. \A j : j \notin 0 .. 0 - 1
    OBVIOUS
  <2>2. Numbers(0, f)
    BY <1>1, <2>1, Zenon DEF Numbers, SchedInit
  <2>3. Waits(0, f)
    BY <1>1, <2>1, Zenon DEF Waits
  <2> QED BY <2>2, <2>3, Zenon DEF ReadyRing
<1>4. OneRunning
  BY <1>1, Zenon DEF OneRunning, SchedInit
<1> QED BY <1>1, <1>2, <1>3, <1>4, Zenon DEF RingInv, SchedInit

\* The types a step uses.
LEMMA Typed ==
  ASSUME RingInv
  PROVE  /\ DOMAIN pcb \subseteq Pcbs /\ NULL \notin DOMAIN pcb /\ queued \subseteq DOMAIN pcb
         /\ queued \subseteq Pcbs
         /\ \A p \in DOMAIN pcb :
              /\ pcb[p] = [pid |-> pcb[p].pid, state |-> pcb[p].state, esp |-> pcb[p].esp,
                           eip |-> pcb[p].eip, next |-> pcb[p].next]
              /\ pcb[p].pid \in Nat \ {0} /\ pcb[p].state \in {"READY", "RUNNING"}
              /\ pcb[p].esp \in Nat /\ pcb[p].eip \in Entries
              /\ pcb[p].next \in DOMAIN pcb \cup {NULL}
         /\ pcb = [p \in DOMAIN pcb |-> pcb[p]]
         /\ next_pid \in Nat \ {0}
         /\ waited \in [Pcbs -> 0 .. MaxWait] /\ MaxWait \in Nat
<1>1. SchedTypeOK
  BY Zenon DEF RingInv
<1>2. \A p \in DOMAIN pcb :
        pcb[p] \in [pid : Nat \ {0}, state : {"READY", "RUNNING"}, esp : Nat,
                    eip : Entries, next : DOMAIN pcb \cup {NULL}]
  BY <1>1, Zenon DEF SchedTypeOK
<1>3. \A r \in [pid : Nat \ {0}, state : {"READY", "RUNNING"}, esp : Nat,
                eip : Entries, next : DOMAIN pcb \cup {NULL}] :
        r = [pid |-> r.pid, state |-> r.state, esp |-> r.esp, eip |-> r.eip, next |-> r.next]
  OBVIOUS
<1>4. pcb = [p \in DOMAIN pcb |-> pcb[p]]
  BY <1>1, Zenon DEF SchedTypeOK
<1> QED BY <1>1, <1>2, <1>3, <1>4, MaxWaitType, SchedulerAssumption, Zenon DEF SchedTypeOK, NULL

\* What a step that only changes next pointers, as Linked does, leaves alone.
LEMMA LinkedIs ==
  ASSUME RingInv, NEW e \in DOMAIN pcb, NEW p \in DOMAIN pcb
  PROVE  /\ DOMAIN Linked(e, p) = DOMAIN pcb
         /\ Linked(e, p) = [q \in DOMAIN pcb |-> Linked(e, p)[q]]
         /\ \A q \in DOMAIN pcb :
              Linked(e, p)[q] =
                [pid |-> pcb[q].pid, state |-> pcb[q].state, esp |-> pcb[q].esp,
                 eip |-> pcb[q].eip,
                 next |-> IF q = p THEN ready_queue_head ELSE IF q = e THEN p ELSE pcb[q].next]
<1>1. \A q \in DOMAIN pcb :
        Linked(e, p)[q] =
          IF q = p THEN [(IF p = e THEN [pcb[q] EXCEPT !.next = p] ELSE pcb[q])
                           EXCEPT !.next = ready_queue_head]
          ELSE IF q = e THEN [pcb[q] EXCEPT !.next = p] ELSE pcb[q]
  BY Typed, Zenon DEF Linked
<1>2. ASSUME NEW q \in DOMAIN pcb, NEW x
      PROVE  [pcb[q] EXCEPT !.next = x] =
               [pid |-> pcb[q].pid, state |-> pcb[q].state, esp |-> pcb[q].esp,
                eip |-> pcb[q].eip, next |-> x]
  BY Typed
<1>3. ASSUME NEW q \in DOMAIN pcb, NEW x, NEW y
      PROVE  [[pcb[q] EXCEPT !.next = x] EXCEPT !.next = y] = [pcb[q] EXCEPT !.next = y]
  BY <1>2, Zenon
<1>4. DOMAIN Linked(e, p) = DOMAIN pcb /\ Linked(e, p) = [q \in DOMAIN pcb |-> Linked(e, p)[q]]
  BY Typed DEF Linked
<1>5. ASSUME NEW q \in DOMAIN pcb
      PROVE  Linked(e, p)[q] =
               [pid |-> pcb[q].pid, state |-> pcb[q].state, esp |-> pcb[q].esp,
                eip |-> pcb[q].eip,
                next |-> IF q = p THEN ready_queue_head ELSE IF q = e THEN p ELSE pcb[q].next]
  <2>1. CASE q = p
    <3>1. Linked(e, p)[q] = [pcb[q] EXCEPT !.next = ready_queue_head]
      BY <1>1, <1>3, <2>1, Zenon
    <3> QED BY <1>2, <2>1, <3>1, Zenon
  <2>2. CASE q # p /\ q = e
    <3>1. Linked(e, p)[q] = [pcb[q] EXCEPT !.next = p]
      BY <1>1, <2>2, Zenon
    <3> QED BY <1>2, <2>2, <3>1, Zenon
  <2>3. CASE q # p /\ q # e
    <3>1. Linked(e, p)[q] = pcb[q]
      BY <1>1, <2>3, Zenon
    <3> QED BY <2>3, <3>1, Typed, Zenon
  <2> QED BY <2>1, <2>2, <2>3, Zenon
<1> QED BY <1>4, <1>5, Zenon

\* A step that keeps every process but for its state and its next pointer
\* keeps the types and the pids.
LEMMA KeepsTypes ==
  ASSUME RingInv,
         DOMAIN pcb' = DOMAIN pcb, pcb' = [q \in DOMAIN pcb |-> pcb'[q]],
         NEW S, NEW X, S \in [DOMAIN pcb -> {"READY", "RUNNING"}],
         X \in [DOMAIN pcb -> DOMAIN pcb \cup {NULL}],
         \A q \in DOMAIN pcb :
           pcb'[q] = [pid |-> pcb[q].pid, state |-> S[q], esp |-> pcb[q].esp,
                      eip |-> pcb[q].eip, next |-> X[q]],
         next_pid' = next_pid,
         {ready_queue_head', current_process', arg', temp'} \subseteq DOMAIN pcb \cup {NULL},
         phase' \in {"idle", "add"}, queued' \subseteq DOMAIN pcb,
         waited' \in [Pcbs -> 0 .. MaxWait]
  PROVE  /\ SchedTypeOK'
         /\ \A p \in DOMAIN pcb' : pcb'[p].pid < next_pid'
         /\ \A p, q \in DOMAIN pcb' : pcb'[p].pid = pcb'[q].pid => p = q
<1>1. \A q \in DOMAIN pcb :
        pcb'[q] \in [pid : Nat \ {0}, state : {"READY", "RUNNING"}, esp : Nat,
                     eip : Entries, next : DOMAIN pcb \cup {NULL}]
  BY Typed
<1>2. pcb' \in [DOMAIN pcb -> [pid : Nat \ {0}, state : {"READY", "RUNNING"}, esp : Nat,
                               eip : Entries, next : DOMAIN pcb \cup {NULL}]]
  BY <1>1, Zenon
<1>3. SchedTypeOK'
  BY <1>2, Typed, Zenon DEF SchedTypeOK
<1>4. \A q \in DOMAIN pcb : pcb'[q].pid = pcb[q].pid
  OBVIOUS
<1>5. /\ \A p \in DOMAIN pcb : pcb[p].pid < next_pid
      /\ \A p, q \in DOMAIN pcb : pcb[p].pid = pcb[q].pid => p = q
  BY Zenon DEF RingInv, OneRunning
<1> QED BY <1>3, <1>4, <1>5

\* The ring as a step finds it.
LEMMA Numbered ==
  ASSUME RingInv
  PROVE  \E n \in Nat : \E f :
           /\ Numbers(n, f) /\ Waits(n, f)
           /\ n = 0 <=> ready_queue_head = NULL
           /\ n = 0 <=> queued = {}
<1>1. PICK n \in Nat : \E f : Numbers(n, f) /\ Waits(n, f)
  BY Zenon DEF RingInv, ReadyRing
<1>2. PICK f : Numbers(n, f) /\ Waits(n, f)
  BY <1>1, Zenon
<1>3. CASE n = 0
  <2>1. ready_queue_head = NULL
    BY <1>2, <1>3, Zenon DEF Numbers
  <2>2. \A p \in queued : \E j \in 0 .. 0 - 1 : f[j] = p
    BY <1>2, <1>3, Zenon DEF Numbers
  <2>3. queued = {}
    BY <2>2
  <2> QED BY <1>2, <1>3, <2>1, <2>3, Zenon
<1>4. CASE n # 0
  <2>1. 0 \in 0 .. n - 1
    BY <1>4
  <2>2. f[0] \in queued /\ ready_queue_head = f[0]
    BY <1>2, <1>4, <2>1, Zenon DEF Numbers
  <2> QED BY <1>2, <1>4, <2>2, Typed, Zenon
<1> QED BY <1>3, <1>4, Zenon

-----------------------------------------------------------------------------
\* create_process: the new process is not in the ring, and its pid is new.
LEMMA CreateKeeps ==
  ASSUME RingInv, NEW p \in Pcbs, NEW e \in Entries, create_process(p, e)
  PROVE  RingInv'
<1> USE DEF create_process
<1>1. DOMAIN pcb' = DOMAIN pcb \cup {p} /\ p \notin DOMAIN pcb
  BY Zenon
<1>2. \A q \in DOMAIN pcb : pcb'[q] = pcb[q]
  BY Zenon
<1>3. pcb'[p] = [pid |-> next_pid, state |-> "READY", esp |-> 0, eip |-> e, next |-> NULL]
  BY Zenon
<1>4. SchedTypeOK'
  <2> DEFINE Rec == [pid : Nat \ {0}, state : {"READY", "RUNNING"}, esp : Nat,
                     eip : Entries, next : DOMAIN pcb' \cup {NULL}]
  <2>1. \A q \in DOMAIN pcb : pcb'[q] \in Rec
    BY <1>1, <1>2, Typed
  <2>2. pcb'[p] \in Rec
    BY <1>3, Typed, Zenon
  <2>3. pcb' \in [DOMAIN pcb' -> Rec]
    BY <1>1, <2>1, <2>2
  <2>4. next_pid' \in Nat \ {0}
    BY Typed
  <2>5. DOMAIN pcb' \subseteq Pcbs
    BY <1>1, Typed, Zenon
  <2> QED BY <1>1, <2>3, <2>4, <2>5, Zenon DEF RingInv, SchedTypeOK
<1>5. ReadyRing'
  <2>1. PICK n \in Nat : \E f : Numbers(n, f) /\ Waits(n, f)
    BY Zenon DEF RingInv, ReadyRing
  <2>2. PICK f : Numbers(n, f) /\ Waits(n, f)
    BY <2>1, Zenon
  <2>3. \A j \in 0 .. n - 1 : pcb'[f[j]] = pcb[f[j]]
    BY <1>2, <2>2, Typed, Zenon DEF Numbers
  <2>4. Numbers(n, f)'
    BY <2>2, <2>3, Zenon DEF Numbers
  <2>5. Waits(n, f)'
    BY <2>2, Zenon DEF Waits
  <2> QED BY <2>4, <2>5, Zenon DEF ReadyRing
<1>6. OneRunning'
  <2>1. \A q \in DOMAIN pcb : pcb[q].pid < next_pid /\ pcb[q].pid \in Nat /\ next_pid \in Nat
    BY Typed, Zenon DEF RingInv
  <2>2. pcb'[p].pid = next_pid /\ pcb'[p].state = "READY"
    BY <1>3, Zenon
  <2>3. \A q \in DOMAIN pcb : pcb'[q].pid # pcb'[p].pid
    BY <1>2, <2>1, <2>2
  <2>4. {q \in DOMAIN pcb' : pcb'[q].state = "RUNNING"} = {q \in DOMAIN pcb : pcb[q].state = "RUNNING"}
    BY <1>1, <1>2, <2>2, Zenon
  <2>5. \A q, r \in DOMAIN pcb' : pcb'[q].pid = pcb'[r].pid => q = r
    BY <1>1, <1>2, <2>3 DEF RingInv, OneRunning
  <2> QED BY <2>4, <2>5, Zenon DEF RingInv, OneRunning
<1>7. \A q \in DOMAIN pcb' : pcb'[q].pid < next_pid'
  <2>1. \A q \in DOMAIN pcb : pcb[q].pid < next_pid /\ pcb[q].pid \in Nat /\ next_pid \in Nat
    BY Typed, Zenon DEF RingInv
  <2>2. pcb'[p].pid = next_pid
    BY <1>3, Zenon
  <2> QED BY <1>1, <1>2, <2>1, <2>2, Typed
<1>8. (phase = "add" => temp \in queued /\ arg \in DOMAIN pcb \ queued)'
  BY Zenon
<1> QED BY <1>4, <1>5, <1>6, <1>7, <1>8, Zenon DEF RingInv

\* add_to_ready_queue on an empty list makes a ring of one.
LEMMA AddFirstKeeps ==
  ASSUME RingInv, NEW p \in DOMAIN pcb \ queued, AddFirst(p)
  PROVE  RingInv'
<1>1. queued = {}
  BY Numbered, Zenon DEF AddFirst
<1>2. current_process = NULL
  BY <1>1, Zenon DEF RingInv, OneRunning
<1>3. /\ DOMAIN pcb' = DOMAIN pcb /\ pcb' = [q \in DOMAIN pcb |-> pcb'[q]]
      /\ \A q \in DOMAIN pcb :
           pcb'[q] = [pid |-> pcb[q].pid, state |-> pcb[q].state, esp |-> pcb[q].esp,
                      eip |-> pcb[q].eip, next |-> IF q = p THEN p ELSE pcb[q].next]
  <2>1. /\ DOMAIN pcb' = DOMAIN pcb /\ pcb' = [q \in DOMAIN pcb |-> pcb'[q]]
        /\ \A q \in DOMAIN pcb :
             pcb'[q] = IF q = p THEN [pcb[q] EXCEPT !.next = p] ELSE pcb[q]
    BY Typed, Zenon DEF AddFirst
  <2>2. [pcb[p] EXCEPT !.next = p] =
          [pid |-> pcb[p].pid, state |-> pcb[p].state, esp |-> pcb[p].esp,
           eip |-> pcb[p].eip, next |-> p]
    BY Typed
  <2>3. ASSUME NEW q \in DOMAIN pcb, q # p
        PROVE  pcb'[q] = [pid |-> pcb[q].pid, state |-> pcb[q].state, esp |-> pcb[q].esp,
                          eip |-> pcb[q].eip, next |-> pcb[q].next]
    BY <2>1, <2>3, Typed, Zenon
  <2> QED BY <2>1, <2>2, <2>3, Zenon
<1> DEFINE S == [q \in DOMAIN pcb |-> pcb[q].state]
           X == [q \in DOMAIN pcb |-> IF q = p THEN p ELSE pcb[q].next]
<1>4. waited' \in [Pcbs -> 0 .. MaxWait] /\ waited'[p] = 0
  BY Typed DEF AddFirst
<1>5. /\ SchedTypeOK'
      /\ \A q \in DOMAIN pcb' : pcb'[q].pid < next_pid'
      /\ \A q, r \in DOMAIN pcb' : pcb'[q].pid = pcb'[r].pid => q = r
  <2>1. S \in [DOMAIN pcb -> {"READY", "RUNNING"}] /\ X \in [DOMAIN pcb -> DOMAIN pcb \cup {NULL}]
    BY Typed, Zenon
  <2>2. \A q \in DOMAIN pcb :
          pcb'[q] = [pid |-> pcb[q].pid, state |-> S[q], esp |-> pcb[q].esp,
                     eip |-> pcb[q].eip, next |-> X[q]]
    BY <1>3, Zenon
  <2>3. /\ {ready_queue_head', current_process', arg', temp'} \subseteq DOMAIN pcb \cup {NULL}
        /\ phase' \in {"idle", "add"} /\ queued' \subseteq DOMAIN pcb /\ next_pid' = next_pid
    BY Typed DEF AddFirst, RingInv, SchedTypeOK
  <2> HIDE DEF S, X
  <2> QED BY <1>3, <1>4, <2>1, <2>2, <2>3, KeepsTypes
<1>6. ReadyRing'
  <2> DEFINE f == [j \in 0 .. 1 - 1 |-> p]
  <2>1. 0 .. 1 - 1 = {0} /\ queued' = {p}
    BY <1>1 DEF AddFirst
  <2>2. pcb'[p].next = p /\ ready_queue_head' = p /\ current_process' = NULL
    BY <1>2, <1>3, Zenon DEF AddFirst
  <2>3. p # NULL
    BY Typed, Zenon
  <2>4. Numbers(1, f)'
    BY <2>1, <2>2 DEF Numbers
  <2>5. Waits(1, f)'
    BY <1>4, <2>1, <2>2, <2>3, Zenon DEF Waits
  <2> QED BY <2>4, <2>5, Zenon DEF ReadyRing
<1>7. OneRunning'
  BY <1>2, <1>3, <1>5 DEF OneRunning, RingInv, AddFirst
<1> QED BY <1>5, <1>6, <1>7, Zenon DEF RingInv, AddFirst

\* add_to_ready_queue starts its walk at the head and stays in the ring.
LEMMA WalkKeeps ==
  ASSUME RingInv, (\E p \in DOMAIN pcb \ queued : AddWalk(p)) \/ AddNext
  PROVE  RingInv'
<1>1. UNCHANGED <<pcb, next_pid, ready_queue_head, current_process, cpu_eip, queued, waited>>
  BY Zenon DEF AddWalk, AddNext
<1>2. temp' \in queued /\ arg' \in DOMAIN pcb \ queued /\ phase' = "add"
  <2>1. PICK n \in Nat : \E f : /\ Numbers(n, f)
                                /\ n = 0 <=> ready_queue_head = NULL
                                /\ n = 0 <=> queued = {}
    BY Numbered, Zenon
  <2>2. PICK f : /\ Numbers(n, f)
                 /\ n = 0 <=> ready_queue_head = NULL
                 /\ n = 0 <=> queued = {}
    BY <2>1, Zenon
  <2>3. ASSUME NEW p \in DOMAIN pcb \ queued, AddWalk(p)
        PROVE  temp' \in queued /\ arg' \in DOMAIN pcb \ queued /\ phase' = "add"
    <3>1. n # 0 /\ temp' = ready_queue_head /\ arg' = p /\ phase' = "add"
      BY <2>2, <2>3, Zenon DEF AddWalk
    <3>2. 0 \in 0 .. n - 1 /\ ready_queue_head = f[0]
      BY <2>2, <3>1 DEF Numbers
    <3>3. f[0] \in queued
      BY <2>2, <3>2, Zenon DEF Numbers
    <3> QED BY <3>1, <3>2, <3>3, Zenon
  <2>4. ASSUME AddNext
        PROVE  temp' \in queued /\ arg' \in DOMAIN pcb \ queued /\ phase' = "add"
    <3>1. temp \in queued /\ arg \in DOMAIN pcb \ queued /\ phase = "add" /\ phase' = phase
          /\ arg' = arg /\ temp' = pcb[temp].next
      BY <2>4, Zenon DEF AddNext, RingInv
    <3>2. PICK j \in 0 .. n - 1 : f[j] = temp
      BY <2>2, <3>1, Zenon DEF Numbers
    <3> DEFINE m == IF j = n - 1 THEN 0 ELSE j + 1
    <3>3. m \in 0 .. n - 1
      OBVIOUS
    <3>4. pcb[temp].next = f[m]
      BY <2>2, <3>2, Zenon DEF Numbers
    <3> HIDE DEF m
    <3>5. f[m] \in queued
      BY <2>2, <3>3, Zenon DEF Numbers
    <3> QED BY <3>1, <3>4, <3>5, Zenon
  <2> QED BY <2>3, <2>4, Zenon
<1>3. SchedTypeOK'
  BY <1>1, <1>2, Typed DEF RingInv, SchedTypeOK
<1>4. ReadyRing'
  BY <1>1, Zenon DEF RingInv, ReadyRing, Numbers, Waits
<1> QED BY <1>1, <1>2, <1>3, <1>4, Zenon DEF RingInv, OneRunning

\* add_to_ready_queue links the new process in between the last node and the
\* head: it gets the next number.
LEMMA AddLastKeeps ==
  ASSUME RingInv, AddLast
  PROVE  RingInv'
<1>1. /\ temp \in queued /\ temp \in DOMAIN pcb /\ arg \in DOMAIN pcb /\ arg \notin queued
      /\ arg \in Pcbs /\ temp # arg
  BY Typed, Zenon DEF RingInv, AddLast
<1>2. /\ DOMAIN pcb' = DOMAIN pcb /\ pcb' = [q \in DOMAIN pcb |-> pcb'[q]]
      /\ \A q \in DOMAIN pcb :
           pcb'[q] = [pid |-> pcb[q].pid, state |-> pcb[q].state, esp |-> pcb[q].esp,
                      eip |-> pcb[q].eip,
                      next |-> IF q = arg THEN ready_queue_head
                               ELSE IF q = temp THEN arg ELSE pcb[q].next]
  BY <1>1, LinkedIs DEF AddLast
<1> DEFINE S == [q \in DOMAIN pcb |-> pcb[q].state]
           X == [q \in DOMAIN pcb |-> IF q = arg THEN ready_queue_head
                                      ELSE IF q = temp THEN arg ELSE pcb[q].next]
<1>3. waited' \in [Pcbs -> 0 .. MaxWait] /\ waited'[arg] = 0
      /\ \A q \in queued : waited'[q] = waited[q]
  BY <1>1, Typed DEF AddLast
<1>4. /\ SchedTypeOK'
      /\ \A q \in DOMAIN pcb' : pcb'[q].pid < next_pid'
      /\ \A q, r \in DOMAIN pcb' : pcb'[q].pid = pcb'[r].pid => q = r
  <2>1. ready_queue_head \in DOMAIN pcb \cup {NULL} /\ current_process \in DOMAIN pcb \cup {NULL}
    BY Zenon DEF RingInv, SchedTypeOK
  <2>2. S \in [DOMAIN pcb -> {"READY", "RUNNING"}] /\ X \in [DOMAIN pcb -> DOMAIN pcb \cup {NULL}]
    BY <1>1, <2>1, Typed, Zenon
  <2>3. \A q \in DOMAIN pcb :
          pcb'[q] = [pid |-> pcb[q].pid, state |-> S[q], esp |-> pcb[q].esp,
                     eip |-> pcb[q].eip, next |-> X[q]]
    BY <1>2, Zenon
  <2>4. /\ {ready_queue_head', current_process', arg', temp'} \subseteq DOMAIN pcb \cup {NULL}
        /\ phase' \in {"idle", "add"} /\ queued' \subseteq DOMAIN pcb /\ next_pid' = next_pid
    BY <1>1, <2>1, Typed, Zenon DEF AddLast
  <2> HIDE DEF S, X
  <2> QED BY <1>2, <1>3, <2>2, <2>3, <2>4, KeepsTypes
<1>5. ReadyRing'
  <2>1. PICK n \in Nat : \E g : /\ Numbers(n, g) /\ Waits(n, g)
                                /\ n = 0 <=> queued = {}
    BY Numbered, Zenon
  <2>2. PICK g : Numbers(n, g) /\ Waits(n, g) /\ (n = 0 <=> queued = {})
    BY <2>1, Zenon
  <2>3. n > 0
    BY <1>1, <2>2
  <2>4. PICK l \in 0 .. n - 1 : g[l] = temp
    BY <1>1, <2>2, Zenon DEF Numbers
  <2>5. l = n - 1
    <3> SUFFICES ASSUME l # n - 1
                 PROVE  FALSE
      BY Zenon
    <3>1. l + 1 \in 0 .. n - 1 /\ 0 \in 0 .. n - 1 /\ l + 1 # 0
      OBVIOUS
    <3>2. pcb[temp].next = g[l + 1] /\ ready_queue_head = g[0] /\ pcb[temp].next = ready_queue_head
      BY <2>2, <2>3, <2>4, Zenon DEF Numbers, AddLast
    <3> QED BY <2>2, <3>1, <3>2, Zenon DEF Numbers
  <2>0. PICK a : a = arg
    BY Zenon
  <2> DEFINE f == [j \in 0 .. (n + 1) - 1 |-> IF j = n THEN a ELSE g[j]]
  <2>6. /\ 0 .. (n + 1) - 1 = (0 .. n - 1) \cup {n} /\ n \notin 0 .. n - 1
        /\ 0 \in 0 .. n - 1 /\ n - 1 \in 0 .. n - 1
    BY <2>3
  <2>7. f[n] = arg /\ \A j \in 0 .. n - 1 : f[j] = g[j] /\ g[j] \in queued /\ g[j] # arg
    BY <1>1, <2>0, <2>2, <2>6 DEF Numbers
  <2>8. /\ queued' = queued \cup {arg} /\ ready_queue_head' = ready_queue_head
        /\ current_process' = current_process
    BY Zenon DEF AddLast
  <2>9. Numbers(n + 1, f)'
    <3>1. f \in [0 .. (n + 1) - 1 -> queued']
      BY <2>6, <2>7, <2>8, Zenon
    <3>2. \A p \in queued' : \E j \in 0 .. (n + 1) - 1 : f[j] = p
      <4>1. \A p \in queued : \E j \in 0 .. n - 1 : g[j] = p
        BY <2>2, Zenon DEF Numbers
      <4> QED BY <4>1, <2>6, <2>7, <2>8, Zenon
    <3>3. \A j, m \in 0 .. (n + 1) - 1 : f[j] = f[m] => j = m
      <4>1. \A j, m \in 0 .. n - 1 : g[j] = g[m] => j = m
        BY <2>2, Zenon DEF Numbers
      <4> HIDE DEF f
      <4> QED BY <4>1, <2>6, <2>7, Zenon
    <3>4. \A j \in 0 .. (n + 1) - 1 :
            pcb'[f[j]].next = f[IF j = (n + 1) - 1 THEN 0 ELSE j + 1]
      <4> TAKE j \in 0 .. (n + 1) - 1
      <4>1. CASE j = n
        <5>1. pcb'[arg].next = ready_queue_head /\ ready_queue_head = g[0]
          BY <1>1, <1>2, <2>2, <2>3 DEF Numbers
        <5> QED BY <4>1, <5>1, <2>6, <2>7
      <4>2. CASE j = n - 1
        <5>1. pcb'[temp].next = arg
          BY <1>1, <1>2
        <5>2. f[j] = temp
          BY <4>2, <2>4, <2>5, <2>6, <2>7, Zenon
        <5>3. f[IF j = (n + 1) - 1 THEN 0 ELSE j + 1] = f[n]
          BY <4>2
        <5> HIDE DEF f
        <5> QED BY <5>1, <5>2, <5>3, <2>7, Zenon
      <4>3. CASE j \in 0 .. n - 2
        <5>1. j \in 0 .. n - 1 /\ j + 1 \in 0 .. n - 1 /\ j # n - 1
          BY <4>3
        <5>2. pcb[g[j]].next = g[j + 1]
          BY <2>2, <5>1, Zenon DEF Numbers
        <5>3. g[j] # temp
          BY <2>2, <2>4, <2>5, <5>1, Zenon DEF Numbers
        <5>4. g[j] \in DOMAIN pcb /\ g[j] # arg
          BY <2>7, <5>1, Typed, Zenon
        <5>5. pcb'[g[j]].next = g[j + 1]
          BY <1>2, <5>2, <5>3, <5>4
        <5> QED BY <2>7, <4>3, <5>1, <5>5
      <4> HIDE DEF f
      <4>4. j = n \/ j = n - 1 \/ j \in 0 .. n - 2
        OBVIOUS
      <4> QED BY <4>1, <4>2, <4>3, <4>4, Zenon
    <3>5. ready_queue_head' = f[0] /\ n + 1 # 0
      BY <2>2, <2>3, <2>6, <2>7, <2>8 DEF Numbers
    <3> HIDE DEF f
    <3> QED BY <3>1, <3>2, <3>3, <3>4, <3>5, Zenon DEF Numbers
  <2>10. Waits(n + 1, f)'
    <3>1. current_process = NULL => \A p \in queued' : waited'[p] = 0
      BY <1>3, <2>2, <2>8, Zenon DEF Waits
    <3>2. ASSUME NEW c \in 0 .. (n + 1) - 1, NEW j \in 0 .. (n + 1) - 1, current_process = f[c]
          PROVE  waited'[f[j]] <= Distance(c, j, n + 1)
      <4>1. c \in 0 .. n - 1
        <5>1. current_process # arg
          BY <1>1, Typed DEF RingInv, OneRunning
        <5> QED BY <3>2, <5>1, <2>6, <2>7, Zenon
      <4>2. CASE j = n
        <5> HIDE DEF f
        <5>1. waited'[f[j]] = 0
          BY <1>3, <2>7, <4>2, Zenon
        <5>2. 0 <= Distance(c, j, n + 1)
          BY <4>1, <4>2 DEF Distance
        <5> QED BY <5>1, <5>2, Zenon
      <4>3. CASE j \in 0 .. n - 1
        <5>1. waited[g[j]] <= Distance(c, j, n)
          BY <2>2, <2>7, <3>2, <4>1, <4>3, Zenon DEF Waits
        <5> HIDE DEF f
        <5>2. waited'[f[j]] = waited[g[j]] /\ waited[g[j]] \in Nat
          <6>1. f[j] = g[j] /\ g[j] \in queued
            BY <2>7, <4>3, Zenon
          <6>2. \A q \in queued : waited[q] \in Nat
            BY Typed
          <6> QED BY <1>3, <6>1, <6>2
        <5> DEFINE w == waited[g[j]]
        <5>3. w \in Nat /\ w <= Distance(c, j, n)
          BY <5>1, <5>2, Zenon
        <5> HIDE DEF w
        <5>4. w <= Distance(c, j, n + 1)
          BY <4>1, <4>3, <5>3 DEF Distance
        <5> QED BY <5>2, <5>4, Zenon DEF w
      <4> QED BY <2>6, <4>2, <4>3, Zenon
    <3> HIDE DEF f
    <3> QED BY <2>8, <3>1, <3>2, Zenon DEF Waits
  <2> HIDE DEF f
  <2> QED BY <2>9, <2>10 DEF ReadyRing
<1>6. OneRunning'
  <2>1. \A q \in DOMAIN pcb : pcb'[q].state = pcb[q].state
    BY <1>2
  <2>2. {q \in DOMAIN pcb' : pcb'[q].state = "RUNNING"} = {q \in DOMAIN pcb : pcb[q].state = "RUNNING"}
    BY <1>2, <2>1, Zenon
  <2>3. current_process' = current_process /\ queued' = queued \cup {arg}
    BY Zenon DEF AddLast
  <2> QED BY <1>4, <2>2, <2>3, Zenon DEF OneRunning, RingInv
<1> QED BY <1>4, <1>5, <1>6, Zenon DEF RingInv, AddLast

\* schedule gives the CPU to the next number, and to the first at the start.
LEMMA ScheduleKeeps ==
  ASSUME RingInv, schedule
  PROVE  RingInv'
<1>1. PICK n \in Nat : \E g : /\ Numbers(n, g) /\ Waits(n, g)
                              /\ n = 0 <=> ready_queue_head = NULL
                              /\ n = 0 <=> queued = {}
  BY Numbered, Zenon
<1>2. PICK f : /\ Numbers(n, f) /\ Waits(n, f)
               /\ n = 0 <=> ready_queue_head = NULL
               /\ n = 0 <=> queued = {}
  BY <1>1, Zenon
<1>3. \A j \in 0 .. n - 1 : f[j] \in queued /\ f[j] \in DOMAIN pcb /\ f[j] \in Pcbs /\ f[j] # NULL
  BY <1>2, Typed DEF Numbers
\* The number of the process chosen, and what runs before it.
<1>4. \E m \in 0 .. n - 1 :
        /\ Chosen = f[m]
        /\ \/ current_process = NULL
           \/ m > 0 /\ current_process = f[m - 1]
           \/ m = 0 /\ current_process = f[n - 1]
  <2>1. CASE current_process = NULL
    <3>1. n # 0 /\ Chosen = ready_queue_head
      BY <1>2, <2>1, Zenon DEF Chosen, schedule
    <3>2. 0 \in 0 .. n - 1 /\ ready_queue_head = f[0]
      BY <1>2, <3>1 DEF Numbers
    <3> QED BY <2>1, <3>1, <3>2, Zenon
  <2>2. CASE current_process # NULL
    <3>1. current_process \in queued /\ Chosen = pcb[current_process].next
      BY <2>2, Zenon DEF RingInv, OneRunning, Chosen
    <3>2. PICK c \in 0 .. n - 1 : f[c] = current_process
      BY <1>2, <3>1, Zenon DEF Numbers
    <3>3. Chosen = f[IF c = n - 1 THEN 0 ELSE c + 1]
      BY <1>2, <3>1, <3>2, Zenon DEF Numbers
    <3>4. CASE c = n - 1
      <4>1. 0 \in 0 .. n - 1 /\ Chosen = f[0]
        BY <3>3, <3>4
      <4> QED BY <3>2, <3>4, <4>1, Zenon
    <3>5. CASE c # n - 1
      <4>1. c + 1 \in 0 .. n - 1 /\ Chosen = f[c + 1] /\ (c + 1) - 1 = c /\ c + 1 > 0
        BY <3>3, <3>5
      <4> QED BY <3>2, <4>1, Zenon
    <3> QED BY <3>4, <3>5, Zenon
  <2> QED BY <2>1, <2>2, Zenon
<1>5. PICK m \in 0 .. n - 1 :
        /\ Chosen = f[m]
        /\ \/ current_process = NULL
           \/ m > 0 /\ current_process = f[m - 1]
           \/ m = 0 /\ current_process = f[n - 1]
  BY <1>4, Zenon
<1>6. current_process' = f[m] /\ f[m] \in queued /\ f[m] \in DOMAIN pcb /\ f[m] # NULL
      /\ queued' = queued /\ ready_queue_head' = ready_queue_head
  BY <1>3, <1>5, Zenon DEF schedule
<1> DEFINE S == [q \in DOMAIN pcb |-> IF q = Chosen THEN "RUNNING"
                                      ELSE IF q = current_process THEN "READY" ELSE pcb[q].state]
           X == [q \in DOMAIN pcb |-> pcb[q].next]
<1>7. /\ DOMAIN pcb' = DOMAIN pcb /\ pcb' = [q \in DOMAIN pcb |-> pcb'[q]]
      /\ \A q \in DOMAIN pcb :
           pcb'[q] = [pid |-> pcb[q].pid, state |-> S[q], esp |-> pcb[q].esp,
                      eip |-> pcb[q].eip, next |-> X[q]]
  <2>1. pcb' = States(Chosen)
    BY Zenon DEF schedule
  <2>2. ASSUME NEW q \in DOMAIN pcb
        PROVE  pcb'[q] = [pid |-> pcb[q].pid, state |-> S[q], esp |-> pcb[q].esp,
                          eip |-> pcb[q].eip, next |-> X[q]]
    <3>1. ASSUME NEW x
          PROVE  [pcb[q] EXCEPT !.state = x] =
                   [pid |-> pcb[q].pid, state |-> x, esp |-> pcb[q].esp,
                    eip |-> pcb[q].eip, next |-> pcb[q].next]
      BY Typed
    <3>2. CASE q = Chosen
      <4>1. pcb'[q] = [pcb[q] EXCEPT !.state = "RUNNING"]
        BY <2>1, <3>2, Zenon DEF States
      <4> QED BY <3>1, <3>2, <4>1, Zenon
    <3>3. CASE q # Chosen /\ q = current_process
      <4>1. pcb'[q] = [pcb[q] EXCEPT !.state = "READY"]
        BY <2>1, <3>3, Zenon DEF States
      <4> QED BY <3>1, <3>3, <4>1, Zenon
    <3>4. CASE q # Chosen /\ q # current_process
      <4>1. pcb'[q] = pcb[q]
        BY <2>1, <3>4, Zenon DEF States
      <4>2. S[q] = pcb[q].state /\ X[q] = pcb[q].next
        BY <3>4, Zenon
      <4> QED BY <4>1, <4>2, Typed, Zenon
    <3> QED BY <3>2, <3>3, <3>4, Zenon
  <2> QED BY <2>1, <2>2, Zenon DEF States
<1>8. /\ waited' \in [Pcbs -> 0 .. MaxWait]
      /\ waited'[f[m]] = 0
      /\ \A q \in queued : waited[q] \in Nat /\ waited'[q] \in Nat /\ waited'[q] <= waited[q] + 1
  <2>1. \A q \in Pcbs : waited[q] \in 0 .. MaxWait /\ MaxWait \in Nat
    BY Typed, Zenon
  <2>2. /\ waited' = [q \in Pcbs |-> waited'[q]]
        /\ \A q \in Pcbs : waited'[q] = IF q \notin queued \ {Chosen} THEN 0
                                        ELSE IF waited[q] < MaxWait THEN waited[q] + 1
                                        ELSE waited[q]
    BY Zenon DEF schedule
  <2>3. ASSUME NEW q \in Pcbs
        PROVE  waited'[q] \in 0 .. MaxWait /\ waited'[q] <= waited[q] + 1
    <3>1. CASE q \notin queued \ {Chosen}
      BY <2>1, <2>2, <3>1
    <3>2. CASE q \in queued \ {Chosen}
      BY <2>1, <2>2, <3>2
    <3> QED BY <3>1, <3>2, Zenon
  <2>4. waited'[f[m]] = 0
    BY <1>3, <1>5, <2>2, Zenon
  <2> QED BY <2>1, <2>2, <2>3, <2>4, Typed
<1>9. /\ SchedTypeOK'
      /\ \A q \in DOMAIN pcb' : pcb'[q].pid < next_pid'
      /\ \A q, r \in DOMAIN pcb' : pcb'[q].pid = pcb'[r].pid => q = r
  <2>1. S \in [DOMAIN pcb -> {"READY", "RUNNING"}] /\ X \in [DOMAIN pcb -> DOMAIN pcb \cup {NULL}]
    BY Typed, Zenon
  <2>2. /\ {ready_queue_head', current_process', arg', temp'} \subseteq DOMAIN pcb \cup {NULL}
        /\ phase' \in {"idle", "add"} /\ queued' \subseteq DOMAIN pcb /\ next_pid' = next_pid
    <3>1. {ready_queue_head, arg, temp} \subseteq DOMAIN pcb \cup {NULL} /\ phase \in {"idle", "add"}
      BY Zenon DEF RingInv, SchedTypeOK
    <3>2. next_pid' = next_pid /\ phase' = phase /\ arg' = arg /\ temp' = temp
      BY Zenon DEF schedule
    <3> QED BY <1>6, <3>1, <3>2, Typed
  <2> HIDE DEF S, X
  <2>3. waited' \in [Pcbs -> 0 .. MaxWait]
    BY <1>8, Zenon
  <2> QED BY <1>7, <2>1, <2>2, <2>3, KeepsTypes
<1>10. Numbers(n, f)'
  <2>1. \A j \in 0 .. n - 1 : pcb'[f[j]].next = pcb[f[j]].next
    BY <1>3, <1>7
  <2> QED BY <1>2, <1>6, <2>1, Zenon DEF Numbers
<1>11. Waits(n, f)'
  <2>1. ASSUME NEW c \in 0 .. n - 1, NEW j \in 0 .. n - 1, current_process' = f[c]
        PROVE  waited'[f[j]] <= Distance(c, j, n)
    <3>1. c = m
      BY <1>2, <1>6, <2>1, Zenon DEF Numbers
    <3>2. CASE j = m
      BY <1>8, <3>1, <3>2 DEF Distance
    <3>3. CASE j # m
      <4> DEFINE w == waited[f[j]]
                 v == waited'[f[j]]
      <4>1. w \in Nat /\ v \in Nat /\ v <= w + 1
        BY <1>3, <1>8, Zenon
      <4>2. CASE current_process = NULL
        <5>1. w = 0
          BY <1>2, <1>3, <4>2, Zenon DEF Waits
        <5> HIDE DEF w, v
        <5>2. v <= Distance(c, j, n)
          BY <3>1, <3>3, <4>1, <5>1 DEF Distance
        <5> QED BY <5>2, Zenon DEF v
      <4>3. CASE m > 0 /\ current_process = f[m - 1]
        <5>1. m - 1 \in 0 .. n - 1
          BY <4>3
        <5>2. w <= Distance(m - 1, j, n)
          BY <1>2, <4>3, <5>1, Zenon DEF Waits
        <5> HIDE DEF w, v
        <5>3. v <= Distance(c, j, n)
          BY <3>1, <3>3, <4>1, <4>3, <5>2 DEF Distance
        <5> QED BY <5>3, Zenon DEF v
      <4>4. CASE m = 0 /\ current_process = f[n - 1]
        <5>1. n - 1 \in 0 .. n - 1
          OBVIOUS
        <5>2. w <= Distance(n - 1, j, n)
          BY <1>2, <4>4, <5>1, Zenon DEF Waits
        <5> HIDE DEF w, v
        <5>3. v <= Distance(c, j, n)
          BY <3>1, <3>3, <4>1, <4>4, <5>2 DEF Distance
        <5> QED BY <5>3, Zenon DEF v
      <4> QED BY <1>5, <4>2, <4>3, <4>4, Zenon
    <3> QED BY <3>2, <3>3, Zenon
  <2> QED BY <1>6, <2>1, Zenon DEF Waits
<1>12. ReadyRing'
  BY <1>10, <1>11, Zenon DEF ReadyRing
<1>13. OneRunning'
  <2>1. \A q \in DOMAIN pcb : pcb[q].state = "RUNNING" <=> q = current_process /\ q # NULL
    BY Zenon DEF RingInv, OneRunning
  <2>2. \A q \in DOMAIN pcb : pcb'[q].state = S[q]
    BY <1>7
  <2>3. \A q \in DOMAIN pcb : S[q] = "RUNNING" <=> q = f[m]
    BY <1>5, <2>1, Typed, Zenon
  <2> HIDE DEF S, X
  <2>4. {q \in DOMAIN pcb' : pcb'[q].state = "RUNNING"} = {f[m]}
    BY <1>6, <1>7, <2>2, <2>3
  <2>5. {f[m]} = {current_process'} \ {NULL}
    BY <1>6, Zenon
  <2> QED BY <1>6, <1>9, <2>4, <2>5, Zenon DEF OneRunning
<1>14. (phase = "add" => temp \in queued /\ arg \in DOMAIN pcb \ queued)'
  BY Zenon DEF schedule
<1> HIDE DEF S, X
<1> QED BY <1>9, <1>12, <1>13, <1>14, Zenon DEF RingInv

-----------------------------------------------------------------------------
LEMMA RingInvInductive == RingInv /\ [SchedNext]_schedVars => RingInv'
<1> SUFFICES ASSUME RingInv, [SchedNext]_schedVars
             PROVE  RingInv'
  BY Zenon
<1>1. CASE UNCHANGED schedVars
  <2>1. SchedTypeOK' = SchedTypeOK /\ OneRunning' = OneRunning
    BY <1>1, Zenon DEF schedVars, SchedTypeOK, OneRunning
  <2>2. ReadyRing'
    BY <1>1, Zenon DEF schedVars, RingInv, ReadyRing, Numbers, Waits
  <2> QED BY <1>1, <2>1, <2>2, Zenon DEF schedVars, RingInv
<1>2. CASE \E p \in Pcbs, e \in Entries : create_process(p, e)
  BY <1>2, CreateKeeps, Zenon
<1>3. CASE \E p \in DOMAIN pcb \ queued : AddFirst(p)
  BY <1>3, AddFirstKeeps, Zenon
<1>4. CASE (\E p \in DOMAIN pcb \ queued : AddWalk(p)) \/ AddNext
  BY <1>4, WalkKeeps, Zenon
<1>5. CASE AddLast
  BY <1>5, AddLastKeeps, Zenon
<1>6. CASE schedule
  BY <1>6, ScheduleKeeps, Zenon
<1>7. CASE CreateFails \/ ScheduleNothing
  BY <1>1, <1>7, Zenon DEF CreateFails, ScheduleNothing
<1> QED BY <1>1, <1>2, <1>3, <1>4, <1>5, <1>6, <1>7, Zenon DEF SchedNext

\* A numbering counts the queued processes.
LEMMA RingSize ==
  ASSUME NEW n \in Nat, NEW f, Numbers(n, f)
  PROVE  Cardinality(queued) = n
<1> DEFINE g == [i \in 1 .. n |-> f[i - 1]]
<1>1. \A i \in 1 .. n : i - 1 \in 0 .. n - 1
  OBVIOUS
<1>2. g \in [1 .. n -> queued]
  BY <1>1, Zenon DEF Numbers
<1>3. \A i, k \in 1 .. n : g[i] = g[k] => i = k
  BY <1>1 DEF Numbers
<1>4. \A p \in queued : \E i \in 1 .. n : g[i] = p
  <2> TAKE p \in queued
  <2>1. PICK j \in 0 .. n - 1 : f[j] = p
    BY Zenon DEF Numbers
  <2>2. j + 1 \in 1 .. n /\ (j + 1) - 1 = j
    OBVIOUS
  <2> QED BY <2>1, <2>2, Zenon
<1> HIDE DEF g
<1>5. g \in Bijection(1 .. n, queued)
  <2>1. g \in Injection(1 .. n, queued)
    BY <1>2, <1>3, Zenon DEF Injection, IsInjective
  <2>2. g \in Surjection(1 .. n, queued)
    BY <1>2, <1>4, Zenon DEF Surjection
  <2> QED BY <2>1, <2>2, Zenon DEF Bijection
<1>6. ExistsBijection(1 .. n, queued)
  BY <1>5, Zenon DEF ExistsBijection
<1> QED BY <1>6, FS_CountingElements, Zenon

LEMMA RingInvHolds == SchedSpec => []RingInv
<1>1. SchedInit => RingInv
  BY InitInv, Zenon
<1> QED BY <1>1, RingInvInductive, PTL DEF SchedSpec

LEMMA RingInvBounds == RingInv => BoundedWait
<1> SUFFICES ASSUME RingInv, NEW p \in queued
             PROVE  waited[p] < Cardinality(queued)
  BY Zenon DEF BoundedWait
<1>1. PICK n \in Nat : \E g : Numbers(n, g) /\ Waits(n, g)
  BY Zenon DEF RingInv, ReadyRing
<1>2. PICK f : Numbers(n, f) /\ Waits(n, f)
  BY <1>1, Zenon
<1>3. Cardinality(queued) = n
  BY <1>2, RingSize, Zenon
<1>4. PICK j \in 0 .. n - 1 : f[j] = p
  BY <1>2, Zenon DEF Numbers
<1> DEFINE w == waited[p]
<1>5. w \in Nat
  BY Typed
<1>6. CASE current_process = NULL
  <2>1. w = 0
    BY <1>2, <1>6, Zenon DEF Waits
  <2> HIDE DEF w
  <2>2. w < n
    BY <2>1
  <2> QED BY <1>3, <2>2, Zenon DEF w
<1>7. CASE current_process # NULL
  <2>1. current_process \in queued
    BY <1>7, Zenon DEF RingInv, OneRunning
  <2>2. PICK c \in 0 .. n - 1 : f[c] = current_process
    BY <1>2, <2>1, Zenon DEF Numbers
  <2>3. w <= Distance(c, j, n)
    BY <1>2, <1>4, <2>2, Zenon DEF Waits
  <2> HIDE DEF w
  <2>4. w < n
    BY <1>5, <2>3 DEF Distance
  <2> QED BY <1>3, <2>4, Zenon DEF w
<1> QED BY <1>6, <1>7, Zenon

\* schedule keeps exactly one process RUNNING, the one in current_process,
\* that process is in the ready list, and create_process never gives a pid
\* twice, however many processes there are.
THEOREM OneProcessRuns == SchedSpec => []OneRunning
<1>1. RingInv => OneRunning
  BY Zenon DEF RingInv
<1> QED BY <1>1, RingInvHolds, PTL

\* add_to_ready_queue keeps the list one ring through exactly the processes
\* queued, numbered from ready_queue_head along next, also while it walks.
THEOREM ReadyListIsRing == SchedSpec => []ReadyRing
<1>1. RingInv => ReadyRing
  BY Zenon DEF RingInv
<1> QED BY <1>1, RingInvHolds, PTL

\* Between two turns of a queued process schedule passes it over at most once
\* for each other process queued, even while add_to_ready_queue makes the ring
\* longer.
THEOREM WaitIsBounded == SchedSpec => []BoundedWait
<1> QED BY RingInvBounds, RingInvHolds, PTL

\* Every nonempty set of naturals has a least element: the form of induction
\* used below.
LEMMA Least ==
  ASSUME NEW S, S \subseteq Nat, S # {}
  PROVE  \E x \in S : \A y \in S : x <= y
<1>1. \E R : IsWellFoundedOn(R, Nat) /\ \A x, y \in Nat : <<x, y>> \in R <=> x < y
  <2> DEFINE R == OpToRel(<, Nat)
  <2>1. IsWellFoundedOn(R, Nat)
    BY NatLessThanWellFounded, Zenon
  <2>2. \A x, y \in Nat : <<x, y>> \in R <=> x < y
    BY Zenon DEF OpToRel
  <2> HIDE DEF R
  <2> QED BY <2>1, <2>2, Zenon
<1>2. PICK R : IsWellFoundedOn(R, Nat) /\ \A x, y \in Nat : <<x, y>> \in R <=> x < y
  BY <1>1, Zenon
<1>3. IsWellFoundedOn(R, Nat)
  BY <1>2, Zenon
<1>4. \A x, y \in Nat : x < y => <<x, y>> \in R
  BY <1>2, Zenon
<1>5. PICK x \in S : \A y \in S : ~(<<y, x>> \in R)
  BY <1>3, WFMin, Zenon
<1>6. \A y \in S : ~(y < x)
  BY <1>4, <1>5, Zenon
<1> QED BY <1>6

\* The recursion of Reached: w[i] is what at most i steps from p reach.
Walks(w, p, n) ==
  w = [i \in 0 .. n |->
         IF i = 0 THEN {p} ELSE w[i - 1] \cup {pcb[q].next : q \in w[i - 1]}]

\* It determines w.
LEMMA WalksAgree ==
  ASSUME NEW p, NEW n \in Nat, NEW v, Walks(v, p, n), NEW w, Walks(w, p, n)
  PROVE  w[n] = v[n]
<1> DEFINE S == {i \in 0 .. n : w[i] # v[i]}
<1> SUFFICES S = {}
  OBVIOUS
<1> SUFFICES ASSUME S # {}
             PROVE  FALSE
  BY Zenon
<1>1. PICK i \in S : \A y \in S : i <= y
  <2>1. S \subseteq Nat
    OBVIOUS
  <2> HIDE DEF S
  <2> QED BY <2>1, Least, Zenon
<1>2. i \in 0 .. n /\ w[i] # v[i]
  BY Zenon
<1>3. CASE i = 0
  BY <1>2, <1>3, Zenon DEF Walks
<1>4. CASE i # 0
  <2>1. i - 1 \in 0 .. n /\ i - 1 \notin S
    BY <1>1, <1>2, <1>4
  <2>2. w[i - 1] = v[i - 1]
    BY <2>1, Zenon
  <2>3. w[i] = w[i - 1] \cup {pcb[q].next : q \in w[i - 1]}
    BY <1>2, <1>4, Zenon DEF Walks
  <2>4. v[i] = v[i - 1] \cup {pcb[q].next : q \in v[i - 1]}
    BY <1>2, <1>4, Zenon DEF Walks
  <2> QED BY <1>2, <2>2, <2>3, <2>4, Zenon
<1> QED BY <1>3, <1>4, Zenon

LEMMA ReachedIs ==
  ASSUME NEW p, NEW n \in Nat, NEW w, Walks(w, p, n)
  PROVE  Reached(p, n) = w[n]
<1>1. \E v : Walks(v, p, n) /\ Reached(p, n) = v[n]
  BY Zenon DEF Walks, Reached
<1> QED BY <1>1, WalksAgree, Zenon

\* From node j of a ring of n, at most i steps reach the nodes numbered from j
\* on, past the last to the first, and n steps reach all.
LEMMA RingReached ==
  ASSUME NEW n \in Nat, NEW f, Numbers(n, f), NEW p \in queued
  PROVE  Reached(p, n) = queued
<1>1. PICK j \in 0 .. n - 1 : f[j] = p
  BY Zenon DEF Numbers
<1> DEFINE N(k) == IF j + k < n THEN j + k ELSE j + k - n
           W(i) == {f[N(k)] : k \in 0 .. i}
           w == [i \in 0 .. n |-> W(i)]
<1>2. \A k \in 0 .. n : N(k) \in 0 .. n - 1
  OBVIOUS
<1>3. \A k \in 0 .. n - 1 : N(k + 1) = IF N(k) = n - 1 THEN 0 ELSE N(k) + 1
  OBVIOUS
<1>4. N(0) = j
  OBVIOUS
<1>5. \A l \in 0 .. n - 1 : \E k \in 0 .. n : N(k) = l
  <2> SUFFICES ASSUME NEW l \in 0 .. n - 1
               PROVE  \E k \in 0 .. n : N(k) = l
    BY Zenon
  <2>1. CASE l >= j
    <3>1. l - j \in 0 .. n /\ N(l - j) = l
      BY <2>1
    <3> QED BY <3>1, Zenon
  <2>2. CASE l < j
    <3>1. (l + n) - j \in 0 .. n /\ N((l + n) - j) = l
      BY <2>2
    <3> QED BY <3>1, Zenon
  <2> QED BY <2>1, <2>2
<1> HIDE DEF N
<1>6. \A k \in 0 .. n - 1 : pcb[f[N(k)]].next = f[N(k + 1)]
  <2> TAKE k \in 0 .. n - 1
  <2>1. N(k) \in 0 .. n - 1
    BY <1>2
  <2>2. pcb[f[N(k)]].next = f[IF N(k) = n - 1 THEN 0 ELSE N(k) + 1]
    BY <2>1, Zenon DEF Numbers
  <2> QED BY <1>3, <2>2, Zenon
<1>7. W(0) = {p}
  BY <1>1, <1>4
<1>8. ASSUME NEW i \in 1 .. n
      PROVE  W(i) = W(i - 1) \cup {pcb[q].next : q \in W(i - 1)}
  <2>1. ASSUME NEW x \in W(i)
        PROVE  x \in W(i - 1) \cup {pcb[q].next : q \in W(i - 1)}
    <3>1. PICK k \in 0 .. i : x = f[N(k)]
      BY Zenon
    <3>2. CASE k = 0
      BY <3>1, <3>2
    <3>3. CASE k # 0
      <4>1. k - 1 \in 0 .. i - 1 /\ k - 1 \in 0 .. n - 1 /\ (k - 1) + 1 = k
        BY <3>3
      <4>2. pcb[f[N(k - 1)]].next = f[N((k - 1) + 1)]
        BY <1>6, <4>1, Zenon
      <4>3. x = pcb[f[N(k - 1)]].next
        BY <3>1, <4>1, <4>2, Zenon
      <4> QED BY <4>1, <4>3, Zenon
    <3> QED BY <3>2, <3>3, Zenon
  <2>2. W(i - 1) \subseteq W(i)
    OBVIOUS
  <2>3. ASSUME NEW q \in W(i - 1)
        PROVE  pcb[q].next \in W(i)
    <3>1. PICK k \in 0 .. i - 1 : q = f[N(k)]
      BY Zenon
    <3>2. k \in 0 .. n - 1 /\ k + 1 \in 0 .. i
      OBVIOUS
    <3> QED BY <1>6, <3>1, <3>2, Zenon
  <2> HIDE DEF W
  <2> QED BY <2>1, <2>2, <2>3, Zenon
<1>9. Walks(w, p, n)
  <2> HIDE DEF W
  <2> QED BY <1>7, <1>8 DEF Walks
<1>10. W(n) = queued
  <2>1. \A q \in queued : \E k \in 0 .. n : f[N(k)] = q
    <3> TAKE q \in queued
    <3>1. PICK l \in 0 .. n - 1 : f[l] = q
      BY Zenon DEF Numbers
    <3> QED BY <1>5, <3>1, Zenon
  <2>2. \A k \in 0 .. n : f[N(k)] \in queued
    BY <1>2, Zenon DEF Numbers
  <2> QED BY <2>1, <2>2, Zenon
<1>11. w[n] = W(n)
  <2> HIDE DEF W
  <2> QED OBVIOUS
<1> HIDE DEF w, W
<1> QED BY <1>9, <1>10, <1>11, ReachedIs, Zenon

\* The ready list stays a ring through exactly the processes queued, also
\* while add_to_ready_queue (scheduler.c:12) walks it: from any of them next
\* leads to all of them, and no two share a successor.
THEOREM RingStaysIntact == SchedSpec => []RingIntact
<1>1. ASSUME RingInv
      PROVE  RingIntact
  <2>1. PICK n \in Nat : \E g : Numbers(n, g) /\ Waits(n, g)
    BY <1>1, Zenon DEF RingInv, ReadyRing
  <2>2. PICK f : Numbers(n, f)
    BY <2>1, Zenon
  <2>3. Cardinality(queued) = n
    BY <2>2, RingSize, Zenon
  <2>4. SchedTypeOK
    BY <1>1, Zenon DEF RingInv
  <2>5. ready_queue_head = NULL <=> queued = {}
    <3>1. CASE n = 0
      BY <2>2, <3>1 DEF Numbers
    <3>2. CASE n # 0
      <4>1. 0 \in 0 .. n - 1
        BY <3>2
      <4>2. f[0] \in queued /\ ready_queue_head = f[0]
        BY <2>2, <3>2, <4>1, Zenon DEF Numbers
      <4>3. f[0] # NULL
        BY <2>4, <4>2, SchedulerAssumption, Zenon DEF SchedTypeOK
      <4> QED BY <4>2, <4>3, Zenon
    <3> QED BY <3>1, <3>2, Zenon
  <2>6. \A p \in queued : Reached(p, Cardinality(queued)) = queued
    BY <2>2, <2>3, RingReached, Zenon
  <2>7. ASSUME NEW p \in queued, NEW q \in queued, pcb[p].next = pcb[q].next
        PROVE  p = q
    <3>1. PICK a \in 0 .. n - 1 : f[a] = p
      BY <2>2, Zenon DEF Numbers
    <3>2. PICK b \in 0 .. n - 1 : f[b] = q
      BY <2>2, Zenon DEF Numbers
    <3> DEFINE N(k) == IF k = n - 1 THEN 0 ELSE k + 1
    <3>3. f[N(a)] = f[N(b)] /\ N(a) \in 0 .. n - 1 /\ N(b) \in 0 .. n - 1
      BY <2>2, <2>7, <3>1, <3>2 DEF Numbers
    <3>4. N(a) = N(b)
      <4> HIDE DEF N
      <4> QED BY <2>2, <3>3, Zenon DEF Numbers
    <3>5. a = b
      BY <3>4
    <3> QED BY <3>1, <3>2, <3>5, Zenon
  <2> QED BY <2>4, <2>5, <2>6, <2>7, Zenon DEF RingIntact
<1> QED BY <1>1, RingInvHolds, PTL
=============================================================================
