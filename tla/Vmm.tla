-------------------------------- MODULE Vmm --------------------------------
(***************************************************************************)
(* The virtual memory manager (vmm/vmm.c): four levels of page tables in   *)
(* pages taken from the physical page allocator, which other callers use   *)
(* at the same time.                                                       *)
(*                                                                         *)
(* Mapping is one step per level of one page, so a call that runs out of   *)
(* memory stops where the code stops.  vmm_map is vmm_map_range of one     *)
(* page; vmm_unmap and vmm_unmap_range of one page differ in what they     *)
(* return.                                                                 *)
(***************************************************************************)
EXTENDS Integers, FiniteSets

CONSTANTS
  Entries,     \* entries of a page table, a power of two
  PAGE_SIZE,
  NPages,      \* pages the physical allocator starts with
  Virts,       \* virtual addresses callers pass
  Physs,       \* physical addresses callers map
  Flags,       \* the flags of a mapping
  Counts,      \* lengths of ranges, in pages
  MaxHeld      \* bound on the pages other callers take

ASSUME VmmAssumption ==
  /\ Entries \in Nat \ {0} /\ PAGE_SIZE \in Nat \ {0} /\ NPages \in Nat
  /\ Virts \subseteq Nat /\ Physs \subseteq Nat /\ Counts \subseteq Nat \ {0}
  /\ MaxHeld \in Nat

Pages  == 0 .. NPages - 1
Index  == 0 .. Entries - 1
VPages == 0 .. Entries * Entries * Entries * Entries - 1

\* NULL as a table, -1 as a physical address; an entry that is not present.
NULL   == -1
Absent == [page |-> NULL, flags |-> "none"]

VARIABLES
  free,    \* pages free in the physical allocator
  held,    \* pages its other callers hold
  tables,  \* page -> contents, for the pages that are page tables
  pml4,    \* the root table, or NULL
  mapped,  \* the count of mapped pages
  pc,      \* "boot", "idle", "map" or "unmap"
  req,     \* the arguments of the call
  i,       \* pages of the range done
  level,   \* level of the table at hand
  table,   \* the table at hand
  result   \* what the last call returned

vars == <<free, held, tables, pml4, mapped, pc, req, i, level, table, result>>

NoRequest == [virt |-> 0, phys |-> 0, flags |-> "none", pages |-> 0, ranged |-> FALSE]

\* vmm_init finds the physical allocator fresh or exhausted.
Init ==
  /\ free \in {Pages, {}} /\ held = Pages \ free
  /\ tables = [t \in {} |-> 0]
  /\ pml4 = NULL
  /\ mapped = 0
  /\ pc = "boot"
  /\ req = NoRequest
  /\ i = 0 /\ level = 0 /\ table = NULL
  /\ result = 0

-----------------------------------------------------------------------------
\* pmm_alloc returns the lowest free page, zeroed.
pmm_alloc == CHOOSE p \in free : \A q \in free : p <= q

Zeroed == [x \in Index |-> Absent]

\* tables with a new table in page p.
WithTable(p) == [t \in DOMAIN tables \cup {p} |-> IF t = p THEN Zeroed ELSE tables[t]]

\* The index of virtual address va at a level: PML4_INDEX is level 4,
\* PT_INDEX level 1.
PageOf(va) == va \div PAGE_SIZE

PagesPerEntry == <<1, Entries, Entries * Entries, Entries * Entries * Entries>>

IndexAt(va, l) == (PageOf(va) \div PagesPerEntry[l]) % Entries

vmm_init ==
  /\ pc = "boot"
  /\ pc' = "idle" /\ mapped' = 0
  /\ IF free = {} THEN UNCHANGED <<free, tables, pml4>>
     ELSE /\ pml4' = pmm_alloc
          /\ free' = free \ {pmm_alloc}
          /\ tables' = WithTable(pmm_alloc)
  /\ UNCHANGED <<held, req, i, level, table, result>>

-----------------------------------------------------------------------------
\* vmm_map and vmm_map_range.

Return(r) ==
  /\ pc' = "idle" /\ result' = r
  /\ req' = NoRequest /\ i' = 0 /\ level' = 0 /\ table' = NULL

MapCall(virt, phys, flags, pages) ==
  /\ pc = "idle" /\ pml4 # NULL
  /\ pc' = "map"
  /\ req' = [virt |-> virt, phys |-> phys, flags |-> flags, pages |-> pages,
             ranged |-> TRUE]
  /\ i' = 0 /\ level' = 4 /\ table' = pml4
  /\ UNCHANGED <<free, held, tables, pml4, mapped, result>>

\* Without a root table vmm_map returns -1, and vmm_map_range with it.
MapNoRoot ==
  /\ pc = "idle" /\ pml4 = NULL
  /\ result' = -1
  /\ UNCHANGED <<free, held, tables, pml4, mapped, pc, req, i, level, table>>

VirtAt(k) == req.virt + k * PAGE_SIZE

PhysStuck(k) == req.phys

PhysAt(k) == req.phys + k * PAGE_SIZE

Slot == IndexAt(VirtAt(i), level)

\* get_or_create_table on an entry that is present.
MapDescend ==
  /\ pc = "map" /\ level > 1 /\ tables[table][Slot] # Absent
  /\ table' = tables[table][Slot].page
  /\ level' = level - 1
  /\ UNCHANGED <<free, held, tables, pml4, mapped, pc, req, i, result>>

LinkFlags == "PRESENT|WRITABLE|USER"

CreatedUnlinked == WithTable(pmm_alloc)

\* The tables after a new one is linked into the free slot.
Created ==
  [WithTable(pmm_alloc) EXCEPT
     ![table][Slot] = [page |-> pmm_alloc, flags |-> LinkFlags]]

\* get_or_create_table on an entry that is not.
MapCreate ==
  /\ pc = "map" /\ level > 1 /\ tables[table][Slot] = Absent
  /\ free # {}
  /\ tables' = Created
  /\ free' = free \ {pmm_alloc}
  /\ table' = pmm_alloc
  /\ level' = level - 1
  /\ UNCHANGED <<held, pml4, mapped, pc, req, i, result>>

MapNoMemory ==
  /\ pc = "map" /\ level > 1 /\ tables[table][Slot] = Absent
  /\ free = {}
  /\ Return(-1)
  /\ UNCHANGED <<free, held, tables, pml4, mapped>>

CountedAlways == mapped + 1

\* The count after the page at hand is mapped: a remapping is no new page.
Counted == IF tables[table][Slot] = Absent THEN mapped + 1 ELSE mapped

MapSet ==
  /\ pc = "map" /\ level = 1
  /\ tables' = [tables EXCEPT ![table][Slot] =
                  [page |-> PageOf(PhysAt(i)), flags |-> req.flags]]
  /\ mapped' = Counted
  /\ IF i + 1 < req.pages
       THEN /\ i' = i + 1 /\ level' = 4 /\ table' = pml4
            /\ UNCHANGED <<pc, req, result>>
       ELSE Return(0)
  /\ UNCHANGED <<free, held, pml4>>

-----------------------------------------------------------------------------
\* walk_table: the last-level table for va, or NULL.

Below(t, va, l) ==
  IF t = NULL THEN NULL
  ELSE IF tables[t][IndexAt(va, l)] = Absent THEN NULL
  ELSE tables[t][IndexAt(va, l)].page

walk_table(va) == Below(Below(Below(pml4, va, 4), va, 3), va, 2)

EntryOf(va) ==
  IF walk_table(va) = NULL THEN Absent ELSE tables[walk_table(va)][IndexAt(va, 1)]

vmm_translate(va) ==
  IF EntryOf(va) = Absent THEN -1
  ELSE EntryOf(va).page * PAGE_SIZE + (va % PAGE_SIZE)

UnmapCall(virt, pages, ranged) ==
  /\ pc = "idle"
  /\ ranged \/ pages = 1
  /\ pc' = "unmap"
  /\ req' = [NoRequest EXCEPT !.virt = virt, !.pages = pages, !.ranged = ranged]
  /\ i' = 0
  /\ UNCHANGED <<free, held, tables, pml4, mapped, level, table, result>>

Cleared(va) == [tables EXCEPT ![walk_table(va)][IndexAt(va, 1)] = Absent]

\* The count after the page at hand is unmapped, if it was there.
Discounted(there) == IF there THEN mapped - 1 ELSE mapped

\* vmm_unmap(va) as the i-th page of the call.  It reports an absent page, as
\* all are without a root table; vmm_unmap_range ignores the report and
\* returns 0.
vmm_unmap(va) ==
  LET there == EntryOf(va) # Absent IN
  /\ pc = "unmap"
  /\ tables' = IF there THEN Cleared(va) ELSE tables
  /\ mapped' = Discounted(there)
  /\ IF i + 1 < req.pages
       THEN i' = i + 1 /\ UNCHANGED <<pc, req, level, table, result>>
       ELSE Return(IF req.ranged \/ there THEN 0 ELSE -1)
  /\ UNCHANGED <<free, held, pml4>>

UnmapStuck == vmm_unmap(req.virt)

UnmapPage == vmm_unmap(VirtAt(i))

-----------------------------------------------------------------------------
\* Other users of the physical allocator, between calls.
OtherAlloc ==
  /\ pc = "idle" /\ free # {} /\ Cardinality(held) < MaxHeld
  /\ free' = free \ {pmm_alloc} /\ held' = held \cup {pmm_alloc}
  /\ UNCHANGED <<tables, pml4, mapped, pc, req, i, level, table, result>>

OtherFree(p) ==
  /\ pc = "idle"
  /\ free' = free \cup {p} /\ held' = held \ {p}
  /\ UNCHANGED <<tables, pml4, mapped, pc, req, i, level, table, result>>

Call == MapDescend \/ MapCreate \/ MapNoMemory \/ MapSet \/ UnmapPage

Next ==
  \/ vmm_init \/ MapNoRoot
  \/ \E virt \in Virts, pages \in Counts :
       \/ \E phys \in Physs, flags \in Flags : MapCall(virt, phys, flags, pages)
       \/ \E ranged \in BOOLEAN : UnmapCall(virt, pages, ranged)
  \/ Call
  \/ OtherAlloc \/ \E p \in held : OtherFree(p)

Spec == Init /\ [][Next]_vars

-----------------------------------------------------------------------------
(* Properties                                                              *)

Entry == [page : Nat, flags : Flags \cup {LinkFlags}] \cup {Absent}

\* Every variable holds a value of its type; the walk is always at a table.
TypeOK ==
  /\ free \subseteq Pages /\ held \subseteq Pages
  /\ DOMAIN tables \subseteq Pages
  /\ tables \in [DOMAIN tables -> [Index -> Entry]]
  /\ pml4 \in DOMAIN tables \cup {NULL}
  /\ mapped \in Nat
  /\ pc \in {"boot", "idle", "map", "unmap"}
  /\ i \in Nat /\ level \in 0 .. 4
  /\ table \in DOMAIN tables \cup {NULL}
  /\ pc = "map" => table # NULL
  /\ result \in {0, -1}

\* The slots in use of the tables in S, and the pages linked from them.
LinksOf(S) == {l \in S \X Index : tables[l[1]][l[2]] # Absent}
LinkedFrom(S) == {tables[l[1]][l[2]].page : l \in LinksOf(S)}

\* The tables form a tree of depth four: every page taken for a table hangs
\* in one place of one level, none is reachable along two paths or lost, and
\* none is free or another caller's page.
TablesAreTree ==
  LET T4 == {pml4} \ {NULL}
      T3 == LinkedFrom(T4)
      T2 == LinkedFrom(T3)
      T1 == LinkedFrom(T2)
  IN  /\ TypeOK
      /\ DOMAIN tables = T4 \cup T3 \cup T2 \cup T1
      /\ Cardinality(DOMAIN tables)
           = Cardinality(T4) + Cardinality(LinksOf(T4 \cup T3 \cup T2))
      /\ DOMAIN tables \cup free \cup held = Pages
      /\ free \cap held = {} /\ DOMAIN tables \cap (free \cup held) = {}

\* The virtual pages that translate, with their frames and flags.
Mapping ==
  [v \in {w \in VPages : EntryOf(w * PAGE_SIZE) # Absent} |-> EntryOf(v * PAGE_SIZE)]

\* The count in vmm_t is the number of pages that translate, through
\* remappings, failed calls and unmappings of pages that are not mapped.
MappedCounted == mapped = Cardinality(DOMAIN Mapping)

\* A call to map a range that returns 0 has mapped every page of it, offsets
\* included; one that returns -1 ran out of memory for a table.
MapMeansMapped ==
  [][pc = "map" /\ pc' = "idle" =>
       IF result' = 0
         THEN \A k \in 0 .. req.pages - 1 : \E va \in {VirtAt(k)} :
                vmm_translate(va)'
                  = (PageOf(req.phys) + k) * PAGE_SIZE + (va % PAGE_SIZE)
         ELSE free = {}]_vars

\* What is left of the call in progress, in pages and frames.
Asked ==
  [op |-> IF pc \in {"map", "unmap"} THEN pc ELSE "none",
   page |-> PageOf(VirtAt(i)), frame |-> PageOf(PhysAt(i)), flags |-> req.flags,
   left |-> req.pages - i, ranged |-> req.ranged]

Abstract ==
  INSTANCE AddressSpace WITH
    Size <- Entries * Entries * Entries * Entries,
    Starts <- {PageOf(va) : va \in Virts}, Firsts <- {PageOf(p) : p \in Physs},
    mapping <- Mapping, call <- Asked

\* The page tables implement the abstract address space.  vmm_map_range and
\* vmm_unmap_range change the translation of the pages they were asked for,
\* each once, in order, to the frame and flags they were asked for, and of no
\* other page: not when tables are built on the way, when memory runs out in
\* the middle, or when other users take and give back pages.  vmm_unmap
\* reports whether its page was mapped.
ImplementsAddressSpace == Abstract!Spec
=============================================================================
