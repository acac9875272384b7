------------------------------- MODULE MCPmm -------------------------------
\* Memory maps of a machine with six pages of four bytes.
EXTENDS Pmm

Region(base, length, type) == [base |-> base, length |-> length, type |-> type]

\* Unaligned ends, a hole, a region that reaches beyond the simulated memory,
\* one that lies wholly beyond it, and a second report of the same RAM.
MCRegions ==
  {Region(0, 9, "MMAP_FREE"), Region(9, 1, "MMAP_RESERVED"),
   Region(10, 18, "MMAP_FREE"), Region(28, 8, "MMAP_FREE"),
   Region(4, 9, "MMAP_FREE")}

\* A free region that contains no page boundary.
MCSliver == {Region(0, 8, "MMAP_FREE"), Region(9, 1, "MMAP_FREE")}
=============================================================================
