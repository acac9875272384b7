----------------------------- MODULE Descriptors -----------------------------
(***************************************************************************)
(* The segment descriptors of gdt.c and the gates of idt.c: how the code   *)
(* packs them, how the CPU takes them apart, and where that leads an       *)
(* interrupt.                                                              *)
(***************************************************************************)
EXTENDS Integers

\* Vectors above 47 have neither a gate nor a source.
Vectors == 0 .. 47

-----------------------------------------------------------------------------
\* Segments.

GDT_ACCESS_PRESENT    == 128
GDT_ACCESS_RING3      == 96
GDT_ACCESS_DESCRIPTOR == 16
GDT_ACCESS_EXECUTABLE == 8
GDT_ACCESS_RW         == 2

GDT_KERNEL_CODE_ACCESS ==
  GDT_ACCESS_PRESENT + GDT_ACCESS_DESCRIPTOR + GDT_ACCESS_EXECUTABLE + GDT_ACCESS_RW
GDT_KERNEL_DATA_ACCESS == GDT_ACCESS_PRESENT + GDT_ACCESS_DESCRIPTOR + GDT_ACCESS_RW
GDT_USER_CODE_ACCESS == GDT_KERNEL_CODE_ACCESS + GDT_ACCESS_RING3
GDT_USER_DATA_ACCESS == GDT_KERNEL_DATA_ACCESS + GDT_ACCESS_RING3

GDT_FLAGS == 128 + 64  \* limit in pages, 32-bit

gdt_set_entry(base, limit, access, granularity) ==
  [limit_low   |-> limit % 65536,
   base_low    |-> base % 65536,
   base_mid    |-> (base \div 65536) % 256,
   access      |-> access,
   granularity |-> ((limit \div 65536) % 16) + (granularity - (granularity % 16)),
   base_high   |-> (base \div 16777216) % 256]

GDT_ENTRY_COUNT == 5

\* The table gdt_init builds, and the limit it gives the CPU.
gdt ==
  [n \in 0 .. GDT_ENTRY_COUNT - 1 |->
     CASE n = 0 -> gdt_set_entry(0, 0, 0, 0)
       [] n = 1 -> gdt_set_entry(0, 1048575, GDT_KERNEL_CODE_ACCESS, GDT_FLAGS)
       [] n = 2 -> gdt_set_entry(0, 1048575, GDT_KERNEL_DATA_ACCESS, GDT_FLAGS)
       [] n = 3 -> gdt_set_entry(0, 1048575, GDT_USER_CODE_ACCESS, GDT_FLAGS)
       [] n = 4 -> gdt_set_entry(0, 1048575, GDT_USER_DATA_ACCESS, GDT_FLAGS)]

gdt_ptr_limit == 8 * GDT_ENTRY_COUNT - 1

\* The CPU's view of a descriptor.
Base(e) == e.base_low + 65536 * e.base_mid + 16777216 * e.base_high
Limit(e) == e.limit_low + 65536 * (e.granularity % 16)
Flags(e) == e.granularity - (e.granularity % 16)

\* Is the bit of this weight set?
Bit(byte, weight) == (byte \div weight) % 2 = 1
Ring(byte) == (byte \div 32) % 4

\* A present code segment of ring 0 over all of memory.
FlatKernelCode(e) ==
  /\ Bit(e.access, 128) /\ Ring(e.access) = 0 /\ Bit(e.access, 16) /\ Bit(e.access, 8)
  /\ Base(e) = 0 /\ Limit(e) = 1048575 /\ Bit(e.granularity, 128) /\ Bit(e.granularity, 64)

-----------------------------------------------------------------------------
\* Gates.

IDT_GATE_INTERRUPT_32 == 14
IDT_GATE_TRAP_32      == 15
IDT_KERNEL_INTERRUPT == 128 + IDT_GATE_INTERRUPT_32
IDT_KERNEL_TRAP      == 128 + IDT_GATE_TRAP_32

SEG_KERNEL_CODE == 8

idt_set_entry(handler, selector, type_attr) ==
  [offset_low |-> handler % 65536, selector |-> selector, zero |-> 0,
   type_attr |-> type_attr, offset_high |-> (handler \div 65536) % 65536]

\* Where the linker puts the stub of a vector: one after the other from a
\* place in the kernel's image on.
StubAddress(v) == 1048576 + 16 * v

GatesAllTrap ==
  [v \in Vectors |->
     IF v \in 22 .. 31 THEN idt_set_entry(0, 0, 0)
     ELSE idt_set_entry(StubAddress(v), SEG_KERNEL_CODE, IDT_KERNEL_TRAP)]

\* The table idt_init builds: zero, then a gate for each stub.
Gates ==
  [v \in Vectors |->
     CASE v \in 22 .. 31 -> idt_set_entry(0, 0, 0)
       [] v \in {1, 3}   -> idt_set_entry(StubAddress(v), SEG_KERNEL_CODE, IDT_KERNEL_TRAP)
       [] OTHER          -> idt_set_entry(StubAddress(v), SEG_KERNEL_CODE,
                                          IDT_KERNEL_INTERRUPT)]

idt_ptr_limit == 8 * 256 - 1

\* The CPU's view of a gate.
GateType(g) == g.type_attr % 16
GatePresent(g) == Bit(g.type_attr, 128) /\ GateType(g) \in {14, 15}
GateOffset(g) == g.offset_low + 65536 * g.offset_high

\* Vector v leads the CPU, with the tables loaded, to the code at address a:
\* gate and segment lie within the tables' limits and are what they must be.
LeadsTo(v, a) ==
  LET g == Gates[v] IN
  /\ 8 * v + 7 <= idt_ptr_limit
  /\ GatePresent(g)
  /\ g.selector % 8 = 0 /\ g.selector # 0 /\ g.selector + 7 <= gdt_ptr_limit
  /\ FlatKernelCode(gdt[g.selector \div 8])
  /\ a = GateOffset(g)

NoStub == -1

\* The stub each vector enters.
Stub ==
  [v \in Vectors |-> IF \E s \in Vectors : LeadsTo(v, StubAddress(s))
                       THEN CHOOSE s \in Vectors : LeadsTo(v, StubAddress(s))
                     ELSE NoStub]
=============================================================================
