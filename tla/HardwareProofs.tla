--------------------------- MODULE HardwareProofs ---------------------------
(***************************************************************************)
(* What the hardware makes of what the kernel gives it: the CPU of the     *)
(* descriptors and gates packed by gdt.c and idt.c, the pair of 8259s of   *)
(* the bytes pic.c writes to their ports.  The packing loses nothing, for  *)
(* every address and limit, the tables lead every vector with a gate to    *)
(* its own stub, and every function of pic.c does to the chips what it     *)
(* says.                                                                   *)
(***************************************************************************)
EXTENDS Pic, Descriptors, TLAPS

\* The leaves that name no prover are left to the SMT solver.
USE SMTT(30)

-----------------------------------------------------------------------------
(* Descriptors and gates                                                   *)

\* Quotients and remainders of a word by its low 16 and 24 bits.
LEMMA WordParts ==
  ASSUME NEW w \in Nat, w < 4294967296
  PROVE  /\ w % 65536 \in Nat /\ w % 65536 < 65536
         /\ (w \div 65536) % 65536 = w \div 65536
         /\ w = (w % 65536) + 65536 * (w \div 65536)
         /\ w \div 65536 \in Nat /\ w \div 65536 < 65536
         /\ w \div 65536 = ((w \div 65536) % 256) + 256 * (w \div 16777216)
         /\ (w \div 16777216) % 256 = w \div 16777216
         /\ w \div 16777216 \in Nat /\ w \div 16777216 < 256
         /\ (w \div 65536) % 256 \in Nat /\ (w \div 65536) % 256 < 256
  BY Z3

\* gdt.c:35: the three pieces of the base and the two of the limit that
\* gdt_set_entry scatters over a descriptor are, to the CPU, the base and limit
\* it was given, for every 32-bit base and 20-bit limit, and the limit's upper
\* bits leave the flags in the same byte alone.
THEOREM SegmentsUnpack ==
  ASSUME NEW base \in Nat, base < 4294967296,
         NEW limit \in Nat, limit < 1048576,
         NEW access \in Nat,
         NEW granularity \in Nat, granularity < 256
  PROVE  LET e == gdt_set_entry(base, limit, access, granularity) IN
         /\ Base(e) = base
         /\ Limit(e) = limit
         /\ Flags(e) = granularity - (granularity % 16)
         /\ e.access = access
         /\ e.granularity \in Nat /\ e.granularity < 256
<1> DEFINE e == gdt_set_entry(base, limit, access, granularity)
           nibble == (limit \div 65536) % 16
           flags == granularity - (granularity % 16)
<1>1. /\ e.base_low = base % 65536 /\ e.base_mid = (base \div 65536) % 256
      /\ e.base_high = (base \div 16777216) % 256
      /\ e.limit_low = limit % 65536 /\ e.access = access
      /\ e.granularity = nibble + flags
  BY Z3 DEF gdt_set_entry
<1>2. Base(e) = base
  BY <1>1, WordParts, Z3 DEF Base
<1>3. nibble = limit \div 65536 /\ nibble \in Nat /\ nibble < 16
  BY Z3
<1>4. flags \in Nat /\ flags % 16 = 0 /\ flags < 256 /\ flags <= 240
  BY Z3
<1>5. (nibble + flags) % 16 = nibble
  <2>1. ASSUME NEW n \in Nat, n < 16, NEW f \in Nat, f % 16 = 0
        PROVE  (n + f) % 16 = n
    BY <2>1, Z3
  <2> QED BY <2>1, <1>3, <1>4, Z3
<1>6. Limit(e) = limit
  <2>1. limit = (limit % 65536) + 65536 * (limit \div 65536)
    BY Z3
  <2> HIDE DEF nibble, flags, e
  <2>2. Limit(e) = (limit % 65536) + 65536 * nibble
    BY <1>1, <1>5, Z3 DEF Limit
  <2> QED BY <2>1, <2>2, <1>3, Z3
<1>7. Flags(e) = flags /\ e.granularity \in Nat /\ e.granularity < 256
  <2> HIDE DEF nibble, flags, e
  <2> QED BY <1>1, <1>3, <1>4, <1>5, Z3 DEF Flags
<1> QED BY <1>1, <1>2, <1>6, <1>7, Z3

\* idt.c:38: the two halves of a handler's address that idt_set_entry stores
\* are, to the CPU, that address.
THEOREM GatesUnpack ==
  ASSUME NEW handler \in Nat, handler < 4294967296,
         NEW selector \in Nat, NEW type_attr \in Nat
  PROVE  LET g == idt_set_entry(handler, selector, type_attr) IN
         /\ GateOffset(g) = handler
         /\ g.selector = selector /\ g.type_attr = type_attr
<1>1. handler = (handler % 65536) + 65536 * ((handler \div 65536) % 65536)
  BY WordParts, Z3
<1> QED BY <1>1, Z3 DEF idt_set_entry, GateOffset

\* idt.c:128: with the tables of gdt_init and idt_init loaded, every vector
\* that has a gate enters the kernel through its ring 0 code segment, at its
\* own stub and at no other's.
THEOREM EntersOwnStub ==
  ASSUME NEW v \in Nat, v < 48, v < 22 \/ v > 31
  PROVE  Stub[v] = v
<1>1. v \in Vectors /\ v \notin 22 .. 31
  BY Z3 DEF Vectors
<1>2. FlatKernelCode(gdt[1])
  <2>1. gdt[1] = gdt_set_entry(0, 1048575, GDT_KERNEL_CODE_ACCESS, GDT_FLAGS)
    BY Z3 DEF gdt, GDT_ENTRY_COUNT
  <2>2. GDT_KERNEL_CODE_ACCESS = 154 /\ GDT_FLAGS = 192
    BY Z3 DEF GDT_KERNEL_CODE_ACCESS, GDT_FLAGS, GDT_ACCESS_PRESENT, GDT_ACCESS_DESCRIPTOR,
           GDT_ACCESS_EXECUTABLE, GDT_ACCESS_RW
  <2>3. gdt[1].access = 154 /\ gdt[1].granularity = 207
    BY <2>1, <2>2, Z3 DEF gdt_set_entry
  <2>4. Base(gdt[1]) = 0 /\ Limit(gdt[1]) = 1048575
    <3>1. /\ gdt[1].base_low = 0 /\ gdt[1].base_mid = 0 /\ gdt[1].base_high = 0
          /\ gdt[1].limit_low = 65535
      BY <2>1, Z3 DEF gdt_set_entry
    <3> QED BY <3>1, <2>3, Z3 DEF Base, Limit
  <2> QED BY <2>3, <2>4, Z3 DEF FlatKernelCode, Bit, Ring
<1>3. PICK t \in {IDT_KERNEL_INTERRUPT, IDT_KERNEL_TRAP} :
        Gates[v] = idt_set_entry(StubAddress(v), SEG_KERNEL_CODE, t)
  BY <1>1, Z3 DEF Gates
<1>4. t \in {142, 143}
  BY <1>3, Z3 DEF IDT_KERNEL_INTERRUPT, IDT_KERNEL_TRAP, IDT_GATE_INTERRUPT_32,
                  IDT_GATE_TRAP_32
<1>5. StubAddress(v) \in Nat /\ StubAddress(v) < 4294967296
  BY Z3 DEF StubAddress
<1>6. /\ GateOffset(Gates[v]) = StubAddress(v)
      /\ Gates[v].selector = 8 /\ Gates[v].type_attr = t
  <2>1. t \in Nat /\ SEG_KERNEL_CODE \in Nat
    BY <1>4, Z3 DEF SEG_KERNEL_CODE
  <2> QED BY <1>3, <1>5, <2>1, GatesUnpack, Z3 DEF SEG_KERNEL_CODE
<1>7. GatePresent(Gates[v])
  BY <1>4, <1>6, Z3 DEF GatePresent, GateType, Bit
<1>8. 8 * v + 7 <= idt_ptr_limit
  BY Z3 DEF idt_ptr_limit
<1>9. \A a : LeadsTo(v, a) <=> a = StubAddress(v)
  <2>1. 8 % 8 = 0 /\ 8 \div 8 = 1 /\ 8 + 7 <= gdt_ptr_limit
    BY Z3 DEF gdt_ptr_limit, GDT_ENTRY_COUNT
  <2> QED BY <1>2, <1>6, <1>7, <1>8, <2>1, Z3 DEF LeadsTo
<1>10. \A s \in Vectors : StubAddress(s) = StubAddress(v) => s = v
  BY <1>1, Z3 DEF StubAddress, Vectors
<1> QED BY <1>1, <1>9, <1>10, Zenon DEF Stub
-----------------------------------------------------------------------------
(* Bytes and lines                                                         *)

\* The lines of a chip one by one.
LEMMA LinesListed == Lines = {0, 1, 2, 3, 4, 5, 6, 7}
BY DEF Lines

\* The bits of a byte one by one.
LEMMA BitsListed ==
  ASSUME NEW v \in 0 .. 255
  PROVE  /\ Bits(v) \subseteq Lines
         /\ 0 \in Bits(v) <=> v % 2 = 1
         /\ 1 \in Bits(v) <=> (v \div 2) % 2 = 1
         /\ 2 \in Bits(v) <=> (v \div 4) % 2 = 1
         /\ 3 \in Bits(v) <=> (v \div 8) % 2 = 1
         /\ 4 \in Bits(v) <=> (v \div 16) % 2 = 1
         /\ 5 \in Bits(v) <=> (v \div 32) % 2 = 1
         /\ 6 \in Bits(v) <=> (v \div 64) % 2 = 1
         /\ 7 \in Bits(v) <=> (v \div 128) % 2 = 1
BY DEF Bits, Lines

\* A set of lines survives its way through a byte.
LEMMA BitsOfByte ==
  ASSUME NEW S \in SUBSET Lines
  PROVE  Byte(S) \in 0 .. 255 /\ Bits(Byte(S)) = S
<1> DEFINE b0 == IF 0 \in S THEN 1 ELSE 0
           b1 == IF 1 \in S THEN 1 ELSE 0
           b2 == IF 2 \in S THEN 1 ELSE 0
           b3 == IF 3 \in S THEN 1 ELSE 0
           b4 == IF 4 \in S THEN 1 ELSE 0
           b5 == IF 5 \in S THEN 1 ELSE 0
           b6 == IF 6 \in S THEN 1 ELSE 0
           b7 == IF 7 \in S THEN 1 ELSE 0
           v  == Byte(S)
<1>1. v = b0 + 2 * b1 + 4 * b2 + 8 * b3 + 16 * b4 + 32 * b5 + 64 * b6 + 128 * b7
  BY DEF Byte
<1>2. /\ b0 \in {0, 1} /\ b1 \in {0, 1} /\ b2 \in {0, 1} /\ b3 \in {0, 1}
      /\ b4 \in {0, 1} /\ b5 \in {0, 1} /\ b6 \in {0, 1} /\ b7 \in {0, 1}
  OBVIOUS
<1> HIDE DEF b0, b1, b2, b3, b4, b5, b6, b7, v
<1>3. /\ v \in 0 .. 255
      /\ v % 2 = b0 /\ (v \div 2) % 2 = b1 /\ (v \div 4) % 2 = b2 /\ (v \div 8) % 2 = b3
      /\ (v \div 16) % 2 = b4 /\ (v \div 32) % 2 = b5 /\ (v \div 64) % 2 = b6
      /\ (v \div 128) % 2 = b7
  BY <1>1, <1>2
<1>4. /\ Bits(v) \subseteq Lines
      /\ 0 \in Bits(v) <=> b0 = 1
      /\ 1 \in Bits(v) <=> b1 = 1
      /\ 2 \in Bits(v) <=> b2 = 1
      /\ 3 \in Bits(v) <=> b3 = 1
      /\ 4 \in Bits(v) <=> b4 = 1
      /\ 5 \in Bits(v) <=> b5 = 1
      /\ 6 \in Bits(v) <=> b6 = 1
      /\ 7 \in Bits(v) <=> b7 = 1
  BY <1>3, BitsListed
<1>5. Bits(v) = S
  <2>1. \A i \in {0, 1, 2, 3, 4, 5, 6, 7} : i \in Bits(v) <=> i \in S
    BY <1>4 DEF b0, b1, b2, b3, b4, b5, b6, b7
  <2>2. \A i \in Lines : i \in Bits(v) <=> i \in S
    BY <2>1, LinesListed, Zenon
  <2>3. Bits(v) \subseteq Lines
    BY <1>4
  <2> QED BY <2>2, <2>3, Zenon
<1> QED BY <1>3, <1>5 DEF v

\* The bits of the bytes pic.c writes.
LEMMA BitsOfConstants ==
  /\ Bits(0) = {} /\ Bits(255) = Lines
  /\ 4 \in Bits(17) /\ 4 \notin Bits(32)
<1>1. Bits(0) = {}
  BY BitsListed, LinesListed
<1>2. Bits(255) = Lines
  BY BitsListed, LinesListed
<1>3. 4 \in Bits(17) /\ 4 \notin Bits(32)
  BY BitsListed
<1> QED BY <1>1, <1>2, <1>3

\* A chip's priority resolver: the least line of a set of lines.
LEMMA LeastLine ==
  ASSUME NEW S \in SUBSET Lines, S # {}
  PROVE  /\ Min(S) \in S /\ \A l \in S : Min(S) <= l
         /\ \A m \in S : (\A l \in S : m <= l) => Min(S) = m
<1>1. \E m \in S : \A l \in S : m <= l
  <2>1. S \subseteq Nat /\ \A l \in S : l < 8
    BY DEF Lines
  <2>2. CASE 0 \in S
    BY <2>1, <2>2
  <2>3. CASE 0 \notin S /\ 1 \in S
    BY <2>1, <2>3
  <2>4. CASE {0, 1} \cap S = {} /\ 2 \in S
    BY <2>1, <2>4
  <2>5. CASE {0, 1, 2} \cap S = {} /\ 3 \in S
    BY <2>1, <2>5
  <2>6. CASE {0, 1, 2, 3} \cap S = {} /\ 4 \in S
    BY <2>1, <2>6
  <2>7. CASE {0, 1, 2, 3, 4} \cap S = {} /\ 5 \in S
    BY <2>1, <2>7
  <2>8. CASE {0, 1, 2, 3, 4, 5} \cap S = {}
    <3>1. S \subseteq {6, 7}
      BY <2>1, <2>8
    <3>2. CASE 6 \in S
      BY <3>1, <3>2
    <3>3. CASE 6 \notin S
      <4>1. PICK m \in S : TRUE
        OBVIOUS
      <4>2. \A l \in S : l = 7
        BY <3>1, <3>3
      <4> QED BY <4>1, <4>2
    <3> QED BY <3>2, <3>3
  <2> QED BY <2>2, <2>3, <2>4, <2>5, <2>6, <2>7, <2>8
<1>2. Min(S) \in S /\ \A l \in S : Min(S) <= l
  BY <1>1, Zenon DEF Min
<1>3. ASSUME NEW m \in S, \A l \in S : m <= l
      PROVE  Min(S) = m
  <2>1. Min(S) <= m /\ m <= Min(S)
    BY <1>2, <1>3
  <2>2. Min(S) \in Int /\ m \in Int
    <3>1. \A l \in S : l \in Int
      BY DEF Lines
    <3> QED BY <1>2, <3>1
  <2> QED BY <2>1, <2>2
<1> QED BY <1>2, <1>3

-----------------------------------------------------------------------------
(* The chips                                                               *)

\* What each port makes of a write.
LEMMA PortWrites ==
  ASSUME NEW p, NEW v
  PROVE  /\ outb(p, PIC1_CMD, v) = [p EXCEPT !.master = CmdWrite(p.master, v)]
         /\ outb(p, PIC1_DATA, v) = [p EXCEPT !.master = DataWrite(p.master, v)]
         /\ outb(p, PIC2_CMD, v) = [p EXCEPT !.slave = CmdWrite(p.slave, v)]
         /\ outb(p, PIC2_DATA, v) = [p EXCEPT !.slave = DataWrite(p.slave, v)]
         /\ inb(p, PIC1_DATA) = Byte(p.master.imr)
         /\ inb(p, PIC2_DATA) = Byte(p.slave.imr)
BY DEF outb, inb, PIC1_CMD, PIC1_DATA, PIC2_CMD, PIC2_DATA

\* A pair of operating chips.
Operating(p) == p \in PicPair /\ p.master.icw = 0 /\ p.slave.icw = 0

\* A chip just reset, with configuration word icw still to come.
Fresh(base, imr, icw) == [irr |-> {}, isr |-> {}, imr |-> imr, base |-> base, icw |-> icw]

\* The words of the initialisation sequence, one at a time, and the mask after.
LEMMA WordsTaken ==
  ASSUME NEW base, NEW v
  PROVE  /\ DataWrite(Fresh(base, {}, 2), v) = Fresh(v, {}, 3)
         /\ DataWrite(Fresh(base, {}, 3), v) = Fresh(base, {}, 4)
         /\ DataWrite(Fresh(base, {}, 4), v) = Fresh(base, {}, 0)
         /\ DataWrite(Fresh(base, {}, 0), v) = Fresh(base, Bits(v), 0)
<1> DEFINE d == Fresh(base, {}, 2)
<1>1. d.icw = 2 /\ [d EXCEPT !.base = v] = Fresh(v, {}, 2)
  BY DEF Fresh
<1>2. DataWrite(d, v) = [[d EXCEPT !.base = v] EXCEPT !.icw = 3]
  <2> HIDE DEF d
  <2> QED BY <1>1 DEF DataWrite
<1>3. [Fresh(v, {}, 2) EXCEPT !.icw = 3] = Fresh(v, {}, 3)
  BY DEF Fresh
<1>4. DataWrite(Fresh(base, {}, 2), v) = Fresh(v, {}, 3)
  BY <1>1, <1>2, <1>3, Zenon
<1>5. DataWrite(Fresh(base, {}, 3), v) = Fresh(base, {}, 4)
  BY DEF DataWrite, Fresh
<1>6. DataWrite(Fresh(base, {}, 4), v) = Fresh(base, {}, 0)
  BY DEF DataWrite, Fresh
<1>7. DataWrite(Fresh(base, {}, 0), v) = Fresh(base, Bits(v), 0)
  BY DEF DataWrite, Fresh
<1> QED BY <1>4, <1>5, <1>6, <1>7

\* What the initialisation sequence makes of a chip.
LEMMA ConfigurationWords ==
  ASSUME NEW c \in Chip, NEW base, NEW c1, NEW c2, NEW c3, NEW c4, NEW c5, NEW w3, NEW w4,
         c1 = CmdWrite(c, ICW1_INIT), c2 = DataWrite(c1, base), c3 = DataWrite(c2, w3),
         c4 = DataWrite(c3, w4), c5 = DataWrite(c4, Byte(c.imr))
  PROVE  c5 = Fresh(base, c.imr, 0)
<1>1. c1 = Fresh(c.base, {}, 2)
  BY BitsOfConstants DEF CmdWrite, ICW1_INIT, Fresh
<1>2. c2 = Fresh(base, {}, 3)
  BY <1>1, WordsTaken, Zenon
<1>3. c3 = Fresh(base, {}, 4)
  BY <1>2, WordsTaken, Zenon
<1>4. c4 = Fresh(base, {}, 0)
  BY <1>3, WordsTaken, Zenon
<1>5. Bits(Byte(c.imr)) = c.imr
  BY BitsOfByte DEF Chip
<1> QED BY <1>4, <1>5, WordsTaken, Zenon

\* pic.c:54: whatever state the chips are in, pic_init leaves both operating,
\* with nothing requested or in service, the vectors moved to 32 and 40, and the
\* masks they had before: none of the words it writes is taken for another.
THEOREM RemapKeepsMasks ==
  ASSUME NEW p \in PicPair
  PROVE  pic_init(p) =
           [master |-> Fresh(32, p.master.imr, 0), slave |-> Fresh(40, p.slave.imr, 0)]
<1> DEFINE m0 == p.master
           m1 == CmdWrite(m0, ICW1_INIT)
           m2 == DataWrite(m1, 32)
           m3 == DataWrite(m2, 4)
           m4 == DataWrite(m3, ICW4_8086)
           m5 == DataWrite(m4, Byte(m0.imr))
           s0 == p.slave
           s1 == CmdWrite(s0, ICW1_INIT)
           s2 == DataWrite(s1, 40)
           s3 == DataWrite(s2, 2)
           s4 == DataWrite(s3, ICW4_8086)
           s5 == DataWrite(s4, Byte(s0.imr))
           Pair(a, b) == [master |-> a, slave |-> b]
<1>1. p = Pair(m0, s0) /\ m0 \in Chip /\ s0 \in Chip
  BY DEF PicPair
<1>2. \A a, b, v1, v2 : ToBoth(Pair(a, b), v1, v2) = Pair(DataWrite(a, v1), DataWrite(b, v2))
  BY PortWrites DEF ToBoth
<1>3. outb(outb(p, PIC1_CMD, ICW1_INIT), PIC2_CMD, ICW1_INIT) = Pair(m1, s1)
  BY <1>1, PortWrites
<1>4. inb(p, PIC1_DATA) = Byte(m0.imr) /\ inb(p, PIC2_DATA) = Byte(s0.imr)
  BY PortWrites, Zenon
<1>5. /\ m1 = CmdWrite(m0, ICW1_INIT) /\ m2 = DataWrite(m1, 32) /\ m3 = DataWrite(m2, 4)
      /\ m4 = DataWrite(m3, ICW4_8086) /\ m5 = DataWrite(m4, Byte(m0.imr))
      /\ s1 = CmdWrite(s0, ICW1_INIT) /\ s2 = DataWrite(s1, 40) /\ s3 = DataWrite(s2, 2)
      /\ s4 = DataWrite(s3, ICW4_8086) /\ s5 = DataWrite(s4, Byte(s0.imr))
  OBVIOUS
<1>6. p.master.imr = m0.imr /\ p.slave.imr = s0.imr
  OBVIOUS
<1> HIDE DEF Pair, m0, m1, m2, m3, m4, m5, s0, s1, s2, s3, s4, s5
<1>7. /\ ToBoth(Pair(m1, s1), 32, 40) = Pair(m2, s2)
      /\ ToBoth(Pair(m2, s2), 4, 2) = Pair(m3, s3)
      /\ ToBoth(Pair(m3, s3), ICW4_8086, ICW4_8086) = Pair(m4, s4)
      /\ ToBoth(Pair(m4, s4), Byte(m0.imr), Byte(s0.imr)) = Pair(m5, s5)
  BY <1>2, <1>5, SMT
<1>8. pic_init(p) = Pair(m5, s5)
  BY <1>3, <1>4, <1>7 DEF pic_init
<1>9. m5 = Fresh(32, m0.imr, 0) /\ s5 = Fresh(40, s0.imr, 0)
  BY <1>1, <1>5, ConfigurationWords, Zenon
<1> QED BY <1>6, <1>8, <1>9, Zenon DEF Pair

\* A non-specific EOI.
Ended(S) == IF S = {} THEN {} ELSE S \ {Min(S)}

\* What EOI does to a chip.
LEMMA ChipEoi ==
  ASSUME NEW c \in Chip
  PROVE  CmdWrite(c, PIC_EOI) = [c EXCEPT !.isr = Ended(c.isr)]
<1>1. 4 \notin Bits(PIC_EOI)
  BY BitsOfConstants DEF PIC_EOI
<1>2. CASE c.isr = {}
  BY <1>1, <1>2 DEF CmdWrite, Chip, Ended
<1>3. CASE c.isr # {}
  BY <1>1, <1>3 DEF CmdWrite, Ended
<1> QED BY <1>2, <1>3

\* pic.c:113: the EOI of a line of the slave goes to both chips.
LEMMA EoiSent ==
  ASSUME NEW p \in PicPair, NEW irq \in 0 .. 15
  PROVE  LET q == pic_send_eoi(p, irq) IN
         /\ q.master = [p.master EXCEPT !.isr = Ended(p.master.isr)]
         /\ q.slave = IF irq >= 8 THEN [p.slave EXCEPT !.isr = Ended(p.slave.isr)]
                                  ELSE p.slave
         /\ q = [master |-> q.master, slave |-> q.slave]
<1> DEFINE m == p.master
           s == p.slave
<1>1. p = [master |-> m, slave |-> s] /\ m \in Chip /\ s \in Chip
  BY DEF PicPair
<1> HIDE DEF m, s
<1>2. CASE irq >= 8
  <2>1. pic_send_eoi(p, irq) = outb(outb(p, PIC2_CMD, PIC_EOI), PIC1_CMD, PIC_EOI)
    BY <1>2 DEF pic_send_eoi
  <2>2. outb(p, PIC2_CMD, PIC_EOI) = [master |-> m, slave |-> CmdWrite(s, PIC_EOI)]
    BY <1>1, PortWrites
  <2>3. pic_send_eoi(p, irq) = [master |-> CmdWrite(m, PIC_EOI), slave |-> CmdWrite(s, PIC_EOI)]
    BY <2>1, <2>2, PortWrites
  <2> QED BY <1>1, <1>2, <2>3, ChipEoi
<1>3. CASE ~ (irq >= 8)
  <2>1. pic_send_eoi(p, irq) = outb(p, PIC1_CMD, PIC_EOI)
    BY <1>3 DEF pic_send_eoi
  <2>2. pic_send_eoi(p, irq) = [master |-> CmdWrite(m, PIC_EOI), slave |-> s]
    BY <1>1, <2>1, PortWrites
  <2> QED BY <1>1, <1>3, <2>2, ChipEoi
<1> QED BY <1>2, <1>3

\* A mask written to an operating chip.
LEMMA MaskWritten ==
  ASSUME NEW c \in Chip, c.icw = 0, NEW S \in SUBSET Lines, NEW v, Bits(v) = S
  PROVE  DataWrite(c, v) = [c EXCEPT !.imr = S]
BY DEF DataWrite

\* pic.c:129, 151: a mask written back to the chip of its line.
LEMMA OneMaskChanged ==
  ASSUME NEW p \in PicPair, Operating(p), NEW irq \in 0 .. 15, NEW q,
         NEW S \in SUBSET Lines,
         q = outb(p, DataPort(irq), Byte(S))
  PROVE  /\ q.master = IF irq < 8 THEN [p.master EXCEPT !.imr = S] ELSE p.master
         /\ q.slave = IF irq < 8 THEN p.slave ELSE [p.slave EXCEPT !.imr = S]
         /\ q = [master |-> q.master, slave |-> q.slave]
<1> DEFINE m == p.master
           s == p.slave
<1>1. /\ p = [master |-> m, slave |-> s] /\ m \in Chip /\ s \in Chip
      /\ m.icw = 0 /\ s.icw = 0
  BY DEF PicPair, Operating
<1>2. Bits(Byte(S)) = S
  BY BitsOfByte
<1> HIDE DEF m, s
<1>3. CASE irq < 8
  <2>1. q = [master |-> DataWrite(m, Byte(S)), slave |-> s]
    BY <1>1, <1>3, PortWrites DEF DataPort
  <2> QED BY <1>1, <1>2, <1>3, <2>1, MaskWritten
<1>4. CASE ~ (irq < 8)
  <2>1. q = [master |-> m, slave |-> DataWrite(s, Byte(S))]
    BY <1>1, <1>4, PortWrites DEF DataPort
  <2> QED BY <1>1, <1>2, <1>4, <2>1, MaskWritten
<1> QED BY <1>3, <1>4

\* What pic_mask_irq and pic_unmask_irq read is the mask of the line's chip.
LEMMA MaskOf ==
  ASSUME NEW p \in PicPair, NEW irq \in 0 .. 15
  PROVE  /\ MaskBit(irq) \in Lines
         /\ Bits(inb(p, DataPort(irq))) = IF irq < 8 THEN p.master.imr ELSE p.slave.imr
<1>1. MaskBit(irq) \in Lines
  BY DEF MaskBit, Lines
<1>2. p.master.imr \in SUBSET Lines /\ p.slave.imr \in SUBSET Lines
  BY DEF PicPair, Chip
<1>3. inb(p, DataPort(irq)) = Byte(IF irq < 8 THEN p.master.imr ELSE p.slave.imr)
  BY PortWrites, Zenon DEF DataPort
<1> QED BY <1>1, <1>2, <1>3, BitsOfByte

\* pic.c:129 sets the bit of its line and no other.
LEMMA IrqMasked ==
  ASSUME NEW p \in PicPair, Operating(p), NEW irq \in 0 .. 15
  PROVE  LET q == pic_mask_irq(p, irq) IN
         /\ q.master = IF irq < 8 THEN [p.master EXCEPT !.imr = p.master.imr \cup {irq}]
                                  ELSE p.master
         /\ q.slave = IF irq < 8 THEN p.slave
                                 ELSE [p.slave EXCEPT !.imr = p.slave.imr \cup {irq - 8}]
         /\ q = [master |-> q.master, slave |-> q.slave]
<1> DEFINE S == (IF irq < 8 THEN p.master.imr ELSE p.slave.imr) \cup {MaskBit(irq)}
           q == pic_mask_irq(p, irq)
<1>1. S \in SUBSET Lines
  <2>1. p.master.imr \in SUBSET Lines /\ p.slave.imr \in SUBSET Lines
    BY DEF PicPair, Chip
  <2>2. MaskBit(irq) \in Lines
    BY MaskOf, Zenon
  <2> QED BY <2>1, <2>2
<1>2. q = outb(p, DataPort(irq), Byte(S))
  BY MaskOf, Zenon DEF pic_mask_irq
<1>3. S = IF irq < 8 THEN p.master.imr \cup {irq} ELSE p.slave.imr \cup {irq - 8}
  BY DEF MaskBit
<1> HIDE DEF S, q
<1>4. /\ q.master = IF irq < 8 THEN [p.master EXCEPT !.imr = S] ELSE p.master
      /\ q.slave = IF irq < 8 THEN p.slave ELSE [p.slave EXCEPT !.imr = S]
      /\ q = [master |-> q.master, slave |-> q.slave]
  BY <1>1, <1>2, OneMaskChanged
<1> QED BY <1>3, <1>4 DEF q

\* pic.c:151 clears the bit of its line and no other.
LEMMA IrqUnmasked ==
  ASSUME NEW p \in PicPair, Operating(p), NEW irq \in 0 .. 15
  PROVE  LET q == pic_unmask_irq(p, irq) IN
         /\ q.master = IF irq < 8 THEN [p.master EXCEPT !.imr = p.master.imr \ {irq}]
                                  ELSE p.master
         /\ q.slave = IF irq < 8 THEN p.slave
                                 ELSE [p.slave EXCEPT !.imr = p.slave.imr \ {irq - 8}]
         /\ q = [master |-> q.master, slave |-> q.slave]
<1> DEFINE S == (IF irq < 8 THEN p.master.imr ELSE p.slave.imr) \ {MaskBit(irq)}
           q == pic_unmask_irq(p, irq)
<1>1. S \in SUBSET Lines
  <2>1. p.master.imr \in SUBSET Lines /\ p.slave.imr \in SUBSET Lines
    BY DEF PicPair, Chip
  <2>2. MaskBit(irq) \in Lines
    BY MaskOf, Zenon
  <2> QED BY <2>1, <2>2
<1>2. q = outb(p, DataPort(irq), Byte(S))
  BY MaskOf, Zenon DEF pic_unmask_irq
<1>3. S = IF irq < 8 THEN p.master.imr \ {irq} ELSE p.slave.imr \ {irq - 8}
  BY DEF MaskBit
<1> HIDE DEF S, q
<1>4. /\ q.master = IF irq < 8 THEN [p.master EXCEPT !.imr = S] ELSE p.master
      /\ q.slave = IF irq < 8 THEN p.slave ELSE [p.slave EXCEPT !.imr = S]
      /\ q = [master |-> q.master, slave |-> q.slave]
  BY <1>1, <1>2, OneMaskChanged
<1> QED BY <1>3, <1>4 DEF q

\* pic.c:171, 182: both masks are replaced.
LEMMA BothMasksWritten ==
  ASSUME NEW p \in PicPair, Operating(p), NEW v, NEW S \in SUBSET Lines, Bits(v) = S
  PROVE  LET q == ToBoth(p, v, v) IN
         /\ q.master = [p.master EXCEPT !.imr = S] /\ q.slave = [p.slave EXCEPT !.imr = S]
         /\ q = [master |-> q.master, slave |-> q.slave]
<1> DEFINE m == p.master
           s == p.slave
<1>1. /\ p = [master |-> m, slave |-> s] /\ m \in Chip /\ s \in Chip
      /\ m.icw = 0 /\ s.icw = 0
  BY DEF PicPair, Operating
<1> HIDE DEF m, s
<1>2. outb(p, PIC1_DATA, v) = [master |-> DataWrite(m, v), slave |-> s]
  BY <1>1, PortWrites
<1>3. ToBoth(p, v, v) = [master |-> DataWrite(m, v), slave |-> DataWrite(s, v)]
  BY <1>2, PortWrites DEF ToBoth
<1> QED BY <1>1, <1>3, MaskWritten

-----------------------------------------------------------------------------
\* The line of the master through which irq reaches the CPU.
MasterLine(irq) == IF irq < 8 THEN irq ELSE Cascade

\* What the acknowledge cycle takes and what it leaves behind, if no device
\* sits on the cascade line.
LEMMA Taken ==
  ASSUME NEW p \in PicPair, Cascade \notin p.master.irr, INTR(p)
  PROVE  LET irq == NextIrq(p)  q == Acknowledge(p) IN
         /\ irq \in 0 .. 15 /\ irq # Cascade
         /\ \A s \in p.master.isr : MasterLine(irq) < s
         /\ irq < 8 => irq \in p.master.irr \ p.master.imr
         /\ irq >= 8 => irq - 8 \in p.slave.irr \ p.slave.imr
         /\ q.master = Served(p.master, MasterLine(irq))
         /\ q.slave = IF irq >= 8 THEN Served(p.slave, irq - 8) ELSE p.slave
         /\ q = [master |-> q.master, slave |-> q.slave]
<1> DEFINE l == Min(Pending(Wired(p)))
           k == Min(Pending(p.slave))
           irq == NextIrq(p)
           q == Acknowledge(p)
<1>1. /\ p.master \in Chip /\ p.slave \in Chip
      /\ p = [master |-> p.master, slave |-> p.slave]
  BY DEF PicPair
<1>2. /\ Wired(p).irr = IF Pending(p.slave) # {} THEN p.master.irr \cup {Cascade} ELSE p.master.irr
      /\ Wired(p).imr = p.master.imr /\ Wired(p).isr = p.master.isr
  BY <1>1 DEF Wired, Chip
<1>3. Pending(Wired(p)) \in SUBSET Lines /\ Pending(p.slave) \in SUBSET Lines
  BY <1>1, <1>2 DEF Pending, Chip, Cascade, Lines
<1>4. l \in Pending(Wired(p)) /\ (Pending(p.slave) # {} => k \in Pending(p.slave))
  BY <1>3, LeastLine DEF INTR
<1>5. /\ l \in Lines /\ (Pending(p.slave) # {} => k \in Lines)
      /\ l = Cascade => Pending(p.slave) # {}
      /\ l # Cascade => l \in p.master.irr
      /\ l \notin p.master.imr /\ \A s \in p.master.isr : l < s
      /\ Pending(p.slave) # {} => k \in p.slave.irr \ p.slave.imr
  <2>1. l \in Lines /\ (Pending(p.slave) # {} => k \in Lines)
    BY <1>3, <1>4
  <2> QED BY <1>2, <1>4, <2>1 DEF Pending
<1>6. irq = IF l = Cascade THEN 8 + k ELSE l
  BY <1>5 DEF NextIrq
<1> HIDE DEF l, k, irq
<1>7. /\ irq \in 0 .. 15 /\ irq # Cascade /\ MasterLine(irq) = l
      /\ irq < 8 => irq = l /\ l # Cascade
      /\ irq >= 8 => irq = 8 + k /\ irq - 8 = k /\ l = Cascade
  BY <1>5, <1>6 DEF MasterLine, Lines, Cascade
<1>8. q = [master |-> Served(p.master, l),
           slave |-> IF irq >= 8 THEN Served(p.slave, irq - 8) ELSE p.slave]
  <2>1. CASE irq < 8
    <3>1. q = [p EXCEPT !.master = Served(p.master, irq)]
      BY <2>1 DEF Acknowledge, irq
    <3> QED BY <1>1, <1>7, <2>1, <3>1
  <2>2. CASE ~ (irq < 8)
    <3>1. q = [master |-> Served(p.master, Cascade), slave |-> Served(p.slave, irq - 8)]
      BY <2>2 DEF Acknowledge, irq
    <3> QED BY <1>7, <2>2, <3>1
  <2> QED BY <2>1, <2>2
<1> HIDE DEF q
<1> QED BY <1>5, <1>7, <1>8 DEF irq, q

\* A chip with one more line requested.
LEMMA ChipRequested ==
  ASSUME NEW c \in Chip, NEW l \in Lines
  PROVE  LET d == [c EXCEPT !.irr = c.irr \cup {l}] IN
         /\ d \in Chip /\ d.irr = c.irr \cup {l} /\ d.isr = c.isr /\ d.imr = c.imr
         /\ d.icw = c.icw /\ d.base = c.base
BY DEF Chip

\* A device's request is latched on its line and changes nothing else.
LEMMA Raised ==
  ASSUME NEW p \in PicPair, NEW irq \in 0 .. 15
  PROVE  LET q == Raise(p, irq) IN
         /\ q \in PicPair
         /\ q.master.irr = IF irq < 8 THEN p.master.irr \cup {irq} ELSE p.master.irr
         /\ q.slave.irr = IF irq < 8 THEN p.slave.irr ELSE p.slave.irr \cup {irq - 8}
         /\ q.master.isr = p.master.isr /\ q.slave.isr = p.slave.isr
         /\ q.master.imr = p.master.imr /\ q.slave.imr = p.slave.imr
         /\ q.master.base = p.master.base /\ q.slave.base = p.slave.base
         /\ q.master.icw = p.master.icw /\ q.slave.icw = p.slave.icw
<1> DEFINE q == Raise(p, irq)
           m == p.master
           s == p.slave
           M == [m EXCEPT !.irr = m.irr \cup {irq}]
           S == [s EXCEPT !.irr = s.irr \cup {irq - 8}]
<1>1. m \in Chip /\ s \in Chip /\ p = [master |-> m, slave |-> s]
  BY DEF PicPair
<1>2. CASE irq < 8
  <2>1. q = [p EXCEPT !.master = M]
    BY <1>2 DEF Raise
  <2>2. irq \in Lines
    BY <1>2 DEF Lines
  <2> HIDE DEF m, s, q
  <2>3. /\ M \in Chip /\ M.irr = m.irr \cup {irq} /\ M.isr = m.isr /\ M.imr = m.imr
        /\ M.icw = m.icw /\ M.base = m.base
    BY <1>1, <2>2, ChipRequested, Zenon
  <2> HIDE DEF M
  <2>4. q = [master |-> M, slave |-> s]
    BY <1>1, <2>1
  <2>5. q \in PicPair /\ q.master = M /\ q.slave = s
    BY <1>1, <2>3, <2>4 DEF PicPair
  <2> QED BY <1>2, <2>3, <2>5 DEF m, s, q
<1>3. CASE ~ (irq < 8)
  <2>1. q = [p EXCEPT !.slave = S]
    BY <1>3 DEF Raise
  <2>2. irq - 8 \in Lines
    BY <1>3 DEF Lines
  <2> HIDE DEF m, s, q
  <2>3. /\ S \in Chip /\ S.irr = s.irr \cup {irq - 8} /\ S.isr = s.isr /\ S.imr = s.imr
        /\ S.icw = s.icw /\ S.base = s.base
    BY <1>1, <2>2, ChipRequested, Zenon
  <2> HIDE DEF S
  <2>4. q = [master |-> m, slave |-> S]
    BY <1>1, <2>1
  <2>5. q \in PicPair /\ q.master = m /\ q.slave = S
    BY <1>1, <2>3, <2>4 DEF PicPair
  <2> QED BY <1>3, <2>3, <2>5 DEF m, s, q
<1> QED BY <1>2, <1>3

\* A chip after its acknowledge cycle, or after an EOI.
LEMMA ChipServed ==
  ASSUME NEW c \in Chip, NEW l \in Lines
  PROVE  /\ Served(c, l) \in Chip
         /\ Served(c, l).isr = c.isr \cup {l} /\ Served(c, l).irr = c.irr \ {l}
         /\ Served(c, l).imr = c.imr /\ Served(c, l).icw = c.icw /\ Served(c, l).base = c.base
<1> DEFINE d == [c EXCEPT !.irr = c.irr \ {l}]
<1>1. /\ d \in Chip /\ d.irr = c.irr \ {l} /\ d.isr = c.isr /\ d.imr = c.imr /\ d.icw = c.icw
      /\ d.base = c.base
  BY DEF Chip
<1>2. Served(c, l) = [d EXCEPT !.isr = c.isr \cup {l}]
  BY DEF Served
<1> HIDE DEF d
<1> QED BY <1>1, <1>2 DEF Chip

LEMMA ChipEnded ==
  ASSUME NEW c \in Chip
  PROVE  LET d == [c EXCEPT !.isr = Ended(c.isr)] IN
         /\ d \in Chip /\ d.isr = Ended(c.isr) /\ d.irr = c.irr /\ d.imr = c.imr
         /\ d.icw = c.icw /\ d.base = c.base
<1>1. Ended(c.isr) \in SUBSET Lines
  BY DEF Ended, Chip
<1> QED BY <1>1 DEF Chip

=============================================================================
