-------------------------------- MODULE Pic --------------------------------
(***************************************************************************)
(* The pair of 8259 interrupt controllers and the functions of pic/pic.c   *)
(* that program them.  The chips are hardware, modelled from how the code  *)
(* uses them: a chip in its initialisation sequence takes the next writes  *)
(* to its data port as configuration words, otherwise as its mask; EOI     *)
(* (0x20) is non-specific and ends the in-service line of the highest      *)
(* priority.  Each function of pic.c is an operator from the state of the  *)
(* pair to its state after the call.                                       *)
(***************************************************************************)
EXTENDS Integers, Sequences, FiniteSetsExt

PIC1_CMD  == 32    \* 0x20
PIC1_DATA == 33    \* 0x21
PIC2_CMD  == 160   \* 0xA0
PIC2_DATA == 161   \* 0xA1

PIC_EOI   == 32    \* 0x20
ICW1_INIT == 17    \* 0x11
ICW4_8086 == 1

Cascade == 2       \* the master line the slave's output is wired to
Lines   == 0 .. 7

\* Bytes and the sets of their one bits.
Bits(v) == {i \in Lines : (v \div 2^i) % 2 = 1}
Byte(S) ==
  LET bit(i) == IF i \in S THEN 2^i ELSE 0
  IN  bit(0) + bit(1) + bit(2) + bit(3) + bit(4) + bit(5) + bit(6) + bit(7)

Chip == [irr  : SUBSET Lines,  \* requests latched
         isr  : SUBSET Lines,  \* in service
         imr  : SUBSET Lines,  \* masked
         base : 0 .. 255,      \* vector of line 0
         icw  : {0, 2, 3, 4}]  \* configuration word awaited, 0 when operating

PicPair == [master : Chip, slave : Chip]

-----------------------------------------------------------------------------
\* The hardware.

CmdWrite(c, v) ==
  IF 4 \in Bits(v)
    THEN [irr |-> {}, isr |-> {}, imr |-> {}, base |-> c.base, icw |-> 2]
  ELSE IF v = PIC_EOI /\ c.isr # {}
    THEN [c EXCEPT !.isr = @ \ {Min(@)}]
  ELSE c

DataWrite(c, v) ==
  CASE c.icw = 2 -> [c EXCEPT !.base = v, !.icw = 3]
    [] c.icw = 3 -> [c EXCEPT !.icw = 4]
    [] c.icw = 4 -> [c EXCEPT !.icw = 0]
    [] OTHER     -> [c EXCEPT !.imr = Bits(v)]

outb(p, port, v) ==
  CASE port = PIC1_CMD  -> [p EXCEPT !.master = CmdWrite(@, v)]
    [] port = PIC1_DATA -> [p EXCEPT !.master = DataWrite(@, v)]
    [] port = PIC2_CMD  -> [p EXCEPT !.slave = CmdWrite(@, v)]
    [] port = PIC2_DATA -> [p EXCEPT !.slave = DataWrite(@, v)]

inb(p, port) ==
  CASE port = PIC1_DATA -> Byte(p.master.imr)
    [] port = PIC2_DATA -> Byte(p.slave.imr)

\* A device pulls irq (0 .. 15).
Raise(p, irq) ==
  IF irq < 8 THEN [p EXCEPT !.master.irr = @ \cup {irq}]
             ELSE [p EXCEPT !.slave.irr = @ \cup {irq - 8}]

\* The lines of chip c that may interrupt: requested, not masked, of higher
\* priority than every line in service.
Pending(c) == {l \in c.irr \ c.imr : \A s \in c.isr : l < s}

\* The master with the slave's output on its cascade line.
Wired(p) ==
  IF Pending(p.slave) # {} THEN [p.master EXCEPT !.irr = @ \cup {Cascade}]
                           ELSE p.master

\* The CPU's interrupt pin, and the irq its acknowledge cycle would take.
INTR(p) == Pending(Wired(p)) # {}

NextIrq(p) ==
  LET l == Min(Pending(Wired(p))) IN
  IF l = Cascade /\ Pending(p.slave) # {} THEN 8 + Min(Pending(p.slave)) ELSE l

VectorOf(p, irq) ==
  IF irq < 8 THEN p.master.base + irq ELSE p.slave.base + irq - 8

Served(c, l) == [c EXCEPT !.irr = @ \ {l}, !.isr = @ \cup {l}]

Acknowledge(p) ==
  LET irq == NextIrq(p) IN
  IF irq < 8 THEN [p EXCEPT !.master = Served(@, irq)]
             ELSE [master |-> Served(p.master, Cascade),
                   slave  |-> Served(p.slave, irq - 8)]

\* The irqs in service.
InService(p) == p.master.isr \cup {8 + l : l \in p.slave.isr}

-----------------------------------------------------------------------------
\* pic.c.

\* The next word for each chip's data port.
ToBoth(p, v1, v2) == outb(outb(p, PIC1_DATA, v1), PIC2_DATA, v2)

pic_init_without_icw4(p) ==
  LET icw1 == outb(outb(p, PIC1_CMD, ICW1_INIT), PIC2_CMD, ICW1_INIT)
      icw2 == ToBoth(icw1, 32, 40)
      icw3 == ToBoth(icw2, 4, 2)
  IN  ToBoth(icw3, inb(p, PIC1_DATA), inb(p, PIC2_DATA))

pic_init(p) ==
  LET icw1 == outb(outb(p, PIC1_CMD, ICW1_INIT), PIC2_CMD, ICW1_INIT)
      icw2 == ToBoth(icw1, 32, 40)
      icw3 == ToBoth(icw2, 4, 2)
      icw4 == ToBoth(icw3, ICW4_8086, ICW4_8086)
  IN  ToBoth(icw4, inb(p, PIC1_DATA), inb(p, PIC2_DATA))

pic_send_eoi_slave_only(p, irq) ==
  IF irq >= 8 THEN outb(p, PIC2_CMD, PIC_EOI) ELSE outb(p, PIC1_CMD, PIC_EOI)

pic_send_eoi(p, irq) ==
  outb(IF irq >= 8 THEN outb(p, PIC2_CMD, PIC_EOI) ELSE p, PIC1_CMD, PIC_EOI)

DataPort(irq) == IF irq < 8 THEN PIC1_DATA ELSE PIC2_DATA

MaskBit(irq) == IF irq < 8 THEN irq ELSE irq - 8

pic_mask_irq(p, irq) ==
  LET port == DataPort(irq) IN
  outb(p, port, Byte(Bits(inb(p, port)) \cup {MaskBit(irq)}))

pic_unmask_irq(p, irq) ==
  LET port == DataPort(irq) IN
  outb(p, port, Byte(Bits(inb(p, port)) \ {MaskBit(irq)}))

pic_mask_all(p) == ToBoth(p, 255, 255)

pic_unmask_all(p) == ToBoth(p, 0, 0)
=============================================================================
