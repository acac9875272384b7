----------------------------- MODULE PicDriver -----------------------------
(***************************************************************************)
(* pic.c by itself: drivers remap, mask and unmask in any order, devices   *)
(* raise lines, and a CPU with interrupts enabled takes what the pair      *)
(* offers and ends it with pic_send_eoi(irq).  One interrupt may preempt   *)
(* the handling of another, as the chips' priorities allow.                *)
(***************************************************************************)
EXTENDS Pic

CONSTANTS
  Irqs,      \* the lines with a device on them
  BootMasks  \* pairs of mask bytes the firmware may leave

ASSUME PicDriverAssumption ==
  /\ Irqs \subseteq 0 .. 15 \ {Cascade}
  /\ BootMasks \subseteq (0 .. 255) \X (0 .. 255)

VARIABLES
  pic,      \* the pair of chips
  handling, \* the irqs taken and not yet ended, in the order taken
  enabled   \* history: the irqs the drivers have left enabled

picVars == <<pic, handling, enabled>>

Reset(mask, base) ==
  [irr |-> {}, isr |-> {}, imr |-> Bits(mask), base |-> base, icw |-> 0]

Unmasked(p) == {irq \in 0 .. 15 : irq % 8 \notin
                  (IF irq < 8 THEN p.master.imr ELSE p.slave.imr)}

PicInit ==
  /\ \E m \in BootMasks :
       pic = [master |-> Reset(m[1], 8), slave |-> Reset(m[2], 112)]
  /\ handling = << >>
  /\ enabled = Unmasked(pic)

-----------------------------------------------------------------------------
\* The kernel remaps before it enables interrupts.
Remap ==
  /\ pic.master.base = 8
  /\ pic' = pic_init(pic)
  /\ UNCHANGED <<handling, enabled>>

Remapped == pic.master.base # 8

Mask(irq) ==
  /\ Remapped
  /\ pic' = pic_mask_irq(pic, irq)
  /\ enabled' = enabled \ {irq}
  /\ UNCHANGED handling

Unmask(irq) ==
  /\ Remapped
  /\ pic' = pic_unmask_irq(pic, irq)
  /\ enabled' = enabled \cup {irq}
  /\ UNCHANGED handling

MaskAll ==
  /\ Remapped
  /\ pic' = pic_mask_all(pic)
  /\ enabled' = {}
  /\ UNCHANGED handling

UnmaskAll ==
  /\ Remapped
  /\ pic' = pic_unmask_all(pic)
  /\ enabled' = 0 .. 15
  /\ UNCHANGED handling

Device(irq) ==
  /\ pic' = Raise(pic, irq)
  /\ UNCHANGED <<handling, enabled>>

Take ==
  /\ Remapped /\ INTR(pic)
  /\ pic' = Acknowledge(pic)
  /\ handling' = Append(handling, NextIrq(pic))
  /\ UNCHANGED enabled

\* The innermost handler returns.
End ==
  /\ handling # << >>
  /\ pic' = pic_send_eoi(pic, handling[Len(handling)])
  /\ handling' = SubSeq(handling, 1, Len(handling) - 1)
  /\ UNCHANGED enabled

PicNext ==
  \/ Remap \/ MaskAll \/ UnmaskAll \/ Take \/ End
  \/ \E irq \in Irqs : Mask(irq) \/ Unmask(irq) \/ Device(irq)

PicSpec == PicInit /\ [][PicNext]_picVars

-----------------------------------------------------------------------------
\* The chips and the bookkeeping keep their types, and no call leaves a chip
\* in the middle of its initialisation sequence.
PicTypeOK ==
  /\ pic \in PicPair /\ pic.master.icw = 0 /\ pic.slave.icw = 0
  /\ handling \in Seq(0 .. 15)
  /\ enabled \subseteq 0 .. 15

\* Remapping, masking and unmasking leave exactly the lines enabled that
\* their callers left enabled: pic_init's configuration words never end up
\* in a mask or the other way round, no call touches another's line, and both
\* chips are operating after every call.
MasksAsAsked == PicTypeOK /\ Unmasked(pic) = enabled

\* After any nesting of handlers each pic_send_eoi ended its own interrupt
\* on both chips, although EOI does not name the line: what is in service is
\* what is being handled, with the cascade line for the slave's.
EoiMatches ==
  InService(pic) = Range(handling)
     \cup (IF \E irq \in Range(handling) : irq >= 8 THEN {Cascade} ELSE {})

\* pic.c:146 "Unmask (enable) a single IRQ line": once every handler has
\* returned, a request on an enabled line interrupts the CPU, whatever was
\* nested before.  For a line of the slave this needs the cascade line enabled
\* as well, which pic_unmask_irq does not see to.
EnabledLinesInterrupt ==
  \A irq \in Irqs \cap enabled :
    Remapped /\ handling = << >> /\ (irq < 8 \/ Cascade \in enabled)
      => INTR(Raise(pic, irq))
=============================================================================
