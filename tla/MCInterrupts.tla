---------------------------- MODULE MCInterrupts ----------------------------
\* Mask bytes of the two 8259s: as PC firmware leaves them, and with the
\* timer line shut as well.
EXTENDS Interrupts

MCFirmwareMask == <<184, 142>>
MCTimerShut    == <<185, 142>>
=============================================================================
