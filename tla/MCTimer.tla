------------------------------ MODULE MCTimer ------------------------------
\* Masks a PC firmware leaves: the timer, the keyboard, the cascade and the
\* clock open; everything shut.
EXTENDS Timer

MCBootMasks == {<<184, 142>>, <<255, 255>>}
=============================================================================
