----------------------------- MODULE Allocator -----------------------------
(***************************************************************************)
(* What a dynamic memory allocator promises its callers, without saying    *)
(* how: every successful allocation is a byte range of the arena that      *)
(* overlaps no range still in use and has a pointer of its own, and a      *)
(* range stays as it was handed out until its owner gives it back.  A      *)
(* failed allocation is a step that changes nothing here.                  *)
(***************************************************************************)
EXTENDS Integers

CONSTANTS
  Lo, Hi,     \* the arena is the byte range Lo .. Hi - 1
  Requests    \* the sizes callers may ask for

VARIABLE live \* pointer -> size asked for, for every pointer in use

Disjoint(p, m, q, n) == p + m <= q \/ q + n <= p

Init == live = [p \in {} |-> 0]

Malloc(n, p) ==
  /\ p \notin DOMAIN live
  /\ Lo <= p /\ p + n <= Hi
  /\ \A q \in DOMAIN live : Disjoint(p, n, q, live[q])
  /\ live' = [q \in DOMAIN live \cup {p} |-> IF q = p THEN n ELSE live[q]]

Free(p) ==
  /\ p \in DOMAIN live
  /\ live' = [q \in DOMAIN live \ {p} |-> live[q]]

Next ==
  \/ \E n \in Requests, p \in Lo .. Hi : Malloc(n, p)
  \/ \E p \in DOMAIN live : Free(p)

Spec == Init /\ [][Next]_live
=============================================================================
