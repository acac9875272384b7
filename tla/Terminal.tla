------------------------------ MODULE Terminal ------------------------------
(***************************************************************************)
(* What the console promises: a typewriter with one position on a page of  *)
(* Size cells in lines of Width.  Every key moves the position along the   *)
(* page; when it leaves the page, the page moves up by one line.           *)
(***************************************************************************)
EXTENDS Integers

CONSTANTS Width, Size, Tab, Plain

VARIABLES
  page,
  pos,
  ink   \* colour of what is typed and of fresh paper

vars == <<page, pos, ink>>

Cells == 0 .. Size - 1

Blank == [char |-> " ", colour |-> ink]

\* The page and position when the position has become p on page g.
Settle(g, p) ==
  IF p < Size THEN page' = g /\ pos' = p
  ELSE /\ page' = [x \in Cells |-> IF x < Size - Width THEN g[x + Width]
                                   ELSE Blank]
       /\ pos' = p - Width

Line == pos - (pos % Width)
NextLine == Line + Width

Type(c) ==
  Settle([page EXCEPT ![pos] = [char |-> c, colour |-> ink]], pos + 1)

Newline == Settle(page, NextLine)

CarriageReturn == Settle(page, Line)

\* To the next tab stop of the line, or to the next line if it has none.
TabKey ==
  LET stop == CHOOSE s \in pos + 1 .. pos + Tab : (s - Line) % Tab = 0 IN
  Settle(page, IF stop < NextLine THEN stop ELSE NextLine)

Backspace ==
  LET back == IF pos = 0 THEN 0 ELSE pos - 1 IN
  Settle([page EXCEPT ![back] = Blank], back)

Clear == page' = [x \in Cells |-> Blank] /\ pos' = 0

Init == page = [x \in Cells |-> Blank] /\ pos = 0

Next ==
  \/ /\ \/ \E c \in Plain : Type(c)
        \/ Newline \/ CarriageReturn \/ TabKey \/ Backspace \/ Clear
     /\ UNCHANGED ink
  \/ UNCHANGED <<page, pos>>

Spec == Init /\ [][Next]_vars
=============================================================================
