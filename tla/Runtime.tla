------------------------------ MODULE Runtime ------------------------------
(***************************************************************************)
(* The kernel's library layer at work, for one of its clients: any calls   *)
(* of the console, any calls of the memory functions, one printf, log      *)
(* lines of kernel_main interrupted by those of handlers, or the           *)
(* self-tests.                                                             *)
(***************************************************************************)
EXTENDS SelfTests

CONSTANT Formats  \* calls of printf, with the output they should give

\* The callers keep to the contract of printf.
ASSUME RuntimeAssumption ==
  \A f \in Formats :
    f.fmt \in Seq(AnyChar) /\ f.args \in Seq(Arg) /\ FormatFits(f.fmt, f.args)

VARIABLES
  client,
  wanted  \* the output the call of printf should give

vars == <<vgaVars, memVars, logVars, heapVars, testVars, client, wanted>>

Zeroed == [x \in Addr |-> 0]

Init ==
  /\ VgaInit /\ TestsInit
  /\ lines = 0 /\ typed = << >>
  /\ \/ client \in {"console", "log"} /\ output = << >> /\ wanted = << >>
        /\ mem = Zeroed /\ MemIdle
     \/ client = "memory" /\ output = << >> /\ wanted = << >> /\ MemInit
     \/ client = "tests" /\ output = << >> /\ wanted = << >>
        /\ mem \in {[x \in Addr |-> b] : b \in 0 .. Byte - 1} /\ MemIdle
     \/ client = "printf"
        /\ \E f \in Formats :
             /\ output = <<[calls |-> vprintf(f.fmt, f.args), shade |-> NoInk, cut |-> FALSE]>>
             /\ wanted = f.out
        /\ mem = Zeroed /\ MemIdle

Console ==
  /\ client = "console"
  /\ VgaNext
  /\ UNCHANGED <<memVars, logVars, heapVars, testVars, client, wanted>>

MemoryFunctions ==
  /\ client = "memory"
  /\ MemNext
  /\ UNCHANGED <<vgaVars, logVars, heapVars, testVars, client, wanted>>

Output ==
  /\ client \in {"printf", "log", "tests"}
  /\ Emit
  /\ UNCHANGED <<memVars, heapVars, testVars, client, wanted>>

LogLines ==
  /\ client = "log"
  /\ \E level \in DOMAIN Levels, t \in Ticks : LogCall(level, t, <<"m">>)
  /\ UNCHANGED <<memVars, heapVars, testVars, client, wanted>>

Interrupted ==
  /\ client = "log"
  /\ Handlers
  /\ UNCHANGED <<memVars, heapVars, testVars, client, wanted>>

Tests ==
  /\ client = "tests"
  /\ TestsNext
  /\ UNCHANGED <<client, wanted>>

\* The idle loop of kernel_main.
Idle ==
  /\ client = "printf" \/ step > Len(Script)
  /\ output = << >>
  /\ UNCHANGED vars

Next ==
  \/ Console \/ MemoryFunctions \/ Output \/ LogLines \/ Interrupted \/ Tests \/ Idle

Spec == Init /\ [][Next]_vars

-----------------------------------------------------------------------------
(* Properties                                                              *)

\* Every variable holds a value of its type: no console write leaves the text
\* memory, no memory function its bounds.
TypeOK ==
  /\ VgaTypeOK /\ MemTypeOK /\ TestsTypeOK
  /\ Len(output) <= MaxNest + 1 /\ lines \in 0 .. MaxLines

\* printf.c:21: what reaches the console, character by character and colour by
\* colour, is what the format and its arguments denote: a number is written
\* with the digits that have its value and no leading zero, the least int
\* included; unknown directives and broken escape sequences are printed,
\* unknown colour codes swallowed.
PrintfRenders ==
  /\ Len(typed) <= Len(wanted) /\ typed = SubSeq(wanted, 1, Len(typed))
  /\ client = "printf" /\ output = << >> => typed = wanted

\* The colour changes that a function has still to make: two before the message
\* of its line, one in the message, and none behind it.
ColoursLeft(f) == {n \in DOMAIN f.calls : f.calls[n].op = "colour"}

\* log.c:22: the colour is one global that every line sets and puts back, and a
\* handler may print a line of its own between any two calls of another.  The
\* message of a line is then in the line's colour, or in white behind a handler's
\* line, never in the colour of another line; a line ends in white, and so does
\* all printing.  Only the front of a line, its timestamp and level, takes the
\* colour it finds: white, or that of a line it cuts in the middle of its message.
InkOfLine ==
  LET ink == current_color_byte
      InMessage(f) == \E n \in DOMAIN f.calls : ColoursLeft(f) = {n}
  IN
  client \in {"log", "tests"} =>
    IF output = << >> THEN ink = White
    ELSE CASE ColoursLeft(Top) = {} -> ink = White
           [] InMessage(Top) -> ink = Top.shade \/ (Top.cut /\ ink = White)
           [] OTHER -> \/ ink = White
                       \/ \E n \in 1 .. Len(output) - 1 :
                            InMessage(output[n]) /\ ink = output[n].shade
=============================================================================
