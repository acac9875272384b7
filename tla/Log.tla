-------------------------------- MODULE Log --------------------------------
(***************************************************************************)
(* Log lines (log/log.c) on the console, and the interrupt handlers that   *)
(* log too.  A line is a sequence of console calls, each under vga_lock,   *)
(* but no lock holds the line together: a handler that interrupts it puts  *)
(* its own line in its middle.                                             *)
(*                                                                         *)
(* A handler arrives between two console calls; one that arrives inside a  *)
(* call never returns, which Interrupts shows.  A message is one character *)
(* or directive, and the tag of a level its first letter.                  *)
(***************************************************************************)
EXTENDS Vga, Printf

CONSTANTS
  Ticks,    \* values of the tick counter
  Keys,     \* character of a key -> its scancode
  Special,  \* scancodes of keys without a character
  MaxNest,  \* handlers running at a time: an irq's, and an NMI's inside it
  MaxLines  \* bound on the lines of handlers

VARIABLES
  output,  \* the functions that are printing, innermost last: the calls each
           \* has still to make, the colour of its line (NoInk if it prints no
           \* line), and whether a handler has printed inside it
  lines,   \* lines of handlers so far
  typed    \* history: the characters and colours of the output of printf

logVars == <<output, lines, typed>>

White == 15

-----------------------------------------------------------------------------
Number(n) == [n |-> n, s |-> << >>]
Text(s)   == [n |-> 0, s |-> s]
Arg == [n : Int, s : {s \in Seq(AnyChar) : Len(s) <= MaxStr}]

\* The cast of the 64-bit counter to int leaves its low digits.
print_timestamp(t) ==
  printf(<<"[">>) \o vprintf(<<"%", "d">>, <<Number(IntOf(t))>>) \o printf(<<"]", Space>>)

\* Escape code, colour and tag of the levels.
Levels ==
  [info  |-> [code |-> <<"3", "2">>, shade |-> 2, tag |-> "I"],
   warn  |-> [code |-> <<"3", "3">>, shade |-> 6, tag |-> "W"],
   error |-> [code |-> <<"3", "1">>, shade |-> 4, tag |-> "E"]]

ASSUME LogAssumption ==
  /\ Ticks \subseteq Nat
  /\ \A c \in DOMAIN Keys : c \in Plain /\ Keys[c] \in 0 .. 127
  /\ Special \subseteq 0 .. 127
  /\ MaxNest \in Nat /\ MaxLines \in Nat
  /\ MaxStr >= 2
  /\ {Numeral[n] : n \in 0 .. 15} \cup {Levels[l].tag : l \in DOMAIN Levels}
       \cup {"ESC", "%", "[", "]", "-", "c", "d", "m", "x", Space} \subseteq Plain

LineStart(level) ==
  printf(<<"ESC", "[">> \o Levels[level].code \o <<"m", Levels[level].tag, Space>>)

LineEndNoReset == printf(<<"newline">>)

LineEnd == printf(<<"ESC", "[", "0", "m", "newline">>)

\* log_info, log_warn and log_error at tick t, and the calls that follow.
Line(level, t, fmt, args, after) ==
  [calls |-> print_timestamp(t) \o LineStart(level) \o vprintf(fmt, args) \o LineEnd
             \o after,
   shade |-> Levels[level].shade, cut |-> FALSE]

\* A handler suspends what is printing.
Push(f) ==
  output' = Append([i \in DOMAIN output |-> [output[i] EXCEPT !.cut = TRUE]], f)

Calm == left = -1 /\ Len(output) <= MaxNest /\ lines < MaxLines

LogFrom(f) ==
  /\ Calm
  /\ Push(f)
  /\ lines' = lines + 1
  /\ UNCHANGED <<vgaVars, typed>>

keyboard_handler(c, t) ==
  LogFrom(Line("info", t, <<"%", "c", "%", "x">>, <<Text(<<c>>), Number(Keys[c])>>,
               <<Put(c)>>))

keyboard_handler_special(scancode, t) ==
  LogFrom(Line("info", t, <<"%", "x">>, <<Number(scancode)>>, << >>))

isr_unhandled_interrupt(t) ==
  LogFrom(Line("warn", t, <<"%", "x">>, <<Number(0)>>, << >>))

\* kernel_main logs a message, when it has printed the last one.
LogCall(level, t, fmt) ==
  /\ output = << >>
  /\ output' = <<Line(level, t, fmt, << >>, << >>)>>
  /\ UNCHANGED <<vgaVars, lines, typed>>

-----------------------------------------------------------------------------
\* The innermost function makes its next console call.

Top == output[Len(output)]

Printing == output # << >> /\ Top.calls # << >>

Call == Top.calls[1]

Made == output' = [output EXCEPT ![Len(output)].calls = Tail(@)]

\* Something printf has put on the screen: a character, or a colour set.
Shown(c) == [char |-> c, ink |-> NoInk]
Inked(n) == [char |-> "none", ink |-> n]

Type(e) ==
  typed' = IF Top.shade = NoInk THEN Append(typed, e) ELSE typed

EmitPut ==
  /\ Printing /\ Call.op = "put"
  /\ vga_put_char(Call.text[1])
  /\ Type(Shown(Call.text[1]))
  /\ Made
  /\ UNCHANGED lines

EmitColour ==
  /\ Printing /\ Call.op = "colour"
  /\ vga_set_color(Call.ink)
  /\ Type(Inked(Call.ink))
  /\ Made
  /\ UNCHANGED lines

EmitWrite ==
  /\ Printing /\ Call.op = "write"
  /\ WriteCall(Len(Call.text))
  /\ UNCHANGED logVars

EmitChar ==
  LET c == Call.text[Len(Call.text) - left + 1] IN
  /\ Printing /\ left > 0
  /\ WriteChar(c)
  /\ Type(Shown(c))
  /\ UNCHANGED <<output, lines>>

EmitReturn ==
  /\ Printing
  /\ WriteReturn
  /\ Made
  /\ UNCHANGED <<lines, typed>>

\* It returns.
Finish ==
  /\ output # << >> /\ Top.calls = << >>
  /\ output' = SubSeq(output, 1, Len(output) - 1)
  /\ UNCHANGED <<vgaVars, lines, typed>>

Emit == EmitPut \/ EmitColour \/ EmitWrite \/ EmitChar \/ EmitReturn \/ Finish

Handlers ==
  \E t \in Ticks :
    \/ \E c \in DOMAIN Keys : keyboard_handler(c, t)
    \/ \E scancode \in Special : keyboard_handler_special(scancode, t)
    \/ isr_unhandled_interrupt(t)
=============================================================================
