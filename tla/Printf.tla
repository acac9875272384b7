------------------------------- MODULE Printf -------------------------------
(***************************************************************************)
(* Formatted output (lib/printf.c) as the sequence of console calls a      *)
(* format and its arguments come to.  An int has Digits hexadecimal        *)
(* digits: 8 in the kernel, fewer in an instance.                          *)
(*                                                                         *)
(* A format is the sequence of its characters without the terminator.  As  *)
(* in every call of the kernel it has an argument for each directive and   *)
(* does not end in a single '%', after which the loop would read on behind *)
(* the terminator (FormatFits).                                            *)
(***************************************************************************)
EXTENDS Integers, Sequences

CONSTANT Digits

UIntCount == 16^Digits

\* What powers are is beyond the provers.
ASSUME PrintfAssumption ==
  /\ Digits \in Nat \ {0}
  /\ UIntCount \in Nat \ {0} /\ \A n \in 0 .. Digits : 16^n \in Nat \ {0}
  /\ 16^0 = 1 /\ \A n \in 1 .. Digits : 16^n = 16 * 16^(n - 1)

\* The values of int.
Ints == -(UIntCount \div 2) .. (UIntCount \div 2) - 1

\* The conversion of a wider integer to int.
IntOf(n) ==
  LET u == n % UIntCount IN IF u < UIntCount \div 2 THEN u ELSE u - UIntCount

hex == <<"0", "1", "2", "3", "4", "5", "6", "7", "8", "9",
         "A", "B", "C", "D", "E", "F">>

Numeral == [i \in 0 .. 15 |-> hex[i + 1]]

\* The calls of vga.h that printf makes, in one shape.
NoInk == -1
Put(c)    == [op |-> "put",    text |-> <<c>>, ink |-> NoInk]
Write(s)  == [op |-> "write",  text |-> s,     ink |-> NoInk]
Colour(n) == [op |-> "colour", text |-> << >>, ink |-> n]

Puts(s) == [i \in DOMAIN s |-> Put(s[i])]

-----------------------------------------------------------------------------
\* The loop over buf, which holds the last digit first.
DecimalDigits[unum \in 0 .. UIntCount - 1] ==
  IF unum = 0 THEN << >> ELSE Append(DecimalDigits[unum \div 10], Numeral[unum % 10])

print_number_signed(num) ==
  LET magnitude == IF num = -(UIntCount \div 2) THEN 0 ELSE -num IN
  CASE num = 0 -> Puts(<<"0">>)
    [] num < 0 -> Puts(<<"-">> \o DecimalDigits[magnitude])
    [] OTHER   -> Puts(DecimalDigits[num])

\* ~unum + 1 negates modulo the number of unsigned values, which gives the
\* magnitude of the least int too.
print_number(num) ==
  LET unum == num % UIntCount IN
  CASE num = 0 -> Puts(<<"0">>)
    [] num < 0 -> Puts(<<"-">> \o DecimalDigits[((UIntCount - 1 - unum) + 1) % UIntCount])
    [] OTHER   -> Puts(DecimalDigits[unum])

\* The digits from the first that is not 0 on, or the lowest.
HexDigits(num) ==
  LET digit == [i \in 1 .. Digits |-> (num \div 16^(Digits - i)) % 16]
      first == CHOOSE i \in 1 .. Digits : /\ digit[i] # 0 \/ i = Digits
                                         /\ \A j \in 1 .. i - 1 : digit[j] = 0
  IN  [i \in 1 .. Digits - first + 1 |-> Numeral[digit[first + i - 1]]]

print_hex(num) == Puts(HexDigits(num % UIntCount))

print_ptr(ptr) == <<Write(<<"0", "x">>)>> \o Puts(HexDigits(ptr % UIntCount))

-----------------------------------------------------------------------------
Decimals == {Numeral[i] : i \in 0 .. 9}

\* Escape code -> colour.
CodeColours ==
  [code \in {0} \cup 30 .. 37 |->
     IF code = 0 THEN 15 ELSE <<0, 4, 2, 6, 1, 5, 3, 7>>[code - 29]]

\* A code with no colour of its own is swallowed.
CodeCalls(code) ==
  IF code \in DOMAIN CodeColours THEN <<Colour(CodeColours[code])>> ELSE << >>

\* The loop over the digits of a code.  It takes ten digits to overflow the int,
\* and no format of the kernel has more than two.
CodeOf(digits) ==
  LET code[n \in 0 .. Len(digits)] ==
        IF n = 0 THEN 0
        ELSE code[n - 1] * 10 + (CHOOSE i \in 0 .. 9 : Numeral[i] = digits[n])
  IN  code[Len(digits)]

\* handle_ansi at the start of fmt: the calls it makes and the number of
\* characters it consumes, 0 when this is no escape sequence.
handle_ansi(fmt) ==
  LET ends == {i \in 3 .. Len(fmt) : /\ fmt[i] \notin Decimals
                                     /\ \A j \in 3 .. i - 1 : fmt[j] \in Decimals}
      failed == [calls |-> << >>, len |-> 0]
  IN  IF Len(fmt) < 2 \/ fmt[2] # "[" THEN failed
      ELSE IF \E i \in ends : fmt[i] = "m"
        THEN LET m == CHOOSE i \in ends : TRUE IN
             [calls |-> CodeCalls(CodeOf(SubSeq(fmt, 3, m - 1))), len |-> m]
      ELSE failed

\* Directive d on its argument [n |-> integer, s |-> string].
Directive(d, arg) ==
  CASE d = "d" -> print_number(arg.n)
    [] d = "x" -> print_hex(arg.n)
    [] d = "p" -> print_ptr(arg.n)
    [] d = "s" -> <<Write(arg.s)>>
    [] d = "c" -> Puts(arg.s)

Directives == {"d", "x", "p", "s", "c"}

Rest(s, n) == SubSeq(s, n + 1, Len(s))

\* The state of the loop of vprintf: the position in fmt, the arguments read
\* and the calls made.  n characters on:
On(s, n, used, calls) ==
  [at |-> s.at + n, used |-> s.used + used, calls |-> s.calls \o calls]

Iteration(fmt, args, s) ==
  LET c == fmt[s.at]
      d == fmt[s.at + 1]
      ansi == handle_ansi(Rest(fmt, s.at - 1))
  IN  IF s.at > Len(fmt) THEN s
      ELSE IF c = "ESC" /\ ansi.len > 0 THEN On(s, ansi.len, 0, ansi.calls)
      ELSE IF c = "%" /\ d \in Directives
        THEN On(s, 2, 1, Directive(d, args[s.used + 1]))
      ELSE IF c = "%" THEN On(s, 2, 0, <<Put(d)>>)
      ELSE On(s, 1, 0, <<Put(c)>>)

\* No format takes more iterations than it has characters.
Iterations(fmt, args) ==
  LET after[n \in 0 .. Len(fmt)] ==
        IF n = 0 THEN [at |-> 1, used |-> 0, calls |-> << >>]
        ELSE Iteration(fmt, args, after[n - 1])
  IN  after

\* The contract of the callers: an argument for each directive, and no single
\* '%' at the end.
FormatFits(fmt, args) ==
  \A n \in 0 .. Len(fmt) :
    LET s == Iterations(fmt, args)[n] IN
    s.at \in DOMAIN fmt /\ fmt[s.at] = "%" =>
      s.at < Len(fmt) /\ (fmt[s.at + 1] \in Directives => s.used < Len(args))

vprintf(fmt, args) == Iterations(fmt, args)[Len(fmt)].calls

printf(fmt) == vprintf(fmt, << >>)
=============================================================================
