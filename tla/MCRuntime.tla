----------------------------- MODULE MCRuntime -----------------------------
\* The calls of printf: every int with every directive for numbers, and every
\* pair of pieces from a list that reaches each branch of the code.
EXTENDS Runtime

Seqs == INSTANCE SequencesExt

\* The value of a sequence of digits in a base, and the sequence without
\* leading zero that has value v: what a number should look like.
ValueIn(base, s) ==
  Seqs!FoldLeft(LAMBDA n, d : n * base + (CHOOSE x \in 0 .. 15 : Numeral[x] = d), 0, s)

NumeralsIn(base) ==
  UNION {[1 .. n -> {Numeral[d] : d \in 0 .. base - 1}] : n \in 1 .. Digits + 1}

InBase(base) ==
  LET canonical == {s \in NumeralsIn(base) : Len(s) > 1 => s[1] # "0"}
  IN  [v \in 0 .. UIntCount - 1 |-> CHOOSE s \in canonical : ValueIn(base, s) = v]

Decimal == InBase(10)
Hexadecimal == InBase(16)

Looks(s) == [n \in DOMAIN s |-> Shown(s[n])]

Piece(fmt, args, out) == [fmt |-> fmt, args |-> args, out |-> out]

SignedPiece(v) ==
  Piece(<<"%", "d">>, <<Number(v)>>,
        Looks((IF v < 0 THEN <<"-">> ELSE << >>) \o Decimal[IF v < 0 THEN -v ELSE v]))

HexPiece(v) ==
  Piece(<<"%", "x">>, <<Number(v)>>, Looks(Hexadecimal[v % UIntCount]))

PtrPiece(v) ==
  Piece(<<"%", "p">>, <<Number(v)>>, Looks(<<"0", "x">> \o Hexadecimal[v % UIntCount]))

MCPieces ==
  {Piece(<<"a">>, << >>, Looks(<<"a">>)),
   Piece(<<"%", "%">>, << >>, Looks(<<"%">>)),
   Piece(<<"%", "m">>, << >>, Looks(<<"m">>)),
   Piece(<<"%", "c">>, <<Text(<<"a">>)>>, Looks(<<"a">>)),
   Piece(<<"%", "s">>, <<Text(<<"newline", "m">>)>>, Looks(<<"newline", "m">>)),
   Piece(<<"%", "s">>, <<Text(<< >>)>>, << >>),
   Piece(<<"ESC", "[", "3", "1", "m">>, << >>, <<Inked(4)>>),
   Piece(<<"ESC", "[", "0", "m">>, << >>, <<Inked(15)>>),
   Piece(<<"ESC", "[", "m">>, << >>, <<Inked(15)>>),
   Piece(<<"ESC", "[", "9", "m">>, << >>, << >>),
   Piece(<<"ESC", "[", "3", "]">>, << >>, Looks(<<"ESC", "[", "3", "]">>)),
   Piece(<<"ESC", "a">>, << >>, Looks(<<"ESC", "a">>))}
  \cup {SignedPiece(v) : v \in {-(UIntCount \div 2), -1, 10}}
  \cup {HexPiece(16)}

MCFormats ==
  {Piece(p.fmt \o q.fmt, p.args \o q.args, p.out \o q.out) : p, q \in MCPieces}
  \cup {SignedPiece(v) : v \in Ints} \cup {HexPiece(v) : v \in Ints}
  \cup {PtrPiece(v) : v \in Ints}

MCKeys == [c \in {"a"} |-> 30]
=============================================================================
