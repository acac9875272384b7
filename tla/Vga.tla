-------------------------------- MODULE Vga --------------------------------
(***************************************************************************)
(* The console (drivers/vga/vga.c): text memory, a row and column, and the *)
(* hardware cursor.  A call holds vga_lock throughout, so calls do not     *)
(* interleave; what the lock does to interrupt handlers is in Interrupts.  *)
(*                                                                         *)
(* vga_put_char is one step; vga_write is one step per character.          *)
(***************************************************************************)
EXTENDS Integers

CONSTANTS
  VGA_WIDTH, VGA_HEIGHT, TAB_WIDTH,
  Plain,    \* printable characters of seven bits
  Eight,    \* characters with bit 7 set
  Sample,   \* characters that callers of the console itself print
  Fore, Back, \* colours callers choose, of 4 bits
  MaxStr    \* longest string passed to vga_write

ASSUME VgaAssumption ==
  /\ VGA_WIDTH \in Nat \ {0} /\ VGA_HEIGHT \in Nat \ {0} /\ TAB_WIDTH \in Nat \ {0}
  /\ Plain \cap Eight = {} /\ Sample \subseteq Plain \cup Eight
  /\ Fore \subseteq 0 .. 15 /\ Back \subseteq 0 .. 15
  /\ MaxStr \in Nat

VARIABLES
  VGA_MEMORY,
  cursor_row, cursor_col,
  current_color_byte,
  hw_cursor,  \* position in the cursor registers
  left        \* characters vga_write has still to write, or -1 outside it

vgaVars == <<VGA_MEMORY, cursor_row, cursor_col, current_color_byte, hw_cursor, left>>

Cells == 0 .. VGA_WIDTH * VGA_HEIGHT - 1

Space == " "

\* A char is signed: widening one with bit 7 set fills the colour byte with
\* ones.
vga_entry(c, color_byte) ==
  [char |-> c, colour |-> IF c \in Eight THEN 255 ELSE color_byte]

Blanked == [x \in Cells |-> vga_entry(Space, current_color_byte)]

\* After vga_init.
VgaInit ==
  /\ current_color_byte = 15
  /\ VGA_MEMORY = [x \in Cells |-> vga_entry(Space, 15)]
  /\ cursor_row = 0 /\ cursor_col = 0 /\ hw_cursor = 0
  /\ left = -1

-----------------------------------------------------------------------------
\* The state of the console while a character is handled.
Here == [mem |-> VGA_MEMORY, row |-> cursor_row, col |-> cursor_col]

At(s) == s.row * VGA_WIDTH + s.col

NewLine(s) == [mem |-> s.mem, row |-> s.row + 1, col |-> 0]

handle_backspace(s) ==
  LET t == CASE s.col > 0                -> [s EXCEPT !.col = @ - 1]
             [] s.col = 0 /\ s.row > 0 -> [mem |-> s.mem, row |-> s.row - 1,
                                             col |-> VGA_WIDTH - 1]
             [] OTHER                    -> s
  IN  [t EXCEPT !.mem[At(t)] = vga_entry(Space, current_color_byte)]

TabStop(col) == ((col + TAB_WIDTH) \div TAB_WIDTH) * TAB_WIDTH

handle_tab(s) ==
  IF TabStop(s.col) >= VGA_WIDTH THEN NewLine(s) ELSE [s EXCEPT !.col = TabStop(@)]

Printed(s, c) ==
  LET t == [s EXCEPT !.mem[At(s)] = vga_entry(c, current_color_byte)] IN
  IF s.col + 1 >= VGA_WIDTH THEN NewLine(t) ELSE [t EXCEPT !.col = @ + 1]

Handled(s, c) ==
  CASE c = "newline" -> NewLine(s)
    [] c = "backspace" -> handle_backspace(s)
    [] c = "tab" -> handle_tab(s)
    [] c = "return" -> [s EXCEPT !.col = 0]
    [] OTHER    -> Printed(s, c)

scroll_keeps_last(s) ==
  [mem |-> [x \in Cells |-> IF x + VGA_WIDTH \in Cells THEN s.mem[x + VGA_WIDTH]
                            ELSE s.mem[x]],
   row |-> VGA_HEIGHT - 1, col |-> s.col]

scroll(s) ==
  [mem |-> [x \in Cells |-> IF x + VGA_WIDTH \in Cells THEN s.mem[x + VGA_WIDTH]
                            ELSE vga_entry(Space, current_color_byte)],
   row |-> VGA_HEIGHT - 1, col |-> s.col]

ScrolledLate(s) == IF s.row > VGA_HEIGHT THEN scroll(s) ELSE s

Scrolled(s) == IF s.row >= VGA_HEIGHT THEN scroll(s) ELSE s

Becomes(s) ==
  VGA_MEMORY' = s.mem /\ cursor_row' = s.row /\ cursor_col' = s.col

update_cursor == hw_cursor' = cursor_row' * VGA_WIDTH + cursor_col'

Controls == {"newline", "backspace", "tab", "return"}
Chars == Sample \cup Controls
AnyChar == Plain \cup Eight \cup Controls

vga_put_char(c) ==
  /\ left = -1
  /\ Becomes(Scrolled(Handled(Here, c)))
  /\ update_cursor
  /\ UNCHANGED <<current_color_byte, left>>

WriteCall(len) ==
  /\ left = -1
  /\ left' = len
  /\ UNCHANGED <<VGA_MEMORY, cursor_row, cursor_col, current_color_byte, hw_cursor>>

WriteChar(c) ==
  /\ left > 0
  /\ Becomes(Scrolled(Handled(Here, c)))
  /\ left' = left - 1
  /\ UNCHANGED <<current_color_byte, hw_cursor>>

WriteReturnNoCursor ==
  /\ left = 0
  /\ left' = -1
  /\ UNCHANGED <<VGA_MEMORY, cursor_row, cursor_col, current_color_byte, hw_cursor>>

WriteReturn ==
  /\ left = 0
  /\ left' = -1
  /\ UNCHANGED <<VGA_MEMORY, cursor_row, cursor_col, current_color_byte>>
  /\ update_cursor

vga_clear ==
  /\ left = -1
  /\ Becomes([mem |-> Blanked, row |-> 0, col |-> 0])
  /\ update_cursor
  /\ UNCHANGED <<current_color_byte, left>>

vga_set_colors(fg, bg) ==
  /\ left = -1
  /\ current_color_byte' = fg + 16 * bg
  /\ UNCHANGED <<VGA_MEMORY, cursor_row, cursor_col, hw_cursor, left>>

vga_set_color(c) ==
  /\ left = -1
  /\ current_color_byte' = (c % 16) + (current_color_byte - (current_color_byte % 16))
  /\ UNCHANGED <<VGA_MEMORY, cursor_row, cursor_col, hw_cursor, left>>

VgaNext ==
  \/ \E c \in Chars : vga_put_char(c) \/ WriteChar(c)
  \/ \E len \in 0 .. MaxStr : WriteCall(len)
  \/ WriteReturn
  \/ vga_clear
  \/ \E fg \in Fore, bg \in Back : vga_set_colors(fg, bg)
  \/ \E c \in Fore : vga_set_color(c)

VgaSpec == VgaInit /\ [][VgaNext]_vgaVars

-----------------------------------------------------------------------------
(* Properties                                                              *)

\* Every variable holds a value of its type: between characters the cursor is
\* on the screen, so no write leaves the text memory.
VgaTypeOK ==
  /\ VGA_MEMORY \in [Cells -> [char : Plain \cup Eight \cup {Space}, colour : 0 .. 255]]
  /\ cursor_row \in 0 .. VGA_HEIGHT - 1 /\ cursor_col \in 0 .. VGA_WIDTH - 1
  /\ current_color_byte \in 0 .. 255
  /\ hw_cursor \in Cells
  /\ left \in -1 .. MaxStr

\* Between calls the hardware cursor stands where the next character goes,
\* although vga_write moves it only once.
CursorShown == left = -1 => hw_cursor = cursor_row * VGA_WIDTH + cursor_col

\* The screen behaves as a typewriter page: rows, wrapping, tab stops,
\* backspacing over a line end and scrolling come to moving one position.
Abstract == INSTANCE Terminal
              WITH Width <- VGA_WIDTH, Size <- VGA_WIDTH * VGA_HEIGHT,
                   Tab <- TAB_WIDTH, Plain <- Plain \cup Eight, page <- VGA_MEMORY,
                   pos <- cursor_row * VGA_WIDTH + cursor_col,
                   ink <- current_color_byte

ImplementsTerminal == Abstract!Spec
=============================================================================
