SPECIFICATION Spec
CONSTANTS
  VGA_WIDTH = 3
  VGA_HEIGHT = 2
  TAB_WIDTH = 2
  Plain = {"0", "1", "2", "3", "4", "5", "6", "7", "8", "9", "A", "B", "C", "D",
           "E", "F", "a", "c", "d", "m", "p", "s", "x", "[", "]", " ", "-", "%",
           "ESC", "I", "W", "P"}
  Sample = {"a"}
  Eight = {}
  Fore = {4, 15}
  Back = {0}
  MaxStr = 2
  Digits = 2
  MemTop = 5
  Byte = 3
  HeapStart = 2097152
  HeapSize = 1048576
  Hdr = 12
  Word = 2147483647
  Sizes = {}
  Ticks = {0, 200}
  Keys <- MCKeys
  Special = {29}
  MaxNest = 2
  MaxLines = 2
  Formats <- MCFormats
INVARIANTS
  TypeOK
  CursorShown
  PrintfRenders
  InkOfLine
  SuiteSurvives
PROPERTIES
  ImplementsTerminal
  CallsDoAsAsked
