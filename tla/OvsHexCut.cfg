\* Hexadecimal numbers one above the largest of 16 bits.
SPECIFICATION LibrarySpec
CONSTANTS
  U8 = 4
  U12 = 5
  U16 = 6
  U32 = 8
  U64 = 10
INVARIANT
  HexReadWhole
CHECK_DEADLOCK FALSE
