\* Flow texts in which drop is written in capitals.
SPECIFICATION LibrarySpec
CONSTANTS
  U8 = 4
  U12 = 5
  U16 = 6
  U32 = 8
  U64 = 10
INVARIANT
  DropAloneInCapitals
CHECK_DEADLOCK FALSE
