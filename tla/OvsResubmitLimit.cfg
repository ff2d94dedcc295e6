\* The limit that the error names and the one the code compares with.
SPECIFICATION LibrarySpec
CONSTANTS
  U8 = 4
  U12 = 5
  U16 = 6
  U32 = 8
  U64 = 10
INVARIANT
  ResubmitPortLimit
CHECK_DEADLOCK FALSE
