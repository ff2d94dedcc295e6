\* Widths scaled down, in the order of the real ones; two callers.
SPECIFICATION Spec
CONSTANTS
  U8 = 4
  U12 = 5
  U16 = 6
  U32 = 8
  U64 = 10
  Callers = {t1, t2}
  MaxCalls = 4
  PipeCap = 1
  MaxOutput = 1
INVARIANTS
  ExactCover
  CoarsestInOrder
  MatchRoundTrip
  NumbersKept
  GoStringDenotes
  ActionsRoundTrip
  FlowRoundTrip
  DropAlone
  MatchFlowSelects
  DumpSound
  ClientReady
  DatapathWhole
  NilMeansApplied
  CommandIntact
PROPERTIES
  BundleReturns
CHECK_DEADLOCK FALSE
