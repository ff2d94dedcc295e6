\* Two callers race with listen over the callback map; replies may be late,
\* repeated, guessed or out of order.
SPECIFICATION Spec
CONSTANTS
  Callers = {c1, c2}
  EchoLoop = echoLoop
  EchoInterval = FALSE
  Bodies = {"result"}
  Unsolicited = {"stray"}
  MaxCalls = 3
  MaxUnsolicited = 1
  MaxTicks = 0
SYMMETRY CallerSymmetry
INVARIANTS
  NoPanic
  RepliesMatch
  NilMeansResult
  NoCallbackLeak
  DeliverNeverBlocks
CHECK_DEADLOCK FALSE
