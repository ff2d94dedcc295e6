\* A message that is not JSON: the decoder repeats its error for ever.
SPECIFICATION FairSpec
CONSTANTS
  Callers = {c1}
  EchoLoop = echoLoop
  EchoInterval = FALSE
  Bodies = {"result"}
  Unsolicited = {"malformed"}
  MaxCalls = 1
  MaxUnsolicited = 1
  MaxTicks = 0
PROPERTY
  CloseReturns
CHECK_DEADLOCK FALSE
