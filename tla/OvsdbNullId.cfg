\* The server sends a notification that is no echo; its ID is null.
SPECIFICATION Spec
CONSTANTS
  Callers = {c1}
  EchoLoop = echoLoop
  EchoInterval = FALSE
  Bodies = {"result"}
  Unsolicited = {"echo", "stray", "notification"}
  MaxCalls = 1
  MaxUnsolicited = 1
  MaxTicks = 0
INVARIANT
  NoPanic
CHECK_DEADLOCK FALSE
