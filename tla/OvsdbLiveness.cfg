\* The server answers every request; it may also send an echo request, close
\* the connection or answer twice, and the ticker runs.
SPECIFICATION AnsweringSpec
CONSTANTS
  Callers = {c1}
  EchoLoop = echoLoop
  EchoInterval = TRUE
  Bodies = {"result"}
  Unsolicited = {"echo", "stray", "mistyped", "eof"}
  MaxCalls = 1
  MaxUnsolicited = 1
  MaxTicks = 1
PROPERTIES
  CloseReturns
  CanceledCallReturns
  AnsweredCallReturns
  EchoTakenOrStalled
CHECK_DEADLOCK FALSE
