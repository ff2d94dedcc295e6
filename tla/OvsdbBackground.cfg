\* One caller, the ticker and echoLoop, every kind of server message.
SPECIFICATION Spec
CONSTANTS
  Callers = {c1}
  EchoLoop = echoLoop
  EchoInterval = TRUE
  Bodies = {"result", "ovsdbError"}
  Unsolicited = {"echo", "stray", "notification", "mistyped", "malformed", "eof"}
  MaxCalls = 1
  MaxUnsolicited = 1
  MaxTicks = 1
INVARIANTS
  TypeOK
PROPERTIES
  QuietAfterClose
  ImplementsRpcCalls
CHECK_DEADLOCK FALSE
