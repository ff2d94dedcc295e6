\* echoLoop waits for a reply that only listen can deliver, while listen
\* waits for echoLoop to take the next echo request.
SPECIFICATION AnsweringSpec
CONSTANTS
  Callers = {c1}
  EchoLoop = echoLoop
  EchoInterval = TRUE
  Bodies = {"result"}
  Unsolicited = {"echo"}
  MaxCalls = 1
  MaxUnsolicited = 1
  MaxTicks = 1
PROPERTY
  EchoRequestHonoured
CHECK_DEADLOCK FALSE
