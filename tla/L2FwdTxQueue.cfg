\* Two lcores with a port each (the default -q 1).
SPECIFICATION Spec
CONSTANTS
  Lcores = {1, 2}
  NbPorts = 2
  EnabledPorts = {0, 1}
  RxQueuePerLcore = 1
  MacEntries = 2
  MaxPktBurst = 2
  MaxCheckTime = 1
  Hosts = {h1, h2}
  Broadcast = bcast
  Zero = zero
  ZeroAddress = FALSE
  Mbufs = {b1, b2}
  NoMbuf = noMbuf
  SetupMayFail = FALSE
  TxMayRefuse = FALSE
  MaxFrames = 2
SYMMETRY HostSymmetry
INVARIANT
  DedicatedTxQueue
CHECK_DEADLOCK FALSE
