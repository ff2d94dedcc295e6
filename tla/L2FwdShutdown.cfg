\* Two lcores with a port each (the default -q 1) share table and TX buffers.
SPECIFICATION FairSpec
CONSTANTS
  Lcores = {1, 2, 3}
  NbPorts = 2
  EnabledPorts = {0}
  RxQueuePerLcore = 1
  MacEntries = 1
  MaxPktBurst = 1
  MaxCheckTime = 2
  Hosts = {h1}
  Broadcast = bcast
  Zero = zero
  ZeroAddress = FALSE
  Mbufs = {b1, b2}
  NoMbuf = noMbuf
  SetupMayFail = TRUE
  TxMayRefuse = TRUE
  MaxFrames = 2
INVARIANTS
  NoUseOfClosedPort
PROPERTIES
  QuitTerminates
CHECK_DEADLOCK FALSE
