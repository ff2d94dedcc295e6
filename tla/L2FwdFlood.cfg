\* One lcore polls three ports (-q 3): a flooded frame has two copies.
SPECIFICATION Spec
CONSTANTS
  Lcores = {1}
  NbPorts = 3
  EnabledPorts = {0, 1, 2}
  RxQueuePerLcore = 3
  MacEntries = 2
  MaxPktBurst = 2
  MaxCheckTime = 1
  Hosts = {h1, h2}
  Broadcast = bcast
  Zero = zero
  ZeroAddress = FALSE
  Mbufs = {b1, b2}
  NoMbuf = noMbuf
  SetupMayFail = FALSE
  TxMayRefuse = FALSE
  MaxFrames = 3
SYMMETRY HostSymmetry
INVARIANT
  SentIntact
CHECK_DEADLOCK FALSE
