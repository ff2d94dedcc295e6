\* One lcore polls both ports; one host more than the table has entries.
SPECIFICATION Spec
CONSTANTS
  Lcores = {1}
  NbPorts = 2
  EnabledPorts = {0, 1}
  RxQueuePerLcore = 2
  MacEntries = 2
  MaxPktBurst = 2
  MaxCheckTime = 1
  Hosts = {h1, h2, h3}
  Broadcast = bcast
  Zero = zero
  ZeroAddress = FALSE
  Mbufs = {b1, b2}
  NoMbuf = noMbuf
  SetupMayFail = FALSE
  TxMayRefuse = FALSE
  MaxFrames = 3
SYMMETRY HostSymmetry
INVARIANT
  LearnedInTable
CHECK_DEADLOCK FALSE
