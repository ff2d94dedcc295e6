\* One lcore polls both ports; frames may bear the address 00:00:00:00:00:00,
\* which every empty entry of the table has too.
SPECIFICATION Spec
CONSTANTS
  Lcores = {1}
  NbPorts = 2
  EnabledPorts = {0, 1}
  RxQueuePerLcore = 2
  MacEntries = 2
  MaxPktBurst = 2
  MaxCheckTime = 1
  Hosts = {h1, h2}
  Broadcast = bcast
  Zero = zero
  ZeroAddress = TRUE
  Mbufs = {b1, b2}
  NoMbuf = noMbuf
  SetupMayFail = FALSE
  TxMayRefuse = FALSE
  MaxFrames = 3
SYMMETRY HostSymmetry
INVARIANT
  NeverReflected
CHECK_DEADLOCK FALSE
