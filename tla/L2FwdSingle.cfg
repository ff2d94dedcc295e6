\* One lcore polls both ports (-q 2).
SPECIFICATION FairSpec
CONSTANTS
  Lcores = {1}
  NbPorts = 2
  EnabledPorts = {0, 1}
  RxQueuePerLcore = 2
  MacEntries = 2
  MaxPktBurst = 2
  MaxCheckTime = 1
  Hosts = {h1, h2}
  Broadcast = bcast
  Zero = zero
  ZeroAddress = FALSE
  Mbufs = {b1, b2}
  NoMbuf = noMbuf
  SetupMayFail = FALSE
  TxMayRefuse = FALSE
  MaxFrames = 3
INVARIANTS
  TypeOK
  TableSound
  NoTableOverrun
  MbufConserved
  NeverReflected
PROPERTIES
  EveryFrameForwarded
CHECK_DEADLOCK FALSE
