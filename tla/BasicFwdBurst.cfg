\* Two ports, bursts of two frames, each for one of the ports.
SPECIFICATION FwdSpec
CONSTANTS
  NbPorts = 2
  BurstSize = 2
  Mbufs = {b1, b2}
  Octets = {6, 7}
  BroadcastOctet = bcast
INVARIANT
  ByOwnAddress
CHECK_DEADLOCK FALSE
