\* Two ports; an address of no port, of both ports, and the broadcast one.
SPECIFICATION FwdSpec
CONSTANTS
  NbPorts = 2
  BurstSize = 2
  Mbufs = {b1, b2}
  Octets = {5, 6, 7}
  BroadcastOctet = bcast
INVARIANT
  NeverDeaf
CHECK_DEADLOCK FALSE
