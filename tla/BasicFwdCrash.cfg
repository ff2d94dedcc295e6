\* Two ports; the one address that is used is in no entry of dst_macs.
SPECIFICATION FwdSpec
CONSTANTS
  NbPorts = 2
  BurstSize = 2
  Mbufs = {b1, b2}
  Octets = {5}
  BroadcastOctet = bcast
INVARIANT
  NoCrash
CHECK_DEADLOCK FALSE
