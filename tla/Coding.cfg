\* The controller: two hosts on two ports; a host may move, the switch may
\* reconnect.  The forwarder: two ports, three mbufs; addresses of no port (5),
\* of both ports, and of port 2 (8).
SPECIFICATION CodingSpec
CONSTANTS
  Hosts = {h1, h2}
  Broadcast = bcast
  Ports = {p1, p2}
  NoPort = noPort
  IN_PORT = inPort
  ALL = all
  MaxFrames = 3
  MaxMoves = 1
  MaxConnections = 2
  NbPorts = 2
  BurstSize = 2
  Mbufs = {b1, b2, b3}
  Octets = {5, 6, 7, 8}
  BroadcastOctet = bcastOctet
INVARIANTS
  TypeOK
  FlowsLeadHome
  OneOwner
PROPERTIES
  EveryFrameSettles
CHECK_DEADLOCK FALSE
