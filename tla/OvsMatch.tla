------------------------------ MODULE OvsMatch ------------------------------
(***************************************************************************)
(* Matches of package ovs: the structs its constructors build, the text    *)
(* and the Go source they marshal to, and the parser of the text.  A match *)
(* is a record of the struct's fields and its type; the text of a match is *)
(* a key and a value (module OvsText).                                     *)
(***************************************************************************)
EXTENDS PortRange

Text(key, parts) == Ok([key |-> key, parts |-> parts])

\* The text of a number with an optional mask: the mask 0 means none.
Masked(key, num, mask) ==
  Text(key, IF mask = 0 THEN <<hex(num)>> ELSE <<hex(num), hex(mask)>>)

validVLANVID(vid) == 0 <= vid /\ vid <= MaxUint(U12)

\* VLANNone, 0xffff in 16 bits.
VLANNone == MaxUint(U16)

----------------------------------------------------------------------------
(* Helpers of MarshalText.                                                 *)

\* A CIDR block keeps its spelling, an address is printed anew.
matchIPv4AddressOrCIDR(key, ip) ==
  LET cidr == ParseCIDR(ip)  addr == ParseIP(ip) IN
  CASE cidr.ok /\ cidr.val.v4 -> Text(key, ip)
    [] ~cidr.ok /\ addr.ok /\ addr.val.v4 -> Text(key, <<IPString(addr.val)>>)
    [] OTHER -> Fail

matchIPv6AddressOrCIDR(key, ip) ==
  LET cidr == ParseCIDR(ip)  addr == ParseIP(ip) IN
  CASE cidr.ok /\ ~cidr.val.v4 -> Text(key, ip)
    [] ~cidr.ok /\ addr.ok /\ ~addr.val.v4 -> Text(key, <<IPString(addr.val)>>)
    [] OTHER -> Fail

matchEthernetHardwareAddress(key, addr) ==
  IF addr.len = 6 THEN Text(key, <<HwString(addr)>>) ELSE Fail

\* No mask is written as decimal, a masked port in hexadecimal.
matchTransportPort(srcdst, port, mask) ==
  Text(IF srcdst = "src" THEN "tp_src" ELSE "tp_dst",
       IF mask = 0 THEN <<dec(port)>> ELSE <<hex(port), hex(mask)>>)

----------------------------------------------------------------------------
(* Structs, with MarshalText and GoString of each.                         *)

dataLinkMatch(srcdst, addr) ==
  [type |-> "dataLink", srcdst |-> srcdst, addr |-> addr]
DataLinkSource(addr)      == dataLinkMatch("src", addr)
DataLinkDestination(addr) == dataLinkMatch("dst", addr)

dataLinkMatch_MarshalText(m) ==
  LET macs == [i \in DOMAIN m.addr |-> ParseMAC(m.addr[i])] IN
  IF /\ Len(m.addr) <= 2
     /\ \A i \in DOMAIN macs : macs[i].ok /\ macs[i].val.len = 6
  THEN Text(IF m.srcdst = "src" THEN "dl_src" ELSE "dl_dst",
            [i \in DOMAIN macs |-> HwString(macs[i].val)])
  ELSE Fail

dataLinkMatch_GoString(m) ==
  Expr(IF m.srcdst = "src" THEN "DataLinkSource" ELSE "DataLinkDestination",
       <<quoted(m.addr)>>)

DataLinkType(etherType) == [type |-> "dataLinkType", num |-> etherType]
dataLinkTypeMatch_MarshalText(m) == Text("dl_type", <<hex(m.num)>>)
dataLinkTypeMatch_GoString(m) == Expr("DataLinkType", <<hex(m.num)>>)

DataLinkVLAN(vid) == [type |-> "dataLinkVLAN", num |-> vid]
dataLinkVLANMatch_MarshalText(m) ==
  CASE m.num = VLANNone    -> Text("dl_vlan", <<hex(VLANNone)>>)
    [] validVLANVID(m.num) -> Text("dl_vlan", <<dec(m.num)>>)
    [] OTHER               -> Fail
dataLinkVLANMatch_GoString(m) ==
  Expr("DataLinkVLAN", <<IF m.num = VLANNone THEN hex(VLANNone) ELSE dec(m.num)>>)

networkMatch(srcdst, ip) == [type |-> "network", srcdst |-> srcdst, ip |-> ip]
NetworkSource(ip)      == networkMatch("src", ip)
NetworkDestination(ip) == networkMatch("dst", ip)
networkMatch_MarshalText(m) ==
  matchIPv4AddressOrCIDR(IF m.srcdst = "src" THEN "nw_src" ELSE "nw_dst", m.ip)
networkMatch_GoString(m) ==
  Expr(IF m.srcdst = "src" THEN "NetworkSource" ELSE "NetworkDestination",
       <<quoted(m.ip)>>)

ConjunctionID(id) == [type |-> "conjunctionID", num |-> id]
conjunctionIDMatch_MarshalText(m) == Text("conj_id", <<dec(m.num)>>)
conjunctionIDMatch_GoString(m) == Expr("ConjunctionID", <<dec(m.num)>>)

NetworkProtocol(num) == [type |-> "networkProtocol", num |-> num]
networkProtocolMatch_MarshalText(m) == Text("nw_proto", <<dec(m.num)>>)
networkProtocolMatch_GoString(m) == Expr("NetworkProtocol", <<dec(m.num)>>)

ipv6Match(srcdst, ip) == [type |-> "ipv6", srcdst |-> srcdst, ip |-> ip]
IPv6Source(ip)      == ipv6Match("src", ip)
IPv6Destination(ip) == ipv6Match("dst", ip)
ipv6Match_MarshalText(m) ==
  matchIPv6AddressOrCIDR(IF m.srcdst = "src" THEN "ipv6_src" ELSE "ipv6_dst", m.ip)
ipv6Match_GoString(m) ==
  Expr(IF m.srcdst = "src" THEN "IPv6Source" ELSE "IPv6Destination",
       <<quoted(m.ip)>>)

ICMPType(typ) == [type |-> "icmpType", num |-> typ]
icmpTypeMatch_MarshalText(m) == Text("icmp_type", <<dec(m.num)>>)
icmpTypeMatch_GoString(m) == Expr("ICMPType", <<dec(m.num)>>)

NeighborDiscoveryTarget(ip) == [type |-> "ndTarget", ip |-> ip]
neighborDiscoveryTargetMatch_MarshalText(m) ==
  matchIPv6AddressOrCIDR("nd_target", m.ip)
neighborDiscoveryTargetMatch_GoString(m) ==
  Expr("NeighborDiscoveryTarget", <<quoted(m.ip)>>)

neighborDiscoveryLinkLayerMatch(srctgt, addr) ==
  [type |-> "ndLinkLayer", srcdst |-> srctgt, hwaddr |-> addr]
NeighborDiscoverySourceLinkLayer(addr) ==
  neighborDiscoveryLinkLayerMatch("src", addr)
NeighborDiscoveryTargetLinkLayer(addr) ==
  neighborDiscoveryLinkLayerMatch("dst", addr)
neighborDiscoveryLinkLayerMatch_MarshalText(m) ==
  matchEthernetHardwareAddress(IF m.srcdst = "src" THEN "nd_sll" ELSE "nd_tll",
                               m.hwaddr)
neighborDiscoveryLinkLayerMatch_GoString(m) ==
  Expr(IF m.srcdst = "src" THEN "NeighborDiscoverySourceLinkLayer"
                           ELSE "NeighborDiscoveryTargetLinkLayer",
       <<hwAddrGoString(m.hwaddr)>>)

arpHardwareAddressMatch(srctgt, addr) ==
  [type |-> "arpHardwareAddress", srcdst |-> srctgt, hwaddr |-> addr]
ARPSourceHardwareAddress(addr) == arpHardwareAddressMatch("src", addr)
ARPTargetHardwareAddress(addr) == arpHardwareAddressMatch("dst", addr)
arpHardwareAddressMatch_MarshalText(m) ==
  matchEthernetHardwareAddress(
    IF m.srcdst = "src" THEN "arp_sha" ELSE "arp_tha", m.hwaddr)
arpHardwareAddressMatch_GoString(m) ==
  Expr(IF m.srcdst = "src" THEN "ARPSourceHardwareAddress"
                           ELSE "ARPTargetHardwareAddress",
       <<hwAddrGoString(m.hwaddr)>>)

arpProtocolAddressMatch(srctgt, ip) ==
  [type |-> "arpProtocolAddress", srcdst |-> srctgt, ip |-> ip]
ARPSourceProtocolAddress(ip) == arpProtocolAddressMatch("src", ip)
ARPTargetProtocolAddress(ip) == arpProtocolAddressMatch("dst", ip)
arpProtocolAddressMatch_MarshalText(m) ==
  matchIPv4AddressOrCIDR(IF m.srcdst = "src" THEN "arp_spa" ELSE "arp_tpa", m.ip)
arpProtocolAddressMatch_GoString(m) ==
  Expr(IF m.srcdst = "src" THEN "ARPSourceProtocolAddress"
                           ELSE "ARPTargetProtocolAddress",
       <<quoted(m.ip)>>)

transportPortMatch(srcdst, port, mask) ==
  [type |-> "transportPort", srcdst |-> srcdst, num |-> port, mask |-> mask]
TransportSourcePort(port)      == transportPortMatch("src", port, 0)
TransportDestinationPort(port) == transportPortMatch("dst", port, 0)
TransportSourceMaskedPort(port, mask) == transportPortMatch("src", port, mask)
TransportDestinationMaskedPort(port, mask) ==
  transportPortMatch("dst", port, mask)
transportPortMatch_MarshalText(m) ==
  matchTransportPort(m.srcdst, m.num, m.mask)
\* Mutant: GoString forgets the mask.
transportPortMatch_GoString_NoMask(m) ==
  Expr(IF m.srcdst = "src" THEN "TransportSourcePort"
                           ELSE "TransportDestinationPort", <<dec(m.num)>>)
transportPortMatch_GoString(m) ==
  IF m.mask > 0
  THEN Expr(IF m.srcdst = "src" THEN "TransportSourceMaskedPort"
                                ELSE "TransportDestinationMaskedPort",
            <<hex(m.num), hex(m.mask)>>)
  ELSE Expr(IF m.srcdst = "src" THEN "TransportSourcePort"
                                ELSE "TransportDestinationPort", <<dec(m.num)>>)

\* transportPortRange.MaskedPorts: one masked port per BitRange.
MaskedPorts(srcdst, startPort, endPort) ==
  LET bitRanges == BitwiseMatch[[start |-> startPort, end |-> endPort]] IN
  IF bitRanges.ok
  THEN Ok([i \in DOMAIN bitRanges.val |->
             transportPortMatch(srcdst, bitRanges.val[i].value,
                                bitRanges.val[i].mask)])
  ELSE Fail

VLANTCI(tci, mask) == [type |-> "vlanTCI", num |-> tci, mask |-> mask]
vlanTCIMatch_MarshalText(m) == Masked("vlan_tci", m.num, m.mask)
vlanTCIMatch_GoString(m) == Expr("VLANTCI", <<hex(m.num), hex(m.mask)>>)

ConnectionTrackingMark(mark, mask) ==
  [type |-> "ctMark", num |-> mark, mask |-> mask]
connectionTrackingMarkMatch_MarshalText(m) == Masked("ct_mark", m.num, m.mask)
connectionTrackingMarkMatch_GoString(m) ==
  Expr("ConnectionTrackingMark", <<hex(m.num), hex(m.mask)>>)

ConnectionTrackingZone(zone) == [type |-> "ctZone", num |-> zone]
connectionTrackingZoneMatch_MarshalText(m) == Text("ct_zone", <<dec(m.num)>>)
connectionTrackingZoneMatch_GoString(m) ==
  Expr("ConnectionTrackingZone", <<dec(m.num)>>)

\* SetState, UnsetState, SetTCPFlag, UnsetTCPFlag: a sign and a name, here
\* with the length of the name.
Flag(sign, name, len) == [sign |-> sign, name |-> name, len |-> len]
SetState(state)    == Flag("+", state[1], state[2])
UnsetState(state)  == Flag("-", state[1], state[2])
SetTCPFlag(flag)   == Flag("+", flag[1], flag[2])
UnsetTCPFlag(flag) == Flag("-", flag[1], flag[2])

\* The groups of characters that a string of flags is cut into elsewhere than
\* before the signs, taken together.
Groups(flags) == <<[of |-> flags]>>
Recut(flags)  == flags # <<>> /\ "of" \in DOMAIN flags[1]

\* strings.Join(m.state, ""): one piece, the string that was cut if it was.
Joined(flags) == <<[flags |-> IF Recut(flags) THEN flags[1].of ELSE flags]>>

ConnectionTrackingState(state) == [type |-> "ctState", flags |-> state]
connectionTrackingMatch_MarshalText(m) == Text("ct_state", Joined(m.flags))
connectionTrackingMatch_GoString(m) ==
  Expr("ConnectionTrackingState", <<quoted(m.flags)>>)

TCPFlags(flags) == [type |-> "tcpFlags", flags |-> flags]
tcpFlagsMatch_MarshalText(m) == Text("tcp_flags", Joined(m.flags))
tcpFlagsMatch_GoString(m) == Expr("TCPFlags", <<quoted(m.flags)>>)

TunnelIDWithMask(id, mask) == [type |-> "tunnelID", num |-> id, mask |-> mask]
TunnelID(id) == TunnelIDWithMask(id, 0)
tunnelIDMatch_MarshalText(m) == Masked("tun_id", m.num, m.mask)
tunnelIDMatch_GoString(m) ==
  IF m.mask > 0 THEN Expr("TunnelIDWithMask", <<hex(m.num), hex(m.mask)>>)
                ELSE Expr("TunnelID", <<hex(m.num)>>)

----------------------------------------------------------------------------
(* The interface Match.                                                    *)

MatchText(m) ==
  CASE m.type = "dataLink"       -> dataLinkMatch_MarshalText(m)
    [] m.type = "dataLinkType"   -> dataLinkTypeMatch_MarshalText(m)
    [] m.type = "dataLinkVLAN"   -> dataLinkVLANMatch_MarshalText(m)
    [] m.type = "network"        -> networkMatch_MarshalText(m)
    [] m.type = "conjunctionID"  -> conjunctionIDMatch_MarshalText(m)
    [] m.type = "networkProtocol" -> networkProtocolMatch_MarshalText(m)
    [] m.type = "ipv6"           -> ipv6Match_MarshalText(m)
    [] m.type = "icmpType"       -> icmpTypeMatch_MarshalText(m)
    [] m.type = "ndTarget"       -> neighborDiscoveryTargetMatch_MarshalText(m)
    [] m.type = "ndLinkLayer" -> neighborDiscoveryLinkLayerMatch_MarshalText(m)
    [] m.type = "arpHardwareAddress" -> arpHardwareAddressMatch_MarshalText(m)
    [] m.type = "arpProtocolAddress" -> arpProtocolAddressMatch_MarshalText(m)
    [] m.type = "transportPort"  -> transportPortMatch_MarshalText(m)
    [] m.type = "vlanTCI"        -> vlanTCIMatch_MarshalText(m)
    [] m.type = "ctMark"         -> connectionTrackingMarkMatch_MarshalText(m)
    [] m.type = "ctZone"         -> connectionTrackingZoneMatch_MarshalText(m)
    [] m.type = "ctState"        -> connectionTrackingMatch_MarshalText(m)
    [] m.type = "tcpFlags"       -> tcpFlagsMatch_MarshalText(m)
    [] m.type = "tunnelID"       -> tunnelIDMatch_MarshalText(m)

MatchGoString(m) ==
  CASE m.type = "dataLink"       -> dataLinkMatch_GoString(m)
    [] m.type = "dataLinkType"   -> dataLinkTypeMatch_GoString(m)
    [] m.type = "dataLinkVLAN"   -> dataLinkVLANMatch_GoString(m)
    [] m.type = "network"        -> networkMatch_GoString(m)
    [] m.type = "conjunctionID"  -> conjunctionIDMatch_GoString(m)
    [] m.type = "networkProtocol" -> networkProtocolMatch_GoString(m)
    [] m.type = "ipv6"           -> ipv6Match_GoString(m)
    [] m.type = "icmpType"       -> icmpTypeMatch_GoString(m)
    [] m.type = "ndTarget"       -> neighborDiscoveryTargetMatch_GoString(m)
    [] m.type = "ndLinkLayer"    -> neighborDiscoveryLinkLayerMatch_GoString(m)
    [] m.type = "arpHardwareAddress" -> arpHardwareAddressMatch_GoString(m)
    [] m.type = "arpProtocolAddress" -> arpProtocolAddressMatch_GoString(m)
    [] m.type = "transportPort"  -> transportPortMatch_GoString(m)
    [] m.type = "vlanTCI"        -> vlanTCIMatch_GoString(m)
    [] m.type = "ctMark"         -> connectionTrackingMarkMatch_GoString(m)
    [] m.type = "ctZone"         -> connectionTrackingZoneMatch_GoString(m)
    [] m.type = "ctState"        -> connectionTrackingMatch_GoString(m)
    [] m.type = "tcpFlags"       -> tcpFlagsMatch_GoString(m)
    [] m.type = "tunnelID"       -> tunnelIDMatch_GoString(m)

\* What the Go compiler makes of the source that GoString returns.
MatchOf(e) ==
  LET a == Literal(e.args[1])  b == Literal(e.args[2]) IN
  CASE e.fn = "DataLinkSource"      -> DataLinkSource(a)
    [] e.fn = "DataLinkDestination" -> DataLinkDestination(a)
    [] e.fn = "DataLinkType"        -> DataLinkType(a)
    [] e.fn = "DataLinkVLAN"        -> DataLinkVLAN(a)
    [] e.fn = "NetworkSource"       -> NetworkSource(a)
    [] e.fn = "NetworkDestination"  -> NetworkDestination(a)
    [] e.fn = "ConjunctionID"       -> ConjunctionID(a)
    [] e.fn = "NetworkProtocol"     -> NetworkProtocol(a)
    [] e.fn = "IPv6Source"          -> IPv6Source(a)
    [] e.fn = "IPv6Destination"     -> IPv6Destination(a)
    [] e.fn = "ICMPType"            -> ICMPType(a)
    [] e.fn = "NeighborDiscoveryTarget" -> NeighborDiscoveryTarget(a)
    [] e.fn = "NeighborDiscoverySourceLinkLayer" ->
         NeighborDiscoverySourceLinkLayer(a)
    [] e.fn = "NeighborDiscoveryTargetLinkLayer" ->
         NeighborDiscoveryTargetLinkLayer(a)
    [] e.fn = "ARPSourceHardwareAddress" -> ARPSourceHardwareAddress(a)
    [] e.fn = "ARPTargetHardwareAddress" -> ARPTargetHardwareAddress(a)
    [] e.fn = "ARPSourceProtocolAddress" -> ARPSourceProtocolAddress(a)
    [] e.fn = "ARPTargetProtocolAddress" -> ARPTargetProtocolAddress(a)
    [] e.fn = "TransportSourcePort"      -> TransportSourcePort(a)
    [] e.fn = "TransportDestinationPort" -> TransportDestinationPort(a)
    [] e.fn = "TransportSourceMaskedPort" -> TransportSourceMaskedPort(a, b)
    [] e.fn = "TransportDestinationMaskedPort" ->
         TransportDestinationMaskedPort(a, b)
    [] e.fn = "VLANTCI"                 -> VLANTCI(a, b)
    [] e.fn = "ConnectionTrackingMark"  -> ConnectionTrackingMark(a, b)
    [] e.fn = "ConnectionTrackingZone"  -> ConnectionTrackingZone(a)
    [] e.fn = "ConnectionTrackingState" -> ConnectionTrackingState(a)
    [] e.fn = "TCPFlags"                -> TCPFlags(a)
    [] e.fn = "TunnelID"                -> TunnelID(a)
    [] e.fn = "TunnelIDWithMask"        -> TunnelIDWithMask(a, b)
=============================================================================
