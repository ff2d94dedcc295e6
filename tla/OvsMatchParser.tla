--------------------------- MODULE OvsMatchParser ---------------------------
(***************************************************************************)
(* matchparser.go: a Match from the key and the value of a pair.           *)
(***************************************************************************)
EXTENDS OvsMatch

\* A single piece: the string has no slash.
Single(value) == Len(value) = 1

\* Mutant: the largest value is refused.
parseClampInt_Strict(value, max) ==
  IF Single(value) /\ Atoi(value[1]).ok /\ Atoi(value[1]).val < max
  THEN Atoi(value[1]) ELSE Fail

\* At most max; a negative number passes.
parseClampInt(value, max) ==
  IF Single(value) /\ Atoi(value[1]).ok /\ Atoi(value[1]).val <= max
  THEN Atoi(value[1]) ELSE Fail

\* 32 bits are parsed, and cut to 16.
parseHexUint16(p) ==
  LET val == ParseHex(p, U32) IN
  IF val.ok THEN Ok(Uint(val.val, U16)) ELSE Fail
parseHexUint32(p) == ParseHex(p, U32)
parseHexUint64(p) == ParseHex(p, U64)

\* The conversion uintN(t) of a clamped integer.
parseIntMatch(key, value, max) ==
  LET t == parseClampInt(value, max) IN
  IF ~t.ok THEN Fail
  ELSE Ok(CASE key = "icmp_type" -> ICMPType(Uint(t.val, U8))
            [] key = "nw_proto"  -> NetworkProtocol(Uint(t.val, U8))
            [] key = "ct_zone"   -> ConnectionTrackingZone(Uint(t.val, U16))
            [] key = "conj_id"   -> ConjunctionID(Uint(t.val, U32)))

\* A port in decimal, or a port and its mask in hexadecimal.
parsePort(key, value, max) ==
  LET srcdst == IF key = "tp_src" THEN "src" ELSE "dst"
      port   == parseClampInt(value, max)
      parts  == [i \in DOMAIN value |-> parseHexUint64(value[i])]
      fits(i) == parts[i].ok /\ parts[i].val <= max
  IN  CASE Len(value) = 1 /\ port.ok ->
             Ok(transportPortMatch(srcdst, Uint(port.val, U16), 0))
        [] Len(value) = 2 /\ fits(1) /\ fits(2) ->
             Ok(transportPortMatch(srcdst, parts[1].val, parts[2].val))
        [] OTHER -> Fail

parseMACMatch(key, value) ==
  LET mac == ParseMAC(value[1]) IN
  IF ~(Single(value) /\ mac.ok) THEN Fail
  ELSE Ok(CASE key = "arp_sha" -> ARPSourceHardwareAddress(mac.val)
            [] key = "arp_tha" -> ARPTargetHardwareAddress(mac.val)
            [] key = "nd_sll"  -> NeighborDiscoverySourceLinkLayer(mac.val)
            [] key = "nd_tll"  -> NeighborDiscoveryTargetLinkLayer(mac.val))

\* Flags of a sign and three letters, and the length of a string of flags.
FourEach(flags) == flags # <<>> /\ \A i \in DOMAIN flags : flags[i].len = 3
Characters(flags) ==
  LET upTo[i \in 0 .. Len(flags)] ==
        IF i = 0 THEN 0 ELSE upTo[i - 1] + 1 + flags[i].len
  IN  upTo[Len(flags)]

\* len(value) % 4 = 0, as it is with four characters each.
Divisible(value) ==
  /\ Single(value) /\ "flags" \in DOMAIN value[1]
  /\ FourEach(value[1].flags) \/ Characters(value[1].flags) % 4 = 0

\* The flags are cut out four characters at a time, wherever the signs are;
\* of nothing is made one empty flag.
GroupsOfFour(flags) == IF FourEach(flags) THEN flags ELSE Groups(flags)

parseCTState(value) ==
  IF Divisible(value) THEN Ok(ConnectionTrackingState(GroupsOfFour(value[1].flags)))
                      ELSE Fail
parseTCPFlags(value) ==
  IF Divisible(value) THEN Ok(TCPFlags(GroupsOfFour(value[1].flags))) ELSE Fail

parseDataLinkVLAN(value) ==
  LET vlan == IF IsHex(value[1]) THEN parseHexUint16(value[1])
                                 ELSE Atoi(value[1])
  IN  IF Single(value) /\ vlan.ok THEN Ok(DataLinkVLAN(vlan.val)) ELSE Fail

\* A number and an optional mask, each decimal or hexadecimal: Hex reads the
\* one, Atoi and a conversion to the width in bits the other.
NumberAndMask(value, Hex(_), bits) ==
  LET parts == [i \in DOMAIN value |->
                  IF IsHex(value[i]) THEN Hex(value[i]) ELSE Atoi(value[i])]
  IN  IF Len(value) <= 2 /\ \A i \in DOMAIN parts : parts[i].ok
      THEN Ok([num  |-> Uint(parts[1].val, bits),
               mask |-> IF Len(value) = 2 THEN Uint(parts[2].val, bits) ELSE 0])
      ELSE Fail

parseVLANTCI(value) ==
  LET v == NumberAndMask(value, parseHexUint16, U16) IN
  IF v.ok THEN Ok(VLANTCI(v.val.num, v.val.mask)) ELSE Fail

parseCTMark(value) ==
  LET v == NumberAndMask(value, parseHexUint32, U32) IN
  IF v.ok THEN Ok(ConnectionTrackingMark(v.val.num, v.val.mask)) ELSE Fail

\* Mutant: the mask is dropped.
parseTunID_NoMask(value) ==
  LET v == NumberAndMask(value, parseHexUint64, U64) IN
  IF v.ok THEN Ok(TunnelID(v.val.num)) ELSE Fail

parseTunID(value) ==
  LET v == NumberAndMask(value, parseHexUint64, U64) IN
  IF v.ok THEN Ok(TunnelIDWithMask(v.val.num, v.val.mask)) ELSE Fail

parseDataLinkType(value) ==
  LET v == parseHexUint16(value[1]) IN
  IF Single(value) /\ v.ok THEN Ok(DataLinkType(v.val)) ELSE Fail

\* Addresses that the constructors take as strings are not looked at here.
parseMatch(key, value) ==
  CASE key \in {"arp_sha", "arp_tha", "nd_sll", "nd_tll"} ->
         parseMACMatch(key, value)
    [] key \in {"icmp_type", "nw_proto"} -> parseIntMatch(key, value, MaxUint(U8))
    [] key = "ct_zone"   -> parseIntMatch(key, value, MaxUint(U16))
    [] key = "conj_id"   -> parseIntMatch(key, value, MaxUint(U32))
    [] key \in {"tp_src", "tp_dst"} -> parsePort(key, value, MaxUint(U16))
    [] key = "arp_spa"   -> Ok(ARPSourceProtocolAddress(value))
    [] key = "arp_tpa"   -> Ok(ARPTargetProtocolAddress(value))
    [] key = "ct_state"  -> parseCTState(value)
    [] key = "tcp_flags" -> parseTCPFlags(value)
    [] key = "dl_src"    -> Ok(DataLinkSource(value))
    [] key = "dl_dst"    -> Ok(DataLinkDestination(value))
    [] key = "dl_type"   -> parseDataLinkType(value)
    [] key = "dl_vlan"   -> parseDataLinkVLAN(value)
    [] key = "nd_target" -> Ok(NeighborDiscoveryTarget(value))
    [] key = "ipv6_src"  -> Ok(IPv6Source(value))
    [] key = "ipv6_dst"  -> Ok(IPv6Destination(value))
    [] key = "nw_src"    -> Ok(NetworkSource(value))
    [] key = "nw_dst"    -> Ok(NetworkDestination(value))
    [] key = "vlan_tci"  -> parseVLANTCI(value)
    [] key = "ct_mark"   -> parseCTMark(value)
    [] key = "tun_id"    -> parseTunID(value)
    [] OTHER             -> Fail
=============================================================================
