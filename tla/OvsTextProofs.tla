--------------------------- MODULE OvsTextProofs ----------------------------
(***************************************************************************)
(* The texts of package ovs, for every width of the machine integers and   *)
(* every value of the types: matches, actions and whole flows are read     *)
(* back as they were written, numbers are kept or refused, the text that   *)
(* deletes a flow selects that flow, and a dump that is cut off gives      *)
(* whole records.                                                          *)
(*                                                                         *)
(* A text is a sequence of pieces, and the code goes over it in loops: the *)
(* proofs are inductions on the position reached (DataInduction), in which *)
(* a set of positions takes the place of a predicate.                      *)
(***************************************************************************)
EXTENDS OvsLibrary, DataInduction, SequenceTheorems

----------------------------------------------------------------------------
(* Texts of matches.                                                       *)

\* A piece is of one kind and has its own number.
LEMMA PieceKinds ==
  ASSUME NEW v
  PROVE  /\ IsHex(hex(v)) /\ ~IsDec(hex(v)) /\ hex(v).hex = v
         /\ IsDec(dec(v)) /\ ~IsHex(dec(v)) /\ dec(v).dec = v
         /\ Number(hex(v)) = v /\ Number(dec(v)) = v
         /\ IsAtom(atom(v)) /\ atom(v).atom = v
BY DEF IsHex, IsDec, IsAtom, hex, dec, atom, Number

\* The largest number of a width is a number of every larger width.
LEMMA NarrowFits ==
  ASSUME NEW b \in {U8, U12, U16, U32}, NEW n \in 0 .. MaxUint(b)
  PROVE  /\ n \in Nat /\ n < 2 ^ b /\ 2 ^ b \in Nat
         /\ n < 2 ^ (U64 - 1) /\ 2 ^ (U64 - 1) \in Nat
         /\ Uint(n, b) = n
<1>1. b \in Nat /\ U64 - 1 \in Nat /\ b <= U64 - 1
  BY WidthAssumption
<1>2. 2 ^ b \in Nat \ {0} /\ 2 ^ (U64 - 1) \in Nat \ {0}
  BY <1>1, PowerPositive
<1>3. 2 ^ b <= 2 ^ (U64 - 1)
  BY <1>1, PowerMonotone
<1>4. n \in Nat /\ n < 2 ^ b
  BY <1>2 DEF MaxUint
<1> QED
  BY <1>2, <1>3, <1>4, SmallModulo DEF Uint

\* A number that fits its width is read back from either base.
LEMMA DecimalRead ==
  ASSUME NEW b \in {U8, U12, U16, U32}, NEW n \in 0 .. MaxUint(b)
  PROVE  Atoi(dec(n)) = Ok(n)
<1>1. n \in Nat /\ n < 2 ^ (U64 - 1) /\ 2 ^ (U64 - 1) \in Nat
  BY NarrowFits
<1> QED
  BY <1>1 DEF Atoi, dec, IsDec

LEMMA HexadecimalRead ==
  ASSUME NEW b \in Nat, NEW n \in 0 .. MaxUint(b)
  PROVE  ParseHex(hex(n), b) = Ok(n) /\ Uint(n, b) = n
<1>1. 2 ^ b \in Nat \ {0}
  BY PowerPositive
<1>2. n \in Nat /\ n < 2 ^ b
  BY <1>1 DEF MaxUint
<1>3. n % 2 ^ b = n
  BY <1>1, <1>2, SmallModulo
<1>4. ParseHex(hex(n), b) = IF 0 <= n /\ n < 2 ^ b THEN Ok(n) ELSE Fail
  BY PieceKinds DEF ParseHex
<1> QED
  BY <1>2, <1>3, <1>4 DEF Uint

LEMMA HexUint16Read ==
  ASSUME NEW n \in 0 .. MaxUint(U16)
  PROVE  parseHexUint16(hex(n)) = Ok(n)
<1>1. U16 \in Nat /\ U32 \in Nat /\ U16 < U32
  BY WidthAssumption
<1>2. 2 ^ U16 \in Nat /\ 2 ^ U32 \in Nat /\ 2 ^ U16 <= 2 ^ U32
  BY <1>1, PowerPositive, PowerMonotone
<1>3. n \in 0 .. MaxUint(U32)
  BY <1>2 DEF MaxUint
<1>4. ParseHex(hex(n), U32) = Ok(n) /\ Uint(n, U16) = n
  BY <1>1, <1>3, HexadecimalRead
<1> QED
  BY <1>4 DEF parseHexUint16, Ok
\* It is enough to know the text, what the parser makes of it, and its text.
LEMMA RoundTripBy ==
  ASSUME NEW m, NEW b, NEW key, NEW parts, MatchText(m) = Text(key, parts),
         parseMatch(key, parts) = Ok(b), MatchText(b) = Text(key, parts)
  PROVE  RoundTrips(m)
<1>1. Text(key, parts).val.key = key /\ Text(key, parts).val.parts = parts
  BY DEF Text, Ok
<1>2. Ok(b).ok /\ Ok(b).val = b
  BY DEF Ok
<1> QED
  BY <1>1, <1>2 DEF RoundTrips

\* A successful result, and a string without a slash.
LEMMA Succeeds == ASSUME NEW v PROVE Ok(v).ok /\ Ok(v).val = v
BY DEF Ok

LEMMA OnePiece == ASSUME NEW p PROVE Single(<<p>>) /\ Len(<<p>>) = 1 /\ <<p>>[1] = p
BY DEF Single

LEMMA TwoPieces ==
  ASSUME NEW p, NEW q
  PROVE  /\ ~Single(<<p, q>>) /\ Len(<<p, q>>) = 2 /\ DOMAIN <<p, q>> = {1, 2}
         /\ <<p, q>>[1] = p /\ <<p, q>>[2] = q
BY DEF Single

LEMMA ClampedRead ==
  ASSUME NEW b \in {U8, U12, U16, U32}, NEW n \in 0 .. MaxUint(b)
  PROVE  parseClampInt(<<dec(n)>>, MaxUint(b)) = Ok(n)
<1>1. Atoi(dec(n)) = Ok(n)
  BY DecimalRead
<1>2. n <= MaxUint(b)
  BY NarrowFits DEF MaxUint
<1> QED
  BY <1>1, <1>2, Succeeds, OnePiece DEF parseClampInt

\* The text of a number, and the match that the parser makes of it.
Written(key, parts, m) ==
  MatchText(m) = Text(key, parts) /\ parseMatch(key, parts) = Ok(m)

LEMMA ClampedWritten ==
  ASSUME NEW b, NEW n \in 0 .. MaxUint(b)
  PROVE  /\ b = U8 => Written("icmp_type", <<dec(n)>>, ICMPType(n))
         /\ b = U8 => Written("nw_proto", <<dec(n)>>, NetworkProtocol(n))
         /\ b = U16 => Written("ct_zone", <<dec(n)>>, ConnectionTrackingZone(n))
         /\ b = U32 => Written("conj_id", <<dec(n)>>, ConjunctionID(n))
<1>1. ASSUME b = U8 PROVE Written("icmp_type", <<dec(n)>>, ICMPType(n))
  <2>1. parseClampInt(<<dec(n)>>, MaxUint(U8)) = Ok(n) /\ Uint(n, U8) = n
    BY <1>1, ClampedRead, NarrowFits
  <2>2. parseIntMatch("icmp_type", <<dec(n)>>, MaxUint(U8)) = Ok(ICMPType(n))
    BY <2>1, Succeeds DEF parseIntMatch
  <2>3. parseMatch("icmp_type", <<dec(n)>>) = Ok(ICMPType(n))
    BY <2>2 DEF parseMatch
  <2>4. MatchText(ICMPType(n)) = Text("icmp_type", <<dec(n)>>)
    BY DEF MatchText, ICMPType, icmpTypeMatch_MarshalText
  <2> QED
    BY <2>3, <2>4 DEF Written
<1>2. ASSUME b = U8 PROVE Written("nw_proto", <<dec(n)>>, NetworkProtocol(n))
  <2>1. parseClampInt(<<dec(n)>>, MaxUint(U8)) = Ok(n) /\ Uint(n, U8) = n
    BY <1>2, ClampedRead, NarrowFits
  <2>2. parseIntMatch("nw_proto", <<dec(n)>>, MaxUint(U8)) = Ok(NetworkProtocol(n))
    BY <2>1, Succeeds DEF parseIntMatch
  <2>3. parseMatch("nw_proto", <<dec(n)>>) = Ok(NetworkProtocol(n))
    BY <2>2 DEF parseMatch
  <2>4. MatchText(NetworkProtocol(n)) = Text("nw_proto", <<dec(n)>>)
    BY DEF MatchText, NetworkProtocol, networkProtocolMatch_MarshalText
  <2> QED
    BY <2>3, <2>4 DEF Written
<1>3. ASSUME b = U16 PROVE Written("ct_zone", <<dec(n)>>, ConnectionTrackingZone(n))
  <2>1. parseClampInt(<<dec(n)>>, MaxUint(U16)) = Ok(n) /\ Uint(n, U16) = n
    BY <1>3, ClampedRead, NarrowFits
  <2>2. parseIntMatch("ct_zone", <<dec(n)>>, MaxUint(U16)) = Ok(ConnectionTrackingZone(n))
    BY <2>1, Succeeds DEF parseIntMatch
  <2>3. parseMatch("ct_zone", <<dec(n)>>) = Ok(ConnectionTrackingZone(n))
    BY <2>2 DEF parseMatch
  <2>4. MatchText(ConnectionTrackingZone(n)) = Text("ct_zone", <<dec(n)>>)
    BY DEF MatchText, ConnectionTrackingZone, connectionTrackingZoneMatch_MarshalText
  <2> QED
    BY <2>3, <2>4 DEF Written
<1>4. ASSUME b = U32 PROVE Written("conj_id", <<dec(n)>>, ConjunctionID(n))
  <2>1. parseClampInt(<<dec(n)>>, MaxUint(U32)) = Ok(n) /\ Uint(n, U32) = n
    BY <1>4, ClampedRead, NarrowFits
  <2>2. parseIntMatch("conj_id", <<dec(n)>>, MaxUint(U32)) = Ok(ConjunctionID(n))
    BY <2>1, Succeeds DEF parseIntMatch
  <2>3. parseMatch("conj_id", <<dec(n)>>) = Ok(ConjunctionID(n))
    BY <2>2 DEF parseMatch
  <2>4. MatchText(ConjunctionID(n)) = Text("conj_id", <<dec(n)>>)
    BY DEF MatchText, ConjunctionID, conjunctionIDMatch_MarshalText
  <2> QED
    BY <2>3, <2>4 DEF Written
<1> QED
  BY <1>1, <1>2, <1>3, <1>4

LEMMA WrittenRoundTrips ==
  ASSUME NEW key, NEW parts, NEW m, Written(key, parts, m) PROVE RoundTrips(m)
BY RoundTripBy DEF Written

LEMMA DataLinkTypeWritten ==
  ASSUME NEW n \in 0 .. MaxUint(U16)
  PROVE  Written("dl_type", <<hex(n)>>, DataLinkType(n))
<1>1. parseDataLinkType(<<hex(n)>>) = Ok(DataLinkType(n))
  BY HexUint16Read, Succeeds, OnePiece DEF parseDataLinkType
<1>2. parseMatch("dl_type", <<hex(n)>>) = Ok(DataLinkType(n))
  BY <1>1 DEF parseMatch
<1>3. MatchText(DataLinkType(n)) = Text("dl_type", <<hex(n)>>)
  BY DEF MatchText, DataLinkType, dataLinkTypeMatch_MarshalText
<1> QED
  BY <1>2, <1>3 DEF Written

\* A VLAN ID in decimal; VLANNone, and every number of its width, in hexadecimal.
LEMMA VLANRead ==
  /\ \A n \in 0 .. MaxUint(U12) :
       parseMatch("dl_vlan", <<dec(n)>>) = Ok(DataLinkVLAN(n))
  /\ \A n \in 0 .. MaxUint(U16) :
       parseMatch("dl_vlan", <<hex(n)>>) = Ok(DataLinkVLAN(n))
<1>1. ASSUME NEW n \in 0 .. MaxUint(U12)
      PROVE  parseMatch("dl_vlan", <<dec(n)>>) = Ok(DataLinkVLAN(n))
  <2>1. Atoi(dec(n)) = Ok(n)
    BY DecimalRead
  <2>2. parseDataLinkVLAN(<<dec(n)>>) = Ok(DataLinkVLAN(n))
    BY <2>1, PieceKinds, Succeeds, OnePiece DEF parseDataLinkVLAN
  <2> QED
    BY <2>2 DEF parseMatch
<1>2. ASSUME NEW n \in 0 .. MaxUint(U16)
      PROVE  parseMatch("dl_vlan", <<hex(n)>>) = Ok(DataLinkVLAN(n))
  <2>1. parseDataLinkVLAN(<<hex(n)>>) = Ok(DataLinkVLAN(n))
    BY HexUint16Read, PieceKinds, Succeeds, OnePiece DEF parseDataLinkVLAN
  <2> QED
    BY <2>1 DEF parseMatch
<1> QED
  BY <1>1, <1>2

LEMMA VLANRoundTrips == ASSUME NEW n \in Int PROVE RoundTrips(DataLinkVLAN(n))
<1>1. /\ VLANNone \in 0 .. MaxUint(U16) /\ MaxUint(U12) \in Int
      /\ ~validVLANVID(VLANNone)
  <2>1. U16 \in Nat /\ U12 \in Nat /\ U12 < U16
    BY WidthAssumption
  <2> QED
    BY <2>1, PowerPositive, PowerMonotone DEF VLANNone, MaxUint, validVLANVID
<1>2. MatchText(DataLinkVLAN(n)) = dataLinkVLANMatch_MarshalText(DataLinkVLAN(n))
      /\ DataLinkVLAN(n).num = n
  BY DEF MatchText, DataLinkVLAN
<1>3. CASE n = VLANNone
  <2>1. MatchText(DataLinkVLAN(n)) = Text("dl_vlan", <<hex(n)>>)
    BY <1>1, <1>2, <1>3 DEF dataLinkVLANMatch_MarshalText
  <2> QED
    BY <1>1, <1>3, <2>1, VLANRead, RoundTripBy
<1>4. CASE n # VLANNone /\ validVLANVID(n)
  <2>1. MatchText(DataLinkVLAN(n)) = Text("dl_vlan", <<dec(n)>>)
    BY <1>2, <1>4 DEF dataLinkVLANMatch_MarshalText
  <2>2. n \in 0 .. MaxUint(U12)
    BY <1>1, <1>4 DEF validVLANVID
  <2> QED
    BY <2>1, <2>2, VLANRead, RoundTripBy
<1>5. CASE n # VLANNone /\ ~validVLANVID(n)
  <2>1. MatchText(DataLinkVLAN(n)) = Fail
    BY <1>2, <1>5 DEF dataLinkVLANMatch_MarshalText
  <2> QED
    BY <2>1 DEF RoundTrips, Fail
<1> QED
  BY <1>3, <1>4, <1>5

\* A port in decimal, a port and its mask in hexadecimal.
PortKey(srcdst) == IF srcdst = "src" THEN "tp_src" ELSE "tp_dst"

LEMMA PortRead ==
  ASSUME NEW srcdst \in {"src", "dst"},
         NEW n \in 0 .. MaxUint(U16), NEW k \in 0 .. MaxUint(U16)
  PROVE  /\ parseMatch(PortKey(srcdst), <<dec(n)>>)
               = Ok(transportPortMatch(srcdst, n, 0))
         /\ parseMatch(PortKey(srcdst), <<hex(n), hex(k)>>)
               = Ok(transportPortMatch(srcdst, n, k))
<1> DEFINE key == PortKey(srcdst)
           max == MaxUint(U16)
<1>1. /\ key \in {"tp_src", "tp_dst"}
      /\ srcdst = IF key = "tp_src" THEN "src" ELSE "dst"
  BY DEF PortKey
<1>2. \A v : parseMatch(key, v) = parsePort(key, v, max)
  BY <1>1 DEF parseMatch
<1>3. parseClampInt(<<dec(n)>>, max) = Ok(n) /\ Uint(n, U16) = n
  BY ClampedRead, NarrowFits
<1>4. U16 \in Nat /\ U64 \in Nat /\ MaxUint(U16) \in Int /\ max <= MaxUint(U64)
      /\ MaxUint(U64) \in Int
  <2>1. U16 \in Nat /\ U64 \in Nat /\ U16 <= U64
    BY WidthAssumption
  <2> QED
    BY <2>1, PowerPositive, PowerMonotone DEF MaxUint
<1>5. parseHexUint64(hex(n)) = Ok(n) /\ parseHexUint64(hex(k)) = Ok(k)
  <2>1. n \in 0 .. MaxUint(U64) /\ k \in 0 .. MaxUint(U64)
    BY <1>4
  <2> QED
    BY <1>4, <2>1, HexadecimalRead DEF parseHexUint64
<1>6. parsePort(key, <<dec(n)>>, max) = Ok(transportPortMatch(srcdst, n, 0))
  <2> HIDE DEF key, max
  <2> QED
    BY <1>1, <1>3, OnePiece, Succeeds DEF parsePort
<1>7. parsePort(key, <<hex(n), hex(k)>>, max) = Ok(transportPortMatch(srcdst, n, k))
  <2>1. n <= max /\ k <= max
    BY <1>4
  <2> HIDE DEF key, max
  <2> QED
    BY <1>1, <1>5, <2>1, TwoPieces, Succeeds DEF parsePort
<1> QED
  BY <1>2, <1>6, <1>7

LEMMA PortRoundTrips ==
  ASSUME NEW srcdst \in {"src", "dst"},
         NEW n \in 0 .. MaxUint(U16), NEW k \in 0 .. MaxUint(U16)
  PROVE  RoundTrips(transportPortMatch(srcdst, n, k))
<1>1. MatchText(transportPortMatch(srcdst, n, k))
      = Text(PortKey(srcdst), IF k = 0 THEN <<dec(n)>> ELSE <<hex(n), hex(k)>>)
  BY DEF MatchText, transportPortMatch, transportPortMatch_MarshalText,
     matchTransportPort, PortKey
<1>2. CASE k = 0
  BY <1>1, <1>2, PortRead, RoundTripBy
<1>3. CASE k # 0
  BY <1>1, <1>3, PortRead, RoundTripBy
<1> QED
  BY <1>2, <1>3

VLANTCIReads(p, n) ==
  /\ (IF IsHex(p) THEN parseHexUint16(p) ELSE Atoi(p)) = Ok(n)
  /\ Uint(n, U16) = n

VLANTCIParts(v) ==
  [i \in DOMAIN v |-> IF IsHex(v[i]) THEN parseHexUint16(v[i]) ELSE Atoi(v[i])]

LEMMA VLANTCIParse ==
  ASSUME NEW v
  PROVE  parseMatch("vlan_tci", v) =
           IF Len(v) <= 2 /\ \A i \in DOMAIN VLANTCIParts(v) : VLANTCIParts(v)[i].ok
           THEN Ok(VLANTCI(
                  Uint(VLANTCIParts(v)[1].val, U16),
                  IF Len(v) = 2 THEN Uint(VLANTCIParts(v)[2].val, U16) ELSE 0))
           ELSE Fail
<1>1. NumberAndMask(v, parseHexUint16, U16) =
        IF Len(v) <= 2 /\ \A i \in DOMAIN VLANTCIParts(v) : VLANTCIParts(v)[i].ok
        THEN Ok([num  |-> Uint(VLANTCIParts(v)[1].val, U16),
                 mask |-> IF Len(v) = 2 THEN Uint(VLANTCIParts(v)[2].val, U16) ELSE 0])
        ELSE Fail
  BY DEF NumberAndMask, VLANTCIParts
<1>2. ~Fail.ok
  BY DEF Fail
<1>3. parseMatch("vlan_tci", v) = parseVLANTCI(v)
  BY DEF parseMatch
<1> QED
  BY <1>1, <1>2, <1>3, Succeeds DEF parseVLANTCI

\* vlan_tci: a number that fits is kept, and so are a number and a mask.
LEMMA VLANTCIRead ==
  ASSUME NEW p, NEW n, VLANTCIReads(p, n)
  PROVE  parseMatch("vlan_tci", <<p>>) = Ok(VLANTCI(n, 0))
<1> DEFINE r == VLANTCIParts(<<p>>)
<1>1. DOMAIN r = {1} /\ r[1] = Ok(n)
  BY OnePiece DEF VLANTCIReads, VLANTCIParts
<1>2. Uint(n, U16) = n
  BY DEF VLANTCIReads
<1>3. Len(<<p>>) <= 2 /\ Len(<<p>>) # 2
  BY OnePiece
<1>4. \A i \in DOMAIN r : r[i].ok
  BY <1>1, Succeeds
<1>5. parseMatch("vlan_tci", <<p>>) = Ok(VLANTCI(Uint(r[1].val, U16), 0))
  BY <1>3, <1>4, VLANTCIParse
<1> QED
  BY <1>1, <1>2, <1>5, Succeeds

LEMMA VLANTCIMaskRead ==
  ASSUME NEW p, NEW q, NEW n, NEW k, VLANTCIReads(p, n), VLANTCIReads(q, k)
  PROVE  parseMatch("vlan_tci", <<p, q>>) = Ok(VLANTCI(n, k))
<1> DEFINE r == VLANTCIParts(<<p, q>>)
<1>1. DOMAIN r = {1, 2} /\ r[1] = Ok(n) /\ r[2] = Ok(k)
  BY TwoPieces DEF VLANTCIReads, VLANTCIParts
<1>2. Uint(n, U16) = n /\ Uint(k, U16) = k
  BY DEF VLANTCIReads
<1>3. Len(<<p, q>>) <= 2 /\ Len(<<p, q>>) = 2
  BY TwoPieces
<1>4. \A i \in DOMAIN r : r[i].ok
  BY <1>1, Succeeds
<1>5. parseMatch("vlan_tci", <<p, q>>) = Ok(VLANTCI(Uint(r[1].val, U16), Uint(r[2].val, U16)))
  BY <1>3, <1>4, VLANTCIParse
<1> QED
  BY <1>1, <1>2, <1>5, Succeeds

LEMMA VLANTCIRoundTrips ==
  ASSUME NEW n \in 0 .. MaxUint(U16), NEW k \in 0 .. MaxUint(U16)
  PROVE  RoundTrips(VLANTCI(n, k))
<1>1. Uint(n, U16) = n /\ Uint(k, U16) = k
      /\ parseHexUint16(hex(n)) = Ok(n) /\ parseHexUint16(hex(k)) = Ok(k)
  BY WidthAssumption, HexUint16Read, HexadecimalRead
<1>2. /\ parseMatch("vlan_tci", <<hex(n)>>) = Ok(VLANTCI(n, 0))
      /\ parseMatch("vlan_tci", <<hex(n), hex(k)>>) = Ok(VLANTCI(n, k))
  BY <1>1, VLANTCIRead, VLANTCIMaskRead, PieceKinds DEF VLANTCIReads
<1>3. MatchText(VLANTCI(n, k))
      = Text("vlan_tci", IF k = 0 THEN <<hex(n)>> ELSE <<hex(n), hex(k)>>)
  BY DEF MatchText, VLANTCI, vlanTCIMatch_MarshalText, Masked
<1>4. CASE k = 0
  BY <1>2, <1>3, <1>4, RoundTripBy
<1>5. CASE k # 0
  BY <1>2, <1>3, <1>5, RoundTripBy
<1> QED
  BY <1>4, <1>5

CTMarkReads(p, n) ==
  /\ (IF IsHex(p) THEN parseHexUint32(p) ELSE Atoi(p)) = Ok(n)
  /\ Uint(n, U32) = n

CTMarkParts(v) ==
  [i \in DOMAIN v |-> IF IsHex(v[i]) THEN parseHexUint32(v[i]) ELSE Atoi(v[i])]

LEMMA CTMarkParse ==
  ASSUME NEW v
  PROVE  parseMatch("ct_mark", v) =
           IF Len(v) <= 2 /\ \A i \in DOMAIN CTMarkParts(v) : CTMarkParts(v)[i].ok
           THEN Ok(ConnectionTrackingMark(
                  Uint(CTMarkParts(v)[1].val, U32),
                  IF Len(v) = 2 THEN Uint(CTMarkParts(v)[2].val, U32) ELSE 0))
           ELSE Fail
<1>1. NumberAndMask(v, parseHexUint32, U32) =
        IF Len(v) <= 2 /\ \A i \in DOMAIN CTMarkParts(v) : CTMarkParts(v)[i].ok
        THEN Ok([num  |-> Uint(CTMarkParts(v)[1].val, U32),
                 mask |-> IF Len(v) = 2 THEN Uint(CTMarkParts(v)[2].val, U32) ELSE 0])
        ELSE Fail
  BY DEF NumberAndMask, CTMarkParts
<1>2. ~Fail.ok
  BY DEF Fail
<1>3. parseMatch("ct_mark", v) = parseCTMark(v)
  BY DEF parseMatch
<1> QED
  BY <1>1, <1>2, <1>3, Succeeds DEF parseCTMark

\* ct_mark: a number that fits is kept, and so are a number and a mask.
LEMMA CTMarkRead ==
  ASSUME NEW p, NEW n, CTMarkReads(p, n)
  PROVE  parseMatch("ct_mark", <<p>>) = Ok(ConnectionTrackingMark(n, 0))
<1> DEFINE r == CTMarkParts(<<p>>)
<1>1. DOMAIN r = {1} /\ r[1] = Ok(n)
  BY OnePiece DEF CTMarkReads, CTMarkParts
<1>2. Uint(n, U32) = n
  BY DEF CTMarkReads
<1>3. Len(<<p>>) <= 2 /\ Len(<<p>>) # 2
  BY OnePiece
<1>4. \A i \in DOMAIN r : r[i].ok
  BY <1>1, Succeeds
<1>5. parseMatch("ct_mark", <<p>>) = Ok(ConnectionTrackingMark(Uint(r[1].val, U32), 0))
  BY <1>3, <1>4, CTMarkParse
<1> QED
  BY <1>1, <1>2, <1>5, Succeeds

LEMMA CTMarkMaskRead ==
  ASSUME NEW p, NEW q, NEW n, NEW k, CTMarkReads(p, n), CTMarkReads(q, k)
  PROVE  parseMatch("ct_mark", <<p, q>>) = Ok(ConnectionTrackingMark(n, k))
<1> DEFINE r == CTMarkParts(<<p, q>>)
<1>1. DOMAIN r = {1, 2} /\ r[1] = Ok(n) /\ r[2] = Ok(k)
  BY TwoPieces DEF CTMarkReads, CTMarkParts
<1>2. Uint(n, U32) = n /\ Uint(k, U32) = k
  BY DEF CTMarkReads
<1>3. Len(<<p, q>>) <= 2 /\ Len(<<p, q>>) = 2
  BY TwoPieces
<1>4. \A i \in DOMAIN r : r[i].ok
  BY <1>1, Succeeds
<1>5. parseMatch("ct_mark", <<p, q>>) = Ok(ConnectionTrackingMark(Uint(r[1].val, U32), Uint(r[2].val, U32)))
  BY <1>3, <1>4, CTMarkParse
<1> QED
  BY <1>1, <1>2, <1>5, Succeeds

LEMMA CTMarkRoundTrips ==
  ASSUME NEW n \in 0 .. MaxUint(U32), NEW k \in 0 .. MaxUint(U32)
  PROVE  RoundTrips(ConnectionTrackingMark(n, k))
<1>1. Uint(n, U32) = n /\ Uint(k, U32) = k
      /\ parseHexUint32(hex(n)) = Ok(n) /\ parseHexUint32(hex(k)) = Ok(k)
  BY WidthAssumption, HexadecimalRead DEF parseHexUint32
<1>2. /\ parseMatch("ct_mark", <<hex(n)>>) = Ok(ConnectionTrackingMark(n, 0))
      /\ parseMatch("ct_mark", <<hex(n), hex(k)>>) = Ok(ConnectionTrackingMark(n, k))
  BY <1>1, CTMarkRead, CTMarkMaskRead, PieceKinds DEF CTMarkReads
<1>3. MatchText(ConnectionTrackingMark(n, k))
      = Text("ct_mark", IF k = 0 THEN <<hex(n)>> ELSE <<hex(n), hex(k)>>)
  BY DEF MatchText, ConnectionTrackingMark, connectionTrackingMarkMatch_MarshalText, Masked
<1>4. CASE k = 0
  BY <1>2, <1>3, <1>4, RoundTripBy
<1>5. CASE k # 0
  BY <1>2, <1>3, <1>5, RoundTripBy
<1> QED
  BY <1>4, <1>5

TunnelIDReads(p, n) ==
  /\ (IF IsHex(p) THEN parseHexUint64(p) ELSE Atoi(p)) = Ok(n)
  /\ Uint(n, U64) = n

TunnelIDParts(v) ==
  [i \in DOMAIN v |-> IF IsHex(v[i]) THEN parseHexUint64(v[i]) ELSE Atoi(v[i])]

LEMMA TunnelIDParse ==
  ASSUME NEW v
  PROVE  parseMatch("tun_id", v) =
           IF Len(v) <= 2 /\ \A i \in DOMAIN TunnelIDParts(v) : TunnelIDParts(v)[i].ok
           THEN Ok(TunnelIDWithMask(
                  Uint(TunnelIDParts(v)[1].val, U64),
                  IF Len(v) = 2 THEN Uint(TunnelIDParts(v)[2].val, U64) ELSE 0))
           ELSE Fail
<1>1. NumberAndMask(v, parseHexUint64, U64) =
        IF Len(v) <= 2 /\ \A i \in DOMAIN TunnelIDParts(v) : TunnelIDParts(v)[i].ok
        THEN Ok([num  |-> Uint(TunnelIDParts(v)[1].val, U64),
                 mask |-> IF Len(v) = 2 THEN Uint(TunnelIDParts(v)[2].val, U64) ELSE 0])
        ELSE Fail
  BY DEF NumberAndMask, TunnelIDParts
<1>2. ~Fail.ok
  BY DEF Fail
<1>3. parseMatch("tun_id", v) = parseTunID(v)
  BY DEF parseMatch
<1> QED
  BY <1>1, <1>2, <1>3, Succeeds DEF parseTunID

\* tun_id: a number that fits is kept, and so are a number and a mask.
LEMMA TunnelIDRead ==
  ASSUME NEW p, NEW n, TunnelIDReads(p, n)
  PROVE  parseMatch("tun_id", <<p>>) = Ok(TunnelIDWithMask(n, 0))
<1> DEFINE r == TunnelIDParts(<<p>>)
<1>1. DOMAIN r = {1} /\ r[1] = Ok(n)
  BY OnePiece DEF TunnelIDReads, TunnelIDParts
<1>2. Uint(n, U64) = n
  BY DEF TunnelIDReads
<1>3. Len(<<p>>) <= 2 /\ Len(<<p>>) # 2
  BY OnePiece
<1>4. \A i \in DOMAIN r : r[i].ok
  BY <1>1, Succeeds
<1>5. parseMatch("tun_id", <<p>>) = Ok(TunnelIDWithMask(Uint(r[1].val, U64), 0))
  BY <1>3, <1>4, TunnelIDParse
<1> QED
  BY <1>1, <1>2, <1>5, Succeeds

LEMMA TunnelIDMaskRead ==
  ASSUME NEW p, NEW q, NEW n, NEW k, TunnelIDReads(p, n), TunnelIDReads(q, k)
  PROVE  parseMatch("tun_id", <<p, q>>) = Ok(TunnelIDWithMask(n, k))
<1> DEFINE r == TunnelIDParts(<<p, q>>)
<1>1. DOMAIN r = {1, 2} /\ r[1] = Ok(n) /\ r[2] = Ok(k)
  BY TwoPieces DEF TunnelIDReads, TunnelIDParts
<1>2. Uint(n, U64) = n /\ Uint(k, U64) = k
  BY DEF TunnelIDReads
<1>3. Len(<<p, q>>) <= 2 /\ Len(<<p, q>>) = 2
  BY TwoPieces
<1>4. \A i \in DOMAIN r : r[i].ok
  BY <1>1, Succeeds
<1>5. parseMatch("tun_id", <<p, q>>) = Ok(TunnelIDWithMask(Uint(r[1].val, U64), Uint(r[2].val, U64)))
  BY <1>3, <1>4, TunnelIDParse
<1> QED
  BY <1>1, <1>2, <1>5, Succeeds

LEMMA TunnelIDRoundTrips ==
  ASSUME NEW n \in 0 .. MaxUint(U64), NEW k \in 0 .. MaxUint(U64)
  PROVE  RoundTrips(TunnelIDWithMask(n, k))
<1>1. Uint(n, U64) = n /\ Uint(k, U64) = k
      /\ parseHexUint64(hex(n)) = Ok(n) /\ parseHexUint64(hex(k)) = Ok(k)
  BY WidthAssumption, HexadecimalRead DEF parseHexUint64
<1>2. /\ parseMatch("tun_id", <<hex(n)>>) = Ok(TunnelIDWithMask(n, 0))
      /\ parseMatch("tun_id", <<hex(n), hex(k)>>) = Ok(TunnelIDWithMask(n, k))
  BY <1>1, TunnelIDRead, TunnelIDMaskRead, PieceKinds DEF TunnelIDReads
<1>3. MatchText(TunnelIDWithMask(n, k))
      = Text("tun_id", IF k = 0 THEN <<hex(n)>> ELSE <<hex(n), hex(k)>>)
  BY DEF MatchText, TunnelIDWithMask, tunnelIDMatch_MarshalText, Masked
<1>4. CASE k = 0
  BY <1>2, <1>3, <1>4, RoundTripBy
<1>5. CASE k # 0
  BY <1>2, <1>3, <1>5, RoundTripBy
<1> QED
  BY <1>4, <1>5
\* Printing an address and reading it again gives an address that prints alike.
LEMMA IPSpellings ==
  ASSUME NEW a \in DOMAIN IPs
  PROVE  /\ IPs[a].ip \in DOMAIN IPs /\ IPs[IPs[a].ip].ip = IPs[a].ip
         /\ IPs[IPs[a].ip].v4 = IPs[a].v4
<1>1. DOMAIN IPs = {"ip4", "ip6", "IP6", "ip4in6"}
  BY DEF IPs
<1>2. IPs["ip4"].ip = "ip4" /\ IPs["ip4in6"].ip = "ip4" /\ IPs["ip4"].v4 = IPs["ip4in6"].v4
  BY DEF IPs
<1>3. IPs["ip6"].ip = "ip6" /\ IPs["IP6"].ip = "ip6" /\ IPs["ip6"].v4 = IPs["IP6"].v4
  BY DEF IPs
<1> QED
  BY <1>1, <1>2, <1>3

LEMMA MACSpellings ==
  ASSUME NEW a \in DOMAIN MACs
  PROVE  MACs[a].hw \in DOMAIN MACs /\ MACs[MACs[a].hw] = MACs[a]
<1>1. DOMAIN MACs = {"mac", "MAC", "ffmac", "eui64"}
  BY DEF MACs
<1>2. MACs["mac"].hw = "mac" /\ MACs["MAC"] = MACs["mac"]
  BY DEF MACs
<1>3. MACs["ffmac"].hw = "ffmac" /\ MACs["eui64"].hw = "eui64"
  BY DEF MACs
<1> QED
  BY <1>1, <1>2, <1>3

\* A text of an IPv4 address or block is read as it is, and its text is itself.
LEMMA IPv4Text ==
  ASSUME NEW key, NEW ip, matchIPv4AddressOrCIDR(key, ip).ok
  PROVE  \E p : /\ matchIPv4AddressOrCIDR(key, ip) = Text(key, p)
               /\ matchIPv4AddressOrCIDR(key, p) = Text(key, p)
<1> DEFINE cidr == ParseCIDR(ip)
           addr == ParseIP(ip)
<1>0. ~Fail.ok
  BY DEF Fail
<1>1. CASE cidr.ok /\ cidr.val.v4
  <2>1. matchIPv4AddressOrCIDR(key, ip) = Text(key, ip)
    BY <1>1 DEF matchIPv4AddressOrCIDR
  <2> QED
    BY <2>1
<1>2. CASE ~cidr.ok /\ addr.ok /\ addr.val.v4
  <2> DEFINE p == <<IPString(addr.val)>>
  <2>1. matchIPv4AddressOrCIDR(key, ip) = Text(key, p)
    BY <1>2 DEF matchIPv4AddressOrCIDR
  <2>2. PICK a \in DOMAIN IPs : addr.val = IPs[a]
    BY <1>0, <1>2, Succeeds DEF ParseIP
  <2>3. /\ IPs[a].ip \in DOMAIN IPs /\ IPs[IPs[a].ip].ip = IPs[a].ip
        /\ IPs[IPs[a].ip].v4 = IPs[a].v4
    BY IPSpellings
  <2>4. ParseIP(p) = Ok(IPs[IPs[a].ip])
    BY <2>2, <2>3, OnePiece, PieceKinds DEF ParseIP, IPString
  <2>5. ParseCIDR(p) = Fail
    BY OnePiece DEF ParseCIDR
  <2>6. matchIPv4AddressOrCIDR(key, p) = Text(key, <<IPString(IPs[IPs[a].ip])>>)
    <3>1. ~ParseCIDR(p).ok /\ ParseIP(p).ok /\ ParseIP(p).val = IPs[IPs[a].ip]
      BY <1>0, <2>4, <2>5, Succeeds
    <3>2. ParseIP(p).val.v4
      BY <1>2, <2>2, <2>3, <3>1
    <3> HIDE DEF p
    <3> QED
      BY <3>1, <3>2 DEF matchIPv4AddressOrCIDR
  <2>7. <<IPString(IPs[IPs[a].ip])>> = p
    BY <2>2, <2>3 DEF IPString
  <2> QED
    BY <2>1, <2>6, <2>7
<1>3. CASE ~(cidr.ok /\ cidr.val.v4) /\ ~(~cidr.ok /\ addr.ok /\ addr.val.v4)
  BY <1>0, <1>3 DEF matchIPv4AddressOrCIDR
<1> QED
  BY <1>1, <1>2, <1>3

\* A text of an IPv6 address or block is read as it is, and its text is itself.
LEMMA IPv6Text ==
  ASSUME NEW key, NEW ip, matchIPv6AddressOrCIDR(key, ip).ok
  PROVE  \E p : /\ matchIPv6AddressOrCIDR(key, ip) = Text(key, p)
               /\ matchIPv6AddressOrCIDR(key, p) = Text(key, p)
<1> DEFINE cidr == ParseCIDR(ip)
           addr == ParseIP(ip)
<1>0. ~Fail.ok
  BY DEF Fail
<1>1. CASE cidr.ok /\ ~cidr.val.v4
  <2>1. matchIPv6AddressOrCIDR(key, ip) = Text(key, ip)
    BY <1>1 DEF matchIPv6AddressOrCIDR
  <2> QED
    BY <2>1
<1>2. CASE ~cidr.ok /\ addr.ok /\ ~addr.val.v4
  <2> DEFINE p == <<IPString(addr.val)>>
  <2>1. matchIPv6AddressOrCIDR(key, ip) = Text(key, p)
    BY <1>2 DEF matchIPv6AddressOrCIDR
  <2>2. PICK a \in DOMAIN IPs : addr.val = IPs[a]
    BY <1>0, <1>2, Succeeds DEF ParseIP
  <2>3. /\ IPs[a].ip \in DOMAIN IPs /\ IPs[IPs[a].ip].ip = IPs[a].ip
        /\ IPs[IPs[a].ip].v4 = IPs[a].v4
    BY IPSpellings
  <2>4. ParseIP(p) = Ok(IPs[IPs[a].ip])
    BY <2>2, <2>3, OnePiece, PieceKinds DEF ParseIP, IPString
  <2>5. ParseCIDR(p) = Fail
    BY OnePiece DEF ParseCIDR
  <2>6. matchIPv6AddressOrCIDR(key, p) = Text(key, <<IPString(IPs[IPs[a].ip])>>)
    <3>1. ~ParseCIDR(p).ok /\ ParseIP(p).ok /\ ParseIP(p).val = IPs[IPs[a].ip]
      BY <1>0, <2>4, <2>5, Succeeds
    <3>2. ~ParseIP(p).val.v4
      BY <1>2, <2>2, <2>3, <3>1
    <3> HIDE DEF p
    <3> QED
      BY <3>1, <3>2 DEF matchIPv6AddressOrCIDR
  <2>7. <<IPString(IPs[IPs[a].ip])>> = p
    BY <2>2, <2>3 DEF IPString
  <2> QED
    BY <2>1, <2>6, <2>7
<1>3. CASE ~(cidr.ok /\ ~cidr.val.v4) /\ ~(~cidr.ok /\ addr.ok /\ ~addr.val.v4)
  BY <1>0, <1>3 DEF matchIPv6AddressOrCIDR
<1> QED
  BY <1>1, <1>2, <1>3

LEMMA IPRoundTrips ==
  ASSUME NEW ip
  PROVE  /\ RoundTrips(NetworkSource(ip))
         /\ RoundTrips(NetworkDestination(ip))
         /\ RoundTrips(IPv6Source(ip))
         /\ RoundTrips(IPv6Destination(ip))
         /\ RoundTrips(ARPSourceProtocolAddress(ip))
         /\ RoundTrips(ARPTargetProtocolAddress(ip))
         /\ RoundTrips(NeighborDiscoveryTarget(ip))
<1>1. RoundTrips(NetworkSource(ip))
  <2>1. \A p : MatchText(NetworkSource(p)) = matchIPv4AddressOrCIDR("nw_src", p)
    BY DEF MatchText, NetworkSource, networkMatch,
       networkMatch_MarshalText
  <2>2. \A p : parseMatch("nw_src", p) = Ok(NetworkSource(p))
    BY DEF parseMatch
  <2>3. CASE matchIPv4AddressOrCIDR("nw_src", ip).ok
    <3>1. PICK p : /\ matchIPv4AddressOrCIDR("nw_src", ip) = Text("nw_src", p)
                   /\ matchIPv4AddressOrCIDR("nw_src", p) = Text("nw_src", p)
      BY <2>3, IPv4Text
    <3> QED
      BY <2>1, <2>2, <3>1, RoundTripBy
  <2> QED
    BY <2>1, <2>3 DEF RoundTrips
<1>2. RoundTrips(NetworkDestination(ip))
  <2>1. \A p : MatchText(NetworkDestination(p)) = matchIPv4AddressOrCIDR("nw_dst", p)
    BY DEF MatchText, NetworkDestination, networkMatch,
       networkMatch_MarshalText
  <2>2. \A p : parseMatch("nw_dst", p) = Ok(NetworkDestination(p))
    BY DEF parseMatch
  <2>3. CASE matchIPv4AddressOrCIDR("nw_dst", ip).ok
    <3>1. PICK p : /\ matchIPv4AddressOrCIDR("nw_dst", ip) = Text("nw_dst", p)
                   /\ matchIPv4AddressOrCIDR("nw_dst", p) = Text("nw_dst", p)
      BY <2>3, IPv4Text
    <3> QED
      BY <2>1, <2>2, <3>1, RoundTripBy
  <2> QED
    BY <2>1, <2>3 DEF RoundTrips
<1>3. RoundTrips(IPv6Source(ip))
  <2>1. \A p : MatchText(IPv6Source(p)) = matchIPv6AddressOrCIDR("ipv6_src", p)
    BY DEF MatchText, IPv6Source, ipv6Match,
       ipv6Match_MarshalText
  <2>2. \A p : parseMatch("ipv6_src", p) = Ok(IPv6Source(p))
    BY DEF parseMatch
  <2>3. CASE matchIPv6AddressOrCIDR("ipv6_src", ip).ok
    <3>1. PICK p : /\ matchIPv6AddressOrCIDR("ipv6_src", ip) = Text("ipv6_src", p)
                   /\ matchIPv6AddressOrCIDR("ipv6_src", p) = Text("ipv6_src", p)
      BY <2>3, IPv6Text
    <3> QED
      BY <2>1, <2>2, <3>1, RoundTripBy
  <2> QED
    BY <2>1, <2>3 DEF RoundTrips
<1>4. RoundTrips(IPv6Destination(ip))
  <2>1. \A p : MatchText(IPv6Destination(p)) = matchIPv6AddressOrCIDR("ipv6_dst", p)
    BY DEF MatchText, IPv6Destination, ipv6Match,
       ipv6Match_MarshalText
  <2>2. \A p : parseMatch("ipv6_dst", p) = Ok(IPv6Destination(p))
    BY DEF parseMatch
  <2>3. CASE matchIPv6AddressOrCIDR("ipv6_dst", ip).ok
    <3>1. PICK p : /\ matchIPv6AddressOrCIDR("ipv6_dst", ip) = Text("ipv6_dst", p)
                   /\ matchIPv6AddressOrCIDR("ipv6_dst", p) = Text("ipv6_dst", p)
      BY <2>3, IPv6Text
    <3> QED
      BY <2>1, <2>2, <3>1, RoundTripBy
  <2> QED
    BY <2>1, <2>3 DEF RoundTrips
<1>5. RoundTrips(ARPSourceProtocolAddress(ip))
  <2>1. \A p : MatchText(ARPSourceProtocolAddress(p)) = matchIPv4AddressOrCIDR("arp_spa", p)
    BY DEF MatchText, ARPSourceProtocolAddress, arpProtocolAddressMatch,
       arpProtocolAddressMatch_MarshalText
  <2>2. \A p : parseMatch("arp_spa", p) = Ok(ARPSourceProtocolAddress(p))
    BY DEF parseMatch
  <2>3. CASE matchIPv4AddressOrCIDR("arp_spa", ip).ok
    <3>1. PICK p : /\ matchIPv4AddressOrCIDR("arp_spa", ip) = Text("arp_spa", p)
                   /\ matchIPv4AddressOrCIDR("arp_spa", p) = Text("arp_spa", p)
      BY <2>3, IPv4Text
    <3> QED
      BY <2>1, <2>2, <3>1, RoundTripBy
  <2> QED
    BY <2>1, <2>3 DEF RoundTrips
<1>6. RoundTrips(ARPTargetProtocolAddress(ip))
  <2>1. \A p : MatchText(ARPTargetProtocolAddress(p)) = matchIPv4AddressOrCIDR("arp_tpa", p)
    BY DEF MatchText, ARPTargetProtocolAddress, arpProtocolAddressMatch,
       arpProtocolAddressMatch_MarshalText
  <2>2. \A p : parseMatch("arp_tpa", p) = Ok(ARPTargetProtocolAddress(p))
    BY DEF parseMatch
  <2>3. CASE matchIPv4AddressOrCIDR("arp_tpa", ip).ok
    <3>1. PICK p : /\ matchIPv4AddressOrCIDR("arp_tpa", ip) = Text("arp_tpa", p)
                   /\ matchIPv4AddressOrCIDR("arp_tpa", p) = Text("arp_tpa", p)
      BY <2>3, IPv4Text
    <3> QED
      BY <2>1, <2>2, <3>1, RoundTripBy
  <2> QED
    BY <2>1, <2>3 DEF RoundTrips
<1>7. RoundTrips(NeighborDiscoveryTarget(ip))
  <2>1. \A p : MatchText(NeighborDiscoveryTarget(p)) = matchIPv6AddressOrCIDR("nd_target", p)
    BY DEF MatchText, NeighborDiscoveryTarget,  neighborDiscoveryTargetMatch_MarshalText
  <2>2. \A p : parseMatch("nd_target", p) = Ok(NeighborDiscoveryTarget(p))
    BY DEF parseMatch
  <2>3. CASE matchIPv6AddressOrCIDR("nd_target", ip).ok
    <3>1. PICK p : /\ matchIPv6AddressOrCIDR("nd_target", ip) = Text("nd_target", p)
                   /\ matchIPv6AddressOrCIDR("nd_target", p) = Text("nd_target", p)
      BY <2>3, IPv6Text
    <3> QED
      BY <2>1, <2>2, <3>1, RoundTripBy
  <2> QED
    BY <2>1, <2>3 DEF RoundTrips
<1> QED
  BY <1>1, <1>2, <1>3, <1>4, <1>5, <1>6, <1>7

HardwareAddrs == {MACs[a] : a \in DOMAIN MACs}

LEMMA MACRead ==
  ASSUME NEW v \in HardwareAddrs
  PROVE  ParseMAC(HwString(v)) = Ok(v)
<1>1. PICK a \in DOMAIN MACs : v = MACs[a]
  BY DEF HardwareAddrs
<1>2. v.hw \in DOMAIN MACs /\ MACs[v.hw] = v
  BY <1>1, MACSpellings
<1> QED
  BY <1>2, PieceKinds DEF ParseMAC, HwString

LEMMA HardwareRoundTrips ==
  ASSUME NEW v \in HardwareAddrs
  PROVE  /\ RoundTrips(ARPSourceHardwareAddress(v))
         /\ RoundTrips(ARPTargetHardwareAddress(v))
         /\ RoundTrips(NeighborDiscoverySourceLinkLayer(v))
         /\ RoundTrips(NeighborDiscoveryTargetLinkLayer(v))
<1>1. ParseMAC(HwString(v)) = Ok(v) /\ ~Fail.ok
  BY MACRead DEF Fail
<1> DEFINE text == <<HwString(v)>>
<1>2. RoundTrips(ARPSourceHardwareAddress(v))
  <2>1. MatchText(ARPSourceHardwareAddress(v)) = matchEthernetHardwareAddress("arp_sha", v)
    BY DEF MatchText, ARPSourceHardwareAddress,
       arpHardwareAddressMatch, arpHardwareAddressMatch_MarshalText
  <2>2. CASE v.len = 6
    <3>1. MatchText(ARPSourceHardwareAddress(v)) = Text("arp_sha", text)
      BY <2>1, <2>2 DEF matchEthernetHardwareAddress
    <3>2. parseMACMatch("arp_sha", text) = Ok(ARPSourceHardwareAddress(v))
      BY <1>1, OnePiece, Succeeds DEF parseMACMatch
    <3>3. parseMatch("arp_sha", text) = Ok(ARPSourceHardwareAddress(v))
      BY <3>2 DEF parseMatch
    <3> HIDE DEF text
    <3> QED
      BY <3>1, <3>3, RoundTripBy
  <2>3. CASE v.len # 6
    BY <1>1, <2>1, <2>3 DEF matchEthernetHardwareAddress, RoundTrips
  <2> QED
    BY <2>2, <2>3
<1>3. RoundTrips(ARPTargetHardwareAddress(v))
  <2>1. MatchText(ARPTargetHardwareAddress(v)) = matchEthernetHardwareAddress("arp_tha", v)
    BY DEF MatchText, ARPTargetHardwareAddress,
       arpHardwareAddressMatch, arpHardwareAddressMatch_MarshalText
  <2>2. CASE v.len = 6
    <3>1. MatchText(ARPTargetHardwareAddress(v)) = Text("arp_tha", text)
      BY <2>1, <2>2 DEF matchEthernetHardwareAddress
    <3>2. parseMACMatch("arp_tha", text) = Ok(ARPTargetHardwareAddress(v))
      BY <1>1, OnePiece, Succeeds DEF parseMACMatch
    <3>3. parseMatch("arp_tha", text) = Ok(ARPTargetHardwareAddress(v))
      BY <3>2 DEF parseMatch
    <3> HIDE DEF text
    <3> QED
      BY <3>1, <3>3, RoundTripBy
  <2>3. CASE v.len # 6
    BY <1>1, <2>1, <2>3 DEF matchEthernetHardwareAddress, RoundTrips
  <2> QED
    BY <2>2, <2>3
<1>4. RoundTrips(NeighborDiscoverySourceLinkLayer(v))
  <2>1. MatchText(NeighborDiscoverySourceLinkLayer(v)) = matchEthernetHardwareAddress("nd_sll", v)
    BY DEF MatchText, NeighborDiscoverySourceLinkLayer,
       neighborDiscoveryLinkLayerMatch, neighborDiscoveryLinkLayerMatch_MarshalText
  <2>2. CASE v.len = 6
    <3>1. MatchText(NeighborDiscoverySourceLinkLayer(v)) = Text("nd_sll", text)
      BY <2>1, <2>2 DEF matchEthernetHardwareAddress
    <3>2. parseMACMatch("nd_sll", text) = Ok(NeighborDiscoverySourceLinkLayer(v))
      BY <1>1, OnePiece, Succeeds DEF parseMACMatch
    <3>3. parseMatch("nd_sll", text) = Ok(NeighborDiscoverySourceLinkLayer(v))
      BY <3>2 DEF parseMatch
    <3> HIDE DEF text
    <3> QED
      BY <3>1, <3>3, RoundTripBy
  <2>3. CASE v.len # 6
    BY <1>1, <2>1, <2>3 DEF matchEthernetHardwareAddress, RoundTrips
  <2> QED
    BY <2>2, <2>3
<1>5. RoundTrips(NeighborDiscoveryTargetLinkLayer(v))
  <2>1. MatchText(NeighborDiscoveryTargetLinkLayer(v)) = matchEthernetHardwareAddress("nd_tll", v)
    BY DEF MatchText, NeighborDiscoveryTargetLinkLayer,
       neighborDiscoveryLinkLayerMatch, neighborDiscoveryLinkLayerMatch_MarshalText
  <2>2. CASE v.len = 6
    <3>1. MatchText(NeighborDiscoveryTargetLinkLayer(v)) = Text("nd_tll", text)
      BY <2>1, <2>2 DEF matchEthernetHardwareAddress
    <3>2. parseMACMatch("nd_tll", text) = Ok(NeighborDiscoveryTargetLinkLayer(v))
      BY <1>1, OnePiece, Succeeds DEF parseMACMatch
    <3>3. parseMatch("nd_tll", text) = Ok(NeighborDiscoveryTargetLinkLayer(v))
      BY <3>2 DEF parseMatch
    <3> HIDE DEF text
    <3> QED
      BY <3>1, <3>3, RoundTripBy
  <2>3. CASE v.len # 6
    BY <1>1, <2>1, <2>3 DEF matchEthernetHardwareAddress, RoundTrips
  <2> QED
    BY <2>2, <2>3
<1> QED
  BY <1>2, <1>3, <1>4, <1>5

\* The text of one address, or of an address and a mask, is spelled anew.
LEMMA DataLinkText ==
  ASSUME NEW srcdst \in {"src", "dst"}, NEW P, NEW s \in Seq(P),
         MatchText(dataLinkMatch(srcdst, s)).ok
  PROVE  LET key == IF srcdst = "src" THEN "dl_src" ELSE "dl_dst" IN
         \E p : /\ MatchText(dataLinkMatch(srcdst, s)) = Text(key, p)
               /\ MatchText(dataLinkMatch(srcdst, p)) = Text(key, p)
<1> DEFINE key == IF srcdst = "src" THEN "dl_src" ELSE "dl_dst"
           Fits(t) == /\ Len(t) <= 2
                      /\ \A i \in DOMAIN t : ParseMAC(t[i]).ok /\ ParseMAC(t[i]).val.len = 6
           Anew(t) == [i \in DOMAIN t |-> HwString(ParseMAC(t[i]).val)]
<1>1. ASSUME NEW t
      PROVE  MatchText(dataLinkMatch(srcdst, t)) = IF Fits(t) THEN Text(key, Anew(t)) ELSE Fail
  <2>1. MatchText(dataLinkMatch(srcdst, t))
        = dataLinkMatch_MarshalText(dataLinkMatch(srcdst, t))
    BY DEF MatchText, dataLinkMatch
  <2>2. dataLinkMatch(srcdst, t).addr = t /\ dataLinkMatch(srcdst, t).srcdst = srcdst
    BY DEF dataLinkMatch
  <2> DEFINE macs == [i \in DOMAIN t |-> ParseMAC(t[i])]
  <2>3. dataLinkMatch_MarshalText(dataLinkMatch(srcdst, t))
        = IF Len(t) <= 2 /\ \A i \in DOMAIN macs : macs[i].ok /\ macs[i].val.len = 6
          THEN Text(key, [i \in DOMAIN macs |-> HwString(macs[i].val)]) ELSE Fail
    BY <2>2 DEF dataLinkMatch_MarshalText
  <2>4. DOMAIN macs = DOMAIN t /\ \A i \in DOMAIN t : macs[i] = ParseMAC(t[i])
    OBVIOUS
  <2>5. [i \in DOMAIN macs |-> HwString(macs[i].val)] = Anew(t)
    BY <2>4
  <2> HIDE DEF macs
  <2> QED
    BY <2>1, <2>3, <2>4, <2>5
<1> DEFINE p == Anew(s)
<1>2. Fits(s) /\ MatchText(dataLinkMatch(srcdst, s)) = Text(key, p)
  <2>1. ~Fail.ok
    BY DEF Fail
  <2> QED
    BY <1>1, <2>1
<1>3. DOMAIN s = 1 .. Len(s) /\ Len(s) \in Nat
  OBVIOUS
<1>4. Len(p) = Len(s) /\ DOMAIN p = DOMAIN s
  <2>1. p = [i \in 1 .. Len(s) |-> HwString(ParseMAC(s[i]).val)]
    BY <1>3
  <2> QED
    BY <1>3, <2>1
<1>5. ASSUME NEW i \in DOMAIN s
      PROVE  ParseMAC(p[i]) = ParseMAC(s[i])
  <2>1. ParseMAC(s[i]).ok
    BY <1>2
  <2>2. ParseMAC(s[i]).val \in HardwareAddrs /\ ParseMAC(s[i]) = Ok(ParseMAC(s[i]).val)
    <3>1. ~Fail.ok
      BY DEF Fail
    <3> QED
      BY <2>1, <3>1, Succeeds DEF ParseMAC, HardwareAddrs
  <2>3. p[i] = HwString(ParseMAC(s[i]).val)
    OBVIOUS
  <2> QED
    BY <2>2, <2>3, MACRead
<1>6. Fits(p)
  BY <1>2, <1>4, <1>5
<1>7. Anew(p) = p
  <2>1. ASSUME NEW i \in DOMAIN s PROVE HwString(ParseMAC(p[i]).val) = p[i]
    BY <1>5
  <2>2. p = [i \in DOMAIN s |-> p[i]]
    OBVIOUS
  <2> QED
    BY <1>4, <2>1, <2>2
<1> HIDE DEF Fits
<1>8. MatchText(dataLinkMatch(srcdst, p)) = Text(key, p)
  BY <1>1, <1>6, <1>7
<1> HIDE DEF p
<1> QED
  BY <1>2, <1>8

LEMMA DataLinkRoundTrips ==
  ASSUME NEW P, NEW s \in Seq(P)
  PROVE  RoundTrips(DataLinkSource(s)) /\ RoundTrips(DataLinkDestination(s))
<1>1. RoundTrips(DataLinkSource(s))
  <2>1. \A v : DataLinkSource(v) = dataLinkMatch("src", v)
    BY DEF DataLinkSource
  <2>2. \A v : parseMatch("dl_src", v) = Ok(DataLinkSource(v))
    BY DEF parseMatch
  <2>3. CASE MatchText(DataLinkSource(s)).ok
    <3>1. PICK p : /\ MatchText(DataLinkSource(s)) = Text("dl_src", p)
                   /\ MatchText(DataLinkSource(p)) = Text("dl_src", p)
      <4>1. "src" \in {"src", "dst"}
        OBVIOUS
      <4> QED
        BY <2>1, <2>3, <4>1, DataLinkText
    <3> QED
      BY <2>2, <3>1, RoundTripBy
  <2> QED
    BY <2>3 DEF RoundTrips
<1>2. RoundTrips(DataLinkDestination(s))
  <2>1. \A v : DataLinkDestination(v) = dataLinkMatch("dst", v)
    BY DEF DataLinkDestination
  <2>2. \A v : parseMatch("dl_dst", v) = Ok(DataLinkDestination(v))
    BY DEF parseMatch
  <2>3. CASE MatchText(DataLinkDestination(s)).ok
    <3>1. PICK p : /\ MatchText(DataLinkDestination(s)) = Text("dl_dst", p)
                   /\ MatchText(DataLinkDestination(p)) = Text("dl_dst", p)
      <4>1. "dst" \in {"src", "dst"}
        OBVIOUS
      <4> QED
        BY <2>1, <2>3, <4>1, DataLinkText
    <3> QED
      BY <2>2, <3>1, RoundTripBy
  <2> QED
    BY <2>3 DEF RoundTrips
<1> QED
  BY <1>1, <1>2

\* Flags are kept, or refused; those of four characters are read back.
LEMMA FlagsRead ==
  ASSUME NEW fl, ~Recut(fl)
  PROVE  /\ FlagsKept("ct_state", Joined(fl)) /\ FlagsKept("tcp_flags", Joined(fl))
         /\ FourEach(fl) =>
              RoundTrips(ConnectionTrackingState(fl)) /\ RoundTrips(TCPFlags(fl))
<1> DEFINE g == GroupsOfFour(fl)
           t == Joined(fl)
<1>1. /\ Single(t) /\ "flags" \in DOMAIN t[1]
      /\ t[1].flags = fl /\ ~Fail.ok
  BY OnePiece DEF Joined, Fail
<1>2. FourEach(fl) => Divisible(t) /\ g = fl
  BY <1>1 DEF Divisible, GroupsOfFour
<1>3. Joined(g) = t
  <2>1. CASE FourEach(fl)
    BY <1>2, <2>1
  <2>2. CASE ~FourEach(fl)
    <3>1. g = <<[of |-> fl]>>
      BY <2>2 DEF GroupsOfFour, Groups
    <3> HIDE DEF g
    <3>2. g # <<>> /\ g[1].of = fl /\ "of" \in DOMAIN g[1]
      BY <3>1
    <3> QED
      BY <3>2 DEF Joined, Recut
  <2> QED
    BY <2>1, <2>2
<1>4. \A s : MatchText(ConnectionTrackingState(s)) = Text("ct_state", Joined(s))
  BY DEF MatchText, ConnectionTrackingState, connectionTrackingMatch_MarshalText
<1>5. parseMatch("ct_state", t) =
        IF Divisible(t) THEN Ok(ConnectionTrackingState(g)) ELSE Fail
  <2>1. parseMatch("ct_state", t) = parseCTState(t)
    BY DEF parseMatch
  <2> QED
    BY <1>1, <2>1 DEF parseCTState
<1>6. \A s : MatchText(TCPFlags(s)) = Text("tcp_flags", Joined(s))
  BY DEF MatchText, TCPFlags, tcpFlagsMatch_MarshalText
<1>7. parseMatch("tcp_flags", t) = IF Divisible(t) THEN Ok(TCPFlags(g)) ELSE Fail
  <2>1. parseMatch("tcp_flags", t) = parseTCPFlags(t)
    BY DEF parseMatch
  <2> QED
    BY <1>1, <2>1 DEF parseTCPFlags
<1> HIDE DEF g, t
<1>8. FlagsKept("ct_state", t) /\ FlagsKept("tcp_flags", t)
  BY <1>1, <1>3, <1>4, <1>5, <1>6, <1>7, Succeeds DEF FlagsKept
<1>9. ASSUME FourEach(fl)
      PROVE  RoundTrips(ConnectionTrackingState(fl)) /\ RoundTrips(TCPFlags(fl))
  BY <1>2, <1>4, <1>5, <1>6, <1>7, <1>9, RoundTripBy DEF t
<1> QED
  BY <1>8, <1>9 DEF t
----------------------------------------------------------------------------
(* Numbers that are read and written again.                                *)

NumberPieces == {dec(n) : n \in Int} \cup {hex(n) : n \in Nat}

LEMMA NumbersOfOne ==
  ASSUME NEW p PROVE Numbers(<<p>>) = <<Number(p)>>
BY DEF Numbers

LEMMA NumbersOfTwo ==
  ASSUME NEW p, NEW q PROVE Numbers(<<p, q>>) = <<Number(p), Number(q)>>
BY DEF Numbers

LEMMA MaskDropped ==
  ASSUME NEW a, NEW b
  PROVE  WithoutZeroMask(<<a, b>>) = IF b = 0 THEN <<a>> ELSE <<a, b>>
BY DEF WithoutZeroMask

LEMMA NoMaskKept == ASSUME NEW a PROVE WithoutZeroMask(<<a>>) = <<a>>
BY DEF WithoutZeroMask

LEMMA PieceNumber ==
  ASSUME NEW p \in NumberPieces
  PROVE  /\ Number(p) \in Int
         /\ IsDec(p) => p = dec(Number(p)) /\ p.dec = Number(p)
         /\ IsHex(p) => p = hex(Number(p))
         /\ IsDec(p) \/ IsHex(p)
<1>1. ASSUME NEW n \in Int, p = dec(n)
      PROVE  Number(p) = n /\ IsDec(p) /\ ~IsHex(p) /\ p.dec = n
  BY <1>1, PieceKinds
<1>2. ASSUME NEW n \in Nat, p = hex(n)
      PROVE  Number(p) = n /\ IsHex(p) /\ ~IsDec(p)
  BY <1>2, PieceKinds
<1> QED
  BY <1>1, <1>2 DEF NumberPieces

\* One number, two numbers.
LEMMA OneKept ==
  ASSUME NEW key, NEW p \in NumberPieces, NEW limit \in Int, limit = 2 ^ NumberKeys[key],
         0 <= Number(p) /\ Number(p) < limit =>
           \E m, q : /\ parseMatch(key, <<p>>) = Ok(m)
                    /\ MatchText(m) = Text(key, <<q>>) /\ Number(q) = Number(p),
         Number(p) >= limit /\ key \in Clamped => ~parseMatch(key, <<p>>).ok
  PROVE  KeepsNumbers(key, <<p>>)
<1> DEFINE n == Numbers(<<p>>)
           back == parseMatch(key, <<p>>)
           text == MatchText(back.val)
<1>1. n = <<Number(p)>> /\ WithoutZeroMask(n) = n
  BY NumbersOfOne, NoMaskKept
<1>2. DOMAIN n = {1} /\ n[1] = Number(p)
  BY <1>1
<1>3. ASSUME 0 <= Number(p) /\ Number(p) < limit
      PROVE  back.ok /\ text.ok /\ Numbers(text.val.parts) = WithoutZeroMask(n)
  <2>1. PICK m, q : /\ parseMatch(key, <<p>>) = Ok(m)
                    /\ MatchText(m) = Text(key, <<q>>) /\ Number(q) = Number(p)
    BY <1>3
  <2>2. back.ok /\ back.val = m
    BY <2>1, Succeeds
  <2>3. text.ok /\ text.val.parts = <<q>>
    BY <2>1, <2>2 DEF Text, Ok
  <2> QED
    BY <1>1, <2>1, <2>2, <2>3, NumbersOfOne
<1> HIDE DEF n, back, text
<1>4. /\ (\A i \in DOMAIN n : 0 <= n[i] /\ n[i] < limit) =>
           back.ok /\ text.ok /\ Numbers(text.val.parts) = WithoutZeroMask(n)
      /\ (\E i \in DOMAIN n : n[i] >= limit) /\ key \in Clamped => ~back.ok
  BY <1>2, <1>3 DEF back
<1> QED
  BY <1>4 DEF KeepsNumbers, n, back, text

LEMMA TwoKept ==
  ASSUME NEW key, NEW p \in NumberPieces, NEW k \in NumberPieces,
         NEW limit \in Int, limit = 2 ^ NumberKeys[key],
         0 <= Number(p) /\ Number(p) < limit /\ 0 <= Number(k) /\ Number(k) < limit =>
           \E m, q, r : /\ parseMatch(key, <<p, k>>) = Ok(m)
                       /\ Number(q) = Number(p) /\ Number(r) = Number(k)
                       /\ MatchText(m) = Text(key, IF Number(k) = 0 THEN <<q>> ELSE <<q, r>>),
         (Number(p) >= limit \/ Number(k) >= limit) /\ key \in Clamped =>
           ~parseMatch(key, <<p, k>>).ok
  PROVE  KeepsNumbers(key, <<p, k>>)
<1> DEFINE n == Numbers(<<p, k>>)
           back == parseMatch(key, <<p, k>>)
           text == MatchText(back.val)
<1>1. n = <<Number(p), Number(k)>>
      /\ WithoutZeroMask(n) = IF Number(k) = 0 THEN <<Number(p)>> ELSE n
  <2>1. n = <<Number(p), Number(k)>>
    BY NumbersOfTwo
  <2> HIDE DEF n
  <2> QED
    BY <2>1, MaskDropped
<1>2. DOMAIN n = {1, 2} /\ n[1] = Number(p) /\ n[2] = Number(k)
  BY <1>1, TwoPieces
<1>3. ASSUME 0 <= Number(p), Number(p) < limit, 0 <= Number(k), Number(k) < limit
      PROVE  back.ok /\ text.ok /\ Numbers(text.val.parts) = WithoutZeroMask(n)
  <2>1. PICK m, q, r : /\ parseMatch(key, <<p, k>>) = Ok(m)
                       /\ Number(q) = Number(p) /\ Number(r) = Number(k)
                       /\ MatchText(m) = Text(key, IF Number(k) = 0 THEN <<q>> ELSE <<q, r>>)
    BY <1>3
  <2>2. back.ok /\ back.val = m
    BY <2>1, Succeeds
  <2>3. text.ok /\ text.val.parts = IF Number(k) = 0 THEN <<q>> ELSE <<q, r>>
    BY <2>1, <2>2 DEF Text, Ok
  <2>4. CASE Number(k) = 0
    BY <1>1, <2>1, <2>2, <2>3, <2>4, NumbersOfOne
  <2>5. CASE Number(k) # 0
    <3>1. Numbers(text.val.parts) = <<Number(p), Number(k)>>
      BY <2>1, <2>3, <2>5, NumbersOfTwo
    <3> QED
      BY <1>1, <2>2, <2>3, <2>5, <3>1
  <2> QED
    BY <2>4, <2>5
<1> HIDE DEF n, back, text
<1>4. /\ (\A i \in DOMAIN n : 0 <= n[i] /\ n[i] < limit) =>
           back.ok /\ text.ok /\ Numbers(text.val.parts) = WithoutZeroMask(n)
      /\ (\E i \in DOMAIN n : n[i] >= limit) /\ key \in Clamped => ~back.ok
  BY <1>2, <1>3 DEF back
<1> QED
  BY <1>4 DEF KeepsNumbers, n, back, text
\* The limits are numbers.
LEMMA LimitIs ==
  ASSUME NEW b \in {U8, U12, U16, U32, U64}
  PROVE  /\ b \in Nat /\ 2 ^ b \in Nat \ {0} /\ MaxUint(b) = 2 ^ b - 1
         /\ \A n \in Int : 0 <= n /\ n < 2 ^ b <=> n \in 0 .. MaxUint(b)
<1>1. b \in Nat
  BY WidthAssumption
<1>2. 2 ^ b \in Nat \ {0}
  BY <1>1, PowerPositive
<1> QED
  BY <1>1, <1>2 DEF MaxUint

\* A number too large for the width is refused.
LEMMA TooLarge ==
  ASSUME NEW b \in {U8, U12, U16, U32}, NEW n \in Int, n >= 2 ^ b
  PROVE  ~parseClampInt(<<dec(n)>>, MaxUint(b)).ok
<1>1. ~Fail.ok
  BY DEF Fail
<1>2. ~(n <= MaxUint(b))
  BY LimitIs
<1>3. Atoi(dec(n)) = Ok(n) \/ Atoi(dec(n)) = Fail
  BY PieceKinds DEF Atoi
<1> QED
  BY <1>1, <1>2, <1>3, OnePiece, Succeeds DEF parseClampInt

LEMMA ClampedKept ==
  ASSUME NEW p \in NumberPieces
  PROVE  /\ SameBase("icmp_type", <<p>>) => KeepsNumbers("icmp_type", <<p>>)
         /\ SameBase("nw_proto", <<p>>) => KeepsNumbers("nw_proto", <<p>>)
         /\ SameBase("ct_zone", <<p>>) => KeepsNumbers("ct_zone", <<p>>)
         /\ SameBase("conj_id", <<p>>) => KeepsNumbers("conj_id", <<p>>)
<1>1. ASSUME SameBase("icmp_type", <<p>>) PROVE KeepsNumbers("icmp_type", <<p>>)
  <2>1. NumberKeys["icmp_type"] = U8 /\ 2 ^ U8 \in Int
    BY LimitIs DEF NumberKeys
  <2>2. Number(p) \in Int /\ p = dec(Number(p))
    <3>1. IsDec(p)
      BY <1>1, OnePiece DEF SameBase
    <3> QED
      BY <3>1, PieceNumber
  <2>3. ASSUME 0 <= Number(p), Number(p) < 2 ^ U8
        PROVE  /\ parseMatch("icmp_type", <<p>>) = Ok(ICMPType(Number(p)))
               /\ MatchText(ICMPType(Number(p))) = Text("icmp_type", <<p>>)
    <3>1. Number(p) \in 0 .. MaxUint(U8)
      BY <2>2, <2>3, LimitIs
    <3> QED
      BY <2>2, <3>1, ClampedWritten DEF Written
  <2>4. ASSUME Number(p) >= 2 ^ U8 PROVE ~parseMatch("icmp_type", <<p>>).ok
    <3>1. ~parseClampInt(<<p>>, MaxUint(U8)).ok
      BY <2>2, <2>4, TooLarge
    <3>2. ~parseIntMatch("icmp_type", <<p>>, MaxUint(U8)).ok
      BY <3>1 DEF parseIntMatch, Fail
    <3> QED
      BY <3>2 DEF parseMatch
  <2> QED
    BY <2>1, <2>3, <2>4, OneKept
<1>2. ASSUME SameBase("nw_proto", <<p>>) PROVE KeepsNumbers("nw_proto", <<p>>)
  <2>1. NumberKeys["nw_proto"] = U8 /\ 2 ^ U8 \in Int
    BY LimitIs DEF NumberKeys
  <2>2. Number(p) \in Int /\ p = dec(Number(p))
    <3>1. IsDec(p)
      BY <1>2, OnePiece DEF SameBase
    <3> QED
      BY <3>1, PieceNumber
  <2>3. ASSUME 0 <= Number(p), Number(p) < 2 ^ U8
        PROVE  /\ parseMatch("nw_proto", <<p>>) = Ok(NetworkProtocol(Number(p)))
               /\ MatchText(NetworkProtocol(Number(p))) = Text("nw_proto", <<p>>)
    <3>1. Number(p) \in 0 .. MaxUint(U8)
      BY <2>2, <2>3, LimitIs
    <3> QED
      BY <2>2, <3>1, ClampedWritten DEF Written
  <2>4. ASSUME Number(p) >= 2 ^ U8 PROVE ~parseMatch("nw_proto", <<p>>).ok
    <3>1. ~parseClampInt(<<p>>, MaxUint(U8)).ok
      BY <2>2, <2>4, TooLarge
    <3>2. ~parseIntMatch("nw_proto", <<p>>, MaxUint(U8)).ok
      BY <3>1 DEF parseIntMatch, Fail
    <3> QED
      BY <3>2 DEF parseMatch
  <2> QED
    BY <2>1, <2>3, <2>4, OneKept
<1>3. ASSUME SameBase("ct_zone", <<p>>) PROVE KeepsNumbers("ct_zone", <<p>>)
  <2>1. NumberKeys["ct_zone"] = U16 /\ 2 ^ U16 \in Int
    BY LimitIs DEF NumberKeys
  <2>2. Number(p) \in Int /\ p = dec(Number(p))
    <3>1. IsDec(p)
      BY <1>3, OnePiece DEF SameBase
    <3> QED
      BY <3>1, PieceNumber
  <2>3. ASSUME 0 <= Number(p), Number(p) < 2 ^ U16
        PROVE  /\ parseMatch("ct_zone", <<p>>) = Ok(ConnectionTrackingZone(Number(p)))
               /\ MatchText(ConnectionTrackingZone(Number(p))) = Text("ct_zone", <<p>>)
    <3>1. Number(p) \in 0 .. MaxUint(U16)
      BY <2>2, <2>3, LimitIs
    <3> QED
      BY <2>2, <3>1, ClampedWritten DEF Written
  <2>4. ASSUME Number(p) >= 2 ^ U16 PROVE ~parseMatch("ct_zone", <<p>>).ok
    <3>1. ~parseClampInt(<<p>>, MaxUint(U16)).ok
      BY <2>2, <2>4, TooLarge
    <3>2. ~parseIntMatch("ct_zone", <<p>>, MaxUint(U16)).ok
      BY <3>1 DEF parseIntMatch, Fail
    <3> QED
      BY <3>2 DEF parseMatch
  <2> QED
    BY <2>1, <2>3, <2>4, OneKept
<1>4. ASSUME SameBase("conj_id", <<p>>) PROVE KeepsNumbers("conj_id", <<p>>)
  <2>1. NumberKeys["conj_id"] = U32 /\ 2 ^ U32 \in Int
    BY LimitIs DEF NumberKeys
  <2>2. Number(p) \in Int /\ p = dec(Number(p))
    <3>1. IsDec(p)
      BY <1>4, OnePiece DEF SameBase
    <3> QED
      BY <3>1, PieceNumber
  <2>3. ASSUME 0 <= Number(p), Number(p) < 2 ^ U32
        PROVE  /\ parseMatch("conj_id", <<p>>) = Ok(ConjunctionID(Number(p)))
               /\ MatchText(ConjunctionID(Number(p))) = Text("conj_id", <<p>>)
    <3>1. Number(p) \in 0 .. MaxUint(U32)
      BY <2>2, <2>3, LimitIs
    <3> QED
      BY <2>2, <3>1, ClampedWritten DEF Written
  <2>4. ASSUME Number(p) >= 2 ^ U32 PROVE ~parseMatch("conj_id", <<p>>).ok
    <3>1. ~parseClampInt(<<p>>, MaxUint(U32)).ok
      BY <2>2, <2>4, TooLarge
    <3>2. ~parseIntMatch("conj_id", <<p>>, MaxUint(U32)).ok
      BY <3>1 DEF parseIntMatch, Fail
    <3> QED
      BY <3>2 DEF parseMatch
  <2> QED
    BY <2>1, <2>3, <2>4, OneKept
<1> QED
  BY <1>1, <1>2, <1>3, <1>4

LEMMA DataLinkTypeKept ==
  ASSUME NEW p \in NumberPieces, SameBase("dl_type", <<p>>)
  PROVE  KeepsNumbers("dl_type", <<p>>)
<1>1. NumberKeys["dl_type"] = U16 /\ 2 ^ U16 \in Int /\ "dl_type" \notin Clamped
  BY LimitIs DEF NumberKeys, Clamped
<1>2. Number(p) \in Int /\ p = hex(Number(p))
  <2>1. IsHex(p)
    BY OnePiece DEF SameBase
  <2> QED
    BY <2>1, PieceNumber
<1>3. ASSUME 0 <= Number(p), Number(p) < 2 ^ U16
      PROVE  /\ parseMatch("dl_type", <<p>>) = Ok(DataLinkType(Number(p)))
             /\ MatchText(DataLinkType(Number(p))) = Text("dl_type", <<p>>)
  <2>1. Number(p) \in 0 .. MaxUint(U16)
    BY <1>2, <1>3, LimitIs
  <2> QED
    BY <1>2, <2>1, DataLinkTypeWritten DEF Written
<1> QED
  BY <1>1, <1>3, OneKept

LEMMA VLANKept ==
  ASSUME NEW p \in NumberPieces PROVE KeepsNumbers("dl_vlan", <<p>>)
<1> DEFINE n == Number(p)
<1>1. NumberKeys["dl_vlan"] = U12 /\ 2 ^ U12 \in Int /\ "dl_vlan" \notin Clamped
  BY LimitIs DEF NumberKeys, Clamped
<1>2. n \in Int /\ (p = dec(n) \/ p = hex(n))
  BY PieceNumber
<1> HIDE DEF n
<1>3. ASSUME 0 <= n, n < 2 ^ U12
      PROVE  /\ parseMatch("dl_vlan", <<p>>) = Ok(DataLinkVLAN(n))
             /\ MatchText(DataLinkVLAN(n)) = Text("dl_vlan", <<dec(n)>>)
  <2>1. n \in 0 .. MaxUint(U12)
    BY <1>2, <1>3, LimitIs
  <2>2. n \in 0 .. MaxUint(U16) /\ n # VLANNone
    <3>1. U12 \in Nat /\ U16 \in Nat /\ U12 < U16
      BY WidthAssumption
    <3>2. 2 ^ U12 \in Nat /\ 2 ^ U16 \in Nat /\ 2 ^ U12 < 2 ^ U16
      BY <3>1, PowerPositive, PowerMonotone
    <3> QED
      BY <2>1, <3>2 DEF MaxUint, VLANNone
  <2>3. validVLANVID(n)
    BY <2>1, LimitIs DEF validVLANVID
  <2>4. MatchText(DataLinkVLAN(n)) = dataLinkVLANMatch_MarshalText(DataLinkVLAN(n))
        /\ DataLinkVLAN(n).num = n
    BY DEF MatchText, DataLinkVLAN
  <2>5. MatchText(DataLinkVLAN(n)) = Text("dl_vlan", <<dec(n)>>)
    BY <2>2, <2>3, <2>4 DEF dataLinkVLANMatch_MarshalText
  <2>6. parseMatch("dl_vlan", <<p>>) = Ok(DataLinkVLAN(n))
    BY <1>2, <2>1, <2>2, VLANRead
  <2> QED
    BY <2>5, <2>6
<1>4. Number(dec(n)) = n
  BY PieceKinds
<1> QED
  BY <1>1, <1>3, <1>4, OneKept DEF n

LEMMA VLANTCIKept ==
  ASSUME NEW p \in NumberPieces
  PROVE  /\ SameBase("vlan_tci", <<p>>) => KeepsNumbers("vlan_tci", <<p>>)
         /\ \A q \in NumberPieces :
              SameBase("vlan_tci", <<p, q>>) => KeepsNumbers("vlan_tci", <<p, q>>)
<1> DEFINE Low(x) == IsDec(x) => x.dec < 2 ^ (U64 - 1)
<1>1. NumberKeys["vlan_tci"] = U16 /\ 2 ^ U16 \in Int /\ "vlan_tci" \notin Clamped
  BY LimitIs DEF NumberKeys, Clamped
<1>2. ASSUME NEW x \in NumberPieces, Low(x), 0 <= Number(x), Number(x) < 2 ^ U16
      PROVE  VLANTCIReads(x, Number(x))
  <2> DEFINE n == Number(x)
  <2>1. n \in Int /\ (IsDec(x) => x = dec(n) /\ x.dec = n) /\ (IsHex(x) => x = hex(n))
        /\ (IsDec(x) \/ IsHex(x))
    BY PieceNumber
  <2>2. n \in 0 .. MaxUint(U16) /\ U16 \in Nat
    BY <1>2, <2>1, LimitIs
  <2>3. Uint(n, U16) = n
    BY <2>2, HexadecimalRead
  <2> HIDE DEF n
  <2>4. CASE IsHex(x)
    <3>1. parseHexUint16(hex(n)) = Ok(n)
      BY <2>2, HexUint16Read
    <3> QED
      BY <2>1, <2>3, <2>4, <3>1 DEF n, VLANTCIReads
  <2>5. CASE ~IsHex(x)
    <3>1. x = dec(n) /\ n < 2 ^ (U64 - 1) /\ 0 <= n
      BY <1>2, <2>1, <2>5 DEF n
    <3>2. 2 ^ (U64 - 1) \in Nat
      <4>1. U64 - 1 \in Nat
        BY WidthAssumption
      <4> QED
        BY <4>1, PowerPositive
    <3>3. Atoi(dec(n)) = Ok(n)
      BY <2>1, <3>1, <3>2, PieceKinds DEF Atoi
    <3> QED
      BY <2>3, <2>5, <3>1, <3>3 DEF n, VLANTCIReads
  <2> QED
    BY <2>4, <2>5
<1>3. ASSUME NEW n, NEW k
      PROVE  MatchText(VLANTCI(n, k))
             = Text("vlan_tci", IF k = 0 THEN <<hex(n)>> ELSE <<hex(n), hex(k)>>)
  BY DEF MatchText, VLANTCI, vlanTCIMatch_MarshalText, Masked
<1>4. ASSUME SameBase("vlan_tci", <<p>>) PROVE KeepsNumbers("vlan_tci", <<p>>)
  <2>1. Low(p)
    BY <1>4, OnePiece DEF SameBase
  <2>2. ASSUME 0 <= Number(p), Number(p) < 2 ^ U16
        PROVE  /\ parseMatch("vlan_tci", <<p>>) = Ok(VLANTCI(Number(p), 0))
               /\ MatchText(VLANTCI(Number(p), 0)) = Text("vlan_tci", <<hex(Number(p))>>)
    <3>1. VLANTCIReads(p, Number(p))
      BY <1>2, <2>1, <2>2
    <3>2. parseMatch("vlan_tci", <<p>>) = Ok(VLANTCI(Number(p), 0))
      BY <3>1, VLANTCIRead
    <3> QED
      BY <1>3, <3>2
  <2>3. Number(hex(Number(p))) = Number(p)
    BY PieceKinds
  <2> QED
    BY <1>1, <2>2, <2>3, OneKept
<1>5. ASSUME NEW q \in NumberPieces, SameBase("vlan_tci", <<p, q>>)
      PROVE  KeepsNumbers("vlan_tci", <<p, q>>)
  <2>1. Low(p) /\ Low(q)
    BY <1>5, TwoPieces DEF SameBase
  <2>2. ASSUME 0 <= Number(p), Number(p) < 2 ^ U16, 0 <= Number(q), Number(q) < 2 ^ U16
        PROVE  /\ parseMatch("vlan_tci", <<p, q>>) = Ok(VLANTCI(Number(p), Number(q)))
               /\ MatchText(VLANTCI(Number(p), Number(q)))
                    = Text("vlan_tci", IF Number(q) = 0 THEN <<hex(Number(p))>>
                                    ELSE <<hex(Number(p)), hex(Number(q))>>)
    <3>1. VLANTCIReads(p, Number(p)) /\ VLANTCIReads(q, Number(q))
      BY <1>2, <2>1, <2>2
    <3>2. parseMatch("vlan_tci", <<p, q>>) = Ok(VLANTCI(Number(p), Number(q)))
      BY <3>1, VLANTCIMaskRead
    <3> QED
      BY <1>3, <3>2
  <2>3. Number(hex(Number(p))) = Number(p) /\ Number(hex(Number(q))) = Number(q)
    BY PieceKinds
  <2> QED
    BY <1>1, <2>2, <2>3, TwoKept
<1> QED
  BY <1>4, <1>5

LEMMA CTMarkKept ==
  ASSUME NEW p \in NumberPieces
  PROVE  /\ SameBase("ct_mark", <<p>>) => KeepsNumbers("ct_mark", <<p>>)
         /\ \A q \in NumberPieces :
              SameBase("ct_mark", <<p, q>>) => KeepsNumbers("ct_mark", <<p, q>>)
<1> DEFINE Low(x) == IsDec(x) => x.dec < 2 ^ (U64 - 1)
<1>1. NumberKeys["ct_mark"] = U32 /\ 2 ^ U32 \in Int /\ "ct_mark" \notin Clamped
  BY LimitIs DEF NumberKeys, Clamped
<1>2. ASSUME NEW x \in NumberPieces, Low(x), 0 <= Number(x), Number(x) < 2 ^ U32
      PROVE  CTMarkReads(x, Number(x))
  <2> DEFINE n == Number(x)
  <2>1. n \in Int /\ (IsDec(x) => x = dec(n) /\ x.dec = n) /\ (IsHex(x) => x = hex(n))
        /\ (IsDec(x) \/ IsHex(x))
    BY PieceNumber
  <2>2. n \in 0 .. MaxUint(U32) /\ U32 \in Nat
    BY <1>2, <2>1, LimitIs
  <2>3. Uint(n, U32) = n
    BY <2>2, HexadecimalRead
  <2> HIDE DEF n
  <2>4. CASE IsHex(x)
    <3>1. parseHexUint32(hex(n)) = Ok(n)
      BY <2>2, HexadecimalRead DEF parseHexUint32
    <3> QED
      BY <2>1, <2>3, <2>4, <3>1 DEF n, CTMarkReads
  <2>5. CASE ~IsHex(x)
    <3>1. x = dec(n) /\ n < 2 ^ (U64 - 1) /\ 0 <= n
      BY <1>2, <2>1, <2>5 DEF n
    <3>2. 2 ^ (U64 - 1) \in Nat
      <4>1. U64 - 1 \in Nat
        BY WidthAssumption
      <4> QED
        BY <4>1, PowerPositive
    <3>3. Atoi(dec(n)) = Ok(n)
      BY <2>1, <3>1, <3>2, PieceKinds DEF Atoi
    <3> QED
      BY <2>3, <2>5, <3>1, <3>3 DEF n, CTMarkReads
  <2> QED
    BY <2>4, <2>5
<1>3. ASSUME NEW n, NEW k
      PROVE  MatchText(ConnectionTrackingMark(n, k))
             = Text("ct_mark", IF k = 0 THEN <<hex(n)>> ELSE <<hex(n), hex(k)>>)
  BY DEF MatchText, ConnectionTrackingMark, connectionTrackingMarkMatch_MarshalText, Masked
<1>4. ASSUME SameBase("ct_mark", <<p>>) PROVE KeepsNumbers("ct_mark", <<p>>)
  <2>1. Low(p)
    BY <1>4, OnePiece DEF SameBase
  <2>2. ASSUME 0 <= Number(p), Number(p) < 2 ^ U32
        PROVE  /\ parseMatch("ct_mark", <<p>>) = Ok(ConnectionTrackingMark(Number(p), 0))
               /\ MatchText(ConnectionTrackingMark(Number(p), 0)) = Text("ct_mark", <<hex(Number(p))>>)
    <3>1. CTMarkReads(p, Number(p))
      BY <1>2, <2>1, <2>2
    <3>2. parseMatch("ct_mark", <<p>>) = Ok(ConnectionTrackingMark(Number(p), 0))
      BY <3>1, CTMarkRead
    <3> QED
      BY <1>3, <3>2
  <2>3. Number(hex(Number(p))) = Number(p)
    BY PieceKinds
  <2> QED
    BY <1>1, <2>2, <2>3, OneKept
<1>5. ASSUME NEW q \in NumberPieces, SameBase("ct_mark", <<p, q>>)
      PROVE  KeepsNumbers("ct_mark", <<p, q>>)
  <2>1. Low(p) /\ Low(q)
    BY <1>5, TwoPieces DEF SameBase
  <2>2. ASSUME 0 <= Number(p), Number(p) < 2 ^ U32, 0 <= Number(q), Number(q) < 2 ^ U32
        PROVE  /\ parseMatch("ct_mark", <<p, q>>) = Ok(ConnectionTrackingMark(Number(p), Number(q)))
               /\ MatchText(ConnectionTrackingMark(Number(p), Number(q)))
                    = Text("ct_mark", IF Number(q) = 0 THEN <<hex(Number(p))>>
                                    ELSE <<hex(Number(p)), hex(Number(q))>>)
    <3>1. CTMarkReads(p, Number(p)) /\ CTMarkReads(q, Number(q))
      BY <1>2, <2>1, <2>2
    <3>2. parseMatch("ct_mark", <<p, q>>) = Ok(ConnectionTrackingMark(Number(p), Number(q)))
      BY <3>1, CTMarkMaskRead
    <3> QED
      BY <1>3, <3>2
  <2>3. Number(hex(Number(p))) = Number(p) /\ Number(hex(Number(q))) = Number(q)
    BY PieceKinds
  <2> QED
    BY <1>1, <2>2, <2>3, TwoKept
<1> QED
  BY <1>4, <1>5

LEMMA TunnelIDKept ==
  ASSUME NEW p \in NumberPieces
  PROVE  /\ SameBase("tun_id", <<p>>) => KeepsNumbers("tun_id", <<p>>)
         /\ \A q \in NumberPieces :
              SameBase("tun_id", <<p, q>>) => KeepsNumbers("tun_id", <<p, q>>)
<1> DEFINE Low(x) == IsDec(x) => x.dec < 2 ^ (U64 - 1)
<1>1. NumberKeys["tun_id"] = U64 /\ 2 ^ U64 \in Int /\ "tun_id" \notin Clamped
  BY LimitIs DEF NumberKeys, Clamped
<1>2. ASSUME NEW x \in NumberPieces, Low(x), 0 <= Number(x), Number(x) < 2 ^ U64
      PROVE  TunnelIDReads(x, Number(x))
  <2> DEFINE n == Number(x)
  <2>1. n \in Int /\ (IsDec(x) => x = dec(n) /\ x.dec = n) /\ (IsHex(x) => x = hex(n))
        /\ (IsDec(x) \/ IsHex(x))
    BY PieceNumber
  <2>2. n \in 0 .. MaxUint(U64) /\ U64 \in Nat
    BY <1>2, <2>1, LimitIs
  <2>3. Uint(n, U64) = n
    BY <2>2, HexadecimalRead
  <2> HIDE DEF n
  <2>4. CASE IsHex(x)
    <3>1. parseHexUint64(hex(n)) = Ok(n)
      BY <2>2, HexadecimalRead DEF parseHexUint64
    <3> QED
      BY <2>1, <2>3, <2>4, <3>1 DEF n, TunnelIDReads
  <2>5. CASE ~IsHex(x)
    <3>1. x = dec(n) /\ n < 2 ^ (U64 - 1) /\ 0 <= n
      BY <1>2, <2>1, <2>5 DEF n
    <3>2. 2 ^ (U64 - 1) \in Nat
      <4>1. U64 - 1 \in Nat
        BY WidthAssumption
      <4> QED
        BY <4>1, PowerPositive
    <3>3. Atoi(dec(n)) = Ok(n)
      BY <2>1, <3>1, <3>2, PieceKinds DEF Atoi
    <3> QED
      BY <2>3, <2>5, <3>1, <3>3 DEF n, TunnelIDReads
  <2> QED
    BY <2>4, <2>5
<1>3. ASSUME NEW n, NEW k
      PROVE  MatchText(TunnelIDWithMask(n, k))
             = Text("tun_id", IF k = 0 THEN <<hex(n)>> ELSE <<hex(n), hex(k)>>)
  BY DEF MatchText, TunnelIDWithMask, tunnelIDMatch_MarshalText, Masked
<1>4. ASSUME SameBase("tun_id", <<p>>) PROVE KeepsNumbers("tun_id", <<p>>)
  <2>1. Low(p)
    BY <1>4, OnePiece DEF SameBase
  <2>2. ASSUME 0 <= Number(p), Number(p) < 2 ^ U64
        PROVE  /\ parseMatch("tun_id", <<p>>) = Ok(TunnelIDWithMask(Number(p), 0))
               /\ MatchText(TunnelIDWithMask(Number(p), 0)) = Text("tun_id", <<hex(Number(p))>>)
    <3>1. TunnelIDReads(p, Number(p))
      BY <1>2, <2>1, <2>2
    <3>2. parseMatch("tun_id", <<p>>) = Ok(TunnelIDWithMask(Number(p), 0))
      BY <3>1, TunnelIDRead
    <3> QED
      BY <1>3, <3>2
  <2>3. Number(hex(Number(p))) = Number(p)
    BY PieceKinds
  <2> QED
    BY <1>1, <2>2, <2>3, OneKept
<1>5. ASSUME NEW q \in NumberPieces, SameBase("tun_id", <<p, q>>)
      PROVE  KeepsNumbers("tun_id", <<p, q>>)
  <2>1. Low(p) /\ Low(q)
    BY <1>5, TwoPieces DEF SameBase
  <2>2. ASSUME 0 <= Number(p), Number(p) < 2 ^ U64, 0 <= Number(q), Number(q) < 2 ^ U64
        PROVE  /\ parseMatch("tun_id", <<p, q>>) = Ok(TunnelIDWithMask(Number(p), Number(q)))
               /\ MatchText(TunnelIDWithMask(Number(p), Number(q)))
                    = Text("tun_id", IF Number(q) = 0 THEN <<hex(Number(p))>>
                                    ELSE <<hex(Number(p)), hex(Number(q))>>)
    <3>1. TunnelIDReads(p, Number(p)) /\ TunnelIDReads(q, Number(q))
      BY <1>2, <2>1, <2>2
    <3>2. parseMatch("tun_id", <<p, q>>) = Ok(TunnelIDWithMask(Number(p), Number(q)))
      BY <3>1, TunnelIDMaskRead
    <3> QED
      BY <1>3, <3>2
  <2>3. Number(hex(Number(p))) = Number(p) /\ Number(hex(Number(q))) = Number(q)
    BY PieceKinds
  <2> QED
    BY <1>1, <2>2, <2>3, TwoKept
<1> QED
  BY <1>4, <1>5
\* A masked port too large for 16 bits is refused.
LEMMA PortTooLarge ==
  ASSUME NEW key \in {"tp_src", "tp_dst"}, NEW n \in Int, NEW k \in Int,
         n >= 2 ^ U16 \/ k >= 2 ^ U16
  PROVE  ~parseMatch(key, <<hex(n), hex(k)>>).ok
<1> DEFINE v == <<hex(n), hex(k)>>
           max == MaxUint(U16)
           parts == [i \in DOMAIN v |-> parseHexUint64(v[i])]
           fits(i) == parts[i].ok /\ parts[i].val <= max
<1>1. ~Fail.ok
  BY DEF Fail
<1>2. ASSUME NEW m \in Int, m >= 2 ^ U16
      PROVE  ~(parseHexUint64(hex(m)).ok /\ parseHexUint64(hex(m)).val <= max)
  <2>1. ~(m <= max)
    BY <1>2, LimitIs
  <2>2. parseHexUint64(hex(m)) = Ok(m) \/ parseHexUint64(hex(m)) = Fail
    BY PieceKinds DEF parseHexUint64, ParseHex
  <2> QED
    BY <1>1, <2>1, <2>2, Succeeds
<1>3. parts[1] = parseHexUint64(hex(n)) /\ parts[2] = parseHexUint64(hex(k))
  BY TwoPieces
<1>4. ~(fits(1) /\ fits(2))
  BY <1>2, <1>3
<1>5. Len(v) = 2 /\ Len(v) # 1
  BY TwoPieces
<1>6. parsePort(key, v, max) = Fail
  <2> DEFINE srcdst == IF key = "tp_src" THEN "src" ELSE "dst"
             port == parseClampInt(v, max)
  <2>1. parsePort(key, v, max) =
          CASE Len(v) = 1 /\ port.ok ->
                 Ok(transportPortMatch(srcdst, Uint(port.val, U16), 0))
            [] Len(v) = 2 /\ fits(1) /\ fits(2) ->
                 Ok(transportPortMatch(srcdst, parts[1].val, parts[2].val))
            [] OTHER -> Fail
    BY DEF parsePort
  <2> HIDE DEF v, max, parts, fits, srcdst, port
  <2> QED
    BY <1>4, <1>5, <2>1
<1>7. parseMatch(key, v) = parsePort(key, v, max)
  BY DEF parseMatch
<1> QED
  BY <1>1, <1>6, <1>7

LEMMA PortKept ==
  ASSUME NEW key \in {"tp_src", "tp_dst"}, NEW p \in NumberPieces
  PROVE  /\ SameBase(key, <<p>>) => KeepsNumbers(key, <<p>>)
         /\ \A q \in NumberPieces :
              SameBase(key, <<p, q>>) => KeepsNumbers(key, <<p, q>>)
<1> DEFINE srcdst == IF key = "tp_src" THEN "src" ELSE "dst"
<1>1. /\ srcdst \in {"src", "dst"} /\ key = PortKey(srcdst)
      /\ NumberKeys[key] = U16 /\ 2 ^ U16 \in Int
  BY LimitIs DEF NumberKeys, PortKey
<1>2. ASSUME NEW n, NEW k
      PROVE  MatchText(transportPortMatch(srcdst, n, k))
             = Text(key, IF k = 0 THEN <<dec(n)>> ELSE <<hex(n), hex(k)>>)
  BY DEF MatchText, transportPortMatch, transportPortMatch_MarshalText,
     matchTransportPort
<1> HIDE DEF srcdst
<1>3. ASSUME SameBase(key, <<p>>) PROVE KeepsNumbers(key, <<p>>)
  <2>1. Number(p) \in Int /\ p = dec(Number(p))
    <3>1. ~IsHex(p)
      BY <1>3, OnePiece DEF SameBase
    <3> QED
      BY <3>1, PieceNumber
  <2>2. ASSUME 0 <= Number(p), Number(p) < 2 ^ U16
        PROVE  /\ parseMatch(key, <<p>>) = Ok(transportPortMatch(srcdst, Number(p), 0))
               /\ MatchText(transportPortMatch(srcdst, Number(p), 0)) = Text(key, <<p>>)
    <3>1. Number(p) \in 0 .. MaxUint(U16)
      BY <2>1, <2>2, LimitIs
    <3>2. parseMatch(key, <<dec(Number(p))>>) = Ok(transportPortMatch(srcdst, Number(p), 0))
      BY <1>1, <3>1, PortRead
    <3> QED
      BY <1>2, <2>1, <3>2
  <2>3. ASSUME Number(p) >= 2 ^ U16 PROVE ~parseMatch(key, <<p>>).ok
    <3> DEFINE max == MaxUint(U16)
    <3>1. ~parseClampInt(<<p>>, max).ok
      BY <2>1, <2>3, TooLarge
    <3>2. Len(<<p>>) = 1 /\ ~Fail.ok
      BY OnePiece DEF Fail
    <3>3. parseMatch(key, <<p>>) = parsePort(key, <<p>>, max)
      BY DEF parseMatch
    <3> HIDE DEF max
    <3>4. parsePort(key, <<p>>, max) = Fail
      BY <3>1, <3>2 DEF parsePort
    <3> QED
      BY <3>2, <3>3, <3>4
  <2> QED
    BY <1>1, <2>2, <2>3, OneKept
<1>4. ASSUME NEW q \in NumberPieces, SameBase(key, <<p, q>>)
      PROVE  KeepsNumbers(key, <<p, q>>)
  <2>1. /\ Number(p) \in Int /\ p = hex(Number(p))
        /\ Number(q) \in Int /\ q = hex(Number(q))
    <3>1. IsHex(p) /\ IsHex(q)
      BY <1>4, TwoPieces DEF SameBase
    <3> QED
      BY <3>1, PieceNumber
  <2>2. ASSUME 0 <= Number(p), Number(p) < 2 ^ U16, 0 <= Number(q), Number(q) < 2 ^ U16
        PROVE  /\ parseMatch(key, <<p, q>>)
                    = Ok(transportPortMatch(srcdst, Number(p), Number(q)))
               /\ \E x : /\ Number(x) = Number(p)
                        /\ MatchText(transportPortMatch(srcdst, Number(p), Number(q)))
                           = Text(key, IF Number(q) = 0 THEN <<x>> ELSE <<x, q>>)
    <3>1. Number(p) \in 0 .. MaxUint(U16) /\ Number(q) \in 0 .. MaxUint(U16)
      BY <2>1, <2>2, LimitIs
    <3>2. parseMatch(key, <<hex(Number(p)), hex(Number(q))>>)
          = Ok(transportPortMatch(srcdst, Number(p), Number(q)))
      BY <1>1, <3>1, PortRead
    <3>3. CASE Number(q) = 0
      BY <1>2, <2>1, <3>2, <3>3, PieceKinds
    <3>4. CASE Number(q) # 0
      BY <1>2, <2>1, <3>2, <3>4
    <3> QED
      BY <3>3, <3>4
  <2>3. ASSUME Number(p) >= 2 ^ U16 \/ Number(q) >= 2 ^ U16
        PROVE  ~parseMatch(key, <<p, q>>).ok
    <3>1. ~parseMatch(key, <<hex(Number(p)), hex(Number(q))>>).ok
      BY <2>1, <2>3, PortTooLarge
    <3> QED
      BY <2>1, <3>1
  <2> QED
    BY <1>1, <2>2, <2>3, TwoKept
<1> QED
  BY <1>3, <1>4

\* A text of numbers: one number, or two under a key that takes a mask.
NumberText(key, parts) ==
  /\ key \in DOMAIN NumberKeys
  /\ \/ \E p \in NumberPieces : parts = <<p>>
     \/ key \in MaskKeys /\ \E p, q \in NumberPieces : parts = <<p, q>>

\* Every number that fits its field, and every mask, survives being parsed and
\* marshalled; one that is too large for a clamped field is refused.
THEOREM NumbersAreKept ==
  ASSUME NEW key, NEW parts, NumberText(key, parts), SameBase(key, parts)
  PROVE  KeepsNumbers(key, parts)
<1>1. DOMAIN NumberKeys = {"icmp_type", "nw_proto", "ct_zone", "conj_id", "tp_src",
        "tp_dst", "dl_type", "dl_vlan", "vlan_tci", "ct_mark", "tun_id"}
  BY DEF NumberKeys
<1>2. ASSUME NEW p \in NumberPieces, parts = <<p>> PROVE KeepsNumbers(key, parts)
  <2>1. CASE key \in {"icmp_type", "nw_proto", "ct_zone", "conj_id"}
    BY <1>2, <2>1, ClampedKept
  <2>2. CASE key \in {"tp_src", "tp_dst"}
    BY <1>2, <2>2, PortKept
  <2>3. CASE key \in {"dl_type", "dl_vlan"}
    BY <1>2, <2>3, DataLinkTypeKept, VLANKept
  <2>4. CASE key \in {"vlan_tci", "ct_mark", "tun_id"}
    BY <1>2, <2>4, VLANTCIKept, CTMarkKept, TunnelIDKept
  <2> QED
    BY <1>1, <2>1, <2>2, <2>3, <2>4 DEF NumberText
<1>3. ASSUME NEW p \in NumberPieces, NEW q \in NumberPieces, parts = <<p, q>>,
             key \in MaskKeys
      PROVE  KeepsNumbers(key, parts)
  <2>1. CASE key \in {"tp_src", "tp_dst"}
    BY <1>3, <2>1, PortKept
  <2>2. CASE key \in {"vlan_tci", "ct_mark", "tun_id"}
    BY <1>3, <2>2, VLANTCIKept, CTMarkKept, TunnelIDKept
  <2> QED
    BY <1>3, <2>1, <2>2 DEF MaskKeys
<1> QED
  BY <1>2, <1>3 DEF NumberText

\* A match as its constructor returns it, from values of the types that its
\* arguments have: strings, addresses, flags of three letters and numbers of
\* their widths.
TypedMatch(m) ==
  \/ \E P : \E s \in Seq(P) : m = DataLinkSource(s) \/ m = DataLinkDestination(s)
  \/ \E s : \/ m = NetworkSource(s) \/ m = NetworkDestination(s)
            \/ m = IPv6Source(s) \/ m = IPv6Destination(s)
            \/ m = NeighborDiscoveryTarget(s)
            \/ m = ARPSourceProtocolAddress(s) \/ m = ARPTargetProtocolAddress(s)
  \/ \E a \in HardwareAddrs : \/ m = NeighborDiscoverySourceLinkLayer(a)
                              \/ m = NeighborDiscoveryTargetLinkLayer(a)
                              \/ m = ARPSourceHardwareAddress(a)
                              \/ m = ARPTargetHardwareAddress(a)
  \/ \E fl : /\ FourEach(fl) /\ ~Recut(fl)
             /\ m = ConnectionTrackingState(fl) \/ m = TCPFlags(fl)
  \/ \E n \in 0 .. MaxUint(U8) : m = NetworkProtocol(n) \/ m = ICMPType(n)
  \/ \E n \in 0 .. MaxUint(U16) : m = DataLinkType(n) \/ m = ConnectionTrackingZone(n)
  \/ \E n \in 0 .. MaxUint(U32) : m = ConjunctionID(n)
  \/ \E n \in Int : m = DataLinkVLAN(n)
  \/ \E n, k \in 0 .. MaxUint(U16) :
       \/ m = transportPortMatch("src", n, k) \/ m = transportPortMatch("dst", n, k)
       \/ m = VLANTCI(n, k)
  \/ \E n, k \in 0 .. MaxUint(U32) : m = ConnectionTrackingMark(n, k)
  \/ \E n, k \in 0 .. MaxUint(U64) : m = TunnelIDWithMask(n, k)

\* Every such match that marshals is read back by the parser as a match with
\* the same text.
THEOREM MatchesRoundTrip == ASSUME NEW m, TypedMatch(m) PROVE RoundTrips(m)
<1>1. ASSUME NEW n \in 0 .. MaxUint(U8)
      PROVE  RoundTrips(NetworkProtocol(n)) /\ RoundTrips(ICMPType(n))
  BY ClampedWritten, WrittenRoundTrips
<1>2. ASSUME NEW n \in 0 .. MaxUint(U16)
      PROVE  RoundTrips(DataLinkType(n)) /\ RoundTrips(ConnectionTrackingZone(n))
  BY ClampedWritten, DataLinkTypeWritten, WrittenRoundTrips
<1>3. ASSUME NEW n \in 0 .. MaxUint(U32) PROVE RoundTrips(ConjunctionID(n))
  BY ClampedWritten, WrittenRoundTrips
<1>4. ASSUME NEW n \in 0 .. MaxUint(U16), NEW k \in 0 .. MaxUint(U16)
      PROVE  /\ RoundTrips(transportPortMatch("src", n, k))
             /\ RoundTrips(transportPortMatch("dst", n, k))
             /\ RoundTrips(VLANTCI(n, k))
  BY PortRoundTrips, VLANTCIRoundTrips
<1> QED
  BY <1>1, <1>2, <1>3, <1>4, DataLinkRoundTrips, IPRoundTrips, HardwareRoundTrips,
     FlagsRead, VLANRoundTrips, CTMarkRoundTrips, TunnelIDRoundTrips DEF TypedMatch

----------------------------------------------------------------------------
(* Fields of a flow's text.                                                *)

\* A sequence, and what is in it.
IsSequence(s) == \E S : s \in Seq(S)
Elements(s)   == {s[i] : i \in DOMAIN s}

LEMMA Joins ==
  ASSUME NEW s, NEW t, IsSequence(s), IsSequence(t)
  PROVE  IsSequence(s \o t) /\ Elements(s \o t) = Elements(s) \cup Elements(t)
<1>1. PICK S : s \in Seq(S)
  BY DEF IsSequence
<1>2. PICK T : t \in Seq(T)
  BY DEF IsSequence
<1> DEFINE U == S \cup T
<1>3. s \in Seq(U) /\ t \in Seq(U)
  <2>1. S \subseteq U /\ T \subseteq U
    OBVIOUS
  <2>2. ASSUME NEW X, NEW x \in Seq(X), X \subseteq U PROVE x \in Seq(U)
    BY <2>2, SeqDef
  <2> QED
    BY <1>1, <1>2, <2>1, <2>2
<1> HIDE DEF U
<1>4. s \o t \in Seq(U)
  BY <1>3
<1>5. /\ Len(s) \in Nat /\ Len(t) \in Nat /\ DOMAIN s = 1 .. Len(s)
      /\ DOMAIN t = 1 .. Len(t) /\ DOMAIN (s \o t) = 1 .. Len(s) + Len(t)
  BY <1>3
<1>6. ASSUME NEW i \in DOMAIN s PROVE i \in DOMAIN (s \o t) /\ (s \o t)[i] = s[i]
  BY <1>3, <1>5
<1>7. ASSUME NEW i \in DOMAIN t
      PROVE  Len(s) + i \in DOMAIN (s \o t) /\ (s \o t)[Len(s) + i] = t[i]
  BY <1>3, <1>5
<1>8. ASSUME NEW i \in DOMAIN (s \o t) PROVE (s \o t)[i] \in Elements(s) \cup Elements(t)
  <2>1. CASE i <= Len(s)
    BY <1>5, <1>6, <2>1 DEF Elements
  <2>2. CASE i > Len(s)
    <3>1. i - Len(s) \in DOMAIN t /\ Len(s) + (i - Len(s)) = i
      BY <1>5, <2>2
    <3>2. (s \o t)[i] = t[i - Len(s)]
      BY <1>7, <3>1
    <3> QED
      BY <3>1, <3>2 DEF Elements
  <2> QED
    BY <1>5, <2>1, <2>2
<1>9. IsSequence(s \o t)
  BY <1>4 DEF IsSequence
<1>10. Elements(s \o t) \subseteq Elements(s) \cup Elements(t)
  BY <1>8, Zenon DEF Elements
<1>11. Elements(s) \cup Elements(t) \subseteq Elements(s \o t)
  BY <1>6, <1>7, Zenon DEF Elements
<1> QED
  BY <1>9, <1>10, <1>11

LEMMA ShortSequences ==
  /\ IsSequence(<<>>) /\ Elements(<<>>) = {}
  /\ \A x : IsSequence(<<x>>) /\ Elements(<<x>>) = {x}
  /\ \A x, y : IsSequence(<<x, y>>) /\ Elements(<<x, y>>) = {x, y}
<1>1. IsSequence(<<>>) /\ Elements(<<>>) = {}
  <2>1. <<>> \in Seq({})
    OBVIOUS
  <2>2. DOMAIN <<>> = {}
    OBVIOUS
  <2> QED
    BY <2>1, <2>2 DEF IsSequence, Elements
<1>2. ASSUME NEW x PROVE IsSequence(<<x>>) /\ Elements(<<x>>) = {x}
  <2>1. <<x>> \in Seq({x}) /\ DOMAIN <<x>> = {1} /\ <<x>>[1] = x
    OBVIOUS
  <2> QED
    BY <2>1 DEF IsSequence, Elements
<1>3. ASSUME NEW x, NEW y PROVE IsSequence(<<x, y>>) /\ Elements(<<x, y>>) = {x, y}
  <2>1. <<x, y>> \in Seq({x, y}) /\ DOMAIN <<x, y>> = {1, 2}
        /\ <<x, y>>[1] = x /\ <<x, y>>[2] = y
    OBVIOUS
  <2> QED
    BY <2>1 DEF IsSequence, Elements
<1> QED
  BY <1>1, <1>2, <1>3

LEMMA ContainsIs ==
  ASSUME NEW s, IsSequence(s), NEW e PROVE Contains(s, e) <=> e \in Elements(s)
<1>1. DOMAIN s = 1 .. Len(s)
  BY DEF IsSequence
<1> QED
  BY <1>1 DEF Contains, Elements

\* A field is its key and its value, and no word.
LEMMA FieldIs ==
  ASSUME NEW k, NEW p
  PROVE  Field(k, p).key = k /\ Field(k, p).parts = p /\ "key" \in DOMAIN Field(k, p)
BY DEF Field

LEMMA WordIs == ASSUME NEW w PROVE Word(w).word = w /\ "key" \notin DOMAIN Word(w)
BY DEF Word
----------------------------------------------------------------------------
(* Deleting a flow by its MatchFlow.                                       *)

\* The fields of a flow that are not its matches.
FlowKeys == {"priority", "in_port", "table", "idle_timeout", "cookie"}

\* Matches that can be marshalled, under keys of their own.
Marshals(m) == MatchText(m).ok /\ MatchText(m).val.key \notin FlowKeys
MatchField(m) == Field(MatchText(m).val.key, MatchText(m).val.parts)

\* A flow as a program may fill it in: a table and a cookie that are unsigned,
\* matches that can be marshalled.
IsFlow(f) ==
  /\ f.table \in Nat /\ f.cookie \in Nat
  /\ IsSequence(f.matches) /\ \A i \in DOMAIN f.matches : Marshals(f.matches[i])

Protocols(f)  == IF f.protocol # "" THEN {Word(f.protocol)} ELSE {}
InPortPiece(f) == IF f.inPort = PortLOCAL THEN atom("LOCAL") ELSE dec(f.inPort)
InPorts(f)    == IF f.inPort = 0 THEN {} ELSE {Field("in_port", <<InPortPiece(f)>>)}
MatchesOf(f)  == {MatchField(f.matches[i]) : i \in DOMAIN f.matches}

LEMMA MatchesMarshalled ==
  ASSUME NEW f, IsSequence(f.matches), \A i \in DOMAIN f.matches : Marshals(f.matches[i])
  PROVE  /\ marshalMatches(f).ok
         /\ IsSequence(MatchFields(marshalMatches(f).val))
         /\ Elements(MatchFields(marshalMatches(f).val)) = MatchesOf(f)
<1> DEFINE ms == f.matches
           texts == [i \in DOMAIN ms |-> MatchText(ms[i])]
           vals  == [i \in DOMAIN ms |-> MatchText(ms[i]).val]
           fds   == [i \in DOMAIN ms |-> MatchField(ms[i])]
<1>1. \A i \in DOMAIN texts : texts[i].ok
  BY DEF Marshals
<1>2. [i \in DOMAIN texts |-> texts[i].val] = vals
  OBVIOUS
<1>3. marshalMatches(f) = Ok(vals)
  BY <1>1, <1>2 DEF marshalMatches, marshalFunctions
<1>4. MatchFields(vals) = fds
  BY DEF MatchFields, MatchField
<1>5. marshalMatches(f).ok /\ MatchFields(marshalMatches(f).val) = fds
  BY <1>3, <1>4, Succeeds
<1>6. DOMAIN ms = 1 .. Len(ms) /\ Len(ms) \in Nat
  BY DEF IsSequence
<1>7. fds \in [1 .. Len(ms) -> Elements(fds)]
  BY <1>6 DEF Elements
<1>8. IsSequence(fds)
  <2> HIDE DEF fds, ms
  <2>1. fds \in Seq(Elements(fds))
    BY <1>6, <1>7, SeqDef
  <2> QED
    BY <2>1 DEF IsSequence
<1>9. Elements(fds) = MatchesOf(f)
  BY DEF Elements, MatchesOf
<1> QED
  BY <1>5, <1>8, <1>9

LEMMA FieldsOfFlow ==
  ASSUME NEW f
  PROVE  /\ IsSequence(ProtocolField(f)) /\ Elements(ProtocolField(f)) = Protocols(f)
         /\ IsSequence(InPortField(f)) /\ Elements(InPortField(f)) = InPorts(f)
BY ShortSequences DEF ProtocolField, Protocols, InPortField, InPorts, InPortPiece

\* What the text of a flow holds.
LEMMA FlowTextHolds ==
  ASSUME NEW f, IsFlow(f), Flow_MarshalText(f).ok
  PROVE  /\ IsSequence(Flow_MarshalText(f).val.fields)
         /\ Elements(Flow_MarshalText(f).val.fields) =
              {Field("priority", <<dec(f.priority)>>)}
              \cup Protocols(f) \cup InPorts(f) \cup MatchesOf(f)
              \cup {Field("table", <<dec(f.table)>>),
                    Field("idle_timeout", <<dec(f.idleTimeout)>>)}
              \cup (IF f.cookie > 0 THEN {Field("cookie", <<hex(f.cookie)>>)} ELSE {})
<1> DEFINE ms == marshalMatches(f).val
           a == <<Field("priority", <<dec(f.priority)>>)>>
           b == a \o ProtocolField(f)
           c == b \o InPortField(f)
           d == c \o MatchFields(ms)
           t == <<Field("table", <<dec(f.table)>>),
                  Field("idle_timeout", <<dec(f.idleTimeout)>>)>>
           e == d \o t
           k == IF f.cookie > 0 THEN <<Field("cookie", <<hex(f.cookie)>>)>> ELSE <<>>
<1>1. Flow_MarshalText(f).val.fields = e \o k
  <2>1. ~Fail.ok
    BY DEF Fail
  <2>2. Flow_MarshalText(f) = Ok([fields |-> e \o k,
                                  actions |-> <<JoinActions(marshalActions(f).val)>>])
    BY <2>1 DEF Flow_MarshalText
  <2> HIDE DEF e, k
  <2>3. Flow_MarshalText(f).val = [fields |-> e \o k,
                                  actions |-> <<JoinActions(marshalActions(f).val)>>]
    BY <2>2, Succeeds
  <2> QED
    BY <2>3
<1>2. IsSequence(MatchFields(ms)) /\ Elements(MatchFields(ms)) = MatchesOf(f)
  BY MatchesMarshalled DEF IsFlow
<1>3. /\ IsSequence(a) /\ Elements(a) = {Field("priority", <<dec(f.priority)>>)}
      /\ IsSequence(t) /\ Elements(t) = {Field("table", <<dec(f.table)>>),
                                         Field("idle_timeout", <<dec(f.idleTimeout)>>)}
      /\ IsSequence(k)
      /\ Elements(k) = IF f.cookie > 0 THEN {Field("cookie", <<hex(f.cookie)>>)} ELSE {}
  BY ShortSequences
<1> HIDE DEF a, k, t
<1>4. IsSequence(b) /\ Elements(b) = Elements(a) \cup Protocols(f)
  BY <1>3, FieldsOfFlow, Joins
<1> HIDE DEF b
<1>5. IsSequence(c) /\ Elements(c) = Elements(b) \cup InPorts(f)
  BY <1>4, FieldsOfFlow, Joins
<1> HIDE DEF c, ms
<1>6. IsSequence(d) /\ Elements(d) = Elements(c) \cup MatchesOf(f)
  BY <1>2, <1>5, Joins
<1> HIDE DEF d
<1>7. IsSequence(e) /\ Elements(e) = Elements(d) \cup Elements(t)
  BY <1>3, <1>6, Joins
<1> HIDE DEF e
<1>8. IsSequence(e \o k) /\ Elements(e \o k) = Elements(e) \cup Elements(k)
  BY <1>3, <1>7, Joins
<1> QED
  BY <1>1, <1>3, <1>4, <1>5, <1>6, <1>7, <1>8

\* What is deleted by: the cookie with all its bits, the table.
LEMMA MatchFlowHolds ==
  ASSUME NEW f, IsFlow(f)
  PROVE  LET del == MatchFlow_MarshalText(Flow_MatchFlow(f)).val IN
         Elements(del) =
           Protocols(f) \cup InPorts(f) \cup MatchesOf(f)
           \cup (IF f.cookie = 0 THEN {} ELSE {Field("cookie", <<hex(f.cookie), dec(-1)>>)})
           \cup {Field("table", <<dec(f.table)>>)}
<1> DEFINE m == Flow_MatchFlow(f)
           ms == marshalMatches(m).val
           b == ProtocolField(m) \o InPortField(m)
           d == b \o MatchFields(ms)
           k == IF m.cookie = 0 THEN <<>>
                ELSE <<Field("cookie", <<hex(m.cookie),
                         IF m.cookieMask = 0 THEN dec(-1) ELSE hex(m.cookieMask)>>)>>
           e == d \o k
           t == IF m.table = AnyTable THEN <<>> ELSE <<Field("table", <<dec(m.table)>>)>>
<1>1. /\ m.protocol = f.protocol /\ m.inPort = f.inPort /\ m.matches = f.matches
      /\ m.table = f.table /\ m.cookie = f.cookie /\ m.cookieMask = 0
  BY DEF Flow_MatchFlow, MatchFlow
<1>2. /\ marshalMatches(m).ok
      /\ IsSequence(MatchFields(ms)) /\ Elements(MatchFields(ms)) = MatchesOf(f)
  <2>1. IsSequence(m.matches) /\ \A i \in DOMAIN m.matches : Marshals(m.matches[i])
    BY <1>1 DEF IsFlow
  <2>2. MatchesOf(m) = MatchesOf(f)
    BY <1>1 DEF MatchesOf
  <2> HIDE DEF m
  <2> QED
    BY <2>1, <2>2, MatchesMarshalled
<1>3. Protocols(m) = Protocols(f) /\ InPorts(m) = InPorts(f)
  BY <1>1 DEF Protocols, InPorts, InPortPiece
<1>4. t = <<Field("table", <<dec(f.table)>>)>>
  BY <1>1 DEF AnyTable, IsFlow
<1>5. k = IF f.cookie = 0 THEN <<>> ELSE <<Field("cookie", <<hex(f.cookie), dec(-1)>>)>>
  BY <1>1
<1>6. /\ IsSequence(t) /\ Elements(t) = {Field("table", <<dec(f.table)>>)}
      /\ IsSequence(k)
      /\ Elements(k) = IF f.cookie = 0 THEN {}
                       ELSE {Field("cookie", <<hex(f.cookie), dec(-1)>>)}
  BY <1>4, <1>5, ShortSequences
<1> HIDE DEF k, t, m
<1>7. IsSequence(b) /\ Elements(b) = Protocols(f) \cup InPorts(f)
  BY <1>3, FieldsOfFlow, Joins
<1> HIDE DEF b, ms
<1>8. IsSequence(d) /\ Elements(d) = Elements(b) \cup MatchesOf(f)
  BY <1>2, <1>7, Joins
<1> HIDE DEF d
<1>9. IsSequence(e) /\ Elements(e) = Elements(d) \cup Elements(k)
  BY <1>6, <1>8, Joins
<1> HIDE DEF e
<1>10. IsSequence(e \o t) /\ Elements(e \o t) = Elements(e) \cup Elements(t)
  BY <1>6, <1>9, Joins
<1>11. e \o t # <<>>
  <2>1. Elements(e \o t) # {}
    BY <1>6, <1>10
  <2> QED
    BY <2>1, ShortSequences
<1>12. MatchFlow_MarshalText(m).val = e \o t
  <2>1. MatchFlow_MarshalText(m) = Ok(e \o t)
    BY <1>2, <1>11 DEF MatchFlow_MarshalText, e, d, b, ms, k, t
  <2> QED
    BY <2>1, Succeeds
<1> QED
  BY <1>6, <1>7, <1>8, <1>9, <1>10, <1>12 DEF m
\* Which field of a flow's text has a key.
LEMMA FieldByKey ==
  ASSUME NEW f, IsFlow(f), Flow_MarshalText(f).ok,
         NEW y \in Elements(Flow_MarshalText(f).val.fields)
  PROVE  /\ "key" \notin DOMAIN y => f.protocol # "" /\ y = Word(f.protocol)
         /\ "key" \in DOMAIN y =>
              /\ y.key = "table" => y.parts = <<dec(f.table)>>
              /\ y.key = "cookie" => f.cookie > 0 /\ y.parts = <<hex(f.cookie)>>
              /\ y.key = "in_port" => f.inPort # 0 /\ y.parts = <<InPortPiece(f)>>
              /\ y.key \notin FlowKeys => y \in MatchesOf(f)
<1>1. \/ y = Field("priority", <<dec(f.priority)>>)
      \/ y \in Protocols(f)
      \/ y \in InPorts(f)
      \/ y \in MatchesOf(f)
      \/ y = Field("table", <<dec(f.table)>>)
      \/ y = Field("idle_timeout", <<dec(f.idleTimeout)>>)
      \/ f.cookie > 0 /\ y = Field("cookie", <<hex(f.cookie)>>)
  BY FlowTextHolds
<1>2. CASE y = Field("priority", <<dec(f.priority)>>)
  <2>1. "key" \in DOMAIN y /\ y.key = "priority" /\ y.parts = <<dec(f.priority)>>
    BY <1>2, FieldIs
  <2> QED
    BY <2>1 DEF FlowKeys
<1>3. CASE y \in Protocols(f)
  BY <1>3, FieldIs, WordIs DEF Protocols
<1>4. CASE y \in InPorts(f)
  <2>1. /\ f.inPort # 0 /\ "key" \in DOMAIN y
        /\ y.key = "in_port" /\ y.parts = <<InPortPiece(f)>>
    BY <1>4, FieldIs DEF InPorts
  <2> QED
    BY <2>1 DEF FlowKeys
<1>5. CASE y \in MatchesOf(f)
  <2>1. "key" \in DOMAIN y /\ y.key \notin FlowKeys
    BY <1>5, FieldIs DEF MatchesOf, MatchField, IsFlow, Marshals
  <2> QED
    BY <1>5, <2>1 DEF FlowKeys
<1>6. CASE y = Field("table", <<dec(f.table)>>)
  <2>1. "key" \in DOMAIN y /\ y.key = "table" /\ y.parts = <<dec(f.table)>>
    BY <1>6, FieldIs
  <2> QED
    BY <2>1 DEF FlowKeys
<1>7. CASE y = Field("idle_timeout", <<dec(f.idleTimeout)>>)
  <2>1. "key" \in DOMAIN y /\ y.key = "idle_timeout" /\ y.parts = <<dec(f.idleTimeout)>>
    BY <1>7, FieldIs
  <2> QED
    BY <2>1 DEF FlowKeys
<1>8. CASE f.cookie > 0 /\ y = Field("cookie", <<hex(f.cookie)>>)
  <2>1. "key" \in DOMAIN y /\ y.key = "cookie" /\ y.parts = <<hex(f.cookie)>>
    BY <1>8, FieldIs
  <2> QED
    BY <1>8, <2>1 DEF FlowKeys
<1> QED
  BY <1>1, <1>2, <1>3, <1>4, <1>5, <1>6, <1>7, <1>8

\* A field given to del-flows, and the fields of a flow.
Meets(x, F) ==
  IF "key" \in DOMAIN x /\ x.key = "cookie"
  THEN x.parts[2] = dec(-1) /\ Field("cookie", <<x.parts[1]>>) \in F
  ELSE x \in F

LEMMA SelectsIs ==
  ASSUME NEW fields, NEW text, IsSequence(text.fields)
  PROVE  Selects(fields, text)
         <=> \A x \in Elements(fields) : Meets(x, Elements(text.fields))
<1>1. \A e : Contains(text.fields, e) <=> e \in Elements(text.fields)
  BY ContainsIs
<1>2. Selects(fields, text)
      <=> \A i \in DOMAIN fields : Meets(fields[i], Elements(text.fields))
  BY <1>1 DEF Selects, Meets
<1>3. (\A i \in DOMAIN fields : Meets(fields[i], Elements(text.fields)))
      <=> \A x \in Elements(fields) : Meets(x, Elements(text.fields))
  BY DEF Elements
<1> QED
  BY <1>2, <1>3

LEMMA PiecesDiffer ==
  /\ \A a, b : dec(a) = dec(b) => a = b
  /\ \A a, b : hex(a) = hex(b) => a = b
  /\ \A a, b : dec(a) # atom(b)
  /\ \A a, b : <<a>> = <<b>> => a = b
<1>1. ASSUME NEW a, NEW b, dec(a) = dec(b) PROVE a = b
  <2>1. dec(a).dec = a /\ dec(b).dec = b
    BY DEF dec
  <2> QED
    BY <1>1, <2>1
<1>2. ASSUME NEW a, NEW b, hex(a) = hex(b) PROVE a = b
  <2>1. hex(a).hex = a /\ hex(b).hex = b
    BY DEF hex
  <2> QED
    BY <1>2, <2>1
<1>3. ASSUME NEW a, NEW b PROVE dec(a) # atom(b)
  <2>1. "dec" \in DOMAIN dec(a) /\ "dec" \notin DOMAIN atom(b)
    BY DEF dec, atom
  <2> QED
    BY <2>1
<1>4. ASSUME NEW a, NEW b, <<a>> = <<b>> PROVE a = b
  BY <1>4
<1> QED
  BY <1>1, <1>2, <1>3, <1>4

\* Deleting by its MatchFlow deletes a flow, and of the others only those that
\* have its table, its cookie, its protocol, its port and the text of each of
\* its matches, as far as it has them.
THEOREM DeletesOnlyItsOwn ==
  ASSUME NEW f, IsFlow(f), Flow_MarshalText(f).ok,
         NEW g, IsFlow(g), Flow_MarshalText(g).ok
  PROVE  /\ Deletes(f, f)
         /\ Deletes(f, g) =>
              /\ g.table = f.table /\ f.cookie \in {0, g.cookie}
              /\ f.protocol \in {"", g.protocol} /\ f.inPort \in {0, g.inPort}
              /\ MatchesOf(f) \subseteq MatchesOf(g)
<1> DEFINE del == MatchFlow_MarshalText(Flow_MatchFlow(f)).val
           F == Elements(Flow_MarshalText(f).val.fields)
           G == Elements(Flow_MarshalText(g).val.fields)
<1>1. Elements(del) =
        Protocols(f) \cup InPorts(f) \cup MatchesOf(f)
        \cup (IF f.cookie = 0 THEN {} ELSE {Field("cookie", <<hex(f.cookie), dec(-1)>>)})
        \cup {Field("table", <<dec(f.table)>>)}
  BY MatchFlowHolds
<1>2. F = {Field("priority", <<dec(f.priority)>>)}
          \cup Protocols(f) \cup InPorts(f) \cup MatchesOf(f)
          \cup {Field("table", <<dec(f.table)>>),
                Field("idle_timeout", <<dec(f.idleTimeout)>>)}
          \cup (IF f.cookie > 0 THEN {Field("cookie", <<hex(f.cookie)>>)} ELSE {})
  BY FlowTextHolds
<1>3. /\ Deletes(f, f) <=> \A x \in Elements(del) : Meets(x, F)
      /\ Deletes(f, g) <=> \A x \in Elements(del) : Meets(x, G)
  <2>1. IsSequence(Flow_MarshalText(f).val.fields) /\ IsSequence(Flow_MarshalText(g).val.fields)
    BY FlowTextHolds
  <2> QED
    BY <2>1, SelectsIs DEF Deletes
<1>4. f.cookie \in Nat /\ g.cookie \in Nat
  BY DEF IsFlow
<1> HIDE DEF del, F
<1>6. ASSUME NEW x \in Elements(del), NEW S PROVE
        \/ x \in Protocols(f) \cup InPorts(f) \cup MatchesOf(f)
                 \cup {Field("table", <<dec(f.table)>>)} /\ (Meets(x, S) <=> x \in S)
        \/ /\ f.cookie # 0 /\ x = Field("cookie", <<hex(f.cookie), dec(-1)>>)
           /\ Meets(x, S) <=> Field("cookie", <<hex(f.cookie)>>) \in S
  <2>1. CASE f.cookie # 0 /\ x = Field("cookie", <<hex(f.cookie), dec(-1)>>)
    <3>1. x.parts[1] = hex(f.cookie) /\ x.parts[2] = dec(-1) /\ x.key = "cookie"
          /\ "key" \in DOMAIN x
      BY <2>1, FieldIs, WordIs, TwoPieces
    <3> QED
      BY <2>1, <3>1 DEF Meets
  <2>2. CASE x \in Protocols(f)
    BY <2>2, FieldIs, WordIs DEF Protocols, Meets
  <2>3. CASE x \in InPorts(f)
    BY <2>3, FieldIs, WordIs DEF InPorts, Meets
  <2>4. CASE x \in MatchesOf(f)
    BY <2>4, FieldIs, WordIs DEF MatchesOf, MatchField, IsFlow, Marshals, FlowKeys, Meets
  <2>5. CASE x = Field("table", <<dec(f.table)>>)
    BY <2>5, FieldIs, WordIs DEF Meets
  <2> QED
    BY <1>1, <2>1, <2>2, <2>3, <2>4, <2>5
<1>7. Deletes(f, f)
  <2>1. SUFFICES ASSUME NEW x \in Elements(del) PROVE Meets(x, F)
    BY <1>3
  <2>2. f.cookie # 0 => f.cookie > 0
    BY <1>4
  <2> QED
    BY <1>2, <1>6, <2>2
<1>8. ASSUME Deletes(f, g)
      PROVE  /\ g.table = f.table /\ f.cookie \in {0, g.cookie}
             /\ f.protocol \in {"", g.protocol} /\ f.inPort \in {0, g.inPort}
             /\ MatchesOf(f) \subseteq MatchesOf(g)
  <2>1. \A x \in Elements(del) : Meets(x, G)
    BY <1>3, <1>8
  <2> HIDE DEF G
  <2>2. Protocols(f) \cup InPorts(f) \cup MatchesOf(f)
        \cup {Field("table", <<dec(f.table)>>)} \subseteq G
    <3>1. SUFFICES ASSUME NEW x \in Protocols(f) \cup InPorts(f) \cup MatchesOf(f)
                                    \cup {Field("table", <<dec(f.table)>>)}
                   PROVE  x \in G
      OBVIOUS
    <3>2. x \in Elements(del) /\ ~("key" \in DOMAIN x /\ x.key = "cookie")
      <4>1. CASE x \in Protocols(f)
        BY <1>1, <4>1, FieldIs, WordIs DEF Protocols
      <4>2. CASE x \in InPorts(f)
        BY <1>1, <4>2, FieldIs, WordIs DEF InPorts
      <4>3. CASE x \in MatchesOf(f)
        BY <1>1, <4>3, FieldIs, WordIs DEF MatchesOf, MatchField, IsFlow, Marshals, FlowKeys
      <4>4. CASE x = Field("table", <<dec(f.table)>>)
        BY <1>1, <4>4, FieldIs, WordIs
      <4> QED
        BY <4>1, <4>2, <4>3, <4>4
    <3> QED
      BY <2>1, <3>2 DEF Meets
  <2>3. f.cookie # 0 => Field("cookie", <<hex(f.cookie)>>) \in G
    <3>1. SUFFICES ASSUME f.cookie # 0 PROVE Field("cookie", <<hex(f.cookie)>>) \in G
      OBVIOUS
    <3> DEFINE x == Field("cookie", <<hex(f.cookie), dec(-1)>>)
    <3>2. x \in Elements(del)
      BY <1>1, <3>1
    <3>3. x.parts[1] = hex(f.cookie) /\ x.key = "cookie" /\ "key" \in DOMAIN x
      BY FieldIs, WordIs, TwoPieces
    <3> HIDE DEF x
    <3> QED
      BY <2>1, <3>2, <3>3 DEF Meets
  <2>4. g.table = f.table
    <3> DEFINE y == Field("table", <<dec(f.table)>>)
    <3>1. y \in G /\ "key" \in DOMAIN y /\ y.key = "table" /\ y.parts = <<dec(f.table)>>
      BY <2>2, FieldIs
    <3> HIDE DEF y
    <3>2. <<dec(f.table)>> = <<dec(g.table)>>
      BY <3>1, FieldByKey DEF G
    <3> QED
      BY <3>2, PiecesDiffer
  <2>5. f.cookie \in {0, g.cookie}
    <3> DEFINE y == Field("cookie", <<hex(f.cookie)>>)
    <3>1. "key" \in DOMAIN y /\ y.key = "cookie" /\ y.parts = <<hex(f.cookie)>>
      BY FieldIs
    <3>2. f.cookie # 0 => y \in G
      BY <2>3
    <3> HIDE DEF y
    <3>3. f.cookie # 0 => <<hex(f.cookie)>> = <<hex(g.cookie)>>
      BY <3>1, <3>2, FieldByKey DEF G
    <3> QED
      BY <3>3, PiecesDiffer
  <2>6. f.protocol \in {"", g.protocol}
    <3>1. f.protocol # "" => Word(f.protocol) \in G
      BY <2>2 DEF Protocols
    <3>2. f.protocol # "" => Word(f.protocol) = Word(g.protocol)
      BY <3>1, FieldByKey, FieldIs, WordIs DEF G
    <3>3. Word(f.protocol).word = f.protocol /\ Word(g.protocol).word = g.protocol
      BY WordIs
    <3> QED
      BY <3>2, <3>3
  <2>7. f.inPort \in {0, g.inPort}
    <3> DEFINE y == Field("in_port", <<InPortPiece(f)>>)
    <3>1. "key" \in DOMAIN y /\ y.key = "in_port" /\ y.parts = <<InPortPiece(f)>>
      BY FieldIs
    <3>2. f.inPort # 0 => y \in G
      BY <2>2 DEF InPorts
    <3> HIDE DEF y
    <3>3. f.inPort # 0 => <<InPortPiece(f)>> = <<InPortPiece(g)>>
      BY <3>1, <3>2, FieldByKey DEF G
    <3>4. f.inPort # 0 => InPortPiece(f) = InPortPiece(g)
      BY <3>3, PiecesDiffer
    <3> QED
      BY <3>4, PiecesDiffer DEF InPortPiece
  <2>8. ASSUME NEW x \in MatchesOf(f) PROVE x \in MatchesOf(g)
    <3>1. "key" \in DOMAIN x /\ x.key \notin FlowKeys
      BY FieldIs, WordIs DEF MatchesOf, MatchField, IsFlow, Marshals
    <3>2. x \in G
      BY <2>2
    <3> QED
      BY <3>1, <3>2, FieldByKey DEF G
  <2> QED
    BY <2>4, <2>5, <2>6, <2>7, <2>8
<1> QED
  BY <1>7, <1>8
\* The matches and the actions of the flows that are asked about, and their
\* texts.
LEMMA SampleMatches ==
  ASSUME NEW m \in {TransportDestinationPort(1), DataLinkSource(<<atom("MAC")>>)}
  PROVE  /\ Marshals(m)
         /\ \A n \in {TransportDestinationPort(1), DataLinkSource(<<atom("MAC")>>)} :
              MatchField(m) = MatchField(n) => m = n
<1>1. MatchText(TransportDestinationPort(1)) = Text("tp_dst", <<dec(1)>>)
  BY DEF MatchText, TransportDestinationPort, transportPortMatch,
     transportPortMatch_MarshalText, matchTransportPort
<1>2. \E p : MatchText(DataLinkSource(<<atom("MAC")>>)) = Text("dl_src", p)
  <2> DEFINE s == <<atom("MAC")>>
             d == DataLinkSource(s)
             macs == [i \in DOMAIN d.addr |-> ParseMAC(d.addr[i])]
  <2>1. MatchText(d) = dataLinkMatch_MarshalText(d)
    BY DEF MatchText, DataLinkSource, dataLinkMatch
  <2>2. d.addr = s /\ d.srcdst = "src"
    BY DEF DataLinkSource, dataLinkMatch
  <2>3. Len(s) = 1 /\ DOMAIN s = {1} /\ s[1] = atom("MAC")
    OBVIOUS
  <2>4. ParseMAC(atom("MAC")) = Ok([hw |-> "mac", len |-> 6])
    BY DEF ParseMAC, IsAtom, atom, MACs
  <2>5. ParseMAC(atom("MAC")).ok /\ ParseMAC(atom("MAC")).val.len = 6
    BY <2>4, Succeeds
  <2> HIDE DEF s
  <2>6. Len(d.addr) <= 2 /\ \A i \in DOMAIN macs : macs[i].ok /\ macs[i].val.len = 6
    BY <2>2, <2>3, <2>5
  <2>7. dataLinkMatch_MarshalText(d)
        = Text("dl_src", [i \in DOMAIN macs |-> HwString(macs[i].val)])
    <3> HIDE DEF d
    <3> QED
      BY <2>2, <2>6 DEF dataLinkMatch_MarshalText
  <2> QED
    BY <2>1, <2>7 DEF s
<1>3. \A k, p : Text(k, p).ok /\ Text(k, p).val.key = k
  BY DEF Text, Ok
<1>4. /\ MatchText(TransportDestinationPort(1)).ok
      /\ MatchText(TransportDestinationPort(1)).val.key = "tp_dst"
  BY <1>1, <1>3
<1>5. /\ MatchText(DataLinkSource(<<atom("MAC")>>)).ok
      /\ MatchText(DataLinkSource(<<atom("MAC")>>)).val.key = "dl_src"
  BY <1>2, <1>3
<1>6. \A n : MatchField(n).key = MatchText(n).val.key
  BY FieldIs DEF MatchField
<1> QED
  BY <1>4, <1>5, <1>6 DEF Marshals, FlowKeys

LEMMA SampleFlowMatches ==
  ASSUME NEW ms \in FlowMatches
  PROVE  /\ IsSequence(ms)
         /\ \A i \in DOMAIN ms :
              ms[i] \in {TransportDestinationPort(1), DataLinkSource(<<atom("MAC")>>)}
<1> DEFINE T == TransportDestinationPort(1)
           D == DataLinkSource(<<atom("MAC")>>)
<1>1. ms \in {<<>>, <<T>>, <<D, T>>}
  BY DEF FlowMatches
<1>2. IsSequence(ms) /\ Elements(ms) \subseteq {T, D}
  <2> HIDE DEF T, D
  <2> QED
    BY <1>1, ShortSequences
<1> QED
  BY <1>2 DEF Elements

LEMMA OutputFlows ==
  ASSUME NEW f \in Flows, f.actions = <<Output(1)>>
  PROVE  IsFlow(f) /\ Flow_MarshalText(f).ok
<1>1. f.table \in Nat /\ f.cookie \in Nat /\ f.matches \in FlowMatches
  <2>1. f.table \in {0, 1} /\ f.cookie \in {0, 2 ^ U64 - 1} /\ f.matches \in FlowMatches
    BY DEF Flows
  <2>2. 2 ^ U64 \in Nat \ {0}
    BY WidthAssumption, PowerPositive
  <2> QED
    BY <2>1, <2>2
<1>2. IsFlow(f)
  BY <1>1, SampleFlowMatches, SampleMatches DEF IsFlow
<1>3. ActionText(Output(1)) = Ok(<<atom("output:"), dec(1)>>)
  BY DEF ActionText, Output, outputAction_MarshalText, Colon
<1>4. marshalActions(f) = Ok(<<<<atom("output:"), dec(1)>>>>)
  <2> DEFINE o == <<atom("output:"), dec(1)>>
             texts == [i \in DOMAIN f.actions |-> ActionText(f.actions[i])]
  <2>1. texts = [i \in {1} |-> Ok(o)]
    BY <1>3
  <2>2. \A i \in DOMAIN texts : texts[i].ok /\ texts[i].val = o
    BY <2>1, Succeeds
  <2>3. [i \in DOMAIN texts |-> texts[i].val] = <<o>>
    <3> HIDE DEF o
    <3> QED
      BY <2>1, <2>2
  <2> QED
    BY <2>2, <2>3 DEF marshalActions, marshalFunctions
<1>5. marshalActions(f).ok /\ ~DropNotAlone(marshalActions(f).val)
  <2>1. marshalActions(f).ok /\ Len(marshalActions(f).val) = 1
    BY <1>4, Succeeds, OnePiece
  <2> QED
    BY <2>1 DEF DropNotAlone
<1>6. marshalMatches(f).ok
  BY <1>2, MatchesMarshalled DEF IsFlow
<1>7. f.actions # <<>>
  OBVIOUS
<1> QED
  BY <1>2, <1>5, <1>6, <1>7, Succeeds DEF Flow_MarshalText

\* Of the flows that are asked about, those that agree in the text of their
\* matches agree in the matches.
LEMMA OutputFlowsAgree ==
  ASSUME NEW f \in Flows, f.actions = <<Output(1)>>,
         NEW g \in Flows, g.actions = <<Output(1)>>
  PROVE  Deletes(f, f) /\ (Deletes(f, g) => Agrees(f, g))
<1>1. IsFlow(f) /\ Flow_MarshalText(f).ok /\ IsFlow(g) /\ Flow_MarshalText(g).ok
  BY OutputFlows
<1>2. Deletes(f, f)
  BY <1>1, DeletesOnlyItsOwn
<1>3. ASSUME Deletes(f, g) PROVE Agrees(f, g)
  <2>1. /\ g.table = f.table /\ f.cookie \in {0, g.cookie}
        /\ f.protocol \in {"", g.protocol} /\ f.inPort \in {0, g.inPort}
        /\ MatchesOf(f) \subseteq MatchesOf(g)
    BY <1>1, <1>3, DeletesOnlyItsOwn
  <2>2. ASSUME NEW i \in DOMAIN f.matches PROVE Contains(g.matches, f.matches[i])
    <3>1. PICK j \in DOMAIN g.matches : MatchField(g.matches[j]) = MatchField(f.matches[i])
      BY <2>1 DEF MatchesOf
    <3>2. f.matches \in FlowMatches /\ g.matches \in FlowMatches
      BY DEF Flows
    <3>3. g.matches[j] = f.matches[i]
      BY <3>1, <3>2, SampleFlowMatches, SampleMatches
    <3>4. IsSequence(g.matches) /\ f.matches[i] \in Elements(g.matches)
      BY <3>2, <3>3, SampleFlowMatches DEF Elements
    <3> QED
      BY <3>4, ContainsIs
  <2> QED
    BY <2>1, <2>2 DEF Agrees
<1> QED
  BY <1>2, <1>3

----------------------------------------------------------------------------
(* The reader of the actions' text.                                        *)

Readers(P) == [done : Seq(Seq(P)), buf : Seq(P), depth : Int, panic : BOOLEAN]

LEMMA ReadersClosed ==
  ASSUME NEW P, NEW st \in Readers(P), NEW ch \in P
  PROVE  ReadPiece(st, ch) \in Readers(P)
<1>1. CASE st.panic
  BY <1>1 DEF ReadPiece
<1>2. CASE ~st.panic /\ EndOfAction(ch, st.depth)
  <2>1. ReadPiece(st, ch) = [st EXCEPT !.done = Append(st.done, st.buf), !.buf = <<>>]
    BY <1>2 DEF ReadPiece
  <2>2. Append(st.done, st.buf) \in Seq(Seq(P)) /\ <<>> \in Seq(P)
    BY DEF Readers
  <2> QED
    BY <2>1, <2>2 DEF Readers
<1>3. CASE ~st.panic /\ ~EndOfAction(ch, st.depth)
  <2> DEFINE d == CASE ch = sym("(") -> st.depth + 1
                    [] ch = sym(")") -> st.depth - 1
                    [] OTHER -> st.depth
             p == ch = sym(")") /\ st.depth = 0
  <2>1. ReadPiece(st, ch) = [st EXCEPT !.buf = Append(st.buf, ch), !.depth = d, !.panic = p]
    BY <1>3 DEF ReadPiece
  <2>2. d \in Int /\ p \in BOOLEAN /\ Append(st.buf, ch) \in Seq(P)
    <3>1. sym("(") # sym(")")
      BY DEF sym
    <3> QED
      BY <3>1 DEF Readers
  <2> HIDE DEF d, p
  <2> QED
    BY <2>1, <2>2 DEF Readers
<1> QED
  BY <1>1, <1>2, <1>3 DEF Readers

\* The reader after each piece of a text.
Reading(f, s) ==
  /\ f = [n \in 0 .. Len(s) |-> IF n = 0 THEN NewReader ELSE ReadPiece(f[n - 1], s[n])]

LEMMA ReadingExists ==
  ASSUME NEW P, NEW s \in Seq(P)
  PROVE  \E f : /\ Reading(f, s) /\ Read(s) = f[Len(s)]
               /\ f \in [0 .. Len(s) -> Readers(P)]
<1> DEFINE N == Len(s)
           G == [n \in 1 .. N |-> [st \in Readers(P) |-> ReadPiece(st, s[n])]]
<1>1. N \in Nat /\ NewReader \in Readers(P)
  BY DEF NewReader, Readers
<1>2. G \in [1 .. N -> [Readers(P) -> Readers(P)]]
  <2>1. ASSUME NEW n \in 1 .. N, NEW st \in Readers(P)
        PROVE  ReadPiece(st, s[n]) \in Readers(P)
    <3>1. s[n] \in P
      OBVIOUS
    <3> QED
      BY <3>1, ReadersClosed
  <2> HIDE DEF N
  <2> QED
    BY <2>1
<1>3. PICK f \in [0 .. N -> Readers(P)] : StepsOf(f, N, NewReader, G)
  <2> HIDE DEF G, N
  <2> QED
    BY <1>1, <1>2, StepsExist
<1>4. ASSUME NEW n \in 0 .. N
      PROVE  f[n] = IF n = 0 THEN NewReader ELSE ReadPiece(f[n - 1], s[n])
  <2>1. f[n] = IF n = 0 THEN NewReader ELSE G[n][f[n - 1]]
    <3> HIDE DEF G
    <3> QED
      BY <1>3 DEF StepsOf
  <2>2. CASE n # 0
    <3>1. n \in 1 .. N /\ f[n - 1] \in Readers(P)
      BY <1>1, <2>2
    <3>2. G[n][f[n - 1]] = ReadPiece(f[n - 1], s[n])
      BY <3>1
    <3> HIDE DEF G
    <3> QED
      BY <2>1, <2>2, <3>2
  <2> QED
    BY <2>1, <2>2
<1>5. Reading(f, s)
  <2> HIDE DEF G
  <2> QED
    BY <1>3, <1>4 DEF Reading
<1> DEFINE a == CHOOSE g : Reading(g, s)
<1>6. Reading(a, s)
  BY <1>5
<1>7. Read(s) = a[N]
  BY DEF Read, Reading
<1> HIDE DEF a
<1>8. a \in [0 .. N -> Readers(P)]
  <2> DEFINE S == {n \in 0 .. N : a[n] \in Readers(P)}
  <2>1. 0 \in S
    BY <1>1, <1>6 DEF Reading
  <2>2. ASSUME NEW n \in 0 .. N - 1, n \in S PROVE n + 1 \in S
    <3>1. n + 1 \in 0 .. N /\ n + 1 \in 1 .. N /\ (n + 1) - 1 = n
      BY <1>1
    <3>2. a[n + 1] = ReadPiece(a[n], s[n + 1]) /\ s[n + 1] \in P
      BY <1>6, <3>1 DEF Reading
    <3>3. a[n + 1] \in Readers(P)
      BY <2>2, <3>2, ReadersClosed
    <3> QED
      BY <3>1, <3>3
  <2>3. 0 .. N \subseteq S
    <3> HIDE DEF S, N
    <3> QED
      BY <1>1, <2>1, <2>2, InductionUpTo
  <2>4. a = [n \in 0 .. N |-> a[n]]
    BY <1>6 DEF Reading
  <2> QED
    BY <2>3, <2>4
<1> QED
  BY <1>6, <1>7, <1>8

\* Two texts with the same beginning are read alike as far as that goes.
LEMMA ReadingAgrees ==
  ASSUME NEW s, NEW t, NEW f, NEW g, Reading(f, s), Reading(g, t),
         NEW n \in Nat, n <= Len(s), n <= Len(t), Len(s) \in Nat, Len(t) \in Nat,
         \A i \in 1 .. n : s[i] = t[i]
  PROVE  f[n] = g[n]
<1> DEFINE S == {k \in 0 .. n : f[k] = g[k]}
<1>1. 0 \in S
  BY DEF Reading
<1>2. ASSUME NEW k \in 0 .. n - 1, k \in S PROVE k + 1 \in S
  <2>1. /\ k + 1 \in 1 .. n /\ k + 1 \in 0 .. Len(s) /\ k + 1 \in 0 .. Len(t)
        /\ k + 1 # 0 /\ (k + 1) - 1 = k
    OBVIOUS
  <2>2. f[k + 1] = ReadPiece(f[k], s[k + 1]) /\ g[k + 1] = ReadPiece(g[k], t[k + 1])
    BY <2>1 DEF Reading
  <2> QED
    BY <1>2, <2>1, <2>2
<1>3. 0 .. n \subseteq S
  <2> HIDE DEF S
  <2> QED
    BY <1>1, <1>2, InductionUpTo
<1> QED
  BY <1>3

LEMMA ReadNothing == Read(<<>>) = NewReader
<1>1. <<>> \in Seq({}) /\ Len(<<>>) = 0
  OBVIOUS
<1>2. PICK f : Reading(f, <<>>) /\ Read(<<>>) = f[Len(<<>>)]
  BY <1>1, ReadingExists
<1> QED
  BY <1>1, <1>2 DEF Reading

\* One more piece.
LEMMA ReadOneMore ==
  ASSUME NEW P, NEW s \in Seq(P), NEW ch \in P
  PROVE  Read(Append(s, ch)) = ReadPiece(Read(s), ch) /\ Read(s) \in Readers(P)
<1> DEFINE t == Append(s, ch)
           n == Len(s)
<1>1. /\ t \in Seq(P) /\ Len(t) = n + 1 /\ n \in Nat /\ t[n + 1] = ch
      /\ \A i \in 1 .. n : s[i] = t[i]
  OBVIOUS
<1>2. PICK f : Reading(f, s) /\ Read(s) = f[n] /\ f \in [0 .. n -> Readers(P)]
  BY ReadingExists
<1>3. PICK g : Reading(g, t) /\ Read(t) = g[Len(t)]
  <2> HIDE DEF t
  <2> QED
    BY <1>1, ReadingExists
<1>4. f[n] = g[n]
  <2> HIDE DEF t
  <2> QED
    BY <1>1, <1>2, <1>3, ReadingAgrees
<1>5. g[n + 1] = ReadPiece(g[n], t[n + 1])
  <2>1. n + 1 \in 0 .. Len(t) /\ n + 1 # 0 /\ (n + 1) - 1 = n
    BY <1>1
  <2> HIDE DEF t
  <2> QED
    BY <1>3, <2>1 DEF Reading
<1>6. Read(s) \in Readers(P)
  BY <1>1, <1>2
<1> QED
  BY <1>1, <1>2, <1>3, <1>4, <1>5, <1>6

LEMMA ReadOn ==
  ASSUME NEW s, IsSequence(s), NEW ch
  PROVE  /\ Read(Append(s, ch)) = ReadPiece(Read(s), ch)
         /\ IsSequence(Read(s).buf) /\ IsSequence(Read(s).done)
         /\ Read(s).depth \in Int
         /\ DOMAIN Read(s) = {"done", "buf", "depth", "panic"}
         /\ Read(s).panic \in BOOLEAN
         /\ Read(s) = [done |-> Read(s).done, buf |-> Read(s).buf,
                       depth |-> Read(s).depth, panic |-> Read(s).panic]
<1>1. PICK S : s \in Seq(S)
  BY DEF IsSequence
<1> DEFINE P == S \cup {ch}
<1>2. s \in Seq(P) /\ ch \in P
  BY <1>1
<1> HIDE DEF P
<1>3. Read(Append(s, ch)) = ReadPiece(Read(s), ch) /\ Read(s) \in Readers(P)
  BY <1>2, ReadOneMore
<1>4. Read(s).buf \in Seq(P) /\ Read(s).done \in Seq(Seq(P)) /\ Read(s).depth \in Int
  BY <1>3 DEF Readers
<1>5. /\ DOMAIN Read(s) = {"done", "buf", "depth", "panic"}
      /\ Read(s).panic \in BOOLEAN
      /\ Read(s) = [done |-> Read(s).done, buf |-> Read(s).buf,
                    depth |-> Read(s).depth, panic |-> Read(s).panic]
  BY <1>3 DEF Readers
<1> QED
  BY <1>3, <1>4, <1>5 DEF IsSequence

----------------------------------------------------------------------------
(* Text the reader takes in without cutting it.                            *)

\* From depth h to depth k the reader puts the text t into its buffer.
Passes(t, h, k) ==
  /\ IsSequence(t)
  /\ \A s : IsSequence(s) /\ ~Read(s).panic /\ Read(s).depth = h =>
       Read(s \o t) = [done |-> Read(s).done, buf |-> Read(s).buf \o t,
                       depth |-> k, panic |-> FALSE]

LEMMA Glued ==
  ASSUME NEW s, NEW t, NEW u, IsSequence(s), IsSequence(t), IsSequence(u)
  PROVE  (s \o t) \o u = s \o (t \o u)
<1>1. PICK S : s \in Seq(S)
  BY DEF IsSequence
<1>2. PICK T : t \in Seq(T)
  BY DEF IsSequence
<1>3. PICK U : u \in Seq(U)
  BY DEF IsSequence
<1> DEFINE V == S \cup T \cup U
<1>4. s \in Seq(V) /\ t \in Seq(V) /\ u \in Seq(V)
  BY <1>1, <1>2, <1>3
<1> HIDE DEF V
<1> QED
  BY <1>4, ConcatAssociative

LEMMA GluedOne ==
  ASSUME NEW s, IsSequence(s), NEW p
  PROVE  Append(s, p) = s \o <<p>> /\ IsSequence(Append(s, p))
<1>1. PICK S : s \in Seq(S)
  BY DEF IsSequence
<1>2. s \in Seq(S \cup {p}) /\ Append(s, p) \in Seq(S \cup {p})
  BY <1>1
<1>3. Append(s, p) = s \o <<p>>
  BY <1>2, AppendIsConcat
<1> QED
  BY <1>2, <1>3 DEF IsSequence

Comma == sym(",")
Blank == sym(" ")

\* Symbols differ, from each other and from the pieces of other kinds.
LEMMA Symbols ==
  /\ Comma # sym("(") /\ Comma # sym(")") /\ Comma # sym("->") /\ Comma # sym("/")
  /\ Comma # Blank
  /\ Blank # sym("(") /\ Blank # sym(")") /\ Blank # sym("->") /\ Blank # sym("/")
  /\ \A a : dec(a) # Comma /\ hex(a) # Comma /\ atom(a) # Comma
  /\ \A a : dec(a) # Blank /\ hex(a) # Blank /\ atom(a) # Blank
  BY Zenon DEF Comma, Blank, sym, dec, hex, atom

\* What a piece does to the depth.
Moves(p, h, k) ==
  /\ p = Comma => h > 0
  /\ p = sym("(") => k = h + 1
  /\ p = sym(")") => h = k + 1
  /\ p \notin {sym("("), sym(")")} => k = h

LEMMA MovesTo ==
  ASSUME NEW st, DOMAIN st = {"done", "buf", "depth", "panic"}, ~st.panic,
         NEW p, NEW k \in Nat, st.depth \in Nat, Moves(p, st.depth, k)
  PROVE  ReadPiece(st, p) = [done |-> st.done, buf |-> Append(st.buf, p),
                             depth |-> k, panic |-> FALSE]
<1>1. sym("(") # sym(")")
  BY DEF sym
<1>2. ~(p = Comma /\ st.depth = 0) /\ ~(p = sym(")") /\ st.depth = 0)
  BY <1>1 DEF Moves
<1>3. ~EndOfAction(p, st.depth)
  BY <1>2, Zenon DEF EndOfAction, Comma
<1>4. k = CASE p = sym("(") -> st.depth + 1
            [] p = sym(")") -> st.depth - 1
            [] OTHER -> st.depth
  BY <1>1 DEF Moves
<1>5. ReadPiece(st, p) = [st EXCEPT !.buf = Append(st.buf, p), !.depth = k, !.panic = FALSE]
  BY <1>2, <1>3, <1>4 DEF ReadPiece
<1> QED
  BY <1>5

LEMMA PassOne ==
  ASSUME NEW p, NEW h \in Nat, NEW k \in Nat, Moves(p, h, k)
  PROVE  Passes(<<p>>, h, k)
<1>1. IsSequence(<<p>>)
  BY ShortSequences
<1>2. ASSUME NEW s, IsSequence(s), ~Read(s).panic, Read(s).depth = h
      PROVE  Read(s \o <<p>>) = [done |-> Read(s).done, buf |-> Read(s).buf \o <<p>>,
                                depth |-> k, panic |-> FALSE]
  <2>1. /\ Read(Append(s, p)) = ReadPiece(Read(s), p)
        /\ IsSequence(Read(s).buf) /\ DOMAIN Read(s) = {"done", "buf", "depth", "panic"}
    BY <1>2, ReadOn
  <2>2. Append(s, p) = s \o <<p>> /\ Append(Read(s).buf, p) = Read(s).buf \o <<p>>
    BY <1>2, <2>1, GluedOne
  <2>3. ReadPiece(Read(s), p) = [done |-> Read(s).done, buf |-> Append(Read(s).buf, p),
                                 depth |-> k, panic |-> FALSE]
    BY <1>2, <2>1, MovesTo
  <2> QED
    BY <2>1, <2>2, <2>3
<1> QED
  BY <1>1, <1>2 DEF Passes

LEMMA PassBoth ==
  ASSUME NEW t, NEW u, NEW h, NEW k, NEW l, Passes(t, h, k), Passes(u, k, l)
  PROVE  Passes(t \o u, h, l)
<1>1. IsSequence(t) /\ IsSequence(u)
  BY DEF Passes
<1>2. IsSequence(t \o u)
  BY <1>1, Joins
<1>3. ASSUME NEW s, IsSequence(s), ~Read(s).panic, Read(s).depth = h
      PROVE  Read(s \o (t \o u)) = [done |-> Read(s).done, buf |-> Read(s).buf \o (t \o u),
                                   depth |-> l, panic |-> FALSE]
  <2>1. Read(s \o t) = [done |-> Read(s).done, buf |-> Read(s).buf \o t,
                        depth |-> k, panic |-> FALSE]
    BY <1>3 DEF Passes
  <2>2. /\ Read(s \o t).done = Read(s).done /\ Read(s \o t).buf = Read(s).buf \o t
        /\ Read(s \o t).depth = k /\ ~Read(s \o t).panic
    BY <2>1
  <2>3. IsSequence(s \o t)
    BY <1>1, <1>3, Joins
  <2>4. Read((s \o t) \o u) =
          [done |-> Read(s).done, buf |-> (Read(s).buf \o t) \o u,
           depth |-> l, panic |-> FALSE]
    BY <2>2, <2>3 DEF Passes
  <2>5. (s \o t) \o u = s \o (t \o u)
    BY <1>1, <1>3, Glued
  <2>6. IsSequence(Read(s).buf)
    BY <1>3, ReadOn
  <2>7. ASSUME NEW b, IsSequence(b) PROVE (b \o t) \o u = b \o (t \o u)
    BY <1>1, <2>7, Glued
  <2> QED
    BY <2>4, <2>5, <2>6, <2>7
<1> QED
  BY <1>2, <1>3 DEF Passes

LEMMA PassNone == ASSUME NEW h PROVE Passes(<<>>, h, h)
<1>1. ASSUME NEW s, IsSequence(s), ~Read(s).panic, Read(s).depth = h
      PROVE  Read(s \o <<>>) = [done |-> Read(s).done, buf |-> Read(s).buf \o <<>>,
                               depth |-> h, panic |-> FALSE]
  <2>1. ASSUME NEW b, IsSequence(b) PROVE b \o <<>> = b
    <3>1. PICK S : b \in Seq(S)
      BY <2>1 DEF IsSequence
    <3> QED
      BY <3>1
  <2>2. /\ IsSequence(Read(s).buf) /\ Read(s).panic \in BOOLEAN
        /\ Read(s) = [done |-> Read(s).done, buf |-> Read(s).buf,
                      depth |-> Read(s).depth, panic |-> Read(s).panic]
    BY <1>1, ReadOn
  <2>3. s \o <<>> = s /\ Read(s).buf \o <<>> = Read(s).buf
    BY <1>1, <2>1, <2>2
  <2>4. Read(s).panic = FALSE
    BY <1>1, <2>2
  <2> QED
    BY <1>1, <2>2, <2>3, <2>4
<1> QED
  BY <1>1, ShortSequences DEF Passes

\* A text whose parentheses close, and whose commas are inside them: d is the
\* depth after each piece.
Nested(t, h) ==
  /\ IsSequence(t)
  /\ \E d \in [0 .. Len(t) -> Nat] :
       d[0] = h /\ d[Len(t)] = h /\ \A k \in 1 .. Len(t) : Moves(t[k], d[k - 1], d[k])

LEMMA PassNested == ASSUME NEW t, NEW h, Nested(t, h) PROVE Passes(t, h, h)
<1>1. PICK P : t \in Seq(P)
  BY DEF Nested, IsSequence
<1> DEFINE N == Len(t)
<1>2. PICK d \in [0 .. N -> Nat] :
         d[0] = h /\ d[N] = h /\ \A k \in 1 .. N : Moves(t[k], d[k - 1], d[k])
  BY DEF Nested
<1>3. N \in Nat
  BY <1>1
<1> DEFINE S == {k \in 0 .. N : Passes(SubSeq(t, 1, k), h, d[k])}
<1>4. 0 \in S
  <2>1. SubSeq(t, 1, 0) = <<>>
    BY <1>1
  <2>2. Passes(SubSeq(t, 1, 0), h, d[0])
    BY <1>2, <2>1, PassNone
  <2> QED
    BY <1>3, <2>2
<1>5. ASSUME NEW k \in 0 .. N - 1, k \in S PROVE k + 1 \in S
  <2>1. k + 1 \in 1 .. N /\ k + 1 \in 0 .. N /\ k \in 0 .. N /\ (k + 1) - 1 = k
    BY <1>3
  <2>2. SubSeq(t, 1, k + 1) = SubSeq(t, 1, k) \o <<t[k + 1]>>
    <3>1. SubSeq(t, 1, k + 1) = Append(SubSeq(t, 1, k), t[k + 1])
      BY <1>1, <2>1, SubSeqRecursiveSecond
    <3>2. IsSequence(SubSeq(t, 1, k))
      BY <1>5 DEF Passes
    <3> QED
      BY <3>1, <3>2, GluedOne
  <2>3. Moves(t[k + 1], d[k], d[k + 1]) /\ d[k] \in Nat /\ d[k + 1] \in Nat
    BY <1>2, <2>1
  <2>4. Passes(<<t[k + 1]>>, d[k], d[k + 1])
    BY <2>3, PassOne
  <2>5. Passes(SubSeq(t, 1, k) \o <<t[k + 1]>>, h, d[k + 1])
    BY <1>5, <2>4, PassBoth
  <2> QED
    BY <2>1, <2>2, <2>5
<1>6. N \in S
  <2> HIDE DEF S, N
  <2>1. 0 .. N \subseteq S
    BY <1>3, <1>4, <1>5, InductionUpTo
  <2> QED
    BY <1>3, <2>1
<1>7. SubSeq(t, 1, N) = t
  BY <1>1
<1> QED
  BY <1>2, <1>6, <1>7

LEMMA PassPlain ==
  ASSUME NEW t, IsSequence(t), NEW h \in Nat,
         \A i \in DOMAIN t : t[i] \notin {Comma, sym("("), sym(")")}
  PROVE  Passes(t, h, h)
<1> DEFINE d == [k \in 0 .. Len(t) |-> h]
<1>1. PICK P : t \in Seq(P)
  BY DEF IsSequence
<1>2. /\ d \in [0 .. Len(t) -> Nat] /\ d[0] = h /\ d[Len(t)] = h
      /\ \A k \in 1 .. Len(t) : d[k - 1] = h /\ d[k] = h
  BY <1>1
<1>3. \A k \in 1 .. Len(t) : Moves(t[k], h, h)
  BY <1>1 DEF Moves
<1> HIDE DEF d
<1>4. Nested(t, h)
  BY <1>2, <1>3 DEF Nested
<1> QED
  BY <1>4, PassNested
----------------------------------------------------------------------------
(* Texts joined by commas.                                                 *)

Joining(f, texts) ==
  f = [n \in DOMAIN texts |->
         IF n = 1 THEN texts[1] ELSE f[n - 1] \o <<Comma>> \o texts[n]]

\* Texts with their pieces in one set.
LEMMA OneAlphabet ==
  ASSUME NEW texts, IsSequence(texts), \A i \in DOMAIN texts : IsSequence(texts[i])
  PROVE  \E P : Comma \in P /\ \A i \in DOMAIN texts : texts[i] \in Seq(P)
<1> DEFINE P == {Comma} \cup UNION {Elements(texts[i]) : i \in DOMAIN texts}
<1>1. ASSUME NEW i \in DOMAIN texts PROVE texts[i] \in Seq(P)
  <2> DEFINE t == texts[i]
  <2>1. PICK S : t \in Seq(S)
    BY DEF IsSequence
  <2>2. \A k \in 1 .. Len(t) : t[k] \in Elements(t)
    BY <2>1 DEF Elements
  <2>3. Elements(t) \subseteq P
    OBVIOUS
  <2> HIDE DEF P, t
  <2>4. \A k \in 1 .. Len(t) : t[k] \in P
    BY <2>2, <2>3
  <2>5. t \in Seq(P)
    BY <2>1, <2>4
  <2> QED
    BY <2>5 DEF t
<1>2. Comma \in P
  OBVIOUS
<1> HIDE DEF P
<1> QED
  BY <1>1, <1>2

LEMMA JoiningExists ==
  ASSUME NEW texts, IsSequence(texts), \A i \in DOMAIN texts : IsSequence(texts[i])
  PROVE  \E f : Joining(f, texts) /\ JoinActions(texts) = f[Len(texts)]
<1>1. PICK P : Comma \in P /\ \A i \in DOMAIN texts : texts[i] \in Seq(P)
  BY OneAlphabet
<1> DEFINE N == Len(texts)
<1>2. N \in Nat /\ DOMAIN texts = 1 .. N
  BY DEF IsSequence
<1> DEFINE G == [n \in 1 .. N |->
                   [x \in Seq(P) |->
                      IF n = 1 THEN texts[1] ELSE x \o <<Comma>> \o texts[n]]]
<1>3. G \in [1 .. N -> [Seq(P) -> Seq(P)]]
  <2>1. ASSUME NEW n \in 1 .. N, NEW x \in Seq(P)
        PROVE  (IF n = 1 THEN texts[1] ELSE x \o <<Comma>> \o texts[n]) \in Seq(P)
    <3>1. texts[n] \in Seq(P) /\ <<Comma>> \in Seq(P)
      BY <1>1, <1>2
    <3>2. x \o <<Comma>> \in Seq(P)
      BY <3>1
    <3>3. (x \o <<Comma>>) \o texts[n] \in Seq(P)
      BY <3>1, <3>2
    <3> QED
      BY <3>1, <3>3
  <2> HIDE DEF N
  <2> QED
    BY <2>1
<1>4. PICK f \in [0 .. N -> Seq(P)] : StepsOf(f, N, <<>>, G)
  <2>1. <<>> \in Seq(P)
    OBVIOUS
  <2> HIDE DEF G, N
  <2> QED
    BY <1>2, <1>3, <2>1, StepsExist
<1> DEFINE g == [n \in 1 .. N |-> f[n]]
<1>5. ASSUME NEW n \in 1 .. N
      PROVE  g[n] = IF n = 1 THEN texts[1] ELSE g[n - 1] \o <<Comma>> \o texts[n]
  <2>1. n \in 0 .. N /\ n # 0 /\ n - 1 \in 0 .. N /\ (n # 1 => n - 1 \in 1 .. N)
    BY <1>2
  <2>2. f[n] = G[n][f[n - 1]] /\ f[n - 1] \in Seq(P)
    <3> HIDE DEF G
    <3> QED
      BY <1>4, <2>1 DEF StepsOf
  <2>3. G[n][f[n - 1]] = IF n = 1 THEN texts[1] ELSE f[n - 1] \o <<Comma>> \o texts[n]
    BY <2>2
  <2> HIDE DEF G
  <2> QED
    BY <2>1, <2>2, <2>3
<1>6. Joining(g, texts)
  <2>1. g = [n \in 1 .. N |->
               IF n = 1 THEN texts[1] ELSE g[n - 1] \o <<Comma>> \o texts[n]]
    <3>1. g = [n \in 1 .. N |-> g[n]]
      OBVIOUS
    <3> HIDE DEF g
    <3> QED
      BY <1>5, <3>1
  <2> HIDE DEF g, G
  <2> QED
    BY <1>2, <2>1 DEF Joining
<1> DEFINE a == CHOOSE h : Joining(h, texts)
<1>7. Joining(a, texts)
  <2> HIDE DEF g, G
  <2> QED
    BY <1>6
<1>8. JoinActions(texts) = a[Len(texts)]
  BY Zenon DEF JoinActions, Joining, Comma
<1> HIDE DEF a
<1> QED
  BY <1>7, <1>8

LEMMA CutAtComma ==
  ASSUME NEW D, NEW b
  PROVE  ReadPiece([done |-> D, buf |-> b, depth |-> 0, panic |-> FALSE], Comma)
         = [done |-> Append(D, b), buf |-> <<>>, depth |-> 0, panic |-> FALSE]
<1> DEFINE st == [done |-> D, buf |-> b, depth |-> 0, panic |-> FALSE]
<1>1. EndOfAction(Comma, st.depth) /\ ~st.panic
  BY Zenon DEF EndOfAction, Comma
<1>2. ReadPiece(st, Comma) = [st EXCEPT !.done = Append(st.done, st.buf), !.buf = <<>>]
  <2> HIDE DEF st
  <2> QED
    BY <1>1 DEF ReadPiece
<1> QED
  BY <1>2

\* Joined by commas the texts are cut apart again.
LEMMA JoinedIsCut ==
  ASSUME NEW texts, IsSequence(texts), Len(texts) >= 1,
         \A i \in DOMAIN texts : Passes(texts[i], 0, 0) /\ texts[i] # <<>>
  PROVE  /\ Read(JoinActions(texts)).depth = 0
         /\ ~Read(JoinActions(texts)).panic
         /\ RawActions(Read(JoinActions(texts))) = texts
         /\ Read(JoinActions(texts)).done = SubSeq(texts, 1, Len(texts) - 1)
<1> DEFINE N == Len(texts)
<1>1. PICK T : texts \in Seq(T)
  BY DEF IsSequence
<1>2. N \in Nat /\ DOMAIN texts = 1 .. N /\ N >= 1
  BY <1>1
<1>3. \A i \in 1 .. N : IsSequence(texts[i])
  BY <1>2 DEF Passes
<1>4. PICK f : Joining(f, texts) /\ JoinActions(texts) = f[N]
  BY <1>2, <1>3, JoiningExists
<1> DEFINE Cut(n) == [done |-> SubSeq(texts, 1, n - 1), buf |-> texts[n],
                      depth |-> 0, panic |-> FALSE]
           S == {n \in 0 .. N : n = 0 \/ (IsSequence(f[n]) /\ Read(f[n]) = Cut(n))}
\* Reading one more text after s, whose last action is complete.
<1>5. ASSUME NEW n \in 1 .. N, NEW s, IsSequence(s),
             Read(s) = [done |-> SubSeq(texts, 1, n - 1), buf |-> <<>>,
                        depth |-> 0, panic |-> FALSE]
      PROVE  IsSequence(s \o texts[n]) /\ Read(s \o texts[n]) = Cut(n)
  <2>1. Passes(texts[n], 0, 0)
    BY <1>2
  <2>2. /\ Read(s).done = SubSeq(texts, 1, n - 1) /\ Read(s).buf = <<>>
        /\ Read(s).depth = 0 /\ ~Read(s).panic
    BY <1>5
  <2>3. Read(s \o texts[n]) = [done |-> SubSeq(texts, 1, n - 1), buf |-> <<>> \o texts[n],
                               depth |-> 0, panic |-> FALSE]
    BY <1>5, <2>1, <2>2 DEF Passes
  <2>4. <<>> \o texts[n] = texts[n]
    <3>1. PICK U : texts[n] \in Seq(U)
      BY <1>3 DEF IsSequence
    <3> QED
      BY <3>1, ConcatEmptySeq
  <2>5. IsSequence(s \o texts[n])
    BY <1>3, <1>5, Joins
  <2> QED
    BY <2>3, <2>4, <2>5
<1>6. 0 \in S
  BY <1>2
<1>7. ASSUME NEW n \in 0 .. N - 1, n \in S PROVE n + 1 \in S
  <2>1. n + 1 \in 1 .. N /\ n + 1 \in 0 .. N /\ (n + 1) - 1 = n
    BY <1>2
  <2>2. IsSequence(f[n + 1]) /\ Read(f[n + 1]) = Cut(n + 1)
    <3>1. CASE n = 0
      <4>1. f[1] = texts[1]
        BY <1>2, <1>4, <2>1, <3>1 DEF Joining
      <4>2. SubSeq(texts, 1, 0) = <<>> /\ IsSequence(<<>>)
        BY <1>1, ShortSequences
      <4>3. Read(<<>>) = [done |-> SubSeq(texts, 1, 0), buf |-> <<>>,
                          depth |-> 0, panic |-> FALSE]
        BY <4>2, ReadNothing DEF NewReader
      <4>4. IsSequence(<<>> \o texts[1]) /\ Read(<<>> \o texts[1]) = Cut(1)
        <5>1. 1 \in 1 .. N /\ 1 - 1 = 0
          BY <1>2
        <5> HIDE DEF Cut, S
        <5> QED
          BY <1>5, <4>2, <4>3, <5>1
      <4>5. <<>> \o texts[1] = texts[1]
        <5>1. PICK U : texts[1] \in Seq(U)
          BY <1>2, <1>3 DEF IsSequence
        <5> QED
          BY <5>1, ConcatEmptySeq
      <4> QED
        BY <3>1, <4>1, <4>4, <4>5
    <3>2. CASE n # 0
      <4>1. n \in 1 .. N /\ n + 1 # 1
        BY <1>2, <3>2
      <4>2. f[n + 1] = (f[n] \o <<Comma>>) \o texts[n + 1]
        BY <1>2, <1>4, <2>1, <4>1 DEF Joining
      <4>3. IsSequence(f[n]) /\ Read(f[n]) = Cut(n)
        BY <1>7, <3>2
      <4>4. Append(f[n], Comma) = f[n] \o <<Comma>> /\ IsSequence(f[n] \o <<Comma>>)
        BY <4>3, GluedOne
      <4>5. Read(Append(f[n], Comma)) = ReadPiece(Cut(n), Comma)
        BY <4>3, ReadOn
      <4>6. ReadPiece(Cut(n), Comma) =
              [done |-> Append(SubSeq(texts, 1, n - 1), texts[n]), buf |-> <<>>,
               depth |-> 0, panic |-> FALSE]
        BY CutAtComma
      <4>7. Append(SubSeq(texts, 1, n - 1), texts[n]) = SubSeq(texts, 1, n)
        <5>1. SubSeq(texts, 1, n) = SubSeq(texts, 1, n - 1) \o <<texts[n]>>
          BY <1>1, <1>2, <4>1, SubSeqRecursiveSecond
        <5>2. SubSeq(texts, 1, n - 1) \in Seq(T) /\ texts[n] \in T
          BY <1>1, <4>1
        <5> QED
          BY <5>1, <5>2, AppendIsConcat
      <4>8. Read(f[n] \o <<Comma>>) =
              [done |-> SubSeq(texts, 1, n), buf |-> <<>>, depth |-> 0, panic |-> FALSE]
        BY <4>4, <4>5, <4>6, <4>7
      <4>9. /\ IsSequence((f[n] \o <<Comma>>) \o texts[n + 1])
            /\ Read((f[n] \o <<Comma>>) \o texts[n + 1]) = Cut(n + 1)
        <5> HIDE DEF Cut, S
        <5> QED
          BY <1>5, <2>1, <4>4, <4>8
      <4> QED
        BY <4>2, <4>9
    <3> QED
      BY <3>1, <3>2
  <2> HIDE DEF Cut
  <2> QED
    BY <2>1, <2>2
<1>8. Read(f[N]) = Cut(N)
  <2>1. N \in 0 .. N /\ N # 0
    BY <1>2
  <2>2. 0 .. N \subseteq S
    <3> HIDE DEF S, N
    <3> QED
      BY <1>2, <1>6, <1>7, InductionUpTo
  <2> HIDE DEF Cut
  <2> QED
    BY <2>1, <2>2
<1>9. Append(SubSeq(texts, 1, N - 1), texts[N]) = texts
  <2>1. SubSeq(texts, 1, N) = SubSeq(texts, 1, N - 1) \o <<texts[N]>>
    <3>1. 1 \in 1 .. Len(texts) /\ N \in 1 .. Len(texts)
      BY <1>2
    <3> HIDE DEF N
    <3> QED
      BY <1>1, <3>1, SubSeqRecursiveSecond
  <2>2. SubSeq(texts, 1, N - 1) \in Seq(T) /\ texts[N] \in T
    BY <1>1, <1>2
  <2> QED
    BY <1>1, <2>1, <2>2, AppendIsConcat, SubSeqFull
<1> DEFINE st == Read(JoinActions(texts))
<1>10. st = Cut(N)
  BY <1>4, <1>8
<1>11. /\ st.done = SubSeq(texts, 1, N - 1) /\ st.buf = texts[N]
       /\ st.depth = 0 /\ ~st.panic
  <2> HIDE DEF st
  <2> QED
    BY <1>10
<1> HIDE DEF st
<1>12. RawActions(st) = texts
  <2>1. texts[N] # <<>>
    BY <1>2
  <2> HIDE DEF N
  <2> QED
    BY <1>9, <1>11, <2>1 DEF RawActions
<1> QED
  BY <1>11, <1>12 DEF st
\* The text of one action: it is never cut, and it is read as that action.
ReadsAs(t, a) == Passes(t, 0, 0) /\ t # <<>> /\ parseAction(t) = Ok(a)

LEMMA AllParsed ==
  ASSUME NEW texts, IsSequence(texts), Len(texts) >= 1,
         NEW acts, IsSequence(acts), DOMAIN acts = DOMAIN texts,
         \A i \in DOMAIN texts : ReadsAs(texts[i], acts[i])
  PROVE  ParseActions(JoinActions(texts)) = Ok([actions |-> acts, raw |-> texts])
<1> DEFINE st   == Read(JoinActions(texts))
           outs == [i \in DOMAIN texts |-> parseAction(texts[i])]
<1>1. \A i \in DOMAIN texts :
        Passes(texts[i], 0, 0) /\ texts[i] # <<>> /\ parseAction(texts[i]) = Ok(acts[i])
  BY DEF ReadsAs
<1>2. /\ st.depth = 0 /\ ~st.panic /\ RawActions(st) = texts
      /\ st.done = SubSeq(texts, 1, Len(texts) - 1)
  BY <1>1, JoinedIsCut
<1>3. DOMAIN st.done \subseteq DOMAIN texts
  <2>1. PICK T : texts \in Seq(T)
    BY DEF IsSequence
  <2>2. DOMAIN SubSeq(texts, 1, Len(texts) - 1) \subseteq DOMAIN texts
    BY <2>1
  <2> HIDE DEF st
  <2> QED
    BY <1>2, <2>2
<1>4. \A i \in DOMAIN texts : outs[i].ok /\ outs[i].val = acts[i]
  <2>1. \A i \in DOMAIN texts : outs[i] = Ok(acts[i])
    BY <1>1
  <2> HIDE DEF outs
  <2> QED
    BY <2>1, Succeeds
<1>5. ParseActions(JoinActions(texts)) = Outcome(st, outs)
  <2>1. outs = [i \in DOMAIN RawActions(st) |-> parseAction(RawActions(st)[i])]
    <3> HIDE DEF st
    <3> QED
      BY <1>2
  <2> HIDE DEF outs
  <2> QED
    BY <2>1 DEF ParseActions
<1>6. DOMAIN outs = DOMAIN texts
  OBVIOUS
<1>7. acts = [i \in DOMAIN texts |-> acts[i]]
  BY DEF IsSequence
<1> HIDE DEF st, outs
<1>8. [i \in DOMAIN outs |-> outs[i].val] = acts
  BY <1>4, <1>6, <1>7
<1>9. Outcome(st, outs) = Ok([actions |-> [i \in DOMAIN outs |-> outs[i].val],
                              raw |-> RawActions(st)])
  BY <1>2, <1>3, <1>4, <1>6 DEF Outcome
<1> QED
  BY <1>2, <1>5, <1>8, <1>9

----------------------------------------------------------------------------
(* One action: its text, taken in whole and read back.                     *)

LEMMA PassTwo ==
  ASSUME NEW p, NEW q, p \notin {Comma, sym("("), sym(")")},
         q \notin {Comma, sym("("), sym(")")}
  PROVE  Passes(<<p, q>>, 0, 0) /\ <<p, q>> # <<>>
<1>1. IsSequence(<<p, q>>)
  BY ShortSequences
<1>2. \A i \in DOMAIN <<p, q>> : <<p, q>>[i] \notin {Comma, sym("("), sym(")")}
  BY TwoPieces
<1>3. <<p, q>> # <<>>
  OBVIOUS
<1> QED
  BY <1>1, <1>2, <1>3, PassPlain

\* Numbers, addresses and words are no symbols.
LEMMA PlainPieces ==
  ASSUME NEW v
  PROVE  /\ dec(v) \notin {Comma, Blank, sym("("), sym(")"), sym("->")}
         /\ hex(v) \notin {Comma, Blank, sym("("), sym(")"), sym("->")}
         /\ atom(v) \notin {Comma, Blank, sym("("), sym(")"), sym("->")}
<1>1. \A c : dec(v) # sym(c) /\ hex(v) # sym(c) /\ atom(v) # sym(c)
  BY Zenon DEF dec, hex, atom, sym
<1> QED
  BY <1>1, Zenon DEF Comma, Blank

\* The regular expressions want a word that the text does not have.
LEMMA NoExpression ==
  ASSUME NEW s
  PROVE  /\ (\A i \in DOMAIN s : s[i] # atom("ct")) => ctRe(s) = {}
         /\ (\A i \in DOMAIN s : s[i] # atom("resubmit")) => resubmitRe(s) = {}
         /\ (\A i \in DOMAIN s : s[i] # atom("resubmit:")) => resubmitPortRe(s) = {}
         /\ \A w : (\A i \in DOMAIN s : s[i] # atom(w)) => fieldRe(s, w) = {}
<1>1. ASSUME NEW m \in (DOMAIN s) \X (DOMAIN s) PROVE m[1] \in DOMAIN s
  OBVIOUS
<1>2. (\A i \in DOMAIN s : s[i] # atom("ct")) => ctRe(s) = {}
  BY <1>1, Zenon DEF ctRe
<1>3. (\A i \in DOMAIN s : s[i] # atom("resubmit")) => resubmitRe(s) = {}
  BY <1>1, Zenon DEF resubmitRe
<1>4. (\A i \in DOMAIN s : s[i] # atom("resubmit:")) => resubmitPortRe(s) = {}
  BY <1>1, Zenon DEF resubmitPortRe
<1>5. ASSUME NEW w, \A i \in DOMAIN s : s[i] # atom(w) PROVE fieldRe(s, w) = {}
  BY <1>1, <1>5, Zenon DEF fieldRe
<1> QED
  BY <1>2, <1>3, <1>4, <1>5

LEMMA WordEndIs ==
  ASSUME NEW s, IsSequence(s), NEW i \in 1 .. Len(s) + 1,
         \A k \in i .. Len(s) : s[k] # Blank
  PROVE  WordEnd(s, i) = Len(s)
<1>1. WordEnd(s, i) = CHOOSE j \in i - 1 .. Len(s) :
                        /\ \A k \in i .. j : s[k] # Blank
                        /\ j = Len(s) \/ s[j + 1] = Blank
  BY Zenon DEF WordEnd, NoSpace, Blank
<1>2. Len(s) \in Nat
  BY DEF IsSequence
<1> DEFINE W(j) == /\ \A k \in i .. j : s[k] # Blank
                   /\ j = Len(s) \/ s[j + 1] = Blank
<1>3. Len(s) \in i - 1 .. Len(s) /\ W(Len(s))
  BY <1>2
<1>4. \A j \in i - 1 .. Len(s) : W(j) => j = Len(s)
  <2> SUFFICES ASSUME NEW j \in i - 1 .. Len(s), W(j), j # Len(s) PROVE FALSE
    OBVIOUS
  <2>1. j + 1 \in i .. Len(s)
    BY <1>2
  <2> QED
    BY <2>1
<1>5. WordEnd(s, i) = CHOOSE j \in i - 1 .. Len(s) : W(j)
  BY <1>1
<1> HIDE DEF W
<1> QED
  BY <1>3, <1>4, <1>5

LEMMA ScanWord ==
  ASSUME NEW p, NEW q, q # Blank
  PROVE  ScanString(<<p, q>>) = <<q>>
<1> DEFINE s == <<p, q>>
<1>1. s \in Seq({p, q}) /\ Len(s) = 2 /\ s[2] = q /\ IsSequence(s)
  BY ShortSequences
<1> HIDE DEF s
<1>2. \A k \in 2 .. Len(s) : s[k] # Blank
  BY <1>1
<1>3. WordEnd(s, 2) = 2
  <2>1. 2 \in 1 .. Len(s) + 1
    BY <1>1
  <2> QED
    BY <1>1, <1>2, <2>1, WordEndIs
<1>4. SubSeq(s, 2, 2) = <<q>>
  <2> DEFINE t == SubSeq(s, 2, 2)
  <2>1. \A i \in 2 .. 2 : s[i] \in {p, q}
    BY <1>1
  <2>2. /\ t \in Seq({p, q}) /\ Len(t) = (IF 2 <= 2 THEN 2 - 2 + 1 ELSE 0)
        /\ \A i \in 1 .. 2 - 2 + 1 : t[i] = s[2 + i - 1]
    <3>1. 2 \in Int
      OBVIOUS
    <3> QED
      BY <2>1, <3>1, SubSeqProperties
  <2> HIDE DEF t
  <2>3. Len(t) = 1 /\ t[1] = q
    <3>1. 2 - 2 + 1 = 1 /\ 2 <= 2 /\ 2 + 1 - 1 = 2 /\ 1 \in 1 .. 1
      OBVIOUS
    <3> QED
      BY <1>1, <2>2, <3>1
  <2>4. t = <<q>>
    BY <2>2, <2>3
  <2> QED
    BY <2>4 DEF t
<1>5. ScanString(s) = <<q>>
  BY <1>3, <1>4 DEF ScanString
<1> QED
  BY <1>5 DEF s

\* A prefix with its operand is neither a text action nor ct.
LEMMA Prefixed ==
  ASSUME NEW w, w # "ct", NEW q, q # atom("ct")
  PROVE  /\ ~IsTextAction(<<atom(w), q>>) /\ ctRe(<<atom(w), q>>) = {}
         /\ \A v : HasPrefix(<<atom(w), q>>, v) <=> v = w
<1> DEFINE s == <<atom(w), q>>
<1>1. Len(s) = 2 /\ DOMAIN s = {1, 2} /\ s[1] = atom(w) /\ s[2] = q
  BY TwoPieces
<1>2. \A u, v : atom(u) = atom(v) <=> u = v
  BY DEF atom
<1> HIDE DEF s
<1>3. \A i \in DOMAIN s : s[i] # atom("ct")
  BY <1>1, <1>2
<1>4. ctRe(s) = {}
  BY <1>3, NoExpression
<1>5. ~IsTextAction(s)
  BY <1>1 DEF IsTextAction
<1>6. \A v : HasPrefix(s, v) <=> v = w
  BY <1>1, <1>2 DEF HasPrefix
<1> QED
  BY <1>4, <1>5, <1>6 DEF s

\* What each prefix chooses.
LEMMA ByPrefix ==
  ASSUME NEW w, w # "ct", NEW q, q # atom("ct")
  PROVE  LET s == <<atom(w), q>> IN
         /\ w = "mod_dl_dst:" => parseAction(s) = Built(modDataLink(s), ModDataLinkDestination)
         /\ w = "mod_dl_src:" => parseAction(s) = Built(modDataLink(s), ModDataLinkSource)
         /\ w = "mod_nw_dst:" => parseAction(s) = Built(modNetwork(s), ModNetworkDestination)
         /\ w = "mod_nw_src:" => parseAction(s) = Built(modNetwork(s), ModNetworkSource)
         /\ w = "mod_tp_dst:" =>
              parseAction(s) = Built(modTransport(s), ModTransportDestinationPort)
         /\ w = "mod_tp_src:" => parseAction(s) = Built(modTransport(s), ModTransportSourcePort)
         /\ w = "mod_vlan_vid:" => parseAction(s) = Built(number(s), ModVLANVID)
         /\ w = "output:" => parseAction(s) = Built(number(s), Output)
<1> DEFINE s == <<atom(w), q>>
<1>1. /\ ~IsTextAction(s) /\ ctRe(s) = {}
      /\ \A v : HasPrefix(s, v) <=> v = w
  BY Prefixed
<1> HIDE DEF s
<1>2. /\ w = "mod_dl_dst:" => parseAction(s) = Built(modDataLink(s), ModDataLinkDestination)
      /\ w = "mod_dl_src:" => parseAction(s) = Built(modDataLink(s), ModDataLinkSource)
      /\ w = "mod_nw_dst:" => parseAction(s) = Built(modNetwork(s), ModNetworkDestination)
      /\ w = "mod_nw_src:" => parseAction(s) = Built(modNetwork(s), ModNetworkSource)
  BY <1>1 DEF parseAction
<1>3. /\ w = "mod_tp_dst:" =>
           parseAction(s) = Built(modTransport(s), ModTransportDestinationPort)
      /\ w = "mod_tp_src:" => parseAction(s) = Built(modTransport(s), ModTransportSourcePort)
      /\ w = "mod_vlan_vid:" => parseAction(s) = Built(number(s), ModVLANVID)
      /\ w = "output:" => parseAction(s) = Built(number(s), Output)
  BY <1>1 DEF parseAction
<1> QED
  BY <1>2, <1>3 DEF s
\* An action that marshals is read back.
ReadBack(a) == ActionText(a).ok => ReadsAs(ActionText(a).val, a)

LEMMA ReadBackBy ==
  ASSUME NEW a, NEW w, NEW q, ActionText(a) = Ok(<<atom(w), q>>),
         q \notin {Comma, sym("("), sym(")")}, parseAction(<<atom(w), q>>) = Ok(a)
  PROVE  ReadBack(a)
<1>1. ActionText(a).val = <<atom(w), q>>
  BY Succeeds
<1>2. Passes(<<atom(w), q>>, 0, 0) /\ <<atom(w), q>> # <<>>
  <2>1. atom(w) \notin {Comma, sym("("), sym(")")}
    BY PlainPieces
  <2> QED
    BY <2>1, PassTwo
<1> QED
  BY <1>1, <1>2 DEF ReadBack, ReadsAs

LEMMA ModDataLinkReadBack ==
  ASSUME NEW v \in HardwareAddrs
  PROVE  ReadBack(ModDataLinkSource(v)) /\ ReadBack(ModDataLinkDestination(v))
<1> DEFINE q == HwString(v)
<1>1. q \notin {Comma, Blank, sym("("), sym(")")}
  BY PlainPieces DEF HwString
<1>2. ParseMAC(q) = Ok(v)
  BY MACRead
<1>3. CASE v.len # 6
  <2>1. /\ ActionText(ModDataLinkSource(v)) = Fail
        /\ ActionText(ModDataLinkDestination(v)) = Fail
    BY <1>3 DEF ActionText, modDataLinkAction_MarshalText, ModDataLinkSource,
                ModDataLinkDestination, modDataLinkAction
  <2> QED
    BY <2>1 DEF ReadBack, Fail
<1>4. CASE v.len = 6
  <2>1. /\ ActionText(ModDataLinkSource(v)) = Ok(<<atom("mod_dl_src:"), q>>)
        /\ ActionText(ModDataLinkDestination(v)) = Ok(<<atom("mod_dl_dst:"), q>>)
    BY <1>4 DEF ActionText, modDataLinkAction_MarshalText, ModDataLinkSource,
                ModDataLinkDestination, modDataLinkAction, Colon
  <2>2. ASSUME NEW w PROVE modDataLink(<<atom(w), q>>) = Ok(v)
    <3>1. ScanString(<<atom(w), q>>) = <<q>>
      BY <1>1, ScanWord
    <3> HIDE DEF q
    <3> QED
      BY <1>2, <3>1, OnePiece DEF modDataLink
  <2>3. q # atom("ct")
    <3>1. v.hw # "ct"
      BY DEF HardwareAddrs, MACs
    <3> QED
      BY <3>1 DEF HwString, atom
  <2> HIDE DEF q
  <2>4. /\ parseAction(<<atom("mod_dl_src:"), q>>)
             = Built(modDataLink(<<atom("mod_dl_src:"), q>>), ModDataLinkSource)
        /\ parseAction(<<atom("mod_dl_dst:"), q>>)
             = Built(modDataLink(<<atom("mod_dl_dst:"), q>>), ModDataLinkDestination)
    BY <2>3, ByPrefix
  <2>5. /\ parseAction(<<atom("mod_dl_src:"), q>>) = Ok(ModDataLinkSource(v))
        /\ parseAction(<<atom("mod_dl_dst:"), q>>) = Ok(ModDataLinkDestination(v))
    BY <2>2, <2>4, Succeeds DEF Built
  <2> QED
    BY <1>1, <2>1, <2>5, ReadBackBy
<1> QED
  BY <1>3, <1>4

LEMMA ModNetworkReadBack ==
  ASSUME NEW ip PROVE ReadBack(ModNetworkSource(ip)) /\ ReadBack(ModNetworkDestination(ip))
<1> DEFINE q == atom("ip4")
           v == IPs["ip4"]
<1>1. q \notin {Comma, Blank, sym("("), sym(")")} /\ q # atom("ct")
  <2>1. q # atom("ct")
    BY DEF atom
  <2> QED
    BY <2>1, PlainPieces
<1>2. ParseIP(<<q>>) = Ok(v) /\ v.v4 /\ IPString(v) = q
  <2>1. IsAtom(q) /\ q.atom = "ip4" /\ "ip4" \in DOMAIN IPs
    BY PieceKinds DEF IPs
  <2>2. ParseIP(<<q>>) = Ok(v)
    <3> HIDE DEF q
    <3> QED
      BY <2>1, OnePiece DEF ParseIP
  <2> QED
    BY <2>2 DEF IPs, IPString
<1>3. ASSUME NEW w PROVE modNetwork(<<atom(w), q>>) = Ok(v)
  <2>1. ScanString(<<atom(w), q>>) = <<q>>
    BY <1>1, ScanWord
  <2> HIDE DEF q, v
  <2> QED
    BY <1>2, <2>1, Succeeds DEF modNetwork
<1>4. CASE ip.v4
  <2>1. /\ ModNetworkSource(ip) = ModNetworkSource(v)
        /\ ModNetworkDestination(ip) = ModNetworkDestination(v)
        /\ ModNetworkSource(v).ip4 = Ok(v) /\ ModNetworkDestination(v).ip4 = Ok(v)
    BY <1>2, <1>4 DEF ModNetworkSource, ModNetworkDestination, modNetworkAction, To4
  <2>2. /\ ActionText(ModNetworkSource(v)) = Ok(<<atom("mod_nw_src:"), q>>)
        /\ ActionText(ModNetworkDestination(v)) = Ok(<<atom("mod_nw_dst:"), q>>)
    <3> HIDE DEF q, v
    <3>1. /\ ModNetworkSource(v).type = "modNetwork" /\ ModNetworkSource(v).srcdst = "src"
          /\ ModNetworkDestination(v).type = "modNetwork"
          /\ ModNetworkDestination(v).srcdst = "dst"
      BY DEF ModNetworkSource, ModNetworkDestination, modNetworkAction
    <3> QED
      BY <1>2, <2>1, <3>1, Succeeds DEF ActionText, modNetworkAction_MarshalText, Colon
  <2> HIDE DEF q, v
  <2>3. /\ parseAction(<<atom("mod_nw_src:"), q>>)
             = Built(modNetwork(<<atom("mod_nw_src:"), q>>), ModNetworkSource)
        /\ parseAction(<<atom("mod_nw_dst:"), q>>)
             = Built(modNetwork(<<atom("mod_nw_dst:"), q>>), ModNetworkDestination)
    BY <1>1, ByPrefix
  <2>4. /\ parseAction(<<atom("mod_nw_src:"), q>>) = Ok(ModNetworkSource(v))
        /\ parseAction(<<atom("mod_nw_dst:"), q>>) = Ok(ModNetworkDestination(v))
    BY <1>3, <2>3, Succeeds DEF Built
  <2> QED
    BY <1>1, <2>1, <2>2, <2>4, ReadBackBy
<1>5. CASE ~ip.v4
  <2>1. /\ ActionText(ModNetworkSource(ip)) = Fail
        /\ ActionText(ModNetworkDestination(ip)) = Fail
    BY <1>5 DEF ActionText, modNetworkAction_MarshalText, ModNetworkSource,
                ModNetworkDestination, modNetworkAction, To4, Fail
  <2> QED
    BY <2>1 DEF ReadBack, Fail
<1> QED
  BY <1>4, <1>5
\* The values of Go's int.
GoInts == (-(2 ^ (U64 - 1))) .. (2 ^ (U64 - 1) - 1)

LEMMA IntRead ==
  ASSUME NEW n \in GoInts
  PROVE  /\ n \in Int /\ Atoi(dec(n)) = Ok(n) /\ ScanInt(dec(n)) = Ok(n)
         /\ \A p : number(<<p, dec(n)>>) = Ok(n)
<1>1. U64 - 1 \in Nat
  BY WidthAssumption
<1>2. 2 ^ (U64 - 1) \in Nat \ {0}
  BY <1>1, PowerPositive
<1>3. n \in Int /\ -(2 ^ (U64 - 1)) <= n /\ n < 2 ^ (U64 - 1)
  BY <1>2 DEF GoInts
<1>4. IsDec(dec(n)) /\ dec(n).dec = n /\ ~IsHex(dec(n))
  BY PieceKinds
<1>5. Atoi(dec(n)) = Ok(n)
  BY <1>3, <1>4 DEF Atoi
<1>6. ScanInt(dec(n)) = Ok(n)
  BY <1>4, <1>5 DEF ScanInt
<1>7. ASSUME NEW p PROVE number(<<p, dec(n)>>) = Ok(n)
  <2>1. Len(<<p, dec(n)>>) > 1 /\ <<p, dec(n)>>[2] = dec(n)
    OBVIOUS
  <2> QED
    BY <1>6, <2>1 DEF number
<1> QED
  BY <1>3, <1>5, <1>6, <1>7

LEMMA NarrowInts ==
  ASSUME NEW b \in {U8, U12, U16, U32}, NEW n \in 0 .. MaxUint(b)
  PROVE  n \in GoInts
<1>1. n \in Nat /\ n < 2 ^ (U64 - 1) /\ 2 ^ (U64 - 1) \in Nat
  BY NarrowFits
<1> QED
  BY <1>1 DEF GoInts

\* A number is no word.
LEMMA NumberNoWord == ASSUME NEW n, NEW w PROVE dec(n) # atom(w) /\ hex(n) # atom(w)
  BY DEF dec, hex, atom

LEMMA ModTransportReadBack ==
  ASSUME NEW n \in 0 .. MaxUint(U16)
  PROVE  ReadBack(ModTransportSourcePort(n)) /\ ReadBack(ModTransportDestinationPort(n))
<1> DEFINE q == dec(n)
<1>1. q \notin {Comma, Blank, sym("("), sym(")")} /\ q # atom("ct")
  BY PlainPieces, NumberNoWord
<1>2. /\ ActionText(ModTransportSourcePort(n)) = Ok(<<atom("mod_tp_src:"), q>>)
      /\ ActionText(ModTransportDestinationPort(n)) = Ok(<<atom("mod_tp_dst:"), q>>)
  BY DEF ActionText, modTransportPortAction_MarshalText, ModTransportSourcePort,
         ModTransportDestinationPort, modTransportPortAction, Colon
<1>3. ScanInt(q) = Ok(n) /\ 0 <= n /\ n <= MaxUint(U16)
  <2>1. n \in GoInts
    BY NarrowInts
  <2>2. MaxUint(U16) \in Int
    BY LimitIs
  <2> QED
    BY <2>1, <2>2, IntRead
<1>4. ASSUME NEW w PROVE modTransport(<<atom(w), q>>) = Ok(n)
  <2>1. Len(<<atom(w), q>>) > 1 /\ <<atom(w), q>>[2] = q
    OBVIOUS
  <2> HIDE DEF q
  <2> QED
    BY <1>3, <2>1, Succeeds DEF modTransport, ScanUint16
<1> HIDE DEF q
<1>5. /\ parseAction(<<atom("mod_tp_src:"), q>>)
           = Built(modTransport(<<atom("mod_tp_src:"), q>>), ModTransportSourcePort)
      /\ parseAction(<<atom("mod_tp_dst:"), q>>)
           = Built(modTransport(<<atom("mod_tp_dst:"), q>>), ModTransportDestinationPort)
  BY <1>1, ByPrefix
<1>6. /\ parseAction(<<atom("mod_tp_src:"), q>>) = Ok(ModTransportSourcePort(n))
      /\ parseAction(<<atom("mod_tp_dst:"), q>>) = Ok(ModTransportDestinationPort(n))
  BY <1>4, <1>5, Succeeds DEF Built
<1> QED
  BY <1>1, <1>2, <1>6, ReadBackBy

LEMMA ModVLANReadBack == ASSUME NEW n \in Int PROVE ReadBack(ModVLANVID(n))
<1>1. CASE validVLANVID(n)
  <2>1. n \in 0 .. MaxUint(U12)
    <3>1. MaxUint(U12) \in Int
      BY LimitIs
    <3> QED
      BY <1>1, <3>1 DEF validVLANVID
  <2>2. n \in GoInts
    BY <2>1, NarrowInts
  <2>3. number(<<atom("mod_vlan_vid:"), dec(n)>>) = Ok(n)
    BY <2>2, IntRead
  <2>4. dec(n) \notin {Comma, Blank, sym("("), sym(")")} /\ dec(n) # atom("ct")
    BY PlainPieces, NumberNoWord
  <2>5. parseAction(<<atom("mod_vlan_vid:"), dec(n)>>) = Ok(ModVLANVID(n))
    <3>1. parseAction(<<atom("mod_vlan_vid:"), dec(n)>>)
            = Built(number(<<atom("mod_vlan_vid:"), dec(n)>>), ModVLANVID)
      BY <2>4, ByPrefix
    <3> QED
      BY <2>3, <3>1, Succeeds DEF Built
  <2>6. ActionText(ModVLANVID(n)) = Ok(<<atom("mod_vlan_vid:"), dec(n)>>)
    BY <1>1 DEF ActionText, modVLANVIDAction_MarshalText, ModVLANVID, Colon
  <2> QED
    BY <2>4, <2>5, <2>6, ReadBackBy
<1>2. CASE ~validVLANVID(n)
  <2>1. ActionText(ModVLANVID(n)) = Fail
    BY <1>2 DEF ActionText, modVLANVIDAction_MarshalText, ModVLANVID
  <2> QED
    BY <2>1 DEF ReadBack, Fail
<1> QED
  BY <1>1, <1>2

LEMMA OutputReadBack == ASSUME NEW n \in GoInts PROVE ReadBack(Output(n))
<1>1. CASE n >= 0
  <2>1. number(<<atom("output:"), dec(n)>>) = Ok(n) /\ n \in Int
    BY IntRead
  <2>2. dec(n) \notin {Comma, Blank, sym("("), sym(")")} /\ dec(n) # atom("ct")
    BY PlainPieces, NumberNoWord
  <2>3. parseAction(<<atom("output:"), dec(n)>>) = Ok(Output(n))
    <3>1. parseAction(<<atom("output:"), dec(n)>>)
            = Built(number(<<atom("output:"), dec(n)>>), Output)
      BY <2>2, ByPrefix
    <3> QED
      BY <2>1, <3>1, Succeeds DEF Built
  <2>4. ActionText(Output(n)) = Ok(<<atom("output:"), dec(n)>>)
    BY <1>1, <2>1 DEF ActionText, outputAction_MarshalText, Output, Colon
  <2> QED
    BY <2>2, <2>3, <2>4, ReadBackBy
<1>2. CASE ~(n >= 0)
  <2>1. ActionText(Output(n)) = Fail
    BY <1>2, IntRead DEF ActionText, outputAction_MarshalText, Output
  <2> QED
    BY <2>1 DEF ReadBack, Fail
<1> QED
  BY <1>1, <1>2
\* The leftmost, longest match.
LEMMA LeftmostIs ==
  ASSUME NEW found, found \subseteq Nat \X Nat, NEW m \in found,
         \A n \in found : m[1] < n[1] \/ (m[1] = n[1] /\ m[2] >= n[2])
  PROVE  Leftmost(found) = m
<1> DEFINE L(x) == \A n \in found : x[1] < n[1] \/ (x[1] = n[1] /\ x[2] >= n[2])
<1>1. L(m)
  OBVIOUS
<1>2. ASSUME NEW x \in found, L(x) PROVE x = m
  <2>1. x[1] \in Nat /\ x[2] \in Nat /\ m[1] \in Nat /\ m[2] \in Nat
    OBVIOUS
  <2>2. x[1] < m[1] \/ (x[1] = m[1] /\ x[2] >= m[2])
    BY <1>2
  <2>3. m[1] < x[1] \/ (m[1] = x[1] /\ m[2] >= x[2])
    OBVIOUS
  <2>4. x[1] = m[1] /\ x[2] = m[2]
    BY <2>1, <2>2, <2>3
  <2> QED
    BY <2>4
<1>3. Leftmost(found) = CHOOSE x \in found : L(x)
  BY DEF Leftmost
<1> HIDE DEF L
<1> QED
  BY <1>1, <1>2, <1>3

OtherActions(s) ==
  IF resubmitRe(s) # {} THEN parseResubmit(s)
  ELSE IF resubmitPortRe(s) # {} THEN parseResubmitPort(s)
  ELSE IF fieldRe(s, "load:") # {}
       THEN Ok(Load(fieldGroups(s, "load:")[1], fieldGroups(s, "load:")[2]))
  ELSE IF fieldRe(s, "set_field:") # {}
       THEN Ok(SetField(fieldGroups(s, "set_field:")[1], fieldGroups(s, "set_field:")[2]))
  ELSE Fail

\* No prefix applies: the regular expressions decide.
LEMMA ByExpression ==
  ASSUME NEW s, ~IsTextAction(s), ctRe(s) = {},
         NEW w \in {"resubmit", "resubmit:", "load:", "set_field:"}, s[1] = atom(w)
  PROVE  parseAction(s) = OtherActions(s)
<1>1. \A v : HasPrefix(s, v) => v = w
  <2>1. \A v : atom(v) = atom(w) => v = w
    BY DEF atom
  <2> QED
    BY <2>1 DEF HasPrefix
<1>2. /\ ~HasPrefix(s, "mod_dl_dst:") /\ ~HasPrefix(s, "mod_dl_src:")
      /\ ~HasPrefix(s, "mod_nw_dst:") /\ ~HasPrefix(s, "mod_nw_src:")
      /\ ~HasPrefix(s, "mod_tp_dst:") /\ ~HasPrefix(s, "mod_tp_src:")
      /\ ~HasPrefix(s, "mod_vlan_vid:") /\ ~HasPrefix(s, "conjunction")
      /\ ~HasPrefix(s, "output:")
  BY <1>1
<1> QED
  BY <1>2, Zenon DEF parseAction, OtherActions

LEMMA LargestPortFits == LargestPort \in 0 .. MaxUint(U32) /\ LargestPort + 1 \in 0 .. MaxUint(U32)
<1>1. /\ MaxUint(U32) = 2 ^ U32 - 1 /\ 2 ^ U32 \in Nat
      /\ 2 ^ U8 \in Nat \ {0} /\ U8 \in Nat /\ U32 \in Nat
  BY LimitIs
<1>2. 2 ^ U8 < 2 ^ U32
  BY <1>1, WidthAssumption, PowerMonotone
<1> QED
  BY <1>1, <1>2 DEF LargestPort

LEMMA ResubmitPortReadBack == ASSUME NEW n \in Int PROVE ReadBack(ResubmitPort(n))
<1>1. LargestPort \in 0 .. MaxUint(U32) /\ MaxUint(U32) \in Int
  BY LargestPortFits, LimitIs
<1>2. CASE 0 <= n /\ n <= LargestPort
  <2> DEFINE s == <<atom("resubmit:"), dec(n)>>
  <2>1. n \in 0 .. MaxUint(U32)
    BY <1>1, <1>2
  <2>2. Atoi(dec(n)) = Ok(n)
    BY <2>1, NarrowInts, IntRead
  <2>3. dec(n) \notin {Comma, Blank, sym("("), sym(")")} /\ \A w : dec(n) # atom(w)
    BY PlainPieces, NumberNoWord
  <2>4. s[1] = atom("resubmit:") /\ s[2] = dec(n) /\ DOMAIN s = {1, 2}
    BY TwoPieces
  <2>5. ~IsTextAction(s) /\ ctRe(s) = {}
    BY <2>3, Prefixed
  <2>6. atom("resubmit:") # atom("resubmit")
    BY DEF atom
  <2>7. IsDec(dec(n)) /\ dec(n).dec = n
    BY PieceKinds
  <2> HIDE DEF s
  <2>8. parseAction(s) = OtherActions(s)
    BY <2>4, <2>5, ByExpression
  <2>9. resubmitRe(s) = {}
    BY <2>3, <2>4, <2>6, NoExpression
  <2>10. resubmitPortRe(s) = {<<1, 2>>}
    <3>1. ASSUME NEW m \in resubmitPortRe(s) PROVE m = <<1, 2>>
      <4>1. m \in {1, 2} \X {1, 2} /\ m[2] = m[1] + 1
        BY <2>4 DEF resubmitPortRe
      <4> QED
        BY <4>1
    <3>2. <<1, 2>> \in resubmitPortRe(s)
      <4>1. <<1, 2>>[1] = 1 /\ <<1, 2>>[2] = 2 /\ 2 = 1 + 1 /\ <<1, 2>> \in {1, 2} \X {1, 2}
        OBVIOUS
      <4> QED
        BY <1>2, <2>4, <2>7, <4>1 DEF resubmitPortRe
    <3> QED
      BY <3>1, <3>2
  <2>11. Leftmost({<<1, 2>>}) = <<1, 2>>
    <3> DEFINE m == <<1, 2>>
    <3>1. {m} \subseteq Nat \X Nat /\ m \in {m}
      OBVIOUS
    <3>2. \A x \in {m} : m[1] < x[1] \/ (m[1] = x[1] /\ m[2] >= x[2])
      OBVIOUS
    <3> HIDE DEF m
    <3>3. Leftmost({m}) = m
      BY <3>1, <3>2, LeftmostIs
    <3> QED
      BY <3>3 DEF m
  <2>12. parseResubmitPort(s) = Ok(ResubmitPort(n))
    <3>1. <<1, 2>>[2] = 2
      OBVIOUS
    <3>2. Atoi(s[Leftmost(resubmitPortRe(s))[2]]) = Ok(n)
      BY <2>2, <2>4, <2>10, <2>11, <3>1
    <3> QED
      BY <3>2, Succeeds DEF parseResubmitPort
  <2>13. parseAction(s) = Ok(ResubmitPort(n))
    BY <2>8, <2>9, <2>10, <2>12 DEF OtherActions
  <2>14. ActionText(ResubmitPort(n)) = Ok(s)
    <3>1. ResubmitPort(n).type = "resubmitPort" /\ ResubmitPort(n).port = n
      BY DEF ResubmitPort
    <3>2. ~(n < 0 \/ n > LargestPort)
      BY <1>1, <1>2
    <3> QED
      BY <3>1, <3>2 DEF ActionText, resubmitPortAction_MarshalText, Colon, s
  <2> QED
    BY <2>3, <2>13, <2>14, ReadBackBy DEF s
<1>3. CASE ~(0 <= n /\ n <= LargestPort)
  <2>1. n < 0 \/ n > LargestPort
    BY <1>1, <1>3
  <2>2. ActionText(ResubmitPort(n)) = Fail
    BY <2>1 DEF ActionText, resubmitPortAction_MarshalText, ResubmitPort
  <2> QED
    BY <2>2 DEF ReadBack, Fail
<1> QED
  BY <1>2, <1>3
\* A word, and a list in parentheses: the last piece closes them.
LEMMA PassParentheses ==
  ASSUME NEW s, IsSequence(s), Len(s) >= 3, s[2] = sym("("), s[Len(s)] = sym(")"),
         s[1] \notin {Comma, sym("("), sym(")")},
         \A k \in 3 .. Len(s) - 1 : s[k] \notin {sym("("), sym(")")}
  PROVE  Passes(s, 0, 0) /\ s # <<>>
<1> DEFINE N == Len(s)
           d == [k \in 0 .. N |-> IF k \in 2 .. N - 1 THEN 1 ELSE 0]
<1>1. N \in Nat /\ N >= 3
  BY DEF IsSequence
<1>2. d \in [0 .. N -> Nat] /\ d[0] = 0 /\ d[N] = 0
  BY <1>1
<1>3. sym("(") # sym(")")
  BY DEF sym
<1>4. ASSUME NEW k \in 1 .. N PROVE Moves(s[k], d[k - 1], d[k])
  <2>1. CASE k = 1
    <3>1. d[k - 1] = 0 /\ d[k] = 0
      BY <1>1, <2>1
    <3> QED
      BY <2>1, <3>1 DEF Moves
  <2>2. CASE k = 2
    <3>1. d[k - 1] = 0 /\ d[k] = 1
      BY <1>1, <2>2
    <3> QED
      BY <1>3, <2>2, <3>1, Symbols DEF Moves
  <2>3. CASE k \in 3 .. N - 1
    <3>1. d[k - 1] = 1 /\ d[k] = 1
      BY <1>1, <2>3
    <3> QED
      BY <2>3, <3>1 DEF Moves
  <2>4. CASE k = N
    <3>1. d[k - 1] = 1 /\ d[k] = 0
      BY <1>1, <2>4
    <3> QED
      BY <1>3, <2>4, <3>1, Symbols DEF Moves
  <2> QED
    BY <1>1, <2>1, <2>2, <2>3, <2>4
<1> HIDE DEF d
<1>5. Nested(s, 0)
  BY <1>2, <1>4 DEF Nested
<1>6. Len(<<>>) = 0
  OBVIOUS
<1> QED
  BY <1>1, <1>5, <1>6, PassNested

LEMMA EightPieces ==
  ASSUME NEW a, NEW b, NEW c, NEW d, NEW e, NEW f, NEW g, NEW h
  PROVE  LET s == <<a, b, c, d, e, f, g, h>> IN
         /\ IsSequence(s) /\ Len(s) = 8 /\ DOMAIN s = 1 .. 8
         /\ s[1] = a /\ s[2] = b /\ s[3] = c /\ s[4] = d /\ s[5] = e
         /\ s[6] = f /\ s[7] = g /\ s[8] = h
<1> DEFINE s == <<a, b, c, d, e, f, g, h>>
<1>1. s \in Seq({a, b, c, d, e, f, g, h})
  OBVIOUS
<1>2. IsSequence(s)
  <2> HIDE DEF s
  <2> QED
    BY <1>1 DEF IsSequence
<1>3. /\ Len(s) = 8 /\ DOMAIN s = 1 .. 8
      /\ s[1] = a /\ s[2] = b /\ s[3] = c /\ s[4] = d /\ s[5] = e
      /\ s[6] = f /\ s[7] = g /\ s[8] = h
  OBVIOUS
<1> QED
  BY <1>2, <1>3

LEMMA ConjunctionReadBack ==
  ASSUME NEW i \in GoInts, NEW n \in GoInts, NEW k \in GoInts
  PROVE  ReadBack(Conjunction(i, n, k))
<1> DEFINE a == Conjunction(i, n, k)
           s == <<atom("conjunction"), sym("("), dec(i), Comma, dec(n), sym("/"),
                  dec(k), sym(")")>>
<1>1. /\ a.type = "conjunction" /\ a.id = i /\ a.number = n /\ a.size = k
  BY DEF Conjunction
<1>2. /\ IsSequence(s) /\ Len(s) = 8 /\ DOMAIN s = 1 .. 8
      /\ s[1] = atom("conjunction") /\ s[2] = sym("(") /\ s[3] = dec(i)
      /\ s[4] = Comma /\ s[5] = dec(n) /\ s[6] = sym("/") /\ s[7] = dec(k)
      /\ s[8] = sym(")")
  BY EightPieces
<1>3. CASE n > k
  <2>1. ActionText(a) = Fail
    <3> HIDE DEF a
    <3>1. ActionText(a) = conjunctionAction_MarshalText(a)
      BY <1>1 DEF ActionText
    <3> QED
      BY <1>1, <1>3, <3>1, Zenon DEF conjunctionAction_MarshalText
  <2> QED
    BY <2>1 DEF ReadBack, Fail
<1>4. CASE ~(n > k)
  <2>1. ActionText(a) = Ok(s)
    <3>1. ActionText(a) = conjunctionAction_MarshalText(a)
      <4> HIDE DEF a
      <4> QED
        BY <1>1 DEF ActionText
    <3> HIDE DEF a
    <3> QED
      BY <1>1, <1>4, <3>1, Zenon DEF conjunctionAction_MarshalText, s, Comma
  <2>2. Passes(s, 0, 0) /\ s # <<>>
    <3> HIDE DEF s
    <3>1. /\ \A v : dec(v) \notin {Comma, sym("("), sym(")")}
          /\ atom("conjunction") \notin {Comma, sym("("), sym(")")}
      BY PlainPieces
    <3>2. sym("/") \notin {sym("("), sym(")")} /\ Comma \notin {sym("("), sym(")")}
      <4>1. sym("/") \notin {sym("("), sym(")")}
        BY DEF sym
      <4> QED
        BY <4>1, Symbols
    <3>3. \A j \in 3 .. Len(s) - 1 : s[j] \notin {sym("("), sym(")")}
      <4> SUFFICES ASSUME NEW j \in 3 .. 7 PROVE s[j] \notin {sym("("), sym(")")}
        BY <1>2
      <4>1. j = 3 \/ j = 4 \/ j = 5 \/ j = 6 \/ j = 7
        OBVIOUS
      <4> QED
        BY <1>2, <3>1, <3>2, <4>1
    <3>4. Len(s) >= 3 /\ s[Len(s)] = sym(")") /\ s[1] \notin {Comma, sym("("), sym(")")}
      BY <1>2, <3>1
    <3> QED
      BY <1>2, <3>3, <3>4, PassParentheses
  <2>3. parseAction(s) = Ok(a)
    <3>1. ScanInt(s[3]) = Ok(i) /\ ScanInt(s[5]) = Ok(n) /\ ScanInt(s[7]) = Ok(k)
      BY <1>2, IntRead
    <3> HIDE DEF s
    <3>2. /\ ScanInt(s[3]).ok /\ ScanInt(s[5]).ok /\ ScanInt(s[7]).ok
          /\ ScanInt(s[3]).val = i /\ ScanInt(s[5]).val = n /\ ScanInt(s[7]).val = k
      BY <3>1, Succeeds
    <3>3. Len(s) >= 8 /\ \A j \in {3, 5, 7} : IsDec(s[j]) /\ ScanInt(s[j]).ok
      BY <1>2, <3>2, PieceKinds
    <3>4. parseConjunction(s) = Ok(a)
      BY <1>2, <3>2, <3>3, Zenon DEF parseConjunction, Comma
    <3>5. ~IsTextAction(s)
      BY <1>2 DEF IsTextAction
    <3>6. ctRe(s) = {}
      <4>1. \A j \in DOMAIN s : s[j] # atom("ct")
        <5> SUFFICES ASSUME NEW j \in 1 .. 8 PROVE s[j] # atom("ct")
          BY <1>2
        <5>1. /\ \A v : dec(v) # atom("ct")
              /\ sym("(") # atom("ct") /\ sym(")") # atom("ct") /\ sym("/") # atom("ct")
              /\ Comma # atom("ct") /\ atom("conjunction") # atom("ct")
          <6>1. /\ sym("(") # atom("ct") /\ sym(")") # atom("ct") /\ sym("/") # atom("ct")
                /\ atom("conjunction") # atom("ct")
            BY DEF sym, atom
          <6> QED
            BY <6>1, NumberNoWord, Symbols
        <5>2. \/ j = 1 \/ j = 2 \/ j = 3 \/ j = 4 \/ j = 5 \/ j = 6 \/ j = 7 \/ j = 8
          OBVIOUS
        <5> QED
          BY <1>2, <5>1, <5>2
      <4> QED
        BY <4>1, NoExpression
    <3>7. \A v : HasPrefix(s, v) <=> v = "conjunction"
      <4>1. \A u, v : atom(u) = atom(v) <=> u = v
        BY DEF atom
      <4> QED
        BY <1>2, <4>1 DEF HasPrefix
    <3>8. parseAction(s) = parseConjunction(s)
      BY <3>5, <3>6, <3>7 DEF parseAction
    <3> QED
      BY <3>4, <3>8
  <2> HIDE DEF s, a
  <2>4. ActionText(a).val = s
    BY <2>1, Succeeds
  <2> QED
    BY <2>2, <2>3, <2>4 DEF ReadBack, ReadsAs, a
<1> QED
  BY <1>3, <1>4
\* "resubmit(p,t)" with the comma at j; zero is written as nothing.
ResubmitText(s, j, p, t) ==
  /\ IsSequence(s) /\ j \in {3, 4} /\ Len(s) \in {j + 1, j + 2}
  /\ s[1] = atom("resubmit") /\ s[2] = sym("(") /\ s[j] = Comma /\ s[Len(s)] = sym(")")
  /\ j = 4 => s[3] = dec(p)
  /\ j = 3 => p = 0
  /\ Len(s) = j + 2 => s[j + 1] = dec(t)
  /\ Len(s) = j + 1 => t = 0

LEMMA ResubmitPieces ==
  ASSUME NEW s, NEW j, NEW p, NEW t, ResubmitText(s, j, p, t)
  PROVE  /\ DOMAIN s = 1 .. Len(s) /\ Len(s) \in Nat /\ j \in DOMAIN s /\ 1 \in DOMAIN s
         /\ \A k \in DOMAIN s :
              \/ k = 1 \/ k = 2 \/ k = j \/ k = Len(s)
              \/ s[k] = dec(p) \/ s[k] = dec(t)
         /\ \A k \in DOMAIN s : s[k] = atom("resubmit") => k = 1
         /\ \A k \in DOMAIN s : s[k] = Comma => k = j
         /\ \A k \in 3 .. Len(s) - 1 : s[k] \notin {sym("("), sym(")")}
         /\ \A k \in DOMAIN s : s[k] # atom("ct")
<1> DEFINE N == Len(s)
<1>1. N \in Nat /\ DOMAIN s = 1 .. N
  BY DEF ResubmitText, IsSequence
<1>2. j \in {3, 4} /\ N \in {j + 1, j + 2}
  BY DEF ResubmitText
<1>3. /\ s[1] = atom("resubmit") /\ s[2] = sym("(") /\ s[j] = Comma /\ s[N] = sym(")")
      /\ j = 4 => s[3] = dec(p)
      /\ N = j + 2 => s[j + 1] = dec(t)
  BY DEF ResubmitText
<1> HIDE DEF N
<1>4. ASSUME NEW k \in 1 .. N
      PROVE  k = 1 \/ k = 2 \/ k = j \/ k = N \/ s[k] = dec(p) \/ s[k] = dec(t)
  <2>1. \/ k = 1 \/ k = 2 \/ k = j \/ k = N
        \/ (k = 3 /\ j = 4) \/ (k = j + 1 /\ N = j + 2)
    BY <1>1, <1>2
  <2> QED
    BY <1>3, <2>1
<1>5. /\ atom("resubmit") # sym("(") /\ atom("resubmit") # sym(")")
      /\ atom("resubmit") # atom("ct") /\ sym("(") # atom("ct") /\ sym(")") # atom("ct")
  BY DEF atom, sym
<1>6. \A v : /\ dec(v) # atom("resubmit") /\ dec(v) # atom("ct")
             /\ dec(v) \notin {Comma, sym("("), sym(")")}
  BY NumberNoWord, PlainPieces
<1>7. \A k \in 1 .. N : s[k] = atom("resubmit") => k = 1
  BY <1>4, <1>5, <1>6, <1>3, Symbols
<1>8. \A k \in 1 .. N : s[k] = Comma => k = j
  BY <1>4, <1>6, <1>3, Symbols
<1>9. \A k \in 1 .. N : s[k] # atom("ct")
  BY <1>4, <1>5, <1>6, <1>3, Symbols
<1>10. ASSUME NEW k \in 3 .. N - 1 PROVE s[k] \notin {sym("("), sym(")")}
  <2>1. k \in 1 .. N /\ k # 1 /\ k # 2 /\ k # N
    BY <1>1
  <2>2. k = j \/ s[k] = dec(p) \/ s[k] = dec(t)
    BY <1>4, <2>1
  <2> QED
    BY <1>6, <1>3, <2>2, Symbols
<1>11. j \in 1 .. N /\ 1 \in 1 .. N
  BY <1>1, <1>2
<1> QED
  BY <1>1, <1>4, <1>7, <1>8, <1>9, <1>10, <1>11 DEF N

Digits(s, a, b) == b < a \/ (b = a /\ IsDec(s[a]) /\ s[a].dec >= 0)

LEMMA ResubmitFound ==
  ASSUME NEW s, NEW j, NEW p \in Nat, NEW t \in Nat, ResubmitText(s, j, p, t)
  PROVE  resubmitRe(s) = {<<1, j>>}
<1>1. resubmitRe(s) =
        {m \in (DOMAIN s) \X (DOMAIN s) :
           /\ m[1] + 1 < m[2]
           /\ s[m[1]] = atom("resubmit") /\ s[m[1] + 1] = sym("(") /\ s[m[2]] = Comma
           /\ Digits(s, m[1] + 2, m[2] - 1)
           /\ \E k \in m[2] + 1 .. Len(s) : s[k] = sym(")") /\ Digits(s, m[2] + 1, k - 1)}
  BY Zenon DEF resubmitRe, Comma, Digits
<1>2. /\ DOMAIN s = 1 .. Len(s) /\ Len(s) \in Nat /\ j \in DOMAIN s /\ 1 \in DOMAIN s
      /\ \A k \in DOMAIN s : s[k] = atom("resubmit") => k = 1
      /\ \A k \in DOMAIN s : s[k] = Comma => k = j
  BY ResubmitPieces
<1>3. ASSUME NEW m \in resubmitRe(s) PROVE m = <<1, j>>
  <2>1. m \in (DOMAIN s) \X (DOMAIN s) /\ s[m[1]] = atom("resubmit") /\ s[m[2]] = Comma
    BY <1>1
  <2>2. m = <<m[1], m[2]>> /\ m[1] \in DOMAIN s /\ m[2] \in DOMAIN s
    BY <2>1
  <2> QED
    BY <1>2, <2>1, <2>2
<1>4. <<1, j>> \in resubmitRe(s)
  <2> DEFINE m == <<1, j>>
  <2>1. m \in (DOMAIN s) \X (DOMAIN s) /\ m[1] = 1 /\ m[2] = j
    BY <1>2
  <2>2. /\ s[1] = atom("resubmit") /\ s[2] = sym("(") /\ s[j] = Comma
        /\ s[Len(s)] = sym(")") /\ j \in {3, 4} /\ Len(s) \in {j + 1, j + 2}
        /\ j = 4 => s[3] = dec(p)
        /\ Len(s) = j + 2 => s[j + 1] = dec(t)
    BY DEF ResubmitText
  <2>3. \A v \in Nat : IsDec(dec(v)) /\ dec(v).dec >= 0
    BY PieceKinds
  <2>4. Digits(s, 3, j - 1)
    <3>1. CASE j = 3
      BY <3>1 DEF Digits
    <3>2. CASE j = 4
      BY <2>2, <2>3, <3>2 DEF Digits
    <3> QED
      BY <2>2, <3>1, <3>2
  <2>5. Digits(s, j + 1, Len(s) - 1)
    <3>1. CASE Len(s) = j + 1
      BY <2>2, <3>1 DEF Digits
    <3>2. CASE Len(s) = j + 2
      <4>1. Len(s) - 1 = j + 1
        BY <2>2, <3>2
      <4> QED
        BY <2>2, <2>3, <3>2, <4>1 DEF Digits
    <3> QED
      BY <2>2, <3>1, <3>2
  <2>6. Len(s) \in j + 1 .. Len(s) /\ 1 + 1 < j /\ 1 + 1 = 2 /\ 1 + 2 = 3
    BY <1>2, <2>2
  <2> HIDE DEF m
  <2>7. m \in resubmitRe(s)
    <3>1. m[1] + 1 < m[2] /\ m[1] + 1 = 2 /\ m[1] + 2 = 3
      BY <2>1, <2>6
    <3>2. s[m[1]] = atom("resubmit") /\ s[m[1] + 1] = sym("(") /\ s[m[2]] = Comma
      BY <2>1, <2>2, <3>1, Zenon
    <3>3. Digits(s, m[1] + 2, m[2] - 1)
      BY <2>1, <2>4, <3>1, Zenon
    <3>4. \E k \in m[2] + 1 .. Len(s) : s[k] = sym(")") /\ Digits(s, m[2] + 1, k - 1)
      BY <2>1, <2>2, <2>5, <2>6, Zenon
    <3> QED
      BY <1>1, <2>1, <3>1, <3>2, <3>3, <3>4, Zenon
  <2> QED
    BY <2>7 DEF m
<1> QED
  BY <1>3, <1>4

LEMMA ResubmitParsed ==
  ASSUME NEW s, NEW j, NEW p \in Nat, NEW t \in Nat, p \in GoInts, t \in GoInts,
         ResubmitText(s, j, p, t)
  PROVE  ReadsAs(s, Resubmit(p, t))
<1>1. /\ DOMAIN s = 1 .. Len(s) /\ Len(s) \in Nat
      /\ \A k \in 3 .. Len(s) - 1 : s[k] \notin {sym("("), sym(")")}
      /\ \A k \in DOMAIN s : s[k] # atom("ct")
  BY ResubmitPieces
<1>2. /\ s[1] = atom("resubmit") /\ s[2] = sym("(") /\ s[j] = Comma
      /\ s[Len(s)] = sym(")") /\ j \in {3, 4} /\ Len(s) \in {j + 1, j + 2}
      /\ IsSequence(s)
      /\ j = 4 => s[3] = dec(p)
      /\ j = 3 => p = 0
      /\ Len(s) = j + 2 => s[j + 1] = dec(t)
      /\ Len(s) = j + 1 => t = 0
  BY DEF ResubmitText
<1>3. Passes(s, 0, 0) /\ s # <<>>
  <2>1. s[1] \notin {Comma, sym("("), sym(")")}
    BY <1>2, PlainPieces
  <2>2. Len(s) >= 3
    BY <1>2
  <2> QED
    BY <1>1, <1>2, <2>1, <2>2, PassParentheses
<1>4. ctRe(s) = {} /\ ~IsTextAction(s)
  <2>1. Len(s) # 1
    BY <1>2
  <2> QED
    BY <1>1, <2>1, NoExpression DEF IsTextAction
<1>5. parseAction(s) = OtherActions(s)
  BY <1>2, <1>4, ByExpression
<1>6. resubmitRe(s) = {<<1, j>>}
  BY ResubmitFound
<1>7. Leftmost({<<1, j>>}) = <<1, j>>
  <2> DEFINE m == <<1, j>>
  <2>1. {m} \subseteq Nat \X Nat /\ m \in {m}
    BY <1>2
  <2>2. \A x \in {m} : m[1] < x[1] \/ (m[1] = x[1] /\ m[2] >= x[2])
    BY <1>2
  <2> HIDE DEF m
  <2>3. Leftmost({m}) = m
    BY <2>1, <2>2, LeftmostIs
  <2> QED
    BY <2>3 DEF m
<1> DEFINE port  == IF j > 3 THEN Atoi(s[3]) ELSE Ok(0)
           table == IF s[j + 1] # sym(")") THEN Atoi(s[j + 1]) ELSE Ok(0)
<1>8. Atoi(dec(p)) = Ok(p) /\ Atoi(dec(t)) = Ok(t)
  BY IntRead
<1>9. port = Ok(p)
  BY <1>2, <1>8
<1>10. table = Ok(t)
  <2>1. CASE Len(s) = j + 1
    BY <1>2, <2>1
  <2>2. CASE Len(s) = j + 2
    <3>1. dec(t) # sym(")")
      BY PlainPieces
    <3>2. s[j + 1] = dec(t)
      BY <1>2, <2>2
    <3> QED
      BY <1>8, <3>1, <3>2
  <2> QED
    BY <1>2, <2>1, <2>2
<1>11. parseResubmit(s) =
         IF port.ok /\ table.ok THEN Ok(Resubmit(port.val, table.val)) ELSE Fail
  <2>1. <<1, j>>[1] = 1 /\ <<1, j>>[2] = j /\ 1 + 2 = 3
    OBVIOUS
  <2> QED
    BY <1>6, <1>7, <2>1 DEF parseResubmit
<1> HIDE DEF port, table
<1>12. parseResubmit(s) = Ok(Resubmit(p, t))
  BY <1>9, <1>10, <1>11, Succeeds
<1>13. parseAction(s) = Ok(Resubmit(p, t))
  BY <1>5, <1>6, <1>12 DEF OtherActions
<1> QED
  BY <1>3, <1>13 DEF ReadsAs
\* One piece more.
Then(x, e) == x \o <<e>>

\* y is x and then e.
Grown(x, e, y) ==
  /\ IsSequence(y) /\ Len(x) \in Nat /\ Len(y) = Len(x) + 1
  /\ y[Len(x) + 1] = e
  /\ \A k \in 1 .. Len(x) : y[k] = x[k]

LEMMA OneAfter ==
  ASSUME NEW x, IsSequence(x), NEW e
  PROVE  Grown(x, e, Then(x, e))
<1>1. PICK S : x \in Seq(S)
  BY DEF IsSequence
<1>2. x \in Seq(S \cup {e}) /\ Append(x, e) = Then(x, e) /\ IsSequence(Append(x, e))
  BY <1>1, GluedOne DEF Then
<1>3. /\ Len(x) \in Nat /\ Len(Append(x, e)) = Len(x) + 1
      /\ Append(x, e)[Len(x) + 1] = e
      /\ \A k \in 1 .. Len(x) : Append(x, e)[k] = x[k]
  BY <1>2
<1> QED
  BY <1>2, <1>3, Zenon DEF Grown

LEMMA NothingAfter == ASSUME NEW x, IsSequence(x) PROVE x \o <<>> = x
<1>1. PICK S : x \in Seq(S)
  BY DEF IsSequence
<1> QED
  BY <1>1, ConcatEmptySeq

FiveText(a, b, c, d, e) == <<a, b>> \o <<c>> \o <<d>> \o <<e>>

FiveAre(s, a, b, c, d, e) ==
  /\ IsSequence(s) /\ Len(s) = 5
  /\ s[1] = a /\ s[2] = b /\ s[3] = c /\ s[4] = d /\ s[5] = e

LEMMA FivePieces ==
  ASSUME NEW a, NEW b, NEW c, NEW d, NEW e
  PROVE  FiveAre(FiveText(a, b, c, d, e), a, b, c, d, e)
<1> DEFINE x2 == <<a, b>>
           x3 == Then(x2, c)
           x4 == Then(x3, d)
           x5 == Then(x4, e)
<1>1. x5 = FiveText(a, b, c, d, e)
  BY Zenon DEF Then, FiveText
<1>2. IsSequence(x2) /\ Len(x2) = 2 /\ x2[1] = a /\ x2[2] = b
  BY ShortSequences
<1> HIDE DEF x2
<1>3. /\ IsSequence(x3) /\ Len(x3) = 3
      /\ x3[1] = a /\ x3[2] = b /\ x3[3] = c
  <2>1. Grown(x2, c, x3)
    BY <1>2, OneAfter, Zenon
  <2> HIDE DEF x3
  <2> QED
    BY <1>2, <2>1 DEF Grown
<1> HIDE DEF x3
<1>4. /\ IsSequence(x4) /\ Len(x4) = 4
      /\ x4[1] = a /\ x4[2] = b /\ x4[3] = c /\ x4[4] = d
  <2>1. Grown(x3, d, x4)
    BY <1>3, OneAfter, Zenon
  <2> HIDE DEF x4
  <2> QED
    BY <1>3, <2>1 DEF Grown
<1> HIDE DEF x4
<1>5. /\ IsSequence(x5) /\ Len(x5) = 5
      /\ x5[1] = a /\ x5[2] = b /\ x5[3] = c /\ x5[4] = d /\ x5[5] = e
  <2>1. Grown(x4, e, x5)
    BY <1>4, OneAfter, Zenon
  <2> HIDE DEF x5
  <2> QED
    BY <1>4, <2>1 DEF Grown
<1> HIDE DEF x5
<1> QED
  BY <1>1, <1>5, Zenon DEF FiveAre

SixText(a, b, c, d, e, f) == <<a, b>> \o <<c>> \o <<d>> \o <<e>> \o <<f>>

SixAre(s, a, b, c, d, e, f) ==
  /\ IsSequence(s) /\ Len(s) = 6
  /\ s[1] = a /\ s[2] = b /\ s[3] = c /\ s[4] = d /\ s[5] = e /\ s[6] = f

LEMMA SixPieces ==
  ASSUME NEW a, NEW b, NEW c, NEW d, NEW e, NEW f
  PROVE  SixAre(SixText(a, b, c, d, e, f), a, b, c, d, e, f)
<1> DEFINE x2 == <<a, b>>
           x3 == Then(x2, c)
           x4 == Then(x3, d)
           x5 == Then(x4, e)
           x6 == Then(x5, f)
<1>1. x6 = SixText(a, b, c, d, e, f)
  BY Zenon DEF Then, SixText
<1>2. IsSequence(x2) /\ Len(x2) = 2 /\ x2[1] = a /\ x2[2] = b
  BY ShortSequences
<1> HIDE DEF x2
<1>3. /\ IsSequence(x3) /\ Len(x3) = 3
      /\ x3[1] = a /\ x3[2] = b /\ x3[3] = c
  <2>1. Grown(x2, c, x3)
    BY <1>2, OneAfter, Zenon
  <2> HIDE DEF x3
  <2> QED
    BY <1>2, <2>1 DEF Grown
<1> HIDE DEF x3
<1>4. /\ IsSequence(x4) /\ Len(x4) = 4
      /\ x4[1] = a /\ x4[2] = b /\ x4[3] = c /\ x4[4] = d
  <2>1. Grown(x3, d, x4)
    BY <1>3, OneAfter, Zenon
  <2> HIDE DEF x4
  <2> QED
    BY <1>3, <2>1 DEF Grown
<1> HIDE DEF x4
<1>5. /\ IsSequence(x5) /\ Len(x5) = 5
      /\ x5[1] = a /\ x5[2] = b /\ x5[3] = c /\ x5[4] = d /\ x5[5] = e
  <2>1. Grown(x4, e, x5)
    BY <1>4, OneAfter, Zenon
  <2> HIDE DEF x5
  <2> QED
    BY <1>4, <2>1 DEF Grown
<1> HIDE DEF x5
<1>6. /\ IsSequence(x6) /\ Len(x6) = 6
      /\ x6[1] = a /\ x6[2] = b /\ x6[3] = c /\ x6[4] = d /\ x6[5] = e /\ x6[6] = f
  <2>1. Grown(x5, f, x6)
    BY <1>5, OneAfter, Zenon
  <2> HIDE DEF x6
  <2> QED
    BY <1>5, <2>1 DEF Grown
<1> HIDE DEF x6
<1> QED
  BY <1>1, <1>6, Zenon DEF SixAre

LEMMA ResubmitReadBack ==
  ASSUME NEW p \in Nat, NEW t \in Nat, p \in GoInts, t \in GoInts
  PROVE  ReadBack(Resubmit(p, t))
<1> DEFINE a == Resubmit(p, t)
           r == atom("resubmit")
           o == sym("(")
           c == sym(")")
<1>1. a.type = "resubmit" /\ a.port = p /\ a.table = t
  BY DEF Resubmit
<1>2. ActionText(a) = resubmitAction_MarshalText(a)
  <2> HIDE DEF a
  <2> QED
    BY <1>1 DEF ActionText
<1>3. CASE p = 0 /\ t = 0
  <2>1. ActionText(a) = Fail
    <3> HIDE DEF a
    <3> QED
      BY <1>1, <1>2, <1>3, Zenon DEF resubmitAction_MarshalText
  <2> QED
    BY <2>1 DEF ReadBack, Fail
<1>4. CASE ~(p = 0 /\ t = 0)
  <2> DEFINE s == <<r, o>> \o Itoa0(p) \o <<Comma>> \o Itoa0(t) \o <<c>>
  <2>1. ActionText(a) = Ok(s)
    <3> HIDE DEF a
    <3> QED
      BY <1>1, <1>2, <1>4, Zenon DEF resubmitAction_MarshalText, Comma
  <2> HIDE DEF r, o, c
  <2>2. \E j : ResubmitText(s, j, p, t)
    <3>1. CASE p = 0
      <4> DEFINE x == FiveText(r, o, Comma, dec(t), c)
      <4>1. Itoa0(p) = <<>> /\ Itoa0(t) = <<dec(t)>>
        BY <1>4, <3>1 DEF Itoa0
      <4>2. <<r, o>> \o <<>> = <<r, o>>
        BY ShortSequences, NothingAfter
      <4>3. s = x
        BY <4>1, <4>2, Zenon DEF FiveText
      <4>4. FiveAre(x, r, o, Comma, dec(t), c)
        BY FivePieces, Zenon
      <4> HIDE DEF x, s
      <4>5. ResubmitText(x, 3, p, t)
        BY <3>1, <4>4 DEF ResubmitText, FiveAre, r, o, c
      <4> QED
        BY <4>3, <4>5
    <3>2. CASE p # 0 /\ t = 0
      <4> DEFINE x == FiveText(r, o, dec(p), Comma, c)
                 y == <<r, o>> \o <<dec(p)>> \o <<Comma>>
      <4>1. Itoa0(p) = <<dec(p)>> /\ Itoa0(t) = <<>>
        BY <3>2 DEF Itoa0
      <4>2. y \o <<>> = y
        <5>1. y = Then(Then(<<r, o>>, dec(p)), Comma)
          BY Zenon DEF Then
        <5>2. IsSequence(<<r, o>>)
          BY ShortSequences
        <5>3. IsSequence(Then(<<r, o>>, dec(p)))
          BY <5>2, OneAfter, Zenon DEF Grown
        <5>4. IsSequence(Then(Then(<<r, o>>, dec(p)), Comma))
          BY <5>3, OneAfter, Zenon DEF Grown
        <5> HIDE DEF y
        <5> QED
          BY <5>1, <5>4, NothingAfter, Zenon
      <4>3. s = x
        BY <4>1, <4>2, Zenon DEF FiveText
      <4>4. FiveAre(x, r, o, dec(p), Comma, c)
        BY FivePieces, Zenon
      <4> HIDE DEF x, s
      <4>5. ResubmitText(x, 4, p, t)
        BY <3>2, <4>4 DEF ResubmitText, FiveAre, r, o, c
      <4> QED
        BY <4>3, <4>5
    <3>3. CASE p # 0 /\ t # 0
      <4> DEFINE x == SixText(r, o, dec(p), Comma, dec(t), c)
      <4>1. Itoa0(p) = <<dec(p)>> /\ Itoa0(t) = <<dec(t)>>
        BY <3>3 DEF Itoa0
      <4>2. s = x
        BY <4>1, Zenon DEF SixText
      <4>3. SixAre(x, r, o, dec(p), Comma, dec(t), c)
        BY SixPieces, Zenon
      <4> HIDE DEF x, s
      <4>4. ResubmitText(x, 4, p, t)
        BY <3>3, <4>3 DEF ResubmitText, SixAre, r, o, c
      <4> QED
        BY <4>2, <4>4
    <3> QED
      BY <3>1, <3>2, <3>3
  <2> HIDE DEF s
  <2>3. ReadsAs(s, a)
    BY <2>2, ResubmitParsed
  <2>4. ActionText(a).val = s
    BY <2>1, Succeeds
  <2> QED
    BY <2>3, <2>4 DEF ReadBack
<1> QED
  BY <1>3, <1>4----------------------------------------------------------------------------
(* load, set_field and ct: text between texts.                             *)

\* z is x and then y.
After(x, y, z) ==
  /\ IsSequence(z) /\ Len(x) \in Nat /\ Len(y) \in Nat /\ Len(z) = Len(x) + Len(y)
  /\ \A k \in 1 .. Len(x) : z[k] = x[k]
  /\ \A k \in 1 .. Len(y) : z[Len(x) + k] = y[k]

LEMMA GluedAfter ==
  ASSUME NEW x, NEW y, IsSequence(x), IsSequence(y)
  PROVE  After(x, y, x \o y)
<1>1. PICK S : x \in Seq(S)
  BY DEF IsSequence
<1>2. PICK T : y \in Seq(T)
  BY DEF IsSequence
<1> DEFINE U == S \cup T
           z == x \o y
<1>3. x \in Seq(U) /\ y \in Seq(U)
  BY <1>1, <1>2
<1> HIDE DEF U
<1>4. z \in Seq(U) /\ Len(x) \in Nat /\ Len(y) \in Nat /\ Len(z) = Len(x) + Len(y)
  BY <1>3
<1>5. \A k \in 1 .. Len(x) : z[k] = x[k]
  BY <1>3, <1>4
<1>6. \A k \in 1 .. Len(y) : z[Len(x) + k] = y[k]
  BY <1>3, <1>4
<1> HIDE DEF z
<1>7. After(x, y, z)
  BY <1>4, <1>5, <1>6 DEF After, IsSequence
<1> QED
  BY <1>7 DEF z

\* A text found at i is what SubSeq cuts out there.
LEMMA CutOut ==
  ASSUME NEW s, IsSequence(s), NEW t, IsSequence(t), NEW i \in Nat \ {0}, NEW j \in Nat,
         j = i + Len(t) - 1, j <= Len(s), \A k \in 1 .. Len(t) : s[i + k - 1] = t[k]
  PROVE  SubSeq(s, i, j) = t
<1>1. PICK S : s \in Seq(S)
  BY DEF IsSequence
<1>2. PICK T : t \in Seq(T)
  BY DEF IsSequence
<1> DEFINE N == Len(t)
           M == Len(s)
           u == SubSeq(s, i, j)
<1>3. N \in Nat /\ M \in Nat /\ DOMAIN t = 1 .. N /\ DOMAIN s = 1 .. M
  BY <1>1, <1>2
<1>4. \A k \in i .. j : s[k] \in S
  <2>1. \A k \in i .. j : k \in 1 .. M
    BY <1>3
  <2> QED
    BY <1>1, <1>3, <2>1
<1>5. /\ u \in Seq(S) /\ Len(u) = (IF i <= j THEN j - i + 1 ELSE 0)
      /\ \A k \in 1 .. j - i + 1 : u[k] = s[i + k - 1]
  <2>1. i \in Int /\ j \in Int
    OBVIOUS
  <2> HIDE DEF N, M
  <2> QED
    BY <1>4, <2>1, SubSeqProperties
<1> HIDE DEF u, M
<1>6. Len(u) = N /\ \A k \in 1 .. N : u[k] = t[k]
  <2>1. j - i + 1 = N /\ (i <= j <=> N > 0)
    BY <1>3
  <2> HIDE DEF N
  <2>2. Len(u) = N
    BY <1>3, <1>5, <2>1
  <2>3. \A k \in 1 .. N : u[k] = s[i + k - 1]
    BY <1>5, <2>1
  <2>4. \A k \in 1 .. N : s[i + k - 1] = t[k]
    BY DEF N
  <2> QED
    BY <2>2, <2>3, <2>4
<1>7. u \in Seq(S \cup T) /\ t \in Seq(S \cup T)
  BY <1>2, <1>5
<1>8. u = t
  BY <1>6, <1>7, SeqEqual
<1> QED
  BY <1>8 DEF u

----------------------------------------------------------------------------
(* load, set_field and ct.                                                 *)

\* "load:v->f" and "set_field:v->f".
FieldText(s, w, v, f) ==
  /\ IsSequence(s) /\ IsSequence(v) /\ IsSequence(f)
  /\ Len(v) \in Nat \ {0} /\ Len(f) \in Nat \ {0} /\ Len(s) = Len(v) + Len(f) + 2
  /\ s[1] = atom(w) /\ s[Len(v) + 2] = sym("->")
  /\ \A k \in 1 .. Len(v) : s[k + 1] = v[k]
  /\ \A k \in 1 .. Len(f) : s[Len(v) + 2 + k] = f[k]

LEMMA NotEmpty ==
  ASSUME NEW v, IsSequence(v)
  PROVE  Len(v) \in Nat /\ DOMAIN v = 1 .. Len(v) /\ (v # <<>> => Len(v) \in Nat \ {0})
<1>1. PICK S : v \in Seq(S)
  BY DEF IsSequence
<1> QED
  BY <1>1

LEMMA FieldTextIs ==
  ASSUME NEW w, NEW v, NEW f, IsSequence(v), IsSequence(f), v # <<>>, f # <<>>
  PROVE  FieldText(<<atom(w)>> \o v \o <<sym("->")>> \o f, w, v, f)
<1> DEFINE a == <<atom(w)>>
           r == <<sym("->")>>
           x == a \o v
           y == x \o r
           s == y \o f
<1>1. /\ IsSequence(a) /\ Len(a) = 1 /\ a[1] = atom(w)
      /\ IsSequence(r) /\ Len(r) = 1 /\ r[1] = sym("->")
  BY ShortSequences
<1> HIDE DEF a, r
<1>2. After(a, v, x)
  BY <1>1, GluedAfter
<1>3. IsSequence(x)
  BY <1>2 DEF After
<1>4. After(x, r, y)
  <2> HIDE DEF x
  <2> QED
    BY <1>1, <1>3, GluedAfter
<1>5. IsSequence(y)
  BY <1>4 DEF After
<1>6. After(y, f, s)
  <2> HIDE DEF y
  <2> QED
    BY <1>5, GluedAfter
<1>7. Len(v) \in Nat \ {0} /\ Len(f) \in Nat \ {0}
  BY NotEmpty
<1> HIDE DEF x, y, s
<1>8. /\ Len(x) = Len(v) + 1 /\ x[1] = atom(w) /\ \A k \in 1 .. Len(v) : x[k + 1] = v[k]
  <2>1. \A k \in Int : 1 + k = k + 1
    OBVIOUS
  <2> QED
    BY <1>1, <1>2, <1>7, <2>1 DEF After
<1>9. /\ Len(y) = Len(v) + 2 /\ y[1] = atom(w) /\ y[Len(v) + 2] = sym("->")
      /\ \A k \in 1 .. Len(v) : y[k + 1] = v[k]
  <2>1. Len(y) = Len(x) + 1 /\ y[Len(x) + 1] = sym("->")
    BY <1>1, <1>4 DEF After
  <2>2. \A k \in 1 .. Len(v) + 1 : y[k] = x[k]
    BY <1>4, <1>8 DEF After
  <2>3. \A k \in 1 .. Len(v) : k + 1 \in 1 .. Len(v) + 1
    BY <1>7
  <2>4. 1 \in 1 .. Len(v) + 1 /\ (Len(v) + 1) + 1 = Len(v) + 2
    BY <1>7
  <2> QED
    BY <1>8, <2>1, <2>2, <2>3, <2>4
<1>10. /\ Len(s) = Len(v) + Len(f) + 2 /\ s[1] = atom(w) /\ s[Len(v) + 2] = sym("->")
       /\ \A k \in 1 .. Len(v) : s[k + 1] = v[k]
  <2>1. Len(s) = Len(y) + Len(f)
    BY <1>6 DEF After
  <2>2. \A k \in 1 .. Len(v) + 2 : s[k] = y[k]
    BY <1>6, <1>9 DEF After
  <2>3. \A k \in 1 .. Len(v) : k + 1 \in 1 .. Len(v) + 2
    BY <1>7
  <2>4. 1 \in 1 .. Len(v) + 2 /\ Len(v) + 2 \in 1 .. Len(v) + 2
    BY <1>7
  <2>5. Len(s) = Len(v) + Len(f) + 2
    BY <1>7, <1>9, <2>1
  <2> QED
    BY <1>9, <2>2, <2>3, <2>4, <2>5
<1>11. \A k \in 1 .. Len(f) : s[Len(v) + 2 + k] = f[k]
  BY <1>6, <1>9 DEF After
<1>12. IsSequence(s)
  BY <1>6 DEF After
<1>13. FieldText(s, w, v, f)
  BY <1>7, <1>10, <1>11, <1>12 DEF FieldText
<1> QED
  BY <1>13, Zenon DEF s, y, x, a, r

\* An operand without the characters and the words that parseAction looks for.
Operand(t) ==
  /\ IsSequence(t)
  /\ \A i \in DOMAIN t :
       t[i] \notin {Comma, Blank, sym("("), sym(")"), sym("->"), atom("ct"),
                    atom("resubmit"), atom("resubmit:"), atom("load:"), atom("set_field:")}

\* Every piece of the text is the name, the arrow or a piece of an operand.
LEMMA FieldTextPieces ==
  ASSUME NEW s, NEW w, NEW v, NEW f, FieldText(s, w, v, f), Operand(v), Operand(f)
  PROVE  /\ DOMAIN s = 1 .. Len(s) /\ Len(s) \in Nat
         /\ Len(v) + 2 < Len(s) /\ Len(v) + 2 > 2
         /\ \A k \in 2 .. Len(s) : k # Len(v) + 2 =>
              s[k] \notin {Comma, Blank, sym("("), sym(")"), sym("->"), atom("ct"),
                 atom("resubmit"), atom("resubmit:"), atom("load:"), atom("set_field:")}
<1> DEFINE bad == {Comma, Blank, sym("("), sym(")"), sym("->"), atom("ct"),
                 atom("resubmit"), atom("resubmit:"), atom("load:"), atom("set_field:")}
           N == Len(v)
           M == Len(f)
<1>1. /\ IsSequence(s) /\ N \in Nat \ {0} /\ M \in Nat \ {0} /\ Len(s) = N + M + 2
      /\ \A k \in 1 .. N : s[k + 1] = v[k]
      /\ \A k \in 1 .. M : s[N + 2 + k] = f[k]
      /\ IsSequence(v) /\ IsSequence(f)
  BY DEF FieldText
<1>2. DOMAIN s = 1 .. Len(s) /\ DOMAIN v = 1 .. N /\ DOMAIN f = 1 .. M
  BY <1>1, NotEmpty
<1>3. (\A i \in 1 .. N : v[i] \notin bad) /\ (\A i \in 1 .. M : f[i] \notin bad)
  BY <1>2 DEF Operand
<1> HIDE DEF bad, N, M
<1>4. ASSUME NEW k \in 2 .. Len(s), k # N + 2 PROVE s[k] \notin bad
  <2>1. CASE k < N + 2
    <3>1. k - 1 \in 1 .. N /\ (k - 1) + 1 = k
      BY <1>1, <2>1
    <3> QED
      BY <1>1, <1>3, <3>1
  <2>2. CASE k > N + 2
    <3>1. k - (N + 2) \in 1 .. M /\ N + 2 + (k - (N + 2)) = k
      BY <1>1, <2>2
    <3> QED
      BY <1>1, <1>3, <3>1
  <2> QED
    BY <1>1, <1>4, <2>1, <2>2
<1>5. N + 2 < Len(s) /\ N + 2 > 2 /\ Len(s) \in Nat
  BY <1>1
<1> QED
  BY <1>2, <1>4, <1>5 DEF bad, N

LEMMA FieldFound ==
  ASSUME NEW s, NEW w \in {"load:", "set_field:"}, NEW v, NEW f, FieldText(s, w, v, f),
         Operand(v), Operand(f)
  PROVE  fieldRe(s, w) = {<<1, Len(v) + 2>>}
<1> DEFINE J == Len(v) + 2
           N == Len(s)
<1>1. /\ DOMAIN s = 1 .. N /\ N \in Nat /\ J < N /\ J > 2
      /\ \A k \in 2 .. N : k # J => s[k] \notin {Blank, sym("->"), atom(w)}
  BY FieldTextPieces
<1>2. /\ s[1] = atom(w) /\ s[J] = sym("->") /\ J \in Nat
  BY DEF FieldText
<1>3. atom(w) # sym("->") /\ sym("->") # Blank
  BY PlainPieces, Symbols
<1>4. \A m : m \in fieldRe(s, w) <=>
        /\ m \in (DOMAIN s) \X (DOMAIN s)
        /\ m[1] + 1 < m[2] /\ m[2] < N /\ s[m[1]] = atom(w) /\ s[m[2]] = sym("->")
        /\ \A k \in m[1] + 1 .. m[2] + 1 : s[k] # Blank
  BY Zenon DEF fieldRe, NoSpace, Blank
<1> HIDE DEF J, N
<1>5. ASSUME NEW m \in fieldRe(s, w) PROVE m = <<1, J>>
  <2>1. /\ m \in (1 .. N) \X (1 .. N) /\ s[m[1]] = atom(w) /\ s[m[2]] = sym("->")
    BY <1>1, <1>4
  <2>2. m[1] \in 1 .. N /\ m[2] \in 1 .. N /\ m = <<m[1], m[2]>>
    BY <2>1
  <2>3. m[1] = 1
    BY <1>1, <1>2, <1>3, <2>1, <2>2
  <2>4. m[2] = J
    BY <1>1, <1>2, <1>3, <2>1, <2>2
  <2> QED
    BY <2>2, <2>3, <2>4
<1>6. <<1, J>> \in fieldRe(s, w)
  <2>1. 1 \in 1 .. N /\ J \in 1 .. N /\ 1 + 1 < J /\ J < N /\ J + 1 <= N
    BY <1>1, <1>2
  <2>2. \A k \in 1 + 1 .. J + 1 : s[k] # Blank
    BY <1>1, <1>2, <1>3, <2>1
  <2> DEFINE m == <<1, J>>
  <2>3. m \in (DOMAIN s) \X (DOMAIN s) /\ m[1] = 1 /\ m[2] = J
    BY <1>1, <2>1
  <2> HIDE DEF m
  <2>4. m \in fieldRe(s, w)
    BY <1>2, <1>4, <2>1, <2>2, <2>3
  <2> QED
    BY <2>4 DEF m
<1>7. fieldRe(s, w) = {<<1, J>>}
  BY <1>5, <1>6
<1> QED
  BY <1>7 DEF J

LEMMA LeftmostOne ==
  ASSUME NEW i \in Nat, NEW j \in Nat
  PROVE  Leftmost({<<i, j>>}) = <<i, j>>
<1> DEFINE m == <<i, j>>
<1>1. {m} \subseteq Nat \X Nat /\ m \in {m} /\ m[1] \in Nat /\ m[2] \in Nat
  OBVIOUS
<1> HIDE DEF m
<1>2. \A x \in {m} : m[1] < x[1] \/ (m[1] = x[1] /\ m[2] >= x[2])
  BY <1>1
<1>3. Leftmost({m}) = m
  BY <1>1, <1>2, LeftmostIs
<1> QED
  BY <1>3 DEF m

LEMMA FieldGroups ==
  ASSUME NEW s, NEW w \in {"load:", "set_field:"}, NEW v, NEW f, FieldText(s, w, v, f),
         Operand(v), Operand(f)
  PROVE  fieldGroups(s, w)[1] = v /\ fieldGroups(s, w)[2] = f
<1> DEFINE N == Len(v)
           M == Len(f)
           m == <<1, N + 2>>
<1>1. /\ IsSequence(s) /\ IsSequence(v) /\ IsSequence(f) /\ N \in Nat \ {0} /\ M \in Nat \ {0}
      /\ Len(s) = N + M + 2 /\ \A k \in 1 .. N : s[k + 1] = v[k]
      /\ \A k \in 1 .. M : s[N + 2 + k] = f[k]
  BY DEF FieldText
<1>2. Leftmost(fieldRe(s, w)) = m /\ m[1] = 1 /\ m[2] = N + 2
  BY <1>1, FieldFound, LeftmostOne
<1>3. \A k \in N + 3 .. Len(s) : s[k] # Blank
  <2>1. \A k \in 2 .. Len(s) : k # N + 2 => s[k] # Blank
    BY FieldTextPieces
  <2> HIDE DEF N, M, m
  <2> QED
    BY <1>1, <2>1
<1>4. WordEnd(s, N + 3) = Len(s)
  <2> HIDE DEF N, M, m
  <2>1. N + 3 \in 1 .. Len(s) + 1
    BY <1>1
  <2> QED
    BY <1>1, <1>3, <2>1, WordEndIs
<1>5. SubSeq(s, 2, N + 1) = v
  <2>1. 2 \in Nat \ {0} /\ N + 1 \in Nat /\ N + 1 = 2 + N - 1 /\ N + 1 <= Len(s)
    BY <1>1
  <2>2. \A k \in 1 .. N : s[2 + k - 1] = v[k]
    <3>1. \A k \in 1 .. N : 2 + k - 1 = k + 1
      BY <1>1
    <3> HIDE DEF N
    <3> QED
      BY <1>1, <3>1
  <2> QED
    BY <1>1, <2>1, <2>2, CutOut
<1>6. SubSeq(s, N + 3, Len(s)) = f
  <2>1. N + 3 \in Nat \ {0} /\ Len(s) \in Nat /\ Len(s) = N + 3 + M - 1 /\ Len(s) <= Len(s)
    BY <1>1
  <2>2. \A k \in 1 .. M : s[N + 3 + k - 1] = f[k]
    <3>1. \A k \in 1 .. M : N + 3 + k - 1 = N + 2 + k
      BY <1>1
    <3> HIDE DEF N, M
    <3> QED
      BY <1>1, <3>1
  <2> QED
    BY <1>1, <2>1, <2>2, CutOut
<1> HIDE DEF N, M, m
<1>7. 1 + 1 = 2 /\ (N + 2) - 1 = N + 1 /\ (N + 2) + 1 = N + 3
  BY <1>1
<1>8. fieldGroups(s, w) = <<v, f>>
  BY <1>2, <1>4, <1>5, <1>6, <1>7, Zenon DEF fieldGroups
<1> QED
  BY <1>8

LEMMA FieldTextRead ==
  ASSUME NEW s, NEW w \in {"load:", "set_field:"}, NEW v, NEW f, FieldText(s, w, v, f),
         Operand(v), Operand(f)
  PROVE  ReadsAs(s, loadSetFieldAction(w, v, f))
<1> DEFINE J == Len(v) + 2
           N == Len(s)
<1>1. /\ IsSequence(s) /\ s[1] = atom(w) /\ s[J] = sym("->") /\ J \in Nat
  BY DEF FieldText
<1>2. /\ DOMAIN s = 1 .. N /\ N \in Nat /\ J < N /\ J > 2
      /\ \A k \in 2 .. N : k # J => s[k] \notin {Comma, sym("("), sym(")"), atom("ct"),
           atom("resubmit"), atom("resubmit:"), atom("load:"), atom("set_field:")}
  BY FieldTextPieces
<1>3. /\ \A u : atom(u) \notin {Comma, sym("("), sym(")"), sym("->")}
      /\ sym("->") \notin {Comma, sym("("), sym(")")}
  <2>1. sym("->") # sym("(") /\ sym("->") # sym(")")
    BY DEF sym
  <2> QED
    BY <2>1, PlainPieces, Symbols
<1>4. \A u : atom(u) = atom(w) => u = w
  BY DEF atom
<1>5. fieldRe(s, w) = {<<1, J>>}
  BY FieldFound
<1>6. fieldGroups(s, w)[1] = v /\ fieldGroups(s, w)[2] = f
  BY FieldGroups
<1> HIDE DEF J, N
<1>7. \A k \in DOMAIN s : s[k] \notin {Comma, sym("("), sym(")")}
  BY <1>1, <1>2, <1>3
<1>8. \A k \in DOMAIN s : s[k] \notin {atom("ct"), atom("resubmit"), atom("resubmit:")}
  BY <1>1, <1>2, <1>3, <1>4
<1>9. w = "set_field:" => \A k \in DOMAIN s : s[k] # atom("load:")
  BY <1>1, <1>2, <1>3, <1>4
<1>10. /\ ctRe(s) = {} /\ resubmitRe(s) = {} /\ resubmitPortRe(s) = {}
       /\ w = "set_field:" => fieldRe(s, "load:") = {}
  BY <1>8, <1>9, NoExpression
<1>11. ~IsTextAction(s)
  <2>1. N # 1
    BY <1>1, <1>2
  <2> QED
    BY <2>1 DEF IsTextAction, N
<1>12. parseAction(s) = OtherActions(s)
  BY <1>1, <1>10, <1>11, ByExpression
<1>13. OtherActions(s) = Ok(loadSetFieldAction(w, v, f))
  <2>1. fieldRe(s, w) # {}
    BY <1>5
  <2>2. CASE w = "load:"
    BY <1>6, <1>10, <2>1, <2>2 DEF OtherActions, Load
  <2>3. CASE w = "set_field:"
    BY <1>6, <1>10, <2>1, <2>3 DEF OtherActions, SetField
  <2> QED
    BY <2>2, <2>3
<1>14. Passes(s, 0, 0)
  BY <1>1, <1>7, PassPlain
<1>15. s # <<>>
  <2>1. Len(<<>>) = 0
    OBVIOUS
  <2> QED
    BY <1>1, <1>2, <2>1 DEF N
<1> QED
  BY <1>12, <1>13, <1>14, <1>15 DEF ReadsAs

LEMMA FieldReadBack ==
  ASSUME NEW w \in {"load:", "set_field:"}, NEW v, NEW f, Operand(v), Operand(f)
  PROVE  ReadBack(loadSetFieldAction(w, v, f))
<1> DEFINE a == loadSetFieldAction(w, v, f)
           s == <<atom(w)>> \o v \o <<sym("->")>> \o f
<1>1. a.type = w /\ a.value = v /\ a.field = f
  BY DEF loadSetFieldAction
<1> HIDE DEF a
<1>2. ActionText(a) = loadSetFieldAction_MarshalText(a)
  BY <1>1 DEF ActionText
<1>3. CASE v = <<>> \/ f = <<>>
  <2>1. ActionText(a) = Fail
    BY <1>1, <1>2, <1>3, Zenon DEF loadSetFieldAction_MarshalText
  <2> QED
    BY <2>1 DEF ReadBack, Fail, a
<1>4. CASE v # <<>> /\ f # <<>>
  <2>1. ActionText(a) = Ok(s)
    BY <1>1, <1>2, <1>4, Zenon DEF loadSetFieldAction_MarshalText
  <2>2. FieldText(s, w, v, f)
    BY <1>4, FieldTextIs, Zenon DEF Operand
  <2> HIDE DEF s
  <2>3. ReadsAs(s, a)
    BY <2>2, FieldTextRead DEF a
  <2>4. ActionText(a).val = s
    BY <2>1, Succeeds
  <2> QED
    BY <2>3, <2>4 DEF ReadBack, a
<1> QED
  BY <1>3, <1>4
\* "ct(args)".
CtText(s, t) ==
  /\ IsSequence(s) /\ IsSequence(t)
  /\ Len(t) \in Nat \ {0} /\ Len(s) = Len(t) + 3
  /\ s[1] = atom("ct") /\ s[2] = sym("(") /\ s[Len(t) + 3] = sym(")")
  /\ \A k \in 1 .. Len(t) : s[k + 2] = t[k]

LEMMA CtTextIs ==
  ASSUME NEW t, IsSequence(t), t # <<>>
  PROVE  CtText(<<atom("ct"), sym("(")>> \o t \o <<sym(")")>>, t)
<1> DEFINE a == <<atom("ct"), sym("(")>>
           r == <<sym(")")>>
           x == a \o t
           s == x \o r
<1>1. /\ IsSequence(a) /\ Len(a) = 2 /\ a[1] = atom("ct") /\ a[2] = sym("(")
      /\ IsSequence(r) /\ Len(r) = 1 /\ r[1] = sym(")")
  BY ShortSequences
<1> HIDE DEF a, r
<1>2. After(a, t, x)
  BY <1>1, GluedAfter
<1>3. IsSequence(x)
  BY <1>2 DEF After
<1>4. After(x, r, s)
  <2> HIDE DEF x
  <2> QED
    BY <1>1, <1>3, GluedAfter
<1>5. Len(t) \in Nat \ {0}
  BY NotEmpty
<1> HIDE DEF x, s
<1>6. /\ Len(x) = Len(t) + 2 /\ x[1] = atom("ct") /\ x[2] = sym("(")
      /\ \A k \in 1 .. Len(t) : x[k + 2] = t[k]
  <2>1. \A k \in Int : 2 + k = k + 2
    OBVIOUS
  <2> QED
    BY <1>1, <1>2, <1>5, <2>1 DEF After
<1>7. /\ IsSequence(s) /\ Len(s) = Len(t) + 3 /\ s[Len(t) + 3] = sym(")")
      /\ \A k \in 1 .. Len(t) + 2 : s[k] = x[k]
  BY <1>1, <1>4, <1>5, <1>6 DEF After
<1>8. 1 \in 1 .. Len(t) + 2 /\ 2 \in 1 .. Len(t) + 2
  BY <1>5
<1>9. \A k \in 1 .. Len(t) : k + 2 \in 1 .. Len(t) + 2
  BY <1>5
<1>10. CtText(s, t)
  BY <1>5, <1>6, <1>7, <1>8, <1>9 DEF CtText
<1> QED
  BY <1>10, Zenon DEF s, x, a, r

\* Of the matches of ct the one that begins the text and ends it is chosen.
LEMMA CtFound ==
  ASSUME NEW s, NEW t, CtText(s, t), \A k \in DOMAIN t : t[k] # Blank
  PROVE  ctRe(s) # {} /\ Leftmost(ctRe(s)) = <<1, Len(s)>>
<1> DEFINE N == Len(s)
           M == Len(t)
           m == <<1, N>>
<1>1. /\ IsSequence(s) /\ IsSequence(t) /\ M \in Nat \ {0} /\ N = M + 3
      /\ s[1] = atom("ct") /\ s[2] = sym("(") /\ s[N] = sym(")")
      /\ \A k \in 1 .. M : s[k + 2] = t[k]
  BY DEF CtText
<1>2. DOMAIN s = 1 .. N /\ DOMAIN t = 1 .. M
  BY <1>1, NotEmpty
<1>3. \A n : n \in ctRe(s) <=>
        /\ n \in (DOMAIN s) \X (DOMAIN s)
        /\ n[2] > n[1] + 2 /\ s[n[1]] = atom("ct") /\ s[n[1] + 1] = sym("(")
        /\ s[n[2]] = sym(")") /\ \A k \in n[1] + 2 .. n[2] - 1 : s[k] # Blank
  BY Zenon DEF ctRe, NoSpace, Blank
<1> HIDE DEF N, M
<1>4. m \in (DOMAIN s) \X (DOMAIN s) /\ m[1] = 1 /\ m[2] = N /\ N \in Nat
  BY <1>1, <1>2
<1> HIDE DEF m
<1>5. m \in ctRe(s)
  <2>1. ASSUME NEW k \in 1 + 2 .. N - 1 PROVE s[k] # Blank
    <3>1. k - 2 \in 1 .. M /\ (k - 2) + 2 = k
      BY <1>1
    <3> QED
      BY <1>1, <1>2, <3>1
  <2>2. N > 1 + 2 /\ 1 + 1 = 2
    BY <1>1
  <2> QED
    BY <1>1, <1>3, <1>4, <2>1, <2>2
<1>6. ASSUME NEW n \in ctRe(s)
      PROVE  n \in Nat \X Nat /\ (m[1] < n[1] \/ (m[1] = n[1] /\ m[2] >= n[2]))
  <2>1. n \in (1 .. N) \X (1 .. N)
    BY <1>2, <1>3
  <2>2. n[1] \in 1 .. N /\ n[2] \in 1 .. N /\ n \in Nat \X Nat
    BY <1>4, <2>1
  <2> QED
    BY <1>4, <2>2
<1>7. Leftmost(ctRe(s)) = m
  BY <1>5, <1>6, LeftmostIs
<1> QED
  BY <1>5, <1>7 DEF m, N

LEMMA OneAndOne == ASSUME NEW a, NEW b PROVE <<a>> \o <<b>> = <<a, b>>
<1> DEFINE x == <<a>>
           y == <<b>>
           z == <<a, b>>
<1>1. x \in Seq({a, b}) /\ y \in Seq({a, b}) /\ z \in Seq({a, b})
  OBVIOUS
<1>2. Len(x) = 1 /\ x[1] = a /\ Len(y) = 1 /\ y[1] = b /\ Len(z) = 2 /\ z[1] = a /\ z[2] = b
  OBVIOUS
<1> HIDE DEF x, y, z
<1>3. x \o y \in Seq({a, b}) /\ After(x, y, x \o y)
  <2>1. IsSequence(x) /\ IsSequence(y)
    BY <1>1 DEF IsSequence
  <2> QED
    BY <1>1, <2>1, GluedAfter
<1>4. Len(x \o y) = 2 /\ (x \o y)[1] = a /\ (x \o y)[2] = b
  BY <1>2, <1>3 DEF After
<1>5. x \o y = z
  BY <1>1, <1>2, <1>3, <1>4
<1> QED
  BY <1>5 DEF x, y, z

LEMMA CtReadBack ==
  ASSUME NEW t, Nested(t, 1), \A k \in DOMAIN t : t[k] # Blank
  PROVE  ReadBack(ConnectionTracking(t))
<1> DEFINE a == ConnectionTracking(t)
           s == <<atom("ct"), sym("(")>> \o t \o <<sym(")")>>
<1>1. a.type = "ct" /\ a.args = t /\ IsSequence(t)
  BY DEF ConnectionTracking, Nested
<1> HIDE DEF a
<1>2. ActionText(a) = ctAction_MarshalText(a)
  BY <1>1 DEF ActionText
<1>3. CASE t = <<>>
  <2>1. ActionText(a) = Fail
    BY <1>1, <1>2, <1>3, Zenon DEF ctAction_MarshalText
  <2> QED
    BY <2>1 DEF ReadBack, Fail, a
<1>4. CASE t # <<>>
  <2>1. ActionText(a) = Ok(s)
    BY <1>1, <1>2, <1>4, Zenon DEF ctAction_MarshalText
  <2>2. CtText(s, t)
    BY <1>1, <1>4, CtTextIs
  <2>3. Passes(s, 0, 0)
    <3> DEFINE o == <<atom("ct"), sym("(")>>
               c == <<sym(")")>>
    <3>1. Passes(o, 0, 1)
      <4>1. Moves(atom("ct"), 0, 0) /\ Moves(sym("("), 0, 1)
        <5>1. sym("(") # sym(")")
          BY DEF sym
        <5> QED
          BY <5>1, PlainPieces, Symbols DEF Moves
      <4>2. Passes(<<atom("ct")>>, 0, 0) /\ Passes(<<sym("(")>>, 0, 1)
        BY <4>1, PassOne
      <4>3. Passes(<<atom("ct")>> \o <<sym("(")>>, 0, 1)
        BY <4>2, PassBoth
      <4>4. <<atom("ct")>> \o <<sym("(")>> = o
        BY OneAndOne, Zenon
      <4> QED
        BY <4>3, <4>4
    <3>2. Passes(c, 1, 0)
      <4>1. Moves(sym(")"), 1, 0)
        <5>1. sym("(") # sym(")")
          BY DEF sym
        <5> QED
          BY <5>1, Symbols DEF Moves
      <4> QED
        BY <4>1, PassOne
    <3>3. Passes(t, 1, 1)
      BY PassNested
    <3> HIDE DEF o, c
    <3>4. Passes(o \o t, 0, 1)
      BY <3>1, <3>3, PassBoth
    <3>5. Passes((o \o t) \o c, 0, 0)
      BY <3>2, <3>4, PassBoth
    <3> QED
      BY <3>5, Zenon DEF o, c
  <2> HIDE DEF s
  <2>4. ctRe(s) # {} /\ Leftmost(ctRe(s)) = <<1, Len(s)>>
    BY <2>2, CtFound
  <2>5. /\ IsSequence(s) /\ Len(t) \in Nat \ {0} /\ Len(s) = Len(t) + 3
        /\ \A k \in 1 .. Len(t) : s[k + 2] = t[k]
    BY <2>2 DEF CtText
  <2>6. SubSeq(s, 3, Len(t) + 2) = t
    <3>1. /\ 3 \in Nat \ {0} /\ Len(t) + 2 \in Nat /\ Len(t) + 2 = 3 + Len(t) - 1
          /\ Len(t) + 2 <= Len(s)
      BY <2>5
    <3>2. \A k \in 1 .. Len(t) : s[3 + k - 1] = t[k]
      <4>1. \A k \in 1 .. Len(t) : 3 + k - 1 = k + 2
        BY <2>5
      <4> QED
        BY <2>5, <4>1
    <3> QED
      BY <1>1, <2>5, <3>1, <3>2, CutOut
  <2>7. ~IsTextAction(s) /\ s # <<>>
    <3>1. Len(s) # 1 /\ Len(s) # 0
      BY <2>5
    <3>2. Len(<<>>) = 0
      OBVIOUS
    <3> QED
      BY <3>1, <3>2 DEF IsTextAction
  <2>8. parseAction(s) = Ok(a)
    <3>1. <<1, Len(s)>>[1] = 1 /\ <<1, Len(s)>>[2] = Len(s) /\ 1 + 2 = 3
          /\ Len(s) - 1 = Len(t) + 2
      BY <2>5
    <3> QED
      BY <2>4, <2>6, <2>7, <3>1, Zenon DEF parseAction, a
  <2>9. ActionText(a).val = s
    BY <2>1, Succeeds
  <2> QED
    BY <2>3, <2>7, <2>8, <2>9 DEF ReadBack, ReadsAs, a
<1> QED
  BY <1>3, <1>4

LEMMA TextReadBack == ASSUME NEW w \in TextActions PROVE ReadBack(textAction(w))
<1> DEFINE a == textAction(w)
           s == <<atom(w)>>
<1>1. a.type = "text" /\ a.action = w
  BY DEF textAction
<1>2. ToLower(w) = w
  BY DEF ToLower, TextActions
<1>3. Len(s) = 1 /\ s[1] = atom(w) /\ s # <<>> /\ IsSequence(s)
  BY ShortSequences
<1>4. IsAtom(atom(w)) /\ atom(w).atom = w
  BY DEF IsAtom, atom
<1>5. Passes(s, 0, 0)
  <2>1. Moves(atom(w), 0, 0)
    BY PlainPieces DEF Moves
  <2> QED
    BY <2>1, PassOne
<1> HIDE DEF a, s
<1>6. ActionText(a) = Ok(s)
  BY <1>1 DEF ActionText, textAction_MarshalText, s
<1>7. parseAction(s) = Ok(a)
  <2>1. IsTextAction(s)
    BY <1>2, <1>3, <1>4 DEF IsTextAction
  <2> QED
    BY <1>2, <1>3, <1>4, <2>1 DEF parseAction, a
<1>8. ActionText(a).val = s
  BY <1>6, Succeeds
<1> QED
  BY <1>3, <1>5, <1>7, <1>8 DEF ReadBack, ReadsAs, a
\* An action of one of the types that have a parser, from values of the types
\* of its constructor's arguments.  The text of ct's arguments must nest its
\* parentheses and hold no space; the operands of load and set_field must not
\* hold what the parser looks for; resubmit must have no negative number.
TypedAction(a) ==
  \/ \E w \in TextActions : a = textAction(w)
  \/ \E t : Nested(t, 1) /\ (\A k \in DOMAIN t : t[k] # Blank) /\ a = ConnectionTracking(t)
  \/ \E h \in HardwareAddrs : a = ModDataLinkSource(h) \/ a = ModDataLinkDestination(h)
  \/ \E ip : a = ModNetworkSource(ip) \/ a = ModNetworkDestination(ip)
  \/ \E n \in 0 .. MaxUint(U16) :
       a = ModTransportSourcePort(n) \/ a = ModTransportDestinationPort(n)
  \/ \E n \in Int : a = ModVLANVID(n) \/ a = ResubmitPort(n)
  \/ \E n \in GoInts : a = Output(n)
  \/ \E i \in GoInts, n \in GoInts, k \in GoInts : a = Conjunction(i, n, k)
  \/ \E p \in Nat, t \in Nat : p \in GoInts /\ t \in GoInts /\ a = Resubmit(p, t)
  \/ \E v, f : Operand(v) /\ Operand(f) /\ (a = Load(v, f) \/ a = SetField(v, f))

LEMMA TypedReadBack == ASSUME NEW a, TypedAction(a) PROVE ReadBack(a)
<1>1. ASSUME NEW v, NEW f, Operand(v), Operand(f), a = Load(v, f) \/ a = SetField(v, f)
      PROVE  ReadBack(a)
  <2>1. ReadBack(loadSetFieldAction("load:", v, f)) /\ ReadBack(loadSetFieldAction("set_field:", v, f))
    BY <1>1, FieldReadBack
  <2> QED
    BY <1>1, <2>1 DEF Load, SetField
<1>2. ASSUME NEW t, Nested(t, 1), \A k \in DOMAIN t : t[k] # Blank, a = ConnectionTracking(t)
      PROVE  ReadBack(a)
  BY <1>2, CtReadBack
<1>3. ASSUME NEW p \in Nat, NEW t \in Nat, p \in GoInts, t \in GoInts, a = Resubmit(p, t)
      PROVE  ReadBack(a)
  BY <1>3, ResubmitReadBack
<1>4. ASSUME NEW i \in GoInts, NEW n \in GoInts, NEW k \in GoInts, a = Conjunction(i, n, k)
      PROVE  ReadBack(a)
  BY <1>4, ConjunctionReadBack
<1>5. ASSUME NEW ip, a = ModNetworkSource(ip) \/ a = ModNetworkDestination(ip)
      PROVE  ReadBack(a)
  BY <1>5, ModNetworkReadBack
<1>6. ASSUME NEW n \in 0 .. MaxUint(U16),
             a = ModTransportSourcePort(n) \/ a = ModTransportDestinationPort(n)
      PROVE  ReadBack(a)
  BY <1>6, ModTransportReadBack
<1>7. ASSUME NEW n \in Int, a = ModVLANVID(n) \/ a = ResubmitPort(n) PROVE ReadBack(a)
  BY <1>7, ModVLANReadBack, ResubmitPortReadBack
<1>8. ASSUME NEW n \in GoInts, a = Output(n) PROVE ReadBack(a)
  BY <1>8, OutputReadBack
<1>9. ASSUME NEW h \in HardwareAddrs, a = ModDataLinkSource(h) \/ a = ModDataLinkDestination(h)
      PROVE  ReadBack(a)
  BY <1>9, ModDataLinkReadBack
<1>10. ASSUME NEW w \in TextActions, a = textAction(w) PROVE ReadBack(a)
  BY <1>10, TextReadBack
<1> QED
  BY <1>1, <1>2, <1>3, <1>4, <1>5, <1>6, <1>7, <1>8, <1>9, <1>10, Zenon DEF TypedAction

\* The texts of the actions of a flow, as marshalActions returns them.
Texts(acts) == [i \in DOMAIN acts |-> ActionText(acts[i]).val]

LEMMA TextsAre ==
  ASSUME NEW acts, IsSequence(acts), acts # <<>>,
         \A i \in DOMAIN acts : TypedAction(acts[i]) /\ ActionText(acts[i]).ok
  PROVE  /\ IsSequence(Texts(acts)) /\ Len(Texts(acts)) = Len(acts) /\ Len(acts) >= 1
         /\ DOMAIN Texts(acts) = DOMAIN acts
         /\ \A i \in DOMAIN acts : ReadsAs(Texts(acts)[i], acts[i])
<1> DEFINE texts == Texts(acts)
           N == Len(acts)
<1>1. N \in Nat \ {0} /\ DOMAIN acts = 1 .. N
  BY NotEmpty
<1>2. DOMAIN texts = 1 .. N /\ \A i \in 1 .. N : texts[i] = ActionText(acts[i]).val
  BY <1>1 DEF Texts
<1>3. IsSequence(texts) /\ Len(texts) = N
  <2> DEFINE S == {ActionText(acts[i]).val : i \in DOMAIN acts}
  <2>1. texts \in [1 .. N -> S]
    BY <1>1 DEF Texts
  <2> HIDE DEF N, S, texts
  <2>2. texts \in Seq(S)
    BY <1>1, <2>1, SeqDef
  <2>3. IsSequence(texts)
    BY <2>2 DEF IsSequence
  <2>4. Len(texts) = N
    BY <1>1, <1>2, <2>2
  <2> QED
    BY <2>3, <2>4
<1>4. \A i \in 1 .. N : ReadsAs(texts[i], acts[i])
  <2> HIDE DEF texts, N
  <2>1. ASSUME NEW i \in 1 .. N PROVE ReadsAs(texts[i], acts[i])
    <3>1. ReadBack(acts[i]) /\ ActionText(acts[i]).ok
      BY <1>1, TypedReadBack
    <3> QED
      BY <1>2, <3>1 DEF ReadBack
  <2> QED
    BY <2>1
<1> HIDE DEF texts
<1>5. /\ IsSequence(texts) /\ Len(texts) = N /\ N >= 1 /\ DOMAIN texts = DOMAIN acts
      /\ \A i \in DOMAIN acts : ReadsAs(texts[i], acts[i])
  <2> HIDE DEF N
  <2> QED
    BY <1>1, <1>2, <1>3, <1>4
<1> QED
  BY <1>5 DEF texts

\* Any number of actions that marshal, joined by commas as Flow.MarshalText
\* joins them, are cut apart by the parser and read back, each as itself.
THEOREM ActionsReadBack ==
  ASSUME NEW acts, IsSequence(acts), acts # <<>>,
         \A i \in DOMAIN acts : TypedAction(acts[i]) /\ ActionText(acts[i]).ok
  PROVE  ParseActions(JoinActions(Texts(acts))) = Ok([actions |-> acts, raw |-> Texts(acts)])
<1> DEFINE texts == Texts(acts)
<1>1. /\ IsSequence(texts) /\ Len(texts) >= 1 /\ DOMAIN acts = DOMAIN texts
      /\ \A i \in DOMAIN texts : ReadsAs(texts[i], acts[i])
  <2>1. /\ IsSequence(texts) /\ Len(texts) = Len(acts) /\ Len(acts) >= 1
        /\ DOMAIN texts = DOMAIN acts
        /\ \A i \in DOMAIN acts : ReadsAs(texts[i], acts[i])
    BY TextsAre
  <2> HIDE DEF texts
  <2> QED
    BY <2>1
<1> HIDE DEF texts
<1>2. ParseActions(JoinActions(texts)) = Ok([actions |-> acts, raw |-> texts])
  BY <1>1, AllParsed
<1> QED
  BY <1>2 DEF texts

\* The text of actions is never empty.
LEMMA JoinedNotEmpty ==
  ASSUME NEW acts, IsSequence(acts), acts # <<>>,
         \A i \in DOMAIN acts : TypedAction(acts[i]) /\ ActionText(acts[i]).ok
  PROVE  JoinActions(Texts(acts)) # <<>>
<1> DEFINE texts == Texts(acts)
<1>1. /\ IsSequence(texts) /\ Len(texts) = Len(acts) /\ Len(acts) >= 1
      /\ DOMAIN texts = DOMAIN acts
      /\ \A i \in DOMAIN acts : ReadsAs(texts[i], acts[i])
  BY TextsAre
<1> HIDE DEF texts
<1>2. /\ Len(texts) >= 1 /\ \A i \in DOMAIN texts : Passes(texts[i], 0, 0) /\ texts[i] # <<>>
  BY <1>1 DEF ReadsAs
<1>3. RawActions(Read(JoinActions(texts))) = texts
  BY <1>1, <1>2, JoinedIsCut
<1>4. RawActions(NewReader) = <<>>
  BY DEF RawActions, NewReader
<1>5. texts # <<>>
  BY <1>2
<1>6. JoinActions(texts) # <<>>
  BY <1>3, <1>4, <1>5, ReadNothing
<1> QED
  BY <1>6 DEF texts
----------------------------------------------------------------------------
(* The actions that LibrarySpec asks about.                                *)

LEMMA ElevenPieces ==
  ASSUME NEW a, NEW b, NEW c, NEW d, NEW e, NEW f, NEW g, NEW h, NEW i, NEW j, NEW k
  PROVE  LET s == <<a, b, c, d, e, f, g, h, i, j, k>> IN
         /\ IsSequence(s) /\ Len(s) = 11 /\ DOMAIN s = 1 .. 11
         /\ s[1] = a /\ s[2] = b /\ s[3] = c /\ s[4] = d /\ s[5] = e /\ s[6] = f
         /\ s[7] = g /\ s[8] = h /\ s[9] = i /\ s[10] = j /\ s[11] = k
<1> DEFINE s == <<a, b, c, d, e, f, g, h, i, j, k>>
<1>1. s \in Seq({a, b, c, d, e, f, g, h, i, j, k})
  OBVIOUS
<1>2. IsSequence(s)
  <2> HIDE DEF s
  <2> QED
    BY <1>1 DEF IsSequence
<1>3. /\ Len(s) = 11 /\ DOMAIN s = 1 .. 11
      /\ s[1] = a /\ s[2] = b /\ s[3] = c /\ s[4] = d /\ s[5] = e /\ s[6] = f
      /\ s[7] = g /\ s[8] = h /\ s[9] = i /\ s[10] = j /\ s[11] = k
  OBVIOUS
<1> QED
  BY <1>2, <1>3

LEMMA CTArgsNest ==
  ASSUME NEW t \in CTArgs \cup {<<>>}
  PROVE  Nested(t, 1) /\ \A k \in DOMAIN t : t[k] # Blank
<1> DEFINE o == sym("(")
           c == sym(")")
           u == <<atom("commit"), Comma, atom("exec"), o, atom("load:"), hex(1), sym("->"),
                  atom("reg"), c, Comma, atom("zone")>>
<1>1. \/ t = <<>> \/ t = <<atom("commit")>> \/ t = u
  <2>1. CTArgs = {<<atom("commit")>>, u}
    BY Zenon DEF CTArgs, Comma
  <2> HIDE DEF u
  <2> QED
    BY <2>1
<1>2. o # c /\ sym("->") \notin {o, c}
  BY DEF sym
<1>3. /\ \A w : atom(w) \notin {Comma, Blank, o, c}
      /\ hex(1) \notin {Comma, Blank, o, c} /\ sym("->") \notin {Comma, Blank, o, c}
      /\ Comma \notin {Blank, o, c} /\ Blank \notin {o, c}
  BY <1>2, PlainPieces, Symbols
<1>4. /\ IsSequence(u) /\ Len(u) = 11 /\ DOMAIN u = 1 .. 11
      /\ u[1] = atom("commit") /\ u[2] = Comma /\ u[3] = atom("exec") /\ u[4] = o
      /\ u[5] = atom("load:") /\ u[6] = hex(1) /\ u[7] = sym("->") /\ u[8] = atom("reg")
      /\ u[9] = c /\ u[10] = Comma /\ u[11] = atom("zone")
  <2> HIDE DEF o, c
  <2> QED
    BY ElevenPieces
<1> HIDE DEF o, c, u
<1>5. CASE t = <<>>
  <2>1. IsSequence(t) /\ DOMAIN t = {} /\ Len(t) = 0
    BY <1>5, ShortSequences
  <2> DEFINE d == [k \in 0 .. 0 |-> 1]
  <2>2. d \in [0 .. 0 -> Nat] /\ d[0] = 1
    OBVIOUS
  <2> HIDE DEF d
  <2>3. Nested(t, 1)
    BY <2>1, <2>2 DEF Nested
  <2> QED
    BY <2>1, <2>3
<1>6. CASE t = <<atom("commit")>>
  <2>1. IsSequence(t) /\ DOMAIN t = {1} /\ Len(t) = 1 /\ t[1] = atom("commit")
    BY <1>6, ShortSequences
  <2> DEFINE d == [k \in 0 .. 1 |-> 1]
  <2>2. d \in [0 .. 1 -> Nat] /\ d[0] = 1 /\ d[1] = 1
    OBVIOUS
  <2> HIDE DEF d
  <2>3. \A k \in 1 .. 1 : Moves(t[k], d[k - 1], d[k])
    <3>1. Moves(atom("commit"), 1, 1)
      BY <1>3 DEF Moves, o, c
    <3>2. \A k \in 1 .. 1 : k = 1 /\ k - 1 = 0
      OBVIOUS
    <3> QED
      BY <2>1, <2>2, <3>1, <3>2
  <2>4. Nested(t, 1)
    BY <2>1, <2>2, <2>3 DEF Nested
  <2> QED
    BY <1>3, <2>1, <2>4
<1>7. CASE t = u
  <2> DEFINE d == [k \in 0 .. 11 |-> IF k \in 4 .. 8 THEN 2 ELSE 1]
  <2>1. /\ d \in [0 .. 11 -> Nat] /\ d[0] = 1 /\ d[1] = 1 /\ d[2] = 1 /\ d[3] = 1
        /\ d[4] = 2 /\ d[5] = 2 /\ d[6] = 2 /\ d[7] = 2 /\ d[8] = 2 /\ d[9] = 1
        /\ d[10] = 1 /\ d[11] = 1
    OBVIOUS
  <2> HIDE DEF d
  <2>2. ASSUME NEW p, p \notin {Comma, o, c}, NEW h PROVE Moves(p, h, h)
    BY <2>2 DEF Moves, o, c
  <2>3. Moves(Comma, 1, 1)
    BY <1>3 DEF Moves, o, c
  <2>4. Moves(o, 1, 2) /\ Moves(c, 2, 1)
    BY <1>2, <1>3 DEF Moves, o, c
  <2>5. ASSUME NEW k \in 1 .. 11 PROVE Moves(u[k], d[k - 1], d[k])
    <3>1. /\ Moves(u[1], d[0], d[1]) /\ Moves(u[2], d[1], d[2]) /\ Moves(u[3], d[2], d[3])
          /\ Moves(u[4], d[3], d[4]) /\ Moves(u[5], d[4], d[5]) /\ Moves(u[6], d[5], d[6])
          /\ Moves(u[7], d[6], d[7]) /\ Moves(u[8], d[7], d[8]) /\ Moves(u[9], d[8], d[9])
          /\ Moves(u[10], d[9], d[10]) /\ Moves(u[11], d[10], d[11])
      BY <1>3, <1>4, <2>1, <2>2, <2>3, <2>4
    <3>2. \/ (k = 1 /\ k - 1 = 0) \/ (k = 2 /\ k - 1 = 1) \/ (k = 3 /\ k - 1 = 2)
          \/ (k = 4 /\ k - 1 = 3) \/ (k = 5 /\ k - 1 = 4) \/ (k = 6 /\ k - 1 = 5)
          \/ (k = 7 /\ k - 1 = 6) \/ (k = 8 /\ k - 1 = 7) \/ (k = 9 /\ k - 1 = 8)
          \/ (k = 10 /\ k - 1 = 9) \/ (k = 11 /\ k - 1 = 10)
      OBVIOUS
    <3> QED
      BY <3>1, <3>2, Zenon
  <2>6. Nested(u, 1)
    BY <1>4, <2>1, <2>5 DEF Nested
  <2>7. \A k \in 1 .. 11 : u[k] # Blank
    BY <1>3, <1>4
  <2> QED
    BY <1>4, <1>7, <2>6, <2>7
<1> QED
  BY <1>1, <1>5, <1>6, <1>7

----------------------------------------------------------------------------
(* Flow.UnmarshalText, one field after another.                            *)

\* The loop over the fields: what it holds after each.
Unmarshalling(g, f, fields) ==
  g = [n \in 0 .. Len(fields) |->
         IF n = 0 THEN [err |-> FALSE, flow |-> ResetMatches(f)]
         ELSE IF g[n - 1].err THEN g[n - 1]
         ELSE unmarshalField(g[n - 1].flow, fields[n], n = 1)]

\* The fields are read without an error, into the Flow h.
Unmarshals(f, fields, h) ==
  /\ IsSequence(fields)
  /\ \E g : Unmarshalling(g, f, fields) /\ g[Len(fields)] = [err |-> FALSE, flow |-> h]

LEMMA UnmarshalsTo ==
  ASSUME NEW f, NEW fields, NEW h, Unmarshals(f, fields, h)
  PROVE  unmarshalFields(f, fields) = [err |-> FALSE, flow |-> h]
<1> DEFINE N == Len(fields)
           a == CHOOSE g : Unmarshalling(g, f, fields)
<1>1. N \in Nat
  BY NotEmpty DEF Unmarshals
<1>2. PICK g : Unmarshalling(g, f, fields) /\ g[N] = [err |-> FALSE, flow |-> h]
  BY DEF Unmarshals
<1>3. Unmarshalling(a, f, fields)
  BY <1>2
<1>4. unmarshalFields(f, fields) = a[N]
  BY DEF unmarshalFields, Unmarshalling
<1> HIDE DEF a, N
<1> DEFINE S == {n \in 0 .. N : a[n] = g[n]}
<1>5. 0 \in S
  BY <1>1, <1>2, <1>3 DEF Unmarshalling, N
<1>6. ASSUME NEW n \in 0 .. N - 1, n \in S PROVE n + 1 \in S
  <2>1. n + 1 \in 0 .. N /\ n + 1 # 0 /\ (n + 1) - 1 = n
    BY <1>1
  <2>2. a[n] = g[n]
    BY <1>6
  <2>3. a[n + 1] = IF a[n].err THEN a[n] ELSE unmarshalField(a[n].flow, fields[n + 1], n + 1 = 1)
    BY <1>3, <2>1 DEF Unmarshalling, N
  <2>4. g[n + 1] = IF g[n].err THEN g[n] ELSE unmarshalField(g[n].flow, fields[n + 1], n + 1 = 1)
    BY <1>2, <2>1 DEF Unmarshalling, N
  <2> QED
    BY <2>1, <2>2, <2>3, <2>4
<1>7. 0 .. N \subseteq S
  <2> HIDE DEF S
  <2> QED
    BY <1>1, <1>5, <1>6, InductionUpTo
<1> QED
  BY <1>1, <1>2, <1>4, <1>7

LEMMA UnmarshalsNone == ASSUME NEW f PROVE Unmarshals(f, <<>>, ResetMatches(f))
<1> DEFINE r == [err |-> FALSE, flow |-> ResetMatches(f)]
           g == [n \in 0 .. 0 |-> r]
<1>1. IsSequence(<<>>) /\ Len(<<>>) = 0
  BY ShortSequences
<1>2. g[0] = r
  OBVIOUS
<1>3. Unmarshalling(g, f, <<>>)
  BY <1>1 DEF Unmarshalling
<1> QED
  BY <1>1, <1>2, <1>3 DEF Unmarshals

LEMMA UnmarshalsOneMore ==
  ASSUME NEW f, NEW s, NEW h, Unmarshals(f, s, h), NEW fd, NEW k,
         unmarshalField(h, fd, s = <<>>) = [err |-> FALSE, flow |-> k]
  PROVE  Unmarshals(f, Then(s, fd), k)
<1> DEFINE N == Len(s)
           t == Then(s, fd)
           r == [err |-> FALSE, flow |-> k]
<1>1. IsSequence(s) /\ N \in Nat /\ (s = <<>> <=> N = 0)
  <2>1. Len(<<>>) = 0
    OBVIOUS
  <2> QED
    BY <2>1, NotEmpty DEF Unmarshals
<1>2. IsSequence(t) /\ Len(t) = N + 1 /\ t[N + 1] = fd /\ \A i \in 1 .. N : t[i] = s[i]
  BY <1>1, OneAfter DEF Grown
<1>3. PICK g : Unmarshalling(g, f, s) /\ g[N] = [err |-> FALSE, flow |-> h]
  BY DEF Unmarshals
<1> DEFINE e == [n \in 0 .. N + 1 |-> IF n = N + 1 THEN r ELSE g[n]]
<1> HIDE DEF t, N, r
<1>4. e[N + 1] = r /\ \A n \in 0 .. N : e[n] = g[n]
  BY <1>1
<1>5. ASSUME NEW n \in 0 .. N + 1
      PROVE  e[n] = IF n = 0 THEN [err |-> FALSE, flow |-> ResetMatches(f)]
                    ELSE IF e[n - 1].err THEN e[n - 1]
                    ELSE unmarshalField(e[n - 1].flow, t[n], n = 1)
  <2> HIDE DEF e
  <2>1. CASE n \in 0 .. N
    <3>1. n # 0 => n - 1 \in 0 .. N /\ n \in 1 .. N
      BY <1>1, <2>1
    <3>2. g[n] = IF n = 0 THEN [err |-> FALSE, flow |-> ResetMatches(f)]
                 ELSE IF g[n - 1].err THEN g[n - 1]
                 ELSE unmarshalField(g[n - 1].flow, s[n], n = 1)
      BY <1>3, <2>1 DEF Unmarshalling, N
    <3> QED
      BY <1>2, <1>4, <2>1, <3>1, <3>2
  <2>2. CASE n = N + 1
    <3>1. n # 0 /\ n - 1 = N /\ (n = 1 <=> s = <<>>) /\ N \in 0 .. N
      BY <1>1, <2>2
    <3>2. e[n - 1] = [err |-> FALSE, flow |-> h]
      BY <1>3, <1>4, <3>1
    <3>3. e[n - 1].err = FALSE /\ e[n - 1].flow = h
      BY <3>2
    <3>4. unmarshalField(h, fd, n = 1) = r
      <4>1. (n = 1) = (s = <<>>)
        BY <3>1
      <4> QED
        BY <4>1, Zenon DEF r
    <3> QED
      BY <1>2, <1>4, <2>2, <3>1, <3>3, <3>4
  <2> QED
    BY <1>1, <2>1, <2>2
<1>6. Unmarshalling(e, f, t)
  <2>1. e = [n \in 0 .. N + 1 |-> e[n]]
    OBVIOUS
  <2> HIDE DEF e
  <2>2. e = [n \in 0 .. N + 1 |->
               IF n = 0 THEN [err |-> FALSE, flow |-> ResetMatches(f)]
               ELSE IF e[n - 1].err THEN e[n - 1]
               ELSE unmarshalField(e[n - 1].flow, t[n], n = 1)]
    BY <1>5, <2>1
  <2> QED
    BY <1>2, <2>2 DEF Unmarshalling
<1> HIDE DEF e
<1>7. Unmarshals(f, t, k)
  BY <1>2, <1>4, <1>6 DEF Unmarshals, r
<1> QED
  BY <1>7 DEF t

\* A Flow by its fields, and the result that is that Flow without an error.
FlowOf(p, w, i, ms, t, d, c, a) ==
  [priority |-> p, protocol |-> w, inPort |-> i, matches |-> ms, table |-> t,
   idleTimeout |-> d, cookie |-> c, actions |-> a]

Done(h) == [err |-> FALSE, flow |-> h]

\* The value of a field is assigned to one part of the Flow.
LEMMA FieldAssigns ==
  ASSUME NEW h, NEW p, NEW first
  PROVE  /\ unmarshalField(h, Field("priority", p), first) = Set(h, "priority", ParseInt(p))
         /\ unmarshalField(h, Field("in_port", p), first) = Set(h, "inPort", ParseInPort(p))
         /\ unmarshalField(h, Field("table", p), first) = Set(h, "table", ParseInt(p))
         /\ unmarshalField(h, Field("idle_timeout", p), first)
              = Set(h, "idleTimeout", ParseInt(p))
         /\ unmarshalField(h, Field("cookie", p), first) = Set(h, "cookie", ParseCookie(p))
<1> DEFINE fd(key) == Field(key, p)
<1>1. \A key : "word" \notin DOMAIN fd(key) /\ fd(key).key = key /\ fd(key).parts = p /\ fd(key).eqs = 1
  BY DEF Field
<1> HIDE DEF fd
<1>2. /\ unmarshalField(h, fd("priority"), first) = Set(h, "priority", ParseInt(p))
      /\ unmarshalField(h, fd("in_port"), first) = Set(h, "inPort", ParseInPort(p))
      /\ unmarshalField(h, fd("table"), first) = Set(h, "table", ParseInt(p))
      /\ unmarshalField(h, fd("idle_timeout"), first) = Set(h, "idleTimeout", ParseInt(p))
      /\ unmarshalField(h, fd("cookie"), first) = Set(h, "cookie", ParseCookie(p))
  BY <1>1 DEF unmarshalField, Ignored
<1> QED
  BY <1>2 DEF fd

LEMMA MatchAppends ==
  ASSUME NEW h, NEW key, NEW p, NEW first,
         key \notin FlowKeys \cup Ignored, parseMatch(key, p).ok
  PROVE  unmarshalField(h, Field(key, p), first)
         = Set(h, "matches", Ok(Append(h.matches, parseMatch(key, p).val)))
<1> DEFINE fd == Field(key, p)
<1>1. /\ "word" \notin DOMAIN fd /\ fd.key = key /\ fd.parts = p /\ fd.eqs = 1
      /\ ~Spaced(fd, first)
  BY DEF Field, Spaced
<1> HIDE DEF fd
<1>2. unmarshalField(h, fd, first)
        = Set(h, "matches", Ok(Append(h.matches, parseMatch(key, p).val)))
  BY <1>1 DEF unmarshalField, FlowKeys
<1> QED
  BY <1>2 DEF fd

LEMMA OneNumberRead ==
  ASSUME NEW n \in GoInts
  PROVE  ParseInt(<<dec(n)>>) = Ok(n) /\ ParseInPort(<<dec(n)>>) = Ok(n)
<1>1. Len(<<dec(n)>>) = 1 /\ <<dec(n)>>[1] = dec(n)
  OBVIOUS
<1>2. ParseInt(<<dec(n)>>) = Ok(n)
  BY <1>1, IntRead DEF ParseInt
<1>3. <<dec(n)>> # <<atom("LOCAL")>>
  <2>1. dec(n) # atom("LOCAL")
    BY NumberNoWord
  <2> QED
    BY <2>1
<1> QED
  BY <1>2, <1>3 DEF ParseInPort

LEMMA CookieRead ==
  ASSUME NEW n \in 0 .. MaxUint(U64) PROVE ParseCookie(<<hex(n)>>) = Ok(n)
<1>1. Len(<<hex(n)>>) = 1 /\ <<hex(n)>>[1] = hex(n)
  OBVIOUS
<1>2. n \in Int /\ 0 <= n /\ n < 2 ^ U64
  BY LimitIs
<1>3. IsHex(hex(n)) /\ hex(n).hex = n
  BY DEF IsHex, hex
<1>4. ParseUint0(hex(n)) = Ok(n)
  <2>1. (CASE IsHex(hex(n)) -> hex(n).hex
           [] IsDec(hex(n)) -> hex(n).dec [] OTHER -> -1) = n
    <3>1. ~IsDec(hex(n))
      BY DEF IsDec, hex
    <3> QED
      BY <1>3, <3>1
  <2> QED
    BY <1>2, <2>1 DEF ParseUint0
<1> QED
  BY <1>1, <1>4 DEF ParseCookie

LEMMA LocalRead == ParseInPort(<<atom("LOCAL")>>) = Ok(PortLOCAL)
BY DEF ParseInPort

LEMMA Assigned ==
  ASSUME NEW p, NEW w, NEW i, NEW ms, NEW t, NEW d, NEW c, NEW a, NEW v
  PROVE  /\ Set(FlowOf(p, w, i, ms, t, d, c, a), "priority", Ok(v)) = Done(FlowOf(v, w, i, ms, t, d, c, a))
         /\ Set(FlowOf(p, w, i, ms, t, d, c, a), "inPort", Ok(v)) = Done(FlowOf(p, w, v, ms, t, d, c, a))
         /\ Set(FlowOf(p, w, i, ms, t, d, c, a), "matches", Ok(v)) = Done(FlowOf(p, w, i, v, t, d, c, a))
         /\ Set(FlowOf(p, w, i, ms, t, d, c, a), "table", Ok(v)) = Done(FlowOf(p, w, i, ms, v, d, c, a))
         /\ Set(FlowOf(p, w, i, ms, t, d, c, a), "idleTimeout", Ok(v)) = Done(FlowOf(p, w, i, ms, t, v, c, a))
         /\ Set(FlowOf(p, w, i, ms, t, d, c, a), "cookie", Ok(v)) = Done(FlowOf(p, w, i, ms, t, d, v, a))
<1> DEFINE h == FlowOf(p, w, i, ms, t, d, c, a)
<1>1. Set(h, "priority", Ok(v)) = Done(FlowOf(v, w, i, ms, t, d, c, a))
  <2>1. [h EXCEPT !["priority"] = v] = FlowOf(v, w, i, ms, t, d, c, a)
    BY DEF FlowOf
  <2> HIDE DEF h
  <2> QED
    BY <2>1, Succeeds DEF Set, Done
<1>2. Set(h, "inPort", Ok(v)) = Done(FlowOf(p, w, v, ms, t, d, c, a))
  <2>1. [h EXCEPT !["inPort"] = v] = FlowOf(p, w, v, ms, t, d, c, a)
    BY DEF FlowOf
  <2> HIDE DEF h
  <2> QED
    BY <2>1, Succeeds DEF Set, Done
<1>3. Set(h, "matches", Ok(v)) = Done(FlowOf(p, w, i, v, t, d, c, a))
  <2>1. [h EXCEPT !["matches"] = v] = FlowOf(p, w, i, v, t, d, c, a)
    BY DEF FlowOf
  <2> HIDE DEF h
  <2> QED
    BY <2>1, Succeeds DEF Set, Done
<1>4. Set(h, "table", Ok(v)) = Done(FlowOf(p, w, i, ms, v, d, c, a))
  <2>1. [h EXCEPT !["table"] = v] = FlowOf(p, w, i, ms, v, d, c, a)
    BY DEF FlowOf
  <2> HIDE DEF h
  <2> QED
    BY <2>1, Succeeds DEF Set, Done
<1>5. Set(h, "idleTimeout", Ok(v)) = Done(FlowOf(p, w, i, ms, t, v, c, a))
  <2>1. [h EXCEPT !["idleTimeout"] = v] = FlowOf(p, w, i, ms, t, v, c, a)
    BY DEF FlowOf
  <2> HIDE DEF h
  <2> QED
    BY <2>1, Succeeds DEF Set, Done
<1>6. Set(h, "cookie", Ok(v)) = Done(FlowOf(p, w, i, ms, t, d, v, a))
  <2>1. [h EXCEPT !["cookie"] = v] = FlowOf(p, w, i, ms, t, d, v, a)
    BY DEF FlowOf
  <2> HIDE DEF h
  <2> QED
    BY <2>1, Succeeds DEF Set, Done
<1> QED
  BY <1>1, <1>2, <1>3, <1>4, <1>5, <1>6

\* A flow that is of no protocol.
NoProtocol == ""

\* The fields of a flow.
Priority(n)    == Field("priority", <<dec(n)>>)
PortField(n)   == Field("in_port", <<IF n = PortLOCAL THEN atom("LOCAL") ELSE dec(n)>>)
TableField(n)  == Field("table", <<dec(n)>>)
IdleField(n)   == Field("idle_timeout", <<dec(n)>>)
CookieField(n) == Field("cookie", <<hex(n)>>)

\* A field changes the Flow h to k, first field or not.
Reads(h, fd, k) == \A first : unmarshalField(h, fd, first) = Done(k)

\* What each field does to a Flow.
LEMMA NumberReads ==
  ASSUME NEW p, NEW w, NEW i, NEW ms, NEW t, NEW d, NEW c, NEW a, NEW n \in GoInts
  PROVE  /\ Reads(FlowOf(p, w, i, ms, t, d, c, a), Priority(n), FlowOf(n, w, i, ms, t, d, c, a))
         /\ Reads(FlowOf(p, w, i, ms, t, d, c, a), TableField(n), FlowOf(p, w, i, ms, n, d, c, a))
         /\ Reads(FlowOf(p, w, i, ms, t, d, c, a), IdleField(n), FlowOf(p, w, i, ms, t, n, c, a))
<1>1. ParseInt(<<dec(n)>>) = Ok(n)
  BY OneNumberRead
<1> DEFINE q == <<dec(n)>>
<1> HIDE DEF q
<1>2. ParseInt(q) = Ok(n)
  BY <1>1, Zenon DEF q
<1>3. ASSUME NEW first
      PROVE  /\ unmarshalField(FlowOf(p, w, i, ms, t, d, c, a), Field("priority", q), first)
                  = Done(FlowOf(n, w, i, ms, t, d, c, a))
             /\ unmarshalField(FlowOf(p, w, i, ms, t, d, c, a), Field("table", q), first)
                  = Done(FlowOf(p, w, i, ms, n, d, c, a))
             /\ unmarshalField(FlowOf(p, w, i, ms, t, d, c, a), Field("idle_timeout", q), first)
                  = Done(FlowOf(p, w, i, ms, t, n, c, a))
  BY <1>2, FieldAssigns, Assigned
<1> QED
  BY <1>3, Zenon DEF q, Reads, Priority, TableField, IdleField

LEMMA PortReads ==
  ASSUME NEW p, NEW w, NEW i, NEW ms, NEW t, NEW d, NEW c, NEW a, NEW n \in GoInts
  PROVE  Reads(FlowOf(p, w, i, ms, t, d, c, a), PortField(n), FlowOf(p, w, n, ms, t, d, c, a))
<1> DEFINE q == <<IF n = PortLOCAL THEN atom("LOCAL") ELSE dec(n)>>
<1>1. ParseInPort(q) = Ok(n)
  <2>1. CASE n = PortLOCAL
    <3>1. q = <<atom("LOCAL")>>
      BY <2>1, Zenon
    <3> QED
      BY <2>1, <3>1, LocalRead, Zenon
  <2>2. CASE n # PortLOCAL
    <3>1. q = <<dec(n)>>
      BY <2>2, Zenon
    <3> QED
      BY <3>1, OneNumberRead, Zenon
  <2> QED
    BY <2>1, <2>2, Zenon
<1> HIDE DEF q
<1>2. ASSUME NEW first
      PROVE  unmarshalField(FlowOf(p, w, i, ms, t, d, c, a), Field("in_port", q), first)
             = Done(FlowOf(p, w, n, ms, t, d, c, a))
  BY <1>1, FieldAssigns, Assigned
<1> QED
  BY <1>2, Zenon DEF q, Reads, PortField

LEMMA CookieReads ==
  ASSUME NEW p, NEW w, NEW i, NEW ms, NEW t, NEW d, NEW c, NEW a, NEW n \in 0 .. MaxUint(U64)
  PROVE  Reads(FlowOf(p, w, i, ms, t, d, c, a), CookieField(n), FlowOf(p, w, i, ms, t, d, n, a))
<1> DEFINE q == <<hex(n)>>
<1>1. ParseCookie(q) = Ok(n)
  BY CookieRead
<1> HIDE DEF q
<1>2. ASSUME NEW first
      PROVE  unmarshalField(FlowOf(p, w, i, ms, t, d, c, a), Field("cookie", q), first)
             = Done(FlowOf(p, w, i, ms, t, d, n, a))
  BY <1>1, FieldAssigns, Assigned
<1> QED
  BY <1>2, Zenon DEF q, Reads, CookieField

LEMMA WordReads ==
  ASSUME NEW p, NEW w, NEW i, NEW ms, NEW t, NEW d, NEW c, NEW a, NEW v, v # NoProtocol
  PROVE  Reads(FlowOf(p, w, i, ms, t, d, c, a), Word(v), FlowOf(p, v, i, ms, t, d, c, a))
<1> DEFINE h == FlowOf(p, w, i, ms, t, d, c, a)
<1>1. ASSUME NEW first
      PROVE  unmarshalField(h, Word(v), first) = Done(FlowOf(p, v, i, ms, t, d, c, a))
  <2>1. "word" \in DOMAIN Word(v) /\ Word(v).word = v /\ ~Spaced(Word(v), first)
    BY DEF Word, Spaced
  <2>2. unmarshalField(h, Word(v), first) = [err |-> FALSE, flow |-> [h EXCEPT !.protocol = v]]
    <3> HIDE DEF h
    <3> QED
      BY <2>1, Zenon DEF unmarshalField, NoProtocol
  <2>3. [h EXCEPT !.protocol = v] = FlowOf(p, v, i, ms, t, d, c, a)
    BY DEF FlowOf
  <2> HIDE DEF h
  <2> QED
    BY <2>2, <2>3 DEF Done
<1> QED
  BY <1>1, Zenon DEF Reads, h

LEMMA MatchReads ==
  ASSUME NEW p, NEW w, NEW i, NEW ms, NEW t, NEW d, NEW c, NEW a, NEW first,
         NEW key, NEW q, key \notin FlowKeys \cup Ignored, parseMatch(key, q).ok
  PROVE  unmarshalField(FlowOf(p, w, i, ms, t, d, c, a), Field(key, q), first)
         = Done(FlowOf(p, w, i, Append(ms, parseMatch(key, q).val), t, d, c, a))
<1> DEFINE h == FlowOf(p, w, i, ms, t, d, c, a)
           e == Append(ms, parseMatch(key, q).val)
<1>1. h.matches = ms
  BY DEF FlowOf
<1>2. unmarshalField(h, Field(key, q), first)
        = Set(h, "matches", Ok(Append(h.matches, parseMatch(key, q).val)))
  <2> HIDE DEF h
  <2> QED
    BY MatchAppends
<1>3. unmarshalField(h, Field(key, q), first) = Set(h, "matches", Ok(e))
  <2> HIDE DEF h
  <2> QED
    BY <1>1, <1>2
<1>4. Set(h, "matches", Ok(e)) = Done(FlowOf(p, w, i, e, t, d, c, a))
  <2> HIDE DEF e
  <2> QED
    BY Assigned
<1> QED
  BY <1>3, <1>4, Zenon
----------------------------------------------------------------------------
(* A flow's text, field by field.                                          *)

\* A match that marshals has a key that only parseMatch knows.
LEMMA OwnKey ==
  ASSUME NEW m, TypedMatch(m), MatchText(m).ok
  PROVE  LET v == MatchText(m).val IN
         /\ v.key \notin FlowKeys \cup Ignored
         /\ parseMatch(v.key, v.parts).ok
         /\ MatchText(parseMatch(v.key, v.parts).val) = MatchText(m)
<1> DEFINE v == MatchText(m).val
<1>1. parseMatch(v.key, v.parts).ok /\ MatchText(parseMatch(v.key, v.parts).val) = MatchText(m)
  BY MatchesRoundTrip DEF RoundTrips
<1>2. ASSUME NEW key \in FlowKeys \cup Ignored, NEW q PROVE parseMatch(key, q) = Fail
  BY DEF parseMatch, FlowKeys, Ignored
<1>3. ~Fail.ok
  BY DEF Fail
<1> HIDE DEF v
<1>4. v.key \notin FlowKeys \cup Ignored
  BY <1>1, <1>2, <1>3
<1> QED
  BY <1>1, <1>4 DEF v

\* The fields of matches, and the matches that the parser makes of them.
FieldsOf(ms) == [i \in DOMAIN ms |-> MatchField(ms[i])]
ParsedOf(ms) ==
  [i \in DOMAIN ms |-> parseMatch(MatchText(ms[i]).val.key, MatchText(ms[i]).val.parts).val]

LEMMA MapsAreSequences ==
  ASSUME NEW ms, IsSequence(ms)
  PROVE  /\ IsSequence(FieldsOf(ms)) /\ Len(FieldsOf(ms)) = Len(ms)
         /\ IsSequence(ParsedOf(ms)) /\ Len(ParsedOf(ms)) = Len(ms)
<1> DEFINE N == Len(ms)
<1>1. N \in Nat /\ DOMAIN ms = 1 .. N
  BY NotEmpty
<1> HIDE DEF N
<1>2. ASSUME NEW x, DOMAIN x = 1 .. N, x = [i \in 1 .. N |-> x[i]]
      PROVE  IsSequence(x) /\ Len(x) = N
  <2> DEFINE S == {x[i] : i \in 1 .. N}
  <2>1. x \in [1 .. N -> S]
    BY <1>2
  <2> HIDE DEF S
  <2>2. x \in Seq(S)
    BY <1>1, <2>1, SeqDef
  <2>3. Len(x) = N
    BY <1>1, <1>2, <2>2
  <2> QED
    BY <2>2, <2>3 DEF IsSequence
<1>3. /\ DOMAIN FieldsOf(ms) = 1 .. N /\ FieldsOf(ms) = [i \in 1 .. N |-> FieldsOf(ms)[i]]
      /\ DOMAIN ParsedOf(ms) = 1 .. N /\ ParsedOf(ms) = [i \in 1 .. N |-> ParsedOf(ms)[i]]
  BY <1>1 DEF FieldsOf, ParsedOf
<1>4. IsSequence(FieldsOf(ms)) /\ Len(FieldsOf(ms)) = N
  BY <1>2, <1>3
<1>5. IsSequence(ParsedOf(ms)) /\ Len(ParsedOf(ms)) = N
  BY <1>2, <1>3
<1> QED
  BY <1>4, <1>5 DEF N

LEMMA PrefixGrows ==
  ASSUME NEW x, IsSequence(x), NEW k \in 0 .. Len(x) - 1
  PROVE  /\ SubSeq(x, 1, k + 1) = Append(SubSeq(x, 1, k), x[k + 1])
         /\ IsSequence(SubSeq(x, 1, k)) /\ SubSeq(x, 1, 0) = <<>>
         /\ SubSeq(x, 1, Len(x)) = x
<1>1. PICK S : x \in Seq(S)
  BY DEF IsSequence
<1>2. Len(x) \in Nat /\ k + 1 \in 1 .. Len(x) /\ (k + 1) - 1 = k
  BY <1>1
<1>3. SubSeq(x, 1, k + 1) = Append(SubSeq(x, 1, k), x[k + 1])
  BY <1>1, <1>2, SubSeqRecursiveSecond
<1>4. SubSeq(x, 1, k) \in Seq(S) /\ SubSeq(x, 1, 0) = <<>> /\ SubSeq(x, 1, Len(x)) = x
  BY <1>1, <1>2
<1> QED
  BY <1>3, <1>4 DEF IsSequence

LEMMA WholePrefix ==
  ASSUME NEW x, IsSequence(x) PROVE SubSeq(x, 1, 0) = <<>> /\ SubSeq(x, 1, Len(x)) = x
<1>1. PICK S : x \in Seq(S)
  BY DEF IsSequence
<1> QED
  BY <1>1

LEMMA GluedEnd ==
  ASSUME NEW s, NEW x, NEW e, IsSequence(s), IsSequence(x)
  PROVE  (s \o x) \o <<e>> = s \o (x \o <<e>>)
<1> DEFINE u == <<e>>
<1>1. PICK S : s \in Seq(S)
  BY DEF IsSequence
<1>2. PICK T : x \in Seq(T)
  BY DEF IsSequence
<1> DEFINE V == S \cup T \cup {e}
<1>3. s \in Seq(V) /\ x \in Seq(V) /\ u \in Seq(V)
  BY <1>1, <1>2
<1> HIDE DEF V, u
<1>4. (s \o x) \o u = s \o (x \o u)
  BY <1>3, ConcatAssociative
<1> QED
  BY <1>4 DEF u

LEMMA MatchesRead ==
  ASSUME NEW f, NEW s, NEW p, NEW w, NEW i, NEW t, NEW d, NEW c, NEW a,
         Unmarshals(f, s, FlowOf(p, w, i, <<>>, t, d, c, a)),
         NEW ms, IsSequence(ms), \A k \in DOMAIN ms : TypedMatch(ms[k]) /\ MatchText(ms[k]).ok
  PROVE  Unmarshals(f, s \o FieldsOf(ms), FlowOf(p, w, i, ParsedOf(ms), t, d, c, a))
<1> DEFINE N == Len(ms)
           F == FieldsOf(ms)
           B == ParsedOf(ms)
           R(k) == Unmarshals(f, s \o SubSeq(F, 1, k), FlowOf(p, w, i, SubSeq(B, 1, k), t, d, c, a))
           S == {k \in 0 .. N : R(k)}
<1>1. N \in Nat /\ DOMAIN ms = 1 .. N /\ IsSequence(F) /\ Len(F) = N /\ IsSequence(B) /\ Len(B) = N
  BY NotEmpty, MapsAreSequences
<1>2. IsSequence(s)
  BY DEF Unmarshals
<1>3. \A k \in 1 .. N : /\ F[k] = Field(MatchText(ms[k]).val.key, MatchText(ms[k]).val.parts)
                        /\ B[k] = parseMatch(MatchText(ms[k]).val.key, MatchText(ms[k]).val.parts).val
  BY <1>1 DEF FieldsOf, ParsedOf, MatchField
<1> HIDE DEF N, F, B
<1>4. 0 \in S
  <2>1. SubSeq(F, 1, 0) = <<>> /\ SubSeq(B, 1, 0) = <<>>
    BY <1>1, WholePrefix
  <2>2. s \o <<>> = s
    BY <1>2, NothingAfter
  <2>3. R(0)
    BY <2>1, <2>2
  <2> HIDE DEF R
  <2> QED
    BY <1>1, <2>3
<1>5. ASSUME NEW k \in 0 .. N - 1, k \in S PROVE k + 1 \in S
  <2> DEFINE m == ms[k + 1]
             x == SubSeq(F, 1, k)
             y == SubSeq(B, 1, k)
             v == MatchText(m).val
             h == FlowOf(p, w, i, y, t, d, c, a)
  <2>1. k + 1 \in 1 .. N /\ k + 1 \in 0 .. N
    BY <1>1
  <2>2. /\ v.key \notin FlowKeys \cup Ignored /\ parseMatch(v.key, v.parts).ok
    <3>1. TypedMatch(m) /\ MatchText(m).ok
      BY <1>1, <2>1
    <3> HIDE DEF m
    <3> QED
      BY <3>1, OwnKey
  <2>3. F[k + 1] = Field(v.key, v.parts) /\ B[k + 1] = parseMatch(v.key, v.parts).val
    BY <1>3, <2>1
  <2>4. /\ SubSeq(F, 1, k + 1) = Append(x, F[k + 1]) /\ IsSequence(x)
        /\ SubSeq(B, 1, k + 1) = Append(y, B[k + 1]) /\ IsSequence(y)
    BY <1>1, PrefixGrows
  <2>5. s \o SubSeq(F, 1, k + 1) = Then(s \o x, F[k + 1])
    <3> HIDE DEF x
    <3>1. Append(x, F[k + 1]) = x \o <<F[k + 1]>> /\ IsSequence(<<F[k + 1]>>)
      BY <2>4, GluedOne, ShortSequences
    <3>2. (s \o x) \o <<F[k + 1]>> = s \o (x \o <<F[k + 1]>>)
      BY <1>2, <2>4, GluedEnd
    <3> QED
      BY <2>4, <3>1, <3>2, Zenon DEF Then
  <2>6. Unmarshals(f, s \o x, h)
    BY <1>5
  <2> HIDE DEF v, m, x, y
  <2>7. unmarshalField(h, F[k + 1], s \o x = <<>>)
        = Done(FlowOf(p, w, i, Append(y, B[k + 1]), t, d, c, a))
    BY <2>2, <2>3, MatchReads
  <2>8. Unmarshals(f, Then(s \o x, F[k + 1]), FlowOf(p, w, i, Append(y, B[k + 1]), t, d, c, a))
    <3> HIDE DEF h
    <3> QED
      BY <2>6, <2>7, UnmarshalsOneMore DEF Done
  <2>9. R(k + 1)
    BY <2>4, <2>5, <2>8, Zenon
  <2> HIDE DEF R
  <2> QED
    BY <2>1, <2>9
<1>6. N \in S
  <2> HIDE DEF S
  <2>1. 0 .. N \subseteq S
    BY <1>1, <1>4, <1>5, InductionUpTo
  <2> QED
    BY <1>1, <2>1
<1>7. SubSeq(F, 1, N) = F /\ SubSeq(B, 1, N) = B
  BY <1>1, WholePrefix
<1> QED
  BY <1>6, <1>7, Zenon DEF F, B
----------------------------------------------------------------------------
(* A whole flow.                                                           *)

Maybe(b, fd) == IF b THEN <<fd>> ELSE <<>>

\* The fields of a flow, in the order of its text.
FieldList(p, w, i, ms, t, d, c) ==
  <<Priority(p)>> \o Maybe(w # NoProtocol, Word(w)) \o Maybe(i # 0, PortField(i)) \o FieldsOf(ms)
  \o <<TableField(t), IdleField(d)>> \o Maybe(c > 0, CookieField(c))

\* The next field, and one that may not be there.
LEMMA NextRead ==
  ASSUME NEW f, NEW s, NEW h, Unmarshals(f, s, h), NEW fd, NEW k, Reads(h, fd, k)
  PROVE  Unmarshals(f, Then(s, fd), k)
<1>1. unmarshalField(h, fd, s = <<>>) = [err |-> FALSE, flow |-> k]
  <2> DEFINE e == s = <<>>
  <2>1. unmarshalField(h, fd, e) = Done(k)
    <3> HIDE DEF e
    <3> QED
      BY Zenon DEF Reads
  <2> QED
    BY <2>1, Zenon DEF Done
<1> QED
  BY <1>1, UnmarshalsOneMore

LEMMA MaybeRead ==
  ASSUME NEW f, NEW s, NEW h, Unmarshals(f, s, h), NEW b \in BOOLEAN, NEW fd, NEW k,
         b => Reads(h, fd, k), ~b => h = k
  PROVE  Unmarshals(f, s \o Maybe(b, fd), k)
<1>1. CASE b
  <2>1. s \o Maybe(b, fd) = Then(s, fd)
    BY <1>1, Zenon DEF Maybe, Then
  <2>2. Unmarshals(f, Then(s, fd), k)
    BY <1>1, NextRead
  <2> QED
    BY <2>1, <2>2, Zenon
<1>2. CASE ~b
  <2>1. IsSequence(s)
    BY Zenon DEF Unmarshals
  <2>2. s \o Maybe(b, fd) = s
    BY <1>2, <2>1, NothingAfter DEF Maybe
  <2> QED
    BY <1>2, <2>2, Zenon
<1> QED
  BY <1>1, <1>2

LEMMA Unsigned == ASSUME NEW c \in 0 .. MaxUint(U64) PROVE c > 0 <=> c # 0
<1>1. c \in Int /\ 0 <= c
  BY LimitIs
<1> QED
  BY <1>1
\* The fields of a flow, read into another one: what the text does not have,
\* the protocol, the port and the cookie, stays as it was there.
LEMMA FieldListRead ==
  ASSUME NEW p0, NEW w0, NEW i0, NEW ms0, NEW t0, NEW d0, NEW c0, NEW a0,
         NEW p \in GoInts, NEW w, NEW i \in GoInts, NEW ms, IsSequence(ms),
         \A k \in DOMAIN ms : TypedMatch(ms[k]) /\ MatchText(ms[k]).ok,
         NEW t \in GoInts, NEW d \in GoInts, NEW c \in 0 .. MaxUint(U64),
         w = NoProtocol => w0 = NoProtocol, i = 0 => i0 = 0, c = 0 => c0 = 0
  PROVE  Unmarshals(FlowOf(p0, w0, i0, ms0, t0, d0, c0, a0), FieldList(p, w, i, ms, t, d, c),
                    FlowOf(p, w, i, ParsedOf(ms), t, d, c, a0))
<1> DEFINE f == FlowOf(p0, w0, i0, ms0, t0, d0, c0, a0)
           s1 == <<Priority(p)>>
           s2 == s1 \o Maybe(w # NoProtocol, Word(w))
           s3 == s2 \o Maybe(i # 0, PortField(i))
           s4 == s3 \o FieldsOf(ms)
           s6 == s4 \o <<TableField(t), IdleField(d)>>
           B  == ParsedOf(ms)
<1>1. FieldList(p, w, i, ms, t, d, c) = s6 \o Maybe(c > 0, CookieField(c))
  BY Zenon DEF FieldList
<1>2. Unmarshals(f, <<>>, FlowOf(p0, w0, i0, <<>>, t0, d0, c0, a0))
  <2>1. ResetMatches(f) = FlowOf(p0, w0, i0, <<>>, t0, d0, c0, a0)
    BY DEF ResetMatches, FlowOf
  <2> HIDE DEF f
  <2> QED
    BY <2>1, UnmarshalsNone
<1> HIDE DEF f
<1>3. Unmarshals(f, s1, FlowOf(p, w0, i0, <<>>, t0, d0, c0, a0))
  <2>1. Unmarshals(f, Then(<<>>, Priority(p)), FlowOf(p, w0, i0, <<>>, t0, d0, c0, a0))
    BY <1>2, NumberReads, NextRead
  <2>2. Then(<<>>, Priority(p)) = s1
    BY DEF Then
  <2> QED
    BY <2>1, <2>2, Zenon
<1> HIDE DEF s1
<1>4. Unmarshals(f, s2, FlowOf(p, w, i0, <<>>, t0, d0, c0, a0))
  <2> DEFINE b == w # NoProtocol
  <2>1. b \in BOOLEAN
    OBVIOUS
  <2>2. b => Reads(FlowOf(p, w0, i0, <<>>, t0, d0, c0, a0), Word(w),
                   FlowOf(p, w, i0, <<>>, t0, d0, c0, a0))
    BY WordReads
  <2>3. ~b => FlowOf(p, w0, i0, <<>>, t0, d0, c0, a0) = FlowOf(p, w, i0, <<>>, t0, d0, c0, a0)
    OBVIOUS
  <2>4. Unmarshals(f, s1 \o Maybe(b, Word(w)), FlowOf(p, w, i0, <<>>, t0, d0, c0, a0))
    <3> HIDE DEF b
    <3> QED
      BY <1>3, <2>1, <2>2, <2>3, MaybeRead
  <2> QED
    BY <2>4, Zenon
<1> HIDE DEF s2
<1>5. Unmarshals(f, s3, FlowOf(p, w, i, <<>>, t0, d0, c0, a0))
  <2> DEFINE b == i # 0
  <2>1. b \in BOOLEAN
    OBVIOUS
  <2>2. Reads(FlowOf(p, w, i0, <<>>, t0, d0, c0, a0), PortField(i),
              FlowOf(p, w, i, <<>>, t0, d0, c0, a0))
    BY PortReads
  <2>3. ~b => FlowOf(p, w, i0, <<>>, t0, d0, c0, a0) = FlowOf(p, w, i, <<>>, t0, d0, c0, a0)
    OBVIOUS
  <2>4. Unmarshals(f, s2 \o Maybe(b, PortField(i)), FlowOf(p, w, i, <<>>, t0, d0, c0, a0))
    <3> HIDE DEF b
    <3> QED
      BY <1>4, <2>1, <2>2, <2>3, MaybeRead
  <2> QED
    BY <2>4, Zenon
<1> HIDE DEF s3
<1>6. Unmarshals(f, s4, FlowOf(p, w, i, B, t0, d0, c0, a0))
  BY <1>5, MatchesRead
<1> HIDE DEF s4, B
<1>7. Unmarshals(f, s6, FlowOf(p, w, i, B, t, d, c0, a0))
  <2> DEFINE x5 == TableField(t)
             x6 == IdleField(d)
  <2>1. Unmarshals(f, Then(s4, x5), FlowOf(p, w, i, B, t, d0, c0, a0))
    BY <1>6, NumberReads, NextRead
  <2>2. Unmarshals(f, Then(Then(s4, x5), x6), FlowOf(p, w, i, B, t, d, c0, a0))
    BY <2>1, NumberReads, NextRead
  <2> HIDE DEF x5, x6
  <2>3. IsSequence(s4) /\ IsSequence(<<x5>>) /\ IsSequence(<<x6>>)
    <3>1. IsSequence(s4)
      BY <1>6, Zenon DEF Unmarshals
    <3> QED
      BY <3>1, ShortSequences
  <2>4. (s4 \o <<x5>>) \o <<x6>> = s4 \o (<<x5>> \o <<x6>>)
    BY <2>3, Glued
  <2>5. <<x5>> \o <<x6>> = <<x5, x6>>
    BY OneAndOne
  <2>6. Then(Then(s4, x5), x6) = s4 \o <<x5, x6>>
    BY <2>4, <2>5, Zenon DEF Then
  <2> QED
    BY <2>2, <2>6, Zenon DEF x5, x6
<1> HIDE DEF s6
<1>8. Unmarshals(f, s6 \o Maybe(c > 0, CookieField(c)), FlowOf(p, w, i, B, t, d, c, a0))
  <2> DEFINE b == c > 0
  <2>1. b \in BOOLEAN /\ (~b => c = 0)
    BY Unsigned
  <2>2. Reads(FlowOf(p, w, i, B, t, d, c0, a0), CookieField(c), FlowOf(p, w, i, B, t, d, c, a0))
    BY CookieReads
  <2>3. ~b => FlowOf(p, w, i, B, t, d, c0, a0) = FlowOf(p, w, i, B, t, d, c, a0)
    BY <2>1
  <2>4. Unmarshals(f, s6 \o Maybe(b, CookieField(c)), FlowOf(p, w, i, B, t, d, c, a0))
    <3> HIDE DEF b
    <3> QED
      BY <1>7, <2>1, <2>2, <2>3, MaybeRead
  <2> QED
    BY <2>4, Zenon
<1> QED
  BY <1>1, <1>8, Zenon DEF f, B
\* All actions, and all matches, marshal.
ActionsMarshal(f) == \A i \in DOMAIN f.actions : ActionText(f.actions[i]).ok
MatchesMarshal(f) == \A i \in DOMAIN f.matches : MatchText(f.matches[i]).ok

FlowText(f) ==
  [fields  |-> FieldList(f.priority, f.protocol, f.inPort, f.matches, f.table, f.idleTimeout,
                         f.cookie),
   actions |-> <<JoinActions(Texts(f.actions))>>]

LEMMA ActionsWritten ==
  ASSUME NEW f
  PROVE  /\ marshalActions(f).ok <=> ActionsMarshal(f)
         /\ ActionsMarshal(f) => marshalActions(f).val = Texts(f.actions)
<1> DEFINE a == marshalActions(f)
           x == [i \in DOMAIN f.actions |-> ActionText(f.actions[i])]
<1>1. DOMAIN x = DOMAIN f.actions /\ \A i \in DOMAIN f.actions : x[i] = ActionText(f.actions[i])
  OBVIOUS
<1>2. a = marshalFunctions(x)
  BY DEF marshalActions
<1> HIDE DEF x, a
<1>3. CASE ActionsMarshal(f)
  <2>1. [i \in DOMAIN x |-> x[i].val] = Texts(f.actions)
    BY <1>1 DEF Texts
  <2>2. \A i \in DOMAIN x : x[i].ok
    BY <1>1, <1>3 DEF ActionsMarshal
  <2>3. a = Ok(Texts(f.actions))
    BY <1>2, <2>1, <2>2, Zenon DEF marshalFunctions
  <2> QED
    BY <1>3, <2>3, Succeeds DEF a
<1>4. CASE ~ActionsMarshal(f)
  <2>1. ~(\A i \in DOMAIN x : x[i].ok)
    BY <1>1, <1>4 DEF ActionsMarshal
  <2>2. a = Fail
    BY <1>2, <2>1, Zenon DEF marshalFunctions
  <2> QED
    BY <1>4, <2>2 DEF Fail, a
<1> QED
  BY <1>3, <1>4

\* Flow.MarshalText, with the loops over actions and matches done.
LEMMA FlowTextIs ==
  ASSUME NEW f
  PROVE  Flow_MarshalText(f)
         = IF /\ f.actions # <<>> /\ ActionsMarshal(f) /\ MatchesMarshal(f)
              /\ ~DropNotAlone(Texts(f.actions))
           THEN Ok(FlowText(f)) ELSE Fail
<1> DEFINE a == marshalActions(f)
           m == marshalMatches(f)
<1>1. /\ a.ok <=> ActionsMarshal(f)
      /\ a.ok => a.val = Texts(f.actions)
  BY ActionsWritten
<1>2. /\ m.ok <=> MatchesMarshal(f)
      /\ m.ok => MatchFields(m.val) = FieldsOf(f.matches)
  <2> DEFINE x == [i \in DOMAIN f.matches |-> MatchText(f.matches[i])]
  <2>1. DOMAIN x = DOMAIN f.matches /\ \A i \in DOMAIN f.matches : x[i] = MatchText(f.matches[i])
    OBVIOUS
  <2>2. m = marshalFunctions(x)
    BY DEF marshalMatches
  <2> HIDE DEF x, m
  <2>3. CASE MatchesMarshal(f)
    <3> DEFINE y == [i \in DOMAIN x |-> x[i].val]
    <3>1. \A i \in DOMAIN x : x[i].ok
      BY <2>1, <2>3 DEF MatchesMarshal
    <3>2. m = Ok(y)
      BY <2>2, <3>1, Zenon DEF marshalFunctions
    <3>3. MatchFields(y) = FieldsOf(f.matches)
      BY <2>1 DEF MatchFields, FieldsOf, MatchField
    <3> HIDE DEF y
    <3> QED
      BY <2>3, <3>2, <3>3, Succeeds
  <2>4. CASE ~MatchesMarshal(f)
    <3>1. ~(\A i \in DOMAIN x : x[i].ok)
      BY <2>1, <2>4 DEF MatchesMarshal
    <3>2. m = Fail
      BY <2>2, <3>1, Zenon DEF marshalFunctions
    <3> QED
      BY <2>4, <3>2 DEF Fail
  <2> QED
    BY <2>3, <2>4
<1> HIDE DEF a, m
<1>3. ProtocolField(f) = Maybe(f.protocol # NoProtocol, Word(f.protocol))
  BY Zenon DEF ProtocolField, Maybe, NoProtocol
<1>4. InPortField(f) = Maybe(f.inPort # 0, PortField(f.inPort))
  BY Zenon DEF InPortField, Maybe, PortField
<1>5. Flow_MarshalText(f)
      = IF f.actions = <<>> \/ ~a.ok \/ ~m.ok \/ DropNotAlone(a.val)
        THEN Fail
        ELSE Ok([fields |->
                   <<Priority(f.priority)>>
                   \o ProtocolField(f) \o InPortField(f) \o MatchFields(m.val)
                   \o <<TableField(f.table), IdleField(f.idleTimeout)>>
                   \o Maybe(f.cookie > 0, CookieField(f.cookie)),
                 actions |-> <<JoinActions(a.val)>>])
  BY Zenon DEF Flow_MarshalText, Priority, TableField, IdleField, CookieField, Maybe, a, m
<1>6. CASE /\ f.actions # <<>> /\ ActionsMarshal(f) /\ MatchesMarshal(f)
           /\ ~DropNotAlone(Texts(f.actions))
  <2>1. a.ok /\ m.ok /\ a.val = Texts(f.actions) /\ MatchFields(m.val) = FieldsOf(f.matches)
    BY <1>1, <1>2, <1>6
  <2>2. Flow_MarshalText(f)
        = Ok([fields |->
                   <<Priority(f.priority)>>
                   \o Maybe(f.protocol # NoProtocol, Word(f.protocol))
                   \o Maybe(f.inPort # 0, PortField(f.inPort)) \o FieldsOf(f.matches)
                   \o <<TableField(f.table), IdleField(f.idleTimeout)>>
                   \o Maybe(f.cookie > 0, CookieField(f.cookie)),
                 actions |-> <<JoinActions(Texts(f.actions))>>])
    BY <1>3, <1>4, <1>5, <1>6, <2>1, Zenon
  <2>3. Flow_MarshalText(f) = Ok(FlowText(f))
    BY <2>2, Zenon DEF FlowText, FieldList
  <2> QED
    BY <1>6, <2>3, Zenon
<1>7. CASE ~(/\ f.actions # <<>> /\ ActionsMarshal(f) /\ MatchesMarshal(f)
             /\ ~DropNotAlone(Texts(f.actions)))
  <2>1. f.actions = <<>> \/ ~a.ok \/ ~m.ok \/ DropNotAlone(a.val)
    BY <1>1, <1>2, <1>7
  <2>2. Flow_MarshalText(f) = Fail
    BY <1>5, <2>1, Zenon
  <2> QED
    BY <1>7, <2>2, Zenon
<1> QED
  BY <1>6, <1>7, Zenon
\* A Flow as a program may fill it in.
TypedFlow(f) ==
  /\ f.priority \in GoInts /\ f.inPort \in GoInts /\ f.table \in GoInts
  /\ f.idleTimeout \in GoInts /\ f.cookie \in 0 .. MaxUint(U64)
  /\ IsSequence(f.matches) /\ \A i \in DOMAIN f.matches : TypedMatch(f.matches[i])
  /\ IsSequence(f.actions) /\ \A i \in DOMAIN f.actions : TypedAction(f.actions[i])

IsFlowRecord(h) ==
  h = FlowOf(h.priority, h.protocol, h.inPort, h.matches, h.table, h.idleTimeout, h.cookie,
             h.actions)

\* A Flow that the text of f can be read into.  The text leaves out a protocol,
\* a port and a cookie that are not set, and UnmarshalText then keeps its own.
CanHold(h, f) ==
  /\ IsFlowRecord(h)
  /\ f.protocol = NoProtocol => h.protocol = NoProtocol
  /\ f.inPort = 0 => h.inPort = 0
  /\ f.cookie = 0 => h.cookie = 0

\* The Flow that is read: the one written, its matches as the parser makes them.
AsRead(f) ==
  FlowOf(f.priority, f.protocol, f.inPort, ParsedOf(f.matches), f.table, f.idleTimeout, f.cookie,
         f.actions)

LEMMA FieldsAlike ==
  ASSUME NEW ms, IsSequence(ms), \A k \in DOMAIN ms : TypedMatch(ms[k]) /\ MatchText(ms[k]).ok
  PROVE  /\ FieldsOf(ParsedOf(ms)) = FieldsOf(ms)
         /\ \A k \in DOMAIN ParsedOf(ms) : MatchText(ParsedOf(ms)[k]).ok
<1>1. ASSUME NEW k \in DOMAIN ms PROVE MatchText(ParsedOf(ms)[k]) = MatchText(ms[k])
  <2> DEFINE m == ms[k]
  <2>1. TypedMatch(m) /\ MatchText(m).ok
    OBVIOUS
  <2>2. ParsedOf(ms)[k] = parseMatch(MatchText(m).val.key, MatchText(m).val.parts).val
    BY DEF ParsedOf
  <2> HIDE DEF m
  <2>3. MatchText(parseMatch(MatchText(m).val.key, MatchText(m).val.parts).val) = MatchText(m)
    BY <2>1, OwnKey
  <2> QED
    BY <2>2, <2>3 DEF m
<1>2. DOMAIN ParsedOf(ms) = DOMAIN ms
  BY DEF ParsedOf
<1>3. \A k \in DOMAIN ms : MatchField(ParsedOf(ms)[k]) = MatchField(ms[k])
  BY <1>1 DEF MatchField
<1> QED
  BY <1>1, <1>2, <1>3 DEF FieldsOf

LEMMA FlowOfIs ==
  ASSUME NEW p, NEW w, NEW i, NEW ms, NEW t, NEW d, NEW c, NEW a
  PROVE  LET h == FlowOf(p, w, i, ms, t, d, c, a) IN
         /\ h.priority = p /\ h.protocol = w /\ h.inPort = i /\ h.matches = ms /\ h.table = t
         /\ h.idleTimeout = d /\ h.cookie = c /\ h.actions = a
         /\ \A b : [h EXCEPT !.actions = b] = FlowOf(p, w, i, ms, t, d, c, b)
BY DEF FlowOf

LEMMA TextAlike ==
  ASSUME NEW f, TypedFlow(f), MatchesMarshal(f)
  PROVE  /\ FlowText(AsRead(f)) = FlowText(f) /\ MatchesMarshal(AsRead(f))
         /\ AsRead(f).actions = f.actions
<1> DEFINE h == AsRead(f)
<1>1. /\ h.priority = f.priority /\ h.protocol = f.protocol /\ h.inPort = f.inPort
      /\ h.matches = ParsedOf(f.matches) /\ h.table = f.table
      /\ h.idleTimeout = f.idleTimeout /\ h.cookie = f.cookie /\ h.actions = f.actions
  BY FlowOfIs DEF AsRead
<1>2. /\ FieldsOf(ParsedOf(f.matches)) = FieldsOf(f.matches)
      /\ \A k \in DOMAIN ParsedOf(f.matches) : MatchText(ParsedOf(f.matches)[k]).ok
  <2>1. IsSequence(f.matches)
        /\ \A k \in DOMAIN f.matches : TypedMatch(f.matches[k]) /\ MatchText(f.matches[k]).ok
    BY DEF TypedFlow, MatchesMarshal
  <2> QED
    BY <2>1, FieldsAlike
<1> HIDE DEF h
<1>3. MatchesMarshal(h)
  BY <1>1, <1>2 DEF MatchesMarshal
<1>4. FieldsOf(h.matches) = FieldsOf(f.matches)
  BY <1>1, <1>2
<1>5. FlowText(h) = FlowText(f)
  BY <1>1, <1>4, Zenon DEF FlowText, FieldList
<1> QED
  BY <1>1, <1>3, <1>5 DEF h

\* Flow.MarshalText and UnmarshalText: a flow that is marshalled is read back,
\* into a new Flow and into a used one, with every field, match and action, and
\* marshals to the same text.
THEOREM FlowsReadBack ==
  ASSUME NEW f, TypedFlow(f), Flow_MarshalText(f).ok, NEW into, CanHold(into, f)
  PROVE  /\ Flow_UnmarshalText(into, Flow_MarshalText(f).val) = Done(AsRead(f))
         /\ Flow_MarshalText(AsRead(f)) = Flow_MarshalText(f)
<1> DEFINE text == FlowText(f)
           T == Texts(f.actions)
           h == FlowOf(f.priority, f.protocol, f.inPort, ParsedOf(f.matches), f.table,
                       f.idleTimeout, f.cookie, into.actions)
<1>1. /\ f.actions # <<>> /\ ActionsMarshal(f) /\ MatchesMarshal(f)
      /\ ~DropNotAlone(T) /\ Flow_MarshalText(f) = Ok(text)
  <2>1. ~Fail.ok
    BY DEF Fail
  <2> HIDE DEF text
  <2> QED
    BY <2>1, FlowTextIs DEF text
<1>2. Flow_MarshalText(f).val = text
  <2> HIDE DEF text
  <2> QED
    BY <1>1, Succeeds
<1>3. Len(text.actions) = 1 /\ text.actions[1] = JoinActions(T)
  BY DEF FlowText
<1>4. Unmarshals(into, text.fields, h)
  <2>1. text.fields = FieldList(f.priority, f.protocol, f.inPort, f.matches, f.table,
                                f.idleTimeout, f.cookie)
    BY DEF FlowText
  <2>2. \A k \in DOMAIN f.matches : TypedMatch(f.matches[k]) /\ MatchText(f.matches[k]).ok
    BY <1>1 DEF TypedFlow, MatchesMarshal
  <2>3. Unmarshals(FlowOf(into.priority, into.protocol, into.inPort, into.matches, into.table,
                          into.idleTimeout, into.cookie, into.actions), text.fields, h)
    <3> HIDE DEF text
    <3> QED
      BY <2>1, <2>2, FieldListRead DEF TypedFlow, CanHold
  <2> QED
    BY <2>3, Zenon DEF CanHold, IsFlowRecord
<1>5. unmarshalFields(into, text.fields) = Done(h)
  <2> HIDE DEF h, text
  <2> QED
    BY <1>4, UnmarshalsTo DEF Done
<1>6. /\ ParseActions(JoinActions(T)) = Ok([actions |-> f.actions, raw |-> T])
      /\ JoinActions(T) # <<>>
  <2>1. /\ IsSequence(f.actions)
        /\ \A i \in DOMAIN f.actions : TypedAction(f.actions[i]) /\ ActionText(f.actions[i]).ok
    BY <1>1 DEF TypedFlow, ActionsMarshal
  <2> QED
    BY <1>1, <2>1, ActionsReadBack, JoinedNotEmpty
<1> HIDE DEF text, T
<1>7. unmarshalActions(Done(h), Ok([actions |-> f.actions, raw |-> T])) = Done(AsRead(f))
  <2> DEFINE v == [actions |-> f.actions, raw |-> T]
             o == Ok(v)
  <2>1. v.actions = f.actions /\ v.raw = T
    OBVIOUS
  <2> HIDE DEF v
  <2>2. o.ok /\ o.val = v
    BY Succeeds
  <2>3. o # Panic
    <3>1. ~Panic.ok
      BY DEF Panic
    <3> QED
      BY <2>2, <3>1
  <2>4. Done(h).err = FALSE /\ Done(h).flow = h
    BY DEF Done
  <2>5. [h EXCEPT !.actions = f.actions] = AsRead(f)
    BY DEF AsRead, FlowOf
  <2> HIDE DEF o, h
  <2>6. unmarshalActions(Done(h), o) = [err |-> DropNotAlone(T), flow |-> AsRead(f)]
    BY <2>1, <2>2, <2>3, <2>4, <2>5 DEF unmarshalActions
  <2>7. DropNotAlone(T) = FALSE
    BY <1>1 DEF DropNotAlone
  <2> QED
    BY <2>6, <2>7, Zenon DEF Done, o, v
<1>8. Flow_UnmarshalText(into, text) = Done(AsRead(f))
  <2>1. ~(Len(text.actions) # 1 \/ text.actions[1] = <<>>)
    BY <1>3, <1>6
  <2>2. Flow_UnmarshalText(into, text)
        = unmarshalActions(unmarshalFields(into, text.fields), ParseActions(text.actions[1]))
    BY <2>1, Zenon DEF Flow_UnmarshalText
  <2> QED
    BY <1>3, <1>5, <1>6, <1>7, <2>2, Zenon
<1>9. Flow_MarshalText(AsRead(f)) = Flow_MarshalText(f)
  <2>1. /\ FlowText(AsRead(f)) = text /\ MatchesMarshal(AsRead(f)) /\ AsRead(f).actions = f.actions
    BY <1>1, TextAlike DEF text
  <2>2. ActionsMarshal(AsRead(f)) /\ ~DropNotAlone(Texts(AsRead(f).actions))
    BY <1>1, <2>1 DEF ActionsMarshal, T
  <2>3. Flow_MarshalText(AsRead(f)) = Ok(FlowText(AsRead(f)))
    BY <1>1, <2>1, <2>2, FlowTextIs
  <2> QED
    BY <1>1, <2>1, <2>3
<1> QED
  BY <1>2, <1>8, <1>9, Zenon
----------------------------------------------------------------------------
(* drop is the only action of a flow.                                      *)

OnlyAction(acts) == Len(acts) = 1 \/ \A i \in DOMAIN acts : acts[i] # Drop

\* The check compares texts; no other action has the text of drop.
LEMMA DropByText ==
  ASSUME NEW acts, IsSequence(acts), acts # <<>>,
         \A i \in DOMAIN acts : TypedAction(acts[i]) /\ ActionText(acts[i]).ok
  PROVE  DropNotAlone(Texts(acts)) <=> ~OnlyAction(acts)
<1> DEFINE T == Texts(acts)
           x == <<atom("drop")>>
<1>1. /\ Len(T) = Len(acts) /\ Len(acts) >= 1 /\ DOMAIN T = DOMAIN acts
      /\ \A i \in DOMAIN acts : ReadsAs(T[i], acts[i])
  BY TextsAre
<1>2. ActionText(Drop) = Ok(x)
  BY DEF ActionText, textAction_MarshalText, Drop, textAction
<1>3. ReadBack(Drop)
  BY TextReadBack DEF Drop, TextActions
<1>4. \A i \in DOMAIN acts : T[i] = ActionText(acts[i]).val
  BY DEF Texts
<1> HIDE DEF T, x
<1>5. parseAction(x) = Ok(Drop) /\ ActionText(Drop).val = x
  <2>1. ActionText(Drop).ok /\ ActionText(Drop).val = x
    BY <1>2, Succeeds
  <2> QED
    BY <1>3, <2>1 DEF ReadBack, ReadsAs
<1>6. ASSUME NEW i \in DOMAIN acts PROVE T[i] = x <=> acts[i] = Drop
  <2>1. ASSUME T[i] = x PROVE acts[i] = Drop
    <3>1. parseAction(T[i]) = Ok(acts[i])
      BY <1>1 DEF ReadsAs
    <3>2. Ok(acts[i]) = Ok(Drop)
      BY <1>5, <2>1, <3>1
    <3> QED
      BY <3>2, Succeeds
  <2>2. ASSUME acts[i] = Drop PROVE T[i] = x
    BY <1>4, <1>5, <2>2
  <2> QED
    BY <2>1, <2>2
<1>7. Len(acts) \in Nat
  BY NotEmpty
<1>8. DropNotAlone(T) <=> Len(T) > 1 /\ \E i \in DOMAIN T : T[i] = x
  BY Zenon DEF DropNotAlone, x
<1>9. Len(acts) > 1 <=> Len(acts) # 1
  BY <1>1, <1>7
<1>10. DropNotAlone(T) <=> ~OnlyAction(acts)
  BY <1>1, <1>6, <1>8, <1>9 DEF OnlyAction
<1> QED
  BY <1>10 DEF T

\* Flow.MarshalText and UnmarshalText: a flow whose parts marshal is written,
\* and the text of its actions is read, just if drop is its only action or is
\* not among them.
THEOREM DropIsAlone ==
  ASSUME NEW f, TypedFlow(f), f.actions # <<>>, ActionsMarshal(f), MatchesMarshal(f), NEW into
  PROVE  /\ Flow_MarshalText(f).ok <=> OnlyAction(f.actions)
         /\ Flow_UnmarshalText(into, [fields  |-> <<>>,
                                      actions |-> <<JoinActions(Texts(f.actions))>>]).err
            <=> ~OnlyAction(f.actions)
<1> DEFINE T == Texts(f.actions)
           text == [fields |-> <<>>, actions |-> <<JoinActions(T)>>]
           h == ResetMatches(into)
<1>1. /\ IsSequence(f.actions)
      /\ \A i \in DOMAIN f.actions : TypedAction(f.actions[i]) /\ ActionText(f.actions[i]).ok
  BY DEF TypedFlow, ActionsMarshal
<1>2. DropNotAlone(T) <=> ~OnlyAction(f.actions)
  BY <1>1, DropByText
<1>3. Flow_MarshalText(f).ok <=> ~DropNotAlone(T)
  <2>1. ~Fail.ok /\ Ok(FlowText(f)).ok
    BY Succeeds DEF Fail
  <2> QED
    BY <2>1, FlowTextIs
<1>4. /\ ParseActions(JoinActions(T)) = Ok([actions |-> f.actions, raw |-> T])
      /\ JoinActions(T) # <<>>
  BY <1>1, ActionsReadBack, JoinedNotEmpty
<1> HIDE DEF T
<1>5. Len(text.actions) = 1 /\ text.actions[1] = JoinActions(T) /\ text.fields = <<>>
  OBVIOUS
<1>6. unmarshalFields(into, <<>>) = Done(h)
  BY UnmarshalsNone, UnmarshalsTo DEF Done
<1> HIDE DEF text, h
<1>7. Flow_UnmarshalText(into, text)
      = unmarshalActions(Done(h), Ok([actions |-> f.actions, raw |-> T]))
  <2>1. ~(Len(text.actions) # 1 \/ text.actions[1] = <<>>)
    BY <1>4, <1>5
  <2>2. Flow_UnmarshalText(into, text)
        = unmarshalActions(unmarshalFields(into, text.fields), ParseActions(text.actions[1]))
    BY <2>1, Zenon DEF Flow_UnmarshalText
  <2> QED
    BY <1>4, <1>5, <1>6, <2>2, Zenon
<1>8. unmarshalActions(Done(h), Ok([actions |-> f.actions, raw |-> T])).err = DropNotAlone(T)
  <2> DEFINE v == [actions |-> f.actions, raw |-> T]
             o == Ok(v)
  <2>1. v.raw = T
    OBVIOUS
  <2> HIDE DEF v
  <2>2. o.ok /\ o.val = v
    BY Succeeds
  <2>3. o # Panic
    <3>1. ~Panic.ok
      BY DEF Panic
    <3> QED
      BY <2>2, <3>1
  <2>4. Done(h).err = FALSE
    BY DEF Done
  <2> HIDE DEF o
  <2>5. unmarshalActions(Done(h), o).err = DropNotAlone(T)
    BY <2>1, <2>2, <2>3, <2>4 DEF unmarshalActions
  <2> QED
    BY <2>5, Zenon DEF o, v
<1>9. Flow_UnmarshalText(into, text).err <=> ~OnlyAction(f.actions)
  BY <1>2, <1>7, <1>8
<1> QED
  BY <1>2, <1>3, <1>9 DEF text, T
----------------------------------------------------------------------------
(* Dumps that are cut off.                                                 *)

\* A group of lines lies within the lines that are left, or is not called for.
LEMMA GroupsFit ==
  ASSUME NEW z \in {2, 3}, NEW m \in Nat, NEW n \in Nat, m <= n
  PROVE  /\ m \div z \in Nat /\ n \div z \in Nat /\ m \div z <= n \div z /\ m % z \in Nat
         /\ \A i \in 1 .. m \div z, j \in {1, 2} :
              1 + ((i - 1) * z) + j \in 1 .. m + 1
<1>1. CASE z = 2
  BY <1>1
<1>2. CASE z = 3
  BY <1>2
<1> QED
  BY <1>1, <1>2

\* parseEach: when the output ends after k lines, none of them too long for the
\* scanner, fn is called with a beginning of the groups it would be called
\* with, each one whole, and the end is an error unless it is the end of a
\* group.
THEOREM CutDumpIsPrefix ==
  ASSUME NEW lines, IsSequence(lines), NEW prefix, HasBanner(lines, prefix),
         TooLong(lines) = {}, NEW k \in 1 .. Len(lines)
  PROVE  LET cut   == parseEach(SubSeq(lines, 1, k), prefix)
             whole == parseEach(lines, prefix)
             size  == GroupSize(lines[1])
         IN  /\ Len(cut.calls) = (k - 1) \div size /\ Len(cut.calls) <= Len(whole.calls)
             /\ \A i \in DOMAIN cut.calls : cut.calls[i] = whole.calls[i]
             /\ cut.err <=> (k - 1) % size # 0
<1> DEFINE z == GroupSize(lines[1])
           some == SubSeq(lines, 1, k)
           N == Len(lines)
           at(s, i, j) == s[1 + ((i - 1) * z) + j]
           call(s, i) == AppendLine(at(s, i, 1), at(s, i, 2))
           cut == parseEach(some, prefix)
           whole == parseEach(lines, prefix)
<1>1. z \in {2, 3}
  BY DEF GroupSize
<1>2. N \in Nat /\ N >= 1 /\ k - 1 \in Nat /\ N - 1 \in Nat /\ k - 1 <= N - 1 /\ (k - 1) + 1 = k
  BY NotEmpty
<1>3. IsSequence(some) /\ Len(some) = k /\ \A i \in 1 .. k : some[i] = lines[i]
  <2>1. PICK S : lines \in Seq(S)
    BY DEF IsSequence
  <2>2. some \in Seq(S) /\ Len(some) = k /\ \A i \in 1 .. k : some[i] = lines[i]
    BY <1>2, <2>1
  <2> HIDE DEF some
  <2> QED
    BY <2>2 DEF IsSequence
<1> HIDE DEF some, N
<1>4. HasBanner(some, prefix) /\ some[1] = lines[1]
  <2>1. some[1] = lines[1] /\ some # <<>>
    <3>1. 1 \in 1 .. k /\ Len(<<>>) = 0
      OBVIOUS
    <3> QED
      BY <1>3, <3>1
  <2> QED
    BY <2>1 DEF HasBanner
<1>13. TooLong(some) = {} /\ Scanned(some) = some /\ Scanned(lines) = lines
  <2>1. DOMAIN some = 1 .. k /\ DOMAIN lines = 1 .. N /\ 1 .. k \subseteq 1 .. N
    BY <1>2, <1>3 DEF IsSequence, N
  <2>2. TooLong(some) \subseteq TooLong(lines)
    BY <1>3, <2>1 DEF TooLong
  <2> QED
    BY <2>2 DEF Scanned
<1> HIDE DEF z
<1>5. /\ cut.err = Leftover(k - 1, z)
      /\ cut.calls = [i \in 1 .. (k - 1) \div z |-> call(some, i)]
  <2>1. cut = [err |-> Leftover(k - 1, z) \/ TooLong(some) # {},
               calls |-> [i \in 1 .. (k - 1) \div z |-> call(some, i)]]
    BY <1>3, <1>4, <1>13, Zenon DEF parseEach, z
  <2> DEFINE e == Leftover(k - 1, z) \/ TooLong(some) # {}
  <2>2. e = Leftover(k - 1, z)
    BY <1>13 DEF Leftover
  <2> HIDE DEF cut, call, e
  <2>3. cut = [err |-> e, calls |-> [i \in 1 .. (k - 1) \div z |-> call(some, i)]]
    BY <2>1, Zenon DEF e
  <2> QED
    BY <2>2, <2>3
<1>6. whole.calls = [i \in 1 .. (N - 1) \div z |-> call(lines, i)]
  <2>1. whole = [err |-> Leftover(N - 1, z) \/ TooLong(lines) # {},
                 calls |-> [i \in 1 .. (N - 1) \div z |-> call(lines, i)]]
    BY <1>13, Zenon DEF parseEach, z, N
  <2> HIDE DEF whole, call
  <2> QED
    BY <2>1
<1>7. /\ (k - 1) \div z \in Nat /\ (N - 1) \div z \in Nat /\ (k - 1) \div z <= (N - 1) \div z
      /\ \A i \in 1 .. (k - 1) \div z, j \in {1, 2} : 1 + ((i - 1) * z) + j \in 1 .. k
  BY <1>1, <1>2, GroupsFit
<1>8. ASSUME NEW i \in 1 .. (k - 1) \div z PROVE call(some, i) = call(lines, i)
  <2>1. 1 + ((i - 1) * z) + 1 \in 1 .. k /\ 1 + ((i - 1) * z) + 2 \in 1 .. k
    BY <1>7
  <2> DEFINE x == 1 + ((i - 1) * z) + 1
             y == 1 + ((i - 1) * z) + 2
  <2>2. x \in 1 .. k /\ y \in 1 .. k
    BY <2>1
  <2> HIDE DEF x, y
  <2>3. some[x] = lines[x] /\ some[y] = lines[y]
    BY <1>3, <2>2
  <2> QED
    BY <2>3, Zenon DEF x, y
<1> DEFINE p == (k - 1) \div z
           q == (N - 1) \div z
<1> HIDE DEF cut, whole, call, at, p, q
<1>9. /\ p \in Nat /\ q \in Nat /\ p <= q
      /\ cut.calls = [i \in 1 .. p |-> call(some, i)]
      /\ whole.calls = [i \in 1 .. q |-> call(lines, i)]
      /\ \A i \in 1 .. p : call(some, i) = call(lines, i)
  BY <1>5, <1>6, <1>7, <1>8 DEF p, q
<1>10. Len(cut.calls) = p /\ Len(whole.calls) = q
  <2>1. ASSUME NEW m \in Nat, NEW s, s = [i \in 1 .. m |-> s[i]], DOMAIN s = 1 .. m PROVE Len(s) = m
    BY <2>1
  <2> QED
    BY <1>9, <2>1
<1>11. \A i \in DOMAIN cut.calls : cut.calls[i] = whole.calls[i]
  BY <1>9
<1>12. cut.err <=> (k - 1) % z # 0
  BY <1>5 DEF Leftover
<1> QED
  BY <1>9, <1>10, <1>11, <1>12 DEF p, cut, whole, some, z
=============================================================================
