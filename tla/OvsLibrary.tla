----------------------------- MODULE OvsLibrary -----------------------------
(***************************************************************************)
(* The stateless half of packages ovs and ovsnl, asked one question at a   *)
(* time: port ranges, matches, actions and flows to text and back, the     *)
(* output of the dump commands, netlink families and datapaths.  A         *)
(* question is drawn from boundary values of the types, and the properties *)
(* compare the answer with what Open vSwitch, the Go compiler or the       *)
(* kernel, all external, mean by the same text.                            *)
(***************************************************************************)
EXTENDS OvsDump, OvsNetlink

VARIABLE query  \* the call and its arguments

NoQuery == [kind |-> "none"]

----------------------------------------------------------------------------
(* Inputs.                                                                 *)

\* Numbers of a type, and numbers that a text for it may hold.
Nums(bits)     == {0, 1, 2 ^ (bits - 1), 2 ^ bits - 1}
TextNums(bits) == Nums(bits) \cup {-1, 10, 2 ^ bits, 2 ^ bits + 1}

Pieces(bits) == {dec(n) : n \in TextNums(bits)}
                \cup {hex(n) : n \in TextNums(bits) \ {-1}}

Strings(names) == {<<atom(a)>> : a \in names}
Slashed(names, pieces) == {<<atom(a), p>> : a \in names, p \in pieces}

MACStrings == Strings({"mac", "MAC", "ffmac", "eui64", "junk"})
              \cup Slashed({"mac", "eui64"}, {atom("ffmac")})
IPStrings  == Strings(DOMAIN IPs \cup {"junk"})
              \cup Slashed({"ip4", "ip6", "ip4in6"}, {dec(24), dec(129)})

Flags3 == {SetState(<<"new", 3>>), UnsetState(<<"est", 3>>)}
FlagLists == {<<f>> : f \in Flags3} \cup (Flags3 \X Flags3)
OddFlags ==
  LET four == UnsetTCPFlag(<<"psh2", 4>>) IN
  {<<>>, <<SetTCPFlag(<<"ack", 3>>), four>>, <<four, four, four, four>>}

Matches ==
  LET addrs(Make(_), strings) == {Make(s) : s \in strings}
      hw == {MACs[a] : a \in {"mac", "eui64"}}
  IN  addrs(DataLinkSource, MACStrings) \cup addrs(DataLinkDestination, MACStrings)
      \cup addrs(NetworkSource, IPStrings) \cup addrs(NetworkDestination, IPStrings)
      \cup addrs(IPv6Source, IPStrings) \cup addrs(IPv6Destination, IPStrings)
      \cup addrs(NeighborDiscoveryTarget, IPStrings)
      \cup addrs(ARPSourceProtocolAddress, IPStrings)
      \cup addrs(ARPTargetProtocolAddress, IPStrings)
      \cup addrs(NeighborDiscoverySourceLinkLayer, hw)
      \cup addrs(NeighborDiscoveryTargetLinkLayer, hw)
      \cup addrs(ARPSourceHardwareAddress, hw)
      \cup addrs(ARPTargetHardwareAddress, hw)
      \cup addrs(DataLinkType, Nums(U16)) \cup addrs(ConjunctionID, Nums(U32))
      \cup addrs(DataLinkVLAN, TextNums(U12) \cup Nums(U16))
      \cup addrs(NetworkProtocol, Nums(U8)) \cup addrs(ICMPType, Nums(U8))
      \cup addrs(ConnectionTrackingZone, Nums(U16))
      \cup addrs(TransportSourcePort, Nums(U16))
      \cup addrs(TransportDestinationPort, Nums(U16))
      \cup addrs(TunnelID, Nums(U64))
      \cup addrs(ConnectionTrackingState, FlagLists)
      \cup addrs(TCPFlags, FlagLists)
      \cup {TransportSourceMaskedPort(n, k) : n, k \in Nums(U16)}
      \cup {TransportDestinationMaskedPort(n, k) : n, k \in Nums(U16)}
      \cup {VLANTCI(n, k) : n, k \in Nums(U16)}
      \cup {ConnectionTrackingMark(n, k) : n, k \in Nums(U32)}
      \cup {TunnelIDWithMask(n, k) : n, k \in Nums(U64)}

\* Keys with a number, its width, and whether a mask may follow.
NumberKeys ==
  [icmp_type |-> U8,  nw_proto |-> U8,  ct_zone |-> U16, conj_id |-> U32,
   tp_src |-> U16,    tp_dst |-> U16,   dl_type |-> U16, dl_vlan |-> U12,
   vlan_tci |-> U16,  ct_mark |-> U32,  tun_id |-> U64]
MaskKeys == {"tp_src", "tp_dst", "vlan_tci", "ct_mark", "tun_id"}

\* Arguments of ct: with commas, with an action that has parentheses.
CTArgs == {<<atom("commit")>>,
           <<atom("commit"), sym(","), atom("exec"), sym("("), atom("load:"),
             hex(1), sym("->"), atom("reg"), sym(")"), sym(","), atom("zone")>>}

Actions ==
  LET ports == {-1, 0, LargestPort, LargestPort + 1} IN
  {textAction(a) : a \in TextActions}
  \cup {ConnectionTracking(a) : a \in CTArgs \cup {<<>>}}
  \cup (UNION {{ModDataLinkSource(a), ModDataLinkDestination(a)} :
                 a \in {MACs["mac"], MACs["eui64"]}})
  \cup (UNION {{ModNetworkSource(i), ModNetworkDestination(i)} :
                 i \in {IPs[a] : a \in DOMAIN IPs}})
  \cup (UNION {{ModTransportSourcePort(n), ModTransportDestinationPort(n)} :
                 n \in Nums(U16)})
  \cup {ModVLANVID(n) : n \in TextNums(U12)}
  \cup {Output(n) : n \in ports} \cup {ResubmitPort(n) : n \in ports}
  \cup {Resubmit(p, t) : p, t \in {0, 1, LargestPort}}
  \cup {Conjunction(i, n, k) : i \in {0, LargestPort}, n, k \in {0, 1, 2}}
  \cup {Load(v, f) : v \in {<<>>, <<hex(1)>>}, f \in {<<>>, <<atom("reg")>>}}
  \cup {SetField(v, <<atom("reg")>>) : v \in {<<hex(1)>>, <<atom("mac")>>}}
  \cup {SetTunnel(n) : n \in Nums(U64)}

\* A few flows that differ in what MatchFlow and the dump tell apart.
FlowMatches ==
  {<<>>, <<TransportDestinationPort(1)>>,
   <<DataLinkSource(<<atom("MAC")>>), TransportDestinationPort(1)>>}
FlowActions ==
  {<<>>, <<Drop>>, <<Output(1)>>, <<Output(1), Drop>>, <<Drop, Drop>>,
   <<ConnectionTracking(<<atom("commit"), sym(","), atom("zone")>>), Resubmit(0, 1)>>}
Flows ==
  [priority : {0, 10}, protocol : {"", "tcp"}, inPort : {0, 1, PortLOCAL},
   matches : FlowMatches, table : {0, 1}, idleTimeout : {0},
   cookie : {0, 2 ^ U64 - 1}, actions : FlowActions]

\* A Flow already used once: it has matches and actions of its own.
UsedFlow == [Flow EXCEPT !.matches = <<ICMPType(1)>>, !.actions = <<Flood>>]

----------------------------------------------------------------------------
(* ovs-ofctl's dumps: two lines a port or table, one more under OpenFlow   *)
(* 1.3 and one line a flow.                                                *)

Indices(keys, v) == [i \in DOMAIN keys |-> pair(keys[i], v[i])]

\* Every counter its own value, one unknown.
SamplePorts ==
  <<[port |-> 1, received |-> <<1, 2, 3, 4, 0, 6, 7>>,
     transmitted |-> <<8, 9, 10, 11, 12>>],
    [port |-> PortLOCAL, received |-> <<0, 0, 0, 0, 0, 0, 0>>,
     transmitted |-> <<1, 1, 1, 1, 1>>]>>
\* The second has never been used.
SampleTables ==
  <<[id |-> 0, name |-> atom("classifier"), wild |-> hex(1), max |-> 9,
     active |-> 1, lookup |-> 2, matched |-> 3],
    [id |-> 2, name |-> atom("table2"), wild |-> hex(1), max |-> 9,
     active |-> 0, lookup |-> 0, matched |-> 0],
    [id |-> 1, name |-> atom("table1"), wild |-> hex(1), max |-> 9,
     active |-> 0, lookup |-> 5, matched |-> 0]>>
SampleFlows ==
  <<[Flow EXCEPT !.priority = 10, !.protocol = "tcp",
                 !.matches = <<TransportDestinationPort(1)>>, !.table = 1,
                 !.actions = <<Normal>>],
    [Flow EXCEPT !.priority = 11, !.inPort = PortLOCAL, !.cookie = 3,
                 !.actions = <<Resubmit(0, 1), Output(1)>>]>>

Duration == Line(<<pair("duration", atom("1s"))>>)
Warning  == Outdent(<<atom("ovs-ofctl"), atom("warning")>>)

PortLines(p, of1x) ==
  LET value(n) == IF n = 0 THEN atom("?") ELSE dec(n)
      counters(keys, v) == Indices(keys, [i \in DOMAIN v |-> value(v[i])])
      id == IF p.port = PortLOCAL THEN atom("LOCAL") ELSE dec(p.port)
  IN  <<Line(<<atom("port"), name(id, TRUE), atom("rx")>>
             \o counters(ReceiveKeys, p.received)),
        Line(<<atom("tx")>> \o counters(TransmitKeys, p.transmitted))>>
      \o (IF of1x THEN <<Duration>> ELSE <<>>)

TableLines(t, of1x) ==
  <<Line(<<name(dec(t.id), TRUE)>>
         \o (IF t.name = atom("classifier")
             THEN <<name(t.name, TRUE)>> ELSE <<name(t.name, FALSE), atom(":")>>)
         \o <<pair("wild", t.wild), pair("max", dec(t.max)),
              pair("active", dec(t.active))>>),
    Line(<<pair("lookup", dec(t.lookup)), pair("matched", dec(t.matched))>>)>>

\* As dump-flows writes a flow whose priority is not the default.
FlowLines(f, of1x) ==
  LET spaced(key, parts) == [Field(key, parts) EXCEPT !.space = TRUE]
      text == Flow_MarshalText(f).val
      own  == SelectSeq(Tail(text.fields), LAMBDA fd :
                "word" \in DOMAIN fd \/ fd.key \notin {"table", "idle_timeout", "cookie"})
  IN  <<FlowLine([fields |->
           <<Field("cookie", <<hex(f.cookie)>>), spaced("duration", <<atom("1s")>>),
             spaced("table", <<dec(f.table)>>), spaced("n_packets", <<dec(0)>>),
             spaced("idle_age", <<dec(1)>>), spaced("priority", <<dec(f.priority)>>)>>
           \o own, actions |-> text.actions])>>

Samples(what) ==
  CASE what = "ports"  -> SamplePorts
    [] what = "tables" -> SampleTables
    [] what = "flows"  -> SampleFlows

\* dump-tables knows no third line.
Dumped(what, n, of1x) ==
  LET all(Lines(_, _)) ==
        FlattenSeq([i \in 1 .. n |-> Lines(Samples(what)[i], of1x)])
  IN  CASE what = "ports"  -> <<Banner("OFPST_PORT", of1x)>> \o all(PortLines)
        [] what = "tables" -> <<Banner("OFPST_TABLE", FALSE)>> \o all(TableLines)
        [] what = "flows"  -> <<Banner("NXST_FLOW", FALSE)>> \o all(FlowLines)

\* The output cut after k lines, or with a warning after the k-th, of ordinary
\* length or too long.
Faults == {"none", "cut", "warning", "long"}
Faulty(lines, fault, k) ==
  LET with(line) == SubSeq(lines, 1, k) \o <<line>> \o SubSeq(lines, k + 1, Len(lines))
  IN  CASE fault = "none"    -> lines
        [] fault = "cut"     -> SubSeq(lines, 1, k)
        [] fault = "warning" -> with(Warning)
        [] fault = "long"    -> with(LongLine)

\* The one line of an aggregate whole, cut after k words, or with a warning
\* before or after it.
AggregateFaults == {"none", "cut", "before", "after"}
FaultyAggregate(words, fault, k) ==
  CASE fault = "none"   -> <<Outdent(words)>>
    [] fault = "cut"    -> <<Outdent(SubSeq(words, 1, k))>>
    [] fault = "before" -> <<Warning, Outdent(words)>>
    [] fault = "after"  -> <<Outdent(words), Warning>>

----------------------------------------------------------------------------
(* Questions.                                                              *)

AskRange ==
  \E s, e \in Ports : query' = [kind |-> "range", start |-> s, end |-> e]

AskMatch == \E m \in Matches : query' = [kind |-> "match", match |-> m]

AskText ==
  \/ \E key \in DOMAIN NumberKeys : \E p \in Pieces(NumberKeys[key]) :
       query' = [kind |-> "text", key |-> key, parts |-> <<p>>]
  \/ \E key \in MaskKeys : \E p, k \in Pieces(NumberKeys[key]) :
       query' = [kind |-> "text", key |-> key, parts |-> <<p, k>>]
  \/ \E key \in {"ct_state", "tcp_flags"} : \E fl \in FlagLists \cup OddFlags :
       query' = [kind |-> "text", key |-> key, parts |-> Joined(fl)]

AskAction == \E a, b \in Actions :
  query' = [kind |-> "actions", actions |-> <<a, b>>]

AskFlow == \E f \in Flows, used \in BOOLEAN :
  query' = [kind |-> "flow", flow |-> f, into |-> IF used THEN UsedFlow ELSE Flow]

AskDump ==
  \E what \in {"ports", "tables", "flows"}, of1x \in BOOLEAN, fault \in Faults :
    \E n \in 0 .. Len(Samples(what)) :
    LET lines == Dumped(what, n, of1x) IN
    \E k \in 0 .. Len(lines) :
      query' = [kind |-> "dump", what |-> what, n |-> n, fault |-> fault,
                lines |-> Faulty(lines, fault, k)]

AskAggregate ==
  \E keys \in {FlowStatsKeys, Reverse(FlowStatsKeys), Tail(FlowStatsKeys)},
     v \in TextNums(U64), fault \in AggregateFaults :
    LET words == <<atom("NXST_AGGREGATE"), atom("reply")>>
                 \o Indices(keys, <<dec(v), dec(1), dec(2)>>)
    IN  \E k \in 0 .. Len(words) - 1 :
          query' = [kind |-> "aggregate", keys |-> keys, packets |-> v, fault |-> fault,
                    lines |-> FaultyAggregate(words, fault, k)]

\* The kernel names no family twice.
AskFamilies ==
  \E fs \in UNION {[1 .. n -> OvsPrefix \cup {"nlctrl"}] : n \in 0 .. 5},
     listed \in BOOLEAN :
    /\ IsInjective(fs)
    /\ query' = [kind |-> "families", families |-> fs, listed |-> listed]

AttrTypes == {"name", "features", "stats", "megaflow", "other"}
Attrs == [type : AttrTypes, size : {0, 4, 32, 40}, value : {1, 2}]
AskMessages ==
  \E h \in {0, 4}, torn \in BOOLEAN,
     as \in UNION {[1 .. n -> Attrs] : n \in 0 .. 2} :
    query' = [kind |-> "messages",
              msgs |-> <<[header |-> 4, ifindex |-> 1, attrs |-> <<>>, torn |-> FALSE],
                         [header |-> h, ifindex |-> 2, attrs |-> as, torn |-> torn]>>]

Ask ==
  /\ query = NoQuery
  /\ \/ AskRange \/ AskMatch \/ AskText \/ AskAction \/ AskFlow \/ AskDump
     \/ AskAggregate \/ AskFamilies \/ AskMessages

LibrarySpec == query = NoQuery /\ [][Ask]_query

----------------------------------------------------------------------------
(* Properties: what Open vSwitch reads in a text is what the caller meant. *)

\* The number that a piece denotes to ovs-ofctl.
Number(p) == IF IsDec(p) THEN p.dec ELSE p.hex

\* The ports a transport port match of ovs-ofctl selects: one port, or those
\* that agree with the value on the mask's leading ones.
PortsSelected(parts) ==
  IF Len(parts) = 1 THEN {Number(parts[1])}
  ELSE LET block == Modulus - Number(parts[2]) IN
       {p \in Ports : p \div block = Number(parts[1]) \div block}

CoversExactly(start, end) ==
  LET r == MaskedPorts("dst", start, end) IN
  /\ r.ok <=> 0 < start /\ start <= end
  /\ r.ok => UNION {PortsSelected(MatchText(r.val[i]).val.parts) : i \in DOMAIN r.val}
             = start .. end

\* The masked ports of a range, as ovs-ofctl reads their text, select the
\* range exactly; only an empty range or one with port 0 is refused.
ExactCover == query.kind = "range" => CoversExactly(query.start, query.end)

\* Aligned blocks of ports inside a range, each its first port and its size,
\* and those of them that no larger one contains.
BlocksInside(start, end) ==
  {x \in Ports \X {2 ^ k : k \in 0 .. U16} :
     x[1] % x[2] = 0 /\ start <= x[1] /\ x[1] + x[2] - 1 <= end}
MaximalBlocks(start, end) ==
  {x \in BlocksInside(start, end) : \A y \in BlocksInside(start, end) :
     y[1] <= x[1] /\ x[1] + x[2] <= y[1] + y[2] => y = x}

Coarsest(start, end) ==
  LET r == BitwiseMatch[[start |-> start, end |-> end]].val IN
  /\ \A i \in 1 .. Len(r) - 1 :
       r[i + 1].value = r[i].value + (Modulus - r[i].mask)
  /\ Len(r) = Cardinality(MaximalBlocks(start, end))

\* The cover of a range has as many masks as the range has maximal aligned
\* blocks, in the order of the ports, each beginning where the one before ends.
CoarsestInOrder ==
  query.kind = "range" /\ 0 < query.start /\ query.start <= query.end =>
    Coarsest(query.start, query.end)

RoundTrips(m) ==
  LET t == MatchText(m) IN
  t.ok => LET back == parseMatch(t.val.key, t.val.parts) IN
          back.ok /\ MatchText(back.val) = t

FlagsKept(key, parts) ==
  LET back == parseMatch(key, parts) IN
  back.ok => MatchText(back.val) = Text(key, parts)

\* A match that marshals is read back by the parser as a match with the same
\* text.  A text of flags keeps its characters, also where the parser cuts it
\* elsewhere than before the signs, or is refused.
MatchRoundTrip ==
  /\ query.kind = "match" => RoundTrips(query.match)
  /\ query.kind = "text" /\ query.key \in {"ct_state", "tcp_flags"} =>
       FlagsKept(query.key, query.parts)

\* The bases in which ovs-ofctl and the parser read a key alike.
SameBase(key, parts) ==
  \A i \in DOMAIN parts :
    CASE key = "dl_type" -> IsHex(parts[i])
      [] key \in {"icmp_type", "nw_proto", "ct_zone", "conj_id"} -> IsDec(parts[i])
      [] key \in {"tp_src", "tp_dst"} -> IsHex(parts[i]) <=> Len(parts) = 2
      [] OTHER -> IsDec(parts[i]) => parts[i].dec < 2 ^ (U64 - 1)

Clamped == {"icmp_type", "nw_proto", "ct_zone", "conj_id", "tp_src", "tp_dst"}

Numbers(parts) == [i \in DOMAIN parts |-> Number(parts[i])]

\* The mask 0 means none.
WithoutZeroMask(n) == IF Len(n) = 2 /\ n[2] = 0 THEN <<n[1]>> ELSE n

KeepsNumbers(key, parts) ==
  LET n     == Numbers(parts)
      limit == 2 ^ NumberKeys[key]
      back  == parseMatch(key, parts)
      text  == MatchText(back.val)
  IN  /\ (\A i \in DOMAIN n : 0 <= n[i] /\ n[i] < limit) =>
           /\ back.ok /\ text.ok
           /\ Numbers(text.val.parts) = WithoutZeroMask(n)
      /\ (\E i \in DOMAIN n : n[i] >= limit) /\ key \in Clamped => ~back.ok

\* Numbers of a field's width, the largest included, written in the base that
\* ovs-ofctl and the parser agree on, survive being parsed and marshalled, and
\* with them their mask; where the parser clamps, a larger number is refused
\* and never cut to another one.
NumbersKept ==
  query.kind = "text" /\ query.key \in DOMAIN NumberKeys
  /\ SameBase(query.key, query.parts) => KeepsNumbers(query.key, query.parts)

MatchDenoted(m)  == MatchOf(MatchGoString(m)) = m
ActionDenoted(a) == ActionOf(ActionGoString(a)) = a

\* parseHexUint16 "parses a uint16 value from a hexadecimal string": a text of
\* hexadecimal numbers that is accepted for a field of 16 bits gives back the
\* same numbers.
HexReadWhole ==
  query.kind = "text" /\ query.key \in {"dl_type", "vlan_tci", "tp_src", "tp_dst"}
  /\ (\A i \in DOMAIN query.parts : IsHex(query.parts[i])) =>
    LET back == parseMatch(query.key, query.parts) IN
    back.ok => Numbers(MatchText(back.val).val.parts)
               = WithoutZeroMask(Numbers(query.parts))

\* The Go source that GoString returns for a match or an action that can be
\* marshalled compiles to a match or an action equal to it.
GoStringDenotes ==
  /\ query.kind = "match" /\ MatchText(query.match).ok =>
       MatchDenoted(query.match)
  /\ query.kind = "actions" /\ ActionText(query.actions[1]).ok =>
       ActionDenoted(query.actions[1])

\* Two actions that marshal, joined by a comma, are cut apart and read back,
\* with the commas and the nested parentheses that ct, resubmit and
\* conjunction write.  SetTunnel has no parser.
ActionsRoundTrip ==
  query.kind = "actions" =>
    LET texts == [i \in 1 .. 2 |-> ActionText(query.actions[i])] IN
    (\A i \in 1 .. 2 : texts[i].ok /\ query.actions[i].type # "setTunnel") =>
      LET out == ParseActions(JoinActions([i \in 1 .. 2 |-> texts[i].val])) IN
      out.ok /\ out.val.actions = query.actions

\* The error of resubmitPortAction says that the port "must be between 0 and
\* 65279 inclusive": those ports are accepted and no others.
StatedLimit == MaxUint(U16) - 2 ^ U8
ResubmitPortLimit ==
  query.kind = "actions" =>
    LET a == query.actions[1] IN
    a.type = "resubmitPort" => (ActionText(a).ok <=> a.port \in 0 .. StatedLimit)

\* A flow that marshals is read back as a flow with the same text, into a
\* new Flow and into one whose matches and actions are from an earlier use.
FlowRoundTrip ==
  query.kind = "flow" =>
    LET text == Flow_MarshalText(query.flow) IN
    text.ok => LET back == Flow_UnmarshalText(query.into, text.val) IN
               ~back.err /\ Flow_MarshalText(back.flow) = text

\* drop, in the lower case that marshalling writes, is the only action of a
\* flow, whether the flow is written or read.
DropAlone ==
  query.kind = "flow" /\ query.flow.actions # <<>> =>
    LET acts  == query.flow.actions
        alone == Len(acts) = 1 \/ \A i \in DOMAIN acts : acts[i] # Drop
        read  == [fields |-> <<>>,
                  actions |-> <<JoinActions(marshalActions(query.flow).val)>>]
    IN  /\ Flow_MarshalText(query.flow).ok <=> alone
        /\ Flow_UnmarshalText(query.into, read).err <=> ~alone

\* A comment of Flow.UnmarshalText, "Action "drop" must only be specified by
\* itself", for a text that writes it DROP, which the parser also reads as
\* drop: no flow that is read has drop among several actions.
DropAloneInCapitals ==
  query.kind = "flow" /\ query.flow.actions # <<>> =>
    LET texts    == marshalActions(query.flow).val
        capitals == [i \in DOMAIN texts |->
                       IF texts[i] = <<atom("drop")>> THEN <<atom("DROP")>>
                                                      ELSE texts[i]]
        back     == Flow_UnmarshalText(query.into,
                      [fields |-> <<>>, actions |-> <<JoinActions(capitals)>>])
        acts     == back.flow.actions
    IN  ~back.err => Len(acts) = 1 \/ \A i \in DOMAIN acts : acts[i] # Drop

\* Which flows ovs-ofctl del-flows deletes: those with every field given, the
\* cookie compared under its mask and -1 being all ones.
Selects(fields, text) ==
  \A i \in DOMAIN fields :
    IF "key" \in DOMAIN fields[i] /\ fields[i].key = "cookie"
    THEN /\ fields[i].parts[2] = dec(-1)
         /\ Contains(text.fields, Field("cookie", <<fields[i].parts[1]>>))
    ELSE Contains(text.fields, fields[i])

Deletes(f, g) ==
  Selects(MatchFlow_MarshalText(Flow_MatchFlow(f)).val, Flow_MarshalText(g).val)

\* g has whatever f sets.
Agrees(f, g) ==
  /\ g.table = f.table
  /\ f.cookie \in {0, g.cookie}
  /\ f.protocol \in {"", g.protocol}
  /\ f.inPort \in {0, g.inPort}
  /\ \A i \in DOMAIN f.matches : Contains(g.matches, f.matches[i])

\* Deleting by f.MatchFlow() deletes f, and never a flow that differs from f
\* in a match, protocol or port f sets, in its table or, where f has one, in
\* its cookie.  (Neither MatchFlow nor del-flows looks at actions; priority is
\* not compared either.)
MatchFlowSelects ==
  query.kind = "flow" /\ query.flow.actions = <<Output(1)>> =>
    /\ Deletes(query.flow, query.flow)
    /\ \A g \in {h \in Flows : h.actions = query.flow.actions} :
         Deletes(query.flow, g) => Agrees(query.flow, g)

DumpOf(q) ==
  CASE q.what = "ports"  -> dumpPorts(q.lines)
    [] q.what = "tables" -> DumpTables(q.lines)
    [] q.what = "flows"  -> DumpFlows(q.lines)

\* The records before the cut that have been used: only tables can be idle.
Listed(q) ==
  SelectSeq(SubSeq(Samples(q.what), 1, q.n),
            LAMBDA r : q.what = "tables" => r.active + r.lookup + r.matched > 0)

FaithfulDump(r, listed, fault) ==
  /\ fault = "none" => ~r.err /\ r.val = listed
  /\ fault \in {"warning", "long"} => r.err
  /\ IsPrefix(r.val, listed)

\* A dump gives every port and flow the switch listed, and every table but
\* those without flows, lookups and matches, which DumpTables leaves out.
\* When the output ends after any of its lines, or a line of a warning lands
\* between two of them, what is returned is still a beginning of that list,
\* never half a record or one made of lines of two; a warning is always an
\* error, also one longer than the scanner takes.  DumpPort takes nothing but
\* a single port.  An aggregate is accepted with its three counters in order,
\* in 64 bits and last, so with a warning before it but not after it, and not
\* when it ends between two words.
DumpSound ==
  /\ query.kind = "dump" =>
       /\ FaithfulDump(DumpOf(query), Listed(query), query.fault)
       /\ query.what = "ports" => LET one == DumpPort(query.lines) IN
            /\ query.fault = "none" => (one.ok <=> query.n = 1)
            /\ one.ok => one.val = SamplePorts[1]
  /\ query.kind = "aggregate" =>
       LET r == dumpAggregate(query.lines) IN
       /\ r.ok <=> /\ query.keys = FlowStatsKeys /\ query.fault \in {"none", "before"}
                   /\ 0 <= query.packets /\ query.packets < 2 ^ U64
       /\ r.ok => r.val = [packets |-> query.packets, bytes |-> 1]

Ready(listed, families) ==
  LET c    == newClient(listed, families)
      good == c.result.err = "nil"
  IN  /\ good <=> c.open
      /\ good => c.result.val = {"datapath", "packet"}
      /\ good <=> listed /\ ToSet(families) \cap OvsPrefix = Known

\* New returns a client on an open connection with both services, or an error
\* with the connection closed; families of others never make it fail.
ClientReady ==
  query.kind = "families" => Ready(query.listed, query.families)

\* The sizes the kernel gives the attributes of a fixed size, and the value
\* of the last attribute of a type.
KernelSize == [features |-> 4, stats |-> 32, megaflow |-> 32]
LastValue(attrs, type) ==
  LET of == {i \in DOMAIN attrs : attrs[i].type = type} IN
  IF of = {} THEN 0 ELSE attrs[Max(of)].value

Readable(m) == m.header >= 4 /\ ~m.torn
WellFormed(m) ==
  /\ Readable(m)
  /\ \A i \in DOMAIN m.attrs :
       m.attrs[i].type \in DOMAIN KernelSize =>
         m.attrs[i].size = KernelSize[m.attrs[i].type]

\* A features attribute that is not of four bytes.
OddFeatures(a) == a.type = "features" /\ a.size # 4

DecodesWhole(msgs) ==
  LET r == parseDatapaths(msgs)
      p == parsePackets(msgs)
  IN  /\ r.err = "nil" <=> \A j \in DOMAIN msgs : WellFormed(msgs[j])
      /\ p.err = "nil" <=> \A j \in DOMAIN msgs : Readable(msgs[j])
      /\ r.err = "panic" =>
           \E j \in DOMAIN msgs : \E i \in DOMAIN msgs[j].attrs :
             Readable(msgs[j]) /\ OddFeatures(msgs[j].attrs[i])
      /\ p.err # "panic"
      /\ r.err = "nil" =>
           /\ Len(r.val) = Len(msgs) /\ Len(p.val) = Len(msgs)
           /\ \A j \in DOMAIN msgs :
                /\ r.val[j].index = msgs[j].ifindex
                /\ p.val[j].index = msgs[j].ifindex
                /\ \A type \in DOMAIN KernelSize :
                     r.val[j][type] = LastValue(msgs[j].attrs, type)

\* The datapaths of a dump are all there or none is: each has its own index
\* and features, and statistics only from an attribute of their exact size.
\* PktList never ends the process, and List does only at an attribute of
\* features that is not of four bytes, in a message otherwise readable.
DatapathWhole == query.kind = "messages" => DecodesWhole(query.msgs)
=============================================================================
