------------------------------ MODULE OvsDump ------------------------------
(***************************************************************************)
(* What OpenFlowService makes of the output of ovs-ofctl dump-ports,       *)
(* dump-tables, dump-flows and dump-aggregate.                             *)
(*                                                                         *)
(* The output is a sequence of lines: the banner, lines of words, indented *)
(* or not, and flows.  A word is an atom, a name with or without its       *)
(* colon, or a pair key=value.  Client.exec returns standard output and    *)
(* standard error combined, so a line of a warning may stand anywhere.     *)
(***************************************************************************)
EXTENDS OvsFlow, SequencesExt

Banner(prefix, of1x) == [banner |-> prefix, of1x |-> of1x]
Line(words)    == [words |-> words, indented |-> TRUE]
Outdent(words) == [words |-> words, indented |-> FALSE]
FlowLine(text) == [flow |-> text]
LongLine       == [long |-> TRUE]  \* over the 64 KB a bufio.Scanner takes

name(piece, colon) == [name |-> piece, colon |-> colon]
pair(key, piece)   == [key |-> key, value |-> piece]

IsPair(w) == "key" \in DOMAIN w
IsName(w) == "name" \in DOMAIN w

HasBanner(lines, prefix) ==
  lines # <<>> /\ "banner" \in DOMAIN lines[1] /\ lines[1].banner = prefix

\* strconv.ParseUint(s, 10, 64).
ParseUint10(p) ==
  IF IsDec(p) /\ 0 <= p.dec /\ p.dec < 2 ^ U64 THEN Ok(p.dec) ELSE Fail

\* The callbacks append to a slice that is returned with the error, so what
\* came before the first failure is kept.
Collect(each, results) ==
  LET bad == {i \in DOMAIN results : ~results[i].ok}
      n   == IF bad = {} THEN Len(results) ELSE Min(bad) - 1
  IN  [err |-> each.err \/ bad # {},
       val |-> FlattenSeq([i \in 1 .. n |-> results[i].val])]

\* io.ErrUnexpectedEOF on the first line.
Unexpected == [err |-> TRUE, calls |-> <<>>]

----------------------------------------------------------------------------
(* parseEachLine and parseEach: the arguments of the calls of fn, and the  *)
(* error at the end if none of the calls returned one.                     *)

\* Scan stops at a line that is too long, and Err tells of it.
TooLong(lines) == {i \in DOMAIN lines : lines[i] = LongLine}
Scanned(lines) ==
  IF TooLong(lines) = {} THEN lines ELSE SubSeq(lines, 1, Min(TooLong(lines)) - 1)

parseEachLine(lines, prefix) ==
  IF ~HasBanner(lines, prefix) THEN Unexpected
  ELSE [err |-> TooLong(lines) # {}, calls |-> Tail(Scanned(lines))]

\* The words of a line, one in a line that is a flow or a banner.
Words(line) == IF "words" \in DOMAIN line THEN line.words ELSE <<atom("banner")>>

\* The last word of a line and the first of the next, with nothing between.
Merged(w) == IF IsPair(w) THEN pair(w.key, atom("merged")) ELSE atom("merged")

\* append(b, scanner.Bytes()...): the line break is gone.
AppendLine(line, next) ==
  LET a == Words(line)
      b == Words(next)
  IN  IF a = <<>> \/ b = <<>> \/ ("words" \in DOMAIN next /\ next.indented)
      THEN a \o b
      ELSE Front(a) \o <<Merged(Last(a))>> \o Tail(b)

\* Mutant: the duration of OpenFlow 1.3 is not told from a port.
GroupSize_Two(banner) == 2

\* hasDuration: the banner names OpenFlow 1.x and a third line follows.
GroupSize(banner) == IF banner.of1x THEN 3 ELSE 2

\* Two lines and the one to discard, or the end is an error.
Leftover(n, size) == n % size # 0

\* The first two lines of every group, joined.
parseEach(lines, prefix) ==
  IF ~HasBanner(lines, prefix) THEN Unexpected
  ELSE LET read == Scanned(lines)
           size == GroupSize(read[1])
           n    == Len(read) - 1
           at(i, j) == read[1 + (i - 1) * size + j]
       IN  [err |-> Leftover(n, size) \/ TooLong(lines) # {},
            calls |-> [i \in 1 .. n \div size |-> AppendLine(at(i, 1), at(i, 2))]]

----------------------------------------------------------------------------
(* Table, PortStats, FlowStats: UnmarshalText.                             *)

\* Numbers start at the third word, or at the fourth when a space separates
\* the name from its colon.  Only five pairs fill out[0..3].
Table_UnmarshalText(ss) ==
  LET idx    == IF ss[2].colon THEN 3 ELSE 4
      nums   == SubSeq(ss, idx, Len(ss))
      values == [i \in DOMAIN nums |-> ParseUint10(nums[i].value)]
      id     == Atoi(ss[1].name)
      out(i) == values[i + 2].val
  IN  IF Len(ss) \notin {7, 8} \/ ~IsName(ss[1]) \/ ~IsName(ss[2]) THEN Fail
      ELSE IF \/ ~id.ok
              \/ \E i \in DOMAIN nums : ~IsPair(nums[i])
              \/ \E i \in DOMAIN nums \ {1} : ~values[i].ok THEN Fail
      ELSE IF Len(nums) < 5 THEN Panic
      ELSE Ok([id |-> id.val, name |-> ss[2].name, wild |-> nums[1].value,
               max |-> out(0), active |-> out(1), lookup |-> out(2),
               matched |-> out(3)])

ReceiveKeys  == <<"pkts", "bytes", "drop", "errs", "frame", "over", "crc">>
TransmitKeys == <<"pkts", "bytes", "drop", "errs", "coll">>

\* '?' counts as zero.
Counter(w) == IF w.value = atom("?") THEN Ok(0) ELSE ParseUint10(w.value)

Sentinels(ss) ==
  ss[1] = atom("port") /\ ss[3] = atom("rx") /\ ss[11] = atom("tx")

PortID(w) ==
  CASE ~IsName(w) -> Fail
    [] w.name = atom("LOCAL") -> Ok(PortLOCAL)
    [] OTHER -> Atoi(w.name)

\* Counters by the direction last met and their key; one that is missing
\* is zero.
PortStats_UnmarshalText(ss) ==
  IF Len(ss) # 16 \/ ~Sentinels(ss) THEN Fail
  ELSE
    LET marks == {i \in 3 .. 16 : ss[i] \in {atom("rx"), atom("tx")}}
        prefix(i) == ss[Max({k \in marks : k < i})]
        pairs == (3 .. 16) \ marks
        out(p, key) ==
          LET at == {i \in pairs : prefix(i) = atom(p) /\ ss[i].key = key}
          IN  IF at = {} THEN 0 ELSE Counter(ss[Max(at)]).val
    IN  IF /\ PortID(ss[2]).ok
           /\ \A i \in pairs : IsPair(ss[i]) /\ Counter(ss[i]).ok
        THEN Ok([port |-> PortID(ss[2]).val,
                 received |-> [i \in DOMAIN ReceiveKeys |->
                                 out("rx", ReceiveKeys[i])],
                 transmitted |-> [i \in DOMAIN TransmitKeys |->
                                    out("tx", TransmitKeys[i])]])
        ELSE Fail

FlowStatsKeys == <<"packet_count", "byte_count", "flow_count">>

\* The words from the first packet_count on are the three counters in order.
FlowStats_UnmarshalText(ss) ==
  LET at   == {i \in DOMAIN ss : IsPair(ss[i]) /\ ss[i].key = "packet_count"}
      last == SubSeq(ss, Min(at), Len(ss))
      value(i) == ParseUint10(last[i].value)
  IN  IF at = {} THEN Fail
      ELSE IF /\ Len(last) = 3
              /\ \A i \in 1 .. 3 : /\ IsPair(last[i])
                                   /\ last[i].key = FlowStatsKeys[i]
                                   /\ value(i).ok
           THEN Ok([packets |-> value(1).val, bytes |-> value(2).val])
           ELSE Fail

----------------------------------------------------------------------------
(* The operations that dump, from the output of the command on.            *)

\* Tables never used are left out.
UsedTable(ss) ==
  LET t == Table_UnmarshalText(ss) IN
  IF ~t.ok THEN t
  ELSE Ok(IF t.val.active = 0 /\ t.val.lookup = 0 /\ t.val.matched = 0
          THEN <<>> ELSE <<t.val>>)

DumpTables(lines) ==
  LET each == parseEach(lines, "OFPST_TABLE") IN
  Collect(each, [i \in DOMAIN each.calls |-> UsedTable(each.calls[i])])

OnePort(ss) ==
  LET s == PortStats_UnmarshalText(ss) IN IF s.ok THEN Ok(<<s.val>>) ELSE Fail

dumpPorts(lines) ==
  LET each == parseEach(lines, "OFPST_PORT") IN
  Collect(each, [i \in DOMAIN each.calls |-> OnePort(each.calls[i])])

\* Exactly one.
DumpPort(lines) ==
  LET stats == dumpPorts(lines) IN
  IF ~stats.err /\ Len(stats.val) = 1 THEN Ok(stats.val[1]) ELSE Fail

\* Another banner is skipped; any other line must be a flow.
OneFlow(line) ==
  IF "banner" \in DOMAIN line /\ line.banner = "NXST_FLOW" THEN Ok(<<>>)
  ELSE LET r == Flow_UnmarshalText(Flow, line.flow) IN
       IF "flow" \notin DOMAIN line \/ r.err THEN Fail ELSE Ok(<<r.flow>>)

DumpFlows(lines) ==
  LET each == parseEachLine(lines, "NXST_FLOW") IN
  Collect(each, [i \in DOMAIN each.calls |-> OneFlow(each.calls[i])])

\* One reply: its banner, then the counters, all on one line.
dumpAggregate(lines) ==
  FlowStats_UnmarshalText(FlattenSeq([i \in DOMAIN lines |-> Words(lines[i])]))
=============================================================================
