----------------------------- MODULE OvsNetlink -----------------------------
(***************************************************************************)
(* Package ovsnl: a Client on a generic netlink connection, from the list  *)
(* of families the kernel reports, and the datapaths and packets decoded   *)
(* from its messages.  A message is the bytes of its fixed header and its  *)
(* attributes, torn when their lengths do not add up; an attribute is a    *)
(* type, a size and a value.                                               *)
(***************************************************************************)
EXTENDS Integers, Sequences, FiniteSets, SequencesExt

Known     == {"ovs_datapath", "ovs_packet", "ovs_flow", "ovs_vport"}
OvsPrefix == Known \cup {"ovs_meter"}  \* names beginning with "ovs_"

sizeofHeader          == 4
sizeofDPStats         == 32
sizeofDPMegaflowStats == 32
wantf == 4

\* A result: the error, and the value.
Good(v) == [err |-> "nil", val |-> v]
Bad(e)  == [err |-> e]

\* A loop that returns at the first error.
Fold(zero, elements, Step(_, _)) ==
  LET after[n \in 0 .. Len(elements)] ==
        IF n = 0 THEN Good(zero)
        ELSE IF after[n - 1].err # "nil" THEN after[n - 1]
        ELSE Step(after[n - 1].val, elements[n])
  IN  after[Len(elements)]

----------------------------------------------------------------------------
(* New.                                                                    *)

\* Mutant: a family of another name is passed over.
initFamily_Lenient(client, f) ==
  Good(client \cup (CASE f = "ovs_datapath" -> {"datapath"}
                       [] f = "ovs_packet"   -> {"packet"}
                       [] OTHER -> {}))

\* The client is the set of its services.  Flow and vport families have none
\* yet.
initFamily(client, f) ==
  CASE f = "ovs_datapath" -> Good(client \cup {"datapath"})
    [] f = "ovs_packet"   -> Good(client \cup {"packet"})
    [] f \in {"ovs_flow", "ovs_vport"} -> Good(client)
    [] OTHER -> Bad("unrecognized")

\* Families without the prefix are passed over.
PrefixedFamily(client, f) ==
  IF f \in OvsPrefix THEN initFamily(client, f) ELSE Good(client)

\* Every family, then the number of those with the prefix.
init(client, families) ==
  LET gotf == Cardinality({i \in DOMAIN families : families[i] \in OvsPrefix})
      done == Fold(client, families, PrefixedFamily)
  IN  IF done.err # "nil" THEN done
      ELSE IF gotf = 0 THEN Bad("not exist")
      ELSE IF gotf # wantf THEN Bad("unexpected number")
      ELSE done

\* The connection is closed on every error.
newClient(listed, families) ==
  LET r == IF listed THEN init({}, families)
                     ELSE Bad("ListFamilies")
  IN  [result |-> r, open |-> r.err = "nil"]

----------------------------------------------------------------------------
(* List and PktList, from the messages of the reply on.                    *)

parseHeader(m) ==
  IF m.header < sizeofHeader THEN Bad("header") ELSE Good(m.ifindex)

\* netlink.UnmarshalAttributes.
UnmarshalAttributes(m) == IF m.torn THEN Bad("attributes") ELSE Good(m.attrs)

\* Mutant: a structure that is too long is accepted.
parseDPStats_AtLeast(a) ==
  IF a.size >= sizeofDPStats THEN Good(a.value) ELSE Bad("size")

parseDPStats(a) ==
  IF a.size = sizeofDPStats THEN Good(a.value) ELSE Bad("size")
parseDPMegaflowStats(a) ==
  IF a.size = sizeofDPMegaflowStats THEN Good(a.value) ELSE Bad("size")

\* nlenc.Uint32 panics unless it gets four bytes: "panic" is no error that
\* List returns but the end of the process.
Uint32(a) == IF a.size = 4 THEN Good(a.value) ELSE Bad("panic")

With(rec, field, r) == IF r.err = "nil" THEN Good([rec EXCEPT ![field] = r.val])
                                        ELSE r

\* Sequential assignment: the last attribute of a type decides.
DatapathAttr(dp, a) ==
  CASE a.type = "name"     -> Good([dp EXCEPT !.name = a.value])
    [] a.type = "features" -> With(dp, "features", Uint32(a))
    [] a.type = "stats"    -> With(dp, "stats", parseDPStats(a))
    [] a.type = "megaflow" -> With(dp, "megaflow", parseDPMegaflowStats(a))
    [] OTHER -> Good(dp)

\* Every message, or the first error.
All(results) ==
  LET bad == {i \in DOMAIN results : results[i].err # "nil"} IN
  IF bad = {} THEN Good([i \in DOMAIN results |-> results[i].val])
              ELSE results[Min(bad)]

parseDatapaths(msgs) ==
  LET one(m) ==
        LET h     == parseHeader(m)
            attrs == UnmarshalAttributes(m)
        IN  IF h.err # "nil" THEN h
            ELSE IF attrs.err # "nil" THEN attrs
            ELSE Fold([index |-> h.val, name |-> "", features |-> 0,
                       stats |-> 0, megaflow |-> 0], attrs.val, DatapathAttr)
  IN  All([i \in DOMAIN msgs |-> one(msgs[i])])

\* The packet is read from the attribute numbered as a datapath's name.
PacketAttr(pkt, a) ==
  Good(IF a.type = "name" THEN [pkt EXCEPT !.packet = a.value] ELSE pkt)

parsePackets(msgs) ==
  LET one(m) ==
        LET h     == parseHeader(m)
            attrs == UnmarshalAttributes(m)
        IN  IF h.err # "nil" THEN h
            ELSE IF attrs.err # "nil" THEN attrs
            ELSE Fold([index |-> h.val, packet |-> ""], attrs.val, PacketAttr)
  IN  All([i \in DOMAIN msgs |-> one(msgs[i])])
=============================================================================
