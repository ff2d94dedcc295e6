---------------------------- MODULE CodingSwitch ----------------------------
(***************************************************************************)
(* pox/pox/misc/coding_switch.py: a POX component that makes a learning    *)
(* switch out of an OpenFlow switch.  The switch sends the frames that no  *)
(* flow matches to the controller; the controller learns the port of the   *)
(* source, and answers with a flow when it knows the destination's port,   *)
(* with a flooding packet_out when it does not.                            *)
(*                                                                         *)
(* The switch, POX's connection and the hosts are external, modelled from  *)
(* their use: the connection is a FIFO channel each way, a new connection  *)
(* starts with an empty flow table (POX clears it), a flow_mod that names  *)
(* a buffered frame is also applied to that frame.  Hosts may move.  The   *)
(* headers an exact match names are abstracted to the addresses and the    *)
(* kind of the frame.                                                      *)
(***************************************************************************)
EXTENDS Naturals, Sequences

CONSTANTS
  Hosts, Broadcast,
  Ports,                 \* port numbers of the switch
  NoPort, IN_PORT, ALL,  \* no entry; the reserved ports OFPP_IN_PORT, OFPP_ALL
  MaxFrames, MaxMoves, MaxConnections   \* bounds

ASSUME CodingSwitchAssumption ==
  /\ Broadcast \notin Hosts
  /\ NoPort \notin Ports /\ IN_PORT \notin Ports /\ ALL \notin Ports
  /\ IN_PORT # ALL
  /\ MaxFrames \in Nat /\ MaxMoves \in Nat /\ MaxConnections \in Nat \ {0}

VARIABLES
  fwd_table,    \* the controller's port of every source address
  packet_ins,   \* channel from the switch: numbers of buffered frames
  msgs,         \* channel to the switch
  flows,        \* the switch's flow table
  at,           \* the port every host is plugged into
  sent,         \* every frame sent so far, with the port it came in on
  got,          \* history: <<number of a frame, host that received it>>
  lost,         \* history: frames whose connection went away under them
  moved,        \* history: the connection a host last moved in, 0 if never
  moves, connections

vars == <<fwd_table, packet_ins, msgs, flows, at, sent, got, lost, moved,
          moves, connections>>

\* "truncated" stands for a frame POX cannot parse to its end.
Kinds  == {"plain", "vlan", "truncated"}
Frames == [src : Hosts, dst : Hosts \cup {Broadcast}, kind : Kinds,
           in_port : Ports]

TypeOK ==
  /\ fwd_table \in [Hosts -> Ports \cup {NoPort}]
  /\ packet_ins \in Seq(1 .. MaxFrames)
  /\ msgs \in Seq([type : {"flow_mod", "packet_out"}, no : 1 .. MaxFrames,
                   out : Ports \cup {IN_PORT, ALL}])
  /\ flows \subseteq [src : Hosts, dst : Hosts \cup {Broadcast},
                      kind : Kinds, out : Ports \cup {IN_PORT}]
  /\ at \in [Hosts -> Ports]
  /\ sent \in Seq(Frames) /\ Len(sent) <= MaxFrames
  /\ got \subseteq (1 .. MaxFrames) \X Hosts
  /\ lost \subseteq 1 .. MaxFrames
  /\ moved \in [Hosts -> 0 .. MaxConnections]
  /\ moves \in 0 .. MaxMoves /\ connections \in 1 .. MaxConnections

\* Mutant: one dictionary of the class instead of one for each object.
NewTable_Shared(old) == old

\* CodingController.__init__: every connection gets a table of its own.
NewTable(old) == [h \in Hosts |-> NoPort]

Init ==
  /\ fwd_table = [h \in Hosts |-> NoPort]
  /\ packet_ins = <<>> /\ msgs = <<>> /\ flows = {}
  /\ at \in [Hosts -> Ports]
  /\ sent = <<>> /\ got = {} /\ lost = {}
  /\ moved = [h \in Hosts |-> 0]
  /\ moves = 0 /\ connections = 1

----------------------------------------------------------------------------
(* The controller.                                                         *)

check_vlan(f) == f.kind = "vlan"

\* Mutant: the table answers for addresses it has never seen.
Known_Any(f, t) == f.dst \in Hosts

\* dst_mac in self.fwd_table; a broadcast address is nobody's source.
Known(f, t) == f.dst \in Hosts /\ t[f.dst] # NoPort

\* The answer to frame no, the table being t.  What both branches append after
\* the output action changes headers of a frame that has left already.
Answer(no, t) ==
  LET f == sent[no] IN
  IF Known(f, t)
  THEN [type |-> "flow_mod", no |-> no,
        out |-> IF check_vlan(f) THEN IN_PORT ELSE t[f.dst]]
  ELSE [type |-> "packet_out", no |-> no, out |-> ALL]

\* Mutant: the send has slipped into the branch of the known destination.
Send_Known(msg) == IF msg.type = "flow_mod" THEN <<msg>> ELSE <<>>

Send(msg) == <<msg>>

coding_switch(no) ==
  LET table == [fwd_table EXCEPT ![sent[no].src] = sent[no].in_port] IN
  /\ fwd_table' = table
  /\ msgs' = msgs \o Send(Answer(no, table))

\* _handle_PacketIn ignores what could not be parsed to the end.
_handle_PacketIn ==
  /\ packet_ins # <<>>
  /\ IF sent[Head(packet_ins)].kind = "truncated"
     THEN UNCHANGED <<fwd_table, msgs>>
     ELSE coding_switch(Head(packet_ins))
  /\ packet_ins' = Tail(packet_ins)
  /\ UNCHANGED <<flows, at, sent, got, lost, moved, moves, connections>>

\* launch, start_switch: the switch lost its connection and made a new one.
\* What was under way on the old one is gone, and so are the old flows.
ConnectionUp ==
  /\ connections < MaxConnections
  /\ connections' = connections + 1
  /\ fwd_table' = NewTable(fwd_table)
  /\ packet_ins' = <<>> /\ msgs' = <<>> /\ flows' = {}
  /\ lost' = lost \cup {packet_ins[i] : i \in DOMAIN packet_ins}
                  \cup {msgs[i].no : i \in DOMAIN msgs}
  /\ UNCHANGED <<at, sent, got, moved, moves>>

----------------------------------------------------------------------------
(* The switch and the hosts.                                               *)

\* The ports frame f leaves by: never the one it came in on, unless IN_PORT.
Leaves(f, out) == CASE out = ALL     -> Ports \ {f.in_port}
                    [] out = IN_PORT -> {f.in_port}
                    [] OTHER         -> {out} \ {f.in_port}

Receivers(f, out) == {h \in Hosts : at[h] \in Leaves(f, out)}

\* from_packet is not told the packet_in, so the match names no input port.
Matches(flow, f) ==
  flow.src = f.src /\ flow.dst = f.dst /\ flow.kind = f.kind

\* A host sends a frame; hosts at the same port hear it as well.
HostSends(h, dst, kind) ==
  LET f       == [src |-> h, dst |-> dst, kind |-> kind, in_port |-> at[h]]
      no      == Len(sent) + 1
      hit     == {flow \in flows : Matches(flow, f)}
      nearby  == {g \in Hosts \ {h} : at[g] = at[h]}
      reached == UNION {Receivers(f, flow.out) : flow \in hit}
  IN
  /\ Len(sent) < MaxFrames
  /\ sent' = Append(sent, f)
  /\ got' = got \cup {<<no, g>> : g \in nearby \cup reached}
  /\ packet_ins' = IF hit = {} THEN Append(packet_ins, no) ELSE packet_ins
  /\ UNCHANGED <<fwd_table, msgs, flows, at, lost, moved, moves, connections>>

\* The switch obeys a message; a flow replaces the one with the same match.
SwitchObeys ==
  /\ msgs # <<>>
  /\ LET msg == Head(msgs)
         f   == sent[msg.no]
         new == [src |-> f.src, dst |-> f.dst, kind |-> f.kind,
                 out |-> msg.out]
     IN
     /\ flows' = IF msg.type = "flow_mod"
                 THEN {g \in flows : ~Matches(g, f)} \cup {new}
                 ELSE flows
     /\ got' = got \cup {<<msg.no, h>> : h \in Receivers(f, msg.out)}
  /\ msgs' = Tail(msgs)
  /\ UNCHANGED <<fwd_table, packet_ins, at, sent, lost, moved, moves,
                 connections>>

HostMoves(h, p) ==
  /\ moves < MaxMoves /\ p # at[h]
  /\ moves' = moves + 1
  /\ at' = [at EXCEPT ![h] = p]
  /\ moved' = [moved EXCEPT ![h] = connections]
  /\ UNCHANGED <<fwd_table, packet_ins, msgs, flows, sent, got, lost,
                 connections>>

----------------------------------------------------------------------------
Next ==
  \/ _handle_PacketIn
  \/ SwitchObeys
  \/ ConnectionUp
  \/ \E h \in Hosts, kind \in Kinds :
       \E dst \in (Hosts \cup {Broadcast}) \ {h} : HostSends(h, dst, kind)
  \/ \E h \in Hosts, p \in Ports : HostMoves(h, p)

\* POX's event loop handles every packet_in, the switch obeys every message.
Fairness == WF_vars(_handle_PacketIn) /\ WF_vars(SwitchObeys)

Spec == Init /\ [][Next]_vars /\ Fairness

----------------------------------------------------------------------------
\* The flow for a destination leads to the port that host is at, as long as
\* the host has stayed where it was since the connection was made: no order
\* of packet_ins, moves of other hosts and reconnections makes
\* coding_switch install a flow towards a port the host is not at.  (A host
\* that did move keeps its old flows, which have no timeout.)
FlowsLeadHome ==
  \A flow \in flows :
    \/ moved[flow.dst] = connections
    \/ flow.out = IF flow.kind = "vlan" THEN IN_PORT ELSE at[flow.dst]

\* Frame no has come to where the controller means it to go, or its hosts
\* moved, or its connection went away before the switch was told what to do.
Settled(no) ==
  LET f == sent[no] IN
  \/ f.kind = "truncated"
  \/ no \in lost
  \/ moved[f.src] # 0
  \/ f.kind = "vlan" /\ <<no, f.src>> \in got
  \/ \A h \in Hosts \ {f.src} :
       (f.dst \in {h, Broadcast}) => (<<no, h>> \in got \/ moved[h] # 0)

\* Every complete frame reaches its destination, or all other hosts if it is
\* a broadcast, or comes back to its sender if it carries a VLAN tag: neither
\* branch of coding_switch leaves a frame in the switch's buffer, so the
\* switch always returns to a state in which all frames are settled.
EveryFrameSettles == []<>(\A no \in DOMAIN sent : Settled(no))
=============================================================================
