------------------------- MODULE CodingSwitchProofs -------------------------
(***************************************************************************)
(* The coding switch for any hosts, ports and bounds: types, and where the *)
(* flows lead.                                                             *)
(***************************************************************************)
EXTENDS CodingSwitch, SequenceTheorems, TLAPS

Addresses == Hosts \cup {Broadcast}
Messages  == [type : {"flow_mod", "packet_out"}, no : 1 .. Len(sent),
              out : Ports \cup {IN_PORT, ALL}]

\* Both channels name frames that were sent, and a flow is made only for a
\* host, with an output the switch can use.
Channels ==
  /\ packet_ins \in Seq(1 .. Len(sent))
  /\ msgs \in Seq(Messages)
  /\ \A i \in DOMAIN msgs : msgs[i].type = "flow_mod" =>
       sent[msgs[i].no].dst \in Hosts /\ msgs[i].out \in Ports \cup {IN_PORT}

\* Host h is at port p, or moved since the connection was made.
Home(h, p) == moved[h] = connections \/ p = at[h]

\* A flow or flow_mod for frames of this kind leads to host h.
LeadsHome(h, kind, out) ==
  moved[h] = connections \/ out = IF kind = "vlan" THEN IN_PORT ELSE at[h]

\* What the controller knows, what it is about to learn and what it is about
\* to install is right for every host that stayed.
HomeInv ==
  /\ \A h \in Hosts : fwd_table[h] # NoPort => Home(h, fwd_table[h])
  /\ \A i \in DOMAIN packet_ins :
       Home(sent[packet_ins[i]].src, sent[packet_ins[i]].in_port)
  /\ \A i \in DOMAIN msgs : msgs[i].type = "flow_mod" =>
       LeadsHome(sent[msgs[i].no].dst, sent[msgs[i].no].kind, msgs[i].out)
  /\ \A flow \in flows :
       flow.dst \in Hosts /\ LeadsHome(flow.dst, flow.kind, flow.out)

IndInv == TypeOK /\ Channels /\ HomeInv

----------------------------------------------------------------------------
\* What a channel holds after a message was put into it.
LEMMA Appended ==
  ASSUME NEW S, NEW s \in Seq(S), NEW e \in S
  PROVE  /\ Append(s, e) \in Seq(S)
         /\ \A i \in DOMAIN Append(s, e) :
              \/ i \in DOMAIN s /\ Append(s, e)[i] = s[i]
              \/ Append(s, e)[i] = e
<1>1. /\ Append(s, e) \in Seq(S) /\ Len(Append(s, e)) = Len(s) + 1
      /\ \A i \in 1 .. Len(s) : Append(s, e)[i] = s[i]
      /\ Append(s, e)[Len(s) + 1] = e
  BY AppendProperties
<1>2. /\ Len(s) \in Nat /\ DOMAIN s = 1 .. Len(s)
      /\ DOMAIN Append(s, e) = 1 .. Len(s) + 1
  BY <1>1, LenProperties
<1> QED
  BY <1>1, <1>2

\* What it holds after its first message was taken out.
LEMMA Taken ==
  ASSUME NEW S, NEW s \in Seq(S), s # <<>>
  PROVE  /\ Head(s) \in S /\ 1 \in DOMAIN s /\ Head(s) = s[1]
         /\ Tail(s) \in Seq(S)
         /\ \A i \in DOMAIN Tail(s) :
              i + 1 \in DOMAIN s /\ Tail(s)[i] = s[i + 1]
<1>1. Len(s) \in Nat \ {0} /\ DOMAIN s = 1 .. Len(s)
  BY EmptySeq, LenProperties
<1>2. /\ Head(s) \in S /\ Tail(s) \in Seq(S) /\ Len(Tail(s)) = Len(s) - 1
      /\ \A i \in 1 .. Len(Tail(s)) : Tail(s)[i] = s[i + 1]
  BY HeadTailProperties
<1>3. DOMAIN Tail(s) = 1 .. Len(s) - 1
  BY <1>2, LenProperties
<1> QED
  BY <1>1, <1>2, <1>3

\* Messages about frames that were sent are messages of the type invariant.
LEMMA ChannelTypes ==
  ASSUME sent \in Seq(Frames), Len(sent) <= MaxFrames,
         NEW p \in Seq(1 .. Len(sent)), NEW m \in Seq(Messages)
  PROVE  /\ p \in Seq(1 .. MaxFrames)
         /\ m \in Seq([type : {"flow_mod", "packet_out"}, no : 1 .. MaxFrames,
                       out : Ports \cup {IN_PORT, ALL}])
<1>1. Len(sent) \in Nat /\ MaxFrames \in Nat
  BY CodingSwitchAssumption, LenProperties
<1>2. 1 .. Len(sent) \subseteq 1 .. MaxFrames
  BY <1>1
<1>3. Messages \subseteq [type : {"flow_mod", "packet_out"},
                          no : 1 .. MaxFrames, out : Ports \cup {IN_PORT, ALL}]
  BY <1>2 DEF Messages
<1> QED
  BY <1>2, <1>3, SeqMonotonic

\* A frame a channel names is a frame that was sent.
LEMMA SentFrame ==
  ASSUME TypeOK, NEW no \in 1 .. Len(sent)
  PROVE  /\ sent[no] \in Frames
         /\ sent[no].src \in Hosts /\ sent[no].dst \in Addresses
         /\ sent[no].kind \in Kinds /\ sent[no].in_port \in Ports
         /\ no \in 1 .. MaxFrames
<1>1. sent[no] \in Frames
  BY DEF TypeOK
<1>2. no \in 1 .. MaxFrames
  BY CodingSwitchAssumption DEF TypeOK
<1> QED
  BY <1>1, <1>2 DEF Frames, Addresses

\* The new connection's state, and the first connection's, satisfy IndInv.
LEMMA IndInit == Init => IndInv
<1> SUFFICES ASSUME Init PROVE IndInv
  OBVIOUS
<1>1. packet_ins = <<>> /\ msgs = <<>> /\ sent = <<>>
  BY DEF Init
<1>2. TypeOK
  BY <1>1, CodingSwitchAssumption DEF Init, TypeOK
<1>3. Channels /\ HomeInv
  BY <1>1 DEF Init, Channels, HomeInv
<1> QED
  BY <1>2, <1>3 DEF IndInv

\* The controller answers a packet_in: the source's port is learned, and the
\* destination's, if known, goes into the answer.
LEMMA PacketInStep == IndInv /\ _handle_PacketIn => IndInv'
<1> SUFFICES ASSUME IndInv, _handle_PacketIn PROVE IndInv'
  OBVIOUS
<1> DEFINE no    == Head(packet_ins)
           f     == sent[no]
           table == [fwd_table EXCEPT ![f.src] = f.in_port]
           msg   == Answer(no, table)
<1>1. TypeOK /\ Channels /\ HomeInv
  BY DEF IndInv
<1>2. /\ no \in 1 .. Len(sent) /\ 1 \in DOMAIN packet_ins /\ packet_ins[1] = no
      /\ packet_ins' = Tail(packet_ins)
      /\ packet_ins' \in Seq(1 .. Len(sent))
      /\ \A i \in DOMAIN packet_ins' :
           i + 1 \in DOMAIN packet_ins /\ packet_ins'[i] = packet_ins[i + 1]
  BY <1>1, Taken DEF _handle_PacketIn, Channels
<1>3. UNCHANGED <<flows, at, sent, got, lost, moved, moves, connections>>
  BY DEF _handle_PacketIn
<1>4. /\ f.src \in Hosts /\ f.dst \in Addresses /\ f.kind \in Kinds
      /\ f.in_port \in Ports /\ no \in 1 .. MaxFrames
  BY <1>1, <1>2, SentFrame
<1>5. table \in [Hosts -> Ports \cup {NoPort}]
  BY <1>1, <1>4 DEF TypeOK
<1>6. \A h \in Hosts : table[h] # NoPort => Home(h, table[h])
  BY <1>1, <1>2, <1>4 DEF TypeOK, HomeInv
<1>7. /\ msg \in Messages
      /\ msg.type = "flow_mod" =>
           /\ f.dst \in Hosts /\ msg.out \in Ports \cup {IN_PORT}
           /\ LeadsHome(f.dst, f.kind, msg.out)
      /\ msg.no = no
  <2>1. CASE Known(f, table)
    <3>1. f.dst \in Hosts /\ table[f.dst] \in Ports /\ Home(f.dst, table[f.dst])
      BY <1>5, <1>6, <2>1 DEF Known
    <3>2. msg = [type |-> "flow_mod", no |-> no,
                 out |-> IF f.kind = "vlan" THEN IN_PORT ELSE table[f.dst]]
      BY <2>1 DEF Answer, check_vlan
    <3> HIDE DEF msg, table, no
    <3> QED
      BY <1>2, <3>1, <3>2 DEF Messages, Home, LeadsHome
  <2>2. CASE ~Known(f, table)
    <3>1. msg = [type |-> "packet_out", no |-> no, out |-> ALL]
      BY <2>2 DEF Answer
    <3> QED
      BY <1>2, <3>1 DEF Messages
  <2> QED
    BY <2>1, <2>2
<1>8. \/ UNCHANGED <<fwd_table, msgs>>
      \/ fwd_table' = table /\ msgs' = Append(msgs, msg)
  <2>1. CASE f.kind = "truncated"
    BY <2>1 DEF _handle_PacketIn
  <2>2. CASE f.kind # "truncated"
    <3>1. fwd_table' = table /\ msgs' = msgs \o <<msg>>
      BY <2>2 DEF _handle_PacketIn, coding_switch, Send
    <3> QED
      BY <1>1, <1>7, <3>1 DEF Channels
  <2> QED
    BY <2>1, <2>2
<1> HIDE DEF no, f, table, msg
<1>9. /\ fwd_table' \in [Hosts -> Ports \cup {NoPort}]
      /\ msgs' \in Seq(Messages)
      /\ \A i \in DOMAIN msgs' :
           (i \in DOMAIN msgs /\ msgs'[i] = msgs[i]) \/ msgs'[i] = msg
  <2>1. msgs \in Seq(Messages) /\ fwd_table \in [Hosts -> Ports \cup {NoPort}]
    BY <1>1 DEF Channels, TypeOK
  <2>2. CASE UNCHANGED <<fwd_table, msgs>>
    BY <2>1, <2>2
  <2>3. CASE fwd_table' = table /\ msgs' = Append(msgs, msg)
    BY <1>5, <1>7, <2>1, <2>3, Appended
  <2> QED
    BY <1>8, <2>2, <2>3
<1>10. TypeOK'
  <2>1. /\ packet_ins' \in Seq(1 .. MaxFrames)
        /\ msgs' \in Seq([type : {"flow_mod", "packet_out"},
                          no : 1 .. MaxFrames, out : Ports \cup {IN_PORT, ALL}])
    BY <1>1, <1>2, <1>9, ChannelTypes DEF TypeOK
  <2> QED
    BY <1>1, <1>3, <1>9, <2>1 DEF TypeOK
<1>11. Channels'
  BY <1>1, <1>2, <1>3, <1>7, <1>9 DEF Channels, Messages, f
<1>12. HomeInv'
  <2>1. \A h \in Hosts : fwd_table'[h] # NoPort => Home(h, fwd_table'[h])
    BY <1>1, <1>6, <1>8 DEF HomeInv
  <2>2. \A i \in DOMAIN msgs' : msgs'[i].type = "flow_mod" =>
          LeadsHome(sent[msgs'[i].no].dst, sent[msgs'[i].no].kind, msgs'[i].out)
    BY <1>1, <1>7, <1>9 DEF HomeInv, f
  <2>3. \A i \in DOMAIN packet_ins' :
          Home(sent[packet_ins'[i]].src, sent[packet_ins'[i]].in_port)
    BY <1>1, <1>2 DEF HomeInv
  <2> QED
    BY <1>1, <1>3, <2>1, <2>2, <2>3 DEF HomeInv, Home, LeadsHome
<1> QED
  BY <1>10, <1>11, <1>12 DEF IndInv

\* The switch takes a message: a flow_mod's flow leads home because the
\* message did.
LEMMA SwitchStep == IndInv /\ SwitchObeys => IndInv'
<1> SUFFICES ASSUME IndInv, SwitchObeys PROVE IndInv'
  OBVIOUS
<1> DEFINE msg == Head(msgs)
           f   == sent[msg.no]
           new == [src |-> f.src, dst |-> f.dst, kind |-> f.kind,
                   out |-> msg.out]
<1>1. TypeOK /\ Channels /\ HomeInv
  BY DEF IndInv
<1>2. /\ msg \in Messages /\ 1 \in DOMAIN msgs /\ msg = msgs[1]
      /\ msgs' = Tail(msgs) /\ msgs' \in Seq(Messages)
      /\ \A i \in DOMAIN msgs' :
           i + 1 \in DOMAIN msgs /\ msgs'[i] = msgs[i + 1]
  BY <1>1, Taken DEF SwitchObeys, Channels
<1>3. UNCHANGED <<fwd_table, packet_ins, at, sent, lost, moved, moves,
                  connections>>
  BY DEF SwitchObeys
<1>4. flows' = IF msg.type = "flow_mod"
               THEN {g \in flows : ~Matches(g, f)} \cup {new}
               ELSE flows
  BY DEF SwitchObeys
<1>5. got' = got \cup {<<msg.no, h>> : h \in Receivers(f, msg.out)}
  BY DEF SwitchObeys
<1> HIDE DEF msg
<1>6. msg.no \in 1 .. Len(sent)
  BY <1>2 DEF Messages
<1>7. /\ f.src \in Hosts /\ f.dst \in Addresses /\ f.kind \in Kinds
      /\ msg.no \in 1 .. MaxFrames
  BY <1>1, <1>6, SentFrame
<1>8. msg.type = "flow_mod" =>
        /\ f.dst \in Hosts /\ msg.out \in Ports \cup {IN_PORT}
        /\ LeadsHome(f.dst, f.kind, msg.out)
  BY <1>1, <1>2 DEF Channels, HomeInv
<1> HIDE DEF f
<1>9. \A flow \in flows' :
        flow \in flows \/ (msg.type = "flow_mod" /\ flow = new)
  BY <1>4
<1>10. TypeOK'
  <2>1. /\ packet_ins' \in Seq(1 .. MaxFrames)
        /\ msgs' \in Seq([type : {"flow_mod", "packet_out"},
                          no : 1 .. MaxFrames, out : Ports \cup {IN_PORT, ALL}])
    BY <1>1, <1>2, <1>3, ChannelTypes DEF TypeOK, Channels
  <2>2. flows' \subseteq [src : Hosts, dst : Hosts \cup {Broadcast},
                          kind : Kinds, out : Ports \cup {IN_PORT}]
    BY <1>1, <1>7, <1>8, <1>9 DEF TypeOK
  <2>3. got' \subseteq (1 .. MaxFrames) \X Hosts
    BY <1>1, <1>5, <1>7 DEF TypeOK, Receivers
  <2> QED
    BY <1>1, <1>3, <2>1, <2>2, <2>3 DEF TypeOK
<1>11. Channels'
  BY <1>1, <1>2, <1>3 DEF Channels, Messages
<1>12. HomeInv'
  <2>1. \A flow \in flows' :
          flow.dst \in Hosts /\ LeadsHome(flow.dst, flow.kind, flow.out)
    BY <1>1, <1>8, <1>9 DEF HomeInv
  <2>2. \A i \in DOMAIN msgs' : msgs'[i].type = "flow_mod" =>
          LeadsHome(sent[msgs'[i].no].dst, sent[msgs'[i].no].kind, msgs'[i].out)
    BY <1>1, <1>2 DEF HomeInv
  <2> QED
    BY <1>1, <1>3, <2>1, <2>2 DEF HomeInv, Home, LeadsHome
<1> QED
  BY <1>10, <1>11, <1>12 DEF IndInv

\* A new connection: nothing is known, nothing is under way, no flow is left,
\* and the moves before it no longer excuse a wrong flow.
LEMMA ConnectionStep == IndInv /\ ConnectionUp => IndInv'
<1> SUFFICES ASSUME IndInv, ConnectionUp PROVE IndInv'
  OBVIOUS
<1>1. TypeOK /\ Channels /\ HomeInv
  BY DEF IndInv
<1>2. /\ connections' = connections + 1 /\ connections < MaxConnections
      /\ fwd_table' = [h \in Hosts |-> NoPort]
      /\ packet_ins' = <<>> /\ msgs' = <<>> /\ flows' = {}
      /\ UNCHANGED <<at, sent, got, moved, moves>>
  BY DEF ConnectionUp, NewTable
<1>3. connections' \in 1 .. MaxConnections
  BY <1>1, <1>2, CodingSwitchAssumption DEF TypeOK
<1>4. lost' \subseteq 1 .. MaxFrames
  <2>1. \A i \in DOMAIN packet_ins : packet_ins[i] \in 1 .. MaxFrames
    <3>1. packet_ins \in Seq(1 .. MaxFrames)
      BY <1>1 DEF TypeOK
    <3> QED
      BY <3>1, LenProperties
  <2>2. \A i \in DOMAIN msgs : msgs[i].no \in 1 .. MaxFrames
    <3> DEFINE M == [type : {"flow_mod", "packet_out"}, no : 1 .. MaxFrames,
                     out : Ports \cup {IN_PORT, ALL}]
    <3>1. \A m \in M : m.no \in 1 .. MaxFrames
      OBVIOUS
    <3>2. msgs \in Seq(M)
      BY <1>1 DEF TypeOK
    <3> HIDE DEF M
    <3>3. \A i \in DOMAIN msgs : msgs[i] \in M
      BY <3>2, LenProperties
    <3> QED
      BY <3>1, <3>3
  <2>3. lost' = lost \cup {packet_ins[i] : i \in DOMAIN packet_ins}
                     \cup {msgs[i].no : i \in DOMAIN msgs}
    BY DEF ConnectionUp
  <2> QED
    BY <1>1, <2>1, <2>2, <2>3 DEF TypeOK
<1>5. TypeOK'
  BY <1>1, <1>2, <1>3, <1>4, EmptySeq DEF TypeOK
<1>6. DOMAIN packet_ins' = {} /\ DOMAIN msgs' = {}
  BY <1>2
<1>7. Channels'
  BY <1>2, <1>6, EmptySeq DEF Channels
<1>8. HomeInv'
  BY <1>2, <1>6 DEF HomeInv
<1> QED
  BY <1>5, <1>7, <1>8 DEF IndInv

\* A host sends: the frame's input port is the one the host is at, so a
\* packet_in may still be learned from later.
LEMMA SendStep ==
  ASSUME IndInv, NEW h \in Hosts, NEW kind \in Kinds,
         NEW dst \in Addresses, HostSends(h, dst, kind)
  PROVE  IndInv'
<1> DEFINE f  == [src |-> h, dst |-> dst, kind |-> kind, in_port |-> at[h]]
           no == Len(sent) + 1
<1>1. TypeOK /\ Channels /\ HomeInv
  BY DEF IndInv
<1>2. /\ Len(sent) < MaxFrames
      /\ sent' = Append(sent, f)
      /\ packet_ins' = Append(packet_ins, no) \/ packet_ins' = packet_ins
      /\ UNCHANGED <<fwd_table, msgs, flows, at, lost, moved, moves,
                     connections>>
  BY DEF HostSends
<1>3. f \in Frames /\ f.src = h /\ f.in_port = at[h]
  BY <1>1 DEF TypeOK, Frames, Addresses
<1> HIDE DEF f
<1>4. /\ sent \in Seq(Frames) /\ Len(sent) \in Nat /\ MaxFrames \in Nat
  BY <1>1, LenProperties, CodingSwitchAssumption DEF TypeOK
<1>5. /\ sent' \in Seq(Frames) /\ Len(sent') = no
      /\ \A k \in 1 .. Len(sent) : sent'[k] = sent[k]
      /\ sent'[no] = f
  BY <1>2, <1>3, <1>4, AppendProperties
<1>6. Len(sent') <= MaxFrames /\ no \in 1 .. MaxFrames
  BY <1>2, <1>4, <1>5
<1>7. 1 .. Len(sent) \subseteq 1 .. no /\ no \in 1 .. no
  BY <1>4
<1>8. msgs \in Seq(Messages) /\ packet_ins \in Seq(1 .. Len(sent))
  BY <1>1 DEF Channels
<1>9. msgs' \in Seq(Messages')
  <2>1. Messages \subseteq Messages'
    BY <1>5, <1>7 DEF Messages
  <2> QED
    BY <1>2, <1>8, <2>1, SeqMonotonic
<1>10. packet_ins \in Seq(1 .. no)
  BY <1>7, <1>8, SeqMonotonic
<1>11. /\ packet_ins' \in Seq(1 .. no)
       /\ \A i \in DOMAIN packet_ins' :
            \/ i \in DOMAIN packet_ins /\ packet_ins'[i] = packet_ins[i]
            \/ packet_ins'[i] = no
  <2>1. CASE packet_ins' = packet_ins
    BY <1>10, <2>1
  <2>2. CASE packet_ins' = Append(packet_ins, no)
    <3>1. no \in 1 .. no
      BY <1>7
    <3> HIDE DEF no
    <3> QED
      BY <1>10, <2>2, <3>1, Appended
  <2> QED
    BY <1>2, <2>1, <2>2
<1>12. \A i \in DOMAIN packet_ins : packet_ins[i] \in 1 .. Len(sent)
  BY <1>8, LenProperties
<1>13. \A i \in DOMAIN msgs : msgs[i].no \in 1 .. Len(sent)
  <2>1. \A i \in DOMAIN msgs : msgs[i] \in Messages
    BY <1>8, LenProperties
  <2> QED
    BY <2>1 DEF Messages
<1>14. got' \subseteq (1 .. MaxFrames) \X Hosts
  BY <1>1, <1>6 DEF HostSends, TypeOK, Receivers
<1>15. TypeOK'
  <2>1. /\ packet_ins' \in Seq(1 .. MaxFrames)
        /\ msgs' \in Seq([type : {"flow_mod", "packet_out"},
                          no : 1 .. MaxFrames, out : Ports \cup {IN_PORT, ALL}])
    <3>1. 1 .. no \subseteq 1 .. MaxFrames
      BY <1>4, <1>6
    <3>2. packet_ins' \in Seq(1 .. MaxFrames)
      BY <1>11, <3>1, SeqMonotonic
    <3> QED
      BY <1>1, <1>2, <3>2 DEF TypeOK
  <2> QED
    BY <1>1, <1>2, <1>5, <1>6, <1>14, <2>1 DEF TypeOK
<1>16. Channels'
  BY <1>1, <1>2, <1>5, <1>9, <1>11, <1>13 DEF Channels
<1>17. HomeInv'
  <2>1. \A i \in DOMAIN packet_ins' :
          Home(sent'[packet_ins'[i]].src, sent'[packet_ins'[i]].in_port)
    <3> SUFFICES ASSUME NEW i \in DOMAIN packet_ins'
                 PROVE  Home(sent'[packet_ins'[i]].src, sent'[packet_ins'[i]].in_port)
      OBVIOUS
    <3>1. CASE i \in DOMAIN packet_ins /\ packet_ins'[i] = packet_ins[i]
      <4>1. sent'[packet_ins'[i]] = sent[packet_ins[i]]
        BY <1>5, <1>12, <3>1
      <4> QED
        BY <1>1, <3>1, <4>1 DEF HomeInv
    <3>2. CASE packet_ins'[i] = no
      BY <1>3, <1>5, <3>2 DEF Home
    <3> QED
      BY <1>11, <3>1, <3>2
  <2>2. \A i \in DOMAIN msgs : msgs[i].type = "flow_mod" =>
          LeadsHome(sent'[msgs[i].no].dst, sent'[msgs[i].no].kind, msgs[i].out)
    BY <1>1, <1>5, <1>13 DEF HomeInv
  <2> QED
    BY <1>1, <1>2, <2>1, <2>2 DEF HomeInv, Home, LeadsHome
<1> QED
  BY <1>15, <1>16, <1>17 DEF IndInv

\* A host moves: whatever is known of it is excused until the next connection,
\* and nothing changes for the others.
LEMMA MoveStep ==
  ASSUME IndInv, NEW h \in Hosts, NEW p \in Ports, HostMoves(h, p)
  PROVE  IndInv'
<1>1. TypeOK /\ Channels /\ HomeInv
  BY DEF IndInv
<1>2. /\ moves < MaxMoves /\ moves' = moves + 1
      /\ at' = [at EXCEPT ![h] = p]
      /\ moved' = [moved EXCEPT ![h] = connections]
      /\ UNCHANGED <<fwd_table, packet_ins, msgs, flows, sent, got, lost,
                     connections>>
  BY DEF HostMoves
<1>3. /\ moves' \in 0 .. MaxMoves /\ at' \in [Hosts -> Ports]
      /\ moved' \in [Hosts -> 0 .. MaxConnections]
  BY <1>1, <1>2, CodingSwitchAssumption DEF TypeOK
<1>4. TypeOK' /\ Channels'
  BY <1>1, <1>2, <1>3 DEF TypeOK, Channels, Messages
<1>5. \A g \in Hosts : moved'[g] = connections' \/
                       (moved'[g] = moved[g] /\ at'[g] = at[g])
  BY <1>1, <1>2 DEF TypeOK
<1>6. /\ \A g \in Hosts : \A q : Home(g, q) => Home(g, q)'
      /\ \A g \in Hosts : \A kd, out : LeadsHome(g, kd, out) => LeadsHome(g, kd, out)'
  BY <1>2, <1>5 DEF Home, LeadsHome
<1>7. \A i \in DOMAIN packet_ins : sent[packet_ins[i]].src \in Hosts
  <2>1. \A i \in DOMAIN packet_ins : packet_ins[i] \in 1 .. Len(sent)
    BY <1>1, LenProperties DEF Channels
  <2> QED
    BY <1>1, <2>1, SentFrame
<1>8. HomeInv'
  <2>1. /\ \A g \in Hosts : fwd_table'[g] # NoPort => Home(g, fwd_table[g])'
        /\ \A i \in DOMAIN packet_ins' :
             Home(sent[packet_ins[i]].src, sent[packet_ins[i]].in_port)'
    BY <1>1, <1>2, <1>6, <1>7 DEF HomeInv, Home
  <2>2. \A i \in DOMAIN msgs' : msgs'[i].type = "flow_mod" =>
          LeadsHome(sent[msgs[i].no].dst, sent[msgs[i].no].kind, msgs[i].out)'
    <3> SUFFICES ASSUME NEW i \in DOMAIN msgs', msgs'[i].type = "flow_mod"
                 PROVE  LeadsHome(sent[msgs[i].no].dst, sent[msgs[i].no].kind,
                                  msgs[i].out)'
      OBVIOUS
    <3>1. /\ i \in DOMAIN msgs /\ msgs[i].type = "flow_mod"
          /\ sent' = sent /\ msgs' = msgs
      BY <1>2
    <3>2. /\ sent[msgs[i].no].dst \in Hosts
          /\ LeadsHome(sent[msgs[i].no].dst, sent[msgs[i].no].kind, msgs[i].out)
      BY <1>1, <3>1 DEF Channels, HomeInv
    <3> QED
      BY <1>2, <1>5, <3>1, <3>2 DEF LeadsHome
  <2>3. \A flow \in flows' :
          flow.dst \in Hosts /\ LeadsHome(flow.dst, flow.kind, flow.out)'
    BY <1>1, <1>2, <1>6 DEF HomeInv, LeadsHome
  <2> QED
    BY <2>1, <2>2, <2>3 DEF HomeInv
<1> QED
  BY <1>4, <1>8 DEF IndInv

\* IndInv holds in every reachable state.
LEMMA Inductive == Spec => []IndInv
<1>1. IndInv /\ UNCHANGED vars => IndInv'
  <2> SUFFICES ASSUME IndInv, UNCHANGED vars PROVE IndInv'
    OBVIOUS
  <2> QED
    BY DEF vars, IndInv, TypeOK, Channels, Messages, HomeInv, Home, LeadsHome
<1>2. IndInv /\ Next => IndInv'
  BY PacketInStep, SwitchStep, ConnectionStep, SendStep, MoveStep
     DEF Next, Addresses
<1> QED
  BY <1>1, <1>2, IndInit, PTL DEF Spec

\* Types, for any hosts, ports and bounds: the controller's table, both
\* channels and the flow table hold what the code puts there, and a flow's
\* output is a port or IN_PORT, never ALL.
THEOREM TypeCorrect == Spec => []TypeOK
<1>1. IndInv => TypeOK
  BY DEF IndInv
<1> QED
  BY <1>1, Inductive, PTL

\* For any number of hosts, ports, frames, moves and reconnections: every flow
\* that coding_switch has installed leads to the port its destination is at,
\* unless that host has moved since the connection was made.
THEOREM FlowsLeadToHosts == Spec => []FlowsLeadHome
<1>1. IndInv => FlowsLeadHome
  BY DEF IndInv, HomeInv, LeadsHome, FlowsLeadHome
<1> QED
  BY <1>1, Inductive, PTL
=============================================================================
