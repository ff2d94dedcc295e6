---------------------------- MODULE L2FwdProofs ----------------------------
(***************************************************************************)
(* l2fwd_daniel for any number of lcores, ports, hosts and mbufs: types,   *)
(* and what main() has done when an lcore runs.  Then, with a single       *)
(* lcore and frames that do not bear the address 00:00:00:00:00:00, for    *)
(* any number of hosts, mbufs, table entries and any burst size: the MAC   *)
(* table and, with two ports, the mbufs.  With more lcores the accesses to *)
(* the table race, with three ports a flooded mbuf is in two TX buffers at *)
(* once, and a frame for the zero address matches every empty entry:       *)
(* neither holds then.                                                     *)
(***************************************************************************)
EXTENDS L2Fwd, SequenceTheorems, FiniteSetTheorems, TLAPS

----------------------------------------------------------------------------
(* The inductive invariant.                                                *)

\* The mbufs that have held a frame.
Full == {mb \in Mbufs : frame[mb] \in Frames}

SlotsOf(F)  == [mb : F, queued : Frames]

\* Local variables of an lcore whose queues hold mbufs of F.
LocalsOf(F) ==
  [pc : LcorePCs, todo : Seq(Ports), burst : Seq(F),
   m : Mbufs \cup {NoMbuf}, f : Frames \cup {NoFrame}, portid : Ports,
   i : Nat, mac_add : BOOLEAN, mac_dst_found : BOOLEAN, txport : Ports,
   out : Seq(SlotsOf(F)),
   ret : {"drain", "scan", "flood"}, slot : Nat]

\* Inside l2fwd_learning_forward.
Forwarding(x) ==
  \/ x.pc \in {"scan", "flood", "tx", "put", "addr", "port", "count"}
  \/ x.pc = "flush" /\ x.ret # "drain"

\* There it has a frame; the transmit call returns to the loop it came from;
\* the table entry being written exists.
Sane(x, F) ==
  /\ Forwarding(x) => x.m \in F /\ x.f \in Frames
  /\ x.pc \in {"tx", "put"} => x.ret # "drain"
  /\ x.pc = "port" => x.slot < MacEntries

MainStates == [pc : {"init", "check", "run", "wait", "close", "exit"},
               port : Ports, count : Nat, print : BOOLEAN]

TableType ==
  /\ mac_fwd_table \in [0 .. MacEntries - 1 ->
                          [addr : Sources \cup {Zero}, port : Ports]]
  /\ mac_counter \in Nat

DpdkType ==
  /\ txbuf \in [Ports -> Seq(SlotsOf(Full))]
  /\ pool \subseteq Mbufs /\ frame \in [Mbufs -> Frames \cup {NoFrame}]
  /\ rxq \in [Ports -> Seq(Full)]
  /\ sent \subseteq [port : Ports, queued : Frames, wire : Frames]

LcType == lc \in [Lcores -> LocalsOf(Full)] /\ \A l \in Lcores : Sane(lc[l], Full)

CtlType ==
  /\ main \in MainStates
  /\ portState \in [Ports -> {"down", "started", "closed"}]
  /\ force_quit \in BOOLEAN

RestType ==
  /\ fault \in {"none", "table overrun", "error callback"}
  /\ seen \subseteq Sources \X Ports
  /\ frames \in 0 .. MaxFrames

TypeInv == TableType /\ DpdkType /\ LcType /\ CtlType /\ RestType

\* What main has done so far.
MainInv ==
  /\ main.pc = "init" => /\ \A l \in Lcores : lc[l].pc = "off"
                         /\ \A p \in Ports : p < main.port => portState[p] = "started"
  /\ main.pc = "check" => /\ \A l \in Lcores : lc[l].pc = "off"
                          /\ \A p \in Ports : portState[p] = "started"
  /\ main.pc = "run" => \A p \in Ports : portState[p] = "started"
  /\ main.pc \notin {"init", "check", "run"} =>
       \A l \in Lcores : lc[l].pc \in {"off", "done"}

IndInv == TypeInv /\ MainInv

----------------------------------------------------------------------------
(* Facts about the constants.                                              *)

\* Ports are numbers, and there is a first one.
LEMMA PortNumbers ==
  /\ \A p : p \in Ports <=> p \in Nat /\ p < NbPorts
  /\ 0 \in Ports /\ NbPorts \in Nat
BY SwitchAssumption DEF Ports

\* rx_port_list holds ports.
LEMMA RxPortListType ==
  ASSUME NEW l \in Lcores
  PROVE  RxPortList(l) \in Seq(Ports)
<1>1. Rank(l) \in Nat
  <2>1. IsFiniteSet({k \in Lcores : k < l})
    BY SwitchAssumption, FS_Subset
  <2> QED
    BY <2>1, FS_CardinalityType DEF Rank
<1> DEFINE first == Rank(l) * RxQueuePerLcore
           last  == IF first + RxQueuePerLcore <= NbPorts
                    THEN first + RxQueuePerLcore - 1 ELSE NbPorts - 1
<1>2. first \in Nat
  BY <1>1, SwitchAssumption
<1> HIDE DEF first
<1>3. last \in Int /\ last <= NbPorts - 1
  BY <1>2, SwitchAssumption
<1>4. RxPorts(l) = first .. last
  <2>1. RxPorts(l) = Ports \cap (first .. first + RxQueuePerLcore - 1)
    BY DEF RxPorts, first
  <2> QED
    BY <1>2, <2>1, SwitchAssumption DEF Ports
<1> HIDE DEF last
<1> DEFINE n == Cardinality(RxPorts(l))
<1>5. n = IF first > last THEN 0 ELSE last - first + 1
  BY <1>2, <1>3, <1>4, FS_Interval
<1> HIDE DEF n
<1>6. n \in Nat /\ \A k \in 1 .. n : first + k - 1 \in Ports
  BY <1>2, <1>3, <1>5, SwitchAssumption DEF Ports
<1>7. [k \in 1 .. n |-> first + k - 1] \in [1 .. n -> Ports]
  BY <1>6
<1>8. [k \in 1 .. n |-> first + k - 1] \in Seq(Ports)
  BY <1>6, <1>7, SeqDef
<1> QED
  BY <1>8 DEF RxPortList, n, first

\* l2fwd_dst_ports holds ports.
LEMMA DstPortType ==
  ASSUME NEW p \in Ports
  PROVE  DstPort(p) \in Ports
BY SwitchAssumption DEF DstPort, Ports

\* A sequence over a set is one over a larger set.
LEMMA SeqInto ==
  ASSUME NEW S, NEW T, S \subseteq T
  PROVE  Seq(S) \subseteq Seq(T)
BY SeqMonotonic

----------------------------------------------------------------------------
\* What the properties ask for follows.
LEMMA IndInvImplies == IndInv => TypeOK /\ NoUseOfClosedPort
<1> SUFFICES ASSUME IndInv PROVE TypeOK /\ NoUseOfClosedPort
  OBVIOUS
<1>1. TypeInv /\ MainInv
  BY DEF IndInv
<1>2. Full \subseteq Mbufs /\ SlotsOf(Full) \subseteq Slots
  BY DEF Full, SlotsOf, Slots
<1>3. Seq(Full) \subseteq Seq(Mbufs) /\ Seq(SlotsOf(Full)) \subseteq Seq(Slots)
  BY <1>2, SeqInto
<1>4. LocalsOf(Full) \subseteq Locals
  BY <1>3 DEF LocalsOf, Locals
<1>5. lc \in [Lcores -> Locals]
  BY <1>1, <1>4 DEF TypeInv, LcType
<1>6. txbuf \in [Ports -> Seq(Slots)] /\ rxq \in [Ports -> Seq(Mbufs)]
  BY <1>1, <1>3 DEF TypeInv, DpdkType
<1>7. TypeOK
  BY <1>1, <1>5, <1>6, PortNumbers
     DEF TypeOK, TypeInv, TableType, DpdkType, CtlType, RestType, MainStates
<1>8. NoUseOfClosedPort
  BY <1>1 DEF NoUseOfClosedPort, MainInv
<1> QED
  BY <1>7, <1>8

\* Before main has set up anything.
LEMMA IndInit == Init => IndInv
<1> SUFFICES ASSUME Init PROVE IndInv
  OBVIOUS
<1>1. 0 \in Ports /\ NbPorts \in Nat
  BY PortNumbers
<1>2. TableType
  BY <1>1 DEF Init, TableType
<1>3. DpdkType
  <2>1. \A S : <<>> \in Seq(S)
    OBVIOUS
  <2> QED
    BY <2>1 DEF Init, DpdkType
<1>4. LcType
  <2>1. \A S : <<>> \in Seq(S)
    OBVIOUS
  <2> DEFINE x == [pc |-> "off", todo |-> <<>>, burst |-> <<>>, m |-> NoMbuf,
              f |-> NoFrame, portid |-> 0, i |-> 0, mac_add |-> FALSE,
              mac_dst_found |-> FALSE, txport |-> 0, out |-> <<>>,
              ret |-> "drain", slot |-> 0]
  <2>2. x \in LocalsOf(Full)
    BY <1>1, <2>1 DEF LocalsOf, LcorePCs
  <2>3. Sane(x, Full)
    BY DEF Sane, Forwarding
  <2>4. lc = [l \in Lcores |-> x]
    BY DEF Init
  <2> HIDE DEF x
  <2> QED
    BY <2>2, <2>3, <2>4 DEF LcType
<1>5. CtlType /\ RestType
  <2>1. main \in MainStates
    BY <1>1 DEF Init, MainStates
  <2>2. portState \in [Ports -> {"down", "started", "closed"}]
    BY DEF Init
  <2>3. force_quit \in BOOLEAN /\ fault = "none" /\ seen = {}
    BY DEF Init
  <2>4. frames \in 0 .. MaxFrames
    BY SwitchAssumption DEF Init
  <2> QED
    BY <2>1, <2>2, <2>3, <2>4 DEF CtlType, RestType
<1>6. MainInv
  <2>1. main.pc = "init" /\ main.port = 0 /\ \A l \in Lcores : lc[l].pc = "off"
    BY DEF Init
  <2> QED
    BY <2>1, PortNumbers DEF MainInv
<1> QED
  BY <1>2, <1>3, <1>4, <1>5, <1>6 DEF IndInv, TypeInv

----------------------------------------------------------------------------
(* main() and the network.                                                 *)

\* A step that leaves the lcores, the mbufs and the table alone keeps types.
LEMMA CtlStepTypes ==
  ASSUME TypeInv, UNCHANGED <<tableVars, dpdkVars, lc>>, CtlType', RestType'
  PROVE  TypeInv'
<1>1. UNCHANGED <<mac_fwd_table, mac_counter, txbuf, pool, frame, rxq, sent, lc>>
  BY DEF tableVars, dpdkVars
<1>2. Full' = Full
  BY <1>1 DEF Full
<1>3. TableType' /\ DpdkType' /\ LcType'
  BY <1>1, <1>2 DEF TypeInv, TableType, DpdkType, LcType
<1> QED
  BY <1>3 DEF TypeInv

\* rte_eal_mp_remote_launch starts every lcore in its loop or finished.
LEMMA LaunchedType ==
  ASSUME TypeInv, \A l \in Lcores : lc[l].pc = "off"
  PROVE  /\ Launched \in [Lcores -> LocalsOf(Full)]
         /\ \A l \in Lcores : Sane(Launched[l], Full)
<1> SUFFICES ASSUME NEW l \in Lcores
             PROVE  Launched[l] \in LocalsOf(Full) /\ Sane(Launched[l], Full)
  BY DEF Launched
<1>1. lc[l] \in LocalsOf(Full)
  BY DEF TypeInv, LcType
<1> DEFINE x == Launched[l]
<1>2. x = [lc[l] EXCEPT !.pc = "done"] \/ x = [lc[l] EXCEPT !.pc = "top"]
  BY DEF Launched
<1> HIDE DEF x
<1>3. x \in LocalsOf(Full) /\ x.pc \in {"done", "top"}
  BY ZenonT(60), <1>1, <1>2 DEF LocalsOf, LcorePCs
<1>4. Sane(x, Full)
  BY <1>3 DEF Sane, Forwarding
<1> QED
  BY <1>3, <1>4 DEF x

\* A step of main.
LEMMA MainStep == IndInv /\ Main => IndInv'
<1> SUFFICES ASSUME IndInv, Main PROVE IndInv'
  OBVIOUS
<1>1. TypeInv /\ MainInv /\ main \in MainStates
  BY DEF IndInv, TypeInv, CtlType
<1>2. CASE InitPort
  <2>1. /\ main.pc = "init" /\ UNCHANGED <<tableVars, dpdkVars, lc>>
        /\ portState' = [portState EXCEPT ![main.port] = "started"]
        /\ UNCHANGED <<force_quit, fault, seen, frames>>
    BY <1>2 DEF InitPort
  <2>2. /\ main.port \in Ports /\ portState \in [Ports -> {"down", "started", "closed"}]
        /\ \A l \in Lcores : lc'[l].pc = "off"
    BY <1>1, <2>1 DEF MainStates, TypeInv, CtlType, MainInv
  <2>3. \A p \in Ports : p <= main.port => portState'[p] = "started"
    BY <1>1, <2>1, <2>2, PortNumbers DEF MainInv
  <2>4. /\ portState' \in [Ports -> {"down", "started", "closed"}]
        /\ RestType'
    BY <1>1, <2>1, <2>2 DEF TypeInv, RestType
  <2>5. CASE main.port + 1 < NbPorts
    <3>1. main' = [main EXCEPT !.port = main.port + 1]
      BY <1>2, <2>5 DEF InitPort
    <3>2. main.port + 1 \in Ports
      BY <2>2, <2>5, PortNumbers
    <3>3. main' \in MainStates /\ main'.pc = "init" /\ main'.port = main.port + 1
      BY <1>1, <2>1, <3>1, <3>2 DEF MainStates
    <3>4. CtlType'
      BY <1>1, <2>1, <2>4, <3>3 DEF TypeInv, CtlType
    <3>5. TypeInv'
      BY <1>1, <2>1, <2>4, <3>4, CtlStepTypes
    <3>6. \A p \in Ports : p < main'.port => portState'[p] = "started"
      BY <2>2, <2>3, <3>3, PortNumbers
    <3>7. MainInv'
      BY <2>2, <3>3, <3>6 DEF MainInv
    <3> QED
      BY <3>5, <3>7 DEF IndInv
  <2>6. CASE ~(main.port + 1 < NbPorts)
    <3>1. main' = [main EXCEPT !.pc = "check", !.port = 0]
      BY <1>2, <2>6 DEF InitPort
    <3>2. main' \in MainStates /\ main'.pc = "check"
      BY <1>1, <3>1, PortNumbers DEF MainStates
    <3>3. CtlType'
      BY <1>1, <2>1, <2>4, <3>2 DEF TypeInv, CtlType
    <3>4. TypeInv'
      BY <1>1, <2>1, <2>4, <3>3, CtlStepTypes
    <3>5. \A p \in Ports : portState'[p] = "started"
      BY <2>2, <2>3, <2>6, PortNumbers
    <3>6. MainInv'
      BY <2>2, <3>2, <3>5 DEF MainInv
    <3> QED
      BY <3>4, <3>6 DEF IndInv
  <2> QED
    BY <2>5, <2>6
<1>3. CASE InitPortFailed \/ WaitLcores
  <2>1. /\ UNCHANGED <<tableVars, dpdkVars, lc>>
        /\ UNCHANGED <<portState, force_quit, fault, seen, frames>>
        /\ main' = [main EXCEPT !.pc = "exit"] \/ main' = [main EXCEPT !.pc = "close"]
    BY <1>3 DEF InitPortFailed, WaitLcores
  <2>2. main' \in MainStates /\ main'.pc \in {"exit", "close"}
    BY <1>1, <2>1 DEF MainStates
  <2>3. CtlType' /\ RestType'
    BY <1>1, <2>1, <2>2 DEF TypeInv, CtlType, RestType
  <2>4. TypeInv'
    BY <1>1, <2>1, <2>3, CtlStepTypes
  <2>5. \A l \in Lcores : lc[l].pc \in {"off", "done"}
    BY <1>1, <1>3 DEF InitPortFailed, WaitLcores, MainInv, LcoresDone
  <2>6. MainInv'
    BY <2>1, <2>2, <2>5 DEF MainInv
  <2> QED
    BY <2>4, <2>6 DEF IndInv
<1>4. ASSUME NEW up \in BOOLEAN, CheckLinks(up) PROVE IndInv'
  <2>1. /\ main.pc = "check"
        /\ UNCHANGED <<tableVars, dpdkVars, portState, force_quit, fault, seen, frames>>
        /\ \A l \in Lcores : lc[l].pc = "off"
        /\ \A p \in Ports : portState'[p] = "started"
    BY <1>1, <1>4 DEF CheckLinks, MainInv
  <2>2. RestType'
    BY <1>1, <2>1 DEF TypeInv, RestType
  <2>3. CASE main' = [main EXCEPT !.pc = "run"] /\ lc' = Launched
    <3>1. main' \in MainStates /\ main'.pc = "run"
      BY <1>1, <2>3 DEF MainStates
    <3>2. CtlType'
      BY <1>1, <2>1, <3>1 DEF TypeInv, CtlType
    <3>3. UNCHANGED <<mac_fwd_table, mac_counter, txbuf, pool, frame, rxq, sent>>
      BY <2>1 DEF tableVars, dpdkVars
    <3>4. Full' = Full
      BY <3>3 DEF Full
    <3>5. LcType'
      BY <1>1, <2>1, <2>3, <3>4, LaunchedType DEF LcType
    <3>6. TableType' /\ DpdkType'
      BY <1>1, <3>3, <3>4 DEF TypeInv, TableType, DpdkType
    <3>7. MainInv'
      BY <2>1, <3>1 DEF MainInv
    <3> QED
      BY <2>2, <3>2, <3>5, <3>6, <3>7 DEF IndInv, TypeInv
  <2>4. CASE /\ main' = [main EXCEPT !.count = main.count + 1,
                                     !.print = up \/ main.count = MaxCheckTime - 1]
             /\ UNCHANGED lc
    <3>1. main' \in MainStates /\ main'.pc = "check"
      <4> DEFINE print == up \/ main.count = MaxCheckTime - 1
      <4>1. main' = [main EXCEPT !.count = main.count + 1, !.print = print]
        BY <2>4
      <4>2. print \in BOOLEAN /\ main.count + 1 \in Nat
        BY <1>1 DEF MainStates
      <4> HIDE DEF print
      <4> QED
        BY <1>1, <2>1, <4>1, <4>2 DEF MainStates
    <3>2. CtlType'
      BY <1>1, <2>1, <3>1 DEF TypeInv, CtlType
    <3>3. TypeInv'
      BY <1>1, <2>1, <2>2, <2>4, <3>2, CtlStepTypes
    <3>4. MainInv'
      BY <2>1, <2>4, <3>1 DEF MainInv
    <3> QED
      BY <3>3, <3>4 DEF IndInv
  <2> QED
    BY <1>4, <2>3, <2>4 DEF CheckLinks
<1>5. CASE ClosePort
  <2>1. /\ main.pc = "close" /\ UNCHANGED <<tableVars, dpdkVars, lc>>
        /\ UNCHANGED <<force_quit, fault, seen, frames>>
        /\ \/ portState' = portState
           \/ portState' = [portState EXCEPT ![main.port] = "closed"]
    BY <1>5 DEF ClosePort
  <2>2. /\ portState' \in [Ports -> {"down", "started", "closed"}]
        /\ RestType'
    BY <1>1, <2>1 DEF TypeInv, CtlType, RestType
  <2>3. main' \in MainStates /\ main'.pc \in {"close", "exit"}
    <3>1. CASE main.port + 1 < NbPorts
      <4>1. main' = [main EXCEPT !.port = main.port + 1]
        BY <1>5, <3>1 DEF ClosePort
      <4>2. main.port + 1 \in Ports
        BY <1>1, <3>1, PortNumbers DEF MainStates
      <4> QED
        BY <1>1, <2>1, <4>1, <4>2 DEF MainStates
    <3>2. CASE ~(main.port + 1 < NbPorts)
      BY <1>1, <1>5, <3>2 DEF ClosePort, MainStates
    <3> QED
      BY <3>1, <3>2
  <2>4. CtlType'
    BY <1>1, <2>1, <2>2, <2>3 DEF TypeInv, CtlType
  <2>5. TypeInv'
    BY <1>1, <2>1, <2>2, <2>4, CtlStepTypes
  <2>6. \A l \in Lcores : lc[l].pc \in {"off", "done"}
    BY <1>1, <2>1 DEF MainInv
  <2>7. MainInv'
    BY <2>1, <2>3, <2>6 DEF MainInv
  <2> QED
    BY <2>5, <2>7 DEF IndInv
<1> QED
  BY <1>2, <1>3, <1>4, <1>5 DEF Main

\* A signal only sets the flag.
LEMMA SignalStep == IndInv /\ Signal => IndInv'
<1> SUFFICES ASSUME IndInv, Signal PROVE IndInv'
  OBVIOUS
<1>1. TypeInv /\ MainInv
  BY DEF IndInv
<1>2. /\ force_quit' = TRUE
      /\ UNCHANGED <<tableVars, dpdkVars, lc, main, portState, fault, seen, frames>>
  BY DEF Signal
<1>3. CtlType' /\ RestType'
  BY <1>1, <1>2 DEF TypeInv, CtlType, RestType
<1>4. TypeInv'
  BY <1>1, <1>2, <1>3, CtlStepTypes
<1>5. MainInv'
  BY <1>1, <1>2 DEF MainInv
<1> QED
  BY <1>4, <1>5 DEF IndInv

\* A frame arrives in an mbuf of the pool.
LEMMA ArriveStep ==
  ASSUME IndInv, NEW p \in Ports, NEW src \in Sources,
         NEW dst \in Destinations, Arrive(p, src, dst)
  PROVE  IndInv'
<1>1. TypeInv /\ MainInv
  BY DEF IndInv
<1> DEFINE new == [no |-> frames + 1, src |-> src, dst |-> dst, port |-> p]
<1>2. PICK mb \in pool :
        /\ pool' = pool \ {mb}
        /\ frame' = [frame EXCEPT ![mb] = new]
        /\ rxq' = [rxq EXCEPT ![p] = Append(rxq[p], mb)]
  BY DEF Arrive
<1>3. /\ frames < MaxFrames /\ frames' = frames + 1
      /\ seen' = seen \cup {<<src, p>>}
      /\ UNCHANGED <<mac_fwd_table, mac_counter, txbuf, sent, lc, main,
                     portState, force_quit, fault>>
  BY DEF Arrive, tableVars, ctlVars
<1>4. new \in Frames
  <2>1. frames \in 0 .. MaxFrames
    BY <1>1 DEF TypeInv, RestType
  <2>2. frames + 1 \in Nat \ {0}
    BY <2>1
  <2> QED
    BY <2>2 DEF Frames
<1> HIDE DEF new
<1>5. mb \in Mbufs /\ frame \in [Mbufs -> Frames \cup {NoFrame}]
  BY <1>1 DEF TypeInv, DpdkType
<1>6. Full \subseteq Full' /\ mb \in Full'
  BY <1>2, <1>4, <1>5 DEF Full
<1>7. SlotsOf(Full) \subseteq SlotsOf(Full')
  BY <1>6 DEF SlotsOf
<1>8. /\ Seq(Full) \subseteq Seq(Full')
      /\ Seq(SlotsOf(Full)) \subseteq Seq(SlotsOf(Full'))
  BY <1>6, <1>7, SeqInto
<1>9. DpdkType'
  <2>1. txbuf' \in [Ports -> Seq(SlotsOf(Full'))]
    BY <1>1, <1>3, <1>8 DEF TypeInv, DpdkType
  <2>2. rxq \in [Ports -> Seq(Full')]
    BY <1>1, <1>8 DEF TypeInv, DpdkType
  <2>3. Append(rxq[p], mb) \in Seq(Full')
    BY <1>6, <2>2, AppendProperties
  <2>4. rxq' \in [Ports -> Seq(Full')]
    BY <1>2, <2>2, <2>3
  <2>5. pool' \subseteq Mbufs /\ frame' \in [Mbufs -> Frames \cup {NoFrame}]
    BY <1>1, <1>2, <1>4, <1>5 DEF TypeInv, DpdkType
  <2> QED
    BY <1>1, <1>3, <2>1, <2>4, <2>5 DEF TypeInv, DpdkType
<1>10. LcType'
  <2>1. LocalsOf(Full) \subseteq LocalsOf(Full')
    BY <1>8 DEF LocalsOf
  <2>2. lc' \in [Lcores -> LocalsOf(Full')]
    BY <1>1, <1>3, <2>1 DEF TypeInv, LcType
  <2>3. \A l \in Lcores : Sane(lc[l], Full')
    BY <1>1, <1>6 DEF TypeInv, LcType, Sane
  <2> QED
    BY <1>3, <2>2, <2>3 DEF LcType
<1>11. TableType' /\ CtlType'
  BY <1>1, <1>3 DEF TypeInv, TableType, CtlType
<1>12. RestType'
  <2>1. frames + 1 \in 0 .. MaxFrames
    <3>1. frames \in 0 .. MaxFrames /\ MaxFrames \in Nat
      BY <1>1, SwitchAssumption DEF TypeInv, RestType
    <3> QED
      BY <1>3, <3>1
  <2>2. seen' \subseteq Sources \X Ports
    <3>1. seen \subseteq Sources \X Ports
      BY <1>1 DEF TypeInv, RestType
    <3> QED
      BY <1>3, <3>1
  <2> QED
    BY <1>1, <1>3, <2>1, <2>2 DEF TypeInv, RestType
<1>13. MainInv'
  BY <1>1, <1>3 DEF MainInv
<1> QED
  BY <1>9, <1>10, <1>11, <1>12, <1>13 DEF IndInv, TypeInv

----------------------------------------------------------------------------
(* The lcores.                                                             *)

\* An lcore changes its own local variables only.
LEMMA OwnLocals ==
  ASSUME TypeInv, NEW l \in Lcores, Lcore(l)
  PROVE  lc' = [lc EXCEPT ![l] = lc'[l]]
<1>1. DOMAIN lc = Lcores
  BY DEF TypeInv, LcType
<1>2. CASE LoopExit(l) \/ LoopDrain(l) \/ LoopPoll(l) \/ DrainDone(l)
  BY <1>1, <1>2 DEF LoopExit, LoopDrain, LoopPoll, DrainDone
<1>3. CASE DrainPort(l) \/ Flush(l) \/ RxBurst(l) \/ RxDone(l)
  BY <1>1, <1>3 DEF DrainPort, Flush, RxBurst, RxDone
<1>4. CASE BurstDone(l) \/ Scan(l) \/ ScanDone(l)
  BY <1>1, <1>4 DEF BurstDone, Scan, ScanDone
<1>7. CASE NextPacket(l)
  BY <1>1, <1>7 DEF NextPacket
<1>5. CASE Flood(l) \/ FloodDone(l) \/ TxRead(l) \/ TxPut(l)
  BY <1>1, <1>5 DEF Flood, FloodDone, TxRead, TxPut
<1>6. CASE LearnCount(l)
  BY <1>1, <1>6 DEF LearnCount
<1>10. CASE LearnPort(l)
  <2>1. CASE lc' = lc
    <3>1. lc = [k \in Lcores |-> lc[k]]
      BY DEF TypeInv, LcType
    <3> QED
      BY <2>1, <3>1
  <2>2. CASE \E k \in {lc[l].slot, mac_counter} :
               lc' = [lc EXCEPT ![l].pc = "count", ![l].slot = k]
    BY <1>1, <2>2
  <2> QED
    BY <1>10, <2>1, <2>2 DEF LearnPort
<1>8. CASE FlushRefused(l) \/ (LearnAddr(l) /\ ~(mac_counter < MacEntries))
  <2>1. lc' = lc /\ lc = [k \in Lcores |-> lc[k]]
    BY <1>1, <1>8 DEF FlushRefused, LearnAddr, TypeInv, LcType
  <2> QED
    BY <2>1
<1>9. CASE LearnAddr(l) /\ mac_counter < MacEntries
  BY <1>1, <1>9 DEF LearnAddr
<1> QED
  BY <1>2, <1>3, <1>4, <1>5, <1>6, <1>7, <1>8, <1>9, <1>10 DEF Lcore

\* What they are after each action.
LEMMA LocalsAfter ==
  ASSUME TypeInv, NEW l \in Lcores
  PROVE  /\ LoopExit(l) => lc'[l] = [lc[l] EXCEPT !.pc = "done"]
         /\ LoopDrain(l) =>
              lc'[l] = [lc[l] EXCEPT !.pc = "drain", !.todo = RxPortList(l)]
         /\ LoopPoll(l) \/ DrainDone(l) =>
              lc'[l] = [lc[l] EXCEPT !.pc = "rx", !.todo = RxPortList(l)]
         /\ DrainPort(l) =>
              LET p == DstPort(Head(lc[l].todo)) IN
              lc'[l] = [lc[l] EXCEPT !.pc = IF txbuf[p] = <<>> THEN "drain" ELSE "flush",
                                     !.todo = Tail(lc[l].todo), !.txport = p,
                                     !.out = txbuf[p], !.ret = "drain"]
         /\ Flush(l) => lc'[l] = [lc[l] EXCEPT !.pc = lc[l].ret, !.out = <<>>]
         /\ FlushRefused(l) => lc'[l] = lc[l]
         /\ RxDone(l) => lc'[l] = [lc[l] EXCEPT !.pc = "top"]
         /\ RxBurst(l) =>
              LET p == Head(lc[l].todo)
                  n == IF Len(rxq[p]) < MaxPktBurst THEN Len(rxq[p]) ELSE MaxPktBurst
              IN  lc'[l] = [lc[l] EXCEPT !.pc = "next", !.todo = Tail(lc[l].todo),
                                         !.portid = p,
                                         !.burst = SubSeq(rxq[p], 1, n)]
         /\ BurstDone(l) =>
              lc'[l] = [lc[l] EXCEPT !.pc = "rx", !.m = NoMbuf, !.f = NoFrame]
         /\ NextPacket(l) =>
              lc'[l] = [lc[l] EXCEPT !.pc = "scan", !.burst = Tail(lc[l].burst),
                                     !.m = Head(lc[l].burst),
                                     !.f = frame[Head(lc[l].burst)],
                                     !.i = 0, !.mac_add = FALSE,
                                     !.mac_dst_found = FALSE]
         /\ Scan(l) =>
              LET e   == mac_fwd_table[lc[l].i]
                  hit == e.addr = lc[l].f.dst
              IN  lc'[l] = [lc[l] EXCEPT !.pc = IF hit THEN "tx" ELSE "scan",
                                         !.i = lc[l].i + 1,
                                         !.mac_add = SrcKnown(l, e),
                                         !.mac_dst_found = lc[l].mac_dst_found \/ hit,
                                         !.txport = IF hit THEN e.port ELSE lc[l].txport,
                                         !.ret = "scan"]
         /\ ScanDone(l) =>
              lc'[l] = [lc[l] EXCEPT !.pc = IF lc[l].mac_dst_found THEN AfterForward(l)
                                            ELSE "flood",
                                     !.i = 0]
         /\ Flood(l) =>
              lc'[l] = [lc[l] EXCEPT !.pc = IF FloodsTo(l, lc[l].i) THEN "tx" ELSE "flood",
                                     !.txport = lc[l].i, !.ret = "flood",
                                     !.i = lc[l].i + 1]
         /\ FloodDone(l) => lc'[l] = [lc[l] EXCEPT !.pc = AfterForward(l)]
         /\ TxRead(l) =>
              lc'[l] = [lc[l] EXCEPT !.pc = "put", !.out = txbuf[lc[l].txport]]
         /\ TxPut(l) =>
              LET new  == Append(lc[l].out, [mb |-> lc[l].m, queued |-> lc[l].f])
                  full == Len(new) >= MaxPktBurst
              IN  lc'[l] = [lc[l] EXCEPT !.pc = IF full THEN "flush" ELSE lc[l].ret,
                                         !.out = IF full THEN new ELSE <<>>]
         /\ LearnAddr(l) =>
              lc'[l] = IF mac_counter < MacEntries
                       THEN [lc[l] EXCEPT !.pc = "port", !.slot = mac_counter]
                       ELSE lc[l]
         /\ LearnPort(l) =>
              \/ lc'[l] = lc[l]
              \/ \E k \in {lc[l].slot, mac_counter} :
                   /\ k < MacEntries
                   /\ lc'[l] = [lc[l] EXCEPT !.pc = "count", !.slot = k]
         /\ LearnCount(l) => lc'[l] = [lc[l] EXCEPT !.pc = "next"]
<1>1. lc \in [Lcores -> LocalsOf(Full)] /\ lc[l] \in LocalsOf(Full)
  BY DEF TypeInv, LcType
<1>2. LoopExit(l) => lc'[l] = [lc[l] EXCEPT !.pc = "done"]
  BY <1>1 DEF LoopExit, LocalsOf
<1>3. LoopDrain(l) =>
         lc'[l] = [lc[l] EXCEPT !.pc = "drain", !.todo = RxPortList(l)]
  BY <1>1 DEF LoopDrain, LocalsOf
<1>4. LoopPoll(l) \/ DrainDone(l) =>
         lc'[l] = [lc[l] EXCEPT !.pc = "rx", !.todo = RxPortList(l)]
  BY <1>1 DEF LoopPoll, DrainDone, LocalsOf
<1>5. DrainPort(l) =>
         LET p == DstPort(Head(lc[l].todo)) IN
         lc'[l] = [lc[l] EXCEPT !.pc = IF txbuf[p] = <<>> THEN "drain" ELSE "flush",
                                !.todo = Tail(lc[l].todo), !.txport = p,
                                !.out = txbuf[p], !.ret = "drain"]
  BY <1>1 DEF DrainPort, LocalsOf
<1>6. Flush(l) => lc'[l] = [lc[l] EXCEPT !.pc = lc[l].ret, !.out = <<>>]
  BY <1>1 DEF Flush, LocalsOf
<1>7. FlushRefused(l) => lc'[l] = lc[l]
  BY <1>1 DEF FlushRefused, LocalsOf
<1>8. RxDone(l) => lc'[l] = [lc[l] EXCEPT !.pc = "top"]
  BY <1>1 DEF RxDone, LocalsOf
<1>9. RxBurst(l) =>
         LET p == Head(lc[l].todo)
             n == IF Len(rxq[p]) < MaxPktBurst THEN Len(rxq[p]) ELSE MaxPktBurst
         IN  lc'[l] = [lc[l] EXCEPT !.pc = "next", !.todo = Tail(lc[l].todo),
                                    !.portid = p,
                                    !.burst = SubSeq(rxq[p], 1, n)]
  BY <1>1 DEF RxBurst, LocalsOf
<1>10. BurstDone(l) =>
         lc'[l] = [lc[l] EXCEPT !.pc = "rx", !.m = NoMbuf, !.f = NoFrame]
  BY <1>1 DEF BurstDone, LocalsOf
<1>11. NextPacket(l) =>
         lc'[l] = [lc[l] EXCEPT !.pc = "scan", !.burst = Tail(lc[l].burst),
                                !.m = Head(lc[l].burst),
                                !.f = frame[Head(lc[l].burst)],
                                !.i = 0, !.mac_add = FALSE,
                                !.mac_dst_found = FALSE]
  BY <1>1 DEF NextPacket, LocalsOf
<1>12. Scan(l) =>
         LET e   == mac_fwd_table[lc[l].i]
             hit == e.addr = lc[l].f.dst
         IN  lc'[l] = [lc[l] EXCEPT !.pc = IF hit THEN "tx" ELSE "scan",
                                    !.i = lc[l].i + 1,
                                    !.mac_add = SrcKnown(l, e),
                                    !.mac_dst_found = lc[l].mac_dst_found \/ hit,
                                    !.txport = IF hit THEN e.port ELSE lc[l].txport,
                                    !.ret = "scan"]
  BY <1>1 DEF Scan, LocalsOf
<1>13. ScanDone(l) =>
         lc'[l] = [lc[l] EXCEPT !.pc = IF lc[l].mac_dst_found THEN AfterForward(l)
                                       ELSE "flood",
                                !.i = 0]
  BY <1>1 DEF ScanDone, LocalsOf
<1>14. Flood(l) =>
         lc'[l] = [lc[l] EXCEPT !.pc = IF FloodsTo(l, lc[l].i) THEN "tx" ELSE "flood",
                                !.txport = lc[l].i, !.ret = "flood",
                                !.i = lc[l].i + 1]
  BY <1>1 DEF Flood, LocalsOf
<1>15. FloodDone(l) => lc'[l] = [lc[l] EXCEPT !.pc = AfterForward(l)]
  BY <1>1 DEF FloodDone, LocalsOf
<1>16. TxRead(l) =>
         lc'[l] = [lc[l] EXCEPT !.pc = "put", !.out = txbuf[lc[l].txport]]
  BY <1>1 DEF TxRead, LocalsOf
<1>17. TxPut(l) =>
         LET new  == Append(lc[l].out, [mb |-> lc[l].m, queued |-> lc[l].f])
             full == Len(new) >= MaxPktBurst
         IN  lc'[l] = [lc[l] EXCEPT !.pc = IF full THEN "flush" ELSE lc[l].ret,
                                    !.out = IF full THEN new ELSE <<>>]
  BY <1>1 DEF TxPut, LocalsOf
<1>18. LearnAddr(l) =>
         lc'[l] = IF mac_counter < MacEntries
                  THEN [lc[l] EXCEPT !.pc = "port", !.slot = mac_counter]
                  ELSE lc[l]
  BY <1>1 DEF LearnAddr, LocalsOf
<1>19. LearnPort(l) =>
              \/ lc'[l] = lc[l]
              \/ \E k \in {lc[l].slot, mac_counter} :
                   /\ k < MacEntries
                   /\ lc'[l] = [lc[l] EXCEPT !.pc = "count", !.slot = k]
  BY <1>1 DEF LearnPort, LocalsOf
<1>20. LearnCount(l) => lc'[l] = [lc[l] EXCEPT !.pc = "next"]
  BY <1>1 DEF LearnCount, LocalsOf
<1> QED
  BY <1>2, <1>3, <1>4, <1>5, <1>6, <1>7, <1>8, <1>9, <1>10, <1>11, <1>12, <1>13, <1>14, <1>15, <1>16, <1>17, <1>18, <1>19, <1>20

\* The first n elements of a queue, and the rest of it.
LEMMA TakeType ==
  ASSUME NEW S, NEW q \in Seq(S)
  PROVE  LET n == IF Len(q) < MaxPktBurst THEN Len(q) ELSE MaxPktBurst
         IN  /\ n \in 0 .. Len(q)
             /\ SubSeq(q, 1, n) \in Seq(S) /\ Len(SubSeq(q, 1, n)) = n
             /\ \A k \in 1 .. n : SubSeq(q, 1, n)[k] = q[k]
             /\ SubSeq(q, n + 1, Len(q)) \in Seq(S)
             /\ Len(SubSeq(q, n + 1, Len(q))) = Len(q) - n
             /\ \A k \in 1 .. Len(q) - n : SubSeq(q, n + 1, Len(q))[k] = q[n + k]
<1> DEFINE n == IF Len(q) < MaxPktBurst THEN Len(q) ELSE MaxPktBurst
<1>1. Len(q) \in Nat /\ n \in 0 .. Len(q)
  BY SwitchAssumption, LenProperties
<1> HIDE DEF n
<1>2. /\ SubSeq(q, 1, n) \in Seq(S) /\ Len(SubSeq(q, 1, n)) = n
      /\ \A k \in 1 .. n : SubSeq(q, 1, n)[k] = q[k]
  <2>1. \A k \in 1 .. n : q[k] \in S
    BY <1>1, ElementOfSeq
  <2> QED
    BY <1>1, <2>1, SubSeqProperties
<1>3. /\ SubSeq(q, n + 1, Len(q)) \in Seq(S)
      /\ Len(SubSeq(q, n + 1, Len(q))) = Len(q) - n
      /\ \A k \in 1 .. Len(q) - n : SubSeq(q, n + 1, Len(q))[k] = q[n + k]
  <2>1. \A k \in n + 1 .. Len(q) : q[k] \in S
    BY <1>1, ElementOfSeq
  <2> QED
    BY <1>1, <2>1, SubSeqProperties
<1> QED
  BY <1>1, <1>2, <1>3 DEF n

\* A TX buffer with one more frame.
LEMMA PutType ==
  ASSUME NEW F, NEW q \in Seq(SlotsOf(F)), NEW m \in F, NEW f \in Frames
  PROVE  /\ Append(q, [mb |-> m, queued |-> f]) \in Seq(SlotsOf(F))
         /\ Len(Append(q, [mb |-> m, queued |-> f])) = Len(q) + 1
         /\ \A k \in 1 .. Len(q) : Append(q, [mb |-> m, queued |-> f])[k] = q[k]
         /\ Append(q, [mb |-> m, queued |-> f])[Len(q) + 1] = [mb |-> m, queued |-> f]
<1>1. [mb |-> m, queued |-> f] \in SlotsOf(F)
  BY DEF SlotsOf
<1> QED
  BY <1>1, AppendProperties

\* They keep their types, and what Sane says of them.
LEMMA LocalsKept ==
  ASSUME TypeInv, NEW l \in Lcores, Lcore(l)
  PROVE  lc'[l] \in LocalsOf(Full) /\ Sane(lc'[l], Full)
<1> DEFINE y == lc[l]
           x == lc'[l]
<1>1. y \in LocalsOf(Full) /\ Sane(y, Full)
  BY DEF TypeInv, LcType
<1>2. RxPortList(l) \in Seq(Ports)
  BY RxPortListType
<1>3. \A S : <<>> \in Seq(S)
  OBVIOUS
<1>4. /\ txbuf \in [Ports -> Seq(SlotsOf(Full))] /\ rxq \in [Ports -> Seq(Full)]
      /\ y.todo \in Seq(Ports) /\ y.burst \in Seq(Full)
  BY <1>1 DEF TypeInv, DpdkType, LocalsOf
<1>5. CASE LoopExit(l) \/ RxDone(l) \/ LearnCount(l)
  <2>1. \E pc \in {"done", "top", "next"} : x = [y EXCEPT !.pc = pc]
    BY <1>5, LocalsAfter
  <2>2. x \in LocalsOf(Full) /\ x.pc \in {"done", "top", "next"}
    BY ZenonT(60), <1>1, <2>1 DEF LocalsOf, LcorePCs
  <2> QED
    BY <2>2 DEF Sane, Forwarding
<1>6. CASE LoopDrain(l) \/ LoopPoll(l) \/ DrainDone(l)
  <2>1. \E pc \in {"drain", "rx"} : x = [y EXCEPT !.pc = pc, !.todo = RxPortList(l)]
    BY <1>6, LocalsAfter
  <2>2. x \in LocalsOf(Full) /\ x.pc \in {"drain", "rx"}
    BY ZenonT(60), <1>1, <1>2, <2>1 DEF LocalsOf, LcorePCs
  <2> QED
    BY <2>2 DEF Sane, Forwarding
<1>7. CASE DrainPort(l)
  <2> DEFINE p == DstPort(Head(y.todo))
             pc == IF txbuf[p] = <<>> THEN "drain" ELSE "flush"
             out == txbuf[p]
             todo == Tail(y.todo)
  <2>1. x = [y EXCEPT !.pc = pc, !.todo = todo, !.txport = p, !.out = out,
                      !.ret = "drain"]
    BY <1>7, LocalsAfter
  <2>2. Head(y.todo) \in Ports /\ todo \in Seq(Ports)
    BY <1>4, <1>7, HeadTailProperties DEF DrainPort
  <2>3. p \in Ports /\ out \in Seq(SlotsOf(Full)) /\ pc \in {"drain", "flush"}
    BY <1>4, <2>2, DstPortType
  <2> HIDE DEF p, pc, out, todo, x, y
  <2>4. x \in LocalsOf(Full) /\ x.pc \in {"drain", "flush"} /\ x.ret = "drain"
    BY <1>1, <2>1, <2>2, <2>3 DEF LocalsOf, LcorePCs
  <2> QED
    BY <2>4 DEF Sane, Forwarding, x
<1>8. CASE Flush(l)
  <2>1. x = [y EXCEPT !.pc = y.ret, !.out = <<>>] /\ y.pc = "flush"
    BY <1>8, LocalsAfter DEF Flush
  <2>2. y.ret \in {"drain", "scan", "flood"}
    BY <1>1 DEF LocalsOf
  <2> HIDE DEF x, y
  <2>3. /\ x \in LocalsOf(Full) /\ x.pc = y.ret /\ x.ret = y.ret
        /\ x.m = y.m /\ x.f = y.f
    <3> DEFINE pc == y.ret
    <3>1. pc \in LcorePCs
      BY <2>2 DEF LcorePCs
    <3>2. x = [y EXCEPT !.pc = pc, !.out = <<>>]
      BY <2>1
    <3> HIDE DEF pc
    <3>3. x \in LocalsOf(Full) /\ x.pc = pc /\ x.ret = y.ret /\ x.m = y.m /\ x.f = y.f
      BY <1>1, <1>3, <3>1, <3>2 DEF LocalsOf
    <3> QED
      BY <3>3 DEF pc
  <2> QED
    BY <1>1, <2>1, <2>2, <2>3 DEF Sane, Forwarding, x, y
<1>9. CASE FlushRefused(l)
  BY <1>1, <1>9, LocalsAfter
<1>10. CASE RxBurst(l)
  <2> DEFINE p == Head(y.todo)
             n == IF Len(rxq[p]) < MaxPktBurst THEN Len(rxq[p]) ELSE MaxPktBurst
  <2>1. x = [y EXCEPT !.pc = "next", !.todo = Tail(y.todo), !.portid = p,
                      !.burst = SubSeq(rxq[p], 1, n)]
    BY <1>10, LocalsAfter
  <2>2. p \in Ports /\ Tail(y.todo) \in Seq(Ports)
    BY <1>4, <1>10, HeadTailProperties DEF RxBurst
  <2>3. SubSeq(rxq[p], 1, n) \in Seq(Full)
    BY <1>4, <2>2, TakeType
  <2> HIDE DEF p, n
  <2>4. x \in LocalsOf(Full) /\ x.pc = "next"
    BY ZenonT(60), <1>1, <2>1, <2>2, <2>3 DEF LocalsOf, LcorePCs
  <2> QED
    BY <2>4 DEF Sane, Forwarding
<1>11. CASE BurstDone(l)
  <2>1. x = [y EXCEPT !.pc = "rx", !.m = NoMbuf, !.f = NoFrame]
    BY <1>11, LocalsAfter
  <2>2. x \in LocalsOf(Full) /\ x.pc = "rx"
    BY <1>1, <2>1 DEF LocalsOf, LcorePCs
  <2> QED
    BY <2>2 DEF Sane, Forwarding
<1>12. CASE NextPacket(l)
  <2> DEFINE h == Head(y.burst)
  <2>1. x = [y EXCEPT !.pc = "scan", !.burst = Tail(y.burst), !.m = h,
                      !.f = frame[h], !.i = 0, !.mac_add = FALSE,
                      !.mac_dst_found = FALSE]
    BY <1>12, LocalsAfter
  <2>2. h \in Full /\ Tail(y.burst) \in Seq(Full)
    BY <1>4, <1>12, HeadTailProperties DEF NextPacket
  <2> HIDE DEF h
  <2>3. h \in Mbufs /\ frame[h] \in Frames
    BY <2>2 DEF Full
  <2>4. x \in LocalsOf(Full) /\ x.pc = "scan" /\ x.m = h /\ x.f = frame[h]
    <3> DEFINE t == Tail(y.burst)
               f == frame[h]
    <3>1. /\ x = [y EXCEPT !.pc = "scan", !.burst = t, !.m = h, !.f = f, !.i = 0,
                           !.mac_add = FALSE, !.mac_dst_found = FALSE]
          /\ t \in Seq(Full) /\ f \in Frames
      BY <2>1, <2>2, <2>3
    <3> HIDE DEF t, f, x, y
    <3>2. x \in LocalsOf(Full) /\ x.pc = "scan" /\ x.m = h /\ x.f = f
      BY <1>1, <2>3, <3>1 DEF LocalsOf, LcorePCs
    <3> QED
      BY <3>2 DEF f
  <2> QED
    BY <2>2, <2>3, <2>4 DEF Sane, Forwarding
<1>13. CASE Scan(l)
  <2> DEFINE e == mac_fwd_table[y.i]
             hit == e.addr = y.f.dst
             add == SrcKnown(l, e)
             found == y.mac_dst_found \/ hit
             port == IF hit THEN e.port ELSE y.txport
             pc == IF hit THEN "tx" ELSE "scan"
  <2>1. /\ x = [y EXCEPT !.pc = pc, !.i = y.i + 1, !.mac_add = add,
                         !.mac_dst_found = found, !.txport = port, !.ret = "scan"]
        /\ y.pc = "scan" /\ y.i < MacEntries
    BY <1>13, LocalsAfter DEF Scan
  <2>2. e.port \in Ports
    <3>1. y.i \in 0 .. MacEntries - 1
      BY SMTT(30), <1>1, <2>1, SwitchAssumption DEF LocalsOf
    <3> QED
      BY <3>1 DEF TypeInv, TableType
  <2>3. /\ add \in BOOLEAN /\ found \in BOOLEAN /\ port \in Ports
        /\ pc \in {"tx", "scan"} /\ y.i + 1 \in Nat
    BY <1>1, <2>2 DEF SrcKnown, LocalsOf
  <2> HIDE DEF add, found, port, pc
  <2>4. /\ x \in LocalsOf(Full) /\ x.pc \in {"tx", "scan"} /\ x.ret = "scan"
        /\ x.m = y.m /\ x.f = y.f
    BY ZenonT(60), <1>1, <2>1, <2>3 DEF LocalsOf, LcorePCs
  <2> QED
    BY <1>1, <2>1, <2>4 DEF Sane, Forwarding
<1>14. CASE ScanDone(l)
  <2> DEFINE pc == IF y.mac_dst_found THEN AfterForward(l) ELSE "flood"
  <2>1. x = [y EXCEPT !.pc = pc, !.i = 0] /\ y.pc = "scan"
    BY <1>14, LocalsAfter DEF ScanDone
  <2>3. pc \in {"next", "addr", "flood"}
    BY DEF AfterForward
  <2> HIDE DEF pc, x, y
  <2>2. /\ x \in LocalsOf(Full) /\ x.pc \in {"next", "addr", "flood"}
        /\ x.m = y.m /\ x.f = y.f
    BY <1>1, <2>1, <2>3 DEF LocalsOf, LcorePCs
  <2> QED
    BY <1>1, <2>1, <2>2 DEF Sane, Forwarding, x
<1>15. CASE Flood(l)
  <2> DEFINE pc == IF FloodsTo(l, y.i) THEN "tx" ELSE "flood"
  <2>1. /\ x = [y EXCEPT !.pc = pc, !.txport = y.i, !.ret = "flood", !.i = y.i + 1]
        /\ y.pc = "flood" /\ y.i < NbPorts
    BY <1>15, LocalsAfter DEF Flood
  <2>2. y.i \in Ports /\ y.i + 1 \in Nat
    BY <1>1, <2>1, PortNumbers DEF LocalsOf
  <2>4. pc \in {"tx", "flood"}
    OBVIOUS
  <2> HIDE DEF pc
  <2>3. /\ x \in LocalsOf(Full) /\ x.pc \in {"tx", "flood"} /\ x.ret = "flood"
        /\ x.m = y.m /\ x.f = y.f
    BY ZenonT(60), <1>1, <2>1, <2>2, <2>4 DEF LocalsOf, LcorePCs
  <2> QED
    BY <1>1, <2>1, <2>3 DEF Sane, Forwarding
<1>16. CASE FloodDone(l)
  <2>1. /\ \E pc \in {"next", "addr"} : x = [y EXCEPT !.pc = pc]
        /\ y.pc = "flood"
    BY ZenonT(60), <1>16, LocalsAfter DEF FloodDone, AfterForward
  <2>2. /\ x \in LocalsOf(Full) /\ x.pc \in {"next", "addr"}
        /\ x.m = y.m /\ x.f = y.f
    BY <1>1, <2>1 DEF LocalsOf, LcorePCs
  <2> QED
    BY <1>1, <2>1, <2>2 DEF Sane, Forwarding
<1>17. CASE TxRead(l)
  <2>1. x = [y EXCEPT !.pc = "put", !.out = txbuf[y.txport]] /\ y.pc = "tx"
    BY <1>17, LocalsAfter DEF TxRead
  <2>2. txbuf[y.txport] \in Seq(SlotsOf(Full))
    BY <1>1, <1>4 DEF LocalsOf
  <2>3. /\ x \in LocalsOf(Full) /\ x.pc = "put" /\ x.ret = y.ret
        /\ x.m = y.m /\ x.f = y.f
    BY <1>1, <2>1, <2>2 DEF LocalsOf, LcorePCs
  <2> QED
    BY <1>1, <2>1, <2>3 DEF Sane, Forwarding
<1>18. CASE TxPut(l)
  <2> DEFINE new == Append(y.out, [mb |-> y.m, queued |-> y.f])
             pc  == IF Len(new) >= MaxPktBurst THEN "flush" ELSE y.ret
             out == IF Len(new) >= MaxPktBurst THEN new ELSE <<>>
  <2>1. x = [y EXCEPT !.pc = pc, !.out = out] /\ y.pc = "put"
    BY <1>18, LocalsAfter DEF TxPut
  <2>2. y.ret \in {"scan", "flood"} /\ y.m \in Full /\ y.f \in Frames
    BY <1>1, <2>1 DEF Sane, Forwarding, LocalsOf
  <2>3. new \in Seq(SlotsOf(Full))
    BY <1>1, <2>2, PutType DEF LocalsOf
  <2>4. out \in Seq(SlotsOf(Full)) /\ pc \in {"flush", "scan", "flood"}
    BY <1>3, <2>2, <2>3
  <2> HIDE DEF out, pc
  <2>5. /\ x \in LocalsOf(Full) /\ x.pc \in {"flush", "scan", "flood"}
        /\ x.m = y.m /\ x.f = y.f
    BY ZenonT(60), <1>1, <2>1, <2>4 DEF LocalsOf, LcorePCs
  <2> QED
    BY <2>2, <2>5 DEF Sane, Forwarding
<1>19. CASE LearnAddr(l)
  <2>1. CASE ~(mac_counter < MacEntries)
    BY <1>1, <1>19, <2>1, LocalsAfter
  <2>2. CASE mac_counter < MacEntries
    <3>1. x = [y EXCEPT !.pc = "port", !.slot = mac_counter] /\ y.pc = "addr"
      BY <1>19, <2>2, LocalsAfter DEF LearnAddr
    <3>2. mac_counter \in Nat
      BY DEF TypeInv, TableType
    <3>3. /\ x \in LocalsOf(Full) /\ x.pc = "port" /\ x.slot = mac_counter
          /\ x.m = y.m /\ x.f = y.f
      BY <1>1, <3>1, <3>2 DEF LocalsOf, LcorePCs
    <3> QED
      BY <1>1, <2>2, <3>1, <3>3 DEF Sane, Forwarding
  <2> QED
    BY <2>1, <2>2
<1>20. CASE LearnPort(l)
  <2>1. CASE x = y
    BY <1>1, <2>1
  <2>2. ASSUME NEW k \in {y.slot, mac_counter}, k < MacEntries,
               x = [y EXCEPT !.pc = "count", !.slot = k]
        PROVE  x \in LocalsOf(Full) /\ Sane(x, Full)
    <3>1. k \in Nat /\ y.pc = "port"
      BY <1>1, <1>20 DEF TypeInv, TableType, LocalsOf, LearnPort
    <3>2. /\ x \in LocalsOf(Full) /\ x.pc = "count" /\ x.m = y.m /\ x.f = y.f
          /\ x.slot = k
      BY <1>1, <2>2, <3>1 DEF LocalsOf, LcorePCs
    <3> QED
      BY <1>1, <2>2, <3>1, <3>2 DEF Sane, Forwarding
  <2>3. \/ x = y
        \/ \E k \in {y.slot, mac_counter} :
             k < MacEntries /\ x = [y EXCEPT !.pc = "count", !.slot = k]
    BY <1>20, LocalsAfter
  <2>4. CASE x # y
    <3>1. PICK k \in {y.slot, mac_counter} :
            k < MacEntries /\ x = [y EXCEPT !.pc = "count", !.slot = k]
      BY <2>3, <2>4
    <3> QED
      BY <2>2, <3>1
  <2> QED
    BY <2>1, <2>4
<1> QED
  BY <1>5, <1>6, <1>7, <1>8, <1>9, <1>10, <1>11, <1>12, <1>13, <1>14, <1>15, <1>16,
     <1>17, <1>18, <1>19, <1>20 DEF Lcore

\* The buffers, the pool and the table keep theirs.
LEMMA SharedKept ==
  ASSUME TypeInv, NEW l \in Lcores, Lcore(l)
  PROVE  TableType' /\ DpdkType' /\ CtlType' /\ RestType' /\ frame' = frame
<1> DEFINE y == lc[l]
<1>1. y \in LocalsOf(Full) /\ Sane(y, Full)
  BY DEF TypeInv, LcType
<1>2. /\ y.txport \in Ports /\ y.portid \in Ports /\ y.slot \in Nat
      /\ y.out \in Seq(SlotsOf(Full)) /\ y.todo \in Seq(Ports)
  BY <1>1 DEF LocalsOf
<1>3. /\ txbuf \in [Ports -> Seq(SlotsOf(Full))] /\ rxq \in [Ports -> Seq(Full)]
      /\ pool \subseteq Mbufs /\ frame \in [Mbufs -> Frames \cup {NoFrame}]
      /\ sent \subseteq [port : Ports, queued : Frames, wire : Frames]
  BY DEF TypeInv, DpdkType
<1>4. /\ mac_fwd_table \in [0 .. MacEntries - 1 ->
                              [addr : Sources \cup {Zero}, port : Ports]]
      /\ mac_counter \in Nat
  BY DEF TypeInv, TableType
<1>5. CASE Flush(l)
  <2>1. /\ \A s \in sent' : s \in sent \/ \E k \in DOMAIN y.out :
             s = [port |-> y.txport, queued |-> y.out[k].queued,
                  wire |-> frame[y.out[k].mb]]
        /\ \A b \in pool' : b \in pool \/ \E k \in DOMAIN y.out : b = y.out[k].mb
        /\ txbuf' = [txbuf EXCEPT ![y.txport] = <<>>]
        /\ UNCHANGED <<tableVars, frame, rxq, ctlVars, fault, seen, frames>>
    BY <1>5 DEF Flush
  <2>2. DOMAIN y.out = 1 .. Len(y.out)
    BY <1>2, LenProperties
  <2>3. \A k \in DOMAIN y.out : y.out[k] \in SlotsOf(Full)
    BY <1>2, <2>2, ElementOfSeq
  <2>4. \A k \in DOMAIN y.out :
          /\ y.out[k].mb \in Mbufs /\ frame[y.out[k].mb] \in Frames
          /\ y.out[k].queued \in Frames
    BY <2>3 DEF SlotsOf, Full
  <2>5. sent' \subseteq [port : Ports, queued : Frames, wire : Frames]
    <3> SUFFICES ASSUME NEW s \in sent'
                 PROVE  s \in [port : Ports, queued : Frames, wire : Frames]
      OBVIOUS
    <3>1. CASE s \in sent
      BY <1>3, <3>1
    <3>2. ASSUME NEW k \in DOMAIN y.out,
                 s = [port |-> y.txport, queued |-> y.out[k].queued,
                      wire |-> frame[y.out[k].mb]]
          PROVE  s \in [port : Ports, queued : Frames, wire : Frames]
      BY <1>2, <2>4, <3>2
    <3> QED
      BY <2>1, <3>1, <3>2
  <2>6. pool' \subseteq Mbufs
    BY <1>3, <2>1, <2>4
  <2>7. Full' = Full
    BY <2>1 DEF Full
  <2>8. <<>> \in Seq(SlotsOf(Full))
    OBVIOUS
  <2>9. txbuf' \in [Ports -> Seq(SlotsOf(Full))]
    BY <1>2, <1>3, <2>1, <2>8
  <2>10. DpdkType'
    BY <1>3, <2>1, <2>5, <2>6, <2>7, <2>9 DEF DpdkType
  <2> QED
    BY <2>1, <2>10 DEF TypeInv, TableType, CtlType, RestType, tableVars, ctlVars
<1>6. CASE TxPut(l)
  <2> DEFINE new == Append(y.out, [mb |-> y.m, queued |-> y.f])
  <2>1. /\ txbuf' = [txbuf EXCEPT ![y.txport] = new] /\ y.pc = "put"
        /\ UNCHANGED <<tableVars, pool, frame, rxq, sent, ctlVars, fault, seen, frames>>
    BY <1>6 DEF TxPut
  <2>2. y.m \in Full /\ y.f \in Frames
    BY <1>1, <2>1 DEF Sane, Forwarding
  <2>3. new \in Seq(SlotsOf(Full))
    BY <1>2, <2>2, PutType
  <2> HIDE DEF new
  <2>4. Full' = Full
    BY <2>1 DEF Full
  <2>5. txbuf' \in [Ports -> Seq(SlotsOf(Full))]
    BY <1>2, <1>3, <2>1, <2>3
  <2>6. DpdkType'
    BY <1>3, <2>1, <2>4, <2>5 DEF DpdkType
  <2> QED
    BY <2>1, <2>6 DEF TypeInv, TableType, CtlType, RestType, tableVars, ctlVars
<1>7. CASE RxBurst(l)
  <2> DEFINE p == Head(y.todo)
             n == IF Len(rxq[p]) < MaxPktBurst THEN Len(rxq[p]) ELSE MaxPktBurst
             rest == SubSeq(rxq[p], n + 1, Len(rxq[p]))
  <2>1. /\ rxq' = [rxq EXCEPT ![p] = rest] /\ y.todo # <<>>
        /\ UNCHANGED <<tableVars, txbuf, pool, frame, sent, ctlVars, fault, seen,
                       frames>>
    BY <1>7 DEF RxBurst
  <2>2. p \in Ports
    BY <1>2, <2>1, HeadTailProperties
  <2>3. rest \in Seq(Full)
    BY <1>3, <2>2, TakeType
  <2> HIDE DEF p, n, rest
  <2>4. Full' = Full
    BY <2>1 DEF Full
  <2>5. rxq' \in [Ports -> Seq(Full)]
    BY <1>3, <2>1, <2>2, <2>3
  <2>6. DpdkType'
    BY <1>3, <2>1, <2>4, <2>5 DEF DpdkType
  <2> QED
    BY <2>1, <2>6 DEF TypeInv, TableType, CtlType, RestType, tableVars, ctlVars
<1>8. ASSUME UNCHANGED <<dpdkVars, ctlVars, seen, frames>>, TableType',
             fault' \in {"none", "table overrun", "error callback"}
      PROVE  TableType' /\ DpdkType' /\ CtlType' /\ RestType' /\ frame' = frame
  <2>1. Full' = Full
    BY <1>8 DEF Full, dpdkVars
  <2>2. DpdkType' /\ frame' = frame
    BY <1>3, <1>8, <2>1 DEF DpdkType, dpdkVars
  <2> QED
    BY <1>8, <2>2 DEF TypeInv, CtlType, RestType, ctlVars
<1>9. CASE LearnAddr(l)
  <2>1. /\ UNCHANGED <<mac_counter, dpdkVars, ctlVars, seen, frames>> /\ y.pc = "addr"
        /\ \/ /\ mac_counter < MacEntries /\ fault' = fault
              /\ mac_fwd_table' = [mac_fwd_table EXCEPT ![mac_counter].addr = y.f.src]
           \/ fault' = "table overrun" /\ mac_fwd_table' = mac_fwd_table
    BY <1>9 DEF LearnAddr
  <2>2. y.f.src \in Sources
    BY <1>1, <2>1 DEF Sane, Forwarding, Frames
  <2>3. TableType'
    BY <1>4, <2>1, <2>2 DEF TableType
  <2> QED
    BY <1>8, <2>1, <2>3 DEF TypeInv, RestType
<1>10. CASE LearnPort(l)
  <2>1. /\ UNCHANGED <<mac_counter, dpdkVars, ctlVars, seen, frames>>
        /\ \/ /\ fault' = fault
              /\ \E k \in {y.slot, mac_counter} :
                   mac_fwd_table' = [mac_fwd_table EXCEPT ![k].port = y.portid]
           \/ fault' = "table overrun" /\ mac_fwd_table' = mac_fwd_table
    BY <1>10 DEF LearnPort
  <2>2. TableType'
    BY <1>2, <1>4, <2>1 DEF TableType
  <2> QED
    BY <1>8, <2>1, <2>2 DEF TypeInv, RestType
<1>11. CASE LearnCount(l)
  <2>1. /\ UNCHANGED <<mac_fwd_table, dpdkVars, ctlVars, fault, seen, frames>>
        /\ mac_counter' \in {y.slot + 1, mac_counter + 1}
    BY <1>11 DEF LearnCount
  <2>2. TableType'
    BY <1>2, <1>4, <2>1 DEF TableType
  <2> QED
    BY <1>8, <2>1, <2>2 DEF TypeInv, RestType
<1>12. CASE FlushRefused(l)
  BY <1>8, <1>12 DEF FlushRefused, TypeInv, TableType, tableVars
<1>13. CASE UNCHANGED <<tableVars, dpdkVars, ctlVars, fault, seen, frames>>
  BY <1>8, <1>13 DEF TypeInv, TableType, RestType, tableVars
<1>14. CASE LoopExit(l) \/ LoopDrain(l) \/ LoopPoll(l) \/ DrainDone(l) \/ DrainPort(l)
            \/ RxDone(l) \/ BurstDone(l) \/ NextPacket(l)
  BY <1>13, <1>14 DEF LoopExit, LoopDrain, LoopPoll, DrainDone, DrainPort, RxDone,
                      BurstDone, NextPacket
<1>15. CASE Scan(l) \/ ScanDone(l) \/ Flood(l) \/ FloodDone(l) \/ TxRead(l)
  BY <1>13, <1>15 DEF Scan, ScanDone, Flood, FloodDone, TxRead
<1> QED
  BY <1>5, <1>6, <1>7, <1>9, <1>10, <1>11, <1>12, <1>14, <1>15 DEF Lcore

\* A step of an lcore.
LEMMA LcoreStep ==
  ASSUME IndInv, NEW l \in Lcores, Lcore(l)
  PROVE  IndInv'
<1>1. TypeInv /\ MainInv /\ lc \in [Lcores -> LocalsOf(Full)]
  BY DEF IndInv, TypeInv, LcType
<1>2. TableType' /\ DpdkType' /\ CtlType' /\ RestType' /\ frame' = frame
  BY <1>1, SharedKept
<1>3. Full' = Full
  BY <1>2 DEF Full
<1>4. lc' = [lc EXCEPT ![l] = lc'[l]]
  BY <1>1, OwnLocals
<1>5. lc'[l] \in LocalsOf(Full) /\ Sane(lc'[l], Full)
  BY <1>1, LocalsKept
<1>6. /\ lc' \in [Lcores -> LocalsOf(Full)]
      /\ \A k \in Lcores : k # l => lc'[k] = lc[k]
  BY <1>1, <1>4, <1>5
<1>7. LcType'
  BY <1>1, <1>3, <1>5, <1>6 DEF TypeInv, LcType
<1>8. /\ UNCHANGED <<main, portState>>
      /\ lc[l].pc \notin {"off", "done"}
  <2>1. CASE LoopExit(l) \/ LoopDrain(l) \/ LoopPoll(l) \/ DrainDone(l) \/ DrainPort(l)
             \/ RxDone(l) \/ BurstDone(l) \/ NextPacket(l) \/ RxBurst(l) \/ Flush(l)
             \/ FlushRefused(l)
    BY <2>1 DEF LoopExit, LoopDrain, LoopPoll, DrainDone, DrainPort, RxDone,
                BurstDone, NextPacket, RxBurst, Flush, FlushRefused, ctlVars
  <2>2. CASE Scan(l) \/ ScanDone(l) \/ Flood(l) \/ FloodDone(l) \/ TxRead(l)
             \/ TxPut(l) \/ LearnAddr(l) \/ LearnPort(l) \/ LearnCount(l)
    BY <2>2 DEF Scan, ScanDone, Flood, FloodDone, TxRead, TxPut, LearnAddr, LearnPort,
                LearnCount, ctlVars
  <2> QED
    BY <2>1, <2>2 DEF Lcore
<1>9. main.pc = "run"
  BY <1>1, <1>8 DEF MainInv, TypeInv, CtlType, MainStates
<1>10. MainInv'
  BY <1>1, <1>8, <1>9 DEF MainInv
<1> QED
  BY <1>2, <1>7, <1>10 DEF IndInv, TypeInv

----------------------------------------------------------------------------
\* The invariant is inductive.
LEMMA Inductive == IndInv /\ [Next]_vars => IndInv'
<1> SUFFICES ASSUME IndInv, [Next]_vars PROVE IndInv'
  OBVIOUS
<1>1. CASE Next
  BY <1>1, MainStep, SignalStep, ArriveStep, LcoreStep DEF Next, Network
<1>2. CASE UNCHANGED vars
  <2>1. /\ UNCHANGED <<tableVars, dpdkVars, lc>>
        /\ UNCHANGED <<main, portState, force_quit, fault, seen, frames>>
    BY <1>2 DEF vars, ctlVars
  <2>2. CtlType' /\ RestType' /\ MainInv'
    BY <2>1 DEF IndInv, TypeInv, CtlType, RestType, MainInv
  <2>3. TypeInv'
    BY <2>1, <2>2, CtlStepTypes DEF IndInv
  <2> QED
    BY <2>2, <2>3 DEF IndInv
<1> QED
  BY <1>1, <1>2

\* In every behaviour of any number of lcores that share the table and the TX
\* buffers without locks, every variable keeps its type: the table holds hosts
\* and ports, the queues hold mbufs with frames, an lcore that forwards has one.
THEOREM TypeCorrect == Spec => []TypeOK
<1>1. IndInv => TypeOK
  BY IndInvImplies
<1> QED
  BY <1>1, IndInit, Inductive, PTL DEF Spec

\* main starts every port before any lcore enters its loop and closes none
\* before every lcore has left it, for any number of lcores and ports.
THEOREM PortsOpenWhileUsed == Spec => []NoUseOfClosedPort
<1>1. IndInv => NoUseOfClosedPort
  BY IndInvImplies
<1> QED
  BY <1>1, IndInit, Inductive, PTL DEF Spec

----------------------------------------------------------------------------
(* A single lcore.                                                         *)

OneLcore == Lcores = {MasterLcore}

\* No frame bears 00:00:00:00:00:00, the address of an empty table entry.
NoZeroAddress == ~ZeroAddress

LEMMA SourcesAreHosts ==
  ASSUME NoZeroAddress
  PROVE  /\ IsFiniteSet(Sources) /\ Zero \notin Sources
         /\ Broadcast \notin Sources /\ Zero \notin Destinations
BY SwitchAssumption DEF NoZeroAddress, Sources, Destinations

Me == lc[MasterLcore]

----------------------------------------------------------------------------
(* The MAC table.                                                          *)

Entries == 0 .. MacEntries - 1

\* Entries in use: the one being written counts from its address on.
Filled == IF Me.pc \in {"port", "count"} THEN mac_counter + 1 ELSE mac_counter

TableInv ==
  /\ Filled <= MacEntries
  /\ \A i \in Entries : mac_fwd_table[i].addr = Zero <=> Filled <= i
  /\ \A i, j \in Entries : mac_fwd_table[i].addr = mac_fwd_table[j].addr
                             => i = j \/ mac_fwd_table[i].addr = Zero
  /\ Me.pc \in {"port", "count"} => Me.slot = mac_counter

\* In a loop of l2fwd_learning_forward, or in a transmit call made there.
In(loop) == Me.pc = loop \/ (Me.pc \in {"tx", "put", "flush"} /\ Me.ret = loop)

\* Unless mac_add is set the entries compared so far have another address.
ScanInv ==
  /\ In("scan") =>
       /\ Me.i <= MacEntries
       /\ ~Me.mac_add =>
            \A i \in Entries : i < Me.i => mac_fwd_table[i].addr # Me.f.src
  /\ In("flood") /\ ~Me.mac_add =>
       \A i \in Entries : mac_fwd_table[i].addr # Me.f.src
  /\ Me.pc = "addr" => \A i \in Entries : mac_fwd_table[i].addr # Me.f.src

LearnInv == TableInv /\ ScanInv /\ NoTableOverrun

----------------------------------------------------------------------------
(* The mbufs, with two ports.                                              *)

\* A frame is being forwarded and is in no TX buffer yet.
Held ==
  \/ Me.pc = "scan" /\ ~Me.mac_dst_found
  \/ Me.pc \in {"tx", "put"}
  \/ Me.pc = "flood" /\ \A p \in Ports : p < Me.i => p = Me.portid

\* What the lcore's local variables say about the frame it forwards.
FlightInv ==
  /\ Me.pc \in {"off", "done", "top", "drain", "rx"} => Me.burst = <<>>
  /\ Me.pc = "flush" /\ Me.ret = "drain" => Me.burst = <<>>
  /\ Me.pc \in {"put", "flush"} => Me.out = txbuf[Me.txport]
  /\ In("scan") /\ Me.mac_dst_found =>
       \E i \in Entries : i < Me.i /\ mac_fwd_table[i].addr = Me.f.dst
  /\ In("scan") /\ Me.pc # "scan" => Me.mac_dst_found
  /\ In("flood") /\ Me.pc # "flood" =>
       Me.txport < Me.i /\ Me.txport # Me.portid
  /\ In("flood") => Me.i <= NbPorts
  /\ Me.pc = "port" => mac_fwd_table[Me.slot].addr = Me.f.src

\* Where mbuf b is: in the pool, at place k of port p's RX queue or TX buffer,
\* at place k of the burst, or held.
At(b, kind, p, k) ==
  \/ kind = "pool" /\ p = 0 /\ k = 0 /\ b \in pool
  \/ kind = "rx" /\ p \in Ports /\ k \in 1 .. Len(rxq[p]) /\ rxq[p][k] = b
  \/ kind = "tx" /\ p \in Ports /\ k \in 1 .. Len(txbuf[p]) /\ txbuf[p][k].mb = b
  \/ kind = "burst" /\ p = 0 /\ k \in 1 .. Len(Me.burst) /\ Me.burst[k] = b
  \/ kind = "held" /\ p = 0 /\ k = 0 /\ Held /\ Me.m = b

\* Every mbuf is at one place.
OnePlace ==
  \A b \in Mbufs :
    \E kind, p, k :
      /\ At(b, kind, p, k)
      /\ \A kind2, p2, k2 : At(b, kind2, p2, k2) => kind2 = kind /\ p2 = p /\ k2 = k

\* A frame received on p, which its source has been heard on.
From(f, p, heard) == f.port = p /\ <<f.src, p>> \in heard

\* A frame f that may leave on p.
MayLeave(f, p, heard) == f.port = p => <<f.dst, p>> \in heard

\* What the mbufs of the queues hold.
QueueContent ==
  /\ \A p \in Ports : \A k \in 1 .. Len(rxq[p]) : From(frame[rxq[p][k]], p, seen)
  /\ \A p \in Ports : \A k \in 1 .. Len(txbuf[p]) :
       /\ txbuf[p][k].queued = frame[txbuf[p][k].mb]
       /\ MayLeave(txbuf[p][k].queued, p, seen)

\* What the lcore has in hand.
MyContent ==
  /\ \A k \in 1 .. Len(Me.burst) : From(frame[Me.burst[k]], Me.portid, seen)
  /\ Forwarding(Me) => From(Me.f, Me.portid, seen)
  /\ Held => Me.f = frame[Me.m]
  /\ Me.pc \in {"tx", "put"} => MayLeave(Me.f, Me.txport, seen)

\* Entries of the table name a port their host was heard on.
TableContent ==
  \A i \in Entries :
    mac_fwd_table[i].addr # Zero
      => \/ <<mac_fwd_table[i].addr, mac_fwd_table[i].port>> \in seen
         \/ Me.pc = "port" /\ Me.slot = i

SentContent == NeverReflected /\ SentIntact

MbufInv == /\ FlightInv /\ OnePlace
           /\ QueueContent /\ MyContent /\ TableContent /\ SentContent

TwoPorts == NbPorts = 2

----------------------------------------------------------------------------
(* Steps that have nothing to do with a frame.                             *)

\* Not inside l2fwd_learning_forward.
Quiet(x) == \/ x.pc \in {"off", "done", "top", "drain", "rx", "next"}
            \/ x.pc = "flush" /\ x.ret = "drain"

\* With one lcore every lcore is this one.
LEMMA OnlyMe ==
  ASSUME OneLcore, NoZeroAddress, TypeInv
  PROVE  /\ MasterLcore \in Lcores /\ Me \in LocalsOf(Full) /\ Sane(Me, Full)
         /\ \A l \in Lcores : l = MasterLcore
BY DEF OneLcore, Me, TypeInv, LcType

\* main, signals and arriving frames find the lcore outside
\* l2fwd_learning_forward when they touch it at all.
LEMMA EnvironmentStep ==
  ASSUME OneLcore, NoZeroAddress, IndInv, Main \/ Signal \/ Network
  PROVE  /\ UNCHANGED <<tableVars, fault, txbuf, sent>>
         /\ \/ UNCHANGED <<Me>>
            \/ /\ UNCHANGED <<dpdkVars, seen>> /\ Me.pc = "off"
               /\ \E pc \in {"done", "top"} : Me' = [Me EXCEPT !.pc = pc]
<1>1. CASE Signal \/ InitPort \/ InitPortFailed \/ WaitLcores \/ ClosePort
  BY <1>1 DEF Signal, InitPort, InitPortFailed, WaitLcores, ClosePort, Me, dpdkVars
<1>2. CASE Network
  BY <1>2 DEF Network, Arrive, Me
<1>3. ASSUME NEW up \in BOOLEAN, CheckLinks(up)
      PROVE  /\ UNCHANGED <<tableVars, fault, txbuf, sent>>
             /\ \/ UNCHANGED <<Me>>
                \/ /\ UNCHANGED <<dpdkVars, seen>> /\ Me.pc = "off"
                   /\ \E pc \in {"done", "top"} : Me' = [Me EXCEPT !.pc = pc]
  <2>1. UNCHANGED <<tableVars, fault, dpdkVars, seen>> /\ (lc' = lc \/ lc' = Launched)
    BY <1>3 DEF CheckLinks
  <2>2. MasterLcore \in Lcores /\ Me.pc = "off"
    BY <1>3, OnlyMe DEF CheckLinks, IndInv, MainInv, Me
  <2>3. ASSUME lc' = Launched
        PROVE  Me' = [Me EXCEPT !.pc = "done"] \/ Me' = [Me EXCEPT !.pc = "top"]
    BY <2>2, <2>3 DEF Launched, Me
  <2> QED
    BY <2>1, <2>2, <2>3 DEF dpdkVars, Me
<1> QED
  BY <1>1, <1>2, <1>3 DEF Main

\* The actions of l2fwd_main_loop outside l2fwd_learning_forward.
LEMMA QuietActions ==
  ASSUME OneLcore, NoZeroAddress, TypeInv,
         \/ LoopExit(MasterLcore) \/ LoopDrain(MasterLcore) \/ LoopPoll(MasterLcore)
         \/ DrainDone(MasterLcore) \/ DrainPort(MasterLcore) \/ RxDone(MasterLcore)
         \/ RxBurst(MasterLcore) \/ BurstDone(MasterLcore)
  PROVE  Quiet(Me) /\ Quiet(Me') /\ UNCHANGED <<tableVars, fault, sent, seen, frame>>
<1> DEFINE c == MasterLcore
<1>1. c \in Lcores /\ Me \in LocalsOf(Full) /\ Me = lc[c] /\ Me' = lc'[c]
  BY OnlyMe DEF Me
<1>2. UNCHANGED <<tableVars, fault, sent, seen, frame>>
  BY DEF LoopExit, LoopDrain, LoopPoll, DrainDone, DrainPort, RxDone, RxBurst, BurstDone,
         dpdkVars
<1>3. Me.pc \in {"top", "drain", "rx", "next"}
  BY <1>1 DEF LoopExit, LoopDrain, LoopPoll, DrainDone, DrainPort, RxDone, RxBurst,
              BurstDone
<1> HIDE DEF c
<1>4. CASE LoopExit(c) \/ RxDone(c)
  <2>1. \E pc \in {"done", "top"} : Me' = [Me EXCEPT !.pc = pc]
    BY <1>1, <1>4, LocalsAfter
  <2> QED
    BY <1>1, <1>2, <1>3, <2>1 DEF Quiet, LocalsOf
<1>5. CASE LoopDrain(c) \/ LoopPoll(c) \/ DrainDone(c)
  <2>1. \E pc \in {"drain", "rx"} : Me' = [Me EXCEPT !.pc = pc, !.todo = RxPortList(c)]
    BY <1>1, <1>5, LocalsAfter
  <2> QED
    BY <1>1, <1>2, <1>3, <2>1 DEF Quiet, LocalsOf
<1>6. CASE DrainPort(c)
  <2> DEFINE p == DstPort(Head(Me.todo))
             pc == IF txbuf[p] = <<>> THEN "drain" ELSE "flush"
             out == txbuf[p]
             todo == Tail(Me.todo)
  <2>1. Me' = [Me EXCEPT !.pc = pc, !.todo = todo, !.txport = p, !.out = out,
                         !.ret = "drain"]
    BY <1>1, <1>6, LocalsAfter
  <2>2. pc \in {"drain", "flush"}
    OBVIOUS
  <2> HIDE DEF p, pc, out, todo
  <2>3. Me'.pc = pc /\ Me'.ret = "drain"
    BY <1>1, <2>1 DEF LocalsOf
  <2> QED
    BY <1>2, <1>3, <2>2, <2>3 DEF Quiet
<1>7. CASE RxBurst(c)
  <2> DEFINE p == Head(Me.todo)
             n == IF Len(rxq[p]) < MaxPktBurst THEN Len(rxq[p]) ELSE MaxPktBurst
             b == SubSeq(rxq[p], 1, n)
             todo == Tail(Me.todo)
  <2>1. Me' = [Me EXCEPT !.pc = "next", !.todo = todo, !.portid = p, !.burst = b]
    BY <1>1, <1>7, LocalsAfter
  <2> HIDE DEF p, n, b, todo
  <2>2. Me'.pc = "next"
    BY <1>1, <2>1 DEF LocalsOf
  <2> QED
    BY <1>2, <1>3, <2>2 DEF Quiet
<1>8. CASE BurstDone(c)
  <2>1. Me' = [Me EXCEPT !.pc = "rx", !.m = NoMbuf, !.f = NoFrame]
    BY <1>1, <1>8, LocalsAfter
  <2>2. Me'.pc = "rx"
    BY <1>1, <2>1 DEF LocalsOf
  <2> QED
    BY <1>2, <1>3, <2>2 DEF Quiet
<1> QED
  BY <1>4, <1>5, <1>6, <1>7, <1>8 DEF c

----------------------------------------------------------------------------
(* The MAC table.                                                          *)

\* A step outside l2fwd_learning_forward.
LEMMA QuietLearn ==
  ASSUME LearnInv, UNCHANGED <<tableVars, fault>>, Quiet(Me), Quiet(Me')
  PROVE  LearnInv'
<1>1. UNCHANGED <<mac_fwd_table, mac_counter, fault>>
  BY DEF tableVars
<1>2. /\ Me.pc \notin {"port", "count"} /\ Me'.pc \notin {"port", "count", "addr"}
      /\ ~In("scan")' /\ ~In("flood")'
  BY DEF Quiet, In
<1>3. Filled' = Filled
  BY <1>1, <1>2 DEF Filled
<1>4. TableInv'
  BY <1>1, <1>2, <1>3 DEF LearnInv, TableInv
<1>5. ScanInv'
  BY <1>2 DEF ScanInv
<1> QED
  BY <1>1, <1>4, <1>5 DEF LearnInv, NoTableOverrun

\* The whole table has been compared when every entry has.
LEMMA EntryNumbers ==
  /\ \A i : i \in Entries <=> i \in Nat /\ i < MacEntries
  /\ MacEntries \in Nat
BY SwitchAssumption DEF Entries

\* A step of l2fwd_learning_forward that leaves the table alone.
LEMMA KeepTable ==
  ASSUME LearnInv, UNCHANGED <<mac_fwd_table, mac_counter>>,
         Me.pc \notin {"port", "count"}, Me'.pc \notin {"port", "count"}
  PROVE  TableInv'
<1>1. Filled' = Filled
  BY DEF Filled
<1> QED
  BY <1>1 DEF LearnInv, TableInv

\* The table cannot be full of other hosts when there are no more hosts than
\* With one lcore mac_counter is the same when it is read again.
LEMMA LearnPortAlone ==
  ASSUME OneLcore, NoZeroAddress, IndInv, TableInv, LearnPort(MasterLcore)
  PROVE  /\ mac_fwd_table' = [mac_fwd_table EXCEPT ![Me.slot].port = Me.portid]
         /\ UNCHANGED <<mac_counter, fault>> /\ Me.pc = "port"
         /\ Me' = [Me EXCEPT !.pc = "count"]
<1>1. /\ MasterLcore \in Lcores /\ Me \in LocalsOf(Full) /\ Sane(Me, Full)
      /\ lc \in [Lcores -> LocalsOf(Full)]
  BY OnlyMe DEF IndInv, TypeInv, LcType
<1>2. Me.pc = "port" /\ Me = lc[MasterLcore]
  BY DEF LearnPort, Me
<1>3. Me.slot = mac_counter /\ Me.slot < MacEntries
  BY <1>1, <1>2 DEF TableInv, Sane
<1>4. /\ mac_fwd_table' = [mac_fwd_table EXCEPT ![Me.slot].port = Me.portid]
      /\ lc' = [lc EXCEPT ![MasterLcore].pc = "count",
                          ![MasterLcore].slot = Me.slot]
      /\ UNCHANGED <<mac_counter, fault>>
  BY <1>2, <1>3 DEF LearnPort
<1>5. Me' = [Me EXCEPT !.pc = "count", !.slot = Me.slot]
  BY <1>1, <1>4 DEF Me
<1>6. Me' = [Me EXCEPT !.pc = "count"]
  BY <1>1, <1>5 DEF LocalsOf
<1> QED
  BY <1>2, <1>4, <1>6

\* entries.
LEMMA TableHasRoom ==
  ASSUME OneLcore, NoZeroAddress, IndInv, LearnInv, Me.pc = "addr", Cardinality(Sources) <= MacEntries
  PROVE  mac_counter < MacEntries
<1> SUFFICES ASSUME ~(mac_counter < MacEntries) PROVE FALSE
  OBVIOUS
<1>1. /\ mac_counter \in Nat /\ MacEntries \in Nat
      /\ mac_fwd_table \in [Entries -> [addr : Sources \cup {Zero}, port : Ports]]
  BY EntryNumbers DEF IndInv, TypeInv, TableType, Entries
<1>2. Filled = mac_counter /\ \A i \in Entries : ~(Filled <= i)
  BY <1>1, EntryNumbers DEF Filled
<1>3. \A i \in Entries : mac_fwd_table[i].addr # Zero
  BY <1>2 DEF LearnInv, TableInv
<1>4. \A i \in Entries : mac_fwd_table[i].addr \in Sources
  BY <1>1, <1>3
<1>5. Me.f.src \in Sources /\ \A i \in Entries : mac_fwd_table[i].addr # Me.f.src
  BY OnlyMe DEF IndInv, LearnInv, ScanInv, Sane, Forwarding, Frames
<1>6. \A i, j \in Entries : mac_fwd_table[i].addr = mac_fwd_table[j].addr => i = j
  BY <1>3 DEF LearnInv, TableInv
<1> DEFINE g == [i \in 0 .. MacEntries |->
                   IF i = MacEntries THEN Me.f.src ELSE mac_fwd_table[i].addr]
<1>7. \A i \in 0 .. MacEntries : i = MacEntries \/ i \in Entries
  BY <1>1, EntryNumbers
<1>8. g \in [0 .. MacEntries -> Sources]
  BY <1>4, <1>5, <1>7
<1>9. \A i, j \in 0 .. MacEntries : g[i] = g[j] => i = j
  BY <1>5, <1>6, <1>7
<1> HIDE DEF g
<1>10. IsFiniteSet(0 .. MacEntries) /\ Cardinality(0 .. MacEntries) = MacEntries + 1
  BY <1>1, FS_Interval
<1>11. IsFiniteSet(Sources) /\ Cardinality(Sources) \in Nat
  BY SourcesAreHosts, FS_CardinalityType
<1>12. Cardinality(Sources) < Cardinality(0 .. MacEntries)
  BY <1>1, <1>10, <1>11
<1>13. \E i, j \in 0 .. MacEntries : i # j /\ g[i] = g[j]
  <2> DEFINE S == 0 .. MacEntries
  <2>1. IsFiniteSet(S) /\ Cardinality(Sources) < Cardinality(S) /\ g \in [S -> Sources]
    BY <1>8, <1>10, <1>12
  <2> HIDE DEF S
  <2>2. \E i, j \in S : i # j /\ g[i] = g[j]
    BY <1>11, <2>1, FS_PigeonHole
  <2> QED
    BY <2>2 DEF S
<1> QED
  BY <1>9, <1>13

\* A transmit call changes where the lcore is and its copy of the TX buffer.
LEMMA TransmitLocals ==
  ASSUME OneLcore, NoZeroAddress, TypeInv,
         \/ TxRead(MasterLcore) \/ TxPut(MasterLcore)
         \/ Flush(MasterLcore) \/ FlushRefused(MasterLcore)
  PROVE  /\ Me'.pc \in {"put", "flush", "tx", Me.ret}
         /\ Me'.ret = Me.ret /\ Me'.f = Me.f /\ Me'.m = Me.m
         /\ Me'.mac_add = Me.mac_add /\ Me'.mac_dst_found = Me.mac_dst_found
         /\ Me'.i = Me.i /\ Me'.portid = Me.portid /\ Me'.txport = Me.txport
         /\ Me'.burst = Me.burst /\ Me.ret \in {"drain", "scan", "flood"}
<1> DEFINE c == MasterLcore
<1>1. /\ c \in Lcores /\ Me \in LocalsOf(Full) /\ Me = lc[c] /\ Me' = lc'[c]
  BY OnlyMe DEF Me
<1> HIDE DEF c
<1>2. ASSUME NEW pc \in {"put", "flush", "tx", Me.ret}, NEW out,
             Me' = [Me EXCEPT !.pc = pc, !.out = out]
      PROVE  /\ Me'.pc = pc
             /\ Me'.ret = Me.ret /\ Me'.f = Me.f /\ Me'.m = Me.m
             /\ Me'.mac_add = Me.mac_add /\ Me'.mac_dst_found = Me.mac_dst_found
             /\ Me'.i = Me.i /\ Me'.portid = Me.portid /\ Me'.txport = Me.txport
             /\ Me'.burst = Me.burst /\ Me.ret \in {"drain", "scan", "flood"}
  BY <1>1, <1>2 DEF LocalsOf
<1>3. CASE TxRead(c)
  <2> DEFINE out == txbuf[Me.txport]
  <2>1. Me' = [Me EXCEPT !.pc = "put", !.out = out]
    BY <1>1, <1>3, LocalsAfter
  <2> HIDE DEF out
  <2> QED
    BY <1>2, <2>1
<1>4. CASE TxPut(c)
  <2> DEFINE new == Append(Me.out, [mb |-> Me.m, queued |-> Me.f])
             pc  == IF Len(new) >= MaxPktBurst THEN "flush" ELSE Me.ret
             out == IF Len(new) >= MaxPktBurst THEN new ELSE <<>>
  <2>1. Me' = [Me EXCEPT !.pc = pc, !.out = out]
    BY <1>1, <1>4, LocalsAfter
  <2>2. pc \in {"put", "flush", "tx", Me.ret}
    OBVIOUS
  <2> HIDE DEF pc, out
  <2> QED
    BY <1>2, <2>1, <2>2
<1>5. CASE Flush(c)
  BY ZenonT(60), <1>1, <1>2, <1>5, LocalsAfter
<1>6. CASE FlushRefused(c)
  <2>1. Me' = Me /\ Me.pc = "flush"
    BY <1>1, <1>6, LocalsAfter DEF FlushRefused
  <2> QED
    BY <1>1, <2>1 DEF LocalsOf
<1> QED
  BY <1>3, <1>4, <1>5, <1>6 DEF c

\* Forwarding a frame and learning its source.
LEMMA ForwardLearn ==
  ASSUME OneLcore, NoZeroAddress, IndInv, LearnInv, Lcore(MasterLcore)
  PROVE  LearnInv'
<1> DEFINE c == MasterLcore
<1>1. /\ c \in Lcores /\ Me \in LocalsOf(Full) /\ Sane(Me, Full)
      /\ Me = lc[c] /\ Me' = lc'[c] /\ TypeInv
  BY OnlyMe DEF Me, IndInv
<1>2. /\ mac_counter \in Nat /\ MacEntries \in Nat
      /\ mac_fwd_table \in [Entries -> [addr : Sources \cup {Zero}, port : Ports]]
  BY <1>1, EntryNumbers DEF TypeInv, TableType, Entries
<1>3. TableInv /\ ScanInv /\ NoTableOverrun
  BY DEF LearnInv
<1>4. SUFFICES ASSUME ~(\/ LoopExit(c) \/ LoopDrain(c) \/ LoopPoll(c) \/ DrainDone(c)
                        \/ DrainPort(c) \/ RxDone(c) \/ RxBurst(c) \/ BurstDone(c))
               PROVE  LearnInv'
  BY <1>1, QuietActions, QuietLearn
<1> HIDE DEF c
<1>5. CASE NextPacket(c)
  <2> DEFINE h == Head(Me.burst)
             t == Tail(Me.burst)
             f == frame[h]
  <2>1. /\ Me' = [Me EXCEPT !.pc = "scan", !.burst = t, !.m = h, !.f = f, !.i = 0,
                            !.mac_add = FALSE, !.mac_dst_found = FALSE]
    BY <1>1, <1>5, LocalsAfter
  <2>5. UNCHANGED <<mac_fwd_table, mac_counter, fault>> /\ Me.pc = "next"
    BY <1>1, <1>5 DEF NextPacket, tableVars
  <2> HIDE DEF h, t, f
  <2>2. Me'.pc = "scan" /\ Me'.i = 0
    BY <1>1, <2>1 DEF LocalsOf
  <2>3. TableInv'
    BY <2>2, <2>5, KeepTable
  <2>4. ScanInv'
    BY <1>2, <2>2, EntryNumbers DEF ScanInv, In
  <2> QED
    BY <1>3, <2>3, <2>4, <2>5 DEF LearnInv, NoTableOverrun
<1>6. CASE Scan(c)
  <2> DEFINE e == mac_fwd_table[Me.i]
             hit == e.addr = Me.f.dst
             add == SrcKnown(c, e)
             found == Me.mac_dst_found \/ hit
             port == IF hit THEN e.port ELSE Me.txport
             pc == IF hit THEN "tx" ELSE "scan"
  <2>1. /\ Me' = [Me EXCEPT !.pc = pc, !.i = Me.i + 1, !.mac_add = add,
                            !.mac_dst_found = found, !.txport = port, !.ret = "scan"]
        /\ UNCHANGED <<mac_fwd_table, mac_counter, fault>>
        /\ Me.pc = "scan" /\ Me.i < MacEntries
    <3>1. Me' = [Me EXCEPT !.pc = pc, !.i = Me.i + 1, !.mac_add = add,
                           !.mac_dst_found = found, !.txport = port, !.ret = "scan"]
      BY <1>1, <1>6, LocalsAfter
    <3>2. /\ UNCHANGED <<mac_fwd_table, mac_counter, fault>>
          /\ Me.pc = "scan" /\ Me.i < MacEntries
      BY <1>1, <1>6 DEF Scan, tableVars
    <3> HIDE DEF pc, add, found, port
    <3> QED
      BY <3>1, <3>2
  <2>2. pc \in {"tx", "scan"} /\ (~add => ~Me.mac_add /\ e.addr # Me.f.src)
    BY <1>1 DEF SrcKnown
  <2> HIDE DEF add, found, port, pc
  <2>3. /\ Me'.pc = pc /\ Me'.i = Me.i + 1 /\ Me'.mac_add = add /\ Me'.f = Me.f
        /\ Me'.ret = "scan" /\ Me.i \in Nat
    BY <1>1, <2>1 DEF LocalsOf
  <2>4. TableInv'
    BY <2>1, <2>2, <2>3, KeepTable
  <2>5. ~Me.mac_add => \A i \in Entries : i < Me.i => mac_fwd_table[i].addr # Me.f.src
    BY <1>3, <2>1 DEF ScanInv, In
  <2>6. ~add => \A i \in Entries : i < Me.i + 1 => mac_fwd_table[i].addr # Me.f.src
    BY <2>2, <2>3, <2>5, EntryNumbers
  <2>7. Me.i + 1 <= MacEntries
    BY <1>2, <2>1, <2>3
  <2>8. ScanInv'
    BY <2>1, <2>2, <2>3, <2>6, <2>7 DEF ScanInv, In
  <2> QED
    BY <1>3, <2>1, <2>4, <2>8 DEF LearnInv, NoTableOverrun
<1>7. CASE ScanDone(c) \/ FloodDone(c)
  <2>1. /\ UNCHANGED <<mac_fwd_table, mac_counter, fault>>
        /\ (Me.pc = "scan" /\ Me.i = MacEntries) \/ Me.pc = "flood"
    BY <1>1, <1>7 DEF ScanDone, FloodDone, tableVars
  <2>2. /\ Me'.pc \in {"next", "addr", "flood"} /\ Me'.f = Me.f
        /\ Me'.mac_add = Me.mac_add /\ (Me'.pc = "addr" => ~Me.mac_add)
    <3> DEFINE after == AfterForward(c)
               pc == IF Me.mac_dst_found THEN after ELSE "flood"
    <3>1. after \in {"next", "addr"} /\ (after = "addr" => ~Me.mac_add)
      BY <1>1 DEF AfterForward
    <3>2. \/ Me' = [Me EXCEPT !.pc = pc, !.i = 0]
          \/ Me' = [Me EXCEPT !.pc = after]
      BY <1>1, <1>7, LocalsAfter
    <3>3. pc \in {"next", "addr", "flood"} /\ (pc = "addr" => ~Me.mac_add)
      BY <3>1
    <3> HIDE DEF pc, after
    <3>4. Me'.pc \in {pc, after} /\ Me'.f = Me.f /\ Me'.mac_add = Me.mac_add
      BY <1>1, <3>2 DEF LocalsOf
    <3> QED
      BY <3>1, <3>3, <3>4
  <2>3. TableInv'
    BY <2>1, <2>2, KeepTable
  <2>4. ~Me.mac_add => \A i \in Entries : mac_fwd_table[i].addr # Me.f.src
    BY <1>3, <2>1, EntryNumbers DEF ScanInv, In
  <2>5. ScanInv'
    BY <2>1, <2>2, <2>4 DEF ScanInv, In
  <2> QED
    BY <1>3, <2>1, <2>3, <2>5 DEF LearnInv, NoTableOverrun
<1>8. CASE Flood(c)
  <2> DEFINE pc == IF FloodsTo(c, Me.i) THEN "tx" ELSE "flood"
             i == Me.i
             n == Me.i + 1
  <2>1. /\ Me' = [Me EXCEPT !.pc = pc, !.txport = i, !.ret = "flood", !.i = n]
        /\ Me.pc = "flood" /\ UNCHANGED <<mac_fwd_table, mac_counter, fault>>
    <3>1. Me' = [Me EXCEPT !.pc = pc, !.txport = i, !.ret = "flood", !.i = n]
      BY <1>1, <1>8, LocalsAfter
    <3>2. Me.pc = "flood" /\ UNCHANGED <<mac_fwd_table, mac_counter, fault>>
      BY <1>1, <1>8 DEF Flood, tableVars
    <3> HIDE DEF pc, i, n
    <3> QED
      BY <3>1, <3>2
  <2>2. pc \in {"tx", "flood"}
    OBVIOUS
  <2> HIDE DEF pc, i, n
  <2>3. /\ Me'.pc = pc /\ Me'.f = Me.f /\ Me'.mac_add = Me.mac_add /\ Me'.ret = "flood"
    BY <1>1, <2>1 DEF LocalsOf
  <2>4. TableInv'
    BY <2>1, <2>2, <2>3, KeepTable
  <2>5. ScanInv'
    BY <1>3, <2>1, <2>2, <2>3 DEF ScanInv, In
  <2> QED
    BY <1>3, <2>1, <2>4, <2>5 DEF LearnInv, NoTableOverrun
<1>9. CASE TxRead(c) \/ TxPut(c) \/ Flush(c) \/ FlushRefused(c)
  <2>1. /\ UNCHANGED <<mac_fwd_table, mac_counter>>
        /\ Me.pc \in {"tx", "put", "flush"}
        /\ fault' = fault \/ fault' = "error callback"
    BY <1>1, <1>9 DEF TxRead, TxPut, Flush, FlushRefused, tableVars
  <2>2. /\ Me'.pc \in {"put", "flush", "tx", Me.ret} /\ Me'.ret = Me.ret /\ Me'.f = Me.f
        /\ Me'.mac_add = Me.mac_add /\ Me'.i = Me.i
        /\ Me.ret \in {"drain", "scan", "flood"}
    BY <1>1, <1>9, TransmitLocals DEF c
  <2>3. TableInv'
    BY <2>1, <2>2, KeepTable
  <2>4. ScanInv'
    BY <1>3, <2>1, <2>2 DEF ScanInv, In
  <2> QED
    BY <1>3, <2>1, <2>3, <2>4 DEF LearnInv, NoTableOverrun
<1>10. CASE LearnAddr(c)
  <2>1. Me.pc = "addr" /\ Filled = mac_counter
    BY <1>1, <1>10 DEF LearnAddr, Filled
  <2>2. CASE ~(mac_counter < MacEntries)
    <3>1. UNCHANGED <<mac_fwd_table, mac_counter, lc>>
      BY <1>1, <1>10, <2>2 DEF LearnAddr
    <3>2. TableInv' /\ ScanInv'
      BY <1>3, <3>1 DEF TableInv, ScanInv, Filled, In, Me
    <3>3. ~(Cardinality(Sources) <= MacEntries)
      BY <2>1, <2>2, TableHasRoom
    <3> QED
      BY <3>2, <3>3 DEF LearnInv, NoTableOverrun
  <2>3. CASE mac_counter < MacEntries
    <3>1. /\ mac_fwd_table' = [mac_fwd_table EXCEPT ![mac_counter].addr = Me.f.src]
          /\ UNCHANGED <<mac_counter, fault>>
          /\ Me' = [Me EXCEPT !.pc = "port", !.slot = mac_counter]
      BY <1>1, <1>10, <2>3, LocalsAfter DEF LearnAddr
    <3>2. Me'.pc = "port" /\ Me'.slot = mac_counter
      BY <1>1, <3>1 DEF LocalsOf
    <3>3. /\ \A i \in Entries : mac_fwd_table[i].addr # Me.f.src
          /\ Me.f.src \in Sources /\ Me.f.src # Zero
      BY <1>1, <1>3, <2>1, SourcesAreHosts DEF ScanInv, Sane, Forwarding, Frames
    <3>4. Filled' = mac_counter + 1 /\ mac_counter \in Entries
      BY <1>2, <2>3, <3>1, <3>2, EntryNumbers DEF Filled
    <3>5. \A i \in Entries : mac_fwd_table'[i].addr =
            IF i = mac_counter THEN Me.f.src ELSE mac_fwd_table[i].addr
      BY <1>2, <3>1, <3>4
    <3>6. \A i \in Entries : mac_fwd_table[i].addr = Zero <=> mac_counter <= i
      BY <1>3, <2>1 DEF TableInv
    <3>7. \A i \in Entries : mac_fwd_table'[i].addr = Zero <=> mac_counter + 1 <= i
      BY <1>2, <3>3, <3>5, <3>6, EntryNumbers
    <3>8. \A i, j \in Entries : mac_fwd_table'[i].addr = mac_fwd_table'[j].addr
                                  => i = j \/ mac_fwd_table'[i].addr = Zero
      BY <1>3, <3>3, <3>5 DEF TableInv
    <3>9. mac_counter + 1 <= MacEntries
      BY <1>2, <2>3
    <3>10. TableInv'
      BY <3>1, <3>2, <3>4, <3>7, <3>8, <3>9 DEF TableInv
    <3>11. ScanInv'
      BY <3>2 DEF ScanInv, In
    <3> QED
      BY <1>3, <3>1, <3>10, <3>11 DEF LearnInv, NoTableOverrun
  <2> QED
    BY <2>2, <2>3
<1>11. CASE LearnPort(c)
  <2>1. /\ mac_fwd_table' = [mac_fwd_table EXCEPT ![Me.slot].port = Me.portid]
        /\ UNCHANGED <<mac_counter, fault>> /\ Me.pc = "port"
        /\ Me' = [Me EXCEPT !.pc = "count"]
    BY <1>11, LearnPortAlone DEF c, LearnInv
  <2>2. Me'.pc = "count" /\ Me'.slot = Me.slot
    BY <1>1, <2>1 DEF LocalsOf
  <2>3. Filled' = Filled
    BY <2>1, <2>2 DEF Filled
  <2>4. \A i \in Entries : mac_fwd_table'[i].addr = mac_fwd_table[i].addr
    BY <1>2, <2>1
  <2>5. TableInv'
    BY <1>3, <2>1, <2>2, <2>3, <2>4 DEF TableInv
  <2>6. ScanInv'
    BY <2>2 DEF ScanInv, In
  <2> QED
    BY <1>3, <2>1, <2>5, <2>6 DEF LearnInv, NoTableOverrun
<1>12. CASE LearnCount(c)
  <2>1. /\ mac_counter' \in {Me.slot + 1, mac_counter + 1}
        /\ UNCHANGED <<mac_fwd_table, fault>> /\ Me.pc = "count"
        /\ Me' = [Me EXCEPT !.pc = "next"]
    BY <1>1, <1>12, LocalsAfter DEF LearnCount
  <2>2. Me'.pc = "next" /\ Me.slot = mac_counter
    BY <1>1, <1>3, <2>1 DEF LocalsOf, TableInv
  <2>3. Filled' = Filled
    BY <2>1, <2>2 DEF Filled
  <2>4. TableInv'
    BY <1>3, <2>1, <2>2, <2>3 DEF TableInv
  <2>5. ScanInv'
    BY <2>2 DEF ScanInv, In
  <2> QED
    BY <1>3, <2>1, <2>4, <2>5 DEF LearnInv, NoTableOverrun
<1> QED
  BY <1>4, <1>5, <1>6, <1>7, <1>8, <1>9, <1>10, <1>11, <1>12 DEF Lcore, c

\* The invariant of the table is one of the specification.
LEMMA LearnInvariant ==
  ASSUME OneLcore, NoZeroAddress
  PROVE  Spec => [](IndInv /\ LearnInv)
<1>1. Init => LearnInv
  <2> SUFFICES ASSUME Init PROVE LearnInv
    OBVIOUS
  <2>1. IndInv
    BY IndInit
  <2>2. MasterLcore \in Lcores
    BY <2>1, OnlyMe DEF IndInv
  <2>3. Me.pc = "off" /\ mac_counter = 0 /\ fault = "none"
    BY <2>2 DEF Init, Me
  <2>4. \A i \in Entries : mac_fwd_table[i].addr = Zero
    BY DEF Init, Entries
  <2>5. Filled = 0
    BY <2>3 DEF Filled
  <2>6. TableInv
    BY <2>3, <2>4, <2>5, EntryNumbers DEF TableInv
  <2> QED
    BY <2>3, <2>6 DEF LearnInv, ScanInv, In, NoTableOverrun
<1>2. IndInv /\ LearnInv /\ [Next]_vars => LearnInv'
  <2> SUFFICES ASSUME IndInv, LearnInv, [Next]_vars PROVE LearnInv'
    OBVIOUS
  <2>1. ASSUME UNCHANGED <<tableVars, fault, Me>> PROVE LearnInv'
    BY <2>1 DEF LearnInv, TableInv, ScanInv, NoTableOverrun, Filled, In, tableVars
  <2>2. CASE Main \/ Signal \/ Network
    <3>1. CASE UNCHANGED <<Me>>
      BY <2>1, <2>2, <3>1, EnvironmentStep
    <3>2. ASSUME NEW pc \in {"done", "top"}, Me' = [Me EXCEPT !.pc = pc], Me.pc = "off"
          PROVE  LearnInv'
      <4>1. Me'.pc \in {"done", "top"}
        BY <3>2, OnlyMe DEF IndInv, LocalsOf
      <4> QED
        BY <2>2, <3>2, <4>1, EnvironmentStep, QuietLearn DEF Quiet
    <3> QED
      BY <2>2, <3>1, <3>2, EnvironmentStep
  <2>3. ASSUME NEW l \in Lcores, Lcore(l) PROVE LearnInv'
    BY <2>3, OnlyMe, ForwardLearn DEF IndInv
  <2>4. CASE UNCHANGED vars
    BY <2>1, <2>4 DEF vars, Me
  <2> QED
    BY <2>2, <2>3, <2>4 DEF Next
<1> QED
  BY <1>1, <1>2, IndInit, Inductive, PTL DEF Spec

\* With a single lcore, any number of ports and any number of hosts that does
\* not exceed MAC_ENTRIES, none of them with the zero address,
\* l2fwd_learning_forward never writes past the end of the MAC table: it never
\* enters a host twice.
THEOREM TableNeverOverrun ==
  ASSUME OneLcore, NoZeroAddress
  PROVE  Spec => []NoTableOverrun
<1>1. IndInv /\ LearnInv => NoTableOverrun
  BY DEF LearnInv
<1> QED
  BY <1>1, LearnInvariant, PTL

----------------------------------------------------------------------------
(* The mbufs.                                                              *)

\* What every step needs to know of the types.
LEMMA Basics ==
  ASSUME OneLcore, NoZeroAddress, IndInv
  PROVE  /\ TypeInv /\ MasterLcore \in Lcores /\ Me \in LocalsOf(Full) /\ Sane(Me, Full)
         /\ Me = lc[MasterLcore] /\ Me' = lc'[MasterLcore]
         /\ \A p \in Ports : Len(rxq[p]) \in Nat /\ Len(txbuf[p]) \in Nat
         /\ Len(Me.burst) \in Nat /\ Me.burst \in Seq(Full)
<1>1. TypeInv /\ MasterLcore \in Lcores /\ Me \in LocalsOf(Full) /\ Sane(Me, Full)
  BY OnlyMe DEF IndInv
<1>2. Me.burst \in Seq(Full)
  BY <1>1 DEF LocalsOf
<1>3. \A p \in Ports : rxq[p] \in Seq(Full) /\ txbuf[p] \in Seq(SlotsOf(Full))
  BY <1>1 DEF TypeInv, DpdkType
<1> QED
  BY <1>1, <1>2, <1>3, LenProperties DEF Me

\* A step that moves no mbuf.
LEMMA SamePlaces ==
  ASSUME OnePlace, UNCHANGED <<pool, rxq, txbuf>>, Me'.burst = Me.burst,
         Held' <=> Held, Held => Me'.m = Me.m
  PROVE  OnePlace'
<1>1. \A b, kind, p, k : At(b, kind, p, k)' <=> At(b, kind, p, k)
  BY DEF At
<1> QED
  BY <1>1 DEF OnePlace

\* A free mbuf is nowhere else.
LEMMA FreeApart ==
  ASSUME OnePlace, NEW b \in Mbufs, b \in pool
  PROVE  /\ \A p \in Ports : \A k \in 1 .. Len(rxq[p]) : rxq[p][k] # b
         /\ \A p \in Ports : \A k \in 1 .. Len(txbuf[p]) : txbuf[p][k].mb # b
         /\ \A k \in 1 .. Len(Me.burst) : Me.burst[k] # b
         /\ Held => Me.m # b
<1>1. At(b, "pool", 0, 0)
  BY DEF At
<1>2. \A kind, p, k : At(b, kind, p, k) => kind = "pool"
  BY <1>1 DEF OnePlace
<1>3. \A p \in Ports : \A k \in 1 .. Len(rxq[p]) : rxq[p][k] = b => At(b, "rx", p, k)
  BY DEF At
<1>4. \A p \in Ports : \A k \in 1 .. Len(txbuf[p]) :
        txbuf[p][k].mb = b => At(b, "tx", p, k)
  BY DEF At
<1>5. /\ \A k \in 1 .. Len(Me.burst) : Me.burst[k] = b => At(b, "burst", 0, k)
      /\ Held /\ Me.m = b => At(b, "held", 0, 0)
  BY DEF At
<1> QED
  BY <1>2, <1>3, <1>4, <1>5

\* A frame arrives: its mbuf moves from the pool to the end of an RX queue.
LEMMA ArriveMbuf ==
  ASSUME OneLcore, NoZeroAddress, IndInv, LearnInv, MbufInv, NEW p \in Ports, NEW src \in Sources,
         NEW dst \in Destinations, Arrive(p, src, dst)
  PROVE  MbufInv'
<1>1. /\ TypeInv /\ \A q \in Ports : Len(rxq[q]) \in Nat /\ Len(txbuf[q]) \in Nat
      /\ Len(Me.burst) \in Nat /\ Me.burst \in Seq(Full)
  BY Basics
<1>2. /\ FlightInv /\ OnePlace /\ QueueContent /\ MyContent /\ TableContent
      /\ SentContent
  BY DEF MbufInv
<1> DEFINE new == [no |-> frames + 1, src |-> src, dst |-> dst, port |-> p]
<1>3. PICK mb \in pool :
        /\ pool' = pool \ {mb}
        /\ frame' = [frame EXCEPT ![mb] = new]
        /\ rxq' = [rxq EXCEPT ![p] = Append(rxq[p], mb)]
  BY DEF Arrive
<1>4. /\ seen' = seen \cup {<<src, p>>}
      /\ UNCHANGED <<mac_fwd_table, txbuf, sent, Me>>
  BY DEF Arrive, tableVars, Me
<1>5. /\ mb \in Mbufs /\ frame \in [Mbufs -> Frames \cup {NoFrame}]
      /\ rxq \in [Ports -> Seq(Full)] /\ new.port = p /\ new.src = src
      /\ txbuf \in [Ports -> Seq(SlotsOf(Full))] /\ Me \in LocalsOf(Full)
  BY <1>1, Basics DEF TypeInv, DpdkType
<1> HIDE DEF new
<1>6. /\ \A b : b # mb => frame'[b] = frame[b]
      /\ frame'[mb] = new
  BY <1>3, <1>5
<1>7. /\ \A q \in Ports \ {p} : rxq'[q] = rxq[q]
      /\ Len(rxq'[p]) = Len(rxq[p]) + 1
      /\ \A k \in 1 .. Len(rxq[p]) : rxq'[p][k] = rxq[p][k]
      /\ rxq'[p][Len(rxq[p]) + 1] = mb
  <2>1. rxq'[p] = Append(rxq[p], mb) /\ rxq[p] \in Seq(Full)
    BY <1>3, <1>5
  <2>2. /\ Len(rxq'[p]) = Len(rxq[p]) + 1
        /\ \A k \in 1 .. Len(rxq[p]) : rxq'[p][k] = rxq[p][k]
        /\ rxq'[p][Len(rxq[p]) + 1] = mb
    <3>1. rxq[p] \in Seq(Full \cup {mb})
      BY <2>1, SeqInto
    <3> QED
      BY <2>1, <3>1, AppendProperties
  <2> QED
    BY <1>3, <1>5, <2>2
<1>8. /\ \A q \in Ports : \A k \in 1 .. Len(rxq[q]) : rxq[q][k] # mb
      /\ \A q \in Ports : \A k \in 1 .. Len(txbuf[q]) : txbuf[q][k].mb # mb
      /\ \A k \in 1 .. Len(Me.burst) : Me.burst[k] # mb
      /\ Held => Me.m # mb
  BY <1>2, <1>5, FreeApart
<1>9. FlightInv'
  BY <1>2, <1>4 DEF FlightInv, In
<1>10. Held' <=> Held
  BY <1>4 DEF Held
<1>11. \A q \in Ports : \A k \in 1 .. Len(rxq'[q]) :
         \/ k \in 1 .. Len(rxq[q]) /\ rxq'[q][k] = rxq[q][k]
         \/ q = p /\ k = Len(rxq[p]) + 1 /\ rxq'[q][k] = mb
  <2> SUFFICES ASSUME NEW q \in Ports, NEW k \in 1 .. Len(rxq'[q])
               PROVE  \/ k \in 1 .. Len(rxq[q]) /\ rxq'[q][k] = rxq[q][k]
                      \/ q = p /\ k = Len(rxq[p]) + 1 /\ rxq'[q][k] = mb
    OBVIOUS
  <2>1. CASE q # p
    BY <1>7, <2>1
  <2>2. CASE q = p
    <3>1. k \in 1 .. Len(rxq[p]) \/ k = Len(rxq[p]) + 1
      BY <1>1, <1>7, <2>2
    <3> QED
      BY <1>7, <2>2, <3>1
  <2> QED
    BY <2>1, <2>2
<1>12. OnePlace'
  <2>1. ASSUME NEW q \in Ports, NEW k \in 1 .. Len(rxq[q])
        PROVE  k \in 1 .. Len(rxq'[q]) /\ rxq'[q][k] = rxq[q][k]
    <3>1. CASE q = p
      BY <1>1, <1>7, <3>1
    <3>2. CASE q # p
      BY <1>7, <3>2
    <3> QED
      BY <3>1, <3>2
  <2>2. ASSUME NEW b, b # mb, NEW kind, NEW q, NEW k
        PROVE  At(b, kind, q, k)' <=> At(b, kind, q, k)
    <3>1. b \in pool' <=> b \in pool
      BY <1>3, <2>2
    <3>2. (q \in Ports /\ k \in 1 .. Len(rxq'[q]) /\ rxq'[q][k] = b)
            <=> (q \in Ports /\ k \in 1 .. Len(rxq[q]) /\ rxq[q][k] = b)
      BY <1>11, <2>1, <2>2
    <3> QED
      BY <1>4, <1>10, <3>1, <3>2 DEF At
  <2> PICK last : last = Len(rxq[p]) + 1
    OBVIOUS
  <2>3. At(mb, "rx", p, last)'
    <3>1. last \in 1 .. Len(rxq'[p])
      BY <1>1, <1>7
    <3> QED
      BY <1>7, <3>1 DEF At
  <2>4. ASSUME NEW kind, NEW q, NEW k, At(mb, kind, q, k)'
        PROVE  kind = "rx" /\ q = p /\ k = last
    <3>1. mb \notin pool'
      BY <1>3
    <3>2. ~(kind = "tx" /\ q \in Ports /\ k \in 1 .. Len(txbuf'[q])
              /\ txbuf'[q][k].mb = mb)
      BY <1>4, <1>8
    <3>3. /\ ~(k \in 1 .. Len(Me'.burst) /\ Me'.burst[k] = mb)
          /\ ~(Held' /\ Me'.m = mb)
      BY <1>4, <1>8, <1>10
    <3>4. kind = "rx" /\ q \in Ports /\ k \in 1 .. Len(rxq'[q]) /\ rxq'[q][k] = mb
      BY <2>4, <3>1, <3>2, <3>3 DEF At
    <3> QED
      BY <1>8, <1>11, <3>4
  <2> SUFFICES ASSUME NEW b \in Mbufs
               PROVE  \E kind, q, k :
                        /\ At(b, kind, q, k)'
                        /\ \A kind2, q2, k2 : At(b, kind2, q2, k2)' =>
                             kind2 = kind /\ q2 = q /\ k2 = k
    BY DEF OnePlace
  <2>5. CASE b = mb
    BY <2>3, <2>4, <2>5
  <2>6. CASE b # mb
    BY <1>2, <2>2, <2>6 DEF OnePlace
  <2> QED
    BY <2>5, <2>6
<1>13. \A f, q : /\ From(f, q, seen) => From(f, q, seen')
               /\ MayLeave(f, q, seen) => MayLeave(f, q, seen')
  BY <1>4 DEF From, MayLeave
<1>14. From(new, p, seen')
  BY <1>4, <1>5 DEF From
<1>15. QueueContent'
  <2>1. ASSUME NEW q \in Ports, NEW k \in 1 .. Len(rxq'[q])
        PROVE  From(frame'[rxq'[q][k]], q, seen')
    <3>1. CASE k \in 1 .. Len(rxq[q]) /\ rxq'[q][k] = rxq[q][k]
      <4>1. frame'[rxq'[q][k]] = frame[rxq[q][k]]
        BY <1>6, <1>8, <3>1
      <4>2. From(frame[rxq[q][k]], q, seen)
        BY <1>2, <3>1 DEF QueueContent
      <4> QED
        BY <1>4, <4>1, <4>2 DEF From
    <3>2. CASE q = p /\ rxq'[q][k] = mb
      BY <1>6, <1>14, <3>2
    <3> QED
      BY <1>11, <3>1, <3>2
  <2>2. ASSUME NEW q \in Ports, NEW k \in 1 .. Len(txbuf'[q])
        PROVE  /\ txbuf'[q][k].queued = frame'[txbuf'[q][k].mb]
               /\ MayLeave(txbuf'[q][k].queued, q, seen')
    <3>1. /\ txbuf[q][k].queued = frame[txbuf[q][k].mb]
          /\ MayLeave(txbuf[q][k].queued, q, seen)
      BY <1>2, <1>4, <2>2 DEF QueueContent
    <3>2. frame'[txbuf[q][k].mb] = frame[txbuf[q][k].mb]
      BY <1>4, <1>6, <1>8, <2>2
    <3> QED
      BY <1>4, <1>13, <3>1, <3>2 DEF MayLeave
  <2> QED
    BY <2>1, <2>2 DEF QueueContent
<1>16. MyContent'
  <2>1. \A k \in 1 .. Len(Me.burst) : frame'[Me.burst[k]] = frame[Me.burst[k]]
    BY <1>6, <1>8
  <2>2. Held => frame'[Me.m] = frame[Me.m]
    BY <1>6, <1>8
  <2> QED
    BY <1>2, <1>4, <1>10, <1>13, <2>1, <2>2 DEF MyContent, From, MayLeave
<1>17. TableContent' /\ SentContent'
  BY <1>2, <1>4 DEF TableContent, SentContent, NeverReflected, SentIntact
<1> QED
  BY <1>9, <1>12, <1>15, <1>16, <1>17 DEF MbufInv

\* A step that moves no mbuf: what is left to show concerns the lcore's local
\* variables and the table.
LEMMA StillMbuf ==
  ASSUME MbufInv, UNCHANGED <<txbuf, pool, frame, rxq, sent, seen>>,
         Me'.burst = Me.burst, Me'.portid = Me.portid, Held' <=> Held,
         Held => Me'.m = Me.m /\ Me'.f = Me.f,
         Forwarding(Me') => Forwarding(Me) /\ Me'.f = Me.f,
         Me'.pc \in {"tx", "put"} => MayLeave(Me'.f, Me'.txport, seen),
         FlightInv', TableContent'
  PROVE  MbufInv'
<1>1. OnePlace'
  BY SamePlaces DEF MbufInv
<1>2. QueueContent'
  BY DEF MbufInv, QueueContent, From, MayLeave
<1>3. MyContent'
  <2>1. MyContent
    BY DEF MbufInv
  <2>2. \A k \in 1 .. Len(Me'.burst) : From(frame'[Me'.burst[k]], Me'.portid, seen')
    BY <2>1 DEF MyContent
  <2>3. Forwarding(Me') => From(Me'.f, Me'.portid, seen')
    BY <2>1 DEF MyContent
  <2>4. Held' => Me'.f = frame'[Me'.m]
    BY <2>1 DEF MyContent
  <2>5. Me'.pc \in {"tx", "put"} => MayLeave(Me'.f, Me'.txport, seen')
    BY DEF MayLeave
  <2> QED
    BY <2>2, <2>3, <2>4, <2>5 DEF MyContent, Forwarding
<1>4. SentContent'
  BY DEF MbufInv, SentContent, NeverReflected, SentIntact
<1> QED
  BY <1>1, <1>2, <1>3, <1>4 DEF MbufInv

\* A step outside l2fwd_learning_forward that moves no mbuf.
LEMMA QuietMbuf ==
  ASSUME MbufInv, UNCHANGED <<mac_fwd_table, txbuf, pool, frame, rxq, sent, seen>>,
         Me.burst = <<>>, Me'.burst = <<>>, Me'.portid = Me.portid,
         Quiet(Me), Quiet(Me'), Me'.pc = "flush" => Me'.out = txbuf[Me'.txport]
  PROVE  MbufInv'
<1>1. ~Held /\ ~Held'
  BY DEF Held, Quiet
<1>2. ~Forwarding(Me') /\ Me'.pc \notin {"tx", "put", "port"}
  BY DEF Forwarding, Quiet
<1>3. FlightInv'
  <2>1. ~In("scan")' /\ ~In("flood")'
    BY DEF In, Quiet
  <2> QED
    BY <1>2, <2>1 DEF FlightInv
<1>4. TableContent'
  BY DEF MbufInv, TableContent, Quiet
<1> QED
  BY <1>1, <1>2, <1>3, <1>4, StillMbuf

\* The actions of l2fwd_main_loop that move no mbuf.
LEMMA LoopMbuf ==
  ASSUME OneLcore, NoZeroAddress, IndInv, MbufInv,
         \/ LoopExit(MasterLcore) \/ LoopDrain(MasterLcore) \/ LoopPoll(MasterLcore)
         \/ DrainDone(MasterLcore) \/ DrainPort(MasterLcore) \/ RxDone(MasterLcore)
         \/ BurstDone(MasterLcore)
  PROVE  MbufInv'
<1> DEFINE c == MasterLcore
<1>1. /\ c \in Lcores /\ Me \in LocalsOf(Full) /\ Me = lc[c] /\ Me' = lc'[c] /\ TypeInv
  BY Basics
<1>2. UNCHANGED <<mac_fwd_table, txbuf, pool, frame, rxq, sent, seen>>
  BY DEF LoopExit, LoopDrain, LoopPoll, DrainDone, DrainPort, RxDone, BurstDone,
         dpdkVars, tableVars
<1>3. Quiet(Me) /\ Quiet(Me')
  BY <1>1, QuietActions
<1>4. Me.burst = <<>>
  BY <1>1 DEF LoopExit, LoopDrain, LoopPoll, DrainDone, DrainPort, RxDone, BurstDone,
              MbufInv, FlightInv
<1> HIDE DEF c
<1>5. /\ Me'.burst = Me.burst /\ Me'.portid = Me.portid
      /\ Me'.pc = "flush" => Me'.out = txbuf[Me'.txport]
  <2>1. CASE LoopExit(c) \/ RxDone(c)
    <3>1. \E pc \in {"done", "top"} : Me' = [Me EXCEPT !.pc = pc]
      BY <1>1, <2>1, LocalsAfter
    <3> QED
      BY <1>1, <3>1 DEF LocalsOf
  <2>2. CASE LoopDrain(c) \/ LoopPoll(c) \/ DrainDone(c)
    <3>1. \E pc \in {"drain", "rx"} : Me' = [Me EXCEPT !.pc = pc, !.todo = RxPortList(c)]
      BY <1>1, <2>2, LocalsAfter
    <3> QED
      BY <1>1, <3>1 DEF LocalsOf
  <2>3. CASE DrainPort(c)
    <3> DEFINE p == DstPort(Head(Me.todo))
               pc == IF txbuf[p] = <<>> THEN "drain" ELSE "flush"
               out == txbuf[p]
               todo == Tail(Me.todo)
    <3>1. Me' = [Me EXCEPT !.pc = pc, !.todo = todo, !.txport = p, !.out = out,
                           !.ret = "drain"]
      BY <1>1, <2>3, LocalsAfter
    <3> HIDE DEF p, pc, todo
    <3>2. /\ Me'.burst = Me.burst /\ Me'.portid = Me.portid
          /\ Me'.txport = p /\ Me'.out = txbuf[p]
      BY <1>1, <3>1 DEF LocalsOf
    <3> QED
      BY <3>2
  <2>4. CASE BurstDone(c)
    <3>1. Me' = [Me EXCEPT !.pc = "rx", !.m = NoMbuf, !.f = NoFrame]
      BY <1>1, <2>4, LocalsAfter
    <3> QED
      BY <1>1, <3>1 DEF LocalsOf
  <2> QED
    BY <2>1, <2>2, <2>3, <2>4 DEF c
<1> QED
  BY <1>2, <1>3, <1>4, <1>5, QuietMbuf

\* The ports are 0 and 1.
LEMMA TwoPortNumbers ==
  ASSUME TwoPorts
  PROVE  Ports = {0, 1}
<1>1. NbPorts - 1 = 1
  BY DEF TwoPorts
<1>2. Ports = 0 .. 1
  BY <1>1 DEF Ports
<1> QED
  BY <1>2

\* A turn of the loop over the table.  A match is the first one, as no other
\* entry has that address: the frame is not queued yet.
LEMMA ScanMbuf ==
  ASSUME OneLcore, NoZeroAddress, IndInv, LearnInv, MbufInv, Scan(MasterLcore)
  PROVE  MbufInv'
<1> DEFINE c == MasterLcore
           e == mac_fwd_table[Me.i]
           hit == e.addr = Me.f.dst
           add == SrcKnown(c, e)
           found == Me.mac_dst_found \/ hit
           port == IF hit THEN e.port ELSE Me.txport
           pc == IF hit THEN "tx" ELSE "scan"
<1>1. /\ c \in Lcores /\ Me \in LocalsOf(Full) /\ Me = lc[c] /\ Me' = lc'[c] /\ TypeInv
      /\ Sane(Me, Full)
  BY Basics
<1>2. /\ UNCHANGED <<mac_fwd_table, txbuf, pool, frame, rxq, sent, seen>>
      /\ Me.pc = "scan" /\ Me.i < MacEntries
  BY <1>1 DEF Scan, tableVars, dpdkVars
<1>3. Me' = [Me EXCEPT !.pc = pc, !.i = Me.i + 1, !.mac_add = add,
                       !.mac_dst_found = found, !.txport = port, !.ret = "scan"]
  BY <1>1, LocalsAfter
<1>4. /\ FlightInv /\ OnePlace /\ QueueContent /\ MyContent /\ TableContent
      /\ TableInv
  BY DEF MbufInv, LearnInv
<1>5. /\ pc \in {"tx", "scan"} /\ (hit <=> pc = "tx")
      /\ (hit => port = e.port /\ found = TRUE)
      /\ ~hit => found = Me.mac_dst_found
  BY <1>1 DEF LocalsOf
<1> HIDE DEF c, pc, add, found, port
<1>6. /\ Me'.pc = pc /\ Me'.i = Me.i + 1 /\ Me'.mac_dst_found = found /\ Me'.txport = port
      /\ Me'.ret = "scan" /\ Me'.f = Me.f /\ Me'.m = Me.m /\ Me'.burst = Me.burst
      /\ Me'.portid = Me.portid /\ Me.i \in Nat
  BY <1>1, <1>3 DEF LocalsOf
<1>7. Me.i \in Entries /\ Me.f.dst # Zero
  <2>1. Me.f \in Frames
    BY <1>1, <1>2 DEF Sane, Forwarding
  <2>2. Zero \notin Destinations
    BY SourcesAreHosts
  <2> QED
    BY <1>2, <1>6, <2>1, <2>2, EntryNumbers DEF Frames
<1>8. hit => ~Me.mac_dst_found
  <2> SUFFICES ASSUME hit, Me.mac_dst_found PROVE FALSE
    OBVIOUS
  <2>1. PICK i \in Entries : i < Me.i /\ mac_fwd_table[i].addr = Me.f.dst
    BY <1>2, <1>4 DEF FlightInv, In
  <2>2. i = Me.i
    BY <1>4, <1>7, <2>1 DEF TableInv
  <2> QED
    BY <1>6, <2>1, <2>2
<1>9. Held' <=> Held
  BY <1>2, <1>5, <1>6, <1>8 DEF Held
<1>10. Me'.pc \in {"tx", "put"} => MayLeave(Me'.f, Me'.txport, seen)
  BY <1>2, <1>4, <1>5, <1>6, <1>7 DEF TableContent, MayLeave
<1>11. FlightInv'
  <2>1. In("scan")' /\ ~In("flood")'
    BY <1>5, <1>6 DEF In
  <2>2. found => \E i \in Entries : i < Me.i + 1 /\ mac_fwd_table[i].addr = Me.f.dst
    <3>1. CASE hit
      BY <1>6, <1>7, <3>1
    <3>2. CASE ~hit
      <4> SUFFICES ASSUME found PROVE \E i \in Entries : i < Me.i + 1 /\ mac_fwd_table[i].addr = Me.f.dst
        OBVIOUS
      <4>1. PICK i \in Entries : i < Me.i /\ mac_fwd_table[i].addr = Me.f.dst
        BY <1>2, <1>4, <1>5, <3>2 DEF FlightInv, In
      <4>2. i < Me.i + 1
        BY <1>6, <4>1, EntryNumbers
      <4> QED
        BY <4>1, <4>2
    <3> QED
      BY <3>1, <3>2
  <2> HIDE DEF hit, e
  <2> QED
    BY <1>2, <1>5, <1>6, <2>1, <2>2 DEF FlightInv
<1>12. TableContent'
  BY <1>2, <1>4 DEF TableContent
<1>13. Forwarding(Me)
  BY <1>2 DEF Forwarding
<1> QED
  BY <1>2, <1>6, <1>9, <1>10, <1>11, <1>12, <1>13, StillMbuf

\* A turn of the loop over the ports.  Of two ports only one is not the
\* frame's own, so the frame is not queued before that one's turn.
LEMMA FloodMbuf ==
  ASSUME OneLcore, NoZeroAddress, TwoPorts, IndInv, MbufInv, Flood(MasterLcore)
  PROVE  MbufInv'
<1> DEFINE c == MasterLcore
           pc == IF FloodsTo(c, Me.i) THEN "tx" ELSE "flood"
           i == Me.i
           n == Me.i + 1
<1>1. /\ c \in Lcores /\ Me \in LocalsOf(Full) /\ Me = lc[c] /\ Me' = lc'[c] /\ TypeInv
  BY Basics
<1>2. /\ UNCHANGED <<mac_fwd_table, txbuf, pool, frame, rxq, sent, seen>>
      /\ Me.pc = "flood" /\ Me.i < NbPorts
  BY <1>1 DEF Flood, tableVars, dpdkVars
<1>3. Me' = [Me EXCEPT !.pc = pc, !.txport = i, !.ret = "flood", !.i = n]
  BY <1>1, LocalsAfter
<1>4. FlightInv /\ MyContent /\ TableContent
  BY DEF MbufInv
<1>5. pc \in {"tx", "flood"} /\ (pc = "tx" <=> Me.i # Me.portid)
  BY <1>1 DEF FloodsTo
<1> HIDE DEF c, pc
<1>6. /\ Me'.pc = pc /\ Me'.i = Me.i + 1 /\ Me'.txport = Me.i
      /\ Me'.ret = "flood" /\ Me'.f = Me.f /\ Me'.m = Me.m /\ Me'.burst = Me.burst
      /\ Me'.portid = Me.portid /\ Me.i \in Nat /\ Me.portid \in Ports
  BY <1>1, <1>3 DEF LocalsOf
<1>7. Me.i \in {0, 1} /\ Me.portid \in {0, 1} /\ NbPorts = 2 /\ Ports = {0, 1}
  BY <1>2, <1>6, TwoPortNumbers DEF TwoPorts
<1>8. Held' <=> Held
  <2>1. Held <=> \A p \in {0, 1} : p < Me.i => p = Me.portid
    BY <1>2, <1>7 DEF Held
  <2>2. CASE pc = "tx"
    BY <1>5, <1>6, <1>7, <2>1, <2>2 DEF Held
  <2>3. CASE pc = "flood"
    <3>1. Held' <=> \A p \in {0, 1} : p < Me.i + 1 => p = Me.portid
      BY <1>6, <1>7, <2>3 DEF Held
    <3> QED
      BY <1>5, <1>7, <2>1, <2>3, <3>1
  <2> QED
    BY <1>5, <2>2, <2>3
<1>9. Me'.pc \in {"tx", "put"} => MayLeave(Me'.f, Me'.txport, seen)
  <2>1. Me.f.port = Me.portid
    BY <1>2, <1>4 DEF MyContent, Forwarding, From
  <2> QED
    BY <1>5, <1>6, <2>1 DEF MayLeave
<1>10. FlightInv'
  <2>1. In("flood")' /\ ~In("scan")'
    BY <1>5, <1>6 DEF In
  <2>2. Me.i + 1 <= NbPorts /\ Me.i < Me.i + 1
    BY <1>7
  <2> QED
    BY <1>5, <1>6, <2>1, <2>2 DEF FlightInv
<1>11. TableContent'
  BY <1>2, <1>4 DEF TableContent
<1>12. Forwarding(Me)
  BY <1>2 DEF Forwarding
<1> QED
  BY <1>2, <1>6, <1>8, <1>9, <1>10, <1>11, <1>12, StillMbuf

\* Both loops end with the frame queued, or go on with flooding.
LEMMA LoopsEndMbuf ==
  ASSUME OneLcore, NoZeroAddress, TwoPorts, IndInv, MbufInv,
         ScanDone(MasterLcore) \/ FloodDone(MasterLcore)
  PROVE  MbufInv'
<1> DEFINE c == MasterLcore
           after == AfterForward(c)
           pc == IF Me.mac_dst_found THEN after ELSE "flood"
<1>1. /\ c \in Lcores /\ Me \in LocalsOf(Full) /\ Me = lc[c] /\ Me' = lc'[c] /\ TypeInv
  BY Basics
<1>2. UNCHANGED <<mac_fwd_table, txbuf, pool, frame, rxq, sent, seen>>
  BY DEF ScanDone, FloodDone, tableVars, dpdkVars
<1>3. FlightInv /\ MyContent /\ TableContent
  BY DEF MbufInv
<1>4. after \in {"next", "addr"} /\ (Me.mac_dst_found => pc = after)
      /\ (~Me.mac_dst_found => pc = "flood")
  BY DEF AfterForward
<1>5. \/ Me.pc = "scan" /\ Me' = [Me EXCEPT !.pc = pc, !.i = 0]
      \/ Me.pc = "flood" /\ Me.i = NbPorts /\ Me' = [Me EXCEPT !.pc = after]
  <2>1. CASE ScanDone(c)
    <3>1. Me.pc = "scan"
      BY <1>1, <2>1 DEF ScanDone
    <3>2. Me' = [Me EXCEPT !.pc = pc, !.i = 0]
      BY <1>1, <2>1, LocalsAfter
    <3> HIDE DEF pc, after
    <3> QED
      BY <3>1, <3>2
  <2>2. CASE FloodDone(c)
    <3>1. Me.pc = "flood" /\ Me.i = NbPorts
      BY <1>1, <2>2 DEF FloodDone
    <3>2. Me' = [Me EXCEPT !.pc = after]
      BY <1>1, <2>2, LocalsAfter
    <3> HIDE DEF pc, after
    <3> QED
      BY <3>1, <3>2
  <2> QED
    BY <2>1, <2>2
<1> HIDE DEF c, after, pc
<1>6. /\ Me'.f = Me.f /\ Me'.m = Me.m /\ Me'.burst = Me.burst
      /\ Me'.portid = Me.portid /\ Me.portid \in Ports
      /\ \/ Me.pc = "scan" /\ Me'.pc = pc /\ Me'.i = 0
         \/ Me.pc = "flood" /\ Me.i = NbPorts /\ Me'.pc = after
  BY <1>1, <1>5 DEF LocalsOf
<1>7. Ports = {0, 1} /\ NbPorts = 2
  BY TwoPortNumbers DEF TwoPorts
<1>8. Held' <=> Held
  <2>1. CASE Me.pc = "scan" /\ Me'.pc = pc /\ Me'.i = 0
    <3>1. CASE Me.mac_dst_found
      BY <1>4, <2>1, <3>1 DEF Held
    <3>2. CASE ~Me.mac_dst_found
      <4>1. \A p \in Ports : p < 0 => p = Me'.portid
        BY <1>7
      <4> QED
        BY <1>4, <2>1, <3>2, <4>1 DEF Held
    <3> QED
      BY <3>1, <3>2
  <2>2. CASE Me.pc = "flood" /\ Me.i = NbPorts /\ Me'.pc = after
    <3>1. ~Held'
      BY <1>4, <2>2 DEF Held
    <3>2. ~(\A p \in Ports : p < Me.i => p = Me.portid)
      BY <1>7, <2>2
    <3> QED
      BY <2>2, <3>1, <3>2 DEF Held
  <2> QED
    BY <1>6, <2>1, <2>2
<1>9. Me'.pc \in {"next", "addr", "flood"} /\ (Me'.pc = "flood" => Me'.i = 0)
  BY <1>4, <1>6
<1>10. FlightInv'
  <2>1. ~In("scan")' /\ (In("flood")' => Me'.pc = "flood")
    BY <1>9 DEF In
  <2>2. 0 <= NbPorts
    BY <1>7
  <2> QED
    BY <1>9, <2>1, <2>2 DEF FlightInv
<1>11. TableContent'
  BY <1>2, <1>3, <1>6 DEF TableContent
<1>12. Forwarding(Me)
  BY <1>6 DEF Forwarding
<1> QED
  BY <1>2, <1>6, <1>8, <1>9, <1>10, <1>11, <1>12, StillMbuf

\* The transmit call that reads the buffer, and the one that ends the process.
LEMMA TransmitMbuf ==
  ASSUME OneLcore, NoZeroAddress, IndInv, MbufInv, TxRead(MasterLcore) \/ FlushRefused(MasterLcore)
  PROVE  MbufInv'
<1> DEFINE c == MasterLcore
<1>1. /\ c \in Lcores /\ Me \in LocalsOf(Full) /\ Me = lc[c] /\ Me' = lc'[c] /\ TypeInv
      /\ Sane(Me, Full)
  BY Basics
<1>2. UNCHANGED <<mac_fwd_table, txbuf, pool, frame, rxq, sent, seen>>
  BY DEF TxRead, FlushRefused, tableVars, dpdkVars
<1>3. FlightInv /\ MyContent /\ TableContent
  BY DEF MbufInv
<1>4. CASE TxRead(c)
  <2> DEFINE out == txbuf[Me.txport]
  <2>1. Me' = [Me EXCEPT !.pc = "put", !.out = out]
    BY <1>1, <1>4, LocalsAfter
  <2>2. Me.pc = "tx"
    BY <1>1, <1>4 DEF TxRead
  <2> HIDE DEF c, out
  <2>3. /\ Me'.pc = "put" /\ Me'.out = out /\ Me'.f = Me.f /\ Me'.m = Me.m
        /\ Me'.burst = Me.burst /\ Me'.portid = Me.portid /\ Me'.txport = Me.txport
        /\ Me'.ret = Me.ret /\ Me'.i = Me.i /\ Me'.mac_dst_found = Me.mac_dst_found
    BY <1>1, <2>1 DEF LocalsOf
  <2>4. (Held' <=> Held) /\ Forwarding(Me)
    BY <2>2, <2>3 DEF Held, Forwarding
  <2>5. MayLeave(Me'.f, Me'.txport, seen)
    BY <1>3, <2>2, <2>3 DEF MyContent
  <2>6. FlightInv'
    <3>1. (In("scan")' <=> In("scan")) /\ (In("flood")' <=> In("flood"))
      BY <2>2, <2>3 DEF In
    <3>2. Me'.out = txbuf'[Me'.txport]
      BY <1>2, <2>3 DEF out
    <3> QED
      BY <1>2, <1>3, <2>2, <2>3, <3>1, <3>2 DEF FlightInv
  <2>7. TableContent'
    BY <1>2, <1>3, <2>2 DEF TableContent
  <2> QED
    BY <1>2, <2>3, <2>4, <2>5, <2>6, <2>7, StillMbuf
<1>5. CASE FlushRefused(c)
  <2>1. Me' = Me /\ Me.pc = "flush"
    BY <1>1, <1>5, LocalsAfter DEF FlushRefused
  <2>2. Held' <=> Held
    BY <2>1 DEF Held
  <2>3. FlightInv' /\ TableContent'
    BY <1>2, <1>3, <2>1 DEF FlightInv, TableContent, In
  <2> QED
    BY <1>2, <2>1, <2>2, <2>3, StillMbuf
<1> QED
  BY <1>4, <1>5 DEF c

\* The three writes that enter a host in the table.
LEMMA LearnMbuf ==
  ASSUME OneLcore, NoZeroAddress, IndInv, LearnInv, MbufInv,
         LearnAddr(MasterLcore) \/ LearnPort(MasterLcore) \/ LearnCount(MasterLcore)
  PROVE  MbufInv'
<1> DEFINE c == MasterLcore
<1>1. /\ c \in Lcores /\ Me \in LocalsOf(Full) /\ Me = lc[c] /\ Me' = lc'[c] /\ TypeInv
      /\ Sane(Me, Full)
  BY Basics
<1>2. /\ UNCHANGED <<txbuf, pool, frame, rxq, sent, seen>>
      /\ Me.pc \in {"addr", "port", "count"}
  BY <1>1 DEF LearnAddr, LearnPort, LearnCount, dpdkVars
<1>3. FlightInv /\ MyContent /\ TableContent
  BY DEF MbufInv
<1>4. /\ mac_counter \in Nat /\ MacEntries \in Nat
      /\ mac_fwd_table \in [Entries -> [addr : Sources \cup {Zero}, port : Ports]]
  BY <1>1, EntryNumbers DEF TypeInv, TableType, Entries
<1>5. Forwarding(Me) /\ ~Held
  BY <1>2 DEF Forwarding, Held
<1> HIDE DEF c
<1>6. ASSUME NEW pc \in {"addr", "port", "count", "next"}, Me'.pc = pc,
             Me'.f = Me.f, Me'.burst = Me.burst, Me'.portid = Me.portid, TableContent',
             pc = "port" => mac_fwd_table'[Me'.slot].addr = Me.f.src
      PROVE  MbufInv'
  <2>1. ~Held' /\ ~In("scan")' /\ ~In("flood")'
    BY <1>6 DEF Held, In
  <2>2. FlightInv'
    BY <1>6, <2>1 DEF FlightInv
  <2> QED
    BY <1>2, <1>5, <1>6, <2>1, <2>2, StillMbuf
<1>7. CASE LearnAddr(c)
  <2>1. CASE ~(mac_counter < MacEntries)
    <3>1. UNCHANGED <<mac_fwd_table, Me>>
      BY <1>1, <1>7, <2>1 DEF LearnAddr
    <3>2. TableContent'
      BY <1>2, <1>3, <3>1 DEF TableContent
    <3> QED
      BY <1>2, <1>3, <1>6, <3>1, <3>2 DEF FlightInv
  <2>2. CASE mac_counter < MacEntries
    <3>1. /\ mac_fwd_table' = [mac_fwd_table EXCEPT ![mac_counter].addr = Me.f.src]
          /\ Me.pc = "addr"
      BY <1>1, <1>7, <2>2 DEF LearnAddr
    <3>2. Me' = [Me EXCEPT !.pc = "port", !.slot = mac_counter]
      BY <1>1, <1>7, <2>2, LocalsAfter
    <3>3. /\ Me'.pc = "port" /\ Me'.slot = mac_counter /\ Me'.f = Me.f
          /\ Me'.burst = Me.burst /\ Me'.portid = Me.portid
      BY <1>1, <3>2 DEF LocalsOf
    <3>4. \A i \in Entries \ {mac_counter} : mac_fwd_table'[i] = mac_fwd_table[i]
      BY <1>4, <3>1
    <3>5. TableContent'
      BY <1>2, <1>3, <3>1, <3>3, <3>4 DEF TableContent
    <3>6. mac_fwd_table'[mac_counter].addr = Me.f.src
      BY <1>4, <2>2, <3>1, EntryNumbers
    <3> QED
      BY <1>6, <3>3, <3>5, <3>6
  <2> QED
    BY <2>1, <2>2
<1>8. CASE LearnPort(c)
  <2>1. /\ mac_fwd_table' = [mac_fwd_table EXCEPT ![Me.slot].port = Me.portid]
        /\ Me.pc = "port"
    BY <1>8, LearnPortAlone DEF c, LearnInv
  <2>2. Me' = [Me EXCEPT !.pc = "count"]
    BY <1>8, LearnPortAlone DEF c, LearnInv
  <2>3. /\ Me'.pc = "count" /\ Me'.slot = Me.slot /\ Me'.f = Me.f
        /\ Me'.burst = Me.burst /\ Me'.portid = Me.portid
    BY <1>1, <2>2 DEF LocalsOf
  <2>4. Me.slot \in Entries
    BY <1>1, <2>1, EntryNumbers DEF Sane, LocalsOf
  <2>5. /\ \A i \in Entries \ {Me.slot} : mac_fwd_table'[i] = mac_fwd_table[i]
        /\ mac_fwd_table'[Me.slot].port = Me.portid
        /\ mac_fwd_table'[Me.slot].addr = mac_fwd_table[Me.slot].addr
    BY <1>4, <2>1, <2>4
  <2>6. <<Me.f.src, Me.portid>> \in seen /\ mac_fwd_table[Me.slot].addr = Me.f.src
    BY <1>3, <1>5, <2>1 DEF MyContent, From, FlightInv
  <2>7. TableContent'
    BY <1>2, <1>3, <2>1, <2>3, <2>4, <2>5, <2>6 DEF TableContent
  <2> QED
    BY <1>6, <2>3, <2>7
<1>9. CASE LearnCount(c)
  <2>1. UNCHANGED mac_fwd_table /\ Me.pc = "count"
    BY <1>1, <1>9 DEF LearnCount
  <2>2. Me' = [Me EXCEPT !.pc = "next"]
    BY <1>1, <1>9, LocalsAfter
  <2>3. /\ Me'.pc = "next" /\ Me'.f = Me.f
        /\ Me'.burst = Me.burst /\ Me'.portid = Me.portid
    BY <1>1, <2>2 DEF LocalsOf
  <2>4. TableContent'
    BY <1>2, <1>3, <2>1, <2>3 DEF TableContent
  <2> QED
    BY <1>6, <2>3, <2>4
<1> QED
  BY <1>7, <1>8, <1>9 DEF c

\* main, signals and arriving frames.
LEMMA EnvironmentMbuf ==
  ASSUME OneLcore, NoZeroAddress, IndInv, LearnInv, MbufInv, Main \/ Signal \/ Network
  PROVE  MbufInv'
<1>1. CASE Network
  BY <1>1, ArriveMbuf DEF Network
<1>2. CASE Main \/ Signal
  <2>1. UNCHANGED <<mac_fwd_table, txbuf, pool, frame, rxq, sent, seen>>
    BY <1>2 DEF Main, Signal, InitPort, InitPortFailed, CheckLinks, WaitLcores, ClosePort,
                dpdkVars, tableVars
  <2>2. CASE UNCHANGED <<Me>>
    <3>1. UNCHANGED <<Held, FlightInv, TableContent>>
      BY <2>1, <2>2 DEF Held, FlightInv, TableContent, In
    <3>2. MyContent
      BY DEF MbufInv
    <3> QED
      BY <2>1, <2>2, <3>1, <3>2, StillMbuf DEF MbufInv, MyContent
  <2>3. ASSUME NEW pc \in {"done", "top"}, Me' = [Me EXCEPT !.pc = pc], Me.pc = "off"
        PROVE  MbufInv'
    <3>1. Me.burst = <<>>
      BY <2>3 DEF MbufInv, FlightInv
    <3>2. Me'.pc = pc /\ Me'.burst = Me.burst /\ Me'.portid = Me.portid
      BY <2>3, Basics DEF LocalsOf
    <3>3. Quiet(Me) /\ Quiet(Me')
      BY <2>3, <3>2 DEF Quiet
    <3> QED
      BY <2>1, <2>3, <3>1, <3>2, <3>3, QuietMbuf
  <2> QED
    BY <1>2, <2>2, <2>3, EnvironmentStep
<1> QED
  BY <1>1, <1>2

\* The kinds of places.
LEMMA Kinds ==
  /\ \A b, kind, q, k : At(b, kind, q, k) =>
       \/ kind = "pool" /\ q = 0 /\ k = 0
       \/ kind = "rx" /\ q \in Ports
       \/ kind = "tx" /\ q \in Ports
       \/ kind = "burst" /\ q = 0
       \/ kind = "held" /\ q = 0 /\ k = 0
  /\ \A b, kind, q, k : At(b, kind, q, k)' =>
       \/ kind = "pool" /\ q = 0 /\ k = 0
       \/ kind = "rx" /\ q \in Ports
       \/ kind = "tx" /\ q \in Ports
       \/ kind = "burst" /\ q = 0
       \/ kind = "held" /\ q = 0 /\ k = 0
BY DEF At

\* What each place says.
LEMMA PlaceMeans ==
  /\ \A b : At(b, "pool", 0, 0) <=> b \in pool
  /\ \A b, q, k : At(b, "rx", q, k) <=>
       q \in Ports /\ k \in 1 .. Len(rxq[q]) /\ rxq[q][k] = b
  /\ \A b, q, k : At(b, "tx", q, k) <=>
       q \in Ports /\ k \in 1 .. Len(txbuf[q]) /\ txbuf[q][k].mb = b
  /\ \A b, k : At(b, "burst", 0, k) <=> k \in 1 .. Len(Me.burst) /\ Me.burst[k] = b
  /\ \A b : At(b, "held", 0, 0) <=> Held /\ Me.m = b
BY DEF At

\* The same after a step.
LEMMA PlaceMeansNext ==
  /\ \A b : At(b, "pool", 0, 0)' <=> b \in pool'
  /\ \A b, q, k : At(b, "rx", q, k)' <=>
       q \in Ports /\ k \in 1 .. Len(rxq'[q]) /\ rxq'[q][k] = b
  /\ \A b, q, k : At(b, "tx", q, k)' <=>
       q \in Ports /\ k \in 1 .. Len(txbuf'[q]) /\ txbuf'[q][k].mb = b
  /\ \A b, k : At(b, "burst", 0, k)' <=> k \in 1 .. Len(Me'.burst) /\ Me'.burst[k] = b
  /\ \A b : At(b, "held", 0, 0)' <=> Held' /\ Me'.m = b
BY DEF At

\* rte_eth_rx_burst moves the first mbufs of an RX queue to the burst.
LEMMA RxBurstMbuf ==
  ASSUME OneLcore, NoZeroAddress, IndInv, MbufInv, RxBurst(MasterLcore)
  PROVE  MbufInv'
<1> DEFINE c == MasterLcore
           p0 == Head(Me.todo)
           n0 == IF Len(rxq[p0]) < MaxPktBurst THEN Len(rxq[p0]) ELSE MaxPktBurst
           taken == SubSeq(rxq[p0], 1, n0)
           rest == SubSeq(rxq[p0], n0 + 1, Len(rxq[p0]))
           todo == Tail(Me.todo)
<1>1. /\ c \in Lcores /\ Me \in LocalsOf(Full) /\ Me = lc[c] /\ Me' = lc'[c] /\ TypeInv
      /\ \A q \in Ports : Len(rxq[q]) \in Nat
  BY Basics
<1>2. /\ UNCHANGED <<mac_fwd_table, txbuf, pool, frame, sent, seen>>
      /\ Me.pc = "rx" /\ Me.todo # <<>>
      /\ rxq' = [rxq EXCEPT ![p0] = rest]
  BY <1>1 DEF RxBurst, tableVars
<1>3. Me' = [Me EXCEPT !.pc = "next", !.todo = todo, !.portid = p0, !.burst = taken]
  BY <1>1, LocalsAfter
<1>4. /\ FlightInv /\ OnePlace /\ QueueContent /\ TableContent /\ SentContent
  BY DEF MbufInv
<1>5. p0 \in Ports
  <2>1. Me.todo \in Seq(Ports)
    BY <1>1 DEF LocalsOf
  <2> QED
    BY <1>2, <2>1, HeadTailProperties
<1>6. rxq \in [Ports -> Seq(Full)] /\ rxq[p0] \in Seq(Full)
  BY <1>1, <1>5 DEF TypeInv, DpdkType
<1>7. /\ n0 \in 0 .. Len(rxq[p0]) /\ Len(taken) = n0
      /\ \A k \in 1 .. n0 : taken[k] = rxq[p0][k]
      /\ Len(rest) = Len(rxq[p0]) - n0
      /\ \A k \in 1 .. Len(rxq[p0]) - n0 : rest[k] = rxq[p0][n0 + k]
  BY <1>6, TakeType
<1> HIDE DEF c, p0, n0, taken, rest, todo
<1>8. PICK p, n, len : p = p0 /\ n = n0 /\ len = Len(rxq[p0])
  OBVIOUS
<1>9. /\ Me'.pc = "next" /\ Me'.portid = p /\ Me'.burst = taken
  BY <1>1, <1>3, <1>8 DEF LocalsOf
<1>10. Me.burst = <<>> /\ ~Held /\ ~Held' /\ ~Forwarding(Me')
  BY <1>2, <1>4, <1>9 DEF FlightInv, Held, Forwarding
<1>11. /\ p \in Ports /\ len \in Nat /\ n \in Nat /\ n <= len
       /\ \A q \in Ports \ {p} : rxq'[q] = rxq[q]
       /\ Len(rxq[p]) = len /\ Len(rxq'[p]) = len - n /\ Len(Me'.burst) = n
       /\ \A k \in 1 .. n : Me'.burst[k] = rxq[p][k]
       /\ \A k \in 1 .. len - n : rxq'[p][k] = rxq[p][n + k]
  <2>1. rxq'[p0] = rest /\ \A q \in Ports \ {p0} : rxq'[q] = rxq[q]
    BY <1>2, <1>5, <1>6
  <2>2. len \in Nat /\ n \in Nat /\ n <= len
    BY <1>1, <1>5, <1>7, <1>8
  <2> QED
    BY <1>5, <1>7, <1>8, <1>9, <2>1, <2>2
<1>12. OnePlace'
  <2> SUFFICES ASSUME NEW b \in Mbufs
               PROVE  \E kind, q, k :
                        /\ At(b, kind, q, k)'
                        /\ \A kind2, q2, k2 : At(b, kind2, q2, k2)' =>
                             kind2 = kind /\ q2 = q /\ k2 = k
    BY DEF OnePlace
  <2>1. ASSUME NEW q \in Ports \ {p}, NEW k
        PROVE  At(b, "rx", q, k)' <=> At(b, "rx", q, k)
    <3>1. rxq'[q] = rxq[q]
      BY <1>11
    <3> QED
      BY <3>1, PlaceMeans, PlaceMeansNext
  <2>2. ASSUME NEW k, At(b, "rx", p, k)'
        PROVE  k \in Nat /\ 1 <= k /\ At(b, "rx", p, n + k)
    <3>1. k \in 1 .. len - n /\ rxq'[p][k] = b
      BY <1>11, <2>2, PlaceMeansNext
    <3>2. k \in Nat /\ 1 <= k /\ n + k \in 1 .. len /\ rxq[p][n + k] = b
      BY <1>11, <3>1
    <3> QED
      BY <1>11, <3>2, PlaceMeans
  <2>3. ASSUME NEW k, At(b, "burst", 0, k)'
        PROVE  k \in 1 .. n /\ At(b, "rx", p, k)
    <3>1. k \in 1 .. n /\ rxq[p][k] = b
      BY <1>11, <2>3, PlaceMeansNext
    <3>2. k \in 1 .. Len(rxq[p])
      BY <1>11, <3>1
    <3> QED
      BY <1>11, <3>1, <3>2, PlaceMeans
  <2>4. /\ At(b, "pool", 0, 0)' <=> At(b, "pool", 0, 0)
        /\ \A q, k : At(b, "tx", q, k)' <=> At(b, "tx", q, k)
        /\ ~At(b, "held", 0, 0)'
        /\ ~At(b, "held", 0, 0) /\ \A k : ~At(b, "burst", 0, k)
    <3>1. Len(Me.burst) = 0
      BY <1>10
    <3> QED
      BY <1>2, <1>10, <3>1, PlaceMeans, PlaceMeansNext
  <2>5. PICK kind, q, k :
          /\ At(b, kind, q, k)
          /\ \A kind2, q2, k2 : At(b, kind2, q2, k2) => kind2 = kind /\ q2 = q /\ k2 = k
    BY <1>4 DEF OnePlace
  <2>6. CASE kind # "rx" \/ q # p
    <3>1. At(b, kind, q, k)'
      BY <2>1, <2>4, <2>5, <2>6, Kinds
    <3>2. ASSUME NEW kind2, NEW q2, NEW k2, At(b, kind2, q2, k2)'
          PROVE  kind2 = kind /\ q2 = q /\ k2 = k
      <4>1. ~(kind2 = "rx" /\ q2 = p)
        BY <2>2, <2>5, <2>6, <3>2
      <4>2. ~(kind2 = "burst" /\ q2 = 0)
        BY <2>3, <2>5, <2>6, <3>2
      <4>3. At(b, kind2, q2, k2)
        BY <2>1, <2>4, <3>2, <4>1, <4>2, Kinds
      <4> QED
        BY <2>5, <4>3
    <3> QED
      BY <3>1, <3>2
  <2>7. CASE kind = "rx" /\ q = p
    <3>1. k \in 1 .. len /\ rxq[p][k] = b
      BY <1>11, <2>5, <2>7, PlaceMeans
    <3>2. ASSUME NEW kind2, NEW q2, NEW k2, At(b, kind2, q2, k2)'
          PROVE  \/ kind2 = "rx" /\ q2 = p /\ k2 \in Nat /\ 1 <= k2 /\ n + k2 = k
                 \/ kind2 = "burst" /\ q2 = 0 /\ k2 \in 1 .. n /\ k2 = k
      <4>1. /\ ~(kind2 = "pool" /\ q2 = 0 /\ k2 = 0) /\ kind2 # "tx"
            /\ ~(kind2 = "held" /\ q2 = 0 /\ k2 = 0)
        BY <2>4, <2>5, <2>7, <3>2
      <4>2. kind2 = "rx" => q2 = p
        BY <2>1, <2>5, <2>7, <3>2, Kinds
      <4>3. (kind2 = "rx" /\ q2 = p) \/ (kind2 = "burst" /\ q2 = 0)
        BY <3>2, <4>1, <4>2, Kinds
      <4>4. CASE kind2 = "rx" /\ q2 = p
        BY <2>2, <2>5, <2>7, <3>2, <4>4
      <4>5. CASE kind2 = "burst" /\ q2 = 0
        BY <2>3, <2>5, <2>7, <3>2, <4>5
      <4> QED
        BY <4>3, <4>4, <4>5
    <3>3. CASE k <= n
      <4>1. k \in 1 .. n
        BY <1>11, <3>1, <3>3
      <4>2. At(b, "burst", 0, k)'
        BY <1>11, <3>1, <4>1, PlaceMeansNext
      <4>3. \A k2 \in Nat : 1 <= k2 => n + k2 # k
        BY <1>11, <3>1, <3>3
      <4> QED
        BY <3>2, <4>2, <4>3
    <3>4. CASE ~(k <= n)
      <4>1. PICK j : j = k - n
        OBVIOUS
      <4>2. j \in 1 .. len - n /\ n + j = k /\ k \notin 1 .. n
        BY <1>11, <3>1, <3>4, <4>1
      <4>3. At(b, "rx", p, j)'
        BY <1>11, <3>1, <4>2, PlaceMeansNext
      <4>4. \A k2 \in Nat : n + k2 = k => k2 = j
        BY <1>11, <4>1
      <4> QED
        BY <3>2, <4>2, <4>3, <4>4
    <3> QED
      BY <3>3, <3>4
  <2> QED
    BY <2>6, <2>7
<1>13. FlightInv' /\ TableContent' /\ SentContent'
  BY <1>2, <1>4, <1>9 DEF FlightInv, In, TableContent, SentContent, NeverReflected, SentIntact
<1>14. \A k \in 1 .. len : From(frame[rxq[p][k]], p, seen)
  BY <1>4, <1>11 DEF QueueContent
<1>15. QueueContent'
  <2>1. ASSUME NEW q \in Ports, NEW k \in 1 .. Len(rxq'[q])
        PROVE  From(frame'[rxq'[q][k]], q, seen')
    <3>1. CASE q = p
      <4>1. n + k \in 1 .. len /\ rxq'[q][k] = rxq[p][n + k]
        BY <1>11, <3>1
      <4> QED
        BY <1>2, <1>14, <3>1, <4>1
    <3>2. CASE q # p
      BY <1>2, <1>4, <1>11, <3>2 DEF QueueContent
    <3> QED
      BY <3>1, <3>2
  <2> QED
    BY <1>2, <1>4, <2>1 DEF QueueContent
<1>16. MyContent'
  <2>1. \A k \in 1 .. Len(Me'.burst) : From(frame'[Me'.burst[k]], Me'.portid, seen')
    <3> SUFFICES ASSUME NEW k \in 1 .. n PROVE From(frame[rxq[p][k]], p, seen)
      BY <1>2, <1>9, <1>11
    <3>1. k \in 1 .. len
      BY <1>11
    <3> QED
      BY <1>14, <3>1
  <2> QED
    BY <1>9, <1>10, <2>1 DEF MyContent, Forwarding
<1> QED
  BY <1>12, <1>13, <1>15, <1>16 DEF MbufInv

\* l2fwd_learning_forward takes the first mbuf of the burst.
LEMMA NextPacketMbuf ==
  ASSUME OneLcore, NoZeroAddress, IndInv, MbufInv, NextPacket(MasterLcore)
  PROVE  MbufInv'
<1> DEFINE c == MasterLcore
           h == Head(Me.burst)
           t == Tail(Me.burst)
           f == frame[h]
<1>1. /\ c \in Lcores /\ Me \in LocalsOf(Full) /\ Me = lc[c] /\ Me' = lc'[c] /\ TypeInv
      /\ Len(Me.burst) \in Nat /\ Me.burst \in Seq(Full)
  BY Basics
<1>2. /\ UNCHANGED <<mac_fwd_table, txbuf, pool, frame, rxq, sent, seen>>
      /\ Me.pc = "next" /\ Me.burst # <<>>
  BY <1>1 DEF NextPacket, tableVars, dpdkVars
<1>3. Me' = [Me EXCEPT !.pc = "scan", !.burst = t, !.m = h, !.f = f, !.i = 0,
                       !.mac_add = FALSE, !.mac_dst_found = FALSE]
  BY <1>1, LocalsAfter
<1>4. /\ OnePlace /\ QueueContent /\ MyContent /\ TableContent /\ SentContent
  BY DEF MbufInv
<1>5. /\ h = Me.burst[1] /\ Len(t) = Len(Me.burst) - 1 /\ Len(Me.burst) >= 1
      /\ \A k \in 1 .. Len(t) : t[k] = Me.burst[k + 1]
  <2>1. /\ Len(t) = Len(Me.burst) - 1 /\ t \in Seq(Full)
        /\ \A k \in 1 .. Len(t) : t[k] = Me.burst[k + 1]
    BY <1>1, <1>2, HeadTailProperties
  <2>2. Len(t) \in Nat
    BY <2>1, LenProperties
  <2>3. h = Me.burst[1]
    BY <1>1, <1>2
  <2> QED
    BY <1>1, <2>1, <2>2, <2>3
<1> HIDE DEF c, h, t, f
<1>6. PICK len : len = Len(Me.burst)
  OBVIOUS
<1>7. /\ Me'.pc = "scan" /\ Me'.burst = t /\ Me'.m = h /\ Me'.f = f /\ Me'.i = 0
      /\ Me'.mac_dst_found = FALSE /\ Me'.portid = Me.portid
  BY <1>1, <1>3 DEF LocalsOf
<1>8. /\ len \in Nat /\ 1 <= len /\ Len(Me.burst) = len /\ Len(Me'.burst) = len - 1
      /\ Me'.m = Me.burst[1]
      /\ \A k \in 1 .. len - 1 : Me'.burst[k] = Me.burst[k + 1]
  BY <1>1, <1>5, <1>6, <1>7
<1>9. ~Held /\ Held'
  BY <1>2, <1>7 DEF Held
<1>10. OnePlace'
  <2> SUFFICES ASSUME NEW b \in Mbufs
               PROVE  \E kind, q, k :
                        /\ At(b, kind, q, k)'
                        /\ \A kind2, q2, k2 : At(b, kind2, q2, k2)' =>
                             kind2 = kind /\ q2 = q /\ k2 = k
    BY DEF OnePlace
  <2>1. /\ At(b, "pool", 0, 0)' <=> At(b, "pool", 0, 0)
        /\ \A q, k : At(b, "rx", q, k)' <=> At(b, "rx", q, k)
        /\ \A q, k : At(b, "tx", q, k)' <=> At(b, "tx", q, k)
        /\ ~At(b, "held", 0, 0)
    BY <1>2, <1>9, PlaceMeans, PlaceMeansNext
  <2>2. ASSUME NEW k, At(b, "burst", 0, k)'
        PROVE  k \in Nat /\ 1 <= k /\ At(b, "burst", 0, k + 1)
    <3>1. k \in 1 .. len - 1 /\ Me'.burst[k] = b
      BY <1>8, <2>2, PlaceMeansNext
    <3>2. k \in Nat /\ 1 <= k /\ k + 1 \in 1 .. len /\ Me.burst[k + 1] = b
      BY <1>8, <3>1
    <3> QED
      BY <1>8, <3>2, PlaceMeans
  <2>3. At(b, "held", 0, 0)' <=> At(b, "burst", 0, 1)
    <3>1. 1 \in 1 .. Len(Me.burst)
      BY <1>8
    <3> QED
      BY <1>8, <1>9, <3>1, PlaceMeans, PlaceMeansNext
  <2>4. PICK kind, q, k :
          /\ At(b, kind, q, k)
          /\ \A kind2, q2, k2 : At(b, kind2, q2, k2) => kind2 = kind /\ q2 = q /\ k2 = k
    BY <1>4 DEF OnePlace
  <2>5. CASE kind # "burst"
    <3>1. At(b, kind, q, k)'
      BY <2>1, <2>4, <2>5, Kinds
    <3>2. ASSUME NEW kind2, NEW q2, NEW k2, At(b, kind2, q2, k2)'
          PROVE  kind2 = kind /\ q2 = q /\ k2 = k
      <4>1. ~(kind2 = "burst" /\ q2 = 0) /\ ~(kind2 = "held" /\ q2 = 0 /\ k2 = 0)
        BY <2>2, <2>3, <2>4, <2>5, <3>2
      <4>2. At(b, kind2, q2, k2)
        BY <2>1, <3>2, <4>1, Kinds
      <4> QED
        BY <2>4, <4>2
    <3> QED
      BY <3>1, <3>2
  <2>6. CASE kind = "burst"
    <3>1. k \in 1 .. len /\ Me.burst[k] = b /\ q = 0
      BY <1>8, <2>4, <2>6, PlaceMeans, Kinds
    <3>2. ASSUME NEW kind2, NEW q2, NEW k2, At(b, kind2, q2, k2)'
          PROVE  \/ kind2 = "burst" /\ q2 = 0 /\ k2 \in Nat /\ 1 <= k2 /\ k2 + 1 = k
                 \/ kind2 = "held" /\ q2 = 0 /\ k2 = 0 /\ 1 = k
      <4>1. /\ ~(kind2 = "pool" /\ q2 = 0 /\ k2 = 0) /\ kind2 # "tx" /\ kind2 # "rx"
        BY <2>1, <2>4, <2>6, <3>2
      <4>2. (kind2 = "held" /\ q2 = 0 /\ k2 = 0) \/ (kind2 = "burst" /\ q2 = 0)
        BY <3>2, <4>1, Kinds
      <4>3. CASE kind2 = "burst" /\ q2 = 0
        BY <2>2, <2>4, <2>6, <3>2, <4>3
      <4>4. CASE kind2 = "held" /\ q2 = 0 /\ k2 = 0
        BY <2>3, <2>4, <2>6, <3>2, <4>4
      <4> QED
        BY <4>2, <4>3, <4>4
    <3>3. CASE k = 1
      <4>1. At(b, "held", 0, 0)'
        BY <2>3, <2>4, <2>6, <3>1, <3>3
      <4>2. \A k2 \in Nat : 1 <= k2 => k2 + 1 # k
        BY <3>3
      <4> QED
        BY <3>2, <4>1, <4>2
    <3>4. CASE k # 1
      <4>1. PICK j : j = k - 1
        OBVIOUS
      <4>2. j \in 1 .. len - 1 /\ j + 1 = k
        BY <1>8, <3>1, <3>4, <4>1
      <4>3. At(b, "burst", 0, j)'
        BY <1>8, <3>1, <4>2, PlaceMeansNext
      <4>4. \A k2 \in Nat : k2 + 1 = k => k2 = j
        BY <4>1
      <4> QED
        BY <3>2, <3>4, <4>2, <4>3, <4>4
    <3> QED
      BY <3>3, <3>4
  <2> QED
    BY <2>5, <2>6
<1>11. FlightInv' /\ TableContent' /\ SentContent'
  <2>1. FlightInv'
    BY <1>7 DEF FlightInv, In
  <2>2. TableContent' /\ SentContent'
    BY <1>2, <1>4 DEF TableContent, SentContent, NeverReflected, SentIntact
  <2> QED
    BY <2>1, <2>2
<1>12. QueueContent'
  BY <1>2, <1>4 DEF QueueContent
<1>13. MyContent'
  <2>1. \A k \in 1 .. len : From(frame[Me.burst[k]], Me.portid, seen)
    BY <1>4, <1>8 DEF MyContent
  <2>2. \A k \in 1 .. Len(Me'.burst) : From(frame'[Me'.burst[k]], Me'.portid, seen')
    <3> SUFFICES ASSUME NEW k \in 1 .. len - 1
                 PROVE  From(frame[Me.burst[k + 1]], Me.portid, seen)
      BY <1>2, <1>7, <1>8
    <3>1. k + 1 \in 1 .. len
      BY <1>8
    <3> QED
      BY <2>1, <3>1
  <2>3. From(Me'.f, Me'.portid, seen') /\ Me'.f = frame'[Me'.m]
    <3>1. 1 \in 1 .. len /\ Me'.f = frame[Me.burst[1]]
      BY <1>5, <1>7, <1>8 DEF f
    <3> QED
      BY <1>2, <1>7, <1>8, <2>1, <3>1
  <2> QED
    BY <1>7, <2>2, <2>3 DEF MyContent
<1> QED
  BY <1>10, <1>11, <1>12, <1>13 DEF MbufInv

\* Once a frame is in a TX buffer the lcore no longer holds it, whichever loop
\* the transmit call returns to.
LEMMA QueuedNotHeld ==
  ASSUME OneLcore, NoZeroAddress, IndInv, MbufInv, Me.pc \in {"put", "flush"},
         Me'.pc \in {"flush", Me.ret}, Me'.ret = Me.ret, Me'.i = Me.i,
         Me'.portid = Me.portid, Me'.mac_dst_found = Me.mac_dst_found
  PROVE  ~Held'
<1>1. FlightInv /\ Me \in LocalsOf(Full)
  BY Basics DEF MbufInv
<1>2. Me.ret \in {"drain", "scan", "flood"} /\ Me.txport \in Ports
  BY <1>1 DEF LocalsOf
<1>3. CASE Me'.pc = "flush" \/ Me.ret = "drain"
  BY <1>3 DEF Held
<1>4. CASE Me.ret = "scan" /\ Me'.pc = "scan"
  BY <1>1, <1>4 DEF FlightInv, In, Held
<1>5. CASE Me.ret = "flood" /\ Me'.pc = "flood"
  BY <1>1, <1>2, <1>5 DEF FlightInv, In, Held
<1> QED
  BY <1>2, <1>3, <1>4, <1>5

\* rte_eth_tx_buffer stores the mbuf at the end of the TX buffer.
LEMMA TxPutMbuf ==
  ASSUME OneLcore, NoZeroAddress, IndInv, MbufInv, TxPut(MasterLcore)
  PROVE  MbufInv'
<1> DEFINE c == MasterLcore
           slot == [mb |-> Me.m, queued |-> Me.f]
           new == Append(Me.out, slot)
           pc  == IF Len(new) >= MaxPktBurst THEN "flush" ELSE Me.ret
           out == IF Len(new) >= MaxPktBurst THEN new ELSE <<>>
<1>1. /\ c \in Lcores /\ Me \in LocalsOf(Full) /\ Me = lc[c] /\ Me' = lc'[c] /\ TypeInv
      /\ Sane(Me, Full)
      /\ \A q \in Ports : Len(txbuf[q]) \in Nat
  BY Basics
<1>2. /\ UNCHANGED <<mac_fwd_table, pool, frame, rxq, sent, seen>>
      /\ Me.pc = "put" /\ txbuf' = [txbuf EXCEPT ![Me.txport] = new]
  BY <1>1 DEF TxPut, tableVars
<1>3. Me' = [Me EXCEPT !.pc = pc, !.out = out]
  BY <1>1, LocalsAfter
<1>4. /\ FlightInv /\ OnePlace /\ QueueContent /\ MyContent /\ TableContent /\ SentContent
  BY DEF MbufInv
<1>5. /\ pc \in {"flush", Me.ret} /\ (pc = "flush" => out = new)
      /\ Me.ret \in {"scan", "flood"} /\ Me.txport \in Ports
      /\ Me.m \in Full /\ Me.f \in Frames
  <2>1. Me.ret \in {"drain", "scan", "flood"} /\ Me.txport \in Ports
    BY <1>1 DEF LocalsOf
  <2>2. Me.ret # "drain" /\ Me.m \in Full /\ Me.f \in Frames
    BY <1>1, <1>2 DEF Sane, Forwarding
  <2> QED
    BY <2>1, <2>2
<1>6. Me.out = txbuf[Me.txport]
  BY <1>2, <1>4 DEF FlightInv
<1>7. txbuf \in [Ports -> Seq(SlotsOf(Full))] /\ slot \in SlotsOf(Full)
      /\ slot.mb = Me.m /\ slot.queued = Me.f
  BY <1>1, <1>5 DEF TypeInv, DpdkType, SlotsOf
<1> HIDE DEF c, slot, pc, out
<1>8. PICK p, len, mb, sl : /\ p = Me.txport /\ len = Len(txbuf[Me.txport])
                            /\ mb = Me.m /\ sl = slot
  OBVIOUS
<1>9. /\ p \in Ports /\ len \in Nat /\ Len(txbuf[p]) = len
      /\ \A q \in Ports \ {p} : txbuf'[q] = txbuf[q]
      /\ Len(txbuf'[p]) = len + 1
      /\ \A k \in 1 .. len : txbuf'[p][k] = txbuf[p][k]
      /\ txbuf'[p][len + 1] = sl /\ sl.mb = mb
      /\ txbuf'[p] = new
  <2>1. /\ txbuf'[p] = new /\ \A q \in Ports \ {p} : txbuf'[q] = txbuf[q]
        /\ p \in Ports /\ len \in Nat /\ Len(txbuf[p]) = len /\ sl.mb = mb
    BY <1>1, <1>2, <1>5, <1>7, <1>8
  <2>2. new = Append(txbuf[p], sl) /\ txbuf[p] \in Seq(SlotsOf(Full)) /\ sl \in SlotsOf(Full)
    BY <1>6, <1>7, <1>8, <2>1
  <2>3. /\ Len(new) = len + 1 /\ new[len + 1] = sl
        /\ \A k \in 1 .. len : new[k] = txbuf[p][k]
    BY <2>1, <2>2, AppendProperties
  <2> QED
    BY <2>1, <2>3
<1> HIDE DEF new
<1>10. /\ Me'.pc = pc /\ Me'.out = out /\ Me'.f = Me.f /\ Me'.m = Me.m
       /\ Me'.burst = Me.burst /\ Me'.portid = Me.portid /\ Me'.txport = Me.txport
       /\ Me'.ret = Me.ret /\ Me'.i = Me.i /\ Me'.mac_dst_found = Me.mac_dst_found
  BY <1>1, <1>3 DEF LocalsOf
<1>11. Held /\ ~Held'
  <2>1. Held
    BY <1>2 DEF Held
  <2> QED
    BY <1>2, <1>5, <1>10, <2>1, QueuedNotHeld
<1>12. OnePlace'
  <2> SUFFICES ASSUME NEW b \in Mbufs
               PROVE  \E kind, q, k :
                        /\ At(b, kind, q, k)'
                        /\ \A kind2, q2, k2 : At(b, kind2, q2, k2)' =>
                             kind2 = kind /\ q2 = q /\ k2 = k
    BY DEF OnePlace
  <2>1. /\ At(b, "pool", 0, 0)' <=> At(b, "pool", 0, 0)
        /\ \A q, k : At(b, "rx", q, k)' <=> At(b, "rx", q, k)
        /\ \A k : At(b, "burst", 0, k)' <=> At(b, "burst", 0, k)
        /\ ~At(b, "held", 0, 0)'
        /\ At(b, "held", 0, 0) <=> mb = b
    BY <1>2, <1>8, <1>10, <1>11, PlaceMeans, PlaceMeansNext
  <2>2. ASSUME NEW q, NEW k
        PROVE  At(b, "tx", q, k)' <=>
                 At(b, "tx", q, k) \/ (q = p /\ k = len + 1 /\ mb = b)
    <3>1. CASE q # p
      <4>1. q \in Ports => txbuf'[q] = txbuf[q]
        BY <1>9, <3>1
      <4> QED
        BY <3>1, <4>1, PlaceMeans, PlaceMeansNext
    <3>2. CASE q = p
      <4>1. k \in 1 .. Len(txbuf'[p]) <=> k \in 1 .. len \/ k = len + 1
        BY <1>9
      <4>2. (k \in 1 .. Len(txbuf'[p]) /\ txbuf'[p][k].mb = b)
              <=> (k \in 1 .. len /\ txbuf[p][k].mb = b) \/ (k = len + 1 /\ mb = b)
        BY <1>9, <4>1
      <4> QED
        BY <1>9, <3>2, <4>2, PlaceMeans, PlaceMeansNext
    <3> QED
      BY <3>1, <3>2
  <2>3. PICK kind, q, k :
          /\ At(b, kind, q, k)
          /\ \A kind2, q2, k2 : At(b, kind2, q2, k2) => kind2 = kind /\ q2 = q /\ k2 = k
    BY <1>4 DEF OnePlace
  <2>4. CASE b # mb
    <3>1. At(b, kind, q, k)'
      BY <2>1, <2>2, <2>3, <2>4, Kinds
    <3>2. ASSUME NEW kind2, NEW q2, NEW k2, At(b, kind2, q2, k2)'
          PROVE  At(b, kind2, q2, k2)
      BY <2>1, <2>2, <2>4, <3>2, Kinds
    <3> QED
      BY <2>3, <3>1, <3>2
  <2>5. CASE b = mb
    <3>1. kind = "held"
      BY <2>1, <2>3, <2>5
    <3>2. PICK last : last = len + 1
      OBVIOUS
    <3>3. At(b, "tx", p, last)'
      BY <2>2, <2>5, <3>2
    <3>4. ASSUME NEW kind2, NEW q2, NEW k2, At(b, kind2, q2, k2)'
          PROVE  kind2 = "tx" /\ q2 = p /\ k2 = last
      <4>1. /\ ~(kind2 = "pool" /\ q2 = 0 /\ k2 = 0) /\ kind2 # "rx"
            /\ ~(kind2 = "burst" /\ q2 = 0) /\ ~(kind2 = "held" /\ q2 = 0 /\ k2 = 0)
        BY <2>1, <2>3, <3>1, <3>4
      <4>2. kind2 = "tx"
        BY <3>4, <4>1, Kinds
      <4> QED
        BY <2>2, <2>3, <3>1, <3>2, <3>4, <4>2
    <3> QED
      BY <3>3, <3>4
  <2> QED
    BY <2>4, <2>5
<1>13. FlightInv'
  <2>1. (In("scan")' <=> In("scan")) /\ (In("flood")' <=> In("flood"))
    BY <1>2, <1>5, <1>10 DEF In
  <2>2. Me'.pc \in {"scan", "flood", "flush"} /\ Me'.ret # "drain"
    BY <1>5, <1>10
  <2>3. Me'.pc = "flush" => Me'.out = txbuf'[Me'.txport]
    BY <1>5, <1>8, <1>9, <1>10
  <2> QED
    BY <1>2, <1>4, <1>10, <2>1, <2>2, <2>3 DEF FlightInv
<1>14. TableContent' /\ SentContent'
  BY <1>2, <1>4 DEF TableContent, SentContent, NeverReflected, SentIntact
<1>15. Me.f = frame[Me.m] /\ MayLeave(Me.f, Me.txport, seen)
  BY <1>2, <1>4, <1>11 DEF MyContent
<1>16. QueueContent'
  <2>1. ASSUME NEW q \in Ports, NEW k \in 1 .. Len(txbuf'[q])
        PROVE  /\ txbuf'[q][k].queued = frame'[txbuf'[q][k].mb]
               /\ MayLeave(txbuf'[q][k].queued, q, seen')
    <3>1. CASE q # p
      BY <1>2, <1>4, <1>9, <3>1 DEF QueueContent
    <3>2. CASE q = p
      <4>1. k \in 1 .. len \/ k = len + 1
        BY <1>9, <3>2
      <4>2. CASE k \in 1 .. len
        BY <1>2, <1>4, <1>9, <3>2, <4>2 DEF QueueContent
      <4>3. CASE k = len + 1
        <5>1. txbuf'[q][k] = sl /\ sl.queued = Me.f /\ sl.mb = Me.m
          BY <1>7, <1>8, <1>9, <3>2, <4>3
        <5> QED
          BY <1>2, <1>8, <1>15, <3>2, <5>1
      <4> QED
        BY <4>1, <4>2, <4>3
    <3> QED
      BY <3>1, <3>2
  <2> QED
    BY <1>2, <1>4, <2>1 DEF QueueContent
<1>17. MyContent'
  <2>1. Forwarding(Me) /\ Me'.pc \notin {"tx", "put"}
    BY <1>2, <1>5, <1>10 DEF Forwarding
  <2> QED
    BY <1>2, <1>4, <1>10, <1>11, <2>1 DEF MyContent
<1> QED
  BY <1>12, <1>13, <1>14, <1>16, <1>17 DEF MbufInv

\* rte_eth_tx_burst sends what is in the TX buffer and frees its mbufs.
LEMMA FlushMbuf ==
  ASSUME OneLcore, NoZeroAddress, IndInv, MbufInv, Flush(MasterLcore)
  PROVE  MbufInv'
<1> DEFINE c == MasterLcore
<1>1. /\ c \in Lcores /\ Me \in LocalsOf(Full) /\ Me = lc[c] /\ Me' = lc'[c] /\ TypeInv
      /\ \A q \in Ports : Len(txbuf[q]) \in Nat
  BY Basics
<1>2. /\ FlightInv /\ OnePlace /\ QueueContent /\ MyContent /\ TableContent /\ SentContent
  BY DEF MbufInv
<1>3. Me.pc = "flush" /\ Me.out = txbuf[Me.txport] /\ Me.txport \in Ports
  BY <1>1, <1>2 DEF Flush, FlightInv, LocalsOf
<1>4. PICK p, out : p = Me.txport /\ out = txbuf[Me.txport]
  OBVIOUS
<1>5. DOMAIN out = 1 .. Len(out) /\ Len(out) \in Nat /\ p \in Ports /\ out = txbuf[p]
  <2>1. txbuf \in [Ports -> Seq(SlotsOf(Full))]
    BY <1>1 DEF TypeInv, DpdkType
  <2>2. out \in Seq(SlotsOf(Full))
    BY <1>3, <1>4, <2>1
  <2> QED
    BY <1>3, <1>4, <2>2, LenProperties
<1>6. /\ UNCHANGED <<mac_fwd_table, frame, rxq, seen>>
      /\ sent' = sent \cup
           {[port |-> p, queued |-> out[k].queued, wire |-> frame[out[k].mb]] :
              k \in 1 .. Len(out)}
      /\ pool' = pool \cup {out[k].mb : k \in 1 .. Len(out)}
      /\ txbuf' = [txbuf EXCEPT ![p] = <<>>]
  BY <1>1, <1>3, <1>4, <1>5 DEF Flush, tableVars
<1>7. Me' = [Me EXCEPT !.pc = Me.ret, !.out = <<>>]
  BY <1>1, LocalsAfter
<1> HIDE DEF c
<1>8. /\ Me'.pc = Me.ret /\ Me'.f = Me.f /\ Me'.m = Me.m
      /\ Me'.burst = Me.burst /\ Me'.portid = Me.portid /\ Me'.txport = Me.txport
      /\ Me'.ret = Me.ret /\ Me'.i = Me.i /\ Me'.mac_dst_found = Me.mac_dst_found
      /\ Me.ret \in {"drain", "scan", "flood"}
  BY <1>1, <1>7 DEF LocalsOf
<1>9. ~Held /\ ~Held'
  <2>1. ~Held
    BY <1>3 DEF Held
  <2> QED
    BY <1>3, <1>8, <2>1, QueuedNotHeld
<1>10. /\ Len(txbuf'[p]) = 0 /\ \A q \in Ports \ {p} : txbuf'[q] = txbuf[q]
  <2>1. txbuf \in [Ports -> Seq(SlotsOf(Full))]
    BY <1>1 DEF TypeInv, DpdkType
  <2> QED
    BY <1>5, <1>6, <2>1
<1>11. OnePlace'
  <2> SUFFICES ASSUME NEW b \in Mbufs
               PROVE  \E kind, q, k :
                        /\ At(b, kind, q, k)'
                        /\ \A kind2, q2, k2 : At(b, kind2, q2, k2)' =>
                             kind2 = kind /\ q2 = q /\ k2 = k
    BY DEF OnePlace
  <2>1. /\ \A q, k : At(b, "rx", q, k)' <=> At(b, "rx", q, k)
        /\ \A k : At(b, "burst", 0, k)' <=> At(b, "burst", 0, k)
        /\ ~At(b, "held", 0, 0)' /\ ~At(b, "held", 0, 0)
    BY <1>6, <1>8, <1>9, PlaceMeans, PlaceMeansNext
  <2>2. ASSUME NEW q, NEW k
        PROVE  At(b, "tx", q, k)' <=> q # p /\ At(b, "tx", q, k)
    <3>1. CASE q = p
      <4>1. ~(k \in 1 .. Len(txbuf'[p]))
        BY <1>10
      <4> QED
        BY <3>1, <4>1, PlaceMeansNext
    <3>2. CASE q # p
      <4>1. q \in Ports => txbuf'[q] = txbuf[q]
        BY <1>10, <3>2
      <4> QED
        BY <3>2, <4>1, PlaceMeans, PlaceMeansNext
    <3> QED
      BY <3>1, <3>2
  <2>3. At(b, "pool", 0, 0)' <=> At(b, "pool", 0, 0) \/ \E k : At(b, "tx", p, k)
    <3>1. b \in pool' <=> b \in pool \/ \E k \in 1 .. Len(out) : out[k].mb = b
      BY <1>6
    <3>2. \A k : At(b, "tx", p, k) <=> k \in 1 .. Len(out) /\ out[k].mb = b
      BY <1>5, PlaceMeans
    <3>3. (At(b, "pool", 0, 0) <=> b \in pool) /\ (At(b, "pool", 0, 0)' <=> b \in pool')
      BY PlaceMeans, PlaceMeansNext
    <3> QED
      BY <3>1, <3>2, <3>3
  <2>4. PICK kind, q, k :
          /\ At(b, kind, q, k)
          /\ \A kind2, q2, k2 : At(b, kind2, q2, k2) => kind2 = kind /\ q2 = q /\ k2 = k
    BY <1>2 DEF OnePlace
  <2>5. CASE kind = "tx" /\ q = p
    <3>1. At(b, "pool", 0, 0)'
      BY <2>3, <2>4, <2>5
    <3>2. ASSUME NEW kind2, NEW q2, NEW k2, At(b, kind2, q2, k2)'
          PROVE  kind2 = "pool" /\ q2 = 0 /\ k2 = 0
      <4>1. /\ kind2 # "rx" /\ kind2 # "tx" /\ ~(kind2 = "burst" /\ q2 = 0)
            /\ ~(kind2 = "held" /\ q2 = 0 /\ k2 = 0)
        BY <2>1, <2>2, <2>4, <2>5, <3>2
      <4> QED
        BY <3>2, <4>1, Kinds
    <3> QED
      BY <3>1, <3>2
  <2>6. CASE ~(kind = "tx" /\ q = p)
    <3>1. \A k2 : ~At(b, "tx", p, k2)
      BY <2>4, <2>6
    <3>2. At(b, "pool", 0, 0)' <=> At(b, "pool", 0, 0)
      BY <2>3, <3>1
    <3>3. At(b, kind, q, k)'
      BY <2>1, <2>2, <2>4, <2>6, <3>2, Kinds
    <3>4. ASSUME NEW kind2, NEW q2, NEW k2, At(b, kind2, q2, k2)'
          PROVE  At(b, kind2, q2, k2)
      BY <2>1, <2>2, <3>2, <3>4, Kinds
    <3> QED
      BY <2>4, <3>3, <3>4
  <2> QED
    BY <2>5, <2>6
<1>12. FlightInv'
  <2>1. (In("scan")' <=> In("scan")) /\ (In("flood")' <=> In("flood"))
    BY <1>3, <1>8 DEF In
  <2>2. Me'.pc = "drain" => Me'.burst = <<>>
    BY <1>2, <1>3, <1>8 DEF FlightInv
  <2> QED
    BY <1>2, <1>3, <1>6, <1>8, <2>1, <2>2 DEF FlightInv
<1>13. TableContent'
  BY <1>2, <1>3, <1>6 DEF TableContent
<1>14. SentContent'
  <2>1. \A k \in 1 .. Len(out) : /\ out[k].queued = frame[out[k].mb]
                                 /\ MayLeave(out[k].queued, p, seen)
    BY <1>2, <1>5 DEF QueueContent
  <2>2. ASSUME NEW s \in sent'
        PROVE  /\ s.port = s.queued.port => <<s.queued.dst, s.port>> \in seen
               /\ s.wire = s.queued
    <3>1. CASE s \in sent
      BY <1>2, <3>1 DEF SentContent, NeverReflected, SentIntact
    <3>2. CASE s \notin sent
      <4>1. PICK k \in 1 .. Len(out) :
              s = [port |-> p, queued |-> out[k].queued, wire |-> frame[out[k].mb]]
        BY <1>6, <2>2, <3>2
      <4>2. s.port = p /\ s.queued = out[k].queued /\ s.wire = frame[out[k].mb]
        BY <4>1
      <4> QED
        BY <2>1, <4>2 DEF MayLeave
    <3> QED
      BY <3>1, <3>2
  <2> QED
    BY <1>6, <2>2 DEF SentContent, NeverReflected, SentIntact
<1>15. QueueContent'
  <2>1. ASSUME NEW q \in Ports, NEW k \in 1 .. Len(txbuf'[q])
        PROVE  /\ txbuf'[q][k].queued = frame'[txbuf'[q][k].mb]
               /\ MayLeave(txbuf'[q][k].queued, q, seen')
    <3>1. q # p
      BY <1>10
    <3> QED
      BY <1>2, <1>6, <1>10, <3>1 DEF QueueContent
  <2> QED
    BY <1>2, <1>6, <2>1 DEF QueueContent
<1>16. MyContent'
  <2>1. (Forwarding(Me') => Forwarding(Me)) /\ Me'.pc \notin {"tx", "put"}
    BY <1>3, <1>8 DEF Forwarding
  <2> QED
    BY <1>2, <1>6, <1>8, <1>9, <2>1 DEF MyContent
<1> QED
  BY <1>11, <1>12, <1>13, <1>14, <1>15, <1>16 DEF MbufInv

\* The invariant of the mbufs is one of the specification.
LEMMA MbufInvariant ==
  ASSUME OneLcore, NoZeroAddress, TwoPorts
  PROVE  Spec => [](IndInv /\ LearnInv /\ MbufInv)
<1>1. Init => MbufInv
  <2> SUFFICES ASSUME Init PROVE MbufInv
    OBVIOUS
  <2>1. MasterLcore \in Lcores
    BY IndInit, OnlyMe DEF IndInv
  <2>2. /\ Me.pc = "off" /\ Me.burst = <<>> /\ pool = Mbufs /\ sent = {}
        /\ \A p \in Ports : rxq[p] = <<>> /\ txbuf[p] = <<>>
        /\ \A i \in Entries : mac_fwd_table[i].addr = Zero
    BY <2>1 DEF Init, Me, Entries
  <2>3. ~Held /\ Len(Me.burst) = 0
        /\ \A p \in Ports : Len(rxq[p]) = 0 /\ Len(txbuf[p]) = 0
    BY <2>2 DEF Held
  <2>4. OnePlace
    <3> SUFFICES ASSUME NEW b \in Mbufs
                 PROVE  /\ At(b, "pool", 0, 0)
                        /\ \A kind, q, k : At(b, kind, q, k) =>
                             kind = "pool" /\ q = 0 /\ k = 0
      BY DEF OnePlace
    <3>1. /\ \A q \in Ports : \A k : k \notin 1 .. Len(rxq[q]) /\ k \notin 1 .. Len(txbuf[q])
          /\ \A k : k \notin 1 .. Len(Me.burst)
      BY <2>3
    <3> QED
      BY <2>2, <2>3, <3>1 DEF At
  <2>5. FlightInv
    BY <2>2 DEF FlightInv, In
  <2>6. QueueContent /\ MyContent
    BY <2>2, <2>3 DEF QueueContent, MyContent, Forwarding
  <2>7. TableContent /\ SentContent
    BY <2>2 DEF TableContent, SentContent, NeverReflected, SentIntact
  <2> QED
    BY <2>4, <2>5, <2>6, <2>7 DEF MbufInv
<1>2. IndInv /\ LearnInv /\ MbufInv /\ [Next]_vars => MbufInv'
  <2> SUFFICES ASSUME IndInv, LearnInv, MbufInv, [Next]_vars PROVE MbufInv'
    OBVIOUS
  <2>1. ASSUME NEW l \in Lcores, Lcore(l) PROVE MbufInv'
    <3>1. Lcore(MasterLcore)
      BY <2>1, OnlyMe DEF IndInv
    <3> QED
      BY <3>1, LoopMbuf, ScanMbuf, FloodMbuf, LoopsEndMbuf, TransmitMbuf, LearnMbuf,
         RxBurstMbuf, NextPacketMbuf, TxPutMbuf, FlushMbuf DEF Lcore
  <2>2. CASE UNCHANGED vars
    <3>1. UNCHANGED <<mac_fwd_table, txbuf, pool, frame, rxq, sent, seen, Me>>
      BY <2>2 DEF vars, tableVars, dpdkVars, Me
    <3>2. UNCHANGED <<Held, FlightInv, TableContent>>
      BY <3>1 DEF Held, FlightInv, TableContent, In
    <3> QED
      BY <3>1, <3>2, StillMbuf DEF MbufInv, MyContent
  <2> QED
    BY <2>1, <2>2, EnvironmentMbuf DEF Next
<1> QED
  BY <1>1, <1>2, LearnInvariant, PTL DEF Spec

\* With a single lcore, two ports and no frame that bears the zero address the
\* MAC table is sound: no address is entered twice, and an entry names a port
\* its host was heard on.
THEOREM TableIsSound ==
  ASSUME OneLcore, NoZeroAddress, TwoPorts
  PROVE  Spec => []TableSound
<1>1. IndInv /\ LearnInv /\ MbufInv => TableSound
  <2> SUFFICES ASSUME IndInv, LearnInv, MbufInv PROVE TableSound
    OBVIOUS
  <2>1. DOMAIN mac_fwd_table = Entries /\ MasterLcore \in Lcores
    BY Basics DEF TypeInv, TableType, Entries
  <2>2. TableInv /\ TableContent
    BY DEF LearnInv, MbufInv
  <2> QED
    BY <2>1, <2>2 DEF TableInv, TableContent, TableSound, Me
<1> QED
  BY <1>1, MbufInvariant, PTL

\* With a single lcore, two ports and no frame that bears the zero address,
\* whatever the burst size and the number of mbufs: whenever l2fwd_main_loop is
\* between frames, every mbuf is in the pool, in one RX queue or in one TX
\* buffer, and at one place there.
THEOREM MbufsConserved ==
  ASSUME OneLcore, NoZeroAddress, TwoPorts
  PROVE  Spec => []MbufConserved
<1>1. IndInv /\ MbufInv => MbufConserved
  <2> SUFFICES ASSUME IndInv, MbufInv, \A l \in Lcores : lc[l].pc \in {"off", "top", "done"},
                      NEW mb \in Mbufs
               PROVE  Cardinality(Places(mb)) = 1
    BY DEF MbufConserved
  <2>1. /\ TypeInv /\ Me.pc \in {"off", "top", "done"} /\ FlightInv /\ OnePlace
    BY Basics DEF MbufInv
  <2>2. Me.burst = <<>> /\ ~Held
    BY <2>1 DEF FlightInv, Held
  <2>3. /\ \A p \in Ports : DOMAIN rxq[p] = 1 .. Len(rxq[p])
        /\ \A p \in Ports : DOMAIN txbuf[p] = 1 .. Len(txbuf[p])
    <3>1. rxq \in [Ports -> Seq(Full)] /\ txbuf \in [Ports -> Seq(SlotsOf(Full))]
      BY <2>1 DEF TypeInv, DpdkType
    <3> QED
      BY <3>1, LenProperties
  <2>4. PICK kind, p, k :
          /\ At(mb, kind, p, k)
          /\ \A kind2, p2, k2 : At(mb, kind2, p2, k2) => kind2 = kind /\ p2 = p /\ k2 = k
    BY <2>1 DEF OnePlace
  <2>5. /\ \A s : s \in InRxq(mb) <=>
               \E q \in Ports : \E j \in 1 .. Len(rxq[q]) :
                 rxq[q][j] = mb /\ s = <<q, j>>
        /\ \A s : s \in InTxbuf(mb) <=>
               \E q \in Ports : \E j \in 1 .. Len(txbuf[q]) :
                 txbuf[q][j].mb = mb /\ s = <<q, j>>
    BY <2>3 DEF InRxq, InTxbuf
  <2>6. ~At(mb, "held", 0, 0) /\ \A j : ~At(mb, "burst", 0, j)
    <3>1. Len(Me.burst) = 0
      BY <2>2
    <3> QED
      BY <2>2, <3>1, PlaceMeans
  <2>7. /\ mb \in pool => kind = "pool"
        /\ \A q \in Ports : \A j \in 1 .. Len(rxq[q]) :
             rxq[q][j] = mb => kind = "rx" /\ q = p /\ j = k
        /\ \A q \in Ports : \A j \in 1 .. Len(txbuf[q]) :
             txbuf[q][j].mb = mb => kind = "tx" /\ q = p /\ j = k
    <3>1. \A q \in Ports : \A j \in 1 .. Len(rxq[q]) :
            rxq[q][j] = mb => At(mb, "rx", q, j)
      BY DEF At
    <3>2. \A q \in Ports : \A j \in 1 .. Len(txbuf[q]) :
            txbuf[q][j].mb = mb => At(mb, "tx", q, j)
      BY DEF At
    <3>3. mb \in pool => At(mb, "pool", 0, 0)
      BY DEF At
    <3> QED
      BY <2>4, <3>1, <3>2, <3>3
  <2>8. \E x : Places(mb) = {x}
    <3>1. CASE kind = "pool"
      <4>1. /\ mb \in pool
            /\ \A q \in Ports : \A j \in 1 .. Len(rxq[q]) : rxq[q][j] # mb
            /\ \A q \in Ports : \A j \in 1 .. Len(txbuf[q]) : txbuf[q][j].mb # mb
        BY <2>4, <2>7, <3>1 DEF At
      <4>2. InRxq(mb) = {} /\ InTxbuf(mb) = {}
        BY <2>5, <4>1
      <4>3. Places(mb) = {<<"pool">>}
        BY <4>1, <4>2 DEF Places
      <4> QED
        BY <4>3
    <3>2. CASE kind = "rx"
      <4>1. /\ mb \notin pool /\ p \in Ports /\ k \in 1 .. Len(rxq[p]) /\ rxq[p][k] = mb
            /\ \A q \in Ports : \A j \in 1 .. Len(rxq[q]) :
                 rxq[q][j] = mb => q = p /\ j = k
            /\ \A q \in Ports : \A j \in 1 .. Len(txbuf[q]) : txbuf[q][j].mb # mb
        BY <2>4, <2>7, <3>2 DEF At
      <4>2. InRxq(mb) = {<<p, k>>} /\ InTxbuf(mb) = {}
        <5>1. \A s : s \in InRxq(mb) <=> s = <<p, k>>
          BY <2>5, <4>1
        <5>2. \A s : s \notin InTxbuf(mb)
          BY <2>5, <4>1
        <5> QED
          BY <5>1, <5>2
      <4>3. Places(mb) = {<<"rx", <<p, k>>>>}
        BY <4>1, <4>2 DEF Places
      <4> QED
        BY <4>3
    <3>3. CASE kind = "tx"
      <4>1. /\ mb \notin pool /\ p \in Ports /\ k \in 1 .. Len(txbuf[p])
            /\ txbuf[p][k].mb = mb
            /\ \A q \in Ports : \A j \in 1 .. Len(txbuf[q]) :
                 txbuf[q][j].mb = mb => q = p /\ j = k
            /\ \A q \in Ports : \A j \in 1 .. Len(rxq[q]) : rxq[q][j] # mb
        BY <2>4, <2>7, <3>3 DEF At
      <4>2. InTxbuf(mb) = {<<p, k>>} /\ InRxq(mb) = {}
        <5>1. \A s : s \in InTxbuf(mb) <=> s = <<p, k>>
          BY SMTT(30), <2>5, <4>1
        <5>2. \A s : s \notin InRxq(mb)
          BY <2>5, <4>1
        <5> QED
          BY <5>1, <5>2
      <4>3. Places(mb) = {<<"tx", <<p, k>>>>}
        BY <4>1, <4>2 DEF Places
      <4> QED
        BY <4>3
    <3> QED
      BY <2>4, <2>6, <3>1, <3>2, <3>3, Kinds
  <2> QED
    BY <2>8, FS_Singleton
<1> QED
  BY <1>1, MbufInvariant, PTL

\* With a single lcore, two ports and no frame that bears the zero address a
\* frame leaves on the port it came in on only if its destination was heard
\* there.  (A frame for the zero address leaves on port 0 whatever its port.)
THEOREM FramesNotReflected ==
  ASSUME OneLcore, NoZeroAddress, TwoPorts
  PROVE  Spec => []NeverReflected
<1>1. MbufInv => NeverReflected
  BY DEF MbufInv, SentContent
<1> QED
  BY <1>1, MbufInvariant, PTL

\* With a single lcore, two ports and no frame that bears the zero address what
\* goes on the wire is what was queued.
\* With three ports it need not be: the same mbuf is queued, and freed, twice.
THEOREM FramesSentIntact ==
  ASSUME OneLcore, NoZeroAddress, TwoPorts
  PROVE  Spec => []SentIntact
<1>1. MbufInv => SentIntact
  BY DEF MbufInv, SentContent
<1> QED
  BY <1>1, MbufInvariant, PTL
=============================================================================
