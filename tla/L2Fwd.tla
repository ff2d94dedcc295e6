------------------------------- MODULE L2Fwd -------------------------------
(***************************************************************************)
(* l2fwd_daniel: a learning switch on DPDK.  main() sets up the ports and  *)
(* launches l2fwd_main_loop on every lcore; each lcore polls its own RX    *)
(* ports and runs l2fwd_learning_forward on every frame.  The MAC table,   *)
(* its counter and the TX buffers are shared by all lcores without locks:  *)
(* each access to them is a step of its own, and an lcore that was         *)
(* overtaken writes back what it had read.                                 *)
(*                                                                         *)
(* DPDK itself (mbuf pool, RX queues, TX buffers, NICs) is modelled from   *)
(* its use here.  A frame is abstracted to its addresses, a serial number  *)
(* and the port it came in on.                                             *)
(***************************************************************************)
EXTENDS Naturals, Sequences, FiniteSets

CONSTANTS
  Lcores,           \* IDs of the enabled lcores (EAL option -l)
  NbPorts,          \* rte_eth_dev_count()
  EnabledPorts,     \* l2fwd_enabled_port_mask (option -p)
  RxQueuePerLcore,  \* l2fwd_rx_queue_per_lcore (option -q)
  MacEntries,       \* MAC_ENTRIES
  MaxPktBurst,      \* MAX_PKT_BURST, also the size of a TX buffer
  MaxCheckTime,     \* MAX_CHECK_TIME
  Hosts,            \* MAC addresses that send frames
  Broadcast, Zero,  \* the broadcast address, and 00:00:00:00:00:00
  ZeroAddress,      \* may a frame bear the address Zero
  Mbufs, NoMbuf,    \* the mbuf pool; no mbuf
  SetupMayFail,     \* may a DPDK call of the port setup return an error
  TxMayRefuse,      \* may a NIC refuse frames because its TX ring is full
  MaxFrames         \* bound: frames that arrive

Ports == 0 .. NbPorts - 1

ASSUME SwitchAssumption ==
  /\ Lcores \subseteq Nat /\ IsFiniteSet(Lcores) /\ Lcores # {}
  /\ NbPorts \in Nat \ {0} /\ EnabledPorts \subseteq Ports
  /\ RxQueuePerLcore \in Nat \ {0}
  /\ NbPorts <= RxQueuePerLcore * Cardinality(Lcores)
  /\ MacEntries \in Nat \ {0} /\ MaxPktBurst \in Nat \ {0}
  /\ MaxCheckTime \in Nat \ {0} /\ MaxFrames \in Nat
  /\ IsFiniteSet(Hosts)
  /\ Broadcast \notin Hosts /\ Zero \notin Hosts /\ Broadcast # Zero
  /\ NoMbuf \notin Mbufs
  /\ ZeroAddress \in BOOLEAN
  /\ SetupMayFail \in BOOLEAN /\ TxMayRefuse \in BOOLEAN

\* The addresses frames come from and go to.
Sources      == IF ZeroAddress THEN Hosts \cup {Zero} ELSE Hosts
Destinations == Sources \cup {Broadcast}

VARIABLES
  mac_fwd_table,    \* entries [addr, port]; the array starts zeroed
  mac_counter,      \* next free entry
  txbuf,            \* tx_buffer[port]: sequence of [mb, queued]
  pool,             \* free mbufs
  frame,            \* contents of every mbuf
  rxq,              \* RX queue of every port, a sequence of mbufs
  lc,               \* local variables of every lcore
  main,             \* progress of main()
  portState,        \* "down", "started" or "closed"
  force_quit,
  fault,            \* memory error that ended the process, or "none"
  seen, sent,       \* history: <<source, port>> received; frames sent
  frames            \* frames that have arrived

tableVars == <<mac_fwd_table, mac_counter>>
dpdkVars  == <<txbuf, pool, frame, rxq, sent>>
ctlVars   == <<main, portState, force_quit>>
vars == <<tableVars, dpdkVars, lc, ctlVars, fault, seen, frames>>

Frames   == [no : Nat \ {0}, src : Sources, dst : Destinations, port : Ports]
NoFrame  == [no |-> 0, src |-> Zero, dst |-> Zero, port |-> 0]
Slots    == [mb : Mbufs, queued : Frames]

\* Where an lcore is: outside its loop (off, done), at the loop's head (top),
\* draining, polling (rx, next), forwarding (scan, flood), inside the DPDK
\* transmit calls (tx, put, flush), learning (addr, port, count).
LcorePCs == {"off", "done", "top", "drain", "rx", "next", "scan", "flood",
             "tx", "put", "flush", "addr", "port", "count"}

\* todo:   ports of rx_port_list still to visit      burst: pkts_burst
\* m, portid, i: the frame's mbuf, its port, the loop index
\* f: the frame as read, with s_addr and d_addr
\* mac_add, mac_dst_found: the flags of l2fwd_learning_forward
\* txport: port of the transmit call                 slot: mac_counter as read
\* out:    TX buffer as that call found it           ret: where it returns to
Locals ==
  [pc : LcorePCs, todo : Seq(Ports), burst : Seq(Mbufs),
   m : Mbufs \cup {NoMbuf}, f : Frames \cup {NoFrame}, portid : Ports,
   i : Nat, mac_add : BOOLEAN, mac_dst_found : BOOLEAN, txport : Ports,
   out : Seq(Slots),
   ret : {"drain", "scan", "flood"}, slot : Nat]

TypeOK ==
  /\ mac_fwd_table \in [0 .. MacEntries - 1 ->
                          [addr : Sources \cup {Zero}, port : Ports]]
  /\ mac_counter \in Nat
  /\ txbuf \in [Ports -> Seq(Slots)]
  /\ pool \subseteq Mbufs /\ frame \in [Mbufs -> Frames \cup {NoFrame}]
  /\ rxq \in [Ports -> Seq(Mbufs)]
  /\ lc \in [Lcores -> Locals]
  /\ main.pc \in {"init", "check", "run", "wait", "close", "exit"}
  /\ main.port \in Nat /\ main.count \in Nat /\ main.print \in BOOLEAN
  /\ portState \in [Ports -> {"down", "started", "closed"}]
  /\ force_quit \in BOOLEAN
  /\ fault \in {"none", "table overrun", "error callback"}
  /\ seen \subseteq Sources \X Ports
  /\ sent \subseteq [port : Ports, queued : Frames, wire : Frames]
  /\ frames \in 0 .. MaxFrames

Init ==
  /\ mac_fwd_table =
       [i \in 0 .. MacEntries - 1 |-> [addr |-> Zero, port |-> 0]]
  /\ mac_counter = 0
  /\ txbuf = [p \in Ports |-> <<>>] /\ rxq = [p \in Ports |-> <<>>]
  /\ pool = Mbufs /\ frame = [mb \in Mbufs |-> NoFrame]
  /\ lc = [l \in Lcores |->
             [pc |-> "off", todo |-> <<>>, burst |-> <<>>, m |-> NoMbuf,
              f |-> NoFrame, portid |-> 0, i |-> 0, mac_add |-> FALSE,
              mac_dst_found |-> FALSE, txport |-> 0, out |-> <<>>,
              ret |-> "drain", slot |-> 0]]
  /\ main = [pc |-> "init", port |-> 0, count |-> 0, print |-> FALSE]
  /\ portState = [p \in Ports |-> "down"]
  /\ force_quit = FALSE /\ fault = "none"
  /\ seen = {} /\ sent = {} /\ frames = 0

----------------------------------------------------------------------------
(* main(): port pairing, assignment of ports to lcores, setup.             *)

\* Mutant: the pair is entered in one direction only.
DstPort_OneWay(p) == IF p % 2 = 1 THEN p - 1 ELSE 0

\* l2fwd_dst_ports: neighbouring ports form pairs, a last odd one is its own.
DstPort(p) ==
  IF p % 2 = 1 THEN p - 1
  ELSE IF p + 1 < NbPorts THEN p + 1
  ELSE p

\* Each enabled lcore, in the order of IDs, takes RxQueuePerLcore ports.
Rank(l) == Cardinality({k \in Lcores : k < l})
RxPorts(l) ==
  LET first == Rank(l) * RxQueuePerLcore
  IN  Ports \cap (first .. first + RxQueuePerLcore - 1)

\* Mutant: the list holds port numbers counted from one.
RxPortList_OneBased(l) ==
  [k \in 1 .. Cardinality(RxPorts(l)) |-> Rank(l) * RxQueuePerLcore + k]

\* lcore_queue_conf[l].rx_port_list, in the order of port numbers.
RxPortList(l) ==
  [k \in 1 .. Cardinality(RxPorts(l)) |-> Rank(l) * RxQueuePerLcore + k - 1]

MasterLcore == CHOOSE l \in Lcores : \A k \in Lcores : l <= k

InitPort ==
  /\ main.pc = "init"
  /\ portState' = [portState EXCEPT ![main.port] = "started"]
  /\ main' = IF main.port + 1 < NbPorts
             THEN [main EXCEPT !.port = @ + 1]
             ELSE [main EXCEPT !.pc = "check", !.port = 0]
  /\ UNCHANGED <<tableVars, dpdkVars, lc, force_quit, fault, seen, frames>>

\* rte_exit: the process ends.
InitPortFailed ==
  /\ main.pc = "init" /\ SetupMayFail
  /\ main' = [main EXCEPT !.pc = "exit"]
  /\ UNCHANGED <<tableVars, dpdkVars, lc, portState, force_quit, fault, seen,
                 frames>>

\* rte_eal_mp_remote_launch; an lcore without ports returns at once.
Launched ==
  [l \in Lcores |->
     [lc[l] EXCEPT !.pc = IF RxPorts(l) = {} THEN "done" ELSE "top"]]

\* One round of check_all_ports_link_status; up: did every link report up.
\* It stops on force_quit, or after the round that prints the states.
CheckLinks(up) ==
  /\ main.pc = "check"
  /\ IF force_quit \/ main.print \/ main.count > MaxCheckTime
     THEN /\ main' = [main EXCEPT !.pc = "run"]
          /\ lc' = Launched
     ELSE /\ main' = [main EXCEPT
                         !.count = @ + 1,
                         !.print = up \/ main.count = MaxCheckTime - 1]
          /\ UNCHANGED lc
  /\ UNCHANGED <<tableVars, dpdkVars, portState, force_quit, fault, seen,
                 frames>>

\* signal_handler.
Signal ==
  /\ ~force_quit /\ main.pc # "exit"
  /\ force_quit' = TRUE
  /\ UNCHANGED <<tableVars, dpdkVars, lc, main, portState, fault, seen,
                 frames>>

\* Mutant: main waits for no lcore but its own.
LcoresDone_MasterOnly == lc[MasterLcore].pc = "done"

\* The master has left its own loop and rte_eal_wait_lcore has returned for
\* every slave.
LcoresDone == \A l \in Lcores : lc[l].pc = "done"

WaitLcores ==
  /\ main.pc = "run" /\ LcoresDone
  /\ main' = [main EXCEPT !.pc = "close"]
  /\ UNCHANGED <<tableVars, dpdkVars, lc, portState, force_quit, fault, seen,
                 frames>>

ClosePort ==
  /\ main.pc = "close"
  /\ portState' = IF main.port \in EnabledPorts
                  THEN [portState EXCEPT ![main.port] = "closed"]
                  ELSE portState
  /\ main' = IF main.port + 1 < NbPorts
             THEN [main EXCEPT !.port = @ + 1]
             ELSE [main EXCEPT !.pc = "exit"]
  /\ UNCHANGED <<tableVars, dpdkVars, lc, force_quit, fault, seen, frames>>

----------------------------------------------------------------------------
(* l2fwd_main_loop.                                                        *)

\* Mutant: force_quit is not volatile, and the lcore never sees it change.
LoopExit_Never(l) == FALSE /\ UNCHANGED vars

LoopExit(l) ==
  /\ lc[l].pc = "top" /\ force_quit
  /\ lc' = [lc EXCEPT ![l].pc = "done"]
  /\ UNCHANGED <<tableVars, dpdkVars, ctlVars, fault, seen, frames>>

\* More than BURST_TX_DRAIN_US have passed since the last drain.
LoopDrain(l) ==
  /\ lc[l].pc = "top" /\ ~force_quit
  /\ lc' = [lc EXCEPT ![l].pc = "drain", ![l].todo = RxPortList(l)]
  /\ UNCHANGED <<tableVars, dpdkVars, ctlVars, fault, seen, frames>>

LoopPoll(l) ==
  /\ lc[l].pc = "top" /\ ~force_quit
  /\ lc' = [lc EXCEPT ![l].pc = "rx", ![l].todo = RxPortList(l)]
  /\ UNCHANGED <<tableVars, dpdkVars, ctlVars, fault, seen, frames>>

DrainDone(l) ==
  /\ lc[l].pc = "drain" /\ lc[l].todo = <<>>
  /\ lc' = [lc EXCEPT ![l].pc = "rx", ![l].todo = RxPortList(l)]
  /\ UNCHANGED <<tableVars, dpdkVars, ctlVars, fault, seen, frames>>

\* rte_eth_tx_buffer_flush looks at the buffer of the next port, and returns
\* at once if it is empty.
DrainPort(l) ==
  /\ lc[l].pc = "drain" /\ lc[l].todo # <<>>
  /\ LET p == DstPort(Head(lc[l].todo))
     IN  lc' = [lc EXCEPT ![l].pc = IF txbuf[p] = <<>> THEN "drain"
                                                      ELSE "flush",
                          ![l].todo = Tail(@), ![l].txport = p,
                          ![l].out = txbuf[p], ![l].ret = "drain"]
  /\ UNCHANGED <<tableVars, dpdkVars, ctlVars, fault, seen, frames>>

\* Mutant: the buffer keeps its length.
Flush_KeepLength(l) ==
  LET p == lc[l].txport  out == lc[l].out IN
  /\ lc[l].pc = "flush"
  /\ sent' = sent \cup
       {[port |-> p, queued |-> out[k].queued, wire |-> frame[out[k].mb]] :
          k \in DOMAIN out}
  /\ pool' = pool \cup {out[k].mb : k \in DOMAIN out}
  /\ lc' = [lc EXCEPT ![l].pc = lc[l].ret, ![l].out = <<>>]
  /\ UNCHANGED <<tableVars, txbuf, frame, rxq, ctlVars, fault, seen, frames>>

\* rte_eth_tx_burst hands the frames to the NIC, which returns their mbufs to
\* the pool; then the buffer's length becomes 0.
Flush(l) ==
  LET p == lc[l].txport  out == lc[l].out IN
  /\ lc[l].pc = "flush"
  /\ sent' = sent \cup
       {[port |-> p, queued |-> out[k].queued, wire |-> frame[out[k].mb]] :
          k \in DOMAIN out}
  /\ pool' = pool \cup {out[k].mb : k \in DOMAIN out}
  /\ txbuf' = [txbuf EXCEPT ![p] = <<>>]
  /\ lc' = [lc EXCEPT ![l].pc = lc[l].ret, ![l].out = <<>>]
  /\ UNCHANGED <<tableVars, frame, rxq, ctlVars, fault, seen, frames>>

\* Frames the NIC refuses go to rte_eth_tx_buffer_count_callback, which adds
\* their number to *userdata: the address 1 here.
FlushRefused(l) ==
  /\ lc[l].pc = "flush" /\ TxMayRefuse
  /\ fault' = "error callback"
  /\ UNCHANGED <<tableVars, dpdkVars, lc, ctlVars, seen, frames>>

RxDone(l) ==
  /\ lc[l].pc = "rx" /\ lc[l].todo = <<>>
  /\ lc' = [lc EXCEPT ![l].pc = "top"]
  /\ UNCHANGED <<tableVars, dpdkVars, ctlVars, fault, seen, frames>>

\* rte_eth_rx_burst on the next port.
RxBurst(l) ==
  /\ lc[l].pc = "rx" /\ lc[l].todo # <<>>
  /\ LET p == Head(lc[l].todo)
         n == IF Len(rxq[p]) < MaxPktBurst THEN Len(rxq[p]) ELSE MaxPktBurst
     IN  /\ lc' = [lc EXCEPT ![l].pc = "next", ![l].todo = Tail(@),
                             ![l].portid = p,
                             ![l].burst = SubSeq(rxq[p], 1, n)]
         /\ rxq' = [rxq EXCEPT ![p] = SubSeq(@, n + 1, Len(@))]
  /\ UNCHANGED <<tableVars, txbuf, pool, frame, sent, ctlVars, fault, seen,
                 frames>>

BurstDone(l) ==
  /\ lc[l].pc = "next" /\ lc[l].burst = <<>>
  /\ lc' = [lc EXCEPT ![l].pc = "rx", ![l].m = NoMbuf, ![l].f = NoFrame]
  /\ UNCHANGED <<tableVars, dpdkVars, ctlVars, fault, seen, frames>>

\* l2fwd_learning_forward copies both addresses before it does anything else.
NextPacket(l) ==
  /\ lc[l].pc = "next" /\ lc[l].burst # <<>>
  /\ lc' = [lc EXCEPT ![l].pc = "scan", ![l].burst = Tail(@),
                      ![l].m = Head(lc[l].burst),
                      ![l].f = frame[Head(lc[l].burst)],
                      ![l].i = 0, ![l].mac_add = FALSE,
                      ![l].mac_dst_found = FALSE]
  /\ UNCHANGED <<tableVars, dpdkVars, ctlVars, fault, seen, frames>>

----------------------------------------------------------------------------
(* l2fwd_learning_forward.                                                 *)

\* Mutant: the flag is assigned by every comparison.
SrcKnown_Last(l, e) == e.addr = lc[l].f.src

\* mac_add once entry e has been compared with the source.
SrcKnown(l, e) == lc[l].mac_add \/ e.addr = lc[l].f.src

\* One turn of the loop over the table: compare, and transmit on a match.
Scan(l) ==
  /\ lc[l].pc = "scan" /\ lc[l].i < MacEntries
  /\ LET e == mac_fwd_table[lc[l].i]
         hit == e.addr = lc[l].f.dst
     IN  lc' = [lc EXCEPT ![l].pc = IF hit THEN "tx" ELSE "scan",
                          ![l].i = @ + 1,
                          ![l].mac_add = SrcKnown(l, e),
                          ![l].mac_dst_found = @ \/ hit,
                          ![l].txport = IF hit THEN e.port ELSE @,
                          ![l].ret = "scan"]
  /\ UNCHANGED <<tableVars, dpdkVars, ctlVars, fault, seen, frames>>

\* Mutant: every source is added, known or not.
AfterForward_Always(l) == "addr"

\* Where l2fwd_learning_forward goes once the frame is queued.
AfterForward(l) == IF lc[l].mac_add THEN "next" ELSE "addr"

ScanDone(l) ==
  /\ lc[l].pc = "scan" /\ lc[l].i = MacEntries
  /\ lc' = [lc EXCEPT ![l].pc = IF lc[l].mac_dst_found THEN AfterForward(l)
                                                       ELSE "flood",
                      ![l].i = 0]
  /\ UNCHANGED <<tableVars, dpdkVars, ctlVars, fault, seen, frames>>

\* Mutant: the frame also goes back to where it came from.
FloodsTo_All(l, p) == TRUE

FloodsTo(l, p) == p # lc[l].portid

\* Flood the packet out to all ports but its own: the same mbuf each time.
Flood(l) ==
  /\ lc[l].pc = "flood" /\ lc[l].i < NbPorts
  /\ lc' = [lc EXCEPT ![l].pc = IF FloodsTo(l, lc[l].i) THEN "tx" ELSE "flood",
                      ![l].txport = lc[l].i, ![l].ret = "flood",
                      ![l].i = @ + 1]
  /\ UNCHANGED <<tableVars, dpdkVars, ctlVars, fault, seen, frames>>

FloodDone(l) ==
  /\ lc[l].pc = "flood" /\ lc[l].i = NbPorts
  /\ lc' = [lc EXCEPT ![l].pc = AfterForward(l)]
  /\ UNCHANGED <<tableVars, dpdkVars, ctlVars, fault, seen, frames>>

\* rte_eth_tx_buffer: read the buffer's length, then store the mbuf there
\* and the new length; a full buffer is flushed.
TxRead(l) ==
  /\ lc[l].pc = "tx"
  /\ lc' = [lc EXCEPT ![l].pc = "put", ![l].out = txbuf[lc[l].txport]]
  /\ UNCHANGED <<tableVars, dpdkVars, ctlVars, fault, seen, frames>>

TxPut(l) ==
  LET new == Append(lc[l].out, [mb |-> lc[l].m, queued |-> lc[l].f]) IN
  /\ lc[l].pc = "put"
  /\ txbuf' = [txbuf EXCEPT ![lc[l].txport] = new]
  /\ LET full == Len(new) >= MaxPktBurst
     IN  lc' = [lc EXCEPT ![l].pc = IF full THEN "flush" ELSE lc[l].ret,
                          ![l].out = IF full THEN new ELSE <<>>]
  /\ UNCHANGED <<tableVars, pool, frame, rxq, sent, ctlVars, fault, seen,
                 frames>>

\* mac_fwd_table[mac_counter].d_addr = s_addr, whatever mac_counter is.
LearnAddr(l) ==
  /\ lc[l].pc = "addr"
  /\ IF mac_counter < MacEntries
     THEN /\ mac_fwd_table' =
               [mac_fwd_table EXCEPT ![mac_counter].addr = lc[l].f.src]
          /\ lc' = [lc EXCEPT ![l].pc = "port", ![l].slot = mac_counter]
          /\ UNCHANGED fault
     ELSE /\ fault' = "table overrun"
          /\ UNCHANGED <<mac_fwd_table, lc>>
  /\ UNCHANGED <<mac_counter, dpdkVars, ctlVars, seen, frames>>

\* mac_fwd_table[mac_counter].port = portid, with mac_counter as read before
\* or read again.
LearnPort(l) ==
  /\ lc[l].pc = "port"
  /\ \E k \in {lc[l].slot, mac_counter} :
       IF k < MacEntries
       THEN /\ mac_fwd_table' = [mac_fwd_table EXCEPT ![k].port = lc[l].portid]
            /\ lc' = [lc EXCEPT ![l].pc = "count", ![l].slot = k]
            /\ UNCHANGED fault
       ELSE /\ fault' = "table overrun"
            /\ UNCHANGED <<mac_fwd_table, lc>>
  /\ UNCHANGED <<mac_counter, dpdkVars, ctlVars, seen, frames>>

\* mac_counter++, on the value read before or on a fresh one.
LearnCount(l) ==
  /\ lc[l].pc = "count"
  /\ mac_counter' \in {lc[l].slot + 1, mac_counter + 1}
  /\ lc' = [lc EXCEPT ![l].pc = "next"]
  /\ UNCHANGED <<mac_fwd_table, dpdkVars, ctlVars, fault, seen, frames>>

----------------------------------------------------------------------------
(* The network: a frame arrives, if the NIC finds an mbuf for it.          *)

Arrive(p, src, dst) ==
  /\ frames < MaxFrames /\ portState[p] = "started" /\ src # dst
  /\ frames' = frames + 1
  /\ seen' = seen \cup {<<src, p>>}
  /\ \E mb \in pool :
       /\ pool' = pool \ {mb}
       /\ frame' = [frame EXCEPT ![mb] = [no |-> frames + 1, src |-> src,
                                          dst |-> dst, port |-> p]]
       /\ rxq' = [rxq EXCEPT ![p] = Append(@, mb)]
  /\ UNCHANGED <<tableVars, txbuf, sent, lc, ctlVars, fault>>

----------------------------------------------------------------------------
Main ==
  \/ InitPort \/ InitPortFailed
  \/ \E up \in BOOLEAN : CheckLinks(up)
  \/ WaitLcores \/ ClosePort

Lcore(l) ==
  \/ LoopExit(l) \/ LoopDrain(l) \/ LoopPoll(l)
  \/ DrainPort(l) \/ DrainDone(l) \/ Flush(l) \/ FlushRefused(l)
  \/ RxBurst(l) \/ RxDone(l) \/ NextPacket(l) \/ BurstDone(l)
  \/ Scan(l) \/ ScanDone(l) \/ Flood(l) \/ FloodDone(l)
  \/ TxRead(l) \/ TxPut(l)
  \/ LearnAddr(l) \/ LearnPort(l) \/ LearnCount(l)

Network ==
  \E p \in Ports, src \in Sources, dst \in Destinations : Arrive(p, src, dst)

\* A memory error ends the process; so does main's return.
Next ==
  /\ fault = "none" /\ main.pc # "exit"
  /\ Main \/ Signal \/ Network \/ \E l \in Lcores : Lcore(l)

Spec == Init /\ [][Next]_vars

\* Every lcore runs on a CPU of its own.  Its clock advances, so that a drain
\* falls due again and again.
Fairness ==
  /\ WF_vars(fault = "none" /\ Main)
  /\ \A l \in Lcores : /\ WF_vars(fault = "none" /\ Lcore(l))
                       /\ SF_vars(fault = "none" /\ LoopDrain(l))

FairSpec == Spec /\ Fairness

----------------------------------------------------------------------------
(* Properties.                                                             *)

\* The MAC table is sound: two entries never share an address, and an entry
\* names a port on which its host was really heard.
TableSound ==
  /\ \A i, j \in DOMAIN mac_fwd_table :
       mac_fwd_table[i].addr = mac_fwd_table[j].addr
         => i = j \/ mac_fwd_table[i].addr = Zero
  /\ \A i \in DOMAIN mac_fwd_table :
       mac_fwd_table[i].addr # Zero
         => \/ <<mac_fwd_table[i].addr, mac_fwd_table[i].port>> \in seen
            \/ \E l \in Lcores : lc[l].pc = "port" /\ lc[l].slot = i

\* l2fwd_learning_forward never writes past the end of the MAC table as long
\* as frames come from no more addresses than the table has entries: no host
\* takes a second entry.  Nothing in the code keeps a further host out.
NoTableOverrun ==
  Cardinality(Sources) <= MacEntries => fault # "table overrun"

\* "Add MAC address to MAC table" says a comment: however many hosts there are,
\* an address that is learned is written into the table.
LearnedInTable == fault # "table overrun"

\* Where an mbuf is in the RX queues, and in the TX buffers.
InRxq(mb) ==
  UNION {{<<p, k>> : k \in {j \in DOMAIN rxq[p] : rxq[p][j] = mb}} : p \in Ports}
InTxbuf(mb) ==
  UNION {{<<p, k>> : k \in {j \in DOMAIN txbuf[p] : txbuf[p][j].mb = mb}} :
         p \in Ports}

\* The places an mbuf is in: the pool, an RX queue, a TX buffer.
Places(mb) ==
  {<<"pool">> : x \in {mb} \cap pool}
  \cup {<<"rx", s>> : s \in InRxq(mb)} \cup {<<"tx", s>> : s \in InTxbuf(mb)}

\* No mbuf is lost, queued twice or freed while queued: whenever no frame is
\* being handled each mbuf is in exactly one place.  This needs two ports, so
\* that flooding serves one, and no frame to the address Zero, which every
\* empty entry of the table matches.
MbufConserved ==
  (\A l \in Lcores : lc[l].pc \in {"off", "top", "done"})
    => \A mb \in Mbufs : Cardinality(Places(mb)) = 1

\* "Check if MAC forwarding table has port entry for dst": a frame leaves on
\* the port it came in on only if its destination has been heard there;
\* otherwise it is flooded, and flooding spares that port.
NeverReflected ==
  \A s \in sent : s.port = s.queued.port => <<s.queued.dst, s.port>> \in seen

\* "Flood the packet out to all ports": what a port puts on the wire is the
\* frame that was queued for it, not what the mbuf holds by then.
SentIntact == \A s \in sent : s.wire = s.queued

\* "Each logical core is assigned a dedicated TX queue on each port": two
\* lcores are never inside transmit calls on the same queue of a port.
DedicatedTxQueue ==
  \A k, l \in Lcores :
    ( /\ lc[k].pc \in {"put", "flush"} /\ lc[l].pc \in {"put", "flush"}
      /\ lc[k].txport = lc[l].txport )
    => k = l

\* main closes the ports only after every lcore has left its loop, and starts
\* all of them before any lcore enters it.
NoUseOfClosedPort ==
  \A l \in Lcores :
    lc[l].pc \notin {"off", "done"}
      => \A p \in Ports : portState[p] = "started"

\* SIGINT or SIGTERM ends the program whatever its lcores are doing.
QuitTerminates == force_quit ~> main.pc = "exit" \/ fault # "none"

\* Every frame that arrives is sent, even one that waits in a TX buffer which
\* never fills up: as arrivals are bounded, it is enough that again and again
\* nothing is outstanding.  On quit the buffers may be lost.
EveryFrameForwarded ==
  []<>(force_quit \/ {s.queued.no : s \in sent} = 1 .. frames)
=============================================================================
