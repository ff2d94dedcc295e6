------------------------------ MODULE BasicFwd ------------------------------
(***************************************************************************)
(* skeleton1/basicfwd.c: one lcore polls all ports in turn and forwards    *)
(* each burst as a whole, by the last octet of the address its first frame *)
(* is for: octet 6 + i to port i.  Bursts that begin with a broadcast, or  *)
(* with an address of no port, are dropped from sight: neither sent nor    *)
(* freed.                                                                  *)
(*                                                                         *)
(* DPDK (mbuf pool, rings, NICs) is external.  The kodo encoder and        *)
(* decoder only produce printed lines and are left out.                    *)
(***************************************************************************)
EXTENDS Naturals, Sequences, FiniteSets

CONSTANTS
  NbPorts,      \* rte_eth_dev_count()
  BurstSize,    \* BURST_SIZE
  Mbufs,        \* the mbuf pool
  Octets,       \* last octets of the addresses that frames are for
  BroadcastOctet  \* stands for the octet of a broadcast frame

ASSUME BasicFwdAssumption ==
  /\ IsFiniteSet(Mbufs) /\ NbPorts \in Nat /\ BurstSize \in Nat \ {0}
  /\ Octets \subseteq 0 .. 255 /\ BroadcastOctet \notin 0 .. 256

FwdPorts == 0 .. NbPorts - 1
NoOctet == 256     \* the content of an mbuf nobody has received into

VARIABLES
  main,      \* "setup", "exit" (rte_exit), "run", or "crash"
  ready,     \* ports that port_init has started, always 0 .. ready - 1
  port,      \* the loop variable of lcore_main
  pool,      \* free mbufs
  rxq, txq,  \* RX and TX ring of every port, sequences of mbufs
  octet,     \* data[5] of every mbuf
  stranded   \* history: mbufs lcore_main has forgotten

fwdVars == <<main, ready, port, pool, rxq, txq, octet, stranded>>
rings == <<pool, rxq, txq, octet, stranded>>

FwdInit ==
  /\ main = "setup" /\ ready = 0 /\ port = 0
  /\ pool = Mbufs /\ stranded = {}
  /\ rxq = [p \in FwdPorts |-> <<>>] /\ txq = [p \in FwdPorts |-> <<>>]
  /\ octet = [b \in Mbufs |-> NoOctet]

\* main: an odd number of ports, or fewer than two, is refused; a DPDK call
\* of the setup may fail.
SetupFails ==
  /\ main = "setup"
  /\ main' = "exit"
  /\ UNCHANGED <<ready, port, rings>>

\* port_init for the next port; after the last one lcore_main begins.
port_init ==
  /\ main = "setup" /\ NbPorts >= 2 /\ NbPorts % 2 = 0
  /\ ready' = ready + 1
  /\ main' = IF ready' = NbPorts THEN "run" ELSE "setup"
  /\ UNCHANGED <<port, rings>>

----------------------------------------------------------------------------
dst_macs == <<6, 7, 8, 9>>

\* i runs to sizeof(dst_macs), twice the number of entries, so what lies
\* behind the array is compared as well; it may or may not equal the octet.
SizeofDstMacs == 2 * Len(dst_macs)
Compared(behind) ==
  [i \in 0 .. SizeofDstMacs - 1 |->
     IF i < Len(dst_macs) THEN dst_macs[i + 1] ELSE behind[i]]

Hits(o, cells) == {i \in DOMAIN cells : cells[i] = o}

\* The first hit ends the loop.
FirstHit(hits) == CHOOSE i \in hits : \A k \in hits : i <= k

\* Mutant: the loop over the unsent frames starts at the burst's first.
Unsent_All(bufs, nb_tx) == {bufs[k] : k \in 1 .. Len(bufs)}

Unsent(bufs, nb_tx) == {bufs[k] : k \in nb_tx + 1 .. Len(bufs)}

\* rte_eth_tx_burst takes nb_tx of the burst; the rest is freed.
Transmit(out_port, bufs) ==
  IF out_port \in FwdPorts
  THEN \E nb_tx \in 0 .. Len(bufs) :
         /\ txq' = [txq EXCEPT ![out_port] = @ \o SubSeq(bufs, 1, nb_tx)]
         /\ pool' = pool \cup Unsent(bufs, nb_tx)
         /\ UNCHANGED <<main, stranded>>
  ELSE /\ main' = "crash"
       /\ UNCHANGED <<txq, pool, stranded>>

Strand(bufs) ==
  /\ stranded' = stranded \cup {bufs[k] : k \in DOMAIN bufs}
  /\ UNCHANGED <<main, txq, pool>>

\* What becomes of a burst: decided by the first frame alone.
Dispose(bufs) ==
  LET o == octet[bufs[1]] IN
  IF o = BroadcastOctet THEN Strand(bufs)
  ELSE \E behind \in [Len(dst_macs) .. SizeofDstMacs - 1 -> {o, NoOctet}] :
         LET hits == Hits(o, Compared(behind)) IN
         IF hits = {} THEN Strand(bufs) ELSE Transmit(FirstHit(hits), bufs)

\* One pass of the loop of lcore_main, for one port.
lcore_main ==
  LET nb_rx == IF Len(rxq[port]) < BurstSize THEN Len(rxq[port])
                                             ELSE BurstSize
      bufs  == SubSeq(rxq[port], 1, nb_rx)
  IN
  /\ main = "run"
  /\ rxq' = [rxq EXCEPT ![port] = SubSeq(@, nb_rx + 1, Len(@))]
  /\ IF nb_rx = 0 THEN UNCHANGED <<main, pool, txq, stranded>>
                  ELSE Dispose(bufs)
  /\ port' = (port + 1) % NbPorts
  /\ UNCHANGED <<ready, octet>>

----------------------------------------------------------------------------
\* A NIC receives a frame into a free mbuf.
Arrive(p, b, o) ==
  /\ p < ready /\ main # "exit" /\ main # "crash"
  /\ b \in pool
  /\ pool' = pool \ {b}
  /\ rxq' = [rxq EXCEPT ![p] = Append(@, b)]
  /\ octet' = [octet EXCEPT ![b] = o]
  /\ UNCHANGED <<main, ready, port, txq, stranded>>

\* A NIC has put the first frame of its TX ring on the wire.
Sent(p) ==
  /\ main # "exit" /\ main # "crash" /\ txq[p] # <<>>
  /\ pool' = pool \cup {Head(txq[p])}
  /\ txq' = [txq EXCEPT ![p] = Tail(@)]
  /\ UNCHANGED <<main, ready, port, rxq, octet, stranded>>

FwdNext ==
  \/ SetupFails
  \/ port_init
  \/ lcore_main
  \/ \E p \in FwdPorts, b \in Mbufs, o \in Octets \cup {BroadcastOctet} :
       Arrive(p, b, o)
  \/ \E p \in FwdPorts : Sent(p)

FwdSpec == FwdInit /\ [][FwdNext]_fwdVars

----------------------------------------------------------------------------
\* The places of the rings that hold mbuf b.
Slots(ring, b) ==
  UNION {{<<p, k>> : k \in {i \in DOMAIN ring[p] : ring[p][i] = b}} :
         p \in FwdPorts}

\* Every place that holds it.
Places(b) ==
  {<<"pool">> : x \in {b} \cap pool}
  \cup {<<"stranded">> : x \in {b} \cap stranded}
  \cup {<<"rx", s>> : s \in Slots(rxq, b)}
  \cup {<<"tx", s>> : s \in Slots(txq, b)}

\* No mbuf has two owners and none vanishes: it is free, waits at one place of
\* one ring, or lcore_main has forgotten it, however many frames of a burst
\* the NIC takes and whatever lies behind dst_macs.  (Freeing a frame the NIC
\* still has would let a later frame overwrite it.)
OneOwner ==
  main # "crash" => \A b \in Mbufs : Cardinality(Places(b)) = 1

\* A comment of lcore_main, "forward data according to received DST mac to a
\* specifc port", with octet 6 + i for port i: a frame waits for transmission
\* only at the port of its own address.  It holds when bursts are of one frame;
\* in a longer burst the first frame's address decides for the frames behind
\* it.
ByOwnAddress ==
  \A p \in FwdPorts : \A k \in DOMAIN txq[p] : octet[txq[p][k]] = 6 + p

\* "Free any unsent packets" says a comment: so the switch never runs out of
\* mbufs to receive with because lcore_main has forgotten them all.
NeverDeaf == main = "run" => stranded # Mbufs

\* "Run until the application is quit or killed" says the comment of the
\* loop: no frame ends it, whatever address it is for and whatever lies behind
\* dst_macs.
NoCrash == main # "crash"
=============================================================================
